----------------------------- MODULE ClientState -----------------------------
(***************************************************************************)
(* The ClientState enumeration of aws_iot_mqtt_client.h and the predicates *)
(* the MQTT client decides by.  Every API function of the client starts by *)
(* comparing the state with one of these sets.                             *)
(***************************************************************************)

ConnectedStates ==
  {"CONNECTED_IDLE", "YIELD_IN_PROGRESS", "PUBLISH_IN_PROGRESS",
   "SUBSCRIBE_IN_PROGRESS", "UNSUBSCRIBE_IN_PROGRESS",
   "RESUBSCRIBE_IN_PROGRESS", "WAIT_FOR_CB_RETURN"}

ClientStates ==
  ConnectedStates \cup
  {"INVALID", "INITIALIZED", "CONNECTING", "DISCONNECTING",
   "DISCONNECTED_ERROR", "DISCONNECTED_MANUALLY", "PENDING_RECONNECT"}

\* aws_iot_mqtt_is_client_connected
IsConnected(s) == s \in ConnectedStates

\* _aws_iot_mqtt_is_client_state_valid_for_connect
ValidForConnect(s) ==
  s \in {"INITIALIZED", "DISCONNECTED_ERROR", "DISCONNECTED_MANUALLY",
         "PENDING_RECONNECT"}

\* The four request/acknowledge operations of the client.
Requests == {"publish", "subscribe", "unsubscribe", "resubscribe"}

\* The state an operation claims for the time it runs.
InProgress(fn) ==
  CASE fn = "publish"     -> "PUBLISH_IN_PROGRESS"
    [] fn = "subscribe"   -> "SUBSCRIBE_IN_PROGRESS"
    [] fn = "unsubscribe" -> "UNSUBSCRIBE_IN_PROGRESS"
    [] fn = "resubscribe" -> "RESUBSCRIBE_IN_PROGRESS"

\* The states from which an operation may be claimed: a request may also be
\* made from a message callback, a resubscribe may not.
ClaimableFrom(fn) ==
  IF fn = "resubscribe" THEN {"CONNECTED_IDLE"}
  ELSE {"CONNECTED_IDLE", "WAIT_FOR_CB_RETURN"}

\* The states in which no operation is under way.
RestingStates ==
  {"INITIALIZED", "CONNECTED_IDLE", "DISCONNECTED_ERROR",
   "DISCONNECTED_MANUALLY", "PENDING_RECONNECT"}
=============================================================================
