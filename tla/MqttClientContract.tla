-------------------------- MODULE MqttClientContract --------------------------
(***************************************************************************)
(* MqttClient, used by one thread, implements ClientContract.  The stack   *)
(* of operations is read off the state word and the call stack: the call   *)
(* that answers for the state word is the innermost operation, the call    *)
(* below it that answers for the word it has saved is the next one, and so *)
(* on until a word is reached for which no operation is needed.            *)
(***************************************************************************)
EXTENDS MqttClient, Sequences

\* The state a frame found when it claimed the client.
FoundBy(f) == IF f.fn \in {"yield", "handle_disconnect"} THEN "CONNECTED_IDLE" ELSE f.saved

\* The operation a frame is, for the contract.
OperationOf(f) ==
  CASE f.fn = "deliver"           -> <<"callback">>
    [] f.fn = "disconnect"        -> <<>>
    [] f.fn = "handle_disconnect" -> <<"yield">>
    [] OTHER                      -> <<f.fn>>

OperationFns == Requests \cup {"yield", "handle_disconnect", "deliver", "disconnect"}

\* The operations of a frame and those below it, for each state word: below
\* gives them for the frames below.
Atop(f, below) ==
  [s \in ClientStates |->
     IF s = "CONNECTED_IDLE" THEN <<>>
     ELSE IF f.fn \in OperationFns /\ s \in Claims(f)
          THEN below[FoundBy(f)] \o OperationOf(f)
          ELSE below[s]]

\* OpsOf(calls)[d][s]: the operations that the first d frames of a call stack
\* stand for when the state word is s.
OpsOf(calls) ==
  LET Ops[d \in 0..MaxDepth] ==
        IF d = 0 THEN [s \in ClientStates |-> <<>>] ELSE Atop(calls[d], Ops[d - 1])
  IN Ops

\* The operations under way.
OpsNow(t) == OpsOf(stack[t])[depth[t]][clientState]

\* handle_disconnect is under way: the connection is lost, whatever word the
\* disconnect inside it leaves.
LosingIt(t) == \E d \in 1..depth[t] : stack[t][d].fn = "handle_disconnect"

\* A yield has called attempt_reconnect, or goes on after it although a
\* callback has closed the client.
Renewing(t) ==
  \E d \in 1..depth[t] :
    /\ stack[t][d].fn = "yield"
    /\ \/ stack[t][d].pc = "reconn"
       \/ /\ clientState = "DISCONNECTED_MANUALLY"
          /\ stack[t][d].pc \in {"until", "loop", "cycle"}

LinkOf(t) ==
  CASE clientState = "INITIALIZED"           -> "new"
    [] clientState = "CONNECTING"            -> "connecting"
    [] IsConnected(clientState)              -> "up"
    [] clientState = "DISCONNECTING"         -> "closing"
    [] clientState = "DISCONNECTED_MANUALLY" -> IF LosingIt(t) THEN "lost" ELSE "closed"
    [] clientState = "DISCONNECTED_ERROR"    -> "lost"
    [] clientState = "PENDING_RECONNECT"     -> "waiting"

\* The thread that uses the client.
User == CHOOSE t \in Threads : TRUE

Contract ==
  INSTANCE ClientContract WITH
    link     <- LinkOf(User),
    renewing <- Renewing(User),
    ops      <- OpsNow(User)

\* Calls that nest through callbacks, fail, disconnect or reconnect the client
\* in the middle of others leave the state word as if the client had kept a
\* stack of operations.
ImplementsContract == Contract!Spec
=============================================================================
