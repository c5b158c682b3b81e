----------------------------- MODULE MCMqttClient -----------------------------
(***************************************************************************)
(* Instances of MqttClient for TLC.  An application has a main thread and  *)
(* other threads, each kind with the API functions it calls, and switches  *)
(* automatic reconnect on or off at the start.                             *)
(***************************************************************************)
EXTENDS MqttClientContract

CONSTANTS Main, MainCalls, OtherCalls, StartAuto

CallsDef == [t \in Threads |-> IF t = Main THEN MainCalls ELSE OtherCalls]

AppInit == Init /\ autoReconnect \in StartAuto
AppSpec == AppInit /\ [][Next]_vars

\* The main loop of an application whose first connect has succeeded.
ConnectedInit == InitIn("CONNECTED_IDLE", TRUE) /\ autoReconnect \in StartAuto
FairAppSpec == ConnectedInit /\ [][Next]_vars /\ Fairness
=============================================================================
