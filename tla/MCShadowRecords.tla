--------------------------- MODULE MCShadowRecords ---------------------------
(***************************************************************************)
(* ShadowRecords for TLC.                                                  *)
(***************************************************************************)
EXTENDS ShadowRecords

Environment(actions, topics, failures, number, versions) ==
  [actions |-> actions, topics |-> topics, callbackActs |-> FALSE, failures |-> failures,
   switches |-> FALSE, requests |-> number, versions |-> versions]

\* Requests that share topics, and a wait list smaller than their number.
Sharing == Environment({"get", "update"}, 4, {"publish"}, 3, 0)

\* A full subscription list, everything may fail, callbacks make requests.
Limits ==
  [Environment({"update"}, 2, {"publish", "subscribe", "unsubscribe"}, 2, 0)
     EXCEPT !.callbackActs = TRUE]

\* Deltas of several versions, while the application changes their treatment.
Deltas == [Environment({"update"}, 2, {"subscribe"}, 1, 2) EXCEPT !.switches = TRUE]

\* One update and somebody else's.
OneUpdate == Environment({"update"}, 4, {}, 1, 2)

MCEnvironments == {Sharing, Limits, Deltas}
OneUpdateOnly == {OneUpdate}
=============================================================================
