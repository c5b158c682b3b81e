----------------------------- MODULE MCReceiveLoop -----------------------------
(***************************************************************************)
(* Environments of ReceiveLoop for TLC: in Timed the link fails and pings  *)
(* matter; in Patient the interval is long enough for the broker's limit;  *)
(* in Framed packets that fit, that fit but for their header, and that do  *)
(* not fit arrive slowly; in Routed a message on any topic meets tables of *)
(* two filters.                                                            *)
(***************************************************************************)
EXTENDS ReceiveLoop

OneSubject == [name |-> <<<<"a">>>>, table |-> <<<<<<"a">>>>>>]

Timed == [types |-> {"PUBLISH"}, lengths |-> {1}, subjects |-> {OneSubject},
          faults |-> {"silent", "closed"}, clock |-> TRUE, stall |-> 1, wire |-> 4,
          packets |-> 1, keepAlive |-> 7]

Patient == [types |-> {"PUBLISH"}, lengths |-> {1}, subjects |-> {OneSubject},
            faults |-> {}, clock |-> TRUE, stall |-> 0, wire |-> 4,
            packets |-> 1, keepAlive |-> 20]

Framed == [types |-> {"PUBLISH", "SUBACK"}, lengths |-> {1, 2, 4}, subjects |-> {OneSubject},
           faults |-> {}, clock |-> TRUE, stall |-> 3, wire |-> 7,
           packets |-> 2, keepAlive |-> 0]

Levels == {<<"a">>, <<"a", "b">>}

Routed == [types |-> {"PUBLISH"}, lengths |-> {1},
           subjects |-> {[name |-> n, table |-> <<f, g>>] :
                           n \in LevelNames(Levels, 3),
                           f \in LevelFilters(Levels, 3), g \in {<<Hash>>, <<Plus, Hash>>}},
           faults |-> {}, clock |-> FALSE, stall |-> 0, wire |-> 4,
           packets |-> 1, keepAlive |-> 5]

MCEnvironments == {Timed, Patient, Framed, Routed}
=============================================================================
