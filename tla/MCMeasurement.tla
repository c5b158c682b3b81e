---------------------------- MODULE MCMeasurement ----------------------------
(***************************************************************************)
(* Measurement for TLC.  Three environments: two commands that overlap     *)
(* (while the shadow thread ends, as it loses its connection),             *)
(* deltas that switch channels on and off, and values of "channels" whose  *)
(* document just fits, does not fit, or fits the value and no more.        *)
(***************************************************************************)
EXTENDS Measurement

CONSTANTS c1, c2, ch1, ch2

On(c) == [name |-> c, on |-> TRUE]
Off(c) == [name |-> c, on |-> FALSE]

Overlapping ==
  [commands |-> {c1, c2}, deltas |-> {<<On(ch1)>>}, lengths |-> {7}, sends |-> {FALSE}]

Switching ==
  [commands |-> {}, lengths |-> {7}, sends |-> BOOLEAN,
   deltas   |-> {<<On(ch1)>>, <<Off(ch1)>>, <<On(ch2), Off(ch1)>>, <<On(ch1), On(ch2)>>}]

Growing ==
  [commands |-> {}, deltas |-> {<<On(ch1)>>}, lengths |-> {7, 323, 324, 325, 400, 999},
   sends    |-> {TRUE}]

MCEnvironments == {Overlapping, Switching, Growing}
==============================================================================
