---------------------------- MODULE MCSubscriptions ----------------------------
(***************************************************************************)
(* Instances of Subscriptions for TLC.  No definition of the module tells  *)
(* one topic from another, so that topics may be permuted.                 *)
(***************************************************************************)
EXTENDS Subscriptions

TopicSymmetry == Permutations(Topics)

\* Subscriptions are made, answered late and lost with the connection.
Restoring ==
  [ops |-> {"subscribe"}, callbackOps |-> {}, refuses |-> FALSE, timeouts |-> TRUE,
   losses |-> TRUE]

\* Callbacks unsubscribe during another call.
Nested ==
  [ops |-> {"subscribe", "unsubscribe"}, callbackOps |-> {"unsubscribe"}, refuses |-> TRUE,
   timeouts |-> FALSE, losses |-> TRUE]

\* Messages are published one after the other.
Publishing ==
  [ops |-> {"subscribe", "publish"}, callbackOps |-> {}, refuses |-> FALSE, timeouts |-> FALSE,
   losses |-> TRUE]

\* Messages are published by callbacks too, and answered late.
Crossing ==
  [ops |-> {"subscribe", "publish"}, callbackOps |-> {"publish"}, refuses |-> FALSE,
   timeouts |-> TRUE, losses |-> FALSE]

\* Subscriptions are made and ended one after the other.
Sequential ==
  [ops |-> {"subscribe", "unsubscribe"}, callbackOps |-> {}, refuses |-> FALSE,
   timeouts |-> FALSE, losses |-> TRUE]

MCEnvironments == {Restoring, Nested, Publishing, Crossing}
SequentialOnly == {Sequential}
=============================================================================
