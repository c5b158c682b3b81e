----------------------------- MODULE Measurement ------------------------------
(***************************************************************************)
(* The measurement application: the main thread connects, starts the       *)
(* shadow thread and yields for ever; commands that arrive on the channels *)
(* the shadow thread has subscribed start a thread each.  What may arrive  *)
(* is the environment, chosen at the start.                                *)
(***************************************************************************)
EXTENDS Commands, ShadowThread

CONSTANT
  Environments   \* records: the commands and deltas that may arrive, the
                 \* lengths of a value, and whether updates can be sent

ASSUME EnvironmentsAssumption ==
  \A e \in Environments :
    /\ e.commands \subseteq Command
    /\ e.deltas \subseteq Seq([name : Channels, on : BOOLEAN]) \ {<<>>}
    /\ e.lengths \subseteq Nat /\ e.sends \subseteq BOOLEAN

VARIABLES
  env,
  main           \* what the main thread does

vars == <<env, main, commandVars, shadowVars>>

\* main up to its loop: a failure of init or connect returns.
MainStart ==
  /\ main = "start"
  /\ main' \in {"loop", "returned"}
  /\ UNCHANGED <<env, commandVars, shadowVars>>

\* Both clients are connected as the same process: it runs until an exception
\* that nobody catches.
Running == main = "loop" /\ ~crashed

\* A command is delivered to a handler of the table.  The shadow thread reads
\* from this client while its callback waits in a subscribe or unsubscribe.
Receive(c, t) ==
  /\ Running
  /\ c \in env.commands
  /\ handlers # {}
  /\ t = ShadowRun => InChannels
  /\ SubscribeCallback(c, t)
  /\ UNCHANGED <<env, main, shadowVars>>

\* A delta whose channels cannot be parsed: the exception ends the process.
MalformedDelta ==
  /\ Running
  /\ shadow = "reading"
  /\ crashed' = TRUE
  /\ UNCHANGED <<env, main, worker, settings, from, job, payload, msg, published, alone, shadowVars>>

Worker(c) == Running /\ WorkerStep(c) /\ UNCHANGED <<env, main, shadowVars>>

Reuse(t) == Running /\ FrameReused(t) /\ UNCHANGED <<env, main, shadowVars>>

Shadow ==
  Running /\ ShadowStep(env.deltas, env.lengths, env.sends) /\ UNCHANGED <<env, main, commandVars>>

Init == env \in Environments /\ main = "start" /\ CommandInit /\ ShadowInit

Next ==
  \/ MainStart
  \/ \E c \in Command : (\E t \in Threads : Receive(c, t)) \/ Worker(c)
  \/ \E t \in Threads : Reuse(t)
  \/ Shadow
  \/ MalformedDelta

\* A step of the callback for channels.
ChannelStep ==
  /\ Running
  /\ \E done \in BOOLEAN : ChannelUnsubscribe(done) \/ ChannelSubscribe(done)
  /\ UNCHANGED <<env, main, commandVars>>

\* Every worker and the callback for channels run on.  A publish and a
\* subscribe that are repeated for ever succeed some time: the client
\* reconnects and the broker answers.  Nothing is assumed of an unsubscribe.
Fairness ==
  /\ \A c \in Command :
       /\ WF_vars(Worker(c))
       /\ WF_vars(Running /\ PublishReturns(c, "SUCCESS") /\ UNCHANGED <<env, main, shadowVars>>)
  /\ WF_vars(ChannelStep)
  /\ SF_vars(Running /\ ChannelSubscribe(TRUE) /\ UNCHANGED <<env, main, commandVars>>)

Spec == Init /\ [][Next]_vars /\ Fairness

-----------------------------------------------------------------------------
(* Properties.                                                             *)

\* Types.  The channels that are left are known exactly while the callback
\* for channels is under way.
TypeOK ==
  /\ env \in Environments
  /\ main \in {"start", "loop", "returned"}
  /\ worker \in [Command -> {"none", "started", "running", "exitstatus", "query", "select", "data", "done"}]
  /\ settings \in [Threads -> Command \cup {Nothing}]
  /\ from \in [Command -> Threads \cup {Nothing}] /\ job \in [Command -> Command \cup {Nothing}]
  /\ published \in [Command -> SUBSET [topic : {"exitstatus", "data"}, own : BOOLEAN]]
  /\ msg.buffer \in Command \cup {Nothing}
  /\ shadow \in {"start", "yield", "reading", "pause", "unsubscribe", "subscribe", "update", "sleep", "ended"}
  /\ shadow \in {"unsubscribe", "subscribe"} <=> todo # <<>>
  /\ handlers \subseteq Slots
  /\ waits \in [Records -> 0..UpdateTimeout \cup {None}]
  /\ endedBy \in {None, "not connected", "document", "no record", "not sent"}

\* The callback of a delta with channels returns, so that the shadow thread
\* goes on, however often a subscribe fails and whatever the comparisons of
\* channel names find, unless the process has ended or the handler table has
\* become full.  (Then it may go on for ever: an unsubscribe frees a place only
\* if its comparisons find one.)
ChannelsSettle == InChannels ~> ~InChannels \/ crashed \/ handlers = Slots
=============================================================================
