--------------------------- MODULE MeasurementProofs ---------------------------
(***************************************************************************)
(* Proofs about Measurement for every set of commands and channels, every  *)
(* size of the tables and every environment.                               *)
(***************************************************************************)
EXTENDS Measurement, FiniteSetTheorems, SequenceTheorems,
        WellFoundedInduction, TLAPS

-----------------------------------------------------------------------------
(* Channels.                                                               *)

ChannelItem == [name : Channels, on : BOOLEAN]

ChannelInv ==
  /\ env \in Environments
  /\ handlers \subseteq Slots
  /\ todo \in Seq(ChannelItem)
  /\ InChannels <=> todo # <<>>

LEMMA ChannelsAlone ==
  ASSUME ChannelInv, UNCHANGED <<env, handlers, todo>>, InChannels' <=> InChannels
  PROVE  ChannelInv'
BY DEF ChannelInv

LEMMA ChannelInit == Init => ChannelInv
BY DEF Init, ShadowInit, ChannelInv, InChannels

LEMMA TailOfTodo ==
  ASSUME ChannelInv, InChannels
  PROVE  /\ Tail(todo) \in Seq(ChannelItem)
         /\ Tail(todo) # <<>> <=> Len(todo) # 1
<1>1. todo \in Seq(ChannelItem) /\ todo # <<>> BY DEF ChannelInv
<1>2. Tail(todo) \in Seq(ChannelItem) BY <1>1
<1>3. Tail(todo) # <<>> <=> Len(todo) # 1
  <2>1. Len(Tail(todo)) = Len(todo) - 1 /\ Len(todo) \in Nat BY <1>1
  <2>2. Tail(todo) = <<>> <=> Len(Tail(todo)) = 0 BY <1>2, EmptySeq
  <2> QED BY <2>1, <2>2
<1> QED BY <1>2, <1>3

\* The callback goes on to its next channel, or returns after the last.
LEMMA NextChannelKeeps ==
  ASSUME ChannelInv, InChannels, NextChannel, UNCHANGED env, handlers' \subseteq Slots
  PROVE  ChannelInv'
BY TailOfTodo DEF ChannelInv, NextChannel, InChannels

LEMMA UnsubscribeKeeps ==
  ASSUME ChannelInv, UNCHANGED env, NEW done, ChannelUnsubscribe(done)
  PROVE  ChannelInv'
<1>1. InChannels BY DEF ChannelUnsubscribe, InChannels
<1>2. handlers' \subseteq Slots BY DEF ChannelUnsubscribe, ChannelInv
<1>3. CASE NextChannel BY <1>1, <1>2, <1>3, NextChannelKeeps
<1>4. CASE shadow' = "subscribe" /\ UNCHANGED todo
  BY <1>1, <1>2, <1>4 DEF ChannelInv, InChannels
<1> QED BY <1>3, <1>4 DEF ChannelUnsubscribe

LEMMA SubscribeKeeps ==
  ASSUME ChannelInv, UNCHANGED env, NEW done, ChannelSubscribe(done)
  PROVE  ChannelInv'
<1>1. InChannels BY DEF ChannelSubscribe, InChannels
<1>2. CASE UNCHANGED <<handlers, todo>> /\ shadow' = "unsubscribe"
  BY <1>1, <1>2, ChannelsAlone DEF InChannels
<1>3. ASSUME NEW i \in Slots, NextChannel, handlers' = handlers \cup {i}
      PROVE  ChannelInv'
  BY <1>1, <1>3, NextChannelKeeps DEF ChannelInv
<1> QED BY <1>2, <1>3 DEF ChannelSubscribe

LEMMA DeltaBegins ==
  ASSUME ChannelInv, UNCHANGED env, Delta(env.deltas, env.lengths)
  PROVE  ChannelInv'
<1>1. ~InChannels /\ InChannels' BY DEF Delta, InChannels
<1>2. todo' \in Seq(ChannelItem) /\ todo' # <<>>
  BY EnvironmentsAssumption DEF Delta, ChannelInv, ChannelItem
<1> QED BY <1>1, <1>2 DEF Delta, ChannelInv

LEMMA ShadowKeeps ==
  ASSUME ChannelInv, Shadow
  PROVE  ChannelInv'
<1> USE DEF InChannels
<1>1. UNCHANGED env BY DEF Shadow
<1>2. CASE ShadowStart BY <1>1, <1>2, ChannelsAlone DEF ShadowStart, Fail
<1>3. CASE ShadowYield BY <1>1, <1>3, ChannelsAlone DEF ShadowYield
<1>4. CASE Answered BY <1>1, <1>4, ChannelsAlone DEF Answered
<1>5. CASE YieldReturned BY <1>1, <1>5, ChannelsAlone DEF YieldReturned
<1>6. CASE Pause BY <1>1, <1>6, ChannelsAlone DEF Pause
<1>7. CASE Update(env.sends) BY <1>1, <1>7, ChannelsAlone DEF Update, Fail
<1>8. CASE Sleep BY <1>1, <1>8, ChannelsAlone DEF Sleep
<1> QED BY <1>1, <1>2, <1>3, <1>4, <1>5, <1>6, <1>7, <1>8,
           DeltaBegins, UnsubscribeKeeps, SubscribeKeeps DEF Shadow, ShadowStep

LEMMA ChannelStepKeeps ==
  ASSUME ChannelInv, [Next]_vars
  PROVE  ChannelInv'
<1>1. ASSUME UNCHANGED <<env, shadowVars>> PROVE ChannelInv'
  BY <1>1, ChannelsAlone DEF shadowVars, InChannels
<1>2. CASE MainStart BY <1>1, <1>2 DEF MainStart
<1>3. ASSUME NEW c, NEW t, Receive(c, t) PROVE ChannelInv' BY <1>1, <1>3 DEF Receive
<1>4. ASSUME NEW c, Worker(c) PROVE ChannelInv' BY <1>1, <1>4 DEF Worker
<1>5. ASSUME NEW t, Reuse(t) PROVE ChannelInv' BY <1>1, <1>5 DEF Reuse
<1>6. CASE MalformedDelta BY <1>1, <1>6 DEF MalformedDelta
<1>7. CASE UNCHANGED vars BY <1>1, <1>7 DEF vars
<1> QED BY <1>2, <1>3, <1>4, <1>5, <1>6, <1>7, ShadowKeeps DEF Next

-----------------------------------------------------------------------------
(* Commands.                                                               *)

Places == {"none", "started", "running", "exitstatus", "query", "select", "data", "done"}

Texts == [kind : {"exitstatus", "data"}, job : Command \cup {Nothing}]

CommandsTyped ==
  /\ worker \in [Command -> Places]
  /\ settings \in [Threads -> Command \cup {Nothing}]
  /\ from \in [Command -> Threads \cup {Nothing}]
  /\ \A c \in Command : worker[c] = "started" => from[c] \in Threads
  /\ job \in [Command -> Command \cup {Nothing}]
  /\ payload \in [Command -> Texts \cup {Nothing}]
  /\ msg \in [buffer : Command \cup {Nothing}, length : Texts \cup {Nothing}]
  /\ published \in [Command -> SUBSET [topic : {"exitstatus", "data"}, own : BOOLEAN]]
  /\ alone \in [Command -> BOOLEAN]

\* What thread c has sent at each place, and what is ready to be sent.
Topics(c) == {m.topic : m \in published[c]}

Ready(c, topic) == payload[c] = Text(topic, job[c]) /\ msg.length = Text(topic, job[c])

Progress(c) ==
  /\ worker[c] = "running" => published[c] = {}
  /\ worker[c] = "exitstatus" => Ready(c, "exitstatus") /\ Topics(c) \subseteq {"exitstatus"}
  /\ worker[c] \in {"query", "select"} => Topics(c) = {"exitstatus"}
  /\ worker[c] = "data" => Ready(c, "data") /\ "exitstatus" \in Topics(c)
  /\ worker[c] = "done" => Topics(c) = {"exitstatus", "data"}

\* A thread that is alone with msg owns it: the buffer is its own and no other
\* thread is between its assignment and its last publish.
Alone(c) ==
  /\ \A m \in published[c] : m.own
  /\ Busy(c) => msg.buffer = c /\ \A d \in Command : Busy(d) => d = c
  /\ Progress(c)

Unread(c) == worker[c] \in {"none", "started"} => job[c] = Nothing /\ published[c] = {}

CommandInv ==
  /\ CommandsTyped
  /\ \A c \in Command : Unread(c) /\ (alone[c] /\ job[c] # Nothing => Alone(c))

LEMMA CommandInitially == Init => CommandInv
BY DEF Init, CommandInit, CommandInv, CommandsTyped, Unread, Places

\* A thread that is not between its assignment of msg and its last publish is
\* not touched by what others do to msg.
LEMMA AtRestKeeps ==
  ASSUME NEW c \in Command, CommandsTyped, Unread(c), job[c] # Nothing, ~Busy(c), Alone(c),
         worker'[c] = worker[c], published'[c] = published[c]
  PROVE  Alone(c)'
<1>1. worker[c] = "done" BY DEF CommandsTyped, Unread, Busy, Places
<1>2. ~Busy(c)' BY DEF Busy
<1> QED BY <1>1, <1>2 DEF Alone, Progress, Topics

\* A step of a thread that uses msg: the others are at rest or not alone.
LEMMA BusyKeeps ==
  ASSUME CommandInv, CommandsTyped', NEW c \in Command, Busy(c),
         UNCHANGED <<job, alone>>, worker'[c] \notin {"none", "started"},
         \A d \in Command \ {c} : worker'[d] = worker[d] /\ published'[d] = published[d],
         Alone(c) => Alone(c)'
  PROVE  CommandInv'
<1>1. ASSUME NEW d \in Command PROVE Unread(d)'
  BY <1>1 DEF CommandInv, Unread
<1>2. ASSUME NEW d \in Command, alone[d], job[d] # Nothing PROVE Alone(d)'
  <2>1. Alone(d) /\ Unread(d) BY <1>2 DEF CommandInv
  <2>2. CASE d = c BY <2>1, <2>2
  <2>3. CASE d # c
    <3>1. ~Busy(d) BY <2>1, <2>3 DEF Alone
    <3> QED BY <1>2, <2>1, <2>3, <3>1, AtRestKeeps DEF CommandInv
  <2> QED BY <2>2, <2>3
<1> QED BY <1>1, <1>2 DEF CommandInv

\* A step that leaves what Alone speaks of as it is.
LEMMA IdleKeeps ==
  ASSUME CommandInv, CommandsTyped', UNCHANGED <<job, payload, msg, published, alone>>,
         \A d \in Command : \/ worker'[d] = worker[d]
                            \/ worker[d] = "none" /\ worker'[d] = "started"
  PROVE  CommandInv'
<1>1. ASSUME NEW d \in Command PROVE Unread(d)' /\ (Busy(d)' <=> Busy(d))
  BY <1>1 DEF CommandInv, Unread, Busy
<1>2. ASSUME NEW d \in Command, alone[d], job[d] # Nothing PROVE Alone(d)'
  <2>1. Alone(d) /\ Unread(d) BY <1>2 DEF CommandInv
  <2>2. worker'[d] = worker[d] BY <1>2, <2>1 DEF Unread
  <2>3. Progress(d)' BY <2>1, <2>2 DEF Alone, Progress, Ready, Topics
  <2> QED BY <1>1, <2>1, <2>3 DEF Alone
<1> QED BY <1>1, <1>2 DEF CommandInv

LEMMA ReceiveKeeps ==
  ASSUME CommandInv, NEW c \in Command, NEW t \in Threads, SubscribeCallback(c, t)
  PROVE  CommandInv'
<1>1. CommandsTyped' BY DEF CommandInv, CommandsTyped, SubscribeCallback, Goto, Places
<1> QED BY <1>1, IdleKeeps DEF SubscribeCallback, At, Goto, CommandInv, CommandsTyped

LEMMA ReuseKeeps ==
  ASSUME CommandInv, NEW t \in Threads, FrameReused(t)
  PROVE  CommandInv'
<1>1. CommandsTyped' BY DEF CommandInv, CommandsTyped, FrameReused
<1> QED BY <1>1, IdleKeeps DEF FrameReused

\* A thread that reads its settings takes msg: it is alone only if nobody uses
\* msg, and who uses it is not alone any more.
LEMMA ReadKeeps ==
  ASSUME CommandInv, NEW c \in Command, ReadSettings(c), settings[from[c]] # Nothing
  PROVE  CommandInv'
<1>1. /\ worker[c] = "started" /\ worker' = [worker EXCEPT ![c] = "running"]
      /\ settings[from[c]] # Nothing /\ job' = [job EXCEPT ![c] = settings[from[c]]]
      /\ msg' = [msg EXCEPT !.buffer = c]
      /\ alone' = [d \in Command |-> alone[d] /\ (d = c => \A e \in Command : ~Busy(e))
                                              /\ ~Busy(d)]
      /\ UNCHANGED <<settings, from, payload, published>>
  BY DEF ReadSettings, At, Goto
<1>2. CommandsTyped' BY <1>1 DEF CommandInv, CommandsTyped, Places
<1>3. ASSUME NEW d \in Command \ {c}
      PROVE  worker'[d] = worker[d] /\ job'[d] = job[d] /\ (Busy(d)' <=> Busy(d))
  BY <1>1 DEF CommandInv, CommandsTyped, Busy
<1>4. worker'[c] = "running" /\ job[c] = Nothing /\ published[c] = {}
  BY <1>1 DEF CommandInv, CommandsTyped, Unread
<1>5. ASSUME NEW d \in Command PROVE Unread(d)'
  BY <1>1, <1>3, <1>4 DEF CommandInv, Unread
<1>6. ASSUME NEW d \in Command, alone'[d], job'[d] # Nothing PROVE Alone(d)'
  <2>1. alone[d] /\ ~Busy(d) BY <1>1, <1>6 DEF CommandInv, CommandsTyped
  <2>2. CASE d # c
    BY <1>1, <1>3, <1>6, <2>1, <2>2, AtRestKeeps DEF CommandInv
  <2>3. CASE d = c
    <3>1. \A e \in Command : ~Busy(e) BY <1>1, <1>6, <2>3
    <3>2. \A e \in Command : Busy(e)' => e = c BY <1>3, <3>1
    <3>3. msg'.buffer = c BY <1>1 DEF CommandInv, CommandsTyped
    <3>4. Progress(c)' BY <1>1, <1>4 DEF Progress
    <3> QED BY <1>1, <1>4, <2>3, <3>2, <3>3, <3>4 DEF Alone
  <2> QED BY <2>2, <2>3
<1> QED BY <1>2, <1>5, <1>6 DEF CommandInv

\* The texts are written into the thread's own buffer.
LEMMA PrepareKeeps ==
  ASSUME CommandInv, NEW c \in Command, NEW kind \in {"exitstatus", "data"}, Busy(c),
         Prepare(c, Text(kind, job[c])), worker' = [worker EXCEPT ![c] = kind],
         UNCHANGED <<settings, from, job, published, alone>>,
         Alone(c) => IF kind = "exitstatus" THEN published[c] = {} ELSE "exitstatus" \in Topics(c)
  PROVE  CommandInv'
<1>1. Text(kind, job[c]) \in Texts BY DEF Text, Texts, CommandInv, CommandsTyped
<1>2. CommandsTyped' BY <1>1 DEF Prepare, CommandInv, CommandsTyped, Places
<1>3. /\ payload'[c] = Text(kind, job[c]) /\ msg'.length = Text(kind, job[c])
      /\ msg'.buffer = msg.buffer /\ worker'[c] = kind
      /\ \A d \in Command \ {c} : worker'[d] = worker[d]
  BY DEF Prepare, CommandInv, CommandsTyped
<1>4. \A d \in Command : Busy(d)' <=> Busy(d) BY <1>3 DEF Busy
<1>5. ASSUME Alone(c) PROVE Alone(c)'
  <2>1. Ready(c, kind)' BY <1>3 DEF Ready, Text
  <2>2. Topics(c)' = Topics(c) BY DEF Topics
  <2>3. published[c] = {} => Topics(c) = {} BY DEF Topics
  <2>4. Progress(c)' BY <1>3, <1>5, <2>1, <2>2, <2>3 DEF Progress
  <2> QED BY <1>3, <1>4, <1>5, <2>4 DEF Alone
<1> QED BY <1>2, <1>3, <1>5, BusyKeeps

LEMMA CommandReturnsKeeps ==
  ASSUME CommandInv, NEW c \in Command, CommandReturns(c)
  PROVE  CommandInv'
<1>1. worker[c] = "running" BY DEF CommandReturns, At
<1>2. Busy(c) BY <1>1 DEF Busy
<1>3. Alone(c) => published[c] = {} BY <1>1 DEF Alone, Progress
<1> QED BY <1>2, <1>3, PrepareKeeps DEF CommandReturns, Goto

LEMMA SelectReturnsKeeps ==
  ASSUME CommandInv, NEW c \in Command, SelectReturns(c)
  PROVE  CommandInv'
<1>1. worker[c] = "select" BY DEF SelectReturns, At
<1>2. Busy(c) BY <1>1 DEF Busy
<1>3. Alone(c) => "exitstatus" \in Topics(c) BY <1>1 DEF Alone, Progress
<1> QED BY <1>2, <1>3, PrepareKeeps DEF SelectReturns, Goto

LEMMA SelectKeeps ==
  ASSUME CommandInv, NEW c \in Command, Select(c)
  PROVE  CommandInv'
<1>1. /\ worker[c] = "query" /\ worker' = [worker EXCEPT ![c] = "select"]
      /\ UNCHANGED <<settings, from, job, payload, msg, published, alone>>
  BY DEF Select, At, Goto
<1>2. CommandsTyped' BY <1>1 DEF CommandInv, CommandsTyped, Places
<1>3. worker'[c] = "select" /\ \A d \in Command \ {c} : worker'[d] = worker[d]
  BY <1>1 DEF CommandInv, CommandsTyped
<1>4. Busy(c) /\ \A d \in Command : Busy(d)' <=> Busy(d) BY <1>1, <1>3 DEF Busy
<1>5. ASSUME Alone(c) PROVE Alone(c)'
  <2>1. Topics(c) = {"exitstatus"} /\ Topics(c)' = Topics(c)
    BY <1>1, <1>5 DEF Alone, Progress, Topics
  <2>2. Progress(c)' BY <1>3, <2>1 DEF Progress
  <2> QED BY <1>1, <1>4, <1>5, <2>2 DEF Alone
<1> QED BY <1>1, <1>2, <1>3, <1>4, <1>5, BusyKeeps

\* What a thread sends that is alone is its own text for the topic.
LEMMA OwnMessage ==
  ASSUME CommandInv, NEW c \in Command, Publishing(c), Alone(c)
  PROVE  Message(c, worker[c]).own
<1>1. msg.buffer = c BY DEF Publishing, Alone, Busy
<1>2. Ready(c, worker[c]) BY DEF Publishing, Alone, Progress
<1> QED BY <1>1, <1>2 DEF Message, Ready

LEMMA PublishKeeps ==
  ASSUME CommandInv, NEW c \in Command, NEW rc, PublishReturns(c, rc)
  PROVE  CommandInv'
<1> DEFINE m == Message(c, worker[c])
<1>1. worker[c] \in {"exitstatus", "data"} /\ Publishing(c) /\ Busy(c)
  BY DEF PublishReturns, Publishing, Busy
<1>2. m \in [topic : {"exitstatus", "data"}, own : BOOLEAN] /\ m.topic = worker[c]
  BY <1>1 DEF Message
<1>3. published' = [published EXCEPT ![c] = @ \cup {m}]
  BY DEF PublishReturns
<1>4. Alone(c) => m.own BY <1>1, OwnMessage
<1> HIDE DEF m
<1>5. /\ \/ worker[c] = "exitstatus" /\ worker' = [worker EXCEPT ![c] = "query"]
            /\ UNCHANGED <<settings, payload>>
         \/ worker[c] = "data" /\ worker' = [worker EXCEPT ![c] = "done"]
            /\ settings' = [settings EXCEPT ![c] = Nothing]
            /\ payload' = [payload EXCEPT ![c] = Nothing]
         \/ UNCHANGED <<worker, settings, payload>>
      /\ UNCHANGED <<from, job, msg, alone>>
  BY DEF PublishReturns, Goto
<1>6. CommandsTyped'
  <2>1. published' \in [Command -> SUBSET [topic : {"exitstatus", "data"}, own : BOOLEAN]]
    BY <1>2, <1>3 DEF CommandInv, CommandsTyped
  <2> QED BY <1>5, <2>1 DEF CommandInv, CommandsTyped, Places, Threads
<1>7. published'[c] = published[c] \cup {m} /\ Topics(c)' = Topics(c) \cup {worker[c]}
  BY <1>2, <1>3 DEF CommandInv, CommandsTyped, Topics
<1>8. /\ \/ worker[c] = "exitstatus" /\ worker'[c] = "query"
         \/ worker[c] = "data" /\ worker'[c] = "done"
         \/ worker'[c] = worker[c] /\ payload'[c] = payload[c]
      /\ \A d \in Command \ {c} : worker'[d] = worker[d] /\ published'[d] = published[d]
  BY <1>3, <1>5 DEF CommandInv, CommandsTyped
<1>9. ASSUME Alone(c) PROVE Alone(c)'
  <2>1. \A n \in published'[c] : n.own BY <1>4, <1>7, <1>9 DEF Alone
  <2>2. \A d \in Command : Busy(d)' => Busy(d) BY <1>1, <1>8 DEF Busy
  <2>3. Topics(c) \subseteq {"exitstatus", "data"} BY DEF Topics, CommandInv, CommandsTyped
  <2>4. Progress(c)'
    <3>1. CASE worker[c] = "exitstatus" /\ worker'[c] = "query"
      BY <1>7, <1>9, <3>1 DEF Alone, Progress
    <3>2. CASE worker[c] = "data" /\ worker'[c] = "done"
      BY <1>7, <1>9, <2>3, <3>2 DEF Alone, Progress
    <3>3. CASE worker'[c] = worker[c] /\ payload'[c] = payload[c]
      <4>1. Ready(c, worker[c])' BY <1>1, <1>5, <1>9, <3>3 DEF Alone, Progress, Ready, Text
      <4> QED BY <1>1, <1>7, <1>9, <3>3, <4>1 DEF Alone, Progress
    <3> QED BY <1>8, <3>1, <3>2, <3>3
  <2> QED BY <1>5, <1>9, <2>1, <2>2, <2>4 DEF Alone
<1> QED BY <1>1, <1>5, <1>6, <1>8, <1>9, BusyKeeps

LEMMA CommandStepKeeps ==
  ASSUME CommandInv, [Next]_vars
  PROVE  CommandInv'
<1>1. ASSUME UNCHANGED <<worker, settings, from, job, payload, msg, published, alone>>
      PROVE  CommandInv'
  BY <1>1, IdleKeeps DEF CommandInv, CommandsTyped
<1>2. CASE MainStart \/ Shadow \/ MalformedDelta \/ UNCHANGED vars
  BY <1>1, <1>2 DEF MainStart, Shadow, MalformedDelta, vars, commandVars
<1>3. ASSUME NEW c \in Command, NEW t \in Threads, Receive(c, t) PROVE CommandInv'
  BY <1>3, ReceiveKeeps DEF Receive
<1>4. ASSUME NEW c \in Command, Worker(c) PROVE CommandInv'
  <2>1. CASE ReadSettings(c)
    <3>1. CASE settings[from[c]] # Nothing BY <2>1, <3>1, ReadKeeps
    <3>2. CASE settings[from[c]] = Nothing BY <1>1, <2>1, <3>2 DEF ReadSettings
    <3> QED BY <3>1, <3>2
  <2> QED BY <1>4, <2>1, CommandReturnsKeeps, SelectKeeps, SelectReturnsKeeps, PublishKeeps
          DEF Worker, WorkerStep
<1>5. ASSUME NEW t \in Threads, Reuse(t) PROVE CommandInv' BY <1>5, ReuseKeeps DEF Reuse
<1> QED BY <1>2, <1>3, <1>4, <1>5 DEF Next

\* A command thread (runCommand) that ran while no other used the shared msg
\* has reported its own exit status and its own results, for every number of
\* commands and every interleaving of their threads with each other, with the
\* callbacks that start them and with the shadow thread.
THEOREM AloneCorrect == Spec => []AloneReportsOwn
<1>1. CommandInv => AloneReportsOwn
  <2> SUFFICES ASSUME CommandInv, NEW c \in Command, alone[c], job[c] # Nothing
               PROVE  /\ \A m \in published[c] : m.own
                      /\ worker[c] = "done" => Topics(c) = {"exitstatus", "data"}
    BY DEF AloneReportsOwn, Topics
  <2> QED BY DEF CommandInv, Alone, Progress
<1> QED BY <1>1, CommandInitially, CommandStepKeeps, PTL DEF Spec


-----------------------------------------------------------------------------
(* The list of waiting updates.                                            *)

WaitsTyped == waits \in [Records -> 0..UpdateTimeout \cup {None}]

\* Two updates that have not expired were made at least one sleep apart.
Spaced ==
  \A i, j \in Records :
    i # j /\ waits[i] # None /\ waits[j] # None /\ waits[i] > 0 /\ waits[j] > 0 =>
      waits[i] + SleepTime <= waits[j] \/ waits[j] + SleepTime <= waits[i]

\* After the sleep every update has waited that long.
Rested ==
  shadow # "sleep" =>
    \A i \in Records : waits[i] # None => waits[i] = 0 \/ waits[i] + SleepTime <= UpdateTimeout

Room == \E i \in Records : waits[i] = None

\* A yield has freed the expired records: one is free until the next update.
Freed == shadow \in {"reading", "unsubscribe", "subscribe", "pause", "update"} => Room

WaitInv == WaitsTyped /\ Spaced /\ Rested /\ Freed /\ UpdateFindsRecord

LEMMA BoundsTyped ==
  /\ NumHandlers \in Nat \ {0} /\ NumAcks \in Nat \ {0} /\ UpdateTimeout \in Nat \ {0}
  /\ SleepTime \in Nat \ {0} /\ YieldTime \in Nat /\ None \notin Nat /\ None \notin Channels
BY ShadowAssumption

\* Pigeonhole: places that are filled with unexpired updates at least one sleep
\* apart take up NumAcks times the sleep.
LEMMA SpacedFit ==
  ASSUME NEW w \in [Records -> Nat],
         \A i \in Records : w[i] > 0 /\ w[i] + SleepTime <= UpdateTimeout,
         \A i, j \in Records : i # j => w[i] + SleepTime <= w[j] \/ w[j] + SleepTime <= w[i]
  PROVE  NumAcks * SleepTime < UpdateTimeout
<1> DEFINE D == 0..(SleepTime - 1)
           S == Records \X D
           T == 1..(UpdateTimeout - 1)
           f == [p \in S |-> w[p[1]] + p[2]]
<1>0. SleepTime \in Nat \ {0} /\ UpdateTimeout \in Nat \ {0} /\ NumAcks \in Nat \ {0} BY BoundsTyped
<1>1. ASSUME NEW p \in S
      PROVE  /\ p[1] \in Records /\ p[2] \in 0..(SleepTime - 1) /\ p = <<p[1], p[2]>>
             /\ f[p] = w[p[1]] + p[2]
  OBVIOUS
<1>2. f \in [S -> T]
  <2>1. ASSUME NEW p \in S PROVE w[p[1]] + p[2] \in T
    <3>1. /\ w[p[1]] \in Nat /\ w[p[1]] > 0 /\ w[p[1]] + SleepTime <= UpdateTimeout
          /\ p[2] \in 0..(SleepTime - 1)
      BY <1>1
    <3> QED BY <1>0, <3>1
  <2> QED BY <2>1
<1>3. ASSUME NEW p \in S, NEW q \in S, f[p] = f[q] PROVE p = q
  <2>1. /\ p[1] \in Records /\ q[1] \in Records /\ w[p[1]] \in Nat /\ w[q[1]] \in Nat
        /\ p[2] \in 0..(SleepTime - 1) /\ q[2] \in 0..(SleepTime - 1)
        /\ w[p[1]] + p[2] = w[q[1]] + q[2]
    BY <1>1, <1>3
  <2>2. p[1] = q[1]
    <3>1. ASSUME w[p[1]] + SleepTime <= w[q[1]] \/ w[q[1]] + SleepTime <= w[p[1]] PROVE FALSE
      BY <1>0, <2>1, <3>1
    <3> QED BY <2>1, <3>1
  <2>3. p[2] = q[2] BY <1>0, <2>1, <2>2
  <2> QED BY <1>1, <2>2, <2>3
<1>4. f \in Injection(S, T)
  <2> HIDE DEF f, S, T
  <2> QED BY <1>2, <1>3 DEF Injection, IsInjective
<1>5. IsFiniteSet(Records) /\ Cardinality(Records) = NumAcks
  BY <1>0, FS_Interval DEF Records
<1>6. IsFiniteSet(D) /\ Cardinality(D) = SleepTime
  BY <1>0, FS_Interval
<1>7. IsFiniteSet(T) /\ Cardinality(T) = UpdateTimeout - 1
  <2>1. 1 \in Int /\ UpdateTimeout - 1 \in Int BY <1>0
  <2>2. IsFiniteSet(T) /\ Cardinality(T) = IF 1 > UpdateTimeout - 1 THEN 0 ELSE (UpdateTimeout - 1) - 1 + 1
    BY <2>1, FS_Interval
  <2> HIDE DEF T
  <2> QED BY <1>0, <2>2
<1>8. Cardinality(S) = NumAcks * SleepTime
  <2> HIDE DEF D
  <2> QED BY <1>5, <1>6, FS_Product
<1>9. Cardinality(S) <= Cardinality(T)
  <2> HIDE DEF f, S, T
  <2> QED BY <1>4, <1>7, FS_Injection
<1>10. NumAcks * SleepTime <= UpdateTimeout - 1
  <2> HIDE DEF S, T
  <2> QED BY <1>7, <1>8, <1>9
<1>11. NumAcks * SleepTime \in Nat BY <1>0
<1> DEFINE n == NumAcks * SleepTime
<1> HIDE DEF n
<1> QED BY <1>0, <1>10, <1>11 DEF n

LEMMA ElapsedTyped ==
  ASSUME WaitsTyped, NEW d \in Nat
  PROVE  \A i \in Records :
           /\ waits[i] = None => Elapsed(waits, d)[i] = None
           /\ waits[i] # None => /\ waits[i] \in 0..UpdateTimeout
                                 /\ waits[i] < d => Elapsed(waits, d)[i] = 0
                                 /\ waits[i] >= d => Elapsed(waits, d)[i] = waits[i] - d
BY BoundsTyped DEF WaitsTyped, Elapsed

\* Time passes.
LEMMA ElapsedKeeps ==
  ASSUME WaitsTyped, Spaced, Rested, NEW d \in Nat, waits' = Elapsed(waits, d)
  PROVE  /\ WaitsTyped' /\ Spaced' /\ (Room => Room')
         /\ shadow # "sleep" \/ d = SleepTime => Rested'
<1> DEFINE e == Elapsed(waits, d)
<1>0. SleepTime \in Nat \ {0} /\ UpdateTimeout \in Nat \ {0} /\ None \notin Nat BY BoundsTyped
<1>1. ASSUME NEW i \in Records
      PROVE  /\ waits[i] = None => e[i] = None
             /\ waits[i] # None => /\ waits[i] \in 0..UpdateTimeout
                                   /\ waits[i] < d => e[i] = 0
                                   /\ waits[i] >= d => e[i] = waits[i] - d
  BY ElapsedTyped
<1>2. e \in [Records -> 0..UpdateTimeout \cup {None}]
  <2>1. e = [i \in Records |-> e[i]] BY DEF Elapsed
  <2> HIDE DEF e
  <2>2. ASSUME NEW i \in Records PROVE e[i] \in 0..UpdateTimeout \cup {None}
    <3>1. CASE waits[i] = None BY <1>1, <3>1
    <3>2. CASE waits[i] # None BY <1>0, <1>1, <3>2
    <3> QED BY <3>1, <3>2
  <2> QED BY <2>1, <2>2
<1> HIDE DEF e
<1>3. waits' = e BY DEF e
<1>4. WaitsTyped' BY <1>2, <1>3 DEF WaitsTyped, Records
<1>5. Spaced'
  <2> SUFFICES ASSUME NEW i \in Records, NEW j \in Records, i # j, e[i] # None, e[j] # None,
                      e[i] > 0, e[j] > 0
               PROVE  e[i] + SleepTime <= e[j] \/ e[j] + SleepTime <= e[i]
    BY <1>3 DEF Spaced, Records
  <2>1. ASSUME NEW k \in Records, e[k] # None, e[k] > 0
        PROVE  waits[k] # None /\ waits[k] > 0 /\ waits[k] \in Nat /\ e[k] = waits[k] - d
    <3>1. waits[k] # None /\ waits[k] \in 0..UpdateTimeout BY <1>1, <2>1
    <3>2. e[k] # 0 BY <2>1
    <3>3. waits[k] >= d /\ e[k] = waits[k] - d BY <1>0, <1>1, <3>1, <3>2
    <3> QED BY <1>0, <2>1, <3>1, <3>3
  <2>2. /\ waits[i] # None /\ waits[i] > 0 /\ waits[i] \in Nat /\ e[i] = waits[i] - d
        /\ waits[j] # None /\ waits[j] > 0 /\ waits[j] \in Nat /\ e[j] = waits[j] - d
    BY <2>1
  <2>3. waits[i] + SleepTime <= waits[j] \/ waits[j] + SleepTime <= waits[i] BY <2>2 DEF Spaced
  <2> QED BY <1>0, <2>2, <2>3
<1>6. Room => Room' BY <1>1, <1>3 DEF Room, Records
<1>7. ASSUME shadow # "sleep" \/ d = SleepTime PROVE Rested'
  <2> SUFFICES ASSUME NEW i \in Records, e[i] # None
               PROVE  e[i] = 0 \/ e[i] + SleepTime <= UpdateTimeout
    BY <1>3 DEF Rested, Records
  <2>1. waits[i] # None /\ waits[i] \in 0..UpdateTimeout BY <1>1
  <2>2. CASE waits[i] < d BY <1>1, <2>1, <2>2
  <2>3. CASE waits[i] >= d
    <3>1. e[i] = waits[i] - d BY <1>1, <2>1, <2>3
    <3>2. CASE shadow # "sleep"
      <4>1. waits[i] = 0 \/ waits[i] + SleepTime <= UpdateTimeout BY <2>1, <3>2 DEF Rested
      <4> QED BY <1>0, <2>1, <2>3, <3>1, <4>1
    <3>3. CASE d = SleepTime BY <1>0, <2>1, <2>3, <3>1, <3>3
    <3> QED BY <1>7, <3>2, <3>3
  <2> QED BY <1>0, <2>1, <2>2, <2>3
<1> QED BY <1>4, <1>5, <1>6, <1>7

\* Records are freed.
LEMMA FreeingKeeps ==
  ASSUME WaitsTyped, Spaced, Rested, shadow # "sleep", waits' \in [Records -> 0..UpdateTimeout \cup {None}],
         \A i \in Records : waits'[i] = waits[i] \/ waits'[i] = None
  PROVE  WaitsTyped' /\ Spaced' /\ Rested' /\ (Room => Room')
<1>1. \A i \in Records : waits'[i] # None => waits'[i] = waits[i] OBVIOUS
<1>2. WaitsTyped' BY DEF WaitsTyped, Records
<1>3. Spaced' BY <1>1 DEF Spaced, Records
<1>4. Rested' BY <1>1 DEF Rested, Records
<1>5. Room => Room' BY DEF Room, Records
<1> QED BY <1>2, <1>3, <1>4, <1>5

\* A yield frees a record when the list is as long as the updates take to
\* expire.
LEMMA YieldFrees ==
  ASSUME NumAcks * SleepTime >= UpdateTimeout, WaitInv, ShadowYield
  PROVE  WaitInv'
<1>0. /\ SleepTime \in Nat \ {0} /\ UpdateTimeout \in Nat \ {0} /\ NumAcks \in Nat \ {0}
      /\ None \notin Nat
  BY BoundsTyped
<1>1. /\ shadow = "yield" /\ shadow' = "reading" /\ UNCHANGED endedBy
      /\ waits' = [i \in Records |-> IF Expired(i) THEN None ELSE waits[i]]
  BY DEF ShadowYield
<1>2. waits \in [Records -> 0..UpdateTimeout \cup {None}] BY DEF WaitInv, WaitsTyped
<1>3. \A i \in Records : waits'[i] = None \/ (waits'[i] = waits[i] /\ ~Expired(i)) BY <1>1
<1>4. waits' \in [Records -> 0..UpdateTimeout \cup {None}] BY <1>1, <1>2
<1>5. WaitsTyped' /\ Spaced' /\ Rested' BY <1>1, <1>3, <1>4, FreeingKeeps DEF WaitInv
<1>6. Room'
  <2> SUFFICES ASSUME ~Room' PROVE FALSE OBVIOUS
  <2>1. \A i \in Records : waits'[i] # None /\ waits'[i] = waits[i] /\ ~Expired(i)
    BY <1>3 DEF Room, Records
  <2>2. ASSUME NEW i \in Records
        PROVE  /\ waits[i] \in 0..UpdateTimeout /\ waits[i] # None /\ waits[i] > 0
               /\ waits[i] + SleepTime <= UpdateTimeout
    <3>1. waits[i] \in 0..UpdateTimeout /\ waits[i] # None BY <1>2, <2>1
    <3>2. waits[i] > 0 BY <2>1, <3>1 DEF Expired
    <3>3. waits[i] = 0 \/ waits[i] + SleepTime <= UpdateTimeout BY <1>1, <3>1 DEF WaitInv, Rested
    <3> QED BY <3>1, <3>2, <3>3
  <2>3. waits \in [Records -> Nat]
    <3>1. \A i \in Records : waits[i] \in Nat BY <1>0, <2>2
    <3> QED BY <1>2, <3>1
  <2>4. \A i, j \in Records : i # j =>
          waits[i] + SleepTime <= waits[j] \/ waits[j] + SleepTime <= waits[i]
    BY <2>2 DEF WaitInv, Spaced
  <2>5. \A i \in Records : waits[i] > 0 /\ waits[i] + SleepTime <= UpdateTimeout BY <2>2
  <2>6. NumAcks * SleepTime < UpdateTimeout BY <2>3, <2>4, <2>5, SpacedFit
  <2>7. NumAcks * SleepTime \in Nat BY <1>0
  <2> DEFINE n == NumAcks * SleepTime
  <2> HIDE DEF n
  <2>8. n < UpdateTimeout /\ n >= UpdateTimeout /\ n \in Nat BY <2>6, <2>7 DEF n
  <2> QED BY <1>0, <2>8
<1> QED BY <1>1, <1>5, <1>6 DEF WaitInv, Freed, UpdateFindsRecord

\* A new update is one sleep younger than the others.
LEMMA UpdateKeeps ==
  ASSUME WaitInv, NEW sends, Update(sends)
  PROVE  WaitInv'
<1>0. SleepTime \in Nat \ {0} /\ UpdateTimeout \in Nat \ {0} /\ None \notin Nat BY BoundsTyped
<1>1. shadow = "update" /\ Room BY DEF Update, WaitInv, Freed
<1>2. waits \in [Records -> 0..UpdateTimeout \cup {None}] BY DEF WaitInv, WaitsTyped
<1>3. ASSUME UNCHANGED waits, shadow' = "ended", endedBy' # "no record" PROVE WaitInv'
  BY <1>1, <1>3 DEF WaitInv, WaitsTyped, Spaced, Rested, Freed, UpdateFindsRecord, Records
<1>4. ASSUME NEW i \in Records, waits[i] = None, waits' = [waits EXCEPT ![i] = UpdateTimeout],
             shadow' = "sleep", UNCHANGED endedBy
      PROVE  WaitInv'
  <2>1. waits'[i] = UpdateTimeout /\ \A j \in Records : j # i => waits'[j] = waits[j] BY <1>2, <1>4
  <2>2. WaitsTyped'
    <3>1. UpdateTimeout \in 0..UpdateTimeout BY <1>0
    <3> QED BY <1>2, <1>4, <3>1 DEF WaitsTyped, Records
  <2>3. ASSUME NEW j \in Records, j # i, waits[j] # None, waits[j] > 0
        PROVE  waits[j] + SleepTime <= UpdateTimeout
    BY <1>0, <1>1, <1>2, <2>3 DEF WaitInv, Rested
  <2>4. Spaced'
    <3> SUFFICES ASSUME NEW j \in Records, NEW k \in Records, j # k, waits'[j] # None,
                        waits'[k] # None, waits'[j] > 0, waits'[k] > 0
                 PROVE  waits'[j] + SleepTime <= waits'[k] \/ waits'[k] + SleepTime <= waits'[j]
      BY DEF Spaced, Records
    <3>1. CASE j = i BY <2>1, <2>3, <3>1
    <3>2. CASE k = i BY <2>1, <2>3, <3>2
    <3>3. CASE j # i /\ k # i BY <2>1, <3>3 DEF WaitInv, Spaced
    <3> QED BY <3>1, <3>2, <3>3
  <2> QED BY <1>4, <2>2, <2>4 DEF WaitInv, Rested, Freed, UpdateFindsRecord
<1>5. ~ \A i \in Records : waits[i] # None BY <1>1 DEF Room
<1> QED BY <1>3, <1>4, <1>5 DEF Update, Fail

LEMMA ShadowWaits ==
  ASSUME NumAcks * SleepTime >= UpdateTimeout, WaitInv, Shadow
  PROVE  WaitInv'
<1>0. SleepTime \in Nat /\ YieldTime \in Nat /\ None \notin Nat BY BoundsTyped
<1>1. WaitsTyped /\ Spaced /\ Rested /\ Freed /\ UpdateFindsRecord BY DEF WaitInv
<1>2. ASSUME NEW d \in Nat, waits' = Elapsed(waits, d), shadow # "sleep" \/ d = SleepTime,
             UNCHANGED endedBy, shadow' = "yield" \/ Room
      PROVE  WaitInv'
  <2>1. /\ WaitsTyped' /\ Spaced' /\ (Room => Room') /\ Rested' BY <1>1, <1>2, ElapsedKeeps
  <2> QED BY <1>1, <1>2, <2>1 DEF WaitInv, Freed, UpdateFindsRecord
<1>3. CASE ShadowStart
  <2>1. UNCHANGED waits /\ shadow = "start" /\ shadow' \in {"yield", "ended"} /\ endedBy' # "no record"
    BY <1>1, <1>3 DEF ShadowStart, Fail, UpdateFindsRecord
  <2> QED BY <1>1, <2>1 DEF WaitInv, WaitsTyped, Spaced, Rested, Freed, UpdateFindsRecord, Records
<1>4. CASE Answered
  <2>1. /\ shadow = "reading" /\ UNCHANGED <<shadow, endedBy>>
        /\ \E i \in Records : waits[i] # None /\ waits' = [waits EXCEPT ![i] = None]
    BY <1>4 DEF Answered
  <2>2. /\ waits' \in [Records -> 0..UpdateTimeout \cup {None}]
        /\ \A i \in Records : waits'[i] = waits[i] \/ waits'[i] = None
    BY <1>1, <2>1 DEF WaitsTyped
  <2>3. WaitsTyped' /\ Spaced' /\ Rested' /\ (Room => Room') BY <1>1, <2>1, <2>2, FreeingKeeps
  <2> QED BY <1>1, <2>1, <2>3 DEF WaitInv, Freed, UpdateFindsRecord
<1>5. CASE Delta(env.deltas, env.lengths)
  <2>1. UNCHANGED <<waits, endedBy>> /\ shadow = "reading" /\ shadow' = "unsubscribe"
    BY <1>5 DEF Delta
  <2> QED BY <1>1, <2>1 DEF WaitInv, WaitsTyped, Spaced, Rested, Freed, Room, UpdateFindsRecord, Records
<1>6. CASE YieldReturned
  <2>1. PICK d \in 0..YieldTime : waits' = Elapsed(waits, d) BY <1>6 DEF YieldReturned
  <2>2. d \in Nat BY <1>0
  <2>3. shadow = "reading" /\ UNCHANGED endedBy BY <1>6 DEF YieldReturned
  <2> QED BY <1>1, <1>2, <2>1, <2>2, <2>3 DEF Freed
<1>7. CASE Pause BY <1>2, <1>7 DEF Pause
<1>8. CASE Sleep BY <1>0, <1>2, <1>8 DEF Sleep
<1>9. ASSUME NEW done, ChannelUnsubscribe(done) \/ ChannelSubscribe(done) PROVE WaitInv'
  <2>1. shadow \in {"unsubscribe", "subscribe"} /\ waits' = Elapsed(waits, 1) /\ UNCHANGED endedBy
    BY <1>9 DEF ChannelUnsubscribe, ChannelSubscribe
  <2> QED BY <1>1, <1>2, <2>1 DEF Freed
<1> QED BY <1>3, <1>4, <1>5, <1>6, <1>7, <1>8, <1>9, YieldFrees, UpdateKeeps DEF Shadow, ShadowStep

LEMMA WaitInit == Init => WaitInv
<1> SUFFICES ASSUME Init PROVE WaitInv OBVIOUS
<1>1. waits = [i \in Records |-> None] /\ shadow = "start" /\ endedBy = None BY DEF Init, ShadowInit
<1>2. endedBy # "no record" BY <1>1, ShadowAssumption
<1> QED BY <1>1, <1>2 DEF WaitInv, WaitsTyped, Spaced, Rested, Freed, UpdateFindsRecord

\* UpdateFindsRecord: aws_iot_shadow_update never fails for want of a record of
\* the wait list, even if no update is ever answered, when the sleeps after as
\* many updates as fit in the list take at least the timeout of one.  The
\* application's numbers just do: ten records, sleep(3), a timeout of 30
\* seconds.
THEOREM RecordFound ==
  ASSUME NumAcks * SleepTime >= UpdateTimeout
  PROVE  Spec => []UpdateFindsRecord
<1>1. ASSUME WaitInv, [Next]_vars PROVE WaitInv'
  <2>1. ASSUME UNCHANGED shadowVars PROVE WaitInv'
    BY <1>1, <2>1 DEF shadowVars, WaitInv, WaitsTyped, Spaced, Rested, Freed, Room,
                      UpdateFindsRecord, Records
  <2>2. CASE Shadow BY <1>1, <2>2, ShadowWaits
  <2>3. CASE ~Shadow
    BY <1>1, <2>1, <2>3 DEF Next, MainStart, Receive, Worker, Reuse, MalformedDelta, vars
  <2> QED BY <2>2, <2>3
<1>2. WaitInv => UpdateFindsRecord BY DEF WaitInv
<1> QED BY <1>1, <1>2, WaitInit, PTL DEF Spec

-----------------------------------------------------------------------------
(* The document of an update.                                              *)

\* A set of natural numbers has a least element.
LEMMA LeastNumber ==
  ASSUME NEW T \in SUBSET Nat, T # {}
  PROVE  \E n \in T : \A m \in T : n <= m
<1> DEFINE R == OpToRel(<, Nat)
<1>1. IsWellFoundedOn(R, Nat) BY NatLessThanWellFounded
<1> HIDE DEF R
<1>2. PICK n \in T : \A m \in T : ~(<<m, n>> \in R) BY <1>1, WFMin
<1>3. \A m \in T : ~(m < n) BY <1>2 DEF R, OpToRel
<1> QED BY <1>3

\* A set that has 0 and the successors of its members has every number up to n.
LEMMA Climb ==
  ASSUME NEW n \in Nat, NEW S, 0 \in S, \A m \in 1..n : m - 1 \in S => m \in S
  PROVE  \A m \in 0..n : m \in S
<1> DEFINE T == {m \in 0..n : m \notin S}
<1> SUFFICES ASSUME T # {} PROVE FALSE OBVIOUS
<1>1. T \in SUBSET Nat OBVIOUS
<1> HIDE DEF T
<1>2. PICK k \in T : \A m \in T : k <= m BY <1>1, LeastNumber
<1>3. k \in 0..n /\ k \notin S BY DEF T
<1>4. k \in 1..n BY <1>3
<1>5. k - 1 \in 0..n /\ ~(k <= k - 1) BY <1>4
<1>6. k - 1 \in S BY <1>2, <1>5 DEF T
<1> QED BY <1>3, <1>4, <1>6

\* The key and the value of a field, by their lengths.
Field == [key : Nat, value : Nat]

\* The recursion of FieldSizes, up to field n.
Adds(size, fields, n) ==
  /\ size[0] = 0
  /\ \A d \in 1..n : size[d] = size[d - 1] + fields[d].key + fields[d].value + 6

\* One more field.
LEMMA SizeTyped ==
  ASSUME NEW n \in Nat, NEW k \in Nat, NEW v \in Nat
  PROVE  n + k + v + 6 \in Nat /\ n <= n + k + v + 6
OBVIOUS

\* Some function satisfies the recursion of FieldSizes: by induction over the
\* number of fields.
LEMMA SizesExist ==
  ASSUME NEW fields \in Seq(Field)
  PROVE  \E size \in [0..Len(fields) -> Nat] : Adds(size, fields, Len(fields))
<1> DEFINE N == Len(fields)
           S == {n \in 0..N : \E size \in [0..N -> Nat] : Adds(size, fields, n)}
<1>1. N \in Nat /\ \A n \in 1..N : fields[n] \in Field OBVIOUS
<1> HIDE DEF N
<1>2. 0 \in S
  <2> DEFINE z == [d \in 0..N |-> 0]
  <2>1. z \in [0..N -> Nat] /\ z[0] = 0 BY <1>1
  <2> HIDE DEF z
  <2>2. Adds(z, fields, 0) BY <2>1 DEF Adds
  <2> QED BY <1>1, <2>1, <2>2
<1>3. ASSUME NEW n \in 1..N, n - 1 \in S PROVE n \in S
  <2>1. PICK g \in [0..N -> Nat] : Adds(g, fields, n - 1) BY <1>3
  <2> DEFINE x == g[n - 1] + fields[n].key + fields[n].value + 6
             h == [g EXCEPT ![n] = x]
  <2>2. x \in Nat
    <3>1. n - 1 \in 0..N BY <1>1
    <3>2. g[n - 1] \in Nat BY <2>1, <3>1
    <3>3. fields[n].key \in Nat /\ fields[n].value \in Nat BY <1>1 DEF Field
    <3> QED BY <3>2, <3>3, SizeTyped
  <2> HIDE DEF x
  <2>3. h \in [0..N -> Nat] /\ h[n] = x /\ \A d \in 0..N : d # n => h[d] = g[d]
    BY <1>1, <2>2
  <2> HIDE DEF h
  <2>4. h[0] = 0 BY <1>1, <2>1, <2>3 DEF Adds
  <2>5. ASSUME NEW d \in 1..n PROVE h[d] = h[d - 1] + fields[d].key + fields[d].value + 6
    <3>1. d - 1 \in 0..N /\ d - 1 # n /\ d \in 0..N BY <1>1
    <3>2. h[d - 1] = g[d - 1] BY <2>3, <3>1
    <3>3. CASE d = n BY <2>3, <3>2, <3>3 DEF x
    <3>4. CASE d # n
      <4>1. d \in 1..(n - 1) BY <1>1, <3>4
      <4>2. g[d] = g[d - 1] + fields[d].key + fields[d].value + 6 BY <2>1, <4>1 DEF Adds
      <4> QED BY <2>3, <3>1, <3>2, <3>4, <4>2
    <3> QED BY <3>3, <3>4
  <2>6. Adds(h, fields, n) BY <2>4, <2>5 DEF Adds
  <2>7. n \in 0..N BY <1>1
  <2> QED BY <2>3, <2>6, <2>7
<1> HIDE DEF S
<1>4. \A n \in 0..N : n \in S BY <1>1, <1>2, <1>3, Climb
<1>5. N \in S BY <1>1, <1>4
<1> QED BY <1>5 DEF S, N

\* FieldSizes satisfies its recursion, and grows.
LEMMA SizesUnfold ==
  ASSUME NEW fields \in Seq(Field)
  PROVE  /\ Adds(FieldSizes(fields), fields, Len(fields))
         /\ FieldSizes(fields) \in [0..Len(fields) -> Nat]
<1> DEFINE N == Len(fields)
<1>0. N \in Nat /\ \A n \in 1..N : fields[n] \in Field OBVIOUS
<1>1. PICK g \in [0..N -> Nat] : Adds(g, fields, N) BY SizesExist
<1>2. g = [d \in 0..N |-> IF d = 0 THEN 0 ELSE g[d - 1] + fields[d].key + fields[d].value + 6]
  <2> HIDE DEF N
  <2>1. ASSUME NEW d \in 0..N
        PROVE  g[d] = IF d = 0 THEN 0 ELSE g[d - 1] + fields[d].key + fields[d].value + 6
    <3>1. CASE d = 0 BY <1>1, <3>1 DEF Adds
    <3>2. CASE d # 0
      <4>1. d \in 1..N BY <1>0, <3>2
      <4> QED BY <1>1, <3>2, <4>1 DEF Adds
    <3> QED BY <3>1, <3>2
  <2> QED BY <2>1
<1>3. FieldSizes(fields) = [d \in 0..N |-> IF d = 0 THEN 0
                               ELSE FieldSizes(fields)[d - 1] + fields[d].key + fields[d].value + 6]
  BY <1>2 DEF FieldSizes
<1> DEFINE o == FieldSizes(fields)
<1>4. o = [d \in 0..N |-> IF d = 0 THEN 0 ELSE o[d - 1] + fields[d].key + fields[d].value + 6]
  BY <1>3
<1> HIDE DEF o, N
<1>5. 0 \in 0..N /\ \A d \in 1..N : d \in 0..N /\ d # 0 BY <1>0
<1>6. o[0] = 0 BY <1>4, <1>5
<1>7. \A d \in 1..N : o[d] = o[d - 1] + fields[d].key + fields[d].value + 6 BY <1>4, <1>5
<1>8. Adds(o, fields, N) BY <1>6, <1>7 DEF Adds
<1> DEFINE S == {n \in 0..N : o[n] \in Nat}
<1>9. 0 \in S BY <1>5, <1>6
<1>10. ASSUME NEW n \in 1..N, n - 1 \in S PROVE n \in S
  <2>1. o[n - 1] \in Nat BY <1>10
  <2>2. fields[n].key \in Nat /\ fields[n].value \in Nat BY <1>0 DEF Field
  <2>3. o[n - 1] + fields[n].key + fields[n].value + 6 \in Nat BY <2>1, <2>2, SizeTyped
  <2>4. o[n] \in Nat BY <1>7, <2>3
  <2> QED BY <1>5, <2>4
<1> HIDE DEF S
<1>11. \A n \in 0..N : n \in S BY <1>0, <1>9, <1>10, Climb
<1>12. \A n \in 0..N : o[n] \in Nat BY <1>11 DEF S
<1>13. o \in [0..N -> Nat] BY <1>4, <1>12
<1> QED BY <1>8, <1>13 DEF o, N

\* No part is longer than the whole.
LEMMA SizesGrow ==
  ASSUME NEW fields \in Seq(Field), NEW d \in 0..Len(fields)
  PROVE  FieldSizes(fields)[d] <= FieldSizes(fields)[Len(fields)]
<1> DEFINE N == Len(fields)
           o == FieldSizes(fields)
           S == {n \in 0..N : \A m \in 0..n : o[m] <= o[n]}
<1>0. N \in Nat /\ \A n \in 1..N : fields[n] \in Field OBVIOUS
<1>1. Adds(o, fields, N) /\ o \in [0..N -> Nat] BY SizesUnfold
<1> HIDE DEF N, o
<1>2. 0 \in S
  <2>1. \A m \in 0..0 : m = 0 OBVIOUS
  <2>2. 0 \in 0..N /\ o[0] \in Nat BY <1>0, <1>1
  <2>3. o[0] <= o[0] BY <2>2
  <2> QED BY <2>1, <2>2, <2>3
<1>3. ASSUME NEW n \in 1..N, n - 1 \in S PROVE n \in S
  <2>1. n \in 0..N /\ n - 1 \in 0..N BY <1>0
  <2>2. o[n] \in Nat /\ o[n - 1] \in Nat BY <1>1, <2>1
  <2>3. fields[n].key \in Nat /\ fields[n].value \in Nat BY <1>0 DEF Field
  <2>4. o[n] = o[n - 1] + fields[n].key + fields[n].value + 6 BY <1>1 DEF Adds
  <2>5. o[n - 1] <= o[n] BY <2>2, <2>3, <2>4
  <2>6. ASSUME NEW m \in 0..n PROVE o[m] <= o[n]
    <3>1. CASE m = n BY <2>2, <3>1
    <3>2. CASE m # n
      <4>1. m \in 0..(n - 1) /\ m \in 0..N BY <1>0, <3>2
      <4>2. o[m] <= o[n - 1] /\ o[m] \in Nat BY <1>1, <1>3, <4>1
      <4> QED BY <2>2, <2>5, <4>2
    <3> QED BY <3>1, <3>2
  <2> QED BY <2>1, <2>6
<1> HIDE DEF S
<1>4. \A n \in 0..N : n \in S BY <1>0, <1>2, <1>3, Climb
<1>5. N \in S BY <1>0, <1>4
<1> QED BY <1>5 DEF S, N, o

\* The document is complete so far, with len characters, and the limit of
\* the next snprintf is not below what is left of the buffer.
Fits(doc, len, max) ==
  \E l \in Nat : max <= l + len /\ doc = [len |-> len, limit |-> l, rc |-> "SUCCESS"]

\* snprintf with room for n characters more.
LEMMA SnprintfFits ==
  ASSUME NEW doc, NEW len \in Nat, NEW max \in Nat, NEW back \in Nat, NEW n \in Nat,
         Fits(doc, len, max), back <= len, back <= n, n + len < max
  PROVE  Fits(Snprintf(doc, back, n), len - back + n, max)
<1>1. PICK l \in Nat : max <= l + len /\ doc = [len |-> len, limit |-> l, rc |-> "SUCCESS"]
  BY DEF Fits
<1>2. n < l /\ max <= l + (len - back + n) BY <1>1
<1>3. Snprintf(doc, back, n) = [len |-> len - back + n, limit |-> l, rc |-> "SUCCESS"]
  BY <1>1, <1>2 DEF Snprintf
<1> QED BY <1>2, <1>3 DEF Fits

\* A length that leaves room for more than the terminator.
LEMMA MeasureFits ==
  ASSUME NEW doc, NEW len \in Nat, NEW max \in Nat, Fits(doc, len, max), len + 1 < max
  PROVE  Fits(Measure(doc, max), len, max)
<1>1. PICK l \in Nat : max <= l + len /\ doc = [len |-> len, limit |-> l, rc |-> "SUCCESS"]
  BY DEF Fits
<1>2. max - len \in Nat /\ ~(max - len <= 1) /\ len <= max /\ max <= (max - len) + len OBVIOUS
<1>3. doc.len = len /\ doc.rc = "SUCCESS" BY <1>1
<1>4. (IF doc.len <= max THEN max - doc.len ELSE 2^31 - 1) = max - len BY <1>2, <1>3
<1>5. Measure(doc, max) = [doc EXCEPT !.limit = max - len] BY <1>2, <1>3, <1>4 DEF Measure
<1>6. Measure(doc, max) = [len |-> len, limit |-> max - len, rc |-> "SUCCESS"] BY <1>1, <1>5
<1> QED BY <1>2, <1>6 DEF Fits

\* A field with room for its key and its value.
LEMMA AddFieldFits ==
  ASSUME NEW doc, NEW len \in Nat, NEW max \in Nat, NEW f \in Field,
         Fits(doc, len, max), len + f.key + f.value + 6 < max
  PROVE  Fits(AddField(doc, max, f), len + f.key + f.value + 6, max)
<1>1. PICK k \in Nat, v \in Nat : k = f.key /\ v = f.value BY DEF Field
<1>2. len + k + v + 6 < max BY <1>1
<1> DEFINE m == Measure(doc, max)
           s == Snprintf(m, 0, k + 3)
<1>3. Fits(m, len, max) BY <1>2, MeasureFits
<1> HIDE DEF m
<1>4. k + 3 \in Nat /\ v + 3 \in Nat /\ 0 \in Nat /\ 0 <= len /\ 0 <= k + 3 /\ 0 <= v + 3
      /\ (k + 3) + len < max /\ len - 0 + (k + 3) \in Nat /\ 0 <= len - 0 + (k + 3)
      /\ (v + 3) + (len - 0 + (k + 3)) < max
  BY <1>2
<1>5. Fits(s, len - 0 + (k + 3), max) BY <1>3, <1>4, SnprintfFits
<1> HIDE DEF s
<1>6. Fits(Snprintf(s, 0, v + 3), (len - 0 + (k + 3)) - 0 + (v + 3), max)
  BY <1>4, <1>5, SnprintfFits
<1>7. (len - 0 + (k + 3)) - 0 + (v + 3) = len + k + v + 6 OBVIOUS
<1>8. AddField(doc, max, f) = Snprintf(s, 0, v + 3) BY <1>1 DEF AddField, s, m
<1>9. Fits(AddField(doc, max, f), len + k + v + 6, max) BY <1>6, <1>7, <1>8
<1> QED BY <1>1, <1>9

\* The recursion of AddFields, up to field n.
Appends(added, doc, max, fields, n) ==
  /\ added[0] = doc
  /\ \A d \in 1..n : added[d] = AddField(added[d - 1], max, fields[d])

\* Some function satisfies the recursion of AddFields.
LEMMA AddedExist ==
  ASSUME NEW N \in Nat, NEW doc, NEW max, NEW fields
  PROVE  \E g : g = [d \in 0..N |-> g[d]] /\ Appends(g, doc, max, fields, N)
<1> DEFINE S == {n \in 0..N : \E g : g = [d \in 0..N |-> g[d]] /\ Appends(g, doc, max, fields, n)}
<1>2. 0 \in S
  <2> DEFINE z == [d \in 0..N |-> doc]
  <2>1. z = [d \in 0..N |-> z[d]] /\ z[0] = doc OBVIOUS
  <2> HIDE DEF z
  <2>2. Appends(z, doc, max, fields, 0) BY <2>1 DEF Appends
  <2> QED BY <2>1, <2>2
<1>3. ASSUME NEW n \in 1..N, n - 1 \in S PROVE n \in S
  <2>1. PICK g : g = [d \in 0..N |-> g[d]] /\ Appends(g, doc, max, fields, n - 1) BY <1>3
  <2> DEFINE x == AddField(g[n - 1], max, fields[n])
  <2> HIDE DEF x
  <2> DEFINE h == [d \in 0..N |-> IF d = n THEN x ELSE g[d]]
  <2>3. h = [d \in 0..N |-> h[d]] /\ h[n] = x /\ \A d \in 0..N : d # n => h[d] = g[d]
    OBVIOUS
  <2> HIDE DEF h
  <2>4. h[0] = doc BY <2>1, <2>3 DEF Appends
  <2>5. ASSUME NEW d \in 1..n PROVE h[d] = AddField(h[d - 1], max, fields[d])
    <3>1. d - 1 \in 0..N /\ d - 1 # n /\ d \in 0..N OBVIOUS
    <3>2. h[d - 1] = g[d - 1] BY <2>3, <3>1
    <3>3. CASE d = n BY <2>3, <3>2, <3>3 DEF x
    <3>4. CASE d # n
      <4>1. d \in 1..(n - 1) BY <3>4
      <4>2. g[d] = AddField(g[d - 1], max, fields[d]) BY <2>1, <4>1 DEF Appends
      <4> QED BY <2>3, <3>1, <3>2, <3>4, <4>2
    <3> QED BY <3>3, <3>4
  <2>6. Appends(h, doc, max, fields, n) BY <2>4, <2>5 DEF Appends
  <2>7. n \in 0..N OBVIOUS
  <2> QED BY <2>3, <2>6, <2>7
<1> HIDE DEF S
<1>4. \A n \in 0..N : n \in S BY <1>2, <1>3, Climb
<1>5. N \in S BY <1>4
<1> QED BY <1>5 DEF S

\* AddFields satisfies its recursion.
LEMMA AddedUnfold ==
  ASSUME NEW fields, Len(fields) \in Nat, NEW doc, NEW max
  PROVE  Appends(AddFields(doc, max, fields), doc, max, fields, Len(fields))
<1> DEFINE N == Len(fields)
<1>0. N \in Nat OBVIOUS
<1>1. PICK g : g = [d \in 0..N |-> g[d]] /\ Appends(g, doc, max, fields, N)
  BY <1>0, AddedExist
<1>2. g = [d \in 0..N |-> IF d = 0 THEN doc ELSE AddField(g[d - 1], max, fields[d])]
  <2> HIDE DEF N
  <2>1. ASSUME NEW d \in 0..N
        PROVE  g[d] = IF d = 0 THEN doc ELSE AddField(g[d - 1], max, fields[d])
    <3>1. CASE d = 0 BY <1>1, <3>1 DEF Appends
    <3>2. CASE d # 0
      <4>1. d \in 1..N BY <1>0, <3>2
      <4> QED BY <1>1, <3>2, <4>1 DEF Appends
    <3> QED BY <3>1, <3>2
  <2> QED BY <1>1, <2>1
<1>3. AddFields(doc, max, fields) =
        [d \in 0..N |-> IF d = 0 THEN doc
                        ELSE AddField(AddFields(doc, max, fields)[d - 1], max, fields[d])]
  BY <1>2 DEF AddFields
<1> DEFINE o == AddFields(doc, max, fields)
<1>4. o = [d \in 0..N |-> IF d = 0 THEN doc ELSE AddField(o[d - 1], max, fields[d])] BY <1>3
<1> HIDE DEF o, N
<1>5. 0 \in 0..N /\ \A d \in 1..N : d \in 0..N /\ d # 0 BY <1>0
<1>6. o[0] = doc BY <1>4, <1>5
<1>7. \A d \in 1..N : o[d] = AddField(o[d - 1], max, fields[d]) BY <1>4, <1>5
<1> QED BY <1>6, <1>7 DEF Appends, o, N

\* Fields with room for all of them.
LEMMA AddFieldsFits ==
  ASSUME NEW fields \in Seq(Field), NEW doc, NEW len \in Nat, NEW max \in Nat,
         Fits(doc, len, max), len + FieldSizes(fields)[Len(fields)] < max
  PROVE  Fits(AddFields(doc, max, fields)[Len(fields)],
              len + FieldSizes(fields)[Len(fields)], max)
<1> DEFINE N == Len(fields)
           o == FieldSizes(fields)
           a == AddFields(doc, max, fields)
           S == {n \in 0..N : Fits(a[n], len + o[n], max)}
<1>0. N \in Nat /\ \A n \in 1..N : fields[n] \in Field OBVIOUS
<1>1. Adds(o, fields, N) /\ o \in [0..N -> Nat] BY SizesUnfold
<1>2. Appends(a, doc, max, fields, N) BY <1>0, AddedUnfold
<1>3. \A n \in 0..N : o[n] <= o[N] BY SizesGrow
<1>4. len + o[N] < max OBVIOUS
<1> HIDE DEF N, o, a
<1>5. 0 \in S
  <2>1. 0 \in 0..N BY <1>0
  <2>2. a[0] = doc /\ o[0] = 0 BY <1>1, <1>2 DEF Adds, Appends
  <2>3. len + o[0] = len BY <2>2
  <2>4. Fits(a[0], len + o[0], max) BY <2>2, <2>3
  <2> QED BY <2>1, <2>4
<1>6. ASSUME NEW n \in 1..N, n - 1 \in S PROVE n \in S
  <2>1. n \in 0..N /\ n - 1 \in 0..N /\ N \in 0..N BY <1>0
  <2>2. a[n] = AddField(a[n - 1], max, fields[n]) BY <1>2 DEF Appends
  <2>3. o[n] = o[n - 1] + fields[n].key + fields[n].value + 6 BY <1>1 DEF Adds
  <2>4. PICK p \in Nat : p = o[n - 1] BY <1>1, <2>1
  <2>5. PICK q \in Nat : q = o[n] BY <1>1, <2>1
  <2>6. PICK r \in Nat : r = o[N] BY <1>1, <2>1
  <2>7. PICK k \in Nat, v \in Nat : k = fields[n].key /\ v = fields[n].value BY <1>0 DEF Field
  <2>8. q = p + k + v + 6 BY <2>3, <2>4, <2>5, <2>7
  <2>9. q <= r /\ len + r < max BY <1>3, <1>4, <2>1, <2>5, <2>6
  <2>10. len + p \in Nat /\ (len + p) + k + v + 6 < max /\ (len + p) + k + v + 6 = len + q
    BY <2>8, <2>9
  <2>11. Fits(a[n - 1], len + p, max) BY <1>6, <2>4
  <2>12. (len + p) + fields[n].key + fields[n].value + 6 = len + q BY <2>7, <2>10
  <2>13. Fits(AddField(a[n - 1], max, fields[n]),
              (len + p) + fields[n].key + fields[n].value + 6, max)
    <3>1. (len + p) + fields[n].key + fields[n].value + 6 < max BY <2>7, <2>10
    <3> QED BY <1>0, <2>10, <2>11, <3>1, AddFieldFits
  <2>14. Fits(a[n], len + o[n], max) BY <2>2, <2>5, <2>12, <2>13
  <2> QED BY <2>1, <2>14
<1> HIDE DEF S
<1>7. \A n \in 0..N : n \in S BY <1>0, <1>5, <1>6, Climb
<1>8. N \in S BY <1>0, <1>7
<1> QED BY <1>8 DEF S, N, o, a

\* A document that fits is built completely: the limits that are not measured
\* again between the key and the value of a field, and before the closing
\* brace, never cut off one that fits.
LEMMA DocumentFits ==
  ASSUME NEW fields \in Seq(Field), NEW token \in Nat, NEW max \in Nat,
         DocumentSize(fields, token) < max
  PROVE  /\ Document(max, fields, token).rc = "SUCCESS"
         /\ Document(max, fields, token).len = DocumentSize(fields, token)
<1>1. PICK z \in Nat : z = FieldSizes(fields)[Len(fields)] BY SizesUnfold
<1>2. DocumentSize(fields, token) = 10 + 12 + z + 1 + 17 + token + 2 BY <1>1 DEF DocumentSize
<1>3. 42 + z + token < max BY <1>2
<1> DEFINE d0 == [len |-> 0, limit |-> max, rc |-> "SUCCESS"]
           d1 == Snprintf(d0, 0, 10)
           d2 == Snprintf(Measure(d1, max), 0, 12)
           d3 == AddFields(d2, max, fields)[Len(fields)]
           d4 == Snprintf(d3, 1, 2)
           d5 == Snprintf(Measure(d4, max), 1, 18)
           d6 == Snprintf(Measure(d5, max), 0, token)
           d7 == Snprintf(Measure(d6, max), 0, 2)
<1>4. Document(max, fields, token) = d7
  BY DEF Document, Finalize, AddReported, InitDocument
<1>5. Fits(d0, 0, max) BY DEF Fits
<1> HIDE DEF d0
<1>6. Fits(d1, 10, max)
  <2>1. 0 \in Nat /\ 10 \in Nat /\ 0 <= 0 /\ 0 <= 10 /\ 10 + 0 < max BY <1>3
  <2>2. Fits(d1, 0 - 0 + 10, max) BY <1>5, <2>1, SnprintfFits
  <2> QED BY <2>2
<1> HIDE DEF d1
<1>7. Fits(d2, 22, max)
  <2>1. Fits(Measure(d1, max), 10, max) BY <1>3, <1>6, MeasureFits
  <2>2. 0 \in Nat /\ 10 \in Nat /\ 12 \in Nat /\ 0 <= 10 /\ 0 <= 12 /\ 12 + 10 < max BY <1>3
  <2>3. Fits(d2, 10 - 0 + 12, max) BY <2>1, <2>2, SnprintfFits
  <2> QED BY <2>3
<1> HIDE DEF d2
<1>8. Fits(d3, 22 + z, max)
  <2>1. 22 + z < max BY <1>3
  <2> QED BY <1>1, <1>7, <2>1, AddFieldsFits
<1> HIDE DEF d3
<1>9. Fits(d4, 23 + z, max)
  <2>1. 22 + z \in Nat /\ 1 <= 22 + z /\ 2 + (22 + z) < max /\ (22 + z) - 1 + 2 = 23 + z BY <1>3
  <2>2. Fits(d4, (22 + z) - 1 + 2, max) BY <1>8, <2>1, SnprintfFits
  <2> QED BY <2>1, <2>2
<1> HIDE DEF d4
<1>10. Fits(d5, 40 + z, max)
  <2>1. 23 + z \in Nat /\ 1 <= 23 + z /\ 18 + (23 + z) < max /\ (23 + z) + 1 < max
        /\ (23 + z) - 1 + 18 = 40 + z /\ 1 \in Nat /\ 18 \in Nat /\ 1 <= 18
    BY <1>3
  <2>2. Fits(Measure(d4, max), 23 + z, max) BY <1>9, <2>1, MeasureFits
  <2>3. Fits(d5, (23 + z) - 1 + 18, max) BY <2>1, <2>2, SnprintfFits
  <2> QED BY <2>1, <2>3
<1> HIDE DEF d5
<1>11. Fits(d6, 40 + z + token, max)
  <2>1. 40 + z \in Nat /\ 0 <= 40 + z /\ 0 <= token /\ token + (40 + z) < max /\ (40 + z) + 1 < max
        /\ (40 + z) - 0 + token = 40 + z + token
    BY <1>3
  <2>2. Fits(Measure(d5, max), 40 + z, max) BY <1>10, <2>1, MeasureFits
  <2>3. Fits(d6, (40 + z) - 0 + token, max) BY <2>1, <2>2, SnprintfFits
  <2> QED BY <2>1, <2>3
<1> HIDE DEF d6
<1>12. Fits(d7, 42 + z + token, max)
  <2>1. 40 + z + token \in Nat /\ 0 <= 40 + z + token /\ 2 + (40 + z + token) < max
        /\ (40 + z + token) + 1 < max /\ (40 + z + token) - 0 + 2 = 42 + z + token
        /\ 0 \in Nat /\ 2 \in Nat /\ 0 <= 2
    BY <1>3
  <2>2. Fits(Measure(d6, max), 40 + z + token, max) BY <1>11, <2>1, MeasureFits
  <2>3. Fits(d7, (40 + z + token) - 0 + 2, max) BY <2>1, <2>2, SnprintfFits
  <2> QED BY <2>1, <2>3
<1> HIDE DEF d7
<1>13. d7.rc = "SUCCESS" /\ d7.len = 42 + z + token BY <1>12 DEF Fits
<1>14. DocumentSize(fields, token) = 42 + z + token BY <1>2
<1> QED BY <1>4, <1>13, <1>14

\* After an update, and when one has failed because of it, the document is
\* the one built from the value of "channels" that is still the last.
DocumentInv ==
  /\ channelsLen \in Nat
  /\ endedBy = "document" => shadow = "ended"
  /\ shadow = "sleep" \/ endedBy = "document" => document = Document(BufferSize, Fields, TokenLen)

\* The first length is that of "unknown".
LEMMA DocumentInit == Init => DocumentInv
<1> SUFFICES ASSUME Init PROVE DocumentInv OBVIOUS
<1>1. channelsLen = 7 /\ shadow = "start" /\ endedBy = None BY DEF Init, ShadowInit
<1>2. endedBy # "document" BY <1>1, ShadowAssumption
<1> QED BY <1>1, <1>2 DEF DocumentInv

\* Only a delta changes the length, and none is read between an update and the
\* next yield, or after the loop.
LEMMA DocumentKeeps ==
  ASSUME ChannelInv, DocumentInv, [Next]_vars
  PROVE  DocumentInv'
<1>0. ASSUME UNCHANGED channelsLen PROVE Fields' = Fields BY <1>0 DEF Fields
<1> USE DEF DocumentInv, TokenLen
<1>1. ASSUME UNCHANGED shadowVars PROVE DocumentInv' BY <1>0, <1>1 DEF shadowVars
<1>2. ASSUME UNCHANGED <<channelsLen, document, endedBy>>, shadow' # "sleep", shadow # "ended"
      PROVE  DocumentInv'
  BY <1>0, <1>2
<1>3. CASE Shadow
  <2>1. CASE ShadowStart BY <1>0, <2>1 DEF ShadowStart, Fail
  <2>2. CASE ShadowYield BY <1>2, <2>2 DEF ShadowYield
  <2>3. CASE Answered BY <1>2, <2>3 DEF Answered
  <2>4. CASE Delta(env.deltas, env.lengths)
    <3>1. channelsLen' \in Nat BY <2>4, EnvironmentsAssumption DEF Delta, ChannelInv
    <3> QED BY <2>4, <3>1 DEF Delta
  <2>5. CASE YieldReturned BY <1>2, <2>5 DEF YieldReturned
  <2>6. CASE Pause BY <1>2, <2>6 DEF Pause
  <2>7. CASE Update(env.sends)
    <3>1. UNCHANGED channelsLen /\ document' = Document(BufferSize, Fields, TokenLen)
      BY <2>7 DEF Update
    <3>2. document' = Document(BufferSize, Fields', TokenLen') BY <1>0, <3>1
    <3>3. endedBy' = "document" => shadow' = "ended" BY <2>7 DEF Update, Fail
    <3> QED BY <3>1, <3>2, <3>3
  <2>8. CASE Sleep BY <1>2, <2>8 DEF Sleep
  <2>9. ASSUME NEW done, ChannelUnsubscribe(done) \/ ChannelSubscribe(done) PROVE DocumentInv'
    BY <1>2, <2>9 DEF ChannelUnsubscribe, ChannelSubscribe, NextChannel
  <2> QED BY <1>3, <2>1, <2>2, <2>3, <2>4, <2>5, <2>6, <2>7, <2>8, <2>9 DEF Shadow, ShadowStep
<1>4. CASE ~Shadow
  BY <1>1, <1>4 DEF Next, MainStart, Receive, Worker, Reuse, MalformedDelta, vars
<1> QED BY <1>3, <1>4

\* FittingDocumentBuilt: a document that fits in the buffer of the update, its
\* terminator included, is built completely and never refused, whatever value
\* a delta has stored for "channels" and whatever the size of the buffer.
THEOREM FittingBuilt == Spec => []FittingDocumentBuilt
<1>1. DocumentInv => FittingDocumentBuilt
  <2> SUFFICES ASSUME DocumentInv, shadow = "sleep" \/ endedBy = "document",
                      DocumentSize(Fields, TokenLen) < BufferSize
               PROVE  document.rc = "SUCCESS" /\ document.len = DocumentSize(Fields, TokenLen)
    BY DEF FittingDocumentBuilt
  <2>1. document = Document(BufferSize, Fields, TokenLen) /\ channelsLen \in Nat BY DEF DocumentInv
  <2>2. Fields \in Seq(Field) BY <2>1 DEF Fields, Field
  <2>3. TokenLen \in Nat /\ BufferSize \in Nat BY ShadowAssumption DEF TokenLen
  <2> QED BY <2>1, <2>2, <2>3, DocumentFits
<1>2. Spec => []ChannelInv BY ChannelInit, ChannelStepKeeps, PTL DEF Spec
<1> QED BY <1>1, <1>2, DocumentInit, DocumentKeeps, PTL DEF Spec

-----------------------------------------------------------------------------
(* Types.                                                                  *)

MainTyped ==
  /\ main \in {"start", "loop", "returned"} /\ WaitsTyped
  /\ shadow \in {"start", "yield", "reading", "pause", "unsubscribe", "subscribe", "update", "sleep", "ended"}
  /\ endedBy \in {None, "not connected", "document", "no record", "not sent"}

LEMMA ElapsedType ==
  ASSUME WaitsTyped, NEW d \in Nat
  PROVE  Elapsed(waits, d) \in [Records -> 0..UpdateTimeout \cup {None}]
<1> DEFINE e == Elapsed(waits, d)
<1>1. e = [i \in Records |-> e[i]] BY DEF Elapsed
<1>2. ASSUME NEW i \in Records PROVE e[i] \in 0..UpdateTimeout \cup {None}
  <2>1. /\ waits[i] = None => e[i] = None
        /\ waits[i] # None => /\ waits[i] \in 0..UpdateTimeout
                              /\ waits[i] < d => e[i] = 0
                              /\ waits[i] >= d => e[i] = waits[i] - d
    BY ElapsedTyped
  <2> HIDE DEF e
  <2>2. CASE waits[i] = None BY <2>1, <2>2
  <2>3. CASE waits[i] # None BY <2>1, <2>3, BoundsTyped
  <2> QED BY <2>2, <2>3
<1> HIDE DEF e
<1>3. e \in [Records -> 0..UpdateTimeout \cup {None}] BY <1>1, <1>2
<1> QED BY <1>3 DEF e

LEMMA ShadowTypes ==
  ASSUME ChannelInv, MainTyped, Shadow
  PROVE  MainTyped'
<1>0. /\ SleepTime \in Nat /\ YieldTime \in Nat /\ UpdateTimeout \in 0..UpdateTimeout
      /\ WaitsTyped /\ waits \in [Records -> 0..UpdateTimeout \cup {None}]
  <2>1. SleepTime \in Nat /\ YieldTime \in Nat /\ UpdateTimeout \in 0..UpdateTimeout BY BoundsTyped
  <2> QED BY <2>1 DEF MainTyped, WaitsTyped
<1>1. UNCHANGED main BY DEF Shadow
<1>2. \A d \in Nat : Elapsed(waits, d) \in [Records -> 0..UpdateTimeout \cup {None}]
  BY <1>0, ElapsedType
<1>3. \A d \in 0..YieldTime : d \in Nat BY <1>0
<1> USE DEF MainTyped, WaitsTyped, Records
<1>4. CASE ShadowStart BY <1>1, <1>4 DEF ShadowStart, Fail
<1>5. CASE ShadowYield BY <1>0, <1>1, <1>5 DEF ShadowYield
<1>6. CASE Answered BY <1>0, <1>1, <1>6 DEF Answered
<1>7. CASE Delta(env.deltas, env.lengths) BY <1>1, <1>7 DEF Delta
<1>8. CASE YieldReturned BY <1>1, <1>2, <1>3, <1>8 DEF YieldReturned
<1>9. CASE Pause BY <1>1, <1>2, <1>9 DEF Pause
<1>10. CASE Update(env.sends) BY <1>0, <1>1, <1>10 DEF Update, Fail
<1>11. CASE Sleep BY <1>0, <1>1, <1>2, <1>11 DEF Sleep
<1>12. ASSUME NEW done, ChannelUnsubscribe(done) \/ ChannelSubscribe(done) PROVE MainTyped'
  <2>1. waits' \in [Records -> 0..UpdateTimeout \cup {None}] /\ UNCHANGED endedBy
    BY <1>2, <1>12 DEF ChannelUnsubscribe, ChannelSubscribe
  <2>2. shadow' \in {"reading", "unsubscribe", "subscribe"}
    BY <1>12 DEF ChannelUnsubscribe, ChannelSubscribe, NextChannel
  <2> QED BY <1>1, <2>1, <2>2
<1> QED BY <1>4, <1>5, <1>6, <1>7, <1>8, <1>9, <1>10, <1>11, <1>12 DEF Shadow, ShadowStep

\* TypeOK, of the main thread, the command threads and the shadow thread: the
\* channels that are left of a delta are known exactly while its callback runs.
THEOREM TypeCorrect == Spec => []TypeOK
<1>1. Init => MainTyped
  <2> SUFFICES ASSUME Init PROVE MainTyped OBVIOUS
  <2>1. waits = [i \in Records |-> None] BY DEF Init, ShadowInit
  <2> QED BY <2>1 DEF Init, ShadowInit, MainTyped, WaitsTyped
<1>2. ChannelInv /\ MainTyped /\ [Next]_vars => MainTyped'
  <2> SUFFICES ASSUME ChannelInv, MainTyped, [Next]_vars PROVE MainTyped' OBVIOUS
  <2>1. ASSUME UNCHANGED shadowVars, main' \in {"start", "loop", "returned"} PROVE MainTyped'
    BY <2>1 DEF shadowVars, MainTyped, WaitsTyped, Records
  <2>2. CASE Shadow BY <2>2, ShadowTypes
  <2>3. CASE ~Shadow
    BY <2>1, <2>3 DEF Next, MainStart, Receive, Worker, Reuse, MalformedDelta, vars, MainTyped
  <2> QED BY <2>2, <2>3
<1>3. ChannelInv /\ CommandInv /\ MainTyped => TypeOK
  <2> SUFFICES ASSUME ChannelInv, CommandInv, MainTyped PROVE TypeOK OBVIOUS
  <2>1. /\ worker \in [Command -> Places] /\ settings \in [Threads -> Command \cup {Nothing}]
        /\ from \in [Command -> Threads \cup {Nothing}] /\ job \in [Command -> Command \cup {Nothing}]
        /\ published \in [Command -> SUBSET [topic : {"exitstatus", "data"}, own : BOOLEAN]]
        /\ msg.buffer \in Command \cup {Nothing}
    BY DEF CommandInv, CommandsTyped
  <2>2. env \in Environments /\ handlers \subseteq Slots /\ (InChannels <=> todo # <<>>)
    BY DEF ChannelInv
  <2> QED BY <2>1, <2>2 DEF TypeOK, MainTyped, WaitsTyped, Places, InChannels
<1>4. Spec => []ChannelInv BY ChannelInit, ChannelStepKeeps, PTL DEF Spec
<1>5. Spec => []CommandInv BY CommandInitially, CommandStepKeeps, PTL DEF Spec
<1>6. Spec => []MainTyped BY <1>1, <1>2, <1>4, PTL DEF Spec
<1> QED BY <1>3, <1>4, <1>5, <1>6, PTL

=============================================================================
