---------------------------- MODULE ShadowListProofs ----------------------------
(***************************************************************************)
(* The subscription list of the Thing Shadow client: a request that waits  *)
(* for its answer is subscribed to both topics the answer may come on, for *)
(* every number of requests, of actions and of places, and however deep    *)
(* the calls nest.                                                         *)
(*                                                                         *)
(* The code counts the users of a topic in its place of the list and       *)
(* unsubscribes when the last one ends.  A topic has at most one place, a  *)
(* place counts at least the requests that rely on it, and the two topics  *)
(* of an action have equal counts except while a request starts or one is  *)
(* halfway through releasing them.                                         *)
(***************************************************************************)
EXTENDS ShadowRecordsProofs, FiniteSetTheorems

\* The calls under way, and those below the innermost one.
Calls  == {calls[k] : k \in Under}
Others == {calls[k] : k \in 1..(Len(calls) - 1)}

\* A request is subscribing to its topics; a release has done the first topic;
\* the calls that the invariant of an action's places speaks of.
Starts(c)  == c.pc \in {"accepted", "rejected"}
Half(c)    == c.pc \in NotifyPcs /\ c.kind = "rejected"
Special(c) == Starts(c) \/ Half(c) \/ c.pc = "unsubscribe"

\* The slots of the wait list whose requests rely on a topic: a request that
\* is about to be published, one that waits for its answer, and one that was
\* notified and has not released the topic.
Expects(i, a) ==
  i \in AckSlots /\ ~ackWait[i].free /\ ackWait[i].action = a /\ notified[ackWait[i].token] = 0
Holds(c, a, kind) ==
  /\ c.action = a
  /\ c.pc = "publish" \/ (c.pc \in NotifyPcs /\ (kind = "rejected" \/ c.kind = "accepted"))
Users(a, kind) ==
  {i \in AckSlots : Expects(i, a) \/ \E c \in Calls : c.ack = i /\ Holds(c, a, kind)}

\* A place is claimed from the moment a request takes it for the rejected
\* topic until the topic is written to it; a live place has its topic.
Claimed(i) == \E c \in Calls : c.pc = "accepted" /\ c.rej = i
Live(i)    == i \in SubSlots /\ ~subList[i].free /\ ~Claimed(i)
LiveFor(i, a, kind) == Live(i) /\ subList[i].topic = Topic(a, kind)
HasPlace(a, kind)   == \E i \in SubSlots : LiveFor(i, a, kind)

\* The search for a topic finds its live place, whatever topics are left in
\* places that are free or claimed; a topic has one live place.
Ranked == \A i, j \in SubSlots : Live(i) /\ subList[i].topic = subList[j].topic => i <= j

LiveKnown ==
  \A i \in SubSlots : Live(i) => \E a \in env.actions, kind \in Kinds : subList[i].topic = Topic(a, kind)

\* A place counts at least the requests that rely on its topic.
Served(a) ==
  \A kind \in Kinds : Users(a, kind) # {} =>
    \E i \in SubSlots : LiveFor(i, a, kind) /\ subList[i].count >= Cardinality(Users(a, kind))

\* A live place is subscribed, but for the request that is doing it.
Subscribed(a) ==
  \A i \in SubSlots, kind \in Kinds : LiveFor(i, a, kind) =>
    Topic(a, kind) \in mqtt \/ \E c \in Calls : c.action = a /\ Starts(c)

\* A request that subscribes is the first user of its topics.
Starting(c) ==
  /\ c.acc \in SubSlots /\ c.rej \in SubSlots /\ c.acc # c.rej
  /\ ~subList[c.acc].free /\ ~subList[c.rej].free
  /\ subList[c.acc].topic = Topic(c.action, "accepted")
  /\ \A kind \in Kinds : Users(c.action, kind) = {}
  /\ c.pc = "accepted" =>
       \A j \in SubSlots : subList[j].topic = Topic(c.action, "rejected") /\ j # c.rej =>
         ~Live(j) /\ c.rej < j
  /\ c.pc = "rejected" =>
       /\ subList[c.rej].topic = Topic(c.action, "rejected")
       /\ subList[c.acc].count = 1 /\ subList[c.acc].sticky = c.sticky
       /\ Topic(c.action, "accepted") \in mqtt
Requested(a) == \A c \in Calls : c.action = a /\ Starts(c) => Starting(c)

\* A call that unsubscribes from a topic is its last user.
Removable(c) ==
  LiveFor(c.acc, c.action, c.kind) /\ subList[c.acc].count = 1 /\ ~subList[c.acc].sticky
Removing(a) == \A c \in Calls : c.action = a /\ c.pc = "unsubscribe" => Removable(c)

\* The count of the accepted topic is one behind that of the rejected topic,
\* unless both are sticky and were at one; or the accepted topic is gone and
\* the rejected one goes next.
Behind(i, j) ==
  /\ subList[i].sticky = subList[j].sticky /\ subList[i].count >= 1
  /\ \/ subList[j].count = subList[i].count + 1
     \/ subList[j].sticky /\ subList[i].count = 1 /\ subList[j].count = 1
Halfway(a) ==
  \E j \in SubSlots :
    /\ LiveFor(j, a, "rejected")
    /\ \/ /\ ~HasPlace(a, "accepted")
          /\ subList[j].count = 1 /\ ~subList[j].sticky
       \/ \E i \in SubSlots : LiveFor(i, a, "accepted") /\ Behind(i, j)
Halved(a) ==
  \A c \in Calls : c.action = a /\ Half(c) =>
    /\ c.pc = "unsubscribe" => ~HasPlace(a, "accepted")
    /\ c.pc = "release" => Halfway(a)

Paired(a) ==
  /\ HasPlace(a, "accepted") <=> HasPlace(a, "rejected")
  /\ \A i, j \in SubSlots : LiveFor(i, a, "accepted") /\ LiveFor(j, a, "rejected") =>
       subList[i].count = subList[j].count /\ subList[i].sticky = subList[j].sticky
PairKept(a) == Paired(a) \/ \E c \in Calls : c.action = a /\ (Starts(c) \/ Half(c))

\* What holds of the places of one action.
Tended(a) ==
  Served(a) /\ Subscribed(a) /\ Requested(a) /\ Removing(a) /\ Halved(a) /\ PairKept(a)

NoUndo  == \A c \in Calls : c.pc \notin {"cleanup", "undo"}
ListInv == NoUndo /\ Ranked /\ LiveKnown /\ \A a \in env.actions : Tended(a)

\* A call acts on an action of the application; a callback comes before the
\* release of the first topic.  A timeout is only handled by the outermost
\* call, which gives its record back when the callback returns.
CallKnown(c, k) ==
  /\ c.action \in env.actions
  /\ c.pc = "callback" => c.kind = "accepted"
  /\ c.pc \in NotifyPcs /\ ~c.acked =>
       k = 1 /\ (c.pc = "callback" \/ ackWait[c.ack].free)
RecordsKnown == \A i \in AckSlots : ~ackWait[i].free => ackWait[i].action \in env.actions
KnownInv == RecordsKnown /\ \A k \in Under : CallKnown(calls[k], k)

-----------------------------------------------------------------------------
(* The calls under way as a set.                                           *)

LEMMA CallsSplit ==
  ASSUME calls \in Seq(CallSet), calls # <<>>
  PROVE  Calls = Others \cup {Call} /\ Call \in Calls
<1>1. Len(calls) \in Nat /\ Len(calls) > 0 /\ Len(calls) \in Under /\ Call = calls[Len(calls)]
  BY TopCall
<1>2. \A k \in Under : k = Len(calls) \/ k \in 1..(Len(calls) - 1) BY <1>1 DEF Under
<1>3. \A k \in 1..(Len(calls) - 1) : k \in Under BY <1>1 DEF Under
<1> QED BY <1>1, <1>2, <1>3 DEF Calls, Others

LEMMA CallsEmpty ==
  ASSUME calls = <<>>
  PROVE  Calls = {}
BY DEF Calls, Under

LEMMA CallsPushed ==
  ASSUME calls \in Seq(CallSet), NEW c, Pushed(c)
  PROVE  Calls' = Calls \cup {c}
<1>1. /\ Len(calls) \in Nat /\ Len(calls') = Len(calls) + 1 /\ calls'[Len(calls) + 1] = c
      /\ \A k \in Under : calls'[k] = calls[k]
  BY DEF Pushed
<1>2. \A k \in 1..Len(calls') : k \in Under \/ k = Len(calls) + 1 BY <1>1 DEF Under
<1>3. Under \subseteq 1..Len(calls') /\ Len(calls) + 1 \in 1..Len(calls') BY <1>1 DEF Under
<1>4. Calls' = {calls'[k] : k \in 1..Len(calls')} BY DEF Calls, Under
<1> QED BY <1>1, <1>2, <1>3, <1>4 DEF Calls

LEMMA CallsReplaced ==
  ASSUME calls \in Seq(CallSet), calls # <<>>, NEW c, Replaced(c)
  PROVE  Calls' = Others \cup {c}
<1>1. /\ Len(calls) \in Nat /\ Len(calls) > 0 /\ Len(calls') = Len(calls)
      /\ calls'[Len(calls)] = c /\ \A k \in 1..(Len(calls) - 1) : calls'[k] = calls[k]
  BY TopCall DEF Replaced
<1>2. \A k \in 1..Len(calls) : k = Len(calls) \/ k \in 1..(Len(calls) - 1) BY <1>1
<1>3. 1..(Len(calls) - 1) \subseteq 1..Len(calls) /\ Len(calls) \in 1..Len(calls) BY <1>1
<1>4. Calls' = {calls'[k] : k \in 1..Len(calls)} BY <1>1 DEF Calls, Under
<1> QED BY <1>1, <1>2, <1>3, <1>4 DEF Others

LEMMA CallsPopped ==
  ASSUME Popped
  PROVE  Calls' = Others
<1>1. Calls' = {calls'[k] : k \in 1..(Len(calls) - 1)} BY DEF Calls, Under, Popped
<1> QED BY <1>1 DEF Others, Popped

\* The calls below the innermost one wait, and none of them has its slot.
LEMMA OtherCalls ==
  ASSUME TypeInv, CallsInv, KnownInv, calls # <<>>, NEW d \in Others
  PROVE  /\ d \in Calls /\ d \in CallSet /\ d.pc \in Waits /\ d.pc # "callback"
         /\ d.pc \in NotifyPcs => d.pc = "unsubscribe"
         /\ d.pc \in NotifyPcs /\ Call.pc \in NotifyPcs => d.ack # Call.ack
<1>1. PICK j \in 1..(Len(calls) - 1) : d = calls[j] BY DEF Others
<1>2. Len(calls) \in Nat /\ Len(calls) \in Under /\ Call = calls[Len(calls)]
  BY TopCall DEF TypeInv, CallsTyped
<1>3. j \in Under /\ j # Len(calls) BY <1>1, <1>2 DEF Under
<1>4. d.pc \in Waits BY <1>1 DEF CallsInv, OuterWait
<1>5. d \in CallSet BY <1>1, <1>3, CallOf
<1>6. ASSUME d.pc \in NotifyPcs, Call.pc \in NotifyPcs, d.ack = Call.ack PROVE FALSE
  <2>1. CASE Busy(d) /\ Busy(Call)
    BY <1>1, <1>2, <1>3, <1>6, <2>1 DEF CallsInv, BusyDiffer
  <2>2. ASSUME NEW k \in Under, calls[k].pc \in NotifyPcs, ~Busy(calls[k])
        PROVE  k = 1 /\ ackWait[calls[k].ack].free
    BY <2>2, CallOf DEF KnownInv, CallKnown, Busy
  <2>3. ASSUME NEW k \in Under, Busy(calls[k]) PROVE ~ackWait[calls[k].ack].free
    BY <2>3 DEF CallsInv, BusyOwns, Owned
  <2>4. CASE ~Busy(d) /\ ~Busy(Call) BY <1>1, <1>2, <1>3, <1>6, <2>2, <2>4
  <2>5. CASE Busy(d) /\ ~Busy(Call) BY <1>1, <1>2, <1>3, <1>6, <2>2, <2>3, <2>5
  <2>6. CASE ~Busy(d) /\ Busy(Call) BY <1>1, <1>2, <1>3, <1>6, <2>2, <2>3, <2>6
  <2> QED BY <2>1, <2>4, <2>5, <2>6
<1>7. d \in Calls BY <1>1, <1>3 DEF Calls
<1> QED BY <1>4, <1>5, <1>6, <1>7, PcsDiffer DEF NotifyPcs, Waits

LEMMA CallIn ==
  ASSUME TypeInv, NEW c \in Calls
  PROVE  c \in CallSet
BY CallOf DEF Calls

\* A request is alone.
LEMMA RequestOthers ==
  ASSUME TypeInv, CallsInv, NEW pc \in RequestPcs, At(pc)
  PROVE  Others = {} /\ Calls = {Call}
<1>1. Len(calls) = 1 /\ Under = {1} /\ calls[1] = Call BY RequestIsOnly
<1>2. Others = {} BY <1>1 DEF Others
<1> QED BY <1>1, <1>2 DEF Calls

-----------------------------------------------------------------------------
(* The calls act on actions of the application.                            *)

LEMMA KnownInit == Init => KnownInv
BY DEF Init, KnownInv, RecordsKnown, Under

LEMMA KnownMoves ==
  ASSUME TypeInv, KnownInv, UNCHANGED env, RecordsKnown',
         \A i \in AckSlots : ackWait[i].free => ackWait'[i].free, NEW n,
         \/ UNCHANGED calls \/ (calls # <<>> /\ Popped)
         \/ \E c \in CallSet : n = Len(calls) + 1 /\ Pushed(c) /\ CallKnown(c, n)'
         \/ \E c \in CallSet : n = Len(calls) /\ calls # <<>> /\ Replaced(c) /\ CallKnown(c, n)'
  PROVE  KnownInv'
<1>1. Len(calls) \in Nat BY DEF TypeInv, CallsTyped
<1>2. ASSUME NEW k \in Under PROVE CallKnown(calls[k], k) /\ calls[k].ack \in AckSlots
  BY CallOf DEF KnownInv
<1>3. ASSUME NEW k \in Under, NEW c, c = calls[k] PROVE CallKnown(c, k)'
  BY <1>2, <1>3 DEF CallKnown
<1>4. ASSUME \A k \in 1..Len(calls') : \/ k \in Under /\ calls'[k] = calls[k]
                                       \/ k = n /\ \E c \in CallSet : calls'[k] = c /\ CallKnown(c, n)'
      PROVE  KnownInv'
  <2>1. ASSUME NEW k \in 1..Len(calls') PROVE \E c : calls'[k] = c /\ CallKnown(c, k)'
    BY <1>3, <1>4
  <2>2. ASSUME NEW k \in 1..Len(calls'), NEW c, calls'[k] = c, CallKnown(c, k)'
        PROVE  CallKnown(calls[k], k)'
    BY <2>2 DEF CallKnown
  <2> QED BY <2>1, <2>2 DEF KnownInv, Under
<1>5. CASE UNCHANGED calls BY <1>4, <1>5 DEF Under
<1>6. CASE calls # <<>> /\ Popped
  <2>1. \A k \in 1..Len(calls') : k \in Under /\ calls'[k] = calls[k]
    BY <1>1, <1>6 DEF Popped, Under
  <2> QED BY <1>4, <2>1
<1>7. ASSUME NEW c \in CallSet, n = Len(calls) + 1, Pushed(c), CallKnown(c, n)' PROVE KnownInv'
  <2>1. \A k \in 1..Len(calls') : (k \in Under /\ calls'[k] = calls[k]) \/ (k = n /\ calls'[k] = c)
    BY <1>1, <1>7 DEF Pushed, Under
  <2> QED BY <1>4, <1>7, <2>1
<1>8. ASSUME NEW c \in CallSet, n = Len(calls), calls # <<>>, Replaced(c), CallKnown(c, n)'
      PROVE  KnownInv'
  <2>1. \A k \in 1..Len(calls') : (k \in Under /\ calls'[k] = calls[k]) \/ (k = n /\ calls'[k] = c)
    <3>1. \A k \in 1..Len(calls') : (k \in Under /\ k \in 1..(Len(calls) - 1)) \/ k = n
      BY <1>1, <1>8 DEF Replaced, Under
    <3> QED BY <1>8, <3>1 DEF Replaced
  <2> QED BY <1>4, <1>8, <2>1
<1> QED BY <1>5, <1>6, <1>7, <1>8

\* A record is given back, or none changes.
LEMMA RecordsFreed ==
  ASSUME TypeInv, RecordsKnown, UNCHANGED env, NEW i \in AckSlots,
         ackWait' = ackWait \/ ackWait' = [ackWait EXCEPT ![i].free = TRUE]
  PROVE  /\ RecordsKnown' /\ \A j \in AckSlots : ackWait[j].free => ackWait'[j].free
         /\ \A j \in AckSlots : /\ ackWait'[j].action = ackWait[j].action
                               /\ ackWait'[j].token = ackWait[j].token
         /\ ackWait' # ackWait => ackWait'[i].free
<1>1. \A j \in AckSlots : ackWait[j] \in Slots BY RecordOf
<1>2. ackWait \in [AckSlots -> Slots] BY DEF TypeInv, AcksTyped
<1>3. CASE ackWait' = ackWait BY <1>3 DEF RecordsKnown
<1>4. CASE ackWait' = [ackWait EXCEPT ![i].free = TRUE]
  <2>1. \A j \in AckSlots :
          ackWait'[j] = IF j = i THEN [ackWait[j] EXCEPT !.free = TRUE] ELSE ackWait[j]
    BY <1>2, <1>4
  <2>2. \A j \in AckSlots : /\ ackWait'[j].action = ackWait[j].action
                            /\ ackWait'[j].token = ackWait[j].token
                            /\ ackWait[j].free => ackWait'[j].free
                            /\ j = i => ackWait'[j].free
                            /\ ~ackWait'[j].free => ~ackWait[j].free
    BY <1>1, <2>1 DEF Slots
  <2> QED BY <2>2 DEF RecordsKnown
<1> QED BY <1>3, <1>4

LEMMA KnownRequest ==
  ASSUME TypeInv, ~env.callbackActs, KnownInv, UNCHANGED env, NEW action \in env.actions,
         NEW sticky \in BOOLEAN, Request(action, sticky)
  PROVE  KnownInv'
<1>1. UNCHANGED ackWait /\ calls = <<>> BY DEF Request, MayCall
<1>2. RecordsKnown' BY <1>1 DEF KnownInv, RecordsKnown
<1>3. ASSUME NEW pc \in RequestPcs, FreeAck < NumAcks,
             calls' = Append(calls, RequestCall(action, sticky, pc))
      PROVE  KnownInv'
  <2>1. PICK c \in CallSet : /\ Pushed(c) /\ c.pc = pc /\ c.token = requests + 1
                             /\ c.action = action /\ c.sticky = sticky /\ c.ack = FreeAck
                             /\ c.acc = FreeAccepted /\ c.rej = FreeRejected
    BY <1>3, RequestPushes DEF TypeInv
  <2>2. CallKnown(c, Len(calls) + 1) /\ c.pc \notin NotifyPcs
    BY <1>3, <2>1, PcsDiffer DEF CallKnown
  <2>3. ASSUME NEW n PROVE CallKnown(c, n)' BY <1>1, <2>1, <2>2 DEF CallKnown
  <2> QED BY <1>1, <1>2, <2>1, <2>3, KnownMoves
<1>4. {"publish", "accepted", "undo"} \subseteq RequestPcs BY DEF RequestPcs
<1>5. CASE UNCHANGED calls BY <1>1, <1>2, <1>5, KnownMoves
<1> QED BY <1>3, <1>4, <1>5 DEF Request

LEMMA KnownSubscribe ==
  ASSUME TypeInv, KnownInv, UNCHANGED env, SubscribeAccepted \/ SubscribeRejected \/ ClearEntries
  PROVE  KnownInv'
<1>1. UNCHANGED ackWait
  BY DEF SubscribeAccepted, SubscribeRejected, ClearEntries, records
<1>2. RecordsKnown' BY <1>1 DEF KnownInv, RecordsKnown
<1>3. PICK pc \in {"accepted", "rejected", "cleanup", "undo"} : At(pc)
  BY DEF SubscribeAccepted, SubscribeRejected, ClearEntries
<1>4. pc \in RequestPcs /\ {"rejected", "cleanup", "publish"} \subseteq RequestPcs BY DEF RequestPcs
<1>5. calls # <<>> /\ calls \in Seq(CallSet) /\ Call.action \in env.actions
  BY <1>3, <1>4, AtCall DEF CallFits
<1>6. ASSUME NEW next \in {"rejected", "cleanup", "publish"}, Goto(next) PROVE KnownInv'
  <2>1. PICK c \in CallSet : /\ Replaced(c) /\ Alike(c, Call) /\ c.pc = next
                             /\ c.kind = Call.kind /\ c.acc = Call.acc
    BY <1>4, <1>5, <1>6, GotoReplaces
  <2>2. ASSUME NEW n PROVE CallKnown(c, n)'
    <3>1. c.pc \notin NotifyPcs /\ c.pc # "callback" /\ c.action \in env.actions
      BY <1>4, <1>5, <2>1, PcsDiffer DEF Alike
    <3> QED BY <3>1 DEF CallKnown
  <2> QED BY <1>1, <1>2, <1>5, <2>1, <2>2, KnownMoves
<1>7. CASE Return
  <2>1. Popped BY <1>5, <1>7, FrontPops DEF Return
  <2> QED BY <1>1, <1>2, <1>5, <2>1, KnownMoves
<1> QED BY <1>6, <1>7 DEF SubscribeAccepted, SubscribeRejected, ClearEntries

LEMMA KnownPublish ==
  ASSUME TypeInv, CallsInv, KnownInv, UNCHANGED env, Publish
  PROVE  KnownInv'
<1>1. At("publish") /\ Return /\ "publish" \in RequestPcs BY DEF Publish, RequestPcs
<1>2. Len(calls) = 1 /\ Call.ack \in AckSlots BY <1>1, RequestIsOnly
<1>3. Popped /\ Call.action \in env.actions
  BY <1>1, AtCall, FrontPops DEF Return, CallFits
<1>4. 1..Len(calls') = {} BY <1>2, <1>3 DEF Popped
<1>5. RecordsKnown'
  <2>1. ackWait \in [AckSlots -> Slots] BY DEF TypeInv, AcksTyped
  <2>2. CASE UNCHANGED ackWait BY <2>2 DEF KnownInv, RecordsKnown
  <2>3. CASE ackWait' = [ackWait EXCEPT ![Call.ack] =
                          [free |-> FALSE, token |-> Call.token, action |-> Call.action]]
    <3>1. \A i \in AckSlots : ackWait'[i].action = Call.action \/ ackWait'[i] = ackWait[i]
      BY <1>2, <2>1, <2>3
    <3> QED BY <1>3, <3>1 DEF KnownInv, RecordsKnown
  <2> QED BY <2>2, <2>3 DEF Publish
<1> QED BY <1>4, <1>5 DEF KnownInv, Under

LEMMA KnownNotify ==
  ASSUME TypeInv, KnownInv, UNCHANGED env,
         AckStatusCallback \/ \E i \in AckSlots : HandleExpired(i)
  PROVE  KnownInv'
<1>1. UNCHANGED ackWait BY DEF AckStatusCallback, HandleExpired, records
<1>2. RecordsKnown' BY <1>1 DEF KnownInv, RecordsKnown
<1>3. ASSUME NEW i \in AckSlots, NEW c \in CallSet, ~ackWait[i].free, Pushed(c),
             c.pc = "callback", c.action = ackWait[i].action, c.kind = "accepted",
             c.acked \/ calls = <<>>
      PROVE  KnownInv'
  <2>1. c.action \in env.actions BY <1>3 DEF KnownInv, RecordsKnown
  <2>2. PICK n : n = Len(calls) + 1 OBVIOUS
  <2>3. c.acked \/ n = 1 BY <1>3, <2>2
  <2>4. CallKnown(c, n)' BY <1>3, <2>1, <2>3 DEF CallKnown
  <2> QED BY <1>1, <1>2, <1>3, <2>2, <2>4, KnownMoves
<1>4. CASE AckStatusCallback
  <2>1. CASE UNCHANGED calls BY <1>1, <1>2, <2>1, KnownMoves
  <2>2. CASE \E i \in AckSlots, c \in CallSet :
               /\ ~ackWait[i].free /\ Pushed(c) /\ c.pc = "callback" /\ c.acked
               /\ c.action = ackWait[i].action /\ c.kind = "accepted"
    BY <1>3, <2>2
  <2> QED BY <1>4, <2>1, <2>2, AckPushes
<1>5. CASE \E i \in AckSlots : HandleExpired(i) BY <1>3, <1>5, ExpiredPushes
<1> QED BY <1>4, <1>5

LEMMA KnownCallback ==
  ASSUME TypeInv, KnownInv, UNCHANGED env, CallbackReturn
  PROVE  KnownInv'
<1>1. At("callback") /\ Goto("release") BY DEF CallbackReturn
<1>2. /\ calls # <<>> /\ calls \in Seq(CallSet) /\ Call \in CallSet /\ Call.pc = "callback"
      /\ Call.ack \in AckSlots /\ Call.acked \in BOOLEAN
  BY <1>1, AtCall DEF CallSet
<1>3. PICK c \in CallSet : /\ Replaced(c) /\ Alike(c, Call) /\ c.pc = "release"
                           /\ c.kind = Call.kind /\ c.acc = Call.acc
  BY <1>1, <1>2, GotoReplaces DEF NotifyPcs
<1>4. PICK n : n = Len(calls) OBVIOUS
<1>5. CallKnown(Call, n) BY <1>2, <1>4, TopCall DEF KnownInv
<1>6. ackWait' = ackWait \/ ackWait' = [ackWait EXCEPT ![Call.ack].free = TRUE]
  BY DEF CallbackReturn
<1>7. RecordsKnown' /\ \A j \in AckSlots : ackWait[j].free => ackWait'[j].free
  BY <1>2, <1>6, RecordsFreed DEF KnownInv
<1>8. ~Call.acked => ackWait'[Call.ack].free
  <2>1. ackWait \in [AckSlots -> Slots] /\ ackWait[Call.ack] \in Slots
    BY <1>2, RecordOf DEF TypeInv, AcksTyped
  <2> QED BY <1>2, <2>1 DEF CallbackReturn, Slots
<1>9. CallKnown(c, n)'
  <2>1. /\ c.action \in env.actions /\ c.pc # "callback" /\ c.ack = Call.ack
        /\ c.acked = Call.acked /\ (~c.acked => n = 1)
    BY <1>2, <1>3, <1>5, PcsDiffer DEF CallKnown, Alike
  <2> QED BY <1>8, <2>1 DEF CallKnown
<1> QED BY <1>2, <1>3, <1>4, <1>7, <1>9, KnownMoves

LEMMA KnownRelease ==
  ASSUME TypeInv, KnownInv, UNCHANGED env, Release \/ ReleaseUnsubscribed
  PROVE  KnownInv'
<1>1. PICK pc \in {"release", "unsubscribe"} : At(pc) BY DEF Release, ReleaseUnsubscribed
<1>2. /\ calls # <<>> /\ calls \in Seq(CallSet) /\ Call \in CallSet /\ Call.pc = pc
      /\ Call.ack \in AckSlots /\ Call.acked \in BOOLEAN
  BY <1>1, AtCall DEF CallSet
<1>3. PICK n : n = Len(calls) OBVIOUS
<1>4. CallKnown(Call, n) BY <1>2, <1>3, TopCall DEF KnownInv
<1>5. ASSUME NEW c \in CallSet, Replaced(c), Alike(c, Call),
             c.pc \in {"release", "unsubscribe"}, UNCHANGED ackWait
      PROVE  KnownInv'
  <2>1. /\ c.action \in env.actions /\ c.pc # "callback" /\ c.ack = Call.ack
        /\ ~c.acked => n = 1 /\ ackWait[c.ack].free
    BY <1>2, <1>4, <1>5 DEF CallKnown, Alike, NotifyPcs
  <2>2. CallKnown(c, n)' BY <1>5, <2>1 DEF CallKnown
  <2>3. RecordsKnown' BY <1>5 DEF KnownInv, RecordsKnown
  <2> QED BY <1>2, <1>3, <1>5, <2>2, <2>3, KnownMoves
<1>6. CASE Popped /\ ackWait' = IF Call.acked THEN [ackWait EXCEPT ![Call.ack].free = TRUE] ELSE ackWait
  <2>1. RecordsKnown' /\ \A j \in AckSlots : ackWait[j].free => ackWait'[j].free
    BY <1>2, <1>6, RecordsFreed DEF KnownInv
  <2> QED BY <1>2, <1>6, <2>1, KnownMoves
<1>7. CASE ReleaseNext BY <1>1, <1>5, <1>6, <1>7, NextReleases
<1>8. CASE ReleaseUnsubscribed BY <1>7, <1>8 DEF ReleaseUnsubscribed
<1>9. CASE Release
  <2>1. ReleaseNext \/ \E c \in CallSet : /\ Replaced(c) /\ Alike(c, Call) /\ c.pc = "unsubscribe"
                                          /\ UNCHANGED ackWait
    BY <1>9, ReleaseMoves
  <2> QED BY <1>5, <1>7, <2>1
<1> QED BY <1>8, <1>9

LEMMA KnownStep ==
  ASSUME TypeInv, ~env.callbackActs, CallsInv, KnownInv, [Next]_vars
  PROVE  KnownInv'
<1>1. UNCHANGED env BY DEF Next, vars, settings, ResetVersion, SwitchDiscard
<1>2. CASE UNCHANGED <<env, ackWait, calls>>
  BY <1>2, KnownMoves DEF KnownInv, RecordsKnown
<1>3. CASE RecordStep
  <2>1. CASE CallStep
    BY <1>1, <2>1, KnownSubscribe, KnownPublish, KnownCallback, KnownRelease DEF CallStep
  <2>2. CASE RegisterDelta \/ DeltaCallback \/ ServiceAccepts \/ ServiceRejects \/ OthersUpdate
    BY <1>1, <1>2, <2>2
       DEF RegisterDelta, DeltaCallback, ServiceAccepts, ServiceRejects, OthersUpdate, records
  <2> QED BY <1>1, <1>3, <2>1, <2>2, KnownRequest, KnownNotify DEF RecordStep
<1>4. CASE ResetVersion \/ (\E on \in BOOLEAN : SwitchDiscard(on)) \/ UNCHANGED vars
  BY <1>2, <1>4 DEF ResetVersion, SwitchDiscard, settings, records, vars
<1> QED BY <1>3, <1>4 DEF Next

-----------------------------------------------------------------------------
(* Places and their users.                                                 *)

LEMMA SlotSets ==
  ASSUME NEW T, T \subseteq AckSlots, NEW S, S \subseteq T
  PROVE  /\ IsFiniteSet(S) /\ Cardinality(S) \in Nat /\ Cardinality(T) \in Nat
         /\ Cardinality(S) <= Cardinality(T)
         /\ \A x \in T : x \notin S => Cardinality(S) <= Cardinality(T) - 1
<1>1. NumAcks - 1 \in Int BY BoundsAssumption
<1>2. IsFiniteSet(AckSlots) BY <1>1, FS_Interval DEF AckSlots
<1>3. IsFiniteSet(T) BY <1>2, FS_Subset
<1>4. IsFiniteSet(S) /\ Cardinality(S) <= Cardinality(T) BY <1>3, FS_Subset
<1>5. Cardinality(S) \in Nat /\ Cardinality(T) \in Nat BY <1>3, <1>4, FS_CardinalityType
<1>6. ASSUME NEW x \in T, x \notin S PROVE Cardinality(S) <= Cardinality(T) - 1
  <2>1. IsFiniteSet(T \ {x}) /\ Cardinality(T \ {x}) = Cardinality(T) - 1
    BY <1>3, FS_RemoveElement
  <2>2. S \subseteq T \ {x} BY <1>6
  <2> QED BY <2>1, <2>2, FS_Subset
<1> QED BY <1>4, <1>5, <1>6

\* One user, and two.
LEMMA SlotCount ==
  ASSUME NEW T, T \subseteq AckSlots, NEW x \in T
  PROVE  /\ Cardinality(T) \in Nat /\ Cardinality(T) >= 1
         /\ \A y \in T : y # x => Cardinality(T) >= 2
<1>1. {} \subseteq T /\ Cardinality({}) = 0 BY FS_EmptySet
<1>2. Cardinality(T) \in Nat /\ 0 <= Cardinality(T) - 1 BY <1>1, SlotSets
<1>3. ASSUME NEW y \in T, y # x PROVE Cardinality(T) >= 2
  <2>1. {x} \subseteq T /\ y \notin {x} /\ Cardinality({x}) = 1 BY <1>3, FS_Singleton
  <2>2. 1 <= Cardinality(T) - 1 BY <2>1, SlotSets
  <2> QED BY <1>2, <2>2
<1> QED BY <1>2, <1>3

LEMMA PlaceTyped ==
  ASSUME TypeInv, NEW i \in SubSlots
  PROVE  subList[i].count \in Nat /\ subList[i].sticky \in BOOLEAN /\ subList[i].free \in BOOLEAN
BY DEF TypeInv, PlacesTyped, Places

LEMMA OneLive ==
  ASSUME TypeInv, Ranked, NEW a, NEW kind, NEW i, NEW j, LiveFor(i, a, kind), LiveFor(j, a, kind)
  PROVE  i = j /\ i \in SubSlots
<1>1. env.topics \in Nat BY EnvTyped DEF TypeInv, RequestsTyped
<1>2. i \in SubSlots /\ j \in SubSlots /\ i <= j /\ j <= i BY DEF LiveFor, Live, Ranked
<1> QED BY <1>1, <1>2 DEF SubSlots

LEMMA ListedLive ==
  ASSUME TypeInv, Ranked, NEW a, NEW kind, NEW i, LiveFor(i, a, kind)
  PROVE  Listed(Topic(a, kind)) = i /\ i \in SubSlots /\ i < env.topics
<1> DEFINE l == Listed(Topic(a, kind))
<1>1. env.topics \in Nat BY EnvTyped DEF TypeInv, RequestsTyped
<1>2. /\ l \in 0..env.topics
      /\ l < env.topics => l \in SubSlots /\ ~subList[l].free /\ subList[l].topic = Topic(a, kind)
      /\ \A j \in 0..(l - 1) : ~(~subList[j].free /\ subList[j].topic = Topic(a, kind))
  BY <1>1, ListedFound
<1>3. i \in SubSlots /\ ~subList[i].free /\ subList[i].topic = Topic(a, kind) BY DEF LiveFor, Live
<1> HIDE DEF l
<1>4. i \in 0..(env.topics - 1) BY <1>3 DEF SubSlots
<1>5. l <= i BY <1>1, <1>2, <1>3, <1>4
<1>6. l < env.topics BY <1>1, <1>2, <1>4, <1>5
<1>7. i <= l BY <1>2, <1>3, <1>6 DEF Ranked, LiveFor
<1>8. l = i BY <1>2, <1>4, <1>5, <1>7
<1> QED BY <1>1, <1>3, <1>4, <1>8 DEF l

LEMMA TopicsDiffer ==
  ASSUME NEW a, NEW kind, NEW b, NEW other, Topic(a, kind) = Topic(b, other)
  PROVE  a = b /\ kind = other
BY DEF Topic

LEMMA TopicsApart ==
  ASSUME NEW a, NEW b, a # b, NEW kind, NEW other
  PROVE  Topic(a, kind) # Topic(b, other)
BY DEF Topic

\* A step that does nothing to the places of an action but end the use of them.
Quiet(a) ==
  /\ \A i \in SubSlots, kind \in Kinds : LiveFor(i, a, kind)' <=> LiveFor(i, a, kind)
  /\ \A i \in SubSlots, kind \in Kinds : LiveFor(i, a, kind) =>
       subList'[i].count = subList[i].count /\ subList'[i].sticky = subList[i].sticky
  /\ \A kind \in Kinds : Users(a, kind)' \subseteq Users(a, kind)
  /\ \A kind \in Kinds : Topic(a, kind) \in mqtt => Topic(a, kind) \in mqtt'
  /\ \A c \in Calls \cup Calls' : c.action = a /\ Special(c) => c \in Calls /\ c \in Calls'
  /\ \A c \in Calls : c.action = a /\ Starts(c) =>
       /\ subList'[c.acc] = subList[c.acc] /\ subList'[c.rej] = subList[c.rej]
       /\ \A j \in SubSlots : subList'[j].topic = subList[j].topic

LEMMA QuietKeeps ==
  ASSUME TypeInv, UNCHANGED env, NEW a, Tended(a), Quiet(a)
  PROVE  Tended(a)'
<1>1. SubSlots' = SubSlots /\ {"accepted", "rejected"} = Kinds BY DEF SubSlots, Kinds
<1>2. \A i \in SubSlots, kind \in Kinds : LiveFor(i, a, kind)' <=> LiveFor(i, a, kind)
  BY DEF Quiet
<1>3. \A i \in SubSlots, kind \in Kinds : LiveFor(i, a, kind) =>
        subList'[i].count = subList[i].count /\ subList'[i].sticky = subList[i].sticky
  BY DEF Quiet
<1>4. \A c \in Calls \cup Calls' : c.action = a /\ Special(c) => c \in Calls /\ c \in Calls'
  BY DEF Quiet
<1>5. \A kind \in Kinds : HasPlace(a, kind)' <=> HasPlace(a, kind)
  BY <1>1, <1>2 DEF HasPlace
<1>6. Served(a)'
  <2> SUFFICES ASSUME NEW kind \in Kinds, Users(a, kind)' # {}
               PROVE  \E i \in SubSlots : /\ LiveFor(i, a, kind)'
                                          /\ subList'[i].count >= Cardinality(Users(a, kind)')
    BY <1>1 DEF Served, Kinds
  <2>1. Users(a, kind)' \subseteq Users(a, kind) /\ Users(a, kind) \subseteq AckSlots
    BY DEF Quiet, Users
  <2>2. PICK i \in SubSlots : LiveFor(i, a, kind) /\ subList[i].count >= Cardinality(Users(a, kind))
    BY <2>1 DEF Tended, Served
  <2>3. /\ Cardinality(Users(a, kind)') \in Nat /\ Cardinality(Users(a, kind)) \in Nat
        /\ Cardinality(Users(a, kind)') <= Cardinality(Users(a, kind))
    BY <2>1, SlotSets
  <2>4. subList[i].count \in Nat BY PlaceTyped
  <2>5. subList'[i].count = subList[i].count BY <1>3, <2>2
  <2> QED BY <1>2, <2>2, <2>3, <2>4, <2>5
<1>7. Subscribed(a)'
  <2> SUFFICES ASSUME NEW i \in SubSlots, NEW kind \in Kinds, LiveFor(i, a, kind)'
               PROVE  Topic(a, kind) \in mqtt' \/ \E c \in Calls' : c.action = a /\ Starts(c)
    BY <1>1 DEF Subscribed, Kinds, Starts, Topic
  <2>1. Topic(a, kind) \in mqtt \/ \E c \in Calls : c.action = a /\ Starts(c)
    BY <1>2 DEF Tended, Subscribed
  <2>2. Topic(a, kind) \in mqtt => Topic(a, kind) \in mqtt' BY DEF Quiet
  <2> QED BY <1>4, <2>1, <2>2 DEF Special
<1>8. Requested(a)'
  <2> SUFFICES ASSUME NEW c \in Calls', c.action = a, Starts(c) PROVE Starting(c)'
    BY DEF Requested, Starts
  <2>1. c \in Calls /\ Starting(c) BY <1>4 DEF Special, Tended, Requested
  <2>2. /\ subList'[c.acc] = subList[c.acc] /\ subList'[c.rej] = subList[c.rej]
        /\ \A j \in SubSlots : subList'[j].topic = subList[j].topic
    BY <2>1 DEF Quiet
  <2>3. \A kind \in Kinds : Users(c.action, kind)' = {} BY <2>1 DEF Quiet, Starting
  <2>4. c.pc = "accepted" =>
          \A j \in SubSlots : subList'[j].topic = Topic(c.action, "rejected") /\ j # c.rej =>
            ~Live(j)' /\ c.rej < j
    <3> SUFFICES ASSUME c.pc = "accepted", NEW j \in SubSlots,
                        subList[j].topic = Topic(a, "rejected"), j # c.rej
                 PROVE  ~Live(j)' /\ c.rej < j
      BY <2>2
    <3>1. ~Live(j) /\ c.rej < j BY <2>1 DEF Starting
    <3>2. ~LiveFor(j, a, "rejected") BY <3>1 DEF LiveFor
    <3>3. ~LiveFor(j, a, "rejected")' BY <1>1, <1>2, <3>2
    <3>4. ~Live(j)' BY <2>2, <3>3 DEF LiveFor, Topic
    <3> QED BY <3>1, <3>4
  <2>5. Topic(c.action, "accepted") \in mqtt => Topic(c.action, "accepted") \in mqtt'
    BY <1>1 DEF Quiet
  <2> QED BY <1>1, <2>1, <2>2, <2>3, <2>4, <2>5 DEF Starting, Topic
<1>9. Removing(a)'
  <2> SUFFICES ASSUME NEW c \in Calls', c.action = a, c.pc = "unsubscribe" PROVE Removable(c)'
    BY DEF Removing
  <2>1. c \in Calls /\ Removable(c) BY <1>4 DEF Special, Tended, Removing
  <2>2. c.acc \in SubSlots /\ LiveFor(c.acc, a, c.kind) BY <2>1 DEF Removable, LiveFor, Live
  <2>3. c.kind \in Kinds BY <2>1, CallIn DEF CallSet
  <2> QED BY <1>2, <1>3, <2>1, <2>2, <2>3 DEF Removable
<1>10. Halved(a)'
  <2> SUFFICES ASSUME NEW c \in Calls', c.action = a, Half(c)
               PROVE  /\ c.pc = "unsubscribe" => ~HasPlace(a, "accepted")'
                      /\ c.pc = "release" => Halfway(a)'
    BY DEF Halved, Half, NotifyPcs
  <2>1. /\ c.pc = "unsubscribe" => ~HasPlace(a, "accepted")
        /\ c.pc = "release" => Halfway(a)
    BY <1>4 DEF Special, Tended, Halved
  <2>2. ASSUME Halfway(a) PROVE Halfway(a)'
    <3>1. PICK j \in SubSlots :
            /\ LiveFor(j, a, "rejected")
            /\ \/ ~HasPlace(a, "accepted") /\ subList[j].count = 1 /\ ~subList[j].sticky
               \/ \E i \in SubSlots : LiveFor(i, a, "accepted") /\ Behind(i, j)
      BY <2>2 DEF Halfway
    <3>2. LiveFor(j, a, "rejected")' /\ (~HasPlace(a, "accepted") => ~HasPlace(a, "accepted")')
      BY <1>1, <1>2, <1>5, <3>1
    <3>3. subList'[j].count = subList[j].count /\ subList'[j].sticky = subList[j].sticky
      BY <1>1, <1>3, <3>1
    <3>4. ASSUME NEW i \in SubSlots, LiveFor(i, a, "accepted"), Behind(i, j)
          PROVE  LiveFor(i, a, "accepted")' /\ Behind(i, j)'
      <4>1. subList'[i].count = subList[i].count /\ subList'[i].sticky = subList[i].sticky
        BY <1>1, <1>3, <3>4
      <4> QED BY <1>1, <1>2, <3>3, <3>4, <4>1 DEF Behind
    <3> QED BY <1>1, <3>1, <3>2, <3>3, <3>4 DEF Halfway
  <2> QED BY <1>1, <1>5, <2>1, <2>2
<1>11. PairKept(a)'
  <2>1. CASE Paired(a)
    <3>1. \A i, j \in SubSlots : LiveFor(i, a, "accepted")' /\ LiveFor(j, a, "rejected")' =>
            subList'[i].count = subList'[j].count /\ subList'[i].sticky = subList'[j].sticky
      BY <1>1, <1>2, <1>3, <2>1 DEF Paired
    <3>2. HasPlace(a, "accepted")' <=> HasPlace(a, "rejected")' BY <1>1, <1>5, <2>1 DEF Paired
    <3> QED BY <1>1, <3>1, <3>2 DEF PairKept, Paired
  <2>2. CASE \E c \in Calls : c.action = a /\ (Starts(c) \/ Half(c))
    BY <1>4, <2>2 DEF PairKept, Special, Starts, Half, NotifyPcs
  <2> QED BY <2>1, <2>2 DEF Tended, PairKept
<1> QED BY <1>6, <1>7, <1>8, <1>9, <1>10, <1>11 DEF Tended

\* A topic moves between no places.
LEMMA PlacesKept ==
  ASSUME Ranked, LiveKnown, UNCHANGED env,
         \A i \in SubSlots : subList'[i].topic = subList[i].topic /\ (Live(i)' => Live(i))
  PROVE  Ranked' /\ LiveKnown'
<1>1. SubSlots' = SubSlots BY DEF SubSlots
<1>2. Ranked' BY <1>1 DEF Ranked
<1>3. LiveKnown' BY <1>1 DEF LiveKnown, Kinds, Topic
<1> QED BY <1>2, <1>3

\* Steps that leave the list alone.
LEMMA ListQuiet ==
  ASSUME TypeInv, ListInv, UNCHANGED <<env, subList>>, NoUndo', mqtt \subseteq mqtt',
         \A c \in Calls \cup Calls' : Special(c) => c \in Calls /\ c \in Calls',
         \A a \in env.actions, kind \in Kinds : Users(a, kind)' \subseteq Users(a, kind)
  PROVE  ListInv'
<1>1. SubSlots' = SubSlots BY DEF SubSlots
<1>2. \A i : Claimed(i)' <=> Claimed(i) BY DEF Claimed, Special, Starts
<1>3. \A i : Live(i)' <=> Live(i) BY <1>1, <1>2 DEF Live
<1>4. Ranked' /\ LiveKnown' BY <1>3, PlacesKept DEF ListInv
<1>5. ASSUME NEW a \in env.actions PROVE Tended(a)'
  <2>1. \A i \in SubSlots, kind \in Kinds : LiveFor(i, a, kind)' <=> LiveFor(i, a, kind)
    BY <1>3 DEF LiveFor, Topic
  <2>2. Quiet(a) BY <2>1 DEF Quiet
  <2> QED BY <2>2, QuietKeeps DEF ListInv
<1> QED BY <1>4, <1>5 DEF ListInv

-----------------------------------------------------------------------------
(* The steps that leave the list alone.                                    *)

\* What the proofs of the steps rest on.
Base == TypeInv /\ CallsInv /\ SlotsInv /\ KnownInv /\ ListInv

LEMMA UserOf ==
  ASSUME NEW a, NEW kind, NEW i
  PROVE  /\ i \in Users(a, kind) <=>
              i \in AckSlots /\ (Expects(i, a) \/ \E c \in Calls : c.ack = i /\ Holds(c, a, kind))
         /\ i \in Users(a, kind)' <=>
              i \in AckSlots /\ (Expects(i, a)' \/ \E c \in Calls' : c.ack = i /\ Holds(c, a, kind))
BY DEF Users, Holds, AckSlots, NotifyPcs

\* Nothing happens to the records or to the calls.
LEMMA SameList ==
  ASSUME Base, UNCHANGED <<env, subList, ackWait, calls, notified>>, mqtt \subseteq mqtt'
  PROVE  ListInv'
<1>1. Calls' = Calls BY DEF Calls, Under
<1>2. \A a, kind : Users(a, kind)' = Users(a, kind)
  BY <1>1 DEF Users, Expects, Holds, AckSlots, NotifyPcs
<1>3. NoUndo' BY <1>1 DEF Base, ListInv, NoUndo
<1> QED BY <1>1, <1>2, <1>3, ListQuiet DEF Base

LEMMA PublishList ==
  ASSUME Base, UNCHANGED env, Publish
  PROVE  ListInv'
<1>1. At("publish") /\ Return /\ UNCHANGED <<subList, mqtt, notified>> /\ "publish" \in RequestPcs
  BY DEF Publish, RequestPcs
<1>2. /\ calls # <<>> /\ calls \in Seq(CallSet) /\ Call.pc = "publish" /\ Call \in CallSet
      /\ Call.ack \in AckSlots
  BY <1>1, AtCall DEF Base, CallSet
<1>3. Others = {} /\ Calls = {Call} BY <1>1, RequestOthers DEF Base
<1>4. Calls' = {} BY <1>1, <1>2, <1>3, FrontPops, CallsPopped DEF Return
<1>5. ASSUME NEW a \in env.actions, NEW kind \in Kinds, NEW i \in Users(a, kind)'
      PROVE  i \in Users(a, kind)
  <2>1. Expects(i, a)' /\ i \in AckSlots BY <1>4, UserOf
  <2>2. ackWait \in [AckSlots -> Slots] BY DEF Base, TypeInv, AcksTyped
  <2>3. CASE ackWait'[i] = ackWait[i]
    <3>1. Expects(i, a) BY <1>1, <2>1, <2>3 DEF Expects
    <3> QED BY <2>1, <3>1, UserOf
  <2>4. CASE i = Call.ack /\ ackWait'[i].action = Call.action
    <3>1. Holds(Call, a, kind) BY <1>2, <2>1, <2>4 DEF Expects, Holds
    <3> QED BY <1>3, <2>1, <2>4, <3>1, UserOf
  <2> QED BY <1>2, <2>1, <2>2, <2>3, <2>4 DEF Publish
<1>6. ~Special(Call) BY <1>2 DEF Special, Starts, Half, NotifyPcs
<1>7. NoUndo' BY <1>4 DEF NoUndo
<1> QED BY <1>1, <1>3, <1>4, <1>5, <1>6, <1>7, ListQuiet DEF Base

\* The owner of the record in slot i is notified: it goes on using its topics.
LEMMA NotifyList ==
  ASSUME Base, UNCHANGED <<env, subList, mqtt, ackWait>>, NEW i \in AckSlots, ~ackWait[i].free,
         notified[ackWait[i].token] = 0, notified' = [notified EXCEPT ![ackWait[i].token] = @ + 1],
         NEW c \in CallSet, Pushed(c), c.pc = "callback", c.ack = i,
         c.action = ackWait[i].action, c.kind = "accepted"
  PROVE  ListInv'
<1>1. Calls' = Calls \cup {c} BY CallsPushed DEF Base, TypeInv, CallsTyped
<1>2. ~Special(c) BY DEF Special, Starts, Half
<1>3. \A t : notified'[t] = 0 => notified[t] = 0 \/ t \notin 1..MaxRequests
  BY DEF Base, SlotsInv, NotifiedKnown
<1>4. ASSUME NEW a \in env.actions, NEW kind \in Kinds, NEW j \in Users(a, kind)'
      PROVE  j \in Users(a, kind)
  <2>1. j \in AckSlots /\ (Expects(j, a)' \/ \E d \in Calls' : d.ack = j /\ Holds(d, a, kind))
    BY UserOf
  <2>2. CASE Expects(j, a)'
    <3>1. ackWait[j].token \in 1..MaxRequests
      BY <2>1, <2>2, TrackedPositive DEF Base, SlotsInv, SlotsKnown, Expects
    <3>2. Expects(j, a) BY <1>3, <2>2, <3>1 DEF Expects, AckSlots
    <3> QED BY <2>1, <3>2, UserOf
  <2>3. CASE \E d \in Calls : d.ack = j /\ Holds(d, a, kind) BY <2>1, <2>3, UserOf
  <2>4. CASE c.ack = j /\ Holds(c, a, kind)
    <3>1. Expects(j, a) BY <2>1, <2>4 DEF Holds, Expects
    <3> QED BY <2>1, <3>1, UserOf
  <2> QED BY <1>1, <2>1, <2>2, <2>3, <2>4
<1>5. NoUndo' BY <1>1 DEF Base, ListInv, NoUndo
<1> QED BY <1>1, <1>2, <1>4, <1>5, ListQuiet DEF Base

LEMMA AckList ==
  ASSUME Base, UNCHANGED env, AckStatusCallback
  PROVE  ListInv'
<1>1. UNCHANGED <<ackWait, subList, mqtt>> BY DEF AckStatusCallback
<1>2. PICK m \in acks :
           /\ acks' = acks \ {m} /\ Delivering
           /\ \/ UNCHANGED <<calls, notified>>
              \/ \E i \in AckSlots, c \in CallSet :
                   /\ ~ackWait[i].free /\ ackWait[i].token = m.token
                   /\ notified' = [notified EXCEPT ![m.token] = @ + 1]
                   /\ Pushed(c) /\ c.pc = "callback" /\ c.ack = i /\ c.acked
                   /\ c.action = ackWait[i].action /\ c.kind = "accepted"
                   /\ CallFits(c, requests, env.actions)
  BY AckPushes DEF Base
<1>3. CASE UNCHANGED <<calls, notified>> BY <1>1, <1>3, SameList
<1>4. ASSUME NEW i \in AckSlots, NEW c \in CallSet,
             ~ackWait[i].free, ackWait[i].token = m.token,
             notified' = [notified EXCEPT ![m.token] = @ + 1],
             Pushed(c), c.pc = "callback", c.ack = i,
             c.action = ackWait[i].action, c.kind = "accepted"
      PROVE  ListInv'
  <2>1. notified[ackWait[i].token] = 0 BY <1>2, <1>4, AnswerFirst DEF Base
  <2> QED BY <1>1, <1>4, <2>1, NotifyList
<1> QED BY <1>2, <1>3, <1>4

LEMMA ExpiredList ==
  ASSUME Base, UNCHANGED env, NEW i \in AckSlots, HandleExpired(i)
  PROVE  ListInv'
<1>1. UNCHANGED <<ackWait, subList, mqtt>> BY DEF HandleExpired, records, external
<1>2. /\ calls = <<>> /\ ~ackWait[i].free
      /\ notified' = [notified EXCEPT ![ackWait[i].token] = @ + 1]
      /\ \E c \in CallSet : /\ Pushed(c) /\ c.pc = "callback" /\ c.ack = i /\ ~c.acked
                            /\ c.action = ackWait[i].action /\ c.kind = "accepted"
                            /\ CallFits(c, requests, env.actions)
  BY ExpiredPushes DEF Base
<1>3. Under = {} BY <1>2 DEF Under
<1>4. notified[ackWait[i].token] = 0 BY <1>2, <1>3 DEF Base, SlotsInv, SlotsKnown
<1> QED BY <1>1, <1>2, <1>4, NotifyList

\* A record is given back after its owner was notified: nobody relied on it.
LEMMA FreedExpects ==
  ASSUME Base, UNCHANGED <<env, notified>>, NEW i \in AckSlots,
         ackWait' = ackWait \/ ackWait' = [ackWait EXCEPT ![i].free = TRUE]
  PROVE  \A j, a : Expects(j, a)' => Expects(j, a)
<1>1. /\ \A j \in AckSlots : ackWait[j].free => ackWait'[j].free
      /\ \A j \in AckSlots : /\ ackWait'[j].action = ackWait[j].action
                             /\ ackWait'[j].token = ackWait[j].token
  BY RecordsFreed DEF Base, KnownInv
<1> QED BY <1>1 DEF Expects, AckSlots

LEMMA CallbackList ==
  ASSUME Base, UNCHANGED env, CallbackReturn
  PROVE  ListInv'
<1>1. At("callback") /\ Goto("release") /\ UNCHANGED <<subList, mqtt, notified>>
  BY DEF CallbackReturn, history, external
<1>2. /\ calls # <<>> /\ calls \in Seq(CallSet) /\ Call \in CallSet /\ Call.pc = "callback"
      /\ Call.ack \in AckSlots
  BY <1>1, AtCall DEF CallSet, Base
<1>3. PICK c \in CallSet : /\ Replaced(c) /\ Alike(c, Call) /\ c.pc = "release"
                           /\ c.kind = Call.kind /\ c.acc = Call.acc
  BY <1>1, <1>2, GotoReplaces DEF NotifyPcs
<1>4. Calls = Others \cup {Call} /\ Calls' = Others \cup {c}
  BY <1>2, <1>3, CallsSplit, CallsReplaced
<1>5. Call.kind = "accepted"
  BY <1>2, TopCall DEF Base, KnownInv, CallKnown
<1>6. ~Special(Call) /\ ~Special(c)
  BY <1>2, <1>3, <1>5 DEF Special, Starts, Half
<1>7. ackWait' = ackWait \/ ackWait' = [ackWait EXCEPT ![Call.ack].free = TRUE]
  BY DEF CallbackReturn
<1>8. \A j, a : Expects(j, a)' => Expects(j, a) BY <1>1, <1>2, <1>7, FreedExpects
<1>9. ASSUME NEW a \in env.actions, NEW kind \in Kinds, NEW j \in Users(a, kind)'
      PROVE  j \in Users(a, kind)
  <2>1. j \in AckSlots /\ (Expects(j, a)' \/ \E d \in Calls' : d.ack = j /\ Holds(d, a, kind))
    BY UserOf
  <2>2. CASE Expects(j, a)' BY <1>8, <2>1, <2>2, UserOf
  <2>3. CASE \E d \in Others : d.ack = j /\ Holds(d, a, kind) BY <1>4, <2>1, <2>3, UserOf
  <2>4. CASE c.ack = j /\ Holds(c, a, kind)
    <3>1. Call.ack = j /\ Holds(Call, a, kind)
      BY <1>2, <1>3, <2>4 DEF Holds, Alike, NotifyPcs
    <3> QED BY <1>4, <2>1, <3>1, UserOf
  <2> QED BY <1>4, <2>1, <2>2, <2>3, <2>4
<1>10. NoUndo' BY <1>3, <1>4 DEF Base, ListInv, NoUndo
<1> QED BY <1>1, <1>4, <1>6, <1>9, <1>10, ListQuiet DEF Base

-----------------------------------------------------------------------------
(* A request starts.                                                       *)

LEMMA CountServes ==
  ASSUME Base, NEW a \in env.actions, NEW kind \in Kinds, NEW i, LiveFor(i, a, kind)
  PROVE  /\ i \in SubSlots /\ subList[i].count \in Nat /\ Users(a, kind) \subseteq AckSlots
         /\ Cardinality(Users(a, kind)) \in Nat /\ subList[i].count >= Cardinality(Users(a, kind))
<1>1. i \in SubSlots BY DEF LiveFor, Live
<1>2. subList[i].count \in Nat BY <1>1, PlaceTyped DEF Base
<1>3. Users(a, kind) \subseteq AckSlots BY DEF Users
<1>4. Cardinality(Users(a, kind)) \in Nat BY <1>3, SlotSets
<1>5. CASE Users(a, kind) = {} BY <1>2, <1>4, <1>5, <1>1, <1>3, FS_EmptySet
<1>6. CASE Users(a, kind) # {}
  <2>1. PICK j \in SubSlots : LiveFor(j, a, kind) /\ subList[j].count >= Cardinality(Users(a, kind))
    BY <1>6 DEF Base, ListInv, Tended, Served
  <2>2. j = i BY <2>1, OneLive DEF Base, ListInv
  <2> QED BY <1>1, <1>2, <1>3, <1>4, <2>1, <2>2
<1> QED BY <1>5, <1>6

\* No call is under way: every place in use is live, subscribed and paired.
LEMMA Idle ==
  ASSUME Base, calls = <<>>
  PROVE  /\ Calls = {} /\ \A i : Live(i) <=> i \in SubSlots /\ ~subList[i].free
         /\ \A a \in env.actions : Paired(a)
         /\ \A a \in env.actions, kind \in Kinds, i \in SubSlots :
              LiveFor(i, a, kind) => Topic(a, kind) \in mqtt
<1>1. Calls = {} BY CallsEmpty
<1>2. \A i : Live(i) <=> i \in SubSlots /\ ~subList[i].free BY <1>1 DEF Live, Claimed
<1> QED BY <1>1, <1>2 DEF Base, ListInv, Tended, PairKept, Subscribed

\* The topics are listed: the request is counted as one more user.
LEMMA PresentList ==
  ASSUME Base, UNCHANGED <<env, ackWait, notified, mqtt>>, calls = <<>>,
         NEW action \in env.actions, NEW sticky \in BOOLEAN,
         SubscriptionPresent(action), IncrementSubscriptionCnt(action, sticky),
         NEW c \in CallSet, Pushed(c), c.pc = "publish", c.action = action
  PROVE  ListInv'
<1>1. Calls = {} /\ Calls' = {c} BY CallsEmpty, CallsPushed DEF Base, TypeInv, CallsTyped
<1>2. \A i : Live(i) <=> i \in SubSlots /\ ~subList[i].free BY Idle
<1>3. SubSlots' = SubSlots /\ env.topics \in Nat /\ Kinds = {"accepted", "rejected"}
  BY EnvTyped DEF SubSlots, Base, TypeInv, RequestsTyped, Kinds
<1>4. ASSUME NEW i \in SubSlots
      PROVE  /\ subList'[i].topic = subList[i].topic /\ subList'[i].free = subList[i].free
             /\ ~subList[i].free /\ subList[i].topic \in AckTopics(action) =>
                  subList'[i].count = subList[i].count + 1 /\ subList'[i].sticky = sticky
             /\ ~(~subList[i].free /\ subList[i].topic \in AckTopics(action)) =>
                  subList'[i] = subList[i]
  <2>1. subList[i] \in Places BY DEF Base, TypeInv, PlacesTyped
  <2> QED BY <2>1 DEF IncrementSubscriptionCnt, Places
<1>5. \A i : Live(i)' <=> Live(i) BY <1>1, <1>2, <1>3, <1>4 DEF Live, Claimed
<1>6. Ranked' /\ LiveKnown' BY <1>4, <1>5, PlacesKept DEF Base, ListInv
<1>7. NoUndo' BY <1>1 DEF NoUndo
<1>8. \A i, a : Expects(i, a)' <=> Expects(i, a) BY DEF Expects, AckSlots
<1>9. \A i \in SubSlots : \A a, kind : LiveFor(i, a, kind)' <=> LiveFor(i, a, kind)
  BY <1>4, <1>5 DEF LiveFor, Topic
<1>10. ASSUME NEW a \in env.actions, a # action PROVE Tended(a)'
  <2>1. ASSUME NEW i \in SubSlots, NEW kind \in Kinds, LiveFor(i, a, kind)
        PROVE  subList'[i] = subList[i]
    <3>1. subList[i].topic \notin AckTopics(action)
      BY <1>10, <2>1, TopicsDiffer DEF LiveFor, AckTopics
    <3> QED BY <1>4, <3>1
  <2>2. ASSUME NEW kind \in Kinds, NEW i \in Users(a, kind)' PROVE i \in Users(a, kind)
    BY <1>1, <1>8, <1>10, UserOf DEF Holds
  <2>3. Quiet(a) BY <1>1, <1>9, <1>10, <2>1, <2>2 DEF Quiet
  <2> QED BY <2>3, QuietKeeps DEF Base, ListInv
<1>11. Tended(action)'
  <2>1. ASSUME NEW kind \in Kinds
        PROVE  \E i \in SubSlots : /\ LiveFor(i, action, kind)
                                   /\ subList'[i].count >= Cardinality(Users(action, kind)')
    <3> DEFINE i == Listed(Topic(action, kind))
    <3>1. i < env.topics BY DEF SubscriptionPresent, AckTopics
    <3>2. i \in SubSlots /\ ~subList[i].free /\ subList[i].topic = Topic(action, kind)
      BY <1>3, <3>1, ListedFound
    <3> HIDE DEF i
    <3>3. LiveFor(i, action, kind) BY <1>2, <3>2 DEF LiveFor
    <3>4. /\ subList[i].count \in Nat /\ Users(action, kind) \subseteq AckSlots
          /\ Cardinality(Users(action, kind)) \in Nat
          /\ subList[i].count >= Cardinality(Users(action, kind))
      BY <3>3, CountServes
    <3>5. subList'[i].count = subList[i].count + 1 BY <1>4, <3>2 DEF AckTopics
    <3> DEFINE U == Users(action, kind) \cup {c.ack}
    <3>6. \A j \in Users(action, kind)' : j \in U BY <1>1, <1>8, UserOf
    <3>7. c.ack \in AckSlots /\ IsFiniteSet(Users(action, kind)) BY <3>4, SlotSets DEF CallSet
    <3>8. Cardinality(U) <= Cardinality(Users(action, kind)) + 1 /\ U \subseteq AckSlots
      <4>1. \/ Cardinality(U) = Cardinality(Users(action, kind))
            \/ Cardinality(U) = Cardinality(Users(action, kind)) + 1
        BY <3>7, FS_AddElement
      <4> QED BY <3>4, <3>7, <4>1
    <3> HIDE DEF U
    <3>9. /\ Cardinality(Users(action, kind)') \in Nat /\ Cardinality(U) \in Nat
          /\ Cardinality(Users(action, kind)') <= Cardinality(U)
      BY <3>6, <3>8, SlotSets
    <3>10. subList'[i].count >= Cardinality(Users(action, kind)') BY <3>4, <3>5, <3>8, <3>9
    <3> QED BY <3>2, <3>3, <3>10
  <2>2. Served(action)' BY <1>3, <1>9, <2>1 DEF Served, Kinds
  <2>3. Subscribed(action)'
    <3> SUFFICES ASSUME NEW i \in SubSlots, NEW kind \in Kinds, LiveFor(i, action, kind)'
                 PROVE  Topic(action, kind) \in mqtt
      BY <1>3 DEF Subscribed, Kinds, Topic
    <3> QED BY <1>9, Idle
  <2>4. Requested(action)' /\ Removing(action)' /\ Halved(action)'
    BY <1>1 DEF Requested, Removing, Halved, Starts, Half, NotifyPcs
  <2>5. PairKept(action)'
    <3>1. Paired(action) BY Idle
    <3>2. \A kind \in Kinds : HasPlace(action, kind)' <=> HasPlace(action, kind)
      BY <1>3, <1>9 DEF HasPlace
    <3>3. \A i \in SubSlots, kind \in Kinds : LiveFor(i, action, kind) =>
            subList'[i].count = subList[i].count + 1 /\ subList'[i].sticky = sticky
      BY <1>2, <1>4 DEF LiveFor, AckTopics
    <3>4. ASSUME NEW i \in SubSlots, NEW j \in SubSlots, LiveFor(i, action, "accepted")',
                 LiveFor(j, action, "rejected")'
          PROVE  subList'[i].count = subList'[j].count /\ subList'[i].sticky = subList'[j].sticky
      <4>1. LiveFor(i, action, "accepted") /\ LiveFor(j, action, "rejected") BY <1>9, <3>4
      <4>2. subList[i].count = subList[j].count BY <3>1, <4>1 DEF Paired
      <4>3. /\ subList'[i].count = subList[i].count + 1 /\ subList'[i].sticky = sticky
            /\ subList'[j].count = subList[j].count + 1 /\ subList'[j].sticky = sticky
        BY <1>3, <3>3, <4>1
      <4> QED BY <4>2, <4>3
    <3> QED BY <1>3, <3>1, <3>2, <3>4 DEF PairKept, Paired
  <2> QED BY <2>2, <2>3, <2>4, <2>5 DEF Tended
<1> QED BY <1>6, <1>7, <1>10, <1>11 DEF ListInv

\* An action without a place of its own has no user.
LEMMA NoPlaces ==
  ASSUME Base, calls = <<>>, NEW action \in env.actions, ~SubscriptionPresent(action),
         NEW kind \in Kinds
  PROVE  ~HasPlace(action, kind) /\ Users(action, kind) = {}
<1>1. env.topics \in Nat /\ Kinds = {"accepted", "rejected"}
  BY EnvTyped DEF Base, TypeInv, RequestsTyped, Kinds
<1>2. ASSUME NEW k \in Kinds, HasPlace(action, k) PROVE Listed(Topic(action, k)) < env.topics
  <2>1. PICK i \in SubSlots : LiveFor(i, action, k) BY <1>2 DEF HasPlace
  <2> QED BY <2>1, ListedLive DEF Base, ListInv
<1>3. Paired(action) BY Idle
<1>4. ~HasPlace(action, "accepted") \/ ~HasPlace(action, "rejected")
  BY <1>1, <1>2 DEF SubscriptionPresent, AckTopics
<1>5. ~HasPlace(action, kind) BY <1>1, <1>3, <1>4 DEF Paired
<1> QED BY <1>5 DEF HasPlace, Base, ListInv, Tended, Served

\* The topics are not listed: the request takes the first two free places.
LEMMA NewList ==
  ASSUME Base, UNCHANGED <<env, ackWait, notified, mqtt>>, calls = <<>>,
         NEW action \in env.actions, ~SubscriptionPresent(action),
         FreeAccepted < env.topics, FreeRejected < env.topics,
         subList' = [subList EXCEPT ![FreeAccepted].free = FALSE,
                                    ![FreeAccepted].topic = Topic(action, "accepted"),
                                    ![FreeRejected].free = FALSE],
         NEW c \in CallSet, Pushed(c), c.pc = "accepted", c.action = action,
         c.acc = FreeAccepted, c.rej = FreeRejected
  PROVE  ListInv'
<1>1. Calls = {} /\ Calls' = {c} BY CallsEmpty, CallsPushed DEF Base, TypeInv, CallsTyped
<1>2. \A i : Live(i) <=> i \in SubSlots /\ ~subList[i].free BY Idle
<1>3. SubSlots' = SubSlots /\ env.topics \in Nat /\ Kinds = {"accepted", "rejected"}
  BY EnvTyped DEF SubSlots, Base, TypeInv, RequestsTyped, Kinds
<1> DEFINE acc == c.acc
           rej == c.rej
<1>4. /\ acc \in SubSlots /\ rej \in SubSlots /\ acc # rej
      /\ subList[acc].free /\ subList[rej].free
      /\ \A j \in 0..(acc - 1) : ~subList[j].free
      /\ \A j \in 0..(rej - 1) : j # acc => ~subList[j].free
  BY <1>3, FreeAcceptedFound, FreeRejectedFound
<1>5. ASSUME NEW j \in SubSlots
      PROVE  /\ j < acc => ~subList[j].free
             /\ j < rej /\ j # acc => ~subList[j].free
             /\ ~(j < acc) => acc <= j
             /\ ~(j < rej) /\ j # rej => rej < j
  <2>1. j \in Nat /\ acc \in Nat /\ rej \in Nat BY <1>3, <1>4 DEF SubSlots
  <2>2. (j < acc => j \in 0..(acc - 1)) /\ (j < rej => j \in 0..(rej - 1)) BY <2>1
  <2> QED BY <1>4, <2>1, <2>2
<1>6. ASSUME NEW i \in SubSlots
      PROVE  /\ i = acc => /\ ~subList'[i].free /\ subList'[i].topic = Topic(action, "accepted")
             /\ i = rej => ~subList'[i].free /\ subList'[i].topic = subList[i].topic
             /\ i # acc /\ i # rej => subList'[i] = subList[i]
  <2>1. subList[i] \in Places /\ subList \in [SubSlots -> Places]
    BY DEF Base, TypeInv, PlacesTyped
  <2> QED BY <1>4, <2>1 DEF Places
<1> HIDE DEF acc, rej
<1>7. \A i : Claimed(i)' <=> i = rej BY <1>1 DEF Claimed, rej
<1>8. \A i : Live(i)' <=> Live(i) \/ i = acc
  <2>1. \A i \in SubSlots : Live(i)' <=> Live(i) \/ i = acc
    BY <1>2, <1>3, <1>4, <1>6, <1>7 DEF Live
  <2>2. \A i : (Live(i)' \/ Live(i) \/ i = acc) => i \in SubSlots
    BY <1>3, <1>4 DEF Live
  <2> QED BY <2>1, <2>2
<1>9. \A kind \in Kinds : ~HasPlace(action, kind) /\ Users(action, kind) = {} BY NoPlaces
<1>10. \A i \in SubSlots, kind \in Kinds : Live(i) => subList[i].topic # Topic(action, kind)
  BY <1>9 DEF HasPlace, LiveFor
<1>11. NoUndo' BY <1>1 DEF NoUndo
<1>12. Ranked'
  <2> SUFFICES ASSUME NEW i \in SubSlots, NEW j \in SubSlots, Live(i)',
                      subList'[i].topic = subList'[j].topic
               PROVE  i <= j
    BY <1>3 DEF Ranked
  <2>1. \A k \in SubSlots : k # acc => subList'[k].topic = subList[k].topic BY <1>6
  <2>2. CASE i = acc /\ j = acc BY <1>3, <1>4, <2>2 DEF SubSlots
  <2>3. CASE i = acc /\ j # acc
    <3>1. subList[j].topic = Topic(action, "accepted") BY <1>4, <1>6, <2>1, <2>3
    <3>2. ~Live(j) BY <1>3, <1>10, <3>1
    <3>3. ~(j < acc) BY <1>2, <1>5, <3>2
    <3> QED BY <1>5, <2>3, <3>3
  <2>4. CASE i # acc /\ j = acc
    <3>1. Live(i) /\ subList[i].topic = Topic(action, "accepted") BY <1>6, <1>8, <2>1, <2>4
    <3> QED BY <1>3, <1>10, <3>1
  <2>5. CASE i # acc /\ j # acc
    BY <1>8, <2>1, <2>5 DEF Base, ListInv, Ranked
  <2> QED BY <2>2, <2>3, <2>4, <2>5
<1>13. LiveKnown'
  <2> SUFFICES ASSUME NEW i \in SubSlots, Live(i)'
               PROVE  \E a \in env.actions, kind \in Kinds : subList'[i].topic = Topic(a, kind)
    BY <1>3 DEF LiveKnown, Kinds, Topic
  <2>1. CASE i = acc BY <1>3, <1>6, <2>1
  <2>2. CASE i # acc BY <1>6, <1>8, <2>2 DEF Base, ListInv, LiveKnown
  <2> QED BY <2>1, <2>2
<1>14. \A i, a : Expects(i, a)' <=> Expects(i, a) BY DEF Expects, AckSlots
<1>15. \A a, kind : Users(a, kind)' \subseteq Users(a, kind)
  <2> SUFFICES ASSUME NEW a, NEW kind, NEW i \in Users(a, kind)' PROVE i \in Users(a, kind)
    OBVIOUS
  <2>1. ~Holds(c, a, kind) BY DEF Holds, NotifyPcs
  <2> QED BY <1>1, <1>14, <2>1, UserOf
<1>16. ASSUME NEW a \in env.actions, a # action PROVE Tended(a)'
  <2>1. \A i \in SubSlots : Live(i) => i # acc /\ subList'[i] = subList[i] BY <1>2, <1>4, <1>6
  <2>2. ASSUME NEW i \in SubSlots, NEW kind \in Kinds
        PROVE  LiveFor(i, a, kind)' <=> LiveFor(i, a, kind)
    <3>1. CASE i = acc
      <4>1. ~Live(i) BY <1>2, <1>4, <3>1
      <4>2. subList'[i].topic = Topic(action, "accepted") BY <1>6, <3>1
      <4>3. subList'[i].topic # Topic(a, kind) BY <1>16, <4>2, TopicsApart
      <4> QED BY <4>1, <4>3 DEF LiveFor, Topic
    <3>2. CASE i # acc BY <1>6, <1>8, <3>2 DEF LiveFor, Topic
    <3> QED BY <3>1, <3>2
  <2>3. \A i \in SubSlots, kind \in Kinds : LiveFor(i, a, kind) => subList'[i] = subList[i]
    BY <2>1 DEF LiveFor
  <2>4. Quiet(a) BY <1>1, <1>15, <1>16, <2>2, <2>3 DEF Quiet
  <2> QED BY <2>4, QuietKeeps DEF Base, ListInv
<1>17. Tended(action)'
  <2>1. \A kind \in Kinds : Users(action, kind)' = {} BY <1>9, <1>15
  <2>2. Served(action)' BY <2>1 DEF Served, Kinds
  <2>3. Subscribed(action)' /\ PairKept(action)'
    <3>1. \E d \in Calls' : d.action = action /\ Starts(d) BY <1>1 DEF Starts
    <3> QED BY <3>1 DEF Subscribed, PairKept, Starts
  <2>4. Starting(c)'
    <3>1. ASSUME NEW j \in SubSlots, subList'[j].topic = Topic(action, "rejected"), j # rej
          PROVE  ~Live(j)' /\ rej < j
      <4>1. j # acc BY <1>6, <3>1, TopicsDiffer
      <4>2. subList[j].topic = Topic(action, "rejected") BY <1>6, <3>1, <4>1
      <4>3. ~Live(j) BY <1>3, <1>10, <4>2
      <4> QED BY <1>2, <1>5, <1>8, <3>1, <4>1, <4>3
    <3>2. ~subList'[acc].free /\ ~subList'[rej].free
          /\ subList'[acc].topic = Topic(action, "accepted")
      BY <1>4, <1>6
    <3> QED BY <1>3, <1>4, <2>1, <3>1, <3>2 DEF Starting, Kinds, Topic, acc, rej
  <2>5. Requested(action)' BY <1>1, <2>4 DEF Requested, Starts
  <2>6. Removing(action)' /\ Halved(action)' BY <1>1 DEF Removing, Halved, Half, NotifyPcs
  <2> QED BY <2>2, <2>3, <2>5, <2>6 DEF Tended
<1> QED BY <1>11, <1>12, <1>13, <1>16, <1>17 DEF ListInv

\* The list has places for the topics of every action, so that it is never
\* full: the places in use hold different topics of other actions.
LEMMA ListFits ==
  ASSUME Base, Orderly, calls = <<>>, NEW action \in env.actions, ~SubscriptionPresent(action)
  PROVE  FreeRejected < env.topics
<1> SUFFICES ASSUME ~(FreeRejected < env.topics) PROVE FALSE OBVIOUS
<1>1. env.topics \in Nat /\ env.actions \subseteq Actions
  BY EnvTyped DEF Base, TypeInv, RequestsTyped
<1>2. FreeRejected = env.topics /\ FreeAccepted \in 0..env.topics
  BY <1>1, FreeAcceptedFound, FreeRejectedFound
<1> DEFINE S == SubSlots \ {FreeAccepted}
           R == env.actions \ {action}
           T == R \X Kinds
           n == Cardinality(env.actions)
<1>3. \A j \in S : ~subList[j].free
  <2>1. \A j \in SubSlots : j \in 0..(FreeRejected - 1) BY <1>1, <1>2 DEF SubSlots
  <2> QED BY <1>1, <2>1, FreeRejectedFound
<1>4. \A j \in S : Live(j) BY <1>3, Idle
<1>5. IsFiniteSet(SubSlots) /\ Cardinality(SubSlots) = env.topics
  <2>1. IsFiniteSet(0..(env.topics - 1))
        /\ Cardinality(0..(env.topics - 1)) =
             IF 0 > env.topics - 1 THEN 0 ELSE env.topics - 1 - 0 + 1
    <3>1. 0 \in Int /\ env.topics - 1 \in Int BY <1>1
    <3> QED BY <3>1, FS_Interval
  <2>2. (IF 0 > env.topics - 1 THEN 0 ELSE env.topics - 1 - 0 + 1) = env.topics BY <1>1
  <2> QED BY <2>1, <2>2 DEF SubSlots
<1>6. IsFiniteSet(S) /\ Cardinality(S) \in Nat /\ Cardinality(S) >= env.topics - 1
  <2>1. /\ IsFiniteSet(S)
        /\ Cardinality(S) = IF FreeAccepted \in SubSlots THEN Cardinality(SubSlots) - 1
                            ELSE Cardinality(SubSlots)
    BY <1>5, FS_RemoveElement
  <2>2. Cardinality(S) = env.topics - 1 \/ Cardinality(S) = env.topics BY <1>5, <2>1
  <2>3. Cardinality(S) \in Nat BY <2>1, FS_CardinalityType
  <2> QED BY <1>1, <2>1, <2>2, <2>3
<1>7. IsFiniteSet(env.actions) /\ n \in Nat /\ Cardinality(R) = n - 1 /\ IsFiniteSet(R)
  <2>1. IsFiniteSet(Actions)
    <3>1. IsFiniteSet({"get"}) BY FS_Singleton
    <3>2. IsFiniteSet({"get"} \cup {"update"}) BY <3>1, FS_AddElement
    <3>3. IsFiniteSet(({"get"} \cup {"update"}) \cup {"delete"}) BY <3>2, FS_AddElement
    <3>4. Actions = ({"get"} \cup {"update"}) \cup {"delete"} BY DEF Actions
    <3> QED BY <3>3, <3>4
  <2>2. IsFiniteSet(env.actions) /\ n \in Nat BY <1>1, <2>1, FS_Subset, FS_CardinalityType
  <2> QED BY <2>2, FS_RemoveElement
<1>8. IsFiniteSet(T) /\ Cardinality(T) = 2 * (n - 1)
  <2>1. IsFiniteSet(Kinds) /\ Cardinality(Kinds) = 2
    <3>1. IsFiniteSet({"accepted"}) /\ Cardinality({"accepted"}) = 1 BY FS_Singleton
    <3>2. IsFiniteSet({"accepted"} \cup {"rejected"})
          /\ Cardinality({"accepted"} \cup {"rejected"}) = 2
      BY <3>1, FS_AddElement
    <3>3. Kinds = {"accepted"} \cup {"rejected"} BY DEF Kinds
    <3> QED BY <3>2, <3>3
  <2> HIDE DEF R, n
  <2>2. IsFiniteSet(T) /\ Cardinality(T) = Cardinality(R) * Cardinality(Kinds)
    BY <1>7, <2>1, FS_Product
  <2>3. Cardinality(T) = (n - 1) * 2 BY <1>7, <2>1, <2>2
  <2> QED BY <1>7, <2>2, <2>3
<1>9. 2 * n <= env.topics BY <1>1, <1>7 DEF Orderly
<1>10. Cardinality(S) > Cardinality(T)
  <2> HIDE DEF S, T, n
  <2> QED BY <1>1, <1>6, <1>7, <1>8, <1>9
<1> DEFINE f == [j \in S |-> subList[j].topic]
<1>11. f \in [S -> T]
  <2> SUFFICES ASSUME NEW j \in S PROVE subList[j].topic \in T OBVIOUS
  <2>1. PICK a \in env.actions, kind \in Kinds : subList[j].topic = Topic(a, kind)
    BY <1>4 DEF Base, ListInv, LiveKnown
  <2>2. a # action
    <3> SUFFICES ASSUME a = action PROVE FALSE OBVIOUS
    <3>1. HasPlace(action, kind) BY <1>4, <2>1 DEF HasPlace, LiveFor
    <3> QED BY <3>1, NoPlaces
  <2> QED BY <2>1, <2>2 DEF Topic
<1>12. \E i, j \in S : i # j /\ f[i] = f[j]
  <2> HIDE DEF S, T, f
  <2> QED BY <1>6, <1>8, <1>10, <1>11, FS_PigeonHole
<1>13. PICK i \in S, j \in S : i # j /\ subList[i].topic = subList[j].topic BY <1>12
<1>14. i <= j /\ j <= i /\ i \in SubSlots /\ j \in SubSlots
  BY <1>4, <1>13 DEF Base, ListInv, Ranked
<1> QED BY <1>1, <1>13, <1>14 DEF SubSlots

LEMMA RequestList ==
  ASSUME Base, Orderly, UNCHANGED env, NEW action \in env.actions, NEW sticky \in BOOLEAN,
         Request(action, sticky)
  PROVE  ListInv'
<1>1. calls = <<>> /\ UNCHANGED <<ackWait, notified, mqtt>>
  BY DEF Request, MayCall, Orderly, external
<1>2. ASSUME NEW pc \in RequestPcs, FreeAck < NumAcks,
             calls' = Append(calls, RequestCall(action, sticky, pc))
      PROVE  \E c \in CallSet : /\ Pushed(c) /\ c.pc = pc /\ c.token = requests + 1
                                /\ c.action = action /\ c.sticky = sticky /\ c.ack = FreeAck
                                /\ c.acc = FreeAccepted /\ c.rej = FreeRejected
  BY <1>2, RequestPushes DEF Base, TypeInv
<1>3. {"publish", "accepted"} \subseteq RequestPcs BY DEF RequestPcs
<1>4. CASE UNCHANGED <<calls, subList>> BY <1>1, <1>4, SameList
<1>5. CASE /\ FreeAck < NumAcks /\ SubscriptionPresent(action)
           /\ IncrementSubscriptionCnt(action, sticky)
           /\ calls' = Append(calls, RequestCall(action, sticky, "publish"))
  BY <1>1, <1>2, <1>3, <1>5, PresentList
<1>6. CASE /\ FreeAck < NumAcks /\ ~SubscriptionPresent(action)
           /\ FreeAccepted < env.topics /\ FreeRejected < env.topics
           /\ subList' = [subList EXCEPT ![FreeAccepted].free = FALSE,
                                         ![FreeAccepted].topic = Topic(action, "accepted"),
                                         ![FreeRejected].free = FALSE]
           /\ calls' = Append(calls, RequestCall(action, sticky, "accepted"))
  BY <1>1, <1>2, <1>3, <1>6, NewList
<1>7. CASE ~SubscriptionPresent(action) /\ FreeRejected = env.topics
  <2>1. env.topics \in Nat BY EnvTyped DEF Base, TypeInv, RequestsTyped
  <2>2. FreeRejected < env.topics BY <1>1, <1>7, ListFits
  <2> QED BY <1>7, <2>1, <2>2
<1> QED BY <1>4, <1>5, <1>6, <1>7 DEF Request

-----------------------------------------------------------------------------
(* A request subscribes.                                                   *)

\* The request that starts, alone among the calls, and what it has.
LEMMA StartAlone ==
  ASSUME Base, NEW pc \in {"accepted", "rejected"}, At(pc)
  PROVE  /\ calls # <<>> /\ calls \in Seq(CallSet) /\ Call \in CallSet /\ Call.pc = pc
         /\ Call.ack \in AckSlots /\ Call.action \in env.actions
         /\ Others = {} /\ Calls = {Call} /\ Starting(Call)
<1>1. pc \in RequestPcs BY DEF RequestPcs
<1>2. /\ calls # <<>> /\ calls \in Seq(CallSet) /\ Call \in CallSet /\ Call.pc = pc
      /\ CallFits(Call, requests, env.actions)
  BY AtCall DEF Base
<1>3. Call.ack \in AckSlots BY <1>2 DEF CallSet
<1>4. Call.action \in env.actions BY <1>1, <1>2 DEF CallFits
<1>5. Others = {} /\ Calls = {Call} BY <1>1, RequestOthers DEF Base
<1>6. Starting(Call) BY <1>2, <1>4, <1>5 DEF Base, ListInv, Tended, Requested, Starts
<1> QED BY <1>2, <1>3, <1>4, <1>5, <1>6

LEMMA AcceptedList ==
  ASSUME Base, Orderly, UNCHANGED env, SubscribeAccepted
  PROVE  ListInv'
<1>1. At("accepted") /\ UNCHANGED <<ackWait, notified>> BY DEF SubscribeAccepted, history
<1>2. /\ mqtt' = mqtt \cup {Topic(Call.action, "accepted")}
      /\ subList' = [subList EXCEPT ![Call.acc].count = 1,
                                    ![Call.acc].sticky = Call.sticky,
                                    ![Call.rej].topic = Topic(Call.action, "rejected")]
      /\ Goto("rejected")
  BY DEF SubscribeAccepted, Orderly, Fails
<1>3. /\ calls # <<>> /\ calls \in Seq(CallSet) /\ Call \in CallSet /\ Call.pc = "accepted"
      /\ Call.ack \in AckSlots /\ Call.action \in env.actions
      /\ Others = {} /\ Calls = {Call} /\ Starting(Call)
  BY <1>1, StartAlone
<1>4. PICK c \in CallSet : /\ Replaced(c) /\ Alike(c, Call) /\ c.pc = "rejected"
                           /\ c.kind = Call.kind /\ c.acc = Call.acc
  BY <1>2, <1>3, GotoReplaces DEF RequestPcs
<1>5. Calls' = {c} BY <1>3, <1>4, CallsReplaced
<1> DEFINE acc == c.acc
           rej == c.rej
           action == c.action
<1>6. Call.acc = acc /\ Call.rej = rej /\ Call.action = action /\ Call.sticky = c.sticky
  BY <1>4 DEF Alike
<1>7. SubSlots' = SubSlots /\ env.topics \in Nat /\ Kinds = {"accepted", "rejected"}
  BY EnvTyped DEF SubSlots, Base, TypeInv, RequestsTyped, Kinds
<1>8. /\ acc \in SubSlots /\ rej \in SubSlots /\ acc # rej
      /\ ~subList[acc].free /\ ~subList[rej].free
      /\ subList[acc].topic = Topic(action, "accepted")
      /\ \A kind \in Kinds : Users(action, kind) = {}
      /\ \A j \in SubSlots : subList[j].topic = Topic(action, "rejected") /\ j # rej =>
           ~Live(j) /\ rej < j
  BY <1>3, <1>6 DEF Starting
<1>9. ASSUME NEW i \in SubSlots
      PROVE  /\ i = acc => /\ subList'[i].free = subList[i].free
                           /\ subList'[i].topic = subList[i].topic
                           /\ subList'[i].count = 1 /\ subList'[i].sticky = c.sticky
             /\ i = rej => /\ subList'[i].free = subList[i].free
                           /\ subList'[i].topic = Topic(action, "rejected")
             /\ i # acc /\ i # rej => subList'[i] = subList[i]
  <2>1. subList[i] \in Places /\ subList \in [SubSlots -> Places]
    BY DEF Base, TypeInv, PlacesTyped
  <2> QED BY <1>2, <1>6, <1>8, <2>1 DEF Places
<1>10. action \in env.actions BY <1>3, <1>6
<1> HIDE DEF acc, rej, action
<1>11. \A i : (Claimed(i) <=> i = rej) /\ ~Claimed(i)'
  BY <1>3, <1>4, <1>5, <1>6 DEF Claimed
<1>12. \A i \in SubSlots : Live(i)' <=> Live(i) \/ i = rej
  BY <1>7, <1>8, <1>9, <1>11 DEF Live
<1>13. ~Live(rej) /\ Live(acc) BY <1>8, <1>11 DEF Live
<1>14. \A i \in SubSlots : i # rej => subList'[i].topic = subList[i].topic BY <1>9
<1>15. NoUndo' BY <1>4, <1>5 DEF NoUndo
<1>16. Ranked'
  <2> SUFFICES ASSUME NEW i \in SubSlots, NEW j \in SubSlots, Live(i)',
                      subList'[i].topic = subList'[j].topic
               PROVE  i <= j
    BY <1>7 DEF Ranked
  <2>1. i \in Nat /\ j \in Nat /\ rej \in Nat BY <1>7, <1>8 DEF SubSlots
  <2>2. CASE i = rej /\ j = rej BY <2>1, <2>2
  <2>3. CASE i = rej /\ j # rej
    <3>1. subList[j].topic = Topic(action, "rejected") BY <1>9, <1>14, <2>3
    <3> QED BY <1>8, <2>1, <2>3, <3>1
  <2>4. CASE i # rej /\ j = rej
    <3>1. Live(i) /\ subList[i].topic = Topic(action, "rejected") BY <1>9, <1>12, <1>14, <2>4
    <3> QED BY <1>8, <2>4, <3>1
  <2>5. CASE i # rej /\ j # rej
    BY <1>12, <1>14, <2>5 DEF Base, ListInv, Ranked
  <2> QED BY <2>2, <2>3, <2>4, <2>5
<1>17. LiveKnown'
  <2> SUFFICES ASSUME NEW i \in SubSlots, Live(i)'
               PROVE  \E a \in env.actions, kind \in Kinds : subList'[i].topic = Topic(a, kind)
    BY <1>7 DEF LiveKnown, Kinds, Topic
  <2>1. CASE i = rej BY <1>7, <1>9, <1>10, <2>1
  <2>2. CASE i # rej BY <1>12, <1>14, <2>2 DEF Base, ListInv, LiveKnown
  <2> QED BY <2>1, <2>2
<1>18. \A i, a : Expects(i, a)' <=> Expects(i, a) BY <1>1 DEF Expects, AckSlots
<1>19. \A a, kind : Users(a, kind)' \subseteq Users(a, kind)
  <2> SUFFICES ASSUME NEW a, NEW kind, NEW i \in Users(a, kind)' PROVE i \in Users(a, kind)
    OBVIOUS
  <2>1. ~Holds(c, a, kind) BY <1>4 DEF Holds, NotifyPcs
  <2> QED BY <1>5, <1>18, <2>1, UserOf
<1>20. ASSUME NEW a \in env.actions, a # action PROVE Tended(a)'
  <2>1. ASSUME NEW i \in SubSlots, NEW kind \in Kinds
        PROVE  LiveFor(i, a, kind)' <=> LiveFor(i, a, kind)
    <3>1. CASE i = rej
      <4>1. subList'[i].topic # Topic(a, kind) BY <1>9, <1>20, <3>1, TopicsApart
      <4> QED BY <1>13, <3>1, <4>1 DEF LiveFor, Topic
    <3>2. CASE i # rej BY <1>12, <1>14, <3>2 DEF LiveFor, Topic
    <3> QED BY <3>1, <3>2
  <2>2. ASSUME NEW i \in SubSlots, NEW kind \in Kinds, LiveFor(i, a, kind)
        PROVE  subList'[i] = subList[i]
    <3>1. i # rej BY <1>13, <2>2 DEF LiveFor
    <3>2. i # acc BY <1>8, <1>20, <2>2, TopicsApart DEF LiveFor
    <3> QED BY <1>9, <3>1, <3>2
  <2>3. \A d \in Calls \cup Calls' : d.action # a BY <1>3, <1>5, <1>6, <1>20 DEF action
  <2>4. Quiet(a) BY <1>2, <1>19, <2>1, <2>2, <2>3 DEF Quiet
  <2> QED BY <2>4, QuietKeeps DEF Base, ListInv
<1>21. Tended(action)'
  <2>1. \A kind \in Kinds : Users(action, kind)' = {} BY <1>8, <1>19
  <2>2. \E d \in Calls' : d.action = action /\ Starts(d) BY <1>4, <1>5 DEF Starts, action
  <2>3. Starting(c)'
    <3>1. ~subList'[acc].free /\ ~subList'[rej].free
          /\ subList'[acc].topic = Topic(action, "accepted")
          /\ subList'[rej].topic = Topic(action, "rejected")
          /\ subList'[acc].count = 1 /\ subList'[acc].sticky = c.sticky
      BY <1>8, <1>9
    <3>2. Topic(action, "accepted") \in mqtt' BY <1>2, <1>6
    <3> QED BY <1>4, <1>7, <1>8, <2>1, <3>1, <3>2 DEF Starting, Kinds, Topic, acc, rej, action
  <2>4. \A a : Requested(a)'
    BY <1>5, <2>3 DEF Requested, Starts
  <2>5. \A a : Removing(a)' /\ Halved(a)'
    BY <1>4, <1>5 DEF Removing, Halved, Half, NotifyPcs
  <2>6. ASSUME NEW a, a = action PROVE Served(a)' /\ Subscribed(a)' /\ PairKept(a)'
    <3>1. \A kind \in Kinds : Users(a, kind)' = {} BY <2>1, <2>6 DEF action
    <3>2. Served(a)' BY <3>1 DEF Served, Kinds
    <3>3. \E d \in Calls' : d.action = a /\ Starts(d) BY <2>2, <2>6
    <3> QED BY <3>2, <3>3 DEF Subscribed, PairKept, Starts
  <2> QED BY <2>4, <2>5, <2>6 DEF Tended, action
<1> QED BY <1>15, <1>16, <1>17, <1>20, <1>21 DEF ListInv

LEMMA RejectedList ==
  ASSUME Base, Orderly, UNCHANGED env, SubscribeRejected
  PROVE  ListInv'
<1>1. At("rejected") /\ UNCHANGED <<ackWait, notified>> BY DEF SubscribeRejected, history
<1>2. /\ mqtt' = mqtt \cup {Topic(Call.action, "rejected")}
      /\ subList' = [subList EXCEPT ![Call.rej].count = 1, ![Call.rej].sticky = Call.sticky]
      /\ Goto("publish")
  BY DEF SubscribeRejected, Orderly, Fails
<1>3. /\ calls # <<>> /\ calls \in Seq(CallSet) /\ Call \in CallSet /\ Call.pc = "rejected"
      /\ Call.ack \in AckSlots /\ Call.action \in env.actions
      /\ Others = {} /\ Calls = {Call} /\ Starting(Call)
  BY <1>1, StartAlone
<1>4. PICK c \in CallSet : /\ Replaced(c) /\ Alike(c, Call) /\ c.pc = "publish"
                           /\ c.kind = Call.kind /\ c.acc = Call.acc
  BY <1>2, <1>3, GotoReplaces DEF RequestPcs
<1>5. Calls' = {c} BY <1>3, <1>4, CallsReplaced
<1> DEFINE acc == c.acc
           rej == c.rej
           action == c.action
<1>6. Call.acc = acc /\ Call.rej = rej /\ Call.action = action /\ Call.sticky = c.sticky
  BY <1>4 DEF Alike
<1>7. SubSlots' = SubSlots /\ Kinds = {"accepted", "rejected"} BY DEF SubSlots, Kinds
<1>8. /\ acc \in SubSlots /\ rej \in SubSlots /\ acc # rej
      /\ ~subList[acc].free /\ ~subList[rej].free
      /\ subList[acc].topic = Topic(action, "accepted")
      /\ subList[rej].topic = Topic(action, "rejected")
      /\ subList[acc].count = 1 /\ subList[acc].sticky = c.sticky
      /\ Topic(action, "accepted") \in mqtt
      /\ \A kind \in Kinds : Users(action, kind) = {}
  BY <1>3, <1>6 DEF Starting
<1>9. ASSUME NEW i \in SubSlots
      PROVE  /\ subList'[i].free = subList[i].free /\ subList'[i].topic = subList[i].topic
             /\ i = rej => subList'[i].count = 1 /\ subList'[i].sticky = c.sticky
             /\ i # rej => subList'[i] = subList[i]
  <2>1. subList[i] \in Places /\ subList \in [SubSlots -> Places]
    BY DEF Base, TypeInv, PlacesTyped
  <2> QED BY <1>2, <1>6, <1>8, <2>1 DEF Places
<1>10. action \in env.actions /\ c.ack \in AckSlots BY <1>3, <1>4, <1>6 DEF Alike
<1> HIDE DEF acc, rej, action
<1>11. \A i : ~Claimed(i) /\ ~Claimed(i)' BY <1>3, <1>4, <1>5 DEF Claimed
<1>12. \A i : Live(i)' <=> Live(i) BY <1>7, <1>9, <1>11 DEF Live
<1>13. \A i \in SubSlots : \A a, kind : LiveFor(i, a, kind)' <=> LiveFor(i, a, kind)
  BY <1>9, <1>12 DEF LiveFor, Topic
<1>14. LiveFor(acc, action, "accepted") /\ LiveFor(rej, action, "rejected")
  BY <1>8, <1>11 DEF LiveFor, Live
<1>15. NoUndo' BY <1>4, <1>5 DEF NoUndo
<1>16. Ranked' /\ LiveKnown' BY <1>9, <1>12, PlacesKept DEF Base, ListInv
<1>17. \A i, a : Expects(i, a)' <=> Expects(i, a) BY <1>1 DEF Expects, AckSlots
<1>18. ASSUME NEW a \in env.actions, a # action PROVE Tended(a)'
  <2>1. ASSUME NEW i \in SubSlots, NEW kind \in Kinds, LiveFor(i, a, kind)
        PROVE  subList'[i] = subList[i]
    <3>1. i # rej BY <1>8, <1>18, <2>1, TopicsApart DEF LiveFor
    <3> QED BY <1>9, <3>1
  <2>2. ASSUME NEW kind, NEW i \in Users(a, kind)' PROVE i \in Users(a, kind)
    <3>1. ~Holds(c, a, kind) BY <1>18 DEF Holds, action
    <3> QED BY <1>5, <1>17, <3>1, UserOf
  <2>3. \A d \in Calls \cup Calls' : d.action # a BY <1>3, <1>5, <1>6, <1>18 DEF action
  <2>4. Quiet(a) BY <1>2, <1>13, <2>1, <2>2, <2>3 DEF Quiet
  <2> QED BY <2>4, QuietKeeps DEF Base, ListInv
<1>19. ASSUME NEW a, a = action PROVE Tended(a)'
  <2>1. ASSUME NEW kind \in Kinds PROVE Cardinality(Users(a, kind)') <= 1
    <3>1. \A i \in Users(a, kind)' : i \in {c.ack} BY <1>5, <1>8, <1>17, <1>19, UserOf
    <3>2. {c.ack} \subseteq AckSlots /\ Users(a, kind)' \subseteq {c.ack} BY <1>10, <3>1
    <3>3. Cardinality(Users(a, kind)') <= Cardinality({c.ack}) BY <3>2, SlotSets
    <3> QED BY <3>3, FS_Singleton
  <2>2. LiveFor(acc, a, "accepted")' /\ LiveFor(rej, a, "rejected")'
    BY <1>8, <1>13, <1>14, <1>19
  <2>3. /\ subList'[acc].count = 1 /\ subList'[rej].count = 1
        /\ subList'[acc].sticky = subList'[rej].sticky
    BY <1>8, <1>9
  <2>4. Served(a)'
    <3> SUFFICES ASSUME NEW kind \in Kinds
                 PROVE  \E i \in SubSlots : /\ LiveFor(i, a, kind)'
                                            /\ subList'[i].count >= Cardinality(Users(a, kind)')
      BY <1>7 DEF Served, Kinds
    <3>1. Users(a, kind)' \subseteq AckSlots BY DEF Users, AckSlots
    <3>2. Cardinality(Users(a, kind)') \in Nat BY <3>1, SlotSets
    <3>3. 1 >= Cardinality(Users(a, kind)') BY <2>1, <3>2
    <3> QED BY <1>7, <1>8, <2>2, <2>3, <3>3
  <2>5. Subscribed(a)'
    <3> SUFFICES ASSUME NEW kind \in Kinds PROVE Topic(a, kind) \in mqtt'
      BY DEF Subscribed, Kinds, Topic
    <3> QED BY <1>2, <1>6, <1>7, <1>8, <1>19
  <2>6. Requested(a)' /\ Removing(a)' /\ Halved(a)'
    BY <1>4, <1>5 DEF Requested, Removing, Halved, Starts, Half, NotifyPcs
  <2>7. PairKept(a)'
    <3>1. HasPlace(a, "accepted")' /\ HasPlace(a, "rejected")' BY <1>7, <1>8, <2>2 DEF HasPlace
    <3>2. ASSUME NEW i \in SubSlots, NEW j \in SubSlots, LiveFor(i, a, "accepted")',
                 LiveFor(j, a, "rejected")'
          PROVE  i = acc /\ j = rej
      <4>1. LiveFor(i, a, "accepted") /\ LiveFor(j, a, "rejected") BY <1>13, <3>2
      <4> QED BY <1>14, <1>19, <4>1, OneLive DEF Base, ListInv
    <3> QED BY <1>7, <2>3, <3>1, <3>2 DEF PairKept, Paired
  <2> QED BY <2>4, <2>5, <2>6, <2>7 DEF Tended
<1> QED BY <1>15, <1>16, <1>18, <1>19 DEF ListInv, action

-----------------------------------------------------------------------------
(* A request releases its topics.                                          *)

\* A call that releases relies on its topics, and nobody else removes a topic
\* that it relies on.
LEMMA ReleaseFacts ==
  ASSUME Base, NEW pc \in {"release", "unsubscribe"}, At(pc)
  PROVE  /\ calls # <<>> /\ calls \in Seq(CallSet) /\ Call \in CallSet /\ Call.pc = pc
         /\ Calls = Others \cup {Call} /\ Call.ack \in AckSlots
         /\ Call.kind \in Kinds /\ Call.action \in env.actions
         /\ \A kind \in Kinds : kind = "rejected" \/ Call.kind = "accepted" =>
              /\ Holds(Call, Call.action, kind) /\ Call.ack \in Users(Call.action, kind)
              /\ \A d \in Others :
                   ~(d.action = Call.action /\ d.pc = "unsubscribe" /\ d.kind = kind)
         /\ \A d \in Calls : ~(d.action = Call.action /\ Starts(d))
         /\ \A d \in Others : ~(d.action = Call.action /\ Half(d))
         /\ Call.kind = "accepted" => Paired(Call.action)
<1>1. /\ calls # <<>> /\ calls \in Seq(CallSet) /\ Call \in CallSet /\ Call.pc = pc
  BY AtCall DEF Base
<1>2. Calls = Others \cup {Call} BY <1>1, CallsSplit
<1>3. Call.ack \in AckSlots /\ Call.kind \in Kinds BY <1>1 DEF CallSet
<1>4. Call.action \in env.actions BY <1>1, TopCall DEF Base, KnownInv, CallKnown
<1>5. Call.pc \in NotifyPcs BY <1>1 DEF NotifyPcs
<1>6. ASSUME NEW kind \in Kinds, kind = "rejected" \/ Call.kind = "accepted"
      PROVE  /\ Holds(Call, Call.action, kind) /\ Call.ack \in Users(Call.action, kind)
             /\ \A d \in Others :
                  ~(d.action = Call.action /\ d.pc = "unsubscribe" /\ d.kind = kind)
  <2>1. Holds(Call, Call.action, kind) BY <1>5, <1>6 DEF Holds
  <2>2. Call.ack \in Users(Call.action, kind) BY <1>2, <1>3, <2>1, UserOf
  <2>3. ASSUME NEW d \in Others, d.action = Call.action, d.pc = "unsubscribe", d.kind = kind
        PROVE  FALSE
    <3>1. d \in Calls /\ d \in CallSet /\ d.ack # Call.ack
      BY <1>1, <1>5, <2>3, OtherCalls DEF Base, NotifyPcs
    <3>2. Removable(d) BY <1>4, <2>3, <3>1 DEF Base, ListInv, Tended, Removing
    <3>3. LiveFor(d.acc, d.action, kind) /\ subList[d.acc].count = 1 BY <2>3, <3>2 DEF Removable
    <3>4. /\ Users(d.action, kind) \subseteq AckSlots /\ Cardinality(Users(d.action, kind)) \in Nat
          /\ subList[d.acc].count >= Cardinality(Users(d.action, kind))
      BY <1>4, <2>3, <3>3, CountServes
    <3>5. Holds(d, d.action, kind) BY <2>3 DEF Holds, NotifyPcs, Kinds
    <3>6. d.ack \in AckSlots BY <3>1 DEF CallSet
    <3>7. d.ack \in Users(d.action, kind) BY <3>1, <3>5, <3>6, UserOf
    <3>8. Cardinality(Users(d.action, kind)) >= 2
      BY <2>2, <2>3, <3>1, <3>4, <3>7, SlotCount
    <3> QED BY <3>3, <3>4, <3>8
  <2> QED BY <2>1, <2>2, <2>3
<1>7. ASSUME NEW d \in Calls, d.action = Call.action, Starts(d) PROVE FALSE
  <2>1. Starting(d) BY <1>4, <1>7 DEF Base, ListInv, Tended, Requested
  <2>2. Users(d.action, "rejected") = {} BY <2>1 DEF Starting, Kinds
  <2> QED BY <1>6, <1>7, <2>2 DEF Kinds
<1>8. ASSUME NEW d \in Others, d.action = Call.action, Half(d) PROVE FALSE
  <2>1. d.pc = "unsubscribe" /\ d.kind = "rejected"
    BY <1>1, <1>8, OtherCalls DEF Base, Half
  <2> QED BY <1>6, <1>8, <2>1 DEF Kinds
<1>9. ASSUME Call.kind = "accepted" PROVE Paired(Call.action)
  <2>1. ~Half(Call) BY <1>9 DEF Half
  <2>2. PairKept(Call.action) BY <1>4 DEF Base, ListInv, Tended
  <2> QED BY <1>2, <1>7, <1>8, <2>1, <2>2 DEF PairKept
<1> QED BY <1>1, <1>2, <1>3, <1>4, <1>6, <1>7, <1>8, <1>9

\* The last user of a topic starts to unsubscribe from it.
LEMMA LastList ==
  ASSUME Base, At("release"), UNCHANGED <<env, subList, ackWait, notified, mqtt>>,
         NEW i, LiveFor(i, Call.action, Call.kind), subList[i].count = 1, ~subList[i].sticky,
         NEW c \in CallSet, Replaced(c), Alike(c, Call), c.pc = "unsubscribe",
         c.kind = Call.kind, c.acc = i
  PROVE  ListInv'
<1>1. /\ calls # <<>> /\ calls \in Seq(CallSet) /\ Call \in CallSet /\ Call.pc = "release"
      /\ Calls = Others \cup {Call} /\ Call.kind \in Kinds /\ Call.action \in env.actions
      /\ \A d \in Calls : ~(d.action = Call.action /\ Starts(d))
      /\ \A d \in Others : ~(d.action = Call.action /\ Half(d))
  BY ReleaseFacts
<1>2. Calls' = Others \cup {c} BY <1>1, CallsReplaced
<1>3. c.action = Call.action /\ c.ack = Call.ack BY DEF Alike
<1>4. SubSlots' = SubSlots /\ Kinds = {"accepted", "rejected"} BY DEF SubSlots, Kinds
<1>5. \A j : Claimed(j)' <=> Claimed(j) BY <1>1, <1>2 DEF Claimed
<1>6. \A j : Live(j)' <=> Live(j) BY <1>4, <1>5 DEF Live
<1>7. \A j, a, kind : LiveFor(j, a, kind)' <=> LiveFor(j, a, kind) BY <1>6 DEF LiveFor, Topic
<1>8. \A a, kind : HasPlace(a, kind)' <=> HasPlace(a, kind) BY <1>4, <1>7 DEF HasPlace
<1>9. Ranked' /\ LiveKnown' BY <1>6, PlacesKept DEF Base, ListInv
<1>10. NoUndo' BY <1>1, <1>2 DEF Base, ListInv, NoUndo
<1>11. \A j, a : Expects(j, a)' <=> Expects(j, a) BY DEF Expects, AckSlots
<1>12. ASSUME NEW a, NEW kind PROVE Users(a, kind)' = Users(a, kind)
  <2>1. Holds(c, a, kind) <=> Holds(Call, a, kind) BY <1>1, <1>3 DEF Holds, NotifyPcs
  <2>2. \A j : (\E d \in Calls' : d.ack = j /\ Holds(d, a, kind))
               <=> (\E d \in Calls : d.ack = j /\ Holds(d, a, kind))
    BY <1>1, <1>2, <1>3, <2>1
  <2>3. \A j : j \in Users(a, kind)' <=> j \in Users(a, kind) BY <1>11, <2>2, UserOf
  <2> QED BY <2>3
<1>13. ASSUME NEW a \in env.actions, a # c.action PROVE Tended(a)'
  <2>1. \A d \in Calls \cup Calls' : d.action = a => d \in Others BY <1>1, <1>2, <1>3, <1>13
  <2>2. \A d \in Others : d \in Calls /\ d \in Calls' BY <1>1, <1>2
  <2>3. Quiet(a) BY <1>7, <1>12, <2>1, <2>2 DEF Quiet
  <2> QED BY <2>3, QuietKeeps DEF Base, ListInv
<1>14. ASSUME NEW a, a = c.action PROVE Tended(a)'
  <2>1. Tended(a) /\ a = Call.action BY <1>1, <1>3, <1>14 DEF Base, ListInv
  <2>2. \A d \in Calls' : d.action = a => ~Starts(d) /\ (Half(d) => d = c)
    BY <1>1, <1>2, <2>1 DEF Starts
  <2>3. Served(a)' BY <1>4, <1>7, <1>12, <2>1 DEF Tended, Served
  <2>4. Subscribed(a)' BY <1>1, <1>4, <1>7, <2>1 DEF Tended, Subscribed, Topic
  <2>5. Requested(a)' BY <2>2 DEF Requested, Starts
  <2>6. Removing(a)'
    <3> SUFFICES ASSUME NEW d \in Calls', d.action = a, d.pc = "unsubscribe" PROVE Removable(d)'
      BY DEF Removing
    <3>1. CASE d = c
      <4>1. Removable(c) BY <1>3 DEF Removable
      <4> QED BY <1>7, <3>1, <4>1 DEF Removable
    <3>2. CASE d \in Others
      <4>1. Removable(d) BY <1>1, <2>1, <3>2 DEF Tended, Removing
      <4> QED BY <1>7, <4>1 DEF Removable
    <3> QED BY <1>2, <3>1, <3>2
  <2>7. ASSUME Half(c) PROVE ~HasPlace(a, "accepted")
    <3>1. Half(Call) /\ c.kind = "rejected" BY <1>1, <2>7 DEF Half, NotifyPcs
    <3>2. Halfway(a) BY <1>1, <2>1, <3>1 DEF Tended, Halved
    <3>3. PICK j \in SubSlots :
            /\ LiveFor(j, a, "rejected")
            /\ \/ ~HasPlace(a, "accepted") /\ subList[j].count = 1 /\ ~subList[j].sticky
               \/ \E k \in SubSlots : LiveFor(k, a, "accepted") /\ Behind(k, j)
      BY <2>1, <3>2 DEF Halfway
    <3>4. j = i BY <2>1, <3>1, <3>3, OneLive DEF Base, ListInv
    <3>5. ASSUME NEW k \in SubSlots, Behind(k, j) PROVE FALSE
      <4>1. subList[k].count \in Nat BY PlaceTyped DEF Base
      <4>2. subList[j].count = subList[k].count + 1 /\ subList[k].count >= 1
        BY <3>4, <3>5 DEF Behind
      <4>3. subList[j].count = 1 BY <3>4
      <4> QED BY <4>1, <4>2, <4>3
    <3> QED BY <3>3, <3>5
  <2>8. Halved(a)'
    <3> SUFFICES ASSUME NEW d \in Calls', d.action = a, Half(d)
                 PROVE  /\ d.pc = "unsubscribe" => ~HasPlace(a, "accepted")'
                        /\ d.pc = "release" => Halfway(a)'
      BY DEF Halved, Half, NotifyPcs
    <3>1. d = c BY <2>2
    <3> QED BY <1>8, <2>7, <3>1
  <2>9. PairKept(a)'
    <3>1. CASE Paired(a) BY <1>4, <1>7, <1>8, <3>1 DEF PairKept, Paired
    <3>2. CASE Half(Call)
      <4>1. Half(c) BY <3>2 DEF Half, NotifyPcs
      <4> QED BY <1>2, <1>14, <4>1 DEF PairKept, Half, NotifyPcs
    <3> QED BY <1>1, <2>1, <3>1, <3>2 DEF Tended, PairKept
  <2> QED BY <2>3, <2>4, <2>5, <2>6, <2>8, <2>9 DEF Tended
<1> QED BY <1>9, <1>10, <1>13, <1>14 DEF ListInv

\* The innermost call, which releases the topic of kind k of action a, lets go
\* of the place i: it counts one user less, or the topic is unsubscribed and
\* the place is free.
LetsGo(a, k, i) ==
  /\ LiveFor(i, a, k)
  /\ subList'[i].topic = subList[i].topic
  /\ \A j \in SubSlots : j # i => subList'[j] = subList[j]
  /\ \/ /\ subList'[i].free = subList[i].free /\ subList'[i].sticky = subList[i].sticky
        /\ subList'[i].count = subList[i].count \/ subList'[i].count = subList[i].count - 1
        /\ mqtt' = mqtt
     \/ /\ subList'[i].free /\ subList[i].count = 1
        /\ mqtt' = mqtt \ {Topic(a, k)}

\* The call goes on to its second topic as c, or ends.
GoesOn(a, k) ==
  /\ a = Call.action /\ k = Call.kind
  /\ \/ k = "accepted" /\ \E c \in CallSet : /\ Calls' = Others \cup {c} /\ Alike(c, Call)
                                             /\ c.pc = "release" /\ c.kind = "rejected"
     \/ k = "rejected" /\ Calls' = Others
  /\ \A j, b : Expects(j, b)' => Expects(j, b)

LEMMA NextGoesOn ==
  ASSUME Base, NEW pc \in {"release", "unsubscribe"}, At(pc), ReleaseNext,
         UNCHANGED <<env, notified>>, NEW a, NEW k, a = Call.action, k = Call.kind
  PROVE  GoesOn(a, k)
<1>1. calls # <<>> /\ calls \in Seq(CallSet) /\ Call.ack \in AckSlots BY ReleaseFacts
<1>2. \/ /\ Call.kind = "accepted" /\ UNCHANGED ackWait
         /\ \E c \in CallSet : /\ Replaced(c) /\ Alike(c, Call) /\ c.pc = "release"
                               /\ c.kind = "rejected" /\ c.acc = Call.acc
      \/ /\ Call.kind = "rejected" /\ Popped
         /\ ackWait' = IF Call.acked THEN [ackWait EXCEPT ![Call.ack].free = TRUE] ELSE ackWait
  BY NextReleases DEF Base
<1>3. ackWait' = ackWait \/ ackWait' = [ackWait EXCEPT ![Call.ack].free = TRUE] BY <1>2
<1>4. \A j, b : Expects(j, b)' => Expects(j, b) BY <1>1, <1>3, FreedExpects
<1> QED BY <1>1, <1>2, <1>4, CallsReplaced, CallsPopped DEF GoesOn

\* The topic loses the call as a user; no topic gains one.
LEMMA ReleaseUsers ==
  ASSUME Base, NEW pc \in {"release", "unsubscribe"}, At(pc), NEW a, NEW k, GoesOn(a, k)
  PROVE  /\ \A b, kind : Users(b, kind)' \subseteq Users(b, kind)
         /\ Call.ack \notin Users(a, k)' /\ Call.ack \in Users(a, k)
<1>1. /\ calls # <<>> /\ Call \in CallSet /\ Call.pc = pc /\ Calls = Others \cup {Call}
      /\ Call.ack \in AckSlots /\ Call.kind \in Kinds /\ Kinds = {"accepted", "rejected"}
      /\ \A kind \in Kinds : kind = "rejected" \/ Call.kind = "accepted" =>
           Call.ack \in Users(Call.action, kind)
  BY ReleaseFacts DEF Kinds
<1>2. a = Call.action /\ k = Call.kind /\ \A j, b : Expects(j, b)' => Expects(j, b)
  BY DEF GoesOn
<1>3. \A d \in Calls' : \/ d \in Others
                        \/ Alike(d, Call) /\ d.pc = "release" /\ d.kind = "rejected"
                           /\ k = "accepted"
  BY DEF GoesOn
<1>4. Call.pc \in NotifyPcs BY <1>1 DEF NotifyPcs
<1>5. ASSUME NEW b, NEW kind, NEW j \in Users(b, kind)' PROVE j \in Users(b, kind)
  <2>1. j \in AckSlots /\ (Expects(j, b)' \/ \E d \in Calls' : d.ack = j /\ Holds(d, b, kind))
    BY UserOf
  <2>2. CASE Expects(j, b)' BY <1>2, <2>1, <2>2, UserOf
  <2>3. ASSUME NEW d \in Calls', d.ack = j, Holds(d, b, kind) PROVE j \in Users(b, kind)
    <3>1. CASE d \in Others BY <1>1, <2>1, <2>3, <3>1, UserOf
    <3>2. CASE Alike(d, Call) /\ d.pc = "release" /\ d.kind = "rejected" /\ k = "accepted"
      <4>1. Call.ack = j /\ Holds(Call, b, kind) BY <1>2, <1>4, <2>3, <3>2 DEF Holds, Alike
      <4> QED BY <1>1, <2>1, <4>1, UserOf
    <3> QED BY <1>3, <3>1, <3>2
  <2> QED BY <2>1, <2>2, <2>3
<1>6. ~Expects(Call.ack, a)
  <2>1. CASE Busy(Call)
    <3>1. Owned(Call) BY <1>1, <2>1, TopCall DEF Base, TypeInv, CallsTyped, CallsInv, BusyOwns
    <3> QED BY <3>1 DEF Owned, Expects
  <2>2. CASE ~Busy(Call)
    <3>1. ~Call.acked BY <1>1, <1>4, <2>2 DEF Busy, CallSet
    <3>2. CallKnown(Call, Len(calls))
      BY <1>1, TopCall DEF Base, TypeInv, CallsTyped, KnownInv
    <3>3. ackWait[Call.ack].free BY <1>1, <1>4, <3>1, <3>2 DEF CallKnown
    <3> QED BY <3>3 DEF Expects
  <2> QED BY <2>1, <2>2
<1>7. ASSUME NEW j, j = Call.ack, j \in Users(a, k)' PROVE FALSE
  <2>1. Expects(j, a)' \/ \E d \in Calls' : d.ack = j /\ Holds(d, a, k) BY <1>7, UserOf
  <2>2. CASE Expects(j, a)' BY <1>2, <1>6, <1>7, <2>2
  <2>3. ASSUME NEW d \in Others, d.ack = j, Holds(d, a, k) PROVE FALSE
    <3>1. d.pc \in Waits /\ (d.pc \in NotifyPcs => d.ack # Call.ack)
      BY <1>1, <1>4, OtherCalls DEF Base
    <3>2. d.pc = "publish" BY <1>7, <2>3, <3>1 DEF Holds
    <3> QED BY <3>1, <3>2 DEF Waits
  <2>4. ASSUME NEW d \in Calls', Holds(d, a, k), d.pc = "release", d.kind = "rejected",
               k = "accepted"
        PROVE  FALSE
    BY <2>4 DEF Holds
  <2> QED BY <1>3, <2>1, <2>2, <2>3, <2>4
<1> QED BY <1>1, <1>2, <1>5, <1>7

\* What happens to the places of the list.
LEMMA ReleasePlaces ==
  ASSUME Base, UNCHANGED env, NEW pc \in {"release", "unsubscribe"}, At(pc),
         NEW a, NEW k, GoesOn(a, k), NEW i, LetsGo(a, k, i)
  PROVE  /\ i \in SubSlots /\ SubSlots' = SubSlots
         /\ \A j \in SubSlots : j # i => Live(j)' = Live(j)
         /\ Live(i)' <=> ~subList'[i].free
         /\ LiveFor(i, a, k)' <=> ~subList'[i].free
         /\ \A j \in SubSlots : LiveFor(j, a, k)' => j = i
         /\ \A j \in SubSlots : \A b, kind : b # a \/ kind # k =>
              /\ LiveFor(j, b, kind)' <=> LiveFor(j, b, kind)
              /\ LiveFor(j, b, kind) => j # i /\ subList'[j] = subList[j]
         /\ NoUndo' /\ Ranked' /\ LiveKnown'
<1>1. calls # <<>> /\ Call.pc = pc /\ Calls = Others \cup {Call} BY ReleaseFacts
<1>2. \A d \in Calls' : d \in Others \/ d.pc = "release" BY DEF GoesOn
<1>3. \A d \in Others : d \in Calls' BY DEF GoesOn
<1>4. \A j : Claimed(j)' <=> Claimed(j) BY <1>1, <1>2, <1>3 DEF Claimed
<1>5. i \in SubSlots /\ Live(i) /\ ~Claimed(i) /\ subList[i].topic = Topic(a, k)
  BY DEF LetsGo, LiveFor, Live
<1>6. SubSlots' = SubSlots BY DEF SubSlots
<1>7. ASSUME NEW j \in SubSlots, j # i PROVE Live(j)' = Live(j) /\ subList'[j] = subList[j]
  <2>1. subList'[j] = subList[j] BY <1>7 DEF LetsGo
  <2> QED BY <1>4, <1>6, <2>1 DEF Live
<1>8. Live(i)' <=> ~subList'[i].free BY <1>4, <1>5, <1>6 DEF Live
<1>9. \A j \in SubSlots : subList'[j].topic = subList[j].topic /\ (Live(j)' => Live(j))
  BY <1>5, <1>7 DEF LetsGo
<1>10. LiveFor(i, a, k)' <=> ~subList'[i].free BY <1>5, <1>8, <1>9 DEF LiveFor, Topic
<1>11. ASSUME NEW j \in SubSlots, LiveFor(j, a, k)' PROVE j = i
  <2>1. LiveFor(j, a, k) BY <1>9, <1>11 DEF LiveFor, Topic
  <2> QED BY <2>1, OneLive DEF Base, ListInv, LetsGo
<1>12. ASSUME NEW j \in SubSlots, NEW b, NEW kind, b # a \/ kind # k
       PROVE  /\ LiveFor(j, b, kind)' <=> LiveFor(j, b, kind)
              /\ LiveFor(j, b, kind) => j # i /\ subList'[j] = subList[j]
  <2>1. CASE j = i
    <3>1. Topic(b, kind) # Topic(a, k) BY <1>12, TopicsDiffer
    <3> QED BY <1>5, <1>9, <2>1, <3>1 DEF LiveFor, Topic
  <2>2. CASE j # i BY <1>7, <2>2 DEF LiveFor, Topic
  <2> QED BY <2>1, <2>2
<1>13. Ranked' /\ LiveKnown' BY <1>9, PlacesKept DEF Base, ListInv
<1>14. NoUndo' BY <1>1, <1>2 DEF Base, ListInv, NoUndo
<1> QED BY <1>5, <1>6, <1>7, <1>8, <1>10, <1>11, <1>12, <1>13, <1>14

\* The places of other actions are left alone.
LEMMA OthersTended ==
  ASSUME Base, UNCHANGED env, NEW pc \in {"release", "unsubscribe"}, At(pc),
         NEW a, NEW k, GoesOn(a, k), NEW i, LetsGo(a, k, i), NEW b \in env.actions, b # a
  PROVE  Tended(b)'
<1>1. \A j \in SubSlots : \A kind :
        /\ LiveFor(j, b, kind)' <=> LiveFor(j, b, kind)
        /\ LiveFor(j, b, kind) => j # i /\ subList'[j] = subList[j]
  BY ReleasePlaces
<1>2. \A kind : Users(b, kind)' \subseteq Users(b, kind) BY ReleaseUsers
<1>3. Calls = Others \cup {Call} /\ a = Call.action BY ReleaseFacts DEF GoesOn
<1>4. \A d \in Calls' : d \in Others \/ d.action = a BY DEF GoesOn, Alike
<1>5. \A d \in Others : d \in Calls' /\ d \in Calls BY <1>3 DEF GoesOn
<1>6. \A kind \in Kinds : Topic(b, kind) \in mqtt => Topic(b, kind) \in mqtt'
  BY TopicsApart DEF LetsGo
<1>7. ASSUME NEW c \in Calls, c.action = b, Starts(c)
      PROVE  /\ subList'[c.acc] = subList[c.acc] /\ subList'[c.rej] = subList[c.rej]
             /\ \A j \in SubSlots : subList'[j].topic = subList[j].topic
  <2>1. Starting(c) BY <1>7 DEF Base, ListInv, Tended, Requested
  <2>2. Live(i) /\ subList[i].topic = Topic(a, k) BY DEF LetsGo, LiveFor
  <2>3. c.acc # i BY <1>7, <2>1, <2>2, TopicsApart DEF Starting
  <2>4. c.rej # i
    <3>1. CASE c.pc = "accepted"
      <4>1. Claimed(c.rej) BY <1>7, <3>1 DEF Claimed
      <4> QED BY <2>2, <4>1 DEF Live
    <3>2. CASE c.pc = "rejected" BY <1>7, <2>1, <2>2, <3>2, TopicsApart DEF Starting
    <3> QED BY <1>7, <3>1, <3>2 DEF Starts
  <2> QED BY <2>1, <2>3, <2>4 DEF LetsGo, Starting
<1>8. Quiet(b)
  <2>1. \A j \in SubSlots, kind \in Kinds : LiveFor(j, b, kind)' <=> LiveFor(j, b, kind) BY <1>1
  <2>2. \A j \in SubSlots, kind \in Kinds : LiveFor(j, b, kind) =>
          subList'[j].count = subList[j].count /\ subList'[j].sticky = subList[j].sticky
    BY <1>1
  <2>3. ASSUME NEW d \in Calls \cup Calls', d.action = b
        PROVE  d \in Calls /\ d \in Calls'
    <3>1. CASE d \in Calls BY <1>3, <1>5, <2>3, <3>1
    <3>2. CASE d \in Calls' BY <1>4, <1>5, <2>3, <3>2
    <3> QED BY <2>3, <3>1, <3>2
  <2>4. \A kind \in Kinds : Users(b, kind)' \subseteq Users(b, kind) BY <1>2
  <2> QED BY <1>6, <1>7, <2>1, <2>2, <2>3, <2>4 DEF Quiet
<1> QED BY <1>8, QuietKeeps DEF Base, ListInv

\* The places of the action itself.
LEMMA ReleaseTended ==
  ASSUME Base, UNCHANGED env, NEW pc \in {"release", "unsubscribe"}, At(pc),
         NEW a, NEW k, GoesOn(a, k), NEW i, LetsGo(a, k, i), subList'[i].count \in Nat,
         k = "accepted" => Halfway(a)', k = "rejected" => Paired(a)'
  PROVE  Tended(a)'
<1>1. /\ Calls = Others \cup {Call} /\ Call.kind \in Kinds /\ Call.action \in env.actions
      /\ Call.ack \in AckSlots /\ Kinds = {"accepted", "rejected"}
      /\ \A kind \in Kinds : kind = "rejected" \/ Call.kind = "accepted" =>
           \A d \in Others : ~(d.action = Call.action /\ d.pc = "unsubscribe" /\ d.kind = kind)
      /\ \A d \in Calls : ~(d.action = Call.action /\ Starts(d))
      /\ \A d \in Others : ~(d.action = Call.action /\ Half(d))
  BY ReleaseFacts DEF Kinds
<1>2. a = Call.action /\ k = Call.kind BY DEF GoesOn
<1>3. /\ i \in SubSlots /\ SubSlots' = SubSlots
      /\ LiveFor(i, a, k)' <=> ~subList'[i].free
      /\ \A j \in SubSlots : LiveFor(j, a, k)' => j = i
      /\ \A j \in SubSlots : \A kind : kind # k =>
           /\ LiveFor(j, a, kind)' <=> LiveFor(j, a, kind)
           /\ LiveFor(j, a, kind) => j # i /\ subList'[j] = subList[j]
  BY ReleasePlaces
<1>4. /\ \A kind : Users(a, kind)' \subseteq Users(a, kind)
      /\ Call.ack \notin Users(a, k)' /\ Call.ack \in Users(a, k)
  BY ReleaseUsers
<1>5. \A d \in Calls' : \/ d \in Others
                        \/ d.pc = "release" /\ d.kind = "rejected" /\ k = "accepted"
  BY DEF GoesOn
<1>6. ASSUME NEW d \in Calls', d.action = a
      PROVE  /\ ~Starts(d) /\ (Half(d) => d.pc = "release" /\ k = "accepted")
             /\ d.pc = "unsubscribe" => d \in Others /\ d \in Calls /\ d.kind # k
  <2>1. CASE d \in Others BY <1>1, <1>2, <1>6, <2>1
  <2>2. CASE d.pc = "release" /\ d.kind = "rejected" /\ k = "accepted"
    BY <2>2 DEF Starts
  <2> QED BY <1>5, <2>1, <2>2
<1>7. Tended(a) BY <1>1, <1>2 DEF Base, ListInv
<1>8. Served(a)'
  <2> SUFFICES ASSUME NEW kind \in Kinds, Users(a, kind)' # {}
               PROVE  \E j \in SubSlots : /\ LiveFor(j, a, kind)'
                                          /\ subList'[j].count >= Cardinality(Users(a, kind)')
    BY <1>3 DEF Served, Kinds
  <2>1. Users(a, kind)' \subseteq Users(a, kind) /\ Users(a, kind) \subseteq AckSlots
    BY <1>4 DEF Users
  <2>2. PICK j \in SubSlots : LiveFor(j, a, kind) /\ subList[j].count >= Cardinality(Users(a, kind))
    BY <1>7, <2>1 DEF Tended, Served
  <2>3. /\ Cardinality(Users(a, kind)') \in Nat /\ Cardinality(Users(a, kind)) \in Nat
        /\ Cardinality(Users(a, kind)') <= Cardinality(Users(a, kind))
    BY <2>1, SlotSets
  <2>4. subList[j].count \in Nat BY PlaceTyped DEF Base
  <2>5. CASE kind # k
    <3>1. LiveFor(j, a, kind)' /\ subList'[j].count = subList[j].count BY <1>3, <2>2, <2>5
    <3> QED BY <2>2, <2>3, <2>4, <3>1
  <2>6. CASE kind = k
    <3>1. j = i BY <2>2, <2>6, OneLive DEF Base, ListInv, LetsGo
    <3>2. Cardinality(Users(a, kind)') <= Cardinality(Users(a, kind)) - 1
      BY <1>4, <2>1, <2>6, SlotSets
    <3>3. CASE subList'[i].free /\ subList[i].count = 1
      <4>1. \E x : x \in Users(a, kind)' OBVIOUS
      <4>2. Cardinality(Users(a, kind)') >= 1 BY <2>1, <4>1, SlotCount
      <4> QED BY <2>2, <2>3, <3>1, <3>2, <3>3, <4>2
    <3>4. CASE /\ subList'[i].free = subList[i].free
               /\ subList'[i].count = subList[i].count \/ subList'[i].count = subList[i].count - 1
      <4>1. ~subList'[i].free BY <2>2, <3>1, <3>4 DEF LiveFor, Live
      <4>2. LiveFor(i, a, kind)' BY <1>3, <2>6, <4>1
      <4>3. subList'[i].count >= Cardinality(Users(a, kind)')
        BY <2>2, <2>3, <2>4, <3>1, <3>2, <3>4
      <4> QED BY <1>3, <4>2, <4>3
    <3> QED BY <3>3, <3>4 DEF LetsGo
  <2> QED BY <2>5, <2>6
<1>9. Subscribed(a)'
  <2> SUFFICES ASSUME NEW j \in SubSlots, NEW kind \in Kinds, LiveFor(j, a, kind)'
               PROVE  Topic(a, kind) \in mqtt'
    BY <1>3 DEF Subscribed, Kinds, Topic
  <2>1. ASSUME LiveFor(j, a, kind) PROVE Topic(a, kind) \in mqtt
    BY <1>1, <1>2, <1>7, <2>1 DEF Tended, Subscribed
  <2>2. CASE kind # k
    <3>1. Topic(a, kind) \in mqtt BY <1>3, <2>1, <2>2
    <3>2. Topic(a, kind) # Topic(a, k) BY <2>2, TopicsDiffer
    <3> QED BY <3>1, <3>2 DEF LetsGo
  <2>3. CASE kind = k
    <3>1. j = i /\ ~subList'[i].free BY <1>3, <2>3
    <3>2. Topic(a, kind) \in mqtt BY <2>1, <2>3, <3>1 DEF LetsGo
    <3> QED BY <3>1, <3>2 DEF LetsGo
  <2> QED BY <2>2, <2>3
<1>10. Requested(a)' BY <1>6 DEF Requested, Starts
<1>11. Removing(a)'
  <2> SUFFICES ASSUME NEW d \in Calls', d.action = a, d.pc = "unsubscribe" PROVE Removable(d)'
    BY DEF Removing
  <2>1. d \in Calls /\ d.kind # k BY <1>6
  <2>2. Removable(d) BY <1>7, <2>1 DEF Tended, Removing
  <2>3. LiveFor(d.acc, a, d.kind) /\ d.acc \in SubSlots BY <2>2 DEF Removable, LiveFor, Live
  <2>4. LiveFor(d.acc, a, d.kind)' /\ subList'[d.acc] = subList[d.acc] BY <1>3, <2>1, <2>3
  <2> QED BY <2>2, <2>4 DEF Removable
<1>12. Halved(a)' BY <1>6 DEF Halved, Half, NotifyPcs
<1>13. PairKept(a)'
  <2>1. CASE k = "rejected" BY <2>1 DEF PairKept
  <2>2. CASE k = "accepted"
    <3>1. \E d \in Calls' : d.action = a /\ Half(d)
      BY <1>2, <2>2 DEF GoesOn, Alike, Half, NotifyPcs
    <3> QED BY <3>1 DEF PairKept, Half, NotifyPcs
  <2> QED BY <1>1, <1>2, <2>1, <2>2
<1> QED BY <1>8, <1>9, <1>10, <1>11, <1>12, <1>13 DEF Tended

LEMMA ReleaseDone ==
  ASSUME Base, UNCHANGED env, NEW pc \in {"release", "unsubscribe"}, At(pc),
         NEW a, NEW k, GoesOn(a, k), NEW i, LetsGo(a, k, i), subList'[i].count \in Nat,
         k = "accepted" => Halfway(a)', k = "rejected" => Paired(a)'
  PROVE  ListInv'
<1>1. NoUndo' /\ Ranked' /\ LiveKnown' BY ReleasePlaces
<1>2. Tended(a)' BY ReleaseTended
<1>3. ASSUME NEW b \in env.actions, b # a PROVE Tended(b)' BY <1>3, OthersTended
<1>4. ASSUME NEW b \in env.actions PROVE Tended(b)' BY <1>2, <1>3
<1> QED BY <1>1, <1>4 DEF ListInv

\* The place of the other topic of the action, while the call releases one.
LEMMA OtherPlace ==
  ASSUME Base, UNCHANGED env, NEW pc \in {"release", "unsubscribe"}, At(pc),
         NEW a, NEW k, GoesOn(a, k), NEW i, LetsGo(a, k, i)
  PROVE  /\ k = "accepted" => \E j \in SubSlots :
              /\ LiveFor(j, a, "rejected") /\ LiveFor(j, a, "rejected")' /\ j # i
              /\ subList'[j] = subList[j]
              /\ subList[i].count = subList[j].count /\ subList[i].sticky = subList[j].sticky
         /\ k = "rejected" =>
              \/ /\ ~HasPlace(a, "accepted") /\ ~HasPlace(a, "accepted")'
                 /\ pc = "release" => subList[i].count = 1 /\ ~subList[i].sticky
              \/ /\ pc = "release"
                 /\ \E j \in SubSlots :
                      /\ LiveFor(j, a, "accepted")' /\ j # i
                      /\ subList'[j] = subList[j] /\ Behind(j, i)
                      /\ \A x \in SubSlots : LiveFor(x, a, "accepted")' => x = j
<1>1. /\ Call.pc = pc /\ Calls = Others \cup {Call} /\ Call.action \in env.actions
      /\ Call.kind \in Kinds /\ (Call.kind = "accepted" => Paired(Call.action))
  BY ReleaseFacts
<1>2. a = Call.action /\ k = Call.kind BY DEF GoesOn
<1>3. /\ i \in SubSlots /\ SubSlots' = SubSlots
      /\ \A j \in SubSlots : \A kind : kind # k =>
           /\ LiveFor(j, a, kind)' <=> LiveFor(j, a, kind)
           /\ LiveFor(j, a, kind) => j # i /\ subList'[j] = subList[j]
  BY ReleasePlaces
<1>4. LiveFor(i, a, k) BY DEF LetsGo
<1>5. CASE k = "accepted"
  <2>1. Paired(a) BY <1>1, <1>2, <1>5
  <2>2. HasPlace(a, "accepted") BY <1>3, <1>4, <1>5 DEF HasPlace
  <2>3. PICK j \in SubSlots : LiveFor(j, a, "rejected") BY <2>1, <2>2 DEF Paired, HasPlace
  <2>4. subList[i].count = subList[j].count /\ subList[i].sticky = subList[j].sticky
    BY <1>3, <1>4, <1>5, <2>1, <2>3 DEF Paired
  <2>5. LiveFor(j, a, "rejected")' /\ j # i /\ subList'[j] = subList[j] BY <1>3, <1>5, <2>3
  <2> QED BY <1>5, <2>3, <2>4, <2>5
<1>6. CASE k = "rejected"
  <2>1. \A j \in SubSlots : /\ LiveFor(j, a, "accepted")' <=> LiveFor(j, a, "accepted")
                            /\ LiveFor(j, a, "accepted") => j # i /\ subList'[j] = subList[j]
    BY <1>3, <1>6
  <2>2. ASSUME ~HasPlace(a, "accepted") PROVE ~HasPlace(a, "accepted")'
    BY <1>3, <2>1, <2>2 DEF HasPlace
  <2>3. Half(Call) BY <1>1, <1>2, <1>6 DEF Half, NotifyPcs
  <2>4. /\ pc = "unsubscribe" => ~HasPlace(a, "accepted")
        /\ pc = "release" => Halfway(a)
    BY <1>1, <1>2, <2>3 DEF Base, ListInv, Tended, Halved
  <2>5. ASSUME Halfway(a), HasPlace(a, "accepted")
        PROVE  \E j \in SubSlots : LiveFor(j, a, "accepted") /\ Behind(j, i)
    <3>1. PICK x \in SubSlots, j \in SubSlots :
            LiveFor(x, a, "rejected") /\ LiveFor(j, a, "accepted") /\ Behind(j, x)
      BY <2>5 DEF Halfway
    <3>2. x = i BY <1>4, <1>6, <3>1, OneLive DEF Base, ListInv
    <3> QED BY <3>1, <3>2
  <2>6. ASSUME NEW j \in SubSlots, LiveFor(j, a, "accepted"), NEW x \in SubSlots,
               LiveFor(x, a, "accepted")
        PROVE  x = j
    BY <2>6, OneLive DEF Base, ListInv
  <2>7. CASE ~HasPlace(a, "accepted")
    <3>1. ASSUME Halfway(a) PROVE subList[i].count = 1 /\ ~subList[i].sticky
      <4>1. PICK x \in SubSlots :
              LiveFor(x, a, "rejected") /\ subList[x].count = 1 /\ ~subList[x].sticky
        BY <2>7, <3>1 DEF Halfway, HasPlace
      <4>2. x = i BY <1>4, <1>6, <4>1, OneLive DEF Base, ListInv
      <4> QED BY <4>1, <4>2
    <3> QED BY <1>6, <2>2, <2>4, <2>7, <3>1
  <2>8. CASE HasPlace(a, "accepted")
    <3>1. pc = "release" /\ Halfway(a) BY <2>4, <2>8
    <3>2. PICK j \in SubSlots : LiveFor(j, a, "accepted") /\ Behind(j, i) BY <2>5, <2>8, <3>1
    <3>3. \A x \in SubSlots : LiveFor(x, a, "accepted")' => x = j BY <2>1, <2>6, <3>2
    <3> QED BY <1>6, <2>1, <3>1, <3>2, <3>3
  <2> QED BY <2>7, <2>8
<1> QED BY <1>1, <1>2, <1>5, <1>6 DEF Kinds

\* Another user remains: the topic counts one less.
LEMMA CountedList ==
  ASSUME Base, UNCHANGED <<env, mqtt>>, At("release"), NEW a, NEW k, GoesOn(a, k),
         NEW i, LiveFor(i, a, k), subList[i].count > 1,
         subList' = [subList EXCEPT ![i].count = @ - 1]
  PROVE  ListInv'
<1>1. i \in SubSlots /\ Live(i) /\ ~subList[i].free BY DEF LiveFor, Live
<1>2. subList \in [SubSlots -> Places] /\ subList[i] \in Places /\ subList[i].count \in Nat
  BY <1>1, PlaceTyped DEF Base, TypeInv, PlacesTyped
<1>3. /\ subList'[i].count = subList[i].count - 1 /\ subList'[i].topic = subList[i].topic
      /\ subList'[i].free = subList[i].free /\ subList'[i].sticky = subList[i].sticky
      /\ \A j \in SubSlots : j # i => subList'[j] = subList[j]
  BY <1>1, <1>2 DEF Places
<1>4. LetsGo(a, k, i) BY <1>3 DEF LetsGo
<1>5. subList'[i].count \in Nat /\ subList'[i].count >= 1 BY <1>2, <1>3
<1>6. /\ SubSlots' = SubSlots /\ LiveFor(i, a, k)'
      /\ \A j \in SubSlots : LiveFor(j, a, k)' => j = i
  BY <1>1, <1>3, <1>4, ReleasePlaces
<1>7. ASSUME k = "accepted" PROVE Halfway(a)'
  <2>1. PICK j \in SubSlots :
          /\ LiveFor(j, a, "rejected")' /\ j # i /\ subList'[j] = subList[j]
          /\ subList[i].count = subList[j].count /\ subList[i].sticky = subList[j].sticky
    BY <1>4, <1>7, OtherPlace
  <2>2. subList'[j].count = subList'[i].count + 1 BY <1>2, <1>3, <2>1
  <2>3. Behind(i, j)' BY <1>3, <1>5, <2>1, <2>2 DEF Behind
  <2> QED BY <1>1, <1>6, <1>7, <2>1, <2>3 DEF Halfway
<1>8. ASSUME k = "rejected" PROVE Paired(a)'
  <2>1. CASE \E j \in SubSlots :
               /\ LiveFor(j, a, "accepted")' /\ j # i
               /\ subList'[j] = subList[j] /\ Behind(j, i)
               /\ \A x \in SubSlots : LiveFor(x, a, "accepted")' => x = j
    <3>1. PICK j \in SubSlots :
               /\ LiveFor(j, a, "accepted")' /\ j # i
               /\ subList'[j] = subList[j] /\ Behind(j, i)
               /\ \A x \in SubSlots : LiveFor(x, a, "accepted")' => x = j
      BY <2>1
    <3>2. subList[j].count \in Nat BY PlaceTyped DEF Base
    <3>3. subList[i].count = subList[j].count + 1 /\ subList[i].sticky = subList[j].sticky
      BY <1>2, <3>1 DEF Behind
    <3>4. subList'[j].count = subList'[i].count /\ subList'[j].sticky = subList'[i].sticky
      BY <1>2, <1>3, <3>1, <3>2, <3>3
    <3>5. HasPlace(a, "accepted")' /\ HasPlace(a, "rejected")'
      BY <1>1, <1>6, <1>8, <3>1 DEF HasPlace
    <3> QED BY <1>6, <1>8, <3>1, <3>4, <3>5 DEF Paired
  <2> QED BY <1>2, <1>4, <1>8, <2>1, OtherPlace
<1> QED BY <1>4, <1>5, <1>7, <1>8, ReleaseDone

\* A sticky topic keeps its place when its last user ends.
LEMMA StickyList ==
  ASSUME Base, UNCHANGED <<env, mqtt, subList>>, At("release"), NEW a, NEW k, GoesOn(a, k),
         NEW i, LiveFor(i, a, k), ~(subList[i].count > 1),
         ~(~subList[i].sticky /\ subList[i].count = 1)
  PROVE  ListInv'
<1>1. i \in SubSlots /\ Live(i) /\ ~subList[i].free BY DEF LiveFor, Live
<1>2. Call.action \in env.actions /\ Call.kind \in Kinds /\ a = Call.action /\ k = Call.kind
  BY ReleaseFacts DEF GoesOn
<1>3. /\ subList[i].count \in Nat /\ Users(a, k) \subseteq AckSlots
      /\ Cardinality(Users(a, k)) \in Nat /\ subList[i].count >= Cardinality(Users(a, k))
  BY <1>2, CountServes
<1>4. Call.ack \in Users(a, k) BY ReleaseUsers
<1>5. Cardinality(Users(a, k)) >= 1 BY <1>3, <1>4, SlotCount
<1>6. subList[i].count = 1 BY <1>3, <1>5
<1>7. subList[i].sticky BY <1>6
<1>8. LetsGo(a, k, i) BY DEF LetsGo
<1>9. /\ SubSlots' = SubSlots /\ LiveFor(i, a, k)'
      /\ \A j \in SubSlots : LiveFor(j, a, k)' => j = i
  BY <1>1, <1>8, ReleasePlaces
<1>10. ASSUME k = "accepted" PROVE Halfway(a)'
  <2>1. PICK j \in SubSlots :
          /\ LiveFor(j, a, "rejected")' /\ subList[i].count = subList[j].count
          /\ subList[i].sticky = subList[j].sticky
    BY <1>8, <1>10, OtherPlace
  <2>2. Behind(i, j)'
    <3>1. subList[i].count >= 1 BY <1>6
    <3>2. subList[j].sticky BY <1>1, <1>7, <2>1, PlaceTyped, Zenon DEF Base
    <3> QED BY <1>6, <2>1, <3>1, <3>2, Zenon DEF Behind
  <2> QED BY <1>1, <1>9, <1>10, <2>1, <2>2 DEF Halfway
<1>11. ASSUME k = "rejected" PROVE Paired(a)'
  <2>1. PICK j \in SubSlots :
          /\ LiveFor(j, a, "accepted")' /\ Behind(j, i)
          /\ \A x \in SubSlots : LiveFor(x, a, "accepted")' => x = j
    BY <1>7, <1>8, <1>11, OtherPlace
  <2>2. subList[j].count \in Nat BY PlaceTyped DEF Base
  <2>3. subList[j].count = 1 /\ subList[i].sticky = subList[j].sticky
    BY <1>6, <2>1, <2>2 DEF Behind
  <2>4. HasPlace(a, "accepted")' /\ HasPlace(a, "rejected")'
    BY <1>1, <1>9, <1>11, <2>1 DEF HasPlace
  <2> QED BY <1>6, <1>9, <1>11, <2>1, <2>3, <2>4 DEF Paired
<1> QED BY <1>3, <1>8, <1>10, <1>11, ReleaseDone

\* The last user has unsubscribed: the place is free.
LEMMA UnsubscribedList ==
  ASSUME Base, Orderly, UNCHANGED env, ReleaseUnsubscribed
  PROVE  ListInv'
<1>1. PICK a, k, i : a = Call.action /\ k = Call.kind /\ i = Call.acc OBVIOUS
<1>2. At("unsubscribe") /\ ReleaseNext /\ UNCHANGED <<env, notified>>
  BY DEF ReleaseUnsubscribed, history
<1>3. /\ Call \in Calls /\ Call.pc = "unsubscribe" /\ Call.action \in env.actions
      /\ Call.kind \in Kinds /\ \A d \in Calls : ~(d.action = Call.action /\ Starts(d))
  BY <1>2, ReleaseFacts
<1>4. GoesOn(a, k) BY <1>1, <1>2, NextGoesOn
<1>5. LiveFor(i, a, k) /\ subList[i].count = 1 /\ ~subList[i].sticky
  BY <1>1, <1>3 DEF Base, ListInv, Tended, Removing, Removable
<1>6. i \in SubSlots BY <1>5 DEF LiveFor, Live
<1>7. Topic(a, k) \in mqtt BY <1>1, <1>3, <1>5, <1>6 DEF Base, ListInv, Tended, Subscribed
<1>8. ~Fails("unsubscribe") BY DEF Orderly, Fails
<1>9. mqtt' = mqtt \ {Topic(a, k)} /\ subList' = [subList EXCEPT ![i].free = TRUE]
  BY <1>1, <1>7, <1>8 DEF ReleaseUnsubscribed
<1>10. subList \in [SubSlots -> Places] /\ subList[i] \in Places
  BY <1>6 DEF Base, TypeInv, PlacesTyped
<1>11. /\ subList'[i].free /\ subList'[i].topic = subList[i].topic /\ subList'[i].count = 1
       /\ \A j \in SubSlots : j # i => subList'[j] = subList[j]
  BY <1>5, <1>6, <1>9, <1>10 DEF Places
<1>12. LetsGo(a, k, i) BY <1>5, <1>9, <1>11 DEF LetsGo
<1>13. SubSlots' = SubSlots /\ ~HasPlace(a, k)'
  <2>1. /\ SubSlots' = SubSlots /\ ~LiveFor(i, a, k)'
        /\ \A j \in SubSlots : LiveFor(j, a, k)' => j = i
    BY <1>2, <1>4, <1>11, <1>12, ReleasePlaces
  <2> QED BY <2>1 DEF HasPlace
<1>14. ASSUME k = "accepted" PROVE Halfway(a)'
  <2>1. PICK j \in SubSlots :
          /\ LiveFor(j, a, "rejected")' /\ subList'[j] = subList[j]
          /\ subList[i].count = subList[j].count /\ subList[i].sticky = subList[j].sticky
    BY <1>2, <1>4, <1>12, <1>14, OtherPlace
  <2>2. subList'[j].count = 1 /\ ~subList'[j].sticky BY <1>5, <2>1
  <2> QED BY <1>13, <1>14, <2>1, <2>2 DEF Halfway
<1>15. ASSUME k = "rejected" PROVE Paired(a)'
  <2>1. ~HasPlace(a, "accepted")' BY <1>2, <1>4, <1>12, <1>15, OtherPlace
  <2>2. ~HasPlace(a, "rejected")' BY <1>13, <1>15
  <2> QED BY <1>13, <2>1, <2>2 DEF Paired, HasPlace
<1> QED BY <1>2, <1>4, <1>11, <1>12, <1>14, <1>15, ReleaseDone

LEMMA ReleaseList ==
  ASSUME Base, UNCHANGED env, Release
  PROVE  ListInv'
<1>1. PICK a, k, l : /\ a = Call.action /\ k = Call.kind
                     /\ l = Listed(Topic(Call.action, Call.kind))
  OBVIOUS
<1>2. /\ At("release")
      /\ \/ /\ l < env.topics /\ ~subList[l].sticky /\ subList[l].count = 1
            /\ UNCHANGED <<subList, ackWait>>
            /\ \E c \in CallSet : /\ Replaced(c) /\ Alike(c, Call) /\ c.pc = "unsubscribe"
                                  /\ c.kind = Call.kind /\ c.acc = l
         \/ /\ l < env.topics /\ subList[l].count > 1
            /\ subList' = [subList EXCEPT ![l].count = @ - 1] /\ ReleaseNext
         \/ /\ ~(l < env.topics /\ ~subList[l].sticky /\ subList[l].count = 1)
            /\ ~(l < env.topics /\ subList[l].count > 1)
            /\ ReleaseNext /\ UNCHANGED subList
  BY <1>1, ReleaseMoves DEF Base
<1>3. UNCHANGED <<mqtt, notified>> BY DEF Release, history, external
<1>4. Call.action \in env.actions /\ Call.kind \in Kinds /\ Call.ack \in Users(a, k)
  BY <1>1, <1>2, ReleaseFacts DEF Kinds
<1>5. PICK i \in SubSlots : LiveFor(i, a, k)
  BY <1>1, <1>4 DEF Base, ListInv, Tended, Served
<1>6. l = i /\ l < env.topics BY <1>1, <1>5, ListedLive DEF Base, ListInv
<1>7. ASSUME ReleaseNext PROVE GoesOn(a, k) BY <1>1, <1>2, <1>3, <1>7, NextGoesOn
<1>8. CASE /\ ~subList[l].sticky /\ subList[l].count = 1 /\ UNCHANGED <<subList, ackWait>>
           /\ \E c \in CallSet : /\ Replaced(c) /\ Alike(c, Call) /\ c.pc = "unsubscribe"
                                 /\ c.kind = Call.kind /\ c.acc = l
  BY <1>1, <1>2, <1>3, <1>5, <1>6, <1>8, LastList
<1>9. CASE /\ subList[l].count > 1 /\ ReleaseNext
           /\ subList' = [subList EXCEPT ![l].count = @ - 1]
  <2>1. subList' = [subList EXCEPT ![i].count = @ - 1] /\ subList[i].count > 1 BY <1>6, <1>9
  <2> QED BY <1>2, <1>3, <1>5, <1>7, <1>9, <2>1, CountedList
<1>10. CASE /\ ~(~subList[l].sticky /\ subList[l].count = 1) /\ ~(subList[l].count > 1)
            /\ ReleaseNext /\ UNCHANGED subList
  BY <1>2, <1>3, <1>5, <1>6, <1>7, <1>10, StickyList
<1> QED BY <1>2, <1>6, <1>8, <1>9, <1>10

-----------------------------------------------------------------------------
(* The invariant.                                                          *)

LEMMA ListInit == Init => ListInv
<1> SUFFICES ASSUME Init PROVE ListInv OBVIOUS
<1>1. calls = <<>> /\ \A i \in SubSlots : subList[i].free BY DEF Init
<1>2. \A i \in AckSlots : ackWait[i].free BY DEF Init
<1>3. Calls = {} BY <1>1, CallsEmpty
<1>4. \A i : ~Live(i) BY <1>1 DEF Live
<1>5. \A i, a, kind : ~LiveFor(i, a, kind) BY <1>4 DEF LiveFor
<1>6. \A a, kind : ~HasPlace(a, kind) BY <1>5 DEF HasPlace
<1>7. \A i, a : ~Expects(i, a) BY <1>2 DEF Expects
<1>8. \A a, kind : Users(a, kind) = {} BY <1>3, <1>7 DEF Users
<1>9. ASSUME NEW a PROVE Tended(a)
  <2>1. Served(a) /\ Subscribed(a) BY <1>5, <1>8 DEF Served, Subscribed
  <2>2. Requested(a) /\ Removing(a) /\ Halved(a) BY <1>3 DEF Requested, Removing, Halved
  <2>3. PairKept(a) BY <1>5, <1>6 DEF PairKept, Paired
  <2> QED BY <2>1, <2>2, <2>3 DEF Tended
<1> QED BY <1>3, <1>4, <1>9 DEF ListInv, NoUndo, Ranked, LiveKnown

LEMMA ListStep ==
  ASSUME Base, Orderly, [Next]_vars
  PROVE  ListInv'
<1>1. CASE UNCHANGED vars
  BY <1>1, SameList DEF vars, settings, records, history, external
<1>2. CASE ResetVersion BY <1>2, SameList DEF ResetVersion, settings, external
<1>3. ASSUME NEW on \in BOOLEAN, SwitchDiscard(on) PROVE ListInv'
  BY <1>3, SameList DEF SwitchDiscard, records, external
<1>4. CASE RecordStep /\ UNCHANGED settings
  <2>1. UNCHANGED env BY <1>4 DEF settings
  <2>2. ASSUME NEW action \in env.actions, NEW sticky \in BOOLEAN, Request(action, sticky)
        PROVE  ListInv'
    BY <2>1, <2>2, RequestList
  <2>3. CASE SubscribeAccepted BY <2>1, <2>3, AcceptedList
  <2>4. CASE SubscribeRejected BY <2>1, <2>4, RejectedList
  <2>5. CASE ClearEntries
    <3>1. PICK pc \in {"cleanup", "undo"} : At(pc) BY <2>5 DEF ClearEntries
    <3>2. calls # <<>> /\ calls \in Seq(CallSet) /\ Call.pc = pc
      BY <3>1, AtCall DEF Base, RequestPcs
    <3>3. Call \in Calls BY <3>2, CallsSplit
    <3> QED BY <3>2, <3>3 DEF Base, ListInv, NoUndo
  <2>6. CASE Publish BY <2>1, <2>6, PublishList
  <2>7. CASE CallbackReturn BY <2>1, <2>7, CallbackList
  <2>8. CASE Release BY <2>1, <2>8, ReleaseList
  <2>9. CASE ReleaseUnsubscribed BY <2>1, <2>9, UnsubscribedList
  <2>10. CASE AckStatusCallback BY <2>1, <2>10, AckList
  <2>11. ASSUME NEW i \in AckSlots, HandleExpired(i) PROVE ListInv'
    BY <2>1, <2>11, ExpiredList
  <2>12. CASE RegisterDelta BY <2>1, <2>12, SameList DEF RegisterDelta, history
  <2>13. CASE DeltaCallback BY <2>1, <2>13, SameList DEF DeltaCallback
  <2>14. CASE ServiceAccepts
    BY <2>1, <2>14, SameList DEF ServiceAccepts, records, history
  <2>15. CASE ServiceRejects
    BY <2>1, <2>15, SameList DEF ServiceRejects, records, history
  <2>16. CASE OthersUpdate BY <2>1, <2>16, SameList DEF OthersUpdate, records, history
  <2> QED BY <1>4, <2>2, <2>3, <2>4, <2>5, <2>6, <2>7, <2>8, <2>9, <2>10, <2>11, <2>12,
             <2>13, <2>14, <2>15, <2>16 DEF RecordStep, CallStep
<1> QED BY <1>1, <1>2, <1>3, <1>4 DEF Next

WaitInv == Orderly => KnownInv /\ ListInv

LEMMA WaitInvariant == Spec => []WaitInv
<1>1. Init => WaitInv BY KnownInit, ListInit DEF WaitInv
<1>2. ASSUME TypeInv, OnceInv, WaitInv, [Next]_vars PROVE WaitInv'
  <2> SUFFICES ASSUME Orderly' PROVE KnownInv' /\ ListInv' BY DEF WaitInv
  <2>1. UNCHANGED env
    BY <1>2 DEF Next, ResetVersion, SwitchDiscard, settings, vars
  <2>2. Orderly /\ ~env.callbackActs BY <2>1 DEF Orderly
  <2>3. CallsInv /\ SlotsInv /\ KnownInv /\ ListInv BY <1>2, <2>2 DEF OnceInv, WaitInv
  <2>4. Base BY <1>2, <2>3 DEF Base
  <2>5. KnownInv' BY <1>2, <2>2, <2>3, KnownStep
  <2>6. ListInv' BY <1>2, <2>2, <2>4, ListStep
  <2> QED BY <2>5, <2>6
<1> QED BY <1>1, <1>2, TypeInvariant, OnceInvariant, PTL DEF Spec

\* Where callbacks make no request, subscriptions do not fail and the list has
\* places for all actions, no release and no expired request takes away the
\* topics of a request that still waits: both are subscribed until its
\* callback is called (unsubscribeFromAcceptedAndRejected counts its users).
THEOREM WaitingSound == Spec => []WaitingIsSubscribed
<1>1. ASSUME TypeInv, OnceInv, WaitInv PROVE WaitingIsSubscribed
  <2> SUFFICES ASSUME Orderly, NEW i \in AckSlots, ~ackWait[i].free,
                      notified[ackWait[i].token] = 0, NEW kind \in Kinds
               PROVE  Topic(ackWait[i].action, kind) \in mqtt
    BY DEF WaitingIsSubscribed, AckTopics
  <2>1. PICK a : a = ackWait[i].action OBVIOUS
  <2>2. KnownInv /\ ListInv /\ a \in env.actions
    BY <1>1, <2>1 DEF WaitInv, KnownInv, RecordsKnown
  <2>3. Tended(a) BY <2>2 DEF ListInv
  <2>4. Expects(i, a) BY <2>1 DEF Expects
  <2>5. i \in Users(a, kind) BY <2>4, UserOf
  <2>6. PICK j \in SubSlots : LiveFor(j, a, kind) BY <2>3, <2>5 DEF Tended, Served
  <2>7. \A c \in Calls : ~(c.action = a /\ Starts(c))
    <3> SUFFICES ASSUME NEW c \in Calls, c.action = a, Starts(c) PROVE FALSE OBVIOUS
    <3>1. Starting(c) BY <2>3 DEF Tended, Requested
    <3> QED BY <2>5, <3>1 DEF Starting
  <2> QED BY <2>1, <2>3, <2>6, <2>7 DEF Tended, Subscribed
<1> QED BY <1>1, TypeInvariant, OnceInvariant, WaitInvariant, PTL

=============================================================================
