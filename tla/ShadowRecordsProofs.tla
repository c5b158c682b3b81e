-------------------------- MODULE ShadowRecordsProofs --------------------------
(***************************************************************************)
(* Proofs about ShadowRecords for every set of environments, every size of *)
(* its lists, every number of requests and of document versions, and every *)
(* depth of nested calls.                                                  *)
(***************************************************************************)
EXTENDS ShadowRecords, SequenceTheorems, WellFoundedInduction, TLAPS

\* The versions in play are numbers.
VersionsTyped ==
  /\ version \in Nat /\ docVersion \in Nat /\ deltas \subseteq Nat
  /\ \A m \in acks : m.version \in Nat
  /\ deltaLog \in Seq(Nat)

\* The local version is an upper bound of the deltas given to the application,
\* so that one that counts as new is newer than all of them.
LogBelowVersion == \A k \in 1..Len(deltaLog) : deltaLog[k] <= version

DeltaInv == VersionsTyped /\ LogBelowVersion /\ DeltasIncrease

LEMMA DeltaInit == Init => DeltaInv
BY DEF Init, DeltaInv, VersionsTyped, LogBelowVersion, DeltasIncrease

\* The local version never goes back while the log is kept.
LEMMA VersionGrows ==
  ASSUME DeltaInv, version' \in Nat, version' >= version, UNCHANGED deltaLog,
         docVersion' \in Nat, deltas' \subseteq Nat, \A m \in acks' : m.version \in Nat
  PROVE  DeltaInv'
<1>1. VersionsTyped' BY DEF DeltaInv, VersionsTyped
<1>2. LogBelowVersion' BY DEF DeltaInv, VersionsTyped, LogBelowVersion
<1>3. DeltasIncrease' BY DEF DeltaInv, DeltasIncrease
<1> QED BY <1>1, <1>2, <1>3 DEF DeltaInv

\* The service numbers its messages with versions of the document.
LEMMA MessageTyped ==
  ASSUME NEW topic, NEW token, NEW v \in Nat
  PROVE  /\ \A m \in Message(topic, token, v) : m.version \in Nat
         /\ Delta(v) \subseteq Nat
BY DEF Message, Delta

LEMMA ServiceKeeps ==
  ASSUME DeltaInv, ServiceAccepts \/ ServiceRejects \/ OthersUpdate
  PROVE  DeltaInv'
<1>1. docVersion' \in Nat /\ UNCHANGED <<version, deltaLog>>
  BY DEF ServiceAccepts, ServiceRejects, OthersUpdate, records, history, DeltaInv, VersionsTyped
<1>2. deltas' \subseteq Nat
  BY <1>1, MessageTyped DEF ServiceAccepts, ServiceRejects, OthersUpdate, DeltaInv, VersionsTyped
<1>3. \A m \in acks : m.version \in Nat BY DEF DeltaInv, VersionsTyped
<1>4. \A m \in acks' : m.version \in Nat
  <2>1. CASE ServiceAccepts BY <1>1, <1>3, <2>1, MessageTyped DEF ServiceAccepts
  <2>2. CASE ServiceRejects
    BY <1>3, <2>2, MessageTyped DEF ServiceRejects, DeltaInv, VersionsTyped
  <2>3. CASE OthersUpdate BY <1>1, <1>3, <2>3, MessageTyped DEF OthersUpdate
  <2> QED BY <2>1, <2>2, <2>3
<1> QED BY <1>1, <1>2, <1>4, VersionGrows DEF DeltaInv, VersionsTyped

LEMMA DeltaKeeps ==
  ASSUME DeltaInv, DeltaCallback
  PROVE  DeltaInv'
<1>1. PICK v \in deltas :
        /\ deltas' \subseteq deltas /\ UNCHANGED <<acks, docVersion>>
        /\ \/ version' = v /\ deltaLog' = Append(deltaLog, v) /\ IsNew(v)
           \/ UNCHANGED <<version, deltaLog>>
  BY DEF DeltaCallback
<1>2. v \in Nat /\ version \in Nat /\ deltaLog \in Seq(Nat) BY DEF DeltaInv, VersionsTyped
<1>3. CASE version' = v /\ deltaLog' = Append(deltaLog, v) /\ IsNew(v)
  <2>1. v > version BY <1>3 DEF IsNew
  <2>2. /\ Len(deltaLog') = Len(deltaLog) + 1 /\ Len(deltaLog) \in Nat
        /\ deltaLog'[Len(deltaLog) + 1] = v
        /\ \A k \in 1..Len(deltaLog) : deltaLog'[k] = deltaLog[k] /\ deltaLog[k] \in Nat
        /\ deltaLog' \in Seq(Nat)
    BY <1>2, <1>3
  <2>3. \A k \in 1..Len(deltaLog) : deltaLog'[k] < v
    BY <1>2, <2>1, <2>2 DEF DeltaInv, LogBelowVersion
  <2>4. VersionsTyped' BY <1>1, <1>2, <1>3, <2>2 DEF DeltaInv, VersionsTyped
  <2>5. \A k \in 1..Len(deltaLog') : k = Len(deltaLog) + 1 \/ k \in 1..Len(deltaLog)
    BY <2>2
  <2>6. LogBelowVersion'
    <3>1. \A k \in 1..Len(deltaLog') : deltaLog'[k] <= v BY <1>2, <2>2, <2>3, <2>5
    <3> QED BY <1>3, <3>1 DEF LogBelowVersion
  <2>7. DeltasIncrease'
    <3>1. ASSUME NEW j \in 1..Len(deltaLog'), NEW k \in 1..Len(deltaLog'), j < k
          PROVE  deltaLog'[j] < deltaLog'[k]
      <4>1. j \in 1..Len(deltaLog) BY <2>2, <3>1
      <4>2. CASE k \in 1..Len(deltaLog)
        BY <2>2, <3>1, <4>1, <4>2 DEF DeltaInv, DeltasIncrease
      <4>3. CASE k = Len(deltaLog) + 1 BY <2>2, <2>3, <4>1, <4>3
      <4> QED BY <2>5, <4>2, <4>3
    <3> QED BY <3>1 DEF DeltasIncrease
  <2> QED BY <2>4, <2>6, <2>7 DEF DeltaInv
<1>4. CASE UNCHANGED <<version, deltaLog>>
  BY <1>1, <1>2, <1>4, VersionGrows DEF DeltaInv, VersionsTyped
<1> QED BY <1>1, <1>3, <1>4

LEMMA AckKeeps ==
  ASSUME DeltaInv, AckStatusCallback
  PROVE  DeltaInv'
<1>1. PICK m \in acks :
        /\ acks' \subseteq acks /\ UNCHANGED <<deltaLog, deltas, docVersion>>
        /\ version' = version \/ (m.version > version /\ version' = m.version)
  BY DEF AckStatusCallback
<1>2. version' \in Nat /\ version' >= version BY <1>1 DEF DeltaInv, VersionsTyped
<1> QED BY <1>1, <1>2, VersionGrows DEF DeltaInv, VersionsTyped

\* The other steps leave versions and their messages alone.
LEMMA OthersKeep ==
  ASSUME DeltaInv, UNCHANGED <<version, deltaLog, acks, deltas, docVersion>>
  PROVE  DeltaInv'
BY VersionGrows DEF DeltaInv, VersionsTyped

LEMMA LogCleared ==
  ASSUME DeltaInv, version' \in Nat, deltaLog' = <<>>, UNCHANGED external
  PROVE  DeltaInv'
BY DEF DeltaInv, VersionsTyped, LogBelowVersion, DeltasIncrease, external

LEMMA CallKeeps ==
  ASSUME DeltaInv, CallStep
  PROVE  DeltaInv'
<1>1. UNCHANGED <<version, deltaLog, acks, deltas, docVersion>>
  <2>1. CASE SubscribeAccepted BY <2>1 DEF SubscribeAccepted, history
  <2>2. CASE SubscribeRejected BY <2>2 DEF SubscribeRejected, history
  <2>3. CASE ClearEntries BY <2>3 DEF ClearEntries, records, history
  <2>4. CASE Publish BY <2>4 DEF Publish
  <2>5. CASE CallbackReturn BY <2>5 DEF CallbackReturn, history, external
  <2>6. CASE Release BY <2>6 DEF Release, history, external
  <2>7. CASE ReleaseUnsubscribed BY <2>7 DEF ReleaseUnsubscribed, history
  <2> QED BY <2>1, <2>2, <2>3, <2>4, <2>5, <2>6, <2>7 DEF CallStep
<1> QED BY <1>1, OthersKeep

LEMMA DeltaStep ==
  ASSUME DeltaInv, [Next]_vars
  PROVE  DeltaInv'
<1>1. ASSUME NEW action, NEW sticky, Request(action, sticky) PROVE DeltaInv'
  BY <1>1, OthersKeep DEF Request, external
<1>2. ASSUME NEW i, HandleExpired(i) PROVE DeltaInv'
  BY <1>2, OthersKeep DEF HandleExpired, records, external
<1>3. CASE RegisterDelta BY <1>3, OthersKeep DEF RegisterDelta, history
<1>4. CASE RecordStep
  BY <1>1, <1>2, <1>3, <1>4, CallKeeps, AckKeeps, DeltaKeeps, ServiceKeeps DEF RecordStep
<1>5. CASE ResetVersion BY <1>5, LogCleared DEF ResetVersion
<1>6. ASSUME NEW on, SwitchDiscard(on) PROVE DeltaInv'
  BY <1>6, LogCleared DEF SwitchDiscard, records, DeltaInv, VersionsTyped
<1>7. CASE UNCHANGED vars BY <1>7, OthersKeep DEF vars, records, history, external
<1> QED BY <1>4, <1>5, <1>6, <1>7 DEF Next

\* The application sees deltas in the order of their versions, each once,
\* however often a message is delivered again, whatever acknowledgements move
\* the local version (shadow_delta_callback, AckStatusCallback) and however
\* many calls nest.
THEOREM DeltasOrdered == Spec => []DeltasIncrease
<1>1. DeltaInv => DeltasIncrease BY DEF DeltaInv
<1> QED BY <1>1, DeltaInit, DeltaStep, PTL DEF Spec

-----------------------------------------------------------------------------
(* What the searches of the lists return, and what happens to the calls.   *)

LEMMA FirstExists ==
  ASSUME NEW n \in Nat, NEW S
  PROVE  \E i \in 0..n : (i < n => i \in S) /\ \A j \in 0..(i - 1) : j \notin S
<1> DEFINE T == {i \in 0..n : i = n \/ i \in S}
<1>1. n \in T /\ T \subseteq Nat OBVIOUS
<1>2. PICK i \in T : \A j \in T : <<j, i>> \notin OpToRel(<, Nat)
  <2> HIDE DEF T
  <2> QED BY <1>1, NatLessThanWellFounded, WFMin
<1>3. \A j \in T : ~(j < i) BY <1>1, <1>2 DEF OpToRel
<1>4. \A j \in 0..(i - 1) : j \notin S
  <2> SUFFICES ASSUME NEW j \in 0..(i - 1), j \in S PROVE FALSE OBVIOUS
  <2>1. j \in T /\ j < i BY <1>1
  <2> QED BY <1>3, <2>1
<1> QED BY <1>4

LEMMA FreeAckFound ==
  /\ FreeAck \in 0..NumAcks
  /\ FreeAck < NumAcks => FreeAck \in AckSlots /\ ackWait[FreeAck].free
<1>1. NumAcks \in Nat BY BoundsAssumption
<1>2. \E i \in 0..NumAcks : /\ i < NumAcks => ackWait[i].free
                            /\ \A j \in 0..(i - 1) : ~ackWait[j].free
  <2> DEFINE S == {i \in 0..NumAcks : ackWait[i].free}
  <2>1. PICK i \in 0..NumAcks : (i < NumAcks => i \in S) /\ \A j \in 0..(i - 1) : j \notin S
    <3> HIDE DEF S
    <3> QED BY <1>1, FirstExists
  <2>2. \A j \in 0..(i - 1) : j \in 0..NumAcks BY <1>1
  <2> QED BY <2>1, <2>2
<1>3. FreeAck \in 0..NumAcks /\ (FreeAck < NumAcks => ackWait[FreeAck].free)
  BY <1>2 DEF FreeAck, First
<1> QED BY <1>1, <1>3 DEF AckSlots

\* The record that belongs to a token.
LEMMA RecordFound ==
  ASSUME NEW token
  PROVE  LET i == First(NumAcks, LAMBDA j : ~ackWait[j].free /\ ackWait[j].token = token)
         IN  /\ i \in 0..NumAcks
             /\ i < NumAcks => i \in AckSlots /\ ~ackWait[i].free /\ ackWait[i].token = token
<1>1. NumAcks \in Nat BY BoundsAssumption
<1>2. \E i \in 0..NumAcks :
        /\ i < NumAcks => ~ackWait[i].free /\ ackWait[i].token = token
        /\ \A j \in 0..(i - 1) : ~(~ackWait[j].free /\ ackWait[j].token = token)
  <2> DEFINE S == {i \in 0..NumAcks : ~ackWait[i].free /\ ackWait[i].token = token}
  <2>1. PICK i \in 0..NumAcks : (i < NumAcks => i \in S) /\ \A j \in 0..(i - 1) : j \notin S
    <3> HIDE DEF S
    <3> QED BY <1>1, FirstExists
  <2>2. \A j \in 0..(i - 1) : j \in 0..NumAcks BY <1>1
  <2> QED BY <2>1, <2>2
<1> DEFINE i == First(NumAcks, LAMBDA j : ~ackWait[j].free /\ ackWait[j].token = token)
<1>3. i \in 0..NumAcks /\ (i < NumAcks => ~ackWait[i].free /\ ackWait[i].token = token)
  BY <1>2 DEF First
<1> HIDE DEF i
<1>4. i \in 0..NumAcks /\ (i < NumAcks => i \in AckSlots /\ ~ackWait[i].free /\ ackWait[i].token = token)
  BY <1>1, <1>3 DEF AckSlots
<1> QED BY <1>4 DEF i

Actions == {"get", "update", "delete"}

\* Where the call of a request is, and where one that notifies the application.
RequestPcs == {"accepted", "rejected", "cleanup", "undo", "publish"}
NotifyPcs  == {"callback", "release", "unsubscribe"}

CallSet ==
  [pc : RequestPcs \cup NotifyPcs, action : Actions \cup {None}, token : Nat,
   sticky : BOOLEAN, ack : AckSlots, acc : Nat, rej : Nat, kind : Kinds, acked : BOOLEAN]

Under == 1..Len(calls)

\* The innermost call is replaced by c, makes the call c, or returns.
Replaced(c) ==
  /\ c \in CallSet /\ calls' \in Seq(CallSet)
  /\ Len(calls') = Len(calls) /\ calls'[Len(calls)] = c
  /\ \A k \in 1..(Len(calls) - 1) : calls'[k] = calls[k]

Pushed(c) ==
  /\ c \in CallSet /\ calls' \in Seq(CallSet)
  /\ Len(calls') = Len(calls) + 1 /\ calls'[Len(calls) + 1] = c
  /\ \A k \in Under : calls'[k] = calls[k]

Popped ==
  /\ calls' \in Seq(CallSet)
  /\ Len(calls') = Len(calls) - 1
  /\ \A k \in 1..(Len(calls) - 1) : calls'[k] = calls[k]

LEMMA TopCall ==
  ASSUME calls \in Seq(CallSet), calls # <<>>
  PROVE  /\ Len(calls) \in Nat /\ Len(calls) > 0 /\ Len(calls) \in Under
         /\ Call = calls[Len(calls)] /\ Call \in CallSet
BY DEF Call, Last, Under

LEMMA AppendPushes ==
  ASSUME calls \in Seq(CallSet), NEW c \in CallSet, calls' = Append(calls, c)
  PROVE  Pushed(c)
BY DEF Pushed, Under

LEMMA FrontOfCalls ==
  ASSUME calls \in Seq(CallSet), calls # <<>>
  PROVE  /\ Front(calls) \in Seq(CallSet) /\ Len(Front(calls)) = Len(calls) - 1
         /\ \A k \in 1..(Len(calls) - 1) : Front(calls)[k] = calls[k]
         /\ Len(calls) \in Nat /\ Len(calls) > 0
<1> DEFINE n == Len(calls) - 1
<1>1. Len(calls) \in Nat /\ Len(calls) > 0 OBVIOUS
<1>2. n \in Int /\ \A k \in 1..n : calls[k] \in CallSet BY <1>1
<1>3. /\ SubSeq(calls, 1, n) \in Seq(CallSet)
      /\ Len(SubSeq(calls, 1, n)) = IF 1 <= n THEN n - 1 + 1 ELSE 0
      /\ \A k \in 1..(n - 1 + 1) : SubSeq(calls, 1, n)[k] = calls[1 + k - 1]
  <2> HIDE DEF n
  <2> QED BY <1>2, SubSeqProperties
<1>4. \A k \in 1..n : k \in 1..(n - 1 + 1) /\ 1 + k - 1 = k
  <2> HIDE DEF n
  <2> QED BY <1>2
<1>5. n = IF 1 <= n THEN n - 1 + 1 ELSE 0
  <2>1. n \in Nat BY <1>1
  <2> HIDE DEF n
  <2> QED BY <2>1
<1> QED BY <1>1, <1>3, <1>4, <1>5 DEF Front

LEMMA FrontPops ==
  ASSUME calls \in Seq(CallSet), calls # <<>>, calls' = Front(calls)
  PROVE  Popped
BY FrontOfCalls DEF Popped

LEMMA ReplaceReplaces ==
  ASSUME calls \in Seq(CallSet), calls # <<>>, NEW c \in CallSet,
         calls' = Append(Front(calls), c)
  PROVE  Replaced(c)
<1>1. /\ Front(calls) \in Seq(CallSet) /\ Len(Front(calls)) = Len(calls) - 1
      /\ \A k \in 1..(Len(calls) - 1) : Front(calls)[k] = calls[k]
      /\ Len(calls) \in Nat /\ Len(calls) > 0
  BY FrontOfCalls
<1> DEFINE s == Front(calls)
<1> HIDE DEF s
<1>2. /\ s \in Seq(CallSet) /\ Len(s) = Len(calls) - 1 /\ calls' = Append(s, c)
      /\ \A k \in 1..(Len(calls) - 1) : s[k] = calls[k]
  BY <1>1 DEF s
<1> QED BY <1>1, <1>2 DEF Replaced

LEMMA FreeAcceptedFound ==
  ASSUME env.topics \in Nat
  PROVE  /\ FreeAccepted \in 0..env.topics
         /\ FreeAccepted < env.topics => FreeAccepted \in SubSlots /\ subList[FreeAccepted].free
         /\ \A j \in 0..(FreeAccepted - 1) : ~subList[j].free
<1>1. \E i \in 0..env.topics : /\ i < env.topics => subList[i].free
                               /\ \A j \in 0..(i - 1) : ~subList[j].free
  <2> DEFINE S == {i \in 0..env.topics : subList[i].free}
  <2>1. PICK i \in 0..env.topics : (i < env.topics => i \in S) /\ \A j \in 0..(i - 1) : j \notin S
    <3> HIDE DEF S
    <3> QED BY FirstExists
  <2>2. \A j \in 0..(i - 1) : j \in 0..env.topics OBVIOUS
  <2> QED BY <2>1, <2>2
<1>2. /\ FreeAccepted \in 0..env.topics
      /\ FreeAccepted < env.topics => subList[FreeAccepted].free
      /\ \A j \in 0..(FreeAccepted - 1) : ~subList[j].free
  BY <1>1 DEF FreeAccepted, First
<1> QED BY <1>2 DEF SubSlots

LEMMA FreeRejectedFound ==
  ASSUME env.topics \in Nat
  PROVE  /\ FreeRejected \in 0..env.topics
         /\ FreeRejected < env.topics =>
              FreeRejected \in SubSlots /\ subList[FreeRejected].free /\ FreeRejected # FreeAccepted
         /\ \A j \in 0..(FreeRejected - 1) : ~(subList[j].free /\ j # FreeAccepted)
<1>1. \E i \in 0..env.topics : /\ i < env.topics => subList[i].free /\ i # FreeAccepted
                               /\ \A j \in 0..(i - 1) : ~(subList[j].free /\ j # FreeAccepted)
  <2> DEFINE S == {i \in 0..env.topics : subList[i].free /\ i # FreeAccepted}
  <2>1. PICK i \in 0..env.topics : (i < env.topics => i \in S) /\ \A j \in 0..(i - 1) : j \notin S
    <3> HIDE DEF S
    <3> QED BY FirstExists
  <2>2. \A j \in 0..(i - 1) : j \in 0..env.topics OBVIOUS
  <2> QED BY <2>1, <2>2
<1>2. /\ FreeRejected \in 0..env.topics
      /\ FreeRejected < env.topics => subList[FreeRejected].free /\ FreeRejected # FreeAccepted
      /\ \A j \in 0..(FreeRejected - 1) : ~(subList[j].free /\ j # FreeAccepted)
  BY <1>1 DEF FreeRejected, First
<1> QED BY <1>2 DEF SubSlots

LEMMA ListedFound ==
  ASSUME env.topics \in Nat, NEW topic
  PROVE  /\ Listed(topic) \in 0..env.topics
         /\ Listed(topic) < env.topics =>
              /\ Listed(topic) \in SubSlots
              /\ ~subList[Listed(topic)].free /\ subList[Listed(topic)].topic = topic
         /\ \A j \in 0..(Listed(topic) - 1) : ~(~subList[j].free /\ subList[j].topic = topic)
<1>1. \E i \in 0..env.topics :
        /\ i < env.topics => ~subList[i].free /\ subList[i].topic = topic
        /\ \A j \in 0..(i - 1) : ~(~subList[j].free /\ subList[j].topic = topic)
  <2> DEFINE S == {i \in 0..env.topics : ~subList[i].free /\ subList[i].topic = topic}
  <2>1. PICK i \in 0..env.topics : (i < env.topics => i \in S) /\ \A j \in 0..(i - 1) : j \notin S
    <3> HIDE DEF S
    <3> QED BY FirstExists
  <2>2. \A j \in 0..(i - 1) : j \in 0..env.topics OBVIOUS
  <2> QED BY <2>1, <2>2
<1>2. /\ Listed(topic) \in 0..env.topics
      /\ Listed(topic) < env.topics =>
           ~subList[Listed(topic)].free /\ subList[Listed(topic)].topic = topic
      /\ \A j \in 0..(Listed(topic) - 1) : ~(~subList[j].free /\ subList[j].topic = topic)
  BY <1>1 DEF Listed, First
<1> QED BY <1>2 DEF SubSlots

-----------------------------------------------------------------------------
(* Types.                                                                  *)

Slots  == [free : BOOLEAN, token : Nat, action : Actions \cup {None}]
Topics == {Topic(action, kind) : action \in Actions, kind \in Kinds} \cup {None}
Places == [free : BOOLEAN, topic : Topics, count : Nat, sticky : BOOLEAN]

\* The call of a request carries one of the tokens given out.
CallFits(c, n, actions) ==
  /\ c.action \in actions \cup {None}
  /\ c.pc \in RequestPcs => c.token \in 1..n /\ c.action \in actions

RequestsTyped ==
  /\ env \in Environments
  /\ requests \in 0..env.requests /\ tracked \subseteq 1..requests

AcksTyped ==
  /\ ackWait \in [AckSlots -> Slots]
  /\ \A i \in AckSlots : /\ ackWait[i].token \in 0..requests
                         /\ ackWait[i].action \in env.actions \cup {None}

\* A place of the subscription list counts no more users than there were
\* requests.
PlacesTyped ==
  /\ subList \in [SubSlots -> Places]
  /\ \A i \in SubSlots : subList[i].count <= requests

CallsTyped ==
  /\ calls \in Seq(CallSet)
  /\ \A k \in Under : CallFits(calls[k], requests, env.actions)

VersionsBounded ==
  /\ version \in 0..env.versions /\ docVersion \in 0..env.versions
  /\ deltas \subseteq 0..env.versions
  /\ \A m \in acks : m.version \in 0..env.versions

TypeInv == RequestsTyped /\ AcksTyped /\ PlacesTyped /\ CallsTyped /\ VersionsBounded

LEMMA EnvTyped ==
  ASSUME env \in Environments
  PROVE  /\ env.topics \in Nat /\ env.versions \in Nat /\ env.actions \subseteq Actions
         /\ env.requests \in 0..MaxRequests /\ env.callbackActs \in BOOLEAN
         /\ MaxRequests \in Nat /\ NumAcks \in Nat
BY EnvironmentsAssumption, BoundsAssumption DEF Actions

\* A step of the calls under way.
CallsMove ==
  \/ UNCHANGED calls
  \/ Popped
  \/ \E c \in CallSet : /\ Pushed(c) \/ (calls # <<>> /\ Replaced(c))
                        /\ CallFits(c, requests', env.actions)

LEMMA CallsTypedKept ==
  ASSUME RequestsTyped, CallsTyped, UNCHANGED env,
         requests' \in Nat, requests' >= requests, CallsMove
  PROVE  CallsTyped'
<1>1. requests \in Nat /\ 1..requests \subseteq 1..requests'
  BY EnvTyped DEF RequestsTyped
<1>2. Len(calls) \in Nat BY DEF CallsTyped
<1>3. ASSUME NEW c, CallFits(c, requests, env.actions) PROVE CallFits(c, requests', env.actions)
  BY <1>1, <1>3 DEF CallFits
<1>4. \A k \in Under : CallFits(calls[k], requests', env.actions) BY <1>3 DEF CallsTyped
<1>5. CASE UNCHANGED calls BY <1>4, <1>5 DEF CallsTyped, Under
<1>6. CASE Popped
  <2>1. \A k \in 1..(Len(calls) - 1) : k \in Under BY <1>2 DEF Under
  <2>2. \A k \in 1..Len(calls') : CallFits(calls'[k], requests', env.actions)
    BY <1>4, <1>6, <2>1 DEF Popped
  <2> QED BY <1>6, <2>2 DEF CallsTyped, Under, Popped
<1>7. ASSUME NEW c \in CallSet, CallFits(c, requests', env.actions), Pushed(c) PROVE CallsTyped'
  <2>1. \A k \in 1..(Len(calls) + 1) : k \in Under \/ k = Len(calls) + 1 BY <1>2 DEF Under
  <2>2. \A k \in 1..Len(calls') : CallFits(calls'[k], requests', env.actions)
    BY <1>4, <1>7, <2>1 DEF Pushed
  <2> QED BY <1>7, <2>2 DEF CallsTyped, Under, Pushed
<1>8. ASSUME NEW c \in CallSet, CallFits(c, requests', env.actions), Replaced(c) PROVE CallsTyped'
  <2>1. \A k \in 1..Len(calls) : (k \in Under /\ k \in 1..(Len(calls) - 1)) \/ k = Len(calls)
    BY <1>2 DEF Under
  <2>2. \A k \in 1..Len(calls') : CallFits(calls'[k], requests', env.actions)
    BY <1>4, <1>8, <2>1 DEF Replaced
  <2> QED BY <1>8, <2>2 DEF CallsTyped, Under, Replaced
<1> QED BY <1>5, <1>6, <1>7, <1>8 DEF CallsMove

\* What the steps of a call do to it, apart from its place in the program.
Alike(c, d) ==
  /\ c.action = d.action /\ c.token = d.token /\ c.sticky = d.sticky
  /\ c.ack = d.ack /\ c.rej = d.rej /\ c.acked = d.acked

LEMMA GotoReplaces ==
  ASSUME calls \in Seq(CallSet), calls # <<>>, NEW pc \in RequestPcs \cup NotifyPcs, Goto(pc)
  PROVE  \E c \in CallSet : /\ Replaced(c) /\ Alike(c, Call) /\ c.pc = pc
                            /\ c.kind = Call.kind /\ c.acc = Call.acc
<1> DEFINE c == [Call EXCEPT !.pc = pc]
<1>1. Call \in CallSet BY TopCall
<1>2. /\ c \in CallSet /\ c.pc = pc /\ c.action = Call.action /\ c.token = Call.token
      /\ c.sticky = Call.sticky /\ c.ack = Call.ack /\ c.rej = Call.rej /\ c.acked = Call.acked
      /\ c.kind = Call.kind /\ c.acc = Call.acc
  BY <1>1 DEF CallSet
<1>3. calls' = Append(Front(calls), c) BY DEF Goto
<1> HIDE DEF c
<1> QED BY <1>2, <1>3, ReplaceReplaces DEF Alike

LEMMA RequestPushes ==
  ASSUME RequestsTyped, CallsTyped, NEW action \in env.actions, NEW sticky \in BOOLEAN,
         NEW pc \in RequestPcs, calls' = Append(calls, RequestCall(action, sticky, pc)),
         FreeAck < NumAcks
  PROVE  \E c \in CallSet : /\ Pushed(c) /\ c.pc = pc /\ c.token = requests + 1
                            /\ c.action = action /\ c.sticky = sticky /\ c.ack = FreeAck
                            /\ c.acc = FreeAccepted /\ c.rej = FreeRejected
<1> DEFINE c == RequestCall(action, sticky, pc)
<1>1. FreeAck \in AckSlots BY FreeAckFound
<1>2. env.topics \in Nat /\ action \in Actions /\ requests + 1 \in Nat
  BY EnvTyped DEF RequestsTyped
<1>3. FreeAccepted \in Nat /\ FreeRejected \in Nat
  BY <1>2, FreeAcceptedFound, FreeRejectedFound
<1>4. /\ c.pc = pc /\ c.token = requests + 1 /\ c.action = action /\ c.sticky = sticky
      /\ c.ack = FreeAck /\ c.acc = FreeAccepted /\ c.rej = FreeRejected
  BY DEF RequestCall, NewCall
<1>5. c \in CallSet BY <1>1, <1>2, <1>3 DEF RequestCall, NewCall, CallSet, Kinds
<1>6. calls' = Append(calls, c) /\ calls \in Seq(CallSet) BY DEF CallsTyped
<1> HIDE DEF c
<1> QED BY <1>4, <1>5, <1>6, AppendPushes

LEMMA TypesSame ==
  ASSUME TypeInv, UNCHANGED <<env, requests, tracked>>, AcksTyped', PlacesTyped', CallsMove,
         UNCHANGED <<version, docVersion>>, acks' \subseteq acks, deltas' \subseteq deltas
  PROVE  TypeInv'
<1>1. requests' \in Nat /\ requests' >= requests BY EnvTyped DEF TypeInv, RequestsTyped
<1>2. CallsTyped' BY <1>1, CallsTypedKept DEF TypeInv
<1>3. RequestsTyped' BY DEF TypeInv, RequestsTyped
<1>4. VersionsBounded' BY DEF TypeInv, VersionsBounded
<1> QED BY <1>2, <1>3, <1>4 DEF TypeInv

LEMMA TopicTyped ==
  ASSUME NEW action \in Actions, NEW kind \in Kinds
  PROVE  Topic(action, kind) \in Topics
BY DEF Topics

LEMMA RequestTypes ==
  ASSUME TypeInv, UNCHANGED env, NEW action \in env.actions, NEW sticky \in BOOLEAN,
         Request(action, sticky)
  PROVE  TypeInv'
<1>1. /\ env.topics \in Nat /\ env.requests \in Nat /\ env.actions \subseteq Actions
      /\ requests \in Nat /\ requests' = requests + 1 /\ requests' <= env.requests
  BY EnvTyped DEF TypeInv, RequestsTyped, Request, MayCall
<1>2. UNCHANGED <<ackWait, tracked, version, docVersion, acks, deltas>>
  BY DEF Request, external
<1>3. RequestsTyped'
  <2>1. 1..requests \subseteq 1..requests' /\ requests' \in 0..env.requests BY <1>1
  <2> QED BY <1>2, <2>1 DEF TypeInv, RequestsTyped
<1>4. AcksTyped'
  <2>1. 0..requests \subseteq 0..requests' BY <1>1
  <2> QED BY <1>2, <2>1 DEF TypeInv, AcksTyped, AckSlots
<1>5. PlacesTyped'
  <2>1. /\ subList \in [SubSlots -> Places] /\ SubSlots' = SubSlots
        /\ \A i \in SubSlots : subList[i].count \in Nat /\ subList[i].count <= requests
    BY DEF TypeInv, PlacesTyped, SubSlots, Places
  <2>2. CASE UNCHANGED subList BY <1>1, <2>1, <2>2 DEF PlacesTyped, Places
  <2>3. CASE IncrementSubscriptionCnt(action, sticky)
    <3>1. ASSUME NEW i \in SubSlots PROVE subList'[i] \in Places /\ subList'[i].count <= requests'
      <4>1. subList[i] \in Places /\ subList[i].count <= requests BY <2>1
      <4>2. CASE subList'[i] = subList[i] BY <1>1, <2>1, <4>1, <4>2
      <4>3. CASE subList'[i] = [subList[i] EXCEPT !.count = @ + 1, !.sticky = sticky]
        <5>1. subList[i].count \in Nat /\ subList[i].count + 1 <= requests + 1
          BY <1>1, <4>1 DEF Places
        <5> DEFINE n == subList[i].count + 1
        <5>2. n \in Nat /\ n <= requests' BY <1>1, <5>1
        <5>3. subList'[i] = [subList[i] EXCEPT !.count = n, !.sticky = sticky] BY <4>3
        <5> HIDE DEF n
        <5>4. subList'[i] \in Places /\ subList'[i].count = n
          BY <4>1, <5>2, <5>3 DEF Places
        <5> QED BY <5>2, <5>4
      <4> QED BY <2>3, <4>2, <4>3 DEF IncrementSubscriptionCnt
    <3>2. subList' = [i \in SubSlots |-> subList'[i]] BY <2>3 DEF IncrementSubscriptionCnt
    <3> QED BY <2>1, <3>1, <3>2 DEF PlacesTyped
  <2>4. CASE subList' = [subList EXCEPT ![FreeAccepted].free = FALSE,
                                        ![FreeAccepted].topic = Topic(action, "accepted"),
                                        ![FreeRejected].free = FALSE]
    <3>1. Topic(action, "accepted") \in Topics BY <1>1, TopicTyped DEF Kinds
    <3>2. ASSUME NEW i \in SubSlots PROVE subList'[i] \in Places /\ subList'[i].count <= requests'
      <4>1. subList[i] \in Places /\ subList[i].count <= requests BY <2>1
      <4>2. subList'[i] \in Places /\ subList'[i].count = subList[i].count
        BY <2>1, <2>4, <3>1, <4>1 DEF Places
      <4> QED BY <1>1, <2>1, <4>1, <4>2
    <3>3. subList' = [i \in SubSlots |-> subList'[i]] BY <2>1, <2>4
    <3> QED BY <2>1, <3>2, <3>3 DEF PlacesTyped
  <2> QED BY <2>2, <2>3, <2>4 DEF Request
<1>6. CallsTyped'
  <2>1. CASE UNCHANGED calls BY <1>1, <2>1, CallsTypedKept DEF CallsMove, TypeInv
  <2>2. ASSUME NEW pc \in RequestPcs, FreeAck < NumAcks,
               calls' = Append(calls, RequestCall(action, sticky, pc))
        PROVE  CallsTyped'
    <3>1. PICK c \in CallSet : /\ Pushed(c) /\ c.pc = pc /\ c.token = requests + 1
                               /\ c.action = action /\ c.sticky = sticky /\ c.ack = FreeAck
                               /\ c.acc = FreeAccepted /\ c.rej = FreeRejected
      BY <2>2, RequestPushes DEF TypeInv
    <3>2. requests + 1 \in 1..requests' BY <1>1
    <3>3. CallFits(c, requests', env.actions) BY <3>1, <3>2 DEF CallFits
    <3> QED BY <1>1, <3>1, <3>3, CallsTypedKept DEF CallsMove, TypeInv
  <2>3. {"publish", "accepted", "undo"} \subseteq RequestPcs BY DEF RequestPcs
  <2> QED BY <2>1, <2>2, <2>3 DEF Request
<1>7. VersionsBounded' BY <1>2 DEF TypeInv, VersionsBounded
<1> QED BY <1>3, <1>4, <1>5, <1>6, <1>7 DEF TypeInv

\* The frames of the steps of a request.
LEMMA AtCall ==
  ASSUME TypeInv, NEW pc, At(pc)
  PROVE  /\ calls # <<>> /\ calls \in Seq(CallSet) /\ Call \in CallSet /\ Call.pc = pc
         /\ CallFits(Call, requests, env.actions)
BY TopCall DEF TypeInv, CallsTyped, At

LEMMA GotoMoves ==
  ASSUME TypeInv, UNCHANGED <<env, requests>>, NEW pc, At(pc),
         NEW next \in RequestPcs \cup NotifyPcs, Goto(next), next \in RequestPcs => pc \in RequestPcs
  PROVE  CallsMove
<1>1. PICK c \in CallSet : /\ Replaced(c) /\ Alike(c, Call) /\ c.pc = next
                           /\ c.kind = Call.kind /\ c.acc = Call.acc
  BY AtCall, GotoReplaces
<1>2. CallFits(c, requests', env.actions) BY <1>1, AtCall DEF CallFits, Alike
<1> QED BY <1>1, <1>2, AtCall DEF CallsMove

LEMMA SubscribeTypes ==
  ASSUME TypeInv, UNCHANGED env, SubscribeAccepted \/ SubscribeRejected
  PROVE  TypeInv'
<1>1. PICK pc \in {"accepted", "rejected"} : At(pc)
  BY DEF SubscribeAccepted, SubscribeRejected
<1>2. UNCHANGED <<ackWait, requests, tracked, version, docVersion, acks, deltas>>
  BY DEF SubscribeAccepted, SubscribeRejected, history
<1>3. pc \in RequestPcs /\ {"rejected", "cleanup", "publish"} \subseteq RequestPcs
  BY DEF RequestPcs
<1>4. CallsMove
  <2>1. CASE \E next \in {"rejected", "cleanup", "publish"} : Goto(next)
    BY <1>1, <1>2, <1>3, <2>1, GotoMoves
  <2>2. CASE Return BY <1>1, <2>2, AtCall, FrontPops DEF CallsMove, Return
  <2> QED BY <2>1, <2>2 DEF SubscribeAccepted, SubscribeRejected
<1>5. PlacesTyped'
  <2>1. /\ subList \in [SubSlots -> Places] /\ SubSlots' = SubSlots
        /\ \A i \in SubSlots : subList[i].count \in Nat /\ subList[i].count <= requests
    BY DEF TypeInv, PlacesTyped, SubSlots, Places
  <2>2. /\ Call.action \in Actions /\ Call.sticky \in BOOLEAN /\ requests >= 1
        /\ requests \in Nat
    <3>1. Call \in CallSet /\ Call.pc = pc /\ CallFits(Call, requests, env.actions)
      BY <1>1, AtCall
    <3>2. Call.sticky \in BOOLEAN BY <3>1 DEF CallSet
    <3>3. Call.token \in 1..requests /\ Call.action \in env.actions
      BY <1>3, <3>1 DEF CallFits
    <3>4. requests \in Nat /\ env.actions \subseteq Actions
      BY EnvTyped DEF TypeInv, RequestsTyped
    <3> QED BY <3>2, <3>3, <3>4
  <2>3. Topic(Call.action, "rejected") \in Topics BY <2>2, TopicTyped DEF Kinds
  <2>4. ASSUME NEW i \in SubSlots PROVE subList'[i] \in Places /\ subList'[i].count <= requests
    <3>1. subList[i] \in Places /\ subList[i].count <= requests BY <2>1
    <3>2. CASE SubscribeAccepted
      <4>1. CASE subList' = [subList EXCEPT ![Call.acc].count = 1,
                                      ![Call.acc].sticky = Call.sticky,
                                      ![Call.rej].topic = Topic(Call.action, "rejected")]
        BY <2>1, <2>2, <2>3, <3>1, <4>1 DEF Places
      <4>2. CASE subList' = [subList EXCEPT ![Call.acc].free = TRUE]
        BY <2>1, <3>1, <4>2 DEF Places
      <4> QED BY <3>2, <4>1, <4>2 DEF SubscribeAccepted
    <3>3. CASE SubscribeRejected
      <4>1. CASE subList' = [subList EXCEPT ![Call.rej].count = 1,
                                            ![Call.rej].sticky = Call.sticky]
        BY <2>1, <2>2, <3>1, <4>1 DEF Places
      <4>2. CASE subList' = [subList EXCEPT ![Call.acc].free = TRUE]
        BY <2>1, <3>1, <4>2 DEF Places
      <4> QED BY <3>3, <4>1, <4>2 DEF SubscribeRejected
    <3> QED BY <3>2, <3>3
  <2>5. subList' = [i \in SubSlots |-> subList'[i]]
    BY <2>1 DEF SubscribeAccepted, SubscribeRejected
  <2> QED BY <1>2, <2>1, <2>4, <2>5 DEF PlacesTyped
<1>6. AcksTyped' BY <1>2 DEF TypeInv, AcksTyped, AckSlots
<1> QED BY <1>2, <1>4, <1>5, <1>6, TypesSame

LEMMA ClearTypes ==
  ASSUME TypeInv, UNCHANGED env, ClearEntries
  PROVE  TypeInv'
<1>1. PICK pc \in {"cleanup", "undo"} : At(pc) BY DEF ClearEntries
<1>2. UNCHANGED <<ackWait, subList, requests, tracked, version, docVersion, acks, deltas>>
  BY DEF ClearEntries, records, history
<1>3. pc \in RequestPcs /\ "publish" \in RequestPcs BY DEF RequestPcs
<1>4. CallsMove
  <2>1. CASE Goto("publish") BY <1>1, <1>2, <1>3, <2>1, GotoMoves
  <2>2. CASE Return BY <1>1, <2>2, AtCall, FrontPops DEF CallsMove, Return
  <2> QED BY <2>1, <2>2 DEF ClearEntries
<1>5. PlacesTyped' /\ AcksTyped'
  BY <1>2 DEF TypeInv, PlacesTyped, AcksTyped, AckSlots, SubSlots
<1> QED BY <1>2, <1>4, <1>5, TypesSame

LEMMA PublishTypes ==
  ASSUME TypeInv, UNCHANGED env, Publish
  PROVE  TypeInv'
<1>1. At("publish") /\ Return /\ UNCHANGED <<subList, requests, version, docVersion, acks, deltas>>
  BY DEF Publish
<1>2. Call.token \in 1..requests /\ Call.action \in env.actions /\ Call.ack \in AckSlots
  BY <1>1, AtCall DEF CallFits, CallSet, RequestPcs
<1>3. RequestsTyped' BY <1>1, <1>2 DEF TypeInv, RequestsTyped, Publish
<1>4. AcksTyped'
  <2>1. CASE UNCHANGED ackWait BY <1>1, <2>1 DEF TypeInv, AcksTyped, AckSlots
  <2>2. CASE ackWait' = [ackWait EXCEPT ![Call.ack] =
                          [free |-> FALSE, token |-> Call.token, action |-> Call.action]]
    <3> DEFINE r == [free |-> FALSE, token |-> Call.token, action |-> Call.action]
    <3>1. Call.action \in Actions /\ Call.token \in Nat /\ Call.token \in 0..requests
      BY <1>2, EnvTyped DEF TypeInv, RequestsTyped
    <3>2. r \in Slots /\ r.token \in 0..requests /\ r.action \in env.actions
      BY <1>2, <3>1 DEF Slots
    <3>3. ackWait' = [ackWait EXCEPT ![Call.ack] = r] BY <2>2
    <3> HIDE DEF r
    <3> QED BY <1>1, <1>2, <3>2, <3>3 DEF TypeInv, AcksTyped, AckSlots
  <2> QED BY <2>1, <2>2 DEF Publish
<1>5. CallsTyped'
  <2>1. CallsMove BY <1>1, AtCall, FrontPops DEF CallsMove, Return
  <2>2. requests' \in Nat /\ requests' >= requests BY <1>1, EnvTyped DEF TypeInv, RequestsTyped
  <2> QED BY <2>1, <2>2, CallsTypedKept DEF TypeInv
<1>6. PlacesTyped' BY <1>1 DEF TypeInv, PlacesTyped, SubSlots
<1>7. VersionsBounded' BY <1>1 DEF TypeInv, VersionsBounded
<1> QED BY <1>3, <1>4, <1>5, <1>6, <1>7 DEF TypeInv

\* The call that notifies the application of the record in slot i.
LEMMA NotifyCall ==
  ASSUME TypeInv, NEW i \in AckSlots, NEW acked \in BOOLEAN,
         NEW c, c = [NewCall EXCEPT !.pc = "callback", !.ack = i, !.acked = acked,
                                    !.action = ackWait[i].action]
  PROVE  /\ c \in CallSet /\ c.pc = "callback" /\ c.ack = i /\ c.acked = acked
         /\ c.action = ackWait[i].action /\ c.kind = "accepted"
         /\ CallFits(c, requests, env.actions)
<1>1. ackWait[i].action \in Actions \cup {None} /\ ackWait[i].action \in env.actions \cup {None}
  BY DEF TypeInv, AcksTyped, Slots
<1>2. /\ c.pc = "callback" /\ c.ack = i /\ c.acked = acked /\ c.action = ackWait[i].action
      /\ c.kind = "accepted"
  BY DEF NewCall
<1>3. c \in CallSet BY <1>1 DEF NewCall, CallSet, NotifyPcs, Kinds
<1>4. "callback" \notin RequestPcs BY DEF RequestPcs
<1> QED BY <1>1, <1>2, <1>3, <1>4 DEF CallFits

LEMMA AckPushes ==
  ASSUME TypeInv, AckStatusCallback
  PROVE  \E m \in acks :
           /\ acks' = acks \ {m} /\ Delivering
           /\ \/ UNCHANGED <<calls, notified>>
              \/ \E i \in AckSlots, c \in CallSet :
                   /\ ~ackWait[i].free /\ ackWait[i].token = m.token
                   /\ notified' = [notified EXCEPT ![m.token] = @ + 1]
                   /\ Pushed(c) /\ c.pc = "callback" /\ c.ack = i /\ c.acked
                   /\ c.action = ackWait[i].action /\ c.kind = "accepted"
                   /\ CallFits(c, requests, env.actions)
<1>1. PICK m \in acks :
        LET i == First(NumAcks, LAMBDA j : ~ackWait[j].free /\ ackWait[j].token = m.token) IN
        /\ Delivering /\ acks' = acks \ {m}
        /\ \/ UNCHANGED <<calls, notified>>
           \/ /\ i < NumAcks
              /\ notified' = [notified EXCEPT ![m.token] = @ + 1]
              /\ calls' = Append(calls, [NewCall EXCEPT
                            !.pc = "callback", !.ack = i, !.acked = TRUE,
                            !.action = ackWait[i].action])
  BY DEF AckStatusCallback
<1> DEFINE i == First(NumAcks, LAMBDA j : ~ackWait[j].free /\ ackWait[j].token = m.token)
           c == [NewCall EXCEPT !.pc = "callback", !.ack = i, !.acked = TRUE,
                                !.action = ackWait[i].action]
<1>2. /\ i \in 0..NumAcks
      /\ i < NumAcks => i \in AckSlots /\ ~ackWait[i].free /\ ackWait[i].token = m.token
  BY RecordFound
<1>3. /\ Delivering /\ acks' = acks \ {m}
      /\ \/ UNCHANGED <<calls, notified>>
         \/ /\ i < NumAcks /\ notified' = [notified EXCEPT ![m.token] = @ + 1]
            /\ calls' = Append(calls, c)
  BY <1>1
<1> HIDE DEF i
<1>4. CASE UNCHANGED <<calls, notified>> BY <1>3, <1>4
<1>5. CASE /\ i < NumAcks /\ notified' = [notified EXCEPT ![m.token] = @ + 1]
           /\ calls' = Append(calls, c)
  <2>1. /\ c \in CallSet /\ c.pc = "callback" /\ c.ack = i /\ c.acked = TRUE
        /\ c.action = ackWait[i].action /\ c.kind = "accepted"
        /\ CallFits(c, requests, env.actions)
    BY <1>2, <1>5, NotifyCall
  <2> HIDE DEF c
  <2>2. Pushed(c) BY <1>5, <2>1, AppendPushes DEF TypeInv, CallsTyped
  <2> QED BY <1>2, <1>3, <1>5, <2>1, <2>2
<1> QED BY <1>3, <1>4, <1>5

LEMMA AckTypes ==
  ASSUME TypeInv, UNCHANGED env, AckStatusCallback
  PROVE  TypeInv'
<1>1. UNCHANGED <<ackWait, subList, requests, tracked, docVersion, deltas>>
  BY DEF AckStatusCallback
<1>2. CallsMove BY <1>1, AckPushes DEF CallsMove
<1>3. requests' \in Nat /\ requests' >= requests BY <1>1, EnvTyped DEF TypeInv, RequestsTyped
<1>4. CallsTyped' BY <1>2, <1>3, CallsTypedKept DEF TypeInv
<1>5. VersionsBounded' BY <1>1 DEF TypeInv, VersionsBounded, AckStatusCallback
<1>6. RequestsTyped' /\ AcksTyped' /\ PlacesTyped'
  BY <1>1 DEF TypeInv, RequestsTyped, AcksTyped, PlacesTyped, AckSlots, SubSlots
<1> QED BY <1>4, <1>5, <1>6 DEF TypeInv

LEMMA ExpiredPushes ==
  ASSUME TypeInv, NEW i \in AckSlots, HandleExpired(i)
  PROVE  /\ calls = <<>> /\ ~ackWait[i].free
         /\ notified' = [notified EXCEPT ![ackWait[i].token] = @ + 1]
         /\ \E c \in CallSet : /\ Pushed(c) /\ c.pc = "callback" /\ c.ack = i /\ ~c.acked
                               /\ c.action = ackWait[i].action /\ c.kind = "accepted"
                               /\ CallFits(c, requests, env.actions)
<1> DEFINE c == [NewCall EXCEPT !.pc = "callback", !.ack = i, !.action = ackWait[i].action]
<1>1. ackWait[i].action \in Actions \cup {None} /\ ackWait[i].action \in env.actions \cup {None}
  BY DEF TypeInv, AcksTyped, Slots
<1>2. /\ c.pc = "callback" /\ c.ack = i /\ ~c.acked /\ c.action = ackWait[i].action
      /\ c.kind = "accepted"
  BY DEF NewCall
<1>3. c \in CallSet BY <1>1 DEF NewCall, CallSet, NotifyPcs, Kinds
<1>4. calls = <<>> /\ calls' = <<c>> BY DEF HandleExpired
<1>5. "callback" \notin RequestPcs BY DEF RequestPcs
<1> HIDE DEF c
<1>6. CallFits(c, requests, env.actions) BY <1>1, <1>2, <1>5 DEF CallFits
<1>7. calls' = Append(calls, c) BY <1>4
<1>8. Pushed(c) BY <1>3, <1>7, AppendPushes DEF TypeInv, CallsTyped
<1> QED BY <1>2, <1>3, <1>6, <1>8 DEF HandleExpired

LEMMA ExpiredTypes ==
  ASSUME TypeInv, UNCHANGED env, NEW i \in AckSlots, HandleExpired(i)
  PROVE  TypeInv'
<1>1. UNCHANGED <<ackWait, subList, version, requests, tracked, acks, deltas, docVersion>>
  BY DEF HandleExpired, records, external
<1>2. CallsMove BY <1>1, ExpiredPushes DEF CallsMove
<1>3. AcksTyped' /\ PlacesTyped'
  BY <1>1 DEF TypeInv, AcksTyped, PlacesTyped, AckSlots, SubSlots
<1> QED BY <1>1, <1>2, <1>3, TypesSame

\* A record is given back.
LEMMA FreeTypes ==
  ASSUME AcksTyped, UNCHANGED <<env, requests>>, NEW i \in AckSlots,
         ackWait' = [ackWait EXCEPT ![i].free = TRUE]
  PROVE  AcksTyped'
<1>1. ASSUME NEW j \in AckSlots
      PROVE  /\ ackWait'[j] \in Slots /\ ackWait'[j].token = ackWait[j].token
             /\ ackWait'[j].action = ackWait[j].action
  BY DEF AcksTyped, Slots
<1>2. ackWait' = [j \in AckSlots |-> ackWait'[j]] BY DEF AcksTyped
<1> QED BY <1>1, <1>2 DEF AcksTyped, AckSlots

LEMMA CallbackReturnTypes ==
  ASSUME TypeInv, UNCHANGED env, CallbackReturn
  PROVE  TypeInv'
<1>1. /\ At("callback") /\ Goto("release")
      /\ UNCHANGED <<subList, version, requests, tracked, acks, deltas, docVersion>>
  BY DEF CallbackReturn, history, external
<1>2. Call.ack \in AckSlots BY <1>1, AtCall DEF CallSet
<1>3. AcksTyped'
  BY <1>1, <1>2, FreeTypes DEF CallbackReturn, TypeInv, AcksTyped, AckSlots
<1>4. CallsMove BY <1>1, GotoMoves DEF RequestPcs, NotifyPcs
<1>5. PlacesTyped' BY <1>1 DEF TypeInv, PlacesTyped, SubSlots
<1> QED BY <1>1, <1>3, <1>4, <1>5, TypesSame

\* What ReleaseNext does.
LEMMA NextReleases ==
  ASSUME TypeInv, NEW pc \in {"release", "unsubscribe"}, At(pc), ReleaseNext
  PROVE  \/ /\ Call.kind = "accepted" /\ UNCHANGED ackWait
            /\ \E c \in CallSet : /\ Replaced(c) /\ Alike(c, Call) /\ c.pc = "release"
                                  /\ c.kind = "rejected" /\ c.acc = Call.acc
         \/ /\ Call.kind = "rejected" /\ Popped
            /\ ackWait' = IF Call.acked THEN [ackWait EXCEPT ![Call.ack].free = TRUE] ELSE ackWait
<1>1. calls # <<>> /\ calls \in Seq(CallSet) /\ Call \in CallSet BY AtCall
<1>2. CASE /\ Call.kind = "accepted" /\ UNCHANGED ackWait
           /\ calls' = Append(Front(calls), [Call EXCEPT !.pc = "release", !.kind = "rejected"])
  <2> DEFINE c == [Call EXCEPT !.pc = "release", !.kind = "rejected"]
  <2>1. /\ c \in CallSet /\ c.pc = "release" /\ c.kind = "rejected" /\ c.action = Call.action
        /\ c.token = Call.token /\ c.sticky = Call.sticky /\ c.ack = Call.ack
        /\ c.rej = Call.rej /\ c.acked = Call.acked /\ c.acc = Call.acc
    BY <1>1 DEF CallSet, NotifyPcs, Kinds
  <2>2. calls' = Append(Front(calls), c) BY <1>2
  <2> HIDE DEF c
  <2> QED BY <1>1, <1>2, <2>1, <2>2, ReplaceReplaces DEF Alike
<1>3. CASE /\ Call.kind = "rejected" /\ Return
           /\ ackWait' = IF Call.acked THEN [ackWait EXCEPT ![Call.ack].free = TRUE] ELSE ackWait
  BY <1>1, <1>3, FrontPops DEF Return
<1> QED BY <1>2, <1>3 DEF ReleaseNext

LEMMA NextReleaseTypes ==
  ASSUME TypeInv, UNCHANGED <<env, requests>>, NEW pc \in {"release", "unsubscribe"}, At(pc),
         ReleaseNext
  PROVE  CallsMove /\ AcksTyped'
<1>1. Call.ack \in AckSlots /\ CallFits(Call, requests, env.actions) BY AtCall DEF CallSet
<1>2. UNCHANGED ackWait => AcksTyped' BY DEF TypeInv, AcksTyped, AckSlots
<1>3. CASE Call.kind = "accepted" /\ UNCHANGED ackWait
           /\ \E c \in CallSet : /\ Replaced(c) /\ Alike(c, Call) /\ c.pc = "release"
                                 /\ c.kind = "rejected" /\ c.acc = Call.acc
  <2>1. PICK c \in CallSet : Replaced(c) /\ Alike(c, Call) /\ c.pc = "release" BY <1>3
  <2>2. "release" \notin RequestPcs BY DEF RequestPcs
  <2>3. CallFits(c, requests', env.actions) BY <1>1, <2>1, <2>2 DEF CallFits, Alike
  <2> QED BY <1>2, <1>3, <2>1, <2>3, AtCall DEF CallsMove
<1>4. CASE /\ Call.kind = "rejected" /\ Popped
           /\ ackWait' = IF Call.acked THEN [ackWait EXCEPT ![Call.ack].free = TRUE] ELSE ackWait
  BY <1>1, <1>2, <1>4, FreeTypes DEF CallsMove, TypeInv
<1> QED BY <1>3, <1>4, NextReleases

LEMMA ReleaseMoves ==
  ASSUME TypeInv, Release
  PROVE  LET i == Listed(Topic(Call.action, Call.kind)) IN
         /\ At("release")
         /\ \/ /\ i < env.topics /\ ~subList[i].sticky /\ subList[i].count = 1
               /\ UNCHANGED <<subList, ackWait>>
               /\ \E c \in CallSet : /\ Replaced(c) /\ Alike(c, Call) /\ c.pc = "unsubscribe"
                                     /\ c.kind = Call.kind /\ c.acc = i
            \/ /\ i < env.topics /\ subList[i].count > 1
               /\ subList' = [subList EXCEPT ![i].count = @ - 1] /\ ReleaseNext
            \/ /\ ~(i < env.topics /\ ~subList[i].sticky /\ subList[i].count = 1)
               /\ ~(i < env.topics /\ subList[i].count > 1)
               /\ ReleaseNext /\ UNCHANGED subList
<1> DEFINE i == Listed(Topic(Call.action, Call.kind))
           c == [Call EXCEPT !.pc = "unsubscribe", !.acc = i]
<1>1. /\ At("release")
      /\ \/ /\ i < env.topics /\ ~subList[i].sticky /\ subList[i].count = 1
            /\ UNCHANGED <<subList, ackWait>> /\ calls' = Append(Front(calls), c)
         \/ /\ i < env.topics /\ subList[i].count > 1
            /\ subList' = [subList EXCEPT ![i].count = @ - 1] /\ ReleaseNext
         \/ /\ ~(i < env.topics /\ ~subList[i].sticky /\ subList[i].count = 1)
            /\ ~(i < env.topics /\ subList[i].count > 1)
            /\ ReleaseNext /\ UNCHANGED subList
  BY DEF Release
<1>2. i \in Nat BY ListedFound, EnvTyped DEF TypeInv, RequestsTyped
<1> HIDE DEF i
<1>3. /\ c \in CallSet /\ c.pc = "unsubscribe" /\ c.kind = Call.kind /\ c.action = Call.action
      /\ c.token = Call.token /\ c.sticky = Call.sticky /\ c.ack = Call.ack
      /\ c.rej = Call.rej /\ c.acked = Call.acked /\ c.acc = i
  <2>1. Call \in CallSet BY <1>1, AtCall
  <2> QED BY <1>2, <2>1 DEF CallSet, NotifyPcs
<1>4. calls \in Seq(CallSet) /\ calls # <<>> BY <1>1, AtCall
<1> HIDE DEF c
<1>5. calls' = Append(Front(calls), c) => Replaced(c) /\ Alike(c, Call)
  BY <1>3, <1>4, ReplaceReplaces DEF Alike
<1>6. /\ At("release")
      /\ \/ /\ i < env.topics /\ ~subList[i].sticky /\ subList[i].count = 1
            /\ UNCHANGED <<subList, ackWait>>
            /\ \E d \in CallSet : /\ Replaced(d) /\ Alike(d, Call) /\ d.pc = "unsubscribe"
                                  /\ d.kind = Call.kind /\ d.acc = i
         \/ /\ i < env.topics /\ subList[i].count > 1
            /\ subList' = [subList EXCEPT ![i].count = @ - 1] /\ ReleaseNext
         \/ /\ ~(i < env.topics /\ ~subList[i].sticky /\ subList[i].count = 1)
            /\ ~(i < env.topics /\ subList[i].count > 1)
            /\ ReleaseNext /\ UNCHANGED subList
  BY <1>1, <1>3, <1>5
<1> QED BY <1>6 DEF i

LEMMA ReleaseTypes ==
  ASSUME TypeInv, UNCHANGED env, Release
  PROVE  TypeInv'
<1>1. At("release") /\ UNCHANGED <<version, requests, tracked, acks, deltas, docVersion>>
  BY DEF Release, history, external
<1> DEFINE i == Listed(Topic(Call.action, Call.kind))
<1>2. CASE UNCHANGED ackWait /\ UNCHANGED subList
           /\ \E c \in CallSet : /\ Replaced(c) /\ Alike(c, Call) /\ c.pc = "unsubscribe"
                                 /\ c.kind = Call.kind /\ c.acc = i
  <2>1. PICK c \in CallSet : Replaced(c) /\ Alike(c, Call) /\ c.pc = "unsubscribe" BY <1>2
  <2>2. "unsubscribe" \notin RequestPcs BY DEF RequestPcs
  <2>3. CallFits(c, requests', env.actions) BY <1>1, <2>1, <2>2, AtCall DEF CallFits, Alike
  <2>4. CallsMove BY <1>1, <2>1, <2>3, AtCall DEF CallsMove
  <2>5. AcksTyped' /\ PlacesTyped'
    BY <1>1, <1>2 DEF TypeInv, AcksTyped, PlacesTyped, AckSlots, SubSlots
  <2> QED BY <1>1, <2>4, <2>5, TypesSame
<1>3. CASE ReleaseNext
  <2>1. PlacesTyped'
    <3>1. CASE UNCHANGED subList BY <1>1, <3>1 DEF TypeInv, PlacesTyped, SubSlots
    <3>2. CASE subList[i].count > 1 /\ subList' = [subList EXCEPT ![i].count = @ - 1]
      <4> HIDE DEF i
      <4>1. /\ subList \in [SubSlots -> Places] /\ SubSlots' = SubSlots /\ requests \in Nat
            /\ \A j \in SubSlots : subList[j].count \in Nat /\ subList[j].count <= requests
        BY EnvTyped DEF TypeInv, PlacesTyped, SubSlots, Places, RequestsTyped
      <4>2. ASSUME NEW j \in SubSlots PROVE subList'[j] \in Places /\ subList'[j].count <= requests
        <5>1. CASE j # i BY <3>2, <4>1, <5>1
        <5>2. CASE j = i
          <6>1. subList[i] \in Places /\ subList[i].count - 1 \in Nat
                /\ subList[i].count - 1 <= requests
            BY <3>2, <4>1, <5>2
          <6>2. subList'[j] = [subList[i] EXCEPT !.count = @ - 1] BY <3>2, <4>1, <5>2
          <6> QED BY <6>1, <6>2 DEF Places
        <5> QED BY <5>1, <5>2
      <4>3. subList' = [j \in SubSlots |-> subList'[j]] BY <3>2, <4>1
      <4> QED BY <1>1, <4>1, <4>2, <4>3 DEF PlacesTyped
    <3>3. CASE UNCHANGED <<subList, ackWait>> BY <3>1, <3>3
    <3> QED BY <3>1, <3>2, <3>3, ReleaseMoves
  <2> QED BY <1>1, <1>3, <2>1, NextReleaseTypes, TypesSame
<1> QED BY <1>2, <1>3, ReleaseMoves

LEMMA UnsubscribedTypes ==
  ASSUME TypeInv, UNCHANGED env, ReleaseUnsubscribed
  PROVE  TypeInv'
<1>1. /\ At("unsubscribe") /\ ReleaseNext
      /\ UNCHANGED <<version, requests, tracked, acks, deltas, docVersion>>
  BY DEF ReleaseUnsubscribed, history
<1>2. PlacesTyped'
  <2>1. subList \in [SubSlots -> Places] /\ SubSlots' = SubSlots
    BY DEF TypeInv, PlacesTyped, SubSlots
  <2>2. ASSUME NEW i \in SubSlots
        PROVE  subList'[i] \in Places /\ subList'[i].count = subList[i].count
    <3>1. CASE UNCHANGED subList BY <2>1, <3>1
    <3>2. CASE subList' = [subList EXCEPT ![Call.acc].free = TRUE]
      <4>1. subList[i] \in Places BY <2>1
      <4>2. subList'[i] = IF i = Call.acc THEN [subList[i] EXCEPT !.free = TRUE] ELSE subList[i]
        BY <2>1, <3>2
      <4> QED BY <4>1, <4>2 DEF Places
    <3> QED BY <3>1, <3>2 DEF ReleaseUnsubscribed
  <2>3. subList' = [i \in SubSlots |-> subList'[i]] BY <2>1 DEF ReleaseUnsubscribed
  <2> QED BY <1>1, <2>1, <2>2, <2>3 DEF TypeInv, PlacesTyped
<1> QED BY <1>1, <1>2, NextReleaseTypes, TypesSame

\* The steps that leave the records and the calls alone.
LEMMA RecordsSame ==
  ASSUME TypeInv, UNCHANGED <<env, requests, tracked, ackWait, subList, calls>>, VersionsBounded'
  PROVE  TypeInv'
BY DEF TypeInv, RequestsTyped, AcksTyped, PlacesTyped, CallsTyped, Under, AckSlots, SubSlots

LEMMA DeltaTypes ==
  ASSUME TypeInv, UNCHANGED env, RegisterDelta \/ DeltaCallback
  PROVE  TypeInv'
<1>1. UNCHANGED <<requests, tracked, ackWait, subList, calls>>
  BY DEF RegisterDelta, DeltaCallback, history
<1>2. CASE RegisterDelta
  <2>1. VersionsBounded' BY <1>2 DEF RegisterDelta, TypeInv, VersionsBounded
  <2> QED BY <1>1, <2>1, RecordsSame
<1>3. CASE DeltaCallback
  <2>1. VersionsBounded' BY <1>3 DEF DeltaCallback, TypeInv, VersionsBounded
  <2> QED BY <1>1, <2>1, RecordsSame
<1> QED BY <1>2, <1>3

LEMMA SettingTypes ==
  ASSUME TypeInv, ResetVersion \/ \E on \in BOOLEAN : SwitchDiscard(on)
  PROVE  TypeInv'
<1>1. UNCHANGED <<env, requests, tracked, ackWait, subList, calls>>
  BY DEF ResetVersion, SwitchDiscard, records, settings
<1>2. CASE ResetVersion
  <2>1. env.versions \in Nat BY EnvTyped DEF TypeInv, RequestsTyped
  <2>2. version' = 0 /\ UNCHANGED <<env, docVersion, deltas, acks>>
    BY <1>2 DEF ResetVersion, external, settings
  <2>3. VersionsBounded' BY <2>1, <2>2 DEF TypeInv, VersionsBounded
  <2> QED BY <1>1, <2>3, RecordsSame
<1>3. CASE \E on \in BOOLEAN : SwitchDiscard(on)
  <2>1. UNCHANGED <<env, version, docVersion, deltas, acks>>
    BY <1>3 DEF SwitchDiscard, records, external
  <2>2. VersionsBounded' BY <2>1 DEF TypeInv, VersionsBounded
  <2> QED BY <1>1, <2>2, RecordsSame
<1> QED BY <1>2, <1>3

LEMMA MessageBounded ==
  ASSUME NEW topic, NEW token, NEW v, NEW m \in Message(topic, token, v)
  PROVE  m.version = v /\ m.token = token
BY DEF Message

LEMMA ServiceTypes ==
  ASSUME TypeInv, UNCHANGED env, ServiceAccepts \/ ServiceRejects \/ OthersUpdate
  PROVE  TypeInv'
<1>1. UNCHANGED <<requests, tracked, ackWait, subList, calls, version>>
  BY DEF ServiceAccepts, ServiceRejects, OthersUpdate, history, records
<1>2. /\ env.versions \in Nat /\ version \in 0..env.versions /\ docVersion \in 0..env.versions
      /\ deltas \subseteq 0..env.versions /\ \A m \in acks : m.version \in 0..env.versions
  BY EnvTyped DEF TypeInv, RequestsTyped, VersionsBounded
<1>3. docVersion' \in 0..env.versions
  BY <1>2 DEF ServiceAccepts, ServiceRejects, OthersUpdate
<1>4. deltas' \subseteq deltas \cup {docVersion'}
  BY DEF ServiceAccepts, ServiceRejects, OthersUpdate, Delta
<1>5. \A m \in acks' : m \in acks \/ m.version \in {docVersion', docVersion}
  BY MessageBounded DEF ServiceAccepts, ServiceRejects, OthersUpdate
<1>6. VersionsBounded' BY <1>1, <1>2, <1>3, <1>4, <1>5 DEF VersionsBounded
<1> QED BY <1>1, <1>6, RecordsSame

LEMMA TypeInit == Init => TypeInv
<1> SUFFICES ASSUME Init PROVE TypeInv OBVIOUS
<1>1. env.versions \in Nat /\ env.requests \in Nat BY EnvTyped DEF Init
<1>2. RequestsTyped BY <1>1 DEF Init, RequestsTyped
<1>3. AcksTyped
  <2> DEFINE r == [free |-> TRUE, token |-> 0, action |-> None]
  <2>1. r \in Slots /\ r.token = 0 /\ r.action = None BY DEF Slots
  <2>2. ackWait = [i \in AckSlots |-> r] /\ requests = 0 BY DEF Init
  <2> HIDE DEF r
  <2> QED BY <2>1, <2>2 DEF AcksTyped
<1>4. PlacesTyped
  <2> DEFINE p == [free |-> TRUE, topic |-> None, count |-> 0, sticky |-> FALSE]
  <2>1. p \in Places /\ p.count = 0 BY DEF Places, Topics
  <2>2. subList = [i \in SubSlots |-> p] /\ requests = 0 BY DEF Init
  <2> HIDE DEF p
  <2> QED BY <2>1, <2>2 DEF PlacesTyped
<1>5. CallsTyped BY DEF Init, CallsTyped, Under
<1>6. VersionsBounded BY <1>1 DEF Init, VersionsBounded
<1> QED BY <1>2, <1>3, <1>4, <1>5, <1>6 DEF TypeInv

LEMMA TypeStep == TypeInv /\ [Next]_vars => TypeInv'
<1> SUFFICES ASSUME TypeInv, [Next]_vars PROVE TypeInv' OBVIOUS
<1>1. CASE UNCHANGED vars
  BY <1>1 DEF vars, settings, records, history, external, TypeInv, RequestsTyped, AcksTyped,
              PlacesTyped, CallsTyped, VersionsBounded, Under, AckSlots, SubSlots
<1>2. CASE RecordStep /\ UNCHANGED settings
  <2>1. UNCHANGED env BY <1>2 DEF settings
  <2>2. CASE \E action \in env.actions, sticky \in BOOLEAN : Request(action, sticky)
    BY <2>1, <2>2, RequestTypes
  <2>3. CASE CallStep
    BY <2>1, <2>3, SubscribeTypes, ClearTypes, PublishTypes, CallbackReturnTypes, ReleaseTypes,
       UnsubscribedTypes DEF CallStep
  <2>4. CASE AckStatusCallback BY <2>1, <2>4, AckTypes
  <2>5. CASE \E i \in AckSlots : HandleExpired(i) BY <2>1, <2>5, ExpiredTypes
  <2>6. CASE RegisterDelta \/ DeltaCallback BY <2>1, <2>6, DeltaTypes
  <2>7. CASE ServiceAccepts \/ ServiceRejects \/ OthersUpdate BY <2>1, <2>7, ServiceTypes
  <2> QED BY <1>2, <2>2, <2>3, <2>4, <2>5, <2>6, <2>7 DEF RecordStep
<1>3. CASE ResetVersion \/ \E on \in BOOLEAN : SwitchDiscard(on) BY <1>3, SettingTypes
<1> QED BY <1>1, <1>2, <1>3 DEF Next

LEMMA TypeInvariant == Spec => []TypeInv
BY TypeInit, TypeStep, PTL DEF Spec

\* The wait list, the subscription list and the versions stay within their
\* bounds: no count of users passes the number of requests, every call under
\* way has a place on the wait list, and no version is ahead of the document.
THEOREM TypeCorrect == Spec => []TypeOK
<1>1. TypeInv => TypeOK
  <2> SUFFICES ASSUME TypeInv PROVE TypeOK OBVIOUS
  <2>1. requests \in Nat /\ env.requests \in Nat /\ requests <= env.requests
        /\ tracked \subseteq 1..requests
    BY EnvTyped DEF TypeInv, RequestsTyped
  <2>2. 0..requests \subseteq 0..env.requests /\ 1..requests \subseteq 1..env.requests BY <2>1
  <2>3. ackWait \in [AckSlots -> [free : BOOLEAN, token : 0..env.requests,
                                  action : env.actions \cup {None}]]
    <3>1. ASSUME NEW i \in AckSlots
          PROVE  ackWait[i] \in [free : BOOLEAN, token : 0..env.requests,
                                 action : env.actions \cup {None}]
      BY <2>2 DEF TypeInv, AcksTyped, Slots
    <3> QED BY <3>1 DEF TypeInv, AcksTyped
  <2>4. \A i \in SubSlots : subList[i].count \in 0..env.requests /\ subList[i].sticky \in BOOLEAN
    <3>1. ASSUME NEW i \in SubSlots
          PROVE  subList[i].count \in Nat /\ subList[i].count <= requests
      BY DEF TypeInv, PlacesTyped, Places
    <3>2. ASSUME NEW i \in SubSlots PROVE subList[i].sticky \in BOOLEAN
      BY DEF TypeInv, PlacesTyped, Places
    <3> QED BY <2>1, <3>1, <3>2
  <2>5. \A k \in 1..Len(calls) : calls[k].ack \in AckSlots
    <3>1. \A k \in 1..Len(calls) : calls[k] \in CallSet BY DEF TypeInv, CallsTyped
    <3> QED BY <3>1 DEF CallSet
  <2> QED BY <2>1, <2>2, <2>3, <2>4, <2>5 DEF TypeOK, TypeInv, VersionsBounded
<1> QED BY <1>1, TypeInvariant, PTL

-----------------------------------------------------------------------------
(* Each callback is called once, and a record is kept until then.  Held    *)
(* while callbacks make no request: then a request is the outermost call,  *)
(* its slot stays free and its token is not yet known to anybody else.     *)

\* The call has notified the owner of its record and not given the record
\* back.
Busy(c) == c.pc \in NotifyPcs /\ (c.acked \/ c.pc = "callback")

\* A request is the outermost call; no other request takes its slot.
RequestAlone ==
  \A k \in Under : calls[k].pc \in RequestPcs =>
    /\ k = 1 /\ ackWait[calls[k].ack].free
    /\ calls[k].token = requests /\ requests \notin tracked

\* Messages are delivered while the calls below wait.
OuterWait == \A k \in 1..(Len(calls) - 1) : calls[k].pc \in Waits

\* The record of a busy call is in use and its owner was notified once; after
\* an answer there is no second one.
Owned(c) ==
  /\ ~ackWait[c.ack].free /\ notified[ackWait[c.ack].token] = 1
  /\ c.acked => \A m \in acks \cup service : m.token # ackWait[c.ack].token

BusyOwns == \A k \in Under : Busy(calls[k]) => Owned(calls[k])

BusyDiffer ==
  \A j, k \in Under : Busy(calls[j]) /\ Busy(calls[k]) /\ calls[j].ack = calls[k].ack => j = k

\* A record in use belongs to a request on its way, notified only by a busy
\* call.
SlotsKnown ==
  \A i \in AckSlots : ~ackWait[i].free =>
    /\ ackWait[i].token \in tracked
    /\ notified[ackWait[i].token] # 0 => \E k \in Under : Busy(calls[k]) /\ calls[k].ack = i

TokensDiffer ==
  \A i, j \in AckSlots :
    ~ackWait[i].free /\ ~ackWait[j].free /\ ackWait[i].token = ackWait[j].token => i = j

NotifiedKnown ==
  /\ notified \in [1..MaxRequests -> Nat]
  /\ \A t \in 1..MaxRequests : notified[t] <= 1 /\ (t \notin tracked => notified[t] = 0)

Kept ==
  \A t \in tracked : notified[t] = 0 => \E i \in AckSlots : ~ackWait[i].free /\ ackWait[i].token = t

\* The service answers a request once; token 0 is somebody else's.
MessagesKnown ==
  /\ \A r \in service : r.token \in tracked /\ \A m \in acks : m.token # r.token
  /\ \A q, r \in service : q.token = r.token => q = r
  /\ \A m \in acks : m.token \in tracked \cup {0}
  /\ \A m, n \in acks : m.token = n.token /\ m.token # 0 => m = n

SlotsInv == SlotsKnown /\ TokensDiffer /\ NotifiedKnown /\ Kept /\ MessagesKnown
CallsInv == RequestAlone /\ OuterWait /\ BusyOwns /\ BusyDiffer
OnceInv  == ~env.callbackActs => CallsInv /\ SlotsInv

LEMMA CallOf ==
  ASSUME TypeInv, NEW k \in Under
  PROVE  /\ calls[k] \in CallSet /\ calls[k].ack \in AckSlots /\ calls[k].acked \in BOOLEAN
         /\ calls[k].pc \in RequestPcs \cup NotifyPcs
<1>1. calls[k] \in CallSet BY DEF TypeInv, CallsTyped, Under
<1> QED BY <1>1 DEF CallSet

LEMMA PcsDiffer == RequestPcs \cap NotifyPcs = {} /\ "callback" \notin Waits /\ "callback" \in NotifyPcs
BY DEF RequestPcs, NotifyPcs, Waits

LEMMA TrackedPositive ==
  ASSUME TypeInv
  PROVE  /\ tracked \subseteq 1..MaxRequests /\ 0 \notin tracked
         /\ requests + 1 \notin tracked /\ requests \in Nat
BY EnvTyped DEF TypeInv, RequestsTyped

LEMMA RecordOf ==
  ASSUME TypeInv, NEW i \in AckSlots
  PROVE  ackWait[i] \in Slots /\ ackWait[i].free \in BOOLEAN
BY DEF TypeInv, AcksTyped, Slots

\* Steps that touch none of it.
LEMMA OnceSame ==
  ASSUME OnceInv,
         UNCHANGED <<env, ackWait, calls, requests, tracked, notified, service, acks>>
  PROVE  OnceInv'
BY DEF OnceInv, CallsInv, SlotsInv, RequestAlone, OuterWait, BusyOwns, BusyDiffer, SlotsKnown,
       TokensDiffer, NotifiedKnown, Kept, MessagesKnown, Owned, Busy, Under, AckSlots

\* A request moves: no call notifies, before or after.
LEMMA RequestOnce ==
  ASSUME CallsInv /\ SlotsInv, UNCHANGED <<ackWait, tracked, notified, service, acks>>,
         \A k \in Under : calls[k].pc \notin NotifyPcs,
         \A k \in 1..Len(calls') : calls'[k].pc \notin NotifyPcs,
         RequestAlone', OuterWait'
  PROVE  (CallsInv /\ SlotsInv)'
<1>1. \A k \in Under : ~Busy(calls[k]) BY DEF Busy
<1>2. \A k \in 1..Len(calls') : ~Busy(calls'[k]) BY DEF Busy
<1>3. BusyOwns' /\ BusyDiffer' BY <1>2 DEF BusyOwns, BusyDiffer, Under, Busy
<1>4. SlotsKnown' BY <1>1 DEF CallsInv, SlotsInv, SlotsKnown, AckSlots
<1>5. TokensDiffer' /\ NotifiedKnown' /\ Kept' /\ MessagesKnown'
  BY DEF SlotsInv, TokensDiffer, NotifiedKnown, Kept, MessagesKnown, AckSlots
<1> QED BY <1>3, <1>4, <1>5 DEF CallsInv, SlotsInv

\* The owner of the record in slot i is notified.
LEMMA NotifyOnce ==
  ASSUME TypeInv, CallsInv /\ SlotsInv, UNCHANGED <<env, ackWait, requests, tracked, service>>,
         NEW i \in AckSlots, ~ackWait[i].free, notified[ackWait[i].token] = 0,
         notified' = [notified EXCEPT ![ackWait[i].token] = @ + 1],
         NEW c \in CallSet, Pushed(c), c.pc = "callback", c.ack = i,
         calls = <<>> \/ Call.pc \in Waits, acks' \subseteq acks,
         c.acked => \A m \in acks' \cup service : m.token # ackWait[i].token
  PROVE  (CallsInv /\ SlotsInv)'
<1> DEFINE t == ackWait[i].token
<1>1. t \in tracked /\ t \in 1..MaxRequests BY TrackedPositive DEF SlotsInv, SlotsKnown
<1>2. /\ notified \in [1..MaxRequests -> Nat] /\ notified' \in [1..MaxRequests -> Nat]
      /\ notified'[t] = 1 /\ \A u \in 1..MaxRequests : u # t => notified'[u] = notified[u]
  BY <1>1 DEF SlotsInv, NotifiedKnown
<1>3. /\ Len(calls) \in Nat /\ Len(calls') = Len(calls) + 1 /\ calls'[Len(calls) + 1] = c
      /\ \A k \in Under : calls'[k] = calls[k]
  BY DEF Pushed, TypeInv, CallsTyped
<1>4. \A k \in 1..Len(calls') : k \in Under \/ k = Len(calls) + 1 BY <1>3 DEF Under
<1>5. Len(calls) + 1 \in 1..Len(calls') /\ Under \subseteq 1..Len(calls')
      /\ Len(calls) + 1 \notin Under
  BY <1>3 DEF Under
<1>6. \A k \in Under : Busy(calls[k]) => calls[k].ack \in AckSlots /\ ackWait[calls[k].ack].token # t
      /\ calls[k].ack # i
  BY CallOf DEF CallsInv, BusyOwns, Owned
<1>7. Busy(c) /\ c.pc \notin RequestPcs BY PcsDiffer DEF Busy
<1>8. RequestAlone'
  BY <1>3, <1>4, <1>7 DEF CallsInv, RequestAlone, Under
<1>9. OuterWait'
  <2> SUFFICES ASSUME NEW k \in 1..(Len(calls') - 1) PROVE calls'[k].pc \in Waits
    BY DEF OuterWait, Waits
  <2>1. k \in Under /\ calls'[k] = calls[k] BY <1>3 DEF Under
  <2>2. CASE k = Len(calls)
    <3>1. calls # <<>> BY <2>1, <2>2 DEF Under
    <3> QED BY <2>1, <2>2, <3>1, TopCall DEF TypeInv, CallsTyped
  <2>3. CASE k # Len(calls)
    <3>1. k \in 1..(Len(calls) - 1) BY <1>3, <2>1, <2>3 DEF Under
    <3> QED BY <2>1, <3>1 DEF CallsInv, OuterWait
  <2> QED BY <2>2, <2>3
<1>10. BusyOwns'
  <2> SUFFICES ASSUME NEW k \in 1..Len(calls'), Busy(calls'[k]) PROVE Owned(calls[k])'
    BY DEF BusyOwns, Under, Busy
  <2>1. CASE k \in Under
    <3>1. calls'[k] = calls[k] /\ Owned(calls[k]) /\ calls[k].ack \in AckSlots
      BY <1>3, <2>1, CallOf DEF CallsInv, BusyOwns
    <3>2. /\ ackWait[calls[k].ack].token \in 1..MaxRequests
          /\ ackWait[calls[k].ack].token # t
      BY <1>3, <1>6, <2>1, <3>1, TrackedPositive DEF SlotsInv, SlotsKnown, Owned
    <3> QED BY <1>2, <3>1, <3>2 DEF Owned
  <2>2. CASE k = Len(calls) + 1 BY <1>2, <1>3, <2>2 DEF Owned
  <2> QED BY <1>4, <2>1, <2>2
<1>11. BusyDiffer'
  <2> SUFFICES ASSUME NEW j \in 1..Len(calls'), NEW k \in 1..Len(calls'), Busy(calls'[j]),
                      Busy(calls'[k]), calls'[j].ack = calls'[k].ack
               PROVE  j = k
    BY DEF BusyDiffer, Under, Busy
  <2> QED BY <1>3, <1>4, <1>6 DEF CallsInv, BusyDiffer
<1>12. SlotsKnown'
  <2> SUFFICES ASSUME NEW j \in AckSlots, ~ackWait[j].free
               PROVE  /\ ackWait[j].token \in tracked
                      /\ notified'[ackWait[j].token] # 0 =>
                           \E k \in 1..Len(calls') : Busy(calls'[k]) /\ calls'[k].ack = j
    BY DEF SlotsKnown, Under, Busy, AckSlots
  <2>1. ackWait[j].token \in tracked /\ ackWait[j].token \in 1..MaxRequests
    BY TrackedPositive DEF SlotsInv, SlotsKnown
  <2>2. CASE j = i BY <1>3, <1>5, <1>7, <2>1, <2>2
  <2>3. CASE j # i
    <3>1. ackWait[j].token # t BY <2>3 DEF SlotsInv, TokensDiffer
    <3>2. notified'[ackWait[j].token] = notified[ackWait[j].token] BY <1>2, <2>1, <3>1
    <3>3. notified[ackWait[j].token] # 0 => \E k \in Under : Busy(calls[k]) /\ calls[k].ack = j
      BY DEF SlotsInv, SlotsKnown
    <3> QED BY <1>3, <1>5, <2>1, <3>2, <3>3
  <2> QED BY <2>2, <2>3
<1>13. TokensDiffer' BY DEF SlotsInv, TokensDiffer, AckSlots
<1>14. NotifiedKnown' BY <1>1, <1>2 DEF SlotsInv, NotifiedKnown
<1>15. Kept' 
  <2> SUFFICES ASSUME NEW u \in tracked, notified'[u] = 0
               PROVE  \E j \in AckSlots : ~ackWait[j].free /\ ackWait[j].token = u
    BY DEF Kept, AckSlots
  <2>1. notified[u] = 0 BY <1>2, TrackedPositive
  <2> QED BY <2>1 DEF SlotsInv, Kept
<1>16. MessagesKnown' BY DEF SlotsInv, MessagesKnown
<1> QED BY <1>8, <1>9, <1>10, <1>11, <1>12, <1>13, <1>14, <1>15, <1>16 DEF CallsInv, SlotsInv

\* The innermost call goes on with its record.
LEMMA StayOnce ==
  ASSUME TypeInv, CallsInv /\ SlotsInv, calls # <<>>, Call.pc \in NotifyPcs,
         UNCHANGED <<ackWait, requests, tracked, notified, service, acks>>,
         NEW c \in CallSet, Replaced(c), c.pc \in NotifyPcs, c.ack = Call.ack,
         c.acked = Call.acked, Busy(c) <=> Busy(Call)
  PROVE  (CallsInv /\ SlotsInv)'
<1>1. /\ Len(calls) \in Nat /\ Len(calls) \in Under /\ Call = calls[Len(calls)]
  BY TopCall DEF TypeInv, CallsTyped
<1>2. /\ Len(calls') = Len(calls) /\ calls'[Len(calls)] = c
      /\ \A k \in 1..(Len(calls) - 1) : calls'[k] = calls[k]
  BY DEF Replaced
<1>3. \A k \in Under : k = Len(calls) \/ k \in 1..(Len(calls) - 1) BY <1>1 DEF Under
<1>4. \A k \in Under : /\ calls'[k].ack = calls[k].ack /\ calls'[k].acked = calls[k].acked
                       /\ Busy(calls'[k]) <=> Busy(calls[k])
  BY <1>1, <1>2, <1>3
<1>5. \A k \in Under : calls'[k].pc \in RequestPcs => calls'[k] = calls[k]
  BY <1>1, <1>2, <1>3, PcsDiffer
<1>6. Under' = Under BY <1>2 DEF Under
<1>7. RequestAlone' BY <1>5, <1>6 DEF CallsInv, RequestAlone
<1>8. OuterWait' BY <1>2 DEF CallsInv, OuterWait, Waits
<1>9. BusyOwns'
  <2> SUFFICES ASSUME NEW k \in Under, Busy(calls'[k]) PROVE Owned(calls[k])'
    BY <1>6 DEF BusyOwns, Busy
  <2>1. Owned(calls[k]) BY <1>4 DEF CallsInv, BusyOwns
  <2> QED BY <1>4, <2>1 DEF Owned
<1>10. BusyDiffer'
  <2> SUFFICES ASSUME NEW j \in Under, NEW k \in Under, Busy(calls'[j]), Busy(calls'[k]),
                      calls'[j].ack = calls'[k].ack
               PROVE  j = k
    BY <1>6 DEF BusyDiffer, Busy
  <2> QED BY <1>4 DEF CallsInv, BusyDiffer
<1>11. SlotsKnown'
  <2> SUFFICES ASSUME NEW j \in AckSlots, ~ackWait[j].free
               PROVE  /\ ackWait[j].token \in tracked
                      /\ notified[ackWait[j].token] # 0 =>
                           \E k \in Under : Busy(calls'[k]) /\ calls'[k].ack = j
    BY <1>6 DEF SlotsKnown, Busy, AckSlots
  <2> QED BY <1>4 DEF SlotsInv, SlotsKnown
<1>12. TokensDiffer' /\ NotifiedKnown' /\ Kept' /\ MessagesKnown'
  BY DEF SlotsInv, TokensDiffer, NotifiedKnown, Kept, MessagesKnown, AckSlots
<1> QED BY <1>7, <1>8, <1>9, <1>10, <1>11, <1>12 DEF CallsInv, SlotsInv

\* The innermost call gives its record back, or has none and returns.
LEMMA EndOnce ==
  ASSUME TypeInv, CallsInv /\ SlotsInv, calls # <<>>, Call.pc \in NotifyPcs,
         UNCHANGED <<requests, tracked, notified, service, acks>>,
         ackWait' = IF Busy(Call) THEN [ackWait EXCEPT ![Call.ack].free = TRUE] ELSE ackWait,
         Popped \/ \E c \in CallSet : Replaced(c) /\ c.pc \in NotifyPcs /\ ~Busy(c)
  PROVE  (CallsInv /\ SlotsInv)'
<1>1. /\ Len(calls) \in Nat /\ Len(calls) \in Under /\ Call = calls[Len(calls)]
      /\ Call.ack \in AckSlots
  BY TopCall, CallOf DEF TypeInv, CallsTyped
<1>2. /\ Len(calls') = Len(calls) \/ Len(calls') = Len(calls) - 1
      /\ \A k \in 1..(Len(calls) - 1) : calls'[k] = calls[k]
      /\ Len(calls') = Len(calls) => /\ ~Busy(calls'[Len(calls)])
                                     /\ calls'[Len(calls)].pc \in NotifyPcs
  BY <1>1 DEF Popped, Replaced
<1>3. \A k \in 1..Len(calls') : \/ k = Len(calls) /\ Len(calls') = Len(calls)
                                \/ k \in 1..(Len(calls) - 1)
  BY <1>1, <1>2
<1>4. 1..(Len(calls) - 1) \subseteq 1..Len(calls') /\ 1..(Len(calls) - 1) \subseteq Under
      /\ \A k \in 1..(Len(calls) - 1) : k # Len(calls)
  BY <1>1, <1>2 DEF Under
<1>5. \A k \in 1..Len(calls') : Busy(calls'[k]) \/ calls'[k].pc \in RequestPcs =>
        k \in 1..(Len(calls) - 1) /\ k \in Under /\ calls'[k] = calls[k]
  BY <1>2, <1>3, <1>4, PcsDiffer
<1>6. \A i \in AckSlots : /\ ackWait'[i].token = ackWait[i].token
                          /\ ackWait[i].free => ackWait'[i].free
                          /\ ~(Busy(Call) /\ i = Call.ack) => ackWait'[i] = ackWait[i]
                          /\ Busy(Call) /\ i = Call.ack => ackWait'[i].free
  <2>1. ackWait \in [AckSlots -> Slots] BY DEF TypeInv, AcksTyped
  <2>2. CASE ~Busy(Call) BY <2>2
  <2>3. CASE Busy(Call)
    <3>1. \A i \in AckSlots : ackWait[i] \in Slots BY <2>1
    <3>2. \A i \in AckSlots :
            ackWait'[i] = IF i = Call.ack THEN [ackWait[i] EXCEPT !.free = TRUE] ELSE ackWait[i]
      BY <1>1, <2>1, <2>3
    <3> QED BY <2>3, <3>1, <3>2 DEF Slots
  <2> QED BY <2>2, <2>3
<1>7. RequestAlone'
  <2> SUFFICES ASSUME NEW k \in 1..Len(calls'), calls'[k].pc \in RequestPcs
               PROVE  /\ k = 1 /\ ackWait'[calls'[k].ack].free
                      /\ calls'[k].token = requests /\ requests \notin tracked
    BY DEF RequestAlone, Under, RequestPcs
  <2>1. k \in Under /\ calls'[k] = calls[k] /\ calls[k].ack \in AckSlots BY <1>5, CallOf
  <2> QED BY <1>6, <2>1 DEF CallsInv, RequestAlone
<1>8. OuterWait'
  <2>1. \A k \in 1..(Len(calls') - 1) : k \in 1..(Len(calls) - 1) BY <1>1, <1>2
  <2> QED BY <1>2, <2>1 DEF CallsInv, OuterWait, Waits
<1>9. \A k \in Under : k # Len(calls) /\ Busy(calls[k]) =>
        calls[k].ack \in AckSlots /\ ackWait'[calls[k].ack] = ackWait[calls[k].ack]
  BY <1>1, <1>6, CallOf DEF CallsInv, BusyDiffer
<1>10. BusyOwns'
  <2> SUFFICES ASSUME NEW k \in 1..Len(calls'), Busy(calls'[k]) PROVE Owned(calls[k])'
    BY DEF BusyOwns, Under, Busy
  <2>1. k \in Under /\ calls'[k] = calls[k] /\ k # Len(calls) BY <1>4, <1>5
  <2>2. Owned(calls[k]) /\ ackWait'[calls[k].ack] = ackWait[calls[k].ack]
    BY <1>9, <2>1 DEF CallsInv, BusyOwns
  <2> QED BY <2>1, <2>2 DEF Owned
<1>11. BusyDiffer'
  <2> SUFFICES ASSUME NEW j \in 1..Len(calls'), NEW k \in 1..Len(calls'), Busy(calls'[j]),
                      Busy(calls'[k]), calls'[j].ack = calls'[k].ack
               PROVE  j = k
    BY DEF BusyDiffer, Under, Busy
  <2> QED BY <1>5 DEF CallsInv, BusyDiffer
<1>12. SlotsKnown'
  <2> SUFFICES ASSUME NEW i \in AckSlots, ~ackWait'[i].free
               PROVE  /\ ackWait'[i].token \in tracked
                      /\ notified[ackWait'[i].token] # 0 =>
                           \E k \in 1..Len(calls') : Busy(calls'[k]) /\ calls'[k].ack = i
    BY DEF SlotsKnown, Under, Busy, AckSlots
  <2>1. /\ ~(Busy(Call) /\ i = Call.ack) /\ ~ackWait[i].free
        /\ ackWait'[i].token = ackWait[i].token
    BY <1>6
  <2>2. ASSUME notified[ackWait[i].token] # 0
        PROVE  \E k \in 1..Len(calls') : Busy(calls'[k]) /\ calls'[k].ack = i
    <3>1. PICK k \in Under : Busy(calls[k]) /\ calls[k].ack = i
      BY <2>1, <2>2 DEF SlotsInv, SlotsKnown
    <3>2. k # Len(calls) BY <1>1, <2>1, <3>1
    <3>3. k \in 1..(Len(calls) - 1) BY <1>1, <3>2 DEF Under
    <3> QED BY <1>2, <1>4, <3>1, <3>3
  <2> QED BY <2>1, <2>2 DEF SlotsInv, SlotsKnown
<1>13. TokensDiffer'
  <2> SUFFICES ASSUME NEW i \in AckSlots, NEW j \in AckSlots, ~ackWait'[i].free,
                      ~ackWait'[j].free, ackWait'[i].token = ackWait'[j].token
               PROVE  i = j
    BY DEF TokensDiffer, AckSlots
  <2> QED BY <1>6 DEF SlotsInv, TokensDiffer
<1>14. Kept'
  <2> SUFFICES ASSUME NEW t \in tracked, notified[t] = 0
               PROVE  \E i \in AckSlots : ~ackWait'[i].free /\ ackWait'[i].token = t
    BY DEF Kept, AckSlots
  <2>1. PICK i \in AckSlots : ~ackWait[i].free /\ ackWait[i].token = t BY DEF SlotsInv, Kept
  <2>2. ~(Busy(Call) /\ i = Call.ack)
    <3> SUFFICES ASSUME Busy(Call), i = Call.ack PROVE FALSE OBVIOUS
    <3>1. Owned(Call) BY <1>1 DEF CallsInv, BusyOwns
    <3> QED BY <2>1, <3>1 DEF Owned
  <2> QED BY <1>6, <2>1, <2>2
<1>15. NotifiedKnown' /\ MessagesKnown' BY DEF SlotsInv, NotifiedKnown, MessagesKnown
<1> QED BY <1>7, <1>8, <1>10, <1>11, <1>12, <1>13, <1>14, <1>15 DEF CallsInv, SlotsInv

\* While callbacks make no request a request finds no other call under way.
LEMMA RequestIsOnly ==
  ASSUME TypeInv, CallsInv, NEW pc \in RequestPcs, At(pc)
  PROVE  /\ Len(calls) = 1 /\ Under = {1} /\ calls[1] = Call /\ Call \in CallSet
         /\ Call.pc \in RequestPcs /\ Call.pc \notin NotifyPcs
         /\ ackWait[Call.ack].free /\ Call.ack \in AckSlots /\ Call.token = requests
         /\ requests \notin tracked
<1>1. /\ calls # <<>> /\ calls \in Seq(CallSet) /\ Call.pc = pc /\ Call \in CallSet
  BY AtCall
<1>2. Len(calls) \in Under /\ Call = calls[Len(calls)] BY <1>1, TopCall
<1>3. /\ Len(calls) = 1 /\ ackWait[Call.ack].free /\ Call.token = requests
      /\ requests \notin tracked
  BY <1>1, <1>2 DEF CallsInv, RequestAlone
<1>4. Under = {1} BY <1>3 DEF Under
<1>5. Call.ack \in AckSlots BY <1>1 DEF CallSet
<1> QED BY <1>1, <1>2, <1>3, <1>4, <1>5, PcsDiffer

LEMMA RequestStepOnce ==
  ASSUME TypeInv, ~env.callbackActs, CallsInv /\ SlotsInv, NEW action \in env.actions,
         NEW sticky \in BOOLEAN, Request(action, sticky)
  PROVE  (CallsInv /\ SlotsInv)'
<1>1. /\ calls = <<>> /\ requests' = requests + 1
      /\ UNCHANGED <<ackWait, tracked, notified, service, acks>>
  BY DEF Request, MayCall, external
<1>2. Len(calls) = 0 /\ Under = {} BY <1>1 DEF Under
<1>3. CASE UNCHANGED calls
  <2>1. RequestAlone' /\ OuterWait' BY <1>1, <1>2, <1>3 DEF RequestAlone, OuterWait, Under
  <2> QED BY <1>1, <1>2, <1>3, <2>1, RequestOnce DEF Under
<1>4. ASSUME NEW pc \in RequestPcs, FreeAck < NumAcks,
             calls' = Append(calls, RequestCall(action, sticky, pc))
      PROVE  (CallsInv /\ SlotsInv)'
  <2>1. PICK c \in CallSet : /\ Pushed(c) /\ c.pc = pc /\ c.token = requests + 1
                             /\ c.action = action /\ c.sticky = sticky /\ c.ack = FreeAck
                             /\ c.acc = FreeAccepted /\ c.rej = FreeRejected
    BY <1>4, RequestPushes DEF TypeInv
  <2>2. Len(calls') = 1 /\ calls'[1] = c BY <1>2, <2>1 DEF Pushed
  <2>3. \A k \in 1..Len(calls') : k = 1 BY <2>2
  <2>4. RequestAlone'
    BY <1>1, <1>4, <2>1, <2>2, <2>3, FreeAckFound, TrackedPositive DEF RequestAlone, Under
  <2>5. OuterWait' BY <2>2 DEF OuterWait
  <2>6. \A k \in 1..Len(calls') : calls'[k].pc \notin NotifyPcs
    BY <1>4, <2>1, <2>2, <2>3, PcsDiffer
  <2> QED BY <1>1, <1>2, <2>4, <2>5, <2>6, RequestOnce
<1>5. {"publish", "accepted", "undo"} \subseteq RequestPcs BY DEF RequestPcs
<1> QED BY <1>3, <1>4, <1>5 DEF Request

LEMMA SubscribeOnce ==
  ASSUME TypeInv, CallsInv /\ SlotsInv, SubscribeAccepted \/ SubscribeRejected \/ ClearEntries
  PROVE  (CallsInv /\ SlotsInv)'
<1>1. UNCHANGED <<ackWait, requests, tracked, notified, service, acks>>
  BY DEF SubscribeAccepted, SubscribeRejected, ClearEntries, records, history
<1>2. PICK pc \in {"accepted", "rejected", "cleanup", "undo"} : At(pc)
  BY DEF SubscribeAccepted, SubscribeRejected, ClearEntries
<1>3. pc \in RequestPcs /\ {"rejected", "cleanup", "publish"} \subseteq RequestPcs BY DEF RequestPcs
<1>4. /\ Len(calls) = 1 /\ Under = {1} /\ calls[1] = Call /\ Call \in CallSet
      /\ Call.pc \in RequestPcs /\ Call.pc \notin NotifyPcs
      /\ ackWait[Call.ack].free /\ Call.ack \in AckSlots /\ Call.token = requests
      /\ requests \notin tracked
  BY <1>2, <1>3, RequestIsOnly
<1>5. \A k \in Under : calls[k].pc \notin NotifyPcs BY <1>4
<1>6. CASE Return
  <2>1. Popped BY <1>2, <1>6, AtCall, FrontPops DEF Return
  <2>2. Len(calls') = 0 BY <1>4, <2>1 DEF Popped
  <2>3. 1..Len(calls') = {} BY <2>2
  <2>4. RequestAlone' /\ OuterWait' BY <2>2, <2>3 DEF RequestAlone, OuterWait, Under
  <2> QED BY <1>1, <1>5, <2>3, <2>4, RequestOnce
<1>7. ASSUME NEW next \in {"rejected", "cleanup", "publish"}, Goto(next)
      PROVE  (CallsInv /\ SlotsInv)'
  <2>1. PICK c \in CallSet : /\ Replaced(c) /\ Alike(c, Call) /\ c.pc = next
                             /\ c.kind = Call.kind /\ c.acc = Call.acc
    BY <1>2, <1>3, <1>7, AtCall, GotoReplaces
  <2>2. Len(calls') = 1 /\ calls'[1] = c BY <1>4, <2>1 DEF Replaced
  <2>3. \A k \in 1..Len(calls') : k = 1 BY <2>2
  <2>4. RequestAlone' BY <1>1, <1>4, <2>1, <2>2, <2>3 DEF RequestAlone, Under, Alike
  <2>5. OuterWait' BY <2>2 DEF OuterWait
  <2>6. \A k \in 1..Len(calls') : calls'[k].pc \notin NotifyPcs
    BY <1>3, <2>1, <2>2, <2>3, PcsDiffer
  <2> QED BY <1>1, <1>5, <2>4, <2>5, <2>6, RequestOnce
<1> QED BY <1>6, <1>7 DEF SubscribeAccepted, SubscribeRejected, ClearEntries

LEMMA PublishOnce ==
  ASSUME TypeInv, CallsInv /\ SlotsInv, Publish
  PROVE  (CallsInv /\ SlotsInv)'
<1>1. At("publish") /\ Return /\ UNCHANGED <<requests, notified, acks>> BY DEF Publish
<1>2. "publish" \in RequestPcs BY DEF RequestPcs
<1>3. /\ Len(calls) = 1 /\ Under = {1} /\ calls[1] = Call /\ Call \in CallSet
      /\ Call.pc \in RequestPcs /\ Call.pc \notin NotifyPcs
      /\ ackWait[Call.ack].free /\ Call.ack \in AckSlots /\ Call.token = requests
      /\ requests \notin tracked
  BY <1>1, <1>2, RequestIsOnly
<1>4. Popped BY <1>1, AtCall, FrontPops DEF Return
<1>5. Len(calls') = 0 /\ 1..Len(calls') = {} BY <1>3, <1>4 DEF Popped
<1>6. CallsInv' BY <1>5 DEF CallsInv, RequestAlone, OuterWait, BusyOwns, BusyDiffer, Under
<1>7. \A k \in Under : ~Busy(calls[k]) BY <1>3 DEF Busy
<1>8. \A i \in AckSlots : ~ackWait[i].free =>
        ackWait[i].token \in tracked /\ notified[ackWait[i].token] = 0
  BY <1>7 DEF SlotsInv, SlotsKnown
<1>9. CASE UNCHANGED <<ackWait, tracked, service>>
  <2>1. SlotsKnown' BY <1>1, <1>8, <1>9 DEF SlotsKnown, AckSlots
  <2>2. TokensDiffer' /\ NotifiedKnown' /\ Kept' /\ MessagesKnown'
    BY <1>1, <1>9 DEF SlotsInv, TokensDiffer, NotifiedKnown, Kept, MessagesKnown, AckSlots
  <2> QED BY <1>6, <2>1, <2>2 DEF SlotsInv
<1>10. CASE /\ ackWait' = [ackWait EXCEPT ![Call.ack] =
                             [free |-> FALSE, token |-> Call.token, action |-> Call.action]]
            /\ tracked' = tracked \cup {Call.token}
            /\ service' = service \cup {[token |-> Call.token, action |-> Call.action]}
  <2> DEFINE t == Call.token
             r == [token |-> Call.token, action |-> Call.action]
  <2>1. t \in 1..requests /\ t \in 1..MaxRequests /\ t # 0 /\ t \notin tracked
    <3>1. Call.token \in 1..requests BY <1>1, <1>2, AtCall DEF CallFits
    <3> QED BY <1>3, <3>1, EnvTyped DEF TypeInv, RequestsTyped
  <2>2. notified[t] = 0 BY <2>1 DEF SlotsInv, NotifiedKnown
  <2>3. /\ ~ackWait'[Call.ack].free /\ ackWait'[Call.ack].token = t
        /\ \A i \in AckSlots : i # Call.ack => ackWait'[i] = ackWait[i]
    <3>1. ackWait \in [AckSlots -> Slots] BY DEF TypeInv, AcksTyped
    <3> QED BY <1>3, <1>10, <3>1
  <2>4. SlotsKnown'
    <3> SUFFICES ASSUME NEW i \in AckSlots, ~ackWait'[i].free
                 PROVE  ackWait'[i].token \in tracked' /\ notified[ackWait'[i].token] = 0
      BY <1>1 DEF SlotsKnown, AckSlots
    <3> QED BY <1>8, <1>10, <2>2, <2>3
  <2>5. TokensDiffer'
    <3> SUFFICES ASSUME NEW i \in AckSlots, NEW j \in AckSlots, ~ackWait'[i].free,
                        ~ackWait'[j].free, ackWait'[i].token = ackWait'[j].token
                 PROVE  i = j
      BY DEF TokensDiffer, AckSlots
    <3> QED BY <1>8, <2>1, <2>3 DEF SlotsInv, TokensDiffer
  <2>6. NotifiedKnown' BY <1>1, <1>10 DEF SlotsInv, NotifiedKnown
  <2>7. Kept'
    <3> SUFFICES ASSUME NEW u \in tracked', notified[u] = 0
                 PROVE  \E i \in AckSlots : ~ackWait'[i].free /\ ackWait'[i].token = u
      BY <1>1 DEF Kept, AckSlots
    <3>1. CASE u = t BY <1>3, <2>3, <3>1
    <3>2. CASE u \in tracked
      <4>1. PICK i \in AckSlots : ~ackWait[i].free /\ ackWait[i].token = u
        BY <3>2 DEF SlotsInv, Kept
      <4> QED BY <1>3, <2>3, <4>1
    <3> QED BY <1>10, <3>1, <3>2
  <2>8. MessagesKnown'
    <3>1. service' = service \cup {r} /\ r.token = t BY <1>10
    <3>2. /\ \A q \in service : q.token \in tracked /\ \A m \in acks : m.token # q.token
          /\ \A q, s \in service : q.token = s.token => q = s
          /\ \A m \in acks : m.token \in tracked \cup {0}
          /\ \A m, n \in acks : m.token = n.token /\ m.token # 0 => m = n
      BY DEF SlotsInv, MessagesKnown
    <3> HIDE DEF r
    <3>3. \A q \in service' : q.token \in tracked' /\ \A m \in acks' : m.token # q.token
      BY <1>1, <1>10, <2>1, <3>1, <3>2
    <3>4. \A q, s \in service' : q.token = s.token => q = s BY <2>1, <3>1, <3>2
    <3>5. \A m \in acks' : m.token \in tracked' \cup {0} BY <1>1, <1>10, <3>2
    <3> QED BY <1>1, <3>2, <3>3, <3>4, <3>5 DEF MessagesKnown
  <2> QED BY <1>6, <2>4, <2>5, <2>6, <2>7, <2>8 DEF SlotsInv
<1> QED BY <1>9, <1>10 DEF Publish

\* A message is delivered or lost; nobody is notified.
LEMMA DropOnce ==
  ASSUME CallsInv /\ SlotsInv, UNCHANGED <<ackWait, calls, requests, tracked, notified, service>>,
         acks' \subseteq acks
  PROVE  (CallsInv /\ SlotsInv)'
<1>1. RequestAlone' /\ OuterWait' /\ BusyDiffer'
  BY DEF CallsInv, RequestAlone, OuterWait, BusyDiffer, Under, Busy, Waits, RequestPcs
<1>2. BusyOwns' BY DEF CallsInv, BusyOwns, Owned, Under, Busy
<1>3. SlotsKnown' /\ TokensDiffer' /\ NotifiedKnown' /\ Kept'
  BY DEF SlotsInv, SlotsKnown, TokensDiffer, NotifiedKnown, Kept, AckSlots, Under, Busy
<1>4. MessagesKnown' BY DEF SlotsInv, MessagesKnown
<1> QED BY <1>1, <1>2, <1>3, <1>4 DEF CallsInv, SlotsInv

\* An answer that finds its record is the first notice: an earlier answer
\* would have been the same message, and the timeout's callback takes no
\* messages.
LEMMA AnswerFirst ==
  ASSUME TypeInv, CallsInv /\ SlotsInv, Delivering, NEW m \in acks, NEW i \in AckSlots,
         ~ackWait[i].free, ackWait[i].token = m.token
  PROVE  notified[ackWait[i].token] = 0 /\ (calls = <<>> \/ Call.pc \in Waits)
<1>1. calls = <<>> \/ Call.pc \in Waits BY DEF Delivering, At
<1>2. \A k \in Under : calls[k].pc # "callback"
  <2> SUFFICES ASSUME NEW k \in Under PROVE calls[k].pc \in Waits BY PcsDiffer
  <2>1. calls \in Seq(CallSet) /\ Len(calls) \in Nat BY DEF TypeInv, CallsTyped
  <2>2. CASE k = Len(calls)
    <3>1. calls # <<>> BY <2>2 DEF Under
    <3> QED BY <1>1, <2>1, <2>2, <3>1, TopCall
  <2>3. CASE k # Len(calls)
    <3>1. k \in 1..(Len(calls) - 1) BY <2>1, <2>3 DEF Under
    <3> QED BY <3>1 DEF CallsInv, OuterWait
  <2> QED BY <2>2, <2>3
<1>3. ASSUME notified[ackWait[i].token] # 0 PROVE FALSE
  <2>1. PICK k \in Under : Busy(calls[k]) /\ calls[k].ack = i
    BY <1>3 DEF SlotsInv, SlotsKnown
  <2>2. calls[k].acked BY <1>2, <2>1 DEF Busy
  <2>3. Owned(calls[k]) BY <2>1 DEF CallsInv, BusyOwns
  <2> QED BY <2>1, <2>2, <2>3 DEF Owned
<1> QED BY <1>1, <1>3

LEMMA AckOnce ==
  ASSUME TypeInv, UNCHANGED env, CallsInv /\ SlotsInv, AckStatusCallback
  PROVE  (CallsInv /\ SlotsInv)'
<1>1. UNCHANGED <<ackWait, requests, tracked, service>> BY DEF AckStatusCallback
<1>2. PICK m \in acks :
           /\ acks' = acks \ {m} /\ Delivering
           /\ \/ UNCHANGED <<calls, notified>>
              \/ \E i \in AckSlots, c \in CallSet :
                   /\ ~ackWait[i].free /\ ackWait[i].token = m.token
                   /\ notified' = [notified EXCEPT ![m.token] = @ + 1]
                   /\ Pushed(c) /\ c.pc = "callback" /\ c.ack = i /\ c.acked
                   /\ c.action = ackWait[i].action /\ c.kind = "accepted"
                   /\ CallFits(c, requests, env.actions)
  BY AckPushes
<1>3. CASE UNCHANGED <<calls, notified>> BY <1>1, <1>2, <1>3, DropOnce
<1>4. ASSUME NEW i \in AckSlots, NEW c \in CallSet,
             ~ackWait[i].free, ackWait[i].token = m.token,
             notified' = [notified EXCEPT ![m.token] = @ + 1],
             Pushed(c), c.pc = "callback", c.ack = i, c.acked
      PROVE  (CallsInv /\ SlotsInv)'
  <2>1. notified[ackWait[i].token] = 0 /\ (calls = <<>> \/ Call.pc \in Waits)
    BY <1>2, <1>4, AnswerFirst
  <2>2. m.token \in tracked /\ m.token # 0
    BY <1>4, TrackedPositive DEF SlotsInv, SlotsKnown
  <2>3. \A n \in acks' \cup service : n.token # ackWait[i].token
    BY <1>2, <1>4, <2>2 DEF SlotsInv, MessagesKnown
  <2>4. acks' \subseteq acks BY <1>2
  <2> QED BY <1>1, <1>4, <2>1, <2>3, <2>4, NotifyOnce
<1> QED BY <1>2, <1>3, <1>4

LEMMA ExpiredOnce ==
  ASSUME TypeInv, UNCHANGED env, CallsInv /\ SlotsInv, NEW i \in AckSlots, HandleExpired(i)
  PROVE  (CallsInv /\ SlotsInv)'
<1>1. UNCHANGED <<ackWait, requests, tracked, service, acks>>
  BY DEF HandleExpired, records, external
<1>2. /\ calls = <<>> /\ ~ackWait[i].free
      /\ notified' = [notified EXCEPT ![ackWait[i].token] = @ + 1]
      /\ \E c \in CallSet : /\ Pushed(c) /\ c.pc = "callback" /\ c.ack = i /\ ~c.acked
                            /\ c.action = ackWait[i].action /\ c.kind = "accepted"
                            /\ CallFits(c, requests, env.actions)
  BY ExpiredPushes
<1>3. PICK c \in CallSet : Pushed(c) /\ c.pc = "callback" /\ c.ack = i /\ ~c.acked BY <1>2
<1>4. Under = {} BY <1>2 DEF Under
<1>5. notified[ackWait[i].token] = 0 BY <1>2, <1>4 DEF SlotsInv, SlotsKnown
<1> QED BY <1>1, <1>2, <1>3, <1>5, NotifyOnce

LEMMA CallbackReturnOnce ==
  ASSUME TypeInv, CallsInv /\ SlotsInv, CallbackReturn
  PROVE  (CallsInv /\ SlotsInv)'
<1>1. /\ At("callback") /\ Goto("release")
      /\ UNCHANGED <<requests, tracked, notified, service, acks>>
  BY DEF CallbackReturn, history, external
<1>2. calls # <<>> /\ calls \in Seq(CallSet) /\ Call \in CallSet /\ Call.pc = "callback"
  BY <1>1, AtCall
<1>3. {"callback", "release"} \subseteq NotifyPcs BY DEF NotifyPcs
<1>4. PICK c \in CallSet : /\ Replaced(c) /\ Alike(c, Call) /\ c.pc = "release"
                           /\ c.kind = Call.kind /\ c.acc = Call.acc
  BY <1>1, <1>2, <1>3, GotoReplaces
<1>5. c.ack = Call.ack /\ c.acked = Call.acked BY <1>4 DEF Alike
<1>6. Busy(Call) /\ (Busy(c) <=> c.acked) BY <1>2, <1>3, <1>4 DEF Busy
<1>7. Call.acked \in BOOLEAN BY <1>2 DEF CallSet
<1>8. CASE Call.acked
  <2>1. UNCHANGED ackWait BY <1>8 DEF CallbackReturn
  <2> QED BY <1>1, <1>2, <1>3, <1>4, <1>5, <1>6, <1>8, <2>1, StayOnce
<1>9. CASE ~Call.acked
  <2>1. ackWait' = [ackWait EXCEPT ![Call.ack].free = TRUE] BY <1>9 DEF CallbackReturn
  <2> QED BY <1>1, <1>2, <1>3, <1>4, <1>5, <1>6, <1>9, <2>1, EndOnce
<1> QED BY <1>7, <1>8, <1>9

LEMMA NextReleaseOnce ==
  ASSUME TypeInv, CallsInv /\ SlotsInv, NEW pc \in {"release", "unsubscribe"}, At(pc),
         ReleaseNext, UNCHANGED <<requests, tracked, notified, service, acks>>
  PROVE  (CallsInv /\ SlotsInv)'
<1>1. calls # <<>> /\ calls \in Seq(CallSet) /\ Call \in CallSet /\ Call.pc = pc BY AtCall
<1>2. pc \in NotifyPcs /\ pc # "callback" /\ "release" \in NotifyPcs BY DEF NotifyPcs
<1>3. Busy(Call) <=> Call.acked BY <1>1, <1>2 DEF Busy
<1>4. CASE Call.kind = "accepted" /\ UNCHANGED ackWait
           /\ \E c \in CallSet : /\ Replaced(c) /\ Alike(c, Call) /\ c.pc = "release"
                                 /\ c.kind = "rejected" /\ c.acc = Call.acc
  <2>1. PICK c \in CallSet : Replaced(c) /\ Alike(c, Call) /\ c.pc = "release" BY <1>4
  <2>2. c.ack = Call.ack /\ c.acked = Call.acked BY <2>1 DEF Alike
  <2>3. Busy(c) <=> c.acked BY <1>2, <2>1 DEF Busy
  <2> QED BY <1>1, <1>2, <1>3, <1>4, <2>1, <2>2, <2>3, StayOnce
<1>5. CASE /\ Call.kind = "rejected" /\ Popped
           /\ ackWait' = IF Call.acked THEN [ackWait EXCEPT ![Call.ack].free = TRUE] ELSE ackWait
  <2>1. ackWait' = IF Busy(Call) THEN [ackWait EXCEPT ![Call.ack].free = TRUE] ELSE ackWait
    BY <1>3, <1>5
  <2> QED BY <1>1, <1>2, <1>5, <2>1, EndOnce
<1> QED BY <1>4, <1>5, NextReleases

LEMMA ReleaseOnce ==
  ASSUME TypeInv, CallsInv /\ SlotsInv, Release \/ ReleaseUnsubscribed
  PROVE  (CallsInv /\ SlotsInv)'
<1>1. UNCHANGED <<requests, tracked, notified, service, acks>>
  BY DEF Release, ReleaseUnsubscribed, history, external
<1>2. CASE ReleaseUnsubscribed
  BY <1>1, <1>2, NextReleaseOnce DEF ReleaseUnsubscribed
<1>3. CASE Release
  <2>1. At("release") BY <1>3 DEF Release
  <2>2. CASE ReleaseNext BY <1>1, <2>1, <2>2, NextReleaseOnce
  <2>3. CASE /\ UNCHANGED ackWait
             /\ \E c \in CallSet : Replaced(c) /\ Alike(c, Call) /\ c.pc = "unsubscribe"
    <3>1. PICK c \in CallSet : Replaced(c) /\ Alike(c, Call) /\ c.pc = "unsubscribe" BY <2>3
    <3>2. c.ack = Call.ack /\ c.acked = Call.acked BY <3>1 DEF Alike
    <3>3. calls # <<>> /\ Call.pc = "release" BY <2>1, AtCall
    <3>4. Busy(c) <=> Busy(Call) BY <3>1, <3>2, <3>3 DEF Busy, NotifyPcs
    <3>5. {"release", "unsubscribe"} \subseteq NotifyPcs BY DEF NotifyPcs
    <3> QED BY <1>1, <2>3, <3>1, <3>2, <3>3, <3>4, <3>5, StayOnce
  <2> QED BY <1>3, <2>2, <2>3, ReleaseMoves
<1> QED BY <1>2, <1>3

\* The service answers r, or tells of somebody else's update.
LEMMA AnswerOnce ==
  ASSUME TypeInv, CallsInv /\ SlotsInv, UNCHANGED <<ackWait, calls, requests, tracked, notified>>,
         NEW token, \A m \in acks' \ acks : m.token = token,
         \A m, n \in acks' \ acks : m = n,
         \/ token = 0 /\ service' = service
         \/ \E r \in service : r.token = token /\ service' = service \ {r}
  PROVE  (CallsInv /\ SlotsInv)'
<1>1. RequestAlone' /\ OuterWait' /\ BusyDiffer'
  BY DEF CallsInv, RequestAlone, OuterWait, BusyDiffer, Under, Busy, Waits, RequestPcs
<1>2. token \in tracked \cup {0} /\ 0 \notin tracked
  BY TrackedPositive DEF SlotsInv, MessagesKnown
<1>3. service' \subseteq service OBVIOUS
<1>4. BusyOwns'
  <2> SUFFICES ASSUME NEW k \in Under, Busy(calls[k]) PROVE Owned(calls[k])'
    BY DEF BusyOwns, Under, Busy
  <2>1. Owned(calls[k]) /\ calls[k].ack \in AckSlots BY CallOf DEF CallsInv, BusyOwns
  <2>2. ackWait[calls[k].ack].token # 0 BY <1>2, <2>1 DEF SlotsInv, SlotsKnown, Owned
  <2>3. calls[k].acked => ackWait[calls[k].ack].token # token BY <2>1, <2>2 DEF Owned
  <2> QED BY <1>3, <2>1, <2>3 DEF Owned
<1>5. SlotsKnown' /\ TokensDiffer' /\ NotifiedKnown' /\ Kept'
  BY DEF SlotsInv, SlotsKnown, TokensDiffer, NotifiedKnown, Kept, AckSlots, Under, Busy
<1>6. MessagesKnown'
  <2>1. /\ \A q \in service : q.token \in tracked /\ \A m \in acks : m.token # q.token
        /\ \A q, s \in service : q.token = s.token => q = s
        /\ \A m \in acks : m.token \in tracked \cup {0}
        /\ \A m, n \in acks : m.token = n.token /\ m.token # 0 => m = n
    BY DEF SlotsInv, MessagesKnown
  <2>2. \A q \in service' : q.token # token BY <1>2, <2>1
  <2>3. \A m \in acks' : m \in acks \/ m \in acks' \ acks OBVIOUS
  <2>4. \A q \in service' : q.token \in tracked' /\ \A m \in acks' : m.token # q.token
    BY <1>3, <2>1, <2>2, <2>3
  <2>5. \A m \in acks' : m.token \in tracked' \cup {0} BY <1>2, <2>1, <2>3
  <2>6. token # 0 => \A m \in acks : m.token # token BY <2>1
  <2>7. \A m, n \in acks' : m.token = n.token /\ m.token # 0 => m = n
    BY <2>1, <2>3, <2>6
  <2> QED BY <1>3, <2>1, <2>4, <2>5, <2>7 DEF MessagesKnown
<1> QED BY <1>1, <1>4, <1>5, <1>6 DEF CallsInv, SlotsInv

LEMMA OneMessage ==
  ASSUME NEW topic, NEW token, NEW v
  PROVE  \A m, n \in Message(topic, token, v) : m = n
BY DEF Message

LEMMA ServiceOnce ==
  ASSUME TypeInv, CallsInv /\ SlotsInv, ServiceAccepts \/ ServiceRejects \/ OthersUpdate
  PROVE  (CallsInv /\ SlotsInv)'
<1>1. UNCHANGED <<ackWait, calls, requests, tracked, notified>>
  BY DEF ServiceAccepts, ServiceRejects, OthersUpdate, history, records
<1>2. ASSUME NEW topic, NEW token, NEW v, acks' = acks \cup Message(topic, token, v),
             \/ token = 0 /\ service' = service
             \/ \E r \in service : r.token = token /\ service' = service \ {r}
      PROVE  (CallsInv /\ SlotsInv)'
  <2>1. acks' \ acks \subseteq Message(topic, token, v) BY <1>2
  <2>2. \A m \in acks' \ acks : m.token = token BY <2>1, MessageBounded
  <2>3. \A m, n \in acks' \ acks : m = n BY <2>1, OneMessage
  <2> QED BY <1>1, <1>2, <2>2, <2>3, AnswerOnce
<1>3. CASE ServiceAccepts BY <1>2, <1>3 DEF ServiceAccepts
<1>4. CASE ServiceRejects BY <1>2, <1>4 DEF ServiceRejects
<1>5. CASE OthersUpdate BY <1>2, <1>5 DEF OthersUpdate
<1> QED BY <1>3, <1>4, <1>5

LEMMA OnceInit == Init => OnceInv
<1> SUFFICES ASSUME Init PROVE CallsInv /\ SlotsInv BY DEF OnceInv
<1>1. Under = {} /\ Len(calls) = 0 BY DEF Init, Under
<1>2. CallsInv BY <1>1 DEF CallsInv, RequestAlone, OuterWait, BusyOwns, BusyDiffer
<1>3. \A i \in AckSlots : ackWait[i].free BY DEF Init
<1>4. SlotsKnown /\ TokensDiffer BY <1>3 DEF SlotsKnown, TokensDiffer
<1>5. NotifiedKnown BY DEF Init, NotifiedKnown
<1>6. Kept /\ MessagesKnown BY DEF Init, Kept, MessagesKnown
<1> QED BY <1>2, <1>4, <1>5, <1>6 DEF SlotsInv

LEMMA OnceStep == TypeInv /\ OnceInv /\ [Next]_vars => OnceInv'
<1> SUFFICES ASSUME TypeInv, OnceInv, [Next]_vars PROVE OnceInv' OBVIOUS
<1>1. UNCHANGED env
  BY DEF Next, vars, settings, ResetVersion, SwitchDiscard
<1>2. CASE UNCHANGED <<env, ackWait, calls, requests, tracked, notified, service, acks>>
  BY <1>2, OnceSame
<1>3. CASE RecordStep /\ ~env.callbackActs
  <2>0. CallsInv /\ SlotsInv BY <1>3 DEF OnceInv
  <2>1. (CallsInv /\ SlotsInv)' => OnceInv' BY DEF OnceInv
  <2>2. CASE \E action \in env.actions, sticky \in BOOLEAN : Request(action, sticky)
    BY <1>3, <2>0, <2>1, <2>2, RequestStepOnce
  <2>3. CASE CallStep
    BY <2>0, <2>1, <2>3, SubscribeOnce, PublishOnce, CallbackReturnOnce, ReleaseOnce DEF CallStep
  <2>4. CASE AckStatusCallback BY <1>1, <2>0, <2>1, <2>4, AckOnce
  <2>5. CASE \E i \in AckSlots : HandleExpired(i) BY <1>1, <2>0, <2>1, <2>5, ExpiredOnce
  <2>6. CASE RegisterDelta \/ DeltaCallback
    BY <1>1, <1>2, <2>6 DEF RegisterDelta, DeltaCallback, history
  <2>7. CASE ServiceAccepts \/ ServiceRejects \/ OthersUpdate BY <2>0, <2>1, <2>7, ServiceOnce
  <2> QED BY <1>3, <2>2, <2>3, <2>4, <2>5, <2>6, <2>7 DEF RecordStep
<1>4. CASE env.callbackActs BY <1>1, <1>4 DEF OnceInv
<1>5. CASE ResetVersion \/ (\E on \in BOOLEAN : SwitchDiscard(on)) \/ UNCHANGED vars
  BY <1>2, <1>5
     DEF ResetVersion, SwitchDiscard, settings, records, history, external, vars
<1>6. env.callbackActs \in BOOLEAN BY EnvTyped DEF TypeInv, RequestsTyped
<1> QED BY <1>3, <1>4, <1>5, <1>6 DEF Next

LEMMA OnceInvariant == Spec => []OnceInv
BY OnceInit, OnceStep, TypeInvariant, PTL DEF Spec

\* The callback of a request is called at most once, whether its answer
\* comes, its timer runs out, or the two race.
THEOREM NotifiesOnce == Spec => []NotifiedOnce
<1>1. TypeInv /\ OnceInv => NotifiedOnce
  <2> SUFFICES ASSUME TypeInv, OnceInv, Orderly, NEW t \in 1..env.requests
               PROVE  notified[t] <= 1
    BY DEF NotifiedOnce
  <2>1. t \in 1..MaxRequests BY EnvTyped DEF TypeInv, RequestsTyped
  <2> QED BY <2>1 DEF OnceInv, Orderly, SlotsInv, NotifiedKnown
<1> QED BY <1>1, TypeInvariant, OnceInvariant, PTL

\* A request whose callback was not called yet still has its record on the
\* wait list: no other request takes it over.
THEOREM KeepsRecords == Spec => []RecordKept
<1>1. OnceInv => RecordKept BY DEF OnceInv, RecordKept, Orderly, SlotsInv, Kept
<1> QED BY <1>1, OnceInvariant, PTL

=============================================================================
