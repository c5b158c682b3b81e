--------------------------- MODULE SubscriptionsProofs ---------------------------
(***************************************************************************)
(* Proofs about Subscriptions for every set of topics and environments,    *)
(* every size of the handler table, every packet id at which ids start     *)
(* again and every depth of calls nested in callbacks.                     *)
(***************************************************************************)
EXTENDS Subscriptions, FiniteSetTheorems, SequenceTheorems, WellFoundedInduction, TLAPS

-----------------------------------------------------------------------------
(* The search for a free place, and what happens to calls and packets.     *)

LEMMA FreePlaceExists ==
  ASSUME NEW n \in Nat, NEW S
  PROVE  \E i \in 0..n : (\A j \in 0..(i - 1) : j \notin S) /\ (i < n => i \in S)
<1> DEFINE T == {i \in 0..n : i = n \/ i \in S}
<1>1. n \in T /\ T \subseteq Nat OBVIOUS
<1>2. PICK i \in T : \A j \in T : <<j, i>> \notin OpToRel(<, Nat)
  <2> HIDE DEF T
  <2> QED BY <1>1, NatLessThanWellFounded, WFMin
<1>3. \A j \in T : ~(j < i) BY <1>1, <1>2 DEF OpToRel
<1>4. \A j \in 0..(i - 1) : j \notin S
  <2> SUFFICES ASSUME NEW j \in 0..(i - 1), j \in S PROVE FALSE OBVIOUS
  <2>1. j \in T /\ j < i BY <1>1
  <2> QED BY <1>3, <2>1
<1> QED BY <1>4

LEMMA FreeIndexFound ==
  /\ FreeIndex \in 0..NumHandlers /\ NumHandlers \in Nat
  /\ \A j \in 0..(FreeIndex - 1) : handlers[j] # None /\ j \in Slots
  /\ FreeIndex < NumHandlers => FreeIndex \in Slots /\ handlers[FreeIndex] = None
<1>1. NumHandlers \in Nat BY BoundsAssumption
<1>2. \E i \in 0..NumHandlers : /\ \A j \in 0..(i - 1) : handlers[j] # None
                                /\ i < NumHandlers => handlers[i] = None
  <2> DEFINE S == {i \in 0..NumHandlers : handlers[i] = None}
  <2>1. PICK i \in 0..NumHandlers :
          (\A j \in 0..(i - 1) : j \notin S) /\ (i < NumHandlers => i \in S)
    <3> HIDE DEF S
    <3> QED BY <1>1, FreePlaceExists
  <2>2. \A j \in 0..(i - 1) : j \in 0..NumHandlers BY <1>1
  <2> QED BY <2>1, <2>2
<1>3. /\ FreeIndex \in 0..NumHandlers
      /\ \A j \in 0..(FreeIndex - 1) : handlers[j] # None
      /\ FreeIndex < NumHandlers => handlers[FreeIndex] = None
  BY <1>2 DEF FreeIndex
<1> QED BY <1>1, <1>3 DEF Slots

\* What a call under way may be.
Simple(op, topics) == [op : {op}, topic : topics, slot : {0}, itr : {0}]
Subscribing   == [op : {"subscribe"}, topic : Topics, slot : Slots, itr : {0}]
Resubscribing ==
  {c \in [op : {"resubscribe"}, topic : {None}, slot : 0..NumHandlers, itr : Nat] : c.itr < c.slot}
CallSet ==
  Subscribing \cup Resubscribing \cup Simple("unsubscribe", Topics) \cup
  Simple("publish", Messages) \cup Simple("callback", Topics)

\* The packets in either direction.
Outgoing ==
  [type : {"SUBSCRIBE", "UNSUBSCRIBE"}, id : Nat, topic : Topics \cup {None}] \cup
  [type : {"PUBLISH"}, id : Nat, topic : Messages]
Incoming ==
  [type : {"SUBACK", "UNSUBACK"}, id : Nat, topic : Topics \cup {None}] \cup
  [type : {"PUBLISH"}, id : Nat, topic : Topics] \cup
  [type : {"PUBACK"}, id : Nat, topic : Messages]

Under == 1..Len(calls)

\* The innermost call is replaced by c, makes the call c, or returns.
Replaced(c) ==
  /\ c \in CallSet /\ calls' \in Seq(CallSet)
  /\ Len(calls') = Len(calls) /\ calls'[Len(calls)] = c
  /\ \A k \in 1..(Len(calls) - 1) : calls'[k] = calls[k]

Pushed(c) ==
  /\ c \in CallSet /\ calls' \in Seq(CallSet)
  /\ Len(calls') = Len(calls) + 1 /\ calls'[Len(calls) + 1] = c
  /\ \A k \in Under : calls'[k] = calls[k]

Popped ==
  /\ calls' \in Seq(CallSet) /\ calls # <<>>
  /\ Len(calls') = Len(calls) - 1
  /\ \A k \in 1..(Len(calls) - 1) : calls'[k] = calls[k]

LEMMA TopCall ==
  ASSUME calls \in Seq(CallSet), calls # <<>>
  PROVE  /\ Len(calls) \in Nat /\ Len(calls) > 0 /\ Len(calls) \in Under
         /\ Last(calls) = calls[Len(calls)] /\ Last(calls) \in CallSet
BY DEF Last, Under

LEMMA AppendPushes ==
  ASSUME calls \in Seq(CallSet), NEW c \in CallSet, calls' = Append(calls, c)
  PROVE  Pushed(c)
BY DEF Pushed, Under

LEMMA FrontOfCalls ==
  ASSUME calls \in Seq(CallSet), calls # <<>>
  PROVE  /\ Front(calls) \in Seq(CallSet) /\ Len(Front(calls)) = Len(calls) - 1
         /\ \A k \in 1..(Len(calls) - 1) : Front(calls)[k] = calls[k]
         /\ Len(calls) \in Nat /\ Len(calls) > 0
<1> DEFINE n == Len(calls) - 1
<1>1. Len(calls) \in Nat /\ Len(calls) > 0 OBVIOUS
<1>2. n \in Int /\ \A k \in 1..n : calls[k] \in CallSet BY <1>1
<1>3. /\ SubSeq(calls, 1, n) \in Seq(CallSet)
      /\ Len(SubSeq(calls, 1, n)) = IF 1 <= n THEN n - 1 + 1 ELSE 0
      /\ \A k \in 1..(n - 1 + 1) : SubSeq(calls, 1, n)[k] = calls[1 + k - 1]
  <2> HIDE DEF n
  <2> QED BY <1>2, SubSeqProperties
<1>4. \A k \in 1..n : k \in 1..(n - 1 + 1) /\ 1 + k - 1 = k
  <2> HIDE DEF n
  <2> QED BY <1>2
<1>5. n = IF 1 <= n THEN n - 1 + 1 ELSE 0
  <2>1. n \in Nat BY <1>1
  <2> HIDE DEF n
  <2> QED BY <2>1
<1> QED BY <1>1, <1>3, <1>4, <1>5 DEF Front

LEMMA FrontPops ==
  ASSUME calls \in Seq(CallSet), calls # <<>>, calls' = Front(calls)
  PROVE  Popped
BY FrontOfCalls DEF Popped

LEMMA ReplaceReplaces ==
  ASSUME calls \in Seq(CallSet), calls # <<>>, NEW c \in CallSet,
         calls' = Append(Front(calls), c)
  PROVE  Replaced(c)
<1>1. /\ Front(calls) \in Seq(CallSet) /\ Len(Front(calls)) = Len(calls) - 1
      /\ \A k \in 1..(Len(calls) - 1) : Front(calls)[k] = calls[k]
      /\ Len(calls) \in Nat /\ Len(calls) > 0
  BY FrontOfCalls
<1> DEFINE s == Front(calls)
<1> HIDE DEF s
<1>2. /\ s \in Seq(CallSet) /\ Len(s) = Len(calls) - 1 /\ calls' = Append(s, c)
      /\ \A k \in 1..(Len(calls) - 1) : s[k] = calls[k]
  BY <1>1 DEF s
<1> QED BY <1>1, <1>2 DEF Replaced

\* The calls the actions make.
LEMMA CallTyped ==
  /\ \A t \in Topics, s \in Slots : Call("subscribe", t, s, 0) \in CallSet
  /\ \A t \in Topics : Call("unsubscribe", t, 0, 0) \in CallSet /\ Call("callback", t, 0, 0) \in CallSet
  /\ \A m \in Messages : Call("publish", m, 0, 0) \in CallSet
  /\ \A n \in 0..NumHandlers, i \in Nat : i < n => Call("resubscribe", None, n, i) \in CallSet
<1>1. \A t \in Topics, s \in Slots : Call("subscribe", t, s, 0) \in Subscribing
  BY DEF Call, Subscribing
<1>2. \A op, t : Call(op, t, 0, 0) \in Simple(op, {t}) BY DEF Call, Simple
<1>3. \A op, S : \A t \in S : Simple(op, {t}) \subseteq Simple(op, S) BY DEF Simple
<1>4. ASSUME NEW n \in 0..NumHandlers, NEW i \in Nat, i < n
      PROVE  Call("resubscribe", None, n, i) \in Resubscribing
  BY <1>4 DEF Call, Resubscribing
<1> QED BY <1>1, <1>2, <1>3, <1>4 DEF CallSet

LEMMA CallCases ==
  ASSUME NEW c \in CallSet
  PROVE  /\ c.op \in {"subscribe", "unsubscribe", "resubscribe", "publish", "callback"}
         /\ c.op = "subscribe" => c.topic \in Topics /\ c.slot \in Slots
         /\ c.op \in {"unsubscribe", "callback"} => c.topic \in Topics
         /\ c.op = "publish" => c.topic \in Messages
         /\ c.op = "resubscribe" => /\ c.topic = None /\ c.slot \in 0..NumHandlers
                                    /\ c.itr \in Nat /\ c.itr < c.slot
<1>1. CASE c \in Subscribing BY <1>1 DEF Subscribing
<1>2. CASE c \in Resubscribing BY <1>2 DEF Resubscribing
<1>3. CASE c \in Simple("unsubscribe", Topics) BY <1>3 DEF Simple
<1>4. CASE c \in Simple("publish", Messages) BY <1>4 DEF Simple
<1>5. CASE c \in Simple("callback", Topics) BY <1>5 DEF Simple
<1> QED BY <1>1, <1>2, <1>3, <1>4, <1>5 DEF CallSet

LEMMA CallFields ==
  ASSUME NEW op, NEW topic, NEW slot, NEW itr
  PROVE  /\ Call(op, topic, slot, itr).op = op /\ Call(op, topic, slot, itr).topic = topic
         /\ Call(op, topic, slot, itr).slot = slot /\ Call(op, topic, slot, itr).itr = itr
BY DEF Call

-----------------------------------------------------------------------------
(* Types.                                                                  *)

CallsTyped   == calls \in Seq(CallSet)
PacketsTyped == toBroker \in Seq(Outgoing) /\ fromBroker \in Seq(Incoming)
TableTyped   ==
  /\ handlers \in [Slots -> Topics \cup {None}]
  /\ active \subseteq Topics /\ session \subseteq Topics \cup {None}
  /\ connected \in BOOLEAN /\ restored \in BOOLEAN
IdTyped      == packetId \in 1..MaxPacketId
NumbersTyped == published \in 0..MaxPublishes /\ confirmed \cup received \subseteq Messages

TypeInv == env \in Environments /\ CallsTyped /\ PacketsTyped /\ TableTyped /\ IdTyped /\ NumbersTyped

LEMMA NextIdTyped == IdTyped => NextPacketId \in 1..MaxPacketId /\ NextPacketId \in Nat
BY BoundsAssumption DEF IdTyped, NextPacketId

LEMMA BoundsTyped == NumHandlers \in Nat /\ MaxPublishes \in Nat /\ MaxPacketId \in Nat \ {0}
BY BoundsAssumption

\* Sending a packet.
LEMMA SendTypes ==
  ASSUME TypeInv, NEW type, NEW topic, Send(type, topic),
         \/ type \in {"SUBSCRIBE", "UNSUBSCRIBE"} /\ topic \in Topics \cup {None}
         \/ type = "PUBLISH" /\ topic \in Messages
  PROVE  /\ IdTyped' /\ toBroker' \in Seq(Outgoing)
         /\ \E p \in Outgoing : toBroker' = Append(toBroker, p) /\ p.type = type /\ p.topic = topic
<1> DEFINE p == [type |-> type, id |-> NextPacketId, topic |-> topic]
<1>1. NextPacketId \in 1..MaxPacketId /\ NextPacketId \in Nat BY NextIdTyped DEF TypeInv
<1>2. p \in Outgoing BY <1>1 DEF Outgoing
<1>3. p.type = type /\ p.topic = topic OBVIOUS
<1>4. toBroker' = Append(toBroker, p) /\ packetId' = NextPacketId BY DEF Send
<1> HIDE DEF p
<1>5. toBroker' \in Seq(Outgoing) BY <1>2, <1>4 DEF TypeInv, PacketsTyped
<1> QED BY <1>1, <1>2, <1>3, <1>4, <1>5 DEF IdTyped

LEMMA SendFailsTypes ==
  ASSUME TypeInv, SendFails
  PROVE  IdTyped' /\ toBroker' = toBroker
BY NextIdTyped DEF TypeInv, SendFails, IdTyped

LEMMA SubscribeShape ==
  ASSUME TypeInv, NEW topic \in Topics, Subscribe(topic)
  PROVE  /\ MayCall("subscribe") /\ IdTyped'
         /\ UNCHANGED <<handlers, fromBroker, session, connected, restored, active>>
         /\ \/ UNCHANGED <<calls, toBroker>>
            \/ /\ FreeIndex \in Slots /\ handlers[FreeIndex] = None
               /\ Pushed(Call("subscribe", topic, FreeIndex, 0))
               /\ \E p \in Outgoing : /\ toBroker' = Append(toBroker, p)
                                      /\ p.type = "SUBSCRIBE" /\ p.topic = topic
<1>1. MayCall("subscribe") /\ UNCHANGED <<handlers, fromBroker, session, connected, restored, active>>
  BY DEF Subscribe
<1>2. CASE SendFails /\ UNCHANGED calls BY <1>1, <1>2, SendFailsTypes
<1>3. CASE /\ FreeIndex < NumHandlers
           /\ Send("SUBSCRIBE", topic)
           /\ calls' = Append(calls, Call("subscribe", topic, FreeIndex, 0))
  <2>1. FreeIndex \in Slots /\ handlers[FreeIndex] = None BY <1>3, FreeIndexFound
  <2>2. Call("subscribe", topic, FreeIndex, 0) \in CallSet BY <2>1, CallTyped
  <2>3. Pushed(Call("subscribe", topic, FreeIndex, 0))
    BY <1>3, <2>2, AppendPushes DEF TypeInv, CallsTyped
  <2>4. /\ IdTyped'
        /\ \E p \in Outgoing : /\ toBroker' = Append(toBroker, p)
                               /\ p.type = "SUBSCRIBE" /\ p.topic = topic
    BY <1>3, SendTypes
  <2> QED BY <1>1, <2>1, <2>3, <2>4
<1> QED BY <1>2, <1>3 DEF Subscribe

LEMMA UnsubscribeShape ==
  ASSUME TypeInv, NEW topic \in Topics, Unsubscribe(topic)
  PROVE  /\ MayCall("unsubscribe") /\ IdTyped'
         /\ UNCHANGED <<handlers, fromBroker, session, connected, restored, active>>
         /\ \/ UNCHANGED <<calls, toBroker>>
            \/ /\ Pushed(Call("unsubscribe", topic, 0, 0))
               /\ \E p \in Outgoing : /\ toBroker' = Append(toBroker, p)
                                      /\ p.type = "UNSUBSCRIBE" /\ p.topic = topic
<1>1. MayCall("unsubscribe") /\ UNCHANGED <<handlers, fromBroker, session, connected, restored, active>>
  BY DEF Unsubscribe
<1>2. CASE SendFails /\ UNCHANGED calls BY <1>1, <1>2, SendFailsTypes
<1>3. CASE /\ Send("UNSUBSCRIBE", topic)
           /\ calls' = Append(calls, Call("unsubscribe", topic, 0, 0))
  <2>1. Call("unsubscribe", topic, 0, 0) \in CallSet BY CallTyped
  <2>2. Pushed(Call("unsubscribe", topic, 0, 0))
    BY <1>3, <2>1, AppendPushes DEF TypeInv, CallsTyped
  <2>3. /\ IdTyped'
        /\ \E p \in Outgoing : /\ toBroker' = Append(toBroker, p)
                               /\ p.type = "UNSUBSCRIBE" /\ p.topic = topic
    BY <1>3, SendTypes
  <2> QED BY <1>1, <2>2, <2>3
<1> QED BY <1>2, <1>3 DEF Unsubscribe

LEMMA PublishShape ==
  ASSUME TypeInv, Publish
  PROVE  /\ MayCall("publish") /\ IdTyped'
         /\ UNCHANGED <<handlers, fromBroker, session, connected, restored, active, confirmed, received>>
         /\ published' = published + 1 /\ published' \in Messages
         /\ \/ UNCHANGED <<calls, toBroker>>
            \/ /\ Pushed(Call("publish", published', 0, 0))
               /\ \E p \in Outgoing : /\ toBroker' = Append(toBroker, p)
                                      /\ p.type = "PUBLISH" /\ p.topic = published'
<1>1. /\ MayCall("publish") /\ published' = published + 1 /\ published < MaxPublishes
      /\ UNCHANGED <<handlers, fromBroker, session, connected, restored, active, confirmed, received>>
  BY DEF Publish
<1>2. published' \in Messages BY <1>1, BoundsTyped DEF TypeInv, NumbersTyped, Messages
<1>3. CASE SendFails /\ UNCHANGED calls BY <1>1, <1>2, <1>3, SendFailsTypes
<1>4. CASE /\ Send("PUBLISH", published')
           /\ calls' = Append(calls, Call("publish", published', 0, 0))
  <2>1. Call("publish", published', 0, 0) \in CallSet BY <1>2, CallTyped
  <2>2. Pushed(Call("publish", published', 0, 0))
    BY <1>4, <2>1, AppendPushes DEF TypeInv, CallsTyped
  <2>3. /\ IdTyped'
        /\ \E p \in Outgoing : /\ toBroker' = Append(toBroker, p)
                               /\ p.type = "PUBLISH" /\ p.topic = published'
    BY <1>2, <1>4, SendTypes
  <2> QED BY <1>1, <1>2, <2>2, <2>3
<1> QED BY <1>3, <1>4 DEF Publish

\* A resubscribe ends, or sends the handler at place i and waits.
Resubscribes(i, n) ==
  \/ UNCHANGED toBroker /\ calls' = <<>> /\ i = n /\ restored' = TRUE
  \/ UNCHANGED toBroker /\ calls' = <<>> /\ restored' = FALSE
  \/ /\ i < n /\ i \in Slots /\ restored' = FALSE
     /\ calls' = <<Call("resubscribe", None, n, i)>>
     /\ Call("resubscribe", None, n, i) \in CallSet
     /\ \E p \in Outgoing : /\ toBroker' = Append(toBroker, p)
                            /\ p.type = "SUBSCRIBE" /\ p.topic = handlers[i]

LEMMA ResubscribeShape ==
  ASSUME TypeInv, NEW i \in Nat, NEW n \in 0..NumHandlers, ResubscribeNext(<<>>, i, n)
  PROVE  IdTyped' /\ Resubscribes(i, n)
<1>1. CASE /\ i = n /\ calls' = <<>> /\ restored' = TRUE /\ UNCHANGED <<packetId, toBroker>>
  BY <1>1 DEF TypeInv, IdTyped, Resubscribes
<1>2. CASE i < n /\ SendFails /\ calls' = <<>> /\ restored' = FALSE
  BY <1>2, SendFailsTypes DEF Resubscribes
<1>3. CASE /\ i < n /\ Send("SUBSCRIBE", handlers[i]) /\ restored' = FALSE
           /\ calls' = Append(<<>>, Call("resubscribe", None, n, i))
  <2>1. i \in Slots BY <1>3, BoundsTyped DEF Slots
  <2>2. handlers[i] \in Topics \cup {None} BY <2>1 DEF TypeInv, TableTyped
  <2>3. Call("resubscribe", None, n, i) \in CallSet BY <1>3, CallTyped
  <2>4. /\ IdTyped'
        /\ \E p \in Outgoing : /\ toBroker' = Append(toBroker, p)
                               /\ p.type = "SUBSCRIBE" /\ p.topic = handlers[i]
    BY <1>3, <2>2, SendTypes
  <2>5. calls' = <<Call("resubscribe", None, n, i)>> BY <1>3
  <2> QED BY <1>3, <2>1, <2>3, <2>4, <2>5 DEF Resubscribes
<1> QED BY <1>1, <1>2, <1>3 DEF ResubscribeNext

\* Where the calls under way were made from: a resubscribe is the outermost
\* call, and calls inside it or inside others were made by callbacks.
Placed ==
  \A k \in Under :
    /\ calls[k].op = "resubscribe" => k = 1
    /\ k = 1 => calls[k].op \in env.ops \cup {"resubscribe", "callback"}
    /\ k > 1 => calls[k].op \in env.callbackOps \cup {"callback"}

LEMMA PushPlaced ==
  ASSUME CallsTyped, Placed, UNCHANGED env, NEW c \in CallSet, Pushed(c),
         calls = <<>> => c.op \in env.ops \cup {"resubscribe", "callback"},
         calls # <<>> => c.op # "resubscribe" /\ c.op \in env.callbackOps \cup {"callback"}
  PROVE  CallsTyped' /\ Placed'
<1>1. Len(calls) \in Nat /\ (calls = <<>> <=> Len(calls) = 0) BY DEF CallsTyped
<1>2. CallsTyped' BY DEF Pushed, CallsTyped
<1>3. /\ Len(calls') = Len(calls) + 1 /\ calls'[Len(calls) + 1] = c
      /\ \A k \in Under : calls'[k] = calls[k]
  BY DEF Pushed
<1>4. Placed'
  <2> SUFFICES ASSUME NEW k \in 1..Len(calls')
               PROVE  /\ calls'[k].op = "resubscribe" => k = 1
                      /\ k = 1 => calls'[k].op \in env.ops \cup {"resubscribe", "callback"}
                      /\ k > 1 => calls'[k].op \in env.callbackOps \cup {"callback"}
    BY DEF Placed, Under
  <2>1. CASE k \in Under BY <1>3, <2>1 DEF Placed
  <2>2. CASE k = Len(calls) + 1
    <3>1. CASE Len(calls) = 0 BY <1>1, <1>3, <2>2, <3>1
    <3>2. CASE Len(calls) # 0 BY <1>1, <1>3, <2>2, <3>2
    <3> QED BY <3>1, <3>2
  <2> QED BY <1>1, <1>3, <2>1, <2>2 DEF Under
<1> QED BY <1>2, <1>4

LEMMA PopPlaced ==
  ASSUME CallsTyped, Placed, UNCHANGED env, Popped
  PROVE  CallsTyped' /\ Placed'
<1>1. Len(calls) \in Nat BY DEF CallsTyped
<1>2. \A k \in 1..Len(calls') : k \in Under /\ calls'[k] = calls[k]
  BY <1>1 DEF Popped, Under
<1> QED BY <1>2 DEF Popped, CallsTyped, Placed, Under

\* A call of the application is typed and placed.
LEMMA CallPlaced ==
  ASSUME CallsTyped, Placed, UNCHANGED env, NEW op \in {"subscribe", "unsubscribe", "publish"},
         MayCall(op), NEW c \in CallSet, c.op = op, Pushed(c)
  PROVE  CallsTyped' /\ Placed'
<1>1. calls = <<>> => c.op \in env.ops \cup {"resubscribe", "callback"} BY DEF MayCall
<1>2. calls # <<>> => c.op # "resubscribe" /\ c.op \in env.callbackOps \cup {"callback"} BY DEF MayCall
<1> QED BY <1>1, <1>2, PushPlaced

\* A resubscribe that takes its answer is the only call.
LEMMA ResubscribeIsOnly ==
  ASSUME TypeInv, Placed, calls # <<>>, Last(calls).op = "resubscribe"
  PROVE  /\ Len(calls) = 1 /\ Under = {1} /\ calls[1] = Last(calls) /\ Front(calls) = <<>>
         /\ Last(calls) \in CallSet
         /\ Last(calls).slot \in 0..NumHandlers /\ Last(calls).itr \in Nat
         /\ Last(calls).itr < Last(calls).slot
<1>1. /\ Len(calls) \in Nat /\ Len(calls) > 0 /\ Len(calls) \in Under
      /\ Last(calls) = calls[Len(calls)] /\ Last(calls) \in CallSet
  BY TopCall DEF TypeInv, CallsTyped
<1>2. Len(calls) = 1 BY <1>1 DEF Placed
<1>3. Under = {1} BY <1>2 DEF Under
<1>4. Front(calls) = <<>>
  <2>1. Front(calls) \in Seq(CallSet) /\ Len(Front(calls)) = Len(calls) - 1
    BY FrontOfCalls DEF TypeInv, CallsTyped
  <2> DEFINE s == Front(calls)
  <2>2. s \in Seq(CallSet) /\ Len(s) = 0 BY <1>2, <2>1
  <2> HIDE DEF s
  <2>3. s = <<>> BY <2>2
  <2> QED BY <2>3 DEF s
<1> QED BY <1>1, <1>2, <1>3, <1>4, CallCases

LEMMA ResubscribePlaced ==
  ASSUME NEW i, NEW n, Resubscribes(i, n), UNCHANGED env
  PROVE  CallsTyped' /\ Placed'
<1>1. CASE calls' = <<>> BY <1>1 DEF CallsTyped, Placed, Under
<1>2. CASE /\ calls' = <<Call("resubscribe", None, n, i)>>
           /\ Call("resubscribe", None, n, i) \in CallSet
  <2> DEFINE c == Call("resubscribe", None, n, i)
  <2>1. c.op = "resubscribe" BY CallFields
  <2>2. calls' = <<c>> /\ c \in CallSet BY <1>2
  <2> HIDE DEF c
  <2>3. calls' \in Seq(CallSet) /\ Len(calls') = 1 /\ calls'[1] = c BY <2>2
  <2>4. \A k \in 1..Len(calls') : k = 1 BY <2>3
  <2> QED BY <2>1, <2>3, <2>4 DEF CallsTyped, Placed, Under
<1> QED BY <1>1, <1>2 DEF Resubscribes

LEMMA ReadTypes ==
  ASSUME TypeInv, Reading
  PROVE  /\ fromBroker # <<>> /\ fromBroker' = Tail(fromBroker) /\ fromBroker' \in Seq(Incoming)
         /\ Head(fromBroker) \in Incoming
BY DEF TypeInv, PacketsTyped, Reading

LEMMA IncomingCases ==
  ASSUME NEW p \in Incoming
  PROVE  /\ p.type = "PUBLISH" => p.topic \in Topics
         /\ p.type = "PUBACK" => p.topic \in Messages
         /\ p.type \in {"SUBACK", "UNSUBACK", "PUBLISH", "PUBACK"}
BY DEF Incoming

LEMMA OutgoingCases ==
  ASSUME NEW p \in Outgoing
  PROVE  /\ p.type \in {"SUBSCRIBE", "UNSUBSCRIBE"} => p.topic \in Topics \cup {None}
         /\ p.type = "PUBLISH" => p.topic \in Messages
         /\ p.type \in {"SUBSCRIBE", "UNSUBSCRIBE", "PUBLISH"}
BY DEF Outgoing

\* The broker's answer to a packet.
LEMMA AnswerTypes ==
  ASSUME NEW p \in Outgoing, NEW type,
         \/ type \in {"SUBACK", "UNSUBACK"} /\ p.type \in {"SUBSCRIBE", "UNSUBSCRIBE"}
         \/ type = "PUBACK" /\ p.type = "PUBLISH"
  PROVE  /\ [p EXCEPT !.type = type] \in Incoming
         /\ [p EXCEPT !.type = type].type = type
         /\ [p EXCEPT !.type = type].topic = p.topic
BY DEF Outgoing, Incoming

LEMMA ApplicationTypes ==
  ASSUME TypeInv, Placed, UNCHANGED env,
         \/ (\E topic \in Topics : Subscribe(topic) \/ Unsubscribe(topic)) /\ UNCHANGED publishing
         \/ Publish
  PROVE  TypeInv' /\ Placed'
<1>1. CASE \E topic \in Topics : Subscribe(topic) /\ UNCHANGED publishing
  <2>1. PICK topic \in Topics : Subscribe(topic) /\ UNCHANGED publishing BY <1>1
  <2>2. /\ MayCall("subscribe") /\ IdTyped'
        /\ UNCHANGED <<handlers, fromBroker, session, connected, restored, active>>
        /\ \/ UNCHANGED <<calls, toBroker>>
           \/ /\ FreeIndex \in Slots /\ handlers[FreeIndex] = None
              /\ Pushed(Call("subscribe", topic, FreeIndex, 0))
              /\ \E p \in Outgoing : /\ toBroker' = Append(toBroker, p)
                                     /\ p.type = "SUBSCRIBE" /\ p.topic = topic
    BY <2>1, SubscribeShape
  <2>3. CallsTyped' /\ Placed'
    <3>1. CASE UNCHANGED calls BY <3>1 DEF TypeInv, CallsTyped, Placed, Under
    <3>2. CASE Pushed(Call("subscribe", topic, FreeIndex, 0))
      BY <2>2, <3>2, CallFields, CallPlaced DEF TypeInv, Pushed
    <3> QED BY <2>2, <3>1, <3>2
  <2>4. PacketsTyped' BY <2>2 DEF TypeInv, PacketsTyped
  <2> QED BY <2>1, <2>2, <2>3, <2>4 DEF TypeInv, TableTyped, NumbersTyped, publishing, Slots
<1>2. CASE \E topic \in Topics : Unsubscribe(topic) /\ UNCHANGED publishing
  <2>1. PICK topic \in Topics : Unsubscribe(topic) /\ UNCHANGED publishing BY <1>2
  <2>2. /\ MayCall("unsubscribe") /\ IdTyped'
        /\ UNCHANGED <<handlers, fromBroker, session, connected, restored, active>>
        /\ \/ UNCHANGED <<calls, toBroker>>
           \/ /\ Pushed(Call("unsubscribe", topic, 0, 0))
              /\ \E p \in Outgoing : /\ toBroker' = Append(toBroker, p)
                                     /\ p.type = "UNSUBSCRIBE" /\ p.topic = topic
    BY <2>1, UnsubscribeShape
  <2>3. CallsTyped' /\ Placed'
    <3>1. CASE UNCHANGED calls BY <3>1 DEF TypeInv, CallsTyped, Placed, Under
    <3>2. CASE Pushed(Call("unsubscribe", topic, 0, 0))
      BY <2>2, <3>2, CallFields, CallPlaced DEF TypeInv, Pushed
    <3> QED BY <2>2, <3>1, <3>2
  <2>4. PacketsTyped' BY <2>2 DEF TypeInv, PacketsTyped
  <2> QED BY <2>1, <2>2, <2>3, <2>4 DEF TypeInv, TableTyped, NumbersTyped, publishing, Slots
<1>3. CASE Publish
  <2>1. /\ MayCall("publish") /\ IdTyped'
        /\ UNCHANGED <<handlers, fromBroker, session, connected, restored, active, confirmed, received>>
        /\ published' = published + 1 /\ published' \in Messages
        /\ \/ UNCHANGED <<calls, toBroker>>
           \/ /\ Pushed(Call("publish", published', 0, 0))
              /\ \E p \in Outgoing : /\ toBroker' = Append(toBroker, p)
                                     /\ p.type = "PUBLISH" /\ p.topic = published'
    BY <1>3, PublishShape
  <2>2. CallsTyped' /\ Placed'
    <3>1. CASE UNCHANGED calls BY <3>1 DEF TypeInv, CallsTyped, Placed, Under
    <3>2. CASE Pushed(Call("publish", published', 0, 0))
      BY <2>1, <3>2, CallFields, CallPlaced DEF TypeInv, Pushed
    <3> QED BY <2>1, <3>1, <3>2
  <2>3. PacketsTyped' BY <2>1 DEF TypeInv, PacketsTyped
  <2>4. NumbersTyped' BY <2>1, BoundsTyped DEF TypeInv, NumbersTyped, Messages
  <2>5. TableTyped' BY <2>1 DEF TypeInv, TableTyped, Slots
  <2> QED BY <2>1, <2>2, <2>3, <2>4, <2>5 DEF TypeInv
<1> QED BY <1>1, <1>2, <1>3

LEMMA ResubscribeTypes ==
  ASSUME TypeInv, Placed, UNCHANGED <<env, publishing>>, Reconnect \/ ResubscribeAck
  PROVE  /\ TypeInv' /\ Placed' /\ UNCHANGED <<handlers, session, active>>
         /\ connected' = TRUE \/ connected' = connected
         /\ \E i \in Nat, n \in 0..NumHandlers :
              /\ Resubscribes(i, n)
              /\ \/ Reconnect /\ i = 0 /\ n = FreeIndex /\ calls = <<>> /\ ~connected
                 \/ ResubscribeAck /\ Len(calls) = 1 /\ calls[1].op = "resubscribe"
                    /\ i = calls[1].itr + 1 /\ n = calls[1].slot /\ connected' = connected
<1>1. ASSUME NEW i \in Nat, NEW n \in 0..NumHandlers, IdTyped', Resubscribes(i, n),
             UNCHANGED <<handlers, session, active>>, connected' \in BOOLEAN,
             fromBroker' \in Seq(Incoming)
      PROVE  TypeInv' /\ Placed'
  <2>1. CallsTyped' /\ Placed' BY <1>1, ResubscribePlaced
  <2>2. restored' \in BOOLEAN BY <1>1 DEF Resubscribes
  <2>3. UNCHANGED toBroker \/ \E p \in Outgoing : toBroker' = Append(toBroker, p)
    BY <1>1 DEF Resubscribes
  <2>4. toBroker' \in Seq(Outgoing) BY <2>3 DEF TypeInv, PacketsTyped
  <2> QED BY <1>1, <2>1, <2>2, <2>4
          DEF TypeInv, PacketsTyped, TableTyped, NumbersTyped, publishing, Slots
<1>2. CASE Reconnect
  <2>1. /\ calls = <<>> /\ connected' = TRUE /\ ~connected /\ ResubscribeNext(<<>>, 0, FreeIndex)
        /\ UNCHANGED <<handlers, fromBroker, session, active>>
    BY <1>2 DEF Reconnect
  <2>2. FreeIndex \in 0..NumHandlers BY FreeIndexFound
  <2>3. IdTyped' /\ Resubscribes(0, FreeIndex) BY <2>1, <2>2, ResubscribeShape
  <2>4. TypeInv' /\ Placed' BY <1>1, <2>1, <2>2, <2>3 DEF TypeInv, PacketsTyped
  <2> QED BY <1>2, <2>1, <2>2, <2>3, <2>4
<1>3. CASE ResubscribeAck
  <2>1. /\ calls # <<>> /\ Last(calls).op = "resubscribe" /\ Reading
        /\ ResubscribeNext(Front(calls), Last(calls).itr + 1, Last(calls).slot)
        /\ UNCHANGED <<handlers, session, connected, active>>
    BY <1>3 DEF ResubscribeAck, Waiting
  <2>2. /\ Len(calls) = 1 /\ calls[1] = Last(calls) /\ Front(calls) = <<>>
        /\ Last(calls).slot \in 0..NumHandlers /\ Last(calls).itr \in Nat
    BY <2>1, ResubscribeIsOnly
  <2>3. Last(calls).itr + 1 \in Nat BY <2>2
  <2>4. IdTyped' /\ Resubscribes(Last(calls).itr + 1, Last(calls).slot)
    BY <2>1, <2>2, <2>3, ResubscribeShape
  <2>5. TypeInv' /\ Placed' BY <1>1, <2>1, <2>2, <2>3, <2>4, ReadTypes DEF TypeInv, TableTyped
  <2> QED BY <1>3, <2>1, <2>2, <2>3, <2>4, <2>5
<1> QED BY <1>2, <1>3

\* A call returns, with an acknowledgement or without.
LEMMA ReturnShape ==
  ASSUME TypeInv, calls # <<>>, calls' = Front(calls)
  PROVE  /\ Popped /\ Last(calls) = calls[Len(calls)] /\ Last(calls) \in CallSet
         /\ Len(calls) \in Under
BY TopCall, FrontPops DEF TypeInv, CallsTyped

LEMMA AckTypes ==
  ASSUME TypeInv, Placed, UNCHANGED env,
         \/ (SubscribeAck \/ UnsubscribeAck) /\ UNCHANGED publishing
         \/ PublishAck
  PROVE  TypeInv' /\ Placed'
<1>1. /\ calls # <<>> /\ Reading /\ calls' = Front(calls)
      /\ UNCHANGED <<packetId, toBroker, session, connected, restored>>
  BY DEF SubscribeAck, UnsubscribeAck, PublishAck, Waiting
<1>2. Popped /\ Last(calls) \in CallSet BY <1>1, ReturnShape
<1>3. CallsTyped' /\ Placed' BY <1>2, PopPlaced DEF TypeInv
<1>4. PacketsTyped' BY <1>1, ReadTypes DEF TypeInv, PacketsTyped
<1>5. TableTyped' /\ NumbersTyped'
  <2>1. CASE SubscribeAck /\ UNCHANGED publishing
    <3>1. Last(calls).topic \in Topics /\ Last(calls).slot \in Slots
      BY <1>2, <2>1, CallCases DEF SubscribeAck
    <3> QED BY <1>1, <2>1, <3>1
            DEF SubscribeAck, TypeInv, TableTyped, NumbersTyped, publishing, Slots
  <2>2. CASE UnsubscribeAck /\ UNCHANGED publishing
    BY <1>1, <2>2 DEF UnsubscribeAck, TypeInv, TableTyped, NumbersTyped, publishing, Slots
  <2>3. CASE PublishAck
    <3>1. Last(calls).topic \in Messages BY <1>2, <2>3, CallCases DEF PublishAck
    <3> QED BY <1>1, <2>3, <3>1 DEF PublishAck, TypeInv, TableTyped, NumbersTyped, Slots
  <2> QED BY <2>1, <2>2, <2>3
<1> QED BY <1>1, <1>3, <1>4, <1>5 DEF TypeInv, IdTyped

LEMMA DeliverShape ==
  ASSUME TypeInv, ReadPublish
  PROVE  /\ Head(fromBroker).topic \in Topics
         /\ Pushed(Call("callback", Head(fromBroker).topic, 0, 0)) /\ Reading
         /\ Call("callback", Head(fromBroker).topic, 0, 0) \in CallSet
         /\ Head(fromBroker).type = "PUBLISH"
         /\ UNCHANGED <<handlers, packetId, toBroker, session, connected, restored, active>>
<1>1. /\ Reading /\ Head(fromBroker).type = "PUBLISH"
      /\ calls' = Append(calls, Call("callback", Head(fromBroker).topic, 0, 0))
      /\ UNCHANGED <<handlers, packetId, toBroker, session, connected, restored, active>>
  BY DEF ReadPublish
<1>2. Head(fromBroker).topic \in Topics BY <1>1, ReadTypes, IncomingCases
<1>3. Call("callback", Head(fromBroker).topic, 0, 0) \in CallSet BY <1>2, CallTyped
<1> QED BY <1>1, <1>2, <1>3, AppendPushes DEF TypeInv, CallsTyped

LEMMA ReadingTypes ==
  ASSUME TypeInv, Placed, UNCHANGED <<env, publishing>>,
         ReadPublish \/ ReadOther \/ CallbackReturn \/ Timeout
  PROVE  TypeInv' /\ Placed'
<1>1. UNCHANGED <<handlers, packetId, toBroker, session, connected, restored, active>>
  BY DEF ReadPublish, ReadOther, CallbackReturn, Timeout
<1>2. CallsTyped' /\ Placed'
  <2>1. CASE ReadPublish
    <3> DEFINE c == Call("callback", Head(fromBroker).topic, 0, 0)
    <3>1. c \in CallSet /\ Pushed(c) /\ c.op = "callback" BY <2>1, DeliverShape, CallFields
    <3> HIDE DEF c
    <3> QED BY <3>1, PushPlaced DEF TypeInv
  <2>2. CASE ReadOther BY <2>2 DEF ReadOther, TypeInv, CallsTyped, Placed, Under
  <2>3. CASE CallbackReturn \/ Timeout
    <3>1. Popped BY <2>3, ReturnShape DEF CallbackReturn, Timeout, Waiting
    <3> QED BY <3>1, PopPlaced DEF TypeInv
  <2> QED BY <2>1, <2>2, <2>3
<1>3. fromBroker' \in Seq(Incoming)
  BY ReadTypes DEF ReadPublish, ReadOther, CallbackReturn, Timeout, TypeInv, PacketsTyped
<1> QED BY <1>1, <1>2, <1>3
        DEF TypeInv, PacketsTyped, TableTyped, IdTyped, NumbersTyped, publishing, Slots

\* What the broker does with the next packet.
LEMMA BrokerShape ==
  ASSUME TypeInv, BrokerAnswers \/ BrokerReceives
  PROVE  /\ toBroker # <<>> /\ toBroker' = Tail(toBroker) /\ Head(toBroker) \in Outgoing
         /\ UNCHANGED <<handlers, packetId, calls, connected, restored, active>>
         /\ \E q \in Incoming :
              /\ fromBroker' = Append(fromBroker, q) /\ q.topic = Head(toBroker).topic
              /\ \/ /\ BrokerAnswers /\ Head(toBroker).type = "SUBSCRIBE" /\ q.type = "SUBACK"
                    /\ \/ session' = session \cup {Head(toBroker).topic}
                       \/ env.refuses /\ UNCHANGED session
                 \/ /\ BrokerAnswers /\ Head(toBroker).type = "UNSUBSCRIBE" /\ q.type = "UNSUBACK"
                    /\ session' = session \ {Head(toBroker).topic}
                 \/ /\ BrokerReceives /\ Head(toBroker).type = "PUBLISH" /\ q.type = "PUBACK"
                    /\ received' = received \cup {Head(toBroker).topic}
                    /\ UNCHANGED <<session, published, confirmed>>
<1> DEFINE p == Head(toBroker)
<1>1. toBroker # <<>> /\ toBroker' = Tail(toBroker)
      /\ UNCHANGED <<handlers, packetId, calls, connected, restored, active>>
  BY DEF BrokerAnswers, BrokerReceives
<1>2. p \in Outgoing BY <1>1 DEF TypeInv, PacketsTyped
<1>3. CASE BrokerReceives
  <2>1. /\ p.type = "PUBLISH" /\ received' = received \cup {p.topic}
        /\ UNCHANGED <<session, published, confirmed>>
        /\ fromBroker' = Append(fromBroker, [p EXCEPT !.type = "PUBACK"])
    BY <1>3 DEF BrokerReceives
  <2> HIDE DEF p
  <2>2. /\ [p EXCEPT !.type = "PUBACK"] \in Incoming /\ [p EXCEPT !.type = "PUBACK"].type = "PUBACK"
        /\ [p EXCEPT !.type = "PUBACK"].topic = p.topic
    BY <1>2, <2>1, AnswerTypes
  <2>3. \E q \in Incoming : /\ fromBroker' = Append(fromBroker, q) /\ q.topic = p.topic
                            /\ q.type = "PUBACK"
    BY <2>1, <2>2
  <2> QED BY <1>1, <1>2, <1>3, <2>1, <2>3 DEF p
<1>4. CASE BrokerAnswers /\ p.type = "SUBSCRIBE"
  <2>1. /\ session' = session \cup {p.topic} \/ (env.refuses /\ UNCHANGED session)
        /\ fromBroker' = Append(fromBroker, [p EXCEPT !.type = "SUBACK"])
    BY <1>4 DEF BrokerAnswers
  <2> HIDE DEF p
  <2>2. /\ [p EXCEPT !.type = "SUBACK"] \in Incoming /\ [p EXCEPT !.type = "SUBACK"].type = "SUBACK"
        /\ [p EXCEPT !.type = "SUBACK"].topic = p.topic
    BY <1>2, <1>4, AnswerTypes
  <2>3. \E q \in Incoming : /\ fromBroker' = Append(fromBroker, q) /\ q.topic = p.topic
                            /\ q.type = "SUBACK"
    BY <2>1, <2>2
  <2> QED BY <1>1, <1>2, <1>4, <2>1, <2>3 DEF p
<1>5. CASE BrokerAnswers /\ p.type = "UNSUBSCRIBE"
  <2>1. /\ session' = session \ {p.topic}
        /\ fromBroker' = Append(fromBroker, [p EXCEPT !.type = "UNSUBACK"])
    BY <1>5 DEF BrokerAnswers
  <2> HIDE DEF p
  <2>2. /\ [p EXCEPT !.type = "UNSUBACK"] \in Incoming
        /\ [p EXCEPT !.type = "UNSUBACK"].type = "UNSUBACK"
        /\ [p EXCEPT !.type = "UNSUBACK"].topic = p.topic
    BY <1>2, <1>5, AnswerTypes
  <2>3. \E q \in Incoming : /\ fromBroker' = Append(fromBroker, q) /\ q.topic = p.topic
                            /\ q.type = "UNSUBACK"
    BY <2>1, <2>2
  <2> QED BY <1>1, <1>2, <1>5, <2>1, <2>3 DEF p
<1> QED BY <1>3, <1>4, <1>5 DEF BrokerAnswers

LEMMA BrokerTypes ==
  ASSUME TypeInv, Placed, UNCHANGED env,
         \/ BrokerAnswers /\ UNCHANGED publishing
         \/ BrokerReceives
  PROVE  TypeInv' /\ Placed'
<1>1. /\ toBroker # <<>> /\ toBroker' = Tail(toBroker) /\ Head(toBroker) \in Outgoing
      /\ UNCHANGED <<handlers, packetId, calls, connected, restored, active>>
      /\ \E q \in Incoming : fromBroker' = Append(fromBroker, q)
  BY BrokerShape
<1>2. PacketsTyped' BY <1>1 DEF TypeInv, PacketsTyped
<1>3. CallsTyped' /\ Placed' /\ IdTyped'
  BY <1>1 DEF TypeInv, CallsTyped, Placed, Under, IdTyped
<1>4. TableTyped'
  <2>1. Head(toBroker).type = "SUBSCRIBE" => Head(toBroker).topic \in Topics \cup {None}
    BY <1>1, OutgoingCases
  <2>2. \/ session' \subseteq session
        \/ Head(toBroker).type = "SUBSCRIBE" /\ session' \subseteq session \cup {Head(toBroker).topic}
    BY BrokerShape
  <2> QED BY <1>1, <2>1, <2>2 DEF TypeInv, TableTyped, Slots
<1>5. NumbersTyped'
  <2>1. Head(toBroker).type = "PUBLISH" => Head(toBroker).topic \in Messages
    BY <1>1, OutgoingCases
  <2>2. CASE UNCHANGED publishing BY <2>2 DEF TypeInv, NumbersTyped, publishing
  <2>3. CASE BrokerReceives BY <2>1, <2>3 DEF BrokerReceives, TypeInv, NumbersTyped
  <2> QED BY <2>2, <2>3
<1> QED BY <1>2, <1>3, <1>4, <1>5 DEF TypeInv

LEMMA NetworkTypes ==
  ASSUME TypeInv, Placed, UNCHANGED <<env, publishing>>,
         (\E topic \in Topics : BrokerPublishes(topic)) \/ ConnectionLost
  PROVE  TypeInv' /\ Placed'
<1>1. UNCHANGED <<handlers, packetId, calls, restored, active>>
  BY DEF BrokerPublishes, ConnectionLost
<1>2. CallsTyped' /\ Placed' /\ IdTyped' /\ NumbersTyped'
  BY <1>1 DEF TypeInv, CallsTyped, Placed, Under, IdTyped, NumbersTyped, publishing
<1>3. CASE \E topic \in Topics : BrokerPublishes(topic)
  <2>1. PICK topic \in Topics : BrokerPublishes(topic) BY <1>3
  <2> DEFINE q == [type |-> "PUBLISH", id |-> 0, topic |-> topic]
  <2>2. q \in Incoming BY DEF Incoming
  <2>3. fromBroker' = Append(fromBroker, q) /\ UNCHANGED <<toBroker, session, connected>>
    BY <2>1 DEF BrokerPublishes
  <2> HIDE DEF q
  <2> QED BY <1>1, <1>2, <2>2, <2>3 DEF TypeInv, PacketsTyped, TableTyped, Slots
<1>4. CASE ConnectionLost
  <2>1. /\ connected' = FALSE /\ toBroker' = <<>> /\ fromBroker' = <<>> /\ session' = {}
    BY <1>4 DEF ConnectionLost
  <2>2. PacketsTyped' BY <2>1 DEF PacketsTyped
  <2>3. TableTyped' BY <1>1, <2>1 DEF TypeInv, TableTyped, Slots
  <2> QED BY <1>1, <1>2, <2>2, <2>3 DEF TypeInv
<1> QED BY <1>3, <1>4

LEMMA TypeInit == Init => TypeInv /\ Placed
<1> SUFFICES ASSUME Init PROVE TypeInv /\ Placed OBVIOUS
<1>1. CallsTyped /\ Placed BY DEF Init, CallsTyped, Placed, Under
<1>2. PacketsTyped BY DEF Init, PacketsTyped
<1>3. TableTyped BY DEF Init, TableTyped
<1>4. IdTyped /\ NumbersTyped BY BoundsTyped DEF Init, IdTyped, NumbersTyped
<1> QED BY <1>1, <1>2, <1>3, <1>4 DEF Init, TypeInv

LEMMA TypeStep == TypeInv /\ Placed /\ [Next]_vars => TypeInv' /\ Placed'
<1> SUFFICES ASSUME TypeInv, Placed, [Next]_vars PROVE TypeInv' /\ Placed' OBVIOUS
<1>1. CASE UNCHANGED vars
  BY <1>1 DEF vars, TypeInv, CallsTyped, Placed, Under, PacketsTyped, TableTyped, Slots, IdTyped,
              NumbersTyped, publishing
<1>2. CASE SubscriptionStep /\ UNCHANGED publishing /\ UNCHANGED env
  BY <1>2, ApplicationTypes, ResubscribeTypes, AckTypes, ReadingTypes, BrokerTypes, NetworkTypes
     DEF SubscriptionStep
<1>3. CASE PublishStep /\ UNCHANGED env
  BY <1>3, ApplicationTypes, AckTypes, BrokerTypes DEF PublishStep
<1> QED BY <1>1, <1>2, <1>3 DEF Next

LEMMA TypeInvariant == Spec => [](TypeInv /\ Placed)
BY TypeInit, TypeStep, PTL DEF Spec

\* Every call under way, every packet in flight and every entry of the table
\* is one that the code can make: in particular a subscribe that waits for its
\* SUBACK will write inside the table.
THEOREM TypeCorrect == Spec => []TypeOK
<1>1. TypeInv => TypeOK
  <2> SUFFICES ASSUME TypeInv PROVE TypeOK OBVIOUS
  <2>1. \A k \in 1..Len(calls) : calls[k] \in CallSet BY DEF TypeInv, CallsTyped
  <2>2. \A k \in 1..Len(calls) :
          /\ calls[k].op \in {"subscribe", "unsubscribe", "resubscribe", "publish", "callback"}
          /\ calls[k].topic \in Topics \cup {None} \cup Messages
          /\ calls[k].op = "subscribe" => calls[k].slot \in Slots
          /\ calls[k].op = "resubscribe" => calls[k].itr < calls[k].slot
    <3> TAKE k \in 1..Len(calls)
    <3>1. calls[k] \in CallSet BY <2>1
    <3> QED BY <3>1, CallCases
  <2>3. Outgoing \subseteq Packets /\ Incoming \subseteq Packets BY DEF Outgoing, Incoming, Packets
  <2>4. toBroker \in Seq(Packets) /\ fromBroker \in Seq(Packets)
    BY <2>3 DEF TypeInv, PacketsTyped
  <2>5. published \in {0} \cup Messages
    BY BoundsTyped DEF TypeInv, NumbersTyped, Messages
  <2> QED BY <2>2, <2>4, <2>5 DEF TypeOK, TypeInv, TableTyped, IdTyped, NumbersTyped
<1> QED BY <1>1, TypeInvariant, PTL

-----------------------------------------------------------------------------
(* What a step does to the table, the calls and the SUBSCRIBE packets.     *)

LEMMA InFlightAppend ==
  ASSUME toBroker \in Seq(Outgoing), NEW p \in Outgoing, toBroker' = Append(toBroker, p),
         NEW type, NEW x
  PROVE  x \in InFlight(type)' <=> x \in InFlight(type) \/ (p.type = type /\ x = p.topic)
<1>1. /\ Len(toBroker) \in Nat /\ Len(toBroker') = Len(toBroker) + 1
      /\ toBroker'[Len(toBroker) + 1] = p
      /\ \A k \in 1..Len(toBroker) : toBroker'[k] = toBroker[k]
  OBVIOUS
<1>2. /\ \A k \in 1..Len(toBroker') : k \in 1..Len(toBroker) \/ k = Len(toBroker) + 1
      /\ 1..Len(toBroker) \subseteq 1..Len(toBroker') /\ Len(toBroker) + 1 \in 1..Len(toBroker')
  BY <1>1
<1> QED BY <1>1, <1>2 DEF InFlight

LEMMA InFlightTail ==
  ASSUME toBroker \in Seq(Outgoing), toBroker # <<>>, toBroker' = Tail(toBroker), NEW type, NEW x
  PROVE  /\ x \in InFlight(type)' => x \in InFlight(type)
         /\ x \in InFlight(type) =>
              x \in InFlight(type)' \/ (Head(toBroker).type = type /\ x = Head(toBroker).topic)
<1>1. /\ Len(toBroker) \in Nat /\ Len(toBroker) > 0 /\ Len(toBroker') = Len(toBroker) - 1
      /\ Head(toBroker) = toBroker[1]
      /\ \A k \in 1..Len(toBroker') : toBroker'[k] = toBroker[k + 1]
  OBVIOUS
<1>2. /\ \A k \in 1..Len(toBroker) : k = 1 \/ (k - 1 \in 1..Len(toBroker') /\ (k - 1) + 1 = k)
      /\ \A k \in 1..Len(toBroker') : k + 1 \in 1..Len(toBroker)
  BY <1>1
<1>3. ASSUME x \in InFlight(type)' PROVE x \in InFlight(type)
  BY <1>1, <1>2, <1>3 DEF InFlight
<1>4. ASSUME x \in InFlight(type)
      PROVE  x \in InFlight(type)' \/ (Head(toBroker).type = type /\ x = Head(toBroker).topic)
  <2>1. PICK k \in 1..Len(toBroker) : toBroker[k].type = type /\ toBroker[k].topic = x
    BY <1>4 DEF InFlight
  <2>2. CASE k = 1 BY <1>1, <2>1, <2>2
  <2>3. CASE k # 1
    <3>1. k - 1 \in 1..Len(toBroker') /\ toBroker'[k - 1] = toBroker[k] BY <1>1, <1>2, <2>3
    <3> QED BY <2>1, <3>1 DEF InFlight
  <2> QED BY <2>2, <2>3
<1> QED BY <1>3, <1>4

\* The calls after the step were under way before it, but for the call c.
CallsLeft     == \A k \in 1..Len(calls') : k \in Under /\ calls'[k] = calls[k]
CallsMade(c)  ==
  \A k \in 1..Len(calls') : (k \in Under /\ calls'[k] = calls[k]) \/ (k = Len(calls) + 1 /\ calls'[k] = c)
NothingSubscribed == InFlight("SUBSCRIBE")' \subseteq InFlight("SUBSCRIBE")
TableSame     == UNCHANGED <<handlers, active>>

LEMMA PoppedLeaves == CallsTyped /\ Popped => CallsLeft
BY DEF CallsTyped, Popped, CallsLeft, Under

LEMMA PushedMakes == ASSUME CallsTyped, NEW c, Pushed(c) PROVE CallsMade(c)
BY DEF CallsTyped, Pushed, CallsMade, Under

\* The kinds of steps.
Quiet ==
  /\ TableSame /\ NothingSubscribed /\ CallsLeft
  /\ restored' = restored /\ (connected' = connected \/ connected' = FALSE)
Calling ==
  /\ TableSame /\ NothingSubscribed /\ connected' = connected /\ restored' = restored
  /\ \E c \in CallSet : CallsMade(c) /\ c.op \in {"unsubscribe", "publish", "callback"}
Subscribes ==
  /\ TableSame /\ MayCall("subscribe") /\ UNCHANGED <<session, connected, restored>>
  /\ \E c \in CallSet :
       /\ CallsMade(c) /\ c.op = "subscribe"
       /\ c.slot = FreeIndex /\ handlers[c.slot] = None
       /\ \A x : x \in InFlight("SUBSCRIBE")' <=> x \in InFlight("SUBSCRIBE") \/ x = c.topic
Restoring ==
  /\ TableSame /\ session' = session
  /\ \E i \in Nat, n \in 0..NumHandlers :
       /\ Resubscribes(i, n)
       /\ \/ i = 0 /\ n = FreeIndex /\ calls = <<>> /\ ~connected
          \/ /\ Len(calls) = 1 /\ calls[1].op = "resubscribe" /\ connected' = connected
             /\ i = calls[1].itr + 1 /\ n = calls[1].slot
       /\ \/ NothingSubscribed
          \/ /\ i < n /\ i \in Slots
             /\ \A x : x \in InFlight("SUBSCRIBE")' <=> x \in InFlight("SUBSCRIBE") \/ x = handlers[i]
       /\ \A x \in InFlight("SUBSCRIBE") : x \in InFlight("SUBSCRIBE")'
       /\ calls' # <<>> => i \in Slots /\ handlers[i] \in InFlight("SUBSCRIBE")'
Stored ==
  /\ SubscribeAck /\ NothingSubscribed /\ CallsLeft /\ UNCHANGED <<toBroker, session, connected, restored>>
  /\ \E k \in Under :
       /\ k = Len(calls) /\ calls[k].op = "subscribe" /\ Len(calls') = k - 1
       /\ handlers' = [handlers EXCEPT ![calls[k].slot] = calls[k].topic]
       /\ active' = active \cup {calls[k].topic}
Removed ==
  /\ UnsubscribeAck /\ NothingSubscribed /\ CallsLeft
  /\ \E k \in Under :
       /\ k = Len(calls) /\ calls[k].op = "unsubscribe"
       /\ handlers' = [i \in Slots |-> IF handlers[i] = calls[k].topic THEN None ELSE handlers[i]]
       /\ active' = active \ {calls[k].topic}

LEMMA SameSubscribed == UNCHANGED toBroker => NothingSubscribed
BY DEF NothingSubscribed, InFlight

LEMMA OtherSubscribed ==
  ASSUME TypeInv, NEW p \in Outgoing, toBroker' = Append(toBroker, p), p.type # "SUBSCRIBE"
  PROVE  NothingSubscribed
BY InFlightAppend DEF TypeInv, PacketsTyped, NothingSubscribed

LEMMA ApplicationEffect ==
  ASSUME TypeInv, (\E topic \in Topics : Subscribe(topic) \/ Unsubscribe(topic)) \/ Publish
  PROVE  Quiet \/ Calling \/ Subscribes
<1>1. UNCHANGED <<calls, toBroker, connected, restored>> /\ TableSame => Quiet
  BY SameSubscribed DEF Quiet, CallsLeft, Under
<1>2. CallsTyped BY DEF TypeInv
<1>3. ASSUME NEW topic \in Topics, Subscribe(topic) PROVE Quiet \/ Subscribes
  <2>1. /\ MayCall("subscribe") /\ IdTyped'
        /\ UNCHANGED <<handlers, fromBroker, session, connected, restored, active>>
        /\ \/ UNCHANGED <<calls, toBroker>>
           \/ /\ FreeIndex \in Slots /\ handlers[FreeIndex] = None
              /\ Pushed(Call("subscribe", topic, FreeIndex, 0))
              /\ \E p \in Outgoing : /\ toBroker' = Append(toBroker, p)
                                     /\ p.type = "SUBSCRIBE" /\ p.topic = topic
    BY <1>3, SubscribeShape
  <2>2. CASE UNCHANGED <<calls, toBroker>> BY <1>1, <2>1, <2>2 DEF TableSame
  <2>3. CASE /\ FreeIndex \in Slots /\ handlers[FreeIndex] = None
             /\ Pushed(Call("subscribe", topic, FreeIndex, 0))
             /\ \E p \in Outgoing : /\ toBroker' = Append(toBroker, p)
                                    /\ p.type = "SUBSCRIBE" /\ p.topic = topic
    <3> DEFINE c == Call("subscribe", topic, FreeIndex, 0)
    <3>1. c.op = "subscribe" /\ c.slot = FreeIndex /\ c.topic = topic BY CallFields
    <3>2. Pushed(c) BY <2>3
    <3> HIDE DEF c
    <3>3. c \in CallSet /\ CallsMade(c) BY <1>2, <3>2, PushedMakes DEF Pushed
    <3>4. \A x : x \in InFlight("SUBSCRIBE")' <=> x \in InFlight("SUBSCRIBE") \/ x = topic
      BY <2>3, InFlightAppend DEF TypeInv, PacketsTyped
    <3> QED BY <2>1, <2>3, <3>1, <3>3, <3>4 DEF Subscribes, TableSame
  <2> QED BY <2>1, <2>2, <2>3
<1>4. ASSUME NEW topic \in Topics, Unsubscribe(topic) PROVE Quiet \/ Calling
  <2>1. /\ UNCHANGED <<handlers, fromBroker, session, connected, restored, active>>
        /\ \/ UNCHANGED <<calls, toBroker>>
           \/ /\ Pushed(Call("unsubscribe", topic, 0, 0))
              /\ \E p \in Outgoing : /\ toBroker' = Append(toBroker, p)
                                     /\ p.type = "UNSUBSCRIBE" /\ p.topic = topic
    BY <1>4, UnsubscribeShape
  <2>2. CASE UNCHANGED <<calls, toBroker>> BY <1>1, <2>1, <2>2 DEF TableSame
  <2>3. CASE /\ Pushed(Call("unsubscribe", topic, 0, 0))
             /\ \E p \in Outgoing : /\ toBroker' = Append(toBroker, p)
                                    /\ p.type = "UNSUBSCRIBE" /\ p.topic = topic
    <3> DEFINE c == Call("unsubscribe", topic, 0, 0)
    <3>1. c.op = "unsubscribe" BY CallFields
    <3>2. Pushed(c) BY <2>3
    <3> HIDE DEF c
    <3>3. c \in CallSet /\ CallsMade(c) BY <1>2, <3>2, PushedMakes DEF Pushed
    <3>4. NothingSubscribed BY <2>3, OtherSubscribed
    <3> QED BY <2>1, <3>1, <3>3, <3>4 DEF Calling, TableSame
  <2> QED BY <2>1, <2>2, <2>3
<1>5. ASSUME Publish PROVE Quiet \/ Calling
  <2>1. /\ UNCHANGED <<handlers, fromBroker, session, connected, restored, active, confirmed, received>>
        /\ \/ UNCHANGED <<calls, toBroker>>
           \/ /\ Pushed(Call("publish", published', 0, 0))
              /\ \E p \in Outgoing : /\ toBroker' = Append(toBroker, p)
                                     /\ p.type = "PUBLISH" /\ p.topic = published'
    BY <1>5, PublishShape
  <2>2. CASE UNCHANGED <<calls, toBroker>> BY <1>1, <2>1, <2>2 DEF TableSame
  <2>3. CASE /\ Pushed(Call("publish", published', 0, 0))
             /\ \E p \in Outgoing : /\ toBroker' = Append(toBroker, p)
                                    /\ p.type = "PUBLISH" /\ p.topic = published'
    <3> DEFINE c == Call("publish", published', 0, 0)
    <3>1. c.op = "publish" BY CallFields
    <3>2. Pushed(c) BY <2>3
    <3> HIDE DEF c
    <3>3. c \in CallSet /\ CallsMade(c) BY <1>2, <3>2, PushedMakes DEF Pushed
    <3>4. NothingSubscribed BY <2>3, OtherSubscribed
    <3> QED BY <2>1, <3>1, <3>3, <3>4 DEF Calling, TableSame
  <2> QED BY <2>1, <2>2, <2>3
<1> QED BY <1>3, <1>4, <1>5

LEMMA ResubscribeEffect ==
  ASSUME TypeInv, Placed, UNCHANGED <<env, publishing>>, Reconnect \/ ResubscribeAck
  PROVE  Restoring
<1>1. UNCHANGED <<handlers, session, active>> BY ResubscribeTypes
<1>2. PICK i \in Nat, n \in 0..NumHandlers :
        /\ Resubscribes(i, n)
        /\ \/ Reconnect /\ i = 0 /\ n = FreeIndex /\ calls = <<>> /\ ~connected
           \/ ResubscribeAck /\ Len(calls) = 1 /\ calls[1].op = "resubscribe"
              /\ i = calls[1].itr + 1 /\ n = calls[1].slot /\ connected' = connected
  BY ResubscribeTypes
<1>3. CASE UNCHANGED toBroker /\ calls' = <<>>
  <2>1. NothingSubscribed /\ \A x \in InFlight("SUBSCRIBE") : x \in InFlight("SUBSCRIBE")'
    BY <1>3, SameSubscribed DEF InFlight
  <2> QED BY <1>1, <1>2, <1>3, <2>1 DEF Restoring, TableSame
<1>4. CASE /\ i < n /\ i \in Slots
           /\ \E p \in Outgoing : /\ toBroker' = Append(toBroker, p)
                                  /\ p.type = "SUBSCRIBE" /\ p.topic = handlers[i]
  <2>1. \A x : x \in InFlight("SUBSCRIBE")' <=> x \in InFlight("SUBSCRIBE") \/ x = handlers[i]
    BY <1>4, InFlightAppend DEF TypeInv, PacketsTyped
  <2> QED BY <1>1, <1>2, <1>4, <2>1 DEF Restoring, TableSame
<1> QED BY <1>2, <1>3, <1>4 DEF Resubscribes

LEMMA AckEffect ==
  ASSUME TypeInv, SubscribeAck \/ UnsubscribeAck \/ PublishAck
  PROVE  Stored \/ Removed \/ Quiet
<1>1. calls # <<>> /\ calls' = Front(calls) /\ UNCHANGED <<toBroker, session, connected, restored>>
  BY DEF SubscribeAck, UnsubscribeAck, PublishAck, Waiting
<1>2. Popped /\ Last(calls) = calls[Len(calls)] /\ Len(calls) \in Under BY <1>1, ReturnShape
<1>3. CallsLeft /\ NothingSubscribed
  BY <1>1, <1>2, PoppedLeaves, SameSubscribed DEF TypeInv
<1>4. Len(calls') = Len(calls) - 1 BY <1>2 DEF Popped
<1>5. CASE SubscribeAck BY <1>1, <1>2, <1>3, <1>4, <1>5 DEF SubscribeAck, Stored
<1>6. CASE UnsubscribeAck BY <1>2, <1>3, <1>6 DEF UnsubscribeAck, Removed
<1>7. CASE PublishAck BY <1>1, <1>3, <1>7 DEF PublishAck, Quiet, TableSame
<1> QED BY <1>5, <1>6, <1>7

LEMMA OtherEffect ==
  ASSUME TypeInv,
         \/ ReadPublish \/ ReadOther \/ CallbackReturn \/ Timeout
         \/ BrokerAnswers \/ BrokerReceives
         \/ (\E topic \in Topics : BrokerPublishes(topic)) \/ ConnectionLost
  PROVE  Quiet \/ Calling
<1>1. TableSame
  BY DEF TableSame, ReadPublish, ReadOther, CallbackReturn, Timeout, BrokerAnswers, BrokerReceives,
         BrokerPublishes, ConnectionLost
<1>0. CASE ~ReadPublish
  <2>1. restored' = restored /\ (connected' = connected \/ connected' = FALSE)
    BY <1>0 DEF ReadOther, CallbackReturn, Timeout, BrokerAnswers, BrokerReceives,
                BrokerPublishes, ConnectionLost
  <2>2. UNCHANGED calls => CallsLeft BY DEF CallsLeft, Under
  <2>3. CallsLeft /\ NothingSubscribed
    <3>1. CASE CallbackReturn \/ Timeout
      <4>1. calls # <<>> /\ calls' = Front(calls) /\ UNCHANGED toBroker
        BY <3>1 DEF CallbackReturn, Timeout, Waiting
      <4> QED BY <4>1, ReturnShape, PoppedLeaves, SameSubscribed DEF TypeInv
    <3>2. CASE ReadOther \/ \E topic \in Topics : BrokerPublishes(topic)
      BY <2>2, <3>2, SameSubscribed DEF ReadOther, BrokerPublishes
    <3>3. CASE BrokerAnswers \/ BrokerReceives
      <4>1. toBroker # <<>> /\ toBroker' = Tail(toBroker) /\ UNCHANGED calls BY <3>3, BrokerShape
      <4>2. NothingSubscribed BY <4>1, InFlightTail DEF TypeInv, PacketsTyped, NothingSubscribed
      <4> QED BY <2>2, <4>1, <4>2
    <3>4. CASE ConnectionLost
      <4>1. toBroker' = <<>> /\ UNCHANGED calls BY <3>4 DEF ConnectionLost
      <4>2. NothingSubscribed BY <4>1 DEF NothingSubscribed, InFlight
      <4> QED BY <2>2, <4>1, <4>2
    <3> QED BY <1>0, <3>1, <3>2, <3>3, <3>4
  <2> QED BY <1>1, <2>1, <2>3 DEF Quiet
<1>2. CASE ReadPublish
  <2> DEFINE c == Call("callback", Head(fromBroker).topic, 0, 0)
  <2>1. c \in CallSet /\ Pushed(c) /\ c.op = "callback" BY <1>2, DeliverShape, CallFields
  <2>2. UNCHANGED <<toBroker, connected, restored>> BY <1>2, DeliverShape
  <2> HIDE DEF c
  <2>3. CallsMade(c) BY <2>1, PushedMakes DEF TypeInv
  <2> QED BY <1>1, <2>1, <2>2, <2>3, SameSubscribed DEF Calling
<1> QED BY <1>0, <1>2

LEMMA Effects ==
  ASSUME TypeInv, Placed, [Next]_vars
  PROVE  UNCHANGED env /\ (Quiet \/ Calling \/ Subscribes \/ Restoring \/ Stored \/ Removed)
<1>1. UNCHANGED env BY DEF Next, vars
<1>2. CASE UNCHANGED vars
  BY <1>1, <1>2, SameSubscribed DEF vars, Quiet, TableSame, CallsLeft, Under
<1>3. CASE SubscriptionStep /\ UNCHANGED publishing
  BY <1>1, <1>3, ApplicationEffect, ResubscribeEffect, AckEffect, OtherEffect DEF SubscriptionStep
<1>4. CASE PublishStep BY <1>1, <1>4, ApplicationEffect, AckEffect, OtherEffect DEF PublishStep
<1> QED BY <1>1, <1>2, <1>3, <1>4 DEF Next

-----------------------------------------------------------------------------
(* The handlers of active subscriptions.  A subscribe that waits for its   *)
(* SUBACK owns a free place, unless a callback's subscribe chose the same. *)

PlaceReserved ==
  \A k \in Under : calls[k].op = "subscribe" => handlers[calls[k].slot] = None

ActiveInv == "subscribe" \notin env.callbackOps => PlaceReserved /\ ActiveHasHandler

LEMMA HandledAlt == \A x : x \in Handled <=> x # None /\ \E i \in Slots : handlers[i] = x
BY DEF Handled

LEMMA StoredPlaces ==
  ASSUME TypeInv, NEW c \in CallSet, c.op = "subscribe",
         handlers' = [handlers EXCEPT ![c.slot] = c.topic]
  PROVE  /\ c.slot \in Slots /\ c.topic \in Topics /\ c.topic # None /\ handlers'[c.slot] = c.topic
         /\ \A j \in Slots : j # c.slot => handlers'[j] = handlers[j]
<1>1. c.slot \in Slots /\ c.topic \in Topics BY CallCases
<1> QED BY <1>1, TopicsAssumption DEF TypeInv, TableTyped

LEMMA ActiveStep ==
  ASSUME TypeInv, Placed, ActiveInv, [Next]_vars
  PROVE  ActiveInv'
<1> SUFFICES ASSUME "subscribe" \notin env.callbackOps
             PROVE  PlaceReserved' /\ ActiveHasHandler'
  BY Effects DEF ActiveInv
<1>0. PlaceReserved /\ ActiveHasHandler BY DEF ActiveInv
<1>1. ASSUME NEW k \in Under, calls[k].op = "subscribe" PROVE k = 1
  BY <1>1 DEF Placed, Under
<1>2. TableSame => ActiveHasHandler' BY <1>0 DEF TableSame, ActiveHasHandler, Handled, Slots
<1>3. CASE Quiet
  <2>1. PlaceReserved' BY <1>0, <1>3 DEF Quiet, TableSame, CallsLeft, PlaceReserved, Under
  <2> QED BY <1>2, <1>3, <2>1 DEF Quiet
<1>4. CASE Calling
  <2>1. PlaceReserved' BY <1>0, <1>4 DEF Calling, TableSame, CallsMade, PlaceReserved, Under
  <2> QED BY <1>2, <1>4, <2>1 DEF Calling
<1>5. CASE Subscribes
  <2>1. PlaceReserved' BY <1>0, <1>5 DEF Subscribes, TableSame, CallsMade, PlaceReserved, Under
  <2> QED BY <1>2, <1>5, <2>1 DEF Subscribes
<1>6. CASE Restoring
  <2>1. PICK i \in Nat, n \in 0..NumHandlers : Resubscribes(i, n) BY <1>6 DEF Restoring
  <2>2. \A k \in 1..Len(calls') : calls'[k].op = "resubscribe"
    <3>1. CASE calls' = <<>> BY <3>1
    <3>2. CASE calls' = <<Call("resubscribe", None, n, i)>>
      <4>1. Call("resubscribe", None, n, i).op = "resubscribe" BY CallFields
      <4>2. \A k \in 1..Len(calls') : calls'[k] = Call("resubscribe", None, n, i) BY <3>2
      <4> QED BY <4>1, <4>2
    <3> QED BY <2>1, <3>1, <3>2 DEF Resubscribes
  <2>3. PlaceReserved' BY <2>2 DEF PlaceReserved, Under
  <2> QED BY <1>2, <1>6, <2>3 DEF Restoring
<1>7. CASE Stored
  <2>1. PICK k \in Under :
          /\ k = Len(calls) /\ calls[k].op = "subscribe" /\ Len(calls') = k - 1
          /\ handlers' = [handlers EXCEPT ![calls[k].slot] = calls[k].topic]
          /\ active' = active \cup {calls[k].topic}
    BY <1>7 DEF Stored
  <2>2. k = 1 BY <1>1, <2>1
  <2>3. 1..Len(calls') = {} BY <2>1, <2>2
  <2>4. PlaceReserved' BY <2>3 DEF PlaceReserved, Under
  <2>5. calls[k] \in CallSet BY DEF TypeInv, CallsTyped, Under
  <2>6. /\ calls[k].slot \in Slots /\ calls[k].topic \in Topics /\ calls[k].topic # None
        /\ handlers'[calls[k].slot] = calls[k].topic
        /\ \A j \in Slots : j # calls[k].slot => handlers'[j] = handlers[j]
    BY <2>1, <2>5, StoredPlaces
  <2>7. handlers[calls[k].slot] = None BY <1>0, <2>1 DEF PlaceReserved
  <2>8. ASSUME NEW x \in active' PROVE x \in Handled'
    <3>1. CASE x = calls[k].topic BY <2>6, <3>1 DEF Handled, Slots
    <3>2. CASE x \in active
      <4>1. PICK j \in Slots : handlers[j] = x /\ x # None
        BY <1>0, <3>2, HandledAlt DEF ActiveHasHandler
      <4>2. handlers'[j] = x BY <2>6, <2>7, <4>1
      <4> QED BY <4>1, <4>2 DEF Handled, Slots
    <3> QED BY <2>1, <3>1, <3>2
  <2> QED BY <2>4, <2>8 DEF ActiveHasHandler
<1>8. CASE Removed
  <2>1. PICK k \in Under :
          /\ k = Len(calls) /\ calls[k].op = "unsubscribe"
          /\ handlers' = [i \in Slots |-> IF handlers[i] = calls[k].topic THEN None ELSE handlers[i]]
          /\ active' = active \ {calls[k].topic}
    BY <1>8 DEF Removed
  <2>2. PlaceReserved'
    <3> SUFFICES ASSUME NEW j \in 1..Len(calls'), calls'[j].op = "subscribe"
                 PROVE  handlers'[calls'[j].slot] = None
      BY DEF PlaceReserved, Under
    <3>1. j \in Under /\ calls'[j] = calls[j] /\ calls[j] \in CallSet
      BY <1>8 DEF Removed, CallsLeft, TypeInv, CallsTyped, Under
    <3>2. calls[j].slot \in Slots /\ handlers[calls[j].slot] = None
      BY <1>0, <3>1, CallCases DEF PlaceReserved
    <3> QED BY <2>1, <3>1, <3>2
  <2>3. ASSUME NEW x \in active' PROVE x \in Handled'
    <3>1. x \in active /\ x # calls[k].topic BY <2>1
    <3>2. PICK j \in Slots : handlers[j] = x /\ x # None
      BY <1>0, <3>1, HandledAlt DEF ActiveHasHandler
    <3>3. handlers'[j] = x BY <2>1, <3>1, <3>2
    <3> QED BY <3>2, <3>3 DEF Handled, Slots
  <2> QED BY <2>2, <2>3 DEF ActiveHasHandler
<1> QED BY <1>3, <1>4, <1>5, <1>6, <1>7, <1>8, Effects

\* A subscription that was reported as made, and not ended since, has its
\* handler in the table, whatever is lost, late or nested; as long as callbacks
\* do not subscribe.
THEOREM ActiveSound ==
  Spec => []("subscribe" \notin env.callbackOps => ActiveHasHandler)
<1>1. Init => ActiveInv
  BY DEF Init, ActiveInv, PlaceReserved, Under, ActiveHasHandler
<1>2. TypeInv /\ Placed /\ ActiveInv /\ [Next]_vars => ActiveInv' BY ActiveStep
<1>3. ActiveInv => ("subscribe" \notin env.callbackOps => ActiveHasHandler) BY DEF ActiveInv
<1> QED BY <1>1, <1>2, <1>3, TypeInvariant, PTL DEF Spec

-----------------------------------------------------------------------------
(* What a resubscribe sends.  A callback may unsubscribe while it waits,   *)
(* and so free a place it has counted.  The broker answers in order: the   *)
(* UNSUBACK comes after the SUBACK of the resubscribe, which the           *)
(* unsubscribe has then dropped, and the resubscribe sends nothing more.   *)

InQueue(q, type) == \E k \in 1..Len(q) : q[k].type = type

Precedes(q, first, second) ==
  \A i, j \in 1..Len(q) : q[i].type = first /\ q[j].type = second => i < j

LEMMA QueueAppend ==
  ASSUME NEW S, NEW q \in Seq(S), NEW p \in S
  PROVE  /\ \A type : InQueue(Append(q, p), type) <=> InQueue(q, type) \/ p.type = type
         /\ \A first, second :
              /\ Precedes(q, first, second) /\ first # second
              /\ p.type = first => ~InQueue(q, second)
              => Precedes(Append(q, p), first, second)
<1> DEFINE r == Append(q, p)
<1>1. /\ Len(q) \in Nat /\ Len(r) = Len(q) + 1 /\ r[Len(q) + 1] = p
      /\ \A k \in 1..Len(q) : r[k] = q[k]
  OBVIOUS
<1> HIDE DEF r
<1>2. /\ \A k \in 1..Len(r) : k \in 1..Len(q) \/ k = Len(q) + 1
      /\ 1..Len(q) \subseteq 1..Len(r) /\ Len(q) + 1 \in 1..Len(r)
      /\ \A k \in 1..Len(q) : k < Len(q) + 1
  BY <1>1
<1>3. ASSUME NEW type PROVE InQueue(r, type) <=> InQueue(q, type) \/ p.type = type
  BY <1>1, <1>2 DEF InQueue
<1>4. ASSUME NEW first, NEW second, Precedes(q, first, second), first # second,
             p.type = first => ~InQueue(q, second)
      PROVE  Precedes(r, first, second)
  <2> SUFFICES ASSUME NEW i \in 1..Len(r), NEW j \in 1..Len(r), r[i].type = first, r[j].type = second
               PROVE  i < j
    BY DEF Precedes
  <2>1. CASE i \in 1..Len(q) /\ j \in 1..Len(q) BY <1>1, <1>4, <2>1 DEF Precedes
  <2>2. CASE i \in 1..Len(q) /\ j = Len(q) + 1 BY <1>2, <2>2
  <2>3. CASE i = Len(q) + 1 /\ j \in 1..Len(q) BY <1>1, <1>4, <2>3 DEF InQueue
  <2>4. CASE i = Len(q) + 1 /\ j = Len(q) + 1 BY <1>1, <1>4, <2>4
  <2> QED BY <1>2, <2>1, <2>2, <2>3, <2>4
<1> QED BY <1>3, <1>4 DEF r

LEMMA QueueTail ==
  ASSUME NEW S, NEW q \in Seq(S), q # <<>>
  PROVE  /\ \A type : InQueue(Tail(q), type) => InQueue(q, type)
         /\ InQueue(q, Head(q).type)
         /\ \A first, second : Precedes(q, first, second) => Precedes(Tail(q), first, second)
         /\ \A first : Precedes(q, first, Head(q).type) => ~InQueue(q, first)
<1> DEFINE r == Tail(q)
<1>1. /\ Len(q) \in Nat /\ Len(q) > 0 /\ Len(r) = Len(q) - 1 /\ Head(q) = q[1]
      /\ \A k \in 1..Len(r) : r[k] = q[k + 1]
  OBVIOUS
<1> HIDE DEF r
<1>2. /\ \A k \in 1..Len(r) : k + 1 \in 1..Len(q)
      /\ \A i, j \in 1..Len(r) : i + 1 < j + 1 => i < j
      /\ 1 \in 1..Len(q) /\ \A k \in 1..Len(q) : ~(k < 1)
  BY <1>1
<1>3. ASSUME NEW type PROVE InQueue(r, type) => InQueue(q, type) BY <1>1, <1>2 DEF InQueue
<1>4. InQueue(q, Head(q).type) BY <1>1, <1>2 DEF InQueue
<1>5. ASSUME NEW first, NEW second, Precedes(q, first, second) PROVE Precedes(r, first, second)
  BY <1>1, <1>2, <1>5 DEF Precedes
<1>6. ASSUME NEW first, Precedes(q, first, Head(q).type) PROVE ~InQueue(q, first)
  BY <1>1, <1>2, <1>6 DEF Precedes, InQueue
<1> QED BY <1>3, <1>4, <1>5, <1>6 DEF r

\* A subscription, or the end of one, is asked for or answered.
SubscribeOpen   == InQueue(toBroker, "SUBSCRIBE") \/ InQueue(fromBroker, "SUBACK")
UnsubscribeOpen == InQueue(toBroker, "UNSUBSCRIBE") \/ InQueue(fromBroker, "UNSUBACK")

\* Every subscription in flight is ahead of every end of one.
SubscribeFirst ==
  /\ Precedes(toBroker, "SUBSCRIBE", "UNSUBSCRIBE")
  /\ Precedes(fromBroker, "SUBACK", "UNSUBACK")
  /\ ~(InQueue(toBroker, "SUBSCRIBE") /\ InQueue(fromBroker, "UNSUBACK"))

Walking          == calls # <<>> /\ calls[1].op = "resubscribe"
CountedInUse     == \A j \in 0..(calls[1].slot - 1) : handlers[j] # None
UnsubscribeWaits == \E k \in Under : calls[k].op = "unsubscribe"

\* A resubscribe whose answer is still to come finds the places it has counted
\* in use; an unsubscribe made since is under way and will be answered later.
WalkSound ==
  Walking /\ SubscribeOpen =>
    CountedInUse /\ SubscribeFirst /\ (UnsubscribeOpen => UnsubscribeWaits)

LossEmpties == connected \/ (toBroker = <<>> /\ fromBroker = <<>>)

PromptWalk == "subscribe" \notin env.callbackOps /\ ~env.timeouts

SendsInv == LossEmpties /\ (PromptWalk => WalkSound /\ SendsTopics)

\* What a step does to the packets in flight ...
QueuesKept ==
  /\ SubscribeOpen' => SubscribeOpen
  /\ SubscribeFirst => SubscribeFirst'
  /\ UnsubscribeOpen' => UnsubscribeOpen \/ UnsubscribeWaits'
\* ... and to the calls under way.
WalkKept ==
  /\ Walking' => Walking /\ calls'[1] = calls[1]
  /\ UnsubscribeWaits => UnsubscribeWaits'

LEMMA KeptSound ==
  ASSUME WalkSound, UNCHANGED handlers, QueuesKept, WalkKept
  PROVE  WalkSound'
<1> SUFFICES ASSUME Walking', SubscribeOpen'
             PROVE  CountedInUse' /\ SubscribeFirst' /\ (UnsubscribeOpen' => UnsubscribeWaits')
  BY DEF WalkSound
<1>1. Walking /\ calls'[1] = calls[1] /\ SubscribeOpen BY DEF WalkKept, QueuesKept
<1>2. CountedInUse /\ SubscribeFirst /\ (UnsubscribeOpen => UnsubscribeWaits) BY <1>1 DEF WalkSound
<1>3. CountedInUse' BY <1>1, <1>2 DEF CountedInUse
<1> QED BY <1>2, <1>3 DEF WalkKept, QueuesKept

LEMMA PushWalks ==
  ASSUME CallsTyped, NEW c, Pushed(c), c.op # "resubscribe"
  PROVE  WalkKept /\ (c.op = "unsubscribe" => UnsubscribeWaits')
<1>1. /\ calls \in Seq(CallSet) /\ calls' \in Seq(CallSet) /\ Len(calls) \in Nat
      /\ Len(calls') = Len(calls) + 1 /\ \A k \in 1..Len(calls) : calls'[k] = calls[k]
      /\ calls'[Len(calls) + 1] = c
  BY DEF CallsTyped, Pushed, Under
<1>2. 1..Len(calls) \subseteq 1..Len(calls') /\ Len(calls) + 1 \in 1..Len(calls') BY <1>1
<1>3. UnsubscribeWaits => UnsubscribeWaits' BY <1>1, <1>2 DEF UnsubscribeWaits, Under
<1>4. c.op = "unsubscribe" => UnsubscribeWaits' BY <1>1, <1>2 DEF UnsubscribeWaits, Under
<1>5. ASSUME Walking' PROVE Walking /\ calls'[1] = calls[1]
  <2>1. Len(calls) # 0
    <3>1. Len(calls) = 0 => calls'[1] = c BY <1>1
    <3> QED BY <1>5, <3>1 DEF Walking
  <2>2. 1 \in 1..Len(calls) /\ calls # <<>> BY <1>1, <2>1
  <2> QED BY <1>1, <1>5, <2>2 DEF Walking
<1> QED BY <1>3, <1>4, <1>5 DEF WalkKept

LEMMA PopWalks ==
  ASSUME CallsTyped, Popped
  PROVE  /\ Walking' => Walking /\ calls'[1] = calls[1]
         /\ calls[Len(calls)].op # "unsubscribe" => WalkKept
<1>1. /\ calls \in Seq(CallSet) /\ calls' \in Seq(CallSet) /\ Len(calls) \in Nat /\ calls # <<>>
      /\ Len(calls') = Len(calls) - 1 /\ \A k \in 1..(Len(calls) - 1) : calls'[k] = calls[k]
  BY DEF CallsTyped, Popped
<1>2. \A k \in 1..Len(calls) : k \in 1..Len(calls') \/ k = Len(calls) BY <1>1
<1>3. ASSUME calls[Len(calls)].op # "unsubscribe", UnsubscribeWaits PROVE UnsubscribeWaits'
  <2>1. PICK k \in 1..Len(calls) : calls[k].op = "unsubscribe" BY <1>3 DEF UnsubscribeWaits, Under
  <2>2. k \in 1..Len(calls') /\ calls'[k] = calls[k] BY <1>1, <1>2, <1>3, <2>1
  <2> QED BY <2>1, <2>2 DEF UnsubscribeWaits, Under
<1>4. ASSUME Walking' PROVE Walking /\ calls'[1] = calls[1]
  <2>1. Len(calls') > 0 BY <1>1, <1>4 DEF Walking
  <2>2. 1 \in 1..(Len(calls) - 1) BY <1>1, <2>1
  <2> QED BY <1>1, <1>4, <2>2 DEF Walking
<1> QED BY <1>3, <1>4 DEF WalkKept

LEMMA SameWalks == UNCHANGED calls => WalkKept
BY DEF WalkKept, Walking, UnsubscribeWaits, Under

LEMMA SendKeeps ==
  ASSUME TypeInv, UNCHANGED fromBroker,
         \/ UNCHANGED toBroker
         \/ \E p \in Outgoing : /\ toBroker' = Append(toBroker, p) /\ p.type # "SUBSCRIBE"
                                /\ p.type = "UNSUBSCRIBE" => UnsubscribeWaits'
  PROVE  QueuesKept
<1>1. CASE UNCHANGED toBroker BY <1>1 DEF QueuesKept, SubscribeOpen, UnsubscribeOpen, SubscribeFirst
<1>2. ASSUME NEW p \in Outgoing, toBroker' = Append(toBroker, p), p.type # "SUBSCRIBE",
             p.type = "UNSUBSCRIBE" => UnsubscribeWaits'
      PROVE  QueuesKept
  <2>1. toBroker \in Seq(Outgoing) BY DEF TypeInv, PacketsTyped
  <2>2. /\ \A type : InQueue(toBroker', type) <=> InQueue(toBroker, type) \/ p.type = type
        /\ Precedes(toBroker, "SUBSCRIBE", "UNSUBSCRIBE") => Precedes(toBroker', "SUBSCRIBE", "UNSUBSCRIBE")
    BY <1>2, <2>1, QueueAppend
  <2> QED BY <1>2, <2>2 DEF QueuesKept, SubscribeOpen, UnsubscribeOpen, SubscribeFirst
<1> QED BY <1>1, <1>2

LEMMA ReadKeeps ==
  ASSUME TypeInv, UNCHANGED toBroker, Reading
  PROVE  /\ QueuesKept
         /\ Head(fromBroker).type = "SUBACK" => SubscribeOpen
         /\ SubscribeFirst /\ Head(fromBroker).type = "UNSUBACK" => ~SubscribeOpen'
<1>1. fromBroker \in Seq(Incoming) /\ fromBroker # <<>> /\ fromBroker' = Tail(fromBroker)
  BY DEF TypeInv, PacketsTyped, Reading
<1>2. /\ \A type : InQueue(fromBroker', type) => InQueue(fromBroker, type)
      /\ InQueue(fromBroker, Head(fromBroker).type)
      /\ Precedes(fromBroker, "SUBACK", "UNSUBACK") => Precedes(fromBroker', "SUBACK", "UNSUBACK")
      /\ Precedes(fromBroker, "SUBACK", Head(fromBroker).type) => ~InQueue(fromBroker, "SUBACK")
  BY <1>1, QueueTail
<1> QED BY <1>2 DEF QueuesKept, SubscribeOpen, UnsubscribeOpen, SubscribeFirst

LEMMA BrokerKeeps ==
  ASSUME TypeInv, BrokerAnswers \/ BrokerReceives
  PROVE  QueuesKept
<1>1. /\ toBroker \in Seq(Outgoing) /\ fromBroker \in Seq(Incoming)
      /\ toBroker # <<>> /\ toBroker' = Tail(toBroker)
  BY BrokerShape DEF TypeInv, PacketsTyped
<1>2. PICK q \in Incoming :
        /\ fromBroker' = Append(fromBroker, q)
        /\ \/ Head(toBroker).type = "SUBSCRIBE" /\ q.type = "SUBACK"
           \/ Head(toBroker).type = "UNSUBSCRIBE" /\ q.type = "UNSUBACK"
           \/ Head(toBroker).type = "PUBLISH" /\ q.type = "PUBACK"
  BY BrokerShape
<1>3. /\ \A type : InQueue(toBroker', type) => InQueue(toBroker, type)
      /\ InQueue(toBroker, Head(toBroker).type)
      /\ Precedes(toBroker, "SUBSCRIBE", "UNSUBSCRIBE") => Precedes(toBroker', "SUBSCRIBE", "UNSUBSCRIBE")
      /\ Precedes(toBroker, "SUBSCRIBE", Head(toBroker).type) => ~InQueue(toBroker, "SUBSCRIBE")
  BY <1>1, QueueTail
<1>4. /\ \A type : InQueue(fromBroker', type) <=> InQueue(fromBroker, type) \/ q.type = type
      /\ /\ Precedes(fromBroker, "SUBACK", "UNSUBACK")
         /\ q.type = "SUBACK" => ~InQueue(fromBroker, "UNSUBACK")
         => Precedes(fromBroker', "SUBACK", "UNSUBACK")
  BY <1>1, <1>2, QueueAppend
<1> QED BY <1>2, <1>3, <1>4 DEF QueuesKept, SubscribeOpen, UnsubscribeOpen, SubscribeFirst

LEMMA MessageKeeps ==
  ASSUME TypeInv, NEW topic \in Topics, BrokerPublishes(topic)
  PROVE  QueuesKept
<1> DEFINE q == [type |-> "PUBLISH", id |-> 0, topic |-> topic]
<1>1. fromBroker' = Append(fromBroker, q) /\ UNCHANGED toBroker /\ fromBroker \in Seq(Incoming)
  BY DEF BrokerPublishes, TypeInv, PacketsTyped
<1>2. q \in Incoming /\ q.type = "PUBLISH" BY DEF Incoming
<1> HIDE DEF q
<1>3. /\ \A type : InQueue(fromBroker', type) <=> InQueue(fromBroker, type) \/ q.type = type
      /\ Precedes(fromBroker, "SUBACK", "UNSUBACK") => Precedes(fromBroker', "SUBACK", "UNSUBACK")
  BY <1>1, <1>2, QueueAppend
<1> QED BY <1>1, <1>2, <1>3 DEF QueuesKept, SubscribeOpen, UnsubscribeOpen, SubscribeFirst

LEMMA LossStep ==
  ASSUME TypeInv, LossEmpties, [Next]_vars
  PROVE  LossEmpties'
<1>1. CASE UNCHANGED vars BY <1>1 DEF vars, LossEmpties
<1>2. CASE \/ \E topic \in Topics : Subscribe(topic) \/ Unsubscribe(topic) \/ BrokerPublishes(topic)
           \/ Publish
  <2>1. ASSUME NEW topic \in Topics, Subscribe(topic) PROVE connected /\ connected' = connected
    BY <2>1 DEF Subscribe, MayCall
  <2>2. ASSUME NEW topic \in Topics, Unsubscribe(topic) PROVE connected /\ connected' = connected
    BY <2>2 DEF Unsubscribe, MayCall
  <2>3. ASSUME NEW topic \in Topics, BrokerPublishes(topic) PROVE connected /\ connected' = connected
    BY <2>3 DEF BrokerPublishes
  <2>4. ASSUME Publish PROVE connected /\ connected' = connected BY <2>4 DEF Publish, MayCall
  <2>5. connected /\ connected' = connected BY <1>2, <2>1, <2>2, <2>3, <2>4
  <2> QED BY <2>5 DEF LossEmpties
<1>3. CASE SubscribeAck \/ UnsubscribeAck \/ ResubscribeAck \/ PublishAck \/ ReadPublish \/ ReadOther
  BY <1>3 DEF SubscribeAck, UnsubscribeAck, ResubscribeAck, PublishAck, ReadPublish, ReadOther, Reading,
              LossEmpties
<1>4. CASE CallbackReturn \/ Timeout BY <1>4 DEF CallbackReturn, Timeout, LossEmpties
<1>5. CASE BrokerAnswers \/ BrokerReceives BY <1>5 DEF BrokerAnswers, BrokerReceives, LossEmpties
<1>6. CASE Reconnect \/ ConnectionLost BY <1>6 DEF Reconnect, ConnectionLost, LossEmpties
<1> QED BY <1>1, <1>2, <1>3, <1>4, <1>5, <1>6 DEF Next, SubscriptionStep, PublishStep

LEMMA ApplicationWalk ==
  ASSUME TypeInv, Placed, WalkSound, PromptWalk,
         (\E topic \in Topics : Subscribe(topic) \/ Unsubscribe(topic)) \/ Publish
  PROVE  WalkSound'
<1>0. CallsTyped BY DEF TypeInv
<1>1. ASSUME UNCHANGED <<calls, toBroker, fromBroker, handlers>> PROVE WalkSound'
  BY <1>1, SameWalks, SendKeeps, KeptSound
<1>2. ASSUME NEW c, Pushed(c), c.op \in {"unsubscribe", "publish"}, UNCHANGED <<handlers, fromBroker>>,
             \E p \in Outgoing : /\ toBroker' = Append(toBroker, p) /\ p.type # "SUBSCRIBE"
                                 /\ p.type = "UNSUBSCRIBE" => c.op = "unsubscribe"
      PROVE  WalkSound'
  <2>1. WalkKept /\ (c.op = "unsubscribe" => UnsubscribeWaits') BY <1>0, <1>2, PushWalks
  <2>2. QueuesKept BY <1>2, <2>1, SendKeeps
  <2> QED BY <1>2, <2>1, <2>2, KeptSound
<1>3. ASSUME NEW topic \in Topics, Subscribe(topic) PROVE WalkSound'
  <2>1. /\ MayCall("subscribe") /\ UNCHANGED <<handlers, fromBroker>>
        /\ UNCHANGED <<calls, toBroker>> \/ Pushed(Call("subscribe", topic, FreeIndex, 0))
    BY <1>3, SubscribeShape
  <2>2. calls = <<>> BY <2>1 DEF MayCall, PromptWalk
  <2>3. CASE UNCHANGED <<calls, toBroker>> BY <1>1, <2>1, <2>3
  <2>4. CASE Pushed(Call("subscribe", topic, FreeIndex, 0))
    <3> DEFINE c == Call("subscribe", topic, FreeIndex, 0)
    <3>1. c.op = "subscribe" BY CallFields
    <3>2. Pushed(c) BY <2>4
    <3> HIDE DEF c
    <3>3. WalkKept BY <1>0, <3>1, <3>2, PushWalks
    <3>4. ~Walking' BY <2>2, <3>3 DEF WalkKept, Walking
    <3> QED BY <3>4 DEF WalkSound
  <2> QED BY <2>1, <2>3, <2>4
<1>4. ASSUME NEW topic \in Topics, Unsubscribe(topic) PROVE WalkSound'
  <2>1. /\ UNCHANGED <<handlers, fromBroker>>
        /\ \/ UNCHANGED <<calls, toBroker>>
           \/ /\ Pushed(Call("unsubscribe", topic, 0, 0))
              /\ \E p \in Outgoing : toBroker' = Append(toBroker, p) /\ p.type = "UNSUBSCRIBE"
    BY <1>4, UnsubscribeShape
  <2>2. Call("unsubscribe", topic, 0, 0).op = "unsubscribe" BY CallFields
  <2> QED BY <1>1, <1>2, <2>1, <2>2
<1>5. ASSUME Publish PROVE WalkSound'
  <2>1. /\ UNCHANGED <<handlers, fromBroker>>
        /\ \/ UNCHANGED <<calls, toBroker>>
           \/ /\ Pushed(Call("publish", published', 0, 0))
              /\ \E p \in Outgoing : toBroker' = Append(toBroker, p) /\ p.type = "PUBLISH"
    BY <1>5, PublishShape
  <2>2. Call("publish", published', 0, 0).op = "publish" BY CallFields
  <2> QED BY <1>1, <1>2, <2>1, <2>2
<1> QED BY <1>3, <1>4, <1>5

\* A resubscribe starts with nothing in flight; it goes on when no unsubscribe
\* is under way, and so, having its answer, when none is in flight.
LEMMA ResubscribeWalk ==
  ASSUME TypeInv, Placed, LossEmpties, WalkSound, UNCHANGED <<env, publishing>>,
         Reconnect \/ ResubscribeAck
  PROVE  /\ WalkSound'
         /\ SendsTopics => SendsTopics'
<1>1. UNCHANGED handlers BY ResubscribeTypes
<1>2. PICK i \in Nat, n \in 0..NumHandlers :
        /\ Resubscribes(i, n)
        /\ \/ Reconnect /\ i = 0 /\ n = FreeIndex /\ calls = <<>> /\ ~connected
           \/ ResubscribeAck /\ Len(calls) = 1 /\ calls[1].op = "resubscribe"
              /\ i = calls[1].itr + 1 /\ n = calls[1].slot /\ connected' = connected
  BY ResubscribeTypes
<1>3. (\A j \in 0..(n - 1) : handlers[j] # None) /\ ~UnsubscribeOpen
      /\ (InQueue(fromBroker', "UNSUBACK") => InQueue(fromBroker, "UNSUBACK"))
  <2>1. CASE Reconnect /\ n = FreeIndex /\ ~connected
    <3>1. toBroker = <<>> /\ fromBroker = <<>> /\ UNCHANGED fromBroker
      BY <2>1 DEF LossEmpties, Reconnect
    <3>2. ~InQueue(<<>>, "UNSUBSCRIBE") /\ ~InQueue(<<>>, "UNSUBACK") BY DEF InQueue
    <3> QED BY <2>1, <3>1, <3>2, FreeIndexFound DEF UnsubscribeOpen
  <2>2. CASE ResubscribeAck /\ Len(calls) = 1 /\ calls[1].op = "resubscribe" /\ n = calls[1].slot
    <3>1. Reading /\ Head(fromBroker).type = "SUBACK" /\ calls # <<>>
      BY <2>2 DEF ResubscribeAck, Waiting
    <3>2. fromBroker \in Seq(Incoming) /\ fromBroker # <<>> /\ fromBroker' = Tail(fromBroker)
      BY <3>1 DEF TypeInv, PacketsTyped, Reading
    <3>3. /\ InQueue(fromBroker, Head(fromBroker).type)
          /\ InQueue(fromBroker', "UNSUBACK") => InQueue(fromBroker, "UNSUBACK")
      BY <3>2, QueueTail
    <3>4. Walking /\ SubscribeOpen BY <2>2, <3>1, <3>3 DEF Walking, SubscribeOpen
    <3>5. ~UnsubscribeWaits BY <2>2 DEF UnsubscribeWaits, Under
    <3> QED BY <2>2, <3>3, <3>4, <3>5 DEF WalkSound, CountedInUse
  <2> QED BY <1>2, <2>1, <2>2
<1>4. CASE calls' = <<>> /\ UNCHANGED toBroker
  <2>1. WalkSound' BY <1>4 DEF WalkSound, Walking
  <2>2. SendsTopics => SendsTopics' BY <1>4 DEF SendsTopics, InFlight
  <2> QED BY <2>1, <2>2
<1>5. ASSUME i < n, calls' = <<Call("resubscribe", None, n, i)>>,
             NEW p \in Outgoing, toBroker' = Append(toBroker, p), p.type = "SUBSCRIBE",
             p.topic = handlers[i]
      PROVE  WalkSound' /\ (SendsTopics => SendsTopics')
  <2>1. toBroker \in Seq(Outgoing) BY DEF TypeInv, PacketsTyped
  <2>2. \A type : InQueue(toBroker', type) <=> InQueue(toBroker, type) \/ p.type = type
    BY <1>5, <2>1, QueueAppend
  <2>3. ~UnsubscribeOpen' BY <1>3, <1>5, <2>2 DEF UnsubscribeOpen
  <2>4. SubscribeFirst'
    BY <2>3 DEF SubscribeFirst, UnsubscribeOpen, Precedes, InQueue
  <2>5. CountedInUse'
    <3>1. calls'[1] = Call("resubscribe", None, n, i) BY <1>5
    <3>2. calls'[1].slot = n BY <3>1, CallFields
    <3> QED BY <1>1, <1>3, <3>2 DEF CountedInUse
  <2>6. WalkSound' BY <2>3, <2>4, <2>5 DEF WalkSound
  <2>7. i \in 0..(n - 1) BY <1>5
  <2>8. p.topic # None BY <1>3, <1>5, <2>7
  <2>9. SendsTopics => SendsTopics' BY <1>5, <2>1, <2>8, InFlightAppend DEF SendsTopics
  <2> QED BY <2>6, <2>9
<1> QED BY <1>2, <1>4, <1>5 DEF Resubscribes

LEMMA AckWalk ==
  ASSUME TypeInv, Placed, WalkSound, PromptWalk, SubscribeAck \/ UnsubscribeAck \/ PublishAck
  PROVE  WalkSound'
<1>1. calls # <<>> /\ calls' = Front(calls) /\ Reading /\ UNCHANGED toBroker
  BY DEF SubscribeAck, UnsubscribeAck, PublishAck, Waiting
<1>2. /\ CallsTyped /\ Popped /\ Last(calls) = calls[Len(calls)] /\ Last(calls) \in CallSet
      /\ Len(calls) \in Under
  BY <1>1, ReturnShape DEF TypeInv
<1>3. /\ Walking' => Walking /\ calls'[1] = calls[1]
      /\ calls[Len(calls)].op # "unsubscribe" => WalkKept
  BY <1>2, PopWalks
<1>4. /\ QueuesKept
      /\ SubscribeFirst /\ Head(fromBroker).type = "UNSUBACK" => ~SubscribeOpen'
  BY <1>1, ReadKeeps
<1>5. CASE SubscribeAck
  <2>1. calls[Len(calls)].op = "subscribe" BY <1>2, <1>5 DEF SubscribeAck
  <2>2. ~(Len(calls) > 1) BY <1>2, <2>1 DEF Placed, PromptWalk
  <2>3. Len(calls) = 1
    <3>1. Len(calls) \in Nat /\ Len(calls) > 0 BY <1>1, TopCall DEF TypeInv, CallsTyped
    <3>2. \A m \in Nat : m > 0 /\ ~(m > 1) => m = 1 OBVIOUS
    <3> QED BY <2>2, <3>1, <3>2
  <2>4. ~Walking' BY <1>3, <2>1, <2>3 DEF Walking
  <2> QED BY <2>4 DEF WalkSound
<1>6. CASE UnsubscribeAck
  <2>1. Head(fromBroker).type = "UNSUBACK" BY <1>6 DEF UnsubscribeAck
  <2> SUFFICES ASSUME Walking', SubscribeOpen' PROVE FALSE BY DEF WalkSound
  <2>2. Walking /\ SubscribeOpen BY <1>3, <1>4 DEF QueuesKept
  <2> QED BY <1>4, <2>1, <2>2 DEF WalkSound
<1>7. CASE PublishAck
  <2>1. calls[Len(calls)].op = "publish" /\ UNCHANGED handlers BY <1>2, <1>7 DEF PublishAck
  <2> QED BY <1>3, <1>4, <2>1, KeptSound
<1> QED BY <1>5, <1>6, <1>7

LEMMA OtherWalk ==
  ASSUME TypeInv, WalkSound, PromptWalk,
         \/ ReadPublish \/ ReadOther \/ CallbackReturn \/ Timeout
         \/ BrokerAnswers \/ BrokerReceives
         \/ (\E topic \in Topics : BrokerPublishes(topic)) \/ ConnectionLost
  PROVE  WalkSound'
<1>0. CallsTyped BY DEF TypeInv
<1>1. CASE ReadPublish
  <2> DEFINE c == Call("callback", Head(fromBroker).topic, 0, 0)
  <2>1. Pushed(c) /\ c.op = "callback" BY <1>1, DeliverShape, CallFields
  <2>2. Reading /\ UNCHANGED <<toBroker, handlers>> BY <1>1, DeliverShape
  <2> HIDE DEF c
  <2> QED BY <1>0, <2>1, <2>2, PushWalks, ReadKeeps, KeptSound
<1>2. CASE ReadOther
  <2>1. Reading /\ UNCHANGED <<toBroker, handlers, calls>> BY <1>2 DEF ReadOther
  <2> QED BY <2>1, SameWalks, ReadKeeps, KeptSound
<1>3. CASE CallbackReturn
  <2>1. /\ calls # <<>> /\ calls' = Front(calls) /\ Last(calls).op = "callback"
        /\ UNCHANGED <<toBroker, fromBroker, handlers>>
    BY <1>3 DEF CallbackReturn
  <2>2. Popped /\ calls[Len(calls)].op # "unsubscribe" BY <2>1, ReturnShape
  <2> QED BY <1>0, <2>1, <2>2, PopWalks, SendKeeps, KeptSound
<1>4. CASE Timeout \/ ConnectionLost
  <2>1. toBroker' = <<>> /\ fromBroker' = <<>>
    BY <1>4 DEF Timeout, ConnectionLost, PromptWalk
  <2>2. ~InQueue(<<>>, "SUBSCRIBE") /\ ~InQueue(<<>>, "SUBACK") BY DEF InQueue
  <2>3. ~SubscribeOpen' BY <2>1, <2>2 DEF SubscribeOpen
  <2> QED BY <2>3 DEF WalkSound
<1>5. CASE BrokerAnswers \/ BrokerReceives
  <2>1. UNCHANGED <<handlers, calls>> BY <1>5, BrokerShape
  <2> QED BY <1>5, <2>1, SameWalks, BrokerKeeps, KeptSound
<1>6. ASSUME NEW topic \in Topics, BrokerPublishes(topic) PROVE WalkSound'
  <2>1. UNCHANGED <<handlers, calls>> BY <1>6 DEF BrokerPublishes
  <2> QED BY <1>6, <2>1, SameWalks, MessageKeeps, KeptSound
<1> QED BY <1>1, <1>2, <1>3, <1>4, <1>5, <1>6

LEMMA SendsStep ==
  ASSUME TypeInv, Placed, SendsInv, [Next]_vars
  PROVE  SendsInv'
<1>0. LossEmpties' BY LossStep DEF SendsInv
<1>1. UNCHANGED env BY DEF Next, vars
<1> SUFFICES ASSUME PromptWalk PROVE WalkSound' /\ SendsTopics'
  BY <1>0, <1>1 DEF SendsInv, PromptWalk
<1>2. LossEmpties /\ WalkSound /\ SendsTopics BY DEF SendsInv
<1>3. CASE UNCHANGED vars
  <2>1. UNCHANGED <<handlers, calls, toBroker, fromBroker>> BY <1>3 DEF vars
  <2>2. WalkSound' BY <1>2, <2>1, SameWalks, SendKeeps, KeptSound
  <2> QED BY <1>2, <2>1, <2>2 DEF SendsTopics, InFlight
<1>4. CASE (Reconnect \/ ResubscribeAck) /\ UNCHANGED publishing
  BY <1>1, <1>2, <1>4, ResubscribeWalk
<1>5. CASE \/ (\E topic \in Topics : Subscribe(topic) \/ Unsubscribe(topic)) \/ Publish
           \/ SubscribeAck \/ UnsubscribeAck \/ PublishAck
           \/ ReadPublish \/ ReadOther \/ CallbackReturn \/ Timeout
           \/ BrokerAnswers \/ BrokerReceives
           \/ (\E topic \in Topics : BrokerPublishes(topic)) \/ ConnectionLost
  <2>1. WalkSound' BY <1>2, <1>5, ApplicationWalk, AckWalk, OtherWalk
  <2>2. Quiet \/ Calling \/ Subscribes \/ Stored \/ Removed
    BY <1>5, ApplicationEffect, AckEffect, OtherEffect
  <2>3. ASSUME Subscribes PROVE SendsTopics'
    <3>1. PICK c \in CallSet :
            /\ c.op = "subscribe"
            /\ \A x : x \in InFlight("SUBSCRIBE")' <=> x \in InFlight("SUBSCRIBE") \/ x = c.topic
      BY <2>3 DEF Subscribes
    <3>2. c.topic # None BY <3>1, CallCases, TopicsAssumption
    <3> QED BY <1>2, <3>1, <3>2 DEF SendsTopics
  <2>4. NothingSubscribed => SendsTopics' BY <1>2 DEF NothingSubscribed, SendsTopics
  <2> QED BY <2>1, <2>2, <2>3, <2>4 DEF Quiet, Calling, Stored, Removed
<1> QED BY <1>3, <1>4, <1>5 DEF Next, SubscriptionStep, PublishStep

\* A resubscribe never sends a place of the table that was freed under it by a
\* callback's unsubscribe, as long as answers come before the command timer
\* expires and callbacks do not subscribe (the SUBACK of the resubscribe would
\* then end their subscribe).
THEOREM SendsSound ==
  Spec => []("subscribe" \notin env.callbackOps /\ ~env.timeouts => SendsTopics)
<1>1. Init => SendsInv
  BY DEF Init, SendsInv, LossEmpties, WalkSound, Walking, SendsTopics, InFlight
<1>2. TypeInv /\ Placed /\ SendsInv /\ [Next]_vars => SendsInv' BY SendsStep
<1>3. SendsInv => ("subscribe" \notin env.callbackOps /\ ~env.timeouts => SendsTopics)
  BY DEF SendsInv, PromptWalk
<1> QED BY <1>1, <1>2, <1>3, TypeInvariant, PTL DEF Spec

-----------------------------------------------------------------------------
(* What the broker holds.  Nothing is unsubscribed or refused: a topic     *)
(* whose SUBSCRIBE was sent stays with the broker while the connection is  *)
(* up, the table has no holes, and a resubscribe has sent every handler    *)
(* below the one it waits for.                                             *)

Plain == "unsubscribe" \notin env.ops \cup env.callbackOps /\ ~env.refuses
Held  == session \cup InFlight("SUBSCRIBE")

NothingEnded == "UNSUBSCRIBE" \notin {toBroker[k].type : k \in 1..Len(toBroker)}

NoHoles == \A i, j \in Slots : i < j /\ handlers[j] # None => handlers[i] # None

\* Handlers i to n - 1 are still to be sent.
Pending(i, n) == \A j \in Slots : handlers[j] # None => handlers[j] \in Held \/ (i <= j /\ j < n)

CallHeld(c) ==
  /\ c.op = "subscribe" => /\ \A j \in 0..(c.slot - 1) : handlers[j] # None
                           /\ connected => c.topic \in Held
  /\ c.op = "resubscribe" => restored = FALSE /\ (connected => Pending(c.itr + 1, c.slot))

HeldParts ==
  /\ NothingEnded /\ NoHoles
  /\ \A k \in Under : CallHeld(calls[k])
  /\ connected /\ restored => Handled \subseteq Held

HeldInv == Plain => HeldParts

\* No packet but a SUBSCRIBE or a PUBLISH is sent.
LEMMA EndedAppend ==
  ASSUME TypeInv, NothingEnded, NEW p \in Outgoing, toBroker' = Append(toBroker, p),
         p.type # "UNSUBSCRIBE"
  PROVE  NothingEnded'
<1>1. /\ Len(toBroker) \in Nat /\ Len(toBroker') = Len(toBroker) + 1
      /\ toBroker'[Len(toBroker) + 1] = p
      /\ \A k \in 1..Len(toBroker) : toBroker'[k] = toBroker[k]
  BY DEF TypeInv, PacketsTyped
<1>2. \A k \in 1..Len(toBroker') : k \in 1..Len(toBroker) \/ k = Len(toBroker) + 1 BY <1>1
<1> QED BY <1>1, <1>2 DEF NothingEnded

LEMMA EndedTail ==
  ASSUME TypeInv, NothingEnded, toBroker # <<>>, toBroker' = Tail(toBroker)
  PROVE  NothingEnded' /\ Head(toBroker).type # "UNSUBSCRIBE"
<1>1. /\ Len(toBroker) \in Nat /\ Len(toBroker) > 0 /\ Len(toBroker') = Len(toBroker) - 1
      /\ Head(toBroker) = toBroker[1]
      /\ \A k \in 1..Len(toBroker') : toBroker'[k] = toBroker[k + 1]
  BY DEF TypeInv, PacketsTyped
<1>2. /\ \A k \in 1..Len(toBroker') : k + 1 \in 1..Len(toBroker)
      /\ 1 \in 1..Len(toBroker)
  BY <1>1
<1> QED BY <1>1, <1>2 DEF NothingEnded

\* Held only shrinks when the connection is lost.
LEMMA HeldGrows ==
  ASSUME TypeInv, Placed, Plain, NothingEnded, [Next]_vars
  PROVE  NothingEnded' /\ (connected' = FALSE \/ Held \subseteq Held')
<1>1. CASE UNCHANGED <<toBroker, session>> BY <1>1 DEF NothingEnded, Held, InFlight
<1>2. ASSUME UNCHANGED session, NEW p \in Outgoing, toBroker' = Append(toBroker, p),
             p.type # "UNSUBSCRIBE"
      PROVE  NothingEnded' /\ Held \subseteq Held'
  BY <1>2, EndedAppend, InFlightAppend DEF TypeInv, PacketsTyped, Held
<1>3. ~MayCall("unsubscribe") BY DEF MayCall, Plain
<1>4. CASE \E topic \in Topics : Subscribe(topic) \/ Unsubscribe(topic)
  BY <1>1, <1>2, <1>3, <1>4, SubscribeShape DEF Unsubscribe
<1>5. CASE Publish BY <1>1, <1>2, <1>5, PublishShape
<1>6. CASE (Reconnect \/ ResubscribeAck) /\ UNCHANGED <<env, publishing>>
  <2>1. UNCHANGED session BY <1>6, ResubscribeTypes
  <2>2. PICK i \in Nat, n \in 0..NumHandlers : Resubscribes(i, n) BY <1>6, ResubscribeTypes
  <2> QED BY <1>1, <1>2, <2>1, <2>2 DEF Resubscribes
<1>7. CASE BrokerAnswers \/ BrokerReceives
  <2>1. /\ toBroker # <<>> /\ toBroker' = Tail(toBroker)
        /\ \/ session' = session \cup {Head(toBroker).topic}
           \/ env.refuses
           \/ Head(toBroker).type = "UNSUBSCRIBE"
           \/ Head(toBroker).type = "PUBLISH" /\ UNCHANGED session
    BY <1>7, BrokerShape
  <2>2. NothingEnded' /\ Head(toBroker).type # "UNSUBSCRIBE" BY <2>1, EndedTail
  <2>3. Held \subseteq Held'
    BY <2>1, <2>2, InFlightTail DEF TypeInv, PacketsTyped, Held, Plain
  <2> QED BY <2>2, <2>3
<1>8. CASE ConnectionLost
  <2>1. toBroker' = <<>> /\ connected' = FALSE BY <1>8 DEF ConnectionLost
  <2> QED BY <2>1 DEF NothingEnded
<1>9. CASE \/ SubscribeAck \/ UnsubscribeAck \/ PublishAck \/ ReadPublish \/ ReadOther
           \/ CallbackReturn \/ Timeout \/ (\E topic \in Topics : BrokerPublishes(topic))
  BY <1>1, <1>9 DEF SubscribeAck, UnsubscribeAck, PublishAck, ReadPublish, ReadOther,
                    CallbackReturn, Timeout, BrokerPublishes
<1> QED BY <1>1, <1>4, <1>5, <1>6, <1>7, <1>8, <1>9 DEF Next, SubscriptionStep, PublishStep, vars

\* What a call or the table is known by stays so while the table is the same.
LEMMA HeldSame ==
  ASSUME UNCHANGED handlers, Held \subseteq Held' \/ connected' = FALSE,
         connected' = connected \/ connected' = FALSE, restored' = restored,
         connected \in BOOLEAN
  PROVE  /\ \A c : CallHeld(c) => CallHeld(c)'
         /\ NoHoles => NoHoles'
         /\ (connected /\ restored => Handled \subseteq Held)
            => (connected /\ restored => Handled \subseteq Held)'
<1>1. ASSUME NEW i, NEW n, Pending(i, n), Held \subseteq Held' PROVE Pending(i, n)'
  BY <1>1 DEF Pending, Slots
<1>2. ASSUME NEW c, CallHeld(c) PROVE CallHeld(c)'
  <2>1. CASE connected' = FALSE BY <1>2, <2>1 DEF CallHeld
  <2>2. CASE connected' = connected /\ Held \subseteq Held'
    <3>1. Pending(c.itr + 1, c.slot) => Pending(c.itr + 1, c.slot)' BY <1>1, <2>2
    <3> QED BY <1>2, <2>2, <3>1 DEF CallHeld
  <2> QED BY <2>1, <2>2
<1>3. NoHoles => NoHoles' BY DEF NoHoles, Slots
<1>4. Handled' = Handled BY DEF Handled, Slots
<1> QED BY <1>2, <1>3, <1>4

LEMMA HeldStep ==
  ASSUME TypeInv, Placed, HeldInv, [Next]_vars
  PROVE  HeldInv'
<1> SUFFICES ASSUME Plain PROVE HeldParts' BY Effects DEF HeldInv, Plain
<1>0. /\ NothingEnded /\ NoHoles /\ \A k \in Under : CallHeld(calls[k])
      /\ connected /\ restored => Handled \subseteq Held
  BY DEF HeldInv, HeldParts
<1>1. NothingEnded' /\ (connected' = FALSE \/ Held \subseteq Held') BY <1>0, HeldGrows
<1>2. connected \in BOOLEAN /\ restored \in BOOLEAN BY DEF TypeInv, TableTyped
<1>3. ASSUME UNCHANGED handlers, connected' = connected \/ connected' = FALSE, restored' = restored,
             \A k \in 1..Len(calls') : (k \in Under /\ calls'[k] = calls[k]) \/ CallHeld(calls[k])'
      PROVE  HeldParts'
  <2>1. /\ \A c : CallHeld(c) => CallHeld(c)'
        /\ NoHoles' /\ (connected /\ restored => Handled \subseteq Held)'
    BY <1>0, <1>1, <1>2, <1>3, HeldSame
  <2>2. ASSUME NEW k \in 1..Len(calls') PROVE CallHeld(calls[k])'
    <3>1. CASE k \in Under /\ calls'[k] = calls[k]
      <4> DEFINE c == calls[k]
      <4>1. CallHeld(c) BY <1>0, <3>1
      <4>2. \A d : CallHeld(d) /\ d = calls'[k] => CallHeld(calls[k])'
        <5> SUFFICES ASSUME NEW d, CallHeld(d), d = calls'[k] PROVE CallHeld(calls[k])' OBVIOUS
        <5>1. CallHeld(d)' BY <2>1
        <5> QED BY <5>1 DEF CallHeld, Pending
      <4> QED BY <3>1, <4>1, <4>2
    <3> QED BY <1>3, <3>1
  <2> QED BY <1>1, <2>1, <2>2 DEF HeldParts, Under
<1>4. CASE Quiet
  <2>1. /\ UNCHANGED handlers /\ restored' = restored
        /\ connected' = connected \/ connected' = FALSE
        /\ \A k \in 1..Len(calls') : k \in Under /\ calls'[k] = calls[k]
    BY <1>4 DEF Quiet, TableSame, CallsLeft
  <2> QED BY <1>3, <2>1
<1>5. CASE Calling
  <2>1. UNCHANGED handlers /\ restored' = restored /\ connected' = connected
    BY <1>5 DEF Calling, TableSame
  <2>2. PICK c \in CallSet : CallsMade(c) /\ c.op \in {"unsubscribe", "publish", "callback"}
    BY <1>5 DEF Calling
  <2>3. ASSUME NEW k \in 1..Len(calls')
        PROVE  (k \in Under /\ calls'[k] = calls[k]) \/ CallHeld(calls[k])'
    BY <2>2 DEF CallsMade, CallHeld
  <2> QED BY <1>3, <2>1, <2>3
<1>6. CASE Subscribes
  <2>1. UNCHANGED <<handlers, connected, restored, session>> BY <1>6 DEF Subscribes, TableSame
  <2>2. PICK c \in CallSet :
          /\ CallsMade(c) /\ c.op = "subscribe" /\ c.slot = FreeIndex
          /\ \A x : x \in InFlight("SUBSCRIBE")' <=> x \in InFlight("SUBSCRIBE") \/ x = c.topic
    BY <1>6 DEF Subscribes
  <2>3. c.topic \in Held' /\ \A j \in 0..(c.slot - 1) : handlers'[j] # None
    BY <2>1, <2>2, FreeIndexFound DEF Held
  <2>4. ASSUME NEW k \in 1..Len(calls')
        PROVE  (k \in Under /\ calls'[k] = calls[k]) \/ CallHeld(calls[k])'
    BY <2>2, <2>3 DEF CallsMade, CallHeld
  <2> QED BY <1>3, <2>1, <2>4
<1>7. CASE Restoring
  <2>1. UNCHANGED handlers /\ session' = session BY <1>7 DEF Restoring, TableSame
  <2>2. PICK i \in Nat, n \in 0..NumHandlers :
          /\ Resubscribes(i, n)
          /\ \/ i = 0 /\ n = FreeIndex /\ calls = <<>> /\ ~connected
             \/ /\ Len(calls) = 1 /\ calls[1].op = "resubscribe" /\ connected' = connected
                /\ i = calls[1].itr + 1 /\ n = calls[1].slot
          /\ \A x \in InFlight("SUBSCRIBE") : x \in InFlight("SUBSCRIBE")'
          /\ calls' # <<>> => i \in Slots /\ handlers[i] \in InFlight("SUBSCRIBE")'
    BY <1>7 DEF Restoring
  <2>3. Held \subseteq Held' BY <2>1, <2>2 DEF Held
  <2>4. connected' => Pending(i, n)
    <3>1. CASE i = 0 /\ n = FreeIndex
      <4>1. ASSUME NEW j \in Slots, handlers[j] # None PROVE 0 <= j /\ j < FreeIndex
        <5>1. /\ FreeIndex \in 0..NumHandlers /\ NumHandlers \in Nat
              /\ FreeIndex < NumHandlers => FreeIndex \in Slots /\ handlers[FreeIndex] = None
          BY FreeIndexFound
        <5>2. j \in 0..(NumHandlers - 1) BY DEF Slots
        <5>3. CASE FreeIndex = NumHandlers BY <5>1, <5>2, <5>3
        <5>4. CASE FreeIndex < NumHandlers
          <6>1. j # FreeIndex BY <4>1, <5>1, <5>4
          <6>2. ~(FreeIndex < j) BY <1>0, <4>1, <5>1, <5>4 DEF NoHoles
          <6> QED BY <5>1, <5>2, <6>1, <6>2
        <5> QED BY <5>1, <5>3, <5>4
      <4> QED BY <3>1, <4>1 DEF Pending
    <3>2. CASE /\ Len(calls) = 1 /\ calls[1].op = "resubscribe" /\ connected' = connected
               /\ i = calls[1].itr + 1 /\ n = calls[1].slot
      <4>1. 1 \in Under BY <3>2 DEF Under
      <4> QED BY <1>0, <3>2, <4>1 DEF CallHeld
    <3> QED BY <2>2, <3>1, <3>2
  <2>5. NoHoles' BY <1>0, <2>1 DEF NoHoles, Slots
  <2>6. CASE calls' = <<>> /\ i = n /\ restored' = TRUE
    <3>1. connected' => Handled' \subseteq Held'
      <4> SUFFICES ASSUME connected', NEW j \in Slots, handlers[j] # None
                   PROVE  handlers[j] \in Held'
        BY <2>1 DEF Handled, Slots
      <4>1. handlers[j] \in Held \/ (n <= j /\ j < n) BY <2>4, <2>6 DEF Pending
      <4>2. j \in Int /\ n \in Int BY DEF Slots
      <4> QED BY <2>3, <4>1, <4>2
    <3> QED BY <1>1, <2>5, <2>6, <3>1 DEF HeldParts, Under
  <2>7. CASE calls' = <<>> /\ restored' = FALSE
    BY <1>1, <2>5, <2>7 DEF HeldParts, Under
  <2>8. CASE calls' = <<Call("resubscribe", None, n, i)>> /\ restored' = FALSE
    <3>1. \A k \in 1..Len(calls') : calls'[k] = Call("resubscribe", None, n, i) BY <2>8
    <3>2. \A k \in 1..Len(calls') :
            calls'[k].op = "resubscribe" /\ calls'[k].itr = i /\ calls'[k].slot = n
      BY <3>1, CallFields
    <3>3. connected' => Pending(i + 1, n)'
      <4> SUFFICES ASSUME connected', NEW j \in Slots, handlers[j] # None
                   PROVE  handlers[j] \in Held' \/ (i + 1 <= j /\ j < n)
        BY <2>1 DEF Pending, Slots
      <4>1. handlers[j] \in Held \/ (i <= j /\ j < n) BY <2>4 DEF Pending
      <4>2. handlers[i] \in Held' BY <2>2, <2>8 DEF Held
      <4>3. j \in Nat BY DEF Slots
      <4>4. CASE j = i BY <4>2, <4>4
      <4>5. CASE j # i BY <2>3, <4>1, <4>3, <4>5
      <4> QED BY <4>4, <4>5
    <3>4. \A k \in 1..Len(calls') : CallHeld(calls[k])' BY <2>8, <3>2, <3>3 DEF CallHeld, Pending
    <3> QED BY <1>1, <2>5, <2>8, <3>4 DEF HeldParts, Under
  <2> QED BY <2>2, <2>6, <2>7, <2>8 DEF Resubscribes
<1>8. CASE Stored
  <2>1. UNCHANGED <<session, connected, restored, toBroker>> /\ CallsLeft BY <1>8 DEF Stored
  <2>2. PICK k \in Under :
          /\ k = Len(calls) /\ calls[k].op = "subscribe" /\ Len(calls') = k - 1
          /\ handlers' = [handlers EXCEPT ![calls[k].slot] = calls[k].topic]
    BY <1>8 DEF Stored
  <2>3. calls[k] \in CallSet BY DEF TypeInv, CallsTyped, Under
  <2>4. /\ calls[k].slot \in Slots /\ calls[k].topic \in Topics /\ calls[k].topic # None
        /\ handlers'[calls[k].slot] = calls[k].topic
        /\ \A j \in Slots : j # calls[k].slot => handlers'[j] = handlers[j]
    BY <2>2, <2>3, StoredPlaces
  <2>5. \A j \in Slots : handlers[j] # None => handlers'[j] # None BY <2>4
  <2>6. /\ \A j \in 0..(calls[k].slot - 1) : handlers[j] # None
        /\ connected => calls[k].topic \in Held
    BY <1>0, <2>2 DEF CallHeld
  <2>7. Held' = Held BY <2>1 DEF Held, InFlight
  <2>8. NoHoles'
    <3> SUFFICES ASSUME NEW i \in Slots, NEW j \in Slots, i < j, handlers'[j] # None
                 PROVE  handlers'[i] # None
      BY DEF NoHoles, Slots
    <3>1. CASE j = calls[k].slot
      <4>1. i \in 0..(calls[k].slot - 1) BY <3>1 DEF Slots
      <4> QED BY <2>5, <2>6, <4>1
    <3>2. CASE j # calls[k].slot BY <1>0, <2>4, <2>5, <3>2 DEF NoHoles
    <3> QED BY <3>1, <3>2
  <2>9. \A j \in Slots : handlers'[j] = handlers[j] \/ (connected => handlers'[j] \in Held)
    BY <2>4, <2>6
  <2>10. ASSUME NEW l \in 1..Len(calls') PROVE CallHeld(calls[l])'
    <3>1. l \in Under /\ calls'[l] = calls[l] /\ calls[l] \in CallSet
      BY <2>1 DEF CallsLeft, TypeInv, CallsTyped, Under
    <3>2. CallHeld(calls[l]) BY <1>0, <3>1
    <3>3. CASE calls[l].op = "subscribe"
      <4>0. calls[l].slot \in Slots BY <3>1, <3>3, CallCases
      <4>1. \A j \in 0..(calls[l].slot - 1) : handlers[j] # None /\ j \in Slots
        <5>1. \A j \in 0..(calls[l].slot - 1) : handlers[j] # None BY <3>2, <3>3 DEF CallHeld
        <5>2. \A j \in 0..(calls[l].slot - 1) : j \in Slots BY <4>0, BoundsAssumption DEF Slots
        <5> QED BY <5>1, <5>2
      <4> QED BY <2>1, <2>5, <2>7, <3>1, <3>2, <3>3, <4>1 DEF CallHeld
    <3>4. CASE calls[l].op = "resubscribe"
      <4>1. restored = FALSE /\ (connected => Pending(calls[l].itr + 1, calls[l].slot))
        BY <3>2, <3>4 DEF CallHeld
      <4>2. ASSUME connected
            PROVE  \A j \in Slots : handlers'[j] # None =>
                     handlers'[j] \in Held \/ (calls[l].itr + 1 <= j /\ j < calls[l].slot)
        BY <2>9, <4>1, <4>2 DEF Pending
      <4>3. connected => Pending(calls[l].itr + 1, calls[l].slot)'
        <5>1. Slots' = Slots /\ calls'[l].itr = calls[l].itr /\ calls'[l].slot = calls[l].slot
          BY <3>1 DEF Slots
        <5> QED BY <2>7, <4>2, <5>1 DEF Pending
      <4> QED BY <2>1, <3>1, <3>4, <4>1, <4>3 DEF CallHeld
    <3>5. CASE calls[l].op \notin {"subscribe", "resubscribe"} BY <3>1, <3>5 DEF CallHeld
    <3> QED BY <3>3, <3>4, <3>5
  <2>11. (connected /\ restored => Handled \subseteq Held)'
    <3> SUFFICES ASSUME connected, restored, NEW j \in Slots, handlers'[j] # None
                 PROVE  handlers'[j] \in Held
      BY <2>1, <2>7 DEF Handled, Slots
    <3>1. handlers[j] # None => handlers[j] \in Held BY <1>0 DEF Handled
    <3> QED BY <2>9, <3>1
  <2> QED BY <1>1, <2>8, <2>10, <2>11 DEF HeldParts, Under
<1>9. CASE Removed
  <2>1. PICK k \in Under : calls[k].op = "unsubscribe" BY <1>9 DEF Removed
  <2>2. k = 1 \/ k > 1 BY DEF Under
  <2>3. "unsubscribe" \in env.ops \cup env.callbackOps BY <2>1, <2>2 DEF Placed
  <2> QED BY <2>3 DEF Plain
<1> QED BY <1>4, <1>5, <1>6, <1>7, <1>8, <1>9, Effects

\* Whenever the client is connected, reports its subscriptions as restored and
\* is not in a call, the broker holds every topic that has a handler: the
\* resubscribe after a reconnect, with its answers lost, late or interrupted
\* by callbacks, leaves none out.
THEOREM SubscribedSound == Spec => []SubscribedUnlessFreed
<1>1. Init => HeldInv
  <2> SUFFICES ASSUME Init PROVE HeldParts BY DEF HeldInv
  <2>1. NothingEnded BY DEF Init, NothingEnded
  <2>2. \A i \in Slots : handlers[i] = None BY DEF Init
  <2>3. NoHoles BY <2>2 DEF NoHoles
  <2>4. Handled = {} BY <2>2 DEF Handled
  <2>5. Under = {} BY DEF Init, Under
  <2> QED BY <2>1, <2>3, <2>4, <2>5 DEF HeldParts
<1>2. TypeInv /\ Placed /\ HeldInv /\ [Next]_vars => HeldInv' BY HeldStep
<1>3. HeldInv => SubscribedUnlessFreed
  BY DEF HeldInv, HeldParts, SubscribedUnlessFreed, HandledIsSubscribed, Plain, Held
<1> QED BY <1>1, <1>2, <1>3, TypeInvariant, PTL DEF Spec


-----------------------------------------------------------------------------
(* The numbers of the messages in flight, and of their acknowledgements.   *)

Marked(q, type) == {q[k].topic : k \in {j \in 1..Len(q) : q[j].type = type}}

Once(q, type) ==
  \A i, j \in 1..Len(q) : q[i].type = type /\ q[j].type = type /\ q[i].topic = q[j].topic => i = j

LEMMA MarkedAppend ==
  ASSUME NEW S, NEW q \in Seq(S), NEW p \in S, NEW type
  PROVE  /\ p.type # type => Marked(Append(q, p), type) = Marked(q, type)
         /\ p.type = type => Marked(Append(q, p), type) = Marked(q, type) \cup {p.topic}
         /\ Once(q, type) /\ (p.type = type => p.topic \notin Marked(q, type)) => Once(Append(q, p), type)
<1> DEFINE r == Append(q, p)
<1>1. /\ Len(q) \in Nat /\ Len(r) = Len(q) + 1 /\ r[Len(q) + 1] = p
      /\ \A k \in 1..Len(q) : r[k] = q[k]
  OBVIOUS
<1> HIDE DEF r
<1>2. /\ \A k \in 1..Len(r) : k \in 1..Len(q) \/ k = Len(q) + 1
      /\ 1..Len(q) \subseteq 1..Len(r) /\ Len(q) + 1 \in 1..Len(r)
  BY <1>1
<1>3. \A x : x \in Marked(r, type) <=> x \in Marked(q, type) \/ (p.type = type /\ x = p.topic)
  BY <1>1, <1>2 DEF Marked
<1>4. ASSUME Once(q, type), p.type = type => p.topic \notin Marked(q, type)
      PROVE  Once(r, type)
  <2> SUFFICES ASSUME NEW i \in 1..Len(r), NEW j \in 1..Len(r), r[i].type = type, r[j].type = type,
                      r[i].topic = r[j].topic
               PROVE  i = j
    BY DEF Once
  <2>1. \A k \in 1..Len(q) : r[k].type = type => r[k].topic \in Marked(q, type)
    BY <1>1 DEF Marked
  <2>2. CASE i \in 1..Len(q) /\ j \in 1..Len(q) BY <1>1, <1>4, <2>2 DEF Once
  <2>3. CASE i \in 1..Len(q) /\ j = Len(q) + 1 BY <1>1, <1>4, <2>1, <2>3
  <2>4. CASE j \in 1..Len(q) /\ i = Len(q) + 1 BY <1>1, <1>4, <2>1, <2>4
  <2> QED BY <1>2, <2>2, <2>3, <2>4
<1> QED BY <1>3, <1>4 DEF r

LEMMA MarkedTail ==
  ASSUME NEW S, NEW q \in Seq(S), q # <<>>, NEW type
  PROVE  /\ Marked(Tail(q), type) \subseteq Marked(q, type)
         /\ Once(q, type) => Once(Tail(q), type)
         /\ Head(q).type = type => Head(q).topic \in Marked(q, type)
         /\ Once(q, type) /\ Head(q).type = type => Head(q).topic \notin Marked(Tail(q), type)
<1> DEFINE r == Tail(q)
<1>1. /\ Len(q) \in Nat /\ Len(q) > 0 /\ Len(r) = Len(q) - 1 /\ Head(q) = q[1]
      /\ \A k \in 1..Len(r) : r[k] = q[k + 1]
  OBVIOUS
<1> HIDE DEF r
<1>2. /\ \A k \in 1..Len(r) : k + 1 \in 1..Len(q) /\ k + 1 # 1
      /\ \A i, j \in 1..Len(r) : i + 1 = j + 1 => i = j
      /\ 1 \in 1..Len(q)
  BY <1>1
<1>3. Marked(r, type) \subseteq Marked(q, type) BY <1>1, <1>2 DEF Marked
<1>4. Once(q, type) => Once(r, type) BY <1>1, <1>2 DEF Once
<1>5. Head(q).type = type => Head(q).topic \in Marked(q, type) BY <1>1, <1>2 DEF Marked
<1>6. ASSUME Once(q, type), Head(q).type = type, Head(q).topic \in Marked(r, type) PROVE FALSE
  <2>1. PICK k \in 1..Len(r) : r[k].type = type /\ r[k].topic = Head(q).topic BY <1>6 DEF Marked
  <2>2. k + 1 \in 1..Len(q) /\ k + 1 # 1 /\ q[k + 1].type = type /\ q[k + 1].topic = q[1].topic
    BY <1>1, <1>2, <2>1
  <2> QED BY <1>1, <1>2, <1>6, <2>2 DEF Once
<1> QED BY <1>3, <1>4, <1>5, <1>6 DEF r

LEMMA MarkedEmpty ==
  ASSUME NEW type
  PROVE  Marked(<<>>, type) = {} /\ Once(<<>>, type)
BY DEF Marked, Once

\* Messages on their way to the broker, and acknowledgements on their way back.
Sent  == Marked(toBroker, "PUBLISH")
Acked == Marked(fromBroker, "PUBACK")
SingleNumbers == Once(toBroker, "PUBLISH") /\ Once(fromBroker, "PUBACK")

\* A message is sent once and acknowledged at most once, and every publish that
\* reported success used up an acknowledgement.
Numbered ==
  /\ SingleNumbers
  /\ \A x \in Sent : x \in 1..published /\ x \notin received
  /\ Acked \subseteq received /\ received \subseteq 1..published
  /\ Cardinality(confirmed) + Cardinality(Acked) <= Cardinality(received)

\* Without nested publishes a publish is the outermost call, and without
\* timeouts it waits as long as its message or the answer is in flight.
Waited ==
  /\ \A k \in Under : calls[k].op = "publish" => k = 1
  /\ \A x \in Sent \cup Acked : calls # <<>> /\ calls[1].op = "publish" /\ calls[1].topic = x
  /\ confirmed \subseteq received

Prompt == ~env.timeouts /\ "publish" \notin env.callbackOps

\* The kinds of steps.
NumbersFewer ==
  /\ SingleNumbers' /\ Sent' \subseteq Sent /\ Acked' \subseteq Acked
  /\ confirmed' = confirmed /\ received' = received
  /\ published' = published \/ published' = published + 1
  /\ \A k \in 1..Len(calls') : calls'[k].op = "publish" => k \in Under /\ calls'[k] = calls[k]
  /\ Prompt /\ Sent' \cup Acked' # {} /\ calls # <<>> /\ calls[1].op = "publish" =>
       calls' # <<>> /\ calls'[1] = calls[1]
Published ==
  /\ published' = published + 1 /\ confirmed' = confirmed /\ received' = received
  /\ Sent' = Sent \cup {published'} /\ Acked' = Acked /\ SingleNumbers'
  /\ \E c \in CallSet : c.op = "publish" /\ c.topic = published' /\ Pushed(c)
  /\ Prompt => calls = <<>>
Received ==
  /\ published' = published /\ confirmed' = confirmed /\ calls' = calls
  /\ SingleNumbers'
  /\ \E x \in Sent : /\ received' = received \cup {x} /\ Sent' \subseteq Sent /\ x \notin Sent'
                     /\ Acked' = Acked \cup {x}
Confirmed ==
  /\ published' = published /\ received' = received /\ Sent' = Sent
  /\ SingleNumbers'
  /\ Popped /\ calls[Len(calls)].op = "publish" /\ calls[Len(calls)] \in CallSet
  /\ confirmed' = confirmed \cup {calls[Len(calls)].topic}
  /\ \E x \in Acked : Acked' \subseteq Acked /\ x \notin Acked'

\* What happens to the calls in those steps.
PublishesKept ==
  /\ \A k \in 1..Len(calls') : calls'[k].op = "publish" => k \in Under /\ calls'[k] = calls[k]
  /\ calls # <<>> /\ calls[1].op = "publish" => calls' # <<>> /\ calls'[1] = calls[1]

LEMMA PopKeeps ==
  ASSUME CallsTyped, Popped, calls[Len(calls)].op # "publish"
  PROVE  PublishesKept
<1>1. /\ calls \in Seq(CallSet) /\ calls' \in Seq(CallSet) /\ Len(calls) \in Nat
      /\ Len(calls') = Len(calls) - 1 /\ \A k \in 1..(Len(calls) - 1) : calls'[k] = calls[k]
  BY DEF CallsTyped, Popped
<1>2. \A k \in 1..Len(calls') : k \in Under /\ calls'[k] = calls[k] BY <1>1 DEF Under
<1>3. ASSUME calls # <<>>, calls[1].op = "publish" PROVE calls' # <<>> /\ calls'[1] = calls[1]
  <2>1. Len(calls) # 1 BY <1>3
  <2>2. Len(calls) > 1 BY <1>1, <1>3, <2>1
  <2>3. Len(calls') > 0 /\ 1 \in 1..(Len(calls) - 1) BY <1>1, <2>2
  <2> QED BY <1>1, <2>3
<1> QED BY <1>2, <1>3 DEF PublishesKept

LEMMA PushKeeps ==
  ASSUME CallsTyped, NEW c, Pushed(c), c.op # "publish"
  PROVE  PublishesKept
<1>1. /\ calls \in Seq(CallSet) /\ calls' \in Seq(CallSet) /\ Len(calls) \in Nat
      /\ Len(calls') = Len(calls) + 1 /\ \A k \in 1..Len(calls) : calls'[k] = calls[k]
      /\ calls'[Len(calls) + 1] = c
  BY DEF CallsTyped, Pushed, Under
<1>2. \A k \in 1..Len(calls') : k \in 1..Len(calls) \/ k = Len(calls) + 1 BY <1>1
<1>3. \A k \in 1..Len(calls') : calls'[k].op = "publish" => k \in Under /\ calls'[k] = calls[k]
  BY <1>1, <1>2 DEF Under
<1>4. ASSUME calls # <<>> PROVE calls' # <<>> /\ calls'[1] = calls[1]
  <2>1. Len(calls) > 0 BY <1>1, <1>4
  <2>2. 1 \in 1..Len(calls) /\ Len(calls') > 0 BY <1>1, <2>1
  <2> QED BY <1>1, <2>2
<1> QED BY <1>3, <1>4 DEF PublishesKept

LEMMA SameKeeps == UNCHANGED calls => PublishesKept
BY DEF PublishesKept, Under

LEMMA KeptFewer ==
  ASSUME SingleNumbers', Sent' \subseteq Sent, Acked' \subseteq Acked, UNCHANGED publishing, PublishesKept
  PROVE  NumbersFewer
BY DEF PublishesKept, NumbersFewer, publishing

\* A packet is sent that is no PUBLISH, or none is.
LEMMA SendsOther ==
  ASSUME TypeInv, SingleNumbers, UNCHANGED fromBroker,
         \/ UNCHANGED toBroker
         \/ \E p \in Outgoing : toBroker' = Append(toBroker, p) /\ p.type # "PUBLISH"
  PROVE  SingleNumbers' /\ Sent' = Sent /\ Acked' = Acked
<1>1. CASE UNCHANGED toBroker BY <1>1 DEF SingleNumbers, Sent, Acked
<1>2. ASSUME NEW p \in Outgoing, toBroker' = Append(toBroker, p), p.type # "PUBLISH"
      PROVE  SingleNumbers' /\ Sent' = Sent /\ Acked' = Acked
  <2>1. toBroker \in Seq(Outgoing) BY DEF TypeInv, PacketsTyped
  <2>2. /\ Marked(Append(toBroker, p), "PUBLISH") = Marked(toBroker, "PUBLISH")
        /\ Once(toBroker, "PUBLISH") => Once(Append(toBroker, p), "PUBLISH")
    BY <1>2, <2>1, MarkedAppend
  <2> QED BY <1>2, <2>2 DEF SingleNumbers, Sent, Acked
<1> QED BY <1>1, <1>2

\* A packet is read.
LEMMA ReadsOne ==
  ASSUME TypeInv, SingleNumbers, UNCHANGED toBroker, Reading
  PROVE  /\ SingleNumbers' /\ Sent' = Sent /\ Acked' \subseteq Acked
         /\ Head(fromBroker).type = "PUBACK" =>
              Head(fromBroker).topic \in Acked /\ Head(fromBroker).topic \notin Acked'
<1>1. /\ fromBroker \in Seq(Incoming) /\ fromBroker # <<>> /\ fromBroker' = Tail(fromBroker)
  BY DEF TypeInv, PacketsTyped, Reading
<1>2. /\ Marked(Tail(fromBroker), "PUBACK") \subseteq Marked(fromBroker, "PUBACK")
      /\ Once(fromBroker, "PUBACK") => Once(Tail(fromBroker), "PUBACK")
      /\ Head(fromBroker).type = "PUBACK" => Head(fromBroker).topic \in Marked(fromBroker, "PUBACK")
      /\ Once(fromBroker, "PUBACK") /\ Head(fromBroker).type = "PUBACK" =>
           Head(fromBroker).topic \notin Marked(Tail(fromBroker), "PUBACK")
  BY <1>1, MarkedTail
<1> QED BY <1>1, <1>2 DEF SingleNumbers, Sent, Acked

LEMMA ApplicationNumbers ==
  ASSUME TypeInv, SingleNumbers, UNCHANGED <<env, publishing>>,
         \E topic \in Topics : Subscribe(topic) \/ Unsubscribe(topic)
  PROVE  NumbersFewer
<1>1. PICK topic \in Topics : Subscribe(topic) \/ Unsubscribe(topic) OBVIOUS
<1>2. CASE Subscribe(topic)
  <2>1. UNCHANGED fromBroker
        /\ \/ UNCHANGED <<calls, toBroker>>
           \/ /\ Pushed(Call("subscribe", topic, FreeIndex, 0))
              /\ \E p \in Outgoing : toBroker' = Append(toBroker, p) /\ p.type = "SUBSCRIBE"
    BY <1>2, SubscribeShape
  <2>2. SingleNumbers' /\ Sent' = Sent /\ Acked' = Acked BY <2>1, SendsOther
  <2>3. PublishesKept
    <3>1. Call("subscribe", topic, FreeIndex, 0).op # "publish" BY CallFields
    <3> QED BY <2>1, <3>1, SameKeeps, PushKeeps DEF TypeInv
  <2> QED BY <2>2, <2>3, KeptFewer
<1>3. CASE Unsubscribe(topic)
  <2>1. UNCHANGED fromBroker
        /\ \/ UNCHANGED <<calls, toBroker>>
           \/ /\ Pushed(Call("unsubscribe", topic, 0, 0))
              /\ \E p \in Outgoing : toBroker' = Append(toBroker, p) /\ p.type = "UNSUBSCRIBE"
    BY <1>3, UnsubscribeShape
  <2>2. SingleNumbers' /\ Sent' = Sent /\ Acked' = Acked BY <2>1, SendsOther
  <2>3. PublishesKept
    <3>1. Call("unsubscribe", topic, 0, 0).op # "publish" BY CallFields
    <3> QED BY <2>1, <3>1, SameKeeps, PushKeeps DEF TypeInv
  <2> QED BY <2>2, <2>3, KeptFewer
<1> QED BY <1>1, <1>2, <1>3

LEMMA PublishNumbers ==
  ASSUME TypeInv, Numbered, UNCHANGED env, Publish
  PROVE  NumbersFewer \/ Published
<1>0. SingleNumbers /\ \A x \in Sent : x \in 1..published BY DEF Numbered
<1>1. /\ MayCall("publish") /\ UNCHANGED <<fromBroker, confirmed, received>>
      /\ published' = published + 1 /\ published' \in Messages
      /\ \/ UNCHANGED <<calls, toBroker>>
         \/ /\ Pushed(Call("publish", published', 0, 0))
            /\ \E p \in Outgoing : /\ toBroker' = Append(toBroker, p)
                                   /\ p.type = "PUBLISH" /\ p.topic = published'
  BY PublishShape
<1>2. CASE UNCHANGED <<calls, toBroker>>
  <2>1. SingleNumbers' /\ Sent' = Sent /\ Acked' = Acked BY <1>0, <1>1, <1>2, SendsOther
  <2>2. PublishesKept BY <1>2, SameKeeps
  <2> QED BY <1>1, <2>1, <2>2 DEF NumbersFewer, PublishesKept
<1>3. ASSUME Pushed(Call("publish", published', 0, 0)), NEW p \in Outgoing,
             toBroker' = Append(toBroker, p), p.type = "PUBLISH", p.topic = published'
      PROVE  Published
  <2> DEFINE c == Call("publish", published', 0, 0)
  <2>1. Pushed(c) /\ c.op = "publish" /\ c.topic = published' BY <1>3, CallFields
  <2> HIDE DEF c
  <2>2. c \in CallSet BY <2>1 DEF Pushed
  <2>3. Prompt => calls = <<>> BY <1>1 DEF Prompt, MayCall
  <2>4. published' \notin Sent
    <3>1. published \in Nat BY DEF TypeInv, NumbersTyped
    <3>2. published' \notin 1..published BY <1>1, <3>1
    <3> QED BY <1>0, <3>2
  <2>5. toBroker \in Seq(Outgoing) BY DEF TypeInv, PacketsTyped
  <2>6. /\ p.type = "PUBLISH" =>
             Marked(Append(toBroker, p), "PUBLISH") = Marked(toBroker, "PUBLISH") \cup {p.topic}
        /\ Once(toBroker, "PUBLISH") /\ (p.type = "PUBLISH" => p.topic \notin Marked(toBroker, "PUBLISH"))
             => Once(Append(toBroker, p), "PUBLISH")
    BY <2>5, MarkedAppend
  <2>7. Sent' = Sent \cup {published'} /\ Acked' = Acked /\ SingleNumbers'
    BY <1>0, <1>1, <1>3, <2>4, <2>6 DEF Sent, Acked, SingleNumbers
  <2> QED BY <1>1, <2>1, <2>2, <2>3, <2>7 DEF Published
<1> QED BY <1>1, <1>2, <1>3

LEMMA ResubscribeNumbers ==
  ASSUME TypeInv, Placed, SingleNumbers, UNCHANGED <<env, publishing>>, Reconnect \/ ResubscribeAck
  PROVE  NumbersFewer
<1>1. PICK i \in Nat, n \in 0..NumHandlers :
        /\ Resubscribes(i, n)
        /\ \/ Reconnect /\ i = 0 /\ n = FreeIndex /\ calls = <<>> /\ ~connected
           \/ ResubscribeAck /\ Len(calls) = 1 /\ calls[1].op = "resubscribe"
              /\ i = calls[1].itr + 1 /\ n = calls[1].slot /\ connected' = connected
  BY ResubscribeTypes
<1>2. PublishesKept
  <2>1. calls = <<>> \/ calls[1].op # "publish" BY <1>1
  <2>2. \A k \in 1..Len(calls') : calls'[k].op # "publish"
    <3>1. CASE calls' = <<>> BY <3>1
    <3>2. CASE calls' = <<Call("resubscribe", None, n, i)>> BY <3>2, CallFields
    <3> QED BY <1>1, <3>1, <3>2 DEF Resubscribes
  <2> QED BY <2>1, <2>2 DEF PublishesKept
<1>3. UNCHANGED toBroker \/ \E p \in Outgoing : toBroker' = Append(toBroker, p) /\ p.type # "PUBLISH"
  BY <1>1 DEF Resubscribes
<1>4. SingleNumbers' /\ Sent' = Sent /\ Acked' \subseteq Acked
  <2>1. /\ Once(toBroker, "PUBLISH")' /\ Sent' = Sent
    <3>1. CASE UNCHANGED toBroker BY <3>1 DEF SingleNumbers, Sent
    <3>2. ASSUME NEW p \in Outgoing, toBroker' = Append(toBroker, p), p.type # "PUBLISH"
          PROVE  Once(toBroker, "PUBLISH")' /\ Sent' = Sent
      <4>1. toBroker \in Seq(Outgoing) BY DEF TypeInv, PacketsTyped
      <4>2. /\ Marked(Append(toBroker, p), "PUBLISH") = Marked(toBroker, "PUBLISH")
            /\ Once(toBroker, "PUBLISH") => Once(Append(toBroker, p), "PUBLISH")
        BY <3>2, <4>1, MarkedAppend
      <4> QED BY <3>2, <4>2 DEF SingleNumbers, Sent
    <3> QED BY <1>3, <3>1, <3>2
  <2>2. Once(fromBroker, "PUBACK")' /\ Acked' \subseteq Acked
    <3>1. CASE UNCHANGED fromBroker BY <3>1 DEF SingleNumbers, Acked
    <3>2. CASE Reading
      <4>1. fromBroker \in Seq(Incoming) /\ fromBroker # <<>> /\ fromBroker' = Tail(fromBroker)
        BY <3>2 DEF TypeInv, PacketsTyped, Reading
      <4>2. /\ Marked(Tail(fromBroker), "PUBACK") \subseteq Marked(fromBroker, "PUBACK")
            /\ Once(fromBroker, "PUBACK") => Once(Tail(fromBroker), "PUBACK")
        BY <4>1, MarkedTail
      <4> QED BY <4>1, <4>2 DEF SingleNumbers, Acked
    <3> QED BY <3>1, <3>2 DEF Reconnect, ResubscribeAck
  <2> QED BY <2>1, <2>2 DEF SingleNumbers
<1> QED BY <1>2, <1>4, KeptFewer

LEMMA AckNumbers ==
  ASSUME TypeInv, SingleNumbers,
         \/ (SubscribeAck \/ UnsubscribeAck) /\ UNCHANGED publishing
         \/ PublishAck
  PROVE  NumbersFewer \/ Confirmed
<1>1. calls # <<>> /\ calls' = Front(calls) /\ Reading /\ UNCHANGED toBroker
  BY DEF SubscribeAck, UnsubscribeAck, PublishAck, Waiting
<1>2. /\ Popped /\ Last(calls) = calls[Len(calls)] /\ Last(calls) \in CallSet
  BY <1>1, ReturnShape
<1>3. /\ SingleNumbers' /\ Sent' = Sent /\ Acked' \subseteq Acked
      /\ Head(fromBroker).type = "PUBACK" =>
           Head(fromBroker).topic \in Acked /\ Head(fromBroker).topic \notin Acked'
  BY <1>1, ReadsOne
<1>4. CASE (SubscribeAck \/ UnsubscribeAck) /\ UNCHANGED publishing
  <2>1. calls[Len(calls)].op # "publish" BY <1>2, <1>4 DEF SubscribeAck, UnsubscribeAck
  <2>2. PublishesKept BY <1>2, <2>1, PopKeeps DEF TypeInv
  <2> QED BY <1>3, <1>4, <2>2, KeptFewer
<1>5. CASE PublishAck
  <2>1. /\ Last(calls).op = "publish" /\ Head(fromBroker).type = "PUBACK"
        /\ confirmed' = confirmed \cup {Last(calls).topic}
        /\ published' = published /\ received' = received
    BY <1>5 DEF PublishAck
  <2> QED BY <1>2, <1>3, <2>1 DEF Confirmed
<1> QED BY <1>4, <1>5

LEMMA ReadingNumbers ==
  ASSUME TypeInv, SingleNumbers, UNCHANGED <<env, publishing>>,
         ReadPublish \/ ReadOther \/ CallbackReturn \/ Timeout
  PROVE  NumbersFewer
<1>1. CASE ReadPublish
  <2> DEFINE c == Call("callback", Head(fromBroker).topic, 0, 0)
  <2>1. Pushed(c) /\ Reading /\ UNCHANGED toBroker /\ c.op # "publish"
    BY <1>1, DeliverShape, CallFields
  <2> HIDE DEF c
  <2>2. PublishesKept BY <2>1, PushKeeps DEF TypeInv
  <2>3. SingleNumbers' /\ Sent' = Sent /\ Acked' \subseteq Acked BY <2>1, ReadsOne
  <2> QED BY <2>2, <2>3, KeptFewer
<1>2. CASE ReadOther
  <2>1. Reading /\ UNCHANGED <<calls, toBroker>> BY <1>2 DEF ReadOther
  <2>2. SingleNumbers' /\ Sent' = Sent /\ Acked' \subseteq Acked BY <2>1, ReadsOne
  <2> QED BY <2>1, <2>2, SameKeeps, KeptFewer
<1>3. CASE CallbackReturn
  <2>1. calls # <<>> /\ Last(calls).op = "callback" /\ calls' = Front(calls)
        /\ UNCHANGED <<toBroker, fromBroker>>
    BY <1>3 DEF CallbackReturn
  <2>2. Popped /\ calls[Len(calls)].op # "publish" BY <2>1, ReturnShape
  <2>3. PublishesKept BY <2>2, PopKeeps DEF TypeInv
  <2> QED BY <2>1, <2>3, KeptFewer DEF SingleNumbers, Sent, Acked
<1>4. CASE Timeout
  <2>1. calls # <<>> /\ calls' = Front(calls) /\ UNCHANGED <<toBroker, fromBroker>>
        /\ (Prompt => toBroker = <<>> /\ fromBroker = <<>>)
    BY <1>4 DEF Timeout, Waiting, Prompt
  <2>2. Popped BY <2>1, ReturnShape
  <2>3. CallsLeft BY <2>2, PoppedLeaves DEF TypeInv
  <2>4. Prompt => Sent' \cup Acked' = {} BY <2>1, MarkedEmpty DEF Sent, Acked
  <2>5. SingleNumbers' /\ Sent' = Sent /\ Acked' = Acked BY <2>1 DEF SingleNumbers, Sent, Acked
  <2> QED BY <2>3, <2>4, <2>5 DEF NumbersFewer, CallsLeft, publishing
<1> QED BY <1>1, <1>2, <1>3, <1>4

LEMMA BrokerNumbers ==
  ASSUME TypeInv, Numbered, UNCHANGED env,
         \/ BrokerAnswers /\ UNCHANGED publishing
         \/ BrokerReceives
  PROVE  NumbersFewer \/ Received
<1>0. SingleNumbers /\ toBroker \in Seq(Outgoing) /\ fromBroker \in Seq(Incoming)
  BY DEF Numbered, TypeInv, PacketsTyped
<1>1. toBroker # <<>> /\ toBroker' = Tail(toBroker) /\ UNCHANGED calls BY BrokerShape
<1>2. /\ Marked(Tail(toBroker), "PUBLISH") \subseteq Marked(toBroker, "PUBLISH")
      /\ Once(toBroker, "PUBLISH") => Once(Tail(toBroker), "PUBLISH")
      /\ Head(toBroker).type = "PUBLISH" => Head(toBroker).topic \in Marked(toBroker, "PUBLISH")
      /\ Once(toBroker, "PUBLISH") /\ Head(toBroker).type = "PUBLISH" =>
           Head(toBroker).topic \notin Marked(Tail(toBroker), "PUBLISH")
  BY <1>0, <1>1, MarkedTail
<1>3. PICK q \in Incoming :
        /\ fromBroker' = Append(fromBroker, q) /\ q.topic = Head(toBroker).topic
        /\ \/ BrokerAnswers /\ q.type \in {"SUBACK", "UNSUBACK"}
           \/ /\ BrokerReceives /\ Head(toBroker).type = "PUBLISH" /\ q.type = "PUBACK"
              /\ received' = received \cup {Head(toBroker).topic}
              /\ UNCHANGED <<published, confirmed>>
  BY BrokerShape
<1>4. /\ q.type # "PUBACK" => Marked(Append(fromBroker, q), "PUBACK") = Marked(fromBroker, "PUBACK")
      /\ q.type = "PUBACK" =>
           Marked(Append(fromBroker, q), "PUBACK") = Marked(fromBroker, "PUBACK") \cup {q.topic}
      /\ Once(fromBroker, "PUBACK") /\ (q.type = "PUBACK" => q.topic \notin Marked(fromBroker, "PUBACK"))
           => Once(Append(fromBroker, q), "PUBACK")
  BY <1>0, MarkedAppend
<1>5. CASE q.type # "PUBACK"
  <2>1. UNCHANGED publishing BY <1>3, <1>5 DEF BrokerAnswers, BrokerReceives
  <2>2. SingleNumbers' /\ Sent' \subseteq Sent /\ Acked' = Acked
    BY <1>0, <1>1, <1>2, <1>3, <1>4, <1>5 DEF SingleNumbers, Sent, Acked
  <2> QED BY <1>1, <2>1, <2>2, SameKeeps, KeptFewer
<1>6. CASE q.type = "PUBACK"
  <2>1. /\ Head(toBroker).type = "PUBLISH" /\ received' = received \cup {Head(toBroker).topic}
        /\ UNCHANGED <<published, confirmed>>
    BY <1>3, <1>6
  <2>2. Head(toBroker).topic \in Sent /\ Sent' \subseteq Sent /\ Head(toBroker).topic \notin Sent'
    BY <1>0, <1>1, <1>2, <2>1 DEF Sent, SingleNumbers
  <2>3. q.topic \notin Acked BY <1>3, <2>2 DEF Numbered
  <2>4. Acked' = Acked \cup {Head(toBroker).topic} /\ SingleNumbers'
    BY <1>0, <1>1, <1>2, <1>3, <1>4, <1>6, <2>3 DEF Acked, SingleNumbers
  <2> QED BY <1>1, <2>1, <2>2, <2>4 DEF Received
<1> QED BY <1>5, <1>6

LEMMA NetworkNumbers ==
  ASSUME TypeInv, SingleNumbers, UNCHANGED <<env, publishing>>,
         (\E topic \in Topics : BrokerPublishes(topic)) \/ ConnectionLost
  PROVE  NumbersFewer
<1>1. UNCHANGED calls BY DEF BrokerPublishes, ConnectionLost
<1>2. CASE \E topic \in Topics : BrokerPublishes(topic)
  <2>1. PICK topic \in Topics : BrokerPublishes(topic) BY <1>2
  <2> DEFINE q == [type |-> "PUBLISH", id |-> 0, topic |-> topic]
  <2>2. q \in Incoming /\ q.type # "PUBACK" BY DEF Incoming
  <2>3. fromBroker' = Append(fromBroker, q) /\ UNCHANGED toBroker
    BY <2>1 DEF BrokerPublishes
  <2> HIDE DEF q
  <2>4. fromBroker \in Seq(Incoming) BY DEF TypeInv, PacketsTyped
  <2>5. /\ Marked(Append(fromBroker, q), "PUBACK") = Marked(fromBroker, "PUBACK")
        /\ Once(fromBroker, "PUBACK") => Once(Append(fromBroker, q), "PUBACK")
    BY <2>2, <2>4, MarkedAppend
  <2>6. SingleNumbers' /\ Sent' = Sent /\ Acked' = Acked
    BY <2>3, <2>5 DEF SingleNumbers, Sent, Acked
  <2> QED BY <1>1, <2>6, SameKeeps, KeptFewer
<1>3. CASE ConnectionLost
  <2>1. toBroker' = <<>> /\ fromBroker' = <<>> BY <1>3 DEF ConnectionLost
  <2>2. SingleNumbers' /\ Sent' = {} /\ Acked' = {}
    BY <2>1, MarkedEmpty DEF SingleNumbers, Sent, Acked
  <2> QED BY <1>1, <2>2, SameKeeps, KeptFewer
<1> QED BY <1>2, <1>3

LEMMA NumberEffects ==
  ASSUME TypeInv, Placed, Numbered, [Next]_vars
  PROVE  UNCHANGED env /\ (NumbersFewer \/ Published \/ Received \/ Confirmed)
<1>0. UNCHANGED env /\ SingleNumbers BY DEF Next, vars, Numbered
<1>1. CASE UNCHANGED vars
  <2>1. UNCHANGED <<calls, toBroker, fromBroker, publishing>> BY <1>1 DEF vars, publishing
  <2> QED BY <1>0, <2>1, SameKeeps, KeptFewer DEF SingleNumbers, Sent, Acked
<1>2. CASE SubscriptionStep /\ UNCHANGED publishing
  BY <1>0, <1>2, ApplicationNumbers, ResubscribeNumbers, AckNumbers, ReadingNumbers, BrokerNumbers,
     NetworkNumbers DEF SubscriptionStep
<1>3. CASE PublishStep BY <1>0, <1>3, PublishNumbers, AckNumbers, BrokerNumbers DEF PublishStep
<1> QED BY <1>0, <1>1, <1>2, <1>3 DEF Next

LEMMA NumbersFinite ==
  ASSUME TypeInv, Acked \subseteq received
  PROVE  /\ IsFiniteSet(confirmed) /\ IsFiniteSet(received) /\ IsFiniteSet(Acked)
         /\ Cardinality(confirmed) \in Nat /\ Cardinality(received) \in Nat /\ Cardinality(Acked) \in Nat
<1>1. IsFiniteSet(Messages) BY BoundsTyped, FS_Interval DEF Messages
<1>2. confirmed \in SUBSET Messages /\ received \in SUBSET Messages /\ Acked \in SUBSET Messages
  BY DEF TypeInv, NumbersTyped
<1>3. IsFiniteSet(confirmed) /\ IsFiniteSet(received) /\ IsFiniteSet(Acked)
  BY <1>1, <1>2, FS_Subset
<1> QED BY <1>3, FS_CardinalityType

LEMMA NumberedStep ==
  ASSUME TypeInv, TypeInv', Numbered, NumbersFewer \/ Published \/ Received \/ Confirmed
  PROVE  Numbered'
<1>1. /\ SingleNumbers /\ \A x \in Sent : x \in 1..published /\ x \notin received
      /\ Acked \subseteq received /\ received \subseteq 1..published
      /\ Cardinality(confirmed) + Cardinality(Acked) <= Cardinality(received)
  BY DEF Numbered
<1>2. /\ IsFiniteSet(confirmed) /\ IsFiniteSet(received) /\ IsFiniteSet(Acked)
      /\ Cardinality(confirmed) \in Nat /\ Cardinality(received) \in Nat /\ Cardinality(Acked) \in Nat
  BY <1>1, NumbersFinite
<1>3. published \in Nat /\ published' \in Nat BY DEF TypeInv, NumbersTyped
<1>4. CASE NumbersFewer
  <2>1. /\ SingleNumbers' /\ Sent' \subseteq Sent /\ Acked' \subseteq Acked
        /\ confirmed' = confirmed /\ received' = received
        /\ published' = published \/ published' = published + 1
    BY <1>4 DEF NumbersFewer
  <2>2. 1..published \subseteq 1..published' BY <1>3, <2>1
  <2>3. IsFiniteSet(Acked') /\ Cardinality(Acked') <= Cardinality(Acked) BY <1>2, <2>1, FS_Subset
  <2>4. Cardinality(Acked') \in Nat BY <2>3, FS_CardinalityType
  <2>5. Cardinality(confirmed') + Cardinality(Acked') <= Cardinality(received')
    BY <1>1, <1>2, <2>1, <2>3, <2>4
  <2> QED BY <1>1, <2>1, <2>2, <2>5 DEF Numbered
<1>5. CASE Published
  <2>1. /\ published' = published + 1 /\ confirmed' = confirmed /\ received' = received
        /\ Sent' = Sent \cup {published'} /\ Acked' = Acked /\ SingleNumbers'
    BY <1>5 DEF Published
  <2>2. /\ 1..published \subseteq 1..published' /\ published' \in 1..published'
        /\ published' \notin 1..published
    BY <1>3, <2>1
  <2>3. \A x \in Sent' : x \in 1..published' /\ x \notin received' BY <1>1, <2>1, <2>2
  <2>4. Cardinality(confirmed') + Cardinality(Acked') <= Cardinality(received') BY <1>1, <2>1
  <2> QED BY <1>1, <2>1, <2>2, <2>3, <2>4 DEF Numbered
<1>6. CASE Received
  <2>1. PICK x \in Sent : /\ received' = received \cup {x} /\ Sent' \subseteq Sent /\ x \notin Sent'
                          /\ Acked' = Acked \cup {x}
    BY <1>6 DEF Received
  <2>2. published' = published /\ confirmed' = confirmed /\ SingleNumbers' BY <1>6 DEF Received
  <2>3. x \notin received /\ x \notin Acked /\ x \in 1..published BY <1>1
  <2>4. /\ Cardinality(received') = Cardinality(received) + 1
        /\ Cardinality(Acked') = Cardinality(Acked) + 1
    BY <1>2, <2>1, <2>3, FS_AddElement
  <2>5. Cardinality(confirmed') + Cardinality(Acked') <= Cardinality(received')
    BY <1>1, <1>2, <2>2, <2>4
  <2>6. \A y \in Sent' : y \in 1..published' /\ y \notin received' BY <1>1, <2>1, <2>2
  <2>7. Acked' \subseteq received' /\ received' \subseteq 1..published' BY <1>1, <2>1, <2>2, <2>3
  <2> QED BY <2>2, <2>5, <2>6, <2>7 DEF Numbered
<1>7. CASE Confirmed
  <2>1. /\ published' = published /\ received' = received /\ Sent' = Sent /\ SingleNumbers'
        /\ confirmed' = confirmed \cup {calls[Len(calls)].topic}
    BY <1>7 DEF Confirmed
  <2>2. PICK x \in Acked : Acked' \subseteq Acked /\ x \notin Acked' BY <1>7 DEF Confirmed
  <2>3. Cardinality(confirmed') <= Cardinality(confirmed) + 1 /\ Cardinality(confirmed') \in Nat
    <3> DEFINE t == calls[Len(calls)].topic
    <3>1. confirmed' = confirmed \cup {t} BY <2>1
    <3> HIDE DEF t
    <3>2. Cardinality(confirmed \cup {t}) =
            IF t \in confirmed THEN Cardinality(confirmed) ELSE Cardinality(confirmed) + 1
      BY <1>2, FS_AddElement
    <3> QED BY <1>2, <3>1, <3>2
  <2>4. Cardinality(Acked \ {x}) = Cardinality(Acked) - 1 /\ IsFiniteSet(Acked \ {x})
    BY <1>2, FS_RemoveElement
  <2>5. Acked' \in SUBSET (Acked \ {x}) BY <2>2
  <2>6. IsFiniteSet(Acked') /\ Cardinality(Acked') <= Cardinality(Acked \ {x})
    BY <2>4, <2>5, FS_Subset
  <2>7. Cardinality(Acked') \in Nat BY <2>6, FS_CardinalityType
  <2>8. Cardinality(confirmed') + Cardinality(Acked') <= Cardinality(received')
    BY <1>1, <1>2, <2>1, <2>3, <2>4, <2>6, <2>7
  <2> QED BY <1>1, <2>1, <2>2, <2>8 DEF Numbered
<1> QED BY <1>4, <1>5, <1>6, <1>7

LEMMA NumberedInit == Init => Numbered
<1> SUFFICES ASSUME Init PROVE Numbered OBVIOUS
<1>1. /\ toBroker = <<>> /\ fromBroker = <<>> /\ published = 0 /\ confirmed = {} /\ received = {}
  BY DEF Init
<1>2. Sent = {} /\ Acked = {} /\ SingleNumbers BY <1>1, MarkedEmpty DEF Sent, Acked, SingleNumbers
<1>3. Cardinality(confirmed) = 0 /\ Cardinality(Acked) = 0 /\ Cardinality(received) = 0
  BY <1>1, <1>2, FS_EmptySet
<1> QED BY <1>1, <1>2, <1>3 DEF Numbered

LEMMA NumberedInvariant == Spec => []Numbered
<1>1. TypeInv /\ Placed /\ Numbered /\ [Next]_vars => Numbered'
  BY TypeStep, NumberEffects, NumberedStep
<1> QED BY <1>1, NumberedInit, TypeInvariant, PTL DEF Spec

\* ConfirmedAreCounted: in every environment, with late acknowledgements that
\* complete another publish than their own, with publishes nested in callbacks
\* and with lost connections, no more publishes are reported as successful
\* than the broker has received messages (wait_for_read for a PUBACK compares
\* no packet id).
THEOREM ConfirmedCounted == Spec => []ConfirmedAreCounted
<1>1. TypeInv /\ Numbered => ConfirmedAreCounted
  <2> SUFFICES ASSUME TypeInv, Numbered PROVE ConfirmedAreCounted OBVIOUS
  <2>1. /\ Acked \subseteq received
        /\ Cardinality(confirmed) + Cardinality(Acked) <= Cardinality(received)
    BY DEF Numbered
  <2>2. /\ Cardinality(confirmed) \in Nat /\ Cardinality(received) \in Nat /\ Cardinality(Acked) \in Nat
    BY <2>1, NumbersFinite
  <2> QED BY <2>1, <2>2 DEF ConfirmedAreCounted
<1> QED BY <1>1, TypeInvariant, NumberedInvariant, PTL

LEMMA WaitedStep ==
  ASSUME TypeInv, Numbered, Prompt, Waited, NumbersFewer \/ Published \/ Received \/ Confirmed
  PROVE  Waited'
<1>1. /\ \A k \in Under : calls[k].op = "publish" => k = 1
      /\ \A x \in Sent \cup Acked : calls # <<>> /\ calls[1].op = "publish" /\ calls[1].topic = x
      /\ confirmed \subseteq received
  BY DEF Waited
<1>2. /\ \A x \in Sent : x \notin received
      /\ Acked \subseteq received
  BY DEF Numbered
<1>3. calls \in Seq(CallSet) /\ Len(calls) \in Nat BY DEF TypeInv, CallsTyped
<1>4. CASE NumbersFewer
  <2>1. /\ Sent' \subseteq Sent /\ Acked' \subseteq Acked
        /\ confirmed' = confirmed /\ received' = received
        /\ \A k \in 1..Len(calls') : calls'[k].op = "publish" => k \in Under /\ calls'[k] = calls[k]
        /\ Sent' \cup Acked' # {} /\ calls # <<>> /\ calls[1].op = "publish" =>
             calls' # <<>> /\ calls'[1] = calls[1]
    BY <1>4 DEF NumbersFewer
  <2>2. \A k \in 1..Len(calls') : calls'[k].op = "publish" => k = 1 BY <1>1, <2>1
  <2>3. \A x \in Sent' \cup Acked' : calls' # <<>> /\ calls'[1].op = "publish" /\ calls'[1].topic = x
    BY <1>1, <2>1
  <2> QED BY <1>1, <2>1, <2>2, <2>3 DEF Waited, Under
<1>5. CASE Published
  <2>1. /\ confirmed' = confirmed /\ received' = received /\ calls = <<>>
        /\ Sent' = Sent \cup {published'} /\ Acked' = Acked
    BY <1>5 DEF Published
  <2>2. PICK c \in CallSet : c.op = "publish" /\ c.topic = published' /\ Pushed(c)
    BY <1>5 DEF Published
  <2>3. Len(calls') = 1 /\ calls'[1] = c /\ calls' \in Seq(CallSet)
    <3>1. Len(calls) = 0 BY <2>1
    <3> QED BY <2>2, <3>1 DEF Pushed
  <2>4. Sent' \cup Acked' = {published'} BY <1>1, <2>1
  <2>5. \A x \in Sent' \cup Acked' : calls' # <<>> /\ calls'[1].op = "publish" /\ calls'[1].topic = x
    <3>1. calls' # <<>>
      <4>1. Len(calls') = 1 BY <2>3
      <4>2. Len(<<>>) = 0 OBVIOUS
      <4> QED BY <4>1, <4>2
    <3>2. calls'[1].op = "publish" /\ calls'[1].topic = published' BY <2>2, <2>3
    <3> QED BY <2>4, <3>1, <3>2
  <2>6. \A k \in 1..Len(calls') : k = 1 BY <2>3
  <2> QED BY <1>1, <2>1, <2>5, <2>6 DEF Waited, Under
<1>6. CASE Received
  <2>1. confirmed' = confirmed /\ calls' = calls BY <1>6 DEF Received
  <2>2. PICK x \in Sent : /\ received' = received \cup {x} /\ Sent' \subseteq Sent
                          /\ Acked' = Acked \cup {x}
    BY <1>6 DEF Received
  <2> QED BY <1>1, <2>1, <2>2 DEF Waited, Under
<1>7. CASE Confirmed
  <2>1. /\ received' = received /\ Sent' = Sent /\ Popped /\ calls[Len(calls)].op = "publish"
        /\ confirmed' = confirmed \cup {calls[Len(calls)].topic}
    BY <1>7 DEF Confirmed
  <2>2. PICK x \in Acked : Acked' \subseteq Acked /\ x \notin Acked' BY <1>7 DEF Confirmed
  <2>3. /\ Len(calls) \in Under /\ Len(calls') = Len(calls) - 1 /\ calls' \in Seq(CallSet)
    BY <1>3, <2>1 DEF Popped, Under
  <2>4. Len(calls) = 1 BY <1>1, <2>1, <2>3
  <2>5. calls[1].topic = x /\ x \in received BY <1>1, <1>2, <2>2
  <2>6. confirmed' \subseteq received' BY <1>1, <2>1, <2>4, <2>5
  <2>7. Sent' \cup Acked' = {} BY <1>1, <1>2, <2>1, <2>2, <2>5
  <2>8. \A k \in 1..Len(calls') : FALSE BY <2>3, <2>4
  <2> QED BY <2>6, <2>7, <2>8 DEF Waited, Under
<1> QED BY <1>4, <1>5, <1>6, <1>7

\* ConfirmedIsReceived: when answers are not given up while they are on their
\* way and callbacks do not publish, aws_iot_mqtt_publish reports success only
\* for messages the broker has received.
THEOREM ConfirmedSound == Spec => []ConfirmedIsReceived
<1>1. Init => (Prompt => Waited)
  <2> SUFFICES ASSUME Init PROVE Waited OBVIOUS
  <2>1. calls = <<>> /\ confirmed = {} /\ toBroker = <<>> /\ fromBroker = <<>> BY DEF Init
  <2>2. Sent = {} /\ Acked = {} BY <2>1, MarkedEmpty DEF Sent, Acked
  <2> QED BY <2>1, <2>2 DEF Waited, Under
<1>2. TypeInv /\ Placed /\ Numbered /\ (Prompt => Waited) /\ [Next]_vars => (Prompt => Waited)'
  <2> SUFFICES ASSUME TypeInv, Placed, Numbered, Prompt => Waited, [Next]_vars, Prompt'
               PROVE  Waited'
    OBVIOUS
  <2>1. UNCHANGED env /\ (NumbersFewer \/ Published \/ Received \/ Confirmed) BY NumberEffects
  <2>2. Prompt BY <2>1 DEF Prompt
  <2> QED BY <2>1, <2>2, WaitedStep
<1>3. (Prompt => Waited) => ConfirmedIsReceived BY DEF Prompt, Waited, ConfirmedIsReceived
<1> QED BY <1>1, <1>2, <1>3, TypeInvariant, NumberedInvariant, PTL DEF Spec

=============================================================================
