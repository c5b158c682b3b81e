----------------------------- MODULE Subscriptions -----------------------------
(***************************************************************************)
(* The table of message handlers of the MQTT client, the calls that change *)
(* it (subscribe, unsubscribe, resubscribe after a reconnect), publishing  *)
(* with QoS 1, and the broker's view of the same.  A call sends its packet *)
(* and waits for an acknowledgement of the right type; a message that      *)
(* arrives in the meantime runs the application's callback, which may call *)
(* the client again.  One thread; MqttClient shows who may call when.      *)
(* What the application, the broker and the network may do is the          *)
(* environment, chosen at the start.                                       *)
(***************************************************************************)
EXTENDS Naturals, Sequences, FiniteSets, SequencesExt

CONSTANTS
  Topics,        \* topic filters the application uses
  None,          \* a free place of the table (topicName == NULL)
  NumHandlers,   \* AWS_IOT_MQTT_NUM_SUBSCRIBE_HANDLERS
  Environments,  \* records of
                 \*   ops: the calls the application makes
                 \*   callbackOps: the calls a message callback makes
                 \*   refuses: the broker may refuse a subscription
                 \*   timeouts: the command timer may expire while the answer
                 \*     is on its way
                 \*   losses: the connection may be lost
  MaxPacketId,   \* MAX_PACKET_ID, after which ids start again at 1
  MaxPublishes,  \* bound: messages the application publishes
  MaxInFlight,   \* bound: packets in flight when a new one is sent
  MaxCalls       \* bound: calls under way

ASSUME TopicsAssumption == None \notin Topics
ASSUME EnvironmentsAssumption ==
  LET Ops == {"subscribe", "unsubscribe", "publish"} IN
  Environments \subseteq [ops : SUBSET Ops, callbackOps : SUBSET Ops,
                          refuses : BOOLEAN, timeouts : BOOLEAN, losses : BOOLEAN]
ASSUME BoundsAssumption ==
  /\ {NumHandlers, MaxPacketId} \subseteq Nat \ {0}
  /\ {MaxPublishes, MaxInFlight, MaxCalls} \subseteq Nat

VARIABLES
  env,           \* the environment
  handlers,      \* messageHandlers[i].topicName
  packetId,      \* nextPacketId
  calls,         \* the calls under way, the innermost last
  toBroker, fromBroker,   \* packets in flight, in order
  session,       \* the subscriptions the broker holds
  connected,
  restored,      \* the last reconnect reported NETWORK_RECONNECTED
  published,     \* number of messages the application has published
  confirmed,     \* those whose publish reported success
  received,      \* those the broker has received
  active         \* topics whose subscribe reported success, until unsubscribed

publishing == <<published, confirmed, received>>
vars == <<env, handlers, packetId, calls, toBroker, fromBroker, session, connected,
          restored, publishing, active>>

Slots == 0..(NumHandlers - 1)

\* slot: indexOfFreeMessageHandler of a subscribe, existingSubCount of a
\* resubscribe; itr: the handler a resubscribe has reached.
Call(op, topic, slot, itr) == [op |-> op, topic |-> topic, slot |-> slot, itr |-> itr]

\* _aws_iot_mqtt_get_free_message_handler_index
FreeIndex ==
  CHOOSE i \in 0..NumHandlers :
    /\ \A j \in 0..(i - 1) : handlers[j] # None
    /\ i < NumHandlers => handlers[i] = None

NextPacketId == IF packetId = MaxPacketId THEN 1 ELSE packetId + 1

\* Take the next packet id and send a packet with it.
Send(type, topic) ==
  /\ packetId' = NextPacketId
  /\ toBroker' = Append(toBroker, [type |-> type, id |-> NextPacketId, topic |-> topic])

\* The packet id is taken, the packet does not go out.
SendFails == packetId' = NextPacketId /\ UNCHANGED toBroker

Room == Len(toBroker) + Len(fromBroker) < MaxInFlight

-----------------------------------------------------------------------------
(* The calls.                                                              *)

\* The application calls when it is not in a call, or from a callback.
MayCall(op) ==
  /\ connected /\ Room
  /\ Len(calls) < MaxCalls
  /\ IF calls = <<>> THEN op \in env.ops
     ELSE Last(calls).op = "callback" /\ op \in env.callbackOps

\* Mutant: a full table is not noticed.
SubscribeUnchecked(topic) ==
  /\ MayCall("subscribe")
  /\ Send("SUBSCRIBE", topic)
  /\ calls' = Append(calls, Call("subscribe", topic, FreeIndex, 0))
  /\ UNCHANGED <<handlers, fromBroker, session, connected, restored, active>>

Subscribe(topic) ==
  /\ MayCall("subscribe")
  /\ \/ SendFails /\ UNCHANGED calls      \* also when the table is full
     \/ /\ FreeIndex < NumHandlers
        /\ Send("SUBSCRIBE", topic)
        /\ calls' = Append(calls, Call("subscribe", topic, FreeIndex, 0))
  /\ UNCHANGED <<handlers, fromBroker, session, connected, restored, active>>

\* Mutant: the handler is freed before the broker has acknowledged.
UnsubscribeEarly(topic) ==
  /\ MayCall("unsubscribe")
  /\ \E i \in Slots : handlers[i] = topic
  /\ handlers' = [i \in Slots |-> IF handlers[i] = topic THEN None ELSE handlers[i]]
  /\ Send("UNSUBSCRIBE", topic)
  /\ calls' = Append(calls, Call("unsubscribe", topic, 0, 0))
  /\ UNCHANGED <<fromBroker, session, connected, restored, active>>

\* Mutant: unsubscribe does not wait for the acknowledgement.
UnsubscribeNoWait(topic) ==
  /\ MayCall("unsubscribe")
  /\ \E i \in Slots : handlers[i] = topic
  /\ handlers' = [i \in Slots |-> IF handlers[i] = topic THEN None ELSE handlers[i]]
  /\ active' = active \ {topic}
  /\ Send("UNSUBSCRIBE", topic)
  /\ UNCHANGED <<calls, fromBroker, session, connected, restored>>

Unsubscribe(topic) ==
  /\ MayCall("unsubscribe")
  /\ \E i \in Slots : handlers[i] = topic
  /\ \/ SendFails /\ UNCHANGED calls
     \/ /\ Send("UNSUBSCRIBE", topic)
        /\ calls' = Append(calls, Call("unsubscribe", topic, 0, 0))
  /\ UNCHANGED <<handlers, fromBroker, session, connected, restored, active>>

\* Mutant: the write buffer keeps the message that was serialised first.
PublishOldBuffer ==
  /\ MayCall("publish") /\ published < MaxPublishes
  /\ published' = published + 1
  /\ \/ SendFails /\ UNCHANGED calls
     \/ /\ Send("PUBLISH", 1)
        /\ calls' = Append(calls, Call("publish", published', 0, 0))
  /\ UNCHANGED <<confirmed, received, handlers, fromBroker, session, connected, restored, active>>

\* internal_publish with QoS 1; a message has its number for a topic.
Publish ==
  /\ MayCall("publish") /\ published < MaxPublishes
  /\ published' = published + 1
  /\ \/ SendFails /\ UNCHANGED calls
     \/ /\ Send("PUBLISH", published')
        /\ calls' = Append(calls, Call("publish", published', 0, 0))
  /\ UNCHANGED <<confirmed, received, handlers, fromBroker, session, connected, restored, active>>

\* Mutant: the last handler is left out.
ResubscribeOneLess(outer, itr, existingSubCount) ==
  \/ /\ itr + 1 >= existingSubCount
     /\ calls' = outer
     /\ restored' = TRUE
     /\ UNCHANGED <<packetId, toBroker>>
  \/ /\ itr + 1 < existingSubCount
     /\ Send("SUBSCRIBE", handlers[itr])
     /\ calls' = Append(outer, Call("resubscribe", None, existingSubCount, itr))
     /\ restored' = FALSE

\* resubscribe sends handlers 0 to existingSubCount - 1 one after the other:
\* the step that serialises and sends handler itr, for the caller at depth
\* Len(outer) + 1.  A resubscribe that fails leaves restored as it is.
ResubscribeNext(outer, itr, existingSubCount) ==
  \/ /\ itr = existingSubCount
     /\ calls' = outer
     /\ restored' = TRUE
     /\ UNCHANGED <<packetId, toBroker>>
  \/ /\ itr < existingSubCount
     /\ SendFails
     /\ calls' = outer
     /\ restored' = FALSE
  \/ /\ itr < existingSubCount
     /\ Send("SUBSCRIBE", handlers[itr])
     /\ calls' = Append(outer, Call("resubscribe", None, existingSubCount, itr))
     /\ restored' = FALSE

\* Mutant: every place of the table is sent.
ReconnectAllSlots ==
  /\ ~connected
  /\ calls = <<>>
  /\ connected' = TRUE
  /\ ResubscribeNext(<<>>, 0, NumHandlers)
  /\ UNCHANGED <<handlers, fromBroker, session, active>>

\* attempt_reconnect: connect succeeds and resubscribe starts.
Reconnect ==
  /\ ~connected
  /\ calls = <<>>
  /\ connected' = TRUE
  /\ ResubscribeNext(<<>>, 0, FreeIndex)
  /\ UNCHANGED <<handlers, fromBroker, session, active>>

-----------------------------------------------------------------------------
(* wait_for_read and cycle_read.                                           *)

Waiting == calls # <<>> /\ Last(calls).op # "callback"

Awaited(op) ==
  CASE op = "publish" -> "PUBACK" [] op = "unsubscribe" -> "UNSUBACK" [] OTHER -> "SUBACK"

Reading == fromBroker # <<>> /\ fromBroker' = Tail(fromBroker)

\* Mutant: the handler is not stored.
SubscribeAckNoHandler ==
  /\ Waiting /\ Last(calls).op = "subscribe"
  /\ Reading /\ Head(fromBroker).type = "SUBACK"
  /\ active' = active \cup {Last(calls).topic}
  /\ calls' = Front(calls)
  /\ UNCHANGED <<handlers, packetId, toBroker, session, connected, restored>>

\* The ids of request and answer are not compared, nor is the answer's code.
SubscribeAck ==
  /\ Waiting /\ Last(calls).op = "subscribe"
  /\ Reading /\ Head(fromBroker).type = "SUBACK"
  /\ handlers' = [handlers EXCEPT ![Last(calls).slot] = Last(calls).topic]
  /\ active' = active \cup {Last(calls).topic}
  /\ calls' = Front(calls)
  /\ UNCHANGED <<packetId, toBroker, session, connected, restored>>

UnsubscribeAck ==
  /\ Waiting /\ Last(calls).op = "unsubscribe"
  /\ Reading /\ Head(fromBroker).type = "UNSUBACK"
  /\ handlers' = [i \in Slots |->
                    IF handlers[i] = Last(calls).topic THEN None ELSE handlers[i]]
  /\ active' = active \ {Last(calls).topic}
  /\ calls' = Front(calls)
  /\ UNCHANGED <<packetId, toBroker, session, connected, restored>>

ResubscribeAck ==
  /\ Waiting /\ Last(calls).op = "resubscribe"
  /\ Reading /\ Head(fromBroker).type = "SUBACK"
  /\ ResubscribeNext(Front(calls), Last(calls).itr + 1, Last(calls).slot)
  /\ UNCHANGED <<handlers, session, connected, active>>

\* Mutant: the answer is taken for that of every publish under way.
PublishAckAll ==
  /\ Waiting /\ Last(calls).op = "publish"
  /\ Reading /\ Head(fromBroker).type = "PUBACK"
  /\ confirmed' = confirmed \cup {c.topic : c \in {d \in ToSet(calls) : d.op = "publish"}}
  /\ calls' = Front(calls)
  /\ UNCHANGED <<handlers, packetId, toBroker, session, connected, restored, active, published, received>>

\* The id of the answer is not compared with that of the message.
PublishAck ==
  /\ Waiting /\ Last(calls).op = "publish"
  /\ Reading /\ Head(fromBroker).type = "PUBACK"
  /\ confirmed' = confirmed \cup {Last(calls).topic}
  /\ calls' = Front(calls)
  /\ UNCHANGED <<handlers, packetId, toBroker, session, connected, restored, active, published, received>>

\* A message for which there is a handler runs its callback, in every wait
\* and in yield; other packets are dropped.
ReadPublish ==
  /\ calls = <<>> \/ Waiting
  /\ Reading /\ Head(fromBroker).type = "PUBLISH"
  /\ \E i \in Slots : handlers[i] = Head(fromBroker).topic
  /\ Len(calls) < MaxCalls
  /\ calls' = Append(calls, Call("callback", Head(fromBroker).topic, 0, 0))
  /\ UNCHANGED <<handlers, packetId, toBroker, session, connected, restored,
                 active>>

ReadOther ==
  /\ calls = <<>> \/ Waiting
  /\ Reading
  /\ \/ /\ Head(fromBroker).type = "PUBLISH"
        /\ \A i \in Slots : handlers[i] # Head(fromBroker).topic
     \/ /\ Head(fromBroker).type # "PUBLISH"
        /\ Waiting => Head(fromBroker).type # Awaited(Last(calls).op)
  /\ UNCHANGED <<handlers, packetId, calls, toBroker, session, connected,
                 restored, active>>

CallbackReturn ==
  /\ calls # <<>> /\ Last(calls).op = "callback"
  /\ calls' = Front(calls)
  /\ UNCHANGED <<handlers, packetId, toBroker, fromBroker, session, connected,
                 restored, active>>

\* MQTT_REQUEST_TIMEOUT_ERROR; the answer may still come.
Timeout ==
  /\ Waiting
  /\ env.timeouts \/ (toBroker = <<>> /\ fromBroker = <<>>)
  /\ calls' = Front(calls)
  /\ UNCHANGED <<handlers, packetId, toBroker, fromBroker, session, connected,
                 restored, active>>

-----------------------------------------------------------------------------
(* The broker and the network.                                             *)

BrokerAnswers ==
  LET p == Head(toBroker) IN
  /\ toBroker # <<>>
  /\ toBroker' = Tail(toBroker)
  /\ \/ /\ p.type = "SUBSCRIBE"
        /\ \/ session' = session \cup {p.topic}
           \/ env.refuses /\ UNCHANGED session
        /\ fromBroker' = Append(fromBroker, [p EXCEPT !.type = "SUBACK"])
     \/ /\ p.type = "UNSUBSCRIBE"
        /\ session' = session \ {p.topic}
        /\ fromBroker' = Append(fromBroker, [p EXCEPT !.type = "UNSUBACK"])
  /\ UNCHANGED <<handlers, packetId, calls, connected, restored, active>>

BrokerReceives ==
  /\ toBroker # <<>> /\ Head(toBroker).type = "PUBLISH"
  /\ toBroker' = Tail(toBroker)
  /\ received' = received \cup {Head(toBroker).topic}
  /\ fromBroker' = Append(fromBroker, [Head(toBroker) EXCEPT !.type = "PUBACK"])
  /\ UNCHANGED <<handlers, packetId, calls, session, connected, restored, active, published, confirmed>>

\* The broker may publish on a topic before it acknowledges the subscription.
BrokerPublishes(topic) ==
  /\ connected
  /\ \/ topic \in session
     \/ /\ toBroker # <<>>
        /\ Head(toBroker).type = "SUBSCRIBE" /\ Head(toBroker).topic = topic
  /\ Room
  /\ fromBroker' = Append(fromBroker, [type |-> "PUBLISH", id |-> 0, topic |-> topic])
  /\ UNCHANGED <<handlers, packetId, calls, toBroker, session, connected,
                 restored, active>>

\* The session is a clean one: the broker forgets it with the connection.
ConnectionLost ==
  /\ connected
  /\ env.losses
  /\ connected' = FALSE
  /\ toBroker' = <<>> /\ fromBroker' = <<>> /\ session' = {}
  /\ UNCHANGED <<handlers, packetId, calls, restored, active>>

Init ==
  /\ env \in Environments
  /\ published = 0 /\ confirmed = {} /\ received = {}
  /\ handlers = [i \in Slots |-> None]
  /\ packetId = 1
  /\ calls = <<>>
  /\ toBroker = <<>> /\ fromBroker = <<>>
  /\ session = {}
  /\ connected = TRUE
  /\ restored = TRUE
  /\ active = {}

SubscriptionStep ==
  \/ \E topic \in Topics : Subscribe(topic) \/ Unsubscribe(topic) \/ BrokerPublishes(topic)
  \/ Reconnect
  \/ SubscribeAck \/ UnsubscribeAck \/ ResubscribeAck
  \/ ReadPublish \/ ReadOther \/ CallbackReturn \/ Timeout
  \/ BrokerAnswers \/ ConnectionLost

PublishStep == Publish \/ PublishAck \/ BrokerReceives

Next ==
  /\ \/ SubscriptionStep /\ UNCHANGED publishing
     \/ PublishStep
  /\ UNCHANGED env

Spec == Init /\ [][Next]_vars

-----------------------------------------------------------------------------
(* Properties.                                                             *)

Messages == 1..MaxPublishes

Packets == [type : {"SUBSCRIBE", "UNSUBSCRIBE", "SUBACK", "UNSUBACK", "PUBLISH", "PUBACK"},
            id : Nat, topic : Topics \cup {None} \cup Messages]

\* Types.  A subscribe that waits for its SUBACK holds the index of a place
\* inside the table (a full table is refused before anything is sent), and a
\* resubscribe waits for a handler it has counted.
TypeOK ==
  /\ handlers \in [Slots -> Topics \cup {None}]
  /\ packetId \in 1..MaxPacketId
  /\ \A k \in 1..Len(calls) :
       /\ calls[k].op \in {"subscribe", "unsubscribe", "resubscribe", "publish", "callback"}
       /\ calls[k].topic \in Topics \cup {None} \cup Messages
       /\ calls[k].op = "subscribe" => calls[k].slot \in Slots
       /\ calls[k].op = "resubscribe" => calls[k].itr < calls[k].slot
  /\ toBroker \in Seq(Packets) /\ fromBroker \in Seq(Packets)
  /\ session \subseteq Topics \cup {None}
  /\ connected \in BOOLEAN /\ restored \in BOOLEAN
  /\ active \subseteq Topics
  /\ published \in {0} \cup Messages /\ confirmed \cup received \subseteq Messages

Handled == {handlers[i] : i \in Slots} \ {None}

InFlight(type) == {toBroker[k].topic : k \in {j \in 1..Len(toBroker) : toBroker[j].type = type}}

\* A subscription that was reported as made has its handler in the table, so
\* that its messages reach the application.
ActiveHasHandler == active \subseteq Handled

\* When the client is connected, the last reconnect was reported as complete
\* and no call is under way, the broker holds (or is about to hold) every
\* subscription the client has a handler for.
HandledIsSubscribed ==
  connected /\ restored /\ calls = <<>>
  => Handled \subseteq session \cup InFlight("SUBSCRIBE")

\* The same, as long as nothing is unsubscribed and the broker refuses nothing.
SubscribedUnlessFreed ==
  "unsubscribe" \notin env.ops \cup env.callbackOps /\ ~env.refuses => HandledIsSubscribed

\* Late answers and calls nested in callbacks make a PUBACK complete another
\* publish than its own; even so, no more publishes are reported as successful
\* than the broker has received.
ConfirmedAreCounted == Cardinality(confirmed) <= Cardinality(received)

\* Without either, the messages reported as published are the ones received.
ConfirmedIsReceived ==
  ~env.timeouts /\ "publish" \notin env.callbackOps => confirmed \subseteq received

\* A resubscribe sends topics, never a place of the table that was freed.
SendsTopics == None \notin InFlight("SUBSCRIBE")
=============================================================================
