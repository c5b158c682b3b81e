----------------------------- MODULE ShadowRecords -----------------------------
(***************************************************************************)
(* The records of the Thing Shadow client: the list of requests that wait  *)
(* for their accepted/rejected message, the list of the subscriptions that *)
(* these messages come in by, and the document version that tells old      *)
(* delta messages from new ones.                                           *)
(*                                                                         *)
(* One thread.  A request, and the release of its subscriptions, waits for *)
(* the MQTT client several times; in each wait messages are delivered, so  *)
(* that calls nest.  The MQTT client, the shadow service and the other     *)
(* users of the thing are external.                                        *)
(***************************************************************************)
EXTENDS Naturals, Sequences, FiniteSets, SequencesExt

CONSTANTS
  None,           \* no topic was ever written to a place of the list
  NumAcks,        \* MAX_ACKS_TO_COMEIN_AT_ANY_GIVEN_TIME
  Environments,   \* records of
                  \*   actions: actions on the thing that the application uses
                  \*   topics: MAX_TOPICS_AT_ANY_GIVEN_TIME
                  \*   callbackActs: a request's callback may make another request
                  \*   failures: MQTT operations that may fail
                  \*   switches: the application resets the version and turns
                  \*     the discarding of old deltas on and off
                  \*   requests: bound on requests, numbered by their token
                  \*   versions: bound on versions of the shadow document
  MaxRequests,    \* bound on requests in any environment
  MaxCalls        \* bound: calls under way

ASSUME EnvironmentsAssumption ==
  \A e \in Environments :
    /\ e.actions \subseteq {"get", "update", "delete"}
    /\ e.failures \subseteq {"subscribe", "unsubscribe", "publish"}
    /\ {e.callbackActs, e.switches} \subseteq BOOLEAN
    /\ {e.topics, e.versions} \subseteq Nat /\ e.requests \in 0..MaxRequests
ASSUME BoundsAssumption == {NumAcks, MaxRequests, MaxCalls} \subseteq Nat

VARIABLES
  env,            \* the environment, chosen at the start
  ackWait,        \* AckWaitList
  subList,        \* SubscriptionList
  deltaFlag,      \* deltaTopicSubscribedFlag
  version,        \* shadowJsonVersionNum
  discard,        \* shadowDiscardOldDeltaFlag
  calls,          \* calls under way, the innermost last
  requests,       \* number of requests made
  tracked,        \* requests that were published and put on the wait list
  notified,       \* notified[t]: how often the callback of request t was called
  deltaLog,       \* versions of the deltas given to the application, while old
                  \* ones are discarded and since the version was last reset
  ignored,        \* versions of the deltas discarded as old
  mqtt,           \* topics the MQTT client is subscribed to; a reconnect is
                  \* taken to restore all of them (Subscriptions says when)
  service,        \* requests the shadow service has not answered
  acks,           \* accepted and rejected messages in flight
  deltas,         \* versions of the delta messages in flight
  docVersion      \* version of the document at the service

records  == <<ackWait, subList, deltaFlag, version>>
settings == <<env, discard>>
history  == <<requests, tracked, notified, deltaLog, ignored>>
external == <<mqtt, service, acks, deltas, docVersion>>
vars     == <<settings, records, calls, history, external>>

AckSlots == 0..(NumAcks - 1)
SubSlots == 0..(env.topics - 1)
Kinds    == {"accepted", "rejected"}
Topic(action, kind) == <<action, kind>>
DeltaTopic == <<"update", "delta">>
AckTopics(action) == {Topic(action, kind) : kind \in Kinds}

\* The first place of 0..n-1 that satisfies P, or n.
First(n, P(_)) ==
  CHOOSE i \in 0..n : (i < n => P(i)) /\ \A j \in 0..(i - 1) : ~P(j)

\* Mutant: the search ends one place early.
FreeAckShort == First(NumAcks - 1, LAMBDA i : ackWait[i].free)

\* getNextFreeIndexOfAckWaitList, getNextFreeIndexOfSubscriptionList (called
\* twice) and findIndexOfSubscriptionList
FreeAck == First(NumAcks, LAMBDA i : ackWait[i].free)

FreeAccepted == First(env.topics, LAMBDA i : subList[i].free)

FreeRejected == First(env.topics, LAMBDA i : subList[i].free /\ i # FreeAccepted)

Listed(topic) == First(env.topics, LAMBDA i : ~subList[i].free /\ subList[i].topic = topic)

\* isSubscriptionPresent
SubscriptionPresent(action) ==
  \A topic \in AckTopics(action) : Listed(topic) < env.topics

\* A call: where it is, its parameters and its local indices.  kind is the
\* topic that a release has reached, acked tells an answer from a timeout.
NewCall == [pc |-> "start", action |-> None, token |-> 0, sticky |-> FALSE,
            ack |-> 0, acc |-> 0, rej |-> 0, kind |-> "accepted", acked |-> FALSE]

Call == Last(calls)
At(pc) == calls # <<>> /\ Call.pc = pc
Goto(pc) == calls' = Append(Front(calls), [Call EXCEPT !.pc = pc])
Return == calls' = Front(calls)

Fails(op) == op \in env.failures

-----------------------------------------------------------------------------
(* aws_iot_shadow_update, _get and _delete with a callback.                *)

MayCall ==
  /\ requests < env.requests
  /\ calls = <<>> \/ (env.callbackActs /\ At("callback") /\ Len(calls) < MaxCalls)

\* Mutant: the record is placed by the number of the request.
RequestCallByNumber(action, sticky, pc) ==
  [NewCall EXCEPT !.pc = pc, !.action = action, !.token = requests + 1,
                  !.sticky = sticky, !.ack = requests, !.acc = FreeAccepted,
                  !.rej = FreeRejected]

RequestCall(action, sticky, pc) ==
  [NewCall EXCEPT !.pc = pc, !.action = action, !.token = requests + 1,
                  !.sticky = sticky, !.ack = FreeAck, !.acc = FreeAccepted,
                  !.rej = FreeRejected]

\* Mutant: a second request on the same topics is not counted.
IncrementStickyOnly(action, sticky) ==
  subList' = [i \in SubSlots |->
                IF ~subList[i].free /\ subList[i].topic \in AckTopics(action)
                THEN [subList[i] EXCEPT !.sticky = sticky]
                ELSE subList[i]]

\* incrementSubscriptionCnt
IncrementSubscriptionCnt(action, sticky) ==
  subList' = [i \in SubSlots |->
                IF ~subList[i].free /\ subList[i].topic \in AckTopics(action)
                THEN [subList[i] EXCEPT !.count = @ + 1, !.sticky = sticky]
                ELSE subList[i]]

Request(action, sticky) ==
  /\ MayCall
  /\ requests' = requests + 1
  /\ \/ FreeAck = NumAcks /\ UNCHANGED <<calls, subList>>
     \/ /\ FreeAck < NumAcks /\ SubscriptionPresent(action)
        /\ IncrementSubscriptionCnt(action, sticky)
        /\ calls' = Append(calls, RequestCall(action, sticky, "publish"))
     \/ /\ FreeAck < NumAcks /\ ~SubscriptionPresent(action)
        /\ FreeAccepted < env.topics /\ FreeRejected < env.topics
        /\ subList' = [subList EXCEPT ![FreeAccepted].free = FALSE,
                                      ![FreeAccepted].topic = Topic(action, "accepted"),
                                      ![FreeRejected].free = FALSE]
        /\ calls' = Append(calls, RequestCall(action, sticky, "accepted"))
     \/ \* The list is full: nothing is subscribed and the request goes on.
        /\ FreeAck < NumAcks /\ ~SubscriptionPresent(action)
        /\ FreeRejected = env.topics
        /\ calls' = Append(calls, RequestCall(action, sticky,
                       IF FreeAccepted < env.topics /\ subList[FreeAccepted].count = 1
                       THEN "undo" ELSE "publish"))
        /\ UNCHANGED subList
  /\ UNCHANGED <<ackWait, deltaFlag, version, tracked, notified, deltaLog, ignored, external>>

\* The subscription of the accepted topic ends.
SubscribeAccepted ==
  /\ At("accepted")
  /\ \/ /\ mqtt' = mqtt \cup {Topic(Call.action, "accepted")}
        /\ subList' = [subList EXCEPT ![Call.acc].count = 1,
                                      ![Call.acc].sticky = Call.sticky,
                                      ![Call.rej].topic = Topic(Call.action, "rejected")]
        /\ Goto("rejected")
     \/ /\ Fails("subscribe")
        /\ subList' = [subList EXCEPT ![Call.acc].free = TRUE]
        /\ IF subList[Call.acc].count = 1 THEN Goto("cleanup") ELSE Return
        /\ UNCHANGED mqtt
  /\ UNCHANGED <<ackWait, deltaFlag, version, history, service, acks, deltas, docVersion>>

\* The subscription of the rejected topic ends.  When it fails the place of
\* the rejected topic is not given back.
SubscribeRejected ==
  /\ At("rejected")
  /\ \/ /\ mqtt' = mqtt \cup {Topic(Call.action, "rejected")}
        /\ subList' = [subList EXCEPT ![Call.rej].count = 1,
                                      ![Call.rej].sticky = Call.sticky]
        /\ Goto("publish")
     \/ /\ Fails("subscribe")
        /\ subList' = [subList EXCEPT ![Call.acc].free = TRUE]
        /\ IF subList[Call.acc].count = 1 THEN Goto("cleanup") ELSE Return
        /\ UNCHANGED mqtt
  /\ UNCHANGED <<ackWait, deltaFlag, version, history, service, acks, deltas, docVersion>>

\* The unsubscribe of the accepted place after a failure, or of whatever topic
\* is left in the only free place of a full list.
ClearEntries ==
  /\ At("cleanup") \/ At("undo")
  /\ \/ mqtt' = mqtt \ {subList[Call.acc].topic}
     \/ Fails("unsubscribe") /\ UNCHANGED mqtt
  /\ IF Call.pc = "undo" THEN Goto("publish") ELSE Return
  /\ UNCHANGED <<records, history, service, acks, deltas, docVersion>>

\* publishToShadowAction and addToAckWaitList
Publish ==
  /\ At("publish")
  /\ \/ /\ ackWait' = [ackWait EXCEPT ![Call.ack] =
                         [free |-> FALSE, token |-> Call.token, action |-> Call.action]]
        /\ tracked' = tracked \cup {Call.token}
        /\ service' = service \cup {[token |-> Call.token, action |-> Call.action]}
     \/ Fails("publish") /\ UNCHANGED <<ackWait, tracked, service>>
  /\ Return
  /\ UNCHANGED <<subList, deltaFlag, version, requests, notified, deltaLog,
                 ignored, mqtt, acks, deltas, docVersion>>

-----------------------------------------------------------------------------
(* Messages are delivered in yield and in every wait for the MQTT client.  *)

Waits == {"accepted", "rejected", "cleanup", "undo", "unsubscribe"}
Delivering == Len(calls) < MaxCalls /\ (calls = <<>> \/ \E pc \in Waits : At(pc))

\* isAckForMyThingName: the topics whose version number is taken over.
CarriesVersion(topic) == topic \in {Topic("get", "accepted"), Topic("update", "accepted")}

\* AckStatusCallback up to the application's callback.
AckStatusCallback ==
  \E m \in acks :
    LET i == First(NumAcks, LAMBDA j : ~ackWait[j].free /\ ackWait[j].token = m.token) IN
    /\ Delivering
    /\ acks' = acks \ {m}
    /\ \/ m.topic \notin mqtt /\ UNCHANGED <<version, calls, notified>>
       \/ /\ m.topic \in mqtt
          /\ version' = IF CarriesVersion(m.topic) /\ m.version > version
                        THEN m.version ELSE version
          /\ \/ i = NumAcks /\ UNCHANGED <<calls, notified>>
             \/ /\ i < NumAcks
                /\ notified' = [notified EXCEPT ![m.token] = @ + 1]
                /\ calls' = Append(calls, [NewCall EXCEPT
                              !.pc = "callback", !.ack = i, !.acked = TRUE,
                              !.action = ackWait[i].action])
    /\ UNCHANGED <<ackWait, subList, deltaFlag, requests, tracked, deltaLog, ignored,
                   mqtt, service, deltas, docVersion>>

\* Mutant: the loop over the records ends one place early.
HandleExpiredShort(i) ==
  /\ i < NumAcks - 1
  /\ calls = <<>>
  /\ ~ackWait[i].free
  /\ notified' = [notified EXCEPT ![ackWait[i].token] = @ + 1]
  /\ calls' = <<[NewCall EXCEPT !.pc = "callback", !.ack = i, !.action = ackWait[i].action]>>
  /\ UNCHANGED <<records, requests, tracked, deltaLog, ignored, external>>

\* HandleExpiredResponseCallbacks, called by aws_iot_shadow_yield, up to the
\* application's callback.
HandleExpired(i) ==
  /\ calls = <<>>
  /\ ~ackWait[i].free
  /\ notified' = [notified EXCEPT ![ackWait[i].token] = @ + 1]
  /\ calls' = <<[NewCall EXCEPT !.pc = "callback", !.ack = i, !.action = ackWait[i].action]>>
  /\ UNCHANGED <<records, requests, tracked, deltaLog, ignored, external>>

\* The callback returns.  A record that timed out is free before its
\* subscriptions are released, one that was answered only afterwards.
CallbackReturn ==
  /\ At("callback")
  /\ ackWait' = IF Call.acked THEN ackWait ELSE [ackWait EXCEPT ![Call.ack].free = TRUE]
  /\ Goto("release")
  /\ UNCHANGED <<subList, deltaFlag, version, history, external>>

\* Mutant: the record of an answered request is not given back.
ReleaseNextKeeps ==
  /\ \/ /\ Call.kind = "accepted"
        /\ calls' = Append(Front(calls), [Call EXCEPT !.pc = "release", !.kind = "rejected"])
     \/ Call.kind = "rejected" /\ Return
  /\ UNCHANGED ackWait

\* unsubscribeFromAcceptedAndRejected goes on to its next topic, or ends.
ReleaseNext ==
  \/ /\ Call.kind = "accepted"
     /\ calls' = Append(Front(calls), [Call EXCEPT !.pc = "release", !.kind = "rejected"])
     /\ UNCHANGED ackWait
  \/ /\ Call.kind = "rejected"
     /\ Return
     /\ ackWait' = IF Call.acked THEN [ackWait EXCEPT ![Call.ack].free = TRUE] ELSE ackWait

\* The place of the topic is unsubscribed by its last user, unless it is
\* sticky; other users only count down.
Release ==
  LET i     == Listed(Topic(Call.action, Call.kind))
      last  == i < env.topics /\ ~subList[i].sticky /\ subList[i].count = 1
      other == i < env.topics /\ subList[i].count > 1
  IN
  /\ At("release")
  /\ \/ /\ last
        /\ calls' = Append(Front(calls), [Call EXCEPT !.pc = "unsubscribe", !.acc = i])
        /\ UNCHANGED <<subList, ackWait>>
     \/ /\ other
        /\ subList' = [subList EXCEPT ![i].count = @ - 1]
        /\ ReleaseNext
     \/ /\ ~last /\ ~other
        /\ ReleaseNext
        /\ UNCHANGED subList
  /\ UNCHANGED <<deltaFlag, version, history, external>>

ReleaseUnsubscribed ==
  LET topic == Topic(Call.action, Call.kind) IN
  /\ At("unsubscribe")
  /\ \/ /\ topic \in mqtt
        /\ mqtt' = mqtt \ {topic}
        /\ subList' = [subList EXCEPT ![Call.acc].free = TRUE]
     \/ /\ topic \notin mqtt \/ Fails("unsubscribe")
        /\ UNCHANGED <<mqtt, subList>>
  /\ ReleaseNext
  /\ UNCHANGED <<deltaFlag, version, history, service, acks, deltas, docVersion>>

-----------------------------------------------------------------------------
(* Delta messages.                                                         *)

\* registerJsonTokenOnDelta: the flag is set whether the subscribe succeeds or
\* not.
RegisterDelta ==
  /\ calls = <<>> /\ ~deltaFlag
  /\ deltaFlag' = TRUE
  /\ \/ mqtt' = mqtt \cup {DeltaTopic}
     \/ Fails("subscribe") /\ UNCHANGED mqtt
  /\ UNCHANGED <<ackWait, subList, version, calls, history, service, acks, deltas, docVersion>>

\* Mutant: a delta of the version last seen counts as new.
IsNewOrSame(v) == v >= version

\* The comparison of a delta's version with the local one.
IsNew(v) == v > version

\* shadow_delta_callback.  The same message may be delivered again.
DeltaCallback ==
  \E v \in deltas :
    /\ Delivering
    /\ \/ deltas' = deltas \ {v}
       \/ UNCHANGED deltas
    /\ \/ /\ discard /\ IsNew(v)
          /\ version' = v
          /\ deltaLog' = Append(deltaLog, v)
          /\ UNCHANGED ignored
       \/ /\ ~discard
          /\ UNCHANGED <<version, deltaLog, ignored>>
       \/ /\ discard /\ ~IsNew(v)
          /\ ignored' = ignored \cup {v}
          /\ UNCHANGED <<version, deltaLog>>
    /\ UNCHANGED <<ackWait, subList, deltaFlag, calls, requests, tracked, notified,
                   mqtt, service, acks, docVersion>>

\* aws_iot_shadow_reset_last_received_version
ResetVersion ==
  /\ env.switches /\ version # 0
  /\ version' = 0 /\ deltaLog' = <<>>
  /\ UNCHANGED <<settings, ackWait, subList, deltaFlag, calls, requests, tracked, notified,
                 ignored, external>>

\* aws_iot_shadow_enable_discard_old_delta_msgs and its opposite
SwitchDiscard(on) ==
  /\ env.switches /\ discard # on
  /\ discard' = on /\ deltaLog' = <<>>
  /\ UNCHANGED <<env, records, calls, requests, tracked, notified, ignored, external>>

-----------------------------------------------------------------------------
(* The shadow service.                                                     *)

\* Messages go to the topics that are subscribed to when they are sent.
Message(topic, token, v) ==
  IF topic \in mqtt THEN {[topic |-> topic, token |-> token, version |-> v]} ELSE {}
Delta(v) == IF DeltaTopic \in mqtt THEN {v} ELSE {}

\* An update makes a new version; it makes a delta when the desired state
\* differs from the reported one.
ServiceAccepts ==
  \E r \in service :
    /\ service' = service \ {r}
    /\ \/ /\ r.action = "update" /\ docVersion < env.versions
          /\ docVersion' = docVersion + 1
          /\ \/ deltas' = deltas \cup Delta(docVersion')
             \/ UNCHANGED deltas
       \/ r.action # "update" /\ UNCHANGED <<docVersion, deltas>>
    /\ acks' = acks \cup Message(Topic(r.action, "accepted"), r.token, docVersion')
    /\ UNCHANGED <<records, calls, history, mqtt>>

ServiceRejects ==
  \E r \in service :
    /\ service' = service \ {r}
    /\ acks' = acks \cup Message(Topic(r.action, "rejected"), r.token, docVersion)
    /\ UNCHANGED <<records, calls, history, mqtt, deltas, docVersion>>

\* Somebody else updates the thing; the token is not one of ours.
OthersUpdate ==
  /\ docVersion < env.versions
  /\ docVersion' = docVersion + 1
  /\ deltas' = deltas \cup Delta(docVersion')
  /\ acks' = acks \cup Message(Topic("update", "accepted"), 0, docVersion')
  /\ UNCHANGED <<records, calls, history, mqtt, service>>

\* initializeRecords and initDeltaTokens
Init ==
  /\ env \in Environments /\ discard = TRUE
  /\ ackWait = [i \in AckSlots |-> [free |-> TRUE, token |-> 0, action |-> None]]
  /\ subList = [i \in SubSlots |->
                  [free |-> TRUE, topic |-> None, count |-> 0, sticky |-> FALSE]]
  /\ deltaFlag = FALSE /\ version = 0 /\ calls = <<>>
  /\ requests = 0 /\ tracked = {} /\ deltaLog = <<>> /\ ignored = {}
  /\ notified = [t \in 1..MaxRequests |-> 0]
  /\ mqtt = {} /\ service = {} /\ acks = {} /\ deltas = {} /\ docVersion = 0

CallStep ==
  \/ SubscribeAccepted \/ SubscribeRejected \/ ClearEntries \/ Publish
  \/ CallbackReturn \/ Release \/ ReleaseUnsubscribed

RecordStep ==
  \/ \E action \in env.actions, sticky \in BOOLEAN : Request(action, sticky)
  \/ CallStep
  \/ AckStatusCallback \/ (\E i \in AckSlots : HandleExpired(i)) \/ RegisterDelta \/ DeltaCallback
  \/ ServiceAccepts \/ ServiceRejects \/ OthersUpdate

Next ==
  \/ RecordStep /\ UNCHANGED settings
  \/ ResetVersion
  \/ \E on \in BOOLEAN : SwitchDiscard(on)

\* The MQTT client's calls end (MqttClient!EveryCallReturns), callbacks return,
\* and the application yields again and again; each yield looks at every timer.
Spec ==
  /\ Init /\ [][Next]_vars
  /\ WF_vars(CallStep /\ UNCHANGED settings)
  /\ \A i \in AckSlots : SF_vars(HandleExpired(i) /\ UNCHANGED settings)

-----------------------------------------------------------------------------
(* Properties.                                                             *)

\* What requests rest on: their callbacks make no request, subscriptions do
\* not fail and the list has places for all of them.
Orderly ==
  /\ ~env.callbackActs
  /\ env.failures \subseteq {"publish"}
  /\ env.topics >= 2 * Cardinality(env.actions)

\* Types.  A request under way has a place on the wait list.
TypeOK ==
  /\ ackWait \in [AckSlots -> [free : BOOLEAN, token : 0..env.requests,
                               action : env.actions \cup {None}]]
  /\ \A i \in SubSlots : subList[i].count \in 0..env.requests /\ subList[i].sticky \in BOOLEAN
  /\ version \in 0..env.versions /\ docVersion \in 0..env.versions
  /\ \A k \in 1..Len(calls) : calls[k].ack \in AckSlots
  /\ tracked \subseteq 1..env.requests

\* A request that waits for its answer is subscribed to both topics the answer
\* may come on.
WaitingIsSubscribed ==
  Orderly => \A i \in AckSlots :
    ~ackWait[i].free /\ notified[ackWait[i].token] = 0
    => AckTopics(ackWait[i].action) \subseteq mqtt

\* A request that was reported as made keeps its record until its callback is
\* called.
RecordKept ==
  Orderly => \A t \in tracked : notified[t] = 0 => \E i \in AckSlots : ~ackWait[i].free /\ ackWait[i].token = t

\* The callback of a request is called once: for an answer or for the timeout.
NotifiedOnce == Orderly => \A t \in 1..env.requests : notified[t] <= 1

\* The application sees deltas in the order of their versions, each once.
DeltasIncrease == \A j, k \in 1..Len(deltaLog) : j < k => deltaLog[j] < deltaLog[k]

\* A delta is only discarded when the application has seen it or a newer one.
OnlyOldDeltasIgnored ==
  \A v \in ignored : \E k \in 1..Len(deltaLog) : deltaLog[k] >= v

\* The callback of every request that was made is called in the end: the
\* application never keeps waiting.
EveryRequestNotified == Orderly ~> \A t \in tracked : notified[t] > 0
=============================================================================
