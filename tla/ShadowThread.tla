----------------------------- MODULE ShadowThread -----------------------------
(***************************************************************************)
(* The shadow thread of the measurement application: it yields to the      *)
(* shadow client, reports its state and sleeps, until an update fails.  A  *)
(* delta with channels subscribes and unsubscribes them on the other MQTT  *)
(* client, from inside the callback, and repeats a subscribe until it      *)
(* succeeds.  Time is counted in ticks.                                    *)
(*                                                                         *)
(* The MQTT client is external, see MqttClient and Subscriptions; of       *)
(* ShadowRecords only the wait list is kept, with the time each record has *)
(* left.                                                                   *)
(***************************************************************************)
EXTENDS ShadowDocument

CONSTANTS
  Channels,      \* channels a delta may name
  None,
  NumHandlers,   \* AWS_IOT_MQTT_NUM_SUBSCRIBE_HANDLERS
  NumAcks,       \* MAX_ACKS_TO_COMEIN_AT_ANY_GIVEN_TIME
  UpdateTimeout, \* timeout_seconds of an update
  YieldTime, SleepTime,
  BufferSize     \* MAX_LENGTH_OF_UPDATE_JSON_BUFFER

ASSUME ShadowAssumption ==
  /\ None \notin Channels \cup Nat \cup {"not connected", "document", "no record", "not sent"}
  /\ {NumHandlers, NumAcks, UpdateTimeout, SleepTime, BufferSize} \subseteq Nat \ {0}
  /\ YieldTime \in Nat

VARIABLES
  shadow,        \* what the thread does
  todo,          \* the channels of the delta that are left, with their flag
  handlers,      \* places of the other client's handler table that are taken
  waits,         \* ticks left of an update that waits for its answer, or None
  channelsLen,   \* length of the value of "channels"
  document,      \* the document of the last update
  endedBy        \* why the loop has ended

shadowVars == <<shadow, todo, handlers, waits, channelsLen, document, endedBy>>

Slots == 1..NumHandlers
Records == 1..NumAcks

\* Mutant: a record expires one tick late.
ExpiredLate(i) == waits[i] # None /\ waits[i] < 0

\* has_timer_expired, for the timer of a record.
Expired(i) == waits[i] # None /\ waits[i] <= 0

\* Time passes; a timer that has expired stays so.
Elapsed(list, d) ==
  [i \in Records |-> IF list[i] = None THEN None
                     ELSE IF list[i] < d THEN 0 ELSE list[i] - d]

Fail(reason) == shadow' = "ended" /\ endedBy' = reason

\* shadowRun up to its loop: a failure is only logged, but without a
\* connection the last registration fails and the loop is not entered.
ShadowStart ==
  /\ shadow = "start"
  /\ \/ shadow' = "yield" /\ UNCHANGED endedBy
     \/ Fail("not connected")
  /\ UNCHANGED <<todo, handlers, waits, channelsLen, document>>

\* aws_iot_shadow_yield: expired records are freed first.
ShadowYield ==
  /\ shadow = "yield"
  /\ waits' = [i \in Records |-> IF Expired(i) THEN None ELSE waits[i]]
  /\ shadow' = "reading"
  /\ UNCHANGED <<todo, handlers, channelsLen, document, endedBy>>

\* An answer frees its record.
Answered ==
  /\ shadow = "reading"
  /\ \E i \in Records : waits[i] # None /\ waits' = [waits EXCEPT ![i] = None]
  /\ UNCHANGED <<shadow, todo, handlers, channelsLen, document, endedBy>>

\* A delta stores its value and calls back.
Delta(deltas, lengths) ==
  /\ shadow = "reading"
  /\ shadow' = "unsubscribe"
  /\ todo' \in deltas
  /\ channelsLen' \in lengths
  /\ UNCHANGED <<waits, handlers, document, endedBy>>

\* The yield returns: only NETWORK_ATTEMPTING_RECONNECT goes round again,
\* after a pause; every other result is overwritten by those of the update.
YieldReturned ==
  /\ shadow = "reading"
  /\ \E d \in 0..YieldTime : waits' = Elapsed(waits, d)
  /\ shadow' \in {"pause", "update"}
  /\ UNCHANGED <<todo, handlers, channelsLen, document, endedBy>>

Pause ==
  /\ shadow = "pause"
  /\ waits' = Elapsed(waits, 1)
  /\ shadow' = "yield"
  /\ UNCHANGED <<todo, handlers, channelsLen, document, endedBy>>

\* Mutant: the loop goes on once too often.
NextChannelLate ==
  /\ todo' = Tail(todo)
  /\ shadow' = IF Len(todo) = 0 THEN "reading" ELSE "unsubscribe"

\* The next channel of the delta, or the end of the callback.
NextChannel ==
  /\ todo' = Tail(todo)
  /\ shadow' = IF Len(todo) = 1 THEN "reading" ELSE "unsubscribe"

\* aws_iot_mqtt_unsubscribe of the channel.  The table holds pointers to names
\* that the callback has given up since (c_str() of a temporary): what they
\* read as is anything, at every comparison.  So with any place taken the call
\* may find one and be sent, and when it is acknowledged any of the places may
\* be freed, those of other channels too, or none.  It fails when it finds none
\* or gets no answer.  The result matters to nobody.
ChannelUnsubscribe(done) ==
  /\ shadow = "unsubscribe"
  /\ \/ done /\ handlers # {} /\ handlers' \in SUBSET handlers
     \/ ~done /\ UNCHANGED handlers
  /\ \/ Head(todo).on /\ shadow' = "subscribe" /\ UNCHANGED todo
     \/ ~Head(todo).on /\ NextChannel
  /\ waits' = Elapsed(waits, 1)      \* sleep(1)
  /\ UNCHANGED <<channelsLen, document, endedBy>>

\* The first place of the table that is free.
FirstFree(i) == i \in Slots \ handlers /\ 1..(i - 1) \subseteq handlers

\* Mutant: the test of the result is inverted.
ChannelSubscribeInverted(done) ==
  /\ shadow = "subscribe"
  /\ \/ /\ done
        /\ \E i \in Slots : FirstFree(i) /\ handlers' = handlers \cup {i}
        /\ shadow' = "unsubscribe"
        /\ UNCHANGED todo
     \/ ~done /\ NextChannel /\ UNCHANGED handlers
  /\ waits' = Elapsed(waits, 1)      \* sleep(1)
  /\ UNCHANGED <<channelsLen, document, endedBy>>

\* aws_iot_mqtt_subscribe of the channel: the first free place of the table is
\* taken.  After a failure the unsubscribe is repeated, and so on.
ChannelSubscribe(done) ==
  /\ shadow = "subscribe"
  /\ \/ /\ done
        /\ \E i \in Slots : FirstFree(i) /\ handlers' = handlers \cup {i}
        /\ NextChannel
     \/ /\ ~done
        /\ shadow' = "unsubscribe"
        /\ UNCHANGED <<handlers, todo>>
  /\ waits' = Elapsed(waits, 1)      \* sleep(1)
  /\ UNCHANGED <<channelsLen, document, endedBy>>

\* customer, location, id, connection, groups and channels
Fields ==
  LET field(k, v) == [key |-> k, value |-> v] IN
  <<field(8, 7), field(8, 7), field(2, 7), field(10, 7), field(6, 7), field(8, channelsLen)>>

\* The client token: the MAC address, "shadow", "-" and a number.
TokenLen == 20

\* The document is built and sent, if the client can send it.  Whatever fails
\* ends the loop.
Update(sends) ==
  /\ shadow = "update"
  /\ document' = Document(BufferSize, Fields, TokenLen)
  /\ \/ document'.rc # "SUCCESS" /\ Fail("document") /\ UNCHANGED waits
     \/ /\ document'.rc = "SUCCESS" /\ \A i \in Records : waits[i] # None
        /\ Fail("no record") /\ UNCHANGED waits
     \/ /\ document'.rc = "SUCCESS" /\ FALSE \in sends
        /\ Fail("not sent") /\ UNCHANGED waits
     \/ /\ document'.rc = "SUCCESS" /\ TRUE \in sends
        /\ \E i \in Records :
             /\ waits[i] = None /\ \A j \in 1..(i - 1) : waits[j] # None
             /\ waits' = [waits EXCEPT ![i] = UpdateTimeout]
        /\ shadow' = "sleep" /\ UNCHANGED endedBy
  /\ UNCHANGED <<todo, handlers, channelsLen>>

Sleep ==
  /\ shadow = "sleep"
  /\ waits' = Elapsed(waits, SleepTime)
  /\ shadow' = "yield"
  /\ UNCHANGED <<todo, handlers, channelsLen, document, endedBy>>

ShadowInit ==
  /\ shadow = "start" /\ todo = <<>> /\ handlers = {}
  /\ waits = [i \in Records |-> None]
  /\ channelsLen = 7      \* "unknown"
  /\ document = [len |-> 0, limit |-> 0, rc |-> "SUCCESS"]
  /\ endedBy = None

ShadowStep(deltas, lengths, sends) ==
  \/ ShadowStart \/ ShadowYield \/ Answered \/ Delta(deltas, lengths) \/ YieldReturned
  \/ Pause \/ Update(sends) \/ Sleep
  \/ \E done \in BOOLEAN : ChannelUnsubscribe(done) \/ ChannelSubscribe(done)

-----------------------------------------------------------------------------
(* Properties.                                                             *)

InChannels == shadow \in {"unsubscribe", "subscribe"}

\* An update always finds a record: so many updates as are made before the
\* oldest expires fit in the list, also when none is ever answered.
UpdateFindsRecord == endedBy # "no record"

\* A document that fits in its buffer is built, and built completely.
FittingDocumentBuilt ==
  /\ shadow = "sleep" \/ endedBy = "document"
  /\ DocumentSize(Fields, TokenLen) < BufferSize
  => document.rc = "SUCCESS" /\ document.len = DocumentSize(Fields, TokenLen)
=============================================================================
