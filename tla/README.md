# Verification of the MQTT and Thing Shadow client

This directory holds TLA+ models of the device client in this repository: an
MQTT 3.1.1 client over mbedTLS, the Thing Shadow client built on it, and the
measurement application (`aws_iot_mqtt_measurement.cpp`) that drives both. The
modules are checked on small instances with TLC, and nearly all of their safety
properties are proved for all instances with TLAPS.

## 1. Inventory

| Component | Source | State it keeps | Operations | Modelled in |
|---|---|---|---|---|
| Client state machine and API | `aws_iot_mqtt_client*.c` | `clientState`, auto-reconnect flag, reconnect interval, outstanding ping, `state_change_mutex` | connect, disconnect, attempt_reconnect, publish, subscribe, unsubscribe, resubscribe, yield, set_autoreconnect | `ClientState`, `MqttClient`, `ClientContract` |
| Subscriptions and QoS 1 publishing | `..._subscribe.c`, `..._unsubscribe.c`, `..._publish.c` | `messageHandlers[]`, `nextPacketId` | subscribe, unsubscribe, resubscribe, publish, delivery | `Subscriptions` |
| Packet framing | `..._common_internal.c`, `network_mbedtls_wrapper.c` | `readBuf`, packet timer | read_packet, decode remaining length, encode it, iot_tls_read | `PacketReader` |
| Receive loop and keep-alive | `..._yield.c`, cycle_read | ping timer, outstanding ping | yield, cycle_read, keep_alive | `ReceiveLoop` |
| Topic filters | `is_topic_matched`, `deliver_message` | none | match, dispatch | `TopicFilter`, `ReceiveLoop` |
| Shadow records | `aws_iot_shadow_records.c`, `_actions.c`, `_shadow.c` | `AckWaitList`, `SubscriptionList`, `deltaTopicSubscribedFlag`, `shadowJsonVersionNum`, `shadowDiscardOldDeltaFlag` | get/update/delete, ack callback, expiry, register delta, delta callback, version reset, discard switch | `ShadowRecords` (partly) |
| Shadow documents | `aws_iot_shadow_json.c` | a buffer and its length | init, add reported, finalize | `ShadowDocument` (partly) |
| Application: commands | `aws_iot_mqtt_measurement.cpp` | global `msg`, a buffer per thread, the database handler | message callback, `runCommand` | `Commands` |
| Application: shadow thread | same | handler table of the other client, wait list, value of `channels` | `shadowRun`, `channels_Callback` | `ShadowThread` |
| Application: main, disconnect handlers | same | none | connect, start the threads, yield; manual reconnect | `Measurement`, `MqttClient` |
| Database access | `mysql.cpp` | one handler | getInstance, setDBParameters, select | `Commands` (partly) |
| TLS wrapper, timer, mutex wrapper | `platform/linux` | mbedTLS contexts, end times | | `tlsUp` in `MqttClient`; reads in `PacketReader`; ticks in `ReceiveLoop`, `ShadowThread` |
| Tool helpers, mbedTLS, jsmn | `tool.cpp`, `external_libs` | | | not modelled |

How they interact. The application's threads call the client's API. Every call
compares `clientState` with the states it may start from, claims the client by
a compare-and-set under a mutex, does its I/O outside the mutex, and gives the
state back by a second compare-and-set. While a call waits for its
acknowledgement it reads packets, and an incoming PUBLISH runs the
application's callback *inside* that wait. The callback may call the client
again, so calls nest to any depth. `yield` also notices a lost connection: it
calls `handle_disconnect`, which disconnects (by force if it must), calls the
application's handler, which may itself reconnect, and then sets the state. The
shadow client uses subscribe, unsubscribe and publish, and lives in callbacks
of the MQTT client. The application has two clients, one for commands and one
for the shadow; callbacks of the shadow client subscribe and unsubscribe on the
other one, and every command runs in a detached thread that publishes, which is
where threads meet.

What is hard here. Calls nested through callbacks; threads that share one state
word; plain assignments to that word outside its mutex; locals read before a
wait and used after it; acknowledgements matched by type and not by packet id;
lost connections with a clean session; a stream that stops in the middle of a
packet; a ping timer that is only looked at between other delays; a
subscription list shared by counting; version numbers that decide whether a
delta is new; publish parameters shared by all command threads. `PROJECT.json`
lists each hazard at its line.

What makes each component correct:

- *State machine*: it never stays in a state that no call under way answers
  for; operations exclude each other; "connected" implies a TLS context; a TLS
  context is never set up over another; calls return; automatic reconnect
  settles; with one thread it behaves as if it kept a stack of operations.
- *Subscriptions and publishing*: a subscription that was reported has its
  handler; after a complete reconnect the broker has every subscription the
  table has; nothing but a topic is sent; a publish that was reported was
  received.
- *Framing and receive loop*: every packet is read from its header; lengths are
  decoded as they were encoded; a packet that fits is stored inside the buffer;
  a dead peer is noticed and a live one kept; the broker hears of the client in
  time; the right handlers are called.
- *Shadow records*: each request keeps its record and its subscriptions until
  its callback is called, which happens exactly once; deltas reach the
  application in order; only deltas that are really old are discarded.
- *Application*: a command reports its own results; every command ends; the
  callback that switches channels returns; an update finds a record; a document
  that fits is built.

## 2. Modules

| Module | Role |
|---|---|
| `ClientState` | the `ClientState` enumeration and the predicates over it |
| `MqttClient` | threads, call stacks, the state machine, connection loss and reconnect |
| `ClientContract` | abstract specification: a link and a stack of operations |
| `MqttClientContract` | the refinement mapping from `MqttClient` |
| `MCMqttClient` | instances: a main thread and other threads, the calls each makes |
| `MqttClientProofs` | type correctness, proper nesting and the state's accountability, proved |
| `MqttClientSafety` | state and TLS context, delay of reconnects, mutual exclusion, proved |
| `MqttClientRefinement` | `MqttClient` implements `ClientContract`, proved |
| `Subscriptions`, `MCSubscriptions` | handler table, QoS 1 publishing, packets in flight, the broker's session; environments |
| `SubscriptionsProofs` | types, handlers, resubscribing and confirmed publishes, proved |
| `TopicFilter` | topic matching on characters, with a reference on levels |
| `PacketReader` | bytes to packets |
| `ReceiveLoop`, `MCReceiveLoop` | yield, keep-alive, dispatch, peer and time, on top of both; environments |
| `ReceiveLoopProofs` | types, framing, decoded lengths, the extent of reads and the time bounds of keep-alive, proved |
| `ShadowRecords`, `MCShadowRecords` | wait list, subscription list, versions, the shadow service; environments |
| `ShadowRecordsProofs` | types, the order of the deltas, one notification per request, records kept, proved |
| `ShadowListProofs` | the subscription list: a waiting request is subscribed, proved |
| `ShadowDocument` | lengths and limits of the document builders |
| `Commands` | command threads, shared publish parameters, database handler |
| `ShadowThread` | the loop of the shadow thread and the callback for channels, on top of `ShadowDocument` |
| `Measurement`, `MCMeasurement` | the application: main with `Commands` and `ShadowThread`; environments |
| `MeasurementProofs` | types, commands, the wait list and the documents of updates, proved |

Several modules have a constant `Environments` and a variable `env` chosen from
it by `Init`: what the application, the broker or the network may do in a
behaviour. One run then covers several instances, and a property that needs a
condition on the environment states it.

### MqttClient

Each thread has a stack of frames. A frame is a C function under way: `fn`, the
place it has reached (`pc`), its local `clientState` (`saved`), and `pending`,
the new state between the comparison and the store of
`aws_iot_mqtt_set_client_state`. An action is a step that reads or writes the
shared client at most once, so that steps of threads interleave where the C
code can be preempted. `SetClientState` takes the mutex and compares;
`StoreClientState` stores and releases. Without `isBlockOnThreadLockEnabled` a
comparison may also fail because another thread is inside the function
(`TrylockFails`). Assignments that the code makes outside the mutex
(`force_client_disconnect`, the end of `handle_disconnect`, both ends of
`disconnect`) are actions that ignore it.

Packets and timers are abstract: an I/O operation has any of its outcomes, a
timer has expired or not. `RequestWait` stands for `wait_for_read`, which retries
read errors until its timer expires, so a lost connection ends such a wait only
by a timeout. `tlsUp` says that the TLS structures are set up; a connection that
is dead on the network may still have them. The following are merged or left
out: the two tests of the state at the start of a request are one read; the TLS
read and write mutexes guard single library calls; a PUBLISH in front of the
CONNACK; messages for topics without a subscription (dropped by the code). A
PUBACK that cannot be written makes the delivery fail, as `send_packet`
reports any write error as FAILURE, which does not end the connection.

### ClientContract

What an application with one thread may rely on: the client has a link and,
while it is up, a stack of operations. An operation begins on an idle client or
inside a callback, a callback runs inside an operation, the last one begun ends
first, and a connection is only given up while nothing but a yield is under way.
The code has no such stack: it has one state word and a local variable per
function. `MqttClientContract!OpsOf` reads the stack off both, by following
from the state word the words that the calls have saved. Two clauses of the
contract are weaker than one would wish, because the code is: a callback that
disconnects during a renewal is taken for a loss (`yield.c:68`), and a yield
whose resubscribe failed goes on reading although it has not claimed the client
(`Deliver` on an idle client).

### Subscriptions

One thread, a stack of calls, two FIFO channels and the broker's session. The
place of a subscribe is computed before the wait and used after it; a
resubscribe computes the number of handlers once (`FreeIndex`, as the code does)
and reads each handler when it gets there. Acknowledgements are matched by
type, those of publishes too (`publish.c:235`). A connection loss empties the
channels and the session (clean session). `env.timeouts` lets the command timer
expire while the answer is still on its way; without it a wait only times out
when nothing is in flight. `restored` records whether the last reconnect
reported complete success; `confirmed` and `received` are the messages whose
publish returned SUCCESS and those the broker has.

### PacketReader, TopicFilter and ReceiveLoop

`PacketReader` cuts a stream of bytes into packets. A byte is a header, a byte of
a length or a byte of a body; a reader that has lost its place may take one for
another, and what such a byte then says is arbitrary. `iot_tls_read` returns when
it has all its bytes, when its timer has expired, or on an error; `read_packet`
passes the first two kinds of failure on for a header and a length, and makes
FAILURE of them for a body. The guard of `decode_packet_remaining_len` against
more than four bytes tests a variable that each read sets to 1, so it never
fires and is left out; `rem` and `mult` wrap at `SizeLimit`. Also faithful: the
check whether a packet fits ignores the bytes of the header and of the length,
behind which the body is stored (`BodyStart`, `ReadEnd`). A remaining length just
below the size of the buffer therefore passes and ends up to four bytes past the
end (two for the 512 bytes of the application); what lies there is not modelled,
and the property `ReadInBuffer` names these lengths as its exception.

`TopicFilter!IsTopicMatched` walks over characters as the C loop does and is
compared with `LevelsMatch`, a definition on levels. It differs from MQTT 3.1.1
in two points, both stated in the reference: '#' does not match the parent
level, and empty levels are not supported.

`ReceiveLoop` adds the loop of `yield`, the dispatch of `cycle_read`, `keep_alive`
with its timer, the pause between yields, and a peer that sends, answers pings,
falls silent or closes. Time passes in ticks where the code waits. A packet that
stops in the middle makes the yield return FAILURE but leaves the connection
(only read and write *error codes* are terminal, `yield.c:209`), so that the next
read may start anywhere: `slipped` marks such a connection and the properties
exclude it. `env.packets` bounds the packets that the peer lets pile up
when it sends a message; without such a bound an answer to a ping may stand
behind any number of them, and no interval is long enough.

### ShadowRecords

`Request` is `aws_iot_shadow_internal_action` with a callback and a client token
(a request without either is only a publish). Its two subscribe calls, and
the unsubscribe calls of the release, are waits in which messages are delivered
and, if `env.callbackActs`, callbacks make requests. A topic is a pair of
action and kind. The service answers, rejects or stays silent; others update
the thing too. A delta may be delivered more than once. With `env.switches` the
application resets the version and turns the discarding of old deltas on and
off; `deltaLog` starts again then. One detail is abstracted: with a full list
the code reads `SubscriptionList[-1].count` and may try to unsubscribe whatever
follows there; the MQTT client has no such subscription and refuses, so the read
has no effect on the state modelled. Not modelled: the table of registered keys,
several thing names, `aws_iot_shadow_yield` called from a callback; registering
for deltas is one step. `mqtt`, the topics the MQTT client is subscribed to, loses
one only by an unsubscribe: a reconnect is taken to restore all of them. That a
connection lost with its clean session may come back with fewer (an incomplete
resubscribe, a hole in the table) is in `Subscriptions`, and here only as answers
that never come.

### Commands, ShadowThread and Measurement

`Commands` has a thread per command. The callback copies the command into a local
buffer, starts a detached thread with a pointer to it and returns; `FrameReused`
lets that memory change before the thread reads it, so that a thread may run a
later command or end the process on text that does not parse. `msg.buffer` is
whose payload the global `msg` points to, `msg.length` of which text its length
is. Two threads exchange their texts in the model, as they do in the code
(`measurement.cpp:306`). The database handler is shared too, and every select
unloads the MySQL library (`mysql.cpp:132`): `MayCollide` lets the process end
when two threads are there together.

`ShadowThread` is `shadowRun`: yield, report, sleep, until something fails. Its
callback for channels unsubscribes and subscribes on the other client, one
channel after the other, and repeats both until the subscribe succeeds; the
shadow thread waits meanwhile. The handler table of that client keeps pointers
(`subscribe.c:260`), and the callback passes the text of a string that is
destroyed with the statement (`measurement.cpp:475`): a later unsubscribe compares
its name with whatever is there by then, twice (`unsubscribe.c:150,188`).
`handlers` therefore only says which places are taken, and `ChannelUnsubscribe` may
find a place or none and free any of them, those of other channels too. The name
in the packets comes from the same text, so that the model does not say which
channel the broker has subscribed. Of the records only the remaining times are kept.
`ShadowDocument` computes with the real lengths of the document: the limit for a
value is measured before its key is written (`shadow_json.c:197`), and past the
end of the buffer the unsigned difference wraps.

`Measurement` composes them with main. A command can be received when the table
has a handler: in a yield of main, in a publish of a command thread, and in the
shadow thread while its callback for channels waits in a subscribe or an
unsubscribe (`ShadowRun`).

## 3. Runs

Passing runs:

| Run | Instance | Shows |
|---|---|---|
| `client_single` | one thread, all API functions, callbacks that publish, unsubscribe, disconnect, connect and yield, two messages, depth 14 | `StateAccounted`, `ProperNesting`, `ConnectedMeansTls`, `ContextNotLeaked`, and the refinement `ImplementsContract` |
| `client_threads` | three threads with a blocking mutex, with and without auto-reconnect: one connects, yields and unsubscribes, two publish; no messages | `MutualExclusion`, `SharedAccounted`, `SharedConnected` (without auto-reconnect), `MinimumDelay` |
| `client_live` | one thread from a connected client, callbacks that publish, a handler that reconnects | `EveryCallReturns`, `ReconnectSettles` |
| `subs` | three topics, three handlers; late answers and losses (`Restoring`), callbacks that unsubscribe and refusals (`Nested`), publishes (`Publishing`), publishes from callbacks with late answers (`Crossing`) | `SubscribedUnlessFreed`, `SendsTopics`, `ActiveHasHandler`, `ConfirmedIsReceived`, `ConfirmedAreCounted` |
| `shadow` | three requests on two records with failing publishes (`Sharing`), a full list with every failure and callbacks that request (`Limits`), two versions and the switches (`Deltas`) | `WaitingIsSubscribed`, `RecordKept`, `NotifiedOnce`, `DeltasIncrease`, `EveryRequestNotified` |
| `receive` | a link that fails (`Timed`), an interval long enough for the broker's limit (`Patient`), packets that fit, that fit but for their header, and that do not fit, arriving slowly (`Framed`), every name and filter of up to three levels (`Routed`) | `ReadInBuffer`, `Synchronised`, `LengthDecoded`, `DeadPeerDetected`, `LivePeerKept`, `HeardInTime`, `DeliveredAsSubscribed` |
| `app` | two commands that overlap (`Overlapping`), deltas that switch two channels (`Switching`), values at the limit of the document (`Growing`) | `AloneReportsOwn`, `UpdateFindsRecord`, `FittingDocumentBuilt`, `EveryCommandEnds`, `ChannelsSettle` |

Runs that show a disagreement between the code and what the repository says
about it (each quoted in `PROJECT.json`):

- `viol_callback`: a publish of another thread that starts during a message
  callback and ends after it leaves the client in `WAIT_FOR_CB_RETURN` with no
  call under way; every later yield is refused.
- `viol_handler`: `handle_disconnect` sets `DISCONNECTED_ERROR` after the
  application's handler has reconnected; the reconnect is lost and its TLS
  context stays open.
- `viol_unsubscribe`: two threads unsubscribe; the one that finds the client
  claimed undoes its failed claim (`unsubscribe.c:232`), which takes the state from
  the other, and reports SUCCESS with nothing sent, where the header promises that
  the call returns after the UNSUBACK. (`SuccessIsAcknowledged` asks for no more
  than an acknowledgement of the right type: ids are not compared.)
- `viol_subs_hole`: after an unsubscribe, resubscribe restores only the handlers
  in front of the hole and reports success.
- `viol_shadow_delta`: the version of `update/accepted` is taken over, although
  the header says it is ignored, and the delta of the same update is discarded.

The passing instances are chosen inside the conditions under which the
properties hold; these conditions are findings too. Changing one constant of a
cfg or one field of an environment (or two, where two are named) shows each:

- `client_threads`: with messages `SharedAccounted` fails (`viol_callback`); with
  a thread that disconnects it fails because disconnect restores a state it read
  long before (`connect.c:567`); with auto-reconnect `MutualExclusion`,
  `StateAccounted` and `ConnectedMeansTls` fail, because the yield goes on when its
  claim fails after a reconnect (`yield.c:94`), which is why the first is stated,
  and `SharedAccounted` and `SharedConnected` are, for a client without it; with
  `BlockOnLock = FALSE` a state cannot always be given back (`client.c:71`); two
  threads that connect are both let through, since connect ignores the result of
  its claim (`connect.c:469`); with a second thread that unsubscribes the rollback
  of `viol_unsubscribe` breaks exclusion. With `attempt_reconnect` among the calls
  `MinimumDelay` fails, because a failed manual attempt leaves
  `PENDING_RECONNECT` with an interval that was never set. The run has the
  mutexes; the application's build does not define `_ENABLE_THREAD_SUPPORT_` for
  the library (`measurement.cpp:33` defines it after the includes of one file),
  although `PortingGuide.md` asks for it.
- `client_single`: with a reconnecting handler `ContextNotLeaked` fails as a
  consequence of `viol_handler`.
- `subs`: where the broker refuses (`refuses`) the table holds subscriptions it
  does not have (`subscribe.c:246`); with callbacks that subscribe, two calls take
  the same place (`subscribe.c:228`); with `timeouts` in `Nested` a late UNSUBACK
  lets a callback free a handler that a resubscribe is about to send
  (`subscribe.c:357`). With late answers or publishes from callbacks a PUBACK
  completes another publish than its own: `ConfirmedIsReceived` fails and only
  the count of `ConfirmedAreCounted` holds.
- `shadow`: with failing subscribes or unsubscribes the list leaks places
  until `subscribeToShadowActionAcks` returns SUCCESS without subscribing, and
  `WaitingIsSubscribed` fails; with `callbackActs` a request made in a callback may
  take the place chosen by another (`RecordKept`), and the late answer to a request
  whose timeout callback is running calls that callback again (`NotifiedOnce`).
  `Orderly` states these conditions.
- `receive`: `LivePeerKept` needs a keep-alive interval that exceeds
  `AnswerTime`: the time the peer and the network take to answer a ping, and a
  callback and a pause for each packet in front of the answer. With a shorter
  one a live peer is given up. `HeardInTime` needs packets that fit and have a
  known type (`Handled`): any other ends its yield before `keep_alive` is called,
  so that a peer that sends such packets only puts the check off. It also needs
  an interval of at least `2 * (AnswerTime + Round)`, so that the half interval
  the broker grants covers the answer to a ping, after which the timer starts
  again, and a round of the loop until it is looked at; with a shorter one (7 in
  `Timed`) the broker may give a working client up. The main client has an
  interval of 10 s, yields of 0.2 s, pauses of 1 s and a packet timeout of 2 s: it
  meets the condition when the answer and the callbacks together take less than
  about 0.8 s and no packets pile up. The shadow client pauses for 3 s and does
  not meet it.
- `app`: threads that overlap send each other's texts (hence `alone`). An update
  finds a record because `NumAcks * SleepTime >= UpdateTimeout`: in the code
  10 * 3 s = 30 s, an exact fit; one record less and `UpdateFindsRecord` fails, and
  with it the shadow thread ends for good. An unsubscribe that finds nothing, or
  whose answer is lost, leaves handlers in the table, so a channel can occupy
  several places, its commands then run several times, and the callback may never
  return once no place is left, which `ChannelsSettle` excepts. An unsubscribe that
  finds too much removes the handler of another channel: no property claims that a
  channel that is on keeps its handler, since the code does not see to it. A value of `channels` longer than the update buffer ends
  the shadow thread (`measurement.cpp:627` allows 1000 characters, the buffer has
  500).

### Bounds

The bounds are named constants. `MaxDepth` is larger than the deepest call
chain of each passing instance (checked: the depth never reaches it), so it cuts
nothing off. `MaxMessages = 2` gives a callback inside a
callback's call. `MaxBackoff = 2` gives a first attempt, a doubled one and giving
up. `Subscriptions` is 2 where a resubscribe must go round its loop. In module
`Subscriptions`, three handlers allow a hole with handlers on both sides,
`MaxPacketId = 2` makes ids wrap, two publishes can cross. In `ShadowRecords`,
three requests on two records fill the wait list, and two requests on the same
action share a subscription; `Sharing` has no versions (its updates are rejected
or unanswered, its gets accepted), the other environments accept updates.

In `receive`, `Radix = 3` and `BufSize = 3` give lengths of one and two bytes and
packets that fit (a remaining length of 1), that pass the check and do not fit
(2), and that take two pieces to drop (4). The times of `Timed` keep the order of
the real ones (keep-alive 10 s, packet timeout 2 s, yields of 0.2 s, pauses of
1 s), scaled to `keepAlive = 7`, `PacketTimeout = 2`, 1 and 1, with one packet at a
time besides the answer to a ping (`packets`); 7 is the least interval above
`AnswerTime`. `Patient` has the same delays without a slow network and the least
interval for `HeardInTime`, 20. The bound of `DeadPeerDetected` is a sum of those
delays, that of `HeardInTime` the broker's one and a half intervals. Names and filters have up to three levels of one or two characters.

In `app`, three records, a timeout of 6 and a sleep of 2 keep the exact fit of
the real figures; two places for two channels make the table overflow with
duplicates; the lengths around 323 are those where the document of 500
characters stops fitting. Topics are symmetric in `subs`; no liveness property is
checked with symmetry. The runs `shadow` and `app` do not check deadlock: when the
bounded requests are used up, or main has returned or the process has ended,
nothing is left to do.

### Fairness

`MqttClient!Fairness`: a call under way goes on (weak fairness of a thread's
steps: threads are scheduled); strong fairness of `YieldTimerExpired` (the timer
is started once per yield and time passes), of `CallbackReturn` (callbacks of
the application end), of `HandleReconnect` (the delay timer expires too), and of
the application's call of yield (its main loop). Nothing is assumed of the
network or of the broker. `ShadowRecords!Spec`: calls of the MQTT client end, which
`EveryCallReturns` shows, and every record's timer is looked at by each
`aws_iot_shadow_yield`; nothing is assumed of the service. `Measurement!Fairness`:
threads are scheduled (weak fairness), a publish that is repeated for ever
succeeds some time, and so does a subscribe for which there is a place (strong
fairness, as each attempt goes through an unsubscribe first, of which nothing is
assumed). The code repeats them without limit, so that nothing less than a broker
that answers some time lets a command or the callback end.

## 4. Proofs

| Theorem | States |
|---|---|
| `MqttClientProofs!TypeCorrect` | `Spec => []TypeOK` |
| `MqttClientProofs!NestingCorrect` | with one thread, `Spec => []ProperNesting` |
| `MqttClientProofs!SingleThreadAccounted` | with one thread, `Spec => []StateAccounted` |
| `MqttClientSafety!ConnectedSound` | with one thread, `Spec => []ConnectedMeansTls` |
| `MqttClientSafety!ContextSound` | with one thread and a handler that does not reconnect, `Spec => []ContextNotLeaked` |
| `MqttClientSafety!DelaySound` | with `ReconnectsByYield(y)`, `Spec => []MinimumDelay` |
| `MqttClientSafety!ExclusionSound` | with `SendsOnly(y, w)`, `Spec /\ ~autoReconnect => []MutualExclusion` |
| `MqttClientRefinement!ContractImplemented` | with one thread and a handler that does not reconnect, `Spec => ImplementsContract` |
| `SubscriptionsProofs!TypeCorrect` | `Spec => []TypeOK` |
| `SubscriptionsProofs!ActiveSound` | `Spec => []ActiveHasHandler` where callbacks do not subscribe |
| `SubscriptionsProofs!SendsSound` | `Spec => []SendsTopics` where answers are prompt and callbacks do not subscribe |
| `SubscriptionsProofs!SubscribedSound` | `Spec => []SubscribedUnlessFreed` |
| `SubscriptionsProofs!ConfirmedCounted` | `Spec => []ConfirmedAreCounted` |
| `SubscriptionsProofs!ConfirmedSound` | `Spec => []ConfirmedIsReceived` |
| `ReceiveLoopProofs!TypeCorrect` | `Spec => []TypeOK` |
| `ReceiveLoopProofs!ReadInside` | `Spec => []ReadInBuffer` |
| `ReceiveLoopProofs!StaysSynchronised` | `Spec => []Synchronised` |
| `ReceiveLoopProofs!DecodesLengths` | `Spec => []LengthDecoded` |
| `ReceiveLoopProofs!DeadPeerNoticed` | `Spec => []DeadPeerDetected` |
| `ReceiveLoopProofs!LivePeerSound` | `Spec => []LivePeerKept` |
| `ReceiveLoopProofs!HeardSound` | `Spec => []HeardInTime` |
| `ShadowRecordsProofs!TypeCorrect` | `Spec => []TypeOK` |
| `ShadowRecordsProofs!DeltasOrdered` | `Spec => []DeltasIncrease` |
| `ShadowRecordsProofs!NotifiesOnce` | `Spec => []NotifiedOnce` |
| `ShadowRecordsProofs!KeepsRecords` | `Spec => []RecordKept` |
| `ShadowListProofs!WaitingSound` | `Spec => []WaitingIsSubscribed` |
| `MeasurementProofs!TypeCorrect` | `Spec => []TypeOK` |
| `MeasurementProofs!AloneCorrect` | `Spec => []AloneReportsOwn` |
| `MeasurementProofs!RecordFound` | with `NumAcks * SleepTime >= UpdateTimeout`, `Spec => []UpdateFindsRecord` |
| `MeasurementProofs!FittingBuilt` | `Spec => []FittingDocumentBuilt` |

The theorems about the client hold for every set of threads (where "one thread"
is said: for every single thread), every choice of the calls that the
application and its callbacks make, every number of subscriptions and messages,
every depth, with or without thread support and reconnecting handlers, except
as their hypotheses say; the others for every set of environments, topics,
requests, commands and channels and every size of the tables. The only
assumptions are the named ones on the constants, which TLC evaluates in each
run, and the hypotheses in the table. Of the named ones, `ReaderAssumption` and
`ShadowAssumption` say that `None` is no value of the sets it is used beside, and
`EnvironmentsAssumption` what the fields of an environment are.

### The client

`StateAccounted` is not inductive: that the state belongs to a call now says
nothing about the state a call will restore later. `ProperNesting` strengthens
it to the whole stack: what each frame has saved is at rest or belongs to a
frame below it, what is about to be stored belongs to the frame itself or to
one below, frames that wait have nothing left to store, and a yield about to
return without giving a state back holds none. The proof follows the three ways
a stack changes. `MoveNested`, `PushNested` and `PopNested` state under which
conditions a stack stays nested when its top frame moves, when a frame is pushed
and when one is popped; one lemma per group of actions then checks these
conditions, with the claims of each function's program points stated once
(`RequestClaims`, `YieldClaims`, ...). With two threads the invariant is false,
as `viol_callback` shows, so the restriction to one thread is necessary.

`ConnectedMeansTls` and `ContextNotLeaked` follow from one
invariant, `Linked(t)`. It adds to the state and the context what each function
knows of them at each of its places (a connect about to finish has a context and
the state `CONNECTING`, a disconnect about to fail has not destroyed it yet,
`handle_disconnect` may be between the forced state and the drop) and what a
waiting call may restore: a request only a connected state, which is why a
callback that disconnects cannot make it restore one without a context. For
two threads it is false: the claim of an unsubscribe can fail then, and its
rollback reports SUCCESS (`viol_unsubscribe`). A handler that reconnects breaks
`ContextNotLeaked`, as `viol_handler` does; `ConnectedMeansTls` survives it.

`ImplementsContract` rests on `Linked(t)` and on `Tame(t)`, which says for each place
of the call at the top which state words it can see, given the call below it,
and that every call below waits for the function of the one above it
(`Awaits`). A callback may leave its caller any client at rest, or the word the
caller has stored, and nothing else (`Found`): a request, say, that finds its own
word when a callback returns is still the innermost operation, and one that
finds the client closed or connected anew has ended without a step of its own.
The contract's stack is a recursive function of the call stack, `OpsOf`. The
library's induction rules cannot be instantiated by the installed provers, but
the fact they rest on can: a set of natural numbers has a least element
(`LeastNumber`). With the set of depths at which a statement holds in place of the
statement, `Climb` gives the induction that shows that `OpsOf` satisfies its
recursion (`OpsUnfold`), has its type and gives no operation for a word that none
needs (`OpsTyped`), and ignores the calls above its depth (`OpsSame`). A step then
changes its last layers only (`OpsMoved`, `OpsCalled`, `OpsReturned`). Between two
stores of the state word the contract sees nothing, the end of a renewal, or the
begin of one (`QuietMove`, `QuietCall`, `QuietReturn` and the exceptions in
`GivesUp`, `RenewalBegins`, `LostAdvances`, `DisconnectReturns`); a store is the begin
or the end of the operation of the call at the top (`OpsBegin`, `OpsEnd`) or a
change of the link (`FreeStore`). The hypothesis on the handler is needed: one
that reconnects leaves `handle_disconnect` with a live connection that it then
takes for lost.

`MinimumDelay` needs no more than `Delayed(y)`: a delay is set, or the yield is
about to set it, or neither the state nor a saved or pending state asks for a
reconnect. `ReconnectsByYield(y)` leaves out manual attempts, which ask for one
without a delay, and second threads that yield, which could find the request for
a reconnect before the first has set the delay. `MutualExclusion` follows from
the exact relation of each thread's place to the state word and to the owner of
the mutex. `SendsOnly(y, w)` is the setting of `client_threads` for any number of
threads, with subscribe and unsubscribe among their requests. Every part of it excludes a behaviour that the model shows to break
exclusion: two unsubscribing threads (the same rollback), callbacks (others may
claim from `WAIT_FOR_CB_RETURN`), a disconnect or a reconnect behind a thread
that is inside a request, and a reconnecting yield that goes on unclaimed
(`yield.c:94`).

### Subscriptions

Each invariant says what the calls under way know of state they read before
their wait. `PlaceReserved`: the place a waiting subscribe has chosen is still
free, so that it overwrites no handler; a callback that subscribes chooses the
same one, hence the condition. `WalkSound` is about a resubscribe during whose
wait callbacks may unsubscribe and so free a place it has counted. As long as its
SUBSCRIBE or the SUBACK is in flight, the places it has counted are in use, no end
of a subscription is ahead of it in either direction (`SubscribeFirst`), and one
that is behind it belongs to an unsubscribe still under way. So when that
unsubscribe takes its UNSUBACK and frees the place, it has dropped the SUBACK
before, and the resubscribe waits for it in vain; and when the resubscribe takes
its SUBACK, nothing was freed. A timeout of the unsubscribe would leave its
UNSUBACK for the next, and a nested subscribe would take the SUBACK for its own:
hence the two conditions. `HeldInv`
(nothing unsubscribed, nothing refused): the table has no holes, and every
handler is with the broker, on its way to it, or still to be sent by the
resubscribe under way (`Pending`). `Numbered`: a message is sent once and
acknowledged at most once, and the publishes reported together with the
acknowledgements in flight are no more than the messages received; each PUBACK
is used up by the wait it ends, whichever that is. `Waited` (prompt answers, no
nested publish): what is in flight belongs to the outermost call.

### Framing

`Frames` describes the stream: each header is followed by the digits and the body
it announces, then by the next header, as far as a lost link leaves them.
`Placed` says where in that packet the reader is, also one that has slipped and
has found back to a header by luck: while it reads a length, the value read so
far plus the multiplier times what is still to come is the length encoded.
`InSync` adds, for a reader that has not slipped, that it took a header for one.
A peer sends lengths of at most four digits, as MQTT and
`MAX_NO_OF_REMAINING_LENGTH_BYTES` have it, so that the recursive function that
encodes them is unfolded four times and no induction is needed; a
multiplier that meets a digit other than 0 is at most the length itself, which
is below `SizeLimit`. With the length decoded, `ReadInside` computes where a body
ends; a piece that is dropped starts at the beginning of the buffer.

### Keep-alive and time

`TimeInv` has a part for each question. All of them speak of a connection that is
`Sound`: nothing was given up half-read, and no yield is about to report that.
The unit of the bounds is a `Turn`, a callback and the pause that follows when
the packet ends its yield; `Load(n)` is the time of `n` packets.

`PongInv` is about a live peer. An outstanding ping is in exactly one place: with
the peer, on its way back, or in hand (`PongOnce`), and no answer comes without a
ping, so that `keep_alive` cannot be satisfied by an answer to an older one.
`PongInTime` adds how old it may be in each place, in terms of `since` and of the
ping timer: no older than the peer's and the network's delays while bytes are
missing, and afterwards no older than leaves time for the packets in front of
the answer (`Before`) and for what the reader is at (`Work`). A ping is thus
outstanding for at most `AnswerTime`, and with a longer interval the timer cannot
expire first: `LivePeerKept`.

`HeardInv` bounds the silence while no ping is outstanding: `Within` says of a
clock and a timer running against each other that their sum stays below a
limit while the timer runs, and afterwards that the time until somebody looks
(`UntilCheck`) is still to be spent. It needs `Handled`, kept as `AllKnown`. The
silence is at most an interval, an answer and a round (`HeardBounded`), for every
interval; where the last two are at most half an interval, that is `HeardInTime`.

`DeadInv` does the same for a peer that has gone, for any packets. What had
arrived is finite: `Left` is the time it can still cost, the half packet at its
end included, `Delay` the time to the next look at the timer. The limit depends
on whether a ping is outstanding, since the timer has to expire once more for
that. An answer that had arrived starts the timer again; `DueInTime` says that
this happens early, before the backlog is worked off. Every step trades one of
these amounts for another or spends it; the proof has one lemma for each kind.
A connection is counted as slipped only when the yield that gave a packet up
has returned; `HeardDoomed` and `DeadDoomed` carry the bounds over that step.

### Shadow records

`DeltasIncrease` says nothing about the local version, which alone decides what
is new. `DeltaInv` adds that the version bounds every delta in the log
(`LogBelowVersion`); acknowledgements only raise it, and what lowers it or stops
the comparison clears the log.

`NotifiedOnce` and `RecordKept` share `OnceInv`, for callbacks that make no
request; of the conditions in `Orderly` no other is used. A request is the outermost call and
its slot stays free until its publish has succeeded (`RequestAlone`); records in
use have different tokens; a record whose owner was notified belongs to exactly
one call that is about to give it back (`BusyOwns`, `BusyDiffer`), and after an
answer no second one is on its way (`MessagesKnown`). An answer that races the
timer finds the record either free or still unnotified.

`WaitingIsSubscribed` rests on `ListInv`, under the conditions of `Orderly`. The
list is searched by topic, and free places keep their old topic: `Ranked` says
that the search finds the live place of a topic before any stale one, and
hence that there is one. `Served`: a place counts at least the requests that rely
on it (`Users`: those that wait, are about to be published, or were notified and
have not let go of it). The two topics of an action have equal counts and
flags (`Paired`) except while a request starts or one is halfway through its
release; `Starting` and `Halfway` say what holds then, and `Removable` that a call
which unsubscribes is the last user of its topic. A release that waits for the
broker is interrupted by nothing that adds a user, as callbacks make no request.

### Application

`AloneReportsOwn` looks at what was sent. `CommandInv` says why it is right: a
thread that is alone with `msg` owns it (the buffer is its own and no other
thread is between its assignment and its last publish), and at each place its
text is ready and its earlier messages are sent. Threads that start meanwhile
take away `alone` (`ReadKeeps`); steps of others then find the thread at rest
(`BusyKeeps`, `AtRestKeeps`).

`UpdateFindsRecord` rests on `WaitInv`: two updates that have not expired were made
at least one sleep apart (`Spaced`), after the sleep every one of them has waited
that long (`Rested`), and a yield frees the expired ones (`Freed`). Were the list
full after a yield, `NumAcks` disjoint stretches of a sleep each would lie
below the timeout, and end before it (`SpacedFit`, a pigeonhole argument on
cardinalities).

`FittingDocumentBuilt` rests on a lemma about the builders for every sequence of
fields (`DocumentFits`): while a document fits, each step leaves it complete and
with a limit that is at least what is left of the buffer (`Fits`), so that a limit
that was not measured again is too large and never too small. The
loop over the fields is followed by induction, with a set of positions as the
hypothesis (`Climb`). `DocumentInv` then says that the document of the last update
belongs to the value of "channels" that is still stored.

### Only model-checked

- Liveness (`EveryCallReturns`, `ReconnectSettles`, `EveryRequestNotified`,
  `EveryCommandEnds`, `ChannelsSettle`), which is beyond the prover.
- `DeliveredAsSubscribed`: that the walk of `IsTopicMatched` over the characters of
  a name and a filter agrees with a comparison of their levels. The walk is a
  recursive function of two positions (the prover has no arithmetic for functions
  of several arguments) over a text that is itself a fold over the levels; it has
  not been proved. `receive` compares the two on names and filters of a few levels.

## 5. Not modelled

Most of the repository's lines are third-party code under `external_libs`
(mbedTLS with its headers, and jsmn); mbedTLS alone is more than four fifths of
the C sources. It is used through the functions of the network wrapper and is
represented by their outcomes; to model its protocol and its arithmetic would
be a project of its own, about code that is not maintained here. The
project's own code is about 9300 lines in `src`, `include` and `platform`, and
the models are of that: the map covers about 3100 of these lines, most of the
control of the client, the shadow records and the application.

Of the project's own code, left out:

- the field layout of CONNECT, PUBLISH, SUBSCRIBE and their acknowledgements:
  straight-line byte copying without state;
- the parsing of received shadow documents (`aws_iot_json_utils.c`, jsmn tokens to
  C values) and the text of documents: string work;
- the token table of registered keys, several thing names, and
  `aws_iot_shadow_yield` inside a callback. `aws_iot_shadow_init` also leaves
  `mqttPacketTimeout_ms` unset (`shadow.c:63-79`), so that the packet timer of the
  shadow client starts with an arbitrary time; the modules let timers expire at
  any moment or use the main client's figure;
- the contents of memory after its owner has gone, beyond what `ShadowThread` and
  `Commands` say of it: a comparison with a channel name that was freed, and a
  command read from a frame that was reused, have any outcome. `Subscriptions` is
  about callers whose names stay valid. A callback's message in `readBuf`,
  overwritten by nested calls, is not followed, nor is what follows `readBuf` in
  memory;
- `insert`, `update`, `query` and `createDatabase` of `mysql.cpp`, which nobody
  calls, and the string and file helpers of `tool.cpp`.

## 6. Plan

Done: everything above. What would add most next:

1. several thing names and the key table in `ShadowRecords`;
2. lost connections with an incomplete resubscribe in `ShadowRecords`.
