------------------------------ MODULE ReceiveLoop ------------------------------
(***************************************************************************)
(* The loop that keeps a connection alive: the application yields, pauses  *)
(* and yields again; a yield reads packets, dispatches them and looks at   *)
(* the ping timer; a peer answers pings, sends packets, falls silent or    *)
(* closes the connection.  Time is counted in ticks and passes where the   *)
(* code waits: for bytes, in a callback, and between two yields.           *)
(***************************************************************************)
EXTENDS PacketReader, TopicFilter, FiniteSets

CONSTANTS
  YieldTime,     \* timeout_ms of a yield
  MaxPause,      \* bound: longest pause between two yields
  CallbackTime,  \* bound: longest time a callback takes
  PingDelay,     \* bound: time a live peer takes to answer a ping
  Environments   \* what the peer does, see env

ASSUME LoopAssumption ==
  /\ YieldTime \in Nat \ {0}
  /\ {MaxPause, CallbackTime, PingDelay} \subseteq Nat

\* A peer sends PINGRESP only as an answer, and lengths that MQTT can encode:
\* four digits.  The link fails by falling silent or by being closed.
ASSUME EnvironmentsAssumption ==
  \A e \in Environments :
    /\ e.types \subseteq Types \ {"PINGRESP"}
    /\ \A n \in e.lengths : n \in Nat /\ n < SizeLimit /\ n < Radix * Radix * Radix * Radix
    /\ e.faults \subseteq {"silent", "closed"} /\ e.clock \in BOOLEAN
    /\ {e.stall, e.wire, e.packets, e.keepAlive} \subseteq Nat

VARIABLES
  env,           \* types and lengths of the peer's packets; subjects: the name of a
                 \* message and the filters of the handler table, by levels;
                 \* faults: how the link may fail; clock: time passes;
                 \* stall: bound on the time that bytes are on their way;
                 \* keepAlive: keepAliveInterval; wire, packets: bounds on the
                 \* bytes and packets on their way when the peer sends a message
  connected,
  pingTimer, isPingOutstanding,
  pause,         \* ticks until the callback returns, or the next yield
  ping,          \* age of the ping the peer has not answered, or None
  stall,         \* how long bytes have been on their way
  since,         \* ticks since the peer last heard of the client; when the
                 \* link has failed, ticks since then
  slipped,       \* a packet of this connection was given up half-read
  last           \* the message delivered last: its subject, handlers called

loopVars == <<connected, pingTimer, isPingOutstanding, pause, ping, stall, since, slipped, last>>
peerVars == <<wire, arrived, link>>
vars == <<readVars, yieldTimer, peerVars, loopVars, env>>

\* The delays of one round of the loop.
Round == YieldTime + MaxPause + CallbackTime + PacketTimeout

-----------------------------------------------------------------------------
(* aws_iot_mqtt_internal_cycle_read: the packet is dispatched.             *)

Cycled(result) == pc' = "cycled" /\ rc' = result

\* What a misread PUBLISH holds does not parse, or is for no handler.
DispatchPublish ==
  /\ pc = "dispatch" /\ header = "PUBLISH"
  /\ \/ /\ genuine # None
        /\ pc' = "callback" /\ UNCHANGED rc
        /\ pause' \in 0..(IF env.clock THEN CallbackTime ELSE 0)
        /\ \E s \in env.subjects :
             LET table == [i \in DOMAIN s.table |-> Text(s.table[i])] IN
             last' = [subject |-> s, called |-> Matching(table, Text(s.name))]
     \/ /\ genuine = None
        /\ Cycled("FAILURE") \/ Cycled("SUCCESS")
        /\ UNCHANGED <<pause, last>>
  /\ UNCHANGED <<header, rem, mult, left, packetTimer, genuine, yieldTimer, peerVars, env,
                 connected, pingTimer, isPingOutstanding, ping, stall, since, slipped>>

\* Mutant: a message from the peer counts as the answer to a ping.
CallbackReturnsRestarts ==
  /\ pc = "callback" /\ pause = 0
  /\ Cycled("SUCCESS")
  /\ pingTimer' = env.keepAlive
  /\ last' = None
  /\ UNCHANGED <<header, rem, mult, left, packetTimer, genuine, yieldTimer, peerVars, env,
                 connected, isPingOutstanding, pause, ping, stall, since, slipped>>

\* The callbacks return; a QoS 1 message is acknowledged.
CallbackReturns ==
  /\ pc = "callback" /\ pause = 0
  /\ \/ Cycled("SUCCESS") /\ UNCHANGED since
     \/ Cycled("SUCCESS") /\ since' = IF link = "up" THEN 0 ELSE since
     \/ link = "closed" /\ Cycled("FAILURE") /\ UNCHANGED since
  /\ last' = None
  /\ UNCHANGED <<header, rem, mult, left, packetTimer, genuine, yieldTimer, peerVars, env,
                 connected, pingTimer, isPingOutstanding, pause, ping, stall, slipped>>

DispatchOther ==
  /\ pc = "dispatch"
  /\ \/ header = "SUBACK" /\ Cycled("SUCCESS") /\ UNCHANGED <<isPingOutstanding, pingTimer>>
     \/ /\ header = "PINGRESP" /\ Cycled("SUCCESS")
        /\ isPingOutstanding' = FALSE /\ pingTimer' = env.keepAlive
     \/ header = "other" /\ Cycled("INVALID") /\ UNCHANGED <<isPingOutstanding, pingTimer>>
  /\ UNCHANGED <<header, rem, mult, left, packetTimer, genuine, yieldTimer, peerVars, env,
                 connected, pause, ping, stall, since, slipped, last>>

-----------------------------------------------------------------------------
(* aws_iot_mqtt_internal_yield and its keep_alive.                         *)

Yield ==
  /\ pc = "sleep" /\ pause = 0
  /\ yieldTimer' = YieldTime
  /\ StartRead
  /\ UNCHANGED <<peerVars, env, loopVars>>

YieldReturns ==
  /\ pc' = "sleep"
  /\ pause' \in 0..(IF env.clock THEN MaxPause ELSE 0)
  /\ yieldTimer' = 0
  /\ Forget

\* The end of a turn of the loop.
LoopOn ==
  \/ yieldTimer = 0 /\ YieldReturns
  \/ yieldTimer > 0 /\ StartRead /\ UNCHANGED <<pause, yieldTimer>>

HandleDisconnect ==
  /\ connected' = FALSE
  /\ pc' = "down"
  /\ yieldTimer' = 0
  /\ Forget
  /\ UNCHANGED pause

\* No interval, no pings.
KeepAliveDue == env.keepAlive > 0 /\ pingTimer = 0

\* Mutant: a ping that was not answered is sent again.
KeepAliveAgain ==
  /\ pc = "cycled" /\ rc = "SUCCESS"
  /\ \/ /\ ~KeepAliveDue
        /\ LoopOn
        /\ UNCHANGED <<connected, pingTimer, isPingOutstanding, ping, since>>
     \/ /\ KeepAliveDue
        /\ isPingOutstanding' = TRUE /\ pingTimer' = env.keepAlive
        /\ ping' = IF link = "up" THEN 0 ELSE ping
        /\ since' = IF link = "up" THEN 0 ELSE since
        /\ LoopOn
        /\ UNCHANGED connected
  /\ UNCHANGED <<peerVars, env, stall, slipped, last>>

\* Mutant: the timer of a ping is not started.
KeepAliveHasty ==
  /\ pc = "cycled" /\ rc = "SUCCESS"
  /\ \/ /\ ~KeepAliveDue
        /\ LoopOn
        /\ UNCHANGED <<connected, pingTimer, isPingOutstanding, ping, since>>
     \/ /\ KeepAliveDue /\ isPingOutstanding
        /\ HandleDisconnect
        /\ UNCHANGED <<pingTimer, isPingOutstanding, ping, since>>
     \/ /\ KeepAliveDue /\ ~isPingOutstanding
        /\ isPingOutstanding' = TRUE
        /\ ping' = IF link = "up" THEN 0 ELSE ping
        /\ since' = IF link = "up" THEN 0 ELSE since
        /\ LoopOn
        /\ UNCHANGED <<connected, pingTimer>>
  /\ UNCHANGED <<peerVars, env, stall, slipped, last>>

\* cycle_read succeeded: keep_alive does nothing, gives the peer up, or sends
\* a ping, which a link that is closed may refuse.
KeepAliveCheck ==
  /\ pc = "cycled" /\ rc = "SUCCESS"
  /\ \/ /\ ~KeepAliveDue
        /\ LoopOn
        /\ UNCHANGED <<connected, pingTimer, isPingOutstanding, ping, since>>
     \/ /\ KeepAliveDue /\ isPingOutstanding
        /\ HandleDisconnect
        /\ UNCHANGED <<pingTimer, isPingOutstanding, ping, since>>
     \/ /\ KeepAliveDue /\ ~isPingOutstanding /\ link = "closed"
        /\ HandleDisconnect
        /\ UNCHANGED <<pingTimer, isPingOutstanding, ping, since>>
     \/ /\ KeepAliveDue /\ ~isPingOutstanding
        /\ isPingOutstanding' = TRUE /\ pingTimer' = env.keepAlive
        /\ ping' = IF link = "up" THEN 0 ELSE ping
        /\ since' = IF link = "up" THEN 0 ELSE since
        /\ LoopOn
        /\ UNCHANGED connected
  /\ UNCHANGED <<peerVars, env, stall, slipped, last>>

\* cycle_read failed: a read error ends the connection, any other error ends
\* the yield only.
CycleFailed ==
  /\ pc = "cycled" /\ rc # "SUCCESS"
  /\ \/ rc = "READ_ERROR" /\ HandleDisconnect /\ UNCHANGED slipped
     \/ /\ rc # "READ_ERROR" /\ YieldReturns /\ UNCHANGED connected
        /\ slipped' = (slipped \/ (packetTimer = 0 /\ (link = "up" \/ wire # <<>>)))
  /\ UNCHANGED <<peerVars, env, pingTimer, isPingOutstanding, ping, stall, since, last>>

\* The client has connected (again).
Reconnected ==
  /\ connected' = TRUE /\ isPingOutstanding' = FALSE /\ pingTimer' = env.keepAlive
  /\ wire' = <<>> /\ arrived' = 0 /\ link' = "up"
  /\ ping' = None /\ stall' = 0 /\ since' = 0 /\ slipped' = FALSE
  /\ pc' = "sleep" /\ pause' = 0

Reconnect ==
  /\ pc = "down"
  /\ Reconnected
  /\ UNCHANGED <<rc, header, rem, mult, left, packetTimer, genuine, yieldTimer, env, last>>

-----------------------------------------------------------------------------
(* The peer, the network and time.                                         *)

\* The packets on their way, by the places of their headers.
Headers == {i \in 1..Len(wire) : wire[i].kind = "header"}

PeerSends ==
  /\ link = "up" /\ connected /\ Cardinality(Headers) < env.packets
  /\ \E type \in env.types, n \in env.lengths :
       /\ Len(wire) + Len(Packet(type, n)) <= env.wire
       /\ wire' = wire \o Packet(type, n)
  /\ UNCHANGED <<readVars, yieldTimer, arrived, link, loopVars, env>>

PeerAnswersPing ==
  /\ link = "up" /\ ping # None
  /\ wire' = wire \o Packet("PINGRESP", 0)
  /\ ping' = None
  /\ UNCHANGED <<readVars, yieldTimer, arrived, link, env, connected, pingTimer,
                 isPingOutstanding, pause, stall, since, slipped, last>>

BytesArrive ==
  /\ arrived < Len(wire) /\ connected
  /\ arrived' \in (arrived + 1)..Len(wire)
  /\ stall' = IF arrived' = Len(wire) THEN 0 ELSE stall
  /\ UNCHANGED <<readVars, yieldTimer, wire, link, env, connected, pingTimer,
                 isPingOutstanding, pause, ping, since, slipped, last>>

\* What was on its way is lost.
LinkFails ==
  /\ link = "up" /\ connected
  /\ link' \in env.faults
  /\ wire' = SubSeq(wire, 1, arrived)
  /\ since' = 0 /\ stall' = 0
  /\ UNCHANGED <<readVars, yieldTimer, arrived, env, connected, pingTimer,
                 isPingOutstanding, pause, ping, slipped, last>>

Waiting ==
  \/ pc \in {"sleep", "callback"} /\ pause > 0
  \/ pc \in Reading /\ arrived = 0 /\ link # "closed" /\ Timer > 0

Down(timer) == IF timer = 0 THEN 0 ELSE timer - 1

\* A live peer answers, and its bytes arrive, before they are late.
Tick ==
  /\ env.clock /\ Waiting
  /\ link = "up" => /\ ping # None => ping < PingDelay
                    /\ arrived < Len(wire) => stall < env.stall
  /\ yieldTimer' = Down(yieldTimer)
  /\ packetTimer' = Down(packetTimer)
  /\ pingTimer' = Down(pingTimer)
  /\ pause' = Down(pause)
  /\ ping' = IF ping = None THEN None ELSE IF link = "up" THEN ping + 1 ELSE ping
  /\ stall' = IF link = "up" /\ arrived < Len(wire) THEN stall + 1 ELSE 0
  /\ since' = IF slipped \/ env.keepAlive = 0 THEN 0 ELSE since + 1
  /\ UNCHANGED <<pc, rc, header, rem, mult, left, genuine, peerVars, env, connected,
                 isPingOutstanding, slipped, last>>

Init ==
  /\ env \in Environments
  /\ pc = "sleep" /\ rc = "SUCCESS" /\ header = "other" /\ genuine = None
  /\ rem = 0 /\ mult = 1 /\ left = 0
  /\ yieldTimer = 0 /\ packetTimer = 0 /\ pause = 0
  /\ wire = <<>> /\ arrived = 0 /\ link = "up"
  /\ connected = TRUE /\ pingTimer = env.keepAlive /\ isPingOutstanding = FALSE
  /\ ping = None /\ stall = 0 /\ since = 0 /\ slipped = FALSE /\ last = None

Next ==
  \/ ReaderStep /\ UNCHANGED <<loopVars, env>>
  \/ DispatchPublish \/ CallbackReturns \/ DispatchOther
  \/ Yield \/ KeepAliveCheck \/ CycleFailed \/ Reconnect
  \/ PeerSends \/ PeerAnswersPing \/ BytesArrive \/ LinkFails \/ Tick

Spec == Init /\ [][Next]_vars

-----------------------------------------------------------------------------
(* Properties.                                                             *)

\* Types.  A single read asks for at most as many bytes as the buffer has;
\* where in the buffer they go is the matter of ReadInBuffer.
TypeOK ==
  /\ pc \in Reading \cup {"sleep", "dispatch", "callback", "cycled", "down"}
  /\ header \in Types /\ rem \in Nat /\ mult \in Nat
  /\ left \in 0..BufSize
  /\ yieldTimer \in 0..YieldTime /\ packetTimer \in 0..PacketTimeout
  /\ pingTimer \in 0..env.keepAlive /\ isPingOutstanding \in BOOLEAN
  /\ arrived \in 0..Len(wire) /\ link \in {"up", "silent", "closed"}
  /\ connected = (pc # "down") /\ slipped \in BOOLEAN

\* Unless a packet was given up half-read, the reader starts every packet at
\* its header: dropping a packet that does not fit, and giving up a header
\* that has not come, leave the stream where a packet begins.
Synchronised ==
  connected /\ ~slipped /\ pc \in {"sleep", "header", "dispatch", "callback"} /\ wire # <<>>
  => Head(wire).kind = "header"

\* The remaining length that is decoded is the one the peer encoded.
LengthDecoded ==
  genuine # None /\ pc \in {"body", "dispatch"} => rem = genuine

\* A packet that fits the buffer as a whole, and one whose remaining length
\* alone does not fit, are read or dropped inside the buffer.  (A packet in
\* between, with a remaining length of less than BufSize that only header and
\* length bytes take beyond it, passes the comparison of read_packet and is
\* stored past the end; for it nothing is claimed.)
ReadInBuffer ==
  /\ genuine # None /\ pc \in {"drain", "body"}
  /\ BodyStart(genuine) + genuine <= BufSize \/ genuine >= BufSize
  => ReadEnd <= BufSize

\* The time to work off the packets on their way and the one in hand, when
\* each takes a callback and ends its yield.
Backlog == (env.packets + 1) * (CallbackTime + MaxPause)

\* The time until a ping is answered and the answer is handled.
AnswerTime == PingDelay + env.stall + Backlog

\* The packets of the peer fit the buffer and are of types that cycle_read
\* handles; any other packet ends its yield before keep_alive is called.
Handled == env.types \subseteq {"PUBLISH", "SUBACK"} /\ \A n \in env.lengths : n < BufSize

\* A peer that has gone is noticed: the ping timer expires twice, each time up
\* to the delays of a round before it is looked at.  What had arrived is handled
\* as well, an answer to an earlier ping first; half a packet ends one more yield.
DeadPeerDetected ==
  env.keepAlive > 0 /\ connected /\ link # "up" /\ ~slipped
  => since <= 2 * (env.keepAlive + Round) + Backlog + CallbackTime + 2 * MaxPause

\* A peer that answers in time is not given up, when the interval leaves time
\* for the answer to be handled.
LivePeerKept ==
  env.keepAlive = 0 \/ env.keepAlive > AnswerTime
  => (~connected /\ ~slipped => link # "up")

\* The peer hears from the client within one and a half intervals, after which
\* it may give the client up, when half an interval leaves time for the answer
\* to a ping and for a round of the loop.
HeardInTime ==
  /\ Handled /\ env.keepAlive >= 2 * (AnswerTime + Round)
  /\ env.keepAlive > 0 /\ connected /\ link = "up" /\ ~slipped
  => 2 * since <= 3 * env.keepAlive

\* The handlers that are called for a message are the ones whose filter it
\* matches, for names and filters without empty levels.
DeliveredAsSubscribed ==
  last # None
  => last.called = {i \in DOMAIN last.subject.table :
                      LevelsMatch(last.subject.table[i], last.subject.name)}
=============================================================================
