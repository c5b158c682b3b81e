------------------------------ MODULE MqttClient ------------------------------
(***************************************************************************)
(* The MQTT client as the threads of an application drive it: the client   *)
(* state machine, the calls nested in each other (yield runs a message     *)
(* callback, the callback publishes, the publish runs another callback,    *)
(* ...), connection loss, manual and automatic reconnect.                  *)
(*                                                                         *)
(* Each thread has a call stack of frames; the frame at the top moves.  A  *)
(* step reads or writes the shared client at most once, so that steps of   *)
(* threads interleave where the C code can be preempted.  Packets, topics  *)
(* and timers are abstract: a read, a write, a handshake or a timer check  *)
(* has any of its outcomes.                                                *)
(***************************************************************************)
EXTENDS Naturals, ClientState

CONSTANTS
  Threads,            \* application threads that share the client
  NoThread,           \* "the state mutex is free"
  Calls,              \* Calls[t]: the API functions thread t calls
  CallbackCalls,      \* the API functions a message callback calls
  HandlerReconnects,  \* the disconnect handler attempts a manual reconnect
  ThreadSupport,      \* built with _ENABLE_THREAD_SUPPORT_
  BlockOnLock,        \* isBlockOnThreadLockEnabled
  Subscriptions,      \* number of subscriptions held before the client is lost
  MaxBackoff,         \* MAX_RECONNECT_WAIT / MIN_RECONNECT_WAIT
  MaxMessages,        \* bound: incoming PUBLISH packets
  MaxDepth            \* bound: call depth

ApiFns == Requests \cup
  {"yield", "connect", "disconnect", "attempt_reconnect", "set_autoreconnect"}

ASSUME ThreadsAssumption == NoThread \notin Threads
ASSUME CallsAssumption ==
  /\ Calls \in [Threads -> SUBSET ApiFns]
  /\ CallbackCalls \subseteq ApiFns \ {"set_autoreconnect"}
ASSUME FlagsAssumption ==
  /\ HandlerReconnects \in BOOLEAN
  /\ ThreadSupport \in BOOLEAN
  /\ BlockOnLock \in BOOLEAN
ASSUME BoundsAssumption ==
  /\ Subscriptions \in Nat
  /\ MaxBackoff \in Nat \ {0}
  /\ MaxMessages \in Nat
  /\ MaxDepth \in Nat \ {0}

VARIABLES
  clientState,      \* clientStatus.clientState
  mutex,            \* holder of state_change_mutex
  tlsUp,            \* networkStack holds an open TLS context
  pingOutstanding,  \* clientStatus.isPingOutstanding
  autoReconnect,    \* clientStatus.isAutoReconnectEnabled
  backoff,          \* currentReconnectWaitInterval / MIN_RECONNECT_WAIT
  inbox,            \* PUBLISH packets the broker may still send
  stack,            \* stack[t][d]: frame d of thread t
  depth,            \* depth[t]: number of frames of thread t
  ret               \* ret[t]: the return code register of thread t

state == <<clientState, mutex>>
env   == <<tlsUp, pingOutstanding, autoReconnect, backoff, inbox>>
ctl   == <<stack, depth, ret>>
vars  == <<state, env, ctl>>

Fns == (ApiFns \ {"set_autoreconnect"}) \cup
       {"deliver", "handle_disconnect", "none"}

Pcs == {"read", "claim", "rollback", "send", "wait", "finish", "done", "failed",
        "callback", "ack", "tls", "connack", "teardown", "fail", "manual",
        "undo", "check", "pend", "attempting", "resub", "loop", "cycle", "delivered",
        "keepalive", "until", "lost", "pending", "reconn", "unclaimed", "disc", "force",
        "drop", "handler", "settle"}

Rcs == {"SUCCESS", "FAILED", "DISCONNECTED", "ATTEMPTING", "RECONNECTED",
        "TIMED_OUT"}

\* saved: the local variable clientState of the C function;
\* pending: a state whose comparison succeeded and that is about to be stored;
\* acks: the acknowledgements the call has received.
Frames == [fn : Fns, pc : Pcs, saved : ClientStates,
           pending : ClientStates \cup {"NONE"}, acks : Nat]

NewFrame(fn) == [fn |-> fn, pc |-> "read", saved |-> "INVALID",
                 pending |-> "NONE", acks |-> 0]
NoFrame == NewFrame("none")

-----------------------------------------------------------------------------
(* Moving the frame at the top of a stack.                                 *)

Top(t) == stack[t][depth[t]]

At(t, fn, pc) ==
  /\ depth[t] > 0
  /\ Top(t).fn = fn
  /\ Top(t).pc = pc
  /\ Top(t).pending = "NONE"

Goto(t, pc) ==
  /\ stack' = [stack EXCEPT ![t][depth[t]].pc = pc]
  /\ UNCHANGED <<depth, ret>>

GotoRc(t, pc, rc) ==
  /\ stack' = [stack EXCEPT ![t][depth[t]].pc = pc]
  /\ ret' = [ret EXCEPT ![t] = rc]
  /\ UNCHANGED depth

SaveAndGoto(t, pc) ==
  /\ stack' = [stack EXCEPT ![t][depth[t]].pc = pc,
                            ![t][depth[t]].saved = clientState]
  /\ UNCHANGED <<depth, ret>>

\* Call fn from the frame at the top, which resumes at pc.
Enter(t, fn, pc) ==
  /\ depth[t] < MaxDepth
  /\ stack' = [stack EXCEPT ![t][depth[t]].pc = pc,
                            ![t][depth[t] + 1] = NewFrame(fn)]
  /\ depth' = [depth EXCEPT ![t] = @ + 1]
  /\ UNCHANGED ret

Leave(t, rc) ==
  /\ stack' = [stack EXCEPT ![t][depth[t]] = NoFrame]
  /\ depth' = [depth EXCEPT ![t] = @ - 1]
  /\ ret' = [ret EXCEPT ![t] = rc]

-----------------------------------------------------------------------------
(* aws_iot_mqtt_set_client_state.  The comparison takes the mutex (in the  *)
(* threaded build), the store releases it.  A comparison that fails gives  *)
(* the mutex back in the same step.  Without blocking locks the call fails *)
(* when another thread is inside the function.                             *)

InSetClientState(t) ==
  /\ depth[t] > 0
  /\ \/ Top(t).pending # "NONE"
     \/ Top(t).pc \in {"claim", "rollback", "finish", "fail", "pend"}
     \/ Top(t).pc = "lost" /\ autoReconnect
     \/ Top(t).pc = "reconn" /\ ret[t] = "RECONNECTED"

TrylockFails(t) ==
  /\ ThreadSupport /\ ~BlockOnLock
  /\ \E u \in Threads \ {t} : InSetClientState(u)

\* Mutant: the state is not compared.
SetClientStateBlindly(t, expected, new, ok, otherwise) ==
  /\ ThreadSupport => mutex = NoThread
  /\ stack' = [stack EXCEPT ![t][depth[t]].pc = ok,
                            ![t][depth[t]].pending = new]
  /\ mutex' = IF ThreadSupport THEN t ELSE mutex
  /\ UNCHANGED <<clientState, depth>>

SetClientState(t, expected, new, ok, otherwise) ==
  /\ \/ /\ ThreadSupport => mutex = NoThread
        /\ clientState = expected
        /\ stack' = [stack EXCEPT ![t][depth[t]].pc = ok,
                                  ![t][depth[t]].pending = new]
        /\ mutex' = IF ThreadSupport THEN t ELSE mutex
     \/ /\ \/ (ThreadSupport => mutex = NoThread) /\ clientState # expected
           \/ TrylockFails(t)
        /\ stack' = [stack EXCEPT ![t][depth[t]].pc = otherwise]
        /\ UNCHANGED mutex
  /\ UNCHANGED <<clientState, depth>>

\* Mutant: the state is stored although the comparison failed.
StoreUnchecked(t) ==
  /\ depth[t] > 0
  /\ clientState' = Top(t).pending
  /\ mutex' = IF ThreadSupport THEN NoThread ELSE mutex
  /\ stack' = [stack EXCEPT ![t][depth[t]].pending = "NONE"]
  /\ UNCHANGED <<depth, ret, env>>

StoreClientState(t) ==
  /\ depth[t] > 0
  /\ Top(t).pending # "NONE"
  /\ clientState' = Top(t).pending
  /\ mutex' = IF ThreadSupport THEN NoThread ELSE mutex
  /\ stack' = [stack EXCEPT ![t][depth[t]].pending = "NONE"]
  /\ UNCHANGED <<depth, ret, env>>

\* The last set_client_state of an operation: its failure is the call's result
\* only when the operation itself succeeded.
Failing(t) == IF ret[t] = "SUCCESS" THEN "failed" ELSE "done"

Return(t) ==
  /\ depth[t] > 0
  /\ Top(t).pending = "NONE"
  /\ \/ Top(t).pc = "done" /\ Leave(t, ret[t])
     \/ Top(t).pc = "failed" /\ Leave(t, "FAILED")
  /\ UNCHANGED <<state, env>>

-----------------------------------------------------------------------------
(* publish, subscribe, unsubscribe and resubscribe.                        *)

RequestRead(t) ==
  \E fn \in Requests :
    /\ At(t, fn, "read")
    /\ \/ clientState \in ClaimableFrom(fn) /\ SaveAndGoto(t, "claim")
       \/ /\ IsConnected(clientState)
          /\ clientState \notin ClaimableFrom(fn)
          /\ Leave(t, "FAILED")
       \/ ~IsConnected(clientState) /\ Leave(t, "DISCONNECTED")
    /\ UNCHANGED <<state, env>>

RequestClaim(t) ==
  \E fn \in Requests :
    /\ At(t, fn, "claim")
    /\ SetClientState(t, Top(t).saved, InProgress(fn), "send",
                      IF fn = "unsubscribe" THEN "rollback" ELSE "failed")
    /\ UNCHANGED <<ret, env>>

\* unsubscribe.c: a claim that failed is "undone", and the result of that
\* second set_client_state is what the caller gets.
UnsubscribeRollback(t) ==
  /\ At(t, "unsubscribe", "rollback")
  /\ SetClientState(t, InProgress("unsubscribe"), Top(t).saved, "done", "failed")
  /\ ret' = [ret EXCEPT ![t] = "SUCCESS"]
  /\ UNCHANGED env

\* Serialise and send the packet.  A publish of QoS 0 ends here; so does a
\* resubscribe that has no handler to send.
RequestSend(t) ==
  \E fn \in Requests :
    /\ At(t, fn, "send")
    /\ \/ /\ fn = "resubscribe" /\ Subscriptions = 0
          /\ GotoRc(t, "finish", "SUCCESS")
       \/ /\ fn = "resubscribe" => Subscriptions > 0
          /\ \/ GotoRc(t, "finish", "FAILED")
             \/ tlsUp /\ Goto(t, "wait")
             \/ tlsUp /\ fn = "publish" /\ GotoRc(t, "finish", "SUCCESS")
    /\ UNCHANGED <<state, env>>

\* wait_for_read: the acknowledgement arrives or the command timer expires;
\* read errors are retried until then.  A resubscribe goes on to its next
\* handler after an acknowledgement.
RequestWait(t) ==
  \E fn \in Requests :
    LET more == fn = "resubscribe" /\ Top(t).acks + 1 < Subscriptions IN
    /\ At(t, fn, "wait")
    /\ \/ GotoRc(t, "finish", "FAILED")
       \/ /\ tlsUp
          /\ stack' = [stack EXCEPT
                         ![t][depth[t]].pc = IF more THEN "send" ELSE "finish",
                         ![t][depth[t]].acks = @ + 1]
          /\ ret' = [ret EXCEPT ![t] = "SUCCESS"]
          /\ UNCHANGED depth
    /\ UNCHANGED <<state, env>>

RequestFinish(t) ==
  \E fn \in Requests :
    /\ At(t, fn, "finish")
    /\ SetClientState(t, InProgress(fn), Top(t).saved, "done", Failing(t))
    /\ UNCHANGED <<ret, env>>

-----------------------------------------------------------------------------
(* cycle_read: a PUBLISH runs deliver_message and, through it, the         *)
(* application's callbacks; a PINGRESP clears the outstanding ping.  Both  *)
(* happen in every wait for an acknowledgement and in every yield.         *)

AtRead(t) == (\E fn \in Requests : At(t, fn, "wait")) \/ At(t, "yield", "cycle")

ReadPublish(t) ==
  /\ AtRead(t) /\ tlsUp
  /\ Subscriptions > 0 /\ inbox > 0
  /\ inbox' = inbox - 1
  /\ Enter(t, "deliver", IF Top(t).fn = "yield" THEN "delivered" ELSE "wait")
  /\ UNCHANGED <<state, tlsUp, pingOutstanding, autoReconnect, backoff>>

ReadPingresp(t) ==
  /\ AtRead(t) /\ tlsUp
  /\ pingOutstanding
  /\ pingOutstanding' = FALSE
  /\ Goto(t, IF Top(t).fn = "yield" THEN "keepalive" ELSE "wait")
  /\ UNCHANGED <<state, tlsUp, autoReconnect, backoff, inbox>>

DeliverRead(t) ==
  /\ At(t, "deliver", "read")
  /\ SaveAndGoto(t, "claim")
  /\ UNCHANGED <<state, env>>

DeliverClaim(t) ==
  /\ At(t, "deliver", "claim")
  /\ SetClientState(t, Top(t).saved, "WAIT_FOR_CB_RETURN", "callback", "callback")
  /\ UNCHANGED <<ret, env>>

CallbackCall(t) ==
  /\ At(t, "deliver", "callback")
  /\ \E fn \in CallbackCalls : Enter(t, fn, "callback")
  /\ UNCHANGED <<state, env>>

CallbackReturn(t) ==
  /\ At(t, "deliver", "callback")
  /\ Goto(t, "finish")
  /\ UNCHANGED <<state, env>>

\* Mutant: the state before the callback is taken to be that of a yield.
DeliverFinishYield(t) ==
  /\ At(t, "deliver", "finish")
  /\ SetClientState(t, "WAIT_FOR_CB_RETURN", "YIELD_IN_PROGRESS", "ack", "failed")
  /\ UNCHANGED <<ret, env>>

DeliverFinish(t) ==
  /\ At(t, "deliver", "finish")
  /\ SetClientState(t, "WAIT_FOR_CB_RETURN", Top(t).saved, "ack", "failed")
  /\ UNCHANGED <<ret, env>>

\* A message of QoS 0 needs no PUBACK; sending one may fail.
HandlePublishAck(t) ==
  /\ At(t, "deliver", "ack")
  /\ \/ Leave(t, "SUCCESS")
     \/ Leave(t, "FAILED")
  /\ UNCHANGED <<state, env>>

-----------------------------------------------------------------------------
(* connect, disconnect and attempt_reconnect.                              *)

ConnectRead(t) ==
  /\ At(t, "connect", "read")
  /\ \/ ValidForConnect(clientState) /\ SaveAndGoto(t, "claim")
     \/ ~ValidForConnect(clientState) /\ Leave(t, "FAILED")
  /\ UNCHANGED <<state, env>>

\* The result of this set_client_state is ignored.
ConnectClaim(t) ==
  /\ At(t, "connect", "claim")
  /\ SetClientState(t, Top(t).saved, "CONNECTING", "tls", "tls")
  /\ UNCHANGED <<ret, env>>

ConnectTls(t) ==
  /\ At(t, "connect", "tls")
  /\ \/ tlsUp' = TRUE /\ Goto(t, "connack")
     \/ UNCHANGED tlsUp /\ Goto(t, "teardown")
  /\ UNCHANGED <<state, pingOutstanding, autoReconnect, backoff, inbox>>

\* Send CONNECT and wait for an accepting CONNACK.
ConnectConnack(t) ==
  /\ At(t, "connect", "connack")
  /\ \/ /\ tlsUp
        /\ pingOutstanding' = FALSE
        /\ GotoRc(t, "finish", "SUCCESS")
     \/ Goto(t, "teardown") /\ UNCHANGED pingOutstanding
  /\ UNCHANGED <<state, tlsUp, autoReconnect, backoff, inbox>>

ConnectTeardown(t) ==
  /\ At(t, "connect", "teardown")
  /\ tlsUp' = FALSE
  /\ GotoRc(t, "fail", "FAILED")
  /\ UNCHANGED <<state, pingOutstanding, autoReconnect, backoff, inbox>>

\* Mutant: a failed connect leaves the state alone.
ConnectFailSilently(t) ==
  /\ At(t, "connect", "fail")
  /\ Goto(t, "done")
  /\ UNCHANGED <<state, env>>

ConnectFail(t) ==
  /\ At(t, "connect", "fail")
  /\ SetClientState(t, "CONNECTING", "DISCONNECTED_ERROR", "done", "done")
  /\ UNCHANGED <<ret, env>>

ConnectFinish(t) ==
  /\ At(t, "connect", "finish")
  /\ SetClientState(t, "CONNECTING", "CONNECTED_IDLE", "done", "done")
  /\ UNCHANGED <<ret, env>>

DisconnectRead(t) ==
  /\ At(t, "disconnect", "read")
  /\ \/ IsConnected(clientState) /\ SaveAndGoto(t, "claim")
     \/ ~IsConnected(clientState) /\ Leave(t, "DISCONNECTED")
  /\ UNCHANGED <<state, env>>

DisconnectClaim(t) ==
  /\ At(t, "disconnect", "claim")
  /\ SetClientState(t, Top(t).saved, "DISCONNECTING", "send", "failed")
  /\ UNCHANGED <<ret, env>>

\* Once DISCONNECT is sent the network is closed; when it cannot be sent the
\* network stays as it is.
DisconnectSend(t) ==
  /\ At(t, "disconnect", "send")
  /\ \/ tlsUp /\ tlsUp' = FALSE /\ Goto(t, "manual")
     \/ UNCHANGED tlsUp /\ Goto(t, "undo")
  /\ UNCHANGED <<state, pingOutstanding, autoReconnect, backoff, inbox>>

\* Mutant: the state is put back although the network is closed.
DisconnectRestores(t) ==
  /\ At(t, "disconnect", "manual")
  /\ clientState' = Top(t).saved
  /\ Leave(t, "SUCCESS")
  /\ UNCHANGED <<mutex, env>>

\* Plain assignments, outside the mutex.
DisconnectManual(t) ==
  /\ At(t, "disconnect", "manual")
  /\ clientState' = "DISCONNECTED_MANUALLY"
  /\ Leave(t, "SUCCESS")
  /\ UNCHANGED <<mutex, env>>

\* Mutant: a failed disconnect does not restore the state.
DisconnectNoUndo(t) ==
  /\ At(t, "disconnect", "undo")
  /\ Leave(t, "FAILED")
  /\ UNCHANGED <<state, env>>

DisconnectUndo(t) ==
  /\ At(t, "disconnect", "undo")
  /\ clientState' = Top(t).saved
  /\ Leave(t, "FAILED")
  /\ UNCHANGED <<mutex, env>>

ReconnectRead(t) ==
  /\ At(t, "attempt_reconnect", "read")
  /\ \/ IsConnected(clientState) /\ Leave(t, "FAILED")
     \/ ~IsConnected(clientState) /\ Enter(t, "connect", "check")
  /\ UNCHANGED <<state, env>>

ReconnectCheck(t) ==
  /\ At(t, "attempt_reconnect", "check")
  /\ \/ clientState = "CONNECTED_IDLE" /\ Enter(t, "resubscribe", "resub")
     \/ clientState # "CONNECTED_IDLE" /\ Goto(t, "pend")
  /\ UNCHANGED <<state, env>>

ReconnectPend(t) ==
  /\ At(t, "attempt_reconnect", "pend")
  /\ SetClientState(t, "DISCONNECTED_ERROR", "PENDING_RECONNECT",
                    "attempting", "attempting")
  /\ UNCHANGED <<ret, env>>

ReconnectResult(t) ==
  /\ \/ At(t, "attempt_reconnect", "attempting") /\ Leave(t, "ATTEMPTING")
     \/ /\ At(t, "attempt_reconnect", "resub")
        /\ Leave(t, IF ret[t] = "SUCCESS" THEN "RECONNECTED" ELSE ret[t])
  /\ UNCHANGED <<state, env>>

-----------------------------------------------------------------------------
(* yield.  internal_yield's loop runs until the yield timer expires.       *)

YieldRead(t) ==
  /\ At(t, "yield", "read")
  /\ \/ clientState = "DISCONNECTED_MANUALLY" /\ Leave(t, "FAILED")
     \/ clientState = "PENDING_RECONNECT" /\ Goto(t, "loop")
     \/ /\ ~IsConnected(clientState)
        /\ clientState \notin {"DISCONNECTED_MANUALLY", "PENDING_RECONNECT"}
        /\ Leave(t, "DISCONNECTED")
     \/ clientState = "CONNECTED_IDLE" /\ Goto(t, "claim")
     \/ /\ IsConnected(clientState) /\ clientState # "CONNECTED_IDLE"
        /\ Leave(t, "FAILED")
  /\ UNCHANGED <<state, env>>

YieldClaim(t) ==
  /\ At(t, "yield", "claim")
  /\ SetClientState(t, "CONNECTED_IDLE", "YIELD_IN_PROGRESS", "loop", "failed")
  /\ UNCHANGED <<ret, env>>

\* handle_reconnect waits for its delay timer before it attempts a reconnect;
\* once the delay has outgrown the maximum there are no more attempts.
YieldLoop(t) ==
  /\ At(t, "yield", "loop")
  /\ \/ clientState # "PENDING_RECONNECT" /\ Goto(t, "cycle")
     \/ /\ clientState = "PENDING_RECONNECT" /\ backoff > MaxBackoff
        /\ GotoRc(t, "finish", "TIMED_OUT")
     \/ /\ clientState = "PENDING_RECONNECT" /\ backoff <= MaxBackoff
        /\ GotoRc(t, "until", "ATTEMPTING")
  /\ UNCHANGED <<state, env>>

HandleReconnect(t) ==
  /\ At(t, "yield", "loop")
  /\ clientState = "PENDING_RECONNECT" /\ backoff <= MaxBackoff
  /\ Enter(t, "attempt_reconnect", "reconn")
  /\ UNCHANGED <<state, env>>

\* cycle_read finds nothing (or a packet nobody waits for), an error of the
\* TLS layer, or a packet it cannot use.
YieldCycle(t) ==
  /\ At(t, "yield", "cycle")
  /\ \/ tlsUp /\ Goto(t, "keepalive")
     \/ tlsUp /\ GotoRc(t, "finish", "FAILED")
     \/ Enter(t, "handle_disconnect", "lost")
  /\ UNCHANGED <<state, env>>

\* Mutant: the yield goes on when the delivery of a message has failed.
YieldDeliveredAnyway(t) ==
  /\ At(t, "yield", "delivered")
  /\ Goto(t, "keepalive")
  /\ UNCHANGED <<state, env>>

YieldDelivered(t) ==
  /\ At(t, "yield", "delivered")
  /\ \/ ret[t] = "SUCCESS" /\ Goto(t, "keepalive")
     \/ ret[t] # "SUCCESS" /\ Goto(t, "finish")
  /\ UNCHANGED <<state, env>>

\* The ping timer has not expired; or it has, and a PINGREQ is sent unless the
\* previous one is unanswered.
KeepAlive(t) ==
  /\ At(t, "yield", "keepalive")
  /\ \/ GotoRc(t, "until", "SUCCESS") /\ UNCHANGED pingOutstanding
     \/ /\ ~pingOutstanding /\ tlsUp
        /\ pingOutstanding' = TRUE
        /\ GotoRc(t, "until", "SUCCESS")
     \/ Enter(t, "handle_disconnect", "lost") /\ UNCHANGED pingOutstanding
  /\ UNCHANGED <<state, tlsUp, autoReconnect, backoff, inbox>>

\* The connection is lost: the automatic reconnect starts, or yield returns.
YieldLost(t) ==
  /\ At(t, "yield", "lost")
  /\ \/ /\ autoReconnect
        /\ SetClientState(t, "DISCONNECTED_ERROR", "PENDING_RECONNECT",
                          "pending", "finish")
        /\ ret' = [ret EXCEPT ![t] = "FAILED"]
     \/ ~autoReconnect /\ Leave(t, "DISCONNECTED") /\ UNCHANGED state
  /\ UNCHANGED env

\* Mutant: the delay keeps its old value.
YieldPendingOldDelay(t) ==
  /\ At(t, "yield", "pending")
  /\ GotoRc(t, "until", "ATTEMPTING")
  /\ UNCHANGED <<state, env>>

YieldPending(t) ==
  /\ At(t, "yield", "pending")
  /\ backoff' = 1
  /\ GotoRc(t, "until", "ATTEMPTING")
  /\ UNCHANGED <<state, tlsUp, pingOutstanding, autoReconnect, inbox>>

\* attempt_reconnect has returned to handle_reconnect.
YieldReconnected(t) ==
  /\ At(t, "yield", "reconn")
  /\ ret[t] = "RECONNECTED"
  /\ SetClientState(t, "CONNECTED_IDLE", "YIELD_IN_PROGRESS", "until", "unclaimed")
  /\ UNCHANGED <<ret, env>>

YieldUnclaimed(t) ==
  /\ At(t, "yield", "unclaimed")
  /\ GotoRc(t, "until", "FAILED")
  /\ UNCHANGED <<state, env>>

\* Mutant: the delay is not doubled.
YieldSameDelay(t) ==
  /\ At(t, "yield", "reconn")
  /\ ret[t] # "RECONNECTED"
  /\ GotoRc(t, "until", ret[t])
  /\ UNCHANGED <<state, env>>

YieldNotReconnected(t) ==
  /\ At(t, "yield", "reconn")
  /\ ret[t] # "RECONNECTED"
  /\ backoff' = 2 * backoff
  /\ GotoRc(t, "until", IF backoff' > MaxBackoff THEN "TIMED_OUT" ELSE ret[t])
  /\ UNCHANGED <<state, tlsUp, pingOutstanding, autoReconnect, inbox>>

YieldAgain(t) ==
  /\ At(t, "yield", "until")
  /\ Goto(t, "loop")
  /\ UNCHANGED <<state, env>>

\* Mutant: the yield timer is started again by every turn of the loop.
YieldTimerRestarted(t) ==
  /\ At(t, "yield", "until")
  /\ Goto(t, "loop")
  /\ UNCHANGED <<state, env>>

YieldTimerExpired(t) ==
  /\ At(t, "yield", "until")
  /\ \/ ret[t] \in {"DISCONNECTED", "ATTEMPTING"} /\ Leave(t, ret[t])
     \/ ret[t] \notin {"DISCONNECTED", "ATTEMPTING"} /\ Goto(t, "finish")
  /\ UNCHANGED <<state, env>>

YieldFinish(t) ==
  /\ At(t, "yield", "finish")
  /\ SetClientState(t, "YIELD_IN_PROGRESS", "CONNECTED_IDLE", "done", Failing(t))
  /\ UNCHANGED <<ret, env>>

-----------------------------------------------------------------------------
(* handle_disconnect: disconnect, by force if need be, tell the            *)
(* application's disconnect handler, and call it an error.                 *)

LostDisconnect(t) ==
  /\ \/ At(t, "handle_disconnect", "read") /\ Enter(t, "disconnect", "disc")
     \/ /\ At(t, "handle_disconnect", "disc")
        /\ Goto(t, IF ret[t] = "SUCCESS" THEN "handler" ELSE "force")
  /\ UNCHANGED <<state, env>>

\* Mutant: the network is dropped and the state stays.
ForceKeepsState(t) ==
  /\ At(t, "handle_disconnect", "force")
  /\ Goto(t, "drop")
  /\ UNCHANGED <<state, env>>

ForceDisconnect(t) ==
  /\ At(t, "handle_disconnect", "force")
  /\ clientState' = "DISCONNECTED_ERROR"
  /\ Goto(t, "drop")
  /\ UNCHANGED <<mutex, env>>

\* Mutant: the network is not closed.
ForceKeepsNetwork(t) ==
  /\ At(t, "handle_disconnect", "drop")
  /\ Goto(t, "handler")
  /\ UNCHANGED <<state, env>>

ForceDrop(t) ==
  /\ At(t, "handle_disconnect", "drop")
  /\ tlsUp' = FALSE
  /\ Goto(t, "handler")
  /\ UNCHANGED <<state, pingOutstanding, autoReconnect, backoff, inbox>>

\* The handler of aws_iot_mqtt_measurement.cpp reconnects by itself unless
\* automatic reconnect is enabled.
DisconnectHandler(t) ==
  /\ At(t, "handle_disconnect", "handler")
  /\ \/ /\ HandlerReconnects /\ ~autoReconnect
        /\ Enter(t, "attempt_reconnect", "settle")
     \/ (~HandlerReconnects \/ autoReconnect) /\ Goto(t, "settle")
  /\ UNCHANGED <<state, env>>

LostSettle(t) ==
  /\ At(t, "handle_disconnect", "settle")
  /\ clientState' = "DISCONNECTED_ERROR"
  /\ Leave(t, "DISCONNECTED")
  /\ UNCHANGED <<mutex, env>>

-----------------------------------------------------------------------------
(* The application.                                                        *)

CallApi(t, fn) ==
  /\ depth[t] = 0
  /\ fn \in Calls[t] \ {"set_autoreconnect"}
  /\ stack' = [stack EXCEPT ![t][1] = NewFrame(fn)]
  /\ depth' = [depth EXCEPT ![t] = 1]
  /\ UNCHANGED <<state, env, ret>>

SetAutoreconnectStatus(t) ==
  /\ depth[t] = 0
  /\ "set_autoreconnect" \in Calls[t]
  /\ autoReconnect' = ~autoReconnect
  /\ UNCHANGED <<state, ctl, tlsUp, pingOutstanding, backoff, inbox>>

InitIn(s, up) ==
  /\ clientState = s
  /\ mutex = NoThread
  /\ tlsUp = up
  /\ pingOutstanding = FALSE
  /\ autoReconnect \in BOOLEAN
  /\ backoff = 0
  /\ inbox = MaxMessages
  /\ stack = [t \in Threads |-> [d \in 1..MaxDepth |-> NoFrame]]
  /\ depth = [t \in Threads |-> 0]
  /\ ret = [t \in Threads |-> "SUCCESS"]

\* aws_iot_mqtt_init
Init == InitIn("INITIALIZED", FALSE)

RequestStep(t) ==
  \/ RequestRead(t) \/ RequestClaim(t) \/ UnsubscribeRollback(t)
  \/ RequestSend(t) \/ RequestWait(t) \/ RequestFinish(t)

DeliverStep(t) ==
  \/ ReadPublish(t) \/ ReadPingresp(t) \/ DeliverRead(t) \/ DeliverClaim(t)
  \/ CallbackCall(t) \/ CallbackReturn(t) \/ DeliverFinish(t)
  \/ HandlePublishAck(t)

ConnectStep(t) ==
  \/ ConnectRead(t) \/ ConnectClaim(t) \/ ConnectTls(t) \/ ConnectConnack(t)
  \/ ConnectTeardown(t) \/ ConnectFail(t) \/ ConnectFinish(t)

DisconnectStep(t) ==
  \/ DisconnectRead(t) \/ DisconnectClaim(t) \/ DisconnectSend(t)
  \/ DisconnectManual(t) \/ DisconnectUndo(t)

ReconnectStep(t) ==
  \/ ReconnectRead(t) \/ ReconnectCheck(t) \/ ReconnectPend(t)
  \/ ReconnectResult(t)

YieldStep(t) ==
  \/ YieldRead(t) \/ YieldClaim(t) \/ YieldLoop(t) \/ HandleReconnect(t)
  \/ YieldCycle(t) \/ YieldDelivered(t) \/ KeepAlive(t) \/ YieldLost(t)
  \/ YieldPending(t) \/ YieldReconnected(t) \/ YieldUnclaimed(t) \/ YieldNotReconnected(t)
  \/ YieldAgain(t) \/ YieldTimerExpired(t) \/ YieldFinish(t)

LostStep(t) ==
  \/ LostDisconnect(t) \/ ForceDisconnect(t) \/ ForceDrop(t)
  \/ DisconnectHandler(t) \/ LostSettle(t)

\* The steps of a call under way.
CallStep(t) ==
  \/ StoreClientState(t) \/ Return(t)
  \/ RequestStep(t) \/ DeliverStep(t) \/ ConnectStep(t) \/ DisconnectStep(t)
  \/ ReconnectStep(t) \/ YieldStep(t) \/ LostStep(t)

Next ==
  \E t \in Threads :
    \/ CallStep(t)
    \/ \E fn \in ApiFns : CallApi(t, fn)
    \/ SetAutoreconnectStatus(t)

Spec == Init /\ [][Next]_vars

\* A call goes on as long as it can, timers expire (a yield cannot repeat its
\* loop for ever, nor put off a due reconnect attempt for ever), callbacks
\* return, and the main loop of the application calls yield again and again.
Fairness ==
  \A t \in Threads :
    /\ WF_vars(CallStep(t))
    /\ SF_vars(YieldTimerExpired(t))
    /\ SF_vars(CallbackReturn(t))
    /\ SF_vars(HandleReconnect(t))
    /\ SF_vars(CallApi(t, "yield"))

-----------------------------------------------------------------------------
(* Properties.                                                             *)

\* Types.  A frame stores a state only after its comparison has succeeded, and
\* no call chain outgrows the stack.
TypeOK ==
  /\ clientState \in ClientStates
  /\ mutex \in Threads \cup {NoThread}
  /\ tlsUp \in BOOLEAN
  /\ pingOutstanding \in BOOLEAN
  /\ autoReconnect \in BOOLEAN
  /\ backoff \in Nat
  /\ inbox \in 0..MaxMessages
  /\ stack \in [Threads -> [1..MaxDepth -> Frames]]
  /\ depth \in [Threads -> 0..MaxDepth]
  /\ ret \in [Threads -> Rcs]

\* The states a frame answers for: the client is in such a state because of
\* this call, and the call will take it out of the state again.
\* busy: a comparison has succeeded and the new state is not stored yet.
ClaimsAt(fn, pc, busy) ==
  CASE fn \in Requests ->
         IF pc \in {"send", "wait", "finish"} \/ (pc = "done" /\ busy)
         THEN {InProgress(fn)} ELSE {}
    [] fn = "deliver" ->
         IF pc \in {"callback", "finish"} \/ busy THEN {"WAIT_FOR_CB_RETURN"} ELSE {}
    [] fn = "connect" ->
         IF pc \in {"tls", "connack", "teardown", "fail", "finish"} \/ busy
         THEN {"CONNECTING"} ELSE {}
    [] fn = "disconnect" ->
         IF pc \in {"send", "manual", "undo"} THEN {"DISCONNECTING"} ELSE {}
    [] fn = "yield" ->
         IF \/ pc \in {"loop", "cycle", "delivered", "keepalive", "until", "finish"}
            \/ pc = "done" /\ busy
         THEN {"YIELD_IN_PROGRESS"} ELSE {}
    [] fn = "handle_disconnect" ->
         IF pc \in {"read", "disc", "force", "drop", "handler", "settle"}
         THEN {"YIELD_IN_PROGRESS"} ELSE {}
    [] OTHER -> {}

Claims(f) == ClaimsAt(f.fn, f.pc, f.pending # "NONE")

\* The client is never left in the middle of an operation: when its state says
\* that an operation, a callback or a (dis)connect is under way, some thread
\* is inside that very call and will finish it.  A client whose state nobody
\* answers for refuses every later publish, subscribe and yield.
StateAccounted ==
  \/ clientState \in RestingStates
  \/ \E t \in Threads : \E d \in 1..depth[t] : clientState \in Claims(stack[t][d])

\* State s is at rest or belongs to one of the first n calls of a stack.
Below(calls, s, n) ==
  s \in RestingStates \/ \E e \in 1..n : s \in Claims(calls[e])

\* The functions that keep the state they found in a local variable.
Savers == Requests \cup {"deliver", "connect", "disconnect"}

SavedIsBelow(calls, d) ==
  calls[d].fn \in Savers /\ calls[d].pc # "read" => Below(calls, calls[d].saved, d - 1)

PendingIsBelow(calls, d) ==
  calls[d].pending # "NONE"
  => \/ Below(calls, calls[d].pending, d - 1)
     \/ calls[d].pending \in ClaimsAt(calls[d].fn, calls[d].pc, FALSE)

LostYieldIsBelow(calls, d, s, rc) ==
  calls[d].fn = "yield" /\ calls[d].pc = "until" /\ rc \in {"DISCONNECTED", "ATTEMPTING"}
  => calls[d].pending = "NONE" /\ Below(calls, s, d - 1)

NestedStack(calls, n, s, rc) ==
  /\ Below(calls, s, n)
  /\ \A d \in 1..n : SavedIsBelow(calls, d)
  /\ \A d \in 1..(n - 1) : calls[d].pending = "NONE" /\ calls[d].pc # "until"
  /\ n > 0 => PendingIsBelow(calls, n) /\ LostYieldIsBelow(calls, n, s, rc)

\* Calls nest properly: the client state belongs to a call on the stack; a
\* state that a call has saved and will restore belongs to one of its callers;
\* a call that waits for another one has nothing left to store; a state about
\* to be stored belongs to the call that stores it or to a caller; and a yield
\* that is about to return without giving a state back does not hold one.
\* This is what StateAccounted rests on when one thread uses the client.
ProperNesting ==
  \A t \in Threads : NestedStack(stack[t], depth[t], clientState, ret[t])

\* A connected client has an open TLS context: no path takes the context away
\* and leaves the state behind, or restores a connected state afterwards.
ConnectedMeansTls == IsConnected(clientState) => tlsUp

\* The thread has claimed an operation and not given it up.
Operating(t) ==
  \E d \in 1..depth[t] :
    LET f == stack[t][d] IN
    /\ f.fn \in Requests \cup {"yield"}
    /\ Claims(f) # {}
    /\ ~(f.pc \in {"send", "loop"} /\ f.pending # "NONE")

\* What threads that share a client rest on, if the client does not reconnect
\* by itself.  (A yield that has reconnected automatically goes on although
\* another thread has claimed the client in the meantime: YieldUnclaimed.)
SharedAccounted == ~autoReconnect => StateAccounted

\* As ConnectedMeansTls, for threads that share a client.
SharedConnected == ~autoReconnect => ConnectedMeansTls

\* One operation at a time: no two threads are inside publish, subscribe,
\* unsubscribe, resubscribe or yield together (writeBuf, readBuf and the TLS
\* context are shared by all of them).
MutualExclusion ==
  ~autoReconnect => \A t, u \in Threads : Operating(t) /\ Operating(u) => t = u

\* A TLS context is set up only when the previous one has been destroyed:
\* iot_tls_connect initialises the mbedTLS structures anew and would leak the
\* session, its socket and its certificates.
ContextNotLeaked == \A t \in Threads : At(t, "connect", "tls") => ~tlsUp

\* A subscribe or unsubscribe reports success only after an acknowledgement of
\* its type has come while it waited.  (Packet identifiers are not compared, so
\* that it need not be the acknowledgement of this call.)
SuccessIsAcknowledged ==
  \A t \in Threads : \A fn \in {"subscribe", "unsubscribe"} :
    At(t, fn, "done") /\ ret[t] = "SUCCESS" => Top(t).acks > 0

\* A reconnect that the disconnect handler completed outlives the handler.
ManualReconnectSticks ==
  [][\A t \in Threads :
       At(t, "handle_disconnect", "settle") /\ ret[t] = "RECONNECTED"
         /\ IsConnected(clientState)
       => IsConnected(clientState')]_vars

\* The first automatic reconnect attempt waits for the minimum interval.
MinimumDelay ==
  \A t \in Threads :
    At(t, "attempt_reconnect", "read") /\ depth[t] > 1
      /\ stack[t][depth[t] - 1].pc = "reconn"
    => backoff >= 1

\* Every call of the client's API returns, whatever the network does and
\* however deep callbacks nest.
EveryCallReturns == \A t \in Threads : depth[t] > 0 ~> depth[t] = 0

\* A client that waits for its automatic reconnect is connected again after
\* finitely many attempts, or its delay has outgrown the maximum and it has
\* given up.
ReconnectSettles ==
  clientState = "PENDING_RECONNECT" /\ autoReconnect
  ~> (IsConnected(clientState) \/ backoff > MaxBackoff)
=============================================================================
