--------------------------- MODULE MqttClientProofs ---------------------------
(***************************************************************************)
(* Proofs about MqttClient for every set of threads, every set of calls,   *)
(* every depth of nesting and every value of the other constants: types,   *)
(* and that a client that one thread uses is never left in the middle of   *)
(* an operation.                                                           *)
(***************************************************************************)
EXTENDS MqttClient, TLAPS

CtlTyped ==
  /\ stack \in [Threads -> [1..MaxDepth -> Frames]]
  /\ depth \in [Threads -> 0..MaxDepth]
  /\ ret \in [Threads -> Rcs]

\* The primitives that move a stack preserve its type.
LEMMA NewFrameTyped ==
  ASSUME NEW fn \in Fns PROVE NewFrame(fn) \in Frames
BY DEF NewFrame, Frames, Pcs, ClientStates

LEMMA TopTyped ==
  ASSUME CtlTyped, NEW t \in Threads, depth[t] > 0
  PROVE  /\ depth[t] \in 1..MaxDepth
         /\ Top(t) \in Frames
BY BoundsAssumption DEF CtlTyped, Top

LEMMA PutTyped ==
  ASSUME CtlTyped, NEW t \in Threads, depth[t] > 0, NEW f \in Frames,
         stack' = [stack EXCEPT ![t][depth[t]] = f],
         depth' = depth, ret' \in [Threads -> Rcs]
  PROVE  CtlTyped'
BY TopTyped DEF CtlTyped

LEMMA GotoTyped ==
  ASSUME CtlTyped, NEW t \in Threads, depth[t] > 0, NEW pc \in Pcs, Goto(t, pc)
  PROVE  CtlTyped'
<1>1. Top(t) \in Frames BY TopTyped
<1>2. [Top(t) EXCEPT !.pc = pc] \in Frames BY <1>1 DEF Frames
<1>3. stack' = [stack EXCEPT ![t][depth[t]] = [Top(t) EXCEPT !.pc = pc]]
  BY TopTyped DEF Goto, Top, CtlTyped
<1> QED BY <1>2, <1>3, PutTyped DEF Goto, CtlTyped

LEMMA GotoRcTyped ==
  ASSUME CtlTyped, NEW t \in Threads, depth[t] > 0, NEW pc \in Pcs,
         NEW rc \in Rcs, GotoRc(t, pc, rc)
  PROVE  CtlTyped'
<1>1. Top(t) \in Frames BY TopTyped
<1>2. [Top(t) EXCEPT !.pc = pc] \in Frames BY <1>1 DEF Frames
<1>3. stack' = [stack EXCEPT ![t][depth[t]] = [Top(t) EXCEPT !.pc = pc]]
  BY TopTyped DEF GotoRc, Top, CtlTyped
<1> QED BY <1>2, <1>3, PutTyped DEF GotoRc, CtlTyped

LEMMA SaveTyped ==
  ASSUME CtlTyped, clientState \in ClientStates, NEW t \in Threads,
         depth[t] > 0, NEW pc \in Pcs, SaveAndGoto(t, pc)
  PROVE  CtlTyped'
<1> DEFINE f == [[Top(t) EXCEPT !.pc = pc] EXCEPT !.saved = clientState]
<1>1. Top(t) \in Frames BY TopTyped
<1>2. f \in Frames BY <1>1 DEF Frames
<1>3. stack' = [stack EXCEPT ![t][depth[t]] = f]
  BY TopTyped DEF SaveAndGoto, Top, CtlTyped
<1> QED BY <1>2, <1>3, PutTyped DEF SaveAndGoto, CtlTyped

LEMMA EnterTyped ==
  ASSUME CtlTyped, NEW t \in Threads, depth[t] > 0, NEW fn \in Fns,
         NEW pc \in Pcs, Enter(t, fn, pc)
  PROVE  CtlTyped'
<1> DEFINE f == [Top(t) EXCEPT !.pc = pc]
<1>1. Top(t) \in Frames BY TopTyped
<1>2. f \in Frames BY <1>1 DEF Frames
<1>3. NewFrame(fn) \in Frames BY NewFrameTyped
<1>4. depth[t] \in 1..MaxDepth /\ depth[t] + 1 \in 1..MaxDepth
  BY TopTyped, BoundsAssumption DEF Enter, CtlTyped
<1>5. stack' = [stack EXCEPT ![t] = [[stack[t] EXCEPT ![depth[t]] = f]
                                       EXCEPT ![depth[t] + 1] = NewFrame(fn)]]
  BY <1>4 DEF Enter, Top, CtlTyped
<1> HIDE DEF f
<1>6. stack' \in [Threads -> [1..MaxDepth -> Frames]]
  BY <1>2, <1>3, <1>4, <1>5 DEF CtlTyped
<1>7. depth' \in [Threads -> 0..MaxDepth] BY <1>4, BoundsAssumption DEF Enter, CtlTyped
<1> QED BY <1>6, <1>7 DEF Enter, CtlTyped

LEMMA LeaveTyped ==
  ASSUME CtlTyped, NEW t \in Threads, depth[t] > 0, NEW rc \in Rcs, Leave(t, rc)
  PROVE  CtlTyped'
<1>1. NoFrame \in Frames BY NewFrameTyped DEF NoFrame, Fns
<1>2. depth[t] \in 1..MaxDepth BY TopTyped
<1>3. stack' \in [Threads -> [1..MaxDepth -> Frames]]
  BY <1>1, <1>2 DEF Leave, CtlTyped
<1>4. depth' \in [Threads -> 0..MaxDepth]
  BY <1>2, BoundsAssumption DEF Leave, CtlTyped
<1> QED BY <1>3, <1>4 DEF Leave, CtlTyped

LEMMA SetClientStateTyped ==
  ASSUME CtlTyped, mutex \in Threads \cup {NoThread}, NEW t \in Threads,
         depth[t] > 0, NEW expected, NEW new \in ClientStates,
         NEW ok \in Pcs, NEW otherwise \in Pcs, ret' \in [Threads -> Rcs],
         SetClientState(t, expected, new, ok, otherwise)
  PROVE  CtlTyped' /\ clientState' = clientState /\ mutex' \in Threads \cup {NoThread}
<1> DEFINE f == [[Top(t) EXCEPT !.pc = ok] EXCEPT !.pending = new]
           g == [Top(t) EXCEPT !.pc = otherwise]
<1>1. Top(t) \in Frames BY TopTyped
<1>2. f \in Frames /\ g \in Frames BY <1>1 DEF Frames
<1>3. \/ stack' = [stack EXCEPT ![t][depth[t]] = f]
      \/ stack' = [stack EXCEPT ![t][depth[t]] = g]
  <2>1. CASE stack' = [stack EXCEPT ![t][depth[t]].pc = ok,
                                    ![t][depth[t]].pending = new]
    BY <2>1, TopTyped DEF Top, CtlTyped
  <2>2. CASE stack' = [stack EXCEPT ![t][depth[t]].pc = otherwise]
    BY <2>2, TopTyped DEF Top, CtlTyped
  <2> QED BY <2>1, <2>2 DEF SetClientState
<1>4. mutex' \in Threads \cup {NoThread} BY DEF SetClientState
<1>5. depth' = depth /\ clientState' = clientState BY DEF SetClientState
<1> HIDE DEF f, g
<1>6. CtlTyped'
  <2>1. CASE stack' = [stack EXCEPT ![t][depth[t]] = f] BY <1>2, <1>5, <2>1, PutTyped
  <2>2. CASE stack' = [stack EXCEPT ![t][depth[t]] = g] BY <1>2, <1>5, <2>2, PutTyped
  <2> QED BY <1>3, <2>1, <2>2
<1> QED BY <1>4, <1>5, <1>6

\* The parts of TypeOK besides the stacks.
EnvTyped ==
  /\ clientState \in ClientStates
  /\ mutex \in Threads \cup {NoThread}
  /\ tlsUp \in BOOLEAN
  /\ pingOutstanding \in BOOLEAN
  /\ autoReconnect \in BOOLEAN
  /\ backoff \in Nat
  /\ inbox \in 0..MaxMessages

LEMMA TypeSplit == TypeOK <=> EnvTyped /\ CtlTyped
BY DEF TypeOK, EnvTyped, CtlTyped

LEMMA StateNames ==
  /\ RestingStates \subseteq ClientStates
  /\ ConnectedStates \subseteq ClientStates
  /\ {"CONNECTING", "DISCONNECTING", "WAIT_FOR_CB_RETURN", "YIELD_IN_PROGRESS",
      "CONNECTED_IDLE", "PENDING_RECONNECT", "DISCONNECTED_ERROR",
      "DISCONNECTED_MANUALLY"} \subseteq ClientStates
  /\ \A fn \in Requests : InProgress(fn) \in ClientStates
BY DEF RestingStates, ConnectedStates, ClientStates, Requests, InProgress

\* A comparison of set_client_state, as a whole step.
LEMMA CasTyped ==
  ASSUME EnvTyped, CtlTyped, NEW t \in Threads, depth[t] > 0,
         NEW expected, NEW new \in ClientStates, NEW ok \in Pcs,
         NEW otherwise \in Pcs, ret' \in [Threads -> Rcs], UNCHANGED env,
         SetClientState(t, expected, new, ok, otherwise)
  PROVE  EnvTyped' /\ CtlTyped'
<1>1. CtlTyped' /\ clientState' = clientState /\ mutex' \in Threads \cup {NoThread}
  BY SetClientStateTyped DEF EnvTyped
<1> QED BY <1>1 DEF EnvTyped, env

LEMMA RequestTyped ==
  ASSUME EnvTyped, CtlTyped, NEW t \in Threads, RequestStep(t)
  PROVE  EnvTyped' /\ CtlTyped'
<1> USE DEF At
<1>1. CASE RequestRead(t)
  BY <1>1, SaveTyped, LeaveTyped DEF RequestRead, EnvTyped, state, env, Pcs, Rcs
<1>2. CASE RequestClaim(t)
  <2>1. PICK fn \in Requests :
          /\ At(t, fn, "claim")
          /\ SetClientState(t, Top(t).saved, InProgress(fn), "send",
                            IF fn = "unsubscribe" THEN "rollback" ELSE "failed")
    BY <1>2 DEF RequestClaim
  <2>2. InProgress(fn) \in ClientStates BY StateNames
  <2>3. ret' \in [Threads -> Rcs] /\ UNCHANGED env BY <1>2 DEF RequestClaim, CtlTyped
  <2> QED BY <2>1, <2>2, <2>3, CasTyped DEF Pcs
<1>3. CASE UnsubscribeRollback(t)
  <2>1. Top(t).saved \in ClientStates
    BY <1>3, TopTyped DEF UnsubscribeRollback, Frames
  <2>2. ret' \in [Threads -> Rcs] BY <1>3 DEF UnsubscribeRollback, CtlTyped, Rcs
  <2> QED BY <1>3, <2>1, <2>2, CasTyped DEF UnsubscribeRollback, Pcs
<1>4. CASE RequestSend(t)
  BY <1>4, GotoTyped, GotoRcTyped DEF RequestSend, EnvTyped, state, env, Pcs, Rcs
<1>5. CASE RequestWait(t)
  <2>1. CASE GotoRc(t, "finish", "FAILED")
    BY <1>5, <2>1, GotoRcTyped DEF RequestWait, EnvTyped, state, env, Pcs, Rcs
  <2>2. CASE ~GotoRc(t, "finish", "FAILED")
    <3>1. PICK pc \in {"send", "finish"} :
            stack' = [stack EXCEPT ![t][depth[t]].pc = pc,
                                   ![t][depth[t]].acks = @ + 1]
      BY <1>5, <2>2 DEF RequestWait
    <3> DEFINE n == Top(t).acks + 1
               f == [[Top(t) EXCEPT !.pc = pc] EXCEPT !.acks = n]
    <3>2. depth[t] > 0 BY <1>5 DEF RequestWait
    <3>3. Top(t) \in Frames BY <3>2, TopTyped
    <3>4. pc \in Pcs BY <3>1 DEF Pcs
    <3>5. f \in Frames
      <4>1. n \in Nat BY <3>3 DEF Frames
      <4> HIDE DEF n
      <4> QED BY <3>3, <3>4, <4>1 DEF Frames
    <3>6. stack' = [stack EXCEPT ![t][depth[t]] = f]
      BY <3>1, <3>2, TopTyped DEF Top, CtlTyped
    <3>7. depth' = depth /\ ret' \in [Threads -> Rcs]
      BY <1>5, <2>2 DEF RequestWait, CtlTyped, Rcs
    <3> HIDE DEF f
    <3>8. CtlTyped' BY <3>2, <3>5, <3>6, <3>7, PutTyped
    <3> QED BY <1>5, <3>8 DEF RequestWait, EnvTyped, state, env
  <2> QED BY <2>1, <2>2
<1>6. CASE RequestFinish(t)
  <2>1. PICK fn \in Requests :
          /\ At(t, fn, "finish")
          /\ SetClientState(t, InProgress(fn), Top(t).saved, "done", Failing(t))
    BY <1>6 DEF RequestFinish
  <2>2. Top(t).saved \in ClientStates BY <2>1, TopTyped DEF Frames
  <2>3. ret' \in [Threads -> Rcs] /\ UNCHANGED env BY <1>6 DEF RequestFinish, CtlTyped
  <2> QED BY <2>1, <2>2, <2>3, CasTyped DEF Pcs, Failing
<1> QED BY <1>1, <1>2, <1>3, <1>4, <1>5, <1>6 DEF RequestStep

LEMMA DeliverTyped ==
  ASSUME EnvTyped, CtlTyped, NEW t \in Threads, DeliverStep(t)
  PROVE  EnvTyped' /\ CtlTyped'
<1> USE DEF At
<1>1. CASE ReadPublish(t)
  BY <1>1, EnterTyped, BoundsAssumption
  DEF ReadPublish, AtRead, EnvTyped, state, Pcs, Fns
<1>2. CASE ReadPingresp(t)
  BY <1>2, GotoTyped DEF ReadPingresp, AtRead, EnvTyped, state, Pcs
<1>3. CASE DeliverRead(t)
  BY <1>3, SaveTyped DEF DeliverRead, EnvTyped, state, env, Pcs
<1>4. CASE DeliverClaim(t)
  <2>1. ret' \in [Threads -> Rcs] BY <1>4 DEF DeliverClaim, CtlTyped
  <2> QED BY <1>4, <2>1, CasTyped, StateNames DEF DeliverClaim, Pcs
<1>5. CASE CallbackCall(t)
  <2>1. PICK fn \in CallbackCalls : Enter(t, fn, "callback")
    BY <1>5 DEF CallbackCall
  <2>2. fn \in Fns BY CallsAssumption DEF Fns
  <2> QED BY <1>5, <2>1, <2>2, EnterTyped DEF CallbackCall, EnvTyped, state, env, Pcs
<1>6. CASE CallbackReturn(t)
  BY <1>6, GotoTyped DEF CallbackReturn, EnvTyped, state, env, Pcs
<1>7. CASE DeliverFinish(t)
  <2>1. Top(t).saved \in ClientStates BY <1>7, TopTyped DEF DeliverFinish, Frames
  <2>2. ret' \in [Threads -> Rcs] BY <1>7 DEF DeliverFinish, CtlTyped
  <2> QED BY <1>7, <2>1, <2>2, CasTyped DEF DeliverFinish, Pcs
<1>8. CASE HandlePublishAck(t)
  BY <1>8, LeaveTyped DEF HandlePublishAck, EnvTyped, state, env, Rcs
<1> QED BY <1>1, <1>2, <1>3, <1>4, <1>5, <1>6, <1>7, <1>8 DEF DeliverStep

LEMMA ConnectTyped ==
  ASSUME EnvTyped, CtlTyped, NEW t \in Threads, ConnectStep(t)
  PROVE  EnvTyped' /\ CtlTyped'
<1> USE DEF At
<1>1. CASE ConnectRead(t)
  BY <1>1, SaveTyped, LeaveTyped DEF ConnectRead, EnvTyped, state, env, Pcs, Rcs
<1>2. CASE ConnectClaim(t)
  <2>1. ret' \in [Threads -> Rcs] BY <1>2 DEF ConnectClaim, CtlTyped
  <2> QED BY <1>2, <2>1, CasTyped, StateNames DEF ConnectClaim, Pcs
<1>3. CASE ConnectTls(t)
  BY <1>3, GotoTyped DEF ConnectTls, EnvTyped, state, Pcs
<1>4. CASE ConnectConnack(t)
  BY <1>4, GotoTyped, GotoRcTyped DEF ConnectConnack, EnvTyped, state, Pcs, Rcs
<1>5. CASE ConnectTeardown(t)
  BY <1>5, GotoRcTyped DEF ConnectTeardown, EnvTyped, state, Pcs, Rcs
<1>6. CASE ConnectFail(t)
  <2>1. ret' \in [Threads -> Rcs] BY <1>6 DEF ConnectFail, CtlTyped
  <2> QED BY <1>6, <2>1, CasTyped, StateNames DEF ConnectFail, Pcs
<1>7. CASE ConnectFinish(t)
  <2>1. ret' \in [Threads -> Rcs] BY <1>7 DEF ConnectFinish, CtlTyped
  <2> QED BY <1>7, <2>1, CasTyped, StateNames DEF ConnectFinish, Pcs
<1> QED BY <1>1, <1>2, <1>3, <1>4, <1>5, <1>6, <1>7 DEF ConnectStep

LEMMA DisconnectTyped ==
  ASSUME EnvTyped, CtlTyped, NEW t \in Threads, DisconnectStep(t)
  PROVE  EnvTyped' /\ CtlTyped'
<1> USE DEF At
<1>1. CASE DisconnectRead(t)
  BY <1>1, SaveTyped, LeaveTyped DEF DisconnectRead, EnvTyped, state, env, Pcs, Rcs
<1>2. CASE DisconnectClaim(t)
  <2>1. ret' \in [Threads -> Rcs] BY <1>2 DEF DisconnectClaim, CtlTyped
  <2> QED BY <1>2, <2>1, CasTyped, StateNames DEF DisconnectClaim, Pcs
<1>3. CASE DisconnectSend(t)
  BY <1>3, GotoTyped DEF DisconnectSend, EnvTyped, state, Pcs
<1>4. CASE DisconnectManual(t)
  BY <1>4, LeaveTyped, StateNames DEF DisconnectManual, EnvTyped, env, Rcs
<1>5. CASE DisconnectUndo(t)
  <2>1. Top(t).saved \in ClientStates BY <1>5, TopTyped DEF DisconnectUndo, Frames
  <2> QED BY <1>5, <2>1, LeaveTyped DEF DisconnectUndo, EnvTyped, env, Rcs
<1> QED BY <1>1, <1>2, <1>3, <1>4, <1>5 DEF DisconnectStep

LEMMA ReconnectTyped ==
  ASSUME EnvTyped, CtlTyped, NEW t \in Threads, ReconnectStep(t)
  PROVE  EnvTyped' /\ CtlTyped'
<1> USE DEF At
<1>1. CASE ReconnectRead(t)
  BY <1>1, EnterTyped, LeaveTyped
  DEF ReconnectRead, EnvTyped, state, env, Pcs, Rcs, Fns, ApiFns
<1>2. CASE ReconnectCheck(t)
  BY <1>2, EnterTyped, GotoTyped
  DEF ReconnectCheck, EnvTyped, state, env, Pcs, Fns, ApiFns, Requests
<1>3. CASE ReconnectPend(t)
  <2>1. ret' \in [Threads -> Rcs] BY <1>3 DEF ReconnectPend, CtlTyped
  <2> QED BY <1>3, <2>1, CasTyped, StateNames DEF ReconnectPend, Pcs
<1>4. CASE ReconnectResult(t)
  <2>1. ret[t] \in Rcs BY DEF CtlTyped
  <2> QED BY <1>4, <2>1, LeaveTyped DEF ReconnectResult, EnvTyped, state, env, Rcs
<1> QED BY <1>1, <1>2, <1>3, <1>4 DEF ReconnectStep

LEMMA YieldTyped ==
  ASSUME EnvTyped, CtlTyped, NEW t \in Threads, YieldStep(t)
  PROVE  EnvTyped' /\ CtlTyped'
<1> USE DEF At
<1> ret[t] \in Rcs BY DEF CtlTyped
<1>1. CASE YieldRead(t)
  BY <1>1, GotoTyped, LeaveTyped DEF YieldRead, EnvTyped, state, env, Pcs, Rcs
<1>2. CASE YieldClaim(t)
  <2>1. ret' \in [Threads -> Rcs] BY <1>2 DEF YieldClaim, CtlTyped
  <2> QED BY <1>2, <2>1, CasTyped, StateNames DEF YieldClaim, Pcs
<1>3. CASE YieldLoop(t)
  BY <1>3, GotoTyped, GotoRcTyped DEF YieldLoop, EnvTyped, state, env, Pcs, Rcs
<1>4. CASE HandleReconnect(t)
  BY <1>4, EnterTyped DEF HandleReconnect, EnvTyped, state, env, Pcs, Fns, ApiFns
<1>5. CASE YieldCycle(t)
  BY <1>5, EnterTyped, GotoTyped, GotoRcTyped
  DEF YieldCycle, EnvTyped, state, env, Pcs, Rcs, Fns
<1>6. CASE YieldDelivered(t)
  BY <1>6, GotoTyped DEF YieldDelivered, EnvTyped, state, env, Pcs
<1>7. CASE KeepAlive(t)
  BY <1>7, EnterTyped, GotoRcTyped DEF KeepAlive, EnvTyped, state, Pcs, Rcs, Fns
<1>8. CASE YieldLost(t)
  <2>1. CASE ~autoReconnect
    BY <1>8, <2>1, LeaveTyped DEF YieldLost, EnvTyped, state, env, Rcs
  <2>2. CASE autoReconnect
    <3>1. ret' \in [Threads -> Rcs] BY <1>8, <2>2 DEF YieldLost, CtlTyped, Rcs
    <3> QED BY <1>8, <2>2, <3>1, CasTyped, StateNames DEF YieldLost, Pcs
  <2> QED BY <2>1, <2>2
<1>9. CASE YieldPending(t)
  BY <1>9, GotoRcTyped DEF YieldPending, EnvTyped, state, Pcs, Rcs
<1>10. CASE YieldReconnected(t)
  <2>1. ret' \in [Threads -> Rcs] BY <1>10 DEF YieldReconnected, CtlTyped
  <2> QED BY <1>10, <2>1, CasTyped, StateNames DEF YieldReconnected, Pcs
<1>11. CASE YieldUnclaimed(t)
  BY <1>11, GotoRcTyped DEF YieldUnclaimed, EnvTyped, state, env, Pcs, Rcs
<1>12. CASE YieldNotReconnected(t)
  <2>1. PICK rc \in Rcs : GotoRc(t, "until", rc)
    BY <1>12 DEF YieldNotReconnected, Rcs
  <2>2. CtlTyped' BY <1>12, <2>1, GotoRcTyped DEF YieldNotReconnected, Pcs
  <2>3. backoff' \in Nat BY <1>12 DEF YieldNotReconnected, EnvTyped
  <2> QED BY <1>12, <2>2, <2>3 DEF YieldNotReconnected, EnvTyped, state
<1>13. CASE YieldAgain(t)
  BY <1>13, GotoTyped DEF YieldAgain, EnvTyped, state, env, Pcs
<1>14. CASE YieldTimerExpired(t)
  BY <1>14, GotoTyped, LeaveTyped DEF YieldTimerExpired, EnvTyped, state, env, Pcs
<1>15. CASE YieldFinish(t)
  <2>1. ret' \in [Threads -> Rcs] BY <1>15 DEF YieldFinish, CtlTyped
  <2> QED BY <1>15, <2>1, CasTyped, StateNames DEF YieldFinish, Failing, Pcs
<1> QED BY <1>1, <1>2, <1>3, <1>4, <1>5, <1>6, <1>7, <1>8, <1>9, <1>10, <1>11,
           <1>12, <1>13, <1>14, <1>15 DEF YieldStep

LEMMA LostTyped ==
  ASSUME EnvTyped, CtlTyped, NEW t \in Threads, LostStep(t)
  PROVE  EnvTyped' /\ CtlTyped'
<1> USE DEF At
<1>1. CASE LostDisconnect(t)
  BY <1>1, EnterTyped, GotoTyped
  DEF LostDisconnect, EnvTyped, state, env, Pcs, Fns, ApiFns
<1>2. CASE ForceDisconnect(t)
  BY <1>2, GotoTyped, StateNames DEF ForceDisconnect, EnvTyped, env, Pcs
<1>3. CASE ForceDrop(t)
  BY <1>3, GotoTyped DEF ForceDrop, EnvTyped, state, Pcs
<1>4. CASE DisconnectHandler(t)
  BY <1>4, EnterTyped, GotoTyped
  DEF DisconnectHandler, EnvTyped, state, env, Pcs, Fns, ApiFns
<1>5. CASE LostSettle(t)
  BY <1>5, LeaveTyped, StateNames DEF LostSettle, EnvTyped, env, Rcs
<1> QED BY <1>1, <1>2, <1>3, <1>4, <1>5 DEF LostStep

LEMMA StoreTyped ==
  ASSUME EnvTyped, CtlTyped, NEW t \in Threads, StoreClientState(t)
  PROVE  EnvTyped' /\ CtlTyped'
<1> DEFINE f == [Top(t) EXCEPT !.pending = "NONE"]
<1>1. depth[t] > 0 BY DEF StoreClientState
<1>2. Top(t) \in Frames BY <1>1, TopTyped
<1>3. f \in Frames BY <1>2 DEF Frames
<1>4. stack' = [stack EXCEPT ![t][depth[t]] = f]
  BY <1>1, TopTyped DEF StoreClientState, Top, CtlTyped
<1>5. clientState' \in ClientStates BY <1>2 DEF StoreClientState, Frames
<1> HIDE DEF f
<1>6. CtlTyped' BY <1>1, <1>3, <1>4, PutTyped DEF StoreClientState, CtlTyped
<1> QED BY <1>5, <1>6 DEF StoreClientState, EnvTyped, env

LEMMA ReturnTyped ==
  ASSUME EnvTyped, CtlTyped, NEW t \in Threads, Return(t)
  PROVE  EnvTyped' /\ CtlTyped'
<1>1. ret[t] \in Rcs /\ "FAILED" \in Rcs BY DEF CtlTyped, Rcs
<1> QED BY <1>1, LeaveTyped DEF Return, EnvTyped, state, env

LEMMA AppTyped ==
  ASSUME EnvTyped, CtlTyped, NEW t \in Threads,
         (\E fn \in ApiFns : CallApi(t, fn)) \/ SetAutoreconnectStatus(t)
  PROVE  EnvTyped' /\ CtlTyped'
<1>1. ASSUME NEW fn \in ApiFns, CallApi(t, fn) PROVE EnvTyped' /\ CtlTyped'
  <2>1. fn \in Fns BY <1>1, CallsAssumption DEF CallApi, Fns
  <2>2. NewFrame(fn) \in Frames BY <2>1, NewFrameTyped
  <2>3. CtlTyped' BY <1>1, <2>2, BoundsAssumption DEF CallApi, CtlTyped
  <2> QED BY <1>1, <2>3 DEF CallApi, EnvTyped, state, env
<1>2. CASE SetAutoreconnectStatus(t)
  BY <1>2 DEF SetAutoreconnectStatus, EnvTyped, CtlTyped, state, ctl
<1> QED BY <1>1, <1>2

LEMMA TypeInit == Init => TypeOK
<1> SUFFICES ASSUME Init PROVE TypeOK OBVIOUS
<1>1. NoFrame \in Frames BY NewFrameTyped DEF NoFrame, Fns
<1>2. CtlTyped BY <1>1, BoundsAssumption DEF Init, InitIn, CtlTyped, Rcs
<1>3. clientState \in ClientStates BY DEF Init, InitIn, ClientStates
<1>4. backoff \in Nat /\ inbox \in 0..MaxMessages BY BoundsAssumption DEF Init, InitIn
<1>5. EnvTyped BY <1>3, <1>4, Zenon DEF Init, InitIn, EnvTyped
<1> QED BY <1>2, <1>5, TypeSplit

LEMMA TypeStep == TypeOK /\ [Next]_vars => TypeOK'
<1> SUFFICES ASSUME EnvTyped, CtlTyped, [Next]_vars PROVE EnvTyped' /\ CtlTyped'
  BY TypeSplit DEF TypeOK, EnvTyped, CtlTyped
<1>1. CASE UNCHANGED vars
  BY <1>1 DEF vars, state, env, ctl, EnvTyped, CtlTyped
<1>2. ASSUME NEW t \in Threads, CallStep(t) PROVE EnvTyped' /\ CtlTyped'
  BY <1>2, StoreTyped, ReturnTyped, RequestTyped, DeliverTyped, ConnectTyped,
     DisconnectTyped, ReconnectTyped, YieldTyped, LostTyped DEF CallStep
<1> QED BY <1>1, <1>2, AppTyped DEF Next

\* Type correctness: the client state is always one of the enumeration, call
\* depth and messages stay in their bounds, and every frame is well formed,
\* for any number of threads and any nesting of calls.
THEOREM TypeCorrect == Spec => []TypeOK
BY TypeInit, TypeStep, PTL DEF Spec

-----------------------------------------------------------------------------
(* A client that one thread uses is never left in the middle of an         *)
(* operation, however deep callbacks, yields, reconnects and disconnects   *)
(* nest: ProperNesting is inductive and implies StateAccounted.            *)
(*                                                                         *)
(* Three lemmas say what the calls on a stack must satisfy when the call   *)
(* at the top moves, returns or calls another function; each action of the *)
(* client is then one of the three.                                        *)


Stacks == [1..MaxDepth -> Frames]

LEMMA BelowMore ==
  ASSUME NEW calls, NEW s, NEW n \in Nat, NEW m \in Nat, n <= m, Below(calls, s, n)
  PROVE  Below(calls, s, m)
BY DEF Below

\* Calls above the first n do not matter.
LEMMA BelowSame ==
  ASSUME NEW calls, NEW other, NEW n \in Nat, NEW s,
         \A e \in 1..n : other[e] = calls[e]
  PROVE  Below(other, s, n) <=> Below(calls, s, n)
BY DEF Below

LEMMA SavedSame ==
  ASSUME NEW calls, NEW other, NEW n \in Nat,
         \A e \in 1..n : other[e] = calls[e],
         \A d \in 1..n : SavedIsBelow(calls, d)
  PROVE  \A d \in 1..n : SavedIsBelow(other, d)
<1> SUFFICES ASSUME NEW d \in 1..n PROVE SavedIsBelow(other, d) OBVIOUS
<1>1. d - 1 \in Nat /\ other[d] = calls[d] /\ \A e \in 1..(d - 1) : other[e] = calls[e]
  OBVIOUS
<1>2. Below(other, calls[d].saved, d - 1) <=> Below(calls, calls[d].saved, d - 1)
  BY <1>1, BelowSame
<1> QED BY <1>1, <1>2 DEF SavedIsBelow

\* The call at the top of the stack moves.
LEMMA MoveNested ==
  ASSUME NEW calls \in Stacks, NEW n \in 1..MaxDepth, NEW s, NEW rc,
         NestedStack(calls, n, s, rc), NEW f \in Frames, NEW s2, NEW rc2,
         f.fn \in Savers /\ f.pc # "read" => Below(calls, f.saved, n - 1),
         f.pending # "NONE" => \/ Below(calls, f.pending, n - 1)
                               \/ f.pending \in ClaimsAt(f.fn, f.pc, FALSE),
         s2 \in Claims(f) \/ Below(calls, s2, n - 1),
         f.fn = "yield" /\ f.pc = "until" /\ rc2 \in {"DISCONNECTED", "ATTEMPTING"}
           => f.pending = "NONE" /\ Below(calls, s2, n - 1)
  PROVE  NestedStack([calls EXCEPT ![n] = f], n, s2, rc2)
<1> DEFINE other == [calls EXCEPT ![n] = f]
<1>1. n \in Nat /\ n > 0 /\ n - 1 \in Nat BY BoundsAssumption
<1>2. other[n] = f /\ \A e \in 1..(n - 1) : other[e] = calls[e]
  BY <1>1, BoundsAssumption DEF Stacks
<1> HIDE DEF other
<1>3. ASSUME NEW x PROVE Below(other, x, n - 1) <=> Below(calls, x, n - 1)
  BY <1>1, <1>2, BelowSame
<1>4. Below(other, s2, n)
  <2>1. CASE s2 \in Claims(f) BY <1>1, <1>2, <2>1 DEF Below
  <2>2. CASE Below(calls, s2, n - 1) BY <1>1, <1>3, <2>2, BelowMore
  <2> QED BY <2>1, <2>2
<1>5. \A d \in 1..n : SavedIsBelow(other, d)
  <2>1. \A d \in 1..(n - 1) : SavedIsBelow(calls, d) BY <1>1 DEF NestedStack
  <2>2. \A d \in 1..(n - 1) : SavedIsBelow(other, d) BY <1>1, <1>2, <2>1, SavedSame
  <2>3. SavedIsBelow(other, n) BY <1>2, <1>3 DEF SavedIsBelow
  <2> QED BY <1>1, <2>2, <2>3
<1>6. \A d \in 1..(n - 1) : other[d].pending = "NONE" /\ other[d].pc # "until"
  BY <1>2 DEF NestedStack
<1>7. PendingIsBelow(other, n) BY <1>2, <1>3 DEF PendingIsBelow
<1>8. LostYieldIsBelow(other, n, s2, rc2) BY <1>2, <1>3 DEF LostYieldIsBelow
<1>9. NestedStack(other, n, s2, rc2) BY <1>4, <1>5, <1>6, <1>7, <1>8 DEF NestedStack
<1> QED BY <1>9 DEF other

\* The call at the top of the stack returns.
LEMMA PopNested ==
  ASSUME NEW calls \in Stacks, NEW n \in 1..MaxDepth, NEW s, NEW rc,
         NestedStack(calls, n, s, rc), NEW f, NEW s2, NEW rc2,
         Below(calls, s2, n - 1)
  PROVE  NestedStack([calls EXCEPT ![n] = f], n - 1, s2, rc2)
<1> DEFINE other == [calls EXCEPT ![n] = f]
<1>1. n \in Nat /\ n > 0 /\ n - 1 \in Nat BY BoundsAssumption
<1>2. \A e \in 1..(n - 1) : other[e] = calls[e]
  BY <1>1, BoundsAssumption DEF Stacks
<1> HIDE DEF other
<1>3. Below(other, s2, n - 1) BY <1>1, <1>2, BelowSame
<1>4. \A d \in 1..(n - 1) : SavedIsBelow(other, d)
  <2>1. \A d \in 1..(n - 1) : SavedIsBelow(calls, d) BY <1>1 DEF NestedStack
  <2> QED BY <1>1, <1>2, <2>1, SavedSame
<1>5. \A d \in 1..(n - 1) : other[d].pending = "NONE" /\ other[d].pc # "until"
  BY <1>2 DEF NestedStack
<1>6. n - 1 > 0 => n - 1 \in 1..(n - 1) BY <1>1
<1>7. n - 1 > 0 => PendingIsBelow(other, n - 1) BY <1>5, <1>6 DEF PendingIsBelow
<1>8. n - 1 > 0 => LostYieldIsBelow(other, n - 1, s2, rc2)
  BY <1>5, <1>6 DEF LostYieldIsBelow
<1>9. \A d \in 1..((n - 1) - 1) : other[d].pending = "NONE" /\ other[d].pc # "until"
  BY <1>1, <1>5
<1>10. NestedStack(other, n - 1, s2, rc2)
  BY <1>3, <1>4, <1>7, <1>8, <1>9 DEF NestedStack
<1> QED BY <1>10 DEF other

\* A function is called: frame n + 1 is new.
LEMMA PushNested ==
  ASSUME NEW calls \in Stacks, NEW n \in Nat, n + 1 \in 1..MaxDepth, NEW s, NEW rc,
         Below(calls, s, n) \/ s \in Claims(calls[n + 1]),
         \A d \in 1..n : SavedIsBelow(calls, d),
         \A d \in 1..n : calls[d].pending = "NONE" /\ calls[d].pc # "until",
         calls[n + 1].pc = "read", calls[n + 1].pending = "NONE"
  PROVE  NestedStack(calls, n + 1, s, rc)
<1>1. Below(calls, s, n + 1)
  <2>1. CASE Below(calls, s, n) BY <2>1, BelowMore
  <2>2. CASE s \in Claims(calls[n + 1]) BY <2>2 DEF Below
  <2> QED BY <2>1, <2>2
<1>2. SavedIsBelow(calls, n + 1) BY DEF SavedIsBelow
<1>3. \A d \in 1..(n + 1) : SavedIsBelow(calls, d) BY <1>2
<1>4. PendingIsBelow(calls, n + 1) BY DEF PendingIsBelow
<1>5. LostYieldIsBelow(calls, n + 1, s, rc) BY DEF LostYieldIsBelow
<1>6. (n + 1) - 1 = n OBVIOUS
<1> QED BY <1>1, <1>3, <1>4, <1>5, <1>6 DEF NestedStack

-----------------------------------------------------------------------------
(* The same for the steps of the client.                                   *)

Nested(t) == NestedStack(stack[t], depth[t], clientState, ret[t])

LEMMA StackTyped ==
  ASSUME CtlTyped, NEW t \in Threads
  PROVE  stack[t] \in Stacks /\ depth[t] \in 0..MaxDepth /\ ret[t] \in Rcs
BY DEF CtlTyped, Stacks

\* The state belongs to the call at the top or to one of its callers.
LEMMA TopBelow ==
  ASSUME CtlTyped, NEW t \in Threads, depth[t] > 0, Nested(t), Top(t).pending = "NONE"
  PROVE  \/ clientState \in ClaimsAt(Top(t).fn, Top(t).pc, FALSE)
         \/ Below(stack[t], clientState, depth[t] - 1)
<1>1. depth[t] \in Nat /\ depth[t] > 0 BY StackTyped, BoundsAssumption
<1>2. Below(stack[t], clientState, depth[t]) BY DEF Nested, NestedStack
<1>3. Claims(Top(t)) = ClaimsAt(Top(t).fn, Top(t).pc, FALSE) BY DEF Claims
<1>4. \A e \in 1..depth[t] : e = depth[t] \/ e \in 1..(depth[t] - 1) BY <1>1
<1> QED BY <1>2, <1>3, <1>4 DEF Below, Top

\* What the call at the top has saved belongs to one of its callers.
LEMMA TopSaved ==
  ASSUME CtlTyped, NEW t \in Threads, depth[t] > 0, Nested(t),
         Top(t).fn \in Savers, Top(t).pc # "read"
  PROVE  Below(stack[t], Top(t).saved, depth[t] - 1)
<1>1. depth[t] \in 1..depth[t] BY StackTyped, BoundsAssumption
<1> QED BY <1>1 DEF Nested, NestedStack, SavedIsBelow, Top

LEMMA GotoNested ==
  ASSUME CtlTyped, NEW t \in Threads, depth[t] > 0, Nested(t),
         Top(t).pending = "NONE", Top(t).fn \in Savers => Top(t).pc # "read",
         NEW pc \in Pcs, stack' = [stack EXCEPT ![t][depth[t]].pc = pc],
         depth' = depth,
         \/ clientState' \in ClaimsAt(Top(t).fn, pc, FALSE)
         \/ Below(stack[t], clientState', depth[t] - 1),
         Top(t).fn = "yield" /\ pc = "until" /\ ret'[t] \in {"DISCONNECTED", "ATTEMPTING"}
           => Below(stack[t], clientState', depth[t] - 1)
  PROVE  Nested(t)'
<1> DEFINE f == [Top(t) EXCEPT !.pc = pc]
<1>1. depth[t] \in 1..MaxDepth /\ Top(t) \in Frames BY TopTyped
<1>2. f \in Frames BY <1>1 DEF Frames
<1>3. f.fn = Top(t).fn /\ f.pc = pc /\ f.saved = Top(t).saved /\ f.pending = "NONE"
  BY <1>1 DEF Frames
<1>4. stack'[t] = [stack[t] EXCEPT ![depth[t]] = f] BY <1>1 DEF CtlTyped, Top
<1>5. Claims(f) = ClaimsAt(Top(t).fn, pc, FALSE) BY <1>3 DEF Claims
<1> HIDE DEF f
<1>6. f.fn \in Savers => Below(stack[t], f.saved, depth[t] - 1) BY <1>3, TopSaved
<1>7. NestedStack([stack[t] EXCEPT ![depth[t]] = f], depth[t], clientState', ret'[t])
  BY <1>1, <1>2, <1>3, <1>5, <1>6, StackTyped, MoveNested DEF Nested
<1> QED BY <1>4, <1>7 DEF Nested

LEMMA SaveNested ==
  ASSUME CtlTyped, clientState \in ClientStates, NEW t \in Threads, depth[t] > 0,
         Nested(t), Top(t).pending = "NONE", Top(t).fn \in Savers,
         Top(t).pc = "read", SaveAndGoto(t, "claim"), UNCHANGED clientState
  PROVE  Nested(t)'
<1> DEFINE f == [[Top(t) EXCEPT !.pc = "claim"] EXCEPT !.saved = clientState]
<1>1. depth[t] \in 1..MaxDepth /\ Top(t) \in Frames BY TopTyped
<1>2. f \in Frames BY <1>1 DEF Frames, Pcs
<1>3. f.fn = Top(t).fn /\ f.pc = "claim" /\ f.saved = clientState /\ f.pending = "NONE"
  BY <1>1 DEF Frames
<1>4. stack'[t] = [stack[t] EXCEPT ![depth[t]] = f] BY <1>1 DEF SaveAndGoto, CtlTyped, Top
<1> HIDE DEF f
<1>5. Below(stack[t], clientState, depth[t] - 1)
  BY TopBelow DEF ClaimsAt, Savers, Requests
<1>6. NestedStack([stack[t] EXCEPT ![depth[t]] = f], depth[t], clientState, ret'[t])
  BY <1>1, <1>2, <1>3, <1>5, StackTyped, MoveNested DEF Nested
<1> QED BY <1>4, <1>6 DEF Nested, SaveAndGoto

LEMMA LeaveNested ==
  ASSUME CtlTyped, NEW t \in Threads, depth[t] > 0, Nested(t), NEW rc, Leave(t, rc),
         Below(stack[t], clientState', depth[t] - 1)
  PROVE  Nested(t)'
<1>1. depth[t] \in 1..MaxDepth BY TopTyped
<1>2. stack'[t] = [stack[t] EXCEPT ![depth[t]] = NoFrame] /\ depth'[t] = depth[t] - 1
  BY DEF Leave, CtlTyped
<1>3. NestedStack([stack[t] EXCEPT ![depth[t]] = NoFrame], depth[t] - 1, clientState', ret'[t])
  BY <1>1, StackTyped, PopNested DEF Nested
<1> QED BY <1>2, <1>3 DEF Nested

LEMMA EnterNested ==
  ASSUME CtlTyped, NEW t \in Threads, depth[t] > 0, Nested(t),
         Top(t).pending = "NONE", Top(t).fn \in Savers => Top(t).pc # "read",
         NEW fn \in Fns, NEW pc \in Pcs, pc # "until", Enter(t, fn, pc),
         UNCHANGED clientState,
         \/ clientState \in ClaimsAt(Top(t).fn, pc, FALSE)
         \/ clientState \in ClaimsAt(fn, "read", FALSE)
         \/ Below(stack[t], clientState, depth[t] - 1)
  PROVE  Nested(t)'
<1> DEFINE n == depth[t]
           f == [Top(t) EXCEPT !.pc = pc]
           calls == [stack[t] EXCEPT ![n] = f]
           other == [calls EXCEPT ![n + 1] = NewFrame(fn)]
<1>1. n \in 1..MaxDepth /\ n + 1 \in 1..MaxDepth /\ n \in Nat /\ Top(t) \in Frames
  BY TopTyped, BoundsAssumption DEF Enter
<1>2. f \in Frames BY <1>1 DEF Frames
<1>3. f.fn = Top(t).fn /\ f.pc = pc /\ f.saved = Top(t).saved /\ f.pending = "NONE"
  BY <1>1 DEF Frames
<1>4. stack'[t] = other /\ depth'[t] = n + 1 BY <1>1 DEF Enter, CtlTyped, Top
<1>5. Claims(f) = ClaimsAt(Top(t).fn, pc, FALSE) BY <1>3 DEF Claims
<1>6. NewFrame(fn) \in Frames BY NewFrameTyped
<1>7. Claims(NewFrame(fn)) = ClaimsAt(fn, "read", FALSE) BY DEF Claims, NewFrame
<1> HIDE DEF n, f
<1>8. calls \in Stacks /\ other \in Stacks BY <1>1, <1>2, <1>6, StackTyped DEF Stacks
<1>9. /\ \A e \in 1..(n - 1) : other[e] = stack[t][e]
      /\ other[n] = f /\ other[n + 1] = NewFrame(fn)
  <2>1. stack[t] \in Stacks BY StackTyped
  <2>2. /\ \A e \in 1..(n - 1) : calls[e] = stack[t][e]
        /\ calls[n] = f
    <3>1. \A e \in 1..(n - 1) : e \in 1..MaxDepth /\ e # n BY <1>1, BoundsAssumption
    <3>2. DOMAIN stack[t] = 1..MaxDepth BY <2>1 DEF Stacks
    <3> QED BY <1>1, <3>1, <3>2, Zenon
  <2> HIDE DEF calls
  <2>3. \A e \in 1..n : e \in 1..MaxDepth /\ e # n + 1 BY <1>1, BoundsAssumption
  <2>4. \A e \in 1..n : other[e] = calls[e] BY <1>8, <2>3 DEF Stacks
  <2>5. other[n + 1] = NewFrame(fn) BY <1>1, <1>8 DEF Stacks
  <2> QED BY <1>1, <2>2, <2>4, <2>5
<1> HIDE DEF calls, other
<1>10. NestedStack(stack[t], n, clientState, ret[t]) BY DEF Nested, n
<1>11. ASSUME NEW x PROVE Below(other, x, n - 1) <=> Below(stack[t], x, n - 1)
  BY <1>1, <1>9, BelowSame
<1>12. \A d \in 1..n : SavedIsBelow(other, d)
  <2>1. \A d \in 1..(n - 1) : SavedIsBelow(stack[t], d) BY <1>1, <1>10 DEF NestedStack
  <2>2. \A d \in 1..(n - 1) : SavedIsBelow(other, d)
    BY <1>1, <1>9, <2>1, SavedSame
  <2>3. f.fn \in Savers => Below(stack[t], f.saved, n - 1) BY <1>3, TopSaved DEF n
  <2>4. SavedIsBelow(other, n) BY <1>9, <1>11, <2>3 DEF SavedIsBelow
  <2> QED BY <1>1, <2>2, <2>4
<1>13. \A d \in 1..n : other[d].pending = "NONE" /\ other[d].pc # "until"
  <2>1. \A d \in 1..(n - 1) : other[d].pending = "NONE" /\ other[d].pc # "until"
    BY <1>9, <1>10 DEF NestedStack
  <2>2. \A d \in 1..n : d = n \/ d \in 1..(n - 1) BY <1>1
  <2>3. other[n].pending = "NONE" /\ other[n].pc # "until" BY <1>3, <1>9
  <2> QED BY <2>1, <2>2, <2>3
<1>14. Below(other, clientState, n) \/ clientState \in Claims(other[n + 1])
  <2>1. CASE clientState \in ClaimsAt(Top(t).fn, pc, FALSE)
    <3>1. n \in 1..n BY <1>1
    <3>2. clientState \in Claims(other[n]) BY <1>5, <1>9, <2>1
    <3> QED BY <3>1, <3>2 DEF Below
  <2>2. CASE clientState \in ClaimsAt(fn, "read", FALSE) BY <1>7, <1>9, <2>2
  <2>3. CASE Below(stack[t], clientState, n - 1) BY <1>1, <1>11, <2>3, BelowMore
  <2> QED BY <2>1, <2>2, <2>3 DEF n
<1>15. other[n + 1].pc = "read" /\ other[n + 1].pending = "NONE" BY <1>9 DEF NewFrame
<1>16. NestedStack(other, n + 1, clientState, ret'[t])
  BY <1>1, <1>8, <1>12, <1>13, <1>14, <1>15, PushNested
<1> QED BY <1>4, <1>16 DEF Nested

\* set_client_state when no other thread can hold the lock.
LEMMA CasNested ==
  ASSUME CtlTyped, NEW t \in Threads, Threads = {t}, depth[t] > 0, Nested(t),
         Top(t).pending = "NONE", Top(t).fn \in Savers => Top(t).pc # "read",
         NEW expected, NEW new \in ClientStates, NEW ok \in Pcs, NEW otherwise \in Pcs,
         SetClientState(t, expected, new, ok, otherwise),
         new \in ClaimsAt(Top(t).fn, ok, FALSE) \/ Below(stack[t], new, depth[t] - 1),
         clientState = expected =>
           \/ clientState \in ClaimsAt(Top(t).fn, ok, TRUE)
           \/ Below(stack[t], clientState, depth[t] - 1),
         ok = "until" => ret'[t] \notin {"DISCONNECTED", "ATTEMPTING"},
         clientState # expected =>
           \/ clientState \in ClaimsAt(Top(t).fn, otherwise, FALSE)
           \/ Below(stack[t], clientState, depth[t] - 1),
         otherwise # "until"
  PROVE  Nested(t)'
<1>1. depth[t] \in 1..MaxDepth /\ Top(t) \in Frames BY TopTyped
<1>2. UNCHANGED <<clientState, depth>> BY DEF SetClientState
<1>3. CASE /\ clientState = expected
           /\ stack' = [stack EXCEPT ![t][depth[t]].pc = ok,
                                     ![t][depth[t]].pending = new]
  <2> DEFINE f == [[Top(t) EXCEPT !.pc = ok] EXCEPT !.pending = new]
  <2>1. f \in Frames BY <1>1 DEF Frames
  <2>2. f.fn = Top(t).fn /\ f.pc = ok /\ f.saved = Top(t).saved /\ f.pending = new
    BY <1>1 DEF Frames
  <2>3. stack'[t] = [stack[t] EXCEPT ![depth[t]] = f] BY <1>1, <1>3 DEF CtlTyped, Top
  <2> HIDE DEF f
  <2>4. new # "NONE" BY DEF ClientStates, ConnectedStates
  <2>5. Claims(f) = ClaimsAt(Top(t).fn, ok, TRUE) BY <2>2, <2>4 DEF Claims
  <2>6. f.fn \in Savers => Below(stack[t], f.saved, depth[t] - 1) BY <2>2, TopSaved
  <2>7. NestedStack([stack[t] EXCEPT ![depth[t]] = f], depth[t], clientState, ret'[t])
    BY <1>1, <1>3, <2>1, <2>2, <2>5, <2>6, StackTyped, MoveNested DEF Nested
  <2> QED BY <1>2, <2>3, <2>7 DEF Nested
<1>4. CASE /\ clientState # expected
           /\ stack' = [stack EXCEPT ![t][depth[t]].pc = otherwise]
  BY <1>2, <1>4, GotoNested
<1>5. ~TrylockFails(t) BY DEF TrylockFails
<1> QED BY <1>3, <1>4, <1>5 DEF SetClientState

LEMMA StoreNested ==
  ASSUME CtlTyped, NEW t \in Threads, Nested(t), StoreClientState(t)
  PROVE  Nested(t)'
<1> DEFINE f == [Top(t) EXCEPT !.pending = "NONE"]
<1>1. depth[t] > 0 /\ Top(t).pending # "NONE" BY DEF StoreClientState
<1>2. depth[t] \in 1..MaxDepth /\ Top(t) \in Frames BY <1>1, TopTyped
<1>3. f \in Frames BY <1>2 DEF Frames
<1>4. f.fn = Top(t).fn /\ f.pc = Top(t).pc /\ f.saved = Top(t).saved /\ f.pending = "NONE"
  BY <1>2 DEF Frames
<1>5. stack'[t] = [stack[t] EXCEPT ![depth[t]] = f]
  BY <1>2 DEF StoreClientState, CtlTyped, Top
<1>6. Claims(f) = ClaimsAt(Top(t).fn, Top(t).pc, FALSE) BY <1>4 DEF Claims
<1> HIDE DEF f
<1>7. \/ Top(t).pending \in Claims(f)
      \/ Below(stack[t], Top(t).pending, depth[t] - 1)
  BY <1>1, <1>2, <1>6 DEF Nested, NestedStack, PendingIsBelow, Top
<1>8. ~(Top(t).fn = "yield" /\ Top(t).pc = "until" /\ ret[t] \in {"DISCONNECTED", "ATTEMPTING"})
  BY <1>1, <1>2 DEF Nested, NestedStack, LostYieldIsBelow, Top
<1>9. f.fn \in Savers /\ f.pc # "read" => Below(stack[t], f.saved, depth[t] - 1)
  BY <1>1, <1>4, TopSaved
<1>10. NestedStack([stack[t] EXCEPT ![depth[t]] = f], depth[t], Top(t).pending, ret[t])
  BY <1>2, <1>3, <1>4, <1>7, <1>8, <1>9, StackTyped, MoveNested DEF Nested
<1> QED BY <1>5, <1>10 DEF Nested, StoreClientState

-----------------------------------------------------------------------------
(* Every action preserves the nesting.                                     *)

\* What each function answers for, one function at a time.
LEMMA RequestClaims ==
  ASSUME NEW fn \in Requests, NEW pc, NEW busy
  PROVE  ClaimsAt(fn, pc, busy) =
           IF pc \in {"send", "wait", "finish"} \/ (pc = "done" /\ busy)
           THEN {InProgress(fn)} ELSE {}
BY DEF ClaimsAt, Requests

LEMMA RequestNested ==
  ASSUME EnvTyped, CtlTyped, NEW t \in Threads, Threads = {t}, Nested(t), RequestStep(t)
  PROVE  Nested(t)'
<1> USE DEF At
<1>1. CASE RequestRead(t)
  <2>1. PICK fn \in Requests :
          /\ At(t, fn, "read")
          /\ \/ SaveAndGoto(t, "claim")
             \/ \E rc \in {"FAILED", "DISCONNECTED"} : Leave(t, rc)
    BY <1>1 DEF RequestRead
  <2>2. UNCHANGED clientState BY <1>1 DEF RequestRead, state
  <2>3. Below(stack[t], clientState, depth[t] - 1)
    <3>1. ClaimsAt(fn, "read", FALSE) = {} BY RequestClaims
    <3> QED BY <2>1, <3>1, TopBelow
  <2>4. Top(t).fn \in Savers BY <2>1 DEF Savers
  <2> QED BY <2>1, <2>2, <2>3, <2>4, SaveNested, LeaveNested DEF EnvTyped
<1>2. CASE RequestClaim(t)
  <2>1. PICK fn \in Requests :
          /\ At(t, fn, "claim")
          /\ SetClientState(t, Top(t).saved, InProgress(fn), "send",
                            IF fn = "unsubscribe" THEN "rollback" ELSE "failed")
    BY <1>2 DEF RequestClaim
  <2>2. InProgress(fn) \in ClientStates BY StateNames
  <2>3. InProgress(fn) \in ClaimsAt(fn, "send", FALSE) BY RequestClaims
  <2>4. Below(stack[t], clientState, depth[t] - 1)
    <3>1. ClaimsAt(fn, "claim", FALSE) = {} BY RequestClaims
    <3> QED BY <2>1, <3>1, TopBelow
  <2> QED BY <2>1, <2>2, <2>3, <2>4, CasNested DEF Pcs
<1>3. CASE UnsubscribeRollback(t)
  <2>1. Top(t).saved \in ClientStates
    BY <1>3, TopTyped DEF UnsubscribeRollback, Frames
  <2>2. Top(t).fn \in Savers BY <1>3 DEF UnsubscribeRollback, Savers, Requests
  <2>3. Below(stack[t], Top(t).saved, depth[t] - 1)
    BY <1>3, <2>2, TopSaved DEF UnsubscribeRollback
  <2>4. Below(stack[t], clientState, depth[t] - 1)
    BY <1>3, TopBelow, RequestClaims DEF UnsubscribeRollback, Requests
  <2> QED BY <1>3, <2>1, <2>3, <2>4, CasNested DEF UnsubscribeRollback, Pcs
<1>4. CASE RequestSend(t)
  <2>1. PICK fn \in Requests, pc \in {"finish", "wait"} :
          /\ At(t, fn, "send")
          /\ stack' = [stack EXCEPT ![t][depth[t]].pc = pc]
          /\ UNCHANGED <<clientState, depth>>
    BY <1>4 DEF RequestSend, Goto, GotoRc, state
  <2>2. ClaimsAt(fn, "send", FALSE) = ClaimsAt(fn, pc, FALSE) BY <2>1, RequestClaims
  <2> QED BY <2>1, <2>2, TopBelow, GotoNested DEF Pcs
<1>5. CASE RequestWait(t)
  <2>1. PICK fn \in Requests : At(t, fn, "wait") /\ UNCHANGED <<clientState, depth>>
    BY <1>5 DEF RequestWait, GotoRc, state
  <2>2. CASE stack' = [stack EXCEPT ![t][depth[t]].pc = "finish"]
    <3>1. ClaimsAt(fn, "wait", FALSE) = ClaimsAt(fn, "finish", FALSE) BY RequestClaims
    <3> QED BY <2>1, <2>2, <3>1, TopBelow, GotoNested DEF Pcs
  <2>3. ASSUME NEW pc \in {"send", "finish"},
               stack' = [stack EXCEPT ![t][depth[t]].pc = pc,
                                      ![t][depth[t]].acks = @ + 1]
        PROVE  Nested(t)'
    <3> DEFINE n == Top(t).acks + 1
               f == [[Top(t) EXCEPT !.pc = pc] EXCEPT !.acks = n]
    <3>1. depth[t] \in 1..MaxDepth /\ Top(t) \in Frames BY <2>1, TopTyped
    <3>2. n \in Nat BY <3>1 DEF Frames
    <3>3. pc \in Pcs BY DEF Pcs
    <3>4. stack'[t] = [stack[t] EXCEPT ![depth[t]] = f] BY <2>3, <3>1 DEF CtlTyped, Top
    <3> HIDE DEF n
    <3>5. f \in Frames BY <3>1, <3>2, <3>3 DEF Frames
    <3>6. f.fn = fn /\ f.pc = pc /\ f.saved = Top(t).saved /\ f.pending = "NONE"
      BY <2>1, <3>1 DEF Frames
    <3> HIDE DEF f
    <3>7. clientState \in Claims(f) \/ Below(stack[t], clientState, depth[t] - 1)
      <4>1. Claims(f) = ClaimsAt(fn, pc, FALSE) BY <3>6 DEF Claims
      <4>2. ClaimsAt(fn, "wait", FALSE) = ClaimsAt(fn, pc, FALSE) BY RequestClaims
      <4> QED BY <2>1, <4>1, <4>2, TopBelow
    <3>8. Below(stack[t], f.saved, depth[t] - 1) BY <2>1, <3>6, TopSaved DEF Savers
    <3>9. NestedStack([stack[t] EXCEPT ![depth[t]] = f], depth[t], clientState, ret'[t])
      BY <3>1, <3>5, <3>6, <3>7, <3>8, StackTyped, MoveNested DEF Nested
    <3> QED BY <2>1, <3>4, <3>9 DEF Nested
  <2> QED BY <1>5, <2>2, <2>3 DEF RequestWait, GotoRc
<1>6. CASE RequestFinish(t)
  <2>1. PICK fn \in Requests :
          /\ At(t, fn, "finish")
          /\ SetClientState(t, InProgress(fn), Top(t).saved, "done", Failing(t))
    BY <1>6 DEF RequestFinish
  <2>2. Top(t).saved \in ClientStates BY <2>1, TopTyped DEF Frames
  <2>3. Failing(t) \in {"failed", "done"} BY DEF Failing
  <2>4. Below(stack[t], Top(t).saved, depth[t] - 1) BY <2>1, TopSaved DEF Savers
  <2>5. clientState = InProgress(fn) \/ Below(stack[t], clientState, depth[t] - 1)
    <3>1. ClaimsAt(fn, "finish", FALSE) = {InProgress(fn)} BY RequestClaims
    <3> QED BY <2>1, <3>1, TopBelow
  <2>6. InProgress(fn) \in ClaimsAt(fn, "done", TRUE) BY RequestClaims
  <2>7. "done" \in Pcs /\ Failing(t) \in Pcs /\ Failing(t) # "until" BY <2>3 DEF Pcs
  <2> QED BY <2>1, <2>2, <2>4, <2>5, <2>6, <2>7, CasNested
<1> QED BY <1>1, <1>2, <1>3, <1>4, <1>5, <1>6 DEF RequestStep

LEMMA DeliverClaims ==
  ASSUME NEW pc, NEW busy
  PROVE  ClaimsAt("deliver", pc, busy) =
           IF pc \in {"callback", "finish"} \/ busy THEN {"WAIT_FOR_CB_RETURN"} ELSE {}
BY DEF ClaimsAt, Requests

LEMMA ConnectClaims ==
  ASSUME NEW pc, NEW busy
  PROVE  ClaimsAt("connect", pc, busy) =
           IF pc \in {"tls", "connack", "teardown", "fail", "finish"} \/ busy
           THEN {"CONNECTING"} ELSE {}
BY DEF ClaimsAt, Requests

LEMMA DisconnectClaims ==
  ASSUME NEW pc, NEW busy
  PROVE  ClaimsAt("disconnect", pc, busy) =
           IF pc \in {"send", "manual", "undo"} THEN {"DISCONNECTING"} ELSE {}
BY DEF ClaimsAt, Requests

LEMMA ReconnectClaims ==
  ASSUME NEW pc, NEW busy PROVE ClaimsAt("attempt_reconnect", pc, busy) = {}
BY DEF ClaimsAt, Requests

LEMMA YieldClaims ==
  ASSUME NEW pc, NEW busy
  PROVE  ClaimsAt("yield", pc, busy) =
           IF \/ pc \in {"loop", "cycle", "delivered", "keepalive", "until", "finish"}
              \/ pc = "done" /\ busy
           THEN {"YIELD_IN_PROGRESS"} ELSE {}
BY DEF ClaimsAt, Requests

LEMMA LostClaims ==
  ASSUME NEW pc, NEW busy
  PROVE  ClaimsAt("handle_disconnect", pc, busy) =
           IF pc \in {"read", "disc", "force", "drop", "handler", "settle"}
           THEN {"YIELD_IN_PROGRESS"} ELSE {}
BY DEF ClaimsAt, Requests

LEMMA Resting ==
  ASSUME NEW calls, NEW n, NEW s \in RestingStates PROVE Below(calls, s, n)
BY DEF Below

LEMMA DeliverNested ==
  ASSUME EnvTyped, CtlTyped, NEW t \in Threads, Threads = {t}, Nested(t), DeliverStep(t)
  PROVE  Nested(t)'
<1> USE DEF At
<1>1. CASE ReadPublish(t)
  <2>1. PICK pc \in {"delivered", "wait"} :
          /\ Enter(t, "deliver", pc)
          /\ pc = "delivered" <=> Top(t).fn = "yield"
    BY <1>1 DEF ReadPublish
  <2>2. "deliver" \in Fns /\ pc \in Pcs /\ pc # "until" BY DEF Fns, Pcs
  <2>3. UNCHANGED clientState BY <1>1 DEF ReadPublish, state
  <2>4. CASE At(t, "yield", "cycle")
    BY <2>1, <2>2, <2>3, <2>4, TopBelow, YieldClaims, EnterNested DEF Savers, Requests
  <2>5. ASSUME NEW fn \in Requests, At(t, fn, "wait") PROVE Nested(t)'
    <3>1. pc = "wait" BY <2>1, <2>5 DEF Requests
    <3> QED BY <2>1, <2>2, <2>3, <2>5, <3>1, TopBelow, EnterNested
  <2> QED BY <1>1, <2>4, <2>5 DEF ReadPublish, AtRead
<1>2. CASE ReadPingresp(t)
  <2>1. PICK pc \in {"keepalive", "wait"} :
          /\ stack' = [stack EXCEPT ![t][depth[t]].pc = pc]
          /\ pc = "keepalive" <=> Top(t).fn = "yield"
          /\ UNCHANGED <<clientState, depth>>
    BY <1>2 DEF ReadPingresp, Goto, state
  <2>2. pc \in Pcs /\ pc # "until" BY DEF Pcs
  <2>3. CASE At(t, "yield", "cycle")
    BY <2>1, <2>2, <2>3, TopBelow, YieldClaims, GotoNested DEF Savers, Requests
  <2>4. ASSUME NEW fn \in Requests, At(t, fn, "wait") PROVE Nested(t)'
    <3>1. pc = "wait" BY <2>1, <2>4 DEF Requests
    <3> QED BY <2>1, <2>2, <2>4, <3>1, TopBelow, GotoNested
  <2> QED BY <1>2, <2>3, <2>4 DEF ReadPingresp, AtRead
<1>3. CASE DeliverRead(t)
  BY <1>3, SaveNested DEF DeliverRead, EnvTyped, state, Savers
<1>4. CASE DeliverClaim(t)
  <2>1. Below(stack[t], clientState, depth[t] - 1)
    BY <1>4, TopBelow, DeliverClaims DEF DeliverClaim
  <2>2. "WAIT_FOR_CB_RETURN" \in ClaimsAt("deliver", "callback", FALSE) BY DeliverClaims
  <2>3. "callback" \in Pcs BY DEF Pcs
  <2> QED BY <1>4, <2>1, <2>2, <2>3, StateNames, CasNested DEF DeliverClaim
<1>5. CASE CallbackCall(t)
  <2>1. PICK fn \in CallbackCalls : Enter(t, fn, "callback") BY <1>5 DEF CallbackCall
  <2>2. fn \in Fns /\ "callback" \in Pcs BY CallsAssumption DEF Fns, Pcs
  <2> QED BY <1>5, <2>1, <2>2, TopBelow, EnterNested DEF CallbackCall, state
<1>6. CASE CallbackReturn(t)
  <2>1. ClaimsAt("deliver", "callback", FALSE) = ClaimsAt("deliver", "finish", FALSE)
    BY DeliverClaims
  <2>2. "finish" \in Pcs BY DEF Pcs
  <2> QED BY <1>6, <2>1, <2>2, TopBelow, GotoNested DEF CallbackReturn, Goto, state
<1>7. CASE DeliverFinish(t)
  <2>1. Top(t).saved \in ClientStates BY <1>7, TopTyped DEF DeliverFinish, Frames
  <2>2. Below(stack[t], Top(t).saved, depth[t] - 1)
    BY <1>7, TopSaved DEF DeliverFinish, Savers
  <2>3. \/ clientState = "WAIT_FOR_CB_RETURN"
        \/ Below(stack[t], clientState, depth[t] - 1)
    <3>1. ClaimsAt("deliver", "finish", FALSE) = {"WAIT_FOR_CB_RETURN"} BY DeliverClaims
    <3>2. \/ clientState \in ClaimsAt(Top(t).fn, Top(t).pc, FALSE)
          \/ Below(stack[t], clientState, depth[t] - 1)
      BY <1>7, TopBelow DEF DeliverFinish
    <3> QED BY <1>7, <3>1, <3>2 DEF DeliverFinish
  <2>4. "WAIT_FOR_CB_RETURN" \in ClaimsAt("deliver", "ack", TRUE) BY DeliverClaims
  <2>5. "ack" \in Pcs /\ "failed" \in Pcs BY DEF Pcs
  <2> QED BY <1>7, <2>1, <2>2, <2>3, <2>4, <2>5, CasNested DEF DeliverFinish
<1>8. CASE HandlePublishAck(t)
  <2>1. Below(stack[t], clientState, depth[t] - 1)
    BY <1>8, TopBelow, DeliverClaims DEF HandlePublishAck
  <2> QED BY <1>8, <2>1, LeaveNested DEF HandlePublishAck, state
<1> QED BY <1>1, <1>2, <1>3, <1>4, <1>5, <1>6, <1>7, <1>8 DEF DeliverStep

LEMMA ConnectNested ==
  ASSUME EnvTyped, CtlTyped, NEW t \in Threads, Threads = {t}, Nested(t), ConnectStep(t)
  PROVE  Nested(t)'
<1> USE DEF At
<1>1. CASE ConnectRead(t)
  <2>1. Below(stack[t], clientState, depth[t] - 1)
    BY <1>1, TopBelow, ConnectClaims DEF ConnectRead
  <2> QED BY <1>1, <2>1, SaveNested, LeaveNested DEF ConnectRead, EnvTyped, state, Savers
<1>2. CASE ConnectClaim(t)
  <2>1. Below(stack[t], clientState, depth[t] - 1)
    BY <1>2, TopBelow, ConnectClaims DEF ConnectClaim
  <2>2. "CONNECTING" \in ClaimsAt("connect", "tls", FALSE) BY ConnectClaims
  <2>3. "tls" \in Pcs BY DEF Pcs
  <2> QED BY <1>2, <2>1, <2>2, <2>3, StateNames, CasNested DEF ConnectClaim
<1>3. ASSUME NEW from \in {"tls", "connack", "teardown"},
             NEW to \in {"connack", "teardown", "finish", "fail"},
             At(t, "connect", from), stack' = [stack EXCEPT ![t][depth[t]].pc = to],
             UNCHANGED <<clientState, depth>>
      PROVE  Nested(t)'
  <2>1. ClaimsAt("connect", from, FALSE) = ClaimsAt("connect", to, FALSE) BY ConnectClaims
  <2>2. to \in Pcs BY DEF Pcs
  <2> QED BY <1>3, <2>1, <2>2, TopBelow, GotoNested
<1>4. CASE ConnectTls(t) BY <1>3, <1>4 DEF ConnectTls, Goto, state
<1>5. CASE ConnectConnack(t) BY <1>3, <1>5 DEF ConnectConnack, Goto, GotoRc, state
<1>6. CASE ConnectTeardown(t) BY <1>3, <1>6 DEF ConnectTeardown, GotoRc, state
<1>7. ASSUME NEW from \in {"fail", "finish"}, NEW new \in RestingStates,
             At(t, "connect", from),
             SetClientState(t, "CONNECTING", new, "done", "done")
      PROVE  Nested(t)'
  <2>1. clientState = "CONNECTING" \/ Below(stack[t], clientState, depth[t] - 1)
    <3>1. ClaimsAt("connect", from, FALSE) = {"CONNECTING"} BY ConnectClaims
    <3>2. \/ clientState \in ClaimsAt(Top(t).fn, Top(t).pc, FALSE)
          \/ Below(stack[t], clientState, depth[t] - 1)
      BY <1>7, TopBelow
    <3> QED BY <1>7, <3>1, <3>2
  <2>2. "CONNECTING" \in ClaimsAt("connect", "done", TRUE) BY ConnectClaims
  <2>3. "done" \in Pcs BY DEF Pcs
  <2>4. new \in ClientStates BY StateNames
  <2> QED BY <1>7, <2>1, <2>2, <2>3, <2>4, Resting, CasNested
<1>8. CASE ConnectFail(t) BY <1>7, <1>8 DEF ConnectFail, RestingStates
<1>9. CASE ConnectFinish(t) BY <1>7, <1>9 DEF ConnectFinish, RestingStates
<1> QED BY <1>1, <1>2, <1>4, <1>5, <1>6, <1>8, <1>9 DEF ConnectStep

LEMMA DisconnectNested ==
  ASSUME EnvTyped, CtlTyped, NEW t \in Threads, Threads = {t}, Nested(t),
         DisconnectStep(t)
  PROVE  Nested(t)'
<1> USE DEF At
<1>1. CASE DisconnectRead(t)
  <2>1. Below(stack[t], clientState, depth[t] - 1)
    BY <1>1, TopBelow, DisconnectClaims DEF DisconnectRead
  <2> QED BY <1>1, <2>1, SaveNested, LeaveNested
          DEF DisconnectRead, EnvTyped, state, Savers
<1>2. CASE DisconnectClaim(t)
  <2>1. Below(stack[t], clientState, depth[t] - 1)
    BY <1>2, TopBelow, DisconnectClaims DEF DisconnectClaim
  <2>2. "DISCONNECTING" \in ClaimsAt("disconnect", "send", FALSE) BY DisconnectClaims
  <2>3. "send" \in Pcs /\ "failed" \in Pcs BY DEF Pcs
  <2> QED BY <1>2, <2>1, <2>2, <2>3, StateNames, CasNested DEF DisconnectClaim
<1>3. CASE DisconnectSend(t)
  <2>1. PICK to \in {"manual", "undo"} :
          /\ stack' = [stack EXCEPT ![t][depth[t]].pc = to]
          /\ UNCHANGED <<clientState, depth>>
    BY <1>3 DEF DisconnectSend, Goto, state
  <2>2. ClaimsAt("disconnect", "send", FALSE) = ClaimsAt("disconnect", to, FALSE)
    BY DisconnectClaims
  <2>3. to \in Pcs BY DEF Pcs
  <2> QED BY <1>3, <2>1, <2>2, <2>3, TopBelow, GotoNested DEF DisconnectSend
<1>4. CASE DisconnectManual(t)
  <2>1. Below(stack[t], clientState', depth[t] - 1)
    BY <1>4, Resting DEF DisconnectManual, RestingStates
  <2> QED BY <1>4, <2>1, LeaveNested DEF DisconnectManual
<1>5. CASE DisconnectUndo(t)
  <2>1. Below(stack[t], clientState', depth[t] - 1)
    BY <1>5, TopSaved DEF DisconnectUndo, Savers
  <2> QED BY <1>5, <2>1, LeaveNested DEF DisconnectUndo
<1> QED BY <1>1, <1>2, <1>3, <1>4, <1>5 DEF DisconnectStep

LEMMA ReconnectNested ==
  ASSUME EnvTyped, CtlTyped, NEW t \in Threads, Threads = {t}, Nested(t), ReconnectStep(t)
  PROVE  Nested(t)'
<1> USE DEF At
<1>1. depth[t] > 0 /\ Top(t).fn = "attempt_reconnect" /\ Top(t).pending = "NONE"
  BY DEF ReconnectStep, ReconnectRead, ReconnectCheck, ReconnectPend, ReconnectResult
<1>2. Below(stack[t], clientState, depth[t] - 1) BY <1>1, TopBelow, ReconnectClaims
<1>3. Top(t).fn \notin Savers BY <1>1 DEF Savers, Requests
<1>4. {"connect", "resubscribe"} \subseteq Fns /\ {"check", "resub", "pend", "attempting"} \subseteq Pcs
  BY DEF Fns, ApiFns, Requests, Pcs
<1>5. CASE ReconnectRead(t)
  BY <1>1, <1>2, <1>3, <1>4, <1>5, EnterNested, LeaveNested DEF ReconnectRead, state
<1>6. CASE ReconnectCheck(t)
  BY <1>1, <1>2, <1>3, <1>4, <1>6, EnterNested, GotoNested DEF ReconnectCheck, Goto, state
<1>7. CASE ReconnectPend(t)
  <2>1. Below(stack[t], "PENDING_RECONNECT", depth[t] - 1) BY Resting DEF RestingStates
  <2> QED BY <1>1, <1>2, <1>3, <1>4, <1>7, <2>1, StateNames, CasNested DEF ReconnectPend
<1>8. CASE ReconnectResult(t)
  BY <1>1, <1>2, <1>8, LeaveNested DEF ReconnectResult, state
<1> QED BY <1>5, <1>6, <1>7, <1>8 DEF ReconnectStep

LEMMA LostNested ==
  ASSUME EnvTyped, CtlTyped, NEW t \in Threads, Threads = {t}, Nested(t), LostStep(t)
  PROVE  Nested(t)'
<1> USE DEF At
<1>1. depth[t] > 0 /\ Top(t).fn = "handle_disconnect" /\ Top(t).pending = "NONE"
  BY DEF LostStep, LostDisconnect, ForceDisconnect, ForceDrop, DisconnectHandler, LostSettle
<1>2. Top(t).pc \in {"read", "disc", "force", "drop", "handler", "settle"}
  BY DEF LostStep, LostDisconnect, ForceDisconnect, ForceDrop, DisconnectHandler, LostSettle
<1>3. Top(t).fn \notin Savers BY <1>1 DEF Savers, Requests
<1>4. ASSUME NEW pc \in {"read", "disc", "force", "drop", "handler", "settle"}
      PROVE  ClaimsAt("handle_disconnect", pc, FALSE) = {"YIELD_IN_PROGRESS"}
  BY LostClaims
<1>5. clientState = "YIELD_IN_PROGRESS" \/ Below(stack[t], clientState, depth[t] - 1)
  <2>1. \/ clientState \in ClaimsAt(Top(t).fn, Top(t).pc, FALSE)
        \/ Below(stack[t], clientState, depth[t] - 1)
    BY <1>1, TopBelow
  <2>2. ClaimsAt("handle_disconnect", Top(t).pc, FALSE) = {"YIELD_IN_PROGRESS"}
    BY <1>2, LostClaims
  <2> QED BY <1>1, <2>1, <2>2
<1>6. Below(stack[t], "DISCONNECTED_ERROR", depth[t] - 1) BY Resting DEF RestingStates
<1>7. ASSUME NEW pc \in {"drop", "handler", "force", "settle"},
             stack' = [stack EXCEPT ![t][depth[t]].pc = pc], depth' = depth,
             clientState' \in {clientState, "DISCONNECTED_ERROR"}
      PROVE  Nested(t)'
  <2>1. pc \in Pcs BY DEF Pcs
  <2>2. \/ clientState' \in ClaimsAt(Top(t).fn, pc, FALSE)
        \/ Below(stack[t], clientState', depth[t] - 1)
    BY <1>1, <1>4, <1>5, <1>6, <1>7
  <2> QED BY <1>1, <1>3, <1>7, <2>1, <2>2, GotoNested
<1>8. ASSUME NEW fn \in {"disconnect", "attempt_reconnect"}, NEW pc \in {"disc", "settle"},
             Enter(t, fn, pc), UNCHANGED clientState
      PROVE  Nested(t)'
  <2>1. fn \in Fns /\ pc \in Pcs BY DEF Fns, ApiFns, Pcs
  <2>2. \/ clientState \in ClaimsAt(Top(t).fn, pc, FALSE)
        \/ Below(stack[t], clientState, depth[t] - 1)
    BY <1>1, <1>4, <1>5
  <2> QED BY <1>1, <1>3, <1>8, <2>1, <2>2, EnterNested
<1>9. CASE LostDisconnect(t) BY <1>7, <1>8, <1>9 DEF LostDisconnect, Goto, state
<1>10. CASE ForceDisconnect(t) BY <1>7, <1>10 DEF ForceDisconnect, Goto
<1>11. CASE ForceDrop(t) BY <1>7, <1>11 DEF ForceDrop, Goto, state
<1>12. CASE DisconnectHandler(t) BY <1>7, <1>8, <1>12 DEF DisconnectHandler, Goto, state
<1>13. CASE LostSettle(t) BY <1>1, <1>6, <1>13, LeaveNested DEF LostSettle
<1> QED BY <1>9, <1>10, <1>11, <1>12, <1>13 DEF LostStep

LEMMA YieldNested ==
  ASSUME EnvTyped, CtlTyped, NEW t \in Threads, Threads = {t}, Nested(t), YieldStep(t)
  PROVE  Nested(t)'
<1> USE DEF At
<1> DEFINE Holding == {"loop", "cycle", "delivered", "keepalive", "until", "finish"}
<1>1. depth[t] > 0 /\ Top(t).fn = "yield" /\ Top(t).pending = "NONE"
  BY DEF YieldStep, YieldRead, YieldClaim, YieldLoop, HandleReconnect, YieldCycle,
         YieldDelivered, KeepAlive, YieldLost, YieldPending, YieldReconnected,
         YieldUnclaimed, YieldNotReconnected, YieldAgain, YieldTimerExpired, YieldFinish
<1>2. Top(t).fn \notin Savers BY <1>1 DEF Savers, Requests
<1>3. \/ clientState \in ClaimsAt("yield", Top(t).pc, FALSE)
      \/ Below(stack[t], clientState, depth[t] - 1)
  BY <1>1, TopBelow
<1>4. clientState = "YIELD_IN_PROGRESS" \/ Below(stack[t], clientState, depth[t] - 1)
  <2>1. ClaimsAt("yield", Top(t).pc, FALSE) \subseteq {"YIELD_IN_PROGRESS"} BY YieldClaims
  <2> QED BY <1>3, <2>1
<1>5. Top(t).pc \notin Holding => Below(stack[t], clientState, depth[t] - 1)
  <2>1. Top(t).pc \notin Holding => ClaimsAt("yield", Top(t).pc, FALSE) = {} BY YieldClaims
  <2> QED BY <1>3, <2>1
<1>6. ASSUME NEW pc \in Holding
      PROVE  "YIELD_IN_PROGRESS" \in ClaimsAt("yield", pc, FALSE)
  BY YieldClaims
<1>7. ASSUME NEW s \in RestingStates PROVE Below(stack[t], s, depth[t] - 1) BY Resting
\* A step to a place where the yield holds its state.
<1>8. ASSUME NEW pc \in Holding, stack' = [stack EXCEPT ![t][depth[t]].pc = pc],
             UNCHANGED <<clientState, depth>>,
             pc = "until" /\ ret'[t] \in {"DISCONNECTED", "ATTEMPTING"}
               => Below(stack[t], clientState, depth[t] - 1)
      PROVE  Nested(t)'
  <2>1. pc \in Pcs BY DEF Pcs
  <2>2. \/ clientState \in ClaimsAt(Top(t).fn, pc, FALSE)
        \/ Below(stack[t], clientState, depth[t] - 1)
    BY <1>1, <1>4, <1>6
  <2> QED BY <1>1, <1>2, <1>8, <2>1, <2>2, GotoNested
\* The places it goes to when it does not hold it.
<1>9. ASSUME NEW pc \in {"claim", "failed"}, stack' = [stack EXCEPT ![t][depth[t]].pc = pc],
             UNCHANGED <<clientState, depth>>,
             Below(stack[t], clientState, depth[t] - 1)
      PROVE  Nested(t)'
  <2>1. pc \in Pcs BY DEF Pcs
  <2> QED BY <1>1, <1>2, <1>9, <2>1, GotoNested
\* The connection is lost: handle_disconnect answers for the state.
<1>10. ASSUME Enter(t, "handle_disconnect", "lost"), UNCHANGED clientState
       PROVE  Nested(t)'
  <2>1. "handle_disconnect" \in Fns /\ "lost" \in Pcs BY DEF Fns, Pcs
  <2>2. "YIELD_IN_PROGRESS" \in ClaimsAt("handle_disconnect", "read", FALSE) BY LostClaims
  <2> QED BY <1>1, <1>2, <1>4, <1>10, <2>1, <2>2, EnterNested
<1>11. CASE YieldRead(t)
  BY <1>1, <1>5, <1>8, <1>9, <1>11, LeaveNested DEF YieldRead, Goto, state
<1>12. CASE YieldClaim(t)
  <2>1. Below(stack[t], clientState, depth[t] - 1) BY <1>5, <1>12 DEF YieldClaim
  <2>2. "loop" \in Pcs /\ "failed" \in Pcs BY DEF Pcs
  <2> QED BY <1>1, <1>2, <1>6, <1>12, <2>1, <2>2, StateNames, CasNested DEF YieldClaim
<1>13. CASE YieldLoop(t)
  <2>1. clientState = "PENDING_RECONNECT" => Below(stack[t], clientState, depth[t] - 1)
    BY <1>7 DEF RestingStates
  <2> QED BY <1>8, <1>13, <2>1 DEF YieldLoop, Goto, GotoRc, state
<1>14. CASE HandleReconnect(t)
  <2>1. Below(stack[t], clientState, depth[t] - 1)
    BY <1>7, <1>14 DEF HandleReconnect, RestingStates
  <2>2. "attempt_reconnect" \in Fns /\ "reconn" \in Pcs BY DEF Fns, ApiFns, Pcs
  <2> QED BY <1>1, <1>2, <1>14, <2>1, <2>2, EnterNested DEF HandleReconnect, state
<1>15. CASE YieldCycle(t)
  BY <1>8, <1>10, <1>15 DEF YieldCycle, Goto, GotoRc, state
<1>16. CASE YieldDelivered(t) BY <1>8, <1>16 DEF YieldDelivered, Goto, state
<1>17. CASE KeepAlive(t)
  <2>1. ret \in [Threads -> Rcs] BY DEF CtlTyped
  <2> QED BY <1>8, <1>10, <1>17, <2>1 DEF KeepAlive, GotoRc, state
<1>18. CASE YieldLost(t)
  <2>1. Below(stack[t], clientState, depth[t] - 1) BY <1>5, <1>18 DEF YieldLost
  <2>2. CASE ~autoReconnect
    BY <1>1, <1>18, <2>1, <2>2, LeaveNested DEF YieldLost, state
  <2>3. CASE autoReconnect
    <3>1. Below(stack[t], "PENDING_RECONNECT", depth[t] - 1) BY <1>7 DEF RestingStates
    <3>2. "pending" \in Pcs /\ "finish" \in Pcs BY DEF Pcs
    <3> QED BY <1>1, <1>2, <1>18, <2>1, <2>3, <3>1, <3>2, StateNames, CasNested
            DEF YieldLost
  <2> QED BY <2>2, <2>3
<1>19. CASE YieldPending(t)
  <2>1. Below(stack[t], clientState, depth[t] - 1) BY <1>5, <1>19 DEF YieldPending
  <2> QED BY <1>8, <1>19, <2>1 DEF YieldPending, GotoRc, state
<1>20. CASE YieldReconnected(t)
  <2>1. Below(stack[t], clientState, depth[t] - 1) BY <1>5, <1>20 DEF YieldReconnected
  <2>2. ret'[t] \notin {"DISCONNECTED", "ATTEMPTING"} BY <1>20 DEF YieldReconnected
  <2>3. "until" \in Pcs /\ "unclaimed" \in Pcs BY DEF Pcs
  <2> QED BY <1>1, <1>2, <1>6, <1>20, <2>1, <2>2, <2>3, StateNames, CasNested
          DEF YieldReconnected
<1>21. CASE YieldUnclaimed(t)
  <2>1. Below(stack[t], clientState, depth[t] - 1) BY <1>5, <1>21 DEF YieldUnclaimed
  <2> QED BY <1>8, <1>21, <2>1 DEF YieldUnclaimed, GotoRc, state
<1>22. CASE YieldNotReconnected(t)
  <2>1. Below(stack[t], clientState, depth[t] - 1) BY <1>5, <1>22 DEF YieldNotReconnected
  <2> QED BY <1>8, <1>22, <2>1 DEF YieldNotReconnected, GotoRc, state
<1>23. CASE YieldAgain(t) BY <1>8, <1>23 DEF YieldAgain, Goto, state
<1>24. CASE YieldTimerExpired(t)
  <2>1. CASE ret[t] \in {"DISCONNECTED", "ATTEMPTING"}
    <3>1. Below(stack[t], clientState, depth[t] - 1)
      BY <1>24, <2>1 DEF YieldTimerExpired, Nested, NestedStack, LostYieldIsBelow, Top
    <3> QED BY <1>1, <1>24, <2>1, <3>1, LeaveNested DEF YieldTimerExpired, state
  <2>2. CASE ret[t] \notin {"DISCONNECTED", "ATTEMPTING"}
    BY <1>8, <1>24, <2>2 DEF YieldTimerExpired, Goto, state
  <2> QED BY <2>1, <2>2
<1>25. CASE YieldFinish(t)
  <2>1. Below(stack[t], "CONNECTED_IDLE", depth[t] - 1) BY <1>7 DEF RestingStates
  <2>2. "YIELD_IN_PROGRESS" \in ClaimsAt("yield", "done", TRUE) BY YieldClaims
  <2>3. Failing(t) \in {"failed", "done"} BY DEF Failing
  <2>4. "done" \in Pcs /\ Failing(t) \in Pcs /\ Failing(t) # "until" BY <2>3 DEF Pcs
  <2> QED BY <1>1, <1>2, <1>4, <1>25, <2>1, <2>2, <2>4, StateNames, CasNested
          DEF YieldFinish
<1> QED BY <1>11, <1>12, <1>13, <1>14, <1>15, <1>16, <1>17, <1>18, <1>19, <1>20,
           <1>21, <1>22, <1>23, <1>24, <1>25 DEF YieldStep

LEMMA ReturnNested ==
  ASSUME CtlTyped, NEW t \in Threads, Nested(t), Return(t) PROVE Nested(t)'
<1>1. depth[t] > 0 /\ Top(t).pending = "NONE" /\ Top(t).pc \in {"done", "failed"}
  BY DEF Return
<1>2. ClaimsAt(Top(t).fn, Top(t).pc, FALSE) = {} BY <1>1 DEF ClaimsAt, Requests
<1>3. Below(stack[t], clientState, depth[t] - 1) BY <1>1, <1>2, TopBelow
<1> QED BY <1>1, <1>3, LeaveNested DEF Return, state

LEMMA CallNested ==
  ASSUME CtlTyped, NEW t \in Threads, Nested(t), NEW fn \in ApiFns, CallApi(t, fn)
  PROVE  Nested(t)'
<1>1. depth[t] = 0 /\ depth'[t] = 1 /\ 1 \in 1..MaxDepth
  BY BoundsAssumption DEF CallApi, CtlTyped
<1>2. NewFrame(fn) \in Frames BY CallsAssumption, NewFrameTyped DEF CallApi, Fns
<1>3. stack'[t] = [stack[t] EXCEPT ![1] = NewFrame(fn)] BY DEF CallApi, CtlTyped
<1>4. stack'[t] \in Stacks /\ stack'[t][1] = NewFrame(fn)
  <2>1. stack[t] \in Stacks BY StackTyped
  <2>2. DOMAIN stack[t] = 1..MaxDepth BY <2>1 DEF Stacks
  <2>3. stack'[t][1] = NewFrame(fn) BY <1>1, <1>3, <2>2
  <2>4. stack'[t] \in Stacks BY <1>2, <1>3, <2>1 DEF Stacks
  <2> QED BY <2>3, <2>4
<1>5. clientState \in RestingStates BY <1>1 DEF Nested, NestedStack, Below
<1>6. Below(stack'[t], clientState, 0) BY <1>5 DEF Below
<1>7. stack'[t][0 + 1].pc = "read" /\ stack'[t][0 + 1].pending = "NONE"
  BY <1>4 DEF NewFrame
<1>8. NestedStack(stack'[t], 0 + 1, clientState, ret'[t])
  BY <1>1, <1>4, <1>6, <1>7, PushNested
<1> QED BY <1>1, <1>8 DEF Nested, CallApi, state

LEMMA NestingInit ==
  ASSUME NEW t, Threads = {t} PROVE Init => ProperNesting
BY DEF Init, InitIn, ProperNesting, NestedStack, Below, RestingStates

LEMMA NestingStep ==
  ASSUME NEW t, Threads = {t} PROVE TypeOK /\ ProperNesting /\ [Next]_vars => ProperNesting'
<1> SUFFICES ASSUME EnvTyped, CtlTyped, Nested(t), [Next]_vars PROVE Nested(t)'
  BY TypeSplit DEF ProperNesting, Nested
<1>1. CASE UNCHANGED vars BY <1>1 DEF vars, state, ctl, Nested
<1>2. CASE CallStep(t)
  BY <1>2, StoreNested, ReturnNested, RequestNested, DeliverNested, ConnectNested,
     DisconnectNested, ReconnectNested, YieldNested, LostNested DEF CallStep
<1>3. CASE \E fn \in ApiFns : CallApi(t, fn) BY <1>3, CallNested
<1>4. CASE SetAutoreconnectStatus(t)
  BY <1>4 DEF SetAutoreconnectStatus, state, ctl, Nested
<1> QED BY <1>1, <1>2, <1>3, <1>4 DEF Next

\* When one thread uses the client, the calls on its stack nest properly:
\* every state saved in a local variable of publish, subscribe, unsubscribe,
\* resubscribe, deliver_message, connect or disconnect belongs to a caller.
THEOREM NestingCorrect ==
  ASSUME NEW t, Threads = {t} PROVE Spec => []ProperNesting
<1>1. Init => ProperNesting BY NestingInit
<1>2. TypeOK /\ ProperNesting /\ [Next]_vars => ProperNesting' BY NestingStep
<1> QED BY <1>1, <1>2, TypeCorrect, PTL DEF Spec

\* When one thread uses the client, it is never left in the middle of an
\* operation that no call is going to finish, for every nesting of callbacks,
\* every outcome of the network and every mix of API calls.
THEOREM SingleThreadAccounted ==
  ASSUME NEW t, Threads = {t} PROVE Spec => []StateAccounted
<1>1. ProperNesting => StateAccounted
  BY DEF ProperNesting, NestedStack, Below, StateAccounted
<1> QED BY <1>1, NestingCorrect, PTL
=============================================================================
