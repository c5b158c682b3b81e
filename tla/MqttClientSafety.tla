---------------------------- MODULE MqttClientSafety --------------------------
(***************************************************************************)
(* The client's state and its TLS context agree, for every nesting of      *)
(* calls; requests are excluded from each other, for every number of       *)
(* threads; the first automatic reconnect is delayed.                      *)
(*                                                                         *)
(* Every action moves the call at the top of one stack, calls a function   *)
(* from it or returns from it: MovesTo, CallsFrom and Returns say so       *)
(* without EXCEPT, and the invariants are about what such a step does.     *)
(***************************************************************************)
EXTENDS MqttClientProofs

OthersStay(t) ==
  \A u \in Threads \ {t} : stack'[u] = stack[u] /\ depth'[u] = depth[u] /\ ret'[u] = ret[u]

CallersStay(t) == \A d \in 1..(depth[t] - 1) : stack'[t][d] = stack[t][d]

MovesTo(t, f) ==
  /\ f \in Frames
  /\ depth'[t] = depth[t] /\ stack'[t][depth[t]] = f
  /\ CallersStay(t) /\ OthersStay(t)

CallsFrom(t, f, fn) ==
  /\ f \in Frames
  /\ depth'[t] = depth[t] + 1 /\ stack'[t][depth[t]] = f
  /\ stack'[t][depth[t] + 1] = NewFrame(fn)
  /\ CallersStay(t) /\ OthersStay(t)

Returns(t, rc) ==
  /\ depth'[t] = depth[t] - 1 /\ ret'[t] = rc
  /\ CallersStay(t) /\ OthersStay(t)

\* The same call with the same local variable and the same acknowledgements.
Alike(f, g) == f.fn = g.fn /\ f.saved = g.saved /\ f.acks = g.acks

-----------------------------------------------------------------------------
(* What the primitives of MqttClient do, in these terms.                   *)

LEMMA PutMoves ==
  ASSUME CtlTyped, NEW t \in Threads, depth[t] > 0, NEW f \in Frames,
         stack' = [stack EXCEPT ![t][depth[t]] = f], depth' = depth,
         \A u \in Threads \ {t} : ret'[u] = ret[u]
  PROVE  MovesTo(t, f)
<1>1. depth[t] \in 1..MaxDepth BY TopTyped
<1>2. stack'[t] = [stack[t] EXCEPT ![depth[t]] = f] BY DEF CtlTyped
<1>3. stack[t] \in [1..MaxDepth -> Frames] BY DEF CtlTyped
<1>4. stack'[t][depth[t]] = f BY <1>1, <1>2, <1>3
<1>5. CallersStay(t)
  <2>1. \A d \in 1..(depth[t] - 1) : d \in 1..MaxDepth /\ d # depth[t] BY <1>1, BoundsAssumption
  <2> QED BY <1>2, <1>3, <2>1 DEF CallersStay
<1>6. OthersStay(t) BY DEF CtlTyped, OthersStay
<1> QED BY <1>4, <1>5, <1>6 DEF MovesTo

LEMMA GotoMoves ==
  ASSUME CtlTyped, NEW t \in Threads, depth[t] > 0, NEW pc \in Pcs,
         stack' = [stack EXCEPT ![t][depth[t]].pc = pc], depth' = depth,
         \A u \in Threads \ {t} : ret'[u] = ret[u]
  PROVE  \E f \in Frames :
           /\ MovesTo(t, f) /\ Alike(f, Top(t))
           /\ f.pc = pc /\ f.pending = Top(t).pending
<1> DEFINE f == [Top(t) EXCEPT !.pc = pc]
<1>1. Top(t) \in Frames BY TopTyped
<1>2. /\ f \in Frames /\ f.pc = pc /\ f.pending = Top(t).pending
      /\ f.fn = Top(t).fn /\ f.saved = Top(t).saved /\ f.acks = Top(t).acks
  BY <1>1 DEF Frames
<1>3. stack' = [stack EXCEPT ![t][depth[t]] = f] BY TopTyped DEF Top, CtlTyped
<1> HIDE DEF f
<1> QED BY <1>2, <1>3, PutMoves DEF Alike

\* An acknowledgement is counted.
LEMMA AckMoves ==
  ASSUME CtlTyped, NEW t \in Threads, depth[t] > 0, NEW pc \in Pcs,
         stack' = [stack EXCEPT ![t][depth[t]].pc = pc, ![t][depth[t]].acks = @ + 1],
         depth' = depth, \A u \in Threads \ {t} : ret'[u] = ret[u]
  PROVE  \E f \in Frames :
           /\ MovesTo(t, f) /\ f.fn = Top(t).fn /\ f.saved = Top(t).saved
           /\ f.acks > 0 /\ f.pc = pc /\ f.pending = Top(t).pending
<1> DEFINE n == Top(t).acks + 1
           f == [[Top(t) EXCEPT !.pc = pc] EXCEPT !.acks = n]
<1>1. Top(t) \in Frames /\ depth[t] \in 1..MaxDepth BY TopTyped
<1>2. n \in Nat /\ n > 0 BY <1>1 DEF Frames
<1>3. stack' = [stack EXCEPT ![t][depth[t]] = f] BY <1>1 DEF Top, CtlTyped
<1> HIDE DEF n
<1>4. f \in Frames BY <1>1, <1>2 DEF Frames
<1>5. /\ f.fn = Top(t).fn /\ f.saved = Top(t).saved /\ f.acks = n /\ f.pc = pc
      /\ f.pending = Top(t).pending
  BY <1>1 DEF Frames
<1> HIDE DEF f
<1>6. MovesTo(t, f) BY <1>3, <1>4, PutMoves
<1> QED BY <1>2, <1>4, <1>5, <1>6

LEMMA SaveMoves ==
  ASSUME CtlTyped, clientState \in ClientStates, NEW t \in Threads, depth[t] > 0,
         NEW pc \in Pcs, SaveAndGoto(t, pc)
  PROVE  \E f \in Frames :
           /\ MovesTo(t, f) /\ f.fn = Top(t).fn /\ f.saved = clientState
           /\ f.acks = Top(t).acks /\ f.pc = pc /\ f.pending = Top(t).pending
<1> DEFINE f == [[Top(t) EXCEPT !.pc = pc] EXCEPT !.saved = clientState]
<1>1. Top(t) \in Frames BY TopTyped
<1>2. /\ f \in Frames /\ f.pc = pc /\ f.pending = Top(t).pending
      /\ f.fn = Top(t).fn /\ f.saved = clientState /\ f.acks = Top(t).acks
  BY <1>1 DEF Frames
<1>3. stack' = [stack EXCEPT ![t][depth[t]] = f]
  BY TopTyped DEF SaveAndGoto, Top, CtlTyped
<1> HIDE DEF f
<1> QED BY <1>2, <1>3, PutMoves DEF SaveAndGoto

LEMMA CasMoves ==
  ASSUME CtlTyped, NEW t \in Threads, depth[t] > 0, Top(t).pending = "NONE",
         NEW expected, NEW new \in ClientStates, NEW ok \in Pcs, NEW otherwise \in Pcs,
         SetClientState(t, expected, new, ok, otherwise),
         \A u \in Threads \ {t} : ret'[u] = ret[u]
  PROVE  /\ clientState' = clientState
         /\ \E f \in Frames :
              /\ MovesTo(t, f) /\ Alike(f, Top(t))
              /\ \/ /\ clientState = expected /\ f.pc = ok /\ f.pending = new
                    /\ ThreadSupport => mutex = NoThread
                    /\ mutex' = IF ThreadSupport THEN t ELSE mutex
                 \/ /\ clientState # expected \/ TrylockFails(t)
                    /\ f.pc = otherwise /\ f.pending = "NONE" /\ mutex' = mutex
<1> DEFINE f == [[Top(t) EXCEPT !.pc = ok] EXCEPT !.pending = new]
<1>1. Top(t) \in Frames BY TopTyped
<1>2. /\ f \in Frames /\ f.pc = ok /\ f.pending = new
      /\ f.fn = Top(t).fn /\ f.saved = Top(t).saved /\ f.acks = Top(t).acks
  BY <1>1 DEF Frames
<1>3. CASE stack' = [stack EXCEPT ![t][depth[t]].pc = ok, ![t][depth[t]].pending = new]
           /\ clientState = expected /\ (ThreadSupport => mutex = NoThread)
           /\ mutex' = IF ThreadSupport THEN t ELSE mutex
  <2>1. stack' = [stack EXCEPT ![t][depth[t]] = f] BY <1>3, TopTyped DEF Top, CtlTyped
  <2> HIDE DEF f
  <2>2. depth' = depth BY DEF SetClientState
  <2>3. MovesTo(t, f) BY <1>2, <2>1, <2>2, PutMoves
  <2> QED BY <1>2, <1>3, <2>3 DEF Alike, SetClientState
<1>4. CASE stack' = [stack EXCEPT ![t][depth[t]].pc = otherwise]
           /\ (clientState # expected \/ TrylockFails(t)) /\ mutex' = mutex
  <2> HIDE DEF f
  <2>1. depth' = depth /\ stack' = [stack EXCEPT ![t][depth[t]].pc = otherwise]
    BY <1>4 DEF SetClientState
  <2>2. PICK g \in Frames : /\ MovesTo(t, g) /\ Alike(g, Top(t))
                            /\ g.pc = otherwise /\ g.pending = Top(t).pending
    BY <2>1, GotoMoves
  <2> QED BY <1>4, <2>2 DEF SetClientState
<1> QED BY <1>3, <1>4 DEF SetClientState

LEMMA StoreMoves ==
  ASSUME CtlTyped, NEW t \in Threads, StoreClientState(t)
  PROVE  /\ clientState' = Top(t).pending /\ UNCHANGED <<ret, env>>
         /\ \E f \in Frames : /\ MovesTo(t, f) /\ Alike(f, Top(t))
                              /\ f.pc = Top(t).pc /\ f.pending = "NONE"
<1> DEFINE f == [Top(t) EXCEPT !.pending = "NONE"]
<1>1. Top(t) \in Frames /\ depth[t] > 0 BY TopTyped DEF StoreClientState
<1>2. /\ f \in Frames /\ f.pc = Top(t).pc /\ f.pending = "NONE"
      /\ f.fn = Top(t).fn /\ f.saved = Top(t).saved /\ f.acks = Top(t).acks
  BY <1>1 DEF Frames
<1>3. stack' = [stack EXCEPT ![t][depth[t]] = f]
  BY <1>1, TopTyped DEF StoreClientState, Top, CtlTyped
<1> HIDE DEF f
<1>4. MovesTo(t, f) BY <1>1, <1>2, <1>3, PutMoves DEF StoreClientState
<1> QED BY <1>2, <1>4 DEF Alike, StoreClientState

LEMMA EnterCalls ==
  ASSUME CtlTyped, NEW t \in Threads, depth[t] > 0, NEW fn \in Fns, NEW pc \in Pcs,
         Enter(t, fn, pc)
  PROVE  /\ ret' = ret
         /\ \E f \in Frames : /\ CallsFrom(t, f, fn) /\ Alike(f, Top(t))
                              /\ f.pc = pc /\ f.pending = Top(t).pending
<1> DEFINE n == depth[t]
           f == [Top(t) EXCEPT !.pc = pc]
           calls == [stack[t] EXCEPT ![n] = f]
<1>1. n \in 1..MaxDepth /\ n + 1 \in 1..MaxDepth /\ Top(t) \in Frames
  BY TopTyped, BoundsAssumption DEF Enter
<1>2. /\ f \in Frames /\ f.pc = pc /\ f.pending = Top(t).pending
      /\ f.fn = Top(t).fn /\ f.saved = Top(t).saved /\ f.acks = Top(t).acks
  BY <1>1 DEF Frames
<1>3. stack'[t] = [calls EXCEPT ![n + 1] = NewFrame(fn)] BY <1>1 DEF Enter, CtlTyped, Top
<1>4. NewFrame(fn) \in Frames BY NewFrameTyped
<1>5. stack[t] \in [1..MaxDepth -> Frames] BY DEF CtlTyped
<1> HIDE DEF f
<1>6. calls \in [1..MaxDepth -> Frames] /\ calls[n] = f BY <1>1, <1>2, <1>5
<1>7. \A d \in 1..(n - 1) : d \in 1..MaxDepth /\ d # n /\ d # n + 1
  BY <1>1, BoundsAssumption
<1>8. \A d \in 1..(n - 1) : calls[d] = stack[t][d] BY <1>5, <1>7
<1> HIDE DEF calls
<1>9. n # n + 1 BY <1>1, BoundsAssumption
<1>10. stack'[t][n] = f /\ stack'[t][n + 1] = NewFrame(fn) BY <1>1, <1>3, <1>6, <1>9
<1>11. CallersStay(t) BY <1>3, <1>6, <1>7, <1>8 DEF CallersStay
<1>12. OthersStay(t) BY DEF Enter, CtlTyped, OthersStay
<1>13. depth'[t] = n + 1 BY DEF Enter, CtlTyped
<1>14. CallsFrom(t, f, fn) BY <1>2, <1>10, <1>11, <1>12, <1>13 DEF CallsFrom
<1> QED BY <1>2, <1>14 DEF Alike, Enter

LEMMA LeaveReturns ==
  ASSUME CtlTyped, NEW t \in Threads, depth[t] > 0, NEW rc, Leave(t, rc)
  PROVE  Returns(t, rc)
<1>1. depth[t] \in 1..MaxDepth BY TopTyped
<1>2. stack'[t] = [stack[t] EXCEPT ![depth[t]] = NoFrame] BY DEF Leave, CtlTyped
<1>3. stack[t] \in [1..MaxDepth -> Frames] BY DEF CtlTyped
<1>4. CallersStay(t)
  <2>1. \A d \in 1..(depth[t] - 1) : d \in 1..MaxDepth /\ d # depth[t] BY <1>1, BoundsAssumption
  <2> QED BY <1>2, <1>3, <2>1 DEF CallersStay
<1>5. OthersStay(t) /\ depth'[t] = depth[t] - 1 /\ ret'[t] = rc BY DEF Leave, CtlTyped, OthersStay
<1> QED BY <1>4, <1>5 DEF Returns

-----------------------------------------------------------------------------
(* One thread: the state and the TLS context agree.                        *)

\* What a call has saved and may restore.
LinkedFrame(f) ==
  /\ f.fn \in Requests /\ f.pc # "read"
       => f.saved \in {"CONNECTED_IDLE", "WAIT_FOR_CB_RETURN"}
  /\ f.fn = "disconnect" /\ f.pc # "read" => IsConnected(f.saved)
  /\ f.fn = "deliver" /\ f.pc # "read" => HandlerReconnects \/ ~ValidForConnect(f.saved)

\* A state s and a TLS context that is up or not; the call f may be between
\* the two assignments that change both.
Agree(f, s, up) ==
  /\ IsConnected(s) => up
  /\ ValidForConnect(s) /\ up
       => HandlerReconnects \/ (f.fn = "handle_disconnect" /\ f.pc = "drop")

LinkedConnect(f, s, up) ==
  /\ f.pc \in {"claim", "tls"} => HandlerReconnects \/ ~up
  /\ f.pc \in {"tls", "connack", "teardown", "fail", "finish"}
       => IF f.pending = "NONE" THEN s = "CONNECTING" ELSE f.pending = "CONNECTING"
  /\ f.pc = "finish" => up
  /\ f.pc = "fail" => ~up

LinkedDisconnect(f, s, up) ==
  /\ f.pc \in {"claim", "send", "undo"} => up
  /\ f.pc \in {"send", "undo", "manual"}
       => IF f.pending = "NONE" THEN s = "DISCONNECTING" ELSE f.pending = "DISCONNECTING"
  /\ f.pc = "manual" => ~up
  /\ f.pc # "done"

LinkedLost(f, s, up, rc) ==
  /\ f.pc = "drop" => s = "DISCONNECTED_ERROR"
  /\ f.pc \in {"handler", "settle"} => HandlerReconnects \/ ~up
  /\ f.pc = "disc" /\ rc = "SUCCESS" => ~up

\* A subscribe or unsubscribe that has succeeded was acknowledged, and a claim
\* never has to be rolled back.
LinkedAck(f, rc) ==
  /\ f.pc # "rollback"
  /\ f.pc \in {"finish", "done"} /\ rc = "SUCCESS" => f.acks > 0

\* The call at the top of the stack.
LinkedTop(f, s, up, rc) ==
  /\ LinkedFrame(f)
  /\ Agree(f, s, up)
  /\ f.pending # "NONE" => f.pc \notin {"claim", "drop"} /\ Agree(f, f.pending, up)
  /\ f.fn \in Savers /\ f.pc = "claim" => s = f.saved
  /\ f.fn = "connect" => LinkedConnect(f, s, up)
  /\ f.fn = "disconnect" => LinkedDisconnect(f, s, up)
  /\ f.fn = "handle_disconnect" => LinkedLost(f, s, up, rc)
  /\ f.fn = "deliver" /\ f.pc \in {"read", "claim"} => up
  /\ f.fn \in {"subscribe", "unsubscribe"} => LinkedAck(f, rc)

\* Where a call is while another one that it has made runs.
Waiting == {"wait", "delivered", "callback", "check", "resub", "reconn", "lost",
            "disc", "settle"}

\* A call f that waits for the function fn.
LinkedCaller(f, fn) ==
  /\ LinkedFrame(f)
  /\ f.pc \in Waiting /\ f.pending = "NONE"
  /\ f.pc = "settle" => HandlerReconnects
  /\ f.pc = "disc" => fn = "disconnect"

LinkedStack(calls, n, s, up, rc) ==
  /\ n = 0 => Agree(NoFrame, s, up)
  /\ n > 0 => LinkedTop(calls[n], s, up, rc)
  /\ \A d \in 1..(n - 1) : LinkedCaller(calls[d], calls[d + 1].fn)

Linked(t) == LinkedStack(stack[t], depth[t], clientState, tlsUp, ret[t])

LEMMA LinkedAtTop ==
  ASSUME NEW t, depth[t] > 0, Linked(t)
  PROVE  LinkedTop(Top(t), clientState, tlsUp, ret[t])
BY DEF Linked, LinkedStack, Top

LEMMA MoveLinked ==
  ASSUME CtlTyped, NEW t \in Threads, depth[t] > 0, Linked(t),
         NEW f \in Frames, MovesTo(t, f), f.fn = Top(t).fn,
         LinkedTop(f, clientState', tlsUp', ret'[t])
  PROVE  Linked(t)'
<1>1. depth[t] \in Nat /\ depth[t] > 0 /\ depth'[t] = depth[t] /\ stack'[t][depth[t]] = f
  BY TopTyped, BoundsAssumption DEF MovesTo
<1>2. \A d \in 1..(depth[t] - 1) : LinkedCaller(stack'[t][d], stack'[t][d + 1].fn)
  <2> SUFFICES ASSUME NEW d \in 1..(depth[t] - 1)
               PROVE  LinkedCaller(stack'[t][d], stack'[t][d + 1].fn)
    OBVIOUS
  <2>1. LinkedCaller(stack[t][d], stack[t][d + 1].fn) BY DEF Linked, LinkedStack
  <2>2. stack'[t][d] = stack[t][d] BY DEF MovesTo, CallersStay
  <2>3. stack'[t][d + 1].fn = stack[t][d + 1].fn
    <3>1. CASE d + 1 = depth[t] BY <1>1, <3>1 DEF Top
    <3>2. CASE d + 1 # depth[t]
      <4>1. d + 1 \in 1..(depth[t] - 1) BY <1>1, <3>2
      <4> QED BY <4>1 DEF MovesTo, CallersStay
    <3> QED BY <3>1, <3>2
  <2> QED BY <2>1, <2>2, <2>3
<1> QED BY <1>1, <1>2 DEF Linked, LinkedStack

LEMMA CallLinked ==
  ASSUME CtlTyped, NEW t \in Threads, depth[t] > 0, Linked(t),
         NEW f \in Frames, NEW fn, CallsFrom(t, f, fn), f.fn = Top(t).fn,
         LinkedCaller(f, fn), LinkedTop(NewFrame(fn), clientState', tlsUp', ret'[t])
  PROVE  Linked(t)'
<1>1. /\ depth[t] \in Nat /\ depth[t] > 0 /\ depth'[t] = depth[t] + 1
      /\ stack'[t][depth[t]] = f /\ stack'[t][depth[t] + 1] = NewFrame(fn)
  BY TopTyped, BoundsAssumption DEF CallsFrom
<1>2. \A d \in 1..depth[t] : LinkedCaller(stack'[t][d], stack'[t][d + 1].fn)
  <2> SUFFICES ASSUME NEW d \in 1..depth[t]
               PROVE  LinkedCaller(stack'[t][d], stack'[t][d + 1].fn)
    OBVIOUS
  <2>1. CASE d = depth[t] BY <1>1, <2>1 DEF NewFrame
  <2>2. CASE d # depth[t]
    <3>1. d \in 1..(depth[t] - 1) BY <1>1, <2>2
    <3>2. LinkedCaller(stack[t][d], stack[t][d + 1].fn) BY <3>1 DEF Linked, LinkedStack
    <3>3. stack'[t][d] = stack[t][d] BY <3>1 DEF CallsFrom, CallersStay
    <3>4. stack'[t][d + 1].fn = stack[t][d + 1].fn
      <4>1. CASE d + 1 = depth[t] BY <1>1, <4>1 DEF Top
      <4>2. CASE d + 1 # depth[t]
        <5>1. d + 1 \in 1..(depth[t] - 1) BY <1>1, <3>1, <4>2
        <5> QED BY <5>1 DEF CallsFrom, CallersStay
      <4> QED BY <4>1, <4>2
    <3> QED BY <3>2, <3>3, <3>4
  <2> QED BY <2>1, <2>2
<1>3. depth[t] + 1 > 0 /\ depth[t] + 1 # 0 /\ (depth[t] + 1) - 1 = depth[t] BY <1>1
<1> QED BY <1>1, <1>2, <1>3 DEF Linked, LinkedStack

\* The caller may only count on the context being closed when a disconnect
\* has told it so.
LEMMA ReturnLinked ==
  ASSUME CtlTyped, NEW t \in Threads, depth[t] > 0, Linked(t), NEW rc, Returns(t, rc),
         Agree(NoFrame, clientState', tlsUp'),
         Top(t).fn = "disconnect" /\ rc = "SUCCESS" => ~tlsUp'
  PROVE  Linked(t)'
<1> DEFINE m == depth[t] - 1
<1>1. depth[t] \in Nat /\ m \in Nat /\ depth'[t] = m /\ m + 1 = depth[t] /\ ret'[t] = rc
  BY TopTyped, BoundsAssumption DEF Returns
<1> HIDE DEF m
<1>2. \A d \in 1..m : stack'[t][d] = stack[t][d] BY <1>1 DEF Returns, CallersStay, m
<1>3. \A d \in 1..m : LinkedCaller(stack[t][d], stack[t][d + 1].fn)
  BY DEF Linked, LinkedStack, m
<1>4. m > 0 => LinkedTop(stack'[t][m], clientState', tlsUp', rc)
  <2> SUFFICES ASSUME m > 0 PROVE LinkedTop(stack[t][m], clientState', tlsUp', rc)
    BY <1>1, <1>2
  <2>1. LinkedCaller(stack[t][m], Top(t).fn) BY <1>1, <1>3 DEF Top
  <2>2. Agree(stack[t][m], clientState', tlsUp') BY DEF Agree, NoFrame, NewFrame
  <2> QED BY <2>1, <2>2 DEF LinkedTop, LinkedCaller, Waiting, LinkedConnect, LinkedDisconnect,
                          LinkedLost, LinkedAck
<1>5. m = 0 => Agree(NoFrame, clientState', tlsUp') OBVIOUS
<1>6. \A d \in 1..(m - 1) : LinkedCaller(stack'[t][d], stack'[t][d + 1].fn)
  <2> SUFFICES ASSUME NEW d \in 1..(m - 1)
               PROVE  LinkedCaller(stack'[t][d], stack'[t][d + 1].fn)
    OBVIOUS
  <2>1. d \in 1..m /\ d + 1 \in 1..m BY <1>1
  <2> QED BY <1>2, <1>3, <2>1
<1> QED BY <1>1, <1>4, <1>5, <1>6 DEF Linked, LinkedStack

\* The primitives again.
LEMMA GotoLinked ==
  ASSUME CtlTyped, NEW t \in Threads, Threads = {t}, depth[t] > 0, Linked(t), NEW pc \in Pcs,
         stack' = [stack EXCEPT ![t][depth[t]].pc = pc], depth' = depth,
         \A f \in Frames : Alike(f, Top(t)) /\ f.pc = pc /\ f.pending = Top(t).pending
           => LinkedTop(f, clientState', tlsUp', ret'[t])
  PROVE  Linked(t)'
<1>1. PICK f \in Frames : /\ MovesTo(t, f) /\ Alike(f, Top(t))
                          /\ f.pc = pc /\ f.pending = Top(t).pending
  BY GotoMoves
<1> QED BY <1>1, MoveLinked DEF Alike

LEMMA SaveLinked ==
  ASSUME EnvTyped, CtlTyped, NEW t \in Threads, depth[t] > 0, Linked(t),
         SaveAndGoto(t, "claim"),
         \A f \in Frames : /\ f.fn = Top(t).fn /\ f.saved = clientState
                           /\ f.pc = "claim" /\ f.pending = Top(t).pending
           => LinkedTop(f, clientState', tlsUp', ret'[t])
  PROVE  Linked(t)'
<1>1. PICK f \in Frames : /\ MovesTo(t, f) /\ f.fn = Top(t).fn /\ f.saved = clientState
                          /\ f.pc = "claim" /\ f.pending = Top(t).pending
  BY SaveMoves DEF EnvTyped, Pcs
<1> QED BY <1>1, MoveLinked

LEMMA CasLinked ==
  ASSUME CtlTyped, NEW t \in Threads, Threads = {t}, depth[t] > 0, Linked(t),
         Top(t).pending = "NONE",
         NEW expected, NEW new \in ClientStates, NEW ok \in Pcs, NEW otherwise \in Pcs,
         SetClientState(t, expected, new, ok, otherwise),
         \A f \in Frames :
           Alike(f, Top(t)) /\ (\/ clientState = expected /\ f.pc = ok /\ f.pending = new
                                \/ clientState # expected /\ f.pc = otherwise /\ f.pending = "NONE")
           => LinkedTop(f, clientState, tlsUp', ret'[t])
  PROVE  Linked(t)'
<1>1. ~TrylockFails(t) BY DEF TrylockFails
<1>2. clientState' = clientState BY DEF SetClientState
<1>3. PICK f \in Frames :
        /\ MovesTo(t, f) /\ Alike(f, Top(t))
        /\ \/ clientState = expected /\ f.pc = ok /\ f.pending = new
           \/ clientState # expected /\ f.pc = otherwise /\ f.pending = "NONE"
  BY <1>1, CasMoves
<1> QED BY <1>2, <1>3, MoveLinked DEF Alike

LEMMA EnterLinked ==
  ASSUME CtlTyped, NEW t \in Threads, depth[t] > 0, Linked(t), Top(t).pending = "NONE",
         NEW fn \in Fns, NEW pc \in Pcs, Enter(t, fn, pc), UNCHANGED <<clientState, tlsUp>>,
         pc \in Waiting, pc = "disc" => fn = "disconnect", pc = "settle" => HandlerReconnects,
         Top(t).fn \in Savers => Top(t).pc # "read",
         Agree(NoFrame, clientState, tlsUp), fn = "deliver" => tlsUp
  PROVE  Linked(t)'
<1>1. ret' = ret BY EnterCalls
<1>2. PICK f \in Frames : /\ CallsFrom(t, f, fn) /\ Alike(f, Top(t))
                          /\ f.pc = pc /\ f.pending = Top(t).pending
  BY EnterCalls
<1>3. LinkedFrame(f) BY <1>2, LinkedAtTop DEF LinkedTop, LinkedFrame, Alike, Savers
<1>4. LinkedCaller(f, fn) BY <1>2, <1>3 DEF LinkedCaller
<1>5. Agree(NewFrame(fn), clientState, tlsUp) BY DEF Agree, NewFrame, NoFrame
<1>6. LinkedTop(NewFrame(fn), clientState, tlsUp, ret[t])
  BY <1>5 DEF LinkedTop, NewFrame, LinkedFrame, LinkedConnect, LinkedDisconnect, LinkedLost,
              LinkedAck
<1> QED BY <1>1, <1>2, <1>4, <1>6, CallLinked DEF Alike

LEMMA LeaveLinked ==
  ASSUME CtlTyped, NEW t \in Threads, depth[t] > 0, Linked(t), NEW rc, Leave(t, rc),
         Agree(NoFrame, clientState', tlsUp'),
         Top(t).fn = "disconnect" /\ rc = "SUCCESS" => ~tlsUp'
  PROVE  Linked(t)'
BY LeaveReturns, ReturnLinked

\* Unless the call at the top is about to drop the network.
LEMMA AgreesNow ==
  ASSUME NEW t, depth[t] > 0, Linked(t), Top(t).fn # "handle_disconnect" \/ Top(t).pc # "drop"
  PROVE  Agree(NoFrame, clientState, tlsUp)
BY LinkedAtTop DEF LinkedTop, Agree

-----------------------------------------------------------------------------
(* One lemma per group of actions.                                         *)

LEMMA ConnectedNames ==
  /\ \A fn \in Requests : IsConnected(InProgress(fn)) /\ ~ValidForConnect(InProgress(fn))
  /\ \A s \in {"CONNECTED_IDLE", "WAIT_FOR_CB_RETURN", "YIELD_IN_PROGRESS"} :
       IsConnected(s) /\ ~ValidForConnect(s)
  /\ \A s \in {"CONNECTING", "DISCONNECTING"} : ~IsConnected(s) /\ ~ValidForConnect(s)
  /\ \A s \in {"DISCONNECTED_ERROR", "DISCONNECTED_MANUALLY", "PENDING_RECONNECT"} :
       ~IsConnected(s) /\ ValidForConnect(s)
  /\ \A s : ~(IsConnected(s) /\ ValidForConnect(s))
BY DEF IsConnected, ConnectedStates, ValidForConnect, Requests, InProgress

LEMMA RequestLinked ==
  ASSUME EnvTyped, CtlTyped, NEW t \in Threads, Threads = {t}, Linked(t), RequestStep(t)
  PROVE  Linked(t)'
<1> USE DEF At
<1>1. PICK fn \in Requests : depth[t] > 0 /\ Top(t).fn = fn /\ Top(t).pending = "NONE"
  BY DEF RequestStep, RequestRead, RequestClaim, UnsubscribeRollback, RequestSend,
         RequestWait, RequestFinish, Requests
<1>2. LinkedTop(Top(t), clientState, tlsUp, ret[t]) BY <1>1, LinkedAtTop
<1>3. Agree(NoFrame, clientState, tlsUp) BY <1>1, AgreesNow DEF Requests
<1>4. fn \notin {"connect", "disconnect", "handle_disconnect", "deliver"} BY DEF Requests
<1>5. {"claim", "send", "failed", "rollback", "finish", "wait", "done"} \subseteq Pcs BY DEF Pcs
<1>6. ret \in [Threads -> Rcs] BY DEF CtlTyped
<1>7. CASE RequestRead(t)
  <2>1. CASE clientState \in ClaimableFrom(fn) /\ SaveAndGoto(t, "claim")
    <3>1. UNCHANGED <<clientState, tlsUp>> BY <1>7 DEF RequestRead, state, env
    <3> QED BY <1>1, <1>2, <1>4, <2>1, <3>1, SaveLinked
            DEF LinkedTop, LinkedFrame, Agree, LinkedAck, ClaimableFrom
  <2>2. CASE \E rc : Leave(t, rc)
    BY <1>1, <1>3, <1>4, <1>7, <2>2, LeaveLinked DEF RequestRead, state, env
  <2> QED BY <1>1, <1>7, <2>1, <2>2 DEF RequestRead
<1>8. CASE RequestClaim(t)
  <2>1. PICK otherwise \in {"rollback", "failed"} :
          /\ Top(t).pc = "claim" /\ UNCHANGED <<ret, tlsUp>>
          /\ SetClientState(t, Top(t).saved, InProgress(fn), "send", otherwise)
    BY <1>1, <1>8 DEF RequestClaim, env
  <2>2. clientState = Top(t).saved BY <1>1, <1>2, <2>1 DEF LinkedTop, Savers
  <2>3. IsConnected(clientState) BY <1>1, <1>2, <2>1, <2>2, ConnectedNames DEF LinkedTop, LinkedFrame
  <2>4. ASSUME NEW f \in Frames, Alike(f, Top(t)), f.pc = "send", f.pending = InProgress(fn)
        PROVE  LinkedTop(f, clientState, tlsUp, ret[t])
    BY <1>1, <1>2, <1>4, <2>1, <2>2, <2>3, <2>4, ConnectedNames
       DEF LinkedTop, LinkedFrame, Alike, Agree, LinkedAck
  <2> QED BY <1>1, <1>5, <2>1, <2>2, <2>4, StateNames, CasLinked
<1>9. CASE UnsubscribeRollback(t)
  BY <1>2, <1>9 DEF UnsubscribeRollback, LinkedTop, LinkedAck
<1>10. CASE RequestSend(t)
  <2>1. PICK pc \in {"finish", "wait"} :
          /\ Top(t).pc = "send" /\ UNCHANGED <<clientState, tlsUp, depth>>
          /\ stack' = [stack EXCEPT ![t][depth[t]].pc = pc]
          /\ pc = "finish" /\ fn \in {"subscribe", "unsubscribe"} => ret'[t] = "FAILED"
    BY <1>1, <1>6, <1>10 DEF RequestSend, Goto, GotoRc, state, env
  <2>2. ASSUME NEW f \in Frames, Alike(f, Top(t)), f.pc = pc, f.pending = "NONE"
        PROVE  LinkedTop(f, clientState', tlsUp', ret'[t])
    BY <1>1, <1>2, <1>4, <2>1, <2>2 DEF LinkedTop, LinkedFrame, Alike, Agree, LinkedAck
  <2> QED BY <1>1, <1>5, <2>1, <2>2, GotoLinked
<1>11. CASE RequestWait(t)
  <2>1. CASE GotoRc(t, "finish", "FAILED")
    <3>1. /\ Top(t).pc = "wait" /\ UNCHANGED <<clientState, tlsUp, depth>> /\ ret'[t] = "FAILED"
          /\ stack' = [stack EXCEPT ![t][depth[t]].pc = "finish"]
      BY <1>1, <1>6, <1>11, <2>1 DEF RequestWait, GotoRc, state, env
    <3>2. ASSUME NEW f \in Frames, Alike(f, Top(t)), f.pc = "finish", f.pending = "NONE"
          PROVE  LinkedTop(f, clientState', tlsUp', ret'[t])
      BY <1>1, <1>2, <1>4, <3>1, <3>2 DEF LinkedTop, LinkedFrame, Alike, Agree, LinkedAck
    <3> QED BY <1>1, <1>5, <3>1, <3>2, GotoLinked
  <2>2. CASE ~GotoRc(t, "finish", "FAILED")
    <3>1. PICK pc \in {"send", "finish"} :
            /\ Top(t).pc = "wait" /\ UNCHANGED <<clientState, tlsUp, depth>>
            /\ stack' = [stack EXCEPT ![t][depth[t]].pc = pc, ![t][depth[t]].acks = @ + 1]
      BY <1>1, <1>11, <2>2 DEF RequestWait, state, env
    <3>2. PICK f \in Frames : /\ MovesTo(t, f) /\ f.fn = Top(t).fn /\ f.saved = Top(t).saved
                              /\ f.acks > 0 /\ f.pc = pc /\ f.pending = Top(t).pending
      BY <1>1, <1>5, <3>1, AckMoves
    <3>3. LinkedTop(f, clientState', tlsUp', ret'[t])
      BY <1>1, <1>2, <1>4, <3>1, <3>2 DEF LinkedTop, LinkedFrame, Agree, LinkedAck
    <3> QED BY <1>1, <3>2, <3>3, MoveLinked
  <2> QED BY <2>1, <2>2
<1>12. CASE RequestFinish(t)
  <2>1. /\ Top(t).pc = "finish" /\ UNCHANGED <<ret, tlsUp>>
        /\ SetClientState(t, InProgress(fn), Top(t).saved, "done", Failing(t))
    BY <1>1, <1>12 DEF RequestFinish, env
  <2>2. Top(t).saved \in {"CONNECTED_IDLE", "WAIT_FOR_CB_RETURN"}
    BY <1>1, <1>2, <2>1 DEF LinkedTop, LinkedFrame
  <2>3. Failing(t) \in {"failed", "done"} BY DEF Failing
  <2> QED BY <1>1, <1>2, <1>4, <1>5, <2>1, <2>2, <2>3, StateNames, ConnectedNames, CasLinked
          DEF LinkedTop, LinkedFrame, Alike, Agree, LinkedAck
<1> QED BY <1>7, <1>8, <1>9, <1>10, <1>11, <1>12 DEF RequestStep

LEMMA DeliverLinked ==
  ASSUME EnvTyped, CtlTyped, NEW t \in Threads, Threads = {t}, Linked(t), DeliverStep(t)
  PROVE  Linked(t)'
<1> USE DEF At
<1>1. depth[t] > 0 /\ Top(t).pending = "NONE"
  BY DEF DeliverStep, ReadPublish, ReadPingresp, DeliverRead, DeliverClaim, CallbackCall,
         CallbackReturn, DeliverFinish, HandlePublishAck, AtRead
<1>2. LinkedTop(Top(t), clientState, tlsUp, ret[t]) BY <1>1, LinkedAtTop
<1>3. {"claim", "callback", "finish", "ack", "failed", "wait", "delivered", "keepalive"}
        \subseteq Pcs
  BY DEF Pcs
<1>4. CASE ReadPublish(t)
  <2>1. Top(t).fn \in Requests \cup {"yield"} /\ Top(t).pc \in {"wait", "cycle"}
    BY <1>4 DEF ReadPublish, AtRead
  <2>2. Agree(NoFrame, clientState, tlsUp) BY <1>1, <2>1, AgreesNow
  <2>3. PICK pc \in {"wait", "delivered"} : Enter(t, "deliver", pc) BY <1>4 DEF ReadPublish
  <2>4. tlsUp /\ UNCHANGED <<clientState, tlsUp>> BY <1>4 DEF ReadPublish, state
  <2>5. "deliver" \in Fns /\ pc \in Waiting /\ pc \notin {"disc", "settle"} BY DEF Fns, Waiting
  <2> QED BY <1>1, <1>3, <2>1, <2>2, <2>3, <2>4, <2>5, EnterLinked
<1>5. CASE ReadPingresp(t)
  <2>1. /\ \/ Top(t).fn = "yield" /\ Top(t).pc = "cycle"
           \/ Top(t).fn \in Requests /\ Top(t).pc = "wait"
        /\ UNCHANGED <<clientState, tlsUp, ret, depth>>
    BY <1>5 DEF ReadPingresp, AtRead, state, Goto
  <2>2. PICK pc \in {"wait", "keepalive"} :
          /\ stack' = [stack EXCEPT ![t][depth[t]].pc = pc]
          /\ Top(t).fn = "yield" => pc = "keepalive"
    BY <1>5 DEF ReadPingresp, Goto
  <2>3. ASSUME NEW f \in Frames, Alike(f, Top(t)), f.pc = pc, f.pending = "NONE"
        PROVE  LinkedTop(f, clientState', tlsUp', ret'[t])
    BY <1>1, <1>2, <2>1, <2>2, <2>3
       DEF LinkedTop, LinkedFrame, Alike, Agree, LinkedAck, Requests
  <2> QED BY <1>1, <1>3, <2>1, <2>2, <2>3, GotoLinked
<1>6. ASSUME Top(t).fn = "deliver" PROVE Agree(NoFrame, clientState, tlsUp)
  BY <1>1, <1>6, AgreesNow
<1>7. CASE DeliverRead(t)
  <2>1. /\ Top(t).fn = "deliver" /\ Top(t).pc = "read" /\ SaveAndGoto(t, "claim")
        /\ UNCHANGED <<clientState, tlsUp>>
    BY <1>7 DEF DeliverRead, state, env
  <2>2. ASSUME NEW f \in Frames, f.fn = Top(t).fn, f.saved = clientState, f.pc = "claim",
               f.pending = "NONE"
        PROVE  LinkedTop(f, clientState', tlsUp', ret'[t])
    BY <1>1, <1>2, <1>6, <2>1, <2>2
       DEF LinkedTop, LinkedFrame, Agree, Requests, NoFrame, NewFrame
  <2> QED BY <1>1, <2>1, <2>2, SaveLinked
<1>8. CASE DeliverClaim(t)
  <2>1. /\ Top(t).fn = "deliver" /\ Top(t).pc = "claim" /\ UNCHANGED <<ret, tlsUp>>
        /\ SetClientState(t, Top(t).saved, "WAIT_FOR_CB_RETURN", "callback", "callback")
    BY <1>8 DEF DeliverClaim, env
  <2>2. ASSUME NEW f \in Frames, Alike(f, Top(t)), f.pc = "callback",
               f.pending \in {"NONE", "WAIT_FOR_CB_RETURN"}
        PROVE  LinkedTop(f, clientState, tlsUp, ret[t])
    BY <1>1, <1>2, <2>1, <2>2, ConnectedNames
       DEF LinkedTop, LinkedFrame, Alike, Agree, Requests
  <2> QED BY <1>1, <1>3, <2>1, <2>2, StateNames, CasLinked
<1>9. CASE CallbackCall(t)
  <2>1. PICK fn \in CallbackCalls : Enter(t, fn, "callback") BY <1>9 DEF CallbackCall
  <2>2. fn \in Fns /\ fn # "deliver" BY CallsAssumption DEF Fns, ApiFns, Requests
  <2>3. Top(t).fn = "deliver" /\ Top(t).pc = "callback" /\ UNCHANGED <<clientState, tlsUp>>
    BY <1>9 DEF CallbackCall, state, env
  <2> QED BY <1>1, <1>3, <1>6, <2>1, <2>2, <2>3, EnterLinked DEF Waiting
<1>10. CASE CallbackReturn(t)
  <2>1. /\ Top(t).fn = "deliver" /\ Top(t).pc = "callback"
        /\ stack' = [stack EXCEPT ![t][depth[t]].pc = "finish"]
        /\ UNCHANGED <<clientState, tlsUp, depth, ret>>
    BY <1>10 DEF CallbackReturn, state, env, Goto
  <2>2. ASSUME NEW f \in Frames, Alike(f, Top(t)), f.pc = "finish", f.pending = "NONE"
        PROVE  LinkedTop(f, clientState', tlsUp', ret'[t])
    BY <1>1, <1>2, <2>1, <2>2 DEF LinkedTop, LinkedFrame, Alike, Agree, Requests
  <2> QED BY <1>1, <1>3, <2>1, <2>2, GotoLinked
<1>11. CASE DeliverFinish(t)
  <2>1. /\ Top(t).fn = "deliver" /\ Top(t).pc = "finish" /\ UNCHANGED <<ret, tlsUp>>
        /\ SetClientState(t, "WAIT_FOR_CB_RETURN", Top(t).saved, "ack", "failed")
    BY <1>11 DEF DeliverFinish, env
  <2>2. Top(t).saved \in ClientStates BY <1>1, TopTyped DEF Frames
  <2>3. ASSUME NEW f \in Frames, Alike(f, Top(t)),
               \/ /\ clientState = "WAIT_FOR_CB_RETURN" /\ f.pc = "ack"
                  /\ f.pending = Top(t).saved
               \/ f.pc = "failed" /\ f.pending = "NONE"
        PROVE  LinkedTop(f, clientState, tlsUp, ret[t])
    BY <1>1, <1>2, <2>1, <2>3, ConnectedNames
       DEF LinkedTop, LinkedFrame, Alike, Agree, Requests
  <2> QED BY <1>1, <1>3, <2>1, <2>2, <2>3, CasLinked
<1>12. CASE HandlePublishAck(t)
  <2>1. Top(t).fn = "deliver" /\ UNCHANGED <<clientState, tlsUp>> /\ \E rc : Leave(t, rc)
    BY <1>12 DEF HandlePublishAck, state, env
  <2> QED BY <1>1, <1>6, <2>1, LeaveLinked
<1> QED BY <1>4, <1>5, <1>7, <1>8, <1>9, <1>10, <1>11, <1>12 DEF DeliverStep

LEMMA ConnectLinked ==
  ASSUME EnvTyped, CtlTyped, NEW t \in Threads, Threads = {t}, Linked(t), ConnectStep(t)
  PROVE  Linked(t)'
<1> USE DEF At
<1>1. depth[t] > 0 /\ Top(t).fn = "connect" /\ Top(t).pending = "NONE"
  BY DEF ConnectStep, ConnectRead, ConnectClaim, ConnectTls, ConnectConnack, ConnectTeardown,
         ConnectFail, ConnectFinish
<1>2. LinkedTop(Top(t), clientState, tlsUp, ret[t]) BY <1>1, LinkedAtTop
<1>3. Agree(NoFrame, clientState, tlsUp) BY <1>1, AgreesNow
<1>4. LinkedConnect(Top(t), clientState, tlsUp) BY <1>1, <1>2 DEF LinkedTop
<1>5. {"claim", "tls", "connack", "teardown", "fail", "finish", "done"} \subseteq Pcs BY DEF Pcs
\* For a connect the invariant comes down to this.
<1>6. ASSUME NEW f, f.fn = "connect", NEW s, NEW up, NEW rc, Agree(NoFrame, s, up),
             f.pending # "NONE" => f.pc \notin {"claim", "drop"} /\ Agree(NoFrame, f.pending, up),
             f.pc = "claim" => s = f.saved, LinkedConnect(f, s, up)
      PROVE  LinkedTop(f, s, up, rc)
  BY <1>6 DEF LinkedTop, LinkedFrame, Agree, Requests, NoFrame, NewFrame
<1>7. CASE ConnectRead(t)
  <2>1. CASE ValidForConnect(clientState) /\ SaveAndGoto(t, "claim")
    <3>1. UNCHANGED <<clientState, tlsUp>> BY <1>7 DEF ConnectRead, state, env
    <3>2. ASSUME NEW f \in Frames, f.fn = Top(t).fn, f.saved = clientState, f.pc = "claim",
                 f.pending = "NONE"
          PROVE  LinkedTop(f, clientState', tlsUp', ret'[t])
      <4>1. HandlerReconnects \/ ~tlsUp BY <1>3, <2>1 DEF Agree, NoFrame, NewFrame
      <4>2. LinkedConnect(f, clientState, tlsUp) BY <3>2, <4>1 DEF LinkedConnect
      <4> QED BY <1>1, <1>3, <1>6, <3>1, <3>2, <4>2
    <3> QED BY <1>1, <2>1, <3>2, SaveLinked
  <2>2. CASE Leave(t, "FAILED")
    BY <1>1, <1>3, <1>7, <2>2, LeaveLinked DEF ConnectRead, state, env
  <2> QED BY <1>7, <2>1, <2>2 DEF ConnectRead
<1>8. CASE ConnectClaim(t)
  <2>1. /\ Top(t).pc = "claim" /\ UNCHANGED <<ret, tlsUp>>
        /\ SetClientState(t, Top(t).saved, "CONNECTING", "tls", "tls")
    BY <1>8 DEF ConnectClaim, env
  <2>2. clientState = Top(t).saved BY <1>1, <1>2, <2>1 DEF LinkedTop, Savers
  <2>3. ASSUME NEW f \in Frames, Alike(f, Top(t)), f.pc = "tls", f.pending = "CONNECTING"
        PROVE  LinkedTop(f, clientState, tlsUp, ret[t])
    <3>1. LinkedConnect(f, clientState, tlsUp) BY <1>4, <2>1, <2>3 DEF LinkedConnect
    <3>2. Agree(NoFrame, f.pending, tlsUp) BY <2>3, ConnectedNames DEF Agree
    <3> QED BY <1>1, <1>3, <1>6, <2>3, <3>1, <3>2 DEF Alike
  <2> QED BY <1>1, <1>5, <2>1, <2>2, <2>3, StateNames, CasLinked
\* The steps that move on while the state is CONNECTING.
<1>9. ASSUME NEW pc \in {"connack", "teardown", "finish", "fail"},
             stack' = [stack EXCEPT ![t][depth[t]].pc = pc], depth' = depth,
             clientState' = clientState, clientState = "CONNECTING",
             pc = "finish" => tlsUp', pc = "fail" => ~tlsUp'
      PROVE  Linked(t)'
  <2>1. ASSUME NEW f \in Frames, Alike(f, Top(t)), f.pc = pc, f.pending = "NONE"
        PROVE  LinkedTop(f, clientState', tlsUp', ret'[t])
    <3>1. LinkedConnect(f, clientState', tlsUp') BY <1>9, <2>1 DEF LinkedConnect
    <3>2. Agree(NoFrame, clientState', tlsUp') BY <1>9, ConnectedNames DEF Agree
    <3> QED BY <1>1, <1>6, <2>1, <3>1, <3>2 DEF Alike
  <2> QED BY <1>1, <1>5, <1>9, <2>1, GotoLinked
<1>10. CASE ConnectTls(t)
  <2>1. clientState = "CONNECTING" BY <1>1, <1>4, <1>10 DEF ConnectTls, LinkedConnect
  <2> QED BY <1>9, <1>10, <2>1 DEF ConnectTls, Goto, state
<1>11. CASE ConnectConnack(t)
  <2>1. clientState = "CONNECTING" BY <1>1, <1>4, <1>11 DEF ConnectConnack, LinkedConnect
  <2> QED BY <1>9, <1>11, <2>1 DEF ConnectConnack, Goto, GotoRc, state
<1>12. CASE ConnectTeardown(t)
  <2>1. clientState = "CONNECTING" BY <1>1, <1>4, <1>12 DEF ConnectTeardown, LinkedConnect
  <2> QED BY <1>9, <1>12, <2>1 DEF ConnectTeardown, GotoRc, state
<1>13. ASSUME NEW new \in {"DISCONNECTED_ERROR", "CONNECTED_IDLE"}, UNCHANGED <<ret, tlsUp>>,
              new = "DISCONNECTED_ERROR" => ~tlsUp, new = "CONNECTED_IDLE" => tlsUp,
              SetClientState(t, "CONNECTING", new, "done", "done")
       PROVE  Linked(t)'
  <2>1. ASSUME NEW f \in Frames, Alike(f, Top(t)), f.pc = "done", f.pending \in {"NONE", new}
        PROVE  LinkedTop(f, clientState, tlsUp, ret[t])
    <3>1. LinkedConnect(f, clientState, tlsUp) BY <2>1 DEF LinkedConnect
    <3>2. f.pending # "NONE" => Agree(NoFrame, f.pending, tlsUp)
      BY <1>13, <2>1, ConnectedNames DEF Agree
    <3> QED BY <1>1, <1>3, <1>6, <2>1, <3>1, <3>2 DEF Alike
  <2>2. new \in ClientStates BY StateNames
  <2> QED BY <1>1, <1>5, <1>13, <2>1, <2>2, CasLinked
<1>14. CASE ConnectFail(t) BY <1>4, <1>13, <1>14 DEF ConnectFail, LinkedConnect, env
<1>15. CASE ConnectFinish(t) BY <1>4, <1>13, <1>15 DEF ConnectFinish, LinkedConnect, env
<1> QED BY <1>7, <1>8, <1>10, <1>11, <1>12, <1>14, <1>15 DEF ConnectStep

LEMMA DisconnectLinked ==
  ASSUME EnvTyped, CtlTyped, NEW t \in Threads, Threads = {t}, Linked(t), DisconnectStep(t)
  PROVE  Linked(t)'
<1> USE DEF At
<1>1. depth[t] > 0 /\ Top(t).fn = "disconnect" /\ Top(t).pending = "NONE"
  BY DEF DisconnectStep, DisconnectRead, DisconnectClaim, DisconnectSend, DisconnectManual,
         DisconnectUndo
<1>2. LinkedTop(Top(t), clientState, tlsUp, ret[t]) BY <1>1, LinkedAtTop
<1>3. Agree(NoFrame, clientState, tlsUp) BY <1>1, AgreesNow
<1>4. /\ LinkedDisconnect(Top(t), clientState, tlsUp)
      /\ Top(t).pc # "read" => IsConnected(Top(t).saved)
  BY <1>1, <1>2 DEF LinkedTop, LinkedFrame
<1>5. {"claim", "send", "manual", "undo", "failed"} \subseteq Pcs BY DEF Pcs
<1>6. ASSUME NEW f, f.fn = "disconnect", IsConnected(f.saved), NEW s, NEW up, NEW rc,
             Agree(NoFrame, s, up),
             f.pending # "NONE" => f.pc \notin {"claim", "drop"} /\ Agree(NoFrame, f.pending, up),
             f.pc = "claim" => s = f.saved, LinkedDisconnect(f, s, up)
      PROVE  LinkedTop(f, s, up, rc)
  BY <1>6 DEF LinkedTop, LinkedFrame, Agree, Requests, NoFrame, NewFrame
<1>7. CASE DisconnectRead(t)
  <2>1. UNCHANGED <<clientState, tlsUp>> BY <1>7 DEF DisconnectRead, state, env
  <2>2. CASE IsConnected(clientState) /\ SaveAndGoto(t, "claim")
    <3>1. ASSUME NEW f \in Frames, f.fn = Top(t).fn, f.saved = clientState, f.pc = "claim",
                 f.pending = "NONE"
          PROVE  LinkedTop(f, clientState', tlsUp', ret'[t])
      <4>1. tlsUp BY <1>3, <2>2 DEF Agree
      <4>2. LinkedDisconnect(f, clientState, tlsUp) BY <3>1, <4>1 DEF LinkedDisconnect
      <4> QED BY <1>1, <1>3, <1>6, <2>1, <2>2, <3>1, <4>2
    <3> QED BY <1>1, <2>2, <3>1, SaveLinked
  <2>3. CASE Leave(t, "DISCONNECTED") BY <1>1, <1>3, <2>1, <2>3, LeaveLinked
  <2> QED BY <1>7, <2>2, <2>3 DEF DisconnectRead
<1>8. CASE DisconnectClaim(t)
  <2>1. /\ Top(t).pc = "claim" /\ UNCHANGED <<ret, tlsUp>>
        /\ SetClientState(t, Top(t).saved, "DISCONNECTING", "send", "failed")
    BY <1>8 DEF DisconnectClaim, env
  <2>2. clientState = Top(t).saved BY <1>1, <1>2, <2>1 DEF LinkedTop, Savers
  <2>3. ASSUME NEW f \in Frames, Alike(f, Top(t)), f.pc = "send", f.pending = "DISCONNECTING"
        PROVE  LinkedTop(f, clientState, tlsUp, ret[t])
    <3>1. LinkedDisconnect(f, clientState, tlsUp) BY <1>4, <2>1, <2>3 DEF LinkedDisconnect
    <3>2. Agree(NoFrame, f.pending, tlsUp) BY <2>3, ConnectedNames DEF Agree
    <3> QED BY <1>1, <1>3, <1>4, <1>6, <2>1, <2>3, <3>1, <3>2 DEF Alike
  <2> QED BY <1>1, <1>5, <2>1, <2>2, <2>3, StateNames, CasLinked
<1>9. CASE DisconnectSend(t)
  <2>1. PICK pc \in {"manual", "undo"} :
          /\ Top(t).pc = "send" /\ UNCHANGED <<clientState, depth, ret>>
          /\ stack' = [stack EXCEPT ![t][depth[t]].pc = pc]
          /\ pc = "manual" => ~tlsUp'
          /\ pc = "undo" => tlsUp' = tlsUp
    BY <1>9 DEF DisconnectSend, Goto, state
  <2>2. clientState = "DISCONNECTING" /\ tlsUp BY <1>1, <1>4, <2>1 DEF LinkedDisconnect
  <2>3. ASSUME NEW f \in Frames, Alike(f, Top(t)), f.pc = pc, f.pending = "NONE"
        PROVE  LinkedTop(f, clientState', tlsUp', ret'[t])
    <3>1. LinkedDisconnect(f, clientState', tlsUp')
      BY <2>1, <2>2, <2>3 DEF LinkedDisconnect
    <3>2. Agree(NoFrame, clientState', tlsUp') BY <2>1, <2>2, ConnectedNames DEF Agree
    <3> QED BY <1>1, <1>4, <1>6, <2>1, <2>3, <3>1, <3>2 DEF Alike
  <2> QED BY <1>1, <1>5, <2>1, <2>3, GotoLinked
<1>10. CASE DisconnectManual(t)
  <2>1. /\ Top(t).pc = "manual" /\ Leave(t, "SUCCESS") /\ tlsUp' = tlsUp
        /\ clientState' = "DISCONNECTED_MANUALLY"
    BY <1>10 DEF DisconnectManual, env
  <2>2. ~tlsUp BY <1>4, <2>1 DEF LinkedDisconnect
  <2>3. Agree(NoFrame, clientState', tlsUp') BY <2>1, <2>2, ConnectedNames DEF Agree
  <2> QED BY <1>1, <2>1, <2>2, <2>3, LeaveLinked
<1>11. CASE DisconnectUndo(t)
  <2>1. /\ Top(t).pc = "undo" /\ Leave(t, "FAILED") /\ tlsUp' = tlsUp
        /\ clientState' = Top(t).saved
    BY <1>11 DEF DisconnectUndo, env
  <2>2. tlsUp /\ IsConnected(Top(t).saved) BY <1>4, <2>1 DEF LinkedDisconnect
  <2>3. Agree(NoFrame, clientState', tlsUp') BY <2>1, <2>2, ConnectedNames DEF Agree
  <2> QED BY <1>1, <2>1, <2>3, LeaveLinked
<1> QED BY <1>7, <1>8, <1>9, <1>10, <1>11 DEF DisconnectStep

\* attempt_reconnect and yield leave the context alone and save nothing.
LEMMA PlainTop ==
  ASSUME NEW f, f.fn \in {"yield", "attempt_reconnect"}, NEW s, NEW up, NEW rc,
         Agree(NoFrame, s, up),
         f.pending # "NONE" => f.pc \notin {"claim", "drop"} /\ Agree(NoFrame, f.pending, up)
  PROVE  LinkedTop(f, s, up, rc)
BY DEF LinkedTop, LinkedFrame, Agree, Requests, Savers, NoFrame, NewFrame

LEMMA ReconnectLinked ==
  ASSUME EnvTyped, CtlTyped, NEW t \in Threads, Threads = {t}, Linked(t), ReconnectStep(t)
  PROVE  Linked(t)'
<1> USE DEF At
<1>1. depth[t] > 0 /\ Top(t).fn = "attempt_reconnect" /\ Top(t).pending = "NONE"
  BY DEF ReconnectStep, ReconnectRead, ReconnectCheck, ReconnectPend, ReconnectResult
<1>2. Agree(NoFrame, clientState, tlsUp) BY <1>1, AgreesNow
<1>3. Top(t).fn \notin Savers BY <1>1 DEF Savers, Requests
<1>4. {"connect", "resubscribe"} \subseteq Fns /\ {"check", "resub", "pend", "attempting"} \subseteq Pcs
  BY DEF Fns, ApiFns, Requests, Pcs
<1>5. UNCHANGED tlsUp
  BY DEF ReconnectStep, ReconnectRead, ReconnectCheck, ReconnectPend, ReconnectResult, env
<1>6. CASE ReconnectRead(t)
  BY <1>1, <1>2, <1>3, <1>4, <1>5, <1>6, EnterLinked, LeaveLinked
     DEF ReconnectRead, state, Waiting
<1>7. CASE ReconnectCheck(t)
  <2>1. CASE Enter(t, "resubscribe", "resub")
    BY <1>1, <1>2, <1>3, <1>4, <1>5, <1>7, <2>1, EnterLinked DEF ReconnectCheck, state, Waiting
  <2>2. CASE Goto(t, "pend")
    <3>1. UNCHANGED clientState BY <1>7 DEF ReconnectCheck, state
    <3>2. ASSUME NEW f \in Frames, Alike(f, Top(t)), f.pending = Top(t).pending
          PROVE  LinkedTop(f, clientState', tlsUp', ret'[t])
      BY <1>1, <1>2, <1>5, <3>1, <3>2, PlainTop DEF Alike
    <3> QED BY <1>1, <1>4, <2>2, <3>2, GotoLinked DEF Goto
  <2> QED BY <1>7, <2>1, <2>2 DEF ReconnectCheck
<1>8. CASE ReconnectPend(t)
  <2>1. /\ SetClientState(t, "DISCONNECTED_ERROR", "PENDING_RECONNECT", "attempting", "attempting")
        /\ ret' = ret
    BY <1>8 DEF ReconnectPend
  <2>2. clientState = "DISCONNECTED_ERROR" => Agree(NoFrame, "PENDING_RECONNECT", tlsUp)
    BY <1>2, ConnectedNames DEF Agree
  <2>3. ASSUME NEW f \in Frames, Alike(f, Top(t)), f.pc = "attempting",
               \/ clientState = "DISCONNECTED_ERROR" /\ f.pending = "PENDING_RECONNECT"
               \/ f.pending = "NONE"
        PROVE  LinkedTop(f, clientState, tlsUp, ret[t])
    BY <1>1, <1>2, <2>2, <2>3, PlainTop DEF Alike
  <2> QED BY <1>1, <1>4, <1>5, <2>1, <2>3, StateNames, CasLinked
<1>9. CASE ReconnectResult(t)
  <2>1. UNCHANGED clientState /\ \E rc : Leave(t, rc) BY <1>9 DEF ReconnectResult, state
  <2> QED BY <1>1, <1>2, <1>5, <2>1, LeaveLinked
<1> QED BY <1>6, <1>7, <1>8, <1>9 DEF ReconnectStep

LEMMA YieldLinked ==
  ASSUME EnvTyped, CtlTyped, NEW t \in Threads, Threads = {t}, Linked(t), YieldStep(t)
  PROVE  Linked(t)'
<1> USE DEF At
<1>1. depth[t] > 0 /\ Top(t).fn = "yield" /\ Top(t).pending = "NONE"
  BY DEF YieldStep, YieldRead, YieldClaim, YieldLoop, HandleReconnect, YieldCycle,
         YieldDelivered, KeepAlive, YieldLost, YieldPending, YieldReconnected,
         YieldUnclaimed, YieldNotReconnected, YieldAgain, YieldTimerExpired, YieldFinish
<1>2. UNCHANGED <<clientState, tlsUp>>
  BY DEF YieldStep, YieldRead, YieldClaim, YieldLoop, HandleReconnect, YieldCycle,
         YieldDelivered, KeepAlive, YieldLost, YieldPending, YieldReconnected,
         YieldUnclaimed, YieldNotReconnected, YieldAgain, YieldTimerExpired, YieldFinish,
         SetClientState, state, env
<1>3. Agree(NoFrame, clientState, tlsUp) BY <1>1, AgreesNow
<1>4. Top(t).fn \notin Savers BY <1>1 DEF Savers, Requests
\* A step within the yield.
<1>5. ASSUME NEW pc \in Pcs, stack' = [stack EXCEPT ![t][depth[t]].pc = pc], depth' = depth
      PROVE  Linked(t)'
  <2>1. ASSUME NEW f \in Frames, Alike(f, Top(t)), f.pending = Top(t).pending
        PROVE  LinkedTop(f, clientState', tlsUp', ret'[t])
    BY <1>1, <1>2, <1>3, <2>1, PlainTop DEF Alike
  <2> QED BY <1>1, <1>5, <2>1, GotoLinked
\* A comparison: the new state is connected or a reconnect is due.
<1>6. ASSUME NEW expected, NEW new \in ClientStates, NEW ok \in Pcs, NEW otherwise \in Pcs,
             SetClientState(t, expected, new, ok, otherwise), ok \notin {"claim", "drop"},
             clientState = expected => Agree(NoFrame, new, tlsUp)
      PROVE  Linked(t)'
  <2>1. ASSUME NEW f \in Frames, Alike(f, Top(t)),
               \/ clientState = expected /\ f.pc = ok /\ f.pending = new
               \/ f.pending = "NONE"
        PROVE  LinkedTop(f, clientState, tlsUp', ret'[t])
    BY <1>1, <1>2, <1>3, <1>6, <2>1, PlainTop DEF Alike
  <2> QED BY <1>1, <1>6, <2>1, CasLinked
<1>7. ASSUME NEW rc, Leave(t, rc) PROVE Linked(t)'
  BY <1>1, <1>2, <1>3, <1>7, LeaveLinked
<1>8. ASSUME NEW fn \in {"handle_disconnect", "attempt_reconnect"}, NEW pc \in {"lost", "reconn"},
             Enter(t, fn, pc)
      PROVE  Linked(t)'
  <2>1. fn \in Fns /\ pc \in Pcs BY DEF Fns, ApiFns, Pcs
  <2> QED BY <1>1, <1>2, <1>3, <1>4, <1>8, <2>1, EnterLinked DEF Waiting
<1>9. {"loop", "claim", "cycle", "finish", "until", "keepalive", "failed", "done", "pending",
       "unclaimed"} \subseteq Pcs
  BY DEF Pcs
<1>10. ASSUME NEW s \in {"CONNECTED_IDLE", "YIELD_IN_PROGRESS"}, clientState = s,
              NEW new \in {"CONNECTED_IDLE", "YIELD_IN_PROGRESS"}
       PROVE  Agree(NoFrame, new, tlsUp)
  BY <1>3, <1>10, ConnectedNames DEF Agree
<1>11. CASE YieldRead(t) BY <1>5, <1>7, <1>9, <1>11 DEF YieldRead, Goto
<1>12. CASE YieldClaim(t) BY <1>6, <1>9, <1>10, <1>12, StateNames DEF YieldClaim
<1>13. CASE YieldLoop(t) BY <1>5, <1>9, <1>13 DEF YieldLoop, Goto, GotoRc
<1>14. CASE HandleReconnect(t) BY <1>8, <1>14 DEF HandleReconnect
<1>15. CASE YieldCycle(t) BY <1>5, <1>8, <1>9, <1>15 DEF YieldCycle, Goto, GotoRc
<1>16. CASE YieldDelivered(t) BY <1>5, <1>9, <1>16 DEF YieldDelivered, Goto
<1>17. CASE KeepAlive(t) BY <1>5, <1>8, <1>9, <1>17 DEF KeepAlive, GotoRc
<1>18. CASE YieldLost(t)
  <2>1. clientState = "DISCONNECTED_ERROR" => Agree(NoFrame, "PENDING_RECONNECT", tlsUp)
    BY <1>3, ConnectedNames DEF Agree
  <2> QED BY <1>6, <1>7, <1>9, <1>18, <2>1, StateNames DEF YieldLost
<1>19. CASE YieldPending(t) BY <1>5, <1>9, <1>19 DEF YieldPending, GotoRc
<1>20. CASE YieldReconnected(t) BY <1>6, <1>9, <1>10, <1>20, StateNames DEF YieldReconnected
<1>21. CASE YieldUnclaimed(t) BY <1>5, <1>9, <1>21 DEF YieldUnclaimed, GotoRc
<1>22. CASE YieldNotReconnected(t) BY <1>5, <1>9, <1>22 DEF YieldNotReconnected, GotoRc
<1>23. CASE YieldAgain(t) BY <1>5, <1>9, <1>23 DEF YieldAgain, Goto
<1>24. CASE YieldTimerExpired(t) BY <1>5, <1>7, <1>9, <1>24 DEF YieldTimerExpired, Goto
<1>25. CASE YieldFinish(t)
  <2>1. Failing(t) \in Pcs BY <1>9 DEF Failing
  <2> QED BY <1>6, <1>9, <1>10, <1>25, <2>1, StateNames DEF YieldFinish
<1> QED BY <1>11, <1>12, <1>13, <1>14, <1>15, <1>16, <1>17, <1>18, <1>19, <1>20,
           <1>21, <1>22, <1>23, <1>24, <1>25 DEF YieldStep

LEMMA LostLinked ==
  ASSUME EnvTyped, CtlTyped, NEW t \in Threads, Threads = {t}, Linked(t), LostStep(t)
  PROVE  Linked(t)'
<1> USE DEF At
<1>1. depth[t] > 0 /\ Top(t).fn = "handle_disconnect" /\ Top(t).pending = "NONE"
  BY DEF LostStep, LostDisconnect, ForceDisconnect, ForceDrop, DisconnectHandler, LostSettle
<1>2. LinkedTop(Top(t), clientState, tlsUp, ret[t]) BY <1>1, LinkedAtTop
<1>3. LinkedLost(Top(t), clientState, tlsUp, ret[t]) /\ Agree(Top(t), clientState, tlsUp)
  BY <1>1, <1>2 DEF LinkedTop
<1>4. Top(t).fn \notin Savers BY <1>1 DEF Savers, Requests
<1>5. ASSUME NEW pc \in {"force", "drop", "handler", "settle"},
             stack' = [stack EXCEPT ![t][depth[t]].pc = pc], depth' = depth,
             IsConnected(clientState') => tlsUp',
             ValidForConnect(clientState') /\ tlsUp' => HandlerReconnects \/ pc = "drop",
             pc = "drop" => clientState' = "DISCONNECTED_ERROR",
             pc \in {"handler", "settle"} => HandlerReconnects \/ ~tlsUp'
      PROVE  Linked(t)'
  <2>1. ASSUME NEW f \in Frames, Alike(f, Top(t)), f.pc = pc, f.pending = Top(t).pending
        PROVE  LinkedTop(f, clientState', tlsUp', ret'[t])
    BY <1>1, <1>5, <2>1
       DEF LinkedTop, LinkedFrame, Alike, Agree, LinkedLost, Requests, Savers
  <2>2. pc \in Pcs BY DEF Pcs
  <2> QED BY <1>1, <1>5, <2>1, <2>2, GotoLinked
<1>6. ASSUME NEW fn \in {"disconnect", "attempt_reconnect"}, NEW pc \in {"disc", "settle"},
             Enter(t, fn, pc), UNCHANGED <<clientState, tlsUp>>, Top(t).pc # "drop",
             pc = "disc" => fn = "disconnect", pc = "settle" => HandlerReconnects
      PROVE  Linked(t)'
  <2>1. fn \in Fns /\ pc \in Pcs BY DEF Fns, ApiFns, Pcs
  <2>2. Agree(NoFrame, clientState, tlsUp) BY <1>1, <1>6, AgreesNow
  <2> QED BY <1>1, <1>4, <1>6, <2>1, <2>2, EnterLinked DEF Waiting
<1>7. CASE LostDisconnect(t)
  <2>1. UNCHANGED <<clientState, tlsUp>> BY <1>7 DEF LostDisconnect, state, env
  <2>2. CASE Top(t).pc = "read" /\ Enter(t, "disconnect", "disc") BY <1>6, <2>1, <2>2
  <2>3. CASE Top(t).pc = "disc" /\ Goto(t, IF ret[t] = "SUCCESS" THEN "handler" ELSE "force")
    <3>1. ret[t] = "SUCCESS" => ~tlsUp BY <1>3, <2>3 DEF LinkedLost
    <3>2. PICK pc \in {"handler", "force"} :
            /\ stack' = [stack EXCEPT ![t][depth[t]].pc = pc] /\ depth' = depth
            /\ pc = "handler" => ret[t] = "SUCCESS"
      BY <2>3 DEF Goto
    <3> QED BY <1>3, <1>5, <2>1, <2>3, <3>1, <3>2 DEF Agree
  <2> QED BY <1>7, <2>2, <2>3 DEF LostDisconnect
<1>8. CASE ForceDisconnect(t)
  BY <1>5, <1>8, ConnectedNames DEF ForceDisconnect, Goto, env
<1>9. CASE ForceDrop(t)
  <2>1. clientState = "DISCONNECTED_ERROR" BY <1>3, <1>9 DEF ForceDrop, LinkedLost
  <2> QED BY <1>5, <1>9, <2>1, ConnectedNames DEF ForceDrop, Goto, state
<1>10. CASE DisconnectHandler(t)
  <2>1. UNCHANGED <<clientState, tlsUp>> /\ Top(t).pc = "handler"
    BY <1>10 DEF DisconnectHandler, state, env
  <2>2. CASE HandlerReconnects /\ Enter(t, "attempt_reconnect", "settle") BY <1>6, <2>1, <2>2
  <2>3. CASE Goto(t, "settle")
    BY <1>3, <1>5, <2>1, <2>3 DEF Goto, Agree, LinkedLost
  <2> QED BY <1>10, <2>2, <2>3 DEF DisconnectHandler
<1>11. CASE LostSettle(t)
  <2>1. /\ Top(t).pc = "settle" /\ clientState' = "DISCONNECTED_ERROR" /\ tlsUp' = tlsUp
        /\ Leave(t, "DISCONNECTED")
    BY <1>11 DEF LostSettle, env
  <2>2. HandlerReconnects \/ ~tlsUp BY <1>3, <2>1 DEF LinkedLost
  <2>3. Agree(NoFrame, clientState', tlsUp') BY <2>1, <2>2, ConnectedNames DEF Agree
  <2> QED BY <1>1, <2>1, <2>3, LeaveLinked
<1> QED BY <1>7, <1>8, <1>9, <1>10, <1>11 DEF LostStep

LEMMA StoreLinked ==
  ASSUME CtlTyped, NEW t \in Threads, Linked(t), StoreClientState(t) PROVE Linked(t)'
<1>1. depth[t] > 0 /\ Top(t).pending # "NONE" BY DEF StoreClientState
<1>2. LinkedTop(Top(t), clientState, tlsUp, ret[t]) BY <1>1, LinkedAtTop
<1>3. clientState' = Top(t).pending /\ UNCHANGED <<ret, tlsUp>> BY StoreMoves DEF env
<1>4. PICK f \in Frames : /\ MovesTo(t, f) /\ Alike(f, Top(t))
                          /\ f.pc = Top(t).pc /\ f.pending = "NONE"
  BY StoreMoves
<1>5. LinkedTop(f, clientState', tlsUp', ret'[t])
  BY <1>1, <1>2, <1>3, <1>4
     DEF LinkedTop, LinkedFrame, Alike, Agree, LinkedConnect, LinkedDisconnect, LinkedLost, LinkedAck
<1> QED BY <1>1, <1>4, <1>5, MoveLinked DEF Alike

LEMMA ReturnStepLinked ==
  ASSUME CtlTyped, NEW t \in Threads, Linked(t), Return(t) PROVE Linked(t)'
<1>1. depth[t] > 0 /\ Top(t).pc \in {"done", "failed"} /\ UNCHANGED <<clientState, tlsUp>>
  BY DEF Return, state, env
<1>2. Agree(NoFrame, clientState, tlsUp) BY <1>1, AgreesNow
<1>3. Top(t).fn = "disconnect" => Top(t).pc # "done"
  BY <1>1, LinkedAtTop DEF LinkedTop, LinkedDisconnect
<1> QED BY <1>1, <1>2, <1>3, LeaveLinked DEF Return

LEMMA CallApiLinked ==
  ASSUME CtlTyped, NEW t \in Threads, Linked(t), NEW fn \in ApiFns, CallApi(t, fn)
  PROVE  Linked(t)'
<1>1. depth[t] = 0 /\ depth'[t] = 1 /\ UNCHANGED <<clientState, tlsUp, ret>>
  BY DEF CallApi, CtlTyped, state, env
<1>2. stack'[t][1] = NewFrame(fn)
  <2>1. 1 \in 1..MaxDepth BY BoundsAssumption
  <2>2. stack[t] \in [1..MaxDepth -> Frames] BY DEF CtlTyped
  <2>3. stack'[t] = [stack[t] EXCEPT ![1] = NewFrame(fn)] BY DEF CallApi, CtlTyped
  <2> QED BY <2>1, <2>2, <2>3
<1>3. Agree(NoFrame, clientState, tlsUp) BY <1>1 DEF Linked, LinkedStack
<1>4. Agree(NewFrame(fn), clientState, tlsUp) BY <1>3 DEF Agree, NewFrame, NoFrame
<1>5. fn # "deliver" BY DEF ApiFns, Requests
<1>6. LinkedTop(NewFrame(fn), clientState, tlsUp, ret[t])
  BY <1>4, <1>5 DEF LinkedTop, NewFrame, LinkedFrame, LinkedConnect, LinkedDisconnect,
                    LinkedLost, LinkedAck
<1> QED BY <1>1, <1>2, <1>6 DEF Linked, LinkedStack

LEMMA LinkedStep ==
  ASSUME NEW t, Threads = {t}, TypeOK, Linked(t), [Next]_vars PROVE Linked(t)'
<1> USE TypeSplit
<1>1. CASE UNCHANGED vars BY <1>1 DEF vars, state, env, ctl, Linked
<1>2. CASE CallStep(t)
  BY <1>2, StoreLinked, ReturnStepLinked, RequestLinked, DeliverLinked, ConnectLinked,
     DisconnectLinked, ReconnectLinked, YieldLinked, LostLinked DEF CallStep
<1>3. CASE \E fn \in ApiFns : CallApi(t, fn) BY <1>3, CallApiLinked
<1>4. CASE SetAutoreconnectStatus(t)
  BY <1>4 DEF SetAutoreconnectStatus, state, ctl, Linked
<1> QED BY <1>1, <1>2, <1>3, <1>4 DEF Next

LEMMA LinkedAlways ==
  ASSUME NEW t, Threads = {t} PROVE Spec => []Linked(t)
<1>1. Init => Linked(t)
  BY DEF Init, InitIn, Linked, LinkedStack, Agree, IsConnected, ConnectedStates
<1>2. TypeOK /\ Linked(t) /\ [Next]_vars => Linked(t)' BY LinkedStep
<1> QED BY <1>1, <1>2, TypeCorrect, PTL DEF Spec

\* A client that one thread uses is connected only while its TLS context is
\* open, however deep callbacks, disconnects and reconnects nest, and whatever
\* a disconnect, a lost connection or a finished request restores.
THEOREM ConnectedSound ==
  ASSUME NEW t, Threads = {t} PROVE Spec => []ConnectedMeansTls
<1>1. TypeOK /\ Linked(t) => ConnectedMeansTls
  <2> SUFFICES ASSUME TypeOK, Linked(t) PROVE ConnectedMeansTls OBVIOUS
  <2>1. depth[t] \in Nat BY BoundsAssumption DEF TypeOK
  <2>2. CASE depth[t] = 0 BY <2>2 DEF Linked, LinkedStack, Agree, ConnectedMeansTls
  <2>3. CASE depth[t] > 0 BY <2>3, LinkedAtTop DEF LinkedTop, Agree, ConnectedMeansTls
  <2> QED BY <2>1, <2>2, <2>3
<1> QED BY <1>1, LinkedAlways, TypeCorrect, PTL

\* A client that one thread uses sets up a TLS context only after the previous
\* one has been destroyed, provided the disconnect handler does not reconnect
\* by itself (the handler of the measurement application does, and leaks one).
THEOREM ContextSound ==
  ASSUME NEW t, Threads = {t}, ~HandlerReconnects PROVE Spec => []ContextNotLeaked
<1>1. Linked(t) => ContextNotLeaked
  BY LinkedAtTop DEF ContextNotLeaked, At, LinkedTop, LinkedConnect
<1> QED BY <1>1, LinkedAlways, PTL

-----------------------------------------------------------------------------
(* The delay before the first automatic reconnect, for every number of     *)
(* threads of which one yields.                                            *)

\* Thread y alone yields, and nobody attempts a reconnect by hand: a manual
\* attempt that fails leaves PENDING_RECONNECT behind without setting a delay.
ReconnectsByYield(y) ==
  /\ y \in Threads
  /\ \A u \in Threads \ {y} : "yield" \notin Calls[u]
  /\ "yield" \in CallbackCalls => Threads = {y}
  /\ \A u \in Threads : "attempt_reconnect" \notin Calls[u]
  /\ "attempt_reconnect" \notin CallbackCalls
  /\ ~HandlerReconnects

YieldCalls == {"yield", "handle_disconnect", "attempt_reconnect"}

\* The call has nothing to do with a reconnect.
Settled(f) ==
  /\ f.saved # "PENDING_RECONNECT" /\ f.pending # "PENDING_RECONNECT"
  /\ f.fn # "attempt_reconnect"

\* No reconnect is due.
Unpending ==
  /\ clientState # "PENDING_RECONNECT"
  /\ \A t \in Threads : \A d \in 1..depth[t] : Settled(stack[t][d])

\* The yield is about to set the delay.
Delays(f) == f.fn = "yield" /\ f.pc = "pending"

\* Thread y is the one that reconnects, and a delay is set, or about to be
\* set, or no reconnect is due.
Delayed(y) ==
  /\ \A t \in Threads : \A d \in 1..depth[t] : stack[t][d].fn \in YieldCalls => t = y
  /\ backoff >= 1 \/ Unpending \/ (depth[y] > 0 /\ Delays(Top(y)))

LEMMA DelayMove ==
  ASSUME CtlTyped, NEW y \in Threads, Delayed(y), NEW t \in Threads, depth[t] > 0,
         NEW f \in Frames, MovesTo(t, f), f.fn = Top(t).fn,
         backoff >= 1 => backoff' >= 1,
         Unpending => \/ clientState' # "PENDING_RECONNECT" /\ Settled(f)
                      \/ Delays(f),
         Delays(Top(t)) => Delays(f) \/ backoff' >= 1
  PROVE  Delayed(y)'
<1>1. depth[t] \in Nat /\ depth'[t] = depth[t] BY TopTyped, BoundsAssumption DEF MovesTo
<1>2. \A d \in 1..depth[t] : d = depth[t] \/ d \in 1..(depth[t] - 1) BY <1>1
<1>3. \A d \in 1..depth[t] : stack'[t][d] = IF d = depth[t] THEN f ELSE stack[t][d]
  BY <1>1, <1>2 DEF MovesTo, CallersStay
<1>4. \A u \in Threads \ {t} : stack'[u] = stack[u] /\ depth'[u] = depth[u]
  BY DEF MovesTo, OthersStay
<1>5. depth[t] \in 1..depth[t] BY <1>1
<1>6. \A u \in Threads : \A d \in 1..depth'[u] : stack'[u][d].fn \in YieldCalls => u = y
  BY <1>1, <1>3, <1>4, <1>5 DEF Delayed, Top
<1>7. ASSUME Unpending, clientState' # "PENDING_RECONNECT", Settled(f) PROVE Unpending'
  BY <1>1, <1>3, <1>4, <1>7 DEF Unpending
<1>8. ASSUME Delays(f) PROVE (depth[y] > 0 /\ Delays(Top(y)))'
  <2>1. t = y BY <1>5, <1>8 DEF Delayed, Delays, YieldCalls, Top
  <2> QED BY <1>1, <1>8, <2>1 DEF MovesTo, Top
<1>9. ASSUME y # t, depth[y] > 0, Delays(Top(y))
      PROVE  (depth[y] > 0 /\ Delays(Top(y)))'
  BY <1>4, <1>9 DEF Top
<1>10. CASE backoff >= 1 BY <1>6, <1>10 DEF Delayed
<1>11. CASE Unpending BY <1>6, <1>7, <1>8, <1>11 DEF Delayed
<1>12. CASE depth[y] > 0 /\ Delays(Top(y)) /\ t = y BY <1>6, <1>8, <1>12 DEF Delayed
<1>13. CASE depth[y] > 0 /\ Delays(Top(y)) /\ t # y BY <1>6, <1>9, <1>13 DEF Delayed
<1> QED BY <1>10, <1>11, <1>12, <1>13 DEF Delayed

LEMMA DelayCall ==
  ASSUME CtlTyped, NEW y \in Threads, Delayed(y), NEW t \in Threads, depth[t] > 0,
         NEW f \in Frames, NEW fn, CallsFrom(t, f, fn), f.fn = Top(t).fn,
         backoff' = backoff, ~Delays(Top(t)), fn \in YieldCalls => t = y,
         Unpending => /\ clientState' # "PENDING_RECONNECT" /\ Settled(f)
                      /\ fn # "attempt_reconnect"
  PROVE  Delayed(y)'
<1>1. depth[t] \in Nat /\ depth'[t] = depth[t] + 1 BY TopTyped, BoundsAssumption DEF CallsFrom
<1>2. \A d \in 1..(depth[t] + 1) : d = depth[t] + 1 \/ d = depth[t] \/ d \in 1..(depth[t] - 1)
  BY <1>1
<1>3. \A d \in 1..(depth[t] + 1) :
        stack'[t][d] = IF d = depth[t] + 1 THEN NewFrame(fn)
                       ELSE IF d = depth[t] THEN f ELSE stack[t][d]
  BY <1>1, <1>2 DEF CallsFrom, CallersStay
<1>4. \A u \in Threads \ {t} : stack'[u] = stack[u] /\ depth'[u] = depth[u]
  BY DEF CallsFrom, OthersStay
<1>5. depth[t] \in 1..depth[t] BY <1>1
<1>6. \A d \in 1..(depth[t] + 1) : d # depth[t] + 1 => d \in 1..depth[t] BY <1>1
<1>7. NewFrame(fn).fn = fn /\ (fn # "attempt_reconnect" => Settled(NewFrame(fn)))
  BY DEF NewFrame, Settled
<1>8. \A u \in Threads : \A d \in 1..depth'[u] : stack'[u][d].fn \in YieldCalls => u = y
  BY <1>1, <1>3, <1>4, <1>5, <1>6, <1>7 DEF Delayed, Top
<1>9. Unpending => Unpending' BY <1>1, <1>3, <1>4, <1>6, <1>7 DEF Unpending
<1>10. ASSUME depth[y] > 0, Delays(Top(y)) PROVE (depth[y] > 0 /\ Delays(Top(y)))'
  <2>1. y # t BY <1>10
  <2> QED BY <1>4, <1>10, <2>1 DEF Top
<1> QED BY <1>8, <1>9, <1>10 DEF Delayed

LEMMA DelayReturn ==
  ASSUME CtlTyped, NEW y \in Threads, Delayed(y), NEW t \in Threads, depth[t] > 0,
         NEW rc, Returns(t, rc), backoff' = backoff, ~Delays(Top(t)),
         Unpending => clientState' # "PENDING_RECONNECT"
  PROVE  Delayed(y)'
<1>1. depth[t] \in Nat /\ depth'[t] = depth[t] - 1 BY TopTyped, BoundsAssumption DEF Returns
<1>2. \A d \in 1..(depth[t] - 1) : d \in 1..depth[t] /\ stack'[t][d] = stack[t][d]
  BY <1>1 DEF Returns, CallersStay
<1>3. \A u \in Threads \ {t} : stack'[u] = stack[u] /\ depth'[u] = depth[u]
  BY DEF Returns, OthersStay
<1>4. \A u \in Threads : \A d \in 1..depth'[u] : stack'[u][d].fn \in YieldCalls => u = y
  BY <1>1, <1>2, <1>3 DEF Delayed
<1>5. Unpending => Unpending' BY <1>1, <1>2, <1>3 DEF Unpending
<1>6. ASSUME depth[y] > 0, Delays(Top(y)) PROVE (depth[y] > 0 /\ Delays(Top(y)))'
  <2>1. y # t BY <1>6
  <2> QED BY <1>3, <1>6, <2>1 DEF Top
<1> QED BY <1>4, <1>5, <1>6 DEF Delayed

LEMMA TopSettled ==
  ASSUME CtlTyped, NEW t \in Threads, depth[t] > 0, Unpending PROVE Settled(Top(t))
<1>1. depth[t] \in 1..depth[t] BY TopTyped, BoundsAssumption
<1> QED BY <1>1 DEF Unpending, Top

\* Who runs which function.
LEMMA TopOwner ==
  ASSUME CtlTyped, NEW y, Delayed(y), NEW t \in Threads, depth[t] > 0, Top(t).fn \in YieldCalls
  PROVE  t = y
<1>1. depth[t] \in 1..depth[t] BY TopTyped, BoundsAssumption
<1> QED BY <1>1 DEF Delayed, Top

LEMMA GotoDelay ==
  ASSUME CtlTyped, NEW y \in Threads, Delayed(y), NEW t \in Threads, depth[t] > 0,
         Top(t).pending = "NONE", NEW pc \in Pcs,
         stack' = [stack EXCEPT ![t][depth[t]].pc = pc], depth' = depth,
         \A u \in Threads \ {t} : ret'[u] = ret[u],
         clientState' \in {clientState, "DISCONNECTED_ERROR"},
         backoff >= 1 => backoff' >= 1, ~Delays(Top(t)) \/ backoff' >= 1
  PROVE  Delayed(y)'
<1>1. PICK f \in Frames : /\ MovesTo(t, f) /\ Alike(f, Top(t))
                          /\ f.pc = pc /\ f.pending = Top(t).pending
  BY GotoMoves
<1>2. Unpending => clientState' # "PENDING_RECONNECT" /\ Settled(f)
  BY <1>1, TopSettled DEF Settled, Unpending, Alike
<1> QED BY <1>1, <1>2, DelayMove DEF Alike

LEMMA SaveDelay ==
  ASSUME EnvTyped, CtlTyped, NEW y \in Threads, Delayed(y), NEW t \in Threads, depth[t] > 0,
         Top(t).pending = "NONE", SaveAndGoto(t, "claim"), ~Delays(Top(t)),
         UNCHANGED <<clientState, backoff>>
  PROVE  Delayed(y)'
<1>1. PICK f \in Frames : /\ MovesTo(t, f) /\ f.fn = Top(t).fn /\ f.saved = clientState
                          /\ f.pc = "claim" /\ f.pending = Top(t).pending
  BY SaveMoves DEF EnvTyped, Pcs
<1>2. Unpending => clientState' # "PENDING_RECONNECT" /\ Settled(f)
  BY <1>1, TopSettled DEF Settled, Unpending
<1> QED BY <1>1, <1>2, DelayMove

LEMMA CasDelay ==
  ASSUME CtlTyped, NEW y \in Threads, Delayed(y), NEW t \in Threads, depth[t] > 0,
         Top(t).pending = "NONE", ~Delays(Top(t)),
         NEW expected, NEW new \in ClientStates, NEW ok \in Pcs, NEW otherwise \in Pcs,
         SetClientState(t, expected, new, ok, otherwise), UNCHANGED backoff,
         \A u \in Threads \ {t} : ret'[u] = ret[u],
         Unpending => new # "PENDING_RECONNECT" \/ (Top(t).fn = "yield" /\ ok = "pending")
  PROVE  Delayed(y)'
<1>1. clientState' = clientState BY DEF SetClientState
<1>2. PICK f \in Frames :
        /\ MovesTo(t, f) /\ Alike(f, Top(t))
        /\ \/ /\ clientState = expected /\ f.pc = ok /\ f.pending = new
              /\ ThreadSupport => mutex = NoThread
              /\ mutex' = IF ThreadSupport THEN t ELSE mutex
           \/ /\ clientState # expected \/ TrylockFails(t)
              /\ f.pc = otherwise /\ f.pending = "NONE" /\ mutex' = mutex
  BY CasMoves
<1>3. /\ f.pending = "NONE" \/ (f.pending = new /\ f.pc = ok)
      /\ f.fn = Top(t).fn /\ f.saved = Top(t).saved
  BY <1>2 DEF Alike
<1>4. ASSUME Unpending PROVE Delays(f) \/ (clientState' # "PENDING_RECONNECT" /\ Settled(f))
  <2>1. Settled(Top(t)) /\ clientState # "PENDING_RECONNECT" BY <1>4, TopSettled DEF Unpending
  <2> QED BY <1>1, <1>3, <1>4, <2>1 DEF Settled, Delays
<1> QED BY <1>2, <1>3, <1>4, DelayMove

LEMMA EnterDelay ==
  ASSUME CtlTyped, NEW y \in Threads, Delayed(y), NEW t \in Threads, depth[t] > 0,
         Top(t).pending = "NONE", ~Delays(Top(t)), NEW fn \in Fns, NEW pc \in Pcs,
         Enter(t, fn, pc), UNCHANGED <<clientState, backoff>>,
         fn \in YieldCalls => t = y, Unpending => fn # "attempt_reconnect"
  PROVE  Delayed(y)'
<1>1. PICK f \in Frames : /\ CallsFrom(t, f, fn) /\ Alike(f, Top(t))
                          /\ f.pc = pc /\ f.pending = Top(t).pending
  BY EnterCalls
<1>2. Unpending => clientState' # "PENDING_RECONNECT" /\ Settled(f)
  BY <1>1, TopSettled DEF Settled, Unpending, Alike
<1> QED BY <1>1, <1>2, DelayCall DEF Alike

LEMMA LeaveDelay ==
  ASSUME CtlTyped, NEW y \in Threads, Delayed(y), NEW t \in Threads, depth[t] > 0,
         NEW rc, Leave(t, rc), UNCHANGED backoff, ~Delays(Top(t)),
         clientState' \in {clientState, Top(t).saved, "DISCONNECTED_ERROR", "DISCONNECTED_MANUALLY"}
  PROVE  Delayed(y)'
<1>1. Unpending => clientState' # "PENDING_RECONNECT" BY TopSettled DEF Settled, Unpending
<1> QED BY <1>1, LeaveReturns, DelayReturn

\* Every step of a call keeps the delay.
LEMMA RequestDelay ==
  ASSUME EnvTyped, CtlTyped, NEW y \in Threads, Delayed(y), NEW t \in Threads, RequestStep(t)
  PROVE  Delayed(y)'
<1> USE DEF At
<1>1. PICK fn \in Requests : depth[t] > 0 /\ Top(t).fn = fn /\ Top(t).pending = "NONE"
  BY DEF RequestStep, RequestRead, RequestClaim, UnsubscribeRollback, RequestSend,
         RequestWait, RequestFinish, Requests
<1>2. ~Delays(Top(t)) BY <1>1 DEF Delays, Requests
<1>3. {"claim", "send", "failed", "rollback", "finish", "wait", "done"} \subseteq Pcs BY DEF Pcs
<1>4. ret \in [Threads -> Rcs] /\ Top(t).saved \in ClientStates
  BY <1>1, TopTyped DEF CtlTyped, Frames
<1>5. UNCHANGED <<clientState, backoff>>
  BY DEF RequestStep, RequestRead, RequestClaim, UnsubscribeRollback, RequestSend,
         RequestWait, RequestFinish, SetClientState, state, env
<1>6. ASSUME NEW expected, NEW new \in {InProgress(fn), Top(t).saved}, NEW ok \in Pcs,
             NEW otherwise \in Pcs, SetClientState(t, expected, new, ok, otherwise),
             \A u \in Threads \ {t} : ret'[u] = ret[u]
      PROVE  Delayed(y)'
  <2>1. new \in ClientStates BY <1>4, StateNames
  <2>2. InProgress(fn) # "PENDING_RECONNECT" BY DEF Requests, InProgress
  <2>3. Unpending => new # "PENDING_RECONNECT" BY <1>1, <2>2, TopSettled DEF Settled
  <2> QED BY <1>1, <1>2, <1>5, <1>6, <2>1, <2>3, CasDelay
<1>7. CASE RequestRead(t)
  BY <1>1, <1>2, <1>5, <1>7, SaveDelay, LeaveDelay DEF RequestRead
<1>8. CASE RequestClaim(t)
  <2>1. (IF fn = "unsubscribe" THEN "rollback" ELSE "failed") \in Pcs BY <1>3
  <2> QED BY <1>1, <1>3, <1>6, <1>8, <2>1 DEF RequestClaim
<1>9. CASE UnsubscribeRollback(t)
  <2>1. \A u \in Threads \ {t} : ret'[u] = ret[u] BY <1>4, <1>9 DEF UnsubscribeRollback
  <2> QED BY <1>3, <1>6, <1>9, <2>1 DEF UnsubscribeRollback
<1>10. CASE RequestSend(t)
  <2>1. PICK pc \in {"finish", "wait"} : /\ stack' = [stack EXCEPT ![t][depth[t]].pc = pc]
                                         /\ depth' = depth
                                         /\ \A u \in Threads \ {t} : ret'[u] = ret[u]
    BY <1>4, <1>10 DEF RequestSend, Goto, GotoRc
  <2> QED BY <1>1, <1>2, <1>3, <1>5, <2>1, GotoDelay
<1>11. CASE RequestWait(t)
  <2>1. depth' = depth /\ \A u \in Threads \ {t} : ret'[u] = ret[u]
    BY <1>4, <1>11 DEF RequestWait, GotoRc
  <2>2. CASE stack' = [stack EXCEPT ![t][depth[t]].pc = "finish"]
    BY <1>1, <1>2, <1>3, <1>5, <2>1, <2>2, GotoDelay
  <2>3. ASSUME NEW pc \in {"send", "finish"},
               stack' = [stack EXCEPT ![t][depth[t]].pc = pc, ![t][depth[t]].acks = @ + 1]
        PROVE  Delayed(y)'
    <3>0. pc \in Pcs BY <1>3
    <3>1. PICK f \in Frames : /\ MovesTo(t, f) /\ f.fn = Top(t).fn /\ f.saved = Top(t).saved
                              /\ f.acks > 0 /\ f.pc = pc /\ f.pending = Top(t).pending
      BY <1>1, <2>1, <2>3, <3>0, AckMoves
    <3>2. Unpending => clientState' # "PENDING_RECONNECT" /\ Settled(f)
      BY <1>1, <1>5, <3>1, TopSettled DEF Settled, Unpending
    <3> QED BY <1>1, <1>2, <1>5, <3>1, <3>2, DelayMove
  <2> QED BY <1>11, <2>2, <2>3 DEF RequestWait, GotoRc
<1>12. CASE RequestFinish(t)
  <2>1. Failing(t) \in Pcs BY <1>3 DEF Failing
  <2> QED BY <1>1, <1>3, <1>6, <1>12, <2>1 DEF RequestFinish
<1> QED BY <1>7, <1>8, <1>9, <1>10, <1>11, <1>12 DEF RequestStep

LEMMA DeliverDelay ==
  ASSUME EnvTyped, CtlTyped, NEW y \in Threads, ReconnectsByYield(y), Delayed(y),
         NEW t \in Threads, DeliverStep(t)
  PROVE  Delayed(y)'
<1> USE DEF At
<1>1. /\ depth[t] > 0 /\ Top(t).pending = "NONE" /\ ~Delays(Top(t))
      /\ UNCHANGED <<clientState, backoff>>
  BY DEF DeliverStep, ReadPublish, ReadPingresp, DeliverRead, DeliverClaim, CallbackCall,
         CallbackReturn, DeliverFinish, HandlePublishAck, AtRead, Delays, SetClientState,
         state, env, Requests
<1>2. {"claim", "callback", "finish", "ack", "failed", "wait", "delivered", "keepalive"}
        \subseteq Pcs
  BY DEF Pcs
<1>3. Top(t).saved \in ClientStates BY <1>1, TopTyped DEF Frames
<1>4. CASE ReadPublish(t)
  <2>1. PICK pc \in {"wait", "delivered"} : Enter(t, "deliver", pc) BY <1>4 DEF ReadPublish
  <2>2. "deliver" \in Fns /\ "deliver" \notin YieldCalls BY DEF Fns, YieldCalls
  <2> QED BY <1>1, <1>2, <2>1, <2>2, EnterDelay
<1>5. CASE ReadPingresp(t)
  <2>1. PICK pc \in {"wait", "keepalive"} : stack' = [stack EXCEPT ![t][depth[t]].pc = pc]
    BY <1>5 DEF ReadPingresp, Goto
  <2> QED BY <1>1, <1>2, <1>5, <2>1, GotoDelay DEF ReadPingresp, Goto
<1>6. CASE DeliverRead(t) BY <1>1, <1>6, SaveDelay DEF DeliverRead
<1>7. CASE DeliverClaim(t) BY <1>1, <1>2, <1>7, StateNames, CasDelay DEF DeliverClaim
<1>8. CASE CallbackCall(t)
  <2>1. PICK fn \in CallbackCalls : Enter(t, fn, "callback") BY <1>8 DEF CallbackCall
  <2>2. fn \in Fns BY CallsAssumption DEF Fns
  <2>3. fn \in YieldCalls => t = y
    BY CallsAssumption DEF YieldCalls, ReconnectsByYield, ApiFns, Requests
  <2>4. fn # "attempt_reconnect" BY DEF ReconnectsByYield
  <2> QED BY <1>1, <1>2, <2>1, <2>2, <2>3, <2>4, EnterDelay
<1>9. CASE CallbackReturn(t) BY <1>1, <1>2, <1>9, GotoDelay DEF CallbackReturn, Goto
<1>10. CASE DeliverFinish(t)
  <2>1. Unpending => Top(t).saved # "PENDING_RECONNECT" BY <1>1, TopSettled DEF Settled
  <2> QED BY <1>1, <1>2, <1>3, <1>10, <2>1, CasDelay DEF DeliverFinish
<1>11. CASE HandlePublishAck(t) BY <1>1, <1>11, LeaveDelay DEF HandlePublishAck
<1> QED BY <1>4, <1>5, <1>6, <1>7, <1>8, <1>9, <1>10, <1>11 DEF DeliverStep

LEMMA ConnectDelay ==
  ASSUME EnvTyped, CtlTyped, NEW y \in Threads, Delayed(y), NEW t \in Threads, ConnectStep(t)
  PROVE  Delayed(y)'
<1> USE DEF At
<1>1. /\ depth[t] > 0 /\ Top(t).pending = "NONE" /\ ~Delays(Top(t))
      /\ UNCHANGED <<clientState, backoff>>
  BY DEF ConnectStep, ConnectRead, ConnectClaim, ConnectTls, ConnectConnack, ConnectTeardown,
         ConnectFail, ConnectFinish, Delays, SetClientState, state, env
<1>2. {"claim", "tls", "connack", "teardown", "fail", "finish", "done"} \subseteq Pcs BY DEF Pcs
<1>3. ret \in [Threads -> Rcs] BY DEF CtlTyped
<1>4. ASSUME NEW pc \in Pcs, Goto(t, pc) \/ \E rc : GotoRc(t, pc, rc) PROVE Delayed(y)'
  BY <1>1, <1>3, <1>4, GotoDelay DEF Goto, GotoRc
<1>5. CASE ConnectRead(t) BY <1>1, <1>5, SaveDelay, LeaveDelay DEF ConnectRead
<1>6. CASE ConnectClaim(t) BY <1>1, <1>2, <1>6, StateNames, CasDelay DEF ConnectClaim
<1>7. CASE ConnectTls(t) BY <1>2, <1>4, <1>7 DEF ConnectTls
<1>8. CASE ConnectConnack(t) BY <1>2, <1>4, <1>8 DEF ConnectConnack
<1>9. CASE ConnectTeardown(t) BY <1>2, <1>4, <1>9 DEF ConnectTeardown
<1>10. CASE ConnectFail(t) BY <1>1, <1>2, <1>10, StateNames, CasDelay DEF ConnectFail
<1>11. CASE ConnectFinish(t) BY <1>1, <1>2, <1>11, StateNames, CasDelay DEF ConnectFinish
<1> QED BY <1>5, <1>6, <1>7, <1>8, <1>9, <1>10, <1>11 DEF ConnectStep

LEMMA DisconnectDelay ==
  ASSUME EnvTyped, CtlTyped, NEW y \in Threads, Delayed(y), NEW t \in Threads, DisconnectStep(t)
  PROVE  Delayed(y)'
<1> USE DEF At
<1>1. depth[t] > 0 /\ Top(t).pending = "NONE" /\ ~Delays(Top(t)) /\ UNCHANGED backoff
  BY DEF DisconnectStep, DisconnectRead, DisconnectClaim, DisconnectSend, DisconnectManual,
         DisconnectUndo, Delays, env
<1>2. {"claim", "send", "manual", "undo", "failed"} \subseteq Pcs BY DEF Pcs
<1>3. CASE DisconnectRead(t) BY <1>1, <1>3, SaveDelay, LeaveDelay DEF DisconnectRead, state
<1>4. CASE DisconnectClaim(t) BY <1>1, <1>2, <1>4, StateNames, CasDelay DEF DisconnectClaim
<1>5. CASE DisconnectSend(t) BY <1>1, <1>2, <1>5, GotoDelay DEF DisconnectSend, Goto, state
<1>6. CASE DisconnectManual(t) BY <1>1, <1>6, LeaveDelay DEF DisconnectManual
<1>7. CASE DisconnectUndo(t) BY <1>1, <1>7, LeaveDelay DEF DisconnectUndo
<1> QED BY <1>3, <1>4, <1>5, <1>6, <1>7 DEF DisconnectStep

LEMMA ReconnectDelay ==
  ASSUME EnvTyped, CtlTyped, NEW y \in Threads, Delayed(y), NEW t \in Threads, ReconnectStep(t)
  PROVE  Delayed(y)'
<1> USE DEF At
<1>1. /\ depth[t] > 0 /\ Top(t).fn = "attempt_reconnect" /\ Top(t).pending = "NONE"
      /\ UNCHANGED <<clientState, backoff>>
  BY DEF ReconnectStep, ReconnectRead, ReconnectCheck, ReconnectPend, ReconnectResult,
         SetClientState, state, env
<1>2. ~Delays(Top(t)) /\ ~Unpending BY <1>1, TopSettled DEF Delays, Settled
<1>3. /\ {"connect", "resubscribe"} \subseteq Fns \ YieldCalls
      /\ {"check", "resub", "pend", "attempting"} \subseteq Pcs
  BY DEF Fns, ApiFns, Requests, Pcs, YieldCalls
<1>4. CASE ReconnectRead(t) BY <1>1, <1>2, <1>3, <1>4, EnterDelay, LeaveDelay DEF ReconnectRead
<1>5. CASE ReconnectCheck(t)
  <2>1. CASE Enter(t, "resubscribe", "resub") BY <1>1, <1>2, <1>3, <2>1, EnterDelay
  <2>2. CASE Goto(t, "pend") BY <1>1, <1>2, <1>3, <2>2, GotoDelay DEF Goto
  <2> QED BY <1>5, <2>1, <2>2 DEF ReconnectCheck
<1>6. CASE ReconnectPend(t) BY <1>1, <1>2, <1>3, <1>6, StateNames, CasDelay DEF ReconnectPend
<1>7. CASE ReconnectResult(t) BY <1>1, <1>2, <1>7, LeaveDelay DEF ReconnectResult
<1> QED BY <1>4, <1>5, <1>6, <1>7 DEF ReconnectStep

LEMMA YieldDelay ==
  ASSUME EnvTyped, CtlTyped, NEW y \in Threads, Delayed(y), NEW t \in Threads, YieldStep(t)
  PROVE  Delayed(y)'
<1> USE DEF At
<1>1. depth[t] > 0 /\ Top(t).fn = "yield" /\ Top(t).pending = "NONE" /\ UNCHANGED clientState
  BY DEF YieldStep, YieldRead, YieldClaim, YieldLoop, HandleReconnect, YieldCycle,
         YieldDelivered, KeepAlive, YieldLost, YieldPending, YieldReconnected,
         YieldUnclaimed, YieldNotReconnected, YieldAgain, YieldTimerExpired, YieldFinish,
         SetClientState, state
<1>2. t = y BY <1>1, TopOwner DEF YieldCalls
<1>3. ret \in [Threads -> Rcs] /\ backoff \in Nat BY DEF CtlTyped, EnvTyped
<1>4. {"loop", "claim", "cycle", "finish", "until", "keepalive", "failed", "done", "pending",
       "unclaimed", "lost", "reconn"} \subseteq Pcs
  BY DEF Pcs
<1>5. ASSUME NEW pc \in Pcs, Goto(t, pc) \/ \E rc : GotoRc(t, pc, rc),
             backoff >= 1 => backoff' >= 1, Top(t).pc # "pending" \/ backoff' >= 1
      PROVE  Delayed(y)'
  <2>1. /\ stack' = [stack EXCEPT ![t][depth[t]].pc = pc] /\ depth' = depth
        /\ \A u \in Threads \ {t} : ret'[u] = ret[u]
    BY <1>3, <1>5 DEF Goto, GotoRc
  <2>2. ~Delays(Top(t)) \/ backoff' >= 1 BY <1>5 DEF Delays
  <2> QED BY <1>1, <1>5, <2>1, <2>2, GotoDelay
<1>6. ASSUME NEW rc, Leave(t, rc), UNCHANGED backoff, Top(t).pc # "pending" PROVE Delayed(y)'
  BY <1>1, <1>6, LeaveDelay DEF Delays
<1>7. ASSUME NEW expected, NEW new \in ClientStates, NEW ok \in Pcs, NEW otherwise \in Pcs,
             SetClientState(t, expected, new, ok, otherwise), UNCHANGED backoff,
             \A u \in Threads \ {t} : ret'[u] = ret[u], Top(t).pc # "pending",
             new # "PENDING_RECONNECT" \/ ok = "pending"
      PROVE  Delayed(y)'
  BY <1>1, <1>7, CasDelay DEF Delays
<1>8. ASSUME NEW fn \in {"handle_disconnect", "attempt_reconnect"}, NEW pc \in Pcs,
             Enter(t, fn, pc), UNCHANGED backoff, Top(t).pc # "pending",
             fn = "attempt_reconnect" => clientState = "PENDING_RECONNECT"
      PROVE  Delayed(y)'
  <2>1. fn \in Fns BY DEF Fns, ApiFns
  <2>2. Unpending => fn # "attempt_reconnect" BY <1>8 DEF Unpending
  <2> QED BY <1>1, <1>2, <1>8, <2>1, <2>2, EnterDelay DEF Delays
<1>9. CASE YieldRead(t) BY <1>4, <1>5, <1>6, <1>9 DEF YieldRead, env
<1>10. CASE YieldClaim(t) BY <1>4, <1>7, <1>10, StateNames DEF YieldClaim, env
<1>11. CASE YieldLoop(t) BY <1>4, <1>5, <1>11 DEF YieldLoop, env
<1>12. CASE HandleReconnect(t) BY <1>4, <1>8, <1>12 DEF HandleReconnect, env
<1>13. CASE YieldCycle(t) BY <1>4, <1>5, <1>8, <1>13 DEF YieldCycle, env
<1>14. CASE YieldDelivered(t) BY <1>4, <1>5, <1>14 DEF YieldDelivered, env
<1>15. CASE KeepAlive(t) BY <1>4, <1>5, <1>8, <1>15 DEF KeepAlive
<1>16. CASE YieldLost(t)
  <2>1. CASE autoReconnect
    <3>1. \A u \in Threads \ {t} : ret'[u] = ret[u] BY <1>3, <1>16, <2>1 DEF YieldLost
    <3> QED BY <1>4, <1>7, <1>16, <2>1, <3>1, StateNames DEF YieldLost, env
  <2>2. CASE ~autoReconnect BY <1>6, <1>16, <2>2 DEF YieldLost, env
  <2> QED BY <2>1, <2>2
<1>17. CASE YieldPending(t) BY <1>4, <1>5, <1>17 DEF YieldPending
<1>18. CASE YieldReconnected(t) BY <1>4, <1>7, <1>18, StateNames DEF YieldReconnected, env
<1>19. CASE YieldUnclaimed(t) BY <1>4, <1>5, <1>19 DEF YieldUnclaimed, env
<1>20. CASE YieldNotReconnected(t)
  <2>1. backoff' = 2 * backoff /\ Top(t).pc # "pending" /\ \E rc : GotoRc(t, "until", rc)
    BY <1>20 DEF YieldNotReconnected
  <2>2. backoff >= 1 => backoff' >= 1 BY <1>3, <2>1
  <2> QED BY <1>4, <1>5, <2>1, <2>2
<1>21. CASE YieldAgain(t) BY <1>4, <1>5, <1>21 DEF YieldAgain, env
<1>22. CASE YieldTimerExpired(t) BY <1>4, <1>5, <1>6, <1>22 DEF YieldTimerExpired, env
<1>23. CASE YieldFinish(t)
  <2>1. Failing(t) \in Pcs BY <1>4 DEF Failing
  <2> QED BY <1>4, <1>7, <1>23, <2>1, StateNames DEF YieldFinish, env
<1> QED BY <1>9, <1>10, <1>11, <1>12, <1>13, <1>14, <1>15, <1>16, <1>17, <1>18, <1>19,
           <1>20, <1>21, <1>22, <1>23 DEF YieldStep

LEMMA LostDelay ==
  ASSUME EnvTyped, CtlTyped, NEW y \in Threads, ReconnectsByYield(y), Delayed(y),
         NEW t \in Threads, LostStep(t)
  PROVE  Delayed(y)'
<1> USE DEF At
<1>1. /\ depth[t] > 0 /\ Top(t).fn = "handle_disconnect" /\ Top(t).pending = "NONE"
      /\ UNCHANGED backoff
  BY DEF LostStep, LostDisconnect, ForceDisconnect, ForceDrop, DisconnectHandler, LostSettle, env
<1>2. ~Delays(Top(t)) BY <1>1 DEF Delays
<1>3. {"disc", "handler", "force", "drop", "settle"} \subseteq Pcs BY DEF Pcs
<1>4. ASSUME NEW pc \in Pcs, Goto(t, pc), clientState' \in {clientState, "DISCONNECTED_ERROR"}
      PROVE  Delayed(y)'
  BY <1>1, <1>2, <1>4, GotoDelay DEF Goto
<1>5. CASE LostDisconnect(t)
  <2>1. UNCHANGED clientState BY <1>5 DEF LostDisconnect, state
  <2>2. "disconnect" \in Fns \ YieldCalls BY DEF Fns, ApiFns, YieldCalls
  <2>3. CASE Enter(t, "disconnect", "disc") BY <1>1, <1>2, <1>3, <2>1, <2>2, <2>3, EnterDelay
  <2>4. CASE \E pc \in Pcs : Goto(t, pc) BY <1>4, <2>1, <2>4
  <2>5. (IF ret[t] = "SUCCESS" THEN "handler" ELSE "force") \in Pcs BY <1>3
  <2> QED BY <1>5, <2>3, <2>4, <2>5 DEF LostDisconnect
<1>6. CASE ForceDisconnect(t) BY <1>3, <1>4, <1>6 DEF ForceDisconnect
<1>7. CASE ForceDrop(t) BY <1>3, <1>4, <1>7 DEF ForceDrop, state
<1>8. CASE DisconnectHandler(t)
  BY <1>3, <1>4, <1>8 DEF DisconnectHandler, ReconnectsByYield, state
<1>9. CASE LostSettle(t) BY <1>1, <1>2, <1>9, LeaveDelay DEF LostSettle
<1> QED BY <1>5, <1>6, <1>7, <1>8, <1>9 DEF LostStep

LEMMA StoreDelay ==
  ASSUME EnvTyped, CtlTyped, NEW y \in Threads, Delayed(y), NEW t \in Threads,
         StoreClientState(t)
  PROVE  Delayed(y)'
<1>1. depth[t] > 0 /\ UNCHANGED backoff BY DEF StoreClientState, env
<1>2. clientState' = Top(t).pending BY StoreMoves
<1>3. PICK f \in Frames : /\ MovesTo(t, f) /\ Alike(f, Top(t))
                          /\ f.pc = Top(t).pc /\ f.pending = "NONE"
  BY StoreMoves
<1>4. ASSUME Unpending PROVE clientState' # "PENDING_RECONNECT" /\ Settled(f)
  <2>1. Settled(Top(t)) BY <1>1, <1>4, TopSettled
  <2> QED BY <1>2, <1>3, <2>1 DEF Settled, Alike
<1>5. Delays(Top(t)) => Delays(f) BY <1>3 DEF Delays, Alike
<1> QED BY <1>1, <1>3, <1>4, <1>5, DelayMove DEF Alike

LEMMA ReturnDelay ==
  ASSUME CtlTyped, NEW y \in Threads, Delayed(y), NEW t \in Threads, Return(t) PROVE Delayed(y)'
<1>1. /\ depth[t] > 0 /\ ~Delays(Top(t)) /\ UNCHANGED <<clientState, backoff>>
      /\ \E rc : Leave(t, rc)
  BY DEF Return, Delays, state, env
<1> QED BY <1>1, LeaveDelay

LEMMA CallApiDelay ==
  ASSUME CtlTyped, NEW y \in Threads, ReconnectsByYield(y), Delayed(y), NEW t \in Threads,
         NEW fn \in ApiFns, CallApi(t, fn)
  PROVE  Delayed(y)'
<1>1. /\ depth[t] = 0 /\ depth'[t] = 1 /\ UNCHANGED <<clientState, backoff>>
      /\ \A u \in Threads \ {t} : stack'[u] = stack[u] /\ depth'[u] = depth[u]
  BY DEF CallApi, CtlTyped, state, env
<1>2. stack'[t][1] = NewFrame(fn)
  <2>1. 1 \in 1..MaxDepth BY BoundsAssumption
  <2>2. stack[t] \in [1..MaxDepth -> Frames] BY DEF CtlTyped
  <2>3. stack'[t] = [stack[t] EXCEPT ![1] = NewFrame(fn)] BY DEF CallApi, CtlTyped
  <2> QED BY <2>1, <2>2, <2>3
<1>3. fn # "attempt_reconnect" /\ (fn \in YieldCalls => t = y)
  BY DEF CallApi, ReconnectsByYield, YieldCalls, ApiFns, Requests
<1>4. NewFrame(fn).fn = fn /\ Settled(NewFrame(fn)) BY <1>3 DEF NewFrame, Settled
<1>5. \A d \in 1..1 : d = 1 OBVIOUS
<1>6. \A u \in Threads : \A d \in 1..depth'[u] : stack'[u][d].fn \in YieldCalls => u = y
  BY <1>1, <1>2, <1>3, <1>4, <1>5 DEF Delayed
<1>7. Unpending => Unpending' BY <1>1, <1>2, <1>4, <1>5 DEF Unpending
<1>8. ASSUME depth[y] > 0, Delays(Top(y)) PROVE (depth[y] > 0 /\ Delays(Top(y)))'
  <2>1. y # t BY <1>1, <1>8
  <2> QED BY <1>1, <1>8, <2>1 DEF Top
<1> QED BY <1>1, <1>6, <1>7, <1>8 DEF Delayed

LEMMA DelayedStep ==
  ASSUME NEW y, ReconnectsByYield(y), TypeOK, Delayed(y), [Next]_vars PROVE Delayed(y)'
<1>1. EnvTyped /\ CtlTyped /\ y \in Threads BY TypeSplit DEF ReconnectsByYield
<1>2. CASE UNCHANGED vars
  BY <1>2 DEF vars, state, env, ctl, Delayed, Unpending, Top
<1>3. ASSUME NEW t \in Threads, CallStep(t) PROVE Delayed(y)'
  BY <1>1, <1>3, StoreDelay, ReturnDelay, RequestDelay, DeliverDelay, ConnectDelay,
     DisconnectDelay, ReconnectDelay, YieldDelay, LostDelay DEF CallStep
<1>4. ASSUME NEW t \in Threads, NEW fn \in ApiFns, CallApi(t, fn) PROVE Delayed(y)'
  BY <1>1, <1>4, CallApiDelay
<1>5. ASSUME NEW t \in Threads, SetAutoreconnectStatus(t) PROVE Delayed(y)'
  BY <1>5 DEF SetAutoreconnectStatus, state, ctl, Delayed, Unpending, Top
<1> QED BY <1>2, <1>3, <1>4, <1>5 DEF Next

\* The first automatic reconnect attempt waits for the minimum interval, for
\* every number of threads, with or without the mutex, as long as one thread
\* yields and reconnects are left to it.
THEOREM DelaySound ==
  ASSUME NEW y, ReconnectsByYield(y) PROVE Spec => []MinimumDelay
<1>1. Init => Delayed(y)
  <2>1. ASSUME Init PROVE Delayed(y)
    <3>1. clientState = "INITIALIZED" /\ depth = [t \in Threads |-> 0] BY <2>1 DEF Init, InitIn
    <3>2. \A t \in Threads : \A d \in 1..depth[t] : FALSE BY <3>1
    <3> QED BY <3>1, <3>2 DEF Delayed, Unpending
  <2> QED BY <2>1
<1>2. TypeOK /\ Delayed(y) /\ [Next]_vars => Delayed(y)' BY DelayedStep
<1>3. TypeOK /\ Delayed(y) => MinimumDelay
  <2> SUFFICES ASSUME TypeOK, Delayed(y), NEW t \in Threads, At(t, "attempt_reconnect", "read")
               PROVE  backoff >= 1
    BY DEF MinimumDelay
  <2>1. CtlTyped BY TypeSplit
  <2>2. depth[t] > 0 /\ Top(t).fn = "attempt_reconnect" BY DEF At
  <2>3. t = y BY <2>1, <2>2, TopOwner DEF YieldCalls
  <2>4. ~Unpending BY <2>1, <2>2, TopSettled DEF Settled
  <2> QED BY <2>2, <2>3, <2>4 DEF Delayed, Delays
<1> QED BY <1>1, <1>2, <1>3, TypeCorrect, PTL DEF Spec

-----------------------------------------------------------------------------
(* Mutual exclusion, for every number of threads.                          *)

\* A client that only sends: thread y alone connects and yields, the others
\* make requests, and at most thread w unsubscribes (two threads that do may
\* undo each other's claim).  Without subscriptions no callback runs; nobody
\* reconnects behind the back of a thread that is inside a request.
SendsOnly(y, w) ==
  /\ y \in Threads
  /\ ThreadSupport
  /\ Calls[y] \subseteq Requests \cup {"connect", "yield"}
  /\ \A t \in Threads \ {y} : Calls[t] \subseteq Requests
  /\ \A t \in Threads \ {w} : "unsubscribe" \notin Calls[t]
  /\ ~HandlerReconnects
  /\ Subscriptions = 0

\* The states such a client is in.
Steady ==
  {"INITIALIZED", "CONNECTED_IDLE", "CONNECTING", "DISCONNECTING",
   "DISCONNECTED_MANUALLY", "DISCONNECTED_ERROR", "YIELD_IN_PROGRESS"}
  \cup {InProgress(fn) : fn \in Requests}

\* While a connect is under way, and while a yield has lost its connection.
Unconnected == {"INITIALIZED", "CONNECTING", "DISCONNECTED_MANUALLY", "DISCONNECTED_ERROR"}
Losing == {"YIELD_IN_PROGRESS", "DISCONNECTING", "DISCONNECTED_MANUALLY", "DISCONNECTED_ERROR"}

\* The call f has claimed its operation and not given it up.
Engaged(f) ==
  \/ /\ f.pending = "NONE"
     /\ \/ f.fn \in Requests /\ f.pc \in {"send", "wait", "finish"}
        \/ /\ f.fn = "yield"
           /\ f.pc \in {"loop", "cycle", "delivered", "keepalive", "until", "finish"}
  \/ f.pending # "NONE" /\ f.pc = "done" /\ f.fn \in Requests \cup {"yield"}

FitRequest(t, f, s, w) ==
  /\ f.pc # "read" => f.saved = "CONNECTED_IDLE"
  /\ f.pending # "NONE" =>
       \/ f.pc = "send" /\ f.pending = InProgress(f.fn) /\ s = "CONNECTED_IDLE"
       \/ f.pc = "done" /\ f.pending = "CONNECTED_IDLE"
  /\ f.fn = "unsubscribe" =>
       t = w /\ (f.pc \in {"claim", "rollback"} => s # "UNSUBSCRIBE_IN_PROGRESS")
  /\ Engaged(f) => s = InProgress(f.fn)

FitYield(f, s) ==
  /\ f.pc \notin {"pending", "reconn", "unclaimed", "delivered"}
  /\ f.pending # "NONE" =>
       \/ f.pc = "loop" /\ f.pending = "YIELD_IN_PROGRESS" /\ s = "CONNECTED_IDLE"
       \/ f.pc = "done" /\ f.pending = "CONNECTED_IDLE"
  /\ Engaged(f) => s = "YIELD_IN_PROGRESS"

Dialling == {"claim", "tls", "connack", "teardown", "fail", "finish"}

FitConnect(f, s) ==
  /\ f.pc \in Dialling \/ f.pending # "NONE" => s \in Unconnected
  /\ f.pending \in {"NONE", "CONNECTING", "CONNECTED_IDLE", "DISCONNECTED_ERROR"}
  /\ f.pending = "CONNECTED_IDLE" => f.pc = "done"

\* The call that the application has made.
FitBase(t, f, s, m, y, w) ==
  /\ f.pending # "NONE" => m = t
  /\ \/ f.fn \in Requests /\ FitRequest(t, f, s, w)
     \/ f.fn = "yield" /\ t = y /\ FitYield(f, s)
     \/ f.fn = "connect" /\ t = y /\ FitConnect(f, s)

\* The calls of a yield that has lost its connection.
FitLost(t, calls, n, s, m, y) ==
  /\ t = y
  /\ calls[1].fn = "yield" /\ calls[1].pc = "lost" /\ calls[1].pending = "NONE"
  /\ calls[2].fn = "handle_disconnect" /\ calls[2].pending = "NONE"
  /\ s \in Losing
  /\ n = 2 \/ /\ n = 3 /\ calls[2].pc = "disc" /\ calls[3].fn = "disconnect"
              /\ calls[3].pc # "read" => calls[3].saved = "YIELD_IN_PROGRESS"
              /\ calls[3].pending # "NONE" => calls[3].pending = "DISCONNECTING" /\ m = t

Fit(t, y, w) ==
  /\ depth[t] = 1 => FitBase(t, stack[t][1], clientState, mutex, y, w)
  /\ depth[t] > 1 => FitLost(t, stack[t], depth[t], clientState, mutex, y)

\* The thread is inside an operation or loses the connection of one.
Holds(t) == depth[t] > 1 \/ (depth[t] = 1 /\ Engaged(stack[t][1]))

Excluded(y, w) ==
  /\ ~autoReconnect
  /\ clientState \in Steady
  /\ \A t \in Threads : Fit(t, y, w)
  /\ \A t, u \in Threads : Holds(t) /\ Holds(u) => t = u

\* A thread that the state does not matter to.
Passive(t) ==
  \/ depth[t] = 0
  \/ /\ depth[t] = 1 /\ stack[t][1].pending = "NONE" /\ ~Engaged(stack[t][1])
     /\ stack[t][1].fn = "connect" => stack[t][1].pc \notin Dialling

LEMMA SteadyNames ==
  /\ \A fn \in Requests : /\ InProgress(fn) \notin Unconnected \cup Losing
                          /\ InProgress(fn) # "CONNECTED_IDLE"
                          /\ InProgress(fn) \in Steady
  /\ InProgress("unsubscribe") = "UNSUBSCRIBE_IN_PROGRESS"
  /\ \A fn \in Requests : InProgress(fn) = "UNSUBSCRIBE_IN_PROGRESS" => fn = "unsubscribe"
  /\ "UNSUBSCRIBE_IN_PROGRESS" \notin Unconnected \cup Losing
  /\ "CONNECTED_IDLE" \notin Unconnected \cup Losing
  /\ Unconnected \cup Losing \subseteq Steady
  /\ "CONNECTED_IDLE" \in Steady
  /\ \A s \in Steady : s \notin {"PENDING_RECONNECT", "WAIT_FOR_CB_RETURN"}
BY DEF Requests, InProgress, Unconnected, Losing, Steady

LEMMA SameFit ==
  ASSUME CtlTyped, NEW y, NEW w, NEW u \in Threads, Fit(u, y, w),
         stack'[u] = stack[u], depth'[u] = depth[u], clientState' = clientState,
         mutex' = mutex \/ mutex = NoThread
  PROVE  Fit(u, y, w)'
<1>1. mutex = u => mutex' = u BY ThreadsAssumption
<1>2. depth[u] = 1 => FitBase(u, stack[u][1], clientState, mutex', y, w)
  BY <1>1 DEF Fit, FitBase
<1>3. depth[u] > 1 => FitLost(u, stack[u], depth[u], clientState, mutex', y)
  BY <1>1 DEF Fit, FitLost
<1> QED BY <1>2, <1>3 DEF Fit

LEMMA PassiveFit ==
  ASSUME CtlTyped, NEW y, NEW w, NEW u \in Threads, Fit(u, y, w), Passive(u),
         stack'[u] = stack[u], depth'[u] = depth[u],
         clientState' # "UNSUBSCRIBE_IN_PROGRESS" \/ u # w
  PROVE  Fit(u, y, w)'
<1>1. depth[u] \in Nat BY BoundsAssumption DEF CtlTyped
<1>2. depth[u] = 0 \/ depth[u] = 1 BY <1>1 DEF Passive
<1>3. CASE depth[u] = 0 BY <1>3 DEF Fit
<1>4. CASE depth[u] = 1
  <2>1. FitBase(u, stack[u][1], clientState', mutex', y, w)
    BY <1>4 DEF Fit, Passive, FitBase, FitRequest, FitYield, FitConnect
  <2> QED BY <1>4, <2>1 DEF Fit
<1> QED BY <1>2, <1>3, <1>4

\* A thread that changes the state holds it, or has the mutex while nobody
\* holds it: every other thread is passive.
LEMMA OthersPassive ==
  ASSUME CtlTyped, NEW y, NEW w, Excluded(y, w), NEW t \in Threads, NEW u \in Threads, u # t,
         \/ mutex = t /\ clientState = "CONNECTED_IDLE"
         \/ mutex = t /\ Holds(t) /\ clientState \notin Unconnected
         \/ mutex = t /\ t = y /\ clientState \in Unconnected
         \/ Holds(t) /\ t = y /\ clientState \in Losing
  PROVE  Passive(u)
<1>1. depth[u] \in Nat BY BoundsAssumption DEF CtlTyped
<1>2. Fit(u, y, w) /\ (Holds(t) => ~Holds(u)) BY DEF Excluded
<1>3. ASSUME depth[u] > 1 PROVE FALSE
  <2>1. u = y /\ clientState \in Losing /\ Holds(u) BY <1>2, <1>3 DEF Fit, FitLost, Holds
  <2> QED BY <1>2, <2>1, SteadyNames
<1>4. CASE depth[u] = 1
  <2> DEFINE f == stack[u][1]
  <2>1. FitBase(u, f, clientState, mutex, y, w) BY <1>2, <1>4 DEF Fit
  <2>2. Engaged(f) => Holds(u) BY <1>4 DEF Holds
  <2> HIDE DEF f
  <2>3. CASE f.fn \in Requests /\ FitRequest(u, f, clientState, w)
    <3>1. ~Engaged(f)
      <4>1. Engaged(f) => clientState = InProgress(f.fn) BY <2>3 DEF FitRequest
      <4> QED BY <1>2, <2>2, <2>3, <4>1, SteadyNames
    <3>2. f.pending = "NONE"
      <4>1. f.pending # "NONE" => mutex = u BY <2>1 DEF FitBase
      <4>2. f.pending # "NONE" => clientState = "CONNECTED_IDLE" \/ Engaged(f)
        BY <2>3 DEF FitRequest, Engaged
      <4> QED BY <3>1, <4>1, <4>2, SteadyNames
    <3>3. f.fn # "connect" BY <2>3 DEF Requests
    <3> QED BY <1>4, <3>1, <3>2, <3>3 DEF Passive, f
  <2>4. CASE f.fn = "yield" /\ u = y /\ FitYield(f, clientState)
    <3>1. ~Engaged(f)
      <4>1. Engaged(f) => clientState = "YIELD_IN_PROGRESS" BY <2>4 DEF FitYield
      <4> QED BY <1>2, <2>2, <2>4, <4>1 DEF Unconnected
    <3>2. f.pending = "NONE" BY <2>1, <2>4 DEF FitBase
    <3> QED BY <1>4, <2>4, <3>1, <3>2 DEF Passive, f
  <2>5. CASE f.fn = "connect" /\ u = y /\ FitConnect(f, clientState)
    <3>1. f.pending = "NONE" BY <2>1, <2>5 DEF FitBase
    <3>2. f.pc \notin Dialling
      <4>1. f.pc \in Dialling => clientState \in Unconnected BY <2>5 DEF FitConnect
      <4> QED BY <2>5, <4>1, SteadyNames
    <3>3. ~Engaged(f) BY <2>5, <3>1 DEF Engaged, Requests
    <3> QED BY <1>4, <3>1, <3>2, <3>3 DEF Passive, f
  <2> QED BY <2>1, <2>3, <2>4, <2>5 DEF FitBase
<1> QED BY <1>1, <1>3, <1>4 DEF Passive

\* A step of thread t that leaves the state alone.
LEMMA SameExcluded ==
  ASSUME CtlTyped, NEW y, NEW w, Excluded(y, w), NEW t \in Threads,
         \A u \in Threads \ {t} : stack'[u] = stack[u] /\ depth'[u] = depth[u],
         UNCHANGED <<clientState, autoReconnect>>, mutex' = mutex \/ mutex = NoThread,
         Fit(t, y, w)', Holds(t)' => Holds(t)
  PROVE  Excluded(y, w)'
<1>1. \A u \in Threads \ {t} : Fit(u, y, w)'
  <2> SUFFICES ASSUME NEW u \in Threads \ {t} PROVE Fit(u, y, w)' OBVIOUS
  <2>1. Fit(u, y, w) BY DEF Excluded
  <2> QED BY <2>1, SameFit
<1>2. \A u \in Threads \ {t} : Holds(u)' => Holds(u) BY DEF Holds
<1> QED BY <1>1, <1>2 DEF Excluded

\* A step of thread t that changes it.
LEMMA ChangeExcluded ==
  ASSUME CtlTyped, NEW y, NEW w, Excluded(y, w), NEW t \in Threads,
         \A u \in Threads \ {t} : stack'[u] = stack[u] /\ depth'[u] = depth[u],
         \A u \in Threads \ {t} : Passive(u), clientState' \in Steady,
         clientState' = "UNSUBSCRIBE_IN_PROGRESS" => t = w,
         UNCHANGED autoReconnect, Fit(t, y, w)'
  PROVE  Excluded(y, w)'
<1>1. \A u \in Threads \ {t} : Fit(u, y, w)'
  <2> SUFFICES ASSUME NEW u \in Threads \ {t} PROVE Fit(u, y, w)' OBVIOUS
  <2>1. Fit(u, y, w) BY DEF Excluded
  <2> QED BY <2>1, PassiveFit
<1>2. \A u \in Threads \ {t} : ~Holds(u)'
  <2> SUFFICES ASSUME NEW u \in Threads \ {t} PROVE ~Holds(u)' OBVIOUS
  <2>1. depth[u] \in Nat BY BoundsAssumption DEF CtlTyped
  <2> QED BY <2>1 DEF Holds, Passive
<1> QED BY <1>1, <1>2 DEF Excluded

\* The steps of a call that the application has made itself: it moves, it
\* returns, or it stores a state.
LEMMA BaseMove ==
  ASSUME CtlTyped, NEW y, NEW w, Excluded(y, w), NEW t \in Threads, depth[t] = 1,
         NEW f \in Frames, MovesTo(t, f), UNCHANGED <<clientState, autoReconnect>>,
         mutex' = mutex \/ mutex = NoThread,
         FitBase(t, f, clientState, mutex', y, w), Engaged(f) => Engaged(Top(t))
  PROVE  Excluded(y, w)'
<1>1. depth'[t] = 1 /\ stack'[t][1] = f BY DEF MovesTo
<1>2. Fit(t, y, w)' BY <1>1 DEF Fit
<1>3. Holds(t)' => Holds(t) BY <1>1 DEF Holds, Top
<1>4. \A u \in Threads \ {t} : stack'[u] = stack[u] /\ depth'[u] = depth[u]
  BY DEF MovesTo, OthersStay
<1> QED BY <1>2, <1>3, <1>4, SameExcluded

LEMMA BaseReturn ==
  ASSUME CtlTyped, NEW y, NEW w, Excluded(y, w), NEW t \in Threads, depth[t] = 1,
         NEW rc, Leave(t, rc), UNCHANGED <<clientState, autoReconnect, mutex>>
  PROVE  Excluded(y, w)'
<1>1. Returns(t, rc) BY LeaveReturns
<1>2. depth'[t] = 0 BY <1>1 DEF Returns
<1>3. Fit(t, y, w)' /\ ~Holds(t)' BY <1>2 DEF Fit, Holds
<1>4. \A u \in Threads \ {t} : stack'[u] = stack[u] /\ depth'[u] = depth[u]
  BY <1>1 DEF Returns, OthersStay
<1> QED BY <1>3, <1>4, SameExcluded

LEMMA BaseStore ==
  ASSUME CtlTyped, NEW y, NEW w, Excluded(y, w), NEW t \in Threads, depth[t] = 1,
         NEW f \in Frames, MovesTo(t, f), UNCHANGED autoReconnect,
         \/ mutex = t /\ clientState = "CONNECTED_IDLE"
         \/ mutex = t /\ Holds(t) /\ clientState \notin Unconnected
         \/ mutex = t /\ t = y /\ clientState \in Unconnected,
         clientState' \in Steady, clientState' = "UNSUBSCRIBE_IN_PROGRESS" => t = w,
         FitBase(t, f, clientState', mutex', y, w)
  PROVE  Excluded(y, w)'
<1>1. depth'[t] = 1 /\ stack'[t][1] = f BY DEF MovesTo
<1>2. Fit(t, y, w)' BY <1>1 DEF Fit
<1>3. \A u \in Threads \ {t} : stack'[u] = stack[u] /\ depth'[u] = depth[u]
  BY DEF MovesTo, OthersStay
<1>4. \A u \in Threads \ {t} : Passive(u) BY OthersPassive
<1> QED BY <1>2, <1>3, <1>4, ChangeExcluded

\* A yield that has lost its connection may do as it likes with the state.
LEMMA LostChange ==
  ASSUME CtlTyped, NEW y, NEW w, Excluded(y, w), NEW t \in Threads, depth[t] > 1,
         OthersStay(t), UNCHANGED autoReconnect, clientState' \in Losing, Fit(t, y, w)'
  PROVE  Excluded(y, w)'
<1>1. Holds(t) /\ t = y /\ clientState \in Losing BY DEF Excluded, Fit, FitLost, Holds
<1>2. \A u \in Threads \ {t} : Passive(u) BY <1>1, OthersPassive
<1>3. clientState' \in Steady /\ clientState' # "UNSUBSCRIBE_IN_PROGRESS" BY SteadyNames
<1>4. \A u \in Threads \ {t} : stack'[u] = stack[u] /\ depth'[u] = depth[u] BY DEF OthersStay
<1> QED BY <1>2, <1>3, <1>4, ChangeExcluded

\* Where a thread can be.
LEMMA ExcludedTop ==
  ASSUME CtlTyped, NEW y, NEW w, Excluded(y, w), NEW t \in Threads, depth[t] > 0
  PROVE  /\ depth[t] = 1 \/ depth[t] = 2 \/ depth[t] = 3
         /\ depth[t] = 1 => FitBase(t, Top(t), clientState, mutex, y, w)
         /\ depth[t] > 1 => FitLost(t, stack[t], depth[t], clientState, mutex, y)
         /\ Top(t).fn \notin {"handle_disconnect", "disconnect"} => depth[t] = 1
         /\ Top(t).fn = "handle_disconnect" => depth[t] = 2
         /\ Top(t).fn = "disconnect" => depth[t] = 3
         /\ depth[t] = 2 => Top(t).fn = "handle_disconnect"
<1>1. depth[t] \in Nat BY BoundsAssumption DEF CtlTyped
<1>2. Fit(t, y, w) BY DEF Excluded
<1>3. depth[t] = 1 => FitBase(t, Top(t), clientState, mutex, y, w) BY <1>2 DEF Fit, Top
<1>4. depth[t] > 1 => FitLost(t, stack[t], depth[t], clientState, mutex, y) BY <1>2 DEF Fit
<1>5. depth[t] = 1 \/ depth[t] = 2 \/ depth[t] = 3 BY <1>1, <1>4 DEF FitLost
<1>6. CASE depth[t] = 1
  <2>1. Top(t).fn \in Requests \cup {"yield", "connect"} BY <1>3, <1>6 DEF FitBase
  <2> QED BY <1>3, <1>6, <2>1 DEF Requests
<1>7. CASE depth[t] = 2 BY <1>4, <1>7 DEF FitLost, Top
<1>8. CASE depth[t] = 3 BY <1>4, <1>8 DEF FitLost, Top
<1> QED BY <1>3, <1>4, <1>5, <1>6, <1>7, <1>8

LEMMA RequestExcluded ==
  ASSUME EnvTyped, CtlTyped, NEW y, NEW w, SendsOnly(y, w), Excluded(y, w),
         NEW t \in Threads, RequestStep(t)
  PROVE  Excluded(y, w)'
<1> USE DEF At
<1>1. PICK fn \in Requests : depth[t] > 0 /\ Top(t).fn = fn /\ Top(t).pending = "NONE"
  BY DEF RequestStep, RequestRead, RequestClaim, UnsubscribeRollback, RequestSend,
         RequestWait, RequestFinish, Requests
<1>2. depth[t] = 1 BY <1>1, ExcludedTop DEF Requests
<1>3. FitRequest(t, Top(t), clientState, w)
  BY <1>1, <1>2, ExcludedTop DEF FitBase, Requests
<1>4. {"claim", "send", "failed", "rollback", "finish", "wait", "done"} \subseteq Pcs BY DEF Pcs
<1>5. ret \in [Threads -> Rcs] /\ Top(t).saved \in ClientStates
  BY <1>1, TopTyped DEF CtlTyped, Frames
<1>6. UNCHANGED <<clientState, autoReconnect>>
  BY DEF RequestStep, RequestRead, RequestClaim, UnsubscribeRollback, RequestSend,
         RequestWait, RequestFinish, SetClientState, state, env
<1>7. ASSUME NEW f \in Frames, MovesTo(t, f), f.fn = fn, FitRequest(t, f, clientState, w),
             f.pending # "NONE" => mutex' = t, mutex' = mutex \/ mutex = NoThread,
             Engaged(f) => Engaged(Top(t))
      PROVE  Excluded(y, w)'
  <2>1. FitBase(t, f, clientState, mutex', y, w) BY <1>7 DEF FitBase
  <2> QED BY <1>2, <1>6, <1>7, <2>1, BaseMove
<1>8. ASSUME NEW f \in Frames, MovesTo(t, f), f.fn = fn, f.saved = Top(t).saved,
             f.pending = "NONE", mutex' = mutex, Top(t).pc \in {"send", "wait"},
             f.pc \in {"send", "wait", "finish"}
      PROVE  Excluded(y, w)'
  <2>1. Engaged(Top(t)) BY <1>1, <1>8 DEF Engaged
  <2>2. clientState = InProgress(fn) /\ Top(t).saved = "CONNECTED_IDLE"
    BY <1>1, <1>3, <1>8, <2>1 DEF FitRequest
  <2>3. FitRequest(t, f, clientState, w) BY <1>1, <1>3, <1>8, <2>2 DEF FitRequest
  <2> QED BY <1>7, <1>8, <2>1, <2>3
<1>9. CASE RequestRead(t)
  <2>1. CASE clientState \in ClaimableFrom(fn) /\ SaveAndGoto(t, "claim")
    <3>1. clientState = "CONNECTED_IDLE"
      BY <2>1, SteadyNames DEF Excluded, ClaimableFrom
    <3>2. PICK f \in Frames :
            /\ MovesTo(t, f) /\ f.fn = Top(t).fn /\ f.saved = clientState
            /\ f.acks = Top(t).acks /\ f.pc = "claim" /\ f.pending = Top(t).pending
      BY <1>1, <1>4, <2>1, SaveMoves DEF EnvTyped
    <3>3. ~Engaged(f) BY <1>1, <3>2 DEF Engaged
    <3>4. FitRequest(t, f, clientState, w) BY <1>1, <1>3, <3>1, <3>2, <3>3 DEF FitRequest
    <3> QED BY <1>1, <1>7, <1>9, <3>2, <3>3, <3>4 DEF RequestRead, state
  <2>2. CASE \E rc : Leave(t, rc) BY <1>2, <1>6, <1>9, <2>2, BaseReturn DEF RequestRead, state
  <2> QED BY <1>1, <1>9, <2>1, <2>2 DEF RequestRead
<1>10. CASE RequestClaim(t)
  <2> DEFINE otherwise == IF fn = "unsubscribe" THEN "rollback" ELSE "failed"
  <2>1. /\ Top(t).pc = "claim" /\ UNCHANGED ret
        /\ SetClientState(t, Top(t).saved, InProgress(fn), "send", otherwise)
    BY <1>1, <1>10 DEF RequestClaim
  <2>2. InProgress(fn) \in ClientStates /\ otherwise \in Pcs BY <1>4, StateNames
  <2>3. Top(t).saved = "CONNECTED_IDLE" BY <1>3, <2>1 DEF FitRequest
  <2>4. otherwise \in {"rollback", "failed"} OBVIOUS
  <2> HIDE DEF otherwise
  <2>5. PICK f \in Frames :
          /\ MovesTo(t, f) /\ Alike(f, Top(t))
          /\ \/ /\ clientState = Top(t).saved /\ f.pc = "send" /\ f.pending = InProgress(fn)
                /\ ThreadSupport => mutex = NoThread
                /\ mutex' = IF ThreadSupport THEN t ELSE mutex
             \/ /\ clientState # Top(t).saved \/ TrylockFails(t)
                /\ f.pc = otherwise /\ f.pending = "NONE" /\ mutex' = mutex
    BY <1>1, <1>4, <2>1, <2>2, CasMoves
  <2>6. InProgress(fn) # "NONE" BY DEF InProgress, Requests
  <2>7. ~Engaged(f) /\ f.fn = fn /\ f.saved = "CONNECTED_IDLE"
    BY <1>1, <2>3, <2>4, <2>5, <2>6 DEF Engaged, Alike
  <2>8. FitRequest(t, f, clientState, w)
    BY <1>1, <1>3, <2>1, <2>3, <2>4, <2>5, <2>6, <2>7 DEF FitRequest
  <2>9. (f.pending # "NONE" => mutex' = t) /\ (mutex' = mutex \/ mutex = NoThread)
    BY <2>5 DEF SendsOnly
  <2> QED BY <1>7, <2>5, <2>7, <2>8, <2>9
<1>11. CASE UnsubscribeRollback(t)
  <2>1. /\ fn = "unsubscribe" /\ Top(t).pc = "rollback"
        /\ SetClientState(t, InProgress(fn), Top(t).saved, "done", "failed")
    BY <1>1, <1>11 DEF UnsubscribeRollback
  <2>2. \A u \in Threads \ {t} : ret'[u] = ret[u] BY <1>5, <1>11 DEF UnsubscribeRollback
  <2>3. PICK f \in Frames :
          /\ MovesTo(t, f) /\ Alike(f, Top(t))
          /\ \/ /\ clientState = InProgress(fn) /\ f.pc = "done" /\ f.pending = Top(t).saved
                /\ ThreadSupport => mutex = NoThread
                /\ mutex' = IF ThreadSupport THEN t ELSE mutex
             \/ /\ clientState # InProgress(fn) \/ TrylockFails(t)
                /\ f.pc = "failed" /\ f.pending = "NONE" /\ mutex' = mutex
    BY <1>1, <1>4, <1>5, <2>1, <2>2, CasMoves
  <2>4. clientState # InProgress(fn) BY <1>1, <1>3, <2>1, SteadyNames DEF FitRequest
  <2>5. f.pc = "failed" /\ f.pending = "NONE" /\ mutex' = mutex /\ f.fn = fn /\ f.saved = Top(t).saved
    BY <1>1, <2>3, <2>4 DEF Alike
  <2>6. ~Engaged(f) BY <2>5 DEF Engaged
  <2>7. FitRequest(t, f, clientState, w) BY <1>1, <1>3, <2>1, <2>5, <2>6 DEF FitRequest
  <2> QED BY <1>7, <2>3, <2>5, <2>6, <2>7
<1>12. CASE RequestSend(t)
  <2>1. PICK pc \in {"finish", "wait"} : /\ stack' = [stack EXCEPT ![t][depth[t]].pc = pc]
                                         /\ depth' = depth
                                         /\ \A u \in Threads \ {t} : ret'[u] = ret[u]
    BY <1>5, <1>12 DEF RequestSend, Goto, GotoRc
  <2>2. Top(t).pc = "send" /\ mutex' = mutex BY <1>12 DEF RequestSend, state
  <2>3. pc \in Pcs BY <1>4
  <2>4. PICK f \in Frames : /\ MovesTo(t, f) /\ Alike(f, Top(t))
                            /\ f.pc = pc /\ f.pending = Top(t).pending
    BY <1>1, <2>1, <2>3, GotoMoves
  <2> QED BY <1>1, <1>8, <2>2, <2>4 DEF Alike
<1>13. CASE RequestWait(t)
  <2>1. /\ depth' = depth /\ \A u \in Threads \ {t} : ret'[u] = ret[u]
        /\ Top(t).pc = "wait" /\ mutex' = mutex
    BY <1>5, <1>13 DEF RequestWait, GotoRc, state
  <2>2. CASE stack' = [stack EXCEPT ![t][depth[t]].pc = "finish"]
    <3>1. PICK f \in Frames : /\ MovesTo(t, f) /\ Alike(f, Top(t))
                              /\ f.pc = "finish" /\ f.pending = Top(t).pending
      BY <1>1, <1>4, <2>1, <2>2, GotoMoves
    <3> QED BY <1>1, <1>8, <2>1, <3>1 DEF Alike
  <2>3. ASSUME NEW pc \in {"send", "finish"},
               stack' = [stack EXCEPT ![t][depth[t]].pc = pc, ![t][depth[t]].acks = @ + 1]
        PROVE  Excluded(y, w)'
    <3>0. pc \in Pcs BY <1>4
    <3>1. PICK f \in Frames : /\ MovesTo(t, f) /\ f.fn = Top(t).fn /\ f.saved = Top(t).saved
                              /\ f.acks > 0 /\ f.pc = pc /\ f.pending = Top(t).pending
      BY <1>1, <2>1, <2>3, <3>0, AckMoves
    <3> QED BY <1>1, <1>8, <2>1, <3>1
  <2> QED BY <1>13, <2>2, <2>3 DEF RequestWait, GotoRc
<1>14. CASE RequestFinish(t)
  <2>1. /\ Top(t).pc = "finish" /\ UNCHANGED ret
        /\ SetClientState(t, InProgress(fn), Top(t).saved, "done", Failing(t))
    BY <1>1, <1>14 DEF RequestFinish
  <2>2. Failing(t) \in Pcs /\ Failing(t) \in {"done", "failed"} BY <1>4 DEF Failing
  <2>3. Engaged(Top(t)) BY <1>1, <2>1 DEF Engaged
  <2>4. clientState = InProgress(fn) /\ Top(t).saved = "CONNECTED_IDLE"
    BY <1>1, <1>3, <2>1, <2>3 DEF FitRequest
  <2>5. PICK f \in Frames :
          /\ MovesTo(t, f) /\ Alike(f, Top(t))
          /\ \/ /\ clientState = InProgress(fn) /\ f.pc = "done" /\ f.pending = Top(t).saved
                /\ ThreadSupport => mutex = NoThread
                /\ mutex' = IF ThreadSupport THEN t ELSE mutex
             \/ /\ clientState # InProgress(fn) \/ TrylockFails(t)
                /\ f.pc = Failing(t) /\ f.pending = "NONE" /\ mutex' = mutex
    BY <1>1, <1>4, <1>5, <2>1, <2>2, CasMoves
  <2>6. f.fn = fn /\ f.saved = "CONNECTED_IDLE" BY <1>1, <2>4, <2>5 DEF Alike
  <2>7. FitRequest(t, f, clientState, w)
    BY <1>1, <1>3, <2>2, <2>4, <2>5, <2>6 DEF FitRequest
  <2>8. (f.pending # "NONE" => mutex' = t) /\ (mutex' = mutex \/ mutex = NoThread)
    BY <2>5 DEF SendsOnly
  <2> QED BY <1>7, <2>3, <2>5, <2>6, <2>7, <2>8
<1> QED BY <1>9, <1>10, <1>11, <1>12, <1>13, <1>14 DEF RequestStep

LEMMA DeliverExcluded ==
  ASSUME EnvTyped, CtlTyped, NEW y, NEW w, SendsOnly(y, w), Excluded(y, w),
         NEW t \in Threads, DeliverStep(t)
  PROVE  Excluded(y, w)'
<1> USE DEF At
<1>1. depth[t] > 0 => Top(t).fn # "deliver"
  <2>1. ASSUME depth[t] > 0, Top(t).fn = "deliver" PROVE FALSE
    <3>1. depth[t] = 1 BY <2>1, ExcludedTop
    <3> QED BY <2>1, <3>1, ExcludedTop DEF FitBase, Requests
  <2> QED BY <2>1
<1>2. ~ReadPublish(t) BY DEF ReadPublish, SendsOnly
<1>3. ReadPingresp(t)
  BY <1>1, <1>2 DEF DeliverStep, DeliverRead, DeliverClaim, CallbackCall,
     CallbackReturn, DeliverFinish, HandlePublishAck
<1>4. /\ depth[t] > 0 /\ Top(t).pending = "NONE"
      /\ \/ Top(t).fn \in Requests /\ Top(t).pc = "wait"
         \/ Top(t).fn = "yield" /\ Top(t).pc = "cycle"
  BY <1>3 DEF ReadPingresp, AtRead
<1>5. depth[t] = 1 BY <1>4, ExcludedTop DEF Requests
<1>6. FitBase(t, Top(t), clientState, mutex, y, w) BY <1>4, <1>5, ExcludedTop
<1>7. Engaged(Top(t)) BY <1>4 DEF Engaged
<1>8. PICK pc \in {"wait", "keepalive"} :
        /\ pc = IF Top(t).fn = "yield" THEN "keepalive" ELSE "wait"
        /\ stack' = [stack EXCEPT ![t][depth[t]].pc = pc] /\ UNCHANGED <<depth, ret>>
  BY <1>3 DEF ReadPingresp, Goto
<1>9. pc \in Pcs BY DEF Pcs
<1>10. PICK f \in Frames : /\ MovesTo(t, f) /\ Alike(f, Top(t))
                           /\ f.pc = pc /\ f.pending = Top(t).pending
  BY <1>4, <1>8, <1>9, GotoMoves
<1>11. CASE Top(t).fn \in Requests
  <2>1. f.fn \in Requests /\ f.fn = Top(t).fn /\ f.pc = "wait" /\ f.saved = Top(t).saved
    BY <1>8, <1>10, <1>11 DEF Alike, Requests
  <2>2. FitRequest(t, Top(t), clientState, w) BY <1>6, <1>11 DEF FitBase, Requests
  <2>3. FitRequest(t, f, clientState, w) BY <1>4, <1>7, <1>10, <1>11, <2>1, <2>2 DEF FitRequest, Requests
  <2>4. FitBase(t, f, clientState, mutex', y, w) BY <1>4, <1>10, <2>1, <2>3 DEF FitBase
  <2> QED BY <1>3, <1>5, <1>7, <1>10, <2>4, BaseMove DEF ReadPingresp, state
<1>12. CASE Top(t).fn = "yield"
  <2>1. f.fn = "yield" /\ f.pc = "keepalive" BY <1>8, <1>10, <1>12 DEF Alike
  <2>2. FitYield(Top(t), clientState) /\ t = y BY <1>6, <1>12 DEF FitBase, Requests
  <2>3. FitYield(f, clientState) BY <1>4, <1>7, <1>10, <2>1, <2>2 DEF FitYield
  <2>4. FitBase(t, f, clientState, mutex', y, w) BY <1>4, <1>10, <2>1, <2>2, <2>3 DEF FitBase
  <2> QED BY <1>3, <1>5, <1>7, <1>10, <2>4, BaseMove DEF ReadPingresp, state
<1> QED BY <1>4, <1>11, <1>12

LEMMA ConnectExcluded ==
  ASSUME EnvTyped, CtlTyped, NEW y, NEW w, SendsOnly(y, w), Excluded(y, w),
         NEW t \in Threads, ConnectStep(t)
  PROVE  Excluded(y, w)'
<1> USE DEF At
<1>1. /\ depth[t] > 0 /\ Top(t).fn = "connect" /\ Top(t).pending = "NONE"
      /\ UNCHANGED <<clientState, autoReconnect>>
  BY DEF ConnectStep, ConnectRead, ConnectClaim, ConnectTls, ConnectConnack, ConnectTeardown,
         ConnectFail, ConnectFinish, SetClientState, state, env
<1>2. depth[t] = 1 BY <1>1, ExcludedTop
<1>3. t = y /\ FitConnect(Top(t), clientState)
  BY <1>1, <1>2, ExcludedTop DEF FitBase, Requests
<1>4. Dialling \subseteq Pcs /\ "done" \in Pcs BY DEF Dialling, Pcs
<1>5. ret \in [Threads -> Rcs] BY DEF CtlTyped
<1>6. ASSUME NEW f \in Frames, MovesTo(t, f), f.fn = "connect", FitConnect(f, clientState),
             f.pending # "NONE" => mutex' = t, mutex' = mutex \/ mutex = NoThread
      PROVE  Excluded(y, w)'
  <2>1. FitBase(t, f, clientState, mutex', y, w) BY <1>3, <1>6 DEF FitBase
  <2>2. ~Engaged(f) BY <1>6 DEF Engaged, Requests
  <2> QED BY <1>1, <1>2, <1>6, <2>1, <2>2, BaseMove
<1>7. ASSUME NEW pc \in Dialling, Goto(t, pc) \/ \E rc : GotoRc(t, pc, rc), mutex' = mutex,
             Top(t).pc \in Dialling
      PROVE  Excluded(y, w)'
  <2>1. /\ stack' = [stack EXCEPT ![t][depth[t]].pc = pc] /\ depth' = depth
        /\ \A u \in Threads \ {t} : ret'[u] = ret[u]
    BY <1>5, <1>7 DEF Goto, GotoRc
  <2>2. pc \in Pcs BY <1>4
  <2>3. PICK f \in Frames : /\ MovesTo(t, f) /\ Alike(f, Top(t))
                            /\ f.pc = pc /\ f.pending = Top(t).pending
    BY <1>1, <2>1, <2>2, GotoMoves
  <2>4. FitConnect(f, clientState) BY <1>1, <1>3, <1>7, <2>3 DEF FitConnect
  <2> QED BY <1>1, <1>6, <1>7, <2>3, <2>4 DEF Alike
<1>8. ASSUME NEW expected, NEW new \in {"CONNECTING", "CONNECTED_IDLE", "DISCONNECTED_ERROR"},
             NEW pc \in {"tls", "done"}, SetClientState(t, expected, new, pc, pc), UNCHANGED ret,
             Top(t).pc \in Dialling, new = "CONNECTED_IDLE" => pc = "done"
      PROVE  Excluded(y, w)'
  <2>1. pc \in Pcs /\ new \in ClientStates BY <1>4, StateNames DEF Dialling
  <2>2. PICK f \in Frames :
          /\ MovesTo(t, f) /\ Alike(f, Top(t))
          /\ \/ /\ clientState = expected /\ f.pc = pc /\ f.pending = new
                /\ ThreadSupport => mutex = NoThread
                /\ mutex' = IF ThreadSupport THEN t ELSE mutex
             \/ /\ clientState # expected \/ TrylockFails(t)
                /\ f.pc = pc /\ f.pending = "NONE" /\ mutex' = mutex
    BY <1>1, <1>8, <2>1, CasMoves
  <2>3. clientState \in Unconnected BY <1>3, <1>8 DEF FitConnect
  <2>4. FitConnect(f, clientState) BY <1>8, <2>2, <2>3 DEF FitConnect
  <2>5. (f.pending # "NONE" => mutex' = t) /\ (mutex' = mutex \/ mutex = NoThread)
    BY <2>2 DEF SendsOnly
  <2> QED BY <1>1, <1>6, <2>2, <2>4, <2>5 DEF Alike
<1>9. CASE ConnectRead(t)
  <2>1. CASE ValidForConnect(clientState) /\ SaveAndGoto(t, "claim")
    <3>1. clientState \in Unconnected
      BY <2>1, SteadyNames DEF Excluded, ValidForConnect, Unconnected
    <3>2. "claim" \in Pcs BY DEF Pcs
    <3>3. PICK f \in Frames :
            /\ MovesTo(t, f) /\ f.fn = Top(t).fn /\ f.saved = clientState
            /\ f.acks = Top(t).acks /\ f.pc = "claim" /\ f.pending = Top(t).pending
      BY <1>1, <2>1, <3>2, SaveMoves DEF EnvTyped
    <3>4. FitConnect(f, clientState) BY <1>1, <3>1, <3>3 DEF FitConnect
    <3> QED BY <1>1, <1>6, <1>9, <3>3, <3>4 DEF ConnectRead, state
  <2>2. CASE Leave(t, "FAILED") BY <1>1, <1>2, <1>9, <2>2, BaseReturn DEF ConnectRead, state
  <2> QED BY <1>9, <2>1, <2>2 DEF ConnectRead
<1>10. CASE ConnectClaim(t) BY <1>8, <1>10 DEF ConnectClaim, Dialling
<1>11. CASE ConnectTls(t) BY <1>7, <1>11 DEF ConnectTls, Dialling, state
<1>12. CASE ConnectConnack(t) BY <1>7, <1>12 DEF ConnectConnack, Dialling, state
<1>13. CASE ConnectTeardown(t) BY <1>7, <1>13 DEF ConnectTeardown, Dialling, state
<1>14. CASE ConnectFail(t) BY <1>8, <1>14 DEF ConnectFail, Dialling
<1>15. CASE ConnectFinish(t) BY <1>8, <1>15 DEF ConnectFinish, Dialling
<1> QED BY <1>9, <1>10, <1>11, <1>12, <1>13, <1>14, <1>15 DEF ConnectStep

LEMMA YieldExcluded ==
  ASSUME EnvTyped, CtlTyped, NEW y, NEW w, SendsOnly(y, w), Excluded(y, w),
         NEW t \in Threads, YieldStep(t)
  PROVE  Excluded(y, w)'
<1> USE DEF At
<1>1. depth[t] > 0 /\ Top(t).fn = "yield" /\ Top(t).pending = "NONE" /\ UNCHANGED clientState
  BY DEF YieldStep, YieldRead, YieldClaim, YieldLoop, HandleReconnect, YieldCycle,
         YieldDelivered, KeepAlive, YieldLost, YieldPending, YieldReconnected,
         YieldUnclaimed, YieldNotReconnected, YieldAgain, YieldTimerExpired, YieldFinish,
         SetClientState, state
<1>2. UNCHANGED autoReconnect
  BY DEF YieldStep, YieldRead, YieldClaim, YieldLoop, HandleReconnect, YieldCycle,
         YieldDelivered, KeepAlive, YieldLost, YieldPending, YieldReconnected,
         YieldUnclaimed, YieldNotReconnected, YieldAgain, YieldTimerExpired, YieldFinish, env
<1>3. depth[t] = 1 BY <1>1, ExcludedTop
<1>4. t = y /\ FitYield(Top(t), clientState)
  BY <1>1, <1>3, ExcludedTop DEF FitBase, Requests
<1>5. ret \in [Threads -> Rcs] /\ ~autoReconnect BY DEF CtlTyped, Excluded
<1>6. {"loop", "claim", "cycle", "finish", "until", "keepalive", "failed", "done", "lost"}
        \subseteq Pcs
  BY DEF Pcs
<1>7. ASSUME NEW f \in Frames, MovesTo(t, f), f.fn = "yield", FitYield(f, clientState),
             f.pending # "NONE" => mutex' = t, mutex' = mutex \/ mutex = NoThread,
             Engaged(f) => Engaged(Top(t))
      PROVE  Excluded(y, w)'
  <2>1. FitBase(t, f, clientState, mutex', y, w) BY <1>4, <1>7 DEF FitBase
  <2> QED BY <1>1, <1>2, <1>3, <1>7, <2>1, BaseMove
<1> DEFINE Running == {"loop", "cycle", "keepalive", "until", "finish"}
<1>8. ASSUME Top(t).pc \in Running
      PROVE  Engaged(Top(t)) /\ clientState = "YIELD_IN_PROGRESS"
  <2>1. Engaged(Top(t)) BY <1>1, <1>8 DEF Engaged
  <2> QED BY <1>4, <2>1 DEF FitYield
<1>9. ASSUME NEW pc \in Running \cup {"claim"}, Goto(t, pc) \/ \E rc : GotoRc(t, pc, rc),
             mutex' = mutex, pc = "claim" \/ Top(t).pc \in Running
      PROVE  Excluded(y, w)'
  <2>1. /\ stack' = [stack EXCEPT ![t][depth[t]].pc = pc] /\ depth' = depth
        /\ \A u \in Threads \ {t} : ret'[u] = ret[u]
    BY <1>5, <1>9 DEF Goto, GotoRc
  <2>2. pc \in Pcs BY <1>6
  <2>3. PICK f \in Frames : /\ MovesTo(t, f) /\ Alike(f, Top(t))
                            /\ f.pc = pc /\ f.pending = Top(t).pending
    BY <1>1, <2>1, <2>2, GotoMoves
  <2>4. pc = "claim" => ~Engaged(f) BY <1>1, <2>3 DEF Engaged, Alike, Requests
  <2>5. Engaged(f) => Engaged(Top(t)) /\ clientState = "YIELD_IN_PROGRESS" BY <1>8, <1>9, <2>4
  <2>6. FitYield(f, clientState) BY <1>1, <1>9, <2>3, <2>5 DEF FitYield
  <2> QED BY <1>1, <1>7, <1>9, <2>3, <2>5, <2>6 DEF Alike
<1>10. ASSUME NEW rc, Leave(t, rc), mutex' = mutex PROVE Excluded(y, w)'
  BY <1>1, <1>2, <1>3, <1>10, BaseReturn
<1>11. ASSUME Enter(t, "handle_disconnect", "lost"), mutex' = mutex, Top(t).pc \in Running
       PROVE  Excluded(y, w)'
  <2>1. "handle_disconnect" \in Fns BY DEF Fns
  <2>2. PICK f \in Frames : /\ CallsFrom(t, f, "handle_disconnect") /\ Alike(f, Top(t))
                            /\ f.pc = "lost" /\ f.pending = Top(t).pending
    BY <1>1, <1>6, <1>11, <2>1, EnterCalls
  <2>3. /\ depth'[t] = 2 /\ stack'[t][1] = f /\ stack'[t][2] = NewFrame("handle_disconnect")
        /\ OthersStay(t)
    BY <1>3, <2>2 DEF CallsFrom
  <2>4. Holds(t) BY <1>3, <1>8, <1>11 DEF Holds, Top
  <2>5. clientState' \in Losing BY <1>1, <1>8, <1>11 DEF Losing
  <2>6. FitLost(t, stack'[t], 2, clientState', mutex', y)
    BY <1>1, <1>4, <2>2, <2>3, <2>5 DEF FitLost, NewFrame, Alike
  <2>7. Fit(t, y, w)' BY <2>3, <2>6 DEF Fit
  <2>8. \A u \in Threads \ {t} : stack'[u] = stack[u] /\ depth'[u] = depth[u]
    BY <2>3 DEF OthersStay
  <2> QED BY <1>1, <1>2, <1>11, <2>4, <2>7, <2>8, SameExcluded
<1>12. CASE YieldRead(t)
  <2>1. clientState # "PENDING_RECONNECT" BY SteadyNames DEF Excluded
  <2> QED BY <1>9, <1>10, <1>12, <2>1 DEF YieldRead, state
<1>13. CASE YieldClaim(t)
  <2>1. SetClientState(t, "CONNECTED_IDLE", "YIELD_IN_PROGRESS", "loop", "failed") /\ UNCHANGED ret
    BY <1>13 DEF YieldClaim
  <2>2. PICK f \in Frames :
          /\ MovesTo(t, f) /\ Alike(f, Top(t))
          /\ \/ /\ clientState = "CONNECTED_IDLE" /\ f.pc = "loop"
                /\ f.pending = "YIELD_IN_PROGRESS"
                /\ ThreadSupport => mutex = NoThread
                /\ mutex' = IF ThreadSupport THEN t ELSE mutex
             \/ /\ clientState # "CONNECTED_IDLE" \/ TrylockFails(t)
                /\ f.pc = "failed" /\ f.pending = "NONE" /\ mutex' = mutex
    BY <1>1, <1>6, <2>1, StateNames, CasMoves
  <2>3. ~Engaged(f) /\ f.fn = "yield" BY <1>1, <2>2 DEF Engaged, Alike
  <2>4. FitYield(f, clientState) BY <2>2, <2>3 DEF FitYield
  <2>5. (f.pending # "NONE" => mutex' = t) /\ (mutex' = mutex \/ mutex = NoThread)
    BY <2>2 DEF SendsOnly
  <2> QED BY <1>7, <2>2, <2>3, <2>4, <2>5
<1>14. CASE YieldLoop(t) BY <1>8, <1>9, <1>14 DEF YieldLoop, state
<1>15. ~HandleReconnect(t) BY <1>8 DEF HandleReconnect
<1>16. CASE YieldCycle(t) BY <1>9, <1>11, <1>16 DEF YieldCycle, state
<1>17. /\ ~YieldDelivered(t) /\ ~YieldPending(t) /\ ~YieldReconnected(t) /\ ~YieldUnclaimed(t)
       /\ ~YieldNotReconnected(t)
  BY <1>4 DEF FitYield, YieldDelivered, YieldPending, YieldReconnected, YieldUnclaimed,
              YieldNotReconnected
<1>18. CASE KeepAlive(t) BY <1>9, <1>11, <1>18 DEF KeepAlive, state
<1>19. CASE YieldLost(t) BY <1>5, <1>10, <1>19 DEF YieldLost, state
<1>20. CASE YieldAgain(t) BY <1>9, <1>20 DEF YieldAgain, state
<1>21. CASE YieldTimerExpired(t) BY <1>9, <1>10, <1>21 DEF YieldTimerExpired, state
<1>22. CASE YieldFinish(t)
  <2>1. /\ SetClientState(t, "YIELD_IN_PROGRESS", "CONNECTED_IDLE", "done", Failing(t))
        /\ UNCHANGED ret /\ Top(t).pc = "finish"
    BY <1>22 DEF YieldFinish
  <2>2. Failing(t) \in Pcs /\ Failing(t) \in {"done", "failed"} BY <1>6 DEF Failing
  <2>3. PICK f \in Frames :
          /\ MovesTo(t, f) /\ Alike(f, Top(t))
          /\ \/ /\ clientState = "YIELD_IN_PROGRESS" /\ f.pc = "done"
                /\ f.pending = "CONNECTED_IDLE"
                /\ ThreadSupport => mutex = NoThread
                /\ mutex' = IF ThreadSupport THEN t ELSE mutex
             \/ /\ clientState # "YIELD_IN_PROGRESS" \/ TrylockFails(t)
                /\ f.pc = Failing(t) /\ f.pending = "NONE" /\ mutex' = mutex
    BY <1>1, <1>6, <2>1, <2>2, StateNames, CasMoves
  <2>4. Engaged(Top(t)) /\ clientState = "YIELD_IN_PROGRESS" BY <1>8, <2>1
  <2>5. FitYield(f, clientState) BY <2>2, <2>3, <2>4 DEF FitYield
  <2>6. (f.pending # "NONE" => mutex' = t) /\ (mutex' = mutex \/ mutex = NoThread)
    BY <2>3 DEF SendsOnly
  <2> QED BY <1>1, <1>7, <2>3, <2>4, <2>5, <2>6 DEF Alike
<1> QED BY <1>12, <1>13, <1>14, <1>15, <1>16, <1>17, <1>18, <1>19, <1>20, <1>21, <1>22
        DEF YieldStep

\* A call below a lost yield moves: what it must be like afterwards.
LEMMA LostMove ==
  ASSUME CtlTyped, NEW y, NEW w, Excluded(y, w), NEW t \in Threads, depth[t] > 1,
         NEW f \in Frames, MovesTo(t, f), UNCHANGED autoReconnect, clientState' \in Losing,
         f.fn = Top(t).fn,
         depth[t] = 2 => f.pending = "NONE",
         depth[t] = 3 => /\ f.pc # "read" => f.saved = "YIELD_IN_PROGRESS"
                         /\ f.pending # "NONE" => f.pending = "DISCONNECTING" /\ mutex' = t
  PROVE  Excluded(y, w)'
<1>1. FitLost(t, stack[t], depth[t], clientState, mutex, y) BY DEF Excluded, Fit
<1>2. depth'[t] = depth[t] /\ stack'[t][depth[t]] = f /\ CallersStay(t) /\ OthersStay(t)
  BY DEF MovesTo
<1>3. depth[t] = 2 \/ depth[t] = 3 BY <1>1 DEF FitLost
<1>4. CASE depth[t] = 2
  <2>1. 1 \in 1..(depth[t] - 1) BY <1>4
  <2>2. stack'[t][1] = stack[t][1] BY <1>2, <2>1 DEF CallersStay
  <2>3. FitLost(t, stack'[t], 2, clientState', mutex', y)
    BY <1>1, <1>2, <1>4, <2>2 DEF FitLost, Top
  <2>4. Fit(t, y, w)' BY <1>2, <1>4, <2>3 DEF Fit
  <2> QED BY <1>2, <2>4, LostChange
<1>5. CASE depth[t] = 3
  <2>1. 1 \in 1..(depth[t] - 1) /\ 2 \in 1..(depth[t] - 1) BY <1>5
  <2>2. stack'[t][1] = stack[t][1] /\ stack'[t][2] = stack[t][2] BY <1>2, <2>1 DEF CallersStay
  <2>3. FitLost(t, stack'[t], 3, clientState', mutex', y)
    BY <1>1, <1>2, <1>5, <2>2 DEF FitLost, Top
  <2>4. Fit(t, y, w)' BY <1>2, <1>5, <2>3 DEF Fit
  <2> QED BY <1>2, <2>4, LostChange
<1> QED BY <1>3, <1>4, <1>5

LEMMA LostReturn ==
  ASSUME CtlTyped, NEW y, NEW w, Excluded(y, w), NEW t \in Threads, depth[t] > 1,
         NEW rc, Leave(t, rc), UNCHANGED autoReconnect, clientState' \in Losing
  PROVE  Excluded(y, w)'
<1>1. FitLost(t, stack[t], depth[t], clientState, mutex, y) BY DEF Excluded, Fit
<1>2. depth[t] > 0 /\ (depth[t] = 2 \/ depth[t] = 3) BY <1>1 DEF FitLost
<1>3. depth'[t] = depth[t] - 1 /\ CallersStay(t) /\ OthersStay(t)
  BY <1>2, LeaveReturns DEF Returns
<1>4. CASE depth[t] = 2
  <2>1. 1 \in 1..(depth[t] - 1) BY <1>4
  <2>2. stack'[t][1] = stack[t][1] BY <1>3, <2>1 DEF CallersStay
  <2>3. FitYield(stack[t][1], clientState') BY <1>1 DEF FitLost, FitYield, Engaged, Requests
  <2>4. FitBase(t, stack'[t][1], clientState', mutex', y, w) BY <1>1, <2>2, <2>3 DEF FitLost, FitBase
  <2>5. Fit(t, y, w)' BY <1>3, <1>4, <2>4 DEF Fit
  <2> QED BY <1>3, <2>5, LostChange
<1>5. CASE depth[t] = 3
  <2>1. 1 \in 1..(depth[t] - 1) /\ 2 \in 1..(depth[t] - 1) BY <1>5
  <2>2. stack'[t][1] = stack[t][1] /\ stack'[t][2] = stack[t][2] BY <1>3, <2>1 DEF CallersStay
  <2>3. FitLost(t, stack'[t], 2, clientState', mutex', y) BY <1>1, <2>2 DEF FitLost
  <2>4. Fit(t, y, w)' BY <1>3, <1>5, <2>3 DEF Fit
  <2> QED BY <1>3, <2>4, LostChange
<1> QED BY <1>2, <1>4, <1>5

LEMMA LostExcluded ==
  ASSUME EnvTyped, CtlTyped, NEW y, NEW w, SendsOnly(y, w), Excluded(y, w),
         NEW t \in Threads, LostStep(t)
  PROVE  Excluded(y, w)'
<1> USE DEF At
<1>1. /\ depth[t] > 0 /\ Top(t).fn = "handle_disconnect" /\ Top(t).pending = "NONE"
      /\ UNCHANGED autoReconnect
  BY DEF LostStep, LostDisconnect, ForceDisconnect, ForceDrop, DisconnectHandler, LostSettle, env
<1>2. depth[t] = 2 BY <1>1, ExcludedTop
<1>3. FitLost(t, stack[t], depth[t], clientState, mutex, y) BY <1>2, ExcludedTop
<1>4. clientState \in Losing /\ "DISCONNECTED_ERROR" \in Losing BY <1>3 DEF FitLost, Losing
<1>5. {"disc", "handler", "force", "drop", "settle"} \subseteq Pcs BY DEF Pcs
<1>6. ASSUME NEW pc \in Pcs, Goto(t, pc), clientState' \in Losing PROVE Excluded(y, w)'
  <2>1. PICK f \in Frames : /\ MovesTo(t, f) /\ Alike(f, Top(t))
                            /\ f.pc = pc /\ f.pending = Top(t).pending
    BY <1>1, <1>6, GotoMoves DEF Goto
  <2> QED BY <1>1, <1>2, <1>6, <2>1, LostMove DEF Alike
<1>7. CASE LostDisconnect(t)
  <2>1. UNCHANGED clientState BY <1>7 DEF LostDisconnect, state
  <2>2. CASE Enter(t, "disconnect", "disc")
    <3>1. "disconnect" \in Fns BY DEF Fns, ApiFns
    <3>2. PICK f \in Frames : /\ CallsFrom(t, f, "disconnect") /\ Alike(f, Top(t))
                              /\ f.pc = "disc" /\ f.pending = Top(t).pending
      BY <1>1, <1>5, <2>2, <3>1, EnterCalls
    <3>3. /\ depth'[t] = 3 /\ stack'[t][2] = f /\ stack'[t][3] = NewFrame("disconnect")
          /\ CallersStay(t) /\ OthersStay(t)
      BY <1>2, <3>2 DEF CallsFrom
    <3>4. 1 \in 1..(depth[t] - 1) BY <1>2
    <3>5. stack'[t][1] = stack[t][1] BY <3>3, <3>4 DEF CallersStay
    <3>6. FitLost(t, stack'[t], 3, clientState', mutex', y)
      BY <1>1, <1>3, <2>1, <3>2, <3>3, <3>5 DEF FitLost, NewFrame, Alike
    <3>7. Fit(t, y, w)' BY <3>3, <3>6 DEF Fit
    <3> QED BY <1>1, <1>2, <1>4, <2>1, <3>3, <3>7, LostChange
  <2>3. CASE \E pc \in Pcs : Goto(t, pc) BY <1>4, <1>6, <2>1, <2>3
  <2>4. (IF ret[t] = "SUCCESS" THEN "handler" ELSE "force") \in Pcs BY <1>5
  <2> QED BY <1>7, <2>2, <2>3, <2>4 DEF LostDisconnect
<1>8. CASE ForceDisconnect(t) BY <1>4, <1>5, <1>6, <1>8 DEF ForceDisconnect
<1>9. CASE ForceDrop(t) BY <1>4, <1>5, <1>6, <1>9 DEF ForceDrop, state
<1>10. CASE DisconnectHandler(t)
  BY <1>4, <1>5, <1>6, <1>10 DEF DisconnectHandler, SendsOnly, state
<1>11. CASE LostSettle(t) BY <1>1, <1>2, <1>4, <1>11, LostReturn DEF LostSettle
<1> QED BY <1>7, <1>8, <1>9, <1>10, <1>11 DEF LostStep

LEMMA DisconnectExcluded ==
  ASSUME EnvTyped, CtlTyped, NEW y, NEW w, SendsOnly(y, w), Excluded(y, w),
         NEW t \in Threads, DisconnectStep(t)
  PROVE  Excluded(y, w)'
<1> USE DEF At
<1>1. /\ depth[t] > 0 /\ Top(t).fn = "disconnect" /\ Top(t).pending = "NONE"
      /\ UNCHANGED autoReconnect
  BY DEF DisconnectStep, DisconnectRead, DisconnectClaim, DisconnectSend, DisconnectManual,
         DisconnectUndo, env
<1>2. depth[t] = 3 BY <1>1, ExcludedTop
<1>3. FitLost(t, stack[t], depth[t], clientState, mutex, y) BY <1>2, ExcludedTop
<1>4. /\ clientState \in Losing /\ "DISCONNECTED_MANUALLY" \in Losing
      /\ "YIELD_IN_PROGRESS" \in Losing
      /\ Top(t).pc # "read" => Top(t).saved = "YIELD_IN_PROGRESS"
  BY <1>2, <1>3 DEF FitLost, Losing, Top
<1>5. {"claim", "send", "manual", "undo", "failed"} \subseteq Pcs BY DEF Pcs
<1>6. ASSUME NEW rc, Leave(t, rc), clientState' \in Losing PROVE Excluded(y, w)'
  BY <1>1, <1>2, <1>6, LostReturn
<1>7. CASE DisconnectRead(t)
  <2>1. UNCHANGED clientState BY <1>7 DEF DisconnectRead, state
  <2>2. CASE IsConnected(clientState) /\ SaveAndGoto(t, "claim")
    <3>1. clientState = "YIELD_IN_PROGRESS"
      BY <1>4, <2>2 DEF IsConnected, ConnectedStates, Losing
    <3>2. PICK f \in Frames :
            /\ MovesTo(t, f) /\ f.fn = Top(t).fn /\ f.saved = clientState
            /\ f.acks = Top(t).acks /\ f.pc = "claim" /\ f.pending = Top(t).pending
      BY <1>1, <1>5, <2>2, SaveMoves DEF EnvTyped
    <3> QED BY <1>1, <1>2, <1>4, <2>1, <3>1, <3>2, LostMove
  <2> QED BY <1>4, <1>6, <1>7, <2>1, <2>2 DEF DisconnectRead
<1>8. CASE DisconnectClaim(t)
  <2>1. /\ SetClientState(t, Top(t).saved, "DISCONNECTING", "send", "failed")
        /\ UNCHANGED ret /\ Top(t).pc = "claim"
    BY <1>8 DEF DisconnectClaim
  <2>2. PICK f \in Frames :
          /\ MovesTo(t, f) /\ Alike(f, Top(t))
          /\ \/ /\ clientState = Top(t).saved /\ f.pc = "send" /\ f.pending = "DISCONNECTING"
                /\ ThreadSupport => mutex = NoThread
                /\ mutex' = IF ThreadSupport THEN t ELSE mutex
             \/ /\ clientState # Top(t).saved \/ TrylockFails(t)
                /\ f.pc = "failed" /\ f.pending = "NONE" /\ mutex' = mutex
    BY <1>1, <1>5, <2>1, StateNames, CasMoves
  <2>3. clientState' = clientState BY <2>1 DEF SetClientState
  <2>4. f.pending # "NONE" => f.pending = "DISCONNECTING" /\ mutex' = t BY <2>2 DEF SendsOnly
  <2>5. f.fn = Top(t).fn /\ f.saved = "YIELD_IN_PROGRESS" BY <1>4, <2>1, <2>2 DEF Alike
  <2> QED BY <1>1, <1>2, <1>4, <2>2, <2>3, <2>4, <2>5, LostMove
<1>9. CASE DisconnectSend(t)
  <2>1. PICK pc \in {"manual", "undo"} : Goto(t, pc) BY <1>9 DEF DisconnectSend
  <2>2. pc \in Pcs BY <1>5
  <2>3. PICK f \in Frames : /\ MovesTo(t, f) /\ Alike(f, Top(t))
                            /\ f.pc = pc /\ f.pending = Top(t).pending
    BY <1>1, <2>1, <2>2, GotoMoves DEF Goto
  <2>4. clientState' = clientState /\ Top(t).pc = "send" BY <1>9 DEF DisconnectSend, state
  <2> QED BY <1>1, <1>2, <1>4, <2>3, <2>4, LostMove DEF Alike
<1>10. CASE DisconnectManual(t) BY <1>4, <1>6, <1>10 DEF DisconnectManual
<1>11. CASE DisconnectUndo(t) BY <1>4, <1>6, <1>11 DEF DisconnectUndo
<1> QED BY <1>7, <1>8, <1>9, <1>10, <1>11 DEF DisconnectStep

\* A state is stored: an operation is claimed or given up, a connect goes on,
\* or a lost yield disconnects.
LEMMA StoreExcluded ==
  ASSUME EnvTyped, CtlTyped, NEW y, NEW w, SendsOnly(y, w), Excluded(y, w),
         NEW t \in Threads, StoreClientState(t)
  PROVE  Excluded(y, w)'
<1>1. depth[t] > 0 /\ Top(t).pending # "NONE" /\ UNCHANGED autoReconnect
  BY DEF StoreClientState, env
<1>2. clientState' = Top(t).pending BY StoreMoves
<1>3. PICK f \in Frames : /\ MovesTo(t, f) /\ Alike(f, Top(t))
                          /\ f.pc = Top(t).pc /\ f.pending = "NONE"
  BY StoreMoves
<1>4. f.fn = Top(t).fn /\ f.saved = Top(t).saved BY <1>3 DEF Alike
<1>5. CASE depth[t] = 1
  <2>1. FitBase(t, Top(t), clientState, mutex, y, w) BY <1>1, <1>5, ExcludedTop
  <2>2. mutex = t BY <1>1, <2>1 DEF FitBase
  <2>3. Engaged(Top(t)) => Holds(t) BY <1>5 DEF Holds, Top
  <2>4. CASE Top(t).fn \in Requests /\ FitRequest(t, Top(t), clientState, w)
    <3>1. CASE /\ Top(t).pc = "send" /\ Top(t).pending = InProgress(Top(t).fn)
               /\ clientState = "CONNECTED_IDLE"
      <4>1. FitRequest(t, f, clientState', w) BY <1>2, <1>3, <1>4, <2>4, <3>1 DEF FitRequest
      <4>2. FitBase(t, f, clientState', mutex', y, w) BY <1>3, <1>4, <2>4, <4>1 DEF FitBase
      <4>3. clientState' \in Steady /\ (clientState' = "UNSUBSCRIBE_IN_PROGRESS" => t = w)
        BY <1>2, <2>4, <3>1, SteadyNames DEF FitRequest
      <4> QED BY <1>1, <1>3, <1>5, <2>2, <3>1, <4>2, <4>3, BaseStore
    <3>2. CASE Top(t).pc = "done" /\ Top(t).pending = "CONNECTED_IDLE"
      <4>1. Engaged(Top(t)) BY <2>4, <3>2 DEF Engaged
      <4>2. clientState = InProgress(Top(t).fn) BY <2>4, <4>1 DEF FitRequest
      <4>3. ~Engaged(f) BY <1>3, <3>2 DEF Engaged
      <4>4. FitRequest(t, f, clientState', w)
        BY <1>2, <1>3, <1>4, <2>4, <3>2, <4>3 DEF FitRequest
      <4>5. FitBase(t, f, clientState', mutex', y, w) BY <1>3, <1>4, <2>4, <4>4 DEF FitBase
      <4>6. clientState \notin Unconnected /\ clientState' \in Steady
            /\ clientState' # "UNSUBSCRIBE_IN_PROGRESS"
        BY <1>2, <2>4, <3>2, <4>2, SteadyNames
      <4> QED BY <1>1, <1>3, <1>5, <2>2, <2>3, <4>1, <4>5, <4>6, BaseStore
    <3> QED BY <1>1, <2>4, <3>1, <3>2 DEF FitRequest
  <2>5. CASE Top(t).fn = "yield" /\ t = y /\ FitYield(Top(t), clientState)
    <3>1. CASE /\ Top(t).pc = "loop" /\ Top(t).pending = "YIELD_IN_PROGRESS"
               /\ clientState = "CONNECTED_IDLE"
      <4>1. FitYield(f, clientState') BY <1>2, <1>3, <1>4, <2>5, <3>1 DEF FitYield
      <4>2. FitBase(t, f, clientState', mutex', y, w) BY <1>3, <1>4, <2>5, <4>1 DEF FitBase
      <4>3. clientState' \in Steady /\ clientState' # "UNSUBSCRIBE_IN_PROGRESS"
        BY <1>2, <3>1 DEF Steady
      <4> QED BY <1>1, <1>3, <1>5, <2>2, <3>1, <4>2, <4>3, BaseStore
    <3>2. CASE Top(t).pc = "done" /\ Top(t).pending = "CONNECTED_IDLE"
      <4>1. Engaged(Top(t)) BY <2>5, <3>2 DEF Engaged
      <4>2. clientState = "YIELD_IN_PROGRESS" BY <2>5, <4>1 DEF FitYield
      <4>3. ~Engaged(f) BY <1>3, <3>2 DEF Engaged
      <4>4. FitYield(f, clientState') BY <1>3, <3>2, <4>3 DEF FitYield
      <4>5. FitBase(t, f, clientState', mutex', y, w) BY <1>3, <1>4, <2>5, <4>4 DEF FitBase
      <4>6. clientState \notin Unconnected /\ clientState' \in Steady
            /\ clientState' # "UNSUBSCRIBE_IN_PROGRESS"
        BY <1>2, <3>2, <4>2 DEF Unconnected, Steady
      <4> QED BY <1>1, <1>3, <1>5, <2>2, <2>3, <4>1, <4>5, <4>6, BaseStore
    <3> QED BY <1>1, <2>5, <3>1, <3>2 DEF FitYield
  <2>6. CASE Top(t).fn = "connect" /\ t = y /\ FitConnect(Top(t), clientState)
    <3>1. /\ clientState \in Unconnected
          /\ Top(t).pending \in {"CONNECTING", "CONNECTED_IDLE", "DISCONNECTED_ERROR"}
          /\ Top(t).pending = "CONNECTED_IDLE" => Top(t).pc = "done"
      BY <1>1, <2>6 DEF FitConnect
    <3>2. "done" \notin Dialling BY DEF Dialling
    <3>3. Top(t).pending = "CONNECTED_IDLE" \/ Top(t).pending \in Unconnected
      BY <3>1 DEF Unconnected
    <3>4. FitConnect(f, clientState') BY <1>2, <1>3, <3>1, <3>2, <3>3 DEF FitConnect
    <3>5. FitBase(t, f, clientState', mutex', y, w) BY <1>3, <1>4, <2>6, <3>4 DEF FitBase
    <3>6. clientState' \in Steady /\ clientState' # "UNSUBSCRIBE_IN_PROGRESS"
      BY <1>2, <3>1 DEF Steady
    <3> QED BY <1>1, <1>3, <1>5, <2>2, <2>6, <3>1, <3>5, <3>6, BaseStore
  <2> QED BY <2>1, <2>4, <2>5, <2>6 DEF FitBase
<1>6. CASE depth[t] = 3
  <2>1. FitLost(t, stack[t], depth[t], clientState, mutex, y) BY <1>6, ExcludedTop
  <2>2. Top(t).pending = "DISCONNECTING" /\ (Top(t).pc # "read" => Top(t).saved = "YIELD_IN_PROGRESS")
    BY <1>1, <1>6, <2>1 DEF FitLost, Top
  <2>3. clientState' \in Losing BY <1>2, <2>2 DEF Losing
  <2> QED BY <1>1, <1>3, <1>4, <1>6, <2>2, <2>3, LostMove
<1>7. depth[t] # 2
  <2>1. ASSUME depth[t] = 2 PROVE FALSE
    <3>1. FitLost(t, stack[t], depth[t], clientState, mutex, y) BY <2>1, ExcludedTop
    <3> QED BY <1>1, <2>1, <3>1 DEF FitLost, Top
  <2> QED BY <2>1
<1> QED BY <1>1, <1>5, <1>6, <1>7, ExcludedTop

LEMMA ReturnExcluded ==
  ASSUME CtlTyped, NEW y, NEW w, Excluded(y, w), NEW t \in Threads, Return(t)
  PROVE  Excluded(y, w)'
<1>1. /\ depth[t] > 0 /\ UNCHANGED <<clientState, mutex, autoReconnect>>
      /\ \E rc : Leave(t, rc)
  BY DEF Return, state, env
<1>2. CASE depth[t] = 1 BY <1>1, <1>2, BaseReturn
<1>3. CASE depth[t] > 1
  <2>1. clientState' \in Losing BY <1>1, <1>3 DEF Excluded, Fit, FitLost
  <2> QED BY <1>1, <1>3, <2>1, LostReturn
<1>4. depth[t] \in Nat BY BoundsAssumption DEF CtlTyped
<1> QED BY <1>1, <1>2, <1>3, <1>4

LEMMA CallApiExcluded ==
  ASSUME CtlTyped, NEW y, NEW w, SendsOnly(y, w), Excluded(y, w), NEW t \in Threads,
         NEW fn \in ApiFns, CallApi(t, fn)
  PROVE  Excluded(y, w)'
<1>1. /\ depth[t] = 0 /\ depth'[t] = 1 /\ UNCHANGED <<clientState, mutex, autoReconnect>>
      /\ \A u \in Threads \ {t} : stack'[u] = stack[u] /\ depth'[u] = depth[u]
  BY DEF CallApi, CtlTyped, state, env
<1>2. stack'[t][1] = NewFrame(fn)
  <2>1. 1 \in 1..MaxDepth BY BoundsAssumption
  <2>2. stack[t] \in [1..MaxDepth -> Frames] BY DEF CtlTyped
  <2>3. stack'[t] = [stack[t] EXCEPT ![1] = NewFrame(fn)] BY DEF CallApi, CtlTyped
  <2> QED BY <2>1, <2>2, <2>3
<1>3. /\ fn \in Requests \/ (t = y /\ fn \in {"yield", "connect"})
      /\ fn = "unsubscribe" => t = w
  BY DEF CallApi, SendsOnly
<1>4. /\ NewFrame(fn).fn = fn /\ NewFrame(fn).pc = "read" /\ NewFrame(fn).pending = "NONE"
  BY DEF NewFrame
<1>5. ~Engaged(NewFrame(fn)) BY <1>4 DEF Engaged
<1>6. "read" \notin Dialling BY DEF Dialling
<1>7. FitBase(t, NewFrame(fn), clientState', mutex', y, w)
  <2>1. CASE fn \in Requests
    <3>1. FitRequest(t, NewFrame(fn), clientState', w) BY <1>3, <1>4, <1>5 DEF FitRequest
    <3> QED BY <1>4, <2>1, <3>1 DEF FitBase
  <2>2. CASE fn = "yield" /\ t = y
    <3>1. FitYield(NewFrame(fn), clientState') BY <1>4, <1>5 DEF FitYield
    <3> QED BY <1>4, <2>2, <3>1 DEF FitBase
  <2>3. CASE fn = "connect" /\ t = y
    <3>1. FitConnect(NewFrame(fn), clientState') BY <1>4, <1>6 DEF FitConnect
    <3> QED BY <1>4, <2>3, <3>1 DEF FitBase
  <2> QED BY <1>3, <2>1, <2>2, <2>3
<1>8. Fit(t, y, w)' BY <1>1, <1>2, <1>7 DEF Fit
<1>9. ~Holds(t)' BY <1>1, <1>2, <1>5 DEF Holds
<1> QED BY <1>1, <1>8, <1>9, SameExcluded

LEMMA ExcludedStep ==
  ASSUME NEW y, NEW w, SendsOnly(y, w), TypeOK, Excluded(y, w), [Next]_vars
  PROVE  Excluded(y, w)'
<1>1. EnvTyped /\ CtlTyped BY TypeSplit
<1>2. CASE UNCHANGED vars
  BY <1>2 DEF vars, state, env, ctl, Excluded, Fit, Holds
<1>3. ASSUME NEW t \in Threads, CallStep(t) PROVE Excluded(y, w)'
  <2>1. ~ReconnectStep(t)
    <3>1. ASSUME ReconnectStep(t) PROVE FALSE
      <4>1. depth[t] > 0 /\ Top(t).fn = "attempt_reconnect"
        BY <3>1 DEF ReconnectStep, ReconnectRead, ReconnectCheck, ReconnectPend,
                    ReconnectResult, At
      <4>2. depth[t] = 1 BY <1>1, <4>1, ExcludedTop
      <4> QED BY <1>1, <4>1, <4>2, ExcludedTop DEF FitBase, Requests
    <3> QED BY <3>1
  <2> QED BY <1>1, <1>3, <2>1, StoreExcluded, ReturnExcluded, RequestExcluded,
             DeliverExcluded, ConnectExcluded, DisconnectExcluded, YieldExcluded,
             LostExcluded DEF CallStep
<1>4. ASSUME NEW t \in Threads, NEW fn \in ApiFns, CallApi(t, fn) PROVE Excluded(y, w)'
  BY <1>1, <1>4, CallApiExcluded
<1>5. ASSUME NEW t \in Threads, SetAutoreconnectStatus(t) PROVE FALSE
  BY <1>5 DEF SetAutoreconnectStatus, SendsOnly, Requests
<1> QED BY <1>2, <1>3, <1>4, <1>5 DEF Next

\* The operation that MutualExclusion is about is the call at the bottom of
\* the stack, and that call holds the client.
LEMMA OperatingHolds ==
  ASSUME CtlTyped, NEW y, NEW w, Excluded(y, w), NEW t \in Threads, Operating(t)
  PROVE  Holds(t)
<1>1. PICK d \in 1..depth[t] :
        /\ stack[t][d].fn \in Requests \cup {"yield"} /\ Claims(stack[t][d]) # {}
        /\ ~(stack[t][d].pc \in {"send", "loop"} /\ stack[t][d].pending # "NONE")
  BY DEF Operating
<1>2. depth[t] \in Nat BY BoundsAssumption DEF CtlTyped
<1>3. CASE depth[t] > 1 BY <1>3 DEF Holds
<1>4. CASE depth[t] = 1
  <2> DEFINE f == stack[t][1]
  <2>1. d = 1 BY <1>1, <1>4
  <2>2. FitBase(t, f, clientState, mutex, y, w) BY <1>4 DEF Excluded, Fit
  <2>3. /\ f.fn \in Requests \cup {"yield"} /\ Claims(f) # {}
        /\ ~(f.pc \in {"send", "loop"} /\ f.pending # "NONE")
    BY <1>1, <2>1
  <2> HIDE DEF f
  <2>4. CASE f.fn \in Requests
    <3>1. f.pc \in {"send", "wait", "finish"} \/ (f.pc = "done" /\ f.pending # "NONE")
      BY <2>3, <2>4 DEF Claims, ClaimsAt, Requests
    <3>2. FitRequest(t, f, clientState, w) BY <2>2, <2>4 DEF FitBase, Requests
    <3>3. Engaged(f) BY <2>3, <2>4, <3>1, <3>2 DEF FitRequest, Engaged
    <3> QED BY <1>4, <3>3 DEF Holds, f
  <2>5. CASE f.fn = "yield"
    <3>1. \/ f.pc \in {"loop", "cycle", "delivered", "keepalive", "until", "finish"}
          \/ f.pc = "done" /\ f.pending # "NONE"
      BY <2>3, <2>5 DEF Claims, ClaimsAt, Requests
    <3>2. FitYield(f, clientState) BY <2>2, <2>5 DEF FitBase, Requests
    <3>3. Engaged(f) BY <2>3, <2>5, <3>1, <3>2 DEF FitYield, Engaged
    <3> QED BY <1>4, <3>3 DEF Holds, f
  <2> QED BY <2>3, <2>4, <2>5
<1> QED BY <1>1, <1>2, <1>3, <1>4

\* No two threads are inside a publish, subscribe, unsubscribe, resubscribe or
\* yield together, for every number of threads that share a client which only
\* sends and for both kinds of lock, losses of the connection included.
THEOREM ExclusionSound ==
  ASSUME NEW y, NEW w, SendsOnly(y, w) PROVE Spec /\ ~autoReconnect => []MutualExclusion
<1>1. Init /\ ~autoReconnect => Excluded(y, w)
  <2>1. ASSUME Init, ~autoReconnect PROVE Excluded(y, w)
    <3>1. clientState = "INITIALIZED" /\ depth = [t \in Threads |-> 0] BY <2>1 DEF Init, InitIn
    <3>2. \A t \in Threads : depth[t] = 0 BY <3>1
    <3>3. clientState \in Steady BY <3>1 DEF Steady
    <3> QED BY <2>1, <3>2, <3>3 DEF Excluded, Fit, Holds
  <2> QED BY <2>1
<1>2. TypeOK /\ Excluded(y, w) /\ [Next]_vars => Excluded(y, w)' BY ExcludedStep
<1>3. TypeOK /\ Excluded(y, w) => MutualExclusion
  <2> SUFFICES ASSUME TypeOK, Excluded(y, w), NEW t \in Threads, NEW u \in Threads,
                      Operating(t), Operating(u)
               PROVE  t = u
    BY DEF MutualExclusion
  <2>1. CtlTyped BY TypeSplit
  <2>2. Holds(t) /\ Holds(u) BY <2>1, OperatingHolds
  <2> QED BY <2>2 DEF Excluded
<1> QED BY <1>1, <1>2, <1>3, TypeCorrect, PTL DEF Spec

=============================================================================
