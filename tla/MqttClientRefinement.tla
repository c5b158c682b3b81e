------------------------- MODULE MqttClientRefinement -------------------------
(***************************************************************************)
(* MqttClient, used by one thread whose disconnect handler does not        *)
(* reconnect, implements ClientContract for every depth of nesting.        *)
(*                                                                         *)
(* The invariant, Tame, says for each place of the call at the top which   *)
(* state words it can see, given the call below it, and that every other   *)
(* call waits for the one above it.  A step then moves the call at the     *)
(* top, calls a function from it or returns from it, and OpsOf changes at  *)
(* most in its last layer.  What OpsOf computes is shown by induction over *)
(* the depth, with a set of depths as the induction hypothesis.            *)
(***************************************************************************)
EXTENDS MqttClientContract, MqttClientSafety, SequenceTheorems, WellFoundedInduction

-----------------------------------------------------------------------------
(* Induction over the depth of a stack, with a set for the induction       *)
(* hypothesis: a set of natural numbers has a least element.               *)

\* A set of natural numbers has a least element.
LEMMA LeastNumber ==
  ASSUME NEW T \in SUBSET Nat, T # {}
  PROVE  \E n \in T : \A m \in T : n <= m
<1> DEFINE R == OpToRel(<, Nat)
<1>1. IsWellFoundedOn(R, Nat) BY NatLessThanWellFounded
<1> HIDE DEF R
<1>2. PICK n \in T : \A m \in T : ~(<<m, n>> \in R) BY <1>1, WFMin
<1>3. \A m \in T : ~(m < n) BY <1>2 DEF R, OpToRel
<1> QED BY <1>3

\* A set that has 0 and the successors of its members has every number up to n.
LEMMA Climb ==
  ASSUME NEW n \in Nat, NEW S, 0 \in S, \A m \in 1..n : m - 1 \in S => m \in S
  PROVE  \A m \in 0..n : m \in S
<1> DEFINE T == {m \in 0..n : m \notin S}
<1> SUFFICES ASSUME T # {} PROVE FALSE OBVIOUS
<1>1. T \in SUBSET Nat OBVIOUS
<1> HIDE DEF T
<1>2. PICK k \in T : \A m \in T : k <= m BY <1>1, LeastNumber
<1>3. k \in 0..n /\ k \notin S BY DEF T
<1>4. k \in 1..n BY <1>3
<1>5. k - 1 \in 0..n /\ ~(k <= k - 1) BY <1>4
<1>6. k - 1 \in S BY <1>2, <1>5 DEF T
<1> QED BY <1>3, <1>4, <1>6

-----------------------------------------------------------------------------
(* What OpsOf computes.                                                    *)

\* What can be on the contract's stack of operations.
Operations == Requests \cup {"yield", "callback"}

\* For each state word, the operations under way.
Layers == [ClientStates -> Seq(Operations)]

\* No operation, whatever the state word.
Nothing == [s \in ClientStates |-> <<>>]

\* No operation is a value OpsOf may compute.
LEMMA NothingTyped == Nothing \in Layers
  <1>1. <<>> \in Seq(Operations) OBVIOUS
  <1> QED BY <1>1 DEF Nothing, Layers

\* What a frame adds to the stack of operations.
LEMMA OperationTyped ==
  ASSUME NEW f \in Frames, f.fn \in OperationFns
  PROVE  FoundBy(f) \in ClientStates /\ OperationOf(f) \in Seq(Operations)
<1>1. FoundBy(f) \in ClientStates BY StateNames DEF FoundBy, Frames
<1>2. /\ <<"callback">> \in Seq(Operations) /\ <<>> \in Seq(Operations) /\ <<"yield">> \in Seq(Operations)
      /\ \A x \in Requests : <<x>> \in Seq(Operations)
  BY DEF Operations
<1>3. f.fn \in Requests \cup {"yield", "handle_disconnect", "deliver", "disconnect"} BY DEF OperationFns
<1>4. \A x \in Requests : x \notin {"deliver", "disconnect", "handle_disconnect"} BY DEF Requests
<1>5. OperationOf(f) \in Seq(Operations)
  <2>1. CASE f.fn \in Requests BY <1>2, <1>4, <2>1 DEF OperationOf
  <2>2. CASE f.fn = "yield" BY <1>2, <2>2 DEF OperationOf
  <2>3. CASE f.fn = "handle_disconnect" BY <1>2, <2>3 DEF OperationOf
  <2>4. CASE f.fn = "deliver" BY <1>2, <2>4 DEF OperationOf
  <2>5. CASE f.fn = "disconnect" BY <1>2, <2>5 DEF OperationOf
  <2> QED BY <1>3, <2>1, <2>2, <2>3, <2>4, <2>5
<1> QED BY <1>1, <1>5

\* One step of the recursion of OpsOf.
LEMMA AtopTyped ==
  ASSUME NEW f \in Frames, NEW below \in Layers
  PROVE  /\ Atop(f, below) \in Layers
         /\ \A s \in ClientStates :
              Atop(f, below)[s] = IF s = "CONNECTED_IDLE" THEN <<>>
                                  ELSE IF f.fn \in OperationFns /\ s \in Claims(f)
                                       THEN below[FoundBy(f)] \o OperationOf(f)
                                       ELSE below[s]
<1>1. <<>> \in Seq(Operations) OBVIOUS
<1>2. \A s \in ClientStates : below[s] \in Seq(Operations) BY DEF Layers
<1>3. f.fn \in OperationFns => below[FoundBy(f)] \o OperationOf(f) \in Seq(Operations)
  BY <1>2, OperationTyped, ConcatProperties
<1>4. Atop(f, below) \in Layers BY <1>1, <1>2, <1>3 DEF Atop, Layers
<1> QED BY <1>4 DEF Atop

\* The recursion of OpsOf, up to depth n.
Unfolds(g, calls, n) ==
  /\ g[0] = Nothing
  /\ \A d \in 1..n : g[d] = Atop(calls[d], g[d - 1])

\* Some function satisfies the recursion of OpsOf: by induction over the depth.
LEMMA OpsExist ==
  ASSUME NEW calls \in [1..MaxDepth -> Frames]
  PROVE  \E g \in [0..MaxDepth -> Layers] : Unfolds(g, calls, MaxDepth)
<1> DEFINE S == {n \in 0..MaxDepth : \E g \in [0..MaxDepth -> Layers] : Unfolds(g, calls, n)}
<1>1. MaxDepth \in Nat BY BoundsAssumption
<1>2. 0 \in S
  <2> DEFINE g == [d \in 0..MaxDepth |-> Nothing]
  <2>1. g \in [0..MaxDepth -> Layers] /\ g[0] = Nothing BY <1>1, NothingTyped
  <2> HIDE DEF g
  <2>2. Unfolds(g, calls, 0) BY <2>1 DEF Unfolds
  <2> QED BY <1>1, <2>1, <2>2
<1>3. ASSUME NEW n \in 1..MaxDepth, n - 1 \in S PROVE n \in S
  <2>1. PICK g \in [0..MaxDepth -> Layers] : Unfolds(g, calls, n - 1) BY <1>3
  <2> DEFINE x == Atop(calls[n], g[n - 1])
             h == [g EXCEPT ![n] = x]
  <2>2. x \in Layers
    <3>1. n - 1 \in 0..MaxDepth BY <1>1
    <3> QED BY <2>1, <3>1, AtopTyped
  <2> HIDE DEF x
  <2>3. h \in [0..MaxDepth -> Layers] /\ h[n] = x /\ \A d \in 0..MaxDepth : d # n => h[d] = g[d]
    BY <1>1, <2>2
  <2> HIDE DEF h
  <2>4. h[0] = Nothing BY <1>1, <2>1, <2>3 DEF Unfolds
  <2>5. ASSUME NEW d \in 1..n PROVE h[d] = Atop(calls[d], h[d - 1])
    <3>1. d - 1 \in 0..MaxDepth /\ d - 1 # n /\ d \in 0..MaxDepth BY <1>1
    <3>2. h[d - 1] = g[d - 1] BY <2>3, <3>1
    <3>3. CASE d = n BY <2>3, <3>2, <3>3 DEF x
    <3>4. CASE d # n
      <4>1. d \in 1..(n - 1) BY <1>1, <3>4
      <4>2. g[d] = Atop(calls[d], g[d - 1]) BY <2>1, <4>1 DEF Unfolds
      <4> QED BY <2>3, <3>1, <3>2, <3>4, <4>2
    <3> QED BY <3>3, <3>4
  <2>6. Unfolds(h, calls, n) BY <2>4, <2>5 DEF Unfolds
  <2>7. n \in 0..MaxDepth BY <1>1
  <2> QED BY <2>3, <2>6, <2>7
<1> HIDE DEF S
<1>4. \A n \in 0..MaxDepth : n \in S BY <1>1, <1>2, <1>3, Climb
<1>5. MaxDepth \in S BY <1>1, <1>4
<1> QED BY <1>5 DEF S

\* OpsOf satisfies its recursion.
LEMMA OpsUnfold ==
  ASSUME NEW calls \in [1..MaxDepth -> Frames]
  PROVE  Unfolds(OpsOf(calls), calls, MaxDepth)
<1>1. PICK g \in [0..MaxDepth -> Layers] : Unfolds(g, calls, MaxDepth) BY OpsExist
<1>2. g = [d \in 0..MaxDepth |-> IF d = 0 THEN [s \in ClientStates |-> <<>>] ELSE Atop(calls[d], g[d - 1])]
  <2>1. ASSUME NEW d \in 0..MaxDepth
        PROVE  g[d] = IF d = 0 THEN [s \in ClientStates |-> <<>>] ELSE Atop(calls[d], g[d - 1])
    <3>1. CASE d = 0 BY <1>1, <3>1 DEF Unfolds, Nothing
    <3>2. CASE d # 0
      <4>1. d \in 1..MaxDepth BY <3>2, BoundsAssumption
      <4> QED BY <1>1, <3>2, <4>1 DEF Unfolds
    <3> QED BY <3>1, <3>2
  <2> QED BY <2>1
<1>3. OpsOf(calls) = [d \in 0..MaxDepth |-> IF d = 0 THEN [s \in ClientStates |-> <<>>]
                                            ELSE Atop(calls[d], OpsOf(calls)[d - 1])]
  BY <1>2 DEF OpsOf
<1> HIDE DEF OpsOf
<1> DEFINE o == OpsOf(calls)
<1>4. o = [d \in 0..MaxDepth |-> IF d = 0 THEN [s \in ClientStates |-> <<>>] ELSE Atop(calls[d], o[d - 1])]
  BY <1>3
<1> HIDE DEF o
<1>5. 0 \in 0..MaxDepth /\ \A d \in 1..MaxDepth : d \in 0..MaxDepth /\ d # 0 BY BoundsAssumption
<1>6. o[0] = Nothing BY <1>4, <1>5 DEF Nothing
<1>7. \A d \in 1..MaxDepth : o[d] = Atop(calls[d], o[d - 1]) BY <1>4, <1>5
<1> QED BY <1>6, <1>7 DEF Unfolds, o

\* The states for which no operation is under way, whatever the calls.
Free == {"INVALID", "CONNECTED_IDLE", "INITIALIZED", "CONNECTING", "DISCONNECTED_ERROR",
         "DISCONNECTED_MANUALLY", "PENDING_RECONNECT"}

\* No operation claims a free state.
LEMMA FreeUnclaimed ==
  ASSUME NEW f, f.fn \in OperationFns, NEW s \in Free
  PROVE  s \notin Claims(f)
BY DEF Free, OperationFns, Claims, ClaimsAt, InProgress, Requests

\* Types; nothing is under way for a free state.
LEMMA OpsTyped ==
  ASSUME NEW calls \in [1..MaxDepth -> Frames]
  PROVE  \A n \in 0..MaxDepth : /\ OpsOf(calls)[n] \in Layers
                                /\ \A s \in Free : OpsOf(calls)[n][s] = <<>>
<1> DEFINE o == OpsOf(calls)
           S == {n \in 0..MaxDepth : o[n] \in Layers /\ \A s \in Free : o[n][s] = <<>>}
<1>1. MaxDepth \in Nat BY BoundsAssumption
<1>2. Unfolds(o, calls, MaxDepth) BY OpsUnfold
<1> HIDE DEF o
<1>3. Free \subseteq ClientStates BY StateNames DEF Free, ClientStates
<1>4. 0 \in S BY <1>1, <1>2, <1>3, NothingTyped DEF Unfolds, Nothing
<1>5. ASSUME NEW n \in 1..MaxDepth, n - 1 \in S PROVE n \in S
  <2>1. o[n] = Atop(calls[n], o[n - 1]) /\ calls[n] \in Frames /\ o[n - 1] \in Layers
    BY <1>2, <1>5 DEF Unfolds
  <2>2. o[n] \in Layers BY <2>1, AtopTyped
  <2>3. ASSUME NEW s \in Free PROVE o[n][s] = <<>>
    <3>1. o[n - 1][s] = <<>> BY <1>5
    <3>2. ~(calls[n].fn \in OperationFns /\ s \in Claims(calls[n])) BY FreeUnclaimed
    <3> QED BY <1>3, <2>1, <3>1, <3>2, AtopTyped
  <2>4. n \in 0..MaxDepth BY <1>1
  <2> QED BY <2>2, <2>3, <2>4
<1> HIDE DEF S
<1>6. \A n \in 0..MaxDepth : n \in S BY <1>1, <1>4, <1>5, Climb
<1> QED BY <1>6 DEF S, o

\* Calls above the first n do not matter.
LEMMA OpsSame ==
  ASSUME NEW calls \in [1..MaxDepth -> Frames], NEW other \in [1..MaxDepth -> Frames],
         NEW n \in 0..MaxDepth, \A e \in 1..n : other[e] = calls[e]
  PROVE  OpsOf(other)[n] = OpsOf(calls)[n]
<1> DEFINE o == OpsOf(calls)
           p == OpsOf(other)
           S == {m \in 0..n : p[m] = o[m]}
<1>1. MaxDepth \in Nat /\ n \in Nat BY BoundsAssumption
<1>2. Unfolds(o, calls, MaxDepth) /\ Unfolds(p, other, MaxDepth) BY OpsUnfold
<1> HIDE DEF o, p
<1>3. 0 \in S BY <1>1, <1>2 DEF Unfolds
<1>4. ASSUME NEW m \in 1..n, m - 1 \in S PROVE m \in S
  <2>1. m \in 1..MaxDepth /\ m \in 0..n BY <1>1
  <2>2. p[m] = Atop(other[m], p[m - 1]) /\ o[m] = Atop(calls[m], o[m - 1]) BY <1>2, <2>1 DEF Unfolds
  <2>3. p[m - 1] = o[m - 1] /\ other[m] = calls[m] BY <1>4
  <2> QED BY <2>1, <2>2, <2>3
<1> HIDE DEF S
<1>5. \A m \in 0..n : m \in S BY <1>1, <1>3, <1>4, Climb
<1> QED BY <1>1, <1>5 DEF S, o, p

-----------------------------------------------------------------------------
(* The inductive invariant.                                                *)

\* The states in which a client is left by calls that have ended.
Rest == {"CONNECTED_IDLE", "DISCONNECTED_ERROR", "DISCONNECTED_MANUALLY", "PENDING_RECONNECT"}

\* A yield that reads, or gives the connection up.
Reading == {"CONNECTED_IDLE", "YIELD_IN_PROGRESS", "DISCONNECTED_ERROR", "DISCONNECTED_MANUALLY"}

\* The states that a call relies on a call below it to have stored.
Word(c) ==
  CASE c.fn = "none" -> {"INITIALIZED"}
    [] c.fn \in Requests -> {InProgress(c.fn)}
    [] c.fn = "deliver" -> {"WAIT_FOR_CB_RETURN"}
    [] c.fn = "yield" /\ c.pc = "delivered" -> {"YIELD_IN_PROGRESS"}
    [] c.fn = "handle_disconnect" -> {"YIELD_IN_PROGRESS"}
    [] c.fn = "attempt_reconnect" /\ c.pc = "check" -> {"INITIALIZED"}
    [] OTHER -> {}

\* The states that a function called by c may find.
Found(c) == Rest \cup Word(c)

\* Call f has compared the state with old and is about to store new.
Stores(f, pc, s, old, new) == f.pc = pc /\ f.pending = new /\ s = old
\* Call f is at one of pcs, with nothing to store, and the state is one of states.
Stands(f, pcs, s, states) == f.pc \in pcs /\ f.pending = "NONE" /\ s \in states

\* publish, subscribe, unsubscribe and resubscribe, called by c; s is the state
\* word and rc the result of the last call.
TameRequest(f, c, s, rc) ==
  \/ Stands(f, {"read", "claim", "failed"}, s, Found(c))
  \/ Stores(f, "send", s, f.saved, InProgress(f.fn))
  \/ Stands(f, {"send", "wait"}, s, Rest \cup {InProgress(f.fn)})
  \/ Stands(f, {"finish"}, s, Rest \cup {InProgress(f.fn)}) /\ rc # "RECONNECTED"
  \/ Stores(f, "done", s, InProgress(f.fn), f.saved) /\ rc # "RECONNECTED"
  \/ Stands(f, {"done"}, s, Found(c)) /\ rc # "RECONNECTED" /\ (rc = "SUCCESS" => s = f.saved)

\* deliver_message.
TameDeliver(f, c, s) ==
  \/ Stands(f, {"read", "claim"}, s, {"CONNECTED_IDLE"} \cup Word(c))
  \/ Stores(f, "callback", s, f.saved, "WAIT_FOR_CB_RETURN")
  \/ Stands(f, {"callback", "finish"}, s, Rest \cup {"WAIT_FOR_CB_RETURN"})
  \/ Stores(f, "ack", s, "WAIT_FOR_CB_RETURN", f.saved)
  \/ Stands(f, {"ack"}, s, {f.saved})
  \/ Stands(f, {"failed"}, s, Rest)

\* connect.
TameConnect(f, c, s) ==
  \/ Stands(f, {"read"}, s, Found(c))
  \/ Stands(f, {"claim"}, s, {f.saved})
  \/ Stores(f, "tls", s, f.saved, "CONNECTING")
  \/ Stands(f, {"tls", "connack", "teardown", "fail", "finish"}, s, {"CONNECTING"})
  \/ \E new \in {"CONNECTED_IDLE", "DISCONNECTED_ERROR"} : Stores(f, "done", s, "CONNECTING", new)
  \/ Stands(f, {"done"}, s, {"CONNECTED_IDLE", "DISCONNECTED_ERROR"})

\* disconnect.
TameDisconnect(f, c, s) ==
  \/ Stands(f, {"read"}, s, Found(c)) /\ (c.fn = "handle_disconnect" => s # "PENDING_RECONNECT")
  \/ Stands(f, {"claim"}, s, {f.saved})
  \/ Stores(f, "send", s, f.saved, "DISCONNECTING")
  \/ Stands(f, {"send", "manual", "undo"}, s, {"DISCONNECTING"})

\* attempt_reconnect.
TameReconnect(f, c, s, rc) ==
  \/ Stands(f, {"read"}, s, Found(c))
  \/ Stands(f, {"check", "pend", "attempting"}, s, Rest)
  \/ Stores(f, "attempting", s, "DISCONNECTED_ERROR", "PENDING_RECONNECT")
  \/ Stands(f, {"resub"}, s, Rest) /\ rc # "RECONNECTED" /\ (rc = "SUCCESS" => s = "CONNECTED_IDLE")

\* yield.
TameYield(f, c, s, rc) ==
  \/ Stands(f, {"read"}, s, Found(c))
  \/ Stands(f, {"claim"}, s, {"CONNECTED_IDLE"})
  \/ Stores(f, "loop", s, "CONNECTED_IDLE", "YIELD_IN_PROGRESS")
  \/ Stores(f, "until", s, "CONNECTED_IDLE", "YIELD_IN_PROGRESS") /\ rc = "RECONNECTED"
  \/ Stands(f, {"loop", "finish"}, s, Rest \cup {"YIELD_IN_PROGRESS"})
  \/ Stands(f, {"cycle"}, s, Reading)
  \/ Stands(f, {"delivered"}, s, IF rc = "SUCCESS" THEN {"CONNECTED_IDLE", "YIELD_IN_PROGRESS"}
                                                  ELSE Rest \cup {"YIELD_IN_PROGRESS"})
  \/ Stands(f, {"keepalive"}, s, {"CONNECTED_IDLE", "YIELD_IN_PROGRESS"})
  \/ Stands(f, {"lost"}, s, {"DISCONNECTED_ERROR"})
  \/ Stores(f, "pending", s, "DISCONNECTED_ERROR", "PENDING_RECONNECT")
  \/ Stands(f, {"pending"}, s, {"PENDING_RECONNECT"})
  \/ Stands(f, {"reconn"}, s, IF rc = "RECONNECTED" THEN {"CONNECTED_IDLE"} ELSE Rest)
  \/ Stands(f, {"until"}, s, IF rc \in {"DISCONNECTED", "ATTEMPTING"} THEN Rest
                                                     ELSE Rest \cup {"YIELD_IN_PROGRESS"})
  \/ Stores(f, "done", s, "YIELD_IN_PROGRESS", "CONNECTED_IDLE")
  \/ Stands(f, {"done", "failed"}, s, Rest)

\* handle_disconnect.
TameLost(f, s, rc) ==
  \/ Stands(f, {"read", "force"}, s, Reading)
  \/ Stands(f, {"disc"}, s, IF rc = "SUCCESS" THEN {"DISCONNECTED_MANUALLY"} ELSE Reading)
  \/ Stands(f, {"drop"}, s, {"DISCONNECTED_ERROR"})
  \/ Stands(f, {"handler", "settle"}, s, {"DISCONNECTED_ERROR", "DISCONNECTED_MANUALLY"})

\* The call at the top.
TameTop(f, c, s, rc) ==
  \/ f.fn \in Requests /\ TameRequest(f, c, s, rc)
  \/ f.fn = "deliver" /\ TameDeliver(f, c, s)
  \/ f.fn = "connect" /\ TameConnect(f, c, s)
  \/ f.fn = "disconnect" /\ TameDisconnect(f, c, s)
  \/ f.fn = "attempt_reconnect" /\ TameReconnect(f, c, s, rc)
  \/ f.fn = "yield" /\ TameYield(f, c, s, rc)
  \/ f.fn = "handle_disconnect" /\ TameLost(f, s, rc)

\* What a call has saved.
TameFrame(f, c) ==
  /\ f.fn \in Requests \cup {"deliver", "disconnect"} /\ f.pc # "read" => f.saved \in {"CONNECTED_IDLE"} \cup Word(c)
  /\ f.fn = "connect" /\ f.pc # "read" => ValidForConnect(f.saved)
  /\ f.fn = "resubscribe" /\ f.pc # "read" => f.saved = "CONNECTED_IDLE"

\* Call f waits for the function fn.
Awaits(f, fn) ==
  /\ f.pending = "NONE"
  /\ \/ f.fn \in Requests /\ f.pc = "wait" /\ fn = "deliver"
     \/ f.fn = "deliver" /\ f.pc = "callback" /\ fn \in ApiFns
     \/ f.fn = "yield" /\ f.pc = "delivered" /\ fn = "deliver"
     \/ f.fn = "yield" /\ f.pc = "reconn" /\ fn = "attempt_reconnect"
     \/ f.fn = "yield" /\ f.pc = "lost" /\ fn = "handle_disconnect"
     \/ f.fn = "attempt_reconnect" /\ f.pc = "check" /\ fn = "connect"
     \/ f.fn = "attempt_reconnect" /\ f.pc = "resub" /\ fn = "resubscribe"
     \/ f.fn = "handle_disconnect" /\ f.pc = "disc" /\ fn = "disconnect"

\* The call below call d.
CallerOf(calls, d) == IF d = 1 THEN NoFrame ELSE calls[d - 1]

\* The first n calls of a stack: the top one sees a state it can go on from, and
\* each other one waits for the function above it.
TameStack(calls, n, s, rc) ==
  /\ n = 0 => s \in Rest \cup {"INITIALIZED"}
  /\ n > 0 => TameTop(calls[n], CallerOf(calls, n), s, rc)
  /\ \A d \in 1..n : TameFrame(calls[d], CallerOf(calls, d))
  /\ \A d \in 1..(n-1) : Awaits(calls[d], calls[d + 1].fn)

\* The inductive invariant of the refinement.
Tame(t) == TameStack(stack[t], depth[t], clientState, ret[t])

\* The call below the call at the top.
Caller(t) == CallerOf(stack[t], depth[t])

\* What call c may rely on when the function fn that it called returns.
Resumable(fn, c, s, rc) ==
  /\ s \in Found(c)
  /\ fn = "deliver" /\ rc = "SUCCESS" => s \in {"CONNECTED_IDLE"} \cup Word(c)
  /\ fn = "handle_disconnect" => s = "DISCONNECTED_ERROR"
  /\ fn = "attempt_reconnect" /\ rc = "RECONNECTED" => s = "CONNECTED_IDLE"
  /\ c.fn = "attempt_reconnect" /\ fn = "connect" => s # "INITIALIZED"
  /\ c.fn = "attempt_reconnect" /\ fn = "resubscribe"
       => rc # "RECONNECTED" /\ (rc = "SUCCESS" => s = "CONNECTED_IDLE")
  /\ c.fn = "handle_disconnect" /\ fn = "disconnect"
       => s # "PENDING_RECONNECT" /\ (rc = "SUCCESS" => s = "DISCONNECTED_MANUALLY")

\* What each function relies on its caller to have stored.
LEMMA Words ==
  ASSUME NEW c
  PROVE  /\ c.fn = "none" => Word(c) = {"INITIALIZED"}
         /\ c.fn \in Requests => Word(c) = {InProgress(c.fn)}
         /\ c.fn = "deliver" => Word(c) = {"WAIT_FOR_CB_RETURN"}
         /\ c.fn = "yield" /\ c.pc = "delivered" => Word(c) = {"YIELD_IN_PROGRESS"}
         /\ c.fn = "yield" /\ c.pc # "delivered" => Word(c) = {}
         /\ c.fn = "handle_disconnect" => Word(c) = {"YIELD_IN_PROGRESS"}
         /\ c.fn = "attempt_reconnect" /\ c.pc = "check" => Word(c) = {"INITIALIZED"}
         /\ c.fn = "attempt_reconnect" /\ c.pc # "check" => Word(c) = {}
BY DEF Word, Requests

\* A call that waits goes on from the state it may rely on.
LEMMA Resumes ==
  ASSUME NEW c, NEW fn, Awaits(c, fn), NEW s, NEW rc, Resumable(fn, c, s, rc), NEW b
  PROVE  TameTop(c, b, s, rc)
<1> USE DEF Stands
<1>1. c.pending = "NONE" BY DEF Awaits
<1>2. CASE c.fn \in Requests
  <2>1. c.pc = "wait" BY <1>2 DEF Awaits, Requests
  <2>2. s \in Rest \cup {InProgress(c.fn)} BY <1>2, Words DEF Resumable, Found
  <2> QED BY <1>1, <1>2, <2>1, <2>2 DEF TameTop, TameRequest
<1>3. CASE c.fn = "deliver"
  <2>1. c.pc = "callback" BY <1>3 DEF Awaits, Requests
  <2>2. s \in Rest \cup {"WAIT_FOR_CB_RETURN"} BY <1>3, Words DEF Resumable, Found
  <2> QED BY <1>1, <1>3, <2>1, <2>2 DEF TameTop, TameDeliver
<1>4. CASE c.fn = "yield"
  <2>1. \/ c.pc = "delivered" /\ fn = "deliver"
        \/ c.pc = "reconn" /\ fn = "attempt_reconnect"
        \/ c.pc = "lost" /\ fn = "handle_disconnect"
    BY <1>4 DEF Awaits, Requests
  <2>2. CASE c.pc = "delivered" /\ fn = "deliver"
    <3>1. Word(c) = {"YIELD_IN_PROGRESS"} BY <1>4, <2>2, Words
    <3> QED BY <1>1, <1>4, <2>2, <3>1 DEF TameTop, TameYield, Resumable, Found
  <2>3. CASE c.pc = "reconn" /\ fn = "attempt_reconnect"
    <3>1. Word(c) = {} BY <1>4, <2>3, Words
    <3> QED BY <1>1, <1>4, <2>3, <3>1 DEF TameTop, TameYield, Resumable, Found
  <2>4. CASE c.pc = "lost" /\ fn = "handle_disconnect"
    BY <1>1, <1>4, <2>4 DEF TameTop, TameYield, Resumable
  <2> QED BY <2>1, <2>2, <2>3, <2>4
<1>5. CASE c.fn = "attempt_reconnect"
  <2>1. (c.pc = "check" /\ fn = "connect") \/ (c.pc = "resub" /\ fn = "resubscribe")
    BY <1>5 DEF Awaits, Requests
  <2>2. s \in Rest
    <3>1. c.pc = "check" => Word(c) = {"INITIALIZED"} BY <1>5, Words
    <3>2. c.pc = "resub" => Word(c) = {} BY <1>5, Words
    <3> QED BY <1>5, <2>1, <3>1, <3>2 DEF Resumable, Found
  <2> QED BY <1>1, <1>5, <2>1, <2>2 DEF TameTop, TameReconnect, Resumable
<1>6. CASE c.fn = "handle_disconnect"
  <2>1. c.pc = "disc" /\ fn = "disconnect" BY <1>6 DEF Awaits, Requests
  <2>2. s \in Reading BY <1>6, <2>1, Words DEF Resumable, Found, Reading, Rest
  <2> QED BY <1>1, <1>6, <2>1, <2>2 DEF TameTop, TameLost, Resumable
<1> QED BY <1>2, <1>3, <1>4, <1>5, <1>6 DEF Awaits

\* The invariant, for the call at the top and its caller.
LEMMA TameAtTop ==
  ASSUME CtlTyped, NEW t \in Threads, depth[t] > 0, Tame(t)
  PROVE  /\ TameTop(Top(t), Caller(t), clientState, ret[t])
         /\ TameFrame(Top(t), Caller(t))
         /\ depth[t] = 1 => Caller(t) = NoFrame
         /\ depth[t] # 1 => /\ Awaits(Caller(t), Top(t).fn) /\ Caller(t) = stack[t][depth[t] - 1]
                            /\ TameFrame(Caller(t), CallerOf(stack[t], depth[t] - 1))
<1>1. depth[t] \in Nat /\ depth[t] \in 1..depth[t] BY TopTyped, BoundsAssumption
<1>2. depth[t] # 1 => depth[t] - 1 \in 1..(depth[t] - 1) /\ depth[t] - 1 \in 1..depth[t] /\ (depth[t] - 1) + 1 = depth[t]
  BY <1>1
<1> QED BY <1>1, <1>2 DEF Tame, TameStack, Top, Caller, CallerOf

\* The call at the top moves.
LEMMA TameMove ==
  ASSUME CtlTyped, NEW t \in Threads, depth[t] > 0, Tame(t),
         NEW f \in Frames, MovesTo(t, f), f.fn = Top(t).fn, TameFrame(f, Caller(t)),
         TameTop(f, Caller(t), clientState', ret'[t])
  PROVE  Tame(t)'
<1>1. depth[t] \in Nat /\ depth[t] > 0 /\ depth'[t] = depth[t] /\ stack'[t][depth[t]] = f
  BY TopTyped, BoundsAssumption DEF MovesTo
<1>2. \A d \in 1..(depth[t] - 1) : stack'[t][d] = stack[t][d] BY DEF MovesTo, CallersStay
<1>3. \A d \in 1..depth[t] : CallerOf(stack'[t], d) = CallerOf(stack[t], d)
  <2> SUFFICES ASSUME NEW d \in 1..depth[t] PROVE CallerOf(stack'[t], d) = CallerOf(stack[t], d) OBVIOUS
  <2>1. d # 1 => d - 1 \in 1..(depth[t] - 1) BY <1>1
  <2> QED BY <1>2, <2>1 DEF CallerOf
<1>4. ASSUME NEW d \in 1..depth[t] PROVE TameFrame(stack'[t][d], CallerOf(stack'[t], d))
  <2>1. CASE d = depth[t] BY <1>1, <1>3, <2>1 DEF Caller
  <2>2. CASE d # depth[t]
    <3>1. d \in 1..(depth[t] - 1) BY <1>1, <2>2
    <3>2. TameFrame(stack[t][d], CallerOf(stack[t], d)) BY DEF Tame, TameStack
    <3> QED BY <1>2, <1>3, <3>1, <3>2
  <2> QED BY <2>1, <2>2
<1>5. ASSUME NEW d \in 1..(depth[t] - 1) PROVE Awaits(stack'[t][d], stack'[t][d + 1].fn)
  <2>1. Awaits(stack[t][d], stack[t][d + 1].fn) BY DEF Tame, TameStack
  <2>2. stack'[t][d + 1].fn = stack[t][d + 1].fn
    <3>1. CASE d + 1 = depth[t] BY <1>1, <3>1 DEF Top
    <3>2. CASE d + 1 # depth[t]
      <4>1. d + 1 \in 1..(depth[t] - 1) BY <1>1, <3>2
      <4> QED BY <1>2, <4>1
    <3> QED BY <3>1, <3>2
  <2> QED BY <1>2, <2>1, <2>2
<1>6. TameTop(stack'[t][depth[t]], CallerOf(stack'[t], depth[t]), clientState', ret'[t])
  BY <1>1, <1>3 DEF Caller
<1> QED BY <1>1, <1>4, <1>5, <1>6 DEF Tame, TameStack

\* The call at the top calls a function.
LEMMA TameCall ==
  ASSUME CtlTyped, NEW t \in Threads, depth[t] > 0, Tame(t),
         NEW f \in Frames, NEW fn, CallsFrom(t, f, fn), f.fn = Top(t).fn, TameFrame(f, Caller(t)),
         Awaits(f, fn), TameTop(NewFrame(fn), f, clientState', ret'[t])
  PROVE  Tame(t)'
<1> DEFINE n == depth[t]
<1>1. /\ n \in Nat /\ n > 0 /\ depth'[t] = n + 1 /\ stack'[t][n] = f
      /\ stack'[t][n + 1] = NewFrame(fn)
  BY TopTyped, BoundsAssumption DEF CallsFrom
<1>2. \A d \in 1..(n - 1) : stack'[t][d] = stack[t][d] BY DEF CallsFrom, CallersStay
<1>3. \A d \in 1..n : TameFrame(stack[t][d], CallerOf(stack[t], d)) BY DEF Tame, TameStack
<1>4. \A d \in 1..(n - 1) : Awaits(stack[t][d], stack[t][d + 1].fn) BY DEF Tame, TameStack
<1>5. stack[t][n].fn = f.fn BY DEF Top
<1>6. TameFrame(f, CallerOf(stack[t], n)) BY DEF Caller
<1> HIDE DEF n
<1>7. \A d \in 1..n : CallerOf(stack'[t], d) = CallerOf(stack[t], d)
  <2> SUFFICES ASSUME NEW d \in 1..n PROVE CallerOf(stack'[t], d) = CallerOf(stack[t], d) OBVIOUS
  <2>1. d # 1 => d - 1 \in 1..(n - 1) BY <1>1
  <2> QED BY <1>2, <2>1 DEF CallerOf
<1>8. CallerOf(stack'[t], n + 1) = f
  <2>1. n + 1 # 1 /\ (n + 1) - 1 = n BY <1>1
  <2> QED BY <1>1, <2>1 DEF CallerOf
<1>9. ASSUME NEW d \in 1..(n + 1) PROVE TameFrame(stack'[t][d], CallerOf(stack'[t], d))
  <2>1. CASE d = n + 1 BY <1>1, <2>1 DEF TameFrame, NewFrame
  <2>2. CASE d = n
    <3>1. d \in 1..n BY <1>1, <2>2
    <3> QED BY <1>1, <1>6, <1>7, <2>2, <3>1
  <2>3. CASE d # n /\ d # n + 1
    <3>1. d \in 1..(n - 1) /\ d \in 1..n BY <1>1, <2>3
    <3> QED BY <1>2, <1>3, <1>7, <3>1
  <2> QED BY <2>1, <2>2, <2>3
<1>10. ASSUME NEW d \in 1..n PROVE Awaits(stack'[t][d], stack'[t][d + 1].fn)
  <2>1. CASE d = n BY <1>1, <2>1 DEF NewFrame
  <2>2. CASE d # n
    <3>1. d \in 1..(n - 1) BY <1>1, <2>2
    <3>2. stack'[t][d + 1].fn = stack[t][d + 1].fn
      <4>1. CASE d + 1 = n BY <1>1, <1>5, <4>1
      <4>2. CASE d + 1 # n
        <5>1. d + 1 \in 1..(n - 1) BY <1>1, <3>1, <4>2
        <5> QED BY <1>2, <5>1
      <4> QED BY <4>1, <4>2
    <3> QED BY <1>2, <1>4, <3>1, <3>2
  <2> QED BY <2>1, <2>2
<1>11. n + 1 # 0 /\ n + 1 > 0 /\ (n + 1) - 1 = n BY <1>1
<1> QED BY <1>1, <1>8, <1>9, <1>10, <1>11 DEF Tame, TameStack

\* The call at the top returns.
LEMMA TameReturn ==
  ASSUME CtlTyped, NEW t \in Threads, depth[t] > 0, Tame(t), NEW rc, Returns(t, rc),
         Resumable(Top(t).fn, Caller(t), clientState', rc)
  PROVE  Tame(t)'
<1> DEFINE n == depth[t]
           m == depth[t] - 1
<1>1. n \in Nat /\ m \in Nat /\ depth'[t] = m /\ m + 1 = n /\ ret'[t] = rc
  BY TopTyped, BoundsAssumption DEF Returns
<1>2. \A d \in 1..m : stack'[t][d] = stack[t][d] BY DEF Returns, CallersStay
<1>3. \A d \in 1..n : TameFrame(stack[t][d], CallerOf(stack[t], d)) BY DEF Tame, TameStack
<1>4. \A d \in 1..m : Awaits(stack[t][d], stack[t][d + 1].fn) BY DEF Tame, TameStack
<1>5. m = 0 => Caller(t) = NoFrame BY <1>1 DEF Caller, CallerOf
<1>6. m > 0 => Caller(t) = stack[t][m] BY <1>1 DEF Caller, CallerOf
<1>7. Top(t) = stack[t][n] BY DEF Top
<1> HIDE DEF n, m
<1>8. \A d \in 1..m : CallerOf(stack'[t], d) = CallerOf(stack[t], d)
  <2> SUFFICES ASSUME NEW d \in 1..m PROVE CallerOf(stack'[t], d) = CallerOf(stack[t], d) OBVIOUS
  <2>1. d # 1 => d - 1 \in 1..m BY <1>1
  <2> QED BY <1>2, <2>1 DEF CallerOf
<1>9. m = 0 => clientState' \in Rest \cup {"INITIALIZED"}
  <2>1. NoFrame.fn = "none" BY DEF NoFrame, NewFrame
  <2>2. Word(NoFrame) = {"INITIALIZED"} BY <2>1, Words
  <2> QED BY <1>5, <2>2 DEF Resumable, Found
<1>10. m > 0 => TameTop(stack'[t][m], CallerOf(stack'[t], m), clientState', rc)
  <2> HAVE m > 0
  <2>1. m \in 1..m BY <1>1
  <2>2. Awaits(stack[t][m], Top(t).fn) BY <1>1, <1>4, <1>7, <2>1
  <2> QED BY <1>2, <1>6, <2>1, <2>2, Resumes
<1>11. \A d \in 1..m : TameFrame(stack'[t][d], CallerOf(stack'[t], d))
  <2>1. \A d \in 1..m : d \in 1..n BY <1>1
  <2> QED BY <1>2, <1>3, <1>8, <2>1
<1>12. ASSUME NEW d \in 1..(m - 1) PROVE Awaits(stack'[t][d], stack'[t][d + 1].fn)
  <2>1. d \in 1..m /\ d + 1 \in 1..m BY <1>1
  <2> QED BY <1>2, <1>4, <2>1
<1> QED BY <1>1, <1>9, <1>10, <1>11, <1>12 DEF Tame, TameStack

-----------------------------------------------------------------------------
(* What the contract sees of a step.                                       *)

\* A yield renews a lost connection, or goes on although the client is closed.
Renews(f, s) ==
  /\ f.fn = "yield"
  /\ f.pc = "reconn" \/ (s = "DISCONNECTED_MANUALLY" /\ f.pc \in {"until", "loop", "cycle"})

\* A caller renews.
RenewedBelow(t) == \E d \in 1..(depth[t] - 1) : stack[t][d].fn = "yield" /\ stack[t][d].pc = "reconn"

\* The operations of the callers, for each state word.
Under(t) == OpsOf(stack[t])[depth[t] - 1]

\* A caller renews the connection only while it waits for attempt_reconnect.
LEMMA CallerRenews ==
  ASSUME NEW f, NEW fn, Awaits(f, fn), NEW s
  PROVE  Renews(f, s) <=> f.fn = "yield" /\ f.pc = "reconn"
BY DEF Awaits, Renews, Requests

\* Whether a renewal is under way, before a step,
LEMMA RenewingNow ==
  ASSUME CtlTyped, NEW t \in Threads, depth[t] > 0, Tame(t)
  PROVE  Renewing(t) <=> RenewedBelow(t) \/ Renews(Top(t), clientState)
<1>1. depth[t] \in Nat BY TopTyped, BoundsAssumption
<1>2. Renewing(t) <=> \E d \in 1..depth[t] : Renews(stack[t][d], clientState)
  BY DEF Renewing, Renews
<1>3. \A d \in 1..(depth[t] - 1) :
        Renews(stack[t][d], clientState) <=> stack[t][d].fn = "yield" /\ stack[t][d].pc = "reconn"
  BY CallerRenews DEF Tame, TameStack
<1>4. \A d \in 1..depth[t] : d = depth[t] \/ d \in 1..(depth[t] - 1) BY <1>1
<1>5. \A d \in 1..(depth[t] - 1) : d \in 1..depth[t] BY <1>1
<1>6. depth[t] \in 1..depth[t] BY <1>1
<1> QED BY <1>2, <1>3, <1>4, <1>5, <1>6 DEF RenewedBelow, Top

\* after a move,
LEMMA RenewingMoved ==
  ASSUME CtlTyped, NEW t \in Threads, depth[t] > 0, Tame(t), NEW f, MovesTo(t, f)
  PROVE  Renewing(t)' <=> RenewedBelow(t) \/ Renews(f, clientState')
<1> DEFINE n == depth[t]
           s == clientState'
<1>1. n \in Nat /\ depth'[t] = n /\ stack'[t][n] = f BY TopTyped, BoundsAssumption DEF MovesTo
<1>2. Renewing(t)' <=> \E d \in 1..n : Renews(stack'[t][d], s)
  BY <1>1 DEF Renewing, Renews
<1>3. \A d \in 1..(n - 1) :
        Renews(stack[t][d], s) <=> stack[t][d].fn = "yield" /\ stack[t][d].pc = "reconn"
  BY CallerRenews DEF Tame, TameStack
<1>4. \A d \in 1..(n - 1) : stack'[t][d] = stack[t][d] BY DEF MovesTo, CallersStay
<1>5. \A d \in 1..n : d = n \/ d \in 1..(n - 1) BY <1>1
<1>6. \A d \in 1..(n - 1) : d \in 1..n BY <1>1
<1>7. n \in 1..n BY <1>1
<1>8. RenewedBelow(t) <=> \E d \in 1..(n - 1) : stack[t][d].fn = "yield" /\ stack[t][d].pc = "reconn"
  BY DEF RenewedBelow
<1> HIDE DEF n, s
<1> QED BY <1>1, <1>2, <1>3, <1>4, <1>5, <1>6, <1>7, <1>8 DEF s

\* after a call,
LEMMA RenewingCalled ==
  ASSUME CtlTyped, NEW t \in Threads, depth[t] > 0, Tame(t), NEW f, NEW fn, CallsFrom(t, f, fn)
  PROVE  Renewing(t)' <=> RenewedBelow(t) \/ Renews(f, clientState')
<1> DEFINE n == depth[t]
           s == clientState'
<1>1. /\ n \in Nat /\ depth'[t] = n + 1 /\ stack'[t][n] = f /\ n > 0
      /\ stack'[t][n + 1] = NewFrame(fn)
  BY TopTyped, BoundsAssumption DEF CallsFrom
<1>2. Renewing(t)' <=> \E d \in 1..(n + 1) : Renews(stack'[t][d], s)
  BY <1>1 DEF Renewing, Renews
<1>3. \A d \in 1..(n - 1) :
        Renews(stack[t][d], s) <=> stack[t][d].fn = "yield" /\ stack[t][d].pc = "reconn"
  BY CallerRenews DEF Tame, TameStack
<1>4. \A d \in 1..(n - 1) : stack'[t][d] = stack[t][d] BY DEF CallsFrom, CallersStay
<1>5. \A d \in 1..(n + 1) : d = n \/ d = n + 1 \/ d \in 1..(n - 1) BY <1>1
<1>6. \A d \in 1..(n - 1) : d \in 1..(n + 1) BY <1>1
<1>7. n \in 1..(n + 1) BY <1>1
<1>8. RenewedBelow(t) <=> \E d \in 1..(n - 1) : stack[t][d].fn = "yield" /\ stack[t][d].pc = "reconn"
  BY DEF RenewedBelow
<1>9. ~Renews(NewFrame(fn), s) BY DEF Renews, NewFrame
<1> HIDE DEF n, s
<1> QED BY <1>1, <1>2, <1>3, <1>4, <1>5, <1>6, <1>7, <1>8, <1>9 DEF s

\* and after a return.
LEMMA RenewingReturned ==
  ASSUME CtlTyped, NEW t \in Threads, depth[t] > 0, Tame(t), NEW rc, Returns(t, rc)
  PROVE  Renewing(t)' <=> RenewedBelow(t)
<1> DEFINE m == depth[t] - 1
           s == clientState'
<1>1. m \in Nat /\ depth'[t] = m BY TopTyped, BoundsAssumption DEF Returns
<1>2. Renewing(t)' <=> \E d \in 1..m : Renews(stack'[t][d], s) BY <1>1 DEF Renewing, Renews
<1>3. \A d \in 1..m :
        Renews(stack[t][d], s) <=> stack[t][d].fn = "yield" /\ stack[t][d].pc = "reconn"
  BY CallerRenews DEF Tame, TameStack
<1>4. \A d \in 1..m : stack'[t][d] = stack[t][d] BY DEF Returns, CallersStay
<1>5. RenewedBelow(t) <=> \E d \in 1..m : stack[t][d].fn = "yield" /\ stack[t][d].pc = "reconn"
  BY DEF RenewedBelow
<1> HIDE DEF m, s
<1> QED BY <1>1, <1>2, <1>3, <1>4, <1>5

\* handle_disconnect is on the stack as long as it runs.
LEMMA LosingMoved ==
  ASSUME CtlTyped, NEW t \in Threads, depth[t] > 0, NEW f, MovesTo(t, f), f.fn = Top(t).fn
  PROVE  LosingIt(t)' <=> LosingIt(t)
<1> DEFINE n == depth[t]
<1>1. n \in Nat /\ n > 0 /\ depth'[t] = n /\ stack'[t][n].fn = stack[t][n].fn
  BY TopTyped, BoundsAssumption DEF MovesTo, Top
<1>2. \A d \in 1..(n - 1) : stack'[t][d] = stack[t][d] BY DEF MovesTo, CallersStay
<1> HIDE DEF n
<1>3. \A d \in 1..n : d = n \/ d \in 1..(n - 1) BY <1>1
<1>4. \A d \in 1..n : stack'[t][d].fn = stack[t][d].fn BY <1>1, <1>2, <1>3
<1> QED BY <1>1, <1>4 DEF LosingIt, n

\* A call of it puts it there.
LEMMA LosingCalled ==
  ASSUME CtlTyped, NEW t \in Threads, depth[t] > 0, NEW f, NEW fn, CallsFrom(t, f, fn),
         f.fn = Top(t).fn
  PROVE  LosingIt(t)' <=> LosingIt(t) \/ fn = "handle_disconnect"
<1> DEFINE n == depth[t]
<1>1. /\ n \in Nat /\ n > 0 /\ depth'[t] = n + 1 /\ stack'[t][n].fn = stack[t][n].fn
      /\ stack'[t][n + 1].fn = fn
  BY TopTyped, BoundsAssumption DEF CallsFrom, Top, NewFrame
<1>2. \A d \in 1..(n - 1) : stack'[t][d] = stack[t][d] BY DEF CallsFrom, CallersStay
<1> HIDE DEF n
<1>3. \A d \in 1..n : d = n \/ d \in 1..(n - 1) BY <1>1
<1>4. \A d \in 1..n : stack'[t][d].fn = stack[t][d].fn BY <1>1, <1>2, <1>3
<1>5. \A d \in 1..(n + 1) : d = n + 1 \/ d \in 1..n BY <1>1
<1>6. n + 1 \in 1..(n + 1) /\ \A d \in 1..n : d \in 1..(n + 1) BY <1>1
<1> QED BY <1>1, <1>4, <1>5, <1>6 DEF LosingIt, n

\* The return of another function leaves it there.
LEMMA LosingReturned ==
  ASSUME CtlTyped, NEW t \in Threads, depth[t] > 0, NEW rc, Returns(t, rc),
         Top(t).fn # "handle_disconnect"
  PROVE  LosingIt(t)' <=> LosingIt(t)
<1> DEFINE n == depth[t]
           m == depth[t] - 1
<1>1. n \in Nat /\ m \in Nat /\ n = m + 1 /\ depth'[t] = m /\ stack[t][n].fn # "handle_disconnect"
  BY TopTyped, BoundsAssumption DEF Returns, Top
<1>2. \A d \in 1..m : stack'[t][d] = stack[t][d] BY DEF Returns, CallersStay
<1> HIDE DEF n, m
<1>3. \A d \in 1..n : d = n \/ d \in 1..m BY <1>1
<1>4. \A d \in 1..m : d \in 1..n BY <1>1
<1> QED BY <1>1, <1>2, <1>3, <1>4 DEF LosingIt, n

\* The link depends on the state and, for a closed client, on the cause.
LEMMA LinkSame ==
  ASSUME NEW t, clientState' = clientState,
         clientState = "DISCONNECTED_MANUALLY" => (LosingIt(t)' <=> LosingIt(t))
  PROVE  LinkOf(t)' = LinkOf(t)
BY DEF LinkOf, IsConnected, ConnectedStates

\* The link for each state word, before a step
LEMMA Links ==
  ASSUME NEW t
  PROVE  /\ clientState = "INITIALIZED" => LinkOf(t) = "new"
         /\ clientState = "CONNECTING" => LinkOf(t) = "connecting"
         /\ IsConnected(clientState) => LinkOf(t) = "up"
         /\ clientState = "DISCONNECTING" => LinkOf(t) = "closing"
         /\ clientState = "DISCONNECTED_MANUALLY" => LinkOf(t) = IF LosingIt(t) THEN "lost" ELSE "closed"
         /\ clientState = "DISCONNECTED_ERROR" => LinkOf(t) = "lost"
         /\ clientState = "PENDING_RECONNECT" => LinkOf(t) = "waiting"
BY DEF LinkOf, IsConnected, ConnectedStates

\* and after it.
LEMMA LinksNext ==
  ASSUME NEW t
  PROVE  /\ clientState' = "INITIALIZED" => LinkOf(t)' = "new"
         /\ clientState' = "CONNECTING" => LinkOf(t)' = "connecting"
         /\ IsConnected(clientState') => LinkOf(t)' = "up"
         /\ clientState' = "DISCONNECTING" => LinkOf(t)' = "closing"
         /\ clientState' = "DISCONNECTED_MANUALLY" => LinkOf(t)' = IF LosingIt(t)' THEN "lost" ELSE "closed"
         /\ clientState' = "DISCONNECTED_ERROR" => LinkOf(t)' = "lost"
         /\ clientState' = "PENDING_RECONNECT" => LinkOf(t)' = "waiting"
BY DEF LinkOf, IsConnected, ConnectedStates

\* The operations before and after a step.
LEMMA OpsBefore ==
  ASSUME CtlTyped, clientState \in ClientStates, NEW t \in Threads, depth[t] > 0
  PROVE  /\ Under(t) \in Layers /\ \A s \in Free : Under(t)[s] = <<>>
         /\ OpsNow(t) = Atop(Top(t), Under(t))[clientState]
<1>1. depth[t] \in 1..MaxDepth /\ stack[t] \in [1..MaxDepth -> Frames] BY TopTyped DEF CtlTyped
<1>2. depth[t] - 1 \in 0..MaxDepth BY <1>1, BoundsAssumption
<1>3. Unfolds(OpsOf(stack[t]), stack[t], MaxDepth) BY <1>1, OpsUnfold
<1>4. OpsOf(stack[t])[depth[t]] = Atop(stack[t][depth[t]], OpsOf(stack[t])[depth[t] - 1])
  BY <1>1, <1>3 DEF Unfolds
<1> QED BY <1>1, <1>2, <1>4, OpsTyped DEF Under, OpsNow, Top

\* After a move.
LEMMA OpsMoved ==
  ASSUME CtlTyped, CtlTyped', NEW t \in Threads, depth[t] > 0, NEW f, MovesTo(t, f)
  PROVE  OpsNow(t)' = Atop(f, Under(t))[clientState']
<1> DEFINE n == depth[t]
           calls == stack[t]
           other == stack'[t]
<1>1. /\ n \in 1..MaxDepth /\ depth'[t] = n /\ other[n] = f
      /\ calls \in [1..MaxDepth -> Frames] /\ other \in [1..MaxDepth -> Frames]
  BY TopTyped DEF CtlTyped, MovesTo
<1>2. \A d \in 1..(n - 1) : other[d] = calls[d] BY DEF MovesTo, CallersStay
<1>3. OpsNow(t)' = OpsOf(other)[n][clientState'] BY <1>1 DEF OpsNow
<1> HIDE DEF n, calls, other
<1>4. n - 1 \in 0..MaxDepth BY <1>1, BoundsAssumption
<1>5. OpsOf(other)[n - 1] = OpsOf(calls)[n - 1] BY <1>1, <1>2, <1>4, OpsSame
<1>6. Unfolds(OpsOf(other), other, MaxDepth) BY <1>1, OpsUnfold
<1>7. OpsOf(other)[n] = Atop(f, OpsOf(other)[n - 1]) BY <1>1, <1>6 DEF Unfolds
<1> QED BY <1>3, <1>5, <1>7 DEF Under, n, calls

\* After a call.
LEMMA OpsCalled ==
  ASSUME CtlTyped, CtlTyped', NEW t \in Threads, depth[t] > 0, NEW f, NEW fn, CallsFrom(t, f, fn)
  PROVE  OpsNow(t)' = Atop(NewFrame(fn), Atop(f, Under(t)))[clientState']
<1> DEFINE n == depth[t]
           calls == stack[t]
           other == stack'[t]
<1>1. /\ n \in 1..MaxDepth /\ depth'[t] = n + 1 /\ other[n] = f /\ other[n + 1] = NewFrame(fn)
      /\ calls \in [1..MaxDepth -> Frames] /\ other \in [1..MaxDepth -> Frames]
      /\ depth'[t] \in 0..MaxDepth
  BY TopTyped DEF CtlTyped, CallsFrom
<1>2. \A d \in 1..(n - 1) : other[d] = calls[d] BY DEF CallsFrom, CallersStay
<1>3. OpsNow(t)' = OpsOf(other)[n + 1][clientState'] BY <1>1 DEF OpsNow
<1> HIDE DEF n, calls, other
<1>4. n - 1 \in 0..MaxDepth /\ n + 1 \in 1..MaxDepth /\ (n + 1) - 1 = n BY <1>1, BoundsAssumption
<1>5. OpsOf(other)[n - 1] = OpsOf(calls)[n - 1] BY <1>1, <1>2, <1>4, OpsSame
<1>6. Unfolds(OpsOf(other), other, MaxDepth) BY <1>1, OpsUnfold
<1>7. OpsOf(other)[n] = Atop(f, OpsOf(other)[n - 1]) BY <1>1, <1>6 DEF Unfolds
<1>8. OpsOf(other)[n + 1] = Atop(NewFrame(fn), OpsOf(other)[n]) BY <1>1, <1>4, <1>6 DEF Unfolds
<1> QED BY <1>3, <1>5, <1>7, <1>8 DEF Under, n, calls

\* After a return.
LEMMA OpsReturned ==
  ASSUME CtlTyped, CtlTyped', NEW t \in Threads, depth[t] > 0, NEW rc, Returns(t, rc)
  PROVE  OpsNow(t)' = Under(t)[clientState']
<1> DEFINE m == depth[t] - 1
           calls == stack[t]
           other == stack'[t]
<1>1. /\ m \in 0..MaxDepth /\ depth'[t] = m
      /\ calls \in [1..MaxDepth -> Frames] /\ other \in [1..MaxDepth -> Frames]
  BY TopTyped, BoundsAssumption DEF CtlTyped, Returns
<1>2. \A d \in 1..m : other[d] = calls[d] BY DEF Returns, CallersStay
<1>3. OpsNow(t)' = OpsOf(other)[m][clientState'] BY <1>1 DEF OpsNow
<1>4. Under(t) = OpsOf(calls)[m] BY DEF Under
<1> HIDE DEF m, calls, other
<1>5. OpsOf(other)[m] = OpsOf(calls)[m] BY <1>1, <1>2, OpsSame
<1> QED BY <1>3, <1>4, <1>5

-----------------------------------------------------------------------------
(* Steps that the contract does not see, or sees as the end of a renewal.  *)

\* A step of the contract, or none.
Refines == Contract!Next \/ UNCHANGED Contract!contract

\* The one thread is the user of the contract.
LEMMA UserIs ==
  ASSUME NEW t, Threads = {t} PROVE User = t
BY DEF User

\* A step that the contract does not see.
LEMMA Stutters ==
  ASSUME NEW t, Threads = {t}, LinkOf(t)' = LinkOf(t), Renewing(t)' = Renewing(t),
         OpsNow(t)' = OpsNow(t)
  PROVE  Refines
BY UserIs DEF Refines, Contract!contract

\* A step of which the contract sees the end of a renewal, or nothing.
LEMMA RenewalEnds ==
  ASSUME NEW t, Threads = {t}, LinkOf(t)' = LinkOf(t) \/ (LinkOf(t) = "closed" /\ LinkOf(t)' = "lost"),
         Renewing(t), OpsNow(t)' = OpsNow(t)
  PROVE  Refines
<1>1. User = t BY UserIs
<1>2. Renewing(t)' \in BOOLEAN BY DEF Renewing
<1>3. Contract!RenewEnds BY <1>1, <1>2 DEF Contract!RenewEnds
<1> QED BY <1>3 DEF Refines, Contract!Next

\* Frame f stands for the same operation as frame g when the state is s.
OpsKept(g, f, s) ==
  s # "CONNECTED_IDLE" /\ f.fn \in OperationFns
  => /\ s \in Claims(f) <=> s \in Claims(g)
     /\ s \in Claims(f) => FoundBy(f) = FoundBy(g)

\* Such a frame leaves the operations as they are.
LEMMA KeptAtop ==
  ASSUME NEW f \in Frames, NEW g \in Frames, f.fn = g.fn, NEW s \in ClientStates, OpsKept(g, f, s),
         NEW below \in Layers
  PROVE  Atop(f, below)[s] = Atop(g, below)[s]
<1>1. OperationOf(f) = OperationOf(g) BY DEF OperationOf
<1> QED BY <1>1, AtopTyped DEF OpsKept

\* So does the frame of a function that has just been called.
LEMMA NewAtop ==
  ASSUME NEW fn \in Fns, fn # "handle_disconnect", NEW s \in ClientStates, NEW below \in Layers,
         \A x \in Free : below[x] = <<>>
  PROVE  Atop(NewFrame(fn), below)[s] = below[s]
<1>1. NewFrame(fn) \in Frames BY NewFrameTyped
<1>2. Claims(NewFrame(fn)) = {}
  <2>1. ClaimsAt(fn, "read", FALSE) = {} BY DEF ClaimsAt, Requests, Fns, ApiFns
  <2> QED BY <2>1 DEF Claims, NewFrame
<1>3. "CONNECTED_IDLE" \in Free BY DEF Free
<1> QED BY <1>1, <1>2, <1>3, AtopTyped

\* Nothing is under way for a free state, after a frame too.
LEMMA FreeAtop ==
  ASSUME NEW f \in Frames, NEW below \in Layers, \A x \in Free : below[x] = <<>>
  PROVE  \A x \in Free : Atop(f, below)[x] = <<>>
<1> SUFFICES ASSUME NEW x \in Free PROVE Atop(f, below)[x] = <<>> OBVIOUS
<1>1. x \in ClientStates BY DEF Free, ClientStates, ConnectedStates
<1>2. ~(f.fn \in OperationFns /\ x \in Claims(f)) BY FreeUnclaimed
<1> QED BY <1>1, <1>2, AtopTyped

\* The types and the invariants the proof rests on, for a client that one
\* thread uses without reconnecting in the disconnect handler.
Ready(t) == EnvTyped /\ CtlTyped /\ Linked(t) /\ Tame(t)

\* A step that leaves the state alone and does not begin a renewal.
LEMMA QuietMove ==
  ASSUME NEW t \in Threads, Threads = {t}, Ready(t), CtlTyped', depth[t] > 0,
         NEW f \in Frames, MovesTo(t, f), f.fn = Top(t).fn, clientState' = clientState,
         OpsKept(Top(t), f, clientState), Renews(f, clientState) => Renews(Top(t), clientState)
  PROVE  Refines
<1>1. clientState \in ClientStates /\ CtlTyped /\ Tame(t) BY DEF Ready, EnvTyped
<1>2. Top(t) \in Frames BY <1>1, TopTyped
<1>3. Under(t) \in Layers /\ OpsNow(t) = Atop(Top(t), Under(t))[clientState] BY <1>1, OpsBefore
<1>4. OpsNow(t)' = Atop(f, Under(t))[clientState] BY <1>1, OpsMoved
<1>5. OpsNow(t)' = OpsNow(t) BY <1>1, <1>2, <1>3, <1>4, KeptAtop
<1>6. LosingIt(t)' <=> LosingIt(t) BY <1>1, LosingMoved
<1>7. LinkOf(t)' = LinkOf(t) BY <1>6, LinkSame
<1>8. Renewing(t)' <=> RenewedBelow(t) \/ Renews(f, clientState) BY <1>1, RenewingMoved
<1>9. Renewing(t) <=> RenewedBelow(t) \/ Renews(Top(t), clientState) BY <1>1, RenewingNow
<1>10. CASE Renewing(t) BY <1>5, <1>7, <1>10, RenewalEnds
<1>11. CASE ~Renewing(t)
  <2>1. ~Renewing(t)' BY <1>8, <1>9, <1>11
  <2>2. Renewing(t)' = Renewing(t) BY <1>11, <2>1 DEF Renewing
  <2> QED BY <1>5, <1>7, <2>2, Stutters
<1> QED BY <1>10, <1>11

\* The same for a call.
LEMMA QuietCall ==
  ASSUME NEW t \in Threads, Threads = {t}, Ready(t), CtlTyped', depth[t] > 0,
         NEW f \in Frames, NEW fn \in Fns, fn # "handle_disconnect", CallsFrom(t, f, fn),
         f.fn = Top(t).fn, clientState' = clientState,
         OpsKept(Top(t), f, clientState), Renews(f, clientState) => Renews(Top(t), clientState)
  PROVE  Refines
<1>1. clientState \in ClientStates /\ CtlTyped /\ Tame(t) BY DEF Ready, EnvTyped
<1>2. Top(t) \in Frames BY <1>1, TopTyped
<1>3. Under(t) \in Layers /\ OpsNow(t) = Atop(Top(t), Under(t))[clientState]
      /\ \A x \in Free : Under(t)[x] = <<>>
  BY <1>1, OpsBefore
<1>4. OpsNow(t)' = Atop(NewFrame(fn), Atop(f, Under(t)))[clientState] BY <1>1, OpsCalled
<1>5. Atop(f, Under(t)) \in Layers /\ \A x \in Free : Atop(f, Under(t))[x] = <<>>
  BY <1>3, AtopTyped, FreeAtop
<1>6. OpsNow(t)' = Atop(f, Under(t))[clientState] BY <1>1, <1>4, <1>5, NewAtop
<1>7. OpsNow(t)' = OpsNow(t) BY <1>1, <1>2, <1>3, <1>6, KeptAtop
<1>8. LosingIt(t)' <=> LosingIt(t) BY <1>1, LosingCalled
<1>9. LinkOf(t)' = LinkOf(t) BY <1>8, LinkSame
<1>10. Renewing(t)' <=> RenewedBelow(t) \/ Renews(f, clientState) BY <1>1, RenewingCalled
<1>11. Renewing(t) <=> RenewedBelow(t) \/ Renews(Top(t), clientState) BY <1>1, RenewingNow
<1>12. CASE Renewing(t) BY <1>7, <1>9, <1>12, RenewalEnds
<1>13. CASE ~Renewing(t)
  <2>1. ~Renewing(t)' BY <1>10, <1>11, <1>13
  <2>2. Renewing(t)' = Renewing(t) BY <1>13, <2>1 DEF Renewing
  <2> QED BY <1>7, <1>9, <2>2, Stutters
<1> QED BY <1>12, <1>13

\* The same for a return.
LEMMA QuietReturn ==
  ASSUME NEW t \in Threads, Threads = {t}, Ready(t), CtlTyped', depth[t] > 0,
         NEW rc, Returns(t, rc), Top(t).fn # "handle_disconnect", clientState' = clientState,
         clientState \in Free \/ Top(t).fn \notin OperationFns \/ clientState \notin Claims(Top(t))
  PROVE  Refines
<1>1. clientState \in ClientStates /\ CtlTyped /\ Tame(t) BY DEF Ready, EnvTyped
<1>2. Top(t) \in Frames BY <1>1, TopTyped
<1>3. Under(t) \in Layers /\ OpsNow(t) = Atop(Top(t), Under(t))[clientState]
      /\ \A x \in Free : Under(t)[x] = <<>>
  BY <1>1, OpsBefore
<1>4. OpsNow(t)' = Under(t)[clientState] BY <1>1, OpsReturned
<1>5. OpsNow(t)' = OpsNow(t)
  <2>1. CASE clientState \in Free BY <1>2, <1>3, <1>4, <2>1, FreeAtop
  <2>2. CASE clientState \notin Free
    <3>1. clientState # "CONNECTED_IDLE" BY <2>2 DEF Free
    <3> QED BY <1>1, <1>2, <1>3, <1>4, <2>2, <3>1, AtopTyped
  <2> QED BY <2>1, <2>2
<1>6. LosingIt(t)' <=> LosingIt(t) BY <1>1, LosingReturned
<1>7. LinkOf(t)' = LinkOf(t) BY <1>6, LinkSame
<1>8. Renewing(t)' <=> RenewedBelow(t) BY <1>1, RenewingReturned
<1>9. Renewing(t) <=> RenewedBelow(t) \/ Renews(Top(t), clientState) BY <1>1, RenewingNow
<1>10. CASE Renewing(t) BY <1>5, <1>7, <1>10, RenewalEnds
<1>11. CASE ~Renewing(t)
  <2>1. ~Renewing(t)' BY <1>8, <1>9, <1>11
  <2>2. Renewing(t)' = Renewing(t) BY <1>11, <2>1 DEF Renewing
  <2> QED BY <1>5, <1>7, <2>2, Stutters
<1> QED BY <1>10, <1>11

\* The invariant is kept and the contract followed.
Advances(t) == Tame(t)' /\ Refines

\* What a call that moves must look like.
Proceeds(t, f, rc) ==
  /\ TameTop(f, Caller(t), clientState, rc)
  /\ OpsKept(Top(t), f, clientState)
  /\ Renews(f, clientState) => Renews(Top(t), clientState)

\* A call that moves keeps what it has saved.
LEMMA FrameKept ==
  ASSUME NEW f, NEW g, NEW c, Alike(f, g), TameFrame(g, c), g.pc # "read" \/ g.fn \notin Savers
  PROVE  TameFrame(f, c)
BY DEF TameFrame, Alike, Savers, Requests

\* A call goes on to another place.
LEMMA GotoAdvances ==
  ASSUME NEW t \in Threads, Threads = {t}, Ready(t), CtlTyped', depth[t] > 0, NEW pc \in Pcs,
         stack' = [stack EXCEPT ![t][depth[t]].pc = pc], depth' = depth,
         clientState' = clientState, Top(t).pc # "read" \/ Top(t).fn \notin Savers,
         \A f \in Frames : Alike(f, Top(t)) /\ f.pc = pc /\ f.pending = Top(t).pending
           => Proceeds(t, f, ret'[t])
  PROVE  Advances(t)
<1>1. CtlTyped /\ Tame(t) BY DEF Ready
<1>2. PICK f \in Frames : /\ MovesTo(t, f) /\ Alike(f, Top(t))
                          /\ f.pc = pc /\ f.pending = Top(t).pending
  BY <1>1, GotoMoves
<1>3. Proceeds(t, f, ret'[t]) /\ f.fn = Top(t).fn BY <1>2 DEF Alike
<1>4. TameFrame(f, Caller(t)) BY <1>1, <1>2, TameAtTop, FrameKept
<1>5. Tame(t)' BY <1>1, <1>2, <1>3, <1>4, TameMove DEF Proceeds
<1>6. Refines BY <1>2, <1>3, QuietMove DEF Proceeds
<1> QED BY <1>5, <1>6 DEF Advances

\* A call saves the state.
LEMMA SaveAdvances ==
  ASSUME NEW t \in Threads, Threads = {t}, Ready(t), CtlTyped', depth[t] > 0,
         SaveAndGoto(t, "claim"), clientState' = clientState,
         \A f \in Frames : /\ f.fn = Top(t).fn /\ f.saved = clientState
                           /\ f.pc = "claim" /\ f.pending = Top(t).pending
           => Proceeds(t, f, ret[t]) /\ TameFrame(f, Caller(t))
  PROVE  Advances(t)
<1>1. CtlTyped /\ Tame(t) /\ clientState \in ClientStates /\ "claim" \in Pcs /\ ret' = ret
  BY DEF Ready, EnvTyped, Pcs, SaveAndGoto
<1>2. PICK f \in Frames : /\ MovesTo(t, f) /\ f.fn = Top(t).fn /\ f.saved = clientState
                          /\ f.pc = "claim" /\ f.pending = Top(t).pending
  BY <1>1, SaveMoves
<1>3. Proceeds(t, f, ret'[t]) /\ TameFrame(f, Caller(t)) BY <1>1, <1>2
<1>4. Tame(t)' BY <1>1, <1>2, <1>3, TameMove DEF Proceeds
<1>5. Refines BY <1>2, <1>3, QuietMove DEF Proceeds
<1> QED BY <1>4, <1>5 DEF Advances

\* A call compares the state, in set_client_state.
LEMMA CasAdvances ==
  ASSUME NEW t \in Threads, Threads = {t}, Ready(t), CtlTyped', depth[t] > 0,
         Top(t).pending = "NONE", Top(t).pc # "read" \/ Top(t).fn \notin Savers,
         NEW expected, NEW new \in ClientStates, NEW ok \in Pcs, NEW otherwise \in Pcs,
         SetClientState(t, expected, new, ok, otherwise),
         \A f \in Frames :
           Alike(f, Top(t)) /\ (\/ clientState = expected /\ f.pc = ok /\ f.pending = new
                                \/ clientState # expected /\ f.pc = otherwise /\ f.pending = "NONE")
           => Proceeds(t, f, ret'[t])
  PROVE  Advances(t)
<1>1. CtlTyped /\ Tame(t) /\ ~TrylockFails(t) BY DEF Ready, TrylockFails
<1>2. clientState' = clientState BY DEF SetClientState
<1>3. PICK f \in Frames :
        /\ MovesTo(t, f) /\ Alike(f, Top(t))
        /\ \/ clientState = expected /\ f.pc = ok /\ f.pending = new
           \/ clientState # expected /\ f.pc = otherwise /\ f.pending = "NONE"
  BY <1>1, CasMoves
<1>4. Proceeds(t, f, ret'[t]) /\ f.fn = Top(t).fn BY <1>3 DEF Alike
<1>5. TameFrame(f, Caller(t)) BY <1>1, <1>3, TameAtTop, FrameKept
<1>6. Tame(t)' BY <1>1, <1>2, <1>3, <1>4, <1>5, TameMove DEF Proceeds
<1>7. Refines BY <1>2, <1>3, <1>4, QuietMove DEF Proceeds
<1> QED BY <1>6, <1>7 DEF Advances

\* A call made while the contract sees nothing.
Delegates(t, f, fn) ==
  /\ Awaits(f, fn)
  /\ OpsKept(Top(t), f, clientState)
  /\ Renews(f, clientState) => Renews(Top(t), clientState)

\* A call calls a function.
LEMMA EnterAdvances ==
  ASSUME NEW t \in Threads, Threads = {t}, Ready(t), CtlTyped', depth[t] > 0,
         Top(t).pending = "NONE", Top(t).pc # "read" \/ Top(t).fn \notin Savers,
         NEW fn \in Fns, fn # "handle_disconnect", NEW pc \in Pcs, Enter(t, fn, pc),
         clientState' = clientState,
         \A f \in Frames : Alike(f, Top(t)) /\ f.pc = pc /\ f.pending = "NONE"
           => Delegates(t, f, fn) /\ TameTop(NewFrame(fn), f, clientState, ret[t])
  PROVE  Advances(t)
<1>1. CtlTyped /\ Tame(t) BY DEF Ready
<1>2. ret' = ret BY <1>1, EnterCalls
<1>3. PICK f \in Frames : /\ CallsFrom(t, f, fn) /\ Alike(f, Top(t))
                          /\ f.pc = pc /\ f.pending = Top(t).pending
  BY <1>1, EnterCalls
<1>4. Delegates(t, f, fn) /\ TameTop(NewFrame(fn), f, clientState', ret'[t]) /\ f.fn = Top(t).fn
  BY <1>2, <1>3 DEF Alike
<1>5. TameFrame(f, Caller(t)) BY <1>1, <1>3, TameAtTop, FrameKept
<1>6. Tame(t)' BY <1>1, <1>3, <1>4, <1>5, TameCall DEF Delegates
<1>7. Refines BY <1>3, <1>4, QuietCall DEF Delegates
<1> QED BY <1>6, <1>7 DEF Advances

\* A call returns.
LEMMA LeaveAdvances ==
  ASSUME NEW t \in Threads, Threads = {t}, Ready(t), CtlTyped', depth[t] > 0, NEW rc, Leave(t, rc),
         clientState' = clientState, Top(t).fn # "handle_disconnect",
         clientState \in Free \/ Top(t).fn \notin OperationFns \/ clientState \notin Claims(Top(t)),
         Resumable(Top(t).fn, Caller(t), clientState, rc)
  PROVE  Advances(t)
<1>1. CtlTyped /\ Tame(t) BY DEF Ready
<1>2. Returns(t, rc) BY <1>1, LeaveReturns
<1>3. Tame(t)' BY <1>1, <1>2, TameReturn
<1>4. Refines BY <1>2, QuietReturn
<1> QED BY <1>3, <1>4 DEF Advances

\* What is known of a call at the top, one function at a time.
LEMMA TopKnown ==
  ASSUME CtlTyped, NEW t \in Threads, depth[t] > 0, Tame(t)
  PROVE  /\ Top(t).fn \in Requests => TameRequest(Top(t), Caller(t), clientState, ret[t])
         /\ Top(t).fn = "deliver" => TameDeliver(Top(t), Caller(t), clientState)
         /\ Top(t).fn = "connect" => TameConnect(Top(t), Caller(t), clientState)
         /\ Top(t).fn = "disconnect" => TameDisconnect(Top(t), Caller(t), clientState)
         /\ Top(t).fn = "attempt_reconnect" => TameReconnect(Top(t), Caller(t), clientState, ret[t])
         /\ Top(t).fn = "yield" => TameYield(Top(t), Caller(t), clientState, ret[t])
         /\ Top(t).fn = "handle_disconnect" => TameLost(Top(t), clientState, ret[t])
BY TameAtTop DEF TameTop, Requests

\* Whom a function is called by.
LEMMA CalledBy ==
  ASSUME CtlTyped, NEW t \in Threads, depth[t] > 0, Tame(t)
  PROVE  \/ Caller(t) = NoFrame
         \/ Awaits(Caller(t), Top(t).fn)
BY TameAtTop

-----------------------------------------------------------------------------
(* The steps of each function between two stores of the state word.        *)

\* The names of the requests' states.
LEMMA RequestNames ==
  /\ \A fn \in Requests : /\ fn \notin {"deliver", "connect", "disconnect", "attempt_reconnect", "yield",
                                        "handle_disconnect", "none"}
                          /\ fn \in Savers /\ fn \in OperationFns
                          /\ InProgress(fn) \notin Rest \cup {"WAIT_FOR_CB_RETURN", "YIELD_IN_PROGRESS", "NONE"}
                          /\ InProgress(fn) \notin Free
  /\ Rest \subseteq Free
BY DEF Requests, Savers, OperationFns, InProgress, Rest, Free

\* A request holds the client.
InSpan(f) == f.pc \in {"send", "wait", "finish"} \/ (f.pc = "done" /\ f.pending # "NONE")

\* A request inside or outside its span stays there.
LEMMA RequestKept ==
  ASSUME NEW f, NEW g, f.fn \in Requests, g.fn = f.fn, NEW s,
         \/ s # InProgress(f.fn)
         \/ ~InSpan(f) /\ ~InSpan(g)
         \/ InSpan(f) /\ InSpan(g) /\ f.saved = g.saved
  PROVE  OpsKept(g, f, s) /\ ~Renews(f, s)
<1>1. Claims(f) = IF InSpan(f) THEN {InProgress(f.fn)} ELSE {}
  BY RequestClaims DEF Claims, InSpan
<1>2. Claims(g) = IF InSpan(g) THEN {InProgress(f.fn)} ELSE {}
  BY RequestClaims DEF Claims, InSpan
<1>3. f.saved = g.saved => FoundBy(f) = FoundBy(g) BY RequestNames DEF FoundBy
<1>4. OpsKept(g, f, s) BY <1>1, <1>2, <1>3 DEF OpsKept
<1>5. ~Renews(f, s) BY RequestNames DEF Renews
<1> QED BY <1>4, <1>5

\* A connected state that a call at rest can see.
LEMMA UpIdle ==
  ASSUME NEW t \in Threads, Linked(t), depth[t] > 0, ~HandlerReconnects, tlsUp,
         Top(t).fn # "handle_disconnect"
  PROVE  clientState \in Rest => clientState = "CONNECTED_IDLE"
<1>1. Agree(NoFrame, clientState, tlsUp) BY AgreesNow
<1>2. ~ValidForConnect(clientState) BY <1>1 DEF Agree, NoFrame, NewFrame
<1> QED BY <1>2 DEF ValidForConnect, Rest

\* A function that has just been called finds a state it can go on from.
LEMMA NewTame ==
  ASSUME NEW fn \in ApiFns \ {"set_autoreconnect"}, NEW c, c.fn # "handle_disconnect", NEW s \in Found(c), NEW rc
  PROVE  TameTop(NewFrame(fn), c, s, rc)
<1> DEFINE f == NewFrame(fn)
<1>1. f.fn = fn /\ f.pc = "read" /\ f.pending = "NONE" BY DEF NewFrame
<1>2. fn \in Requests \cup {"yield", "connect", "disconnect", "attempt_reconnect"} BY DEF ApiFns
<1> HIDE DEF f
<1> QED BY <1>1, <1>2 DEF TameTop, TameRequest, TameYield, TameConnect, TameDisconnect, TameReconnect, Stands, f

\* The steps of a request.
LEMMA RequestAdvances ==
  ASSUME NEW t \in Threads, Threads = {t}, ~HandlerReconnects, Ready(t), CtlTyped', RequestStep(t)
  PROVE  Advances(t)
<1> USE DEF At
<1>1. PICK fn \in Requests : depth[t] > 0 /\ Top(t).fn = fn /\ Top(t).pending = "NONE"
  BY DEF RequestStep, RequestRead, RequestClaim, UnsubscribeRollback, RequestSend,
         RequestWait, RequestFinish, Requests
<1>2. EnvTyped /\ CtlTyped /\ Linked(t) /\ Tame(t) BY DEF Ready
<1>3. TameRequest(Top(t), Caller(t), clientState, ret[t]) /\ TameFrame(Top(t), Caller(t))
  BY <1>1, <1>2, TopKnown, TameAtTop
<1>4. LinkedTop(Top(t), clientState, tlsUp, ret[t]) BY <1>1, <1>2, LinkedAtTop
<1>5. {"claim", "send", "failed", "rollback", "finish", "wait", "done"} \subseteq Pcs BY DEF Pcs
<1>6. ret \in [Threads -> Rcs] BY <1>2 DEF CtlTyped
<1>7. fn \notin {"deliver", "connect", "disconnect", "attempt_reconnect", "yield", "handle_disconnect", "none"}
      /\ fn \in Savers /\ fn \in OperationFns /\ InProgress(fn) \notin Rest \cup {"WAIT_FOR_CB_RETURN", "NONE"}
  BY RequestNames
\* For a request the invariant and the contract come down to this.
<1>8. ASSUME NEW f, f.fn = fn, NEW rc, TameRequest(f, Caller(t), clientState, rc),
             \/ clientState # InProgress(fn)
             \/ ~InSpan(f) /\ ~InSpan(Top(t))
             \/ InSpan(f) /\ InSpan(Top(t)) /\ f.saved = Top(t).saved
      PROVE  Proceeds(t, f, rc)
  <2>1. OpsKept(Top(t), f, clientState) /\ ~Renews(f, clientState) BY <1>1, <1>8, RequestKept
  <2>2. TameTop(f, Caller(t), clientState, rc) BY <1>8 DEF TameTop
  <2> QED BY <2>1, <2>2 DEF Proceeds
<1>9. CASE RequestRead(t)
  <2>1. Top(t).pc = "read" /\ UNCHANGED clientState BY <1>1, <1>9 DEF RequestRead, state
  <2>2. clientState \in Found(Caller(t)) BY <1>1, <1>3, <1>7, <2>1 DEF TameRequest, Stands, Stores
  <2>3. ~InSpan(Top(t)) BY <1>1, <2>1 DEF InSpan
  <2>4. CASE clientState \in ClaimableFrom(fn) /\ SaveAndGoto(t, "claim")
    <3>1. ASSUME NEW f \in Frames, f.fn = Top(t).fn, f.saved = clientState, f.pc = "claim",
                 f.pending = Top(t).pending
          PROVE  Proceeds(t, f, ret[t]) /\ TameFrame(f, Caller(t))
      <4>1. ~InSpan(f) BY <3>1 DEF InSpan
      <4>2. TameRequest(f, Caller(t), clientState, ret[t]) BY <1>1, <2>2, <3>1 DEF TameRequest, Stands
      <4>3. Proceeds(t, f, ret[t]) BY <1>1, <1>8, <2>3, <3>1, <4>1, <4>2
      <4>4. TameFrame(f, Caller(t)) BY <1>1, <1>7, <2>2, <2>4, <3>1 DEF TameFrame, Found, ClaimableFrom, Rest
      <4> QED BY <4>3, <4>4
    <3> QED BY <1>1, <2>1, <2>4, <3>1, SaveAdvances
  <2>5. CASE \E rc \in {"FAILED", "DISCONNECTED"} : Leave(t, rc)
    <3>1. PICK rc \in {"FAILED", "DISCONNECTED"} : Leave(t, rc) BY <2>5
    <3>2. Resumable(Top(t).fn, Caller(t), clientState, rc) BY <1>1, <1>7, <2>2 DEF Resumable
    <3>3. clientState \notin Claims(Top(t))
      BY <1>1, <2>3, RequestClaims DEF Claims, InSpan
    <3> QED BY <1>1, <1>7, <2>1, <3>1, <3>2, <3>3, LeaveAdvances
  <2> QED BY <1>1, <1>9, <2>4, <2>5 DEF RequestRead
<1>10. CASE RequestClaim(t)
  <2>1. PICK otherwise \in {"rollback", "failed"} :
          /\ Top(t).pc = "claim" /\ ret' = ret
          /\ SetClientState(t, Top(t).saved, InProgress(fn), "send", otherwise)
    BY <1>1, <1>10 DEF RequestClaim
  <2>2. clientState = Top(t).saved BY <1>1, <1>4, <1>7, <2>1 DEF LinkedTop
  <2>3. clientState # InProgress(fn)
    BY <1>1, <1>4, <1>7, <2>1, <2>2 DEF LinkedTop, LinkedFrame, Rest
  <2>4. ASSUME NEW f \in Frames, Alike(f, Top(t)), f.pc = "send", f.pending = InProgress(fn)
        PROVE  Proceeds(t, f, ret'[t])
    <3>1. f.fn = fn /\ f.saved = clientState BY <1>1, <2>2, <2>4 DEF Alike
    <3>2. TameRequest(f, Caller(t), clientState, ret'[t]) BY <2>4, <3>1 DEF TameRequest, Stores
    <3> QED BY <1>8, <2>3, <3>1, <3>2
  <2>5. InProgress(fn) \in ClientStates BY StateNames
  <2> QED BY <1>1, <1>5, <2>1, <2>2, <2>4, <2>5, CasAdvances
<1>11. CASE UnsubscribeRollback(t)
  BY <1>4, <1>11 DEF UnsubscribeRollback, LinkedTop, LinkedAck
<1>12. CASE RequestSend(t)
  <2>1. PICK pc \in {"finish", "wait"} :
          /\ Top(t).pc = "send" /\ clientState' = clientState /\ depth' = depth
          /\ stack' = [stack EXCEPT ![t][depth[t]].pc = pc]
          /\ pc = "finish" => ret'[t] # "RECONNECTED"
    <3>1. Top(t).pc = "send" /\ clientState' = clientState BY <1>12 DEF RequestSend, state
    <3>2. (\E rc \in {"SUCCESS", "FAILED"} : GotoRc(t, "finish", rc)) \/ Goto(t, "wait") BY <1>12 DEF RequestSend
    <3> QED BY <1>6, <3>1, <3>2 DEF Goto, GotoRc
  <2>2. clientState \in Rest \cup {InProgress(fn)}
    BY <1>1, <1>3, <1>7, <2>1 DEF TameRequest, Stands, Stores
  <2>3. ASSUME NEW f \in Frames, Alike(f, Top(t)), f.pc = pc, f.pending = "NONE"
        PROVE  Proceeds(t, f, ret'[t])
    <3>1. f.fn = fn /\ f.saved = Top(t).saved BY <1>1, <2>3 DEF Alike
    <3>2. TameRequest(f, Caller(t), clientState, ret'[t]) BY <2>1, <2>2, <2>3, <3>1 DEF TameRequest, Stands
    <3>3. InSpan(f) /\ InSpan(Top(t)) BY <2>1, <2>3 DEF InSpan
    <3> QED BY <1>8, <3>1, <3>2, <3>3
  <2>4. \A f \in Frames : Alike(f, Top(t)) /\ f.pc = pc /\ f.pending = Top(t).pending
                           => Proceeds(t, f, ret'[t])
    BY <1>1, <2>3
  <2>5. pc \in Pcs /\ Top(t).pc # "read" BY <1>5, <2>1
  <2> QED BY <1>1, <2>1, <2>4, <2>5, GotoAdvances
<1>13. CASE RequestWait(t)
  <2>1. Top(t).pc = "wait" /\ clientState' = clientState /\ ret'[t] # "RECONNECTED"
    BY <1>1, <1>6, <1>13 DEF RequestWait, GotoRc, state
  <2>2. clientState \in Rest \cup {InProgress(fn)}
    BY <1>1, <1>3, <1>7, <2>1 DEF TameRequest, Stands, Stores
  <2>3. ASSUME NEW f, f.fn = fn, f.saved = Top(t).saved, f.pc \in {"send", "finish"}, f.pending = "NONE"
        PROVE  Proceeds(t, f, ret'[t])
    <3>1. TameRequest(f, Caller(t), clientState, ret'[t]) BY <2>1, <2>2, <2>3 DEF TameRequest, Stands
    <3>2. InSpan(f) /\ InSpan(Top(t)) BY <2>1, <2>3 DEF InSpan
    <3> QED BY <1>8, <2>3, <3>1, <3>2
  <2>4. CASE GotoRc(t, "finish", "FAILED")
    <3>1. depth' = depth /\ stack' = [stack EXCEPT ![t][depth[t]].pc = "finish"] BY <2>4 DEF GotoRc
    <3>2. \A f \in Frames : Alike(f, Top(t)) /\ f.pc = "finish" /\ f.pending = Top(t).pending
                             => Proceeds(t, f, ret'[t])
      BY <1>1, <2>3 DEF Alike
    <3>3. "finish" \in Pcs /\ Top(t).pc # "read" BY <1>5, <2>1
    <3> QED BY <1>1, <2>1, <3>1, <3>2, <3>3, GotoAdvances
  <2>5. CASE ~GotoRc(t, "finish", "FAILED")
    <3>1. PICK pc \in {"send", "finish"} :
            /\ depth' = depth
            /\ stack' = [stack EXCEPT ![t][depth[t]].pc = pc, ![t][depth[t]].acks = @ + 1]
      BY <1>1, <1>13, <2>5 DEF RequestWait
    <3>2. PICK f \in Frames : /\ MovesTo(t, f) /\ f.fn = Top(t).fn /\ f.saved = Top(t).saved
                              /\ f.acks > 0 /\ f.pc = pc /\ f.pending = Top(t).pending
      BY <1>1, <1>2, <1>5, <3>1, AckMoves
    <3>3. Proceeds(t, f, ret'[t]) BY <1>1, <2>3, <3>2
    <3>4. TameFrame(f, Caller(t)) BY <1>1, <1>3, <2>1, <3>2 DEF TameFrame
    <3>5. Tame(t)' BY <1>1, <1>2, <2>1, <3>2, <3>3, <3>4, TameMove DEF Proceeds
    <3>6. Refines BY <1>1, <2>1, <3>2, <3>3, QuietMove DEF Proceeds
    <3> QED BY <3>5, <3>6 DEF Advances
  <2> QED BY <2>4, <2>5
<1>14. CASE RequestFinish(t)
  <2>1. /\ Top(t).pc = "finish" /\ ret' = ret
        /\ SetClientState(t, InProgress(fn), Top(t).saved, "done", Failing(t))
    BY <1>1, <1>14 DEF RequestFinish
  <2>2. clientState \in Rest \cup {InProgress(fn)} /\ ret[t] # "RECONNECTED"
    BY <1>1, <1>3, <1>7, <2>1 DEF TameRequest, Stands, Stores
  <2>3. Failing(t) \in {"failed", "done"} /\ (Failing(t) = "done" => ret[t] # "SUCCESS") BY DEF Failing
  <2>4. Top(t).saved \in ClientStates /\ Top(t).saved # "NONE"
    BY <1>1, <1>2, <1>4, <2>1, TopTyped DEF Frames, LinkedTop, LinkedFrame
  <2>5. ASSUME NEW f \in Frames, Alike(f, Top(t)), clientState = InProgress(fn), f.pc = "done",
               f.pending = Top(t).saved
        PROVE  Proceeds(t, f, ret'[t])
    <3>1. f.fn = fn /\ f.saved = Top(t).saved BY <1>1, <2>5 DEF Alike
    <3>2. TameRequest(f, Caller(t), clientState, ret'[t]) BY <2>1, <2>2, <2>5, <3>1 DEF TameRequest, Stores
    <3>3. InSpan(f) /\ InSpan(Top(t)) BY <2>1, <2>4, <2>5 DEF InSpan
    <3> QED BY <1>8, <3>1, <3>2, <3>3
  <2>6. ASSUME NEW f \in Frames, Alike(f, Top(t)), clientState # InProgress(fn), f.pc = Failing(t),
               f.pending = "NONE"
        PROVE  Proceeds(t, f, ret'[t])
    <3>1. f.fn = fn BY <1>1, <2>6 DEF Alike
    <3>2. clientState \in Found(Caller(t)) BY <2>2, <2>6 DEF Found
    <3>3. TameRequest(f, Caller(t), clientState, ret'[t])
      BY <2>1, <2>2, <2>3, <2>6, <3>2 DEF TameRequest, Stands
    <3> QED BY <1>8, <2>6, <3>1, <3>3
  <2>7. Failing(t) \in Pcs BY <1>5, <2>3
  <2> QED BY <1>1, <1>5, <2>1, <2>4, <2>5, <2>6, <2>7, CasAdvances
<1> QED BY <1>9, <1>10, <1>11, <1>12, <1>13, <1>14 DEF RequestStep

\* A call that does not enter or leave its span is the same operation.
LEMMA SpanKept ==
  ASSUME NEW f, NEW g, g.fn = f.fn, NEW s,
         \/ s \notin Claims(f) /\ s \notin Claims(g)
         \/ s \in Claims(f) /\ s \in Claims(g) /\ (f.saved = g.saved \/ f.fn \in {"yield", "handle_disconnect"})
  PROVE  OpsKept(g, f, s)
BY DEF OpsKept, FoundBy

\* When deliver_message answers for the state word.
LEMMA DeliverSpan ==
  ASSUME NEW f, f.fn = "deliver"
  PROVE  Claims(f) = IF f.pc \in {"callback", "finish"} \/ f.pending # "NONE" THEN {"WAIT_FOR_CB_RETURN"} ELSE {}
BY DeliverClaims DEF Claims

\* When yield does.
LEMMA YieldSpan ==
  ASSUME NEW f, f.fn = "yield"
  PROVE  Claims(f) = IF \/ f.pc \in {"loop", "cycle", "delivered", "keepalive", "until", "finish"}
                        \/ f.pc = "done" /\ f.pending # "NONE"
                     THEN {"YIELD_IN_PROGRESS"} ELSE {}
BY YieldClaims DEF Claims

\* The states a deliver_message finds.
LEMMA DeliverFinds ==
  ASSUME CtlTyped, NEW t \in Threads, depth[t] > 0, Tame(t), Top(t).fn = "deliver"
  PROVE  "WAIT_FOR_CB_RETURN" \notin Word(Caller(t))
<1>1. CASE Caller(t) = NoFrame
  <2>1. Caller(t).fn = "none" BY <1>1 DEF NoFrame, NewFrame
  <2> QED BY <2>1, Words
<1>2. CASE Awaits(Caller(t), "deliver")
  <2>1. Caller(t).fn \in Requests \/ (Caller(t).fn = "yield" /\ Caller(t).pc = "delivered")
    BY <1>2 DEF Awaits, ApiFns, Requests
  <2>2. CASE Caller(t).fn \in Requests BY <2>2, Words, RequestNames
  <2>3. CASE Caller(t).fn = "yield" /\ Caller(t).pc = "delivered" BY <2>3, Words
  <2> QED BY <2>1, <2>2, <2>3
<1> QED BY <1>1, <1>2, CalledBy

\* A call that reads from the network.
LEMMA ReadAdvances ==
  ASSUME NEW t \in Threads, Threads = {t}, ~HandlerReconnects, Ready(t), CtlTyped',
         ReadPublish(t) \/ ReadPingresp(t)
  PROVE  Advances(t)
<1>1. EnvTyped /\ CtlTyped /\ Linked(t) /\ Tame(t) BY DEF Ready
<1>2. /\ depth[t] > 0 /\ Top(t).pending = "NONE" /\ tlsUp /\ clientState' = clientState
      /\ \/ Top(t).fn \in Requests /\ Top(t).pc = "wait"
         \/ Top(t).fn = "yield" /\ Top(t).pc = "cycle"
  BY DEF ReadPublish, ReadPingresp, AtRead, At, state
<1>3. Top(t).fn # "handle_disconnect" /\ Top(t).pc # "read" BY <1>2, RequestNames
<1>4. clientState \in Rest => clientState = "CONNECTED_IDLE" BY <1>1, <1>2, <1>3, UpIdle
<1>5. "deliver" \in Fns /\ "delivered" \in Pcs /\ "keepalive" \in Pcs /\ "wait" \in Pcs BY DEF Pcs, Fns
<1>6. ASSUME NEW f \in Frames, Alike(f, Top(t)), f.pending = "NONE",
             IF Top(t).fn = "yield" THEN f.pc \in {"delivered", "keepalive"} ELSE f.pc = "wait"
      PROVE  /\ OpsKept(Top(t), f, clientState) /\ ~Renews(f, clientState)
             /\ clientState \in {"CONNECTED_IDLE"} \cup (IF Top(t).fn = "yield" THEN {"YIELD_IN_PROGRESS"}
                                                        ELSE {InProgress(Top(t).fn)})
  <2>1. f.fn = Top(t).fn /\ f.saved = Top(t).saved BY <1>6 DEF Alike
  <2>2. CASE Top(t).fn \in Requests
    <3>1. Top(t).fn # "yield" /\ f.pc = "wait" /\ Top(t).pc = "wait" BY <1>2, <1>6, <2>2, RequestNames
    <3>2. InSpan(f) /\ InSpan(Top(t)) BY <3>1 DEF InSpan
    <3>3. OpsKept(Top(t), f, clientState) /\ ~Renews(f, clientState) BY <2>1, <2>2, <3>2, RequestKept
    <3>4. TameRequest(Top(t), Caller(t), clientState, ret[t]) BY <1>1, <1>2, <2>2, TopKnown
    <3>5. clientState \in Rest \cup {InProgress(Top(t).fn)}
      BY <1>2, <3>1, <3>4 DEF TameRequest, Stands, Stores
    <3> QED BY <1>4, <3>1, <3>3, <3>5
  <2>3. CASE Top(t).fn = "yield"
    <3>1. f.pc \in {"delivered", "keepalive"} /\ Top(t).pc = "cycle" BY <1>2, <1>6, <2>3, RequestNames
    <3>2. Claims(f) = {"YIELD_IN_PROGRESS"} /\ Claims(Top(t)) = {"YIELD_IN_PROGRESS"}
      BY <2>1, <2>3, <3>1, YieldSpan
    <3>3. OpsKept(Top(t), f, clientState) BY <2>1, <2>3, <3>2, SpanKept
    <3>4. ~Renews(f, clientState) BY <3>1 DEF Renews
    <3>5. TameYield(Top(t), Caller(t), clientState, ret[t]) BY <1>1, <1>2, <2>3, TopKnown
    <3>6. clientState \in Reading BY <1>2, <3>1, <3>5 DEF TameYield, Stands, Stores
    <3>7. clientState \in {"CONNECTED_IDLE", "YIELD_IN_PROGRESS"} BY <1>4, <3>6 DEF Reading, Rest
    <3> QED BY <2>3, <3>3, <3>4, <3>7
  <2> QED BY <1>2, <2>2, <2>3
<1>7. CASE ReadPublish(t)
  <2>1. PICK pc \in {"delivered", "wait"} :
          Enter(t, "deliver", pc) /\ IF Top(t).fn = "yield" THEN pc = "delivered" ELSE pc = "wait"
    BY <1>7 DEF ReadPublish
  <2>2. ASSUME NEW f \in Frames, Alike(f, Top(t)), f.pc = pc, f.pending = "NONE"
        PROVE  Delegates(t, f, "deliver") /\ TameTop(NewFrame("deliver"), f, clientState, ret[t])
    <3>1. f.fn = Top(t).fn BY <2>2 DEF Alike
    <3>2. /\ OpsKept(Top(t), f, clientState) /\ ~Renews(f, clientState)
          /\ clientState \in {"CONNECTED_IDLE"} \cup (IF Top(t).fn = "yield" THEN {"YIELD_IN_PROGRESS"}
                                                        ELSE {InProgress(Top(t).fn)})
      BY <1>6, <2>1, <2>2
    <3>3. Awaits(f, "deliver") BY <1>2, <2>1, <2>2, <3>1 DEF Awaits
    <3>4. Word(f) = IF Top(t).fn = "yield" THEN {"YIELD_IN_PROGRESS"} ELSE {InProgress(Top(t).fn)}
      BY <1>2, <2>1, <2>2, <3>1, Words
    <3>5. LET g == NewFrame("deliver") IN g.fn = "deliver" /\ g.pc = "read" /\ g.pending = "NONE" BY DEF NewFrame
    <3>6. TameTop(NewFrame("deliver"), f, clientState, ret[t])
      BY <3>2, <3>4, <3>5 DEF TameTop, TameDeliver, Stands
    <3> QED BY <3>2, <3>3, <3>6 DEF Delegates
  <2>3. pc \in Pcs BY <1>5
  <2> QED BY <1>2, <1>3, <1>5, <2>1, <2>2, <2>3, EnterAdvances
<1>8. CASE ReadPingresp(t)
  <2>1. PICK pc \in {"keepalive", "wait"} :
          Goto(t, pc) /\ IF Top(t).fn = "yield" THEN pc = "keepalive" ELSE pc = "wait"
    BY <1>8 DEF ReadPingresp
  <2>2. ASSUME NEW f \in Frames, Alike(f, Top(t)), f.pc = pc, f.pending = Top(t).pending
        PROVE  Proceeds(t, f, ret'[t])
    <3>1. f.fn = Top(t).fn BY <2>2 DEF Alike
    <3>2. /\ OpsKept(Top(t), f, clientState) /\ ~Renews(f, clientState)
          /\ clientState \in {"CONNECTED_IDLE"} \cup (IF Top(t).fn = "yield" THEN {"YIELD_IN_PROGRESS"}
                                                        ELSE {InProgress(Top(t).fn)})
      BY <1>2, <1>6, <2>1, <2>2
    <3>3. TameTop(f, Caller(t), clientState, ret'[t])
      <4>1. CASE Top(t).fn = "yield"
        BY <1>2, <2>1, <2>2, <3>1, <3>2, <4>1 DEF TameTop, TameYield, Stands
      <4>2. CASE Top(t).fn \in Requests
        <5>1. Top(t).fn # "yield" BY <4>2, RequestNames
        <5>2. "CONNECTED_IDLE" \in Rest BY DEF Rest
        <5> QED BY <1>2, <2>1, <2>2, <3>1, <3>2, <4>2, <5>1, <5>2 DEF TameTop, TameRequest, Stands
      <4> QED BY <1>2, <4>1, <4>2
    <3> QED BY <3>2, <3>3 DEF Proceeds
  <2>3. pc \in Pcs BY <1>5
  <2>4. depth' = depth /\ stack' = [stack EXCEPT ![t][depth[t]].pc = pc] BY <2>1 DEF Goto
  <2> QED BY <1>2, <1>3, <2>2, <2>3, <2>4, GotoAdvances
<1> QED BY <1>7, <1>8

\* The steps of deliver_message.
LEMMA DeliverAdvances ==
  ASSUME NEW t \in Threads, Threads = {t}, ~HandlerReconnects, Ready(t), CtlTyped', DeliverStep(t)
  PROVE  Advances(t)
<1>1. EnvTyped /\ CtlTyped /\ Linked(t) /\ Tame(t) BY DEF Ready
<1>2. CASE ReadPublish(t) \/ ReadPingresp(t) BY <1>2, ReadAdvances
<1>3. CASE ~(ReadPublish(t) \/ ReadPingresp(t))
  <2>1. depth[t] > 0 /\ Top(t).fn = "deliver" /\ Top(t).pending = "NONE"
    BY <1>3 DEF DeliverStep, DeliverRead, DeliverClaim, CallbackCall, CallbackReturn,
                DeliverFinish, HandlePublishAck, At
  <2>2. TameDeliver(Top(t), Caller(t), clientState) /\ TameFrame(Top(t), Caller(t))
    BY <1>1, <2>1, TopKnown, TameAtTop
  <2>3. LinkedTop(Top(t), clientState, tlsUp, ret[t]) BY <1>1, <2>1, LinkedAtTop
  <2>4. {"claim", "callback", "finish", "ack", "failed"} \subseteq Pcs BY DEF Pcs
  <2>5. "deliver" \in Savers /\ "WAIT_FOR_CB_RETURN" \in ClientStates /\ "WAIT_FOR_CB_RETURN" \notin Rest
    BY DEF Savers, ClientStates, ConnectedStates, Rest
  \* For a delivery the invariant and the contract come down to this.
  <2>6. ASSUME NEW f, f.fn = "deliver", NEW rc, TameDeliver(f, Caller(t), clientState),
               \/ clientState # "WAIT_FOR_CB_RETURN"
               \/ "WAIT_FOR_CB_RETURN" \in Claims(f) /\ "WAIT_FOR_CB_RETURN" \in Claims(Top(t)) /\ f.saved = Top(t).saved
        PROVE  Proceeds(t, f, rc)
    <3>1. Claims(f) \subseteq {"WAIT_FOR_CB_RETURN"} /\ Claims(Top(t)) \subseteq {"WAIT_FOR_CB_RETURN"}
      BY <2>1, <2>6, DeliverSpan
    <3>2. OpsKept(Top(t), f, clientState) BY <2>1, <2>6, <3>1, SpanKept
    <3>3. ~Renews(f, clientState) BY <2>6 DEF Renews
    <3>4. TameTop(f, Caller(t), clientState, rc) BY <2>6 DEF TameTop
    <3> QED BY <3>2, <3>3, <3>4 DEF Proceeds
  <2>7. CASE DeliverRead(t)
    <3>1. Top(t).pc = "read" /\ clientState' = clientState /\ SaveAndGoto(t, "claim")
      BY <2>7 DEF DeliverRead, At, state
    <3>2. clientState \in {"CONNECTED_IDLE"} \cup Word(Caller(t))
      BY <2>1, <2>2, <3>1 DEF TameDeliver, Stands, Stores
    <3>3. clientState # "WAIT_FOR_CB_RETURN" BY <1>1, <2>1, <3>2, DeliverFinds
    <3>4. ASSUME NEW f \in Frames, f.fn = Top(t).fn, f.saved = clientState, f.pc = "claim",
                 f.pending = Top(t).pending
          PROVE  Proceeds(t, f, ret[t]) /\ TameFrame(f, Caller(t))
      <4>1. TameDeliver(f, Caller(t), clientState) BY <2>1, <3>2, <3>4 DEF TameDeliver, Stands
      <4>2. TameFrame(f, Caller(t)) BY <2>1, <3>2, <3>4 DEF TameFrame
      <4> QED BY <2>1, <2>6, <3>3, <3>4, <4>1, <4>2
    <3> QED BY <2>1, <3>1, <3>4, SaveAdvances
  <2>8. CASE DeliverClaim(t)
    <3>1. Top(t).pc = "claim" /\ SetClientState(t, Top(t).saved, "WAIT_FOR_CB_RETURN", "callback", "callback")
      BY <2>8 DEF DeliverClaim, At
    <3>2. clientState = Top(t).saved BY <2>1, <2>3, <2>5, <3>1 DEF LinkedTop
    <3>3. clientState \in {"CONNECTED_IDLE"} \cup Word(Caller(t))
      BY <2>1, <2>2, <3>1 DEF TameDeliver, Stands, Stores
    <3>4. clientState # "WAIT_FOR_CB_RETURN" BY <1>1, <2>1, <3>3, DeliverFinds
    <3>5. ASSUME NEW f \in Frames, Alike(f, Top(t)), f.pc = "callback", f.pending = "WAIT_FOR_CB_RETURN"
          PROVE  Proceeds(t, f, ret'[t])
      <4>1. f.fn = "deliver" /\ f.saved = clientState BY <2>1, <3>2, <3>5 DEF Alike
      <4>2. TameDeliver(f, Caller(t), clientState) BY <3>5, <4>1 DEF TameDeliver, Stores
      <4> QED BY <2>6, <3>4, <4>1, <4>2
    <3>6. \A f \in Frames :
            Alike(f, Top(t)) /\ (\/ clientState = Top(t).saved /\ f.pc = "callback" /\ f.pending = "WAIT_FOR_CB_RETURN"
                                 \/ clientState # Top(t).saved /\ f.pc = "callback" /\ f.pending = "NONE")
            => Proceeds(t, f, ret'[t])
      BY <3>2, <3>5
    <3>7. "callback" \in Pcs /\ Top(t).pc # "read" BY <2>4, <3>1
    <3> QED BY <2>1, <2>5, <3>1, <3>6, <3>7, CasAdvances
  <2>9. CASE CallbackCall(t)
    <3>1. PICK fn \in CallbackCalls :
            Top(t).pc = "callback" /\ clientState' = clientState /\ Enter(t, fn, "callback")
      BY <2>9 DEF CallbackCall, At, state
    <3>2. clientState \in Rest \cup {"WAIT_FOR_CB_RETURN"}
      BY <2>1, <2>2, <3>1 DEF TameDeliver, Stands, Stores
    <3>3. fn \in ApiFns /\ fn # "set_autoreconnect" BY CallsAssumption
    <3>4. fn \in Fns /\ fn # "handle_disconnect" BY <3>3 DEF Fns, ApiFns, Requests
    <3>5. ASSUME NEW f \in Frames, Alike(f, Top(t)), f.pc = "callback", f.pending = "NONE"
          PROVE  Delegates(t, f, fn) /\ TameTop(NewFrame(fn), f, clientState, ret[t])
      <4>1. f.fn = "deliver" /\ f.saved = Top(t).saved BY <2>1, <3>5 DEF Alike
      <4>2. "WAIT_FOR_CB_RETURN" \in Claims(f) /\ "WAIT_FOR_CB_RETURN" \in Claims(Top(t))
        BY <2>1, <3>1, <3>5, <4>1, DeliverSpan
      <4>3. TameDeliver(f, Caller(t), clientState) BY <3>2, <3>5 DEF TameDeliver, Stands
      <4>4. Proceeds(t, f, ret[t]) BY <2>6, <4>1, <4>2, <4>3
      <4>5. Awaits(f, fn) BY <3>3, <3>5, <4>1 DEF Awaits
      <4>6. clientState \in Found(f) BY <3>2, <4>1, Words DEF Found
      <4>7. TameTop(NewFrame(fn), f, clientState, ret[t]) BY <3>3, <4>1, <4>6, NewTame
      <4> QED BY <4>4, <4>5, <4>7 DEF Delegates, Proceeds
    <3>6. "callback" \in Pcs /\ Top(t).pc # "read" BY <2>4, <3>1
    <3> QED BY <2>1, <3>1, <3>4, <3>5, <3>6, EnterAdvances
  <2>10. CASE CallbackReturn(t)
    <3>1. /\ Top(t).pc = "callback" /\ clientState' = clientState /\ depth' = depth
          /\ stack' = [stack EXCEPT ![t][depth[t]].pc = "finish"]
      BY <2>10 DEF CallbackReturn, At, state, Goto
    <3>2. clientState \in Rest \cup {"WAIT_FOR_CB_RETURN"}
      BY <2>1, <2>2, <3>1 DEF TameDeliver, Stands, Stores
    <3>3. ASSUME NEW f \in Frames, Alike(f, Top(t)), f.pc = "finish", f.pending = Top(t).pending
          PROVE  Proceeds(t, f, ret'[t])
      <4>1. f.fn = "deliver" /\ f.saved = Top(t).saved BY <2>1, <3>3 DEF Alike
      <4>2. "WAIT_FOR_CB_RETURN" \in Claims(f) /\ "WAIT_FOR_CB_RETURN" \in Claims(Top(t))
        BY <2>1, <3>1, <3>3, <4>1, DeliverSpan
      <4>3. TameDeliver(f, Caller(t), clientState) BY <2>1, <3>2, <3>3 DEF TameDeliver, Stands
      <4> QED BY <2>6, <4>1, <4>2, <4>3
    <3>4. "finish" \in Pcs /\ Top(t).pc # "read" BY <2>4, <3>1
    <3> QED BY <2>1, <3>1, <3>3, <3>4, GotoAdvances
  <2>11. CASE DeliverFinish(t)
    <3>1. Top(t).pc = "finish" /\ SetClientState(t, "WAIT_FOR_CB_RETURN", Top(t).saved, "ack", "failed")
      BY <2>11 DEF DeliverFinish, At
    <3>2. clientState \in Rest \cup {"WAIT_FOR_CB_RETURN"}
      BY <2>1, <2>2, <3>1 DEF TameDeliver, Stands, Stores
    <3>3. Top(t).saved \in ClientStates /\ "NONE" \notin ClientStates
      BY <1>1, <2>1, TopTyped DEF Frames, ClientStates, ConnectedStates
    <3>4. ASSUME NEW f \in Frames, Alike(f, Top(t)), clientState = "WAIT_FOR_CB_RETURN", f.pc = "ack",
                 f.pending = Top(t).saved
          PROVE  Proceeds(t, f, ret'[t])
      <4>1. f.fn = "deliver" /\ f.saved = Top(t).saved BY <2>1, <3>4 DEF Alike
      <4>2. "WAIT_FOR_CB_RETURN" \in Claims(f) /\ "WAIT_FOR_CB_RETURN" \in Claims(Top(t))
        BY <2>1, <3>1, <3>3, <3>4, <4>1, DeliverSpan
      <4>3. TameDeliver(f, Caller(t), clientState) BY <3>4, <4>1 DEF TameDeliver, Stores
      <4> QED BY <2>6, <4>1, <4>2, <4>3
    <3>5. ASSUME NEW f \in Frames, Alike(f, Top(t)), clientState # "WAIT_FOR_CB_RETURN", f.pc = "failed",
                 f.pending = "NONE"
          PROVE  Proceeds(t, f, ret'[t])
      <4>1. f.fn = "deliver" BY <2>1, <3>5 DEF Alike
      <4>2. TameDeliver(f, Caller(t), clientState) BY <3>2, <3>5 DEF TameDeliver, Stands
      <4> QED BY <2>6, <3>5, <4>1, <4>2
    <3>6. "ack" \in Pcs /\ "failed" \in Pcs /\ Top(t).pc # "read" BY <2>4, <3>1
    <3> QED BY <2>1, <3>1, <3>3, <3>4, <3>5, <3>6, CasAdvances
  <2>12. CASE HandlePublishAck(t)
    <3>1. PICK rc \in {"SUCCESS", "FAILED"} :
            Top(t).pc = "ack" /\ clientState' = clientState /\ Leave(t, rc)
      BY <2>12 DEF HandlePublishAck, At, state
    <3>2. clientState \in {"CONNECTED_IDLE"} \cup Word(Caller(t))
      <4>1. Top(t).saved \in {"CONNECTED_IDLE"} \cup Word(Caller(t)) BY <2>1, <2>2, <3>1 DEF TameFrame
      <4>2. Top(t).saved \in ClientStates /\ "NONE" \notin ClientStates
        BY <1>1, <2>1, TopTyped DEF Frames, ClientStates, ConnectedStates
      <4>3. clientState = Top(t).saved BY <2>1, <2>2, <3>1, <4>2 DEF TameDeliver, Stands, Stores
      <4> QED BY <4>1, <4>3
    <3>3. clientState \in Found(Caller(t)) BY <3>2 DEF Found, Rest
    <3>4. Resumable("deliver", Caller(t), clientState, rc) BY <3>2, <3>3 DEF Resumable
    <3>5. clientState \notin Claims(Top(t)) BY <2>1, <3>1, DeliverSpan
    <3> QED BY <2>1, <3>1, <3>4, <3>5, LeaveAdvances
  <2> QED BY <1>3, <2>7, <2>8, <2>9, <2>10, <2>11, <2>12 DEF DeliverStep
<1> QED BY <1>2, <1>3

\* What a call relies on its caller for is a connected client, or a new one.
LEMMA WordUp ==
  ASSUME NEW c
  PROVE  \A s \in Word(c) : IsConnected(s) \/ s = "INITIALIZED"
BY DEF Word, IsConnected, ConnectedStates, InProgress, Requests

\* A function that finds the client connected finds it idle or claimed by its caller.
LEMMA FoundDown ==
  ASSUME NEW c, NEW s \in Found(c)
  PROVE  /\ ~IsConnected(s) => s \in Rest \cup {"INITIALIZED"}
         /\ IsConnected(s) => s \in {"CONNECTED_IDLE"} \cup Word(c)
<1>1. \A x \in Rest : IsConnected(x) => x = "CONNECTED_IDLE" BY DEF Rest, IsConnected, ConnectedStates
<1> QED BY <1>1, WordUp DEF Found

\* The steps of connect.
LEMMA ConnectAdvances ==
  ASSUME NEW t \in Threads, Threads = {t}, ~HandlerReconnects, Ready(t), CtlTyped', ConnectStep(t)
  PROVE  Advances(t)
<1>1. depth[t] > 0 /\ Top(t).fn = "connect" /\ Top(t).pending = "NONE"
  BY DEF ConnectStep, ConnectRead, ConnectClaim, ConnectTls, ConnectConnack, ConnectTeardown,
         ConnectFail, ConnectFinish, At
<1>2. EnvTyped /\ CtlTyped /\ Linked(t) /\ Tame(t) BY DEF Ready
<1>3. TameConnect(Top(t), Caller(t), clientState) BY <1>1, <1>2, TopKnown
<1>4. LinkedTop(Top(t), clientState, tlsUp, ret[t]) BY <1>1, <1>2, LinkedAtTop
<1>5. {"claim", "tls", "connack", "teardown", "fail", "finish", "done"} \subseteq Pcs BY DEF Pcs
<1>6. "connect" \in Savers /\ "connect" \notin OperationFns BY DEF Savers, OperationFns, Requests
<1>7. /\ {"CONNECTING", "DISCONNECTED_ERROR", "CONNECTED_IDLE"} \subseteq ClientStates
      /\ "NONE" \notin ClientStates /\ ~ValidForConnect("CONNECTING")
  BY DEF ClientStates, ConnectedStates, ValidForConnect
\* A connect is no operation of the contract.
<1>8. ASSUME NEW f, f.fn = "connect", NEW rc, TameConnect(f, Caller(t), clientState)
      PROVE  Proceeds(t, f, rc)
  <2>1. OpsKept(Top(t), f, clientState) /\ ~Renews(f, clientState) BY <1>6, <1>8 DEF OpsKept, Renews
  <2>2. TameTop(f, Caller(t), clientState, rc) BY <1>8 DEF TameTop
  <2> QED BY <2>1, <2>2 DEF Proceeds
<1>9. CASE ConnectRead(t)
  <2>1. Top(t).pc = "read" /\ clientState' = clientState BY <1>9 DEF ConnectRead, At, state
  <2>2. clientState \in Found(Caller(t)) BY <1>1, <1>3, <1>7, <2>1 DEF TameConnect, Stands, Stores
  <2>3. CASE ValidForConnect(clientState) /\ SaveAndGoto(t, "claim")
    <3>1. ASSUME NEW f \in Frames, f.fn = Top(t).fn, f.saved = clientState, f.pc = "claim",
                 f.pending = Top(t).pending
          PROVE  Proceeds(t, f, ret[t]) /\ TameFrame(f, Caller(t))
      <4>1. TameConnect(f, Caller(t), clientState) BY <1>1, <3>1 DEF TameConnect, Stands
      <4>2. TameFrame(f, Caller(t)) BY <1>1, <2>3, <3>1 DEF TameFrame, Requests
      <4> QED BY <1>1, <1>8, <3>1, <4>1, <4>2
    <3> QED BY <1>1, <2>1, <2>3, <3>1, SaveAdvances
  <2>4. CASE ~ValidForConnect(clientState) /\ Leave(t, "FAILED")
    <3>1. clientState # "INITIALIZED" BY <2>4 DEF ValidForConnect
    <3>2. Resumable("connect", Caller(t), clientState, "FAILED") BY <2>2, <3>1 DEF Resumable
    <3> QED BY <1>1, <1>6, <2>1, <2>4, <3>2, LeaveAdvances
  <2> QED BY <1>9, <2>3, <2>4 DEF ConnectRead
<1>10. CASE ConnectClaim(t)
  <2>1. Top(t).pc = "claim" /\ SetClientState(t, Top(t).saved, "CONNECTING", "tls", "tls")
    BY <1>10 DEF ConnectClaim, At
  <2>2. clientState = Top(t).saved BY <1>1, <1>4, <1>6, <2>1 DEF LinkedTop
  <2>3. ASSUME NEW f \in Frames, Alike(f, Top(t)), f.pc = "tls", f.pending = "CONNECTING"
        PROVE  Proceeds(t, f, ret'[t])
    <3>1. f.fn = "connect" /\ f.saved = clientState BY <1>1, <2>2, <2>3 DEF Alike
    <3>2. TameConnect(f, Caller(t), clientState) BY <2>3, <3>1 DEF TameConnect, Stores
    <3> QED BY <1>8, <3>1, <3>2
  <2>4. \A f \in Frames :
          Alike(f, Top(t)) /\ (\/ clientState = Top(t).saved /\ f.pc = "tls" /\ f.pending = "CONNECTING"
                               \/ clientState # Top(t).saved /\ f.pc = "tls" /\ f.pending = "NONE")
          => Proceeds(t, f, ret'[t])
    BY <2>2, <2>3
  <2>5. "tls" \in Pcs /\ Top(t).pc # "read" BY <1>5, <2>1
  <2> QED BY <1>1, <1>7, <2>1, <2>4, <2>5, CasAdvances
<1>11. CASE ConnectTls(t) \/ ConnectConnack(t) \/ ConnectTeardown(t)
  <2>1. PICK pc \in {"connack", "teardown", "finish", "fail"} :
          /\ depth' = depth /\ stack' = [stack EXCEPT ![t][depth[t]].pc = pc]
    BY <1>11 DEF ConnectTls, ConnectConnack, ConnectTeardown, Goto, GotoRc
  <2>2. Top(t).pc \in {"tls", "connack", "teardown"} /\ clientState' = clientState
    BY <1>11 DEF ConnectTls, ConnectConnack, ConnectTeardown, At, state
  <2>3. clientState = "CONNECTING" BY <1>1, <1>3, <1>7, <2>2 DEF TameConnect, Stands, Stores
  <2>4. ASSUME NEW f \in Frames, Alike(f, Top(t)), f.pc = pc, f.pending = Top(t).pending
        PROVE  Proceeds(t, f, ret'[t])
    <3>1. f.fn = "connect" BY <1>1, <2>4 DEF Alike
    <3>2. TameConnect(f, Caller(t), clientState) BY <1>1, <2>3, <2>4 DEF TameConnect, Stands
    <3> QED BY <1>8, <3>1, <3>2
  <2>5. pc \in Pcs /\ Top(t).pc # "read" BY <1>5, <2>2
  <2> QED BY <1>1, <2>1, <2>2, <2>4, <2>5, GotoAdvances
<1>12. CASE ConnectFail(t) \/ ConnectFinish(t)
  <2>1. PICK new \in {"CONNECTED_IDLE", "DISCONNECTED_ERROR"} :
          SetClientState(t, "CONNECTING", new, "done", "done")
    BY <1>12 DEF ConnectFail, ConnectFinish
  <2>2. Top(t).pc \in {"fail", "finish"} BY <1>12 DEF ConnectFail, ConnectFinish, At
  <2>3. clientState = "CONNECTING" BY <1>1, <1>3, <1>7, <2>2 DEF TameConnect, Stands, Stores
  <2>4. ASSUME NEW f \in Frames, Alike(f, Top(t)), f.pc = "done", f.pending = new
        PROVE  Proceeds(t, f, ret'[t])
    <3>1. f.fn = "connect" BY <1>1, <2>4 DEF Alike
    <3>2. TameConnect(f, Caller(t), clientState) BY <2>3, <2>4 DEF TameConnect, Stores
    <3> QED BY <1>8, <3>1, <3>2
  <2>5. \A f \in Frames :
          Alike(f, Top(t)) /\ (\/ clientState = "CONNECTING" /\ f.pc = "done" /\ f.pending = new
                               \/ clientState # "CONNECTING" /\ f.pc = "done" /\ f.pending = "NONE")
          => Proceeds(t, f, ret'[t])
    BY <2>3, <2>4
  <2>6. "done" \in Pcs /\ Top(t).pc # "read" /\ new \in ClientStates BY <1>5, <1>7, <2>2
  <2> QED BY <1>1, <2>1, <2>5, <2>6, CasAdvances
<1> QED BY <1>9, <1>10, <1>11, <1>12 DEF ConnectStep

\* When disconnect answers for the state word.
LEMMA DisconnectSpan ==
  ASSUME NEW f, f.fn = "disconnect"
  PROVE  Claims(f) = IF f.pc \in {"send", "manual", "undo"} THEN {"DISCONNECTING"} ELSE {}
BY DisconnectClaims DEF Claims

\* A disconnect ends.
LEMMA DisconnectReturns ==
  ASSUME NEW t \in Threads, Threads = {t}, Ready(t), CtlTyped', clientState' \in ClientStates,
         DisconnectManual(t) \/ DisconnectUndo(t)
  PROVE  Advances(t)
<1>1. EnvTyped /\ CtlTyped /\ Linked(t) /\ Tame(t) BY DEF Ready
<1>2. /\ depth[t] > 0 /\ Top(t).fn = "disconnect" /\ Top(t).pending = "NONE"
      /\ Top(t).pc \in {"manual", "undo"}
  BY DEF DisconnectManual, DisconnectUndo, At
<1>3. TameDisconnect(Top(t), Caller(t), clientState) /\ TameFrame(Top(t), Caller(t))
  BY <1>1, <1>2, TopKnown, TameAtTop
<1>4. LinkedTop(Top(t), clientState, tlsUp, ret[t]) BY <1>1, <1>2, LinkedAtTop
<1>5. clientState = "DISCONNECTING"
  BY <1>2, <1>4 DEF LinkedTop, LinkedDisconnect
<1>6. IsConnected(Top(t).saved) /\ Top(t).saved \in {"CONNECTED_IDLE"} \cup Word(Caller(t))
  BY <1>2, <1>3, <1>4 DEF LinkedTop, LinkedFrame, TameFrame
<1>7. User = t BY UserIs
<1>8. LinkOf(t) = "closing" BY <1>5, Links
<1>9. Renewing(t)' = Renewing(t)
  <2>1. ~Renews(Top(t), clientState) BY <1>2 DEF Renews
  <2>2. Renewing(t) <=> RenewedBelow(t) BY <1>1, <1>2, <2>1, RenewingNow
  <2>3. PICK rc : Leave(t, rc) BY DEF DisconnectManual, DisconnectUndo
  <2>4. Renewing(t)' <=> RenewedBelow(t) BY <1>1, <1>2, <2>3, LeaveReturns, RenewingReturned
  <2>5. Renewing(t) \in BOOLEAN /\ Renewing(t)' \in BOOLEAN BY DEF Renewing
  <2> QED BY <2>2, <2>4, <2>5
<1>10. Under(t) \in Layers /\ (\A x \in Free : Under(t)[x] = <<>>)
       /\ OpsNow(t) = Atop(Top(t), Under(t))[clientState]
  BY <1>1, <1>2, OpsBefore DEF EnvTyped
<1>11. CASE DisconnectManual(t)
  <2>1. clientState' = "DISCONNECTED_MANUALLY" /\ Returns(t, "SUCCESS")
    BY <1>1, <1>2, <1>11, LeaveReturns DEF DisconnectManual
  <2>2. "DISCONNECTED_MANUALLY" \in Found(Caller(t)) BY DEF Found, Rest
  <2>3. Resumable("disconnect", Caller(t), "DISCONNECTED_MANUALLY", "SUCCESS") BY <2>2 DEF Resumable
  <2>4. Tame(t)' BY <1>1, <1>2, <2>1, <2>3, TameReturn
  <2>5. OpsNow(t)' = Under(t)["DISCONNECTED_MANUALLY"] BY <1>1, <1>2, <2>1, OpsReturned
  <2>6. OpsNow(t)' = <<>> BY <1>10, <2>5 DEF Free
  <2>7. LinkOf(t)' \in {"closed", "lost"} BY <2>1, LinksNext
  <2>8. Contract!DisconnectEnds BY <1>7, <1>8, <1>9, <2>6, <2>7 DEF Contract!DisconnectEnds
  <2> QED BY <2>4, <2>8 DEF Advances, Refines, Contract!Next
<1>12. CASE DisconnectUndo(t)
  <2>1. clientState' = Top(t).saved /\ Returns(t, "FAILED")
    BY <1>1, <1>2, <1>12, LeaveReturns DEF DisconnectUndo
  <2>2. Top(t).saved \in Found(Caller(t)) BY <1>6 DEF Found, Rest
  <2>3. Top(t).saved # "PENDING_RECONNECT" BY <1>6 DEF IsConnected, ConnectedStates
  <2>4. Resumable("disconnect", Caller(t), Top(t).saved, "FAILED") BY <2>2, <2>3 DEF Resumable
  <2>5. Tame(t)' BY <1>1, <1>2, <2>1, <2>4, TameReturn
  <2>6. OpsNow(t)' = Under(t)[Top(t).saved] BY <1>1, <1>2, <2>1, OpsReturned
  <2>7. OpsNow(t) = Under(t)[Top(t).saved]
    <3>1. Top(t) \in Frames BY <1>1, <1>2, TopTyped
    <3>2. Claims(Top(t)) = {"DISCONNECTING"} BY <1>2, <1>4, DisconnectSpan DEF LinkedTop, LinkedDisconnect
    <3>3. "disconnect" \in OperationFns /\ "DISCONNECTING" \in ClientStates /\ "DISCONNECTING" # "CONNECTED_IDLE"
      BY DEF OperationFns, ClientStates
    <3>4. FoundBy(Top(t)) = Top(t).saved /\ OperationOf(Top(t)) = <<>>
      BY <1>2 DEF FoundBy, OperationOf
    <3>5. Under(t)[Top(t).saved] \in Seq(Operations)
      BY <1>10, <3>1 DEF Layers, Frames
    <3>6. OpsNow(t) = Under(t)[Top(t).saved] \o <<>>
      BY <1>2, <1>5, <1>10, <3>1, <3>2, <3>3, <3>4, AtopTyped
    <3> QED BY <3>5, <3>6, ConcatEmptySeq
  <2>8. LinkOf(t)' = "up" BY <1>6, <2>1, LinksNext
  <2>9. Contract!DisconnectEnds BY <1>7, <1>8, <1>9, <2>6, <2>7, <2>8 DEF Contract!DisconnectEnds
  <2> QED BY <2>5, <2>9 DEF Advances, Refines, Contract!Next
<1> QED BY <1>11, <1>12

\* The steps of disconnect.
LEMMA DisconnectAdvances ==
  ASSUME NEW t \in Threads, Threads = {t}, ~HandlerReconnects, Ready(t), CtlTyped',
         clientState' \in ClientStates, DisconnectStep(t)
  PROVE  Advances(t)
<1>1. EnvTyped /\ CtlTyped /\ Linked(t) /\ Tame(t) BY DEF Ready
<1>2. depth[t] > 0 /\ Top(t).fn = "disconnect" /\ Top(t).pending = "NONE"
  BY DEF DisconnectStep, DisconnectRead, DisconnectClaim, DisconnectSend, DisconnectManual,
         DisconnectUndo, At
<1>3. TameDisconnect(Top(t), Caller(t), clientState) BY <1>1, <1>2, TopKnown
<1>4. LinkedTop(Top(t), clientState, tlsUp, ret[t]) BY <1>1, <1>2, LinkedAtTop
<1>5. {"claim", "send", "failed", "manual", "undo"} \subseteq Pcs BY DEF Pcs
<1>6. "disconnect" \in Savers /\ "DISCONNECTING" \in ClientStates /\ ~IsConnected("DISCONNECTING")
  BY DEF Savers, ClientStates, IsConnected, ConnectedStates
<1>7. ASSUME NEW f, f.fn = "disconnect", NEW rc, TameDisconnect(f, Caller(t), clientState),
             \/ clientState # "DISCONNECTING"
             \/ "DISCONNECTING" \in Claims(f) /\ "DISCONNECTING" \in Claims(Top(t)) /\ f.saved = Top(t).saved
      PROVE  Proceeds(t, f, rc)
  <2>1. Claims(f) \subseteq {"DISCONNECTING"} /\ Claims(Top(t)) \subseteq {"DISCONNECTING"}
    BY <1>2, <1>7, DisconnectSpan
  <2>2. OpsKept(Top(t), f, clientState) BY <1>2, <1>7, <2>1, SpanKept
  <2>3. ~Renews(f, clientState) BY <1>7 DEF Renews
  <2>4. TameTop(f, Caller(t), clientState, rc) BY <1>7 DEF TameTop
  <2> QED BY <2>2, <2>3, <2>4 DEF Proceeds
<1>8. CASE DisconnectRead(t)
  <2>1. Top(t).pc = "read" /\ clientState' = clientState BY <1>8 DEF DisconnectRead, At, state
  <2>2. clientState \in Found(Caller(t)) /\ (Caller(t).fn = "handle_disconnect" => clientState # "PENDING_RECONNECT")
    BY <1>2, <1>3, <2>1 DEF TameDisconnect, Stands, Stores
  <2>3. CASE IsConnected(clientState) /\ SaveAndGoto(t, "claim")
    <3>1. ASSUME NEW f \in Frames, f.fn = Top(t).fn, f.saved = clientState, f.pc = "claim",
                 f.pending = Top(t).pending
          PROVE  Proceeds(t, f, ret[t]) /\ TameFrame(f, Caller(t))
      <4>1. TameDisconnect(f, Caller(t), clientState) BY <1>2, <3>1 DEF TameDisconnect, Stands
      <4>2. TameFrame(f, Caller(t)) BY <1>2, <2>2, <2>3, <3>1, FoundDown DEF TameFrame
      <4>3. clientState # "DISCONNECTING" BY <1>6, <2>3
      <4> QED BY <1>2, <1>7, <3>1, <4>1, <4>2, <4>3
    <3> QED BY <1>2, <2>1, <2>3, <3>1, SaveAdvances
  <2>4. CASE Leave(t, "DISCONNECTED")
    <3>1. Resumable("disconnect", Caller(t), clientState, "DISCONNECTED") BY <2>2 DEF Resumable
    <3>2. clientState \notin Claims(Top(t)) BY <1>2, <2>1, DisconnectSpan
    <3> QED BY <1>2, <2>1, <2>4, <3>1, <3>2, LeaveAdvances
  <2> QED BY <1>8, <2>3, <2>4 DEF DisconnectRead
<1>9. CASE DisconnectClaim(t)
  <2>1. Top(t).pc = "claim" /\ SetClientState(t, Top(t).saved, "DISCONNECTING", "send", "failed")
    BY <1>9 DEF DisconnectClaim, At
  <2>2. clientState = Top(t).saved BY <1>2, <1>4, <1>6, <2>1 DEF LinkedTop
  <2>3. clientState # "DISCONNECTING" BY <1>2, <1>4, <1>6, <2>1, <2>2 DEF LinkedTop, LinkedFrame
  <2>4. ASSUME NEW f \in Frames, Alike(f, Top(t)), f.pc = "send", f.pending = "DISCONNECTING"
        PROVE  Proceeds(t, f, ret'[t])
    <3>1. f.fn = "disconnect" /\ f.saved = clientState BY <1>2, <2>2, <2>4 DEF Alike
    <3>2. TameDisconnect(f, Caller(t), clientState) BY <2>4, <3>1 DEF TameDisconnect, Stores
    <3> QED BY <1>7, <2>3, <3>1, <3>2
  <2>5. \A f \in Frames :
          Alike(f, Top(t)) /\ (\/ clientState = Top(t).saved /\ f.pc = "send" /\ f.pending = "DISCONNECTING"
                               \/ clientState # Top(t).saved /\ f.pc = "failed" /\ f.pending = "NONE")
          => Proceeds(t, f, ret'[t])
    BY <2>2, <2>4
  <2>6. "send" \in Pcs /\ "failed" \in Pcs /\ Top(t).pc # "read" BY <1>5, <2>1
  <2> QED BY <1>2, <1>6, <2>1, <2>5, <2>6, CasAdvances
<1>10. CASE DisconnectSend(t)
  <2>1. PICK pc \in {"manual", "undo"} :
          depth' = depth /\ stack' = [stack EXCEPT ![t][depth[t]].pc = pc]
    BY <1>10 DEF DisconnectSend, Goto
  <2>2. Top(t).pc = "send" /\ clientState' = clientState BY <1>10 DEF DisconnectSend, At, state
  <2>3. clientState = "DISCONNECTING" BY <1>2, <1>4, <2>2 DEF LinkedTop, LinkedDisconnect
  <2>4. ASSUME NEW f \in Frames, Alike(f, Top(t)), f.pc = pc, f.pending = Top(t).pending
        PROVE  Proceeds(t, f, ret'[t])
    <3>1. f.fn = "disconnect" /\ f.saved = Top(t).saved BY <1>2, <2>4 DEF Alike
    <3>2. TameDisconnect(f, Caller(t), clientState) BY <1>2, <2>3, <2>4 DEF TameDisconnect, Stands
    <3>3. "DISCONNECTING" \in Claims(f) /\ "DISCONNECTING" \in Claims(Top(t))
      BY <1>2, <2>2, <2>4, <3>1, DisconnectSpan
    <3> QED BY <1>7, <3>1, <3>2, <3>3
  <2>5. pc \in Pcs /\ Top(t).pc # "read" BY <1>5, <2>2
  <2> QED BY <1>2, <2>1, <2>2, <2>4, <2>5, GotoAdvances
<1>11. CASE DisconnectManual(t) \/ DisconnectUndo(t) BY <1>11, DisconnectReturns
<1> QED BY <1>8, <1>9, <1>10, <1>11 DEF DisconnectStep

\* The steps of attempt_reconnect.
LEMMA ReconnectAdvances ==
  ASSUME NEW t \in Threads, Threads = {t}, ~HandlerReconnects, Ready(t), CtlTyped', ReconnectStep(t)
  PROVE  Advances(t)
<1>1. EnvTyped /\ CtlTyped /\ Linked(t) /\ Tame(t) BY DEF Ready
<1>2. depth[t] > 0 /\ Top(t).fn = "attempt_reconnect" /\ Top(t).pending = "NONE"
  BY DEF ReconnectStep, ReconnectRead, ReconnectCheck, ReconnectPend, ReconnectResult, At
<1>3. TameReconnect(Top(t), Caller(t), clientState, ret[t]) BY <1>1, <1>2, TopKnown
<1>4. {"check", "pend", "attempting", "resub"} \subseteq Pcs BY DEF Pcs
<1>5. "attempt_reconnect" \notin Savers \cup OperationFns BY DEF Savers, OperationFns, Requests
<1>6. /\ {"connect", "resubscribe"} \subseteq (ApiFns \ {"set_autoreconnect"}) \cap Fns
      /\ "PENDING_RECONNECT" \in ClientStates /\ Rest \subseteq ClientStates
  BY DEF ApiFns, Fns, Requests, ClientStates, ConnectedStates, Rest
\* A reconnect is no operation of the contract.
<1>7. ASSUME NEW f, f.fn = "attempt_reconnect"
      PROVE  OpsKept(Top(t), f, clientState) /\ ~Renews(f, clientState)
  BY <1>5, <1>7 DEF OpsKept, Renews
<1>8. CASE ReconnectRead(t)
  <2>1. Top(t).pc = "read" /\ clientState' = clientState BY <1>8 DEF ReconnectRead, At, state
  <2>2. clientState \in Found(Caller(t)) BY <1>2, <1>3, <2>1 DEF TameReconnect, Stands, Stores
  <2>3. CASE Leave(t, "FAILED")
    <3>1. Resumable("attempt_reconnect", Caller(t), clientState, "FAILED") BY <2>2 DEF Resumable
    <3> QED BY <1>2, <1>5, <2>1, <2>3, <3>1, LeaveAdvances
  <2>4. CASE ~IsConnected(clientState) /\ Enter(t, "connect", "check")
    <3>1. clientState \in Rest \cup {"INITIALIZED"} BY <2>2, <2>4, FoundDown
    <3>2. ASSUME NEW f \in Frames, Alike(f, Top(t)), f.pc = "check", f.pending = "NONE"
          PROVE  Delegates(t, f, "connect") /\ TameTop(NewFrame("connect"), f, clientState, ret[t])
      <4>1. f.fn = "attempt_reconnect" BY <1>2, <3>2 DEF Alike
      <4>2. Awaits(f, "connect") BY <3>2, <4>1 DEF Awaits
      <4>3. clientState \in Found(f) BY <3>1, <3>2, <4>1, Words DEF Found
      <4>4. TameTop(NewFrame("connect"), f, clientState, ret[t]) BY <1>6, <4>1, <4>3, NewTame
      <4> QED BY <1>7, <4>1, <4>2, <4>4 DEF Delegates
    <3>3. "check" \in Pcs /\ "connect" \in Fns BY <1>4, <1>6
    <3> QED BY <1>2, <1>5, <2>1, <2>4, <3>2, <3>3, EnterAdvances
  <2> QED BY <1>8, <2>3, <2>4 DEF ReconnectRead
<1>9. CASE ReconnectCheck(t)
  <2>1. Top(t).pc = "check" /\ clientState' = clientState BY <1>9 DEF ReconnectCheck, At, state
  <2>2. clientState \in Rest BY <1>2, <1>3, <2>1 DEF TameReconnect, Stands, Stores
  <2>3. CASE Enter(t, "resubscribe", "resub")
    <3>1. ASSUME NEW f \in Frames, Alike(f, Top(t)), f.pc = "resub", f.pending = "NONE"
          PROVE  Delegates(t, f, "resubscribe") /\ TameTop(NewFrame("resubscribe"), f, clientState, ret[t])
      <4>1. f.fn = "attempt_reconnect" BY <1>2, <3>1 DEF Alike
      <4>2. Awaits(f, "resubscribe") BY <3>1, <4>1 DEF Awaits
      <4>3. clientState \in Found(f) BY <2>2 DEF Found
      <4>4. TameTop(NewFrame("resubscribe"), f, clientState, ret[t]) BY <1>6, <4>1, <4>3, NewTame
      <4> QED BY <1>7, <4>1, <4>2, <4>4 DEF Delegates
    <3>2. "resub" \in Pcs /\ "resubscribe" \in Fns BY <1>4, <1>6
    <3> QED BY <1>2, <1>5, <2>1, <2>3, <3>1, <3>2, EnterAdvances
  <2>4. CASE Goto(t, "pend")
    <3>1. depth' = depth /\ stack' = [stack EXCEPT ![t][depth[t]].pc = "pend"] BY <2>4 DEF Goto
    <3>2. ASSUME NEW f \in Frames, Alike(f, Top(t)), f.pc = "pend", f.pending = Top(t).pending
          PROVE  Proceeds(t, f, ret'[t])
      <4>1. f.fn = "attempt_reconnect" BY <1>2, <3>2 DEF Alike
      <4>2. TameTop(f, Caller(t), clientState, ret'[t])
        BY <1>2, <2>2, <3>2, <4>1 DEF TameTop, TameReconnect, Stands
      <4> QED BY <1>7, <4>1, <4>2 DEF Proceeds
    <3>3. "pend" \in Pcs BY <1>4
    <3> QED BY <1>2, <1>5, <2>1, <3>1, <3>2, <3>3, GotoAdvances
  <2> QED BY <1>9, <2>3, <2>4 DEF ReconnectCheck
<1>10. CASE ReconnectPend(t)
  <2>1. /\ Top(t).pc = "pend"
        /\ SetClientState(t, "DISCONNECTED_ERROR", "PENDING_RECONNECT", "attempting", "attempting")
    BY <1>10 DEF ReconnectPend, At
  <2>2. clientState \in Rest BY <1>2, <1>3, <2>1 DEF TameReconnect, Stands, Stores
  <2>3. ASSUME NEW f \in Frames, Alike(f, Top(t)), f.pc = "attempting",
               \/ clientState = "DISCONNECTED_ERROR" /\ f.pending = "PENDING_RECONNECT"
               \/ f.pending = "NONE"
        PROVE  Proceeds(t, f, ret'[t])
    <3>1. f.fn = "attempt_reconnect" BY <1>2, <2>3 DEF Alike
    <3>2. TameTop(f, Caller(t), clientState, ret'[t])
      BY <2>2, <2>3, <3>1 DEF TameTop, TameReconnect, Stands, Stores
    <3> QED BY <1>7, <3>1, <3>2 DEF Proceeds
  <2>4. "attempting" \in Pcs BY <1>4
  <2> QED BY <1>2, <1>5, <1>6, <2>1, <2>3, <2>4, CasAdvances
<1>11. CASE ReconnectResult(t)
  <2>1. clientState' = clientState BY <1>11 DEF ReconnectResult, state
  <2>2. CASE Top(t).pc = "attempting" /\ Leave(t, "ATTEMPTING")
    <3>1. clientState \in Rest BY <1>2, <1>3, <2>2 DEF TameReconnect, Stands, Stores
    <3>2. Resumable("attempt_reconnect", Caller(t), clientState, "ATTEMPTING") BY <3>1 DEF Resumable, Found
    <3> QED BY <1>2, <1>5, <2>1, <2>2, <3>2, LeaveAdvances
  <2>3. CASE Top(t).pc = "resub" /\ Leave(t, IF ret[t] = "SUCCESS" THEN "RECONNECTED" ELSE ret[t])
    <3> DEFINE rc == IF ret[t] = "SUCCESS" THEN "RECONNECTED" ELSE ret[t]
    <3>1. clientState \in Rest /\ (rc = "RECONNECTED" => clientState = "CONNECTED_IDLE")
      BY <1>2, <1>3, <2>3 DEF TameReconnect, Stands, Stores
    <3> HIDE DEF rc
    <3>2. Resumable("attempt_reconnect", Caller(t), clientState, rc) BY <3>1 DEF Resumable, Found
    <3>3. Leave(t, rc) BY <2>3 DEF rc
    <3> QED BY <1>2, <1>5, <2>1, <3>2, <3>3, LeaveAdvances
  <2> QED BY <1>11, <2>2, <2>3 DEF ReconnectResult, At
<1> QED BY <1>8, <1>9, <1>10, <1>11 DEF ReconnectStep

\* handle_disconnect answers for the state word of the yield that called it.
LEMMA LostSpan ==
  ASSUME NEW f, f.fn = "handle_disconnect", f.pc \in {"read", "disc", "force", "drop", "handler", "settle"}
  PROVE  Claims(f) = {"YIELD_IN_PROGRESS"}
BY LostClaims DEF Claims

\* While handle_disconnect is at the top the contract sees a lost connection,
\* or a yield alone.
LEMMA LostSees ==
  ASSUME NEW t \in Threads, EnvTyped, CtlTyped, Tame(t), depth[t] > 0, Top(t).fn = "handle_disconnect",
         Top(t).pc \in {"read", "disc", "force", "drop", "handler", "settle"}
  PROVE  /\ LosingIt(t)
         /\ Renewing(t) <=> RenewedBelow(t)
         /\ clientState \in Reading => IF IsConnected(clientState)
                                       THEN LinkOf(t) = "up" /\ OpsNow(t) \in {<<>>, <<"yield">>}
                                       ELSE LinkOf(t) = "lost" /\ OpsNow(t) = <<>>
<1>1. depth[t] \in 1..depth[t] /\ Top(t) \in Frames /\ clientState \in ClientStates
  BY TopTyped DEF EnvTyped
<1>2. LosingIt(t) BY <1>1 DEF LosingIt, Top
<1>3. ~Renews(Top(t), clientState) BY DEF Renews
<1>4. Renewing(t) <=> RenewedBelow(t) BY <1>3, RenewingNow
<1>5. Under(t) \in Layers /\ (\A x \in Free : Under(t)[x] = <<>>)
      /\ OpsNow(t) = Atop(Top(t), Under(t))[clientState]
  BY <1>1, OpsBefore
<1>6. clientState \in Free => OpsNow(t) = <<>> BY <1>1, <1>5, FreeAtop
<1>7. clientState = "YIELD_IN_PROGRESS" => OpsNow(t) = <<"yield">>
  <2> HAVE clientState = "YIELD_IN_PROGRESS"
  <2>1. FoundBy(Top(t)) = "CONNECTED_IDLE" /\ OperationOf(Top(t)) = <<"yield">>
        /\ Claims(Top(t)) = {"YIELD_IN_PROGRESS"} /\ Top(t).fn \in OperationFns
    BY LostSpan DEF FoundBy, OperationOf, OperationFns
  <2>2. OpsNow(t) = Under(t)["CONNECTED_IDLE"] \o <<"yield">> BY <1>1, <1>5, <2>1, AtopTyped
  <2>3. Under(t)["CONNECTED_IDLE"] = <<>> BY <1>5 DEF Free
  <2>4. <<"yield">> \in Seq({"yield"}) OBVIOUS
  <2> QED BY <2>2, <2>3, <2>4, ConcatEmptySeq
<1>8. clientState \in Reading => clientState \in Free \cup {"YIELD_IN_PROGRESS"} BY DEF Reading, Free
<1>9. ASSUME clientState \in Reading, ~IsConnected(clientState) PROVE LinkOf(t) = "lost" /\ clientState \in Free
  <2>1. clientState \in {"DISCONNECTED_ERROR", "DISCONNECTED_MANUALLY"}
    BY <1>9 DEF Reading, IsConnected, ConnectedStates
  <2> QED BY <1>2, <2>1, Links DEF Free
<1>10. IsConnected(clientState) => LinkOf(t) = "up" BY Links
<1> QED BY <1>2, <1>4, <1>6, <1>7, <1>8, <1>9, <1>10

\* The steps of handle_disconnect.
LEMMA LostAdvances ==
  ASSUME NEW t \in Threads, Threads = {t}, ~HandlerReconnects, Ready(t), CtlTyped',
         clientState' \in ClientStates, LostStep(t)
  PROVE  Advances(t)
<1>1. EnvTyped /\ CtlTyped /\ Linked(t) /\ Tame(t) BY DEF Ready
<1>2. /\ depth[t] > 0 /\ Top(t).fn = "handle_disconnect" /\ Top(t).pending = "NONE"
      /\ Top(t).pc \in {"read", "disc", "force", "drop", "handler", "settle"}
  BY DEF LostStep, LostDisconnect, ForceDisconnect, ForceDrop, DisconnectHandler, LostSettle, At
<1>3. TameLost(Top(t), clientState, ret[t]) BY <1>1, <1>2, TopKnown
<1>4. {"disc", "handler", "force", "drop", "settle"} \subseteq Pcs BY DEF Pcs
<1>5. "handle_disconnect" \notin Savers BY DEF Savers, Requests
<1>6. /\ LosingIt(t)
      /\ Renewing(t) <=> RenewedBelow(t)
      /\ clientState \in Reading => IF IsConnected(clientState)
                                    THEN LinkOf(t) = "up" /\ OpsNow(t) \in {<<>>, <<"yield">>}
                                    ELSE LinkOf(t) = "lost" /\ OpsNow(t) = <<>>
  BY <1>1, <1>2, LostSees
<1>7. ASSUME NEW f, f.fn = "handle_disconnect", f.pc \in {"disc", "handler", "force", "drop", "settle"}
      PROVE  OpsKept(Top(t), f, clientState) /\ ~Renews(f, clientState)
  <2>1. Claims(f) = {"YIELD_IN_PROGRESS"} /\ Claims(Top(t)) = {"YIELD_IN_PROGRESS"} BY <1>2, <1>7, LostSpan
  <2> QED BY <1>2, <1>7, <2>1, SpanKept DEF Renews
<1>8. CASE LostDisconnect(t)
  <2>1. clientState' = clientState BY <1>8 DEF LostDisconnect, state
  <2>2. CASE Top(t).pc = "read" /\ Enter(t, "disconnect", "disc")
    <3>1. clientState \in Reading BY <1>2, <1>3, <2>2 DEF TameLost, Stands
    <3>2. ASSUME NEW f \in Frames, Alike(f, Top(t)), f.pc = "disc", f.pending = "NONE"
          PROVE  Delegates(t, f, "disconnect") /\ TameTop(NewFrame("disconnect"), f, clientState, ret[t])
      <4>1. f.fn = "handle_disconnect" BY <1>2, <3>2 DEF Alike
      <4>2. Awaits(f, "disconnect") BY <3>2, <4>1 DEF Awaits
      <4>3. clientState \in Found(f) /\ clientState # "PENDING_RECONNECT"
        BY <3>1, <4>1, Words DEF Found, Reading, Rest
      <4>4. LET g == NewFrame("disconnect") IN g.fn = "disconnect" /\ g.pc = "read" /\ g.pending = "NONE"
        BY DEF NewFrame
      <4>5. TameTop(NewFrame("disconnect"), f, clientState, ret[t])
        BY <4>3, <4>4 DEF TameTop, TameDisconnect, Stands
      <4> QED BY <1>7, <3>2, <4>1, <4>2, <4>5 DEF Delegates
    <3>3. "disc" \in Pcs /\ "disconnect" \in Fns BY <1>4 DEF Fns, ApiFns
    <3> QED BY <1>2, <1>5, <2>1, <2>2, <3>2, <3>3, EnterAdvances
  <2>3. CASE Top(t).pc = "disc" /\ Goto(t, IF ret[t] = "SUCCESS" THEN "handler" ELSE "force")
    <3>1. PICK pc \in {"handler", "force"} :
            /\ depth' = depth /\ stack' = [stack EXCEPT ![t][depth[t]].pc = pc]
            /\ IF ret[t] = "SUCCESS" THEN pc = "handler" ELSE pc = "force"
      BY <2>3 DEF Goto
    <3>2. clientState \in IF ret[t] = "SUCCESS" THEN {"DISCONNECTED_MANUALLY"} ELSE Reading
      BY <1>2, <1>3, <2>3 DEF TameLost, Stands
    <3>3. ASSUME NEW f \in Frames, Alike(f, Top(t)), f.pc = pc, f.pending = Top(t).pending
          PROVE  Proceeds(t, f, ret'[t])
      <4>1. f.fn = "handle_disconnect" BY <1>2, <3>3 DEF Alike
      <4>2. TameTop(f, Caller(t), clientState, ret'[t])
        BY <1>2, <3>1, <3>2, <3>3, <4>1 DEF TameTop, TameLost, Stands
      <4> QED BY <1>7, <3>3, <4>1, <4>2 DEF Proceeds
    <3>4. pc \in Pcs BY <1>4
    <3> QED BY <1>2, <1>5, <2>1, <3>1, <3>3, <3>4, GotoAdvances
  <2> QED BY <1>8, <2>2, <2>3 DEF LostDisconnect, At
<1>9. CASE ForceDisconnect(t)
  <2>1. /\ Top(t).pc = "force" /\ clientState' = "DISCONNECTED_ERROR" /\ depth' = depth /\ ret' = ret
        /\ stack' = [stack EXCEPT ![t][depth[t]].pc = "drop"]
    BY <1>9 DEF ForceDisconnect, At, Goto
  <2>2. clientState \in Reading BY <1>2, <1>3, <2>1 DEF TameLost, Stands
  <2>3. "drop" \in Pcs BY <1>4
  <2>4. PICK f \in Frames : MovesTo(t, f) /\ Alike(f, Top(t)) /\ f.pc = "drop" /\ f.pending = Top(t).pending
    BY <1>1, <1>2, <2>1, <2>3, GotoMoves
  <2>5. f.fn = Top(t).fn /\ f.fn = "handle_disconnect" BY <1>2, <2>4 DEF Alike
  <2>6. TameTop(f, Caller(t), "DISCONNECTED_ERROR", ret'[t])
    BY <1>2, <2>4, <2>5 DEF TameTop, TameLost, Stands
  <2>7. TameFrame(f, Caller(t)) BY <2>5 DEF TameFrame, Requests
  <2>8. Tame(t)' BY <1>1, <1>2, <2>1, <2>4, <2>5, <2>6, <2>7, TameMove
  <2>9. Renewing(t)' = Renewing(t)
    <3>1. ~Renews(f, "DISCONNECTED_ERROR") BY <2>5 DEF Renews
    <3>2. Renewing(t)' <=> RenewedBelow(t) BY <1>1, <1>2, <2>1, <2>4, <3>1, RenewingMoved
    <3>3. Renewing(t)' \in BOOLEAN /\ Renewing(t) \in BOOLEAN BY DEF Renewing
    <3> QED BY <1>6, <3>2, <3>3
  <2>10. OpsNow(t)' = <<>>
    <3>1. OpsNow(t)' = Atop(f, Under(t))["DISCONNECTED_ERROR"] BY <1>1, <1>2, <2>1, <2>4, OpsMoved
    <3>2. Under(t) \in Layers /\ (\A x \in Free : Under(t)[x] = <<>>) BY <1>1, <1>2, OpsBefore DEF EnvTyped
    <3>3. "DISCONNECTED_ERROR" \in Free BY DEF Free
    <3> QED BY <3>1, <3>2, <3>3, FreeAtop
  <2>11. LinkOf(t)' = "lost" BY <2>1, LinksNext
  <2>12. User = t BY UserIs
  <2>13. CASE IsConnected(clientState)
    <3>1. Contract!Lose BY <1>6, <2>2, <2>9, <2>10, <2>11, <2>12, <2>13 DEF Contract!Lose
    <3> QED BY <2>8, <3>1 DEF Advances, Refines, Contract!Next
  <2>14. CASE ~IsConnected(clientState)
    <3>1. Refines BY <1>6, <2>2, <2>9, <2>10, <2>11, <2>14, Stutters
    <3> QED BY <2>8, <3>1 DEF Advances
  <2> QED BY <2>13, <2>14
<1>10. CASE ForceDrop(t) \/ DisconnectHandler(t)
  <2>1. PICK pc \in {"handler", "settle"} :
          /\ depth' = depth /\ stack' = [stack EXCEPT ![t][depth[t]].pc = pc]
    BY <1>10 DEF ForceDrop, DisconnectHandler, Goto
  <2>2. Top(t).pc \in {"drop", "handler"} /\ clientState' = clientState
    BY <1>10 DEF ForceDrop, DisconnectHandler, At, state
  <2>3. clientState \in {"DISCONNECTED_ERROR", "DISCONNECTED_MANUALLY"}
    BY <1>2, <1>3, <2>2 DEF TameLost, Stands
  <2>4. ASSUME NEW f \in Frames, Alike(f, Top(t)), f.pc = pc, f.pending = Top(t).pending
        PROVE  Proceeds(t, f, ret'[t])
    <3>1. f.fn = "handle_disconnect" BY <1>2, <2>4 DEF Alike
    <3>2. TameTop(f, Caller(t), clientState, ret'[t])
      BY <1>2, <2>3, <2>4, <3>1 DEF TameTop, TameLost, Stands
    <3> QED BY <1>7, <2>4, <3>1, <3>2 DEF Proceeds
  <2>5. pc \in Pcs BY <1>4
  <2> QED BY <1>2, <1>5, <2>1, <2>2, <2>4, <2>5, GotoAdvances
<1>11. CASE LostSettle(t)
  <2>1. Top(t).pc = "settle" /\ clientState' = "DISCONNECTED_ERROR" /\ Returns(t, "DISCONNECTED")
    BY <1>1, <1>2, <1>11, LeaveReturns DEF LostSettle, At
  <2>2. clientState \in {"DISCONNECTED_ERROR", "DISCONNECTED_MANUALLY"}
    BY <1>2, <1>3, <2>1 DEF TameLost, Stands
  <2>3. clientState \in Reading /\ ~IsConnected(clientState)
    BY <2>2 DEF Reading, IsConnected, ConnectedStates
  <2>4. Resumable("handle_disconnect", Caller(t), "DISCONNECTED_ERROR", "DISCONNECTED")
    BY DEF Resumable, Found, Rest
  <2>5. Tame(t)' BY <1>1, <1>2, <2>1, <2>4, TameReturn
  <2>6. Renewing(t)' = Renewing(t)
    <3>1. Renewing(t)' <=> RenewedBelow(t) BY <1>1, <1>2, <2>1, RenewingReturned
    <3>2. Renewing(t)' \in BOOLEAN /\ Renewing(t) \in BOOLEAN BY DEF Renewing
    <3> QED BY <1>6, <3>1, <3>2
  <2>7. OpsNow(t)' = <<>>
    <3>1. OpsNow(t)' = Under(t)["DISCONNECTED_ERROR"] BY <1>1, <1>2, <2>1, OpsReturned
    <3>2. \A x \in Free : Under(t)[x] = <<>> BY <1>1, <1>2, OpsBefore DEF EnvTyped
    <3> QED BY <3>1, <3>2 DEF Free
  <2>8. LinkOf(t)' = "lost" BY <2>1, LinksNext
  <2>9. Refines BY <1>6, <2>3, <2>6, <2>7, <2>8, Stutters
  <2> QED BY <2>5, <2>9 DEF Advances
<1> QED BY <1>8, <1>9, <1>10, <1>11 DEF LostStep

\* A client at rest runs no operation.
LEMMA YieldFree ==
  ASSUME NEW s \in Rest
  PROVE  s \in Free /\ s # "YIELD_IN_PROGRESS" /\ s \in ClientStates
BY DEF Rest, Free, ClientStates, ConnectedStates

\* handle_disconnect is called: the contract sees the connection lost once more
\* when a callback has closed the client, else nothing.
LEMMA GivesUp ==
  ASSUME NEW t \in Threads, Threads = {t}, ~HandlerReconnects, Ready(t), CtlTyped', depth[t] > 0,
         Top(t).fn = "yield", Top(t).pending = "NONE", clientState' = clientState,
         Enter(t, "handle_disconnect", "lost"),
         \/ Top(t).pc = "cycle" /\ clientState \in Reading
         \/ Top(t).pc = "keepalive" /\ clientState \in {"CONNECTED_IDLE", "YIELD_IN_PROGRESS"}
  PROVE  Advances(t)
<1>1. EnvTyped /\ CtlTyped /\ Tame(t) /\ clientState \in ClientStates BY DEF Ready, EnvTyped
<1>2. clientState \in Reading BY DEF Reading
<1>3. "handle_disconnect" \in Fns /\ "lost" \in Pcs BY DEF Fns, Pcs
<1>4. ret' = ret BY <1>1, <1>3, EnterCalls
<1>5. PICK f \in Frames : /\ CallsFrom(t, f, "handle_disconnect") /\ Alike(f, Top(t))
                          /\ f.pc = "lost" /\ f.pending = Top(t).pending
  BY <1>1, <1>3, EnterCalls
<1>6. f.fn = "yield" /\ f.fn = Top(t).fn BY <1>5 DEF Alike
<1> DEFINE g == NewFrame("handle_disconnect")
<1>7. g \in Frames /\ g.fn = "handle_disconnect" /\ g.pc = "read" /\ g.pending = "NONE"
  BY <1>3, NewFrameTyped DEF NewFrame
<1> HIDE DEF g
<1>8. Tame(t)'
  <2>1. TameFrame(f, Caller(t)) BY <1>6 DEF TameFrame, Requests
  <2>2. Awaits(f, "handle_disconnect") BY <1>5, <1>6 DEF Awaits
  <2>3. TameTop(g, f, clientState', ret'[t]) BY <1>2, <1>7 DEF TameTop, TameLost, Stands
  <2> QED BY <1>1, <1>5, <1>6, <2>1, <2>2, <2>3, TameCall DEF g
<1>9. /\ Under(t) \in Layers /\ \A x \in Free : Under(t)[x] = <<>>
      /\ OpsNow(t) = Atop(Top(t), Under(t))[clientState]
  BY <1>1, OpsBefore
<1>10. OpsNow(t)' = Atop(g, Atop(f, Under(t)))[clientState] BY <1>1, <1>5, OpsCalled DEF g
<1>11. Atop(f, Under(t)) \in Layers /\ \A x \in Free : Atop(f, Under(t))[x] = <<>>
  BY <1>9, AtopTyped, FreeAtop
<1>12. Top(t) \in Frames BY <1>1, TopTyped
<1>13. OpsNow(t)' = OpsNow(t)
  <2>1. CASE clientState \in Free
    BY <1>7, <1>9, <1>10, <1>11, <1>12, <2>1, FreeAtop
  <2>2. CASE clientState = "YIELD_IN_PROGRESS"
    <3>1. /\ FoundBy(g) = "CONNECTED_IDLE" /\ OperationOf(g) = <<"yield">> /\ g.fn \in OperationFns
          /\ Claims(g) = {"YIELD_IN_PROGRESS"}
      BY <1>7, LostSpan DEF FoundBy, OperationOf, OperationFns
    <3>2. /\ FoundBy(Top(t)) = "CONNECTED_IDLE" /\ OperationOf(Top(t)) = <<"yield">> /\ Top(t).fn \in OperationFns
          /\ Claims(Top(t)) = {"YIELD_IN_PROGRESS"}
      BY YieldSpan DEF FoundBy, OperationOf, OperationFns
    <3>3. OpsNow(t)' = Atop(f, Under(t))["CONNECTED_IDLE"] \o <<"yield">>
      BY <1>1, <1>7, <1>10, <1>11, <2>2, <3>1, AtopTyped
    <3>4. OpsNow(t) = Under(t)["CONNECTED_IDLE"] \o <<"yield">>
      BY <1>1, <1>9, <1>12, <2>2, <3>2, AtopTyped
    <3>5. "CONNECTED_IDLE" \in Free BY DEF Free
    <3> QED BY <1>9, <1>11, <3>3, <3>4, <3>5
  <2>3. clientState \in Free \cup {"YIELD_IN_PROGRESS"} BY <1>2 DEF Reading, Free
  <2> QED BY <2>1, <2>2, <2>3
<1>14. Renewing(t)' <=> RenewedBelow(t)
  <2>1. ~Renews(f, clientState') BY <1>5 DEF Renews
  <2> QED BY <1>1, <1>5, <2>1, RenewingCalled
<1>15. Renewing(t) <=> RenewedBelow(t) \/ Renews(Top(t), clientState) BY <1>1, RenewingNow
<1>16. LosingIt(t)' BY <1>1, <1>5, <1>6, LosingCalled
<1>17. CASE clientState = "DISCONNECTED_MANUALLY"
  <2>1. Renewing(t) BY <1>15, <1>17 DEF Renews
  <2>2. LinkOf(t)' = "lost" /\ LinkOf(t) \in {"lost", "closed"} BY <1>16, <1>17, Links, LinksNext
  <2>3. Refines BY <1>13, <2>1, <2>2, RenewalEnds
  <2> QED BY <1>8, <2>3 DEF Advances
<1>18. CASE clientState # "DISCONNECTED_MANUALLY"
  <2>1. LinkOf(t)' = LinkOf(t) BY <1>18, LinkSame
  <2>2. CASE Renewing(t) BY <1>8, <1>13, <2>1, <2>2, RenewalEnds DEF Advances
  <2>3. CASE ~Renewing(t)
    <3>1. ~Renewing(t)' BY <1>14, <1>15, <2>3
    <3>2. Renewing(t)' = Renewing(t) BY <2>3, <3>1 DEF Renewing
    <3> QED BY <1>8, <1>13, <2>1, <3>2, Stutters DEF Advances
  <2> QED BY <2>2, <2>3
<1> QED BY <1>17, <1>18

\* A yield begins to renew a lost connection.
LEMMA RenewalBegins ==
  ASSUME NEW t \in Threads, Threads = {t}, ~HandlerReconnects, Ready(t), CtlTyped', HandleReconnect(t)
  PROVE  Advances(t)
<1>1. EnvTyped /\ CtlTyped /\ Tame(t) /\ clientState \in ClientStates BY DEF Ready, EnvTyped
<1>2. /\ depth[t] > 0 /\ Top(t).fn = "yield" /\ Top(t).pending = "NONE"
      /\ clientState = "PENDING_RECONNECT" /\ clientState' = clientState
      /\ Enter(t, "attempt_reconnect", "reconn")
  BY DEF HandleReconnect, At, state
<1>3. "attempt_reconnect" \in Fns /\ "reconn" \in Pcs /\ "attempt_reconnect" \in ApiFns \ {"set_autoreconnect"}
  BY DEF Fns, ApiFns, Pcs
<1>4. ret' = ret BY <1>1, <1>2, <1>3, EnterCalls
<1>5. PICK f \in Frames : /\ CallsFrom(t, f, "attempt_reconnect") /\ Alike(f, Top(t))
                          /\ f.pc = "reconn" /\ f.pending = Top(t).pending
  BY <1>1, <1>2, <1>3, EnterCalls
<1>6. f.fn = "yield" /\ f.fn = Top(t).fn BY <1>2, <1>5 DEF Alike
<1>7. Tame(t)'
  <2>1. TameFrame(f, Caller(t)) BY <1>6 DEF TameFrame, Requests
  <2>2. Awaits(f, "attempt_reconnect") BY <1>2, <1>5, <1>6 DEF Awaits
  <2>3. clientState \in Found(f) BY <1>2 DEF Found, Rest
  <2>4. TameTop(NewFrame("attempt_reconnect"), f, clientState', ret'[t]) BY <1>2, <1>3, <1>6, <2>3, NewTame
  <2> QED BY <1>1, <1>2, <1>5, <1>6, <2>1, <2>2, <2>4, TameCall
<1>8. /\ Under(t) \in Layers /\ \A x \in Free : Under(t)[x] = <<>>
      /\ OpsNow(t) = Atop(Top(t), Under(t))[clientState]
  BY <1>1, <1>2, OpsBefore
<1>9. OpsNow(t)' = Atop(NewFrame("attempt_reconnect"), Atop(f, Under(t)))[clientState]
  BY <1>1, <1>2, <1>5, OpsCalled
<1>10. OpsNow(t)' = <<>> /\ OpsNow(t) = <<>>
  <2>1. Atop(f, Under(t)) \in Layers /\ \A x \in Free : Atop(f, Under(t))[x] = <<>>
    BY <1>8, AtopTyped, FreeAtop
  <2>2. NewFrame("attempt_reconnect") \in Frames /\ Top(t) \in Frames BY <1>1, <1>2, <1>3, NewFrameTyped, TopTyped
  <2>3. clientState \in Free BY <1>2 DEF Free
  <2> QED BY <1>8, <1>9, <2>1, <2>2, <2>3, FreeAtop
<1>11. Renewing(t)' = TRUE
  <2>1. Renews(f, clientState') BY <1>5, <1>6 DEF Renews
  <2>2. Renewing(t)' BY <1>1, <1>2, <1>5, <2>1, RenewingCalled
  <2> QED BY <2>2 DEF Renewing
<1>12. LinkOf(t) = "waiting" /\ LinkOf(t)' = "waiting" BY <1>2, Links, LinksNext
<1>13. User = t BY UserIs
<1>14. Contract!Renew BY <1>10, <1>11, <1>12, <1>13 DEF Contract!Renew
<1> QED BY <1>7, <1>14 DEF Advances, Refines, Contract!Next

\* The steps of yield.
LEMMA YieldAdvances ==
  ASSUME NEW t \in Threads, Threads = {t}, ~HandlerReconnects, Ready(t), CtlTyped', YieldStep(t)
  PROVE  Advances(t)
<1>1. EnvTyped /\ CtlTyped /\ Linked(t) /\ Tame(t) BY DEF Ready
<1>2. depth[t] > 0 /\ Top(t).fn = "yield" /\ Top(t).pending = "NONE"
  BY DEF YieldStep, YieldRead, YieldClaim, YieldLoop, HandleReconnect, YieldCycle, YieldDelivered,
         KeepAlive, YieldLost, YieldPending, YieldReconnected, YieldUnclaimed, YieldNotReconnected,
         YieldAgain, YieldTimerExpired, YieldFinish, At
<1>3. TameYield(Top(t), Caller(t), clientState, ret[t]) BY <1>1, <1>2, TopKnown
<1>4. {"claim", "loop", "failed", "cycle", "finish", "until", "keepalive", "pending", "unclaimed", "done"} \subseteq Pcs
  BY DEF Pcs
<1>5. "yield" \notin Savers BY DEF Savers, Requests
<1>6. {"YIELD_IN_PROGRESS", "CONNECTED_IDLE", "PENDING_RECONNECT"} \subseteq ClientStates
  BY DEF ClientStates, ConnectedStates
<1>7. ret \in [Threads -> Rcs] BY <1>1 DEF CtlTyped
\* For a yield the invariant and the contract come down to this.
<1>8. ASSUME NEW f, f.fn = "yield", NEW rc, TameYield(f, Caller(t), clientState, rc),
             \/ clientState # "YIELD_IN_PROGRESS"
             \/ "YIELD_IN_PROGRESS" \in Claims(f) /\ "YIELD_IN_PROGRESS" \in Claims(Top(t)),
             Renews(f, clientState) => Renews(Top(t), clientState)
      PROVE  Proceeds(t, f, rc)
  <2>1. Claims(f) \subseteq {"YIELD_IN_PROGRESS"} /\ Claims(Top(t)) \subseteq {"YIELD_IN_PROGRESS"}
    BY <1>2, <1>8, YieldSpan
  <2>2. OpsKept(Top(t), f, clientState) BY <1>2, <1>8, <2>1, SpanKept
  <2>3. TameTop(f, Caller(t), clientState, rc) BY <1>8 DEF TameTop
  <2> QED BY <1>8, <2>2, <2>3 DEF Proceeds
\* The frame moves; nothing else changes.
<1>9. ASSUME NEW pc \in Pcs, depth' = depth, stack' = [stack EXCEPT ![t][depth[t]].pc = pc],
             clientState' = clientState,
             \A f : f.fn = "yield" /\ f.pc = pc /\ f.pending = "NONE"
                    => /\ TameYield(f, Caller(t), clientState, ret'[t])
                       /\ \/ clientState # "YIELD_IN_PROGRESS"
                          \/ "YIELD_IN_PROGRESS" \in Claims(f) /\ "YIELD_IN_PROGRESS" \in Claims(Top(t))
                       /\ Renews(f, clientState) => Renews(Top(t), clientState)
      PROVE  Advances(t)
  <2>1. ASSUME NEW f \in Frames, Alike(f, Top(t)), f.pc = pc, f.pending = Top(t).pending
        PROVE  Proceeds(t, f, ret'[t])
    <3>1. f.fn = "yield" /\ f.pending = "NONE" BY <1>2, <2>1 DEF Alike
    <3> QED BY <1>8, <1>9, <2>1, <3>1
  <2> QED BY <1>2, <1>5, <1>9, <2>1, GotoAdvances
<1>10. ASSUME NEW rc, Leave(t, rc), clientState' = clientState, clientState \in Found(Caller(t)),
              clientState \notin Claims(Top(t))
       PROVE  Advances(t)
  <2>1. Resumable("yield", Caller(t), clientState, rc) BY <1>10 DEF Resumable
  <2> QED BY <1>2, <1>10, <2>1, LeaveAdvances
<1>11. Rest \subseteq Found(Caller(t)) BY DEF Found
<1>12. CASE YieldRead(t)
  <2>1. Top(t).pc = "read" /\ clientState' = clientState BY <1>12 DEF YieldRead, At, state
  <2>2. clientState \in Found(Caller(t)) BY <1>2, <1>3, <2>1 DEF TameYield, Stands, Stores
  <2>3. CASE \E rc : Leave(t, rc)
    <3>1. clientState \notin Claims(Top(t)) BY <1>2, <2>1, YieldSpan
    <3> QED BY <1>10, <2>1, <2>2, <2>3, <3>1
  <2>4. CASE clientState = "PENDING_RECONNECT" /\ Goto(t, "loop")
    <3>1. "loop" \in Pcs /\ depth' = depth /\ stack' = [stack EXCEPT ![t][depth[t]].pc = "loop"]
      BY <1>4, <2>4 DEF Goto
    <3>2. ASSUME NEW f, f.fn = "yield", f.pc = "loop", f.pending = "NONE"
          PROVE  TameYield(f, Caller(t), clientState, ret'[t]) /\ ~Renews(f, clientState)
      BY <2>4, <3>2 DEF TameYield, Stands, Rest, Renews
    <3> QED BY <1>9, <2>1, <2>4, <3>1, <3>2
  <2>5. CASE clientState = "CONNECTED_IDLE" /\ Goto(t, "claim")
    <3>1. "claim" \in Pcs /\ depth' = depth /\ stack' = [stack EXCEPT ![t][depth[t]].pc = "claim"]
      BY <1>4, <2>5 DEF Goto
    <3>2. ASSUME NEW f, f.fn = "yield", f.pc = "claim", f.pending = "NONE"
          PROVE  TameYield(f, Caller(t), clientState, ret'[t]) /\ ~Renews(f, clientState)
      BY <2>5, <3>2 DEF TameYield, Stands, Renews
    <3> QED BY <1>9, <2>1, <2>5, <3>1, <3>2
  <2> QED BY <1>12, <2>3, <2>4, <2>5 DEF YieldRead
<1>13. CASE YieldClaim(t) \/ YieldReconnected(t)
  <2>1. PICK ok \in {"loop", "until"}, otherwise \in {"failed", "unclaimed"} :
          /\ SetClientState(t, "CONNECTED_IDLE", "YIELD_IN_PROGRESS", ok, otherwise)
          /\ ok = "until" => ret'[t] = "RECONNECTED"
    BY <1>13 DEF YieldClaim, YieldReconnected
  <2>2. Top(t).pc = "claim" \/ (Top(t).pc = "reconn" /\ ret[t] = "RECONNECTED")
    BY <1>13 DEF YieldClaim, YieldReconnected, At
  <2>3. clientState = "CONNECTED_IDLE" BY <1>2, <1>3, <2>2 DEF TameYield, Stands, Stores
  <2>4. ASSUME NEW f \in Frames, Alike(f, Top(t)), f.pc = ok, f.pending = "YIELD_IN_PROGRESS"
        PROVE  Proceeds(t, f, ret'[t])
    <3>1. f.fn = "yield" BY <1>2, <2>4 DEF Alike
    <3>2. TameYield(f, Caller(t), clientState, ret'[t]) BY <2>1, <2>3, <2>4 DEF TameYield, Stores
    <3>3. ~Renews(f, clientState) BY <2>3, <2>4 DEF Renews
    <3> QED BY <1>8, <2>3, <3>1, <3>2, <3>3
  <2>5. \A f \in Frames :
          Alike(f, Top(t)) /\ (\/ clientState = "CONNECTED_IDLE" /\ f.pc = ok /\ f.pending = "YIELD_IN_PROGRESS"
                               \/ clientState # "CONNECTED_IDLE" /\ f.pc = otherwise /\ f.pending = "NONE")
          => Proceeds(t, f, ret'[t])
    BY <2>3, <2>4
  <2>6. ok \in Pcs /\ otherwise \in Pcs BY <1>4
  <2> QED BY <1>2, <1>5, <1>6, <2>1, <2>5, <2>6, CasAdvances
<1>14. CASE YieldLoop(t)
  <2>1. Top(t).pc = "loop" /\ clientState' = clientState BY <1>14 DEF YieldLoop, At, state
  <2>2. clientState \in Rest \cup {"YIELD_IN_PROGRESS"} BY <1>2, <1>3, <2>1 DEF TameYield, Stands, Stores
  <2>3. "YIELD_IN_PROGRESS" \in Claims(Top(t)) BY <1>2, <2>1, YieldSpan
  <2>4. CASE clientState # "PENDING_RECONNECT" /\ Goto(t, "cycle")
    <3>1. "cycle" \in Pcs /\ depth' = depth /\ stack' = [stack EXCEPT ![t][depth[t]].pc = "cycle"]
      BY <1>4, <2>4 DEF Goto
    <3>2. clientState \in Reading BY <2>2, <2>4 DEF Reading, Rest
    <3>3. ASSUME NEW f, f.fn = "yield", f.pc = "cycle", f.pending = "NONE"
          PROVE  /\ TameYield(f, Caller(t), clientState, ret'[t])
                 /\ "YIELD_IN_PROGRESS" \in Claims(f)
                 /\ Renews(f, clientState) => Renews(Top(t), clientState)
      <4>1. TameYield(f, Caller(t), clientState, ret'[t]) BY <3>2, <3>3 DEF TameYield, Stands
      <4>2. "YIELD_IN_PROGRESS" \in Claims(f) BY <3>3, YieldSpan
      <4>3. Renews(f, clientState) => Renews(Top(t), clientState) BY <1>2, <2>1, <3>3 DEF Renews
      <4> QED BY <4>1, <4>2, <4>3
    <3> QED BY <1>9, <2>1, <2>3, <3>1, <3>3
  <2>5. CASE clientState = "PENDING_RECONNECT" /\ GotoRc(t, "finish", "TIMED_OUT")
    <3>1. "finish" \in Pcs /\ depth' = depth /\ stack' = [stack EXCEPT ![t][depth[t]].pc = "finish"]
      BY <1>4, <2>5 DEF GotoRc
    <3>2. ASSUME NEW f, f.fn = "yield", f.pc = "finish", f.pending = "NONE"
          PROVE  TameYield(f, Caller(t), clientState, ret'[t]) /\ ~Renews(f, clientState)
      BY <2>5, <3>2 DEF TameYield, Stands, Rest, Renews
    <3> QED BY <1>9, <2>1, <2>5, <3>1, <3>2
  <2>6. CASE clientState = "PENDING_RECONNECT" /\ GotoRc(t, "until", "ATTEMPTING")
    <3>1. "until" \in Pcs /\ depth' = depth /\ stack' = [stack EXCEPT ![t][depth[t]].pc = "until"]
      BY <1>4, <2>6 DEF GotoRc
    <3>2. ASSUME NEW f, f.fn = "yield", f.pc = "until", f.pending = "NONE"
          PROVE  TameYield(f, Caller(t), clientState, ret'[t]) /\ ~Renews(f, clientState)
      BY <2>6, <3>2 DEF TameYield, Stands, Rest, Renews
    <3> QED BY <1>9, <2>1, <2>6, <3>1, <3>2
  <2> QED BY <1>14, <2>4, <2>5, <2>6 DEF YieldLoop
<1>15. CASE HandleReconnect(t) BY <1>15, RenewalBegins
<1>16. CASE YieldCycle(t)
  <2>1. Top(t).pc = "cycle" /\ clientState' = clientState BY <1>16 DEF YieldCycle, At, state
  <2>2. clientState \in Reading BY <1>2, <1>3, <2>1 DEF TameYield, Stands, Stores
  <2>3. "YIELD_IN_PROGRESS" \in Claims(Top(t)) BY <1>2, <2>1, YieldSpan
  <2>4. CASE Enter(t, "handle_disconnect", "lost") BY <1>2, <2>1, <2>2, <2>4, GivesUp
  <2>5. CASE tlsUp /\ \E pc \in {"keepalive", "finish"} :
                        depth' = depth /\ stack' = [stack EXCEPT ![t][depth[t]].pc = pc]
    <3>1. PICK pc \in {"keepalive", "finish"} :
            depth' = depth /\ stack' = [stack EXCEPT ![t][depth[t]].pc = pc]
      BY <2>5
    <3>2. clientState \in Rest => clientState = "CONNECTED_IDLE" BY <1>1, <1>2, <2>5, UpIdle
    <3>3. clientState \in {"CONNECTED_IDLE", "YIELD_IN_PROGRESS"} BY <2>2, <3>2 DEF Reading, Rest
    <3>4. ASSUME NEW f, f.fn = "yield", f.pc = pc, f.pending = "NONE"
          PROVE  /\ TameYield(f, Caller(t), clientState, ret'[t])
                 /\ "YIELD_IN_PROGRESS" \in Claims(f) /\ ~Renews(f, clientState)
      <4>1. TameYield(f, Caller(t), clientState, ret'[t]) BY <3>3, <3>4 DEF TameYield, Stands, Rest
      <4>2. "YIELD_IN_PROGRESS" \in Claims(f) BY <3>4, YieldSpan
      <4>3. ~Renews(f, clientState) BY <3>4 DEF Renews
      <4> QED BY <4>1, <4>2, <4>3
    <3>5. pc \in Pcs BY <1>4
    <3> QED BY <1>9, <2>1, <2>3, <3>1, <3>4, <3>5
  <2> QED BY <1>16, <2>4, <2>5 DEF YieldCycle, Goto, GotoRc
<1>17. CASE YieldDelivered(t)
  <2>1. Top(t).pc = "delivered" /\ clientState' = clientState BY <1>17 DEF YieldDelivered, At, state
  <2>2. clientState \in IF ret[t] = "SUCCESS" THEN {"CONNECTED_IDLE", "YIELD_IN_PROGRESS"}
                                              ELSE Rest \cup {"YIELD_IN_PROGRESS"}
    BY <1>2, <1>3, <2>1 DEF TameYield, Stands, Stores
  <2>3. "YIELD_IN_PROGRESS" \in Claims(Top(t)) BY <1>2, <2>1, YieldSpan
  <2>4. PICK pc \in {"keepalive", "finish"} :
          /\ depth' = depth /\ stack' = [stack EXCEPT ![t][depth[t]].pc = pc]
          /\ pc = "keepalive" => ret[t] = "SUCCESS"
    BY <1>17 DEF YieldDelivered, Goto
  <2>5. ASSUME NEW f, f.fn = "yield", f.pc = pc, f.pending = "NONE"
        PROVE  /\ TameYield(f, Caller(t), clientState, ret'[t])
               /\ "YIELD_IN_PROGRESS" \in Claims(f) /\ ~Renews(f, clientState)
    <3>1. TameYield(f, Caller(t), clientState, ret'[t]) BY <2>2, <2>4, <2>5 DEF TameYield, Stands, Rest
    <3>2. "YIELD_IN_PROGRESS" \in Claims(f) BY <2>5, YieldSpan
    <3>3. ~Renews(f, clientState) BY <2>5 DEF Renews
    <3> QED BY <3>1, <3>2, <3>3
  <2>6. pc \in Pcs BY <1>4
  <2> QED BY <1>9, <2>1, <2>3, <2>4, <2>5, <2>6
<1>18. CASE KeepAlive(t)
  <2>1. Top(t).pc = "keepalive" /\ clientState' = clientState BY <1>18 DEF KeepAlive, At, state
  <2>2. clientState \in {"CONNECTED_IDLE", "YIELD_IN_PROGRESS"}
    BY <1>2, <1>3, <2>1 DEF TameYield, Stands, Stores
  <2>3. "YIELD_IN_PROGRESS" \in Claims(Top(t)) BY <1>2, <2>1, YieldSpan
  <2>4. CASE Enter(t, "handle_disconnect", "lost") BY <1>2, <2>1, <2>2, <2>4, GivesUp
  <2>5. CASE GotoRc(t, "until", "SUCCESS")
    <3>1. /\ "until" \in Pcs /\ depth' = depth /\ stack' = [stack EXCEPT ![t][depth[t]].pc = "until"]
          /\ ret'[t] = "SUCCESS"
      BY <1>4, <1>7, <2>5 DEF GotoRc
    <3>2. ASSUME NEW f, f.fn = "yield", f.pc = "until", f.pending = "NONE"
          PROVE  /\ TameYield(f, Caller(t), clientState, ret'[t])
                 /\ "YIELD_IN_PROGRESS" \in Claims(f) /\ ~Renews(f, clientState)
      <4>1. TameYield(f, Caller(t), clientState, ret'[t]) BY <2>2, <3>1, <3>2 DEF TameYield, Stands, Rest
      <4>2. "YIELD_IN_PROGRESS" \in Claims(f) BY <3>2, YieldSpan
      <4>3. ~Renews(f, clientState) BY <2>2, <3>2 DEF Renews
      <4> QED BY <4>1, <4>2, <4>3
    <3> QED BY <1>9, <2>1, <2>3, <3>1, <3>2
  <2> QED BY <1>18, <2>4, <2>5 DEF KeepAlive
<1>19. CASE YieldLost(t)
  <2>1. Top(t).pc = "lost" BY <1>19 DEF YieldLost, At
  <2>2. clientState = "DISCONNECTED_ERROR" BY <1>2, <1>3, <2>1 DEF TameYield, Stands, Stores
  <2>3. CASE SetClientState(t, "DISCONNECTED_ERROR", "PENDING_RECONNECT", "pending", "finish")
    <3>1. ASSUME NEW f \in Frames, Alike(f, Top(t)), f.pc = "pending", f.pending = "PENDING_RECONNECT"
          PROVE  Proceeds(t, f, ret'[t])
      <4>1. f.fn = "yield" BY <1>2, <3>1 DEF Alike
      <4>2. TameYield(f, Caller(t), clientState, ret'[t]) BY <2>2, <3>1 DEF TameYield, Stores
      <4>3. ~Renews(f, clientState) BY <3>1 DEF Renews
      <4> QED BY <1>8, <2>2, <4>1, <4>2, <4>3
    <3>2. \A f \in Frames :
            Alike(f, Top(t)) /\ (\/ /\ clientState = "DISCONNECTED_ERROR"
                                    /\ f.pc = "pending" /\ f.pending = "PENDING_RECONNECT"
                                 \/ clientState # "DISCONNECTED_ERROR" /\ f.pc = "finish" /\ f.pending = "NONE")
            => Proceeds(t, f, ret'[t])
      BY <2>2, <3>1
    <3>3. "pending" \in Pcs /\ "finish" \in Pcs BY <1>4
    <3> QED BY <1>2, <1>5, <1>6, <2>3, <3>2, <3>3, CasAdvances
  <2>4. CASE Leave(t, "DISCONNECTED") /\ clientState' = clientState
    <3>1. clientState \in Found(Caller(t)) BY <1>11, <2>2 DEF Rest
    <3>2. clientState \notin Claims(Top(t)) BY <1>2, <2>1, YieldSpan
    <3> QED BY <1>10, <2>4, <3>1, <3>2
  <2> QED BY <1>19, <2>3, <2>4 DEF YieldLost, state
<1>20. CASE YieldPending(t)
  <2>1. Top(t).pc = "pending" /\ clientState' = clientState BY <1>20 DEF YieldPending, At, state
  <2>2. clientState = "PENDING_RECONNECT" BY <1>2, <1>3, <2>1 DEF TameYield, Stands, Stores
  <2>3. "until" \in Pcs /\ depth' = depth /\ stack' = [stack EXCEPT ![t][depth[t]].pc = "until"]
    BY <1>4, <1>20 DEF YieldPending, GotoRc
  <2>4. ASSUME NEW f, f.fn = "yield", f.pc = "until", f.pending = "NONE"
        PROVE  TameYield(f, Caller(t), clientState, ret'[t]) /\ ~Renews(f, clientState)
    BY <2>2, <2>4 DEF TameYield, Stands, Rest, Renews
  <2> QED BY <1>9, <2>1, <2>2, <2>3, <2>4
<1>21. CASE YieldUnclaimed(t)
  BY <1>2, <1>3, <1>21 DEF YieldUnclaimed, At, TameYield, Stands, Stores
<1>22. CASE YieldNotReconnected(t)
  <2>1. Top(t).pc = "reconn" /\ ret[t] # "RECONNECTED" /\ clientState' = clientState
    BY <1>22 DEF YieldNotReconnected, At, state
  <2>2. clientState \in Rest BY <1>2, <1>3, <2>1 DEF TameYield, Stands, Stores
  <2>3. "until" \in Pcs /\ depth' = depth /\ stack' = [stack EXCEPT ![t][depth[t]].pc = "until"]
    BY <1>4, <1>22 DEF YieldNotReconnected, GotoRc
  <2>4. Renews(Top(t), clientState) BY <1>2, <2>1 DEF Renews
  <2>5. ASSUME NEW f, f.fn = "yield", f.pc = "until", f.pending = "NONE"
        PROVE  TameYield(f, Caller(t), clientState, ret'[t])
    BY <2>2, <2>5 DEF TameYield, Stands
  <2>6. clientState # "YIELD_IN_PROGRESS" BY <2>2, YieldFree
  <2> QED BY <1>9, <2>1, <2>3, <2>4, <2>5, <2>6
<1>23. CASE YieldAgain(t)
  <2>1. Top(t).pc = "until" /\ clientState' = clientState BY <1>23 DEF YieldAgain, At, state
  <2>2. clientState \in Rest \cup {"YIELD_IN_PROGRESS"} BY <1>2, <1>3, <2>1 DEF TameYield, Stands, Stores
  <2>3. "loop" \in Pcs /\ depth' = depth /\ stack' = [stack EXCEPT ![t][depth[t]].pc = "loop"]
    BY <1>4, <1>23 DEF YieldAgain, Goto
  <2>4. "YIELD_IN_PROGRESS" \in Claims(Top(t)) BY <1>2, <2>1, YieldSpan
  <2>5. ASSUME NEW f, f.fn = "yield", f.pc = "loop", f.pending = "NONE"
        PROVE  /\ TameYield(f, Caller(t), clientState, ret'[t])
               /\ "YIELD_IN_PROGRESS" \in Claims(f)
               /\ Renews(f, clientState) => Renews(Top(t), clientState)
    <3>1. TameYield(f, Caller(t), clientState, ret'[t]) BY <2>2, <2>5 DEF TameYield, Stands
    <3>2. "YIELD_IN_PROGRESS" \in Claims(f) BY <2>5, YieldSpan
    <3>3. Renews(f, clientState) => Renews(Top(t), clientState) BY <1>2, <2>1, <2>5 DEF Renews
    <3> QED BY <3>1, <3>2, <3>3
  <2> QED BY <1>9, <2>1, <2>3, <2>4, <2>5
<1>24. CASE YieldTimerExpired(t)
  <2>1. Top(t).pc = "until" /\ clientState' = clientState BY <1>24 DEF YieldTimerExpired, At, state
  <2>2. clientState \in IF ret[t] \in {"DISCONNECTED", "ATTEMPTING"} THEN Rest
                                                     ELSE Rest \cup {"YIELD_IN_PROGRESS"}
    BY <1>2, <1>3, <2>1 DEF TameYield, Stands, Stores
  <2>3. CASE ret[t] \in {"DISCONNECTED", "ATTEMPTING"} /\ Leave(t, ret[t])
    <3>1. clientState \in Rest BY <2>2, <2>3
    <3>2. clientState \notin Claims(Top(t)) BY <1>2, <3>1, YieldFree, YieldSpan
    <3> QED BY <1>10, <1>11, <2>1, <2>3, <3>1, <3>2
  <2>4. CASE Goto(t, "finish")
    <3>1. "finish" \in Pcs /\ depth' = depth /\ stack' = [stack EXCEPT ![t][depth[t]].pc = "finish"]
      BY <1>4, <2>4 DEF Goto
    <3>2. "YIELD_IN_PROGRESS" \in Claims(Top(t)) BY <1>2, <2>1, YieldSpan
    <3>3. ASSUME NEW f, f.fn = "yield", f.pc = "finish", f.pending = "NONE"
          PROVE  /\ TameYield(f, Caller(t), clientState, ret'[t])
                 /\ "YIELD_IN_PROGRESS" \in Claims(f) /\ ~Renews(f, clientState)
      <4>1. TameYield(f, Caller(t), clientState, ret'[t]) BY <2>2, <3>3 DEF TameYield, Stands
      <4>2. "YIELD_IN_PROGRESS" \in Claims(f) BY <3>3, YieldSpan
      <4>3. ~Renews(f, clientState) BY <3>3 DEF Renews
      <4> QED BY <4>1, <4>2, <4>3
    <3> QED BY <1>9, <2>1, <3>1, <3>2, <3>3
  <2> QED BY <1>24, <2>3, <2>4 DEF YieldTimerExpired
<1>25. CASE YieldFinish(t)
  <2>1. Top(t).pc = "finish" /\ SetClientState(t, "YIELD_IN_PROGRESS", "CONNECTED_IDLE", "done", Failing(t))
    BY <1>25 DEF YieldFinish, At
  <2>2. clientState \in Rest \cup {"YIELD_IN_PROGRESS"} BY <1>2, <1>3, <2>1 DEF TameYield, Stands, Stores
  <2>3. Failing(t) \in {"done", "failed"} BY DEF Failing
  <2>4. ASSUME NEW f \in Frames, Alike(f, Top(t)), clientState = "YIELD_IN_PROGRESS", f.pc = "done",
               f.pending = "CONNECTED_IDLE"
        PROVE  Proceeds(t, f, ret'[t])
    <3>1. f.fn = "yield" BY <1>2, <2>4 DEF Alike
    <3>2. TameYield(f, Caller(t), clientState, ret'[t]) BY <2>4 DEF TameYield, Stores
    <3>3. "YIELD_IN_PROGRESS" \in Claims(f) /\ "YIELD_IN_PROGRESS" \in Claims(Top(t))
      BY <1>2, <2>1, <2>4, <3>1, YieldSpan
    <3>4. ~Renews(f, clientState) BY <2>4 DEF Renews
    <3> QED BY <1>8, <3>1, <3>2, <3>3, <3>4
  <2>5. ASSUME NEW f \in Frames, Alike(f, Top(t)), clientState # "YIELD_IN_PROGRESS", f.pc = Failing(t),
               f.pending = "NONE"
        PROVE  Proceeds(t, f, ret'[t])
    <3>1. f.fn = "yield" BY <1>2, <2>5 DEF Alike
    <3>2. TameYield(f, Caller(t), clientState, ret'[t]) BY <2>2, <2>3, <2>5 DEF TameYield, Stands
    <3>3. ~Renews(f, clientState) BY <2>3, <2>5 DEF Renews
    <3> QED BY <1>8, <2>5, <3>1, <3>2, <3>3
  <2>6. "done" \in Pcs /\ Failing(t) \in Pcs BY <1>4, <2>3
  <2> QED BY <1>2, <1>5, <1>6, <2>1, <2>4, <2>5, <2>6, CasAdvances
<1> QED BY <1>12, <1>13, <1>14, <1>15, <1>16, <1>17, <1>18, <1>19, <1>20, <1>21, <1>22, <1>23,
           <1>24, <1>25 DEF YieldStep

-----------------------------------------------------------------------------
(* The stores of the state word: what the contract sees.                   *)

\* The end of a sequence of operations.
LEMMA EndOf ==
  ASSUME NEW q \in Seq(Operations), NEW x \in Operations
  PROVE  /\ q \o <<x>> = Append(q, x) /\ q \o <<x>> # <<>>
         /\ Contract!Front(q \o <<x>>) = q /\ Contract!Last(q \o <<x>>) = x
<1> DEFINE a == Append(q, x)
<1>1. a = q \o <<x>> BY AppendIsConcat
<1>2. /\ a \in Seq(Operations) /\ a # <<>> /\ Len(a) = Len(q) + 1
      /\ (\A i \in 1..Len(q) : a[i] = q[i]) /\ a[Len(q) + 1] = x
  BY AppendProperties
<1> HIDE DEF a
<1>3. Contract!Last(a) = x BY <1>2 DEF Contract!Last
<1>4. Contract!Front(a) = q
  <2>1. Contract!Front(a) = SubSeq(a, 1, Len(q)) BY <1>2 DEF Contract!Front
  <2>2. Len(SubSeq(a, 1, Len(q))) = Len(q) BY <1>2
  <2> QED BY <1>2, <2>1, <2>2
<1> QED BY <1>1, <1>2, <1>3, <1>4 DEF a

\* The operation of the call at the top begins.
LEMMA OpsBegin ==
  ASSUME NEW t \in Threads, Ready(t), CtlTyped', depth[t] > 0, NEW f \in Frames, MovesTo(t, f),
         f.fn \in OperationFns, clientState \notin Claims(Top(t)),
         clientState' \in Claims(f), clientState' \in ClientStates, clientState' # "CONNECTED_IDLE",
         FoundBy(f) = clientState
  PROVE  OpsNow(t)' = OpsNow(t) \o OperationOf(f) /\ OpsNow(t) \in Seq(Operations)
         /\ OpsNow(t) = Under(t)[clientState]
<1>1. CtlTyped /\ clientState \in ClientStates BY DEF Ready, EnvTyped
<1>2. /\ Under(t) \in Layers /\ \A s \in Free : Under(t)[s] = <<>>
      /\ OpsNow(t) = Atop(Top(t), Under(t))[clientState] /\ Top(t) \in Frames
  BY <1>1, OpsBefore, TopTyped
<1>3. OpsNow(t)' = Atop(f, Under(t))[clientState'] BY <1>1, OpsMoved
<1>4. OpsNow(t)' = Under(t)[clientState] \o OperationOf(f) BY <1>2, <1>3, AtopTyped
<1>5. "CONNECTED_IDLE" \in Free BY DEF Free
<1>6. OpsNow(t) = Under(t)[clientState] BY <1>1, <1>2, <1>5, AtopTyped
<1>7. Under(t)[clientState] \in Seq(Operations) BY <1>1, <1>2 DEF Layers
<1> QED BY <1>4, <1>6, <1>7

\* The operation of the call at the top ends.
LEMMA OpsEnd ==
  ASSUME NEW t \in Threads, Ready(t), CtlTyped', depth[t] > 0, NEW f \in Frames, MovesTo(t, f),
         Top(t).fn \in OperationFns, clientState \in Claims(Top(t)), clientState # "CONNECTED_IDLE",
         FoundBy(Top(t)) = clientState', clientState' \in ClientStates, clientState' \notin Claims(f)
  PROVE  OpsNow(t) = OpsNow(t)' \o OperationOf(Top(t)) /\ OpsNow(t)' \in Seq(Operations)
<1>1. CtlTyped /\ clientState \in ClientStates BY DEF Ready, EnvTyped
<1>2. /\ Under(t) \in Layers /\ \A s \in Free : Under(t)[s] = <<>>
      /\ OpsNow(t) = Atop(Top(t), Under(t))[clientState] /\ Top(t) \in Frames
  BY <1>1, OpsBefore, TopTyped
<1>3. OpsNow(t)' = Atop(f, Under(t))[clientState'] BY <1>1, OpsMoved
<1> DEFINE s == clientState'
<1>4. OpsNow(t)' = Atop(f, Under(t))[s] /\ s \in ClientStates /\ s \notin Claims(f) /\ FoundBy(Top(t)) = s
  BY <1>3
<1> HIDE DEF s
<1>5. "CONNECTED_IDLE" \in Free BY DEF Free
<1>6. OpsNow(t)' = Under(t)[s] BY <1>2, <1>4, <1>5, AtopTyped
<1>7. OpsNow(t) = Under(t)[s] \o OperationOf(Top(t)) BY <1>1, <1>2, <1>4, AtopTyped
<1>8. Under(t)[s] \in Seq(Operations) BY <1>2, <1>4 DEF Layers
<1> QED BY <1>6, <1>7, <1>8

\* Nothing is under way before and after.
LEMMA OpsNone ==
  ASSUME NEW t \in Threads, Ready(t), CtlTyped', depth[t] > 0, NEW f \in Frames, MovesTo(t, f),
         clientState \in Free, clientState' \in Free
  PROVE  OpsNow(t) = <<>> /\ OpsNow(t)' = <<>>
<1>1. CtlTyped /\ clientState \in ClientStates BY DEF Ready, EnvTyped
<1>2. /\ Under(t) \in Layers /\ \A s \in Free : Under(t)[s] = <<>>
      /\ OpsNow(t) = Atop(Top(t), Under(t))[clientState] /\ Top(t) \in Frames
  BY <1>1, OpsBefore, TopTyped
<1>3. OpsNow(t)' = Atop(f, Under(t))[clientState'] BY <1>1, OpsMoved
<1> QED BY <1>2, <1>3, FreeAtop

\* A call that does not renew leaves renewals alone.
LEMMA RenewingKept ==
  ASSUME NEW t \in Threads, Ready(t), depth[t] > 0, NEW f, MovesTo(t, f),
         ~Renews(Top(t), clientState), ~Renews(f, clientState')
  PROVE  Renewing(t)' = Renewing(t)
<1>1. CtlTyped /\ Tame(t) BY DEF Ready
<1>2. Renewing(t)' <=> RenewedBelow(t) BY <1>1, RenewingMoved
<1>3. Renewing(t) <=> RenewedBelow(t) BY <1>1, RenewingNow
<1>4. Renewing(t) \in BOOLEAN /\ Renewing(t)' \in BOOLEAN BY DEF Renewing
<1> QED BY <1>2, <1>3, <1>4

\* The innermost operation of the callers is the one the caller runs.
LEMMA CallerLast ==
  ASSUME NEW t \in Threads, Ready(t), depth[t] > 0, Caller(t).fn \in Requests \cup {"deliver", "yield"},
         Caller(t).fn = "yield" => Caller(t).pc = "delivered", NEW s \in Word(Caller(t))
  PROVE  /\ Under(t)[s] # <<>>
         /\ Contract!Last(Under(t)[s]) = IF Caller(t).fn = "deliver" THEN "callback" ELSE Caller(t).fn
<1> DEFINE c == Caller(t)
           n == depth[t] - 1
           calls == stack[t]
<1>1. CtlTyped /\ Tame(t) BY DEF Ready
<1>2. c.fn # "none" BY DEF Requests
<1>3. depth[t] # 1 /\ Awaits(c, Top(t).fn) /\ c = calls[n]
  <2>1. NoFrame.fn = "none" BY DEF NoFrame, NewFrame
  <2> QED BY <1>1, <1>2, <2>1, TameAtTop
<1>4. calls \in [1..MaxDepth -> Frames] /\ depth[t] \in 1..MaxDepth BY <1>1, TopTyped DEF CtlTyped
<1>5. n \in 1..MaxDepth /\ n - 1 \in 0..MaxDepth BY <1>3, <1>4, BoundsAssumption
<1>6. Under(t) = OpsOf(calls)[n] BY DEF Under
<1>7. /\ c.pending = "NONE"
      /\ c.fn \in Requests => c.pc = "wait"
      /\ c.fn = "deliver" => c.pc = "callback"
  BY <1>3 DEF Awaits, Requests
<1>8. Unfolds(OpsOf(calls), calls, MaxDepth) BY <1>4, OpsUnfold
<1> DEFINE below == OpsOf(calls)[n - 1]
<1>9. OpsOf(calls)[n] = Atop(c, below) BY <1>3, <1>5, <1>8 DEF Unfolds
<1>10. below \in Layers BY <1>4, <1>5, OpsTyped
<1>11. c \in Frames BY <1>3, <1>4, <1>5
<1>12. c.fn \in Requests \cup {"deliver", "yield"} /\ (c.fn = "yield" => c.pc = "delivered") /\ s \in Word(c)
  OBVIOUS
<1> HIDE DEF c, n, calls, below
<1> DEFINE op == IF c.fn = "deliver" THEN "callback" ELSE c.fn
<1>13. s \in Claims(c) /\ s # "CONNECTED_IDLE" /\ s \in ClientStates /\ c.fn \in OperationFns
       /\ OperationOf(c) = <<op>> /\ op \in Operations
  <2>1. CASE c.fn \in Requests
    <3>1. Word(c) = {InProgress(c.fn)} BY <2>1, Words
    <3>2. Claims(c) = {InProgress(c.fn)} BY <1>7, <2>1, RequestClaims DEF Claims
    <3>3. c.fn # "deliver" /\ c.fn # "disconnect" /\ c.fn # "handle_disconnect" BY <2>1 DEF Requests
    <3>4. OperationOf(c) = <<op>> BY <3>3 DEF OperationOf
    <3>5. InProgress(c.fn) \in ClientStates /\ InProgress(c.fn) # "CONNECTED_IDLE"
      BY <2>1, StateNames, RequestNames DEF Rest
    <3> QED BY <1>12, <2>1, <3>1, <3>2, <3>3, <3>4, <3>5 DEF OperationFns, Operations
  <2>2. CASE c.fn = "deliver"
    <3>1. Word(c) = {"WAIT_FOR_CB_RETURN"} BY <2>2, Words
    <3>2. Claims(c) = {"WAIT_FOR_CB_RETURN"} BY <1>7, <2>2, DeliverSpan
    <3>3. OperationOf(c) = <<op>> BY <2>2 DEF OperationOf
    <3> QED BY <1>12, <2>2, <3>1, <3>2, <3>3 DEF OperationFns, Operations, ClientStates, ConnectedStates
  <2>3. CASE c.fn = "yield"
    <3>1. Word(c) = {"YIELD_IN_PROGRESS"} BY <1>12, <2>3, Words
    <3>2. Claims(c) = {"YIELD_IN_PROGRESS"} BY <1>12, <2>3, YieldSpan
    <3>3. OperationOf(c) = <<op>> BY <2>3 DEF OperationOf
    <3> QED BY <1>12, <2>3, <3>1, <3>2, <3>3 DEF OperationFns, Operations, ClientStates, ConnectedStates
  <2> QED BY <1>12, <2>1, <2>2, <2>3
<1> HIDE DEF op
<1>14. Under(t)[s] = below[FoundBy(c)] \o <<op>>
  <2>1. Atop(c, below)[s] = below[FoundBy(c)] \o OperationOf(c) BY <1>10, <1>11, <1>13, AtopTyped
  <2>2. Under(t)[s] = Atop(c, below)[s] BY <1>6, <1>9
  <2>3. OperationOf(c) = <<op>> BY <1>13
  <2> QED BY <2>1, <2>2, <2>3
<1>15. below[FoundBy(c)] \in Seq(Operations) BY <1>10, <1>11, <1>13, OperationTyped DEF Layers
<1>16. Under(t)[s] # <<>> /\ Contract!Last(Under(t)[s]) = op BY <1>13, <1>14, <1>15, EndOf
<1> QED BY <1>16 DEF op, c

\* What a store looks like: frame f is the call at the top afterwards.
Stored(t, f) ==
  /\ MovesTo(t, f) /\ Alike(f, Top(t)) /\ f.pc = Top(t).pc /\ f.pending = "NONE"
  /\ depth[t] > 0 /\ Top(t).pending # "NONE" /\ clientState' = Top(t).pending /\ ret' = ret

\* Every store looks like that.
LEMMA StoreFrame ==
  ASSUME NEW t \in Threads, CtlTyped, StoreClientState(t)
  PROVE  \E f \in Frames : Stored(t, f)
<1>1. depth[t] > 0 /\ Top(t).pending # "NONE" BY DEF StoreClientState
<1>2. clientState' = Top(t).pending /\ ret' = ret BY StoreMoves
<1>3. PICK f \in Frames : MovesTo(t, f) /\ Alike(f, Top(t)) /\ f.pc = Top(t).pc /\ f.pending = "NONE"
  BY StoreMoves
<1> QED BY <1>1, <1>2, <1>3 DEF Stored

\* The invariant after a store.
LEMMA StoreTame ==
  ASSUME NEW t \in Threads, Ready(t), NEW f \in Frames, Stored(t, f),
         Top(t).pc # "read" \/ Top(t).fn \notin Savers,
         TameTop(f, Caller(t), clientState', ret[t])
  PROVE  Tame(t)'
<1>1. CtlTyped /\ Tame(t) BY DEF Ready
<1>2. TameFrame(f, Caller(t)) BY <1>1, TameAtTop, FrameKept DEF Stored
<1>3. f.fn = Top(t).fn BY DEF Stored, Alike
<1> QED BY <1>1, <1>2, <1>3, TameMove DEF Stored

\* The states a request or a delivery has saved belong to the caller.
LEMMA SavedUp ==
  ASSUME NEW t \in Threads, Ready(t), ~HandlerReconnects, depth[t] > 0,
         Top(t).fn \in Requests \cup {"deliver", "disconnect"}, Top(t).pc # "read"
  PROVE  /\ IsConnected(Top(t).saved) /\ Top(t).saved \in ClientStates
         /\ Top(t).saved \in {"CONNECTED_IDLE"} \cup Word(Caller(t))
<1>1. CtlTyped /\ Tame(t) /\ Linked(t) BY DEF Ready
<1>2. Top(t).saved \in ClientStates BY <1>1, TopTyped DEF Frames
<1>3. Top(t).saved \in {"CONNECTED_IDLE"} \cup Word(Caller(t)) BY <1>1, TameAtTop DEF TameFrame
<1>4. LinkedFrame(Top(t)) BY <1>1, LinkedAtTop DEF LinkedTop
<1>5. IsConnected(Top(t).saved)
  <2>1. CASE Top(t).fn \in Requests
    <3>1. Top(t).saved \in {"CONNECTED_IDLE", "WAIT_FOR_CB_RETURN"} BY <1>4, <2>1 DEF LinkedFrame
    <3> QED BY <3>1, ConnectedNames
  <2>2. CASE Top(t).fn = "disconnect" BY <1>4, <2>2 DEF LinkedFrame
  <2>3. CASE Top(t).fn = "deliver"
    <3>1. ~ValidForConnect(Top(t).saved) BY <1>4, <2>3 DEF LinkedFrame
    <3>2. Top(t).saved # "INITIALIZED" BY <3>1 DEF ValidForConnect
    <3> QED BY <1>3, <3>2, WordUp, ConnectedNames
  <2> QED BY <2>1, <2>2, <2>3
<1> QED BY <1>2, <1>3, <1>5

\* An operation that begins is a step of the contract.
LEMMA BeginRefines ==
  ASSUME NEW op \in Requests \cup {"yield"}, Contract!Begin(op)
  PROVE  Refines
<1>1. Contract!Requests = Requests BY DEF Requests, Contract!Requests
<1>2. \E x \in Contract!Requests \cup {"yield"} : Contract!Begin(x) BY <1>1
<1> QED BY <1>2 DEF Refines, Contract!Next

\* A request claims the client or gives it back.
LEMMA RequestStores ==
  ASSUME NEW t \in Threads, Threads = {t}, ~HandlerReconnects, Ready(t), CtlTyped',
         clientState' \in ClientStates, NEW f \in Frames, Stored(t, f), Top(t).fn \in Requests
  PROVE  Advances(t)
<1> DEFINE fn == Top(t).fn
<1>1. EnvTyped /\ CtlTyped /\ Linked(t) /\ Tame(t) BY DEF Ready
<1>2. /\ depth[t] > 0 /\ Top(t).pending # "NONE" /\ clientState' = Top(t).pending /\ ret' = ret
      /\ MovesTo(t, f) /\ f.fn = fn /\ f.saved = Top(t).saved /\ f.pc = Top(t).pc /\ f.pending = "NONE"
  BY DEF Stored, Alike
<1>3. TameRequest(Top(t), Caller(t), clientState, ret[t]) BY <1>1, <1>2, TopKnown
<1>4. fn \in Operations /\ fn \in OperationFns /\ fn # "yield" /\ fn # "deliver" /\ fn # "disconnect" /\ fn # "handle_disconnect"
  BY RequestNames DEF Operations
<1>5. InProgress(fn) \notin Rest /\ InProgress(fn) # "WAIT_FOR_CB_RETURN" /\ IsConnected(InProgress(fn))
  BY RequestNames, ConnectedNames
<1>6. /\ Claims(Top(t)) = IF InSpan(Top(t)) THEN {InProgress(fn)} ELSE {}
      /\ Claims(f) = IF InSpan(f) THEN {InProgress(fn)} ELSE {}
  BY <1>2, RequestClaims DEF Claims, InSpan
<1>7. FoundBy(f) = Top(t).saved /\ FoundBy(Top(t)) = Top(t).saved
      /\ OperationOf(f) = <<fn>> /\ OperationOf(Top(t)) = <<fn>>
  BY <1>2, <1>4 DEF FoundBy, OperationOf
<1>8. Renewing(t)' = Renewing(t)
  <2>1. ~Renews(Top(t), clientState) /\ ~Renews(f, clientState') BY <1>2, <1>4 DEF Renews
  <2> QED BY <1>2, <2>1, RenewingKept
<1>9. User = t BY UserIs
<1>10. Top(t).pc # "read" BY <1>2, <1>3 DEF TameRequest, Stands, Stores
<1>11. /\ IsConnected(Top(t).saved) /\ Top(t).saved \in ClientStates
       /\ Top(t).saved \in {"CONNECTED_IDLE"} \cup Word(Caller(t))
  BY <1>2, <1>10, SavedUp
<1>12. Top(t).saved \in {"CONNECTED_IDLE", "WAIT_FOR_CB_RETURN"}
  BY <1>1, <1>2, <1>10, LinkedAtTop DEF LinkedTop, LinkedFrame
<1>13. \/ Stores(Top(t), "send", clientState, Top(t).saved, InProgress(fn))
       \/ Stores(Top(t), "done", clientState, InProgress(fn), Top(t).saved) /\ ret[t] # "RECONNECTED"
  BY <1>2, <1>3 DEF TameRequest, Stands
<1>14. CASE Stores(Top(t), "send", clientState, Top(t).saved, InProgress(fn))
  <2>1. Top(t).pc = "send" /\ clientState = Top(t).saved /\ clientState' = InProgress(fn)
    BY <1>2, <1>14 DEF Stores
  <2>2. TameTop(f, Caller(t), InProgress(fn), ret[t]) BY <1>2, <2>1 DEF TameTop, TameRequest, Stands
  <2>3. Tame(t)' BY <1>10, <2>1, <2>2, StoreTame
  <2>4. Claims(f) = {InProgress(fn)} /\ Claims(Top(t)) = {InProgress(fn)} BY <1>2, <1>6, <2>1 DEF InSpan
  <2>5. clientState \notin Claims(Top(t)) /\ clientState' \in Claims(f) /\ clientState' # "CONNECTED_IDLE"
        /\ FoundBy(f) = clientState
    BY <1>5, <1>7, <1>12, <2>1, <2>4 DEF Rest
  <2>6. OpsNow(t)' = OpsNow(t) \o OperationOf(f) /\ OpsNow(t) \in Seq(Operations)
        /\ OpsNow(t) = Under(t)[clientState]
    BY <1>2, <1>4, <2>5, OpsBegin
  <2>7. OpsNow(t)' = Append(OpsNow(t), fn) BY <1>4, <1>7, <2>6, EndOf
  <2>8. LinkOf(t) = "up" /\ LinkOf(t)' = "up" BY <1>5, <1>11, <2>1, Links, LinksNext
  <2>9. CASE clientState = "CONNECTED_IDLE"
    <3>1. OpsNow(t) = <<>> BY <1>1, <1>2, <2>6, <2>9, OpsBefore DEF EnvTyped, Free
    <3>2. Contract!Begin(fn) BY <1>8, <1>9, <2>7, <2>8, <3>1 DEF Contract!Begin, Contract!Idle
    <3>3. Refines BY <3>2, BeginRefines
    <3> QED BY <2>3, <3>3 DEF Advances
  <2>10. CASE clientState = "WAIT_FOR_CB_RETURN"
    <3>1. "WAIT_FOR_CB_RETURN" \in Word(Caller(t)) BY <1>11, <2>1, <2>10
    <3>2. Caller(t).fn = "deliver" BY <3>1, RequestNames DEF Word
    <3>3. OpsNow(t) # <<>> /\ Contract!Last(OpsNow(t)) = "callback" BY <1>2, <2>6, <2>10, <3>1, <3>2, CallerLast
    <3>4. fn \in Contract!FromCallback
      <4>1. fn # "resubscribe" BY <1>1, <1>2, <1>10, <2>1, <2>10, TameAtTop DEF TameFrame
      <4> QED BY <4>1 DEF Contract!FromCallback, Requests
    <3>5. Contract!InCallback BY <1>9, <2>8, <3>3 DEF Contract!InCallback
    <3>6. Contract!Begin(fn) BY <1>8, <1>9, <2>7, <2>8, <3>4, <3>5 DEF Contract!Begin
    <3>7. Refines BY <3>6, BeginRefines
    <3> QED BY <2>3, <3>7 DEF Advances
  <2> QED BY <1>12, <2>1, <2>9, <2>10
<1>15. CASE Stores(Top(t), "done", clientState, InProgress(fn), Top(t).saved) /\ ret[t] # "RECONNECTED"
  <2>1. Top(t).pc = "done" /\ clientState = InProgress(fn) /\ clientState' = Top(t).saved
    BY <1>2, <1>15 DEF Stores
  <2>2. Top(t).saved \in Found(Caller(t)) BY <1>11 DEF Found, Rest
  <2>3. TameTop(f, Caller(t), Top(t).saved, ret[t]) BY <1>2, <1>15, <2>1, <2>2 DEF TameTop, TameRequest, Stands
  <2>4. Tame(t)' BY <1>10, <2>1, <2>3, StoreTame
  <2>5. Claims(f) = {} /\ Claims(Top(t)) = {InProgress(fn)} BY <1>2, <1>6, <2>1 DEF InSpan
  <2>6. clientState \in Claims(Top(t)) /\ clientState # "CONNECTED_IDLE" /\ clientState' \notin Claims(f)
        /\ FoundBy(Top(t)) = clientState'
    BY <1>5, <1>7, <2>1, <2>5 DEF Rest
  <2>7. OpsNow(t) = OpsNow(t)' \o OperationOf(Top(t)) /\ OpsNow(t)' \in Seq(Operations)
    BY <1>2, <1>4, <2>6, OpsEnd
  <2>8. OpsNow(t) # <<>> /\ OpsNow(t)' = Contract!Front(OpsNow(t)) BY <1>4, <1>7, <2>7, EndOf
  <2>9. LinkOf(t) = "up" /\ LinkOf(t)' = "up" BY <1>5, <1>11, <2>1, Links, LinksNext
  <2>10. Contract!End BY <1>8, <1>9, <2>8, <2>9 DEF Contract!End
  <2>11. Refines BY <2>10 DEF Refines, Contract!Next
  <2> QED BY <2>4, <2>11 DEF Advances
<1> QED BY <1>13, <1>14, <1>15

\* deliver_message claims the client for the callback or gives it back.
LEMMA DeliverStores ==
  ASSUME NEW t \in Threads, Threads = {t}, ~HandlerReconnects, Ready(t), CtlTyped',
         clientState' \in ClientStates, NEW f \in Frames, Stored(t, f), Top(t).fn = "deliver"
  PROVE  Advances(t)
<1>1. EnvTyped /\ CtlTyped /\ Linked(t) /\ Tame(t) BY DEF Ready
<1>2. /\ depth[t] > 0 /\ Top(t).pending # "NONE" /\ clientState' = Top(t).pending /\ ret' = ret
      /\ MovesTo(t, f) /\ f.fn = "deliver" /\ f.saved = Top(t).saved /\ f.pc = Top(t).pc /\ f.pending = "NONE"
  BY DEF Stored, Alike
<1>3. TameDeliver(Top(t), Caller(t), clientState) BY <1>1, <1>2, TopKnown
<1>4. "callback" \in Operations /\ "deliver" \in OperationFns /\ IsConnected("WAIT_FOR_CB_RETURN")
  BY ConnectedNames DEF Operations, OperationFns
<1>5. /\ Claims(Top(t)) = {"WAIT_FOR_CB_RETURN"}
      /\ Claims(f) = IF f.pc \in {"callback", "finish"} THEN {"WAIT_FOR_CB_RETURN"} ELSE {}
  BY <1>2, DeliverSpan
<1>6. FoundBy(f) = Top(t).saved /\ FoundBy(Top(t)) = Top(t).saved
      /\ OperationOf(f) = <<"callback">> /\ OperationOf(Top(t)) = <<"callback">>
  BY <1>2 DEF FoundBy, OperationOf
<1>7. Renewing(t)' = Renewing(t)
  <2>1. ~Renews(Top(t), clientState) /\ ~Renews(f, clientState') BY <1>2 DEF Renews
  <2> QED BY <1>2, <2>1, RenewingKept
<1>8. User = t BY UserIs
<1>9. Top(t).pc # "read" BY <1>2, <1>3 DEF TameDeliver, Stands, Stores
<1>10. /\ IsConnected(Top(t).saved) /\ Top(t).saved \in ClientStates
       /\ Top(t).saved \in {"CONNECTED_IDLE"} \cup Word(Caller(t))
  BY <1>2, <1>9, SavedUp
<1>11. Top(t).saved # "WAIT_FOR_CB_RETURN" BY <1>1, <1>2, <1>10, DeliverFinds
<1>12. CASE Stores(Top(t), "callback", clientState, Top(t).saved, "WAIT_FOR_CB_RETURN")
  <2>1. Top(t).pc = "callback" /\ clientState = Top(t).saved /\ clientState' = "WAIT_FOR_CB_RETURN"
    BY <1>2, <1>12 DEF Stores
  <2>2. TameTop(f, Caller(t), "WAIT_FOR_CB_RETURN", ret[t]) BY <1>2, <2>1 DEF TameTop, TameDeliver, Stands
  <2>3. Tame(t)' BY <1>9, <2>1, <2>2, StoreTame
  <2>4. OpsNow(t)' = OpsNow(t) \o OperationOf(f) /\ OpsNow(t) \in Seq(Operations)
        /\ OpsNow(t) = Under(t)[clientState]
    BY <1>2, <1>4, <1>5, <1>6, <1>11, <2>1, OpsBegin
  <2>5. OpsNow(t)' = Append(OpsNow(t), "callback") BY <1>4, <1>6, <2>4, EndOf
  <2>6. LinkOf(t) = "up" /\ LinkOf(t)' = "up" BY <1>4, <1>10, <2>1, Links, LinksNext
  <2>7. OpsNow(t) = <<>> \/ Contract!Last(OpsNow(t)) # "callback"
    <3>1. CASE clientState = "CONNECTED_IDLE" BY <1>1, <1>2, <2>4, <3>1, OpsBefore DEF EnvTyped, Free
    <3>2. CASE clientState # "CONNECTED_IDLE"
      <4>1. clientState \in Word(Caller(t)) BY <1>10, <2>1, <3>2
      <4>2. Caller(t) # NoFrame
        <5>1. Word(NoFrame) = {"INITIALIZED"} BY Words DEF NoFrame, NewFrame
        <5>2. ~IsConnected("INITIALIZED") BY DEF IsConnected, ConnectedStates
        <5> QED BY <1>10, <2>1, <4>1, <5>1, <5>2
      <4>3. Awaits(Caller(t), "deliver") BY <1>1, <1>2, <4>2, CalledBy
      <4>4. Caller(t).fn \in Requests \/ (Caller(t).fn = "yield" /\ Caller(t).pc = "delivered")
        BY <4>3 DEF Awaits, ApiFns, Requests
      <4>5. Caller(t).fn # "deliver" /\ Caller(t).fn # "callback" /\ (Caller(t).fn = "yield" => Caller(t).pc = "delivered")
        BY <4>4 DEF Requests
      <4> QED BY <1>2, <2>4, <4>1, <4>4, <4>5, CallerLast
    <3> QED BY <3>1, <3>2
  <2>8. Contract!Deliver
    BY <1>7, <1>8, <2>5, <2>6, <2>7 DEF Contract!Deliver, Contract!InCallback
  <2>9. Refines BY <2>8 DEF Refines, Contract!Next
  <2> QED BY <2>3, <2>9 DEF Advances
<1>13. CASE Stores(Top(t), "ack", clientState, "WAIT_FOR_CB_RETURN", Top(t).saved)
  <2>1. Top(t).pc = "ack" /\ clientState = "WAIT_FOR_CB_RETURN" /\ clientState' = Top(t).saved
    BY <1>2, <1>13 DEF Stores
  <2>2. TameTop(f, Caller(t), Top(t).saved, ret[t]) BY <1>2, <2>1 DEF TameTop, TameDeliver, Stands
  <2>3. Tame(t)' BY <1>9, <2>1, <2>2, StoreTame
  <2>4. Claims(f) = {} BY <1>2, <1>5, <2>1
  <2>5. OpsNow(t) = OpsNow(t)' \o OperationOf(Top(t)) /\ OpsNow(t)' \in Seq(Operations)
    BY <1>2, <1>4, <1>5, <1>6, <2>1, <2>4, OpsEnd
  <2>6. OpsNow(t) # <<>> /\ OpsNow(t)' = Contract!Front(OpsNow(t)) BY <1>4, <1>6, <2>5, EndOf
  <2>7. LinkOf(t) = "up" /\ LinkOf(t)' = "up" BY <1>4, <1>10, <2>1, Links, LinksNext
  <2>8. Contract!End BY <1>7, <1>8, <2>6, <2>7 DEF Contract!End
  <2>9. Refines BY <2>8 DEF Refines, Contract!Next
  <2> QED BY <2>3, <2>9 DEF Advances
<1> QED BY <1>2, <1>3, <1>12, <1>13 DEF TameDeliver, Stands

\* A store while nothing is under way.
LEMMA FreeStore ==
  ASSUME NEW t \in Threads, Threads = {t}, Ready(t), CtlTyped', NEW f \in Frames, Stored(t, f),
         clientState \in Free, clientState' \in Free,
         Top(t).fn # "yield" \/ Top(t).pc = "pending",
         \/ LinkOf(t) \in {"new", "closed", "lost", "waiting"} /\ LinkOf(t)' = "connecting"
         \/ LinkOf(t) = "connecting" /\ LinkOf(t)' \in {"up", "lost"}
         \/ LinkOf(t) = "lost" /\ LinkOf(t)' = "waiting"
  PROVE  Refines
<1>1. depth[t] > 0 /\ MovesTo(t, f) /\ f.fn = Top(t).fn /\ f.pc = Top(t).pc BY DEF Stored, Alike
<1>2. ~Renews(Top(t), clientState) /\ ~Renews(f, clientState') BY <1>1 DEF Renews
<1>3. Renewing(t)' = Renewing(t) BY <1>1, <1>2, RenewingKept
<1>4. OpsNow(t) = <<>> /\ OpsNow(t)' = <<>> BY <1>1, OpsNone
<1>5. User = t BY UserIs
<1>6. Contract!Connect \/ Contract!ConnectEnds \/ Contract!Wait
  BY <1>3, <1>4, <1>5 DEF Contract!Connect, Contract!ConnectEnds, Contract!Wait
<1> QED BY <1>6 DEF Refines, Contract!Next

\* connect claims the client or reports its outcome.
LEMMA ConnectStores ==
  ASSUME NEW t \in Threads, Threads = {t}, ~HandlerReconnects, Ready(t), CtlTyped',
         clientState' \in ClientStates, NEW f \in Frames, Stored(t, f), Top(t).fn = "connect"
  PROVE  Advances(t)
<1>1. EnvTyped /\ CtlTyped /\ Linked(t) /\ Tame(t) BY DEF Ready
<1>2. /\ depth[t] > 0 /\ Top(t).pending # "NONE" /\ clientState' = Top(t).pending /\ ret' = ret
      /\ MovesTo(t, f) /\ f.fn = "connect" /\ f.saved = Top(t).saved /\ f.pc = Top(t).pc /\ f.pending = "NONE"
  BY DEF Stored, Alike
<1>3. TameConnect(Top(t), Caller(t), clientState) /\ TameFrame(Top(t), Caller(t))
  BY <1>1, <1>2, TopKnown, TameAtTop
<1>4. Top(t).pc # "read" BY <1>2, <1>3 DEF TameConnect, Stands, Stores
<1>5. CASE Stores(Top(t), "tls", clientState, Top(t).saved, "CONNECTING")
  <2>1. Top(t).pc = "tls" /\ clientState = Top(t).saved /\ clientState' = "CONNECTING"
    BY <1>2, <1>5 DEF Stores
  <2>2. ValidForConnect(clientState) BY <1>2, <1>3, <1>4, <2>1 DEF TameFrame
  <2>3. clientState \in {"INITIALIZED", "DISCONNECTED_ERROR", "DISCONNECTED_MANUALLY", "PENDING_RECONNECT"}
    BY <2>2 DEF ValidForConnect
  <2>4. clientState \in Free /\ clientState' \in Free BY <2>1, <2>3 DEF Free
  <2>5. LinkOf(t) \in {"new", "closed", "lost", "waiting"} BY <2>3, Links
  <2>6. LinkOf(t)' = "connecting" BY <2>1, LinksNext
  <2>7. Refines BY <1>2, <2>4, <2>5, <2>6, FreeStore
  <2>8. TameTop(f, Caller(t), "CONNECTING", ret[t]) BY <1>2, <2>1 DEF TameTop, TameConnect, Stands
  <2>9. Tame(t)' BY <1>4, <2>1, <2>8, StoreTame
  <2> QED BY <2>7, <2>9 DEF Advances
<1>6. CASE \E new \in {"CONNECTED_IDLE", "DISCONNECTED_ERROR"} :
             Stores(Top(t), "done", clientState, "CONNECTING", new)
  <2>1. /\ Top(t).pc = "done" /\ clientState = "CONNECTING"
        /\ clientState' \in {"CONNECTED_IDLE", "DISCONNECTED_ERROR"}
    BY <1>2, <1>6 DEF Stores
  <2>2. clientState \in Free /\ clientState' \in Free BY <2>1 DEF Free
  <2>3. LinkOf(t) = "connecting" BY <2>1, Links
  <2>4. LinkOf(t)' \in {"up", "lost"} BY <2>1, LinksNext, ConnectedNames
  <2>5. Refines BY <1>2, <2>2, <2>3, <2>4, FreeStore
  <2>6. TameTop(f, Caller(t), clientState', ret[t]) BY <1>2, <2>1 DEF TameTop, TameConnect, Stands
  <2>7. Tame(t)' BY <1>4, <2>6, StoreTame
  <2> QED BY <2>5, <2>7 DEF Advances
<1> QED BY <1>2, <1>3, <1>5, <1>6 DEF TameConnect, Stands

\* disconnect claims the client.
LEMMA DisconnectStores ==
  ASSUME NEW t \in Threads, Threads = {t}, ~HandlerReconnects, Ready(t), CtlTyped',
         clientState' \in ClientStates, NEW f \in Frames, Stored(t, f), Top(t).fn = "disconnect"
  PROVE  Advances(t)
<1>1. EnvTyped /\ CtlTyped /\ Linked(t) /\ Tame(t) BY DEF Ready
<1>2. /\ depth[t] > 0 /\ Top(t).pending # "NONE" /\ clientState' = Top(t).pending /\ ret' = ret
      /\ MovesTo(t, f) /\ f.fn = "disconnect" /\ f.saved = Top(t).saved /\ f.pc = Top(t).pc /\ f.pending = "NONE"
  BY DEF Stored, Alike
<1>3. TameDisconnect(Top(t), Caller(t), clientState) BY <1>1, <1>2, TopKnown
<1>4. /\ Top(t).pc = "send" /\ clientState = Top(t).saved /\ clientState' = "DISCONNECTING"
  BY <1>2, <1>3 DEF TameDisconnect, Stands, Stores
<1>5. IsConnected(clientState) BY <1>2, <1>4, SavedUp
<1>6. TameTop(f, Caller(t), "DISCONNECTING", ret[t]) BY <1>2, <1>4 DEF TameTop, TameDisconnect, Stands
<1>7. Tame(t)' BY <1>4, <1>6, StoreTame
<1>8. Claims(Top(t)) = {"DISCONNECTING"} /\ Claims(f) = {"DISCONNECTING"} BY <1>2, <1>4, DisconnectSpan
<1>9. /\ clientState \notin Claims(Top(t)) /\ clientState' \in Claims(f) /\ clientState' # "CONNECTED_IDLE"
      /\ FoundBy(f) = clientState /\ f.fn \in OperationFns /\ OperationOf(f) = <<>>
  BY <1>2, <1>4, <1>5, <1>8, ConnectedNames DEF FoundBy, OperationFns, OperationOf
<1>10. OpsNow(t)' = OpsNow(t) \o <<>> /\ OpsNow(t) \in Seq(Operations) BY <1>2, <1>9, OpsBegin
<1>11. OpsNow(t)' = OpsNow(t) BY <1>10, ConcatEmptySeq
<1>12. LinkOf(t) = "up" /\ LinkOf(t)' = "closing" BY <1>4, <1>5, Links, LinksNext
<1>13. Renewing(t)' = Renewing(t)
  <2>1. ~Renews(Top(t), clientState) /\ ~Renews(f, clientState') BY <1>2 DEF Renews
  <2> QED BY <1>2, <2>1, RenewingKept
<1>14. User = t BY UserIs
<1>15. Contract!Disconnect BY <1>11, <1>12, <1>13, <1>14 DEF Contract!Disconnect
<1> QED BY <1>7, <1>15 DEF Advances, Refines, Contract!Next

\* attempt_reconnect makes a lost client wait for the next attempt.
LEMMA ReconnectStores ==
  ASSUME NEW t \in Threads, Threads = {t}, ~HandlerReconnects, Ready(t), CtlTyped',
         clientState' \in ClientStates, NEW f \in Frames, Stored(t, f), Top(t).fn = "attempt_reconnect"
  PROVE  Advances(t)
<1>1. EnvTyped /\ CtlTyped /\ Linked(t) /\ Tame(t) BY DEF Ready
<1>2. /\ depth[t] > 0 /\ Top(t).pending # "NONE" /\ clientState' = Top(t).pending /\ ret' = ret
      /\ MovesTo(t, f) /\ f.fn = "attempt_reconnect" /\ f.pc = Top(t).pc /\ f.pending = "NONE"
  BY DEF Stored, Alike
<1>3. TameReconnect(Top(t), Caller(t), clientState, ret[t]) BY <1>1, <1>2, TopKnown
<1>4. /\ Top(t).pc = "attempting" /\ clientState = "DISCONNECTED_ERROR" /\ clientState' = "PENDING_RECONNECT"
  BY <1>2, <1>3 DEF TameReconnect, Stands, Stores
<1>5. clientState \in Free /\ clientState' \in Free BY <1>4 DEF Free
<1>6. LinkOf(t) = "lost" /\ LinkOf(t)' = "waiting" BY <1>4, Links, LinksNext
<1>7. Refines BY <1>2, <1>5, <1>6, FreeStore
<1>8. TameTop(f, Caller(t), "PENDING_RECONNECT", ret[t]) BY <1>2, <1>4 DEF TameTop, TameReconnect, Stands, Rest
<1>9. Tame(t)' BY <1>4, <1>8, StoreTame
<1> QED BY <1>7, <1>9 DEF Advances

\* yield claims the client, gives it back or makes it wait for a reconnect.
LEMMA YieldStores ==
  ASSUME NEW t \in Threads, Threads = {t}, ~HandlerReconnects, Ready(t), CtlTyped',
         clientState' \in ClientStates, NEW f \in Frames, Stored(t, f), Top(t).fn = "yield"
  PROVE  Advances(t)
<1>1. EnvTyped /\ CtlTyped /\ Linked(t) /\ Tame(t) BY DEF Ready
<1>2. /\ depth[t] > 0 /\ Top(t).pending # "NONE" /\ clientState' = Top(t).pending /\ ret' = ret
      /\ MovesTo(t, f) /\ f.fn = "yield" /\ f.pc = Top(t).pc /\ f.pending = "NONE"
  BY DEF Stored, Alike
<1>3. TameYield(Top(t), Caller(t), clientState, ret[t]) BY <1>1, <1>2, TopKnown
<1>4. "yield" \notin Savers /\ "yield" \in OperationFns /\ "yield" \in Operations
  BY DEF Savers, Requests, OperationFns, Operations
<1>5. /\ FoundBy(f) = "CONNECTED_IDLE" /\ FoundBy(Top(t)) = "CONNECTED_IDLE"
      /\ OperationOf(f) = <<"yield">> /\ OperationOf(Top(t)) = <<"yield">>
  BY <1>2 DEF FoundBy, OperationOf
<1>6. IsConnected("CONNECTED_IDLE") /\ IsConnected("YIELD_IN_PROGRESS") BY ConnectedNames
<1>7. User = t BY UserIs
<1>8. CASE \/ Stores(Top(t), "loop", clientState, "CONNECTED_IDLE", "YIELD_IN_PROGRESS")
           \/ /\ Stores(Top(t), "until", clientState, "CONNECTED_IDLE", "YIELD_IN_PROGRESS")
              /\ ret[t] = "RECONNECTED"
  <2>1. /\ Top(t).pc \in {"loop", "until"} /\ clientState = "CONNECTED_IDLE" /\ clientState' = "YIELD_IN_PROGRESS"
        /\ Top(t).pc = "until" => ret[t] = "RECONNECTED"
    BY <1>2, <1>8 DEF Stores
  <2>2. TameTop(f, Caller(t), "YIELD_IN_PROGRESS", ret[t]) BY <1>2, <2>1 DEF TameTop, TameYield, Stands
  <2>3. Tame(t)' BY <1>4, <2>1, <2>2, StoreTame
  <2>4. Claims(f) = {"YIELD_IN_PROGRESS"} /\ Claims(Top(t)) = {"YIELD_IN_PROGRESS"} BY <1>2, <2>1, YieldSpan
  <2>5. OpsNow(t)' = OpsNow(t) \o <<"yield">> /\ OpsNow(t) \in Seq(Operations)
        /\ OpsNow(t) = Under(t)[clientState]
    BY <1>2, <1>4, <1>5, <2>1, <2>4, OpsBegin
  <2>6. OpsNow(t) = <<>> BY <1>1, <1>2, <2>1, <2>5, OpsBefore DEF EnvTyped, Free
  <2>7. OpsNow(t)' = Append(OpsNow(t), "yield") BY <1>4, <2>5, EndOf
  <2>8. LinkOf(t) = "up" /\ LinkOf(t)' = "up" BY <1>6, <2>1, Links, LinksNext
  <2>9. Renewing(t)' = Renewing(t)
    <3>1. ~Renews(Top(t), clientState) /\ ~Renews(f, clientState') BY <1>2, <2>1 DEF Renews
    <3> QED BY <1>2, <3>1, RenewingKept
  <2>10. Contract!Begin("yield") BY <1>7, <2>6, <2>7, <2>8, <2>9 DEF Contract!Begin, Contract!Idle
  <2>11. Refines BY <2>10, BeginRefines
  <2> QED BY <2>3, <2>11 DEF Advances
<1>9. CASE Stores(Top(t), "pending", clientState, "DISCONNECTED_ERROR", "PENDING_RECONNECT")
  <2>1. /\ Top(t).pc = "pending" /\ clientState = "DISCONNECTED_ERROR" /\ clientState' = "PENDING_RECONNECT"
    BY <1>2, <1>9 DEF Stores
  <2>2. clientState \in Free /\ clientState' \in Free BY <2>1 DEF Free
  <2>3. LinkOf(t) = "lost" /\ LinkOf(t)' = "waiting" BY <2>1, Links, LinksNext
  <2>4. Refines BY <1>2, <2>1, <2>2, <2>3, FreeStore
  <2>5. TameTop(f, Caller(t), "PENDING_RECONNECT", ret[t]) BY <1>2, <2>1 DEF TameTop, TameYield, Stands
  <2>6. Tame(t)' BY <1>4, <2>1, <2>5, StoreTame
  <2> QED BY <2>4, <2>6 DEF Advances
<1>10. CASE Stores(Top(t), "done", clientState, "YIELD_IN_PROGRESS", "CONNECTED_IDLE")
  <2>1. /\ Top(t).pc = "done" /\ clientState = "YIELD_IN_PROGRESS" /\ clientState' = "CONNECTED_IDLE"
    BY <1>2, <1>10 DEF Stores
  <2>2. TameTop(f, Caller(t), "CONNECTED_IDLE", ret[t]) BY <1>2, <2>1 DEF TameTop, TameYield, Stands, Rest
  <2>3. Tame(t)' BY <1>4, <2>1, <2>2, StoreTame
  <2>4. Claims(f) = {} /\ Claims(Top(t)) = {"YIELD_IN_PROGRESS"} BY <1>2, <2>1, YieldSpan
  <2>5. OpsNow(t) = OpsNow(t)' \o <<"yield">> /\ OpsNow(t)' \in Seq(Operations)
    BY <1>2, <1>4, <1>5, <2>1, <2>4, OpsEnd
  <2>6. OpsNow(t) # <<>> /\ OpsNow(t)' = Contract!Front(OpsNow(t)) BY <1>4, <2>5, EndOf
  <2>7. LinkOf(t) = "up" /\ LinkOf(t)' = "up" BY <1>6, <2>1, Links, LinksNext
  <2>8. Renewing(t)' = Renewing(t)
    <3>1. ~Renews(Top(t), clientState) /\ ~Renews(f, clientState') BY <1>2, <2>1 DEF Renews
    <3> QED BY <1>2, <3>1, RenewingKept
  <2>9. Contract!End BY <1>7, <2>6, <2>7, <2>8 DEF Contract!End
  <2> QED BY <2>3, <2>9 DEF Advances, Refines, Contract!Next
<1> QED BY <1>2, <1>3, <1>8, <1>9, <1>10 DEF TameYield, Stands

\* set_client_state stores the word.
LEMMA StoreAdvances ==
  ASSUME NEW t \in Threads, Threads = {t}, ~HandlerReconnects, Ready(t), CtlTyped',
         clientState' \in ClientStates, StoreClientState(t)
  PROVE  Advances(t)
<1>1. CtlTyped /\ Tame(t) /\ depth[t] > 0 /\ Top(t).pending # "NONE" BY DEF Ready, StoreClientState
<1>2. PICK f \in Frames : Stored(t, f) BY <1>1, StoreFrame
<1>3. Top(t).fn # "handle_disconnect" BY <1>1, TopKnown DEF TameLost, Stands
<1>4. Top(t).fn \in Requests \cup {"deliver", "connect", "disconnect", "attempt_reconnect", "yield"}
  BY <1>1, <1>3, TameAtTop DEF TameTop
<1> QED BY <1>2, <1>4, RequestStores, DeliverStores, ConnectStores, DisconnectStores, ReconnectStores, YieldStores

-----------------------------------------------------------------------------
(* The remaining steps, and the theorem.                                   *)

\* A call that is done returns.
LEMMA ReturnAdvances ==
  ASSUME NEW t \in Threads, Threads = {t}, Ready(t), CtlTyped', Return(t)
  PROVE  Advances(t)
<1>1. CtlTyped /\ Tame(t) BY DEF Ready
<1>2. PICK rc : /\ depth[t] > 0 /\ Top(t).pending = "NONE" /\ clientState' = clientState /\ Leave(t, rc)
                /\ \/ Top(t).pc = "done" /\ rc = ret[t]
                   \/ Top(t).pc = "failed" /\ rc = "FAILED"
  BY DEF Return, state
<1>3. TameTop(Top(t), Caller(t), clientState, ret[t]) /\ TameFrame(Top(t), Caller(t))
  BY <1>1, <1>2, TameAtTop
<1>4. CASE Top(t).fn \in Requests
  <2>1. Top(t).fn \notin {"deliver", "connect", "disconnect", "attempt_reconnect", "handle_disconnect"}
    BY <1>4 DEF Requests
  <2>2. TameRequest(Top(t), Caller(t), clientState, ret[t]) BY <1>1, <1>2, <1>4, TopKnown
  <2>3. /\ clientState \in Found(Caller(t)) /\ rc # "RECONNECTED"
        /\ rc = "SUCCESS" => clientState = Top(t).saved
    <3>1. CASE Top(t).pc = "done" /\ rc = ret[t]
      <4>1. Stands(Top(t), {"done"}, clientState, Found(Caller(t))) /\ ret[t] # "RECONNECTED"
            /\ (ret[t] = "SUCCESS" => clientState = Top(t).saved)
        <5>1. Top(t).saved # "NONE" /\ Top(t).pc # "send"
          BY <1>1, <1>2, <3>1, TopTyped DEF Frames, ClientStates, ConnectedStates
        <5> QED BY <1>2, <2>2, <3>1, <5>1 DEF TameRequest, Stands, Stores
      <4> QED BY <3>1, <4>1 DEF Stands
    <3>2. CASE Top(t).pc = "failed" /\ rc = "FAILED"
      BY <2>2, <3>2 DEF TameRequest, Stands, Stores
    <3> QED BY <1>2, <3>1, <3>2
  <2>4. Top(t).fn = "resubscribe" => Top(t).saved = "CONNECTED_IDLE" BY <1>2, <1>3 DEF TameFrame
  <2>5. Resumable(Top(t).fn, Caller(t), clientState, rc) BY <2>1, <2>3, <2>4 DEF Resumable
  <2>6. Claims(Top(t)) = {} BY <1>2, <1>4, RequestClaims DEF Claims
  <2> QED BY <1>2, <2>1, <2>5, <2>6, LeaveAdvances
<1>5. CASE Top(t).fn \in {"deliver", "connect", "yield"}
  <2>1. clientState \in Rest /\ (Top(t).fn = "deliver" => rc = "FAILED")
    <3>1. CASE Top(t).fn = "deliver"
      BY <1>1, <1>2, <3>1, TopKnown DEF TameDeliver, Stands, Stores
    <3>2. CASE Top(t).fn = "connect"
      BY <1>1, <1>2, <3>2, TopKnown DEF TameConnect, Stands, Stores, Rest
    <3>3. CASE Top(t).fn = "yield"
      BY <1>1, <1>2, <3>3, TopKnown DEF TameYield, Stands, Stores
    <3> QED BY <1>5, <3>1, <3>2, <3>3
  <2>2. clientState # "INITIALIZED" BY <2>1 DEF Rest
  <2>3. Resumable(Top(t).fn, Caller(t), clientState, rc) BY <1>5, <2>1, <2>2 DEF Resumable, Found
  <2>4. clientState \in Free BY <2>1, YieldFree
  <2> QED BY <1>2, <1>5, <2>3, <2>4, LeaveAdvances
<1>6. CASE Top(t).fn = "disconnect"
  BY <1>1, <1>2, <1>6, TopKnown DEF TameDisconnect, Stands, Stores
<1>7. CASE Top(t).fn = "attempt_reconnect"
  BY <1>1, <1>2, <1>7, TopKnown DEF TameReconnect, Stands, Stores
<1>8. CASE Top(t).fn = "handle_disconnect"
  BY <1>1, <1>2, <1>8, TopKnown DEF TameLost, Stands, Stores
<1> QED BY <1>3, <1>4, <1>5, <1>6, <1>7, <1>8 DEF TameTop

\* While no call is under way the contract sees no operation and no renewal.
LEMMA AtRest ==
  ASSUME CtlTyped, clientState \in ClientStates, NEW t \in Threads, depth[t] = 0
  PROVE  OpsNow(t) = <<>> /\ Renewing(t) = FALSE /\ LosingIt(t) = FALSE
<1>1. stack[t] \in [1..MaxDepth -> Frames] BY DEF CtlTyped
<1>2. OpsOf(stack[t])[0] = Nothing BY <1>1, OpsUnfold DEF Unfolds
<1>3. Nothing[clientState] = <<>> BY DEF Nothing
<1>4. \A d \in 1..0 : FALSE OBVIOUS
<1> QED BY <1>2, <1>3, <1>4 DEF OpsNow, Renewing, LosingIt

\* The application calls the client.
LEMMA CallApiAdvances ==
  ASSUME NEW t \in Threads, Threads = {t}, Ready(t), CtlTyped', NEW fn \in ApiFns, CallApi(t, fn)
  PROVE  Advances(t)
<1>1. CtlTyped /\ Tame(t) /\ clientState \in ClientStates BY DEF Ready, EnvTyped
<1>2. depth[t] = 0 /\ depth'[t] = 1 /\ clientState' = clientState /\ ret' = ret
      /\ fn \in ApiFns \ {"set_autoreconnect"}
  BY <1>1 DEF CallApi, CtlTyped, state
<1>3. stack'[t][1] = NewFrame(fn)
  <2>1. 1 \in 1..MaxDepth BY BoundsAssumption
  <2>2. stack[t] \in [1..MaxDepth -> Frames] BY <1>1 DEF CtlTyped
  <2>3. stack'[t] = [stack[t] EXCEPT ![1] = NewFrame(fn)] BY <1>1 DEF CallApi, CtlTyped
  <2> QED BY <2>1, <2>2, <2>3
<1>4. NoFrame.fn = "none" BY DEF NoFrame, NewFrame
<1>5. clientState \in Found(NoFrame)
  <2>1. Word(NoFrame) = {"INITIALIZED"} BY <1>4, Words
  <2> QED BY <1>1, <1>2, <2>1 DEF Tame, TameStack, Found
<1>6. TameTop(NewFrame(fn), NoFrame, clientState', ret'[t]) BY <1>2, <1>4, <1>5, NewTame
<1>7. TameFrame(NewFrame(fn), NoFrame) BY DEF TameFrame, NewFrame
<1>8. (\A d \in 1..1 : d = 1) /\ (\A d \in 1..(1 - 1) : FALSE) OBVIOUS
<1>9. Tame(t)'
  <2>1. CallerOf(stack'[t], 1) = NoFrame BY DEF CallerOf
  <2>2. TameStack(stack'[t], 1, clientState', ret'[t]) BY <1>3, <1>6, <1>7, <1>8, <2>1 DEF TameStack
  <2> QED BY <1>2, <2>2 DEF Tame
<1>10. OpsNow(t) = <<>> /\ Renewing(t) = FALSE /\ LosingIt(t) = FALSE BY <1>1, <1>2, AtRest
<1>11. fn \in Fns /\ fn # "handle_disconnect" BY <1>2 DEF Fns, ApiFns, Requests
<1>12. OpsNow(t)' = <<>>
  <2> DEFINE other == stack'[t]
  <2>1. other \in [1..MaxDepth -> Frames] /\ 1 \in 1..MaxDepth BY BoundsAssumption DEF CtlTyped
  <2>2. OpsNow(t)' = OpsOf(other)[1][clientState] BY <1>2 DEF OpsNow
  <2>3. Unfolds(OpsOf(other), other, MaxDepth) BY <2>1, OpsUnfold
  <2>4. other[1] = NewFrame(fn) BY <1>3
  <2> HIDE DEF other
  <2>5. OpsOf(other)[1] = Atop(other[1], OpsOf(other)[1 - 1]) /\ OpsOf(other)[0] = Nothing
    BY <2>1, <2>3 DEF Unfolds
  <2>6. OpsOf(other)[1] = Atop(NewFrame(fn), Nothing) BY <2>4, <2>5
  <2>7. \A s \in Free : Nothing[s] = <<>> BY DEF Nothing, Free, ClientStates, ConnectedStates
  <2>8. Atop(NewFrame(fn), Nothing)[clientState] = Nothing[clientState]
    BY <1>1, <1>11, <2>7, NothingTyped, NewAtop
  <2>9. Nothing[clientState] = <<>> BY <1>1 DEF Nothing
  <2> QED BY <2>2, <2>6, <2>8, <2>9
<1>13. stack'[t][1].fn = fn /\ stack'[t][1].pc = "read" BY <1>3 DEF NewFrame
<1>14. Renewing(t)' = FALSE BY <1>2, <1>8, <1>13 DEF Renewing
<1>15. LosingIt(t)' = FALSE BY <1>2, <1>8, <1>11, <1>13 DEF LosingIt
<1>16. LinkOf(t)' = LinkOf(t) BY <1>2, <1>10, <1>15, LinkSame
<1>17. Refines BY <1>10, <1>12, <1>14, <1>16, Stutters
<1> QED BY <1>9, <1>17 DEF Advances

\* A step that leaves the calls and the state word alone.
LEMMA IdleAdvances ==
  ASSUME NEW t \in Threads, Threads = {t}, Tame(t), UNCHANGED <<clientState, stack, depth, ret>>
  PROVE  Advances(t)
<1>1. Tame(t)' BY DEF Tame
<1>2. LinkOf(t)' = LinkOf(t) BY LinkSame DEF LosingIt
<1>3. Renewing(t)' = Renewing(t) BY DEF Renewing
<1>4. OpsNow(t)' = OpsNow(t) BY DEF OpsNow
<1>5. Refines BY <1>2, <1>3, <1>4, Stutters
<1> QED BY <1>1, <1>5 DEF Advances

\* Every step keeps the invariant and follows the contract.
LEMMA AdvancesStep ==
  ASSUME NEW t, Threads = {t}, ~HandlerReconnects, TypeOK, TypeOK', Linked(t), Tame(t), [Next]_vars
  PROVE  Advances(t)
<1>1. t \in Threads /\ Ready(t) BY TypeSplit DEF Ready
<1>2. CtlTyped' /\ clientState' \in ClientStates BY DEF TypeOK, CtlTyped
<1>3. CASE UNCHANGED vars BY <1>1, <1>3, IdleAdvances DEF vars, state, env, ctl
<1>4. CASE CallStep(t)
  BY <1>1, <1>2, <1>4, StoreAdvances, ReturnAdvances, RequestAdvances, DeliverAdvances, ConnectAdvances,
     DisconnectAdvances, ReconnectAdvances, YieldAdvances, LostAdvances DEF CallStep
<1>5. CASE \E fn \in ApiFns : CallApi(t, fn) BY <1>1, <1>2, <1>5, CallApiAdvances
<1>6. CASE SetAutoreconnectStatus(t) BY <1>1, <1>6, IdleAdvances DEF SetAutoreconnectStatus, state, ctl
<1> QED BY <1>3, <1>4, <1>5, <1>6 DEF Next

\* It holds at first, where the contract begins.
LEMMA TameInit ==
  ASSUME NEW t, Threads = {t}, Init PROVE Tame(t) /\ Contract!Init
<1>1. t \in Threads /\ depth[t] = 0 /\ clientState = "INITIALIZED" BY DEF Init, InitIn
<1>2. Tame(t) BY <1>1 DEF Tame, TameStack
<1>3. TypeOK BY TypeInit
<1>4. CtlTyped /\ clientState \in ClientStates BY <1>3, TypeSplit DEF EnvTyped
<1>5. OpsNow(t) = <<>> /\ Renewing(t) = FALSE BY <1>1, <1>4, AtRest
<1>6. LinkOf(t) = "new" BY <1>1, Links
<1> QED BY <1>2, <1>5, <1>6, UserIs DEF Contract!Init

\* The client, used by one thread whose disconnect handler does not reconnect,
\* implements the contract, however deep calls nest.
THEOREM ContractImplemented ==
  ASSUME NEW t, Threads = {t}, ~HandlerReconnects PROVE Spec => ImplementsContract
<1>1. Init => Tame(t) /\ Contract!Init BY TameInit
<1>2. TypeOK /\ TypeOK' /\ Linked(t) /\ Tame(t) /\ [Next]_vars
        => Tame(t)' /\ [Contract!Next]_(Contract!contract)
  BY AdvancesStep DEF Advances, Refines
<1>3. Spec => []TypeOK BY TypeCorrect
<1>4. Spec => []Linked(t) BY LinkedAlways
<1> QED BY <1>1, <1>2, <1>3, <1>4, PTL DEF Spec, ImplementsContract, Contract!Spec
=============================================================================
