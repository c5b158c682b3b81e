---------------------------- MODULE ClientContract ----------------------------
(***************************************************************************)
(* What the MQTT client promises an application that uses it from one      *)
(* thread.  The client has a link to the broker and, while the link is up, *)
(* a stack of operations: an operation begins on an idle client or inside  *)
(* a message callback, a callback runs inside an operation, and the last   *)
(* one begun is the first to end.  With the link all operations go.        *)
(*                                                                         *)
(* The C code has no such stack.  It has one state word, and each function *)
(* under way keeps in a local variable the word it found.                  *)
(***************************************************************************)
EXTENDS Sequences, SequencesExt, ClientState

VARIABLES
  link,      \* the connection to the broker
  renewing,  \* a yield is renewing a lost connection
  ops        \* the operations under way, the innermost last

contract == <<link, renewing, ops>>

Idle == link = "up" /\ ops = <<>>

InCallback == link = "up" /\ ops # <<>> /\ Last(ops) = "callback"

\* The operations a message callback may begin.
FromCallback == {"publish", "subscribe", "unsubscribe"}

Begin(op) ==
  /\ Idle \/ (InCallback /\ op \in FromCallback)
  /\ ops' = Append(ops, op)
  /\ UNCHANGED <<link, renewing>>

\* A message may find the client idle: it is read by an operation that began
\* on an earlier connection, which a callback or the yield itself has replaced.
Deliver ==
  /\ link = "up"
  /\ ~InCallback
  /\ ops' = Append(ops, "callback")
  /\ UNCHANGED <<link, renewing>>

End ==
  /\ link = "up"
  /\ ops # <<>>
  /\ ops' = Front(ops)
  /\ UNCHANGED <<link, renewing>>

Connect ==
  /\ link \in {"new", "closed", "lost", "waiting"}
  /\ link' = "connecting"
  /\ UNCHANGED <<renewing, ops>>

ConnectEnds ==
  /\ link = "connecting"
  /\ link' \in {"up", "lost"}
  /\ UNCHANGED <<renewing, ops>>

Disconnect ==
  /\ link = "up"
  /\ link' = "closing"
  /\ UNCHANGED <<renewing, ops>>

\* A disconnect that fails changes nothing; one that succeeds ends all
\* operations.
DisconnectEnds ==
  /\ link = "closing"
  /\ \/ link' = "up" /\ UNCHANGED ops
     \/ link' \in {"closed", "lost"} /\ ops' = <<>>
  /\ UNCHANGED renewing

\* A connection is given up only while nothing but a yield is under way; the
\* client is never taken away from a publish or from a callback.
Lose ==
  /\ link = "up"
  /\ ops \in {<<>>, <<"yield">>}
  /\ link' = "lost"
  /\ ops' = <<>>
  /\ UNCHANGED renewing

\* Only a lost connection makes the client wait for a renewal.
Wait ==
  /\ link = "lost"
  /\ link' = "waiting"
  /\ UNCHANGED <<renewing, ops>>

Renew ==
  /\ link = "waiting"
  /\ renewing' = TRUE
  /\ UNCHANGED <<link, ops>>

\* A client that was closed on purpose is opened again by a connect only, with
\* one exception: when a callback closes it during a renewal, the yield that
\* renews takes the connection for lost once more.  A renewal may be part of
\* another one, through a callback that connects and yields.
RenewEnds ==
  /\ renewing
  /\ renewing' \in BOOLEAN
  /\ link' = link \/ (link = "closed" /\ link' = "lost")
  /\ UNCHANGED ops

Init == link = "new" /\ renewing = FALSE /\ ops = <<>>

Next ==
  \/ \E op \in Requests \cup {"yield"} : Begin(op)
  \/ Deliver \/ End
  \/ Connect \/ ConnectEnds \/ Disconnect \/ DisconnectEnds
  \/ Lose \/ Wait \/ Renew \/ RenewEnds

Spec == Init /\ [][Next]_contract
=============================================================================
