------------------------------ MODULE PacketReader ------------------------------
(***************************************************************************)
(* How the client cuts the stream of bytes it receives into packets:       *)
(* iot_tls_read, decode_packet_remaining_len and read_packet.              *)
(*                                                                         *)
(* A byte is a header, a byte of a remaining length, or a byte of a body.  *)
(* A reader that has lost its place may take one for another; what such a  *)
(* byte then says is arbitrary.  Timers count down in ticks, 0 is expired. *)
(***************************************************************************)
EXTENDS Naturals, Sequences, SequencesExt

CONSTANTS
  None,
  Radix,         \* 128, the base of a remaining length
  SizeLimit,     \* 2^64, where size_t starts again at 0
  BufSize,       \* readBufSize
  PacketTimeout  \* packetTimeoutMs

ASSUME ReaderAssumption ==
  /\ Radix \in Nat \ {0, 1} /\ SizeLimit \in Nat \ {0}
  /\ BufSize \in Nat \ {0} /\ PacketTimeout \in Nat
  /\ None \notin Nat

VARIABLES
  pc,            \* what the thread does: a read of part of a packet, or else
  rc,            \* what read_packet and then cycle_read returned
  header,        \* the packet type in readBuf[0]
  rem, mult,     \* rem_len and multiplier of the decoding
  left,          \* bytes the current read still has to read
  yieldTimer, packetTimer,
  wire,          \* the bytes on their way, in order
  arrived,       \* how many of them can be read now
  link,          \* "up", "silent" (nothing passes any more) or "closed"
  genuine        \* the remaining length the peer gave the packet being read;
                 \* None when the reader took another byte for its header

readVars == <<pc, rc, header, rem, mult, left, packetTimer, genuine>>

Types == {"PUBLISH", "SUBACK", "PINGRESP", "other"}
Reading == {"header", "length", "drain", "body"}

\* aws_iot_mqtt_internal_write_len_to_buffer, the encoding of a length.
LengthBytes(n) ==
  LET enc[k \in 0..n] ==
        IF k < Radix
        THEN <<[kind |-> "length", digit |-> k, more |-> FALSE]>>
        ELSE <<[kind |-> "length", digit |-> k % Radix, more |-> TRUE]>> \o enc[k \div Radix]
  IN enc[n]

\* The bytes of a packet with a remaining length of n.
Packet(type, n) ==
  <<[kind |-> "header", type |-> type, rem |-> n]>> \o LengthBytes(n)
  \o [i \in 1..n |-> [kind |-> "body"]]

\* Where the body of a packet goes: in readBuf behind the header and the length.
BodyStart(n) == 1 + Len(LengthBytes(n))

\* The values a reader has before it has read anything.
Fresh == rc' = "SUCCESS" /\ header' = "other" /\ genuine' = None /\ rem' = 0 /\ mult' = 1

\* read_packet starts: the header is read with the caller's timer.
StartRead ==
  /\ pc' = "header"
  /\ packetTimer' = PacketTimeout
  /\ left' = 1
  /\ Fresh

\* The locals of a reader that has returned are of no use to anybody.
Forget == packetTimer' = 0 /\ left' = 0 /\ Fresh

Timer == IF pc = "header" THEN yieldTimer ELSE packetTimer

Take == arrived > 0 /\ wire' = Tail(wire) /\ arrived' = arrived - 1

\* read_packet ends; cycle_read is to handle the packet, or to return.
EndRead(result) ==
  /\ pc' = IF result = "packet" THEN "dispatch" ELSE "cycled"
  /\ rc' = result

HeaderByte ==
  /\ pc = "header" /\ Take
  /\ \/ /\ Head(wire).kind = "header"
        /\ header' = Head(wire).type /\ genuine' = Head(wire).rem
     \/ /\ Head(wire).kind # "header"
        /\ header' \in Types /\ genuine' = None
  /\ pc' = "length" /\ left' = 1 /\ rem' = 0 /\ mult' = 1
  /\ UNCHANGED <<rc, yieldTimer, packetTimer, link>>

\* Mutant: a packet that does not fit is read like any other.
LengthKnownUnchecked(n) ==
  \/ n > 0 /\ pc' = "body" /\ left' = n /\ UNCHANGED rc
  \/ n = 0 /\ EndRead("packet") /\ left' = 0

\* The remaining length is complete.  It alone is compared with the size of the
\* buffer, although the body is stored behind header and length: see ReadEnd.
LengthKnown(n) ==
  \/ n >= BufSize /\ pc' = "drain" /\ left' = BufSize /\ UNCHANGED rc
  \/ n \in 1..(BufSize - 1) /\ pc' = "body" /\ left' = n /\ UNCHANGED rc
  \/ n = 0 /\ EndRead("packet") /\ left' = 0

\* Mutant: the multiplier is not carried on.
LengthByteFlat ==
  /\ pc = "length" /\ Take
  /\ \E digit \in 0..(Radix - 1), more \in BOOLEAN :
       /\ Head(wire).kind = "length" => digit = Head(wire).digit /\ more = Head(wire).more
       /\ rem' = (rem + digit) % SizeLimit
       /\ \/ more /\ UNCHANGED <<pc, rc, left>>
          \/ ~more /\ LengthKnown(rem')
  /\ UNCHANGED <<mult, header, genuine, yieldTimer, packetTimer, link>>

\* One turn of decode_packet_remaining_len.  Its guard against more than
\* MAX_NO_OF_REMAINING_LENGTH_BYTES tests a variable that each read sets to 1;
\* it never fires and is left out.
LengthByte ==
  /\ pc = "length" /\ Take
  /\ \E digit \in 0..(Radix - 1), more \in BOOLEAN :
       /\ Head(wire).kind = "length" => digit = Head(wire).digit /\ more = Head(wire).more
       /\ rem' = (rem + digit * mult) % SizeLimit
       /\ mult' = (mult * Radix) % SizeLimit
       /\ \/ more /\ UNCHANGED <<pc, rc, left>>
          \/ ~more /\ LengthKnown(rem')
  /\ UNCHANGED <<header, genuine, yieldTimer, packetTimer, link>>

\* A packet that does not fit is read in pieces of the size of the buffer, and
\* dropped.  Here rem is what is left of it.
DrainByte ==
  /\ pc = "drain" /\ Take
  /\ rem' = rem - 1
  /\ \/ left > 1 /\ packetTimer > 0 /\ left' = left - 1 /\ UNCHANGED <<pc, rc>>
     \/ left > 1 /\ packetTimer = 0 /\ left' = 0 /\ EndRead("TOO_SHORT")
     \/ left = 1 /\ rem' = 0 /\ left' = 0 /\ EndRead("TOO_SHORT")
     \/ /\ left = 1 /\ rem' > 0
        /\ left' = IF rem' >= BufSize THEN BufSize ELSE rem'
        /\ UNCHANGED <<pc, rc>>
  /\ UNCHANGED <<header, mult, genuine, yieldTimer, packetTimer, link>>

BodyByte ==
  /\ pc = "body" /\ Take
  /\ left' = left - 1
  /\ \/ left' > 0 /\ packetTimer > 0 /\ UNCHANGED <<pc, rc>>
     \/ left' > 0 /\ packetTimer = 0 /\ EndRead("FAILURE")
     \/ left' = 0 /\ EndRead("packet")
  /\ UNCHANGED <<header, rem, mult, genuine, yieldTimer, packetTimer, link>>

\* Mutant: an expired timer ends the reading of a remaining length in silence.
ReadExpiresSilently ==
  /\ pc \in Reading /\ arrived = 0 /\ link # "closed" /\ Timer = 0
  /\ EndRead(IF pc \in {"header", "length"} THEN "SUCCESS"
             ELSE IF pc = "drain" THEN "TOO_SHORT" ELSE "FAILURE")
  /\ left' = 0
  /\ UNCHANGED <<header, rem, mult, genuine, yieldTimer, packetTimer, wire, arrived, link>>

\* What read_packet makes of a read that ends without all of its bytes:
\* the failures of a header and of a length are passed on, those of a body
\* become FAILURE.
ReadExpires ==
  /\ pc \in Reading /\ arrived = 0 /\ link # "closed" /\ Timer = 0
  /\ EndRead(CASE pc = "header" -> "SUCCESS"     \* MQTT_NOTHING_TO_READ
               [] pc = "length" -> "NOTHING_TO_READ"
               [] pc = "drain"  -> "TOO_SHORT"
               [] pc = "body"   -> "FAILURE")
  /\ left' = 0
  /\ UNCHANGED <<header, rem, mult, genuine, yieldTimer, packetTimer, wire, arrived, link>>

ReadError ==
  /\ pc \in Reading /\ arrived = 0 /\ link = "closed"
  /\ EndRead(CASE pc \in {"header", "length"} -> "READ_ERROR"
               [] pc = "drain"  -> "TOO_SHORT"
               [] pc = "body"   -> "FAILURE")
  /\ left' = 0
  /\ UNCHANGED <<header, rem, mult, genuine, yieldTimer, packetTimer, wire, arrived, link>>

\* Where in readBuf the read of a body, or of a piece that is dropped, ends.
ReadEnd == IF pc = "body" THEN BodyStart(rem) + rem ELSE left

ReaderStep ==
  HeaderByte \/ LengthByte \/ DrainByte \/ BodyByte \/ ReadExpires \/ ReadError
=============================================================================
