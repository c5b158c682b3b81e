--------------------------- MODULE ReceiveLoopProofs ---------------------------
(***************************************************************************)
(* Theorems about ReceiveLoop, for every buffer, radix, timeout and peer:  *)
(* the types, the decoding of lengths, the place of the reader in the      *)
(* stream, and what keep_alive makes of a live peer and of a dead one.     *)
(***************************************************************************)
EXTENDS ReceiveLoop, FiniteSetTheorems, SequenceTheorems, TLAPS

-----------------------------------------------------------------------------
(* Division.                                                               *)

LEMMA DivMod ==
  \A n \in Nat, r \in Nat \ {0} :
    /\ n = r * (n \div r) + (n % r)
    /\ n % r \in 0..(r - 1) /\ n \div r \in Nat
    /\ n < r => n % r = n
  OBVIOUS

LEMMA DivLess ==
  \A n \in Nat, r \in Nat \ {0, 1} :
    /\ \A q \in Nat : n < r * q => n \div r < q
    /\ n >= r => n \div r < n /\ n \div r >= 1
  OBVIOUS

\* What is left to add when one digit of a length has been added.
LEMMA DigitAdds ==
  \A a, d, q, m, r \in Nat : (a + d * m) + q * (m * r) = a + (r * q + d) * m
  OBVIOUS

-----------------------------------------------------------------------------
(* The encoding of a length of up to four digits.                          *)

LastDigit(k) == <<[kind |-> "length", digit |-> k, more |-> FALSE]>>
MoreDigit(k) == <<[kind |-> "length", digit |-> k % Radix, more |-> TRUE]>>

Two(k) == IF k < Radix THEN LastDigit(k) ELSE MoreDigit(k) \o LastDigit(k \div Radix)
Three(k) == IF k < Radix THEN LastDigit(k) ELSE MoreDigit(k) \o Two(k \div Radix)
Four(k) == IF k < Radix THEN LastDigit(k) ELSE MoreDigit(k) \o Three(k \div Radix)

Encodable == {n \in Nat : n < Radix * Radix * Radix * Radix}

LEMMA Divided ==
  ASSUME NEW k \in Encodable
  PROVE  /\ k \div Radix \in Nat /\ k \div Radix \in 0..k
         /\ k \div Radix < Radix * Radix * Radix /\ k \div Radix \in Encodable
         /\ k < Radix * Radix * Radix => k \div Radix < Radix * Radix
         /\ k < Radix * Radix => k \div Radix < Radix
  <1> DEFINE a == Radix * Radix
             b == Radix * Radix * Radix
             q == k \div Radix
  <1>1. a \in Nat /\ b \in Nat /\ k \in Nat /\ Radix \in Nat \ {0, 1}
    BY ReaderAssumption DEF Encodable
  <1>2. Radix * a = b /\ k < Radix * b
    BY <1>1 DEF Encodable
  <1>3. q \in Nat
    BY <1>1, DivMod
  <1>4. q <= k
    <2>1. CASE k < Radix
      BY <2>1, <1>1
    <2>2. CASE k >= Radix
      BY <2>2, <1>1, DivLess
    <2> QED BY <2>1, <2>2, <1>1
  <1>5. q < b /\ (k < b => q < a) /\ (k < a => q < Radix)
    BY <1>1, <1>2, DivLess
  <1>6. q \in Encodable
    BY <1>3, <1>4, <1>1 DEF Encodable
  <1> QED BY <1>1, <1>3, <1>4, <1>5, <1>6

LEMMA DigitCounts ==
  ASSUME NEW k \in Encodable
  PROVE  /\ k < Radix * Radix => Two(k) = Three(k)
         /\ k < Radix * Radix * Radix => Three(k) = Four(k)
  <1>0. Radix \in Nat \ {0, 1} BY ReaderAssumption
  <1>1. \A m \in Encodable : m < Radix => LastDigit(m) = Two(m)
    BY DEF Two
  <1>2. \A m \in Encodable : m < Radix * Radix => Two(m) = Three(m)
    BY <1>1, Divided DEF Two, Three
  <1>3. \A m \in Encodable : m < Radix * Radix * Radix => Three(m) = Four(m)
    BY <1>2, Divided DEF Four, Three
  <1> QED BY <1>2, <1>3

\* The encoding is the digits, least first; the last says that no more follow.
LEMMA Encoding ==
  ASSUME NEW n \in Encodable
  PROVE  LengthBytes(n) = Four(n)
  <1> DEFINE Turn(f, k) == IF k < Radix THEN LastDigit(k) ELSE MoreDigit(k) \o f[k \div Radix]
             E == CHOOSE f : f = [k \in 0..n |-> Turn(f, k)]
             F == [k \in 0..n |-> Four(k)]
  <1>0. Radix \in Nat \ {0, 1} /\ n \in Nat
    BY ReaderAssumption DEF Encodable
  <1>1. \A k \in 0..n : k \in Encodable
    BY <1>0 DEF Encodable
  <1>2. LengthBytes(n) = E[n]
    BY DEF LengthBytes, LastDigit, MoreDigit
  <1>3. \A k \in 0..n : Four(k) = Turn(F, k)
    <2> TAKE k \in 0..n
    <2>1. CASE k < Radix
      BY <2>1 DEF Four
    <2>2. CASE ~(k < Radix)
      <3>1. k \div Radix \in 0..n /\ k \div Radix \in Encodable /\ k \div Radix < Radix * Radix * Radix
        BY <1>0, <1>1, Divided
      <3>2. F[k \div Radix] = Three(k \div Radix)
        BY <3>1, DigitCounts
      <3> QED BY <2>2, <3>2 DEF Four
    <2> QED BY <2>1, <2>2
  <1>4. F = [k \in 0..n |-> Turn(F, k)]
    BY <1>3
  <1>5. E = [k \in 0..n |-> Turn(E, k)]
    BY <1>4
  <1> HIDE DEF E, F
  <1>6. \A k \in 0..n : E[k] = Turn(E, k)
    BY <1>5
  <1>7. \A k \in 0..n : k < Radix => E[k] = LastDigit(k)
    BY <1>6
  <1>8. \A k \in 0..n : k \div Radix \in 0..n
    BY <1>0, <1>1, Divided
  <1>9. \A k \in 0..n : k < Radix * Radix => E[k] = Two(k)
    BY <1>6, <1>7, <1>1, <1>8, Divided DEF Two
  <1>10. \A k \in 0..n : k < Radix * Radix * Radix => E[k] = Three(k)
    BY <1>6, <1>9, <1>1, <1>8, Divided DEF Three
  <1>11. E[n] = Four(n)
    BY <1>6, <1>10, <1>1, <1>0, <1>8, Divided DEF Four
  <1> QED BY <1>2, <1>11
-----------------------------------------------------------------------------
(* Bytes and packets.                                                      *)

Lengths == {n \in Encodable : n < SizeLimit}
HeaderBytes == [kind : {"header"}, type : Types, rem : Lengths]
DigitBytes == [kind : {"length"}, digit : 0..(Radix - 1), more : BOOLEAN]
BodyBytes == [kind : {"body"}]
Byte == HeaderBytes \cup DigitBytes \cup BodyBytes

Body(n) == [i \in 1..n |-> [kind |-> "body"]]

LEMMA Kinds ==
  ASSUME NEW b \in Byte
  PROVE  /\ b.kind = "header" => b.type \in Types /\ b.rem \in Lengths
         /\ b.kind = "length" => b.digit \in 0..(Radix - 1) /\ b.more \in BOOLEAN
  BY DEF Byte, HeaderBytes, DigitBytes, BodyBytes

LEMMA BodyTyped ==
  ASSUME NEW n \in Nat
  PROVE  /\ Body(n) \in Seq(BodyBytes) /\ Body(n) \in Seq(Byte) /\ Len(Body(n)) = n
         /\ \A i \in 1..n : Body(n)[i].kind = "body"
  BY DEF Body, BodyBytes, Byte

LEMMA LastDigitTyped ==
  ASSUME NEW k \in Nat, k < Radix
  PROVE  LastDigit(k) \in Seq(DigitBytes) /\ Len(LastDigit(k)) = 1
  BY ReaderAssumption DEF LastDigit, DigitBytes

LEMMA MoreDigitTyped ==
  ASSUME NEW k \in Nat
  PROVE  MoreDigit(k) \in Seq(DigitBytes) /\ Len(MoreDigit(k)) = 1
  <1>1. k % Radix \in 0..(Radix - 1)
    BY ReaderAssumption, DivMod
  <1> QED BY <1>1 DEF MoreDigit, DigitBytes

\* One turn of the encoding, and what it consists of.
LEMMA EncodingTurn ==
  ASSUME NEW n \in Encodable
  PROVE  /\ n < Radix => LengthBytes(n) = LastDigit(n)
         /\ n >= Radix => LengthBytes(n) = MoreDigit(n) \o LengthBytes(n \div Radix)
  <1>0. Radix \in Nat \ {0, 1} /\ n \in Nat
    BY ReaderAssumption DEF Encodable
  <1>1. LengthBytes(n) = Four(n)
    BY Encoding
  <1>2. n \div Radix \in Encodable /\ n \div Radix < Radix * Radix * Radix
    BY Divided
  <1>3. LengthBytes(n \div Radix) = Three(n \div Radix)
    BY <1>2, Encoding, DigitCounts
  <1> QED BY <1>0, <1>1, <1>3 DEF Four

LEMMA EncodingTyped ==
  ASSUME NEW n \in Encodable
  PROVE  LengthBytes(n) \in Seq(DigitBytes) /\ Len(LengthBytes(n)) >= 1
  <1>0. Radix \in Nat \ {0, 1} /\ n \in Nat
    BY ReaderAssumption DEF Encodable
  <1> DEFINE OK(s) == s \in Seq(DigitBytes) /\ Len(s) >= 1
  <1>1. \A k \in Encodable : k < Radix => OK(LastDigit(k))
    BY <1>0, LastDigitTyped DEF Encodable
  <1>2. \A k \in Encodable, s \in Seq(DigitBytes) : OK(MoreDigit(k) \o s)
    BY <1>0, MoreDigitTyped, ConcatProperties DEF Encodable
  <1>3. \A k \in Encodable : k < Radix * Radix => OK(Two(k))
    BY <1>0, <1>1, <1>2, Divided DEF Two, Encodable
  <1>4. \A k \in Encodable : k < Radix * Radix * Radix => OK(Three(k))
    BY <1>0, <1>1, <1>2, <1>3, Divided DEF Three, Encodable
  <1>5. OK(Four(n))
    BY <1>0, <1>1, <1>2, <1>4, Divided DEF Four, Encodable
  <1> QED BY <1>5, Encoding

LEMMA DigitsAreBytes ==
  ASSUME NEW s \in Seq(DigitBytes)
  PROVE  s \in Seq(Byte) /\ \A i \in 1..Len(s) : s[i].kind = "length"
  <1>1. \A i \in 1..Len(s) : s[i] \in DigitBytes
    BY ElementOfSeq
  <1>2. \A i \in 1..Len(s) : s[i].kind = "length"
    BY <1>1 DEF DigitBytes
  <1>3. DigitBytes \subseteq Byte
    BY DEF Byte
  <1>4. s \in Seq(Byte)
    BY <1>3, SeqMonotonic
  <1> QED BY <1>2, <1>4

\* The sequence u is s followed by t.
Joins(u, s, t) ==
  /\ u \in Seq(Byte) /\ Len(s) \in Nat /\ Len(t) \in Nat /\ Len(u) = Len(s) + Len(t)
  /\ \A i \in 1..Len(s) : u[i] = s[i]
  /\ \A i \in 1..Len(t) : u[i + Len(s)] = t[i]

LEMMA Join ==
  ASSUME NEW s \in Seq(Byte), NEW t \in Seq(Byte)
  PROVE  Joins(s \o t, s, t)
  <1>1. Len(s) \in Nat /\ Len(t) \in Nat
    BY LenProperties
  <1> QED BY <1>1, ConcatProperties DEF Joins

\* A packet is a header, its length and its body.
LEMMA PacketTyped ==
  ASSUME NEW type \in Types, NEW n \in Lengths
  PROVE  /\ LengthBytes(n) \o Body(n) \in Seq(Byte)
         /\ Packet(type, n) \in Seq(Byte)
         /\ Len(Packet(type, n)) = 1 + Len(LengthBytes(n) \o Body(n))
         /\ Len(Packet(type, n)) >= 2
         /\ Packet(type, n)[1] = [kind |-> "header", type |-> type, rem |-> n]
         /\ Packet(type, n)[1].kind = "header"
         /\ \A i \in 1..Len(LengthBytes(n) \o Body(n)) :
              /\ Packet(type, n)[i + 1] = (LengthBytes(n) \o Body(n))[i]
              /\ Packet(type, n)[i + 1].kind # "header"
  <1> DEFINE h == <<[kind |-> "header", type |-> type, rem |-> n]>>
             l == LengthBytes(n)
             b == Body(n)
  <1>0. n \in Nat /\ n \in Encodable
    BY DEF Lengths, Encodable
  <1>1. h \in Seq(Byte) /\ Len(h) = 1 /\ h[1] = [kind |-> "header", type |-> type, rem |-> n]
    BY DEF Byte, HeaderBytes
  <1>2. l \in Seq(Byte) /\ Len(l) \in Nat /\ Len(l) >= 1 /\ \A i \in 1..Len(l) : l[i].kind = "length"
    BY <1>0, EncodingTyped, DigitsAreBytes, LenProperties
  <1>3. b \in Seq(Byte) /\ Len(b) = n /\ \A i \in 1..n : b[i].kind = "body"
    BY <1>0, BodyTyped
  <1>4. Packet(type, n) = (h \o l) \o b
    BY DEF Packet, Body
  <1> HIDE DEF h, l, b
  <1>5. (h \o l) \o b = h \o (l \o b)
    <2>1. h \in Seq(Byte) /\ l \in Seq(Byte) /\ b \in Seq(Byte)
      BY <1>1, <1>2, <1>3
    <2> QED BY <2>1, ConcatAssociative
  <1> DEFINE r == l \o b
  <1>6. /\ r \in Seq(Byte) /\ Len(r) \in Nat /\ Len(r) = Len(l) + n /\ Len(r) >= 1
        /\ \A i \in 1..Len(l) : r[i] = l[i]
        /\ \A i \in 1..n : r[i + Len(l)] = b[i]
    <2>1. Joins(r, l, b)
      BY <1>2, <1>3, Join
    <2> HIDE DEF r
    <2> QED BY <2>1, <1>0, <1>2, <1>3 DEF Joins
  <1> HIDE DEF r
  <1>7. \A i \in 1..Len(r) : r[i].kind # "header"
    <2> TAKE i \in 1..Len(r)
    <2>1. CASE i \in 1..Len(l)
      BY <2>1, <1>2, <1>6
    <2>2. CASE i \notin 1..Len(l)
      <3>1. i - Len(l) \in 1..n /\ i = (i - Len(l)) + Len(l)
        BY <2>2, <1>0, <1>2, <1>6
      <3>2. r[(i - Len(l)) + Len(l)] = b[i - Len(l)]
        BY <3>1, <1>6
      <3> QED BY <3>1, <3>2, <1>3
    <2> QED BY <2>1, <2>2
  <1>8. /\ h \o r \in Seq(Byte) /\ Len(h \o r) = 1 + Len(r)
        /\ (h \o r)[1] = h[1]
        /\ \A i \in 1..Len(r) : (h \o r)[i + 1] = r[i]
    <2>1. Joins(h \o r, h, r) /\ Len(h) = 1
      BY <1>1, <1>6, Join
    <2> DEFINE p == h \o r
    <2> HIDE DEF p
    <2>2. Joins(p, h, r)
      BY <2>1 DEF p
    <2>3. /\ p \in Seq(Byte) /\ Len(p) = 1 + Len(r) /\ p[1] = h[1]
          /\ \A i \in 1..Len(r) : p[i + 1] = r[i]
      BY <2>1, <2>2 DEF Joins
    <2> QED BY <2>3 DEF p
  <1>9. Packet(type, n) = h \o r
    BY <1>4, <1>5 DEF r
  <1>10. r = LengthBytes(n) \o Body(n)
    BY DEF r, l, b
  <1>11. h[1] = [kind |-> "header", type |-> type, rem |-> n] /\ h[1].kind = "header"
    BY <1>1
  <1> DEFINE p == Packet(type, n)
             t == LengthBytes(n) \o Body(n)
  <1> HIDE DEF p, t
  <1>12. /\ t \in Seq(Byte) /\ p \in Seq(Byte) /\ Len(p) = 1 + Len(t) /\ Len(p) >= 2
         /\ p[1] = [kind |-> "header", type |-> type, rem |-> n] /\ p[1].kind = "header"
         /\ \A i \in 1..Len(t) : p[i + 1] = t[i] /\ p[i + 1].kind # "header"
    <2>1. p = h \o r /\ t = r
      BY <1>9, <1>10 DEF p, t
    <2>2. /\ p \in Seq(Byte) /\ Len(p) = 1 + Len(r) /\ p[1] = h[1]
          /\ \A i \in 1..Len(r) : p[i + 1] = r[i]
      BY <2>1, <1>8
    <2> HIDE DEF p
    <2> QED BY <2>1, <2>2, <1>6, <1>7, <1>11
  <1> QED BY <1>12 DEF p, t
-----------------------------------------------------------------------------
(* Where packets lie in the stream.                                        *)

\* From its place i on, w holds s, as far as it goes, and then a header.  While
\* the link is up, all of s is there.
Fits(w, up, i, s) ==
  /\ \A j \in 1..Len(s) : i + j - 1 <= Len(w) => w[i + j - 1] = s[j]
  /\ i + Len(s) <= Len(w) => w[i + Len(s)].kind = "header"
  /\ up => i + Len(s) <= Len(w) + 1

\* Every header in w begins a packet.
Frames(w, up) ==
  \A i \in 1..Len(w) : w[i].kind = "header" => Fits(w, up, i, Packet(w[i].type, w[i].rem))

LEMMA TailTyped ==
  ASSUME NEW S, NEW w \in Seq(S), w # <<>>
  PROVE  /\ Tail(w) \in Seq(S) /\ Head(w) = w[1] /\ Head(w) \in S
         /\ Len(w) \in Nat /\ Len(w) >= 1 /\ Len(Tail(w)) = Len(w) - 1
         /\ \A i \in 1..(Len(w) - 1) : Tail(w)[i] = w[i + 1]
  <1>1. Len(w) \in Nat /\ Len(w) # 0
    BY LenProperties, EmptySeq
  <1> QED BY <1>1, HeadTailProperties

LEMMA FitsTail ==
  ASSUME NEW w \in Seq(Byte), w # <<>>, NEW up \in BOOLEAN, NEW s \in Seq(Byte),
         NEW i \in Nat, i >= 2, Fits(w, up, i, s)
  PROVE  Fits(Tail(w), up, i - 1, s)
  <1> DEFINE v == Tail(w)
  <1>1. /\ Len(w) \in Nat /\ Len(w) >= 1 /\ Len(v) = Len(w) - 1
        /\ \A k \in 1..(Len(w) - 1) : v[k] = w[k + 1]
    BY TailTyped
  <1> HIDE DEF v
  <1>2. Len(s) \in Nat
    BY LenProperties
  <1>3. ASSUME NEW j \in 1..Len(s), (i - 1) + j - 1 <= Len(v)
        PROVE  v[(i - 1) + j - 1] = s[j]
    <2>1. (i - 1) + j - 1 \in 1..(Len(w) - 1) /\ ((i - 1) + j - 1) + 1 = i + j - 1 /\ i + j - 1 <= Len(w)
      BY <1>1, <1>2, <1>3
    <2>2. v[(i - 1) + j - 1] = w[i + j - 1]
      BY <2>1, <1>1
    <2>3. w[i + j - 1] = s[j]
      BY <2>1 DEF Fits
    <2> QED BY <2>2, <2>3
  <1>4. ASSUME (i - 1) + Len(s) <= Len(v)
        PROVE  v[(i - 1) + Len(s)].kind = "header"
    <2>1. (i - 1) + Len(s) \in 1..(Len(w) - 1) /\ ((i - 1) + Len(s)) + 1 = i + Len(s) /\ i + Len(s) <= Len(w)
      BY <1>1, <1>2, <1>4
    <2>2. v[(i - 1) + Len(s)] = w[i + Len(s)]
      BY <2>1, <1>1
    <2>3. w[i + Len(s)].kind = "header"
      BY <2>1 DEF Fits
    <2> QED BY <2>2, <2>3
  <1>5. up => (i - 1) + Len(s) <= Len(v) + 1
    BY <1>1, <1>2 DEF Fits
  <1>6. Fits(v, up, i - 1, s)
    BY <1>3, <1>4, <1>5 DEF Fits
  <1> QED BY <1>6 DEF v

LEMMA FitsNext ==
  ASSUME NEW w \in Seq(Byte), w # <<>>, NEW up \in BOOLEAN, NEW s \in Seq(Byte), s # <<>>,
         Fits(w, up, 1, s)
  PROVE  Head(w) = s[1] /\ Fits(Tail(w), up, 1, Tail(s))
  <1> DEFINE v == Tail(w)
             t == Tail(s)
  <1>1. /\ Len(w) \in Nat /\ Len(w) >= 1 /\ Len(v) = Len(w) - 1 /\ Head(w) = w[1]
        /\ \A k \in 1..(Len(w) - 1) : v[k] = w[k + 1]
    BY TailTyped
  <1>2. /\ Len(s) \in Nat /\ Len(s) >= 1 /\ Len(t) = Len(s) - 1
        /\ \A k \in 1..(Len(s) - 1) : t[k] = s[k + 1]
    BY TailTyped
  <1> HIDE DEF v, t
  <1>3. Head(w) = s[1]
    <2>1. 1 \in 1..Len(s) /\ 1 + 1 - 1 = 1 /\ 1 + 1 - 1 <= Len(w)
      BY <1>1, <1>2
    <2>2. w[1 + 1 - 1] = s[1]
      BY <2>1 DEF Fits
    <2> QED BY <1>1, <2>1, <2>2
  <1>4. ASSUME NEW j \in 1..Len(t), 1 + j - 1 <= Len(v)
        PROVE  v[1 + j - 1] = t[j]
    <2>1. /\ 1 + j - 1 = j /\ j \in 1..(Len(w) - 1) /\ j \in 1..(Len(s) - 1)
          /\ 1 + (j + 1) - 1 = j + 1 /\ j + 1 \in 1..Len(s) /\ 1 + (j + 1) - 1 <= Len(w)
      BY <1>1, <1>2, <1>4
    <2>2. v[j] = w[j + 1] /\ t[j] = s[j + 1]
      BY <2>1, <1>1, <1>2
    <2>3. w[1 + (j + 1) - 1] = s[j + 1]
      BY <2>1 DEF Fits
    <2> QED BY <2>1, <2>2, <2>3
  <1>5. ASSUME 1 + Len(t) <= Len(v)
        PROVE  v[1 + Len(t)].kind = "header"
    <2>1. 1 + Len(t) = Len(s) /\ Len(s) \in 1..(Len(w) - 1) /\ Len(s) + 1 = 1 + Len(s) /\ 1 + Len(s) <= Len(w)
      BY <1>1, <1>2, <1>5
    <2>2. v[Len(s)] = w[1 + Len(s)]
      BY <2>1, <1>1
    <2>3. w[1 + Len(s)].kind = "header"
      BY <2>1 DEF Fits
    <2> QED BY <2>1, <2>2, <2>3
  <1>6. up => 1 + Len(t) <= Len(v) + 1
    BY <1>1, <1>2 DEF Fits
  <1>7. Fits(v, up, 1, t)
    BY <1>4, <1>5, <1>6 DEF Fits
  <1> QED BY <1>3, <1>7 DEF v, t

LEMMA FramesTail ==
  ASSUME NEW w \in Seq(Byte), w # <<>>, NEW up \in BOOLEAN, Frames(w, up)
  PROVE  Frames(Tail(w), up)
  <1> DEFINE v == Tail(w)
  <1>1. /\ v \in Seq(Byte) /\ Len(w) \in Nat /\ Len(w) >= 1 /\ Len(v) = Len(w) - 1
        /\ \A k \in 1..(Len(w) - 1) : v[k] = w[k + 1]
    BY TailTyped
  <1>2. ASSUME NEW i \in 1..Len(v), v[i].kind = "header"
        PROVE  Fits(v, up, i, Packet(v[i].type, v[i].rem))
    <2>1. i + 1 \in 1..Len(w) /\ i \in 1..(Len(w) - 1) /\ i + 1 \in Nat /\ i + 1 >= 2 /\ (i + 1) - 1 = i
      BY <1>1
    <2>2. w[i + 1] = v[i] /\ w[i + 1] \in Byte
      BY <1>1, <2>1, ElementOfSeq
    <2> DEFINE s == Packet(v[i].type, v[i].rem)
    <2>3. s \in Seq(Byte)
      BY <1>2, <2>2, Kinds, PacketTyped
    <2>4. Fits(w, up, i + 1, s)
      BY <1>2, <2>1, <2>2 DEF Frames
    <2> HIDE DEF s
    <2>5. Fits(Tail(w), up, (i + 1) - 1, s)
      BY <2>1, <2>3, <2>4, FitsTail
    <2> QED BY <2>1, <2>5 DEF s
  <1> QED BY <1>2 DEF Frames

\* Another packet at the end disturbs nothing.
LEMMA FitsJoin ==
  ASSUME NEW w \in Seq(Byte), NEW q \in Seq(Byte), Len(q) >= 1, q[1].kind = "header",
         NEW u, Joins(u, w, q), NEW s \in Seq(Byte), NEW i \in Nat, i >= 1, Fits(w, TRUE, i, s)
  PROVE  Fits(u, TRUE, i, s)
  <1>1. /\ Len(w) \in Nat /\ Len(q) \in Nat /\ Len(s) \in Nat /\ Len(u) = Len(w) + Len(q)
        /\ i + Len(s) <= Len(w) + 1
    BY LenProperties DEF Joins, Fits
  <1>2. ASSUME NEW j \in 1..Len(s), i + j - 1 <= Len(u)
        PROVE  u[i + j - 1] = s[j]
    <2>1. i + j - 1 \in 1..Len(w) /\ i + j - 1 <= Len(w)
      BY <1>1
    <2>2. u[i + j - 1] = w[i + j - 1] /\ w[i + j - 1] = s[j]
      BY <2>1 DEF Joins, Fits
    <2> QED BY <2>2
  <1>3. ASSUME i + Len(s) <= Len(u)
        PROVE  u[i + Len(s)].kind = "header"
    <2>1. CASE i + Len(s) <= Len(w)
      <3>1. i + Len(s) \in 1..Len(w)
        BY <2>1, <1>1
      <3>2. u[i + Len(s)] = w[i + Len(s)] /\ w[i + Len(s)].kind = "header"
        BY <2>1, <3>1 DEF Joins, Fits
      <3> QED BY <3>2
    <2>2. CASE ~(i + Len(s) <= Len(w))
      <3>1. i + Len(s) = 1 + Len(w) /\ 1 \in 1..Len(q)
        BY <2>2, <1>1
      <3>2. u[1 + Len(w)] = q[1]
        BY <3>1 DEF Joins
      <3> QED BY <3>1, <3>2
    <2> QED BY <2>1, <2>2
  <1>4. i + Len(s) <= Len(u) + 1
    BY <1>1
  <1> QED BY <1>2, <1>3, <1>4 DEF Fits

LEMMA FramesJoin ==
  ASSUME NEW w \in Seq(Byte), Frames(w, TRUE), NEW type \in Types, NEW n \in Lengths,
         NEW u, Joins(u, w, Packet(type, n))
  PROVE  Frames(u, TRUE)
  <1> DEFINE q == Packet(type, n)
  <1>1. /\ q \in Seq(Byte) /\ Len(q) >= 2 /\ q[1] = [kind |-> "header", type |-> type, rem |-> n]
        /\ q[1].kind = "header"
        /\ \A i \in 1..(Len(q) - 1) : q[i + 1].kind # "header"
    <2> DEFINE t == LengthBytes(n) \o Body(n)
    <2>1. t \in Seq(Byte) /\ Len(q) = 1 + Len(t)
      BY PacketTyped
    <2>2. Len(q) - 1 = Len(t)
      BY <2>1, LenProperties
    <2> QED BY <2>2, PacketTyped
  <1>2. Joins(u, w, q)
    OBVIOUS
  <1>3. q[1].type = type /\ q[1].rem = n
    BY <1>1
  <1> HIDE DEF q
  <1>4. /\ Len(w) \in Nat /\ Len(q) \in Nat /\ Len(u) = Len(w) + Len(q)
    BY <1>1, <1>2, LenProperties DEF Joins
  <1>5. ASSUME NEW i \in 1..Len(u), u[i].kind = "header"
        PROVE  Fits(u, TRUE, i, Packet(u[i].type, u[i].rem))
    <2>1. CASE i \in 1..Len(w)
      <3>1. u[i] = w[i] /\ w[i] \in Byte
        BY <2>1, <1>2, ElementOfSeq DEF Joins
      <3> DEFINE s == Packet(w[i].type, w[i].rem)
      <3>2. s \in Seq(Byte)
        <4>1. w[i].type \in Types /\ w[i].rem \in Lengths
          BY <1>5, <3>1, Kinds
        <4> QED BY <4>1, PacketTyped
      <3>3. Fits(w, TRUE, i, s)
        BY <1>5, <2>1, <3>1 DEF Frames
      <3> HIDE DEF s
      <3>4. Len(q) >= 1 /\ i \in Nat /\ i >= 1
        BY <1>1, <1>4
      <3>5. Fits(u, TRUE, i, s)
        BY <1>1, <1>2, <3>2, <3>3, <3>4, FitsJoin
      <3> QED BY <3>1, <3>5 DEF s
    <2>2. CASE i \notin 1..Len(w)
      <3>1. i - Len(w) \in 1..Len(q) /\ (i - Len(w)) + Len(w) = i
        BY <2>2, <1>4
      <3>2. u[i] = q[i - Len(w)]
        BY <3>1, <1>2 DEF Joins
      <3>3. i = Len(w) + 1
        <4>1. CASE i - Len(w) > 1
          <5>1. (i - Len(w)) - 1 \in 1..(Len(q) - 1) /\ ((i - Len(w)) - 1) + 1 = i - Len(w)
            BY <4>1, <3>1, <1>4
          <5>2. q[((i - Len(w)) - 1) + 1].kind # "header"
            BY <5>1, <1>1
          <5> QED BY <5>1, <5>2, <3>2, <1>5
        <4> QED BY <4>1, <3>1, <1>4
      <3>4. u[i] = q[1]
        BY <3>2, <3>3, <1>4
      <3>5. Packet(u[i].type, u[i].rem) = q
        BY <3>4, <1>3 DEF q
      <3>6. Fits(u, TRUE, Len(w) + 1, q)
        <4> DEFINE m == Len(w) + 1
        <4>1. \A j \in 1..Len(q) : u[m + j - 1] = q[j]
          BY <1>2, <1>4 DEF Joins
        <4>2. ~(m + Len(q) <= Len(u)) /\ m + Len(q) <= Len(u) + 1
          BY <1>4
        <4> HIDE DEF m
        <4>3. Fits(u, TRUE, m, q)
          BY <4>1, <4>2 DEF Fits
        <4> QED BY <4>3 DEF m
      <3> QED BY <3>3, <3>5, <3>6
    <2> QED BY <2>1, <2>2
  <1> QED BY <1>5 DEF Frames

\* Cutting the end off leaves every packet that far.
LEMMA FitsCut ==
  ASSUME NEW w \in Seq(Byte), NEW n \in 0..Len(w), NEW up \in BOOLEAN,
         NEW s \in Seq(Byte), NEW i \in Nat, i >= 1, Fits(w, up, i, s)
  PROVE  Fits(SubSeq(w, 1, n), FALSE, i, s)
  <1> DEFINE v == SubSeq(w, 1, n)
  <1>1. Len(w) \in Nat /\ Len(s) \in Nat
    BY LenProperties
  <1>2. Len(v) = n /\ \A k \in 1..n : v[k] = w[k]
    BY <1>1, SubSeqProperties
  <1> HIDE DEF v
  <1>3. ASSUME NEW j \in 1..Len(s), i + j - 1 <= Len(v)
        PROVE  v[i + j - 1] = s[j]
    <2>1. i + j - 1 \in 1..n /\ i + j - 1 <= Len(w)
      BY <1>1, <1>2, <1>3
    <2> QED BY <2>1, <1>2 DEF Fits
  <1>4. ASSUME i + Len(s) <= Len(v)
        PROVE  v[i + Len(s)].kind = "header"
    <2>1. i + Len(s) \in 1..n /\ i + Len(s) <= Len(w)
      BY <1>1, <1>2, <1>4
    <2> QED BY <2>1, <1>2 DEF Fits
  <1>5. Fits(v, FALSE, i, s)
    BY <1>3, <1>4 DEF Fits
  <1> QED BY <1>5 DEF v

LEMMA FramesCut ==
  ASSUME NEW w \in Seq(Byte), NEW n \in 0..Len(w), NEW up \in BOOLEAN, Frames(w, up)
  PROVE  /\ SubSeq(w, 1, n) \in Seq(Byte) /\ Len(SubSeq(w, 1, n)) = n
         /\ Frames(SubSeq(w, 1, n), FALSE)
  <1> DEFINE v == SubSeq(w, 1, n)
  <1>1. Len(w) \in Nat
    BY LenProperties
  <1>2. v \in Seq(Byte) /\ Len(v) = n /\ \A k \in 1..n : v[k] = w[k]
    BY <1>1, SubSeqProperties
  <1>3. ASSUME NEW i \in 1..Len(v), v[i].kind = "header"
        PROVE  Fits(v, FALSE, i, Packet(v[i].type, v[i].rem))
    <2>1. i \in 1..Len(w) /\ v[i] = w[i] /\ w[i] \in Byte /\ i \in Nat /\ i >= 1
      BY <1>1, <1>2, ElementOfSeq
    <2> DEFINE s == Packet(w[i].type, w[i].rem)
    <2>2. s \in Seq(Byte)
      <3>1. w[i].type \in Types /\ w[i].rem \in Lengths
        BY <1>3, <2>1, Kinds
      <3> QED BY <3>1, PacketTyped
    <2>3. Fits(w, up, i, s)
      BY <1>3, <2>1 DEF Frames
    <2> HIDE DEF s
    <2>4. Fits(v, FALSE, i, s)
      BY <2>1, <2>2, <2>3, FitsCut
    <2>5. s = Packet(v[i].type, v[i].rem)
      BY <2>1 DEF s
    <2> QED BY <2>4, <2>5
  <1> QED BY <1>2, <1>3 DEF Frames
-----------------------------------------------------------------------------
(* Types.                                                                  *)

WireTyped == wire \in Seq(Byte) /\ arrived \in 0..Len(wire)

\* The locals of the reader: what is left of a piece is in what is left of
\* the packet.
ReaderTyped ==
  /\ pc \in Reading \cup {"sleep", "dispatch", "callback", "cycled", "down"}
  /\ header \in Types /\ rem \in Nat /\ mult \in Nat /\ left \in 0..BufSize
  /\ packetTimer \in 0..PacketTimeout
  /\ genuine # None => genuine \in Lengths
  /\ pc = "drain" => left \in 1..rem
  /\ pc = "body" => left >= 1 /\ rem < BufSize

LoopTyped ==
  /\ env \in Environments /\ yieldTimer \in 0..YieldTime
  /\ pingTimer \in 0..env.keepAlive /\ isPingOutstanding \in BOOLEAN
  /\ link \in {"up", "silent", "closed"}
  /\ slipped \in BOOLEAN

Typed == WireTyped /\ ReaderTyped /\ LoopTyped /\ connected = (pc # "down")

LEMMA EnvTyped ==
  ASSUME NEW e \in Environments
  PROVE  /\ e.types \subseteq Types /\ "PINGRESP" \notin e.types /\ e.lengths \subseteq Lengths
         /\ e.faults \subseteq {"silent", "closed"}
         /\ e.stall \in Nat /\ e.packets \in Nat /\ e.keepAlive \in Nat
  BY EnvironmentsAssumption DEF Lengths, Encodable

LEMMA NoLength == 0 \in Lengths
  <1>1. Radix \in Nat /\ Radix > 0 /\ SizeLimit > 0
    BY ReaderAssumption
  <1>2. Radix * Radix > 0 /\ Radix * Radix \in Nat
    BY <1>1
  <1>3. Radix * Radix * Radix > 0 /\ Radix * Radix * Radix \in Nat
    BY <1>1, <1>2
  <1>4. Radix * Radix * Radix * Radix > 0
    BY <1>1, <1>3
  <1> QED BY <1>1, <1>4 DEF Lengths, Encodable

LEMMA InitTyped == Init => Typed
  <1> SUFFICES ASSUME Init PROVE Typed
    OBVIOUS
  <1>1. env.keepAlive \in Nat
    BY EnvTyped DEF Init
  <1>2. WireTyped
    BY DEF Init, WireTyped
  <1>3. ReaderTyped
    BY ReaderAssumption DEF Init, ReaderTyped, Types
  <1>4. LoopTyped
    <2>1. env \in Environments /\ pingTimer = env.keepAlive /\ yieldTimer = 0 /\ link = "up"
      BY DEF Init
    <2>2. isPingOutstanding \in BOOLEAN /\ slipped \in BOOLEAN
      BY DEF Init
    <2>3. yieldTimer \in 0..YieldTime /\ pingTimer \in 0..env.keepAlive
      BY <1>1, <2>1, LoopAssumption
    <2> QED BY <2>1, <2>2, <2>3 DEF LoopTyped
  <1> QED BY <1>2, <1>3, <1>4 DEF Typed, Init

LEMMA TakeTyped ==
  ASSUME WireTyped, Take
  PROVE  /\ WireTyped' /\ wire # <<>> /\ Head(wire) \in Byte /\ Head(wire) = wire[1]
         /\ wire' = Tail(wire) /\ Len(wire) \in Nat /\ Len(wire) >= 1
         /\ Len(wire') = Len(wire) - 1 /\ arrived \in Nat /\ arrived > 0 /\ arrived' = arrived - 1
  <1>0. Len(wire) \in Nat /\ arrived \in 0..Len(wire) /\ arrived > 0
    BY LenProperties DEF WireTyped, Take
  <1>1. wire # <<>> /\ arrived \in Nat
    BY <1>0, EmptySeq DEF WireTyped
  <1>2. /\ Tail(wire) \in Seq(Byte) /\ Head(wire) = wire[1] /\ Head(wire) \in Byte
        /\ Len(wire) \in Nat /\ Len(wire) >= 1 /\ Len(Tail(wire)) = Len(wire) - 1
    BY <1>1, TailTyped DEF WireTyped
  <1>3. wire' = Tail(wire) /\ arrived > 0 /\ arrived' = arrived - 1
    BY DEF Take
  <1>4. WireTyped'
    <2>1. wire' \in Seq(Byte) /\ Len(wire') = Len(wire) - 1 /\ arrived <= Len(wire)
      BY <1>2, <1>3 DEF WireTyped
    <2> QED BY <2>1, <1>1, <1>2, <1>3 DEF WireTyped
  <1> QED BY <1>1, <1>2, <1>3, <1>4

LEMMA LengthTyped ==
  ASSUME ReaderTyped, WireTyped, LengthByte
  PROVE  ReaderTyped'
  <1>1. PICK digit \in 0..(Radix - 1), more \in BOOLEAN :
          /\ Head(wire).kind = "length" => digit = Head(wire).digit /\ more = Head(wire).more
          /\ rem' = (rem + digit * mult) % SizeLimit
          /\ mult' = (mult * Radix) % SizeLimit
          /\ \/ more /\ UNCHANGED <<pc, rc, left>>
             \/ ~more /\ LengthKnown(rem')
    BY DEF LengthByte
  <1>2. digit * mult \in Nat /\ mult * Radix \in Nat /\ rem \in Nat
    BY ReaderAssumption DEF ReaderTyped
  <1> DEFINE a == rem + digit * mult
             b == mult * Radix
  <1> HIDE DEF a, b
  <1>3. rem' \in Nat /\ mult' \in Nat
    <2>1. a \in Nat /\ b \in Nat /\ SizeLimit \in Nat \ {0}
      BY <1>2, ReaderAssumption DEF a, b
    <2>2. rem' = a % SizeLimit /\ mult' = b % SizeLimit
      BY <1>1 DEF a, b
    <2> QED BY <2>1, <2>2, DivMod
  <1>4. CASE more /\ UNCHANGED <<pc, rc, left>>
    BY <1>3, <1>4 DEF ReaderTyped, LengthByte
  <1>5. CASE LengthKnown(rem')
    BY <1>3, <1>5, ReaderAssumption DEF ReaderTyped, LengthByte, LengthKnown, EndRead, Reading
  <1> QED BY <1>1, <1>4, <1>5

LEMMA ReaderStepTyped ==
  ASSUME Typed, ReaderStep, UNCHANGED <<loopVars, env>>
  PROVE  Typed'
  <1> USE DEF Typed
  <1>1. CASE HeaderByte
    <2>1. WireTyped' /\ Head(wire) \in Byte
      BY <1>1, TakeTyped DEF HeaderByte
    <2>2. header' \in Types /\ (genuine' # None => genuine' \in Lengths)
      BY <1>1, <2>1, Kinds DEF HeaderByte
    <2>3. ReaderTyped'
      BY <1>1, <2>2, ReaderAssumption DEF HeaderByte, ReaderTyped, Reading
    <2> QED BY <1>1, <2>1, <2>3 DEF HeaderByte, LoopTyped, loopVars
  <1>2. CASE LengthByte
    <2>1. WireTyped' /\ ReaderTyped'
      BY <1>2, TakeTyped, LengthTyped DEF LengthByte
    <2>2. pc = "length" /\ pc' \in {"length", "drain", "body", "dispatch"}
      BY <1>2 DEF LengthByte, LengthKnown, EndRead
    <2> QED BY <1>2, <2>1, <2>2 DEF LengthByte, LoopTyped, loopVars
  <1>3. CASE DrainByte
    <2>1. WireTyped'
      BY <1>3, TakeTyped DEF DrainByte
    <2>2. ReaderTyped'
      BY <1>3, ReaderAssumption DEF DrainByte, ReaderTyped, EndRead, Reading
    <2> QED BY <1>3, <2>1, <2>2 DEF DrainByte, LoopTyped, loopVars, EndRead
  <1>4. CASE BodyByte
    <2>1. WireTyped'
      BY <1>4, TakeTyped DEF BodyByte
    <2>2. ReaderTyped'
      BY <1>4, ReaderAssumption DEF BodyByte, ReaderTyped, EndRead, Reading
    <2> QED BY <1>4, <2>1, <2>2 DEF BodyByte, LoopTyped, loopVars, EndRead
  <1>5. CASE ReadExpires \/ ReadError
    <2>1. /\ pc \in Reading /\ pc' \in {"dispatch", "cycled"} /\ left' = 0
          /\ UNCHANGED <<header, rem, mult, genuine, yieldTimer, packetTimer, wire, arrived, link>>
      BY <1>5 DEF ReadExpires, ReadError, EndRead
    <2>2. WireTyped'
      BY <2>1 DEF WireTyped
    <2>3. ReaderTyped'
      BY <2>1, ReaderAssumption DEF ReaderTyped
    <2> QED BY <2>1, <2>2, <2>3 DEF LoopTyped, loopVars, Reading
  <1> QED BY <1>1, <1>2, <1>3, <1>4, <1>5 DEF ReaderStep

LEMMA CycleTyped ==
  ASSUME Typed, DispatchPublish \/ CallbackReturns \/ DispatchOther
  PROVE  Typed'
  <1> USE DEF Typed
  <1>1. /\ pc \in {"dispatch", "callback"} /\ pc' \in {"callback", "cycled"}
        /\ UNCHANGED <<header, rem, mult, left, packetTimer, genuine, yieldTimer, peerVars, env,
                       connected, slipped>>
    BY DEF DispatchPublish, CallbackReturns, DispatchOther, Cycled
  <1>2. \/ UNCHANGED <<pingTimer, isPingOutstanding>>
        \/ isPingOutstanding' = FALSE /\ pingTimer' = env.keepAlive
    BY DEF DispatchPublish, CallbackReturns, DispatchOther
  <1>3. env.keepAlive \in Nat
    BY EnvTyped DEF LoopTyped
  <1>4. pingTimer' \in 0..env'.keepAlive
    BY <1>1, <1>2, <1>3 DEF LoopTyped
  <1>5. isPingOutstanding' \in BOOLEAN
    BY <1>2 DEF LoopTyped
  <1>6. LoopTyped'
    BY <1>1, <1>4, <1>5 DEF LoopTyped, peerVars
  <1>7. ReaderTyped'
    BY <1>1 DEF ReaderTyped
  <1>8. WireTyped'
    BY <1>1 DEF WireTyped, peerVars
  <1> QED BY <1>1, <1>6, <1>7, <1>8

LEMMA StartTyped ==
  ASSUME StartRead \/ (Forget /\ pc' \in {"sleep", "down"})
  PROVE  ReaderTyped' /\ pc' \in {"header", "sleep", "down"}
  BY ReaderAssumption DEF StartRead, Forget, Fresh, ReaderTyped, Reading, Types

LEMMA LoopOnTyped ==
  ASSUME LoopOn, yieldTimer \in 0..YieldTime
  PROVE  ReaderTyped' /\ pc' \in {"header", "sleep"} /\ yieldTimer' \in 0..YieldTime
  BY StartTyped, LoopAssumption DEF LoopOn, YieldReturns, StartRead

LEMMA HandleTyped ==
  ASSUME HandleDisconnect
  PROVE  ReaderTyped' /\ pc' = "down" /\ connected' = FALSE /\ yieldTimer' \in 0..YieldTime
  BY StartTyped, LoopAssumption DEF HandleDisconnect

LEMMA YieldTyped ==
  ASSUME Typed, Yield
  PROVE  Typed'
  <1>1. ReaderTyped' /\ pc' = "header"
    BY StartTyped DEF Yield, StartRead
  <1>2. yieldTimer' \in 0..YieldTime /\ UNCHANGED <<peerVars, env, loopVars>> /\ pc = "sleep"
    BY LoopAssumption DEF Yield
  <1>3. LoopTyped'
    BY <1>2 DEF LoopTyped, loopVars, peerVars, Typed
  <1>4. WireTyped'
    BY <1>2 DEF WireTyped, peerVars, Typed
  <1> QED BY <1>1, <1>2, <1>3, <1>4 DEF Typed, loopVars

LEMMA KeepAliveTyped ==
  ASSUME Typed, KeepAliveCheck
  PROVE  Typed'
  <1> USE DEF Typed
  <1>1. UNCHANGED <<wire, arrived, link, env, slipped>> /\ pc = "cycled" /\ env.keepAlive \in Nat
    BY EnvTyped DEF KeepAliveCheck, peerVars, LoopTyped
  <1>2. /\ ReaderTyped' /\ yieldTimer' \in 0..YieldTime /\ connected' = (pc' # "down")
    BY <1>1, LoopOnTyped, HandleTyped DEF KeepAliveCheck, LoopTyped
  <1>3. pingTimer' \in 0..env.keepAlive
    BY <1>1 DEF KeepAliveCheck, LoopTyped
  <1>4. isPingOutstanding' \in BOOLEAN
    BY DEF KeepAliveCheck, LoopTyped
  <1>5. LoopTyped'
    BY <1>1, <1>2, <1>3, <1>4 DEF LoopTyped
  <1>6. WireTyped'
    BY <1>1 DEF WireTyped
  <1> QED BY <1>2, <1>5, <1>6

LEMMA FailedTyped ==
  ASSUME Typed, CycleFailed
  PROVE  Typed'
  <1> USE DEF Typed
  <1>1. UNCHANGED <<wire, arrived, link, env, pingTimer, isPingOutstanding>> /\ pc = "cycled"
    BY DEF CycleFailed, peerVars
  <1>2. ReaderTyped' /\ yieldTimer' \in 0..YieldTime /\ connected' = (pc' # "down")
    <2>1. CASE HandleDisconnect
      BY <2>1, HandleTyped
    <2>2. CASE YieldReturns /\ UNCHANGED connected
      BY <2>2, <1>1, StartTyped, LoopAssumption DEF YieldReturns
    <2> QED BY <2>1, <2>2 DEF CycleFailed
  <1>3. slipped' \in BOOLEAN
    BY DEF CycleFailed, LoopTyped
  <1>4. LoopTyped'
    BY <1>1, <1>2, <1>3 DEF LoopTyped
  <1>5. WireTyped'
    BY <1>1 DEF WireTyped
  <1> QED BY <1>2, <1>4, <1>5

LEMMA ReconnectTyped ==
  ASSUME Typed, Reconnect
  PROVE  Typed'
  <1> USE DEF Typed
  <1>1. env.keepAlive \in Nat
    BY EnvTyped DEF LoopTyped
  <1>2. ReaderTyped'
    BY DEF Reconnect, Reconnected, ReaderTyped
  <1>3. WireTyped'
    <2>1. wire' \in Seq(Byte) /\ Len(wire') = 0 /\ arrived' = 0
      BY EmptySeq DEF Reconnect, Reconnected
    <2> QED BY <2>1 DEF WireTyped
  <1>4. isPingOutstanding' \in BOOLEAN /\ slipped' \in BOOLEAN
    BY DEF Reconnect, Reconnected
  <1>5. pingTimer' \in 0..env'.keepAlive
    BY <1>1 DEF Reconnect, Reconnected
  <1>6. LoopTyped'
    BY <1>4, <1>5 DEF Reconnect, Reconnected, LoopTyped
  <1> QED BY <1>2, <1>3, <1>6 DEF Reconnect, Reconnected

\* A packet is appended to the stream.
LEMMA SendTyped ==
  ASSUME WireTyped, NEW type \in Types, NEW n \in Lengths,
         wire' = wire \o Packet(type, n), UNCHANGED arrived
  PROVE  WireTyped' /\ Joins(wire', wire, Packet(type, n)) /\ Len(wire') = Len(wire) + Len(Packet(type, n))
  <1> DEFINE q == Packet(type, n)
  <1>1. q \in Seq(Byte)
    BY PacketTyped
  <1> HIDE DEF q
  <1>2. wire' = wire \o q
    BY DEF q
  <1>3. Joins(wire', wire, q)
    BY <1>1, <1>2, Join DEF WireTyped
  <1>4. wire' \in Seq(Byte) /\ Len(wire') = Len(wire) + Len(q) /\ Len(wire) \in Nat /\ Len(q) \in Nat
    BY <1>3 DEF Joins
  <1>5. WireTyped'
    BY <1>4 DEF WireTyped
  <1> QED BY <1>3, <1>4, <1>5 DEF q

LEMMA PeerTyped ==
  ASSUME Typed, PeerSends \/ PeerAnswersPing \/ BytesArrive \/ LinkFails
  PROVE  Typed'
  <1> USE DEF Typed
  <1>1. UNCHANGED <<readVars, yieldTimer, env, connected, pingTimer, isPingOutstanding, slipped>>
    BY DEF PeerSends, PeerAnswersPing, BytesArrive, LinkFails, loopVars
  <1>2. ReaderTyped' /\ connected' = (pc' # "down")
    BY <1>1 DEF ReaderTyped, readVars
  <1>3. WireTyped' /\ (link' = link \/ link' \in env.faults)
    <2>1. CASE PeerSends
      <3>1. PICK type \in env.types, n \in env.lengths : wire' = wire \o Packet(type, n)
        BY <2>1 DEF PeerSends
      <3>2. type \in Types /\ n \in Lengths
        BY EnvTyped DEF LoopTyped
      <3> QED BY <2>1, <3>1, <3>2, SendTyped DEF PeerSends
    <2>2. CASE PeerAnswersPing
      BY <2>2, SendTyped, NoLength DEF PeerAnswersPing, Types
    <2>3. CASE BytesArrive
      <3>1. Len(wire) \in Nat /\ arrived \in 0..Len(wire)
        BY LenProperties DEF WireTyped
      <3>2. arrived' \in (arrived + 1)..Len(wire) /\ wire' = wire /\ link' = link
        BY <2>3 DEF BytesArrive
      <3>3. arrived' \in 0..Len(wire)
        BY <3>1, <3>2
      <3> QED BY <3>2, <3>3 DEF WireTyped
    <2>4. CASE LinkFails
      <3>1. Len(wire) \in Nat /\ arrived \in 0..Len(wire) /\ wire \in Seq(Byte)
        BY LenProperties DEF WireTyped
      <3>2. SubSeq(wire, 1, arrived) \in Seq(Byte) /\ Len(SubSeq(wire, 1, arrived)) = arrived
        BY <3>1, SubSeqProperties
      <3>3. wire' = SubSeq(wire, 1, arrived) /\ arrived' = arrived /\ link' \in env.faults
        BY <2>4 DEF LinkFails
      <3> QED BY <3>1, <3>2, <3>3 DEF WireTyped
    <2> QED BY <2>1, <2>2, <2>3, <2>4
  <1>4. link' \in {"up", "silent", "closed"}
    BY <1>3, EnvTyped DEF LoopTyped
  <1>5. LoopTyped'
    BY <1>1, <1>4 DEF LoopTyped
  <1> QED BY <1>2, <1>3, <1>5

LEMMA TickTyped ==
  ASSUME Typed, Tick
  PROVE  Typed'
  <1> USE DEF Typed
  <1>1. env.keepAlive \in Nat
    BY EnvTyped DEF LoopTyped
  <1>2. /\ UNCHANGED <<pc, rc, header, rem, mult, left, genuine, wire, arrived, link, env, connected,
                       isPingOutstanding, slipped>>
        /\ yieldTimer' = Down(yieldTimer) /\ packetTimer' = Down(packetTimer)
        /\ pingTimer' = Down(pingTimer)
    BY DEF Tick, peerVars
  <1>3. ReaderTyped'
    BY <1>2, ReaderAssumption DEF ReaderTyped, Down
  <1>4. yieldTimer' \in 0..YieldTime /\ pingTimer' \in 0..env.keepAlive
    BY <1>1, <1>2, LoopAssumption DEF LoopTyped, Down
  <1>5. LoopTyped'
    BY <1>2, <1>4 DEF LoopTyped
  <1>6. WireTyped'
    BY <1>2 DEF WireTyped
  <1> QED BY <1>2, <1>3, <1>5, <1>6

LEMMA StutterTyped ==
  ASSUME Typed, UNCHANGED vars
  PROVE  Typed'
  <1>1. UNCHANGED <<readVars, yieldTimer, peerVars, loopVars, env>>
    BY DEF vars
  <1>2. WireTyped' /\ ReaderTyped' /\ LoopTyped'
    BY <1>1 DEF Typed, WireTyped, ReaderTyped, LoopTyped, readVars, peerVars, loopVars
  <1> QED BY <1>1, <1>2 DEF Typed, readVars, loopVars

LEMMA NextTyped == Typed /\ [Next]_vars => Typed'
  BY ReaderStepTyped, CycleTyped, YieldTyped, KeepAliveTyped, FailedTyped, ReconnectTyped,
     PeerTyped, TickTyped, StutterTyped DEF Next

\* The types of the receive loop: the timers stay in their ranges and a single
\* read asks for at most as many bytes as the buffer has, whatever the peer
\* sends (aws_iot_mqtt_internal_read_packet); where they go is ReadInside.
THEOREM TypeCorrect == Spec => []TypeOK
  <1>1. Typed => TypeOK
    BY DEF Typed, WireTyped, ReaderTyped, LoopTyped, TypeOK
  <1> QED BY <1>1, InitTyped, NextTyped, PTL DEF Spec
-----------------------------------------------------------------------------
(* The place of the reader in the stream.                                  *)

Up == link = "up"

AtHeader == wire # <<>> => wire[1].kind = "header"

\* A reader that took a header for one is where the rest of its packet is:
\* the digits still to come, times the multiplier, complete the length.
Placed ==
  genuine # None =>
    /\ pc = "length" => \E k \in Encodable :
                          /\ rem + k * mult = genuine
                          /\ Fits(wire, Up, 1, LengthBytes(k) \o Body(genuine))
    /\ pc = "body" => rem = genuine /\ Fits(wire, Up, 1, Body(left))
    /\ pc = "drain" => genuine >= BufSize /\ Fits(wire, Up, 1, Body(rem))
    /\ pc = "dispatch" => rem = genuine
    /\ pc \in {"dispatch", "callback"} => AtHeader

\* A reader that has not slipped took a header for one; when it gives up
\* elsewhere than before a header, it is about to slip.
InSync ==
  ~slipped =>
    /\ pc \in {"sleep", "header"} => AtHeader
    /\ pc \in {"length", "body", "drain", "dispatch", "callback"} => genuine # None
    /\ pc = "cycled" => \/ rc = "READ_ERROR" \/ AtHeader
                        \/ rc # "SUCCESS" /\ packetTimer = 0 /\ (Up \/ wire # <<>>)

LostIsGone == ~Up => arrived = Len(wire)

FrameInv == Frames(wire, Up) /\ LostIsGone /\ Placed /\ InSync

LEMMA ConsTail ==
  ASSUME NEW h \in Seq(Byte), Len(h) = 1, NEW u \in Seq(Byte)
  PROVE  h \o u \in Seq(Byte) /\ h \o u # <<>> /\ (h \o u)[1] = h[1] /\ Tail(h \o u) = u
  <1> DEFINE s == h \o u
  <1>1. Joins(s, h, u)
    BY Join
  <1> HIDE DEF s
  <1>2. /\ s \in Seq(Byte) /\ Len(u) \in Nat /\ Len(s) = 1 + Len(u) /\ s[1] = h[1]
        /\ \A i \in 1..Len(u) : s[i + 1] = u[i]
    BY <1>1 DEF Joins
  <1>3. s # <<>>
    BY <1>2, EmptySeq
  <1>4. /\ Tail(s) \in Seq(Byte) /\ Len(Tail(s)) = Len(u)
        /\ \A i \in 1..Len(u) : Tail(s)[i] = u[i]
    BY <1>2, <1>3, TailTyped
  <1>5. Tail(s) = u
    BY <1>4, SeqEqual
  <1> QED BY <1>2, <1>3, <1>5 DEF s

LEMMA PacketTail ==
  ASSUME NEW type \in Types, NEW n \in Lengths
  PROVE  /\ Packet(type, n) # <<>> /\ Tail(Packet(type, n)) = LengthBytes(n) \o Body(n)
  <1> DEFINE s == Packet(type, n)
             u == LengthBytes(n) \o Body(n)
  <1>1. /\ s \in Seq(Byte) /\ u \in Seq(Byte) /\ Len(s) = 1 + Len(u)
        /\ \A i \in 1..Len(u) : s[i + 1] = u[i]
    BY PacketTyped
  <1> HIDE DEF s, u
  <1>2. Len(u) \in Nat
    BY <1>1, LenProperties
  <1>3. s # <<>>
    BY <1>1, <1>2, EmptySeq
  <1>4. /\ Tail(s) \in Seq(Byte) /\ Len(Tail(s)) = Len(u)
        /\ \A i \in 1..Len(u) : Tail(s)[i] = u[i]
    BY <1>1, <1>2, <1>3, TailTyped
  <1>5. Tail(s) = u
    BY <1>1, <1>4, SeqEqual
  <1> QED BY <1>3, <1>5 DEF s, u

LEMMA BodyTail ==
  ASSUME NEW n \in Nat, n > 0
  PROVE  Body(n) # <<>> /\ Tail(Body(n)) = Body(n - 1)
  <1>1. Body(n) \in Seq(Byte) /\ Len(Body(n)) = n /\ Body(n - 1) \in Seq(Byte) /\ Len(Body(n - 1)) = n - 1
    BY BodyTyped
  <1>2. Body(n) # <<>>
    BY <1>1, EmptySeq
  <1>3. Tail(Body(n)) \in Seq(Byte) /\ Len(Tail(Body(n))) = n - 1
    BY <1>1, <1>2, TailTyped
  <1>4. \A i \in 1..(n - 1) : Tail(Body(n))[i] = Body(n - 1)[i]
    <2> TAKE i \in 1..(n - 1)
    <2>1. Tail(Body(n))[i] = Body(n)[i + 1]
      BY <1>1, <1>2, TailTyped
    <2>2. Body(n)[i + 1] = [kind |-> "body"] /\ Body(n - 1)[i] = [kind |-> "body"]
      BY DEF Body
    <2> QED BY <2>1, <2>2
  <1> QED BY <1>1, <1>2, <1>3, <1>4, SeqEqual

LEMMA NothingLeft ==
  ASSUME NEW w \in Seq(Byte), NEW up \in BOOLEAN, Fits(w, up, 1, Body(0)), w # <<>>
  PROVE  w[1].kind = "header"
  <1>1. Len(Body(0)) = 0 /\ Len(w) \in Nat /\ Len(w) >= 1
    BY BodyTyped, TailTyped
  <1> QED BY <1>1 DEF Fits

\* The next digit of what is left of a length, and what follows it.
NextDigit(w, up, k, g) ==
  /\ Head(w).kind = "length"
  /\ k < Radix => /\ Head(w).digit = k /\ Head(w).more = FALSE
                  /\ Fits(Tail(w), up, 1, Body(g))
  /\ k >= Radix => /\ Head(w).digit = k % Radix /\ Head(w).more = TRUE
                   /\ Fits(Tail(w), up, 1, LengthBytes(k \div Radix) \o Body(g))

LEMMA DigitNext ==
  ASSUME NEW k \in Encodable, NEW g \in Lengths, NEW w \in Seq(Byte), w # <<>>, NEW up \in BOOLEAN,
         Fits(w, up, 1, LengthBytes(k) \o Body(g))
  PROVE  NextDigit(w, up, k, g)
  <1> USE DEF NextDigit
  <1> DEFINE b == Body(g)
             s == LengthBytes(k) \o b
  <1>0. k \in Nat /\ Radix \in Nat \ {0, 1} /\ b \in Seq(Byte)
    BY ReaderAssumption, BodyTyped DEF Encodable, Lengths
  <1>1. CASE k < Radix
    <2>1. s = LastDigit(k) \o b
      BY <1>1, EncodingTurn
    <2>2. LastDigit(k) \in Seq(Byte) /\ Len(LastDigit(k)) = 1
      BY <1>0, <1>1, LastDigitTyped, DigitsAreBytes
    <2>3. s \in Seq(Byte) /\ s # <<>> /\ s[1] = LastDigit(k)[1] /\ Tail(s) = b
      <3> HIDE DEF b, s
      <3> QED BY <1>0, <2>1, <2>2, ConsTail
    <2>4. LastDigit(k)[1] = [kind |-> "length", digit |-> k, more |-> FALSE]
      BY DEF LastDigit
    <2> HIDE DEF s, b
    <2>5. Fits(w, up, 1, s)
      BY DEF s, b
    <2>6. Head(w) = s[1] /\ Fits(Tail(w), up, 1, b)
      BY <2>3, <2>5, FitsNext
    <2>7. Head(w) = [kind |-> "length", digit |-> k, more |-> FALSE]
      BY <2>3, <2>4, <2>6
    <2>8. Head(w).kind = "length" /\ Head(w).digit = k /\ Head(w).more = FALSE
      BY <2>7
    <2> QED BY <1>0, <1>1, <2>6, <2>8 DEF b
  <1>2. CASE k >= Radix
    <2> DEFINE t == LengthBytes(k \div Radix)
    <2>1. LengthBytes(k) = MoreDigit(k) \o t
      BY <1>2, EncodingTurn
    <2>2. MoreDigit(k) \in Seq(Byte) /\ Len(MoreDigit(k)) = 1 /\ t \in Seq(Byte)
      BY <1>0, MoreDigitTyped, DigitsAreBytes, EncodingTyped, Divided
    <2>3. MoreDigit(k)[1] = [kind |-> "length", digit |-> k % Radix, more |-> TRUE]
      BY DEF MoreDigit
    <2> HIDE DEF s, b, t
    <2>4. s = MoreDigit(k) \o (t \o b)
      <3>1. s = (MoreDigit(k) \o t) \o b
        BY <2>1 DEF s
      <3>2. MoreDigit(k) \in Seq(Byte) /\ t \in Seq(Byte) /\ b \in Seq(Byte)
        BY <1>0, <2>2
      <3>3. (MoreDigit(k) \o t) \o b = MoreDigit(k) \o (t \o b)
        BY <3>2, ConcatAssociative
      <3> QED BY <3>1, <3>3
    <2>5. t \o b \in Seq(Byte)
      BY <1>0, <2>2, ConcatProperties
    <2> DEFINE u == t \o b
    <2> HIDE DEF u
    <2>6. s = MoreDigit(k) \o u /\ u \in Seq(Byte)
      BY <2>4, <2>5 DEF u
    <2>7. s \in Seq(Byte) /\ s # <<>> /\ s[1] = MoreDigit(k)[1] /\ Tail(s) = u
      BY <2>2, <2>6, ConsTail
    <2>8. Fits(w, up, 1, s)
      BY DEF s, b
    <2>9. Head(w) = s[1] /\ Fits(Tail(w), up, 1, u)
      BY <2>7, <2>8, FitsNext
    <2>10. Head(w) = [kind |-> "length", digit |-> k % Radix, more |-> TRUE]
      BY <2>3, <2>7, <2>9
    <2>11. Head(w).kind = "length" /\ Head(w).digit = k % Radix /\ Head(w).more = TRUE
      BY <2>10
    <2>12. Fits(Tail(w), up, 1, LengthBytes(k \div Radix) \o Body(g))
      BY <2>9 DEF u, t, b
    <2>13. ~(k < Radix)
      BY <1>0, <1>2
    <2> QED BY <2>11, <2>12, <2>13
  <1>3. k < Radix \/ k >= Radix
    BY <1>0
  <1> QED BY <1>1, <1>2, <1>3, Zenon

\* What taking a byte does to the stream.
LEMMA TakeFrames ==
  ASSUME Typed, FrameInv, Take, UNCHANGED link
  PROVE  Frames(wire', Up') /\ LostIsGone' /\ Up' = Up /\ Up \in BOOLEAN
         /\ wire \in Seq(Byte) /\ wire # <<>> /\ wire' = Tail(wire) /\ wire' \in Seq(Byte)
  <1>1. /\ WireTyped' /\ wire # <<>> /\ wire' = Tail(wire) /\ Len(wire) \in Nat
        /\ Len(wire') = Len(wire) - 1 /\ arrived' = arrived - 1
    BY TakeTyped DEF Typed
  <1>2. Up' = Up /\ Up \in BOOLEAN
    BY DEF Up
  <1>3. wire \in Seq(Byte) /\ wire' \in Seq(Byte)
    BY <1>1 DEF Typed, WireTyped
  <1>4. Frames(Tail(wire), Up)
    BY <1>1, <1>2, <1>3, FramesTail DEF FrameInv
  <1>5. LostIsGone'
    BY <1>1, <1>2 DEF FrameInv, LostIsGone
  <1> QED BY <1>1, <1>2, <1>3, <1>4, <1>5

LEMMA HeaderFrames ==
  ASSUME Typed, FrameInv, HeaderByte, UNCHANGED <<loopVars, env>>
  PROVE  FrameInv'
  <1>1. /\ Frames(wire', Up') /\ LostIsGone' /\ Up' = Up /\ Up \in BOOLEAN /\ wire \in Seq(Byte)
        /\ wire # <<>> /\ wire' = Tail(wire)
    BY TakeFrames DEF HeaderByte
  <1>2. /\ pc = "header" /\ pc' = "length" /\ rem' = 0 /\ mult' = 1 /\ slipped' = slipped
    BY DEF HeaderByte, loopVars
  <1>3. Head(wire) = wire[1] /\ wire[1] \in Byte /\ 1 \in 1..Len(wire)
    BY <1>1, TailTyped
  <1>4. CASE wire[1].kind = "header"
    <2> DEFINE type == wire[1].type
               n == wire[1].rem
    <2>1. type \in Types /\ n \in Lengths
      BY <1>3, <1>4, Kinds
    <2>2. genuine' = n /\ n # None /\ n \in Encodable /\ 0 + n * 1 = n
      BY <1>3, <1>4, <2>1, ReaderAssumption DEF HeaderByte, Lengths, Encodable
    <2>3. Fits(wire, Up, 1, Packet(type, n))
      BY <1>3, <1>4 DEF FrameInv, Frames
    <2>4. Packet(type, n) \in Seq(Byte)
      BY <2>1, PacketTyped
    <2>5. Packet(type, n) # <<>> /\ Tail(Packet(type, n)) = LengthBytes(n) \o Body(n)
      BY <2>1, PacketTail
    <2> HIDE DEF type, n
    <2>6. Fits(wire', Up', 1, LengthBytes(n) \o Body(n))
      BY <1>1, <2>3, <2>4, <2>5, FitsNext
    <2>7. \E k \in Encodable : /\ rem' + k * mult' = genuine'
                              /\ Fits(wire', Up', 1, LengthBytes(k) \o Body(genuine'))
      BY <1>2, <2>2, <2>6
    <2>8. Placed'
      BY <1>2, <2>7 DEF Placed
    <2>9. InSync'
      BY <1>2, <2>2 DEF InSync
    <2> QED BY <1>1, <2>8, <2>9 DEF FrameInv
  <1>5. CASE wire[1].kind # "header"
    <2>1. genuine' = None
      BY <1>3, <1>5 DEF HeaderByte
    <2>2. slipped = TRUE \/ slipped
      BY <1>1, <1>2, <1>5 DEF FrameInv, InSync, AtHeader
    <2>3. Placed'
      BY <2>1 DEF Placed
    <2>4. InSync'
      BY <1>2, <2>2 DEF InSync
    <2> QED BY <1>1, <2>3, <2>4 DEF FrameInv
  <1> QED BY <1>4, <1>5

\* The remaining length is complete, and it is the one the peer gave.
LEMMA KnownPlaced ==
  ASSUME LengthKnown(rem'), genuine' # None, rem' = genuine', genuine' \in Lengths,
         wire' \in Seq(Byte), Up' \in BOOLEAN, Fits(wire', Up', 1, Body(genuine'))
  PROVE  Placed'
  <1>1. CASE pc' = "drain" /\ rem' >= BufSize
    BY <1>1 DEF Placed
  <1>2. CASE pc' = "body" /\ left' = rem'
    BY <1>2 DEF Placed
  <1>3. CASE pc' = "dispatch" /\ rem' = 0
    <2>1. Fits(wire', Up', 1, Body(0))
      BY <1>3
    <2>2. AtHeader'
      BY <2>1, NothingLeft DEF AtHeader
    <2> QED BY <1>3, <2>2 DEF Placed
  <1> QED BY <1>1, <1>2, <1>3 DEF LengthKnown, EndRead

LEMMA LengthFrames ==
  ASSUME Typed, FrameInv, LengthByte, UNCHANGED <<loopVars, env>>
  PROVE  FrameInv'
  <1>1. /\ Frames(wire', Up') /\ LostIsGone' /\ Up' = Up /\ Up \in BOOLEAN /\ wire \in Seq(Byte)
        /\ wire # <<>> /\ wire' = Tail(wire) /\ wire' \in Seq(Byte)
    BY TakeFrames DEF LengthByte
  <1>2. /\ pc = "length" /\ pc' \in {"length", "drain", "body", "dispatch"}
        /\ genuine' = genuine /\ slipped' = slipped
    BY DEF LengthByte, LengthKnown, EndRead, loopVars
  <1>3. InSync'
    BY <1>2 DEF FrameInv, InSync
  <1>4. ASSUME genuine # None
        PROVE  Placed'
    <2>0. /\ genuine \in Lengths /\ genuine \in Nat /\ genuine < SizeLimit /\ rem \in Nat /\ mult \in Nat
          /\ Radix \in Nat \ {0, 1} /\ SizeLimit \in Nat \ {0}
      BY <1>4, ReaderAssumption DEF Typed, ReaderTyped, Lengths, Encodable
    <2>1. PICK k \in Encodable : /\ rem + k * mult = genuine
                                 /\ Fits(wire, Up, 1, LengthBytes(k) \o Body(genuine))
      BY <1>2, <1>4 DEF FrameInv, Placed
    <2>2. k \in Nat
      BY DEF Encodable
    <2>3. PICK digit \in 0..(Radix - 1), more \in BOOLEAN :
          /\ Head(wire).kind = "length" => digit = Head(wire).digit /\ more = Head(wire).more
          /\ rem' = (rem + digit * mult) % SizeLimit
          /\ mult' = (mult * Radix) % SizeLimit
          /\ \/ more /\ UNCHANGED <<pc, rc, left>>
             \/ ~more /\ LengthKnown(rem')
      BY DEF LengthByte
    <2>6. NextDigit(wire, Up, k, genuine)
      BY <1>1, <2>0, <2>1, DigitNext
    <2>4. CASE k < Radix
      <3>1. /\ Head(wire).kind = "length" /\ Head(wire).digit = k /\ Head(wire).more = FALSE
            /\ Fits(Tail(wire), Up, 1, Body(genuine))
        BY <2>4, <2>6 DEF NextDigit
      <3>2. digit = k /\ LengthKnown(rem')
        BY <2>3, <3>1
      <3>3. rem' = genuine % SizeLimit
        BY <2>1, <2>3, <3>2
      <3>4. rem' = genuine
        BY <2>0, <3>3, DivMod
      <3> QED BY <1>1, <1>2, <1>4, <2>0, <3>1, <3>2, <3>4, KnownPlaced
    <2>5. CASE k >= Radix
      <3> DEFINE q == k \div Radix
                 d == k % Radix
                 a == rem + d * mult
                 m == mult * Radix
      <3>1. /\ Head(wire).kind = "length" /\ Head(wire).digit = d /\ Head(wire).more = TRUE
            /\ Fits(Tail(wire), Up, 1, LengthBytes(q) \o Body(genuine))
        BY <2>5, <2>6 DEF NextDigit
      <3>2. digit = d /\ pc' = pc
        BY <2>3, <3>1
      <3>3. a + q * m = genuine
        <4>1. rem \in Nat /\ mult \in Nat /\ Radix \in Nat \ {0, 1} /\ k \in Nat
          BY <2>0, <2>2
        <4>2. k = Radix * q + d /\ q \in Nat /\ d \in Nat
          <5>1. k \in Nat /\ Radix \in Nat \ {0}
            BY <4>1
          <5> QED BY <5>1
        <4> HIDE DEF q, d
        <4>3. a + q * m = rem + k * mult
          BY <4>1, <4>2, DigitAdds
        <4> QED BY <4>3, <2>1
      <3>4. q \in Nat /\ q >= 1 /\ d \in Nat /\ q \in Encodable
        <4>0. k \in Nat /\ Radix \in Nat \ {0}
          BY <2>0, <2>2
        <4>1. q \in Nat /\ d \in Nat
          BY <4>0
        <4>2. q >= 1
          BY <2>0, <2>2, <2>5, DivLess
        <4>3. q \in Encodable
          BY Divided
        <4> QED BY <4>1, <4>2, <4>3
      <3>5. rem' = a % SizeLimit /\ mult' = m % SizeLimit
        BY <2>3, <3>2
      <3> HIDE DEF q, d
      <3>6. a \in Nat /\ m \in Nat
        BY <2>0, <3>4
      <3> HIDE DEF a, m
      <3>7. a <= genuine /\ m <= genuine
        <4>1. q * m \in Nat /\ q * m >= m
          BY <3>4, <3>6
        <4> QED BY <4>1, <3>3, <3>6, <2>0
      <3>8. rem' = a /\ mult' = m
        <4>1. a < SizeLimit /\ m < SizeLimit
          BY <2>0, <3>6, <3>7
        <4>2. a % SizeLimit = a /\ m % SizeLimit = m
          BY <2>0, <3>6, <4>1, DivMod
        <4> QED BY <3>5, <4>2
      <3>9. rem' + q * mult' = genuine
        BY <3>3, <3>8
      <3>10. Fits(wire', Up', 1, LengthBytes(q) \o Body(genuine'))
        BY <1>1, <1>2, <3>1 DEF q
      <3>11. \E j \in Encodable : /\ rem' + j * mult' = genuine'
                                 /\ Fits(wire', Up', 1, LengthBytes(j) \o Body(genuine'))
        BY <1>2, <3>4, <3>9, <3>10
      <3> QED BY <1>2, <3>2, <3>11 DEF Placed
    <2> QED BY <2>0, <2>2, <2>4, <2>5
  <1>5. Placed'
    BY <1>2, <1>4 DEF Placed
  <1> QED BY <1>1, <1>3, <1>5 DEF FrameInv

\* A byte of a body: what is left of it, and what follows.
LEMMA BodyNext ==
  ASSUME NEW n \in Nat, n > 0, NEW w \in Seq(Byte), w # <<>>, NEW up \in BOOLEAN, Fits(w, up, 1, Body(n))
  PROVE  Fits(Tail(w), up, 1, Body(n - 1))
  <1>1. Body(n) \in Seq(Byte) /\ Body(n) # <<>> /\ Tail(Body(n)) = Body(n - 1)
    BY BodyTyped, BodyTail
  <1> QED BY <1>1, FitsNext

LEMMA DrainFrames ==
  ASSUME Typed, FrameInv, DrainByte, UNCHANGED <<loopVars, env>>
  PROVE  FrameInv'
  <1>1. /\ Frames(wire', Up') /\ LostIsGone' /\ Up' = Up /\ Up \in BOOLEAN /\ wire \in Seq(Byte)
        /\ wire # <<>> /\ wire' = Tail(wire) /\ wire' \in Seq(Byte)
    BY TakeFrames DEF DrainByte
  <1>2. /\ pc = "drain" /\ genuine' = genuine /\ slipped' = slipped /\ packetTimer' = packetTimer
        /\ rem' = rem - 1 /\ rem \in Nat /\ rem > 0
    BY DEF DrainByte, loopVars, Typed, ReaderTyped
  <1>3. genuine # None => Fits(wire', Up', 1, Body(rem'))
    <2>1. genuine # None => Fits(wire, Up, 1, Body(rem))
      BY <1>2 DEF FrameInv, Placed
    <2> QED BY <1>1, <1>2, <2>1, BodyNext
  <1>4. \/ pc' = "drain"
        \/ pc' = "cycled" /\ rc' = "TOO_SHORT" /\ packetTimer' = 0
        \/ pc' = "cycled" /\ rem' = 0
    BY <1>2 DEF DrainByte, EndRead
  <1>5. Placed'
    <2>1. genuine # None => genuine >= BufSize
      BY <1>2 DEF FrameInv, Placed
    <2> QED BY <1>2, <1>3, <1>4, <2>1 DEF Placed
  <1>6. InSync'
    <2>1. CASE pc' = "drain"
      BY <2>1, <1>2 DEF FrameInv, InSync
    <2>2. CASE pc' = "cycled" /\ rc' = "TOO_SHORT" /\ packetTimer' = 0
      BY <2>2 DEF InSync, AtHeader
    <2>3. CASE pc' = "cycled" /\ rem' = 0
      <3>1. ~slipped' => Fits(wire', Up', 1, Body(0))
        BY <1>2, <1>3, <2>3 DEF FrameInv, InSync
      <3>2. Up' \in BOOLEAN
        BY <1>1
      <3>3. ~slipped' => AtHeader'
        BY <1>1, <3>1, <3>2, NothingLeft DEF AtHeader
      <3> QED BY <2>3, <3>3 DEF InSync
    <2> QED BY <1>4, <2>1, <2>2, <2>3
  <1> QED BY <1>1, <1>5, <1>6 DEF FrameInv

LEMMA BodyFrames ==
  ASSUME Typed, FrameInv, BodyByte, UNCHANGED <<loopVars, env>>
  PROVE  FrameInv'
  <1>1. /\ Frames(wire', Up') /\ LostIsGone' /\ Up' = Up /\ Up \in BOOLEAN /\ wire \in Seq(Byte)
        /\ wire # <<>> /\ wire' = Tail(wire) /\ wire' \in Seq(Byte)
    BY TakeFrames DEF BodyByte
  <1>2. /\ pc = "body" /\ genuine' = genuine /\ slipped' = slipped /\ packetTimer' = packetTimer
        /\ rem' = rem /\ left' = left - 1 /\ left \in Nat /\ left > 0
    BY ReaderAssumption DEF BodyByte, loopVars, Typed, ReaderTyped
  <1>3. genuine # None => rem' = genuine' /\ Fits(wire', Up', 1, Body(left'))
    <2>1. genuine # None => rem = genuine /\ Fits(wire, Up, 1, Body(left))
      BY <1>2 DEF FrameInv, Placed
    <2> QED BY <1>1, <1>2, <2>1, BodyNext
  <1>4. \/ pc' = "body"
        \/ pc' = "cycled" /\ rc' = "FAILURE" /\ packetTimer' = 0
        \/ pc' = "dispatch" /\ left' = 0
    BY <1>2 DEF BodyByte, EndRead
  <1>5. genuine # None /\ left' = 0 => AtHeader'
    <2>1. Up' \in BOOLEAN
      BY <1>1
    <2>2. genuine # None /\ left' = 0 => Fits(wire', Up', 1, Body(0))
      BY <1>3
    <2> QED BY <1>1, <2>1, <2>2, NothingLeft DEF AtHeader
  <1>6. Placed'
    BY <1>2, <1>3, <1>4, <1>5 DEF Placed
  <1>7. InSync'
    <2>1. CASE pc' = "body" \/ pc' = "dispatch"
      BY <2>1, <1>2 DEF FrameInv, InSync
    <2>2. CASE pc' = "cycled" /\ rc' = "FAILURE" /\ packetTimer' = 0
      BY <2>2 DEF InSync, AtHeader
    <2> QED BY <1>4, <2>1, <2>2
  <1> QED BY <1>1, <1>6, <1>7 DEF FrameInv

LEMMA EndFrames ==
  ASSUME Typed, FrameInv, ReadExpires \/ ReadError, UNCHANGED <<loopVars, env>>
  PROVE  FrameInv'
  <1>1. UNCHANGED <<wire, arrived, link, genuine, slipped, packetTimer>> /\ arrived = 0 /\ pc \in Reading
    BY DEF ReadExpires, ReadError, loopVars
  <1>2. pc' = "cycled" /\ (rc' = "SUCCESS" => pc = "header")
    BY DEF ReadExpires, ReadError, EndRead, Reading
  <1>3. Frames(wire', Up') /\ LostIsGone' /\ Up' = Up
    BY <1>1 DEF FrameInv, LostIsGone, Up
  <1>4. Placed'
    BY <1>2 DEF Placed
  <1>5. InSync'
    <2>1. CASE ReadError
      <3>1. Len(wire) = 0 /\ wire \in Seq(Byte)
        BY <2>1, <1>1 DEF ReadError, FrameInv, LostIsGone, Up, Typed, WireTyped
      <3>2. wire = <<>>
        BY <3>1, EmptySeq
      <3> QED BY <1>1, <1>2, <3>2 DEF InSync, AtHeader
    <2>2. CASE ReadExpires /\ pc = "header"
      BY <2>2, <1>1, <1>2 DEF FrameInv, InSync, AtHeader
    <2>3. CASE ReadExpires /\ pc # "header"
      <3>1. packetTimer' = 0 /\ rc' # "SUCCESS"
        BY <2>3, <1>1, <1>2 DEF ReadExpires, Timer
      <3> QED BY <1>2, <3>1 DEF InSync, AtHeader
    <2> QED BY <2>1, <2>2, <2>3
  <1> QED BY <1>3, <1>4, <1>5 DEF FrameInv

\* The stream is not touched, and the reader not in a packet.
LEMMA LoopFrames ==
  ASSUME Typed, FrameInv,
         Yield \/ KeepAliveCheck \/ CycleFailed \/ DispatchPublish \/ CallbackReturns \/ DispatchOther
  PROVE  FrameInv'
  <1>1. UNCHANGED <<wire, arrived, link>>
    BY DEF Yield, KeepAliveCheck, CycleFailed, DispatchPublish, CallbackReturns, DispatchOther, peerVars
  <1>2. Frames(wire', Up') /\ LostIsGone' /\ Up' = Up /\ AtHeader' = AtHeader
    BY <1>1 DEF FrameInv, LostIsGone, Up, AtHeader
  <1>3. CASE DispatchPublish \/ CallbackReturns \/ DispatchOther
    <2>1. UNCHANGED <<genuine, rem, slipped>> /\ pc \in {"dispatch", "callback"}
      BY <1>3 DEF DispatchPublish, CallbackReturns, DispatchOther
    <2>2. pc' = "cycled" \/ (pc' = "callback" /\ genuine # None)
      BY <1>3 DEF DispatchPublish, CallbackReturns, DispatchOther, Cycled
    <2>3. genuine # None => AtHeader
      BY <2>1 DEF FrameInv, Placed
    <2>4. Placed'
      BY <1>2, <2>1, <2>2, <2>3 DEF Placed
    <2>5. ~slipped => genuine # None
      BY <2>1 DEF FrameInv, InSync
    <2>6. InSync'
      BY <1>2, <2>1, <2>2, <2>3, <2>5 DEF InSync
    <2> QED BY <1>2, <2>4, <2>6 DEF FrameInv
  <1>4. CASE Yield \/ KeepAliveCheck \/ CycleFailed
    <2>1. genuine' = None /\ pc' \in {"header", "sleep", "down"}
      BY <1>4 DEF Yield, KeepAliveCheck, CycleFailed, LoopOn, YieldReturns, HandleDisconnect,
                  StartRead, Forget, Fresh
    <2>2. Placed'
      BY <2>1 DEF Placed
    <2>3. pc' # "down" /\ ~slipped' => AtHeader
      <3>1. CASE Yield
        BY <3>1 DEF Yield, loopVars, FrameInv, InSync
      <3>2. CASE KeepAliveCheck
        BY <3>2 DEF KeepAliveCheck, FrameInv, InSync
      <3>3. CASE CycleFailed
        BY <3>3 DEF CycleFailed, HandleDisconnect, FrameInv, InSync, Up
      <3> QED BY <1>4, <3>1, <3>2, <3>3
    <2>4. InSync'
      BY <1>2, <2>1, <2>3 DEF InSync
    <2> QED BY <1>2, <2>2, <2>4 DEF FrameInv
  <1> QED BY <1>3, <1>4

\* The reader does nothing while the stream changes behind what it has read.
LEMMA OutsideFrames ==
  ASSUME Typed, FrameInv, UNCHANGED <<readVars, slipped>>,
         \A s \in Seq(Byte) : Fits(wire, Up, 1, s) => Fits(wire', Up', 1, s),
         AtHeader => AtHeader', Up \/ wire # <<>> => Up' \/ wire' # <<>> \/ AtHeader'
  PROVE  Placed' /\ InSync'
  <1>1. UNCHANGED <<pc, rc, rem, mult, left, packetTimer, genuine>>
    BY DEF readVars
  <1>2. Placed'
    <2>1. ASSUME genuine # None, pc = "length"
          PROVE  \E k \in Encodable : /\ rem' + k * mult' = genuine'
                                     /\ Fits(wire', Up', 1, LengthBytes(k) \o Body(genuine'))
      <3>1. PICK k \in Encodable : /\ rem + k * mult = genuine
                                   /\ Fits(wire, Up, 1, LengthBytes(k) \o Body(genuine))
        BY <2>1 DEF FrameInv, Placed
      <3> DEFINE s == LengthBytes(k) \o Body(genuine)
      <3>2. LengthBytes(k) \in Seq(Byte) /\ Body(genuine) \in Seq(Byte)
        BY <2>1, EncodingTyped, DigitsAreBytes, BodyTyped DEF Typed, ReaderTyped, Lengths, Encodable
      <3>3. s \in Seq(Byte)
        BY <3>2, ConcatProperties
      <3>4. Fits(wire', Up', 1, s)
        <4> HIDE DEF s
        <4>1. Fits(wire, Up, 1, s)
          BY <3>1 DEF s
        <4> QED BY <3>3, <4>1
      <3> QED BY <1>1, <3>1, <3>4
    <2>2. genuine # None /\ pc = "body" => Fits(wire', Up', 1, Body(left'))
      <3>1. left \in Nat
        BY ReaderAssumption DEF Typed, ReaderTyped
      <3> QED BY <1>1, <3>1, BodyTyped DEF FrameInv, Placed
    <2>3. genuine # None /\ pc = "drain" => Fits(wire', Up', 1, Body(rem'))
      <3>1. rem \in Nat
        BY DEF Typed, ReaderTyped
      <3> QED BY <1>1, <3>1, BodyTyped DEF FrameInv, Placed
    <2> QED BY <1>1, <2>1, <2>2, <2>3 DEF FrameInv, Placed
  <1>3. InSync'
    BY <1>1 DEF FrameInv, InSync
  <1> QED BY <1>2, <1>3

LEMMA SendFrames ==
  ASSUME Typed, FrameInv, NEW type \in Types, NEW n \in Lengths, Up, UNCHANGED <<readVars, slipped, arrived, link>>,
         wire' = wire \o Packet(type, n)
  PROVE  FrameInv'
  <1> DEFINE q == Packet(type, n)
  <1>1. wire \in Seq(Byte) /\ Frames(wire, TRUE) /\ Up = TRUE /\ Up' = TRUE
    BY DEF Typed, WireTyped, FrameInv, Up
  <1>2. Joins(wire', wire, q) /\ wire' \in Seq(Byte)
    BY SendTyped DEF Typed, WireTyped
  <1>3. Frames(wire', Up')
    BY <1>1, <1>2, FramesJoin
  <1>4. q \in Seq(Byte) /\ Len(q) >= 2 /\ q[1].kind = "header"
    BY PacketTyped
  <1> HIDE DEF q
  <1>5. Len(q) >= 1 /\ Len(q) \in Nat /\ Len(wire) \in Nat
    BY <1>1, <1>4, LenProperties
  <1>6. \A s \in Seq(Byte) : Fits(wire, Up, 1, s) => Fits(wire', Up', 1, s)
    <2> TAKE s \in Seq(Byte)
    <2> HAVE Fits(wire, Up, 1, s)
    <2>1. 1 \in Nat /\ 1 >= 1
      OBVIOUS
    <2>2. Fits(wire, TRUE, 1, s)
      BY <1>1
    <2>3. Fits(wire', TRUE, 1, s)
      BY <1>1, <1>2, <1>4, <1>5, <2>1, <2>2, FitsJoin
    <2> QED BY <1>1, <2>3
  <1>7. AtHeader => AtHeader'
    <2>1. CASE wire = <<>>
      <3>1. Len(wire) = 0 /\ 1 \in 1..Len(q) /\ 1 + 0 = 1
        BY <2>1, <1>5
      <3>2. wire'[1 + Len(wire)] = q[1]
        BY <1>2, <3>1 DEF Joins
      <3> QED BY <3>1, <3>2, <1>4 DEF AtHeader
    <2>2. CASE wire # <<>>
      <3>1. 1 \in 1..Len(wire)
        BY <2>2, <1>1, TailTyped
      <3>2. wire'[1] = wire[1]
        BY <1>2, <3>1 DEF Joins
      <3> QED BY <2>2, <3>2 DEF AtHeader
    <2> QED BY <2>1, <2>2
  <1>8. Placed' /\ InSync'
    BY <1>1, <1>6, <1>7, OutsideFrames
  <1>9. LostIsGone'
    BY <1>1 DEF LostIsGone
  <1> QED BY <1>3, <1>8, <1>9 DEF FrameInv

LEMMA CutFrames ==
  ASSUME Typed, FrameInv, LinkFails
  PROVE  FrameInv'
  <1>1. wire \in Seq(Byte) /\ arrived \in 0..Len(wire) /\ wire' = SubSeq(wire, 1, arrived) /\ arrived' = arrived
    BY DEF Typed, WireTyped, LinkFails
  <1>2. Up' = FALSE
    BY EnvTyped DEF LinkFails, Up, Typed, LoopTyped
  <1>3. Up \in BOOLEAN
    BY DEF Up
  <1>4. wire' \in Seq(Byte) /\ Len(wire') = arrived /\ Frames(wire', Up')
    BY <1>1, <1>2, <1>3, FramesCut DEF FrameInv
  <1>5. \A s \in Seq(Byte) : Fits(wire, Up, 1, s) => Fits(wire', Up', 1, s)
    <2> TAKE s \in Seq(Byte)
    <2> HAVE Fits(wire, Up, 1, s)
    <2>1. 1 \in Nat /\ 1 >= 1
      OBVIOUS
    <2>2. Fits(wire', FALSE, 1, s)
      BY <1>1, <1>3, <2>1, FitsCut
    <2> QED BY <1>2, <2>2
  <1>6. AtHeader => AtHeader'
    <2>1. CASE wire' # <<>>
      <3>1. arrived \in Nat /\ arrived >= 1 /\ Len(wire) \in Nat
        BY <2>1, <1>1, <1>4, TailTyped, LenProperties
      <3>2. wire'[1] = wire[1] /\ wire # <<>>
        BY <1>1, <3>1, SubSeqProperties, EmptySeq
      <3> QED BY <3>2 DEF AtHeader
    <2> QED BY <2>1 DEF AtHeader
  <1>7. wire' # <<>> \/ AtHeader'
    BY DEF AtHeader
  <1>8. UNCHANGED <<readVars, slipped>>
    BY DEF LinkFails
  <1>9. Placed' /\ InSync'
    BY <1>5, <1>6, <1>7, <1>8, OutsideFrames
  <1>10. LostIsGone'
    BY <1>1, <1>4 DEF LostIsGone
  <1> QED BY <1>4, <1>9, <1>10 DEF FrameInv

LEMMA ReconnectFrames ==
  ASSUME Reconnect
  PROVE  FrameInv'
  <1>1. wire' = <<>> /\ arrived' = 0 /\ pc' = "sleep" /\ link' = "up"
    BY DEF Reconnect, Reconnected
  <1>2. Len(wire') = 0
    BY <1>1
  <1>3. Frames(wire', Up')
    BY <1>2 DEF Frames
  <1>4. Placed' /\ InSync' /\ LostIsGone'
    BY <1>1, <1>2 DEF Placed, InSync, LostIsGone, AtHeader
  <1> QED BY <1>3, <1>4 DEF FrameInv

LEMMA TickFrames ==
  ASSUME Typed, FrameInv, Tick
  PROVE  FrameInv'
  <1>1. UNCHANGED <<pc, rc, rem, mult, left, genuine, wire, arrived, link, slipped>> /\ pc # "cycled"
    BY DEF Tick, peerVars, Waiting, Reading
  <1>2. Frames(wire', Up') /\ LostIsGone' /\ Placed'
    BY <1>1 DEF FrameInv, LostIsGone, Up, Placed, AtHeader
  <1>3. InSync'
    BY <1>1 DEF FrameInv, InSync, AtHeader
  <1> QED BY <1>2, <1>3 DEF FrameInv

LEMMA StillFrames ==
  ASSUME Typed, FrameInv, UNCHANGED vars \/ BytesArrive
  PROVE  FrameInv'
  <1>1. UNCHANGED <<pc, rc, rem, mult, left, packetTimer, genuine, wire, link, slipped>>
    BY DEF vars, readVars, peerVars, loopVars, BytesArrive
  <1>2. arrived' = arrived \/ arrived < Len(wire)
    BY DEF vars, peerVars, BytesArrive
  <1>3. Len(wire) \in Nat /\ arrived \in Nat
    BY LenProperties DEF Typed, WireTyped
  <1>4. LostIsGone'
    BY <1>1, <1>2, <1>3 DEF FrameInv, LostIsGone, Up
  <1>5. Frames(wire', Up') /\ Placed' /\ InSync'
    BY <1>1 DEF FrameInv, Up, Placed, AtHeader, InSync
  <1> QED BY <1>4, <1>5 DEF FrameInv

LEMMA InitFrames == Init => FrameInv
  <1> SUFFICES ASSUME Init PROVE FrameInv
    OBVIOUS
  <1>1. wire = <<>> /\ arrived = 0 /\ pc = "sleep" /\ link = "up"
    BY DEF Init
  <1>2. Len(wire) = 0
    BY <1>1
  <1>3. Frames(wire, Up)
    BY <1>2 DEF Frames
  <1>4. Placed /\ InSync /\ LostIsGone
    BY <1>1, <1>2 DEF Placed, InSync, LostIsGone, AtHeader
  <1> QED BY <1>3, <1>4 DEF FrameInv

LEMMA NextFrames == Typed /\ FrameInv /\ [Next]_vars => FrameInv'
  <1> SUFFICES ASSUME Typed, FrameInv, [Next]_vars PROVE FrameInv'
    OBVIOUS
  <1>1. CASE ReaderStep /\ UNCHANGED <<loopVars, env>>
    BY <1>1, HeaderFrames, LengthFrames, DrainFrames, BodyFrames, EndFrames DEF ReaderStep
  <1>2. CASE PeerSends
    <2>1. PICK type \in env.types, n \in env.lengths : wire' = wire \o Packet(type, n)
      BY <1>2 DEF PeerSends
    <2>2. type \in Types /\ n \in Lengths
      BY EnvTyped DEF Typed, LoopTyped
    <2> QED BY <1>2, <2>1, <2>2, SendFrames DEF PeerSends, Up, loopVars
  <1>3. CASE PeerAnswersPing
    BY <1>3, SendFrames, NoLength DEF PeerAnswersPing, Up, Types
  <1> QED BY <1>1, <1>2, <1>3, LoopFrames, CutFrames, ReconnectFrames, TickFrames, StillFrames DEF Next

LEMMA FramesKept == Spec => [](Typed /\ FrameInv)
  <1>1. Init => Typed /\ FrameInv
    BY InitTyped, InitFrames
  <1>2. Typed /\ FrameInv /\ [Next]_vars => Typed' /\ FrameInv'
    BY NextTyped, NextFrames
  <1> QED BY <1>1, <1>2, PTL DEF Spec

\* Unless a packet was given up half-read, the reader starts every packet at
\* its header, for every buffer, timeout and stream of packets
\* (aws_iot_mqtt_internal_read_packet).
THEOREM StaysSynchronised == Spec => []Synchronised
  <1>1. Typed /\ FrameInv => Synchronised
    <2> SUFFICES ASSUME Typed, FrameInv, ~slipped, wire # <<>>,
                        pc \in {"sleep", "header", "dispatch", "callback"}
                 PROVE  Head(wire).kind = "header"
      BY DEF Synchronised
    <2>1. AtHeader
      BY DEF FrameInv, InSync, Placed
    <2>2. Head(wire) = wire[1]
      BY TailTyped DEF Typed, WireTyped
    <2> QED BY <2>1, <2>2 DEF AtHeader
  <1> QED BY <1>1, FramesKept, PTL

\* A length of up to four digits is decoded to the value the peer encoded,
\* in every radix, without a wrap of size_t on the way, even by a reader that
\* has found back to a header (decode_packet_remaining_len).
THEOREM DecodesLengths == Spec => []LengthDecoded
  <1>1. FrameInv => LengthDecoded
    BY DEF FrameInv, Placed, LengthDecoded
  <1> QED BY <1>1, FramesKept, PTL

\* For every buffer and radix, packets that fit as a whole are stored, and
\* packets whose remaining length does not fit are dropped, inside the buffer
\* (aws_iot_mqtt_internal_read_packet).
THEOREM ReadInside == Spec => []ReadInBuffer
  <1>1. Typed /\ FrameInv => ReadInBuffer
    <2> SUFFICES ASSUME Typed, FrameInv, genuine # None, pc \in {"drain", "body"},
                        BodyStart(genuine) + genuine <= BufSize \/ genuine >= BufSize
                 PROVE  ReadEnd <= BufSize
      BY DEF ReadInBuffer
    <2>1. left <= BufSize
      BY DEF Typed, ReaderTyped
    <2>2. CASE pc = "drain"
      BY <2>1, <2>2 DEF ReadEnd
    <2>3. CASE pc = "body"
      <3>1. rem = genuine /\ rem < BufSize
        BY <2>3 DEF FrameInv, Placed, Typed, ReaderTyped
      <3>2. BodyStart(genuine) + genuine <= BufSize
        BY <3>1, ReaderAssumption DEF Typed, ReaderTyped
      <3> QED BY <2>3, <3>1, <3>2 DEF ReadEnd
    <2> QED BY <2>2, <2>3
  <1> QED BY <1>1, FramesKept, PTL

-----------------------------------------------------------------------------
(* The packets on their way.                                               *)

\* The headers in w, the ones before the place h, and the answers to pings.
Marks(w) == {i \in 1..Len(w) : w[i].kind = "header"}
Ahead(w, h) == {i \in Marks(w) : i < h}
Count(w) == Cardinality(Marks(w))
Before(w, h) == Cardinality(Ahead(w, h))
Pongs(w) == {h \in Marks(w) : w[h].type = "PINGRESP"}

LEMMA MarksFinite ==
  ASSUME NEW w \in Seq(Byte)
  PROVE  /\ Len(w) \in Nat /\ IsFiniteSet(Marks(w)) /\ Count(w) \in Nat
         /\ \A h : IsFiniteSet(Ahead(w, h)) /\ Before(w, h) \in Nat
         /\ \A h \in Marks(w) : Before(w, h) + 1 <= Count(w)
  <1>1. Len(w) \in Nat
    BY LenProperties
  <1>2. IsFiniteSet(Marks(w))
    <2>1. IsFiniteSet(1..Len(w))
      BY <1>1, FS_Interval
    <2>2. Marks(w) \in SUBSET (1..Len(w))
      BY DEF Marks
    <2> QED BY <2>1, <2>2, FS_Subset
  <1>3. Count(w) \in Nat
    BY <1>2, FS_CardinalityType DEF Count
  <1>4. \A h : Ahead(w, h) \in SUBSET Marks(w)
    BY DEF Ahead
  <1>5. \A h : IsFiniteSet(Ahead(w, h))
    BY <1>2, <1>4, FS_Subset
  <1>6. \A h : Before(w, h) \in Nat
    BY <1>5, FS_CardinalityType DEF Before
  <1>7. ASSUME NEW h \in Marks(w)
        PROVE  Before(w, h) + 1 <= Count(w)
    <2> DEFINE A == Ahead(w, h)
    <2>1. h \in Nat /\ h \notin A
      BY <1>1 DEF Ahead, Marks
    <2>2. A \cup {h} \in SUBSET Marks(w)
      BY <1>4
    <2>3. IsFiniteSet(A) /\ Before(w, h) = Cardinality(A)
      BY <1>5 DEF Before
    <2> HIDE DEF A
    <2>4. Cardinality(A \cup {h}) = Cardinality(A) + 1
      BY <2>1, <2>3, FS_AddElement
    <2>5. Cardinality(A \cup {h}) <= Cardinality(Marks(w))
      BY <1>2, <2>2, FS_Subset
    <2> QED BY <2>3, <2>4, <2>5 DEF Count
  <1> QED BY <1>1, <1>2, <1>3, <1>5, <1>6, <1>7

\* Places that all move by one are as many as before.
LEMMA Shifted ==
  ASSUME NEW S \in SUBSET Nat, IsFiniteSet(S), NEW T \in SUBSET Nat,
         \A i \in T : i + 1 \in S, \A i \in S : i - 1 \in T
  PROVE  Cardinality(T) = Cardinality(S)
  <1> DEFINE f == [i \in S |-> i - 1]
  <1>1. f \in [S -> T]
    OBVIOUS
  <1>2. \A i, j \in S : f[i] = f[j] => i = j
    <2>1. \A i, j \in S : i - 1 = j - 1 => i = j
      OBVIOUS
    <2> QED BY <2>1
  <1>3. \A t \in T : \E i \in S : f[i] = t
    <2> TAKE t \in T
    <2>1. t + 1 \in S /\ (t + 1) - 1 = t
      OBVIOUS
    <2> QED BY <2>1
  <1> HIDE DEF f
  <1>4. f \in Bijection(S, T)
    BY <1>1, <1>2, <1>3 DEF Bijection, Injection, Surjection, IsInjective
  <1>5. ExistsBijection(S, T)
    BY <1>4 DEF ExistsBijection
  <1> QED BY <1>5, FS_Bijection

\* What is left of a set of places when the first byte is taken.
LEMMA ShiftedTail ==
  ASSUME NEW S \in SUBSET (Nat \ {0}), IsFiniteSet(S), NEW T \in SUBSET (Nat \ {0}),
         \A i \in Nat \ {0} : i \in T <=> i + 1 \in S
  PROVE  Cardinality(T) = Cardinality(S) - (IF 1 \in S THEN 1 ELSE 0)
  <1> DEFINE R == S \ {1}
  <1>1. IsFiniteSet(R) /\ Cardinality(R) = IF 1 \in S THEN Cardinality(S) - 1 ELSE Cardinality(S)
    BY FS_RemoveElement
  <1>2. \A i \in T : i + 1 \in R
    OBVIOUS
  <1>3. \A i \in R : i - 1 \in T
    <2> TAKE i \in R
    <2>1. i \in S /\ i \in Nat /\ i >= 2
      OBVIOUS
    <2>2. i - 1 \in Nat \ {0} /\ (i - 1) + 1 = i
      BY <2>1
    <2> QED BY <2>1, <2>2
  <1>4. R \in SUBSET Nat /\ T \in SUBSET Nat
    OBVIOUS
  <1> HIDE DEF R
  <1>5. Cardinality(T) = Cardinality(R)
    BY <1>1, <1>2, <1>3, <1>4, Shifted
  <1>6. Cardinality(S) \in Nat
    BY FS_CardinalityType
  <1> QED BY <1>1, <1>5, <1>6

LEMMA MarksTail ==
  ASSUME NEW w \in Seq(Byte), w # <<>>, NEW b \in 0..1, b = IF w[1].kind = "header" THEN 1 ELSE 0
  PROVE  /\ Count(Tail(w)) = Count(w) - b
         /\ \A h \in Marks(Tail(w)) :
              /\ h \in Nat /\ h >= 1 /\ h + 1 \in Marks(w) /\ Tail(w)[h] = w[h + 1]
              /\ Before(Tail(w), h) = Before(w, h + 1) - b
  <1> DEFINE v == Tail(w)
  <1>1. /\ v \in Seq(Byte) /\ Len(w) \in Nat /\ Len(w) >= 1 /\ Len(v) = Len(w) - 1
        /\ \A i \in 1..(Len(w) - 1) : v[i] = w[i + 1]
    BY TailTyped
  <1> HIDE DEF v
  <1>2. Marks(w) \in SUBSET (Nat \ {0}) /\ Marks(v) \in SUBSET (Nat \ {0})
    BY <1>1 DEF Marks
  <1>3. 1 \in Marks(w) <=> w[1].kind = "header"
    BY <1>1 DEF Marks
  <1>4. ASSUME NEW i \in Nat \ {0}
        PROVE  i \in Marks(v) <=> i + 1 \in Marks(w)
    <2>1. i \in 1..Len(v) <=> i + 1 \in 1..Len(w)
      BY <1>1
    <2>2. i \in 1..Len(v) => v[i] = w[i + 1]
      BY <1>1
    <2> QED BY <2>1, <2>2 DEF Marks
  <1>5. Count(v) = Count(w) - b
    BY <1>2, <1>3, <1>4, ShiftedTail, MarksFinite DEF Count
  <1>6. ASSUME NEW h \in Marks(v)
        PROVE  Before(v, h) = Before(w, h + 1) - b
    <2>1. h \in Nat /\ h >= 1 /\ h + 1 \in Nat
      BY <1>2
    <2> DEFINE S == Ahead(w, h + 1)
               T == Ahead(v, h)
    <2>2. S \in SUBSET (Nat \ {0}) /\ T \in SUBSET (Nat \ {0}) /\ IsFiniteSet(S)
      BY <1>2, MarksFinite DEF Ahead
    <2>3. \A i \in Nat \ {0} : i \in T <=> i + 1 \in S
      <3> TAKE i \in Nat \ {0}
      <3>1. i < h <=> i + 1 < h + 1
        BY <2>1
      <3> QED BY <1>4, <3>1 DEF Ahead
    <2>4. 1 \in S <=> w[1].kind = "header"
      BY <1>3, <2>1 DEF Ahead
    <2> HIDE DEF S, T
    <2>5. Cardinality(T) = Cardinality(S) - (IF 1 \in S THEN 1 ELSE 0)
      BY <2>2, <2>3, ShiftedTail
    <2>6. Cardinality(T) = Cardinality(S) - b
      BY <2>4, <2>5
    <2> QED BY <2>6 DEF S, T, Before
  <1>7. \A h \in Marks(v) : h \in Nat /\ h >= 1 /\ h + 1 \in Marks(w) /\ v[h] = w[h + 1]
    BY <1>1, <1>2, <1>4 DEF Marks
  <1> QED BY <1>5, <1>6, <1>7 DEF v

\* A packet is sent: one more header, behind all others.
Sent(u, w, type, n) ==
  /\ Count(u) = Count(w) + 1
  /\ Marks(u) = Marks(w) \cup {Len(w) + 1}
  /\ \A h \in Marks(w) : u[h] = w[h] /\ Before(u, h) = Before(w, h)
  /\ u[Len(w) + 1].type = type /\ u[Len(w) + 1].rem = n

LEMMA MarksJoin ==
  ASSUME NEW w \in Seq(Byte), NEW type \in Types, NEW n \in Lengths
  PROVE  Sent(w \o Packet(type, n), w, type, n)
  <1> SUFFICES ASSUME NEW u, u = w \o Packet(type, n)
               PROVE  Sent(u, w, type, n)
    OBVIOUS
  <1> DEFINE q == Packet(type, n)
             r == LengthBytes(n) \o Body(n)
  <1>1. /\ q \in Seq(Byte) /\ r \in Seq(Byte) /\ Len(q) = 1 + Len(r) /\ Len(q) >= 2
        /\ q[1] = [kind |-> "header", type |-> type, rem |-> n] /\ q[1].kind = "header"
        /\ \A i \in 1..Len(r) : q[i + 1].kind # "header"
    BY PacketTyped
  <1>2. q[1].type = type /\ q[1].rem = n
    BY <1>1
  <1>3. Joins(u, w, q)
    BY <1>1, Join
  <1> HIDE DEF q, r
  <1>4. Len(w) \in Nat /\ Len(r) \in Nat /\ Len(u) = Len(w) + Len(q)
    BY <1>1, <1>3, LenProperties DEF Joins
  <1>5. u[Len(w) + 1] = q[1]
    <2>1. 1 \in 1..Len(q) /\ 1 + Len(w) = Len(w) + 1
      BY <1>1, <1>4
    <2> QED BY <1>3, <2>1 DEF Joins
  <1>6. \A i \in 1..Len(w) : u[i] = w[i]
    BY <1>3 DEF Joins
  <1>7. ASSUME NEW i \in 1..Len(u), i > Len(w) + 1
        PROVE  u[i].kind # "header"
    <2> DEFINE j == i - Len(w)
    <2>1. j \in 1..Len(q) /\ i = j + Len(w) /\ j - 1 \in 1..Len(r) /\ j = (j - 1) + 1
      BY <1>1, <1>4, <1>7
    <2> HIDE DEF j
    <2>2. u[j + Len(w)] = q[j]
      BY <1>3, <2>1 DEF Joins
    <2>3. q[(j - 1) + 1].kind # "header"
      BY <1>1, <2>1
    <2> QED BY <2>1, <2>2, <2>3
  <1>8. Marks(u) = Marks(w) \cup {Len(w) + 1}
    <2>1. ASSUME NEW i \in Marks(u) PROVE i \in Marks(w) \cup {Len(w) + 1}
      <3>1. i \in 1..Len(u) /\ u[i].kind = "header"
        BY <2>1 DEF Marks
      <3>2. i <= Len(w) + 1
        BY <1>4, <1>7, <3>1
      <3>3. CASE i <= Len(w)
        <4>1. i \in 1..Len(w)
          BY <1>4, <3>1, <3>3
        <4> QED BY <1>6, <3>1, <4>1 DEF Marks
      <3> QED BY <1>4, <3>1, <3>2, <3>3
    <2>2. ASSUME NEW i \in Marks(w) PROVE i \in Marks(u)
      <3>1. i \in 1..Len(w) /\ i \in 1..Len(u)
        BY <1>1, <1>4 DEF Marks
      <3> QED BY <1>6, <3>1 DEF Marks
    <2>3. Len(w) + 1 \in Marks(u)
      <3>1. Len(w) + 1 \in 1..Len(u)
        BY <1>1, <1>4
      <3> QED BY <1>1, <1>5, <3>1 DEF Marks
    <2> QED BY <2>1, <2>2, <2>3
  <1>9. Len(w) + 1 \notin Marks(w)
    BY <1>4 DEF Marks
  <1>10. Count(u) = Count(w) + 1
    BY <1>8, <1>9, MarksFinite, FS_AddElement DEF Count
  <1>11. ASSUME NEW h \in Marks(w) PROVE Ahead(u, h) = Ahead(w, h)
    <2>1. h \in Nat /\ h <= Len(w)
      BY <1>4 DEF Marks
    <2>2. ~(Len(w) + 1 < h)
      BY <1>4, <2>1
    <2> QED BY <1>8, <2>2 DEF Ahead
  <1>12. \A h \in Marks(w) : u[h] = w[h] /\ Before(u, h) = Before(w, h)
    BY <1>6, <1>11 DEF Before, Marks
  <1> QED BY <1>2, <1>5, <1>8, <1>10, <1>12 DEF Sent

\* The link fails: what was on its way is gone.
LEMMA MarksCut ==
  ASSUME NEW w \in Seq(Byte), NEW n \in 0..Len(w)
  PROVE  Count(SubSeq(w, 1, n)) <= Count(w)
  <1> DEFINE v == SubSeq(w, 1, n)
  <1>1. Len(w) \in Nat /\ n \in Nat /\ n <= Len(w)
    BY LenProperties
  <1>2. Len(v) = n /\ \A i \in 1..n : v[i] = w[i]
    BY <1>1, SubSeqProperties
  <1> HIDE DEF v
  <1>3. Marks(v) \in SUBSET Marks(w)
    BY <1>1, <1>2 DEF Marks
  <1> QED BY <1>3, MarksFinite, FS_Subset DEF Count, v

LEMMA NoMarks == Marks(<<>>) = {} /\ Pongs(<<>>) = {} /\ Count(<<>>) = 0
  <1>1. Marks(<<>>) = {}
    BY DEF Marks
  <1> QED BY <1>1, FS_EmptySet DEF Pongs, Count

-----------------------------------------------------------------------------
(* Time.                                                                   *)

\* A packet may take a callback, and may end its yield.
Turn == CallbackTime + MaxPause
Load(n) == n * Turn

Bounded ==
  /\ pause \in Nat /\ since \in Nat /\ stall \in 0..env.stall
  /\ pc = "sleep" => pause <= MaxPause
  /\ pc = "callback" => pause <= CallbackTime
  /\ ping # None => ping \in 0..PingDelay
  /\ pc = "cycled" /\ rc = "READ_ERROR" => link = "closed"

\* A packet has been given up half-read, and the yield has still to return.
Doomed ==
  /\ pc = "cycled" /\ rc \notin {"SUCCESS", "READ_ERROR"} /\ packetTimer = 0
  /\ Up \/ wire # <<>>

Steady == env.keepAlive > 0 /\ connected /\ ~slipped
Sound == Steady /\ ~Doomed

LEMMA Delays ==
  /\ MaxPause \in Nat /\ CallbackTime \in Nat /\ PingDelay \in Nat /\ PacketTimeout \in Nat
  /\ YieldTime \in Nat /\ YieldTime > 0 /\ Turn \in Nat /\ Turn = CallbackTime + MaxPause
  /\ None \notin Nat
  BY LoopAssumption, ReaderAssumption DEF Turn

LEMMA Loads ==
  /\ \A n \in Nat : Load(n) \in Nat /\ Load(n + 1) = Load(n) + Turn
  /\ \A m, n \in Nat : m <= n => Load(m) <= Load(n)
  /\ Load(0) = 0
  <1>1. Turn \in Nat
    BY Delays
  <1>2. \A n, t \in Nat : n * t \in Nat /\ (n + 1) * t = n * t + t
    OBVIOUS
  <1>3. \A m, n, t \in Nat : m <= n => m * t <= n * t
    OBVIOUS
  <1>4. \A t \in Nat : 0 * t = 0
    OBVIOUS
  <1> QED BY <1>1, <1>2, <1>3, <1>4 DEF Load

LEMMA Timers ==
  ASSUME Typed
  PROVE  /\ env.keepAlive \in Nat /\ env.stall \in Nat /\ env.packets \in Nat
         /\ pingTimer \in 0..env.keepAlive /\ yieldTimer \in 0..YieldTime
         /\ packetTimer \in 0..PacketTimeout /\ arrived \in 0..Len(wire) /\ Len(wire) \in Nat
         /\ wire \in Seq(Byte)
  BY EnvTyped, LenProperties DEF Typed, LoopTyped, ReaderTyped, WireTyped

LEMMA InitBounded == Init => Bounded
  <1> SUFFICES ASSUME Init PROVE Bounded
    OBVIOUS
  <1>1. env.stall \in Nat
    BY EnvTyped DEF Init
  <1>2. pause = 0 /\ since = 0 /\ stall = 0 /\ pc = "sleep" /\ ping = None
    BY DEF Init
  <1> QED BY <1>1, <1>2, Delays DEF Bounded

\* The times, where they are set.
LEMMA PausesSet ==
  /\ YieldReturns => pause' \in Nat /\ pause' <= MaxPause
  /\ DispatchPublish /\ pc' = "callback" => pause' \in Nat /\ pause' <= CallbackTime
  <1>1. \A t \in Nat : \A c : (IF c THEN t ELSE 0) \in Nat /\ (IF c THEN t ELSE 0) <= t
    OBVIOUS
  <1>2. YieldReturns => pause' \in Nat /\ pause' <= MaxPause
    BY <1>1, Delays DEF YieldReturns
  <1>3. ASSUME DispatchPublish, pc' = "callback"
        PROVE  pause' \in Nat /\ pause' <= CallbackTime
    <2>1. pause' \in 0..(IF env.clock THEN CallbackTime ELSE 0)
      BY <1>3 DEF DispatchPublish, Cycled
    <2> QED BY <1>1, <2>1, Delays
  <1> QED BY <1>2, <1>3

LEMMA ReadBounded ==
  ASSUME Bounded, ReaderStep, UNCHANGED <<loopVars, env>>
  PROVE  Bounded'
  <1>1. UNCHANGED <<pause, since, stall, ping, env, link>>
    BY DEF loopVars, ReaderStep, HeaderByte, LengthByte, DrainByte, BodyByte, ReadExpires, ReadError
  <1>2. pc' \notin {"sleep", "callback"}
    BY DEF ReaderStep, HeaderByte, LengthByte, DrainByte, BodyByte, ReadExpires, ReadError,
           LengthKnown, EndRead
  <1>3. pc' = "cycled" /\ rc' = "READ_ERROR" => link = "closed"
    <2>1. CASE HeaderByte \/ LengthByte \/ DrainByte \/ BodyByte
      BY <2>1 DEF HeaderByte, LengthByte, DrainByte, BodyByte, LengthKnown, EndRead
    <2>2. CASE ReadExpires
      <3>1. pc \in Reading
        BY <2>2 DEF ReadExpires
      <3> QED BY <2>2, <3>1 DEF ReadExpires, EndRead, Reading
    <2>3. CASE ReadError
      BY <2>3 DEF ReadError
    <2> QED BY <2>1, <2>2, <2>3 DEF ReaderStep
  <1> QED BY <1>1, <1>2, <1>3 DEF Bounded

LEMMA CycleBounded ==
  ASSUME Bounded, DispatchPublish \/ CallbackReturns \/ DispatchOther
  PROVE  Bounded'
  <1>1. UNCHANGED <<stall, ping, env, link>>
    BY DEF DispatchPublish, CallbackReturns, DispatchOther, peerVars
  <1>2. since' \in {0, since}
    BY DEF DispatchPublish, CallbackReturns, DispatchOther
  <1>3. pc' = "callback" \/ (pc' = "cycled" /\ pause' = pause /\ rc' # "READ_ERROR")
    BY DEF DispatchPublish, CallbackReturns, DispatchOther, Cycled
  <1>4. pc' = "callback" => pause' \in Nat /\ pause' <= CallbackTime
    BY PausesSet DEF CallbackReturns, DispatchOther, Cycled
  <1>5. since' \in Nat /\ pause' \in Nat
    BY <1>2, <1>3, <1>4 DEF Bounded
  <1> QED BY <1>1, <1>3, <1>4, <1>5 DEF Bounded

LEMMA LoopBounded ==
  ASSUME Bounded, Yield \/ KeepAliveCheck \/ CycleFailed
  PROVE  Bounded'
  <1>1. UNCHANGED <<stall, env, link>>
    BY DEF Yield, KeepAliveCheck, CycleFailed, loopVars, peerVars
  <1>2. since' \in {0, since} /\ ping' \in {0, ping}
    BY DEF Yield, KeepAliveCheck, CycleFailed, loopVars
  <1>3. (pc' \in {"header", "down"} /\ pause' = pause) \/ YieldReturns
    BY DEF Yield, KeepAliveCheck, CycleFailed, loopVars, LoopOn, StartRead, HandleDisconnect
  <1>4. pc' \in {"header", "down", "sleep"} /\ pause' \in Nat /\ (pc' = "sleep" => pause' <= MaxPause)
    BY <1>3, PausesSet DEF Bounded, YieldReturns
  <1>5. ping' # None => ping' \in 0..PingDelay
    BY <1>2, Delays DEF Bounded
  <1>6. since' \in Nat
    BY <1>2 DEF Bounded
  <1> QED BY <1>1, <1>4, <1>5, <1>6 DEF Bounded

LEMMA PeerBounded ==
  ASSUME Typed, Bounded,
         Reconnect \/ PeerSends \/ PeerAnswersPing \/ BytesArrive \/ LinkFails \/ UNCHANGED vars
  PROVE  Bounded'
  <1>0. env.stall \in Nat /\ env' = env
    BY Timers DEF Reconnect, PeerSends, PeerAnswersPing, BytesArrive, LinkFails, vars
  <1>1. CASE Reconnect
    <2>1. pause' = 0 /\ since' = 0 /\ stall' = 0 /\ pc' = "sleep" /\ ping' = None
      BY <1>1 DEF Reconnect, Reconnected
    <2> QED BY <1>0, <2>1, Delays DEF Bounded
  <1>2. CASE PeerSends \/ PeerAnswersPing \/ BytesArrive \/ LinkFails \/ UNCHANGED vars
    <2>1. /\ UNCHANGED <<pc, rc, pause>> /\ ping' \in {None, ping}
          /\ since' \in {0, since} /\ stall' \in {0, stall}
      BY <1>2 DEF PeerSends, PeerAnswersPing, BytesArrive, LinkFails, vars, readVars, loopVars
    <2>2. link' = link \/ link = "up"
      BY <1>2 DEF PeerSends, PeerAnswersPing, BytesArrive, LinkFails, vars, peerVars
    <2>3. since' \in Nat /\ stall' \in 0..env.stall
      BY <1>0, <2>1 DEF Bounded
    <2> QED BY <1>0, <2>1, <2>2, <2>3 DEF Bounded
  <1> QED BY <1>1, <1>2

LEMMA TickBounded ==
  ASSUME Typed, Bounded, Tick
  PROVE  Bounded'
  <1>0. env.stall \in Nat /\ PingDelay \in Nat /\ arrived \in Nat /\ Len(wire) \in Nat
    BY Timers, Delays
  <1>1. UNCHANGED <<pc, rc, env, link>> /\ pause' = Down(pause)
    BY DEF Tick, peerVars
  <1>2. pause' \in Nat /\ pause' <= pause
    BY <1>1 DEF Down, Bounded
  <1>3. since' \in Nat
    BY DEF Tick, Bounded
  <1>4. stall' \in 0..env.stall
    BY <1>0 DEF Tick, Bounded
  <1>5. ping' # None => ping' \in 0..PingDelay
    BY <1>0 DEF Tick, Bounded
  <1>6. pause \in Nat /\ MaxPause \in Nat /\ CallbackTime \in Nat
    BY Delays DEF Bounded
  <1>7. (pc = "sleep" => pause' <= MaxPause) /\ (pc = "callback" => pause' <= CallbackTime)
    BY <1>2, <1>6 DEF Bounded
  <1> QED BY <1>1, <1>2, <1>3, <1>4, <1>5, <1>7 DEF Bounded

LEMMA NextBounded == Typed /\ Bounded /\ [Next]_vars => Bounded'
  BY ReadBounded, CycleBounded, LoopBounded, PeerBounded, TickBounded DEF Next

\* A connection is only ever found sound after it was, or after it was opened.
\* A link that fails may take with it what would have been misread.
LEMMA SoundSteps ==
  ASSUME Typed, [Next]_vars, Sound'
  PROVE  env' = env /\ (Reconnect \/ LinkFails \/ (Sound /\ link' = link))
  <1>0. env' = env
    BY DEF Next, DispatchPublish, CallbackReturns, DispatchOther, Yield, KeepAliveCheck, CycleFailed,
           Reconnect, PeerSends, PeerAnswersPing, BytesArrive, LinkFails, Tick, vars
  <1>1. CASE ReaderStep /\ UNCHANGED <<loopVars, env>>
    <2>1. UNCHANGED <<connected, slipped, link>> /\ pc \in Reading
      BY <1>1 DEF loopVars, ReaderStep, HeaderByte, LengthByte, DrainByte, BodyByte, ReadExpires,
                  ReadError, Reading
    <2> QED BY <1>0, <2>1 DEF Sound, Steady, Doomed, Reading
  <1>2. CASE DispatchPublish \/ CallbackReturns \/ DispatchOther \/ Yield \/ Tick
    <2>1. UNCHANGED <<connected, slipped, link>> /\ pc # "cycled"
      BY <1>2 DEF DispatchPublish, CallbackReturns, DispatchOther, Yield, Tick, Waiting, Reading,
                  loopVars, peerVars
    <2> QED BY <1>0, <2>1 DEF Sound, Steady, Doomed
  <1>3. CASE KeepAliveCheck
    <2>1. rc = "SUCCESS" /\ UNCHANGED <<slipped, link>> /\ pc = "cycled"
      BY <1>3 DEF KeepAliveCheck, peerVars
    <2>2. connected
      BY <2>1 DEF Typed
    <2> QED BY <1>0, <2>1, <2>2 DEF Sound, Steady, Doomed
  <1>4. CASE CycleFailed
    <2>1. pc = "cycled" /\ link' = link
      BY <1>4 DEF CycleFailed, peerVars
    <2>2. connected
      BY <2>1 DEF Typed
    <2>3. ~slipped /\ ~Doomed
      BY <1>4 DEF CycleFailed, HandleDisconnect, Sound, Steady, Doomed, Up
    <2> QED BY <1>0, <2>1, <2>2, <2>3 DEF Sound, Steady
  <1>5. CASE PeerSends \/ PeerAnswersPing
    <2>1. UNCHANGED <<pc, rc, packetTimer, connected, slipped, link>> /\ link = "up"
      BY <1>5 DEF PeerSends, PeerAnswersPing, readVars, loopVars
    <2> QED BY <1>0, <2>1 DEF Sound, Steady, Doomed, Up
  <1>6. CASE BytesArrive \/ UNCHANGED vars
    <2>1. UNCHANGED <<pc, rc, packetTimer, connected, slipped, link, wire>>
      BY <1>6 DEF BytesArrive, vars, readVars, loopVars, peerVars
    <2> QED BY <1>0, <2>1 DEF Sound, Steady, Doomed, Up
  <1> QED BY <1>0, <1>1, <1>2, <1>3, <1>4, <1>5, <1>6 DEF Next

-----------------------------------------------------------------------------
(* The answer to a ping.                                                   *)

\* The answer has been read, up to its header at least.
InHand == pc \in {"length", "body", "drain", "dispatch"} /\ header = "PINGRESP"

\* A ping that is outstanding is on its way to the peer, or its one answer is
\* on its way back, or in hand.
PongOnce ==
  /\ \A h \in Pongs(wire) : wire[h].rem = 0
  /\ \A g, h \in Pongs(wire) : g = h
  /\ Pongs(wire) # {} => ping = None /\ isPingOutstanding /\ ~InHand
  /\ InHand => /\ ping = None /\ isPingOutstanding
               /\ pc = "dispatch" \/ (pc = "length" /\ genuine = 0 /\ rem = 0 /\ mult = 1)
  /\ ping # None => isPingOutstanding
  /\ isPingOutstanding => ping # None \/ Pongs(wire) # {} \/ InHand
  /\ Count(wire) <= env.packets + (IF Pongs(wire) = {} THEN 0 ELSE 1)

\* The time a reader that is where it is may take until it reads a header.
Work ==
  IF pc = "sleep" THEN pause
  ELSE IF pc = "header" THEN 0
  ELSE IF pc = "callback" THEN pause + MaxPause
  ELSE IF pc = "cycled" THEN MaxPause
  ELSE CallbackTime + MaxPause

\* The ping was sent at most x ticks ago, and the ping timer started with it.
Waited(x) == since <= x /\ env.keepAlive <= pingTimer + x

\* The same, when it takes another x ticks until the answer is in hand.
Expected(x) == since + x <= AnswerTime /\ env.keepAlive + x <= pingTimer + AnswerTime

PongInTime ==
  /\ ping # None => Waited(ping)
  /\ \A h \in Pongs(wire) :
       /\ arrived <= h => Waited(PingDelay + stall)
       /\ arrived > h => Expected(Load(Before(wire, h)) + Work)
  /\ InHand => IF pc = "length" /\ arrived = 0 THEN Waited(PingDelay + stall)
               ELSE Waited(AnswerTime)

PongInv == Sound /\ Up => PongOnce /\ PongInTime

LEMMA Answering ==
  ASSUME Typed
  PROVE  /\ AnswerTime \in Nat /\ Backlog \in Nat
         /\ Backlog = Load(env.packets + 1) /\ Backlog = Load(env.packets) + Turn
         /\ AnswerTime = PingDelay + env.stall + Backlog
  <1>1. env.packets \in Nat /\ env.packets + 1 \in Nat /\ env.stall \in Nat /\ PingDelay \in Nat
    BY Timers, Delays
  <1>2. Backlog = Load(env.packets + 1)
    BY DEF Backlog, Load, Turn
  <1>3. Backlog \in Nat /\ Backlog = Load(env.packets) + Turn
    BY <1>1, <1>2, Loads
  <1> QED BY <1>1, <1>2, <1>3 DEF AnswerTime

LEMMA Works ==
  /\ pc = "sleep" => Work = pause
  /\ pc = "header" => Work = 0
  /\ pc = "callback" => Work = pause + MaxPause
  /\ pc = "cycled" => Work = MaxPause
  /\ pc \notin {"sleep", "header", "callback", "cycled"} => Work = CallbackTime + MaxPause
  /\ pc' = "sleep" => Work' = pause'
  /\ pc' = "header" => Work' = 0
  /\ pc' = "callback" => Work' = pause' + MaxPause
  /\ pc' = "cycled" => Work' = MaxPause
  /\ pc' \notin {"sleep", "header", "callback", "cycled"} => Work' = CallbackTime + MaxPause
  BY DEF Work

LEMMA WorkNow ==
  ASSUME Bounded
  PROVE  Work \in Nat
  <1>1. pause \in Nat /\ MaxPause \in Nat /\ CallbackTime \in Nat
    BY Delays DEF Bounded
  <1> QED BY <1>1 DEF Work

LEMMA WorkBounded ==
  ASSUME Bounded, Bounded'
  PROVE  Work \in Nat /\ Work <= Turn /\ Work' \in Nat /\ Work' <= Turn
  <1>1. /\ pause \in Nat /\ pause' \in Nat
        /\ MaxPause \in Nat /\ CallbackTime \in Nat /\ Turn = CallbackTime + MaxPause
    BY Delays DEF Bounded
  <1>2. /\ pc = "sleep" => pause <= MaxPause
        /\ pc = "callback" => pause <= CallbackTime
        /\ pc' = "sleep" => pause' <= MaxPause
        /\ pc' = "callback" => pause' <= CallbackTime
    BY DEF Bounded
  <1> QED BY <1>1, <1>2, Works

\* The reader that is in a packet, and not slipped, stands before its bytes.
LEMMA InPacket ==
  ASSUME Typed, FrameInv, ~slipped, wire # <<>>
  PROVE  /\ pc \in {"length", "body", "drain"} => wire[1].kind # "header"
         /\ pc = "length" /\ genuine = 0 /\ rem = 0 /\ mult = 1
            => Head(wire).kind = "length" /\ Head(wire).digit = 0 /\ Head(wire).more = FALSE
  <1>0. wire \in Seq(Byte) /\ Head(wire) = wire[1] /\ Len(wire) \in Nat /\ Len(wire) >= 1 /\ Up \in BOOLEAN
    BY TailTyped DEF Typed, WireTyped, Up
  <1>1. ASSUME pc = "length"
        PROVE  /\ Head(wire).kind = "length"
               /\ genuine = 0 /\ rem = 0 /\ mult = 1 => Head(wire).digit = 0 /\ Head(wire).more = FALSE
    <2>1. genuine # None /\ genuine \in Lengths /\ genuine \in Nat
      BY <1>1 DEF FrameInv, InSync, Typed, ReaderTyped, Lengths, Encodable
    <2>2. PICK k \in Encodable : /\ rem + k * mult = genuine
                                 /\ Fits(wire, Up, 1, LengthBytes(k) \o Body(genuine))
      BY <1>1, <2>1 DEF FrameInv, Placed
    <2>3. NextDigit(wire, Up, k, genuine)
      BY <1>0, <2>1, <2>2, DigitNext
    <2>4. k \in Nat /\ Radix \in Nat /\ Radix > 0
      BY ReaderAssumption DEF Encodable
    <2>5. Head(wire).kind = "length"
      BY <2>3, <2>4 DEF NextDigit
    <2>6. ASSUME genuine = 0, rem = 0, mult = 1
          PROVE  Head(wire).digit = 0 /\ Head(wire).more = FALSE
      <3>1. k = 0
        BY <2>2, <2>4, <2>6
      <3> QED BY <2>3, <2>4, <3>1 DEF NextDigit
    <2> QED BY <2>5, <2>6
  <1>2. ASSUME NEW n \in Nat, n > 0, Fits(wire, Up, 1, Body(n))
        PROVE  wire[1].kind # "header"
    <2>1. Len(Body(n)) = n /\ Body(n)[1].kind = "body"
      BY <1>2, BodyTyped
    <2>2. 1 \in 1..n /\ 1 + 1 - 1 = 1
      BY <1>2
    <2>3. wire[1] = Body(n)[1]
      BY <1>0, <1>2, <2>1, <2>2 DEF Fits
    <2> QED BY <2>1, <2>3
  <1>3. CASE pc = "body"
    <2>1. genuine # None /\ left \in Nat /\ left > 0
      BY <1>3, ReaderAssumption DEF FrameInv, InSync, Typed, ReaderTyped
    <2> QED BY <1>2, <1>3, <2>1 DEF FrameInv, Placed
  <1>4. CASE pc = "drain"
    <2>1. genuine # None /\ rem \in Nat /\ rem > 0
      BY <1>4, ReaderAssumption DEF FrameInv, InSync, Typed, ReaderTyped
    <2> QED BY <1>2, <1>4, <2>1 DEF FrameInv, Placed
  <1> QED BY <1>0, <1>1, <1>3, <1>4

\* The stream is not touched, no answer is handled, and the reader gets on.
LEMMA PongSame ==
  ASSUME Typed, Bounded, Bounded', PongOnce, PongInTime, ~InHand, ~InHand',
         UNCHANGED <<wire, arrived, ping, isPingOutstanding, env, pingTimer, stall>>,
         since' <= since, arrived = 0 \/ Work' <= Work
  PROVE  PongOnce' /\ PongInTime'
  <1>0. /\ since \in Nat /\ since' \in Nat /\ Work \in Nat /\ Work' \in Nat /\ AnswerTime \in Nat
        /\ env.keepAlive \in Nat /\ pingTimer \in Nat /\ stall \in Nat /\ PingDelay \in Nat
        /\ wire \in Seq(Byte)
    BY WorkBounded, Answering, Timers, Delays DEF Bounded
  <1>1. PongOnce'
    BY DEF PongOnce
  <1>2. \A x \in Nat : Waited(x) => since' <= x /\ env'.keepAlive <= pingTimer' + x
    BY <1>0 DEF Waited
  <1>3. ping # None => since' <= ping' /\ env'.keepAlive <= pingTimer' + ping'
    <2>1. ping # None => ping \in Nat
      BY Delays DEF Bounded
    <2> QED BY <1>2, <2>1 DEF PongInTime
  <1>4. ASSUME NEW h \in Pongs(wire)
        PROVE  /\ arrived <= h => since' <= PingDelay + stall /\ env.keepAlive <= pingTimer + (PingDelay + stall)
               /\ arrived > h => /\ since' + (Load(Before(wire, h)) + Work') <= AnswerTime
                                 /\ env.keepAlive + (Load(Before(wire, h)) + Work') <= pingTimer + AnswerTime
    <2>1. Load(Before(wire, h)) \in Nat
      BY <1>0, MarksFinite, Loads
    <2>2. arrived > h => Expected(Load(Before(wire, h)) + Work)
      BY <1>4 DEF PongInTime
    <2>3. arrived <= h => Waited(PingDelay + stall)
      BY <1>4 DEF PongInTime
    <2>4. arrived > h => Work' <= Work
      <3>1. h \in Nat /\ h >= 1
        BY <1>0, MarksFinite DEF Pongs, Marks
      <3> QED BY <3>1
    <2> QED BY <1>0, <2>1, <2>2, <2>3, <2>4 DEF Expected, Waited
  <1>5. AnswerTime' = AnswerTime
    BY DEF AnswerTime, Backlog
  <1>6. PongInTime'
    BY <1>3, <1>4, <1>5 DEF PongInTime, Waited, Expected
  <1> QED BY <1>1, <1>6

LEMMA PongsTail ==
  ASSUME NEW w \in Seq(Byte), w # <<>>
  PROVE  /\ \A h \in Pongs(Tail(w)) : h \in Nat /\ h >= 1 /\ h + 1 \in Pongs(w) /\ Tail(w)[h] = w[h + 1]
         /\ \A h \in Pongs(w) : h \in Nat /\ h >= 1 /\ (h >= 2 => h - 1 \in Pongs(Tail(w)))
  <1>1. \A h \in Pongs(Tail(w)) : h \in Nat /\ h >= 1 /\ h + 1 \in Pongs(w) /\ Tail(w)[h] = w[h + 1]
    <2>1. PICK b \in 0..1 : b = IF w[1].kind = "header" THEN 1 ELSE 0
      OBVIOUS
    <2> QED BY <2>1, MarksTail DEF Pongs
  <1>2. ASSUME NEW h \in Pongs(w)
        PROVE  h \in Nat /\ h >= 1 /\ (h >= 2 => h - 1 \in Pongs(Tail(w)))
    <2> DEFINE v == Tail(w)
    <2>1. /\ Len(w) \in Nat /\ Len(v) = Len(w) - 1
          /\ \A i \in 1..(Len(w) - 1) : v[i] = w[i + 1]
      BY TailTyped
    <2> HIDE DEF v
    <2>2. h \in 1..Len(w) /\ w[h].kind = "header" /\ w[h].type = "PINGRESP"
      BY <1>2 DEF Pongs, Marks
    <2>3. ASSUME h >= 2 PROVE h - 1 \in Pongs(v)
      <3>1. h - 1 \in 1..Len(v) /\ h - 1 \in 1..(Len(w) - 1) /\ (h - 1) + 1 = h
        BY <2>1, <2>2, <2>3
      <3>2. v[h - 1] = w[h]
        BY <2>1, <3>1
      <3> QED BY <2>2, <3>1, <3>2 DEF Pongs, Marks
    <2> QED BY <2>1, <2>2, <2>3 DEF v
  <1> QED BY <1>1, <1>2

\* A byte is taken.  When it is a header, its packet is the work now.
LEMMA PongsShift ==
  ASSUME Typed, Bounded, Bounded', PongInTime, Take, UNCHANGED <<env, since, pingTimer, stall>>,
         NEW b \in 0..1, b = IF wire[1].kind = "header" THEN 1 ELSE 0,
         (b = 0 /\ Work' <= Work) \/ b = 1,
         NEW h \in Pongs(wire')
  PROVE  /\ arrived' <= h => since' <= PingDelay + stall' /\ env'.keepAlive <= pingTimer' + (PingDelay + stall')
         /\ arrived' > h =>
              /\ since' + (Load(Before(wire', h)) + Work') <= AnswerTime
              /\ env'.keepAlive + (Load(Before(wire', h)) + Work') <= pingTimer' + AnswerTime
  <1>0. /\ since \in Nat /\ Work \in Nat /\ Work' \in Nat /\ Work' <= Turn /\ Turn \in Nat
        /\ AnswerTime \in Nat /\ env.keepAlive \in Nat /\ pingTimer \in Nat /\ stall \in Nat
        /\ PingDelay \in Nat /\ wire \in Seq(Byte)
    BY WorkBounded, Answering, Timers, Delays DEF Bounded
  <1>1. wire # <<>> /\ wire' = Tail(wire) /\ arrived' = arrived - 1 /\ arrived \in Nat
    BY TakeTyped, Timers DEF Typed, Take
  <1>2. h \in Nat /\ h + 1 \in Pongs(wire) /\ h \in Marks(wire')
    BY <1>0, <1>1, PongsTail DEF Pongs
  <1>3. Before(wire', h) = Before(wire, h + 1) - b
    BY <1>0, <1>1, <1>2, MarksTail
  <1> DEFINE m == Before(wire, h + 1)
             n == Before(wire', h)
  <1>4. m \in Nat /\ n \in Nat
    <2>1. wire' \in Seq(Byte)
      BY <1>0, <1>1, TailTyped
    <2> QED BY <1>0, <2>1, MarksFinite
  <1>5. /\ arrived <= h + 1 => Waited(PingDelay + stall)
        /\ arrived > h + 1 => Expected(Load(m) + Work)
    BY <1>2 DEF PongInTime
  <1> HIDE DEF m, n
  <1>6. Load(m) \in Nat /\ Load(n) \in Nat
    BY <1>4, Loads
  <1>7. Load(n) + Work' <= Load(m) + Work
    <2>1. CASE b = 0
      <3>1. m = n
        BY <1>3, <1>4, <2>1 DEF m, n
      <3> QED BY <1>0, <1>6, <2>1, <3>1
    <2>2. CASE b = 1
      <3>1. m = n + 1
        BY <1>3, <1>4, <2>2 DEF m, n
      <3>2. Load(m) = Load(n) + Turn
        BY <1>4, <3>1, Loads
      <3> QED BY <1>0, <1>6, <3>2
    <2> QED BY <2>1, <2>2
  <1>8. arrived' <= h => since' <= PingDelay + stall' /\ env'.keepAlive <= pingTimer' + (PingDelay + stall')
    BY <1>0, <1>1, <1>2, <1>5 DEF Waited
  <1>9. ASSUME arrived' > h
        PROVE  /\ since' + (Load(n) + Work') <= AnswerTime
               /\ env'.keepAlive + (Load(n) + Work') <= pingTimer' + AnswerTime
    <2>1. Expected(Load(m) + Work)
      BY <1>1, <1>2, <1>5, <1>9
    <2> DEFINE x == Load(m) + Work
               y == Load(n) + Work'
    <2>2. x \in Nat /\ y \in Nat /\ y <= x
      BY <1>0, <1>6, <1>7
    <2> HIDE DEF x, y
    <2>3. since + x <= AnswerTime /\ env.keepAlive + x <= pingTimer + AnswerTime
      BY <2>1 DEF Expected, x
    <2>4. since' + y <= AnswerTime /\ env'.keepAlive + y <= pingTimer' + AnswerTime
      BY <1>0, <2>2, <2>3
    <2> QED BY <2>4 DEF y
  <1> QED BY <1>8, <1>9 DEF n

\* The connection is sound, and so is what is known of a ping.
PongPre == Typed /\ FrameInv /\ Bounded /\ Bounded' /\ Sound /\ Up /\ PongOnce /\ PongInTime

LEMMA PongHeader ==
  ASSUME PongPre, HeaderByte, UNCHANGED <<loopVars, env>>
  PROVE  PongOnce' /\ PongInTime'
  <1>0. /\ UNCHANGED <<ping, isPingOutstanding, env, since, pingTimer, stall>>
        /\ pc = "header" /\ pc' = "length" /\ rem' = 0 /\ mult' = 1 /\ Take
    BY DEF HeaderByte, loopVars
  <1>1. /\ wire \in Seq(Byte) /\ wire # <<>> /\ wire' = Tail(wire) /\ Head(wire) = wire[1]
        /\ arrived' = arrived - 1 /\ arrived \in Nat /\ arrived > 0 /\ wire' \in Seq(Byte)
        /\ Len(wire) \in Nat /\ Len(wire) >= 1
    BY <1>0, TakeTyped, Timers, TailTyped DEF PongPre, Typed, Take, WireTyped
  <1>2. wire[1].kind = "header"
    BY <1>0, <1>1 DEF PongPre, FrameInv, InSync, AtHeader, Sound, Steady
  <1>3. header' = wire[1].type /\ genuine' = wire[1].rem
    BY <1>1, <1>2 DEF HeaderByte
  <1>4. ~InHand /\ (InHand' <=> 1 \in Pongs(wire))
    BY <1>0, <1>1, <1>2, <1>3 DEF InHand, Pongs, Marks
  <1>5. Count(wire') = Count(wire) - 1 /\ Count(wire) \in Nat
    BY <1>1, <1>2, MarksTail, MarksFinite
  <1>6. /\ \A h \in Pongs(wire') : h \in Nat /\ h >= 1 /\ h + 1 \in Pongs(wire) /\ wire'[h] = wire[h + 1]
        /\ \A h \in Pongs(wire) : h \in Nat /\ h >= 1 /\ (h >= 2 => h - 1 \in Pongs(wire'))
    BY <1>1, PongsTail
  <1>7. env.packets \in Nat /\ AnswerTime \in Nat /\ AnswerTime' = AnswerTime
    BY <1>0, Timers, Answering DEF PongPre, AnswerTime, Backlog
  <1>8. PongOnce'
    <2>1. \A h \in Pongs(wire') : wire'[h].rem = 0
      BY <1>6 DEF PongPre, PongOnce
    <2>2. \A g, h \in Pongs(wire') : g = h
      <3> TAKE g, h \in Pongs(wire')
      <3>1. g + 1 = h + 1 /\ g \in Nat /\ h \in Nat
        BY <1>6 DEF PongPre, PongOnce
      <3> QED BY <3>1
    <2>3. ASSUME Pongs(wire') # {}
          PROVE  ping = None /\ isPingOutstanding /\ ~InHand'
      <3>1. PICK h \in Pongs(wire') : TRUE
        BY <2>3
      <3>2. h + 1 \in Pongs(wire) /\ h + 1 # 1
        BY <1>6
      <3>3. 1 \notin Pongs(wire)
        BY <3>2 DEF PongPre, PongOnce
      <3> QED BY <1>4, <3>2, <3>3 DEF PongPre, PongOnce
    <2>4. InHand' => ping = None /\ isPingOutstanding /\ genuine' = 0
      BY <1>3, <1>4 DEF PongPre, PongOnce
    <2>5. ASSUME isPingOutstanding, ping = None
          PROVE  Pongs(wire') # {} \/ InHand'
      <3>1. PICK h \in Pongs(wire) : TRUE
        BY <1>4, <2>5 DEF PongPre, PongOnce
      <3>2. h = 1 \/ h - 1 \in Pongs(wire')
        BY <1>6
      <3> QED BY <1>4, <3>2
    <2>6. Count(wire') <= env.packets + (IF Pongs(wire') = {} THEN 0 ELSE 1)
      <3>1. Count(wire) <= env.packets + 1
        BY <1>5, <1>7 DEF PongPre, PongOnce
      <3> QED BY <1>5, <1>7, <3>1
    <2>7. ping # None => isPingOutstanding
      BY DEF PongPre, PongOnce
    <2> QED BY <1>0, <2>1, <2>2, <2>3, <2>4, <2>5, <2>6, <2>7 DEF PongOnce
  <1>9. PongInTime'
    <2>1. ping' # None => since' <= ping' /\ env'.keepAlive <= pingTimer' + ping'
      BY <1>0 DEF PongPre, PongInTime, Waited
    <2>2. \A h \in Pongs(wire') :
            /\ arrived' <= h => since' <= PingDelay + stall' /\ env'.keepAlive <= pingTimer' + (PingDelay + stall')
            /\ arrived' > h =>
                 /\ since' + (Load(Before(wire', h)) + Work') <= AnswerTime
                 /\ env'.keepAlive + (Load(Before(wire', h)) + Work') <= pingTimer' + AnswerTime
      BY <1>0, <1>2, PongsShift DEF PongPre
    <2>3. ASSUME InHand', arrived' = 0
          PROVE  since' <= PingDelay + stall' /\ env'.keepAlive <= pingTimer' + (PingDelay + stall')
      <3>1. arrived <= 1 /\ 1 \in Pongs(wire)
        BY <1>1, <1>4, <2>3
      <3>2. Waited(PingDelay + stall)
        BY <3>1 DEF PongPre, PongInTime
      <3> QED BY <1>0, <3>2 DEF Waited
    <2>4. ASSUME InHand', arrived' # 0
          PROVE  since' <= AnswerTime /\ env'.keepAlive <= pingTimer' + AnswerTime
      <3>1. arrived > 1 /\ 1 \in Pongs(wire)
        BY <1>1, <1>4, <2>4
      <3>2. Expected(Load(Before(wire, 1)) + Work)
        BY <3>1 DEF PongPre, PongInTime
      <3> DEFINE x == Load(Before(wire, 1)) + Work
      <3>3. x \in Nat
        <4>1. Before(wire, 1) \in Nat /\ Work \in Nat
          BY <1>1, MarksFinite, WorkBounded DEF PongPre
        <4>2. Load(Before(wire, 1)) \in Nat
          BY <4>1, Loads
        <4> QED BY <4>1, <4>2
      <3>4. since \in Nat /\ env.keepAlive \in Nat /\ pingTimer \in Nat
        BY Timers DEF PongPre, Bounded
      <3> HIDE DEF x
      <3>5. since + x <= AnswerTime /\ env.keepAlive + x <= pingTimer + AnswerTime
        BY <3>2 DEF Expected, x
      <3> QED BY <1>0, <1>7, <3>3, <3>4, <3>5
    <2> QED BY <1>0, <1>7, <2>1, <2>2, <2>3, <2>4 DEF PongInTime, Waited, Expected
  <1> QED BY <1>8, <1>9

\* Another byte of a packet that is not an answer.
LEMMA PongByte ==
  ASSUME PongPre, Take, wire[1].kind # "header", ~InHand, ~InHand', Work' <= Work,
         UNCHANGED <<loopVars, env>>
  PROVE  PongOnce' /\ PongInTime'
  <1>0. UNCHANGED <<ping, isPingOutstanding, env, since, pingTimer, stall>>
    BY DEF loopVars
  <1>1. wire \in Seq(Byte) /\ wire # <<>> /\ wire' = Tail(wire)
    BY TakeTyped, Timers DEF PongPre, Typed, Take
  <1>5. Count(wire') = Count(wire)
    <2>1. Count(wire') = Count(wire) - 0 /\ Count(wire) \in Nat
      BY <1>1, MarksTail, MarksFinite
    <2> QED BY <2>1
  <1>6. /\ \A h \in Pongs(wire') : h \in Nat /\ h >= 1 /\ h + 1 \in Pongs(wire) /\ wire'[h] = wire[h + 1]
        /\ \A h \in Pongs(wire) : h \in Nat /\ h >= 1 /\ (h >= 2 => h - 1 \in Pongs(wire'))
    BY <1>1, PongsTail
  <1>7. Pongs(wire') = {} <=> Pongs(wire) = {}
    <2>1. 1 \notin Pongs(wire)
      BY DEF Pongs, Marks
    <2>2. \A h \in Pongs(wire) : h >= 2
      BY <1>6, <2>1
    <2> QED BY <1>6, <2>2
  <1>8. PongOnce'
    <2>1. \A h \in Pongs(wire') : wire'[h].rem = 0
      BY <1>6 DEF PongPre, PongOnce
    <2>2. \A g, h \in Pongs(wire') : g = h
      <3> TAKE g, h \in Pongs(wire')
      <3>1. g + 1 = h + 1 /\ g \in Nat /\ h \in Nat
        BY <1>6 DEF PongPre, PongOnce
      <3> QED BY <3>1
    <2> QED BY <1>0, <1>5, <1>7, <2>1, <2>2 DEF PongPre, PongOnce
  <1>9. PongInTime'
    <2>0. AnswerTime' = AnswerTime
      BY <1>0 DEF AnswerTime, Backlog
    <2>1. ping' # None => since' <= ping' /\ env'.keepAlive <= pingTimer' + ping'
      BY <1>0 DEF PongPre, PongInTime, Waited
    <2>2. \A h \in Pongs(wire') :
            /\ arrived' <= h => since' <= PingDelay + stall' /\ env'.keepAlive <= pingTimer' + (PingDelay + stall')
            /\ arrived' > h =>
                 /\ since' + (Load(Before(wire', h)) + Work') <= AnswerTime
                 /\ env'.keepAlive + (Load(Before(wire', h)) + Work') <= pingTimer' + AnswerTime
      BY <1>0, PongsShift DEF PongPre
    <2> QED BY <2>0, <2>1, <2>2 DEF PongInTime, Waited, Expected
  <1> QED BY <1>8, <1>9

\* The length of the answer is 0: with it, the answer is complete.
LEMMA PongLength ==
  ASSUME PongPre, LengthByte, InHand, UNCHANGED <<loopVars, env>>
  PROVE  PongOnce' /\ PongInTime'
  <1>0. /\ UNCHANGED <<ping, isPingOutstanding, env, since, pingTimer, stall, header>>
        /\ pc = "length" /\ Take
    BY DEF LengthByte, loopVars
  <1>1. wire \in Seq(Byte) /\ wire # <<>> /\ wire' = Tail(wire) /\ arrived > 0 /\ arrived \in Nat
    BY <1>0, TakeTyped, Timers DEF PongPre, Typed, Take
  <1>2. genuine = 0 /\ rem = 0 /\ mult = 1
    BY <1>0 DEF PongPre, PongOnce
  <1>3. wire[1].kind # "header" /\ Head(wire).kind = "length" /\ Head(wire).digit = 0 /\ Head(wire).more = FALSE
    BY <1>0, <1>1, <1>2, InPacket DEF PongPre, Sound, Steady
  <1>4. pc' = "dispatch"
    <2>1. PICK digit \in 0..(Radix - 1), more \in BOOLEAN :
          /\ Head(wire).kind = "length" => digit = Head(wire).digit /\ more = Head(wire).more
          /\ rem' = (rem + digit * mult) % SizeLimit
          /\ \/ more /\ UNCHANGED <<pc, rc, left>>
             \/ ~more /\ LengthKnown(rem')
      BY DEF LengthByte
    <2>2. digit = 0 /\ LengthKnown(rem')
      BY <1>3, <2>1
    <2>3. rem' = 0 % SizeLimit
      BY <1>2, <2>1, <2>2
    <2>4. rem' = 0 /\ BufSize \in Nat /\ BufSize > 0
      BY <2>3, ReaderAssumption, DivMod
    <2> QED BY <2>2, <2>4 DEF LengthKnown, EndRead
  <1>5. InHand' /\ Pongs(wire) = {}
    BY <1>0, <1>4 DEF InHand, PongPre, PongOnce
  <1>6. Pongs(wire') = {}
    BY <1>1, <1>5, PongsTail
  <1>7. Count(wire') = Count(wire)
    <2>1. Count(wire') = Count(wire) - 0 /\ Count(wire) \in Nat
      BY <1>1, <1>3, MarksTail, MarksFinite
    <2> QED BY <2>1
  <1>8. PongOnce'
    BY <1>0, <1>4, <1>5, <1>6, <1>7 DEF PongPre, PongOnce
  <1>9. Waited(AnswerTime)
    BY <1>1 DEF PongPre, PongInTime
  <1>10. AnswerTime' = AnswerTime
    BY <1>0 DEF AnswerTime, Backlog
  <1>11. ping' = None
    BY <1>0 DEF PongPre, PongOnce
  <1>12. PongInTime'
    BY <1>0, <1>4, <1>6, <1>9, <1>10, <1>11 DEF PongInTime, Waited
  <1> QED BY <1>8, <1>12

\* A step of the reader.
LEMMA PongReader ==
  ASSUME PongPre, ReaderStep, UNCHANGED <<loopVars, env>>, ~Doomed'
  PROVE  PongOnce' /\ PongInTime'
  <1>0. /\ ~slipped /\ MaxPause \in Nat /\ CallbackTime \in Nat
        /\ Typed /\ FrameInv /\ Bounded /\ Bounded' /\ PongOnce /\ PongInTime
    BY Delays DEF PongPre, Sound, Steady
  <1>1. CASE LengthByte /\ ~InHand
    <2>1. pc = "length" /\ pc' \in {"length", "drain", "body", "dispatch"} /\ header' = header /\ Take
      BY <1>1 DEF LengthByte, LengthKnown, EndRead
    <2>2. ~InHand'
      BY <1>1, <2>1 DEF InHand
    <2>3. wire # <<>>
      BY <1>0, <2>1, TakeTyped DEF Typed
    <2>4. wire[1].kind # "header"
      BY <1>0, <2>1, <2>3, InPacket
    <2>5. Work' <= Work
      BY <1>0, <2>1, Works
    <2> QED BY <1>1, <2>1, <2>2, <2>4, <2>5, PongByte
  <1>2. CASE DrainByte \/ BodyByte
    <2>1. pc \in {"drain", "body"} /\ pc' \in {"drain", "body", "dispatch", "cycled"} /\ header' = header /\ Take
      BY <1>2 DEF DrainByte, BodyByte, EndRead
    <2>2. ~InHand
      BY <1>0, <2>1 DEF PongOnce
    <2>3. ~InHand'
      BY <2>1, <2>2 DEF InHand
    <2>4. wire # <<>>
      BY <1>0, <2>1, TakeTyped DEF Typed
    <2>5. wire[1].kind # "header"
      BY <1>0, <2>1, <2>4, InPacket
    <2>6. Work' <= Work
      BY <1>0, <2>1, Works
    <2> QED BY <2>1, <2>2, <2>3, <2>5, <2>6, PongByte
  <1>3. CASE ReadExpires
    <2>1. pc \in Reading /\ pc' = "cycled" /\ UNCHANGED <<wire, arrived, link, packetTimer>>
      BY <1>3 DEF ReadExpires, EndRead, Reading
    <2>2. pc = "header"
      <3> SUFFICES ASSUME pc # "header" PROVE FALSE
        OBVIOUS
      <3>1. packetTimer' = 0 /\ rc' \notin {"SUCCESS", "READ_ERROR"}
        BY <1>3, <2>1 DEF ReadExpires, Timer, EndRead, Reading
      <3>2. Up'
        BY <2>1 DEF PongPre, Up
      <3> QED BY <2>1, <3>1, <3>2 DEF Doomed
    <2>3. header' = header /\ UNCHANGED <<ping, isPingOutstanding, env, since, pingTimer, stall>>
      BY <1>3 DEF ReadExpires, loopVars
    <2>4. since \in Nat /\ arrived = 0
      BY <1>0, <1>3 DEF Bounded, ReadExpires
    <2>5. ~InHand /\ ~InHand'
      BY <2>1, <2>2 DEF InHand
    <2> QED BY <1>0, <2>1, <2>3, <2>4, <2>5, PongSame
  <1>4. CASE ReadError
    BY <1>4 DEF ReadError, PongPre, Up
  <1> QED BY <1>1, <1>2, <1>3, <1>4, PongHeader, PongLength DEF ReaderStep

\* The answer is handled.
LEMMA PongHandled ==
  ASSUME PongPre, DispatchOther, header = "PINGRESP"
  PROVE  PongOnce' /\ PongInTime'
  <1>1. /\ pc = "dispatch" /\ pc' = "cycled" /\ isPingOutstanding' = FALSE
        /\ UNCHANGED <<wire, ping, env>>
    BY DEF DispatchOther, Cycled, peerVars
  <1>2. InHand /\ ~InHand'
    BY <1>1 DEF InHand
  <1>3. ping = None /\ Pongs(wire) = {}
    BY <1>2 DEF PongPre, PongOnce
  <1>4. PongOnce'
    BY <1>1, <1>2, <1>3 DEF PongPre, PongOnce
  <1>5. PongInTime'
    BY <1>1, <1>2, <1>3 DEF PongInTime
  <1> QED BY <1>4, <1>5

\* Any other packet is handled.
LEMMA PongCycle ==
  ASSUME PongPre, DispatchPublish \/ CallbackReturns \/ (DispatchOther /\ header # "PINGRESP")
  PROVE  PongOnce' /\ PongInTime'
  <1>1. UNCHANGED <<wire, arrived, ping, isPingOutstanding, env, pingTimer, stall>>
    BY DEF DispatchPublish, CallbackReturns, DispatchOther, peerVars
  <1>2. since' \in {0, since} /\ since \in Nat
    BY DEF DispatchPublish, CallbackReturns, DispatchOther, PongPre, Bounded
  <1>3. /\ (pc = "dispatch" /\ header # "PINGRESP") \/ pc = "callback"
        /\ pc' \in {"callback", "cycled"} /\ (pc = "callback" => pc' = "cycled")
    BY DEF DispatchPublish, CallbackReturns, DispatchOther, Cycled
  <1>4. ~InHand /\ ~InHand'
    BY <1>3 DEF InHand
  <1>5. Work' <= Work
    <2>1. MaxPause \in Nat /\ CallbackTime \in Nat /\ pause \in Nat /\ pause' \in Nat
      BY Delays DEF PongPre, Bounded
    <2>2. pc' = "callback" => pause' <= CallbackTime
      BY DEF PongPre, Bounded
    <2> QED BY <1>3, <2>1, <2>2, Works
  <1> QED BY <1>1, <1>2, <1>4, <1>5, PongSame DEF PongPre

\* The yield goes on, returns, or begins.
LEMMA PongLoop ==
  ASSUME PongPre, Yield \/ CycleFailed \/ (KeepAliveCheck /\ ~KeepAliveDue), connected'
  PROVE  PongOnce' /\ PongInTime'
  <1>1. UNCHANGED <<wire, arrived, ping, isPingOutstanding, env, pingTimer, stall, since>>
    BY DEF Yield, CycleFailed, KeepAliveCheck, peerVars, loopVars
  <1>2. pc \in {"sleep", "cycled"} /\ (pc' = "header" \/ (pc = "cycled" /\ YieldReturns))
    BY DEF Yield, CycleFailed, KeepAliveCheck, HandleDisconnect, LoopOn, StartRead
  <1>3. pc' \in {"header", "sleep"} /\ (pc' = "sleep" => pc = "cycled" /\ pause' <= MaxPause)
    BY <1>2, PausesSet DEF YieldReturns
  <1>4. ~InHand /\ ~InHand'
    BY <1>2, <1>3 DEF InHand
  <1>5. Work' <= Work
    <2>1. MaxPause \in Nat /\ pause \in Nat /\ pause' \in Nat
      BY Delays DEF PongPre, Bounded
    <2> QED BY <1>2, <1>3, <2>1, Works
  <1>6. since \in Nat
    BY DEF PongPre, Bounded
  <1> QED BY <1>1, <1>4, <1>5, <1>6, PongSame DEF PongPre

\* A ping is sent.
LEMMA PongSent ==
  ASSUME PongPre, KeepAliveCheck, KeepAliveDue, connected'
  PROVE  PongOnce' /\ PongInTime'
  <1>1. /\ pc = "cycled" /\ ~isPingOutstanding /\ isPingOutstanding' = TRUE /\ LoopOn
        /\ UNCHANGED <<wire, env>>
    BY DEF KeepAliveCheck, HandleDisconnect, peerVars
  <1>2. ping' = 0 /\ since' = 0 /\ pingTimer' = env.keepAlive
    BY DEF KeepAliveCheck, HandleDisconnect, PongPre, Up
  <1>3. ~InHand /\ ~InHand'
    BY <1>1 DEF InHand, LoopOn, StartRead, YieldReturns
  <1>4. Pongs(wire) = {}
    BY <1>1 DEF PongPre, PongOnce
  <1>5. ping' # None /\ env.keepAlive \in Nat
    BY <1>2, Delays, Timers DEF PongPre
  <1>6. PongOnce'
    BY <1>1, <1>3, <1>4, <1>5 DEF PongPre, PongOnce
  <1>7. since' <= ping' /\ env'.keepAlive <= pingTimer' + ping'
    BY <1>1, <1>2, <1>5
  <1>8. PongInTime'
    BY <1>1, <1>3, <1>4, <1>7 DEF PongInTime, Waited
  <1> QED BY <1>6, <1>8

\* Nothing is on its way.
LEMMA PongNone ==
  ASSUME Typed', wire' = <<>>, ping' = None, isPingOutstanding' = FALSE, ~InHand'
  PROVE  PongOnce' /\ PongInTime'
  <1>1. Pongs(wire') = {} /\ Count(wire') = 0
    BY NoMarks
  <1>2. env'.packets \in Nat
    BY EnvTyped DEF Typed, LoopTyped
  <1> QED BY <1>1, <1>2 DEF PongOnce, PongInTime

\* The peer sends a packet that is not an answer.
LEMMA PongSends ==
  ASSUME PongPre, PeerSends
  PROVE  PongOnce' /\ PongInTime'
  <1>1. PICK type \in env.types, n \in env.lengths : wire' = wire \o Packet(type, n)
    BY DEF PeerSends
  <1>2. type \in Types /\ n \in Lengths /\ type # "PINGRESP"
    BY EnvTyped DEF PongPre, Typed, LoopTyped
  <1>3. /\ UNCHANGED <<pc, header, genuine, rem, mult, ping, isPingOutstanding, env, pingTimer, since, stall,
                       arrived, pause>>
        /\ Headers = Marks(wire)
    BY DEF PeerSends, readVars, loopVars, Headers, Marks
  <1>4. wire \in Seq(Byte) /\ env.packets \in Nat /\ Len(wire) \in Nat
    BY Timers DEF PongPre
  <1>5. /\ Count(wire') = Count(wire) + 1 /\ Marks(wire') = Marks(wire) \cup {Len(wire) + 1}
        /\ \A h \in Marks(wire) : wire'[h] = wire[h] /\ Before(wire', h) = Before(wire, h)
        /\ wire'[Len(wire) + 1].type = type
    <2>1. Sent(wire', wire, type, n)
      BY <1>1, <1>2, <1>4, MarksJoin
    <2> QED BY <2>1 DEF Sent
  <1>6. Pongs(wire') = Pongs(wire) /\ \A h \in Pongs(wire) : wire'[h] = wire[h] /\ Before(wire', h) = Before(wire, h)
    BY <1>2, <1>5 DEF Pongs
  <1>7. Count(wire') <= env.packets
    <2>1. Count(wire) < env.packets /\ Count(wire) \in Nat
      BY <1>3, <1>4, MarksFinite DEF PeerSends, Count
    <2> QED BY <1>4, <1>5, <2>1
  <1>8. InHand' = InHand /\ Work' = Work /\ AnswerTime' = AnswerTime
    BY <1>3 DEF InHand, Work, AnswerTime, Backlog
  <1>9. Count(wire') \in Nat
    BY <1>4, <1>5, MarksFinite
  <1>10. PongOnce'
    <2>1. Count(wire') <= env.packets + (IF Pongs(wire') = {} THEN 0 ELSE 1)
      BY <1>4, <1>7, <1>9
    <2> QED BY <1>3, <1>6, <1>8, <2>1 DEF PongPre, PongOnce
  <1>11. PongInTime'
    BY <1>3, <1>6, <1>8 DEF PongPre, PongInTime, Waited, Expected
  <1> QED BY <1>10, <1>11

\* The peer answers.
LEMMA PongAnswered ==
  ASSUME PongPre, PeerAnswersPing
  PROVE  PongOnce' /\ PongInTime'
  <1>1. /\ UNCHANGED <<pc, header, genuine, rem, mult, isPingOutstanding, env, pingTimer, since, stall,
                       arrived, pause>>
        /\ wire' = wire \o Packet("PINGRESP", 0) /\ ping # None /\ ping' = None
    BY DEF PeerAnswersPing, readVars
  <1>2. wire \in Seq(Byte) /\ env.packets \in Nat /\ Len(wire) \in Nat /\ arrived \in Nat /\ arrived <= Len(wire)
    BY Timers DEF PongPre
  <1>3. /\ Count(wire') = Count(wire) + 1 /\ Marks(wire') = Marks(wire) \cup {Len(wire) + 1}
        /\ \A h \in Marks(wire) : wire'[h] = wire[h]
        /\ wire'[Len(wire) + 1].type = "PINGRESP" /\ wire'[Len(wire) + 1].rem = 0
    <2>1. "PINGRESP" \in Types
      BY DEF Types
    <2>2. Sent(wire', wire, "PINGRESP", 0)
      BY <1>1, <1>2, <2>1, NoLength, MarksJoin
    <2> QED BY <2>2 DEF Sent
  <1>4. Pongs(wire) = {} /\ isPingOutstanding /\ ~InHand
    BY <1>1 DEF PongPre, PongOnce
  <1>5. Pongs(wire') = {Len(wire) + 1}
    BY <1>3, <1>4 DEF Pongs
  <1>6. ~InHand'
    BY <1>1, <1>4 DEF InHand
  <1>7. Count(wire') <= env.packets + 1
    <2>1. Count(wire) <= env.packets /\ Count(wire) \in Nat
      BY <1>2, <1>4, MarksFinite DEF PongPre, PongOnce
    <2> QED BY <1>2, <1>3, <2>1
  <1>8. PongOnce'
    <2>1. Count(wire') <= env.packets + (IF Pongs(wire') = {} THEN 0 ELSE 1)
      BY <1>5, <1>7
    <2> QED BY <1>1, <1>3, <1>4, <1>5, <1>6, <2>1 DEF PongOnce
  <1>9. since <= PingDelay + stall /\ env.keepAlive <= pingTimer + (PingDelay + stall)
    <2>1. Waited(ping) /\ ping \in 0..PingDelay
      BY <1>1 DEF PongPre, PongInTime, Bounded
    <2>2. since \in Nat /\ env.keepAlive \in Nat /\ pingTimer \in Nat /\ stall \in Nat /\ PingDelay \in Nat
      BY Timers, Delays DEF PongPre, Bounded
    <2> QED BY <2>1, <2>2 DEF Waited
  <1>10. ~(arrived' > Len(wire) + 1)
    BY <1>1, <1>2
  <1>11. PongInTime'
    BY <1>1, <1>5, <1>6, <1>9, <1>10 DEF PongInTime, Waited
  <1> QED BY <1>8, <1>11

\* While the link is up, an answer on its way is there with both of its bytes,
\* and so is what is left of a packet that the reader is in.
LEMMA AnswerWhole ==
  ASSUME Typed, FrameInv, Up, NEW h \in Marks(wire)
  PROVE  h + 1 <= Len(wire)
  <1>0. wire \in Seq(Byte) /\ Len(wire) \in Nat /\ h \in 1..Len(wire) /\ wire[h].kind = "header"
    BY Timers DEF Marks
  <1>1. Packet(wire[h].type, wire[h].rem) \in Seq(Byte) /\ Len(Packet(wire[h].type, wire[h].rem)) >= 2
    <2>1. wire[h] \in Byte
      BY <1>0, ElementOfSeq
    <2> QED BY <1>0, <2>1, Kinds, PacketTyped
  <1> DEFINE l == Len(Packet(wire[h].type, wire[h].rem))
  <1>2. h + l <= Len(wire) + 1 /\ l \in Nat /\ l >= 2
    <2>1. Fits(wire, Up, h, Packet(wire[h].type, wire[h].rem))
      BY <1>0 DEF FrameInv, Frames
    <2>2. h + l <= Len(wire) + 1
      BY <2>1 DEF Fits
    <2> QED BY <1>1, <2>2, LenProperties
  <1> HIDE DEF l
  <1> QED BY <1>0, <1>2

LEMMA MoreToCome ==
  ASSUME Typed, FrameInv, Up, ~slipped, pc = "length"
  PROVE  Len(wire) > 0
  <1>1. genuine # None /\ genuine \in Nat
    BY DEF FrameInv, InSync, Typed, ReaderTyped, Lengths, Encodable
  <1>2. PICK k \in Encodable : Fits(wire, Up, 1, LengthBytes(k) \o Body(genuine))
    BY <1>1 DEF FrameInv, Placed
  <1> DEFINE s == LengthBytes(k) \o Body(genuine)
  <1>3. Len(s) \in Nat /\ Len(s) >= 1
    <2>1. LengthBytes(k) \in Seq(Byte) /\ Len(LengthBytes(k)) >= 1 /\ Body(genuine) \in Seq(Byte)
      BY <1>1, EncodingTyped, DigitsAreBytes, BodyTyped
    <2>2. Joins(s, LengthBytes(k), Body(genuine))
      BY <2>1, Join
    <2> HIDE DEF s
    <2> QED BY <2>1, <2>2 DEF Joins
  <1>4. 1 + Len(s) <= Len(wire) + 1
    BY <1>2 DEF Fits
  <1> HIDE DEF s
  <1> QED BY <1>3, <1>4, Timers

\* Both bytes of the answer are there: the packets before it have to be handled.
LEMMA PongArrives ==
  ASSUME PongPre, BytesArrive
  PROVE  PongOnce' /\ PongInTime'
  <1>1. /\ UNCHANGED <<pc, header, genuine, rem, mult, isPingOutstanding, env, pingTimer, since, ping,
                       wire, pause>>
        /\ arrived' \in (arrived + 1)..Len(wire) /\ stall' = IF arrived' = Len(wire) THEN 0 ELSE stall
    BY DEF BytesArrive, readVars
  <1>2. /\ wire \in Seq(Byte) /\ env.packets \in Nat /\ Len(wire) \in Nat /\ arrived \in Nat
        /\ since \in Nat /\ env.keepAlive \in Nat /\ pingTimer \in Nat /\ PingDelay \in Nat
        /\ stall \in Nat /\ stall <= env.stall /\ env.stall \in Nat /\ Turn \in Nat
        /\ AnswerTime \in Nat /\ AnswerTime = PingDelay + env.stall + Backlog
        /\ Backlog \in Nat /\ Backlog = Load(env.packets) + Turn
    BY Timers, Delays, Answering DEF PongPre, Bounded
  <1>3. InHand' = InHand /\ Work' = Work /\ AnswerTime' = AnswerTime
    BY <1>1 DEF InHand, Work, AnswerTime, Backlog
  <1>4. PongOnce'
    BY <1>1, <1>3 DEF PongPre, PongOnce
  <1>5. Work \in Nat /\ Work <= Turn
    BY WorkBounded DEF PongPre
  <1>6. ASSUME NEW x \in Nat, Waited(PingDelay + stall), x <= Backlog
        PROVE  Expected(x)
    <2> DEFINE k == env.keepAlive
               e == env.stall
    <2>1. /\ since \in Nat /\ k \in Nat /\ pingTimer \in Nat /\ PingDelay \in Nat /\ stall \in Nat /\ e \in Nat
          /\ Backlog \in Nat /\ stall <= e /\ AnswerTime = PingDelay + e + Backlog
      BY <1>2
    <2>2. since <= PingDelay + stall /\ k <= pingTimer + (PingDelay + stall)
      BY <1>6 DEF Waited
    <2> HIDE DEF k, e
    <2>3. since + x <= AnswerTime /\ k + x <= pingTimer + AnswerTime
      BY <1>6, <2>1, <2>2
    <2> QED BY <2>3 DEF Expected, k
  <1>7. ASSUME NEW h \in Pongs(wire)
        PROVE  /\ arrived' <= h => since' <= PingDelay + stall' /\ env'.keepAlive <= pingTimer' + (PingDelay + stall')
               /\ arrived' > h => Expected(Load(Before(wire, h)) + Work)
    <2>1. h \in Marks(wire) /\ h \in Nat /\ h >= 1 /\ h <= Len(wire)
      BY <1>2 DEF Pongs, Marks
    <2>2. Before(wire, h) \in Nat /\ Before(wire, h) <= env.packets
      <3>1. Before(wire, h) \in Nat /\ Count(wire) \in Nat /\ Before(wire, h) + 1 <= Count(wire)
        BY <1>2, <2>1, MarksFinite
      <3>2. Count(wire) <= env.packets + 1
        BY <1>2, <1>7, <3>1 DEF PongPre, PongOnce
      <3> QED BY <1>2, <3>1, <3>2
    <2>3. Load(Before(wire, h)) \in Nat /\ Load(Before(wire, h)) <= Load(env.packets) /\ Load(env.packets) \in Nat
      BY <1>2, <2>2, Loads
    <2>4. Load(Before(wire, h)) + Work \in Nat /\ Load(Before(wire, h)) + Work <= Backlog
      BY <1>2, <1>5, <2>3
    <2>5. arrived <= h => Waited(PingDelay + stall)
      BY <1>7 DEF PongPre, PongInTime
    <2>6. arrived > h => Expected(Load(Before(wire, h)) + Work)
      BY <1>7 DEF PongPre, PongInTime
    <2>7. arrived' > h => Expected(Load(Before(wire, h)) + Work)
      BY <1>2, <1>6, <2>1, <2>4, <2>5, <2>6
    <2>8. ASSUME arrived' <= h
          PROVE  since' <= PingDelay + stall' /\ env'.keepAlive <= pingTimer' + (PingDelay + stall')
      <3>1. h + 1 <= Len(wire)
        BY <2>1, AnswerWhole DEF PongPre
      <3>2. arrived' # Len(wire) /\ arrived <= h
        BY <1>1, <1>2, <2>1, <2>8, <3>1
      <3> QED BY <1>1, <2>5, <3>2 DEF Waited
    <2> QED BY <2>7, <2>8
  <1>8. ASSUME InHand
        PROVE  Waited(AnswerTime) /\ arrived' # 0
    <2>1. Waited(PingDelay + stall) \/ Waited(AnswerTime)
      BY <1>8 DEF PongPre, PongInTime
    <2>2. PingDelay + stall \in Nat /\ PingDelay + stall <= AnswerTime
      BY <1>2
    <2>3. ASSUME NEW x \in Nat, x <= AnswerTime, Waited(x)
          PROVE  Waited(AnswerTime)
      BY <1>2, <2>3 DEF Waited
    <2>4. Waited(AnswerTime)
      BY <2>1, <2>2, <2>3
    <2>5. arrived' # 0
      BY <1>1, <1>2
    <2> QED BY <2>4, <2>5
  <1>9. PongInTime'
    <2>1. ping # None => Waited(ping)
      BY DEF PongPre, PongInTime
    <2> QED BY <1>1, <1>3, <1>7, <1>8, <2>1 DEF PongInTime, Waited, Expected
  <1> QED BY <1>4, <1>9

LEMMA TickTimes ==
  ASSUME Typed, Bounded, Tick, Sound
  PROVE  /\ since' = since + 1 /\ since \in Nat
         /\ pingTimer' \in Nat /\ pingTimer <= pingTimer' + 1 /\ pingTimer' <= pingTimer
         /\ pingTimer > 0 => pingTimer' = pingTimer - 1
         /\ UNCHANGED <<pc, rc, header, rem, mult, genuine, wire, arrived, link, env, isPingOutstanding, connected,
                        slipped>>
         /\ pc \in {"sleep", "callback"} => pause > 0 /\ pause' = pause - 1 /\ pause \in Nat /\ Work' = Work - 1
         /\ pc \in {"sleep", "callback"} \/ (pc \in Reading /\ arrived = 0 /\ link # "closed" /\ Timer > 0)
         /\ yieldTimer' = Down(yieldTimer) /\ packetTimer' = Down(packetTimer)
  <1>1. since' = since + 1 /\ since \in Nat
    BY DEF Tick, Sound, Steady, Bounded
  <1>2. pingTimer \in Nat /\ pingTimer' = Down(pingTimer)
    BY Timers DEF Tick
  <1>3. pause \in Nat /\ pause' = Down(pause) /\ MaxPause \in Nat
    BY Delays DEF Tick, Bounded
  <1>4. UNCHANGED <<pc, rc, header, rem, mult, genuine, wire, arrived, link, env, isPingOutstanding, connected,
                    slipped>>
    BY DEF Tick, peerVars
  <1>5. pingTimer' \in Nat /\ pingTimer <= pingTimer' + 1 /\ pingTimer' <= pingTimer
        /\ (pingTimer > 0 => pingTimer' = pingTimer - 1)
    BY <1>2 DEF Down
  <1>6. ASSUME pc \in {"sleep", "callback"} PROVE pause > 0 /\ pause' = pause - 1 /\ Work' = Work - 1
    <2>1. pause > 0
      BY <1>6 DEF Tick, Waiting, Reading
    <2>2. pause' = pause - 1
      BY <1>3, <2>1 DEF Down
    <2> QED BY <1>3, <1>4, <1>6, <2>1, <2>2, Works
  <1>7. pc \in {"sleep", "callback"} \/ (pc \in Reading /\ arrived = 0 /\ link # "closed" /\ Timer > 0)
    BY DEF Tick, Waiting
  <1>8. yieldTimer' = Down(yieldTimer) /\ packetTimer' = Down(packetTimer)
    BY DEF Tick
  <1> QED BY <1>1, <1>3, <1>4, <1>5, <1>6, <1>7, <1>8

\* The arithmetic of one tick.
LEMMA Later ==
  ASSUME since \in Nat, pingTimer \in Nat, since' = since + 1, pingTimer' \in Nat, pingTimer <= pingTimer' + 1,
         NEW x \in Nat, NEW k \in Nat, since <= x, k <= pingTimer + x
  PROVE  since' <= x + 1 /\ k <= pingTimer' + (x + 1)
  <1>1. PICK p \in Nat : p = pingTimer
    OBVIOUS
  <1>2. PICK q \in Nat : q = pingTimer'
    OBVIOUS
  <1>3. p <= q + 1 /\ k <= p + x
    BY <1>1, <1>2
  <1>4. k <= q + (x + 1)
    BY <1>3
  <1>5. since' <= x + 1
    OBVIOUS
  <1> QED BY <1>2, <1>4, <1>5

LEMMA Sooner ==
  ASSUME since \in Nat, pingTimer \in Nat, since' = since + 1, pingTimer' \in Nat, pingTimer <= pingTimer' + 1,
         NEW y \in Nat, NEW k \in Nat, NEW a \in Nat, since + y <= a, k + y <= pingTimer + a
  PROVE  since' + (y - 1) <= a /\ k + (y - 1) <= pingTimer' + a
  <1>1. PICK p \in Nat : p = pingTimer
    OBVIOUS
  <1>2. PICK q \in Nat : q = pingTimer'
    OBVIOUS
  <1>3. p <= q + 1 /\ k + y <= p + a
    BY <1>1, <1>2
  <1>4. k + (y - 1) <= q + a
    BY <1>3
  <1>5. since' + (y - 1) <= a
    OBVIOUS
  <1> QED BY <1>2, <1>4, <1>5

\* Time passes for the ping, for the bytes of its answer, and for the packets
\* before it.
LEMMA PongTick ==
  ASSUME PongPre, Tick
  PROVE  PongOnce' /\ PongInTime'
  <1>1. /\ since' = since + 1 /\ since \in Nat /\ pingTimer' \in Nat /\ pingTimer <= pingTimer' + 1
        /\ UNCHANGED <<pc, header, rem, mult, genuine, wire, arrived, link, env, isPingOutstanding>>
    BY TickTimes DEF PongPre
  <1>0. /\ since' = since + 1 /\ since \in Nat /\ pingTimer' \in Nat /\ pingTimer <= pingTimer' + 1
        /\ pingTimer \in Nat /\ AnswerTime \in Nat
    BY TickTimes, Timers, Answering DEF PongPre
  <1>2. /\ wire \in Seq(Byte) /\ Len(wire) \in Nat /\ arrived \in Nat /\ arrived <= Len(wire)
        /\ env.keepAlive \in Nat /\ pingTimer \in Nat /\ PingDelay \in Nat /\ stall \in Nat /\ AnswerTime \in Nat
    BY Timers, Delays, Answering DEF PongPre, Bounded
  <1>3. ping # None => ping \in Nat /\ ping' = ping + 1 /\ ping' # None
    BY Delays DEF Tick, PongPre, Up, Bounded
  <1>4. ping = None => ping' = None
    BY DEF Tick
  <1>5. arrived < Len(wire) => stall' = stall + 1
    BY DEF Tick, PongPre, Up
  <1>6. InHand' = InHand /\ AnswerTime' = AnswerTime
    BY <1>1 DEF InHand, AnswerTime, Backlog
  <1>7. PongOnce'
    BY <1>1, <1>3, <1>4, <1>6 DEF PongPre, PongOnce
  <1>8. ASSUME NEW x \in Nat, Waited(x)
        PROVE  since' <= x + 1 /\ env'.keepAlive <= pingTimer' + (x + 1)
    <2> DEFINE k == env.keepAlive
    <2>1. since <= x /\ k <= pingTimer + x /\ k \in Nat
      BY <1>2, <1>8 DEF Waited
    <2> HIDE DEF k
    <2>2. since' <= x + 1 /\ k <= pingTimer' + (x + 1)
      BY <1>0, <2>1, Later
    <2> QED BY <1>1, <2>2 DEF k
  <1>9. ping' # None => since' <= ping' /\ env'.keepAlive <= pingTimer' + ping'
    <2> SUFFICES ASSUME ping # None PROVE since' <= ping' /\ env'.keepAlive <= pingTimer' + ping'
      BY <1>4
    <2>1. Waited(ping) /\ ping \in Nat /\ ping' = ping + 1
      BY <1>3 DEF PongPre, PongInTime
    <2> QED BY <1>8, <2>1
  <1>10. ASSUME Waited(PingDelay + stall), arrived < Len(wire)
         PROVE  since' <= PingDelay + stall' /\ env'.keepAlive <= pingTimer' + (PingDelay + stall')
    <2>1. PingDelay + stall \in Nat /\ PingDelay + stall' = (PingDelay + stall) + 1
      BY <1>2, <1>5, <1>10
    <2> DEFINE x == PingDelay + stall
    <2>2. x \in Nat /\ PingDelay + stall' = x + 1 /\ Waited(x)
      BY <1>10, <2>1
    <2> HIDE DEF x
    <2>3. since' <= x + 1 /\ env'.keepAlive <= pingTimer' + (x + 1)
      BY <1>8, <2>2
    <2> QED BY <2>2, <2>3
  <1>11. ASSUME NEW h \in Pongs(wire)
         PROVE  /\ arrived' <= h => since' <= PingDelay + stall' /\ env'.keepAlive <= pingTimer' + (PingDelay + stall')
                /\ arrived' > h => /\ since' + (Load(Before(wire', h)) + Work') <= AnswerTime
                                   /\ env'.keepAlive + (Load(Before(wire', h)) + Work') <= pingTimer' + AnswerTime
    <2>1. h \in Marks(wire) /\ h \in Nat /\ h >= 1 /\ h <= Len(wire)
      BY <1>2 DEF Pongs, Marks
    <2>2. ASSUME arrived <= h
          PROVE  since' <= PingDelay + stall' /\ env'.keepAlive <= pingTimer' + (PingDelay + stall')
      <3>1. Waited(PingDelay + stall)
        BY <1>11, <2>2 DEF PongPre, PongInTime
      <3>2. arrived < Len(wire)
        BY <1>2, <2>1, <2>2, AnswerWhole DEF PongPre
      <3> QED BY <1>10, <3>1, <3>2
    <2>3. ASSUME arrived > h
          PROVE  /\ since' + (Load(Before(wire', h)) + Work') <= AnswerTime
                 /\ env'.keepAlive + (Load(Before(wire', h)) + Work') <= pingTimer' + AnswerTime
      <3>1. Expected(Load(Before(wire, h)) + Work)
        BY <1>11, <2>3 DEF PongPre, PongInTime
      <3>2. Work' = Work - 1 /\ Work \in Nat
        <4>1. arrived # 0
          BY <2>1, <2>3
        <4> QED BY <4>1, TickTimes, WorkBounded DEF PongPre
      <3>3. Load(Before(wire, h)) \in Nat
        BY <1>2, MarksFinite, Loads
      <3> DEFINE n == Load(Before(wire, h))
                 k == env.keepAlive
      <3>4. since + (n + Work) <= AnswerTime /\ k + (n + Work) <= pingTimer + AnswerTime /\ n \in Nat /\ k \in Nat
        BY <1>2, <3>1, <3>3 DEF Expected
      <3> HIDE DEF n, k
      <3>5. since' + (n + Work') <= AnswerTime /\ k + (n + Work') <= pingTimer' + AnswerTime
        <4> DEFINE y == n + Work
        <4>1. y \in Nat /\ y - 1 = n + Work' /\ y - 1 \in Int
          BY <3>2, <3>4
        <4> HIDE DEF y
        <4>2. since' + (y - 1) <= AnswerTime /\ k + (y - 1) <= pingTimer' + AnswerTime
          BY <1>0, <3>4, <4>1, Sooner DEF y
        <4> QED BY <4>1, <4>2
      <3> QED BY <1>1, <3>5 DEF n, k
    <2> QED BY <1>1, <2>2, <2>3
  <1>12. ASSUME InHand
         PROVE  pc = "length" /\ arrived = 0 /\ Waited(PingDelay + stall) /\ arrived < Len(wire)
    <2>1. pc = "length" /\ arrived = 0
      BY <1>12, TickTimes DEF PongPre, InHand, PongOnce, Reading
    <2>2. Waited(PingDelay + stall)
      BY <1>12, <2>1 DEF PongPre, PongInTime
    <2>3. Len(wire) > 0
      BY <2>1, MoreToCome DEF PongPre, Sound, Steady
    <2> QED BY <1>2, <2>1, <2>2, <2>3
  <1>13. InHand' => /\ pc' = "length" /\ arrived' = 0
                    /\ since' <= PingDelay + stall' /\ env'.keepAlive <= pingTimer' + (PingDelay + stall')
    BY <1>1, <1>6, <1>10, <1>12
  <1>14. PongInTime'
    BY <1>1, <1>6, <1>9, <1>11, <1>13 DEF PongInTime, Waited, Expected
  <1> QED BY <1>7, <1>14

LEMMA PongStill ==
  ASSUME PongPre, UNCHANGED vars
  PROVE  PongOnce' /\ PongInTime'
  BY DEF PongPre, PongOnce, PongInTime, InHand, Work, Waited, Expected, AnswerTime, Backlog,
         vars, readVars, peerVars, loopVars

LEMMA InitPong == Init => PongInv
  <1> SUFFICES ASSUME Init PROVE PongOnce /\ PongInTime
    BY DEF PongInv
  <1>1. wire = <<>> /\ ping = None /\ isPingOutstanding = FALSE /\ pc = "sleep" /\ env.packets \in Nat
    BY EnvTyped DEF Init
  <1>2. ~InHand /\ Pongs(wire) = {} /\ Count(wire) = 0
    BY <1>1, NoMarks DEF InHand
  <1> QED BY <1>1, <1>2 DEF PongOnce, PongInTime

LEMMA NextPong ==
  ASSUME Typed, Typed', FrameInv, Bounded, Bounded', PongInv, [Next]_vars
  PROVE  PongInv'
  <1> SUFFICES ASSUME Sound', Up' PROVE PongOnce' /\ PongInTime'
    BY DEF PongInv
  <1>1. CASE Reconnect
    <2>1. /\ wire' = <<>> /\ ping' = None /\ isPingOutstanding' = FALSE /\ pc' = "sleep"
      BY <1>1 DEF Reconnect, Reconnected
    <2>2. ~InHand'
      BY <2>1 DEF InHand
    <2> QED BY <2>1, <2>2, PongNone
  <1>2. CASE LinkFails
    BY <1>2, EnvTyped DEF LinkFails, Up, Typed, LoopTyped
  <1>3. CASE Sound /\ link' = link
    <2>1. PongPre /\ connected' /\ ~Doomed'
      BY <1>3 DEF PongPre, PongInv, Up, Sound, Steady
    <2>2. CASE ReaderStep /\ UNCHANGED <<loopVars, env>>
      BY <2>1, <2>2, PongReader
    <2>3. CASE DispatchPublish \/ CallbackReturns \/ DispatchOther
      BY <2>1, <2>3, PongCycle, PongHandled
    <2>4. CASE Yield \/ KeepAliveCheck \/ CycleFailed
      BY <2>1, <2>4, PongLoop, PongSent
    <2>5. CASE PeerSends \/ PeerAnswersPing \/ BytesArrive \/ Tick \/ UNCHANGED vars
      BY <2>1, <2>5, PongSends, PongAnswered, PongArrives, PongTick, PongStill
    <2> QED BY <1>1, <1>2, <2>2, <2>3, <2>4, <2>5 DEF Next
  <1> QED BY <1>1, <1>2, <1>3, SoundSteps

-----------------------------------------------------------------------------
(* The peer is not given up too early.                                     *)

\* A ping is outstanding for at most the time in which an answer is handled.
LEMMA Outstanding ==
  ASSUME Typed, Bounded, PongOnce, PongInTime, isPingOutstanding
  PROVE  since \in Nat /\ since <= AnswerTime /\ env.keepAlive <= pingTimer + AnswerTime
  <1> DEFINE k == env.keepAlive
             e == env.stall
  <1>1. /\ k \in Nat /\ e \in Nat /\ since \in Nat /\ pingTimer \in Nat /\ stall \in Nat /\ stall <= e
        /\ PingDelay \in Nat /\ Backlog \in Nat /\ AnswerTime \in Nat /\ AnswerTime = PingDelay + e + Backlog
    BY Timers, Delays, Answering DEF Bounded
  <1>2. \A x : Waited(x) <=> since <= x /\ k <= pingTimer + x
    BY DEF Waited
  <1>3. \A x : Expected(x) <=> since + x <= AnswerTime /\ k + x <= pingTimer + AnswerTime
    BY DEF Expected
  <1> HIDE DEF k, e
  <1>4. CASE ping # None
    <2>1. ping \in Nat /\ ping <= PingDelay /\ Waited(ping)
      BY <1>1, <1>4 DEF Bounded, PongInTime
    <2>2. since <= AnswerTime /\ k <= pingTimer + AnswerTime
      BY <1>1, <1>2, <2>1
    <2> QED BY <1>1, <2>2 DEF k
  <1>5. ASSUME Waited(PingDelay + stall)
        PROVE  since <= AnswerTime /\ k <= pingTimer + AnswerTime
    <2>1. since <= PingDelay + stall /\ k <= pingTimer + (PingDelay + stall)
      BY <1>2, <1>5
    <2> QED BY <1>1, <2>1
  <1>6. CASE Pongs(wire) # {}
    <2>1. PICK h \in Pongs(wire) : TRUE
      BY <1>6
    <2>2. Waited(PingDelay + stall) \/ Expected(Load(Before(wire, h)) + Work)
      <3>1. h \in Nat /\ arrived \in Nat
        BY Timers DEF Pongs, Marks
      <3> QED BY <2>1, <3>1 DEF PongInTime
    <2> DEFINE x == Load(Before(wire, h)) + Work
    <2>3. x \in Nat
      <3>1. Before(wire, h) \in Nat /\ Work \in Nat
        BY Timers, MarksFinite, WorkNow
      <3>2. Load(Before(wire, h)) \in Nat
        BY <3>1, Loads
      <3> QED BY <3>1, <3>2
    <2>4. Waited(PingDelay + stall) \/ Expected(x)
      BY <2>2
    <2> HIDE DEF x
    <2>5. Expected(x) => since <= AnswerTime /\ k <= pingTimer + AnswerTime
      BY <1>1, <1>3, <2>3
    <2> QED BY <1>1, <1>5, <2>4, <2>5 DEF k
  <1>7. CASE InHand
    <2>1. Waited(PingDelay + stall) \/ Waited(AnswerTime)
      BY <1>7 DEF PongInTime
    <2> QED BY <1>1, <1>2, <1>5, <2>1 DEF k
  <1> QED BY <1>4, <1>6, <1>7 DEF PongOnce

LEMMA EnvKept == [Next]_vars => env' = env
  BY DEF Next, DispatchPublish, CallbackReturns, DispatchOther, Yield, KeepAliveCheck, CycleFailed,
         Reconnect, PeerSends, PeerAnswersPing, BytesArrive, LinkFails, Tick, vars

\* How a connection ends, and that it stays ended.
LEMMA DownSteps ==
  ASSUME Typed, [Next]_vars, ~connected', ~slipped'
  PROVE  link' = link /\ ~slipped
         /\ \/ ~connected
            \/ KeepAliveCheck /\ KeepAliveDue /\ (isPingOutstanding \/ link = "closed")
            \/ pc = "cycled" /\ rc = "READ_ERROR"
  <1>0. connected \in BOOLEAN /\ connected = (pc # "down")
    BY DEF Typed
  <1>1. CASE ReaderStep /\ UNCHANGED <<loopVars, env>>
    <2>1. UNCHANGED <<connected, slipped, link>>
      BY <1>1 DEF loopVars, ReaderStep, HeaderByte, LengthByte, DrainByte, BodyByte, ReadExpires, ReadError
    <2> QED BY <2>1
  <1>2. CASE DispatchPublish \/ CallbackReturns \/ DispatchOther \/ Yield \/ Tick \/ PeerSends \/ PeerAnswersPing
             \/ BytesArrive \/ UNCHANGED vars
    <2>1. UNCHANGED <<connected, slipped, link>>
      BY <1>2 DEF DispatchPublish, CallbackReturns, DispatchOther, Yield, Tick, PeerSends, PeerAnswersPing,
                  BytesArrive, vars, loopVars, peerVars
    <2> QED BY <2>1
  <1>3. CASE KeepAliveCheck
    <2>1. UNCHANGED <<slipped, link>> /\ pc = "cycled"
      BY <1>3 DEF KeepAliveCheck, peerVars
    <2> QED BY <1>0, <1>3, <2>1 DEF KeepAliveCheck
  <1>4. CASE CycleFailed
    <2>1. link' = link /\ pc = "cycled"
      BY <1>4 DEF CycleFailed, peerVars
    <2>2. CASE rc = "READ_ERROR" /\ UNCHANGED slipped
      BY <2>1, <2>2
    <2>3. CASE /\ UNCHANGED connected
               /\ slipped' = (slipped \/ (packetTimer = 0 /\ (link = "up" \/ wire # <<>>)))
      <3>1. slipped \in BOOLEAN
        BY DEF Typed, LoopTyped
      <3>2. ~slipped
        BY <2>3, <3>1
      <3> QED BY <2>1, <2>3, <3>2
    <2> QED BY <1>4, <2>2, <2>3 DEF CycleFailed
  <1>5. CASE Reconnect \/ LinkFails
    BY <1>5 DEF Reconnect, Reconnected, LinkFails
  <1> QED BY <1>1, <1>2, <1>3, <1>4, <1>5 DEF Next

LEMMA NextLive ==
  ASSUME Typed, Bounded, PongInv, LivePeerKept, [Next]_vars
  PROVE  LivePeerKept'
  <1>1. env' = env /\ AnswerTime' = AnswerTime
    BY EnvKept DEF AnswerTime, Backlog
  <1> SUFFICES ASSUME env.keepAlive = 0 \/ env.keepAlive > AnswerTime, ~connected', ~slipped'
               PROVE  link # "up"
    BY <1>1, DownSteps DEF LivePeerKept
  <1>2. CASE ~connected
    BY <1>2, DownSteps DEF LivePeerKept
  <1>3. CASE pc = "cycled" /\ rc = "READ_ERROR"
    BY <1>3 DEF Bounded
  <1>4. CASE KeepAliveCheck /\ KeepAliveDue /\ isPingOutstanding
    <2> SUFFICES ASSUME link = "up" PROVE FALSE
      OBVIOUS
    <2>1. connected /\ ~slipped /\ rc = "SUCCESS" /\ env.keepAlive > 0 /\ pingTimer = 0
      BY <1>4, DownSteps DEF Typed, KeepAliveCheck, KeepAliveDue
    <2>2. Sound /\ Up
      BY <2>1 DEF Sound, Steady, Doomed, Up
    <2>3. env.keepAlive <= pingTimer + AnswerTime
      BY <1>4, <2>2, Outstanding DEF PongInv
    <2>4. env.keepAlive \in Nat /\ AnswerTime \in Nat
      BY Timers, Answering
    <2> QED BY <2>1, <2>3, <2>4
  <1> QED BY <1>2, <1>3, <1>4, DownSteps

\* A step after which a packet has been given up half-read.
LEMMA DoomedSteps ==
  ASSUME Typed, [Next]_vars, Doomed', Steady'
  PROVE  env' = env /\ Steady /\ ((since' = since /\ link' = link) \/ (LinkFails /\ since' = 0))
  <1>0. env' = env /\ connected = (pc # "down") /\ pc' = "cycled" /\ connected' /\ ~slipped' /\ env'.keepAlive > 0
    BY EnvKept DEF Typed, Doomed, Steady
  <1>1. CASE ReaderStep /\ UNCHANGED <<loopVars, env>>
    <2>1. UNCHANGED <<connected, slipped, link, since>>
      BY <1>1 DEF loopVars, ReaderStep, HeaderByte, LengthByte, DrainByte, BodyByte, ReadExpires, ReadError
    <2> QED BY <1>0, <2>1 DEF Steady
  <1>2. CASE DispatchPublish \/ DispatchOther \/ PeerSends \/ PeerAnswersPing
             \/ BytesArrive \/ UNCHANGED vars
    <2>1. UNCHANGED <<connected, slipped, link, since>>
      BY <1>2 DEF DispatchPublish, DispatchOther, PeerSends, PeerAnswersPing,
                  BytesArrive, vars, loopVars, peerVars
    <2> QED BY <1>0, <2>1 DEF Steady
  <1>3. CASE CallbackReturns
    <2>1. UNCHANGED <<connected, slipped, link>>
      BY <1>3 DEF CallbackReturns, peerVars
    <2>2. since' = since
      BY <1>3 DEF CallbackReturns, Cycled, Doomed
    <2> QED BY <1>0, <2>1, <2>2 DEF Steady
  <1>4. CASE Yield \/ KeepAliveCheck \/ CycleFailed \/ Reconnect \/ Tick
    BY <1>0, <1>4 DEF Yield, KeepAliveCheck, CycleFailed, Reconnect, Reconnected, Tick, Waiting, Reading, LoopOn,
       StartRead, YieldReturns, HandleDisconnect
  <1>5. CASE LinkFails
    BY <1>0, <1>5 DEF LinkFails, Steady
  <1> QED BY <1>1, <1>2, <1>3, <1>4, <1>5 DEF Next

-----------------------------------------------------------------------------
(* The peer hears from the client in time.                                 *)

Known(type, n) == type \in {"PUBLISH", "SUBACK", "PINGRESP"} /\ n < BufSize

\* Every packet is one that cycle_read handles: each gets to keep_alive.
AllKnown ==
  /\ \A i \in Marks(wire) : Known(wire[i].type, wire[i].rem)
  /\ pc \in {"length", "body", "drain", "dispatch", "callback"} => Known(header, genuine)
  /\ pc # "drain" /\ (pc = "cycled" => rc = "SUCCESS")

LEMMA KnownTail ==
  ASSUME NEW w \in Seq(Byte), w # <<>>, \A i \in Marks(w) : Known(w[i].type, w[i].rem)
  PROVE  \A i \in Marks(Tail(w)) : Known(Tail(w)[i].type, Tail(w)[i].rem)
  <1>1. PICK b \in 0..1 : b = IF w[1].kind = "header" THEN 1 ELSE 0
    OBVIOUS
  <1> QED BY <1>1, MarksTail

LEMMA KnownReader ==
  ASSUME Typed, FrameInv, FrameInv', Sound, Up, AllKnown, ReaderStep, UNCHANGED <<loopVars, env>>, ~Doomed'
  PROVE  AllKnown'
  <1>0. ~slipped /\ ~slipped' /\ wire \in Seq(Byte)
    BY Timers DEF Sound, Steady, loopVars
  <1>1. ASSUME Take
        PROVE  /\ wire \in Seq(Byte) /\ wire # <<>> /\ Head(wire) = wire[1] /\ Len(wire) \in Nat /\ Len(wire) >= 1
               /\ \A i \in Marks(wire') : Known(wire'[i].type, wire'[i].rem)
    <2>1. wire # <<>> /\ wire' = Tail(wire)
      BY <1>1, TakeTyped DEF Typed
    <2>2. \A i \in Marks(Tail(wire)) : Known(Tail(wire)[i].type, Tail(wire)[i].rem)
      BY <1>0, <2>1, KnownTail DEF AllKnown
    <2> QED BY <1>0, <2>1, <2>2, TailTyped
  <1>2. CASE HeaderByte
    <2>1. Take /\ pc = "header" /\ pc' = "length"
      BY <1>2 DEF HeaderByte
    <2>2. wire[1].kind = "header"
      BY <1>0, <1>1, <2>1 DEF FrameInv, InSync, AtHeader
    <2>3. 1 \in Marks(wire) /\ header' = wire[1].type /\ genuine' = wire[1].rem
      BY <1>1, <1>2, <2>1, <2>2 DEF HeaderByte, Marks
    <2> QED BY <1>1, <2>1, <2>3 DEF AllKnown
  <1>3. CASE LengthByte
    <2>1. /\ Take /\ pc = "length" /\ pc' \in {"length", "drain", "body", "dispatch"}
          /\ header' = header /\ genuine' = genuine
      BY <1>3 DEF LengthByte, LengthKnown, EndRead
    <2>2. genuine # None /\ genuine \in Nat /\ BufSize \in Nat /\ Known(header, genuine)
      BY <1>0, <2>1, ReaderAssumption DEF FrameInv, InSync, Typed, ReaderTyped, Lengths, Encodable, AllKnown
    <2>3. pc' # "drain"
      <3>1. pc' = "drain" => genuine >= BufSize
        BY <2>1, <2>2 DEF FrameInv, Placed
      <3> QED BY <2>2, <3>1 DEF Known
    <2> QED BY <1>1, <2>1, <2>2, <2>3 DEF AllKnown
  <1>4. CASE DrainByte
    BY <1>4 DEF DrainByte, AllKnown
  <1>5. CASE BodyByte
    <2>1. Take /\ pc = "body" /\ header' = header /\ genuine' = genuine /\ packetTimer' = packetTimer /\ link' = link
      BY <1>5 DEF BodyByte
    <2>2. pc' \in {"body", "dispatch"} \/ (pc' = "cycled" /\ rc' = "FAILURE" /\ packetTimer = 0)
      BY <1>5 DEF BodyByte, EndRead
    <2>3. pc' # "cycled"
      BY <2>1, <2>2 DEF Doomed, Up
    <2> QED BY <1>1, <2>1, <2>2, <2>3 DEF AllKnown
  <1>6. CASE ReadExpires
    <2>1. pc \in Reading /\ pc' = "cycled" /\ UNCHANGED <<wire, link, packetTimer>>
      BY <1>6 DEF ReadExpires, EndRead, Reading
    <2>2. pc # "header" => packetTimer' = 0 /\ rc' \notin {"SUCCESS", "READ_ERROR"}
      BY <1>6, <2>1 DEF ReadExpires, Timer, EndRead, Reading
    <2>3. pc = "header"
      BY <2>1, <2>2 DEF Doomed, Up
    <2>4. rc' = "SUCCESS"
      BY <1>6, <2>3 DEF ReadExpires, EndRead
    <2> QED BY <2>1, <2>4 DEF AllKnown
  <1>7. CASE ReadError
    BY <1>7 DEF ReadError, Up
  <1> QED BY <1>2, <1>3, <1>4, <1>5, <1>6, <1>7 DEF ReaderStep

LEMMA KnownLoop ==
  ASSUME Typed, FrameInv, Sound, Up, AllKnown, connected',
         DispatchPublish \/ CallbackReturns \/ DispatchOther \/ Yield \/ KeepAliveCheck \/ CycleFailed
  PROVE  AllKnown'
  <1>0. ~slipped /\ wire' = wire
    BY DEF Sound, Steady, DispatchPublish, CallbackReturns, DispatchOther, Yield, KeepAliveCheck, CycleFailed, peerVars
  <1>1. CASE DispatchPublish
    <2>1. pc = "dispatch" /\ header' = header /\ genuine' = genuine
      BY <1>1 DEF DispatchPublish
    <2>2. genuine # None
      BY <1>0, <2>1 DEF FrameInv, InSync
    <2>3. pc' = "callback"
      BY <1>1, <2>2 DEF DispatchPublish
    <2> QED BY <1>0, <2>1, <2>3 DEF AllKnown
  <1>2. CASE CallbackReturns
    <2>1. pc' = "cycled" /\ rc' = "SUCCESS"
      BY <1>2 DEF CallbackReturns, Cycled, Up
    <2> QED BY <1>0, <2>1 DEF AllKnown
  <1>3. CASE DispatchOther
    <2>1. pc = "dispatch" /\ Known(header, genuine)
      BY <1>3 DEF DispatchOther, AllKnown
    <2>2. pc' = "cycled" /\ rc' = "SUCCESS"
      BY <1>3, <2>1 DEF DispatchOther, Cycled, Known
    <2> QED BY <1>0, <2>2 DEF AllKnown
  <1>4. CASE Yield \/ KeepAliveCheck
    <2>1. pc' \in {"header", "sleep"}
      BY <1>4 DEF Yield, KeepAliveCheck, LoopOn, StartRead, YieldReturns, HandleDisconnect
    <2> QED BY <1>0, <2>1 DEF AllKnown
  <1>5. CASE CycleFailed
    BY <1>5 DEF CycleFailed, AllKnown
  <1> QED BY <1>1, <1>2, <1>3, <1>4, <1>5

LEMMA KnownPeer ==
  ASSUME Typed, AllKnown, Handled,
         PeerSends \/ PeerAnswersPing \/ BytesArrive \/ Tick \/ UNCHANGED vars
  PROVE  AllKnown'
  <1>0. UNCHANGED <<pc, rc, header, genuine>>
    BY DEF PeerSends, PeerAnswersPing, BytesArrive, Tick, vars, readVars
  <1>1. ASSUME NEW type \in Types, NEW n \in Lengths, wire' = wire \o Packet(type, n), Known(type, n)
        PROVE  AllKnown'
    <2>1. wire \in Seq(Byte)
      BY Timers
    <2>2. Sent(wire', wire, type, n)
      BY <1>1, <2>1, MarksJoin
    <2>3. \A i \in Marks(wire') : Known(wire'[i].type, wire'[i].rem)
      <3> TAKE i \in Marks(wire')
      <3>1. CASE i \in Marks(wire)
        BY <2>2, <3>1 DEF Sent, AllKnown
      <3>2. CASE i = Len(wire) + 1
        BY <1>1, <2>2, <3>2 DEF Sent
      <3> QED BY <2>2, <3>1, <3>2 DEF Sent
    <2> QED BY <1>0, <2>3 DEF AllKnown
  <1>2. CASE PeerSends
    <2>1. PICK type \in env.types, n \in env.lengths : wire' = wire \o Packet(type, n)
      BY <1>2 DEF PeerSends
    <2>2. type \in Types /\ n \in Lengths
      BY EnvTyped DEF Typed, LoopTyped
    <2>3. Known(type, n)
      BY DEF Handled, Known
    <2> QED BY <1>1, <2>1, <2>2, <2>3
  <1>3. CASE PeerAnswersPing
    <2>1. "PINGRESP" \in Types /\ Known("PINGRESP", 0)
      BY ReaderAssumption DEF Types, Known
    <2>2. wire' = wire \o Packet("PINGRESP", 0)
      BY <1>3 DEF PeerAnswersPing
    <2> QED BY <1>1, <2>1, <2>2, NoLength
  <1>4. CASE BytesArrive \/ Tick \/ UNCHANGED vars
    <2>1. wire' = wire
      BY <1>4 DEF BytesArrive, Tick, vars, peerVars
    <2> QED BY <1>0, <2>1 DEF AllKnown
  <1> QED BY <1>2, <1>3, <1>4

\* A time s, a timer p that runs against it, and what is left, u, until
\* somebody looks at the timer when it has expired, at most r.
Within(s, p, u, m, r) == (p > 0 => s + p <= m) /\ (p = 0 => s + u <= m + r)

LEMMA WithinSame ==
  ASSUME NEW s \in Nat, NEW t \in Nat, NEW p \in Nat, NEW u \in Nat, NEW v \in Nat, NEW m \in Nat, NEW r \in Nat,
         Within(s, p, u, m, r), t <= s, p > 0 \/ t + v <= s + u
  PROVE  Within(t, p, v, m, r)
  BY DEF Within

LEMMA WithinTick ==
  ASSUME NEW s \in Nat, NEW t \in Nat, NEW p \in Nat, NEW q \in Nat, NEW u \in Nat, NEW v \in Nat, NEW m \in Nat,
         NEW r \in Nat, Within(s, p, u, m, r), t <= s + 1,
         (p > 0 /\ q = p - 1 /\ v <= r) \/ (p = 0 /\ q = 0 /\ t + v <= s + u)
  PROVE  Within(t, q, v, m, r)
  BY DEF Within

\* The time until keep_alive is called, when every packet is handled.
UntilCheck ==
  IF pc = "sleep" THEN pause + YieldTime + PacketTimeout + CallbackTime
  ELSE IF pc = "header" THEN yieldTimer + PacketTimeout + CallbackTime
  ELSE IF pc \in {"length", "body", "drain"} THEN packetTimer + CallbackTime
  ELSE IF pc = "dispatch" THEN CallbackTime
  ELSE IF pc = "callback" THEN pause
  ELSE 0

Heard == Within(since, pingTimer, UntilCheck, AnswerTime + env.keepAlive, Round)

HeardInv == Sound /\ Up /\ Handled => AllKnown /\ (~isPingOutstanding => Heard)

LEMMA Untils ==
  /\ pc = "sleep" => UntilCheck = pause + YieldTime + PacketTimeout + CallbackTime
  /\ pc = "header" => UntilCheck = yieldTimer + PacketTimeout + CallbackTime
  /\ pc \in {"length", "body", "drain"} => UntilCheck = packetTimer + CallbackTime
  /\ pc = "dispatch" => UntilCheck = CallbackTime
  /\ pc = "callback" => UntilCheck = pause
  /\ pc \in {"cycled", "down"} => UntilCheck = 0
  /\ pc' = "sleep" => UntilCheck' = pause' + YieldTime + PacketTimeout + CallbackTime
  /\ pc' = "header" => UntilCheck' = yieldTimer' + PacketTimeout + CallbackTime
  /\ pc' \in {"length", "body", "drain"} => UntilCheck' = packetTimer' + CallbackTime
  /\ pc' = "dispatch" => UntilCheck' = CallbackTime
  /\ pc' = "callback" => UntilCheck' = pause'
  /\ pc' \in {"cycled", "down"} => UntilCheck' = 0
  BY DEF UntilCheck

\* The ranges of what the times are made of, now and after the step.
Ranges ==
  /\ pause \in Nat /\ (pc = "sleep" => pause <= MaxPause) /\ (pc = "callback" => pause <= CallbackTime)
  /\ yieldTimer \in Nat /\ yieldTimer <= YieldTime /\ packetTimer \in Nat /\ packetTimer <= PacketTimeout
  /\ pc \in {"sleep", "header", "length", "body", "drain", "dispatch", "callback", "cycled", "down"}

LEMMA RangesNow == Typed /\ Bounded => Ranges
  <1> SUFFICES ASSUME Typed, Bounded PROVE Ranges
    OBVIOUS
  <1>1. yieldTimer \in Nat /\ yieldTimer <= YieldTime /\ packetTimer \in Nat /\ packetTimer <= PacketTimeout
    BY Delays DEF Typed, LoopTyped, ReaderTyped
  <1>2. pc \in {"sleep", "header", "length", "body", "drain", "dispatch", "callback", "cycled", "down"}
    BY DEF Typed, ReaderTyped, Reading
  <1> QED BY <1>1, <1>2 DEF Ranges, Bounded

LEMMA RangesNext ==
  ASSUME Typed', Bounded'
  PROVE  Ranges'
  <1>1. yieldTimer' \in 0..YieldTime /\ packetTimer' \in 0..PacketTimeout
    BY DEF Typed, LoopTyped, ReaderTyped
  <1>2. yieldTimer' \in Nat /\ yieldTimer' <= YieldTime /\ packetTimer' \in Nat /\ packetTimer' <= PacketTimeout
    BY <1>1, Delays
  <1>3. pc' \in {"sleep", "header", "length", "body", "drain", "dispatch", "callback", "cycled", "down"}
    BY DEF Typed, ReaderTyped, Reading
  <1>4. pause' \in Nat /\ (pc' = "sleep" => pause' <= MaxPause) /\ (pc' = "callback" => pause' <= CallbackTime)
    BY DEF Bounded
  <1> QED BY <1>2, <1>3, <1>4 DEF Ranges

LEMMA UntilBounded ==
  ASSUME Ranges, Ranges'
  PROVE  UntilCheck \in Nat /\ UntilCheck' \in Nat /\ UntilCheck' <= Round /\ Round \in Nat
  <1>0. MaxPause \in Nat /\ CallbackTime \in Nat /\ PacketTimeout \in Nat /\ YieldTime \in Nat
    BY Delays
  <1>1. Round = YieldTime + MaxPause + CallbackTime + PacketTimeout /\ Round \in Nat
    BY <1>0 DEF Round
  <1>2. UntilCheck \in Nat
    BY <1>0, Untils DEF Ranges
  <1>3. PICK p \in Nat, y \in Nat, z \in Nat : p = pause' /\ y = yieldTimer' /\ z = packetTimer'
    BY DEF Ranges
  <1>4. UntilCheck' \in Nat /\ UntilCheck' <= Round
    <2>1. CASE pc' = "sleep"
      <3>1. p <= MaxPause
        BY <1>3, <2>1 DEF Ranges
      <3>2. UntilCheck' = p + YieldTime + PacketTimeout + CallbackTime
        BY <1>3, <2>1, Untils
      <3> QED BY <1>0, <1>1, <3>1, <3>2
    <2>2. CASE pc' = "header"
      <3>1. y <= YieldTime
        BY <1>3 DEF Ranges
      <3>2. UntilCheck' = y + PacketTimeout + CallbackTime
        BY <1>3, <2>2, Untils
      <3> QED BY <1>0, <1>1, <3>1, <3>2
    <2>3. CASE pc' \in {"length", "body", "drain"}
      <3>1. z <= PacketTimeout
        BY <1>3 DEF Ranges
      <3>2. UntilCheck' = z + CallbackTime
        BY <1>3, <2>3, Untils
      <3> QED BY <1>0, <1>1, <3>1, <3>2
    <2>4. CASE pc' = "callback"
      <3>1. p <= CallbackTime /\ UntilCheck' = p
        BY <1>3, <2>4, Untils DEF Ranges
      <3> QED BY <1>0, <1>1, <3>1
    <2>5. CASE pc' \in {"dispatch", "cycled", "down"}
      <3>1. UntilCheck' \in {0, CallbackTime}
        BY <2>5, Untils
      <3> QED BY <1>0, <1>1, <3>1
    <2> QED BY <2>1, <2>2, <2>3, <2>4, <2>5 DEF Ranges
  <1> QED BY <1>1, <1>2, <1>4

\* What the next lemmas start from: no ping is outstanding.
HeardPre ==
  /\ Typed /\ Typed' /\ Bounded /\ Bounded' /\ FrameInv /\ Sound /\ Up /\ AllKnown
  /\ ~isPingOutstanding /\ Heard

LEMMA HeardNumbers ==
  ASSUME HeardPre
  PROVE  /\ since \in Nat /\ pingTimer \in Nat /\ since' \in Nat /\ AnswerTime + env.keepAlive \in Nat
         /\ UntilCheck \in Nat /\ UntilCheck' \in Nat /\ UntilCheck' <= Round /\ Round \in Nat
         /\ Ranges /\ Ranges' /\ MaxPause \in Nat /\ CallbackTime \in Nat /\ PacketTimeout \in Nat
         /\ YieldTime \in Nat
  <1>1. Ranges /\ Ranges'
    BY RangesNow, RangesNext DEF HeardPre
  <1>2. since \in Nat /\ since' \in Nat
    BY DEF HeardPre, Bounded
  <1>3. pingTimer \in Nat /\ env.keepAlive \in Nat /\ AnswerTime \in Nat
    BY Timers, Answering DEF HeardPre
  <1> QED BY <1>1, <1>2, <1>3, UntilBounded, Delays

LEMMA HeardSame ==
  ASSUME HeardPre, UNCHANGED <<env, pingTimer>>, since' <= since,
         pingTimer > 0 \/ UntilCheck' <= UntilCheck
  PROVE  Heard'
  <1>1. AnswerTime' + env'.keepAlive = AnswerTime + env.keepAlive
    BY DEF AnswerTime, Backlog
  <1> DEFINE m == AnswerTime + env.keepAlive
             u == UntilCheck
             v == UntilCheck'
             s == since'
  <1>2. /\ since \in Nat /\ s \in Nat /\ pingTimer \in Nat /\ u \in Nat /\ v \in Nat /\ m \in Nat /\ Round \in Nat
        /\ s <= since /\ (pingTimer > 0 \/ v <= u)
        /\ Within(since, pingTimer, u, m, Round)
    BY HeardNumbers DEF HeardPre, Heard
  <1>5. Heard' <=> Within(s, pingTimer, v, m, Round)
    BY <1>1 DEF Heard
  <1> HIDE DEF m, u, v, s
  <1>3. pingTimer > 0 \/ s + v <= since + u
    BY <1>2
  <1>4. Within(s, pingTimer, v, m, Round)
    BY <1>2, <1>3, WithinSame
  <1> QED BY <1>4, <1>5

LEMMA HeardTick ==
  ASSUME HeardPre, Tick
  PROVE  Heard'
  <1>0. /\ since' = since + 1 /\ (pingTimer > 0 => pingTimer' = pingTimer - 1)
        /\ UNCHANGED <<pc, env>>
        /\ pc \in {"sleep", "callback"} => pause > 0 /\ pause' = pause - 1
        /\ pc \in {"sleep", "callback"} \/ (pc \in Reading /\ Timer > 0)
        /\ yieldTimer' = Down(yieldTimer) /\ packetTimer' = Down(packetTimer) /\ pingTimer' = Down(pingTimer)
    BY TickTimes DEF HeardPre, Tick
  <1>1. pingTimer = 0 => pingTimer' = 0
    BY <1>0 DEF Down
  <1>2. AnswerTime' + env'.keepAlive = AnswerTime + env.keepAlive
    BY <1>0 DEF AnswerTime, Backlog
  <1> DEFINE m == AnswerTime + env.keepAlive
             u == UntilCheck
             v == UntilCheck'
             s == since'
             q == pingTimer'
  <1>3. /\ since \in Nat /\ s \in Nat /\ pingTimer \in Nat /\ u \in Nat /\ v \in Nat /\ m \in Nat /\ Round \in Nat
        /\ v <= Round /\ Within(since, pingTimer, u, m, Round)
    BY HeardNumbers DEF HeardPre, Heard
  <1>4. v + 1 <= u
    <2>0. /\ MaxPause \in Nat /\ CallbackTime \in Nat /\ PacketTimeout \in Nat /\ YieldTime \in Nat
          /\ pause \in Nat /\ yieldTimer \in Nat /\ packetTimer \in Nat
      BY HeardNumbers DEF Ranges
    <2>1. CASE pc = "sleep"
      <3>1. /\ u = pause + YieldTime + PacketTimeout + CallbackTime
            /\ v = pause' + YieldTime + PacketTimeout + CallbackTime
        BY <1>0, <2>1, Untils
      <3>2. pause' = pause - 1 /\ pause > 0
        BY <1>0, <2>1
      <3> QED BY <2>0, <3>1, <3>2
    <2>2. CASE pc = "callback"
      <3>1. u = pause /\ v = pause'
        BY <1>0, <2>2, Untils
      <3> QED BY <1>0, <2>0, <2>2, <3>1
    <2>3. CASE pc = "header"
      <3>1. u = yieldTimer + PacketTimeout + CallbackTime /\ v = yieldTimer' + PacketTimeout + CallbackTime
        BY <1>0, <2>3, Untils
      <3>2. yieldTimer > 0 /\ yieldTimer' = yieldTimer - 1
        BY <1>0, <2>0, <2>3 DEF Timer, Down
      <3> QED BY <2>0, <3>1, <3>2
    <2>4. CASE pc \in {"length", "body", "drain"}
      <3>1. u = packetTimer + CallbackTime /\ v = packetTimer' + CallbackTime
        BY <1>0, <2>4, Untils
      <3>2. packetTimer > 0 /\ packetTimer' = packetTimer - 1
        BY <1>0, <2>0, <2>4 DEF Timer, Down
      <3> QED BY <2>0, <3>1, <3>2
    <2> QED BY <1>0, <2>1, <2>2, <2>3, <2>4 DEF Reading
  <1>5. q \in Nat
    BY TickTimes DEF HeardPre
  <1>6. Heard' <=> Within(s, q, v, m, Round)
    BY <1>2 DEF Heard
  <1>7. s = since + 1 /\ (pingTimer > 0 => q = pingTimer - 1) /\ (pingTimer = 0 => q = 0)
    BY <1>0, <1>1
  <1> HIDE DEF m, u, v, s, q
  <1>8. s + v <= since + u /\ s <= since + 1
    BY <1>3, <1>4, <1>7
  <1>9. Within(s, q, v, m, Round)
    <2>1. \/ pingTimer > 0 /\ q = pingTimer - 1 /\ v <= Round
          \/ pingTimer = 0 /\ q = 0 /\ s + v <= since + u
      BY <1>3, <1>7, <1>8
    <2> QED BY <1>3, <1>5, <1>8, <2>1, WithinTick
  <1> QED BY <1>6, <1>9

\* A step other than a tick and the handling of an answer.
LEMMA HeardStep ==
  ASSUME HeardPre, ~Doomed', connected', ~isPingOutstanding',
         \/ ReaderStep /\ UNCHANGED <<loopVars, env>>
         \/ DispatchPublish \/ CallbackReturns \/ (DispatchOther /\ header # "PINGRESP")
         \/ Yield \/ KeepAliveCheck \/ CycleFailed
         \/ PeerSends \/ PeerAnswersPing \/ BytesArrive \/ UNCHANGED vars
  PROVE  Heard'
  <1>0. /\ since \in Nat /\ pingTimer \in Nat /\ UntilCheck \in Nat /\ UntilCheck' \in Nat
        /\ MaxPause \in Nat /\ CallbackTime \in Nat /\ PacketTimeout \in Nat /\ YieldTime \in Nat
        /\ pause \in Nat /\ yieldTimer \in Nat /\ packetTimer \in Nat /\ packetTimer <= PacketTimeout
    BY HeardNumbers DEF Ranges
  <1>1. CASE ReaderStep /\ UNCHANGED <<loopVars, env>>
    <2>1. UNCHANGED <<env, pingTimer, since, yieldTimer, packetTimer, pause>> /\ pc \in Reading
      BY <1>1 DEF loopVars, ReaderStep, HeaderByte, LengthByte, DrainByte, BodyByte, ReadExpires, ReadError, Reading
    <2>2. /\ pc' \in {"length", "body", "drain", "dispatch", "cycled"}
          /\ pc # "header" \/ pc' \in {"length", "cycled"}
      BY <1>1 DEF ReaderStep, HeaderByte, LengthByte, DrainByte, BodyByte, ReadExpires, ReadError, LengthKnown, EndRead
    <2>3. UntilCheck' <= UntilCheck
      <3>1. CASE pc = "header"
        BY <1>0, <2>1, <2>2, <3>1, Untils
      <3>2. CASE pc # "header"
        BY <1>0, <2>1, <2>2, <3>2, Untils DEF Reading
      <3> QED BY <3>1, <3>2
    <2> QED BY <1>0, <2>1, <2>3, HeardSame
  <1>2. CASE DispatchPublish \/ CallbackReturns \/ (DispatchOther /\ header # "PINGRESP")
    <2>1. /\ UNCHANGED <<env, pingTimer>> /\ since' \in {0, since}
          /\ pc = "dispatch" \/ (pc = "callback" /\ pc' = "cycled")
          /\ pc' \in {"callback", "cycled"}
      BY <1>2 DEF DispatchPublish, CallbackReturns, DispatchOther, Cycled
    <2>2. pc' = "callback" => pause' <= CallbackTime
      BY DEF HeardPre, Bounded
    <2>3. UntilCheck' <= UntilCheck
      BY <1>0, <2>1, <2>2, Untils
    <2>4. since' <= since
      BY <1>0, <2>1
    <2> QED BY <2>1, <2>3, <2>4, HeardSame
  <1>3. CASE Yield
    <2>1. UNCHANGED <<env, pingTimer, since>> /\ pc = "sleep" /\ pause = 0 /\ pc' = "header" /\ yieldTimer' = YieldTime
      BY <1>3 DEF Yield, StartRead, loopVars
    <2>2. UntilCheck' <= UntilCheck
      BY <1>0, <2>1, Untils
    <2> QED BY <1>0, <2>1, <2>2, HeardSame
  <1>4. CASE KeepAliveCheck
    <2>1. ~KeepAliveDue
      BY <1>4 DEF KeepAliveCheck, HandleDisconnect
    <2>2. UNCHANGED <<env, pingTimer, since>> /\ pingTimer > 0
      BY <1>0, <1>4, <2>1 DEF KeepAliveCheck, KeepAliveDue, HeardPre, Sound, Steady
    <2> QED BY <1>0, <2>2, HeardSame
  <1>5. CASE CycleFailed
    BY <1>5 DEF CycleFailed, HeardPre, AllKnown
  <1>6. CASE PeerSends \/ PeerAnswersPing \/ BytesArrive \/ UNCHANGED vars
    <2>1. UNCHANGED <<env, pingTimer, since, pc, yieldTimer, packetTimer, pause>>
      BY <1>6 DEF PeerSends, PeerAnswersPing, BytesArrive, vars, loopVars, readVars
    <2>2. UntilCheck' = UntilCheck
      BY <2>1 DEF UntilCheck
    <2> QED BY <1>0, <2>1, <2>2, HeardSame
  <1> QED BY <1>1, <1>2, <1>3, <1>4, <1>5, <1>6

LEMMA AnswerNext ==
  ASSUME Typed'
  PROVE  AnswerTime' \in Nat
  <1>1. env'.packets \in Nat /\ env'.stall \in Nat /\ PingDelay \in Nat /\ CallbackTime \in Nat /\ MaxPause \in Nat
    BY EnvTyped, Delays DEF Typed, LoopTyped
  <1>2. \A a, b \in Nat : (a + 1) * b \in Nat
    OBVIOUS
  <1>3. Backlog' \in Nat
    BY <1>1, <1>2 DEF Backlog
  <1> QED BY <1>1, <1>3 DEF AnswerTime

\* The ping timer starts.
LEMMA HeardFresh ==
  ASSUME Typed', Bounded', pingTimer' = env'.keepAlive, env'.keepAlive > 0, since' <= AnswerTime'
  PROVE  Heard'
  <1>1. env'.keepAlive \in Nat /\ since' \in Nat
    BY EnvTyped DEF Typed, LoopTyped, Bounded
  <1>2. AnswerTime' \in Nat
    BY AnswerNext
  <1> DEFINE k == env'.keepAlive
             s == since'
             a == AnswerTime'
  <1>3. k \in Nat /\ k > 0 /\ s \in Nat /\ a \in Nat /\ s <= a
    BY <1>1, <1>2
  <1>4. Heard' <=> Within(s, k, UntilCheck', a + k, Round)
    BY DEF Heard
  <1> HIDE DEF k, s, a
  <1>5. Within(s, k, UntilCheck', a + k, Round)
    BY <1>3 DEF Within
  <1> QED BY <1>4, <1>5

\* Only a ping and an answer change what is outstanding.
LEMMA OutstandingSteps ==
  ASSUME [Next]_vars, isPingOutstanding, ~isPingOutstanding'
  PROVE  Reconnect \/ (DispatchOther /\ header = "PINGRESP")
  BY DEF Next, DispatchPublish, CallbackReturns, DispatchOther, Yield, KeepAliveCheck, CycleFailed,
         Reconnect, PeerSends, PeerAnswersPing, BytesArrive, LinkFails, Tick, vars, loopVars

LEMMA InitHeard == Init => HeardInv
  <1> SUFFICES ASSUME Init, env.keepAlive > 0 PROVE AllKnown /\ Heard
    BY DEF HeardInv, Sound, Steady
  <1>1. wire = <<>> /\ pc = "sleep" /\ since = 0 /\ pingTimer = env.keepAlive
    BY DEF Init
  <1>2. AllKnown
    BY <1>1, NoMarks DEF AllKnown
  <1>3. Typed
    BY InitTyped
  <1> DEFINE k == env.keepAlive
  <1>4. k \in Nat /\ k > 0 /\ AnswerTime \in Nat
    BY <1>3, Timers, Answering
  <1>5. Heard <=> Within(0, k, UntilCheck, AnswerTime + k, Round)
    BY <1>1 DEF Heard
  <1> HIDE DEF k
  <1>6. Within(0, k, UntilCheck, AnswerTime + k, Round)
    BY <1>4 DEF Within
  <1> QED BY <1>2, <1>5, <1>6

LEMMA NextHeard ==
  ASSUME Typed, Typed', FrameInv, FrameInv', Bounded, Bounded', PongInv, HeardInv, [Next]_vars
  PROVE  HeardInv'
  <1> SUFFICES ASSUME Sound', Up', Handled' PROVE AllKnown' /\ (~isPingOutstanding' => Heard')
    BY DEF HeardInv
  <1>0. env' = env /\ Handled /\ env.keepAlive > 0 /\ connected' /\ ~Doomed'
    BY EnvKept DEF Handled, Sound, Steady
  <1>1. CASE Reconnect
    <2>1. wire' = <<>> /\ pc' = "sleep" /\ since' = 0 /\ pingTimer' = env.keepAlive
      BY <1>1 DEF Reconnect, Reconnected
    <2>2. AllKnown'
      BY <2>1, NoMarks DEF AllKnown
    <2>3. since' <= AnswerTime'
      BY <2>1, AnswerNext
    <2> QED BY <1>0, <2>1, <2>2, <2>3, HeardFresh
  <1>2. CASE LinkFails
    BY <1>2, EnvTyped DEF LinkFails, Up, Typed, LoopTyped
  <1>3. CASE Sound /\ link' = link /\ ~Reconnect /\ ~LinkFails
    <2>1. Sound /\ Up /\ AllKnown /\ (~isPingOutstanding => Heard) /\ PongOnce /\ PongInTime
      BY <1>0, <1>3 DEF HeardInv, PongInv, Up
    <2>2. AllKnown'
      BY <1>0, <1>3, <2>1, KnownReader, KnownLoop, KnownPeer DEF Next
    <2>3. ASSUME ~isPingOutstanding' PROVE Heard'
      <3>1. CASE DispatchOther /\ header = "PINGRESP"
        <4>1. pc = "dispatch" /\ pingTimer' = env.keepAlive /\ since' = since
          BY <3>1 DEF DispatchOther
        <4>2. isPingOutstanding
          BY <2>1, <3>1, <4>1 DEF PongOnce, InHand
        <4>3. since <= AnswerTime
          BY <2>1, <4>2, Outstanding
        <4>4. AnswerTime' = AnswerTime
          BY <1>0 DEF AnswerTime, Backlog
        <4> QED BY <1>0, <4>1, <4>3, <4>4, HeardFresh
      <3>2. CASE ~(DispatchOther /\ header = "PINGRESP")
        <4>1. ~isPingOutstanding
          BY <1>3, <2>3, <3>2, OutstandingSteps
        <4>2. HeardPre
          BY <2>1, <4>1 DEF HeardPre
        <4> QED BY <1>0, <1>3, <2>3, <3>2, <4>2, HeardTick, HeardStep DEF Next
      <3> QED BY <3>1, <3>2
    <2> QED BY <2>2, <2>3
  <1> QED BY <1>1, <1>2, <1>3, SoundSteps

\* How long the peer may be without a sign of the client, for every interval.
HeardBounded ==
  Handled /\ env.keepAlive > 0 /\ connected /\ link = "up" /\ ~slipped
  => since <= env.keepAlive + AnswerTime + Round

\* The bound holds as well while a yield with half a packet has to return.
HeardDoomed == Steady /\ Doomed => HeardBounded

LEMMA HeardNow ==
  ASSUME Typed, Bounded, PongInv, HeardInv, HeardDoomed
  PROVE  HeardBounded
  <1> SUFFICES ASSUME Sound, Up, Handled
               PROVE  since <= env.keepAlive + AnswerTime + Round
    BY DEF HeardBounded, HeardDoomed, Sound, Steady, Up
  <1> DEFINE k == env.keepAlive
             a == AnswerTime
             r == Round
             u == UntilCheck
  <1>1. k \in Nat /\ a \in Nat /\ since \in Nat /\ pingTimer \in Nat /\ r \in Nat
    BY Timers, Answering, Delays DEF Bounded, Round
  <1>2. PongOnce /\ PongInTime /\ (~isPingOutstanding => Heard)
    BY DEF PongInv, HeardInv
  <1>3. isPingOutstanding => since <= a
    BY <1>2, Outstanding
  <1>4. u \in Nat
    <2>1. Ranges
      BY RangesNow
    <2> QED BY <2>1, Delays, Untils DEF Ranges
  <1>5. ~isPingOutstanding => Within(since, pingTimer, u, a + k, r)
    BY <1>2 DEF Heard
  <1>6. isPingOutstanding \in BOOLEAN
    BY DEF Typed, LoopTyped
  <1> HIDE DEF k, a, r, u
  <1>7. Within(since, pingTimer, u, a + k, r) => since <= k + a + r
    BY <1>1, <1>4 DEF Within
  <1>8. since <= a => since <= k + a + r
    BY <1>1
  <1>9. since <= k + a + r
    BY <1>3, <1>5, <1>6, <1>7, <1>8
  <1> QED BY <1>9 DEF k, a, r

LEMMA NextHeardDoomed ==
  ASSUME Typed, HeardBounded, [Next]_vars
  PROVE  HeardDoomed'
  <1> SUFFICES ASSUME Steady', Doomed', Up', Handled'
               PROVE  since' <= env'.keepAlive + AnswerTime' + Round
    BY DEF HeardDoomed, HeardBounded, Up
  <1>1. env' = env /\ Steady /\ ((since' = since /\ link' = link) \/ LinkFails)
    BY DoomedSteps
  <1>2. ~LinkFails
    BY EnvTyped DEF LinkFails, Up, Typed, LoopTyped
  <1>3. AnswerTime' = AnswerTime /\ Handled
    BY <1>1 DEF AnswerTime, Backlog, Handled
  <1>4. since <= env.keepAlive + AnswerTime + Round
    BY <1>1, <1>2, <1>3 DEF HeardBounded, Steady, Up
  <1> QED BY <1>1, <1>2, <1>3, <1>4

-----------------------------------------------------------------------------
(* A peer that has gone is noticed.                                        *)

\* What is left of the last packet may cost its timeout and the yield.
Cut ==
  IF wire # <<>> THEN PacketTimeout + MaxPause
  ELSE IF pc \in {"length", "body", "drain"} THEN packetTimer + MaxPause
  ELSE 0

Left == Load(Count(wire)) + Cut

\* The time until keep_alive is called, when nothing more arrives.
Delay ==
  IF pc = "sleep" THEN pause + YieldTime
  ELSE IF pc = "header" THEN (IF wire = <<>> THEN yieldTimer ELSE YieldTime)
  ELSE IF pc = "callback" THEN pause + MaxPause + YieldTime
  ELSE IF pc = "cycled" THEN (IF rc \in {"SUCCESS", "READ_ERROR"} THEN 0 ELSE MaxPause + YieldTime)
  ELSE CallbackTime + MaxPause + YieldTime

Spare == Backlog + CallbackTime + MaxPause + PacketTimeout + MaxPause

\* When the ping timer has to expire: for the first time, or for the second.
Limit ==
  IF isPingOutstanding
  THEN env.keepAlive + env.keepAlive + Spare + CallbackTime + MaxPause + YieldTime
  ELSE env.keepAlive + Spare

\* An answer that came before the link failed has still to be handled.
PongDue == Pongs(wire) # {} \/ (InHand /\ (pc = "dispatch" \/ wire # <<>>))

DueInTime == PongDue => since + Load(Count(wire)) + Work <= Backlog + Turn

DeadInTime == Within(since + Left, pingTimer, Delay, Limit, Turn + YieldTime)

DeadInv == Sound /\ ~Up => DueInTime /\ DeadInTime

\* What the next lemmas start from.
DeadPre ==
  /\ Typed /\ Typed' /\ FrameInv /\ Bounded /\ Bounded' /\ Sound /\ ~Up
  /\ DueInTime /\ DeadInTime

LEMMA Cuts ==
  /\ wire # <<>> => Cut = PacketTimeout + MaxPause
  /\ wire = <<>> /\ pc \in {"length", "body", "drain"} => Cut = packetTimer + MaxPause
  /\ wire = <<>> /\ pc \notin {"length", "body", "drain"} => Cut = 0
  /\ wire' # <<>> => Cut' = PacketTimeout + MaxPause
  /\ wire' = <<>> /\ pc' \in {"length", "body", "drain"} => Cut' = packetTimer' + MaxPause
  /\ wire' = <<>> /\ pc' \notin {"length", "body", "drain"} => Cut' = 0
  BY DEF Cut

LEMMA DelaysNow ==
  /\ pc = "sleep" => Delay = pause + YieldTime
  /\ pc = "header" => Delay = IF wire = <<>> THEN yieldTimer ELSE YieldTime
  /\ pc = "callback" => Delay = pause + MaxPause + YieldTime
  /\ pc = "cycled" => Delay = IF rc \in {"SUCCESS", "READ_ERROR"} THEN 0 ELSE MaxPause + YieldTime
  /\ pc \notin {"sleep", "header", "callback", "cycled"} => Delay = CallbackTime + MaxPause + YieldTime
  BY DEF Delay

LEMMA DelaysNext ==
  /\ pc' = "sleep" => Delay' = pause' + YieldTime
  /\ pc' = "header" => Delay' = IF wire' = <<>> THEN yieldTimer' ELSE YieldTime
  /\ pc' = "callback" => Delay' = pause' + MaxPause + YieldTime
  /\ pc' = "cycled" => Delay' = IF rc' \in {"SUCCESS", "READ_ERROR"} THEN 0 ELSE MaxPause + YieldTime
  /\ pc' \notin {"sleep", "header", "callback", "cycled"} => Delay' = CallbackTime + MaxPause + YieldTime
  BY DEF Delay

LEMMA DelayBounded ==
  ASSUME Ranges
  PROVE  Delay \in Nat /\ Delay <= Turn + YieldTime /\ Cut \in Nat /\ Cut <= PacketTimeout + MaxPause
  <1>0. /\ MaxPause \in Nat /\ CallbackTime \in Nat /\ PacketTimeout \in Nat /\ YieldTime \in Nat
        /\ Turn = CallbackTime + MaxPause
    BY Delays
  <1>1. Delay \in Nat /\ Delay <= Turn + YieldTime
    BY <1>0, DelaysNow DEF Ranges
  <1>2. Cut \in Nat /\ Cut <= PacketTimeout + MaxPause
    BY <1>0, Cuts DEF Ranges
  <1> QED BY <1>1, <1>2

LEMMA DelayBoundedNext ==
  ASSUME Ranges'
  PROVE  Delay' \in Nat /\ Delay' <= Turn + YieldTime /\ Cut' \in Nat /\ Cut' <= PacketTimeout + MaxPause
  <1>0. /\ MaxPause \in Nat /\ CallbackTime \in Nat /\ PacketTimeout \in Nat /\ YieldTime \in Nat
        /\ Turn = CallbackTime + MaxPause
    BY Delays
  <1>1. PICK p \in Nat, y \in Nat, z \in Nat : p = pause' /\ y = yieldTimer' /\ z = packetTimer'
    BY DEF Ranges
  <1>2. /\ pc' = "sleep" => p <= MaxPause
        /\ pc' = "callback" => p <= CallbackTime
        /\ y <= YieldTime /\ z <= PacketTimeout
    BY <1>1 DEF Ranges
  <1>3. Delay' \in Nat /\ Delay' <= Turn + YieldTime
    <2>1. CASE pc' = "sleep"
      <3>1. Delay' = p + YieldTime
        BY <1>1, <2>1, DelaysNext
      <3> QED BY <1>0, <1>2, <2>1, <3>1
    <2>2. CASE pc' = "header"
      <3>1. Delay' \in {y, YieldTime}
        BY <1>1, <2>2, DelaysNext
      <3> QED BY <1>0, <1>2, <3>1
    <2>3. CASE pc' = "callback"
      <3>1. Delay' = p + MaxPause + YieldTime
        BY <1>1, <2>3, DelaysNext
      <3> QED BY <1>0, <1>2, <2>3, <3>1
    <2>4. CASE pc' \notin {"sleep", "header", "callback"}
      <3>1. Delay' \in {0, MaxPause + YieldTime, CallbackTime + MaxPause + YieldTime}
        BY <2>4, DelaysNext
      <3> QED BY <1>0, <3>1
    <2> QED BY <2>1, <2>2, <2>3, <2>4
  <1>4. Cut' \in Nat /\ Cut' <= PacketTimeout + MaxPause
    <2>1. Cut' \in {0, PacketTimeout + MaxPause, z + MaxPause}
      BY <1>1, Cuts
    <2> QED BY <1>0, <1>2, <2>1
  <1> QED BY <1>3, <1>4

LEMMA LimitTyped ==
  ASSUME Typed
  PROVE  /\ Spare \in Nat /\ Limit \in Nat /\ env.keepAlive \in Nat
         /\ Spare = Backlog + Turn + PacketTimeout + MaxPause
         /\ isPingOutstanding => Limit = env.keepAlive + env.keepAlive + Spare + Turn + YieldTime
         /\ ~isPingOutstanding => Limit = env.keepAlive + Spare
  <1>0. /\ MaxPause \in Nat /\ CallbackTime \in Nat /\ PacketTimeout \in Nat /\ YieldTime \in Nat
        /\ Turn = CallbackTime + MaxPause /\ env.keepAlive \in Nat /\ Backlog \in Nat
    BY Delays, Timers, Answering
  <1>1. Spare \in Nat /\ Spare = Backlog + Turn + PacketTimeout + MaxPause
    BY <1>0 DEF Spare
  <1>2. isPingOutstanding => Limit = env.keepAlive + env.keepAlive + Spare + Turn + YieldTime
    BY <1>0, <1>1 DEF Limit
  <1>3. ~isPingOutstanding => Limit = env.keepAlive + Spare
    BY DEF Limit
  <1> QED BY <1>0, <1>1, <1>2, <1>3

LEMMA CountNow ==
  ASSUME Typed, Typed'
  PROVE  /\ Count(wire) \in Nat /\ Load(Count(wire)) \in Nat
         /\ Count(wire') \in Nat /\ Load(Count(wire')) \in Nat
  <1>1. wire \in Seq(Byte) /\ wire' \in Seq(Byte)
    BY DEF Typed, WireTyped
  <1>2. Count(wire) \in Nat /\ Count(wire') \in Nat
    BY <1>1, MarksFinite
  <1> QED BY <1>2, Loads

LEMMA DeadNumbers ==
  ASSUME Typed, Typed', Bounded, Bounded'
  PROVE  /\ since \in Nat /\ since' \in Nat /\ pingTimer \in Nat /\ pingTimer' \in Nat
         /\ Load(Count(wire)) \in Nat /\ Load(Count(wire')) \in Nat
         /\ Cut \in Nat /\ Cut' \in Nat /\ Delay \in Nat /\ Delay' \in Nat /\ Delay' <= Turn + YieldTime
         /\ Left = Load(Count(wire)) + Cut /\ Left' = Load(Count(wire')) + Cut'
         /\ Left \in Nat /\ Left' \in Nat /\ Limit \in Nat /\ Turn \in Nat /\ Turn + YieldTime \in Nat
         /\ Cut' <= PacketTimeout + MaxPause
  <1>1. Ranges /\ Ranges'
    BY RangesNow, RangesNext
  <1>2. since \in Nat /\ since' \in Nat
    BY DEF Bounded
  <1>3. pingTimer \in Nat /\ Limit \in Nat /\ Turn \in Nat /\ YieldTime \in Nat /\ PacketTimeout \in Nat /\ MaxPause \in Nat
    BY Timers, LimitTyped, Delays
  <1>4. pingTimer' \in Nat
    BY EnvTyped DEF Typed, LoopTyped
  <1>5. /\ Cut \in Nat /\ Cut' \in Nat /\ Delay \in Nat /\ Delay' \in Nat /\ Delay' <= Turn + YieldTime
        /\ Cut' <= PacketTimeout + MaxPause
    BY <1>1, DelayBounded, DelayBoundedNext
  <1>6. Load(Count(wire)) \in Nat /\ Load(Count(wire')) \in Nat
    BY CountNow
  <1>7. Left = Load(Count(wire)) + Cut /\ Left' = Load(Count(wire')) + Cut'
    BY DEF Left
  <1>8. Left \in Nat /\ Left' \in Nat
    BY <1>5, <1>6, <1>7
  <1> QED BY <1>2, <1>3, <1>4, <1>5, <1>6, <1>7, <1>8

\* Nothing starts a timer or a clock, and the reader gets on.
LEMMA DeadSame ==
  ASSUME DeadPre, UNCHANGED <<env, pingTimer, isPingOutstanding>>, since' <= since,
         Left' <= Left, pingTimer > 0 \/ Left' + Delay' <= Left + Delay
  PROVE  DeadInTime'
  <1> DEFINE s == since + Left
             t == since' + Left'
             u == Delay
             v == Delay'
             r == Turn + YieldTime
             m == Limit
  <1>1. Limit' = Limit
    BY DEF Limit, Spare, Backlog
  <1>2. /\ since \in Nat /\ since' \in Nat /\ Left \in Nat /\ Left' \in Nat /\ pingTimer \in Nat
        /\ u \in Nat /\ v \in Nat /\ m \in Nat /\ r \in Nat
    BY DeadNumbers DEF DeadPre
  <1>3. DeadInTime' <=> Within(t, pingTimer, v, m, r)
    BY <1>1 DEF DeadInTime
  <1>4. Within(s, pingTimer, u, m, r)
    BY DEF DeadPre, DeadInTime
  <1>5. s \in Nat /\ t \in Nat /\ t <= s /\ (pingTimer > 0 \/ t + v <= s + u)
    <2>1. PICK a \in Nat, b \in Nat, c \in Nat : a = since' /\ b = Left' /\ c = Delay'
      BY <1>2
    <2>2. a <= since /\ b <= Left /\ (pingTimer > 0 \/ b + c <= Left + u)
      BY <2>1
    <2>3. a + b <= s /\ (pingTimer > 0 \/ (a + b) + c <= s + u)
      BY <1>2, <2>2
    <2>4. t = a + b /\ v = c
      BY <2>1
    <2>5. s \in Nat
      BY <1>2
    <2> HIDE DEF s, t, u, v
    <2> QED BY <2>3, <2>4, <2>5
  <1> HIDE DEF s, t, u, v, r, m
  <1>6. Within(t, pingTimer, v, m, r)
    BY <1>2, <1>4, <1>5, WithinSame
  <1> QED BY <1>3, <1>6

\* The same for an answer that is due.
LEMMA DueSame ==
  ASSUME DeadPre, env' = env, since' <= since, PongDue' => PongDue,
         Load(Count(wire')) + Work' <= Load(Count(wire)) + Work
  PROVE  DueInTime'
  <1> SUFFICES ASSUME PongDue' PROVE since' + Load(Count(wire')) + Work' <= Backlog + Turn
    <2>1. Backlog' = Backlog
      BY DEF Backlog
    <2> QED BY <2>1 DEF DueInTime
  <1>1. /\ since \in Nat /\ since' \in Nat /\ Load(Count(wire)) \in Nat /\ Load(Count(wire')) \in Nat
        /\ Work \in Nat /\ Work' \in Nat /\ Backlog \in Nat /\ Turn \in Nat
    BY DeadNumbers, WorkBounded, Answering DEF DeadPre
  <1>2. since + Load(Count(wire)) + Work <= Backlog + Turn
    BY DEF DeadPre, DueInTime
  <1>3. PICK a \in Nat, b \in Nat, c \in Nat : a = since' /\ b = Load(Count(wire')) /\ c = Work'
    BY <1>1
  <1>4. a <= since /\ b + c <= Load(Count(wire)) + Work
    BY <1>3
  <1> DEFINE n == Load(Count(wire))
  <1>5. a <= since /\ b + c <= n + Work /\ since + n + Work <= Backlog + Turn /\ n \in Nat
    BY <1>1, <1>2, <1>4
  <1> HIDE DEF n
  <1>6. a + b + c <= Backlog + Turn
    BY <1>1, <1>5
  <1> QED BY <1>3, <1>6

\* No header is taken.
LEMMA DeadStep ==
  ASSUME DeadPre, UNCHANGED <<env, pingTimer, isPingOutstanding>>, since' <= since,
         Count(wire') = Count(wire), Cut' <= Cut, pingTimer > 0 \/ Delay' <= Delay,
         ~PongDue' \/ (PongDue /\ Work' <= Work)
  PROVE  DueInTime' /\ DeadInTime'
  <1> DEFINE n == Load(Count(wire))
  <1>1. /\ n \in Nat /\ Cut \in Nat /\ Cut' \in Nat /\ Delay \in Nat /\ Delay' \in Nat
        /\ Left = n + Cut /\ Left' = Load(Count(wire')) + Cut' /\ Work \in Nat /\ Work' \in Nat
    BY DeadNumbers, WorkBounded DEF DeadPre
  <1>2. Load(Count(wire')) = n /\ Left' = n + Cut'
    BY <1>1
  <1> HIDE DEF n
  <1>3. PICK a \in Nat, b \in Nat, c \in Nat : a = Cut' /\ b = Delay' /\ c = Work'
    BY <1>1
  <1>4. a <= Cut /\ (pingTimer > 0 \/ b <= Delay) /\ (PongDue' => c <= Work)
    BY <1>3
  <1>5. n \in Nat /\ Cut \in Nat /\ Delay \in Nat /\ Work \in Nat
    BY <1>1
  <1>6. n + a <= n + Cut /\ (b <= Delay => (n + a) + b <= (n + Cut) + Delay) /\ (c <= Work => n + c <= n + Work)
    BY <1>4, <1>5
  <1>7. Left' = n + a /\ Left = n + Cut /\ Delay' = b /\ Work' = c /\ Load(Count(wire')) = n /\ Load(Count(wire)) = n
    BY <1>1, <1>2, <1>3 DEF n
  <1>8. Left' <= Left /\ (pingTimer > 0 \/ Left' + Delay' <= Left + Delay)
    BY <1>4, <1>6, <1>7
  <1>9. PongDue' => Load(Count(wire')) + Work' <= Load(Count(wire)) + Work
    BY <1>4, <1>6, <1>7
  <1>10. DeadInTime'
    BY <1>8, DeadSame
  <1>11. DueInTime'
    <2>1. CASE PongDue'
      BY <1>9, <2>1, DueSame
    <2>2. CASE ~PongDue'
      BY <2>2 DEF DueInTime
    <2> QED BY <2>1, <2>2
  <1> QED BY <1>10, <1>11

LEMMA DeadHeader ==
  ASSUME DeadPre, HeaderByte, UNCHANGED <<loopVars, env>>
  PROVE  DueInTime' /\ DeadInTime'
  <1>0. /\ UNCHANGED <<isPingOutstanding, env, since, pingTimer>> /\ since \in Nat
        /\ pc = "header" /\ pc' = "length" /\ Take
    BY DEF HeaderByte, loopVars, DeadPre, Bounded
  <1>1. /\ wire \in Seq(Byte) /\ wire # <<>> /\ wire' = Tail(wire) /\ Head(wire) = wire[1]
        /\ Len(wire) \in Nat /\ Len(wire) >= 1
    BY <1>0, TakeTyped, Timers, TailTyped DEF DeadPre, Typed, Take, WireTyped
  <1>2. wire[1].kind = "header"
    BY <1>0, <1>1 DEF DeadPre, FrameInv, InSync, AtHeader, Sound, Steady
  <1>3. header' = wire[1].type
    BY <1>1, <1>2 DEF HeaderByte
  <1>4. PongDue' => PongDue
    <2>0. 1 \in Marks(wire)
      BY <1>1, <1>2 DEF Marks
    <2>1. InHand' => 1 \in Pongs(wire)
      BY <1>3, <2>0 DEF InHand, Pongs
    <2>2. Pongs(wire') # {} => Pongs(wire) # {}
      BY <1>1, PongsTail
    <2> QED BY <2>1, <2>2 DEF PongDue
  <1> DEFINE n == Count(wire')
  <1>5. Count(wire') = Count(wire) - 1 /\ Count(wire) \in Nat /\ n \in Nat
    BY <1>1, <1>2, MarksTail, MarksFinite, CountNow DEF DeadPre
  <1>6. Count(wire) = n + 1
    BY <1>5
  <1>7. Load(Count(wire)) = Load(n) + Turn /\ Load(n) \in Nat
    BY <1>5, <1>6, Loads
  <1>8. /\ Cut = PacketTimeout + MaxPause /\ Delay = YieldTime /\ Work = 0
        /\ Delay' = CallbackTime + MaxPause + YieldTime /\ Work' = CallbackTime + MaxPause
    BY <1>0, <1>1, Cuts, DelaysNow, DelaysNext, Works
  <1>9. /\ Cut' \in Nat /\ Cut' <= PacketTimeout + MaxPause
        /\ Left = Load(Count(wire)) + Cut /\ Left' = Load(Count(wire')) + Cut'
    BY DeadNumbers DEF DeadPre
  <1>10. /\ MaxPause \in Nat /\ CallbackTime \in Nat /\ PacketTimeout \in Nat /\ YieldTime \in Nat /\ Turn \in Nat
         /\ Turn = CallbackTime + MaxPause
    BY Delays
  <1> DEFINE l == Load(n)
  <1>11. Left = l + Turn + (PacketTimeout + MaxPause) /\ Left' = l + Cut' /\ l \in Nat
    BY <1>7, <1>8, <1>9, <1>10
  <1>12. Load(Count(wire')) + Work' <= Load(Count(wire)) + Work
    <2>1. Load(Count(wire')) = l /\ Work' = Turn /\ Load(Count(wire)) + Work = l + Turn
      BY <1>7, <1>8, <1>10
    <2> HIDE DEF l, n
    <2>2. l + Turn <= l + Turn
      BY <1>10, <1>11
    <2> QED BY <2>1, <2>2
  <1> HIDE DEF n, l
  <1>13. PICK c \in Nat : c = Cut'
    BY <1>9
  <1>14. Left' = l + c /\ Delay' = Turn + YieldTime /\ c <= PacketTimeout + MaxPause
    BY <1>8, <1>9, <1>10, <1>11, <1>13
  <1>15. l + c <= l + Turn + (PacketTimeout + MaxPause)
         /\ (l + c) + (Turn + YieldTime) <= (l + Turn + (PacketTimeout + MaxPause)) + YieldTime
    BY <1>10, <1>11, <1>14
  <1>16. Left' <= Left /\ Left' + Delay' <= Left + Delay
    BY <1>8, <1>11, <1>14, <1>15
  <1> QED BY <1>0, <1>4, <1>12, <1>16, DeadSame, DueSame

\* Another byte of the packet that is read.
LEMMA DeadByte ==
  ASSUME DeadPre, LengthByte \/ DrainByte \/ BodyByte, UNCHANGED <<loopVars, env>>
  PROVE  DueInTime' /\ DeadInTime'
  <1>0. /\ UNCHANGED <<isPingOutstanding, env, since, pingTimer, header>> /\ since \in Nat
        /\ pc \in {"length", "drain", "body"} /\ Take
    BY DEF LengthByte, DrainByte, BodyByte, loopVars, DeadPre, Bounded
  <1>1. wire \in Seq(Byte) /\ wire # <<>> /\ wire' = Tail(wire)
    BY <1>0, TakeTyped, Timers DEF DeadPre, Typed, Take
  <1>2. wire[1].kind # "header"
    BY <1>0, <1>1, InPacket DEF DeadPre, Sound, Steady
  <1>3. Count(wire') = Count(wire)
    <2>1. Count(wire') = Count(wire) - 0 /\ Count(wire) \in Nat
      BY <1>1, <1>2, MarksTail, MarksFinite
    <2> QED BY <2>1
  <1>4. PongDue' => PongDue
    <2>1. InHand' => InHand
      BY <1>0 DEF InHand
    <2>2. Pongs(wire') # {} => Pongs(wire) # {}
      BY <1>1, PongsTail
    <2> QED BY <1>1, <2>1, <2>2 DEF PongDue
  <1>5. Delay' <= Delay /\ Cut' <= Cut
    <2>1. Delay = CallbackTime + MaxPause + YieldTime /\ Cut = PacketTimeout + MaxPause
      BY <1>0, <1>1, DelaysNow, Cuts
    <2>2. Delay' <= Turn + YieldTime /\ Cut' <= PacketTimeout + MaxPause /\ Turn = CallbackTime + MaxPause
      BY DeadNumbers, Delays DEF DeadPre
    <2> QED BY <2>1, <2>2
  <1>6. Work' <= Work
    <2>1. Work = CallbackTime + MaxPause
      BY <1>0, Works
    <2> QED BY <2>1, WorkBounded, Delays DEF DeadPre
  <1>7. since' <= since
    BY <1>0
  <1> QED BY <1>0, <1>3, <1>4, <1>5, <1>6, <1>7, DeadStep

\* Nothing is left to read.
LEMMA DeadEnd ==
  ASSUME DeadPre, ReadExpires \/ ReadError, UNCHANGED <<loopVars, env>>
  PROVE  DueInTime' /\ DeadInTime'
  <1>0. /\ UNCHANGED <<isPingOutstanding, env, since, pingTimer, wire>> /\ since \in Nat
        /\ pc \in Reading /\ pc' = "cycled" /\ arrived = 0
        /\ pc = "header" => rc' \in {"SUCCESS", "READ_ERROR"}
    BY DEF ReadExpires, ReadError, EndRead, loopVars, DeadPre, Bounded, Reading
  <1>1. wire = <<>> /\ wire' = <<>>
    <2>1. Len(wire) = 0 /\ wire \in Seq(Byte)
      BY <1>0, Timers DEF DeadPre, FrameInv, LostIsGone
    <2> QED BY <1>0, <2>1, EmptySeq
  <1>2. ~PongDue'
    BY <1>0, <1>1, NoMarks DEF PongDue, InHand
  <1>3. /\ MaxPause \in Nat /\ CallbackTime \in Nat /\ YieldTime \in Nat /\ Delay \in Nat /\ Cut \in Nat
        /\ Work \in Nat
    BY Delays, DeadNumbers, WorkBounded DEF DeadPre
  <1>4. Cut' = 0 /\ Cut' <= Cut
    BY <1>0, <1>1, <1>3, Cuts
  <1>5. Delay' <= Delay
    <2>1. CASE pc = "header"
      <3>1. Delay' = 0
        BY <1>0, <2>1, DelaysNext
      <3> QED BY <1>3, <3>1
    <2>2. CASE pc # "header"
      <3>1. Delay = CallbackTime + MaxPause + YieldTime
        BY <1>0, <2>2, DelaysNow DEF Reading
      <3>2. Delay' \in {0, MaxPause + YieldTime}
        BY <1>0, DelaysNext
      <3> QED BY <1>3, <3>1, <3>2
    <2> QED BY <2>1, <2>2
  <1>6. since' <= since /\ Count(wire') = Count(wire)
    BY <1>0
  <1> QED BY <1>0, <1>2, <1>4, <1>5, <1>6, DeadStep

\* A packet that is not an answer is handled.
LEMMA DeadCycle ==
  ASSUME DeadPre, DispatchPublish \/ CallbackReturns \/ (DispatchOther /\ header # "PINGRESP")
  PROVE  DueInTime' /\ DeadInTime'
  <1>1. UNCHANGED <<wire, isPingOutstanding, env, pingTimer, since>>
    BY DEF DispatchPublish, CallbackReturns, DispatchOther, peerVars, DeadPre, Up
  <1>2. /\ pc \in {"dispatch", "callback"} /\ pc' \in {"callback", "cycled"}
        /\ pc = "callback" => pc' = "cycled"
    BY DEF DispatchPublish, CallbackReturns, DispatchOther, Cycled
  <1>3. PongDue' => PongDue
    BY <1>1, <1>2 DEF PongDue, InHand
  <1>4. /\ MaxPause \in Nat /\ CallbackTime \in Nat /\ YieldTime \in Nat /\ pause \in Nat /\ pause' \in Nat
        /\ since \in Nat /\ Cut \in Nat
    BY Delays, DeadNumbers DEF DeadPre, Bounded
  <1>5. pc' = "callback" => pause' <= CallbackTime
    BY DEF DeadPre, Bounded
  <1>6. Cut' <= Cut
    <2>1. Cut' = Cut
      BY <1>1, <1>2 DEF Cut
    <2> QED BY <1>4, <2>1
  <1>7. Work' <= Work
    BY <1>2, <1>4, <1>5, Works
  <1>8. Delay' <= Delay
    <2>1. CASE pc' = "callback"
      <3>1. Delay' = pause' + MaxPause + YieldTime /\ Delay = CallbackTime + MaxPause + YieldTime
        BY <1>2, <2>1, DelaysNow, DelaysNext
      <3>2. PICK z \in Nat : z = pause'
        BY <1>4
      <3>3. Delay' = z + MaxPause + YieldTime /\ z <= CallbackTime
        BY <1>5, <2>1, <3>1, <3>2
      <3>4. z + MaxPause + YieldTime <= CallbackTime + MaxPause + YieldTime
        BY <1>4, <3>3
      <3> QED BY <3>1, <3>3, <3>4
    <2>2. CASE pc' = "cycled"
      <3>1. Delay' \in {0, MaxPause + YieldTime}
        BY <2>2, DelaysNext
      <3>2. Delay \in {pause + MaxPause + YieldTime, CallbackTime + MaxPause + YieldTime}
        BY <1>2, DelaysNow
      <3> QED BY <1>4, <3>1, <3>2
    <2> QED BY <1>2, <2>1, <2>2
  <1>9. since' <= since /\ Count(wire') = Count(wire)
    BY <1>1, <1>4
  <1> QED BY <1>1, <1>3, <1>6, <1>7, <1>8, <1>9, DeadStep

\* The yield begins, goes on, or returns.
LEMMA DeadLoop ==
  ASSUME DeadPre, Yield \/ CycleFailed \/ (KeepAliveCheck /\ ~KeepAliveDue), connected'
  PROVE  DueInTime' /\ DeadInTime'
  <1>1. UNCHANGED <<wire, isPingOutstanding, env, pingTimer, since>>
    BY DEF Yield, CycleFailed, KeepAliveCheck, peerVars, loopVars
  <1>2. /\ pc \in {"sleep", "cycled"} /\ (pc' = "header" \/ (pc = "cycled" /\ YieldReturns))
    BY DEF Yield, CycleFailed, KeepAliveCheck, HandleDisconnect, LoopOn, StartRead
  <1>3. pc' \in {"header", "sleep"} /\ (pc' = "sleep" => pc = "cycled" /\ pause' <= MaxPause)
    BY <1>2, PausesSet DEF YieldReturns
  <1>4. /\ MaxPause \in Nat /\ CallbackTime \in Nat /\ YieldTime \in Nat /\ pause \in Nat /\ pause' \in Nat
        /\ since \in Nat /\ Cut \in Nat /\ pingTimer \in Nat
    BY Delays, DeadNumbers DEF DeadPre, Bounded
  <1>5. PongDue' => PongDue
    BY <1>1, <1>2, <1>3 DEF PongDue, InHand
  <1>6. Cut' <= Cut
    <2>1. Cut' = Cut
      BY <1>1, <1>2, <1>3 DEF Cut
    <2> QED BY <1>4, <2>1
  <1>7. Work' <= Work
    BY <1>2, <1>3, <1>4, Works
  <1>8. pingTimer > 0 \/ Delay' <= Delay
    <2>1. CASE Yield
      <3>1. pc = "sleep" /\ pause = 0 /\ pc' = "header" /\ yieldTimer' = YieldTime
        BY <2>1 DEF Yield, StartRead
      <3>2. Delay = pause + YieldTime /\ Delay' = YieldTime
        BY <3>1, DelaysNow, DelaysNext
      <3> QED BY <1>4, <3>2
    <2>2. CASE CycleFailed
      <3>1. pc = "cycled" /\ rc \notin {"SUCCESS", "READ_ERROR"} /\ pc' = "sleep"
        BY <2>2 DEF CycleFailed, HandleDisconnect, YieldReturns
      <3>2. Delay = MaxPause + YieldTime /\ Delay' = pause' + YieldTime
        BY <3>1, DelaysNow, DelaysNext
      <3>3. PICK z \in Nat : z = pause'
        BY <1>4
      <3>4. Delay' = z + YieldTime /\ z <= MaxPause
        BY <1>3, <3>1, <3>2, <3>3
      <3>5. z + YieldTime <= MaxPause + YieldTime
        BY <1>4, <3>4
      <3> QED BY <3>2, <3>4, <3>5
    <2>3. CASE KeepAliveCheck /\ ~KeepAliveDue
      BY <1>4, <2>3 DEF KeepAliveDue, DeadPre, Sound, Steady
    <2> QED BY <2>1, <2>2, <2>3
  <1>9. since' <= since /\ Count(wire') = Count(wire)
    BY <1>1, <1>4
  <1> QED BY <1>1, <1>5, <1>6, <1>7, <1>8, <1>9, DeadStep

LEMMA LimitNext ==
  ASSUME Typed'
  PROVE  /\ Spare' \in Nat /\ Limit' \in Nat /\ env'.keepAlive \in Nat /\ Backlog' \in Nat
         /\ Backlog' = Load(env'.packets + 1) /\ env'.packets \in Nat
         /\ Spare' = Backlog' + Turn + PacketTimeout + MaxPause
         /\ isPingOutstanding' => Limit' = env'.keepAlive + env'.keepAlive + Spare' + Turn + YieldTime
         /\ ~isPingOutstanding' => Limit' = env'.keepAlive + Spare'
         /\ isPingOutstanding' \in BOOLEAN /\ pingTimer' \in Nat /\ pingTimer' <= env'.keepAlive
  <1>0. /\ MaxPause \in Nat /\ CallbackTime \in Nat /\ PacketTimeout \in Nat /\ YieldTime \in Nat
        /\ Turn = CallbackTime + MaxPause /\ env'.keepAlive \in Nat /\ env'.packets \in Nat
    BY EnvTyped, Delays DEF Typed, LoopTyped
  <1>1. Backlog' = Load(env'.packets + 1)
    BY DEF Backlog, Load, Turn
  <1>2. Backlog' \in Nat
    <2>1. env'.packets + 1 \in Nat
      BY <1>0
    <2> QED BY <1>1, <2>1, Loads
  <1>3. PICK k \in Nat, b \in Nat : k = env'.keepAlive /\ b = Backlog'
    BY <1>0, <1>2
  <1>4. Spare' = b + Turn + PacketTimeout + MaxPause /\ Spare' \in Nat
    <2>1. Spare' = b + CallbackTime + MaxPause + PacketTimeout + MaxPause
      BY <1>3 DEF Spare
    <2> QED BY <1>0, <2>1
  <1>5. PICK p \in Nat : p = Spare'
    BY <1>4
  <1>6. isPingOutstanding' => Limit' = k + k + p + Turn + YieldTime
    <2>1. isPingOutstanding' => Limit' = k + k + p + CallbackTime + MaxPause + YieldTime
      BY <1>3, <1>5 DEF Limit
    <2> QED BY <1>0, <2>1
  <1>7. ~isPingOutstanding' => Limit' = k + p
    BY <1>3, <1>5 DEF Limit
  <1>8. isPingOutstanding' \in BOOLEAN /\ pingTimer' \in 0..k
    BY <1>3 DEF Typed, LoopTyped
  <1>9. Limit' \in Nat
    BY <1>0, <1>6, <1>7, <1>8
  <1> QED BY <1>0, <1>1, <1>2, <1>3, <1>4, <1>5, <1>6, <1>7, <1>8, <1>9

\* The answer to an earlier ping is handled.
LEMMA DeadHandled ==
  ASSUME DeadPre, DispatchOther, header = "PINGRESP"
  PROVE  DueInTime' /\ DeadInTime'
  <1>1. /\ pc = "dispatch" /\ pc' = "cycled" /\ UNCHANGED <<wire, env, since>>
        /\ isPingOutstanding' = FALSE /\ pingTimer' = env.keepAlive
    BY DEF DispatchOther, Cycled, peerVars
  <1>2. PongDue
    BY <1>1 DEF PongDue, InHand
  <1>3. /\ MaxPause \in Nat /\ CallbackTime \in Nat /\ PacketTimeout \in Nat /\ Turn = CallbackTime + MaxPause
        /\ Work = CallbackTime + MaxPause /\ Work' = MaxPause
    BY <1>1, Delays, Works
  <1>4. DueInTime'
    <2>1. Work' <= Work
      BY <1>3
    <2>2. Load(Count(wire')) + Work' <= Load(Count(wire)) + Work
      <3> DEFINE n == Load(Count(wire))
      <3>1. n \in Nat /\ Load(Count(wire')) = n
        BY <1>1, DeadNumbers DEF DeadPre
      <3> HIDE DEF n
      <3>2. n + MaxPause <= n + (CallbackTime + MaxPause)
        BY <1>3, <3>1
      <3> QED BY <1>3, <3>1, <3>2 DEF n
    <2>3. since' <= since
      BY <1>1 DEF DeadPre, Bounded
    <2> QED BY <1>1, <1>2, <2>2, <2>3, DueSame
  <1>5. DeadInTime'
    <2> DEFINE n == Load(Count(wire))
               k == env.keepAlive
               c == Cut'
               p == Spare
    <2>1. /\ n \in Nat /\ k \in Nat /\ k > 0 /\ c \in Nat /\ c <= PacketTimeout + MaxPause /\ since \in Nat
          /\ Backlog \in Nat /\ p = Backlog + Turn + PacketTimeout + MaxPause
      BY DeadNumbers, LimitTyped, Answering DEF DeadPre, Sound, Steady
    <2>2. since + n + Turn <= Backlog + Turn
      BY <1>2, <1>3 DEF DeadPre, DueInTime
    <2>3. Left' = n + c
      BY <1>1, DeadNumbers DEF DeadPre
    <2>4. Limit' = k + p
      BY <1>1 DEF Limit, Spare, Backlog
    <2>5. DeadInTime' <=> Within(since + (n + c), k, Delay', k + p, Turn + YieldTime)
      BY <1>1, <2>3, <2>4 DEF DeadInTime
    <2>6. Turn \in Nat
      BY Delays
    <2> HIDE DEF n, k, c, p
    <2>7. since + (n + c) + k <= k + p
      BY <1>3, <2>1, <2>2, <2>6
    <2>8. Within(since + (n + c), k, Delay', k + p, Turn + YieldTime)
      BY <2>1, <2>7 DEF Within
    <2> QED BY <2>5, <2>8
  <1> QED BY <1>4, <1>5

\* A ping is sent, and nobody will answer it.
LEMMA DeadSent ==
  ASSUME DeadPre, KeepAliveCheck, KeepAliveDue, connected'
  PROVE  DueInTime' /\ DeadInTime'
  <1>1. /\ pc = "cycled" /\ rc = "SUCCESS" /\ ~isPingOutstanding /\ isPingOutstanding' = TRUE /\ LoopOn
        /\ UNCHANGED <<wire, env>> /\ pingTimer = 0
    BY DEF KeepAliveCheck, HandleDisconnect, peerVars, KeepAliveDue
  <1>2. since' = since /\ pingTimer' = env.keepAlive
    BY DEF KeepAliveCheck, HandleDisconnect, DeadPre, Up
  <1>3. pc' \in {"header", "sleep"} /\ (pc' = "sleep" => pause' <= MaxPause)
    BY <1>1, PausesSet DEF LoopOn, StartRead, YieldReturns
  <1>4. DueInTime'
    <2>1. PongDue' => PongDue
      BY <1>1, <1>3 DEF PongDue, InHand
    <2>2. MaxPause \in Nat /\ pause \in Nat /\ pause' \in Nat /\ since \in Nat
      BY Delays DEF DeadPre, Bounded
    <2>3. Work' <= Work /\ Work \in Nat /\ Work' \in Nat
      BY <1>1, <1>3, <2>2, Works
    <2> DEFINE n == Load(Count(wire))
    <2>4. n \in Nat /\ Load(Count(wire')) = n
      BY <1>1, DeadNumbers DEF DeadPre
    <2> HIDE DEF n
    <2>5. n + Work' <= n + Work
      <3>1. PICK z \in Nat : z = Work'
        BY <2>3
      <3>2. z <= Work
        BY <2>3, <3>1
      <3>3. n + z <= n + Work
        BY <2>3, <2>4, <3>2
      <3> QED BY <3>1, <3>3
    <2>6. Load(Count(wire')) + Work' <= Load(Count(wire)) + Work
      BY <2>4, <2>5 DEF n
    <2>7. since' <= since
      BY <1>2, <2>2
    <2> QED BY <1>1, <2>1, <2>6, <2>7, DueSame
  <1>5. DeadInTime'
    <2> DEFINE l == Left
               k == env.keepAlive
               p == Spare
    <2>1. /\ l \in Nat /\ k \in Nat /\ k > 0 /\ p \in Nat /\ since \in Nat /\ Turn \in Nat /\ YieldTime \in Nat
          /\ Limit = k + p
      BY <1>1, DeadNumbers, LimitTyped, Delays DEF DeadPre, Sound, Steady
    <2>2. Delay = 0
      BY <1>1, DelaysNow
    <2>3. Within(since + l, 0, 0, k + p, Turn + YieldTime)
      BY <1>1, <2>1, <2>2 DEF DeadPre, DeadInTime
    <2>4. Left' = l
      <3>1. Cut' = Cut
        BY <1>1, <1>3 DEF Cut
      <3> QED BY <1>1, <3>1 DEF Left
    <2>5. Limit' = k + k + p + Turn + YieldTime
      <3>1. Typed' /\ Spare' = Spare
        BY <1>1 DEF DeadPre, Spare, Backlog
      <3> QED BY <1>1, <3>1, LimitNext
    <2>6. DeadInTime' <=> Within(since + l, k, Delay', k + k + p + Turn + YieldTime, Turn + YieldTime)
      BY <1>1, <1>2, <2>4, <2>5 DEF DeadInTime
    <2> HIDE DEF l, k, p
    <2>7. since + l + k <= k + k + p + Turn + YieldTime
      BY <2>1, <2>3 DEF Within
    <2>8. Within(since + l, k, Delay', k + k + p + Turn + YieldTime, Turn + YieldTime)
      BY <2>1, <2>7 DEF Within
    <2> QED BY <2>6, <2>8
  <1> QED BY <1>4, <1>5

LEMMA DeadTick ==
  ASSUME DeadPre, Tick
  PROVE  DueInTime' /\ DeadInTime'
  <1>0. /\ since' = since + 1 /\ (pingTimer > 0 => pingTimer' = pingTimer - 1)
        /\ UNCHANGED <<pc, rc, header, env, wire, isPingOutstanding>>
        /\ pc \in {"sleep", "callback"} => pause > 0 /\ pause' = pause - 1 /\ Work' = Work - 1
        /\ pc \in {"sleep", "callback"} \/ (pc \in Reading /\ arrived = 0 /\ Timer > 0)
        /\ yieldTimer' = Down(yieldTimer) /\ packetTimer' = Down(packetTimer) /\ pingTimer' = Down(pingTimer)
    BY TickTimes DEF DeadPre, Tick
  <1>1. pingTimer = 0 => pingTimer' = 0
    BY <1>0 DEF Down
  <1> DEFINE n == Load(Count(wire))
             c == Cut
             d == Cut'
             u == Delay
             v == Delay'
             q == pingTimer'
             m == Limit
             r == Turn + YieldTime
  <1>2. /\ since \in Nat /\ pingTimer \in Nat /\ n \in Nat /\ c \in Nat /\ d \in Nat /\ u \in Nat /\ v \in Nat
        /\ q \in Nat /\ m \in Nat /\ r \in Nat /\ v <= r /\ Left = n + c /\ Left' = n + d
        /\ Load(Count(wire')) = n
    BY <1>0, DeadNumbers DEF DeadPre
  <1>3. Within(since + (n + c), pingTimer, u, m, r)
    BY <1>2 DEF DeadPre, DeadInTime
  <1>4. DeadInTime' <=> Within((since + 1) + (n + d), q, v, m, r)
    <2>1. Limit' = Limit
      BY <1>0 DEF Limit, Spare, Backlog
    <2> QED BY <1>0, <1>2, <2>1 DEF DeadInTime
  <1>5. /\ MaxPause \in Nat /\ CallbackTime \in Nat /\ PacketTimeout \in Nat /\ YieldTime \in Nat
        /\ pause \in Nat /\ yieldTimer \in Nat /\ packetTimer \in Nat
    BY RangesNow, Delays DEF DeadPre, Ranges
  <1>6. pc \in Reading => wire = <<>> /\ ~PongDue'
    <2> SUFFICES ASSUME pc \in Reading PROVE wire = <<>> /\ ~PongDue'
      OBVIOUS
    <2>1. Len(wire) = 0 /\ wire \in Seq(Byte)
      BY <1>0, Timers DEF DeadPre, FrameInv, LostIsGone, Reading
    <2>2. wire = <<>>
      BY <2>1, EmptySeq
    <2> QED BY <1>0, <2>2, NoMarks DEF PongDue, Reading
  <1>7. d + v + 1 <= c + u /\ d <= c
    <2>1. CASE pc = "sleep"
      <3>1. u = pause + YieldTime /\ v = pause' + YieldTime
        BY <1>0, <2>1, DelaysNow, DelaysNext
      <3>2. pause' = pause - 1 /\ pause > 0 /\ d = c
        BY <1>0, <2>1 DEF Cut
      <3>3. v = (pause - 1) + YieldTime
        BY <3>1, <3>2
      <3> HIDE DEF c, d, u, v
      <3> QED BY <1>2, <1>5, <3>1, <3>2, <3>3
    <2>2. CASE pc = "callback"
      <3>1. u = pause + MaxPause + YieldTime /\ v = pause' + MaxPause + YieldTime
        BY <1>0, <2>2, DelaysNow, DelaysNext
      <3>2. pause' = pause - 1 /\ pause > 0 /\ d = c
        BY <1>0, <2>2 DEF Cut
      <3>3. v = (pause - 1) + MaxPause + YieldTime
        BY <3>1, <3>2
      <3> HIDE DEF c, d, u, v
      <3> QED BY <1>2, <1>5, <3>1, <3>2, <3>3
    <2>3. CASE pc = "header"
      <3>1. wire = <<>>
        BY <1>6, <2>3 DEF Reading
      <3>2. u = yieldTimer /\ v = yieldTimer' /\ c = 0 /\ d = 0
        BY <1>0, <2>3, <3>1, DelaysNow, DelaysNext, Cuts
      <3>3. yieldTimer > 0 /\ yieldTimer' = yieldTimer - 1
        BY <1>0, <1>5, <2>3 DEF Timer, Down
      <3> HIDE DEF c, d, u, v
      <3> QED BY <1>2, <1>5, <3>2, <3>3
    <2>4. CASE pc \in {"length", "body", "drain"}
      <3>1. wire = <<>>
        BY <1>6, <2>4 DEF Reading
      <3>2. c = packetTimer + MaxPause /\ d = packetTimer' + MaxPause
        BY <1>0, <2>4, <3>1, Cuts
      <3>3. packetTimer > 0 /\ packetTimer' = packetTimer - 1
        BY <1>0, <1>5, <2>4 DEF Timer, Down
      <3>4. u = v
        BY <1>0, <2>4, DelaysNow, DelaysNext
      <3>5. d = (packetTimer - 1) + MaxPause
        BY <3>2, <3>3
      <3> HIDE DEF c, d, u, v
      <3> QED BY <1>2, <1>5, <3>2, <3>3, <3>4, <3>5
    <2> QED BY <1>0, <2>1, <2>2, <2>3, <2>4 DEF Reading
  <1>8. (pingTimer > 0 => q = pingTimer - 1) /\ (pingTimer = 0 => q = 0)
    BY <1>0, <1>1
  <1>9. DeadInTime'
    <2> DEFINE s == since + (n + c)
               t == (since + 1) + (n + d)
    <2> HIDE DEF n, c, d, u, v, q, m, r
    <2>1. s \in Nat /\ t \in Nat /\ t <= s + 1 /\ t + v <= s + u
      BY <1>2, <1>7
    <2>2. Within(s, pingTimer, u, m, r)
      BY <1>3
    <2> HIDE DEF s, t
    <2>3. \/ pingTimer > 0 /\ q = pingTimer - 1 /\ v <= r
          \/ pingTimer = 0 /\ q = 0 /\ t + v <= s + u
      BY <1>2, <1>8, <2>1
    <2>4. Within(t, q, v, m, r)
      BY <1>2, <2>1, <2>2, <2>3, WithinTick
    <2> QED BY <1>4, <2>4 DEF t
  <1>10. DueInTime'
    <2> SUFFICES ASSUME PongDue' PROVE since' + Load(Count(wire')) + Work' <= Backlog + Turn
      <3>1. Backlog' = Backlog
        BY <1>0 DEF Backlog
      <3> QED BY <3>1 DEF DueInTime
    <2>1. pc \in {"sleep", "callback"}
      BY <1>0, <1>6
    <2>2. PongDue
      BY <1>0 DEF PongDue, InHand
    <2>3. since + n + Work <= Backlog + Turn
      BY <2>2 DEF DeadPre, DueInTime
    <2>4. Work' = Work - 1 /\ Work \in Nat /\ Backlog \in Nat /\ Turn \in Nat
      BY <1>0, <2>1, WorkBounded, Answering, Delays DEF DeadPre
    <2> HIDE DEF n
    <2>5. (since + 1) + n + (Work - 1) <= Backlog + Turn
      BY <1>2, <2>3, <2>4
    <2> QED BY <1>0, <1>2, <2>4, <2>5
  <1> QED BY <1>9, <1>10

\* The link has just failed.
LEMMA DeadFresh ==
  ASSUME Typed, Typed', Bounded, Bounded', since' = 0, Load(Count(wire')) <= Backlog'
  PROVE  DeadInTime' /\ since' + Load(Count(wire')) + Work' <= Backlog' + Turn
  <1> DEFINE n == Load(Count(wire'))
             b == Backlog'
             c == Cut'
             w == Work'
             v == Delay'
             q == pingTimer'
             m == Limit'
             k == env'.keepAlive
             p == Spare'
             x == PacketTimeout + MaxPause
             r == Turn + YieldTime
             i == isPingOutstanding'
  <1>1. /\ n \in Nat /\ b \in Nat /\ n <= b /\ c \in Nat /\ c <= x /\ w \in Nat /\ w <= Turn /\ v \in Nat /\ v <= r
        /\ q \in Nat /\ q <= k /\ m \in Nat /\ k \in Nat /\ p \in Nat /\ i \in BOOLEAN
    BY DeadNumbers, WorkBounded, LimitNext
  <1>2. Turn \in Nat /\ YieldTime \in Nat /\ r \in Nat /\ x \in Nat /\ PacketTimeout \in Nat /\ MaxPause \in Nat
    BY Delays
  <1>3. p = b + Turn + PacketTimeout + MaxPause /\ (i => m = k + k + p + Turn + YieldTime) /\ (~i => m = k + p)
    BY LimitNext
  <1>4. p = b + Turn + x
    <2> HIDE DEF b, p
    <2> QED BY <1>1, <1>2, <1>3
  <1>5. Left' = n + c
    BY DeadNumbers
  <1>6. DeadInTime' <=> Within(0 + (n + c), q, v, m, r)
    BY <1>5 DEF DeadInTime
  <1> HIDE DEF n, b, c, w, v, q, m, k, p, x, r, i
  <1>7. k + p <= m
    BY <1>1, <1>2, <1>3
  <1>8. Within(0 + (n + c), q, v, m, r)
    BY <1>1, <1>2, <1>4, <1>7 DEF Within
  <1>9. 0 + n + w <= b + Turn
    BY <1>1, <1>2
  <1> QED BY <1>6, <1>8, <1>9 DEF n, b, w

LEMMA DeadFails ==
  ASSUME Typed, Typed', Bounded, Bounded', PongInv, LinkFails, Sound'
  PROVE  DueInTime' /\ DeadInTime'
  <1>1. /\ Up /\ since' = 0 /\ wire' = SubSeq(wire, 1, arrived)
        /\ UNCHANGED <<env, connected, slipped, pc, rc, packetTimer>>
    BY DEF LinkFails, Up, readVars
  <1>2. wire \in Seq(Byte) /\ arrived \in 0..Len(wire) /\ env.packets \in Nat /\ Count(wire') \in Nat
    BY Timers, CountNow
  <1>3. Backlog' = Load(env.packets + 1)
    BY <1>1, LimitNext
  <1>4. CASE Sound
    <2>1. Count(wire) <= env.packets + 1 /\ Count(wire) \in Nat
      BY <1>1, <1>2, <1>4, MarksFinite DEF PongInv, PongOnce
    <2>2. Count(wire') <= Count(wire)
      BY <1>1, <1>2, MarksCut
    <2>3. Count(wire') <= env.packets + 1 /\ env.packets + 1 \in Nat
      BY <1>2, <2>1, <2>2
    <2>4. Load(Count(wire')) <= Backlog'
      BY <1>2, <1>3, <2>3, Loads
    <2> QED BY <1>1, <2>4, DeadFresh DEF DueInTime
  <1>5. CASE ~Sound
    <2>1. Doomed /\ ~Doomed'
      BY <1>1, <1>5 DEF Sound, Steady
    <2>2. wire' = <<>> /\ pc' = "cycled"
      BY <1>1, <2>1 DEF Doomed
    <2>3. Load(Count(wire')) <= Backlog'
      <3>1. Load(Count(wire')) = 0 /\ Backlog' \in Nat
        BY <2>2, NoMarks, Loads, LimitNext
      <3> QED BY <3>1
    <2>4. ~PongDue'
      BY <2>2, NoMarks DEF PongDue, InHand
    <2> QED BY <1>1, <2>3, <2>4, DeadFresh DEF DueInTime
  <1> QED BY <1>4, <1>5

LEMMA NextDead ==
  ASSUME Typed, Typed', FrameInv, Bounded, Bounded', PongInv, DeadInv, [Next]_vars
  PROVE  DeadInv'
  <1> SUFFICES ASSUME Sound', ~Up' PROVE DueInTime' /\ DeadInTime'
    BY DEF DeadInv
  <1>1. CASE Reconnect
    BY <1>1 DEF Reconnect, Reconnected, Up
  <1>2. CASE LinkFails
    BY <1>2, DeadFails
  <1>3. CASE Sound /\ link' = link
    <2>1. DeadPre /\ connected'
      BY <1>3 DEF DeadPre, DeadInv, Up, Sound, Steady
    <2>2. CASE ReaderStep /\ UNCHANGED <<loopVars, env>>
      BY <2>1, <2>2, DeadHeader, DeadByte, DeadEnd DEF ReaderStep
    <2>3. CASE DispatchPublish \/ CallbackReturns \/ DispatchOther
      BY <2>1, <2>3, DeadCycle, DeadHandled
    <2>4. CASE Yield \/ KeepAliveCheck \/ CycleFailed
      BY <2>1, <2>4, DeadLoop, DeadSent
    <2>5. CASE PeerSends \/ PeerAnswersPing
      BY <2>1, <2>5 DEF PeerSends, PeerAnswersPing, DeadPre, Up
    <2>6. CASE BytesArrive
      <3>1. arrived < Len(wire) /\ arrived = Len(wire) /\ Len(wire) \in Nat
        BY <2>1, <2>6, Timers DEF BytesArrive, DeadPre, FrameInv, LostIsGone
      <3> QED BY <3>1
    <2>7. CASE Tick
      BY <2>1, <2>7, DeadTick
    <2>8. CASE UNCHANGED vars
      <3>1. /\ UNCHANGED <<pc, rc, header, pause, yieldTimer, packetTimer, wire, env, since, pingTimer>>
            /\ UNCHANGED isPingOutstanding
        BY <2>8 DEF vars, readVars, peerVars, loopVars
      <3> QED BY <2>1, <3>1 DEF DeadPre, DueInTime, DeadInTime, PongDue, InHand, Work, Left, Cut, Delay, Limit,
                                Spare, Backlog
    <2> QED BY <1>1, <1>2, <2>2, <2>3, <2>4, <2>5, <2>6, <2>7, <2>8 DEF Next
  <1> QED BY <1>1, <1>2, <1>3, SoundSteps

\* The bound holds as well while a yield with half a packet has to return.
DeadDoomed == Steady /\ Doomed => DeadPeerDetected

LEMMA DeadNow ==
  ASSUME Typed, Bounded, DeadInv, DeadDoomed
  PROVE  DeadPeerDetected
  <1> SUFFICES ASSUME Sound, ~Up
               PROVE  since <= 2 * (env.keepAlive + Round) + Backlog + CallbackTime + 2 * MaxPause
    BY DEF DeadPeerDetected, DeadDoomed, Sound, Steady, Up
  <1> DEFINE k == env.keepAlive
             l == Left
             u == Delay
             m == Limit
             p == Spare
             b == Backlog
             r == Turn + YieldTime
             c == Round
  <1>1. /\ k \in Nat /\ since \in Nat /\ pingTimer \in Nat /\ b \in Nat /\ p \in Nat /\ m \in Nat
        /\ isPingOutstanding \in BOOLEAN
        /\ p = b + Turn + PacketTimeout + MaxPause
        /\ isPingOutstanding => m = k + k + p + Turn + YieldTime
        /\ ~isPingOutstanding => m = k + p
    BY Timers, LimitTyped, Answering DEF Bounded, Typed, LoopTyped
  <1>2. /\ MaxPause \in Nat /\ CallbackTime \in Nat /\ PacketTimeout \in Nat /\ YieldTime \in Nat
        /\ Turn \in Nat /\ Turn = CallbackTime + MaxPause
        /\ c = YieldTime + MaxPause + CallbackTime + PacketTimeout /\ c \in Nat
    BY Delays DEF Round
  <1>3. u \in Nat /\ l \in Nat
    <2>1. Ranges
      BY RangesNow
    <2>2. Delay \in Nat /\ Cut \in Nat
      BY <2>1, DelayBounded
    <2>3. Load(Count(wire)) \in Nat
      BY Timers, MarksFinite, Loads
    <2> QED BY <2>2, <2>3 DEF Left
  <1>4. Within(since + l, pingTimer, u, m, r)
    BY DEF DeadInv, DeadInTime
  <1> HIDE DEF k, l, u, m, p, b, c
  <1>5. m <= k + k + p + Turn + YieldTime
    BY <1>1, <1>2
  <1>6. since <= m + r
    BY <1>1, <1>2, <1>3, <1>4 DEF Within
  <1>7. since <= 2 * (k + c) + b + CallbackTime + 2 * MaxPause
    BY <1>1, <1>2, <1>5, <1>6
  <1> QED BY <1>7 DEF k, b, c

LEMMA NextDeadDoomed ==
  ASSUME Typed, DeadPeerDetected, [Next]_vars
  PROVE  DeadDoomed'
  <1> SUFFICES ASSUME Steady', Doomed', ~Up'
               PROVE  since' <= 2 * (env'.keepAlive + Round) + Backlog' + CallbackTime + 2 * MaxPause
    BY DEF DeadDoomed, DeadPeerDetected, Up
  <1> DEFINE d == 2 * (env.keepAlive + Round) + Backlog + CallbackTime + 2 * MaxPause
  <1>1. env' = env /\ Steady /\ ((since' = since /\ link' = link) \/ (LinkFails /\ since' = 0))
    BY DoomedSteps
  <1>2. Backlog' = Backlog
    BY <1>1 DEF Backlog
  <1>3. d \in Nat
    <2>1. env.keepAlive \in Nat /\ Round \in Nat /\ Backlog \in Nat /\ CallbackTime \in Nat /\ MaxPause \in Nat
      BY Timers, Answering, Delays DEF Round
    <2> QED BY <2>1
  <1>4. since' = since /\ link' = link => since <= d
    BY <1>1 DEF DeadPeerDetected, Steady, Up
  <1>5. since' <= d
    <2> HIDE DEF d
    <2> QED BY <1>1, <1>3, <1>4
  <1> QED BY <1>1, <1>2, <1>5

\* All that is known of the loop and the time.
TimeInv ==
  /\ Bounded /\ PongInv /\ LivePeerKept
  /\ HeardInv /\ HeardDoomed
  /\ DeadInv /\ DeadDoomed

LEMMA InitTime == Init => TimeInv
  <1> SUFFICES ASSUME Init PROVE TimeInv
    OBVIOUS
  <1>1. connected /\ pc = "sleep" /\ Up
    BY DEF Init, Up
  <1>2. Bounded /\ PongInv /\ HeardInv
    BY InitBounded, InitPong, InitHeard
  <1>3. LivePeerKept
    BY <1>1 DEF LivePeerKept
  <1>4. HeardDoomed /\ DeadDoomed /\ DeadInv
    BY <1>1 DEF HeardDoomed, DeadDoomed, DeadInv, Doomed
  <1> QED BY <1>2, <1>3, <1>4 DEF TimeInv

LEMMA NextTime ==
  ASSUME Typed, Typed', FrameInv, FrameInv', TimeInv, [Next]_vars
  PROVE  TimeInv'
  <1>1. Bounded'
    BY NextBounded DEF TimeInv
  <1>2. PongInv'
    BY <1>1, NextPong DEF TimeInv
  <1>3. LivePeerKept'
    BY NextLive DEF TimeInv
  <1>4. HeardInv' /\ HeardDoomed'
    BY <1>1, NextHeard, HeardNow, NextHeardDoomed DEF TimeInv
  <1>5. DeadInv' /\ DeadDoomed'
    BY <1>1, NextDead, DeadNow, NextDeadDoomed DEF TimeInv
  <1> QED BY <1>1, <1>2, <1>3, <1>4, <1>5 DEF TimeInv

LEMMA TimesKept == Spec => [](Typed /\ TimeInv)
  <1>1. Init => TimeInv
    BY InitTime
  <1>2. (Typed /\ FrameInv) /\ (Typed /\ FrameInv)' /\ TimeInv /\ [Next]_vars => TimeInv'
    BY NextTime
  <1> QED BY <1>1, <1>2, FramesKept, PTL DEF Spec

\* Whatever arrives in the meantime, keep_alive notices a peer that has gone:
\* the yields, callbacks and packets read between two looks at the ping timer
\* delay it by no more than the bound.
THEOREM DeadPeerNoticed == Spec => []DeadPeerDetected
  <1>1. Typed /\ TimeInv => DeadPeerDetected
    BY DeadNow DEF TimeInv
  <1> QED BY <1>1, TimesKept, PTL

\* keep_alive does not give up a peer that answers every ping in time, when the
\* interval leaves time for the packets before the answer to be handled.
THEOREM LivePeerSound == Spec => []LivePeerKept
  <1>1. Typed /\ TimeInv => LivePeerKept
    BY DEF TimeInv
  <1> QED BY <1>1, TimesKept, PTL

\* The pings of keep_alive are sent often enough: a peer whose packets are all
\* handled hears of the client within one and a half intervals, the limit of
\* the broker, if half an interval leaves time for the answer to a ping and a
\* round of the loop.
THEOREM HeardSound == Spec => []HeardInTime
  <1>1. Typed /\ TimeInv => HeardInTime
    <2> SUFFICES ASSUME Typed, TimeInv, Handled, env.keepAlive >= 2 * (AnswerTime + Round),
                        env.keepAlive > 0, connected, link = "up", ~slipped
                 PROVE  2 * since <= 3 * env.keepAlive
      BY DEF HeardInTime
    <2> DEFINE k == env.keepAlive
               a == AnswerTime
               r == Round
    <2>1. k \in Nat /\ a \in Nat /\ since \in Nat /\ r \in Nat
      BY Timers, Answering, Delays DEF TimeInv, Bounded, Round
    <2>2. since <= k + a + r
      BY HeardNow DEF TimeInv, HeardBounded
    <2> HIDE DEF k, a, r
    <2>3. k >= 2 * (a + r) => 2 * since <= 3 * k
      BY <2>1, <2>2
    <2> QED BY <2>3 DEF k, a, r
  <1> QED BY <1>1, TimesKept, PTL

=============================================================================
