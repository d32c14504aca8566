--------------------------- MODULE Framing_proofs ---------------------------
(***************************************************************************)
(* Proofs about Framing, for bytes of any size and payloads of any length. *)
(***************************************************************************)
EXTENDS Framing, SequenceTheorems, WellFoundedInduction, TLAPS

-----------------------------------------------------------------------------
(***************************************************************************)
(* The two bytes of a length.                                              *)
(***************************************************************************)
LEMMA ByteFact == Byte \in Nat /\ Byte > 0 /\ Half \in Nat
BY HalfAssumption DEF Byte

LEMMA Split ==
  ASSUME NEW n \in Nat, NEW m \in Nat, m > 0
  PROVE  /\ n \div m \in Nat
         /\ n % m \in 0 .. m - 1
         /\ (n \div m) * m + (n % m) = n
<1>1. n % m \in 0 .. m - 1
  BY SMT
<1>2. n \div m \in Int
  BY SMT
<1>3. (n \div m) * m + (n % m) = n
  BY Z3
<1>4. n \div m >= 0
  <2> DEFINE q == n \div m
             r == n % m
  <2>1. q \in Int /\ r \in 0 .. m - 1 /\ q * m + r = n
    BY <1>1, <1>2, <1>3
  <2> HIDE DEF q, r
  <2>2. SUFFICES ASSUME q <= -1 PROVE FALSE
    BY <2>1 DEF q
  <2>3. q * m <= -m
    BY <2>1, <2>2
  <2> QED
    BY <2>1, <2>3
<1> QED
  BY <1>1, <1>2, <1>3, <1>4

LEMMA SplitBelow ==
  ASSUME NEW n \in Nat, NEW m \in Nat, m > 0, n < m * m
  PROVE  n \div m \in 0 .. m - 1
<1>1. n \div m \in Nat /\ n % m \in 0 .. m - 1 /\ (n \div m) * m + (n % m) = n
  BY Split
<1>2. SUFFICES ASSUME n \div m >= m PROVE FALSE
  BY <1>1
<1> DEFINE q == n \div m
<1>3. q \in Nat /\ q >= m
  BY <1>1, <1>2
<1> HIDE DEF q
<1>4. q * m >= m * m
  BY <1>3
<1> QED
  BY <1>1, <1>4 DEF q

-----------------------------------------------------------------------------
(***************************************************************************)
(* Induction, with a set for the predicate: a set of numbers has a least   *)
(* one.                                                                    *)
(***************************************************************************)
LEMMA Least ==
  ASSUME NEW T, T \subseteq Nat, T # {}
  PROVE  \E x \in T : \A y \in T : x <= y
<1> DEFINE R == OpToRel(<, Nat)
<1>1. IsWellFoundedOn(R, Nat)
  BY NatLessThanWellFounded
<1>2. \A x, y \in Nat : x < y => <<x, y>> \in R
  BY DEF OpToRel
<1> HIDE DEF R
<1>3. PICK x \in T : \A y \in T : ~(<<y, x>> \in R)
  BY <1>1, WFMin
<1>4. \A y \in T : ~(y < x)
  BY <1>2, <1>3
<1>5. \A y \in T : x <= y
  BY <1>4
<1> QED
  BY <1>5

LEMMA Induct ==
  ASSUME NEW S, 0 \in S, \A n \in Nat : n \in S => n + 1 \in S
  PROVE  \A n \in Nat : n \in S
<1> SUFFICES ASSUME Nat \ S # {} PROVE FALSE
  OBVIOUS
<1>1. PICK x \in Nat \ S : \A y \in Nat \ S : x <= y
  BY Least
<1>2. x - 1 \in Nat /\ x - 1 \in S
  BY <1>1
<1> QED
  BY <1>1, <1>2

-----------------------------------------------------------------------------
(***************************************************************************)
(* The checksum.                                                           *)
(***************************************************************************)
\* The sum of two numbers below m, as the lowest digit keeps it.
LEMMA AddMod ==
  ASSUME NEW m \in Nat, m > 0, NEW a \in 0 .. m - 1, NEW b \in 0 .. m - 1
  PROVE  (a + b) % m = IF a + b < m THEN a + b ELSE a + b - m
<1> DEFINE q == (a + b) \div m
           r == (a + b) % m
<1>1. q \in Nat /\ r \in 0 .. m - 1 /\ q * m + r = a + b
  BY Split
<1> HIDE DEF q, r
<1>2. q < 2
  <2> SUFFICES ASSUME q >= 2 PROVE FALSE
    BY <1>1
  <2>1. q * m >= 2 * m
    BY <1>1
  <2> QED
    BY <1>1, <2>1
<1>3. q = 0 \/ q = 1
  BY <1>1, <1>2
<1>4. r = IF a + b < m THEN a + b ELSE a + b - m
  BY <1>1, <1>3
<1> QED
  BY <1>4 DEF r

\* The sums of the first bytes of s, up to the n-th.
Totals(s, n, t) ==
  /\ t \in [0 .. n -> Bytes]
  /\ t[0] = 0
  /\ \A k \in 1 .. n : t[k] = (t[k - 1] + s[k]) % Byte

\* A sum goes on with the next byte.
LEMMA TotalsGrow ==
  ASSUME NEW n \in Nat, NEW s, NEW t, Totals(s, n, t), s[n + 1] \in Bytes
  PROVE  Totals(s, n + 1,
           [k \in 0 .. n + 1 |->
              IF k <= n THEN t[k] ELSE (t[n] + s[n + 1]) % Byte])
<1> DEFINE v == (t[n] + s[n + 1]) % Byte
           u == [k \in 0 .. n + 1 |-> IF k <= n THEN t[k] ELSE v]
<1>1. t \in [0 .. n -> Bytes] /\ t[0] = 0
  BY DEF Totals
<1>2. \A k \in 1 .. n : t[k] = (t[k - 1] + s[k]) % Byte
  BY DEF Totals
<1>3. v \in Bytes
  <2>1. t[n] + s[n + 1] \in Nat
    BY <1>1 DEF Bytes
  <2> QED
    BY <2>1, ByteFact, Split DEF Bytes
<1>4. u[n + 1] = (u[(n + 1) - 1] + s[n + 1]) % Byte
  <2>1. u[n + 1] = v /\ u[n] = t[n] /\ (n + 1) - 1 = n
    OBVIOUS
  <2> HIDE DEF u
  <2> QED
    BY <2>1
<1> HIDE DEF v
<1>5. u \in [0 .. n + 1 -> Bytes] /\ u[0] = 0
  BY <1>1, <1>3
<1>6. \A k \in 1 .. n : u[k] = t[k] /\ u[k - 1] = t[k - 1]
  OBVIOUS
<1> HIDE DEF u
<1>7. \A k \in 1 .. n : u[k] = (u[k - 1] + s[k]) % Byte
  BY <1>2, <1>6
<1>8. \A k \in 1 .. n + 1 : k \in 1 .. n \/ k = n + 1
  OBVIOUS
<1>9. Totals(s, n + 1, u)
  BY <1>4, <1>5, <1>7, <1>8 DEF Totals
<1> QED
  BY <1>9 DEF u, v

LEMMA TotalsExist ==
  ASSUME NEW s \in Seq(Bytes)
  PROVE  \E t : Totals(s, Len(s), t)
<1> DEFINE S == {n \in Nat : n <= Len(s) => \E t : Totals(s, n, t)}
<1>1. 0 \in S
  <2>1. Totals(s, 0, [k \in 0 .. 0 |-> 0])
    BY ByteFact DEF Totals, Bytes
  <2> QED
    BY <2>1
<1>2. ASSUME NEW n \in Nat, n \in S PROVE n + 1 \in S
  <2> SUFFICES ASSUME n + 1 <= Len(s) PROVE \E t : Totals(s, n + 1, t)
    OBVIOUS
  <2>1. n <= Len(s) /\ n + 1 \in 1 .. Len(s)
    BY LenProperties
  <2>2. PICK t : Totals(s, n, t)
    BY <1>2, <2>1
  <2>3. s[n + 1] \in Bytes
    BY <2>1, ElementOfSeq
  <2> QED
    BY <2>2, <2>3, TotalsGrow
<1>3. \A n \in Nat : n \in S
  <2> HIDE DEF S
  <2> QED
    BY <1>1, <1>2, Induct
<1> QED
  BY <1>3, LenProperties

\* Sum is the last of them.
LEMMA SumTotal ==
  ASSUME NEW s \in Seq(Bytes), NEW t, Totals(s, Len(s), t)
  PROVE  Sum(s) = t[Len(s)]
<1> DEFINE total[k \in 0 .. Len(s)] ==
             IF k = 0 THEN 0 ELSE (total[k - 1] + s[k]) % Byte
<1>1. Sum(s) = total[Len(s)]
  BY DEF Sum
<1>2. t = [k \in 0 .. Len(s) |->
             IF k = 0 THEN 0 ELSE (t[k - 1] + s[k]) % Byte]
  <2>1. \A k \in 0 .. Len(s) :
          t[k] = IF k = 0 THEN 0 ELSE (t[k - 1] + s[k]) % Byte
    BY LenProperties DEF Totals
  <2> QED
    BY <2>1 DEF Totals
<1>3. total = [k \in 0 .. Len(s) |->
                 IF k = 0 THEN 0 ELSE (total[k - 1] + s[k]) % Byte]
  BY <1>2 DEF total
<1> HIDE DEF total
<1> DEFINE S == {n \in Nat : n <= Len(s) => total[n] = t[n]}
<1>4. 0 \in S
  BY <1>3, LenProperties DEF Totals
<1>5. ASSUME NEW n \in Nat, n \in S PROVE n + 1 \in S
  <2> SUFFICES ASSUME n + 1 <= Len(s) PROVE total[n + 1] = t[n + 1]
    OBVIOUS
  <2>1. n <= Len(s) /\ n + 1 \in 1 .. Len(s) /\ n + 1 \in 0 .. Len(s)
    BY LenProperties
  <2>2. total[n] = t[n] /\ (n + 1) - 1 = n /\ n + 1 # 0
    BY <1>5, <2>1
  <2>3. t[n + 1] = (t[(n + 1) - 1] + s[n + 1]) % Byte
    BY <2>1 DEF Totals
  <2>4. total[n + 1] = (total[(n + 1) - 1] + s[n + 1]) % Byte
    BY <1>3, <2>1, <2>2
  <2> QED
    BY <2>2, <2>3, <2>4
<1>6. \A n \in Nat : n \in S
  <2> HIDE DEF S
  <2> QED
    BY <1>4, <1>5, Induct
<1> QED
  BY <1>1, <1>6, LenProperties

LEMMA SumType ==
  ASSUME NEW s \in Seq(Bytes)
  PROVE  Sum(s) \in Bytes
<1>1. PICK t : Totals(s, Len(s), t)
  BY TotalsExist
<1>2. Sum(s) = t[Len(s)]
  BY <1>1, SumTotal
<1>3. t \in [0 .. Len(s) -> Bytes] /\ Len(s) \in 0 .. Len(s)
  BY <1>1, LenProperties DEF Totals
<1> QED
  BY <1>2, <1>3

-----------------------------------------------------------------------------
(***************************************************************************)
(* Where frames begin and end.                                             *)
(***************************************************************************)
LEMMA PayloadFacts ==
  ASSUME NEW p \in Payloads
  PROVE  /\ p \in Seq(Bytes) /\ Len(p) \in Nat
         /\ Len(p) \div Byte \in Bytes /\ Len(p) % Byte \in Bytes
         /\ (Len(p) \div Byte) * Byte + (Len(p) % Byte) = Len(p)
         /\ Byte - 1 - Sum(p) \in Bytes
<1>1. p \in Seq(Bytes) /\ Len(p) \in Nat /\ Len(p) < Byte * Byte
  BY BytesAssumption
<1>2. Sum(p) \in Bytes
  BY <1>1, SumType
<1>3. Byte - 1 - Sum(p) \in Bytes
  BY <1>2, ByteFact DEF Bytes
<1> HIDE DEF Sum
<1>4. Len(p) \div Byte \in 0 .. Byte - 1
  BY <1>1, ByteFact, SplitBelow
<1>5. /\ Len(p) % Byte \in 0 .. Byte - 1
      /\ (Len(p) \div Byte) * Byte + (Len(p) % Byte) = Len(p)
  BY <1>1, ByteFact, Split
<1> QED
  BY <1>1, <1>3, <1>4, <1>5 DEF Bytes

LEMMA FrameShape ==
  ASSUME NEW p \in Payloads
  PROVE  /\ Frame(p) \in Seq(Bytes)
         /\ Len(Frame(p)) = Len(p) + 4
         /\ Frame(p)[1] = Delimiter
         /\ Frame(p)[2] = Len(p) \div Byte
         /\ Frame(p)[3] = Len(p) % Byte
         /\ \A i \in 1 .. Len(p) : Frame(p)[i + 3] = p[i]
         /\ Frame(p)[Len(p) + 4] = Byte - 1 - Sum(p)
<1> DEFINE h == <<Delimiter, Len(p) \div Byte, Len(p) % Byte>>
           c == <<Byte - 1 - Sum(p)>>
<1>1. /\ h \in Seq(Bytes) /\ Len(h) = 3
      /\ h[1] = Delimiter /\ h[2] = Len(p) \div Byte /\ h[3] = Len(p) % Byte
  BY PayloadFacts, BytesAssumption
<1>2. c \in Seq(Bytes) /\ Len(c) = 1 /\ c[1] = Byte - 1 - Sum(p)
  BY PayloadFacts
<1>3. p \in Seq(Bytes) /\ Len(p) \in Nat
  BY PayloadFacts
<1>4. Frame(p) = (h \o p) \o c
  BY DEF Frame
<1> HIDE DEF h, c
<1>5. /\ h \o p \in Seq(Bytes) /\ Len(h \o p) = 3 + Len(p)
      /\ \A i \in 1 .. 3 + Len(p) :
           (h \o p)[i] = IF i <= 3 THEN h[i] ELSE p[i - 3]
  <2>1. h \in Seq(Bytes) /\ p \in Seq(Bytes)
    BY <1>1, <1>3
  <2>2. /\ h \o p \in Seq(Bytes) /\ Len(h \o p) = Len(h) + Len(p)
        /\ \A i \in 1 .. Len(h) + Len(p) :
             (h \o p)[i] = IF i <= Len(h) THEN h[i] ELSE p[i - Len(h)]
    BY <2>1, ConcatProperties
  <2> QED
    BY <1>1, <2>2
<1>6. /\ Frame(p) \in Seq(Bytes) /\ Len(Frame(p)) = 3 + Len(p) + 1
      /\ \A i \in 1 .. 3 + Len(p) : Frame(p)[i] = (h \o p)[i]
      /\ Frame(p)[3 + Len(p) + 1] = c[1]
  <2> DEFINE a == h \o p
  <2>1. a \in Seq(Bytes) /\ c \in Seq(Bytes) /\ Frame(p) = a \o c
    BY <1>2, <1>4, <1>5
  <2>2. Len(a) = 3 + Len(p)
    BY <1>5
  <2> HIDE DEF a
  <2>3. /\ a \o c \in Seq(Bytes) /\ Len(a \o c) = Len(a) + Len(c)
        /\ \A i \in 1 .. Len(a) + Len(c) :
             (a \o c)[i] = IF i <= Len(a) THEN a[i] ELSE c[i - Len(a)]
    BY <2>1, ConcatProperties
  <2>4. \A i \in 1 .. 3 + Len(p) : Frame(p)[i] = a[i]
    BY <1>2, <1>3, <2>1, <2>2, <2>3
  <2>5. Frame(p)[3 + Len(p) + 1] = c[1]
    BY <1>2, <1>3, <2>1, <2>2, <2>3
  <2> QED
    BY <1>2, <2>1, <2>2, <2>3, <2>4, <2>5 DEF a
<1>7. \A i \in 1 .. 3 + Len(p) :
        Frame(p)[i] = IF i <= 3 THEN h[i] ELSE p[i - 3]
  BY <1>5, <1>6
<1>8. 1 \in 1 .. 3 + Len(p) /\ 2 \in 1 .. 3 + Len(p) /\ 3 \in 1 .. 3 + Len(p)
  BY <1>3
<1>9. \A i \in 1 .. Len(p) : Frame(p)[i + 3] = p[i]
  <2> TAKE i \in 1 .. Len(p)
  <2>1. i + 3 \in 1 .. 3 + Len(p) /\ ~(i + 3 <= 3) /\ (i + 3) - 3 = i
    BY <1>3
  <2> QED
    BY <1>7, <2>1
<1>10. Frame(p)[Len(p) + 4] = Byte - 1 - Sum(p)
  BY <1>2, <1>3, <1>6
<1> QED
  BY <1>1, <1>3, <1>6, <1>7, <1>8, <1>9, <1>10

\* From: the bytes after the first n.
LEMMA FromConcat ==
  ASSUME NEW s \in Seq(Bytes), NEW t \in Seq(Bytes)
  PROVE  From(s \o t, Len(s)) = t
<1>1. s \o t \in Seq(Bytes) /\ Len(s \o t) = Len(s) + Len(t)
  BY ConcatProperties
<1>2. CASE t = <<>>
  <2>1. Len(t) = 0 /\ Len(s) \in Nat
    BY <1>2, EmptySeq, LenProperties
  <2>2. /\ Len(s) + 1 \in Int /\ Len(s \o t) \in Int
        /\ Len(s \o t) < Len(s) + 1
    BY <1>1, <2>1
  <2>3. SubSeq(s \o t, Len(s) + 1, Len(s \o t)) = <<>>
    BY <2>2, SubSeqEmpty
  <2> QED
    BY <1>2, <2>3 DEF From
<1>3. CASE t # <<>>
  <2>1. /\ Len(s) \in Nat /\ Len(t) \in Nat /\ Len(t) > 0
    BY <1>3
  <2>2. /\ Len(s) + 1 \in Len(s) + 1 .. Len(s) + Len(t)
        /\ Len(s) + Len(t) \in Len(s) + 1 .. Len(s) + Len(t)
    BY <2>1
  <2>3. SubSeq(s \o t, Len(s) + 1, Len(s) + Len(t))
          = SubSeq(t, (Len(s) + 1) - Len(s), (Len(s) + Len(t)) - Len(s))
    BY <2>2, SubSeqOfConcat2
  <2>4. (Len(s) + 1) - Len(s) = 1 /\ (Len(s) + Len(t)) - Len(s) = Len(t)
    BY <2>1
  <2> QED
    BY <1>1, <2>3, <2>4, SubSeqFull DEF From
<1> QED
  BY <1>2, <1>3

\* Bytes with the delimiter and the length of a frame of p, and as long.
Shaped(f, p) ==
  /\ f \in Seq(Bytes) /\ Len(f) = Len(p) + 4
  /\ f[1] = Delimiter
  /\ f[2] = Len(p) \div Byte /\ f[3] = Len(p) % Byte

\* What a buffer begins with when such bytes are at its head.
LEMMA ShapedHead ==
  ASSUME NEW p \in Payloads, NEW f, Shaped(f, p), NEW rest \in Seq(Bytes)
  PROVE  /\ f \o rest \in Seq(Bytes)
         /\ Len(f \o rest) = 4 + Len(p) + Len(rest)
         /\ \A i \in 1 .. 4 + Len(p) : (f \o rest)[i] = f[i]
         /\ Length(f \o rest) = Len(p)
         /\ Delimited(f \o rest)
<1> DEFINE b == f \o rest
<1>1. f \in Seq(Bytes) /\ Len(f) = Len(p) + 4 /\ Len(p) \in Nat
  BY PayloadFacts DEF Shaped
<1>2. /\ b \in Seq(Bytes) /\ Len(b) = Len(f) + Len(rest)
      /\ \A i \in 1 .. Len(f) + Len(rest) :
           b[i] = IF i <= Len(f) THEN f[i] ELSE rest[i - Len(f)]
  BY <1>1, ConcatProperties
<1>3. Len(rest) \in Nat
  BY LenProperties
<1> HIDE DEF b
<1>4. \A i \in 1 .. 4 + Len(p) : b[i] = f[i]
  BY <1>1, <1>2, <1>3
<1>5. 1 \in 1 .. 4 + Len(p) /\ 2 \in 1 .. 4 + Len(p) /\ 3 \in 1 .. 4 + Len(p)
  BY <1>1
<1>6. /\ b[1] = Delimiter
      /\ b[2] = Len(p) \div Byte /\ b[3] = Len(p) % Byte
  BY <1>4, <1>5 DEF Shaped
<1>7. Length(b) = Len(p)
  BY <1>6, PayloadFacts DEF Length
<1>8. b # <<>> /\ Head(b) = b[1]
  <2>1. Len(b) > 0
    BY <1>1, <1>2, <1>3
  <2> QED
    BY <2>1, <1>2, EmptySeq
<1> QED
  BY <1>1, <1>2, <1>3, <1>4, <1>6, <1>7, <1>8 DEF Delimited, b

LEMMA FrameShaped ==
  ASSUME NEW p \in Payloads
  PROVE  Shaped(Frame(p), p)
BY FrameShape DEF Shaped

LEMMA Headed ==
  ASSUME NEW p \in Payloads, NEW rest \in Seq(Bytes)
  PROVE  /\ Frame(p) \o rest \in Seq(Bytes)
         /\ Len(Frame(p) \o rest) = 4 + Len(p) + Len(rest)
         /\ \A i \in 1 .. 4 + Len(p) : (Frame(p) \o rest)[i] = Frame(p)[i]
         /\ Length(Frame(p) \o rest) = Len(p)
         /\ Delimited(Frame(p) \o rest)
BY FrameShaped, ShapedHead

\* XBeePacket.read finds the frame at the head of a buffer, gets its payload
\* and counts the bytes that XBeeGateway.readFrom takes away: what is left is
\* what came after the frame, whatever the payload holds.
THEOREM FrameFound ==
  ASSUME NEW p \in Payloads, NEW rest \in Seq(Bytes)
  PROVE  /\ Complete(Frame(p) \o rest)
         /\ Payload(Frame(p) \o rest) = p
         /\ From(Frame(p) \o rest, 4 + Length(Frame(p) \o rest)) = rest
<1> DEFINE f == Frame(p)
           b == f \o rest
<1>1. /\ p \in Seq(Bytes) /\ Len(p) \in Nat /\ Len(rest) \in Nat
      /\ f \in Seq(Bytes) /\ Len(f) = Len(p) + 4
      /\ \A i \in 1 .. Len(p) : f[i + 3] = p[i]
  BY PayloadFacts, FrameShape, LenProperties
<1>2. /\ b \in Seq(Bytes) /\ Len(b) = 4 + Len(p) + Len(rest)
      /\ \A i \in 1 .. 4 + Len(p) : b[i] = f[i]
      /\ Length(b) = Len(p) /\ Delimited(b)
  BY Headed
<1>3. Complete(b)
  BY <1>1, <1>2 DEF Complete
<1>4. Payload(b) = p
  <2> DEFINE q == SubSeq(b, 4, 3 + Len(p))
  <2>1. \A i \in 4 .. 3 + Len(p) : b[i] \in Bytes
    BY <1>1, <1>2
  <2>2. 4 \in Int /\ 3 + Len(p) \in Int
    BY <1>1
  <2>3. /\ q \in Seq(Bytes)
        /\ Len(q) = IF 4 <= 3 + Len(p) THEN (3 + Len(p)) - 4 + 1 ELSE 0
        /\ \A i \in 1 .. (3 + Len(p)) - 4 + 1 : q[i] = b[4 + i - 1]
    <3> HIDE DEF b
    <3> QED
      BY <2>1, <2>2, SubSeqProperties
  <2> HIDE DEF b, q, f
  <2>4. Len(q) = Len(p)
    BY <1>1, <2>3
  <2>5. \A i \in 1 .. Len(p) : q[i] = p[i]
    <3> TAKE i \in 1 .. Len(p)
    <3>1. /\ i \in 1 .. (3 + Len(p)) - 4 + 1 /\ 4 + i - 1 = i + 3
          /\ i + 3 \in 1 .. 4 + Len(p)
      BY <1>1
    <3>2. q[i] = b[i + 3]
      BY <2>3, <3>1
    <3> QED
      BY <1>1, <1>2, <3>1, <3>2
  <2>6. q = p
    BY <1>1, <2>3, <2>4, <2>5, SeqEqual
  <2> QED
    BY <1>2, <2>6 DEF Payload, q
<1>5. From(b, 4 + Length(b)) = rest
  <2>1. 4 + Length(b) = Len(f)
    BY <1>1, <1>2
  <2>2. From(b, Len(f)) = rest
    <3> HIDE DEF f
    <3> QED
      BY <1>1, FromConcat
  <2> QED
    BY <2>1, <2>2
<1> QED
  BY <1>3, <1>4, <1>5

\* Some of such bytes are no frame.
LEMMA ShapedWaits ==
  ASSUME NEW p \in Payloads, NEW f, Shaped(f, p), NEW n \in 1 .. Len(f) - 1
  PROVE  /\ Delimited(SubSeq(f, 1, n))
         /\ ~Complete(SubSeq(f, 1, n))
<1> DEFINE b == SubSeq(f, 1, n)
<1>1. /\ f \in Seq(Bytes) /\ Len(f) = Len(p) + 4 /\ Len(p) \in Nat
      /\ f[1] = Delimiter
      /\ f[2] = Len(p) \div Byte /\ f[3] = Len(p) % Byte
  BY PayloadFacts DEF Shaped
<1>2. n \in Nat /\ n >= 1 /\ n < Len(p) + 4
  BY <1>1
<1>3. \A i \in 1 .. n : f[i] \in Bytes
  BY <1>1, <1>2
<1>4. /\ b \in Seq(Bytes) /\ Len(b) = n
      /\ \A i \in 1 .. n : b[i] = f[i]
  <2>1. 1 \in Int /\ n \in Int
    BY <1>2
  <2>2. /\ b \in Seq(Bytes)
        /\ Len(b) = IF 1 <= n THEN n - 1 + 1 ELSE 0
        /\ \A i \in 1 .. n - 1 + 1 : b[i] = f[1 + i - 1]
    BY <1>3, <2>1, SubSeqProperties
  <2> HIDE DEF b
  <2> QED
    BY <1>2, <2>2
<1>5. b # <<>> /\ Head(b) = b[1] /\ b[1] = Delimiter
  <2> HIDE DEF b
  <2> QED
    BY <1>1, <1>2, <1>4
<1>6. Delimited(b)
  BY <1>5 DEF Delimited
<1>7. ASSUME n >= 3 PROVE Length(b) = Len(p)
  <2>1. b[2] = Len(p) \div Byte /\ b[3] = Len(p) % Byte
    BY <1>1, <1>2, <1>4, <1>7
  <2> QED
    BY <2>1, PayloadFacts DEF Length
<1>8. ~Complete(b)
  BY <1>1, <1>2, <1>4, <1>7 DEF Complete
<1> QED
  BY <1>6, <1>8

\* A part of a frame is no frame, whatever the payload holds: readFrom waits
\* for the rest of it.
THEOREM PartWaits ==
  ASSUME NEW p \in Payloads, NEW n \in 1 .. Len(Frame(p)) - 1
  PROVE  /\ Delimited(SubSeq(Frame(p), 1, n))
         /\ ~Complete(SubSeq(Frame(p), 1, n))
BY FrameShaped, ShapedWaits

\* The bytes that readFrom counts for a frame that is refused.
Counted(p) ==
  4 + Signed(Len(p) \div Byte) * Byte + Signed(Len(p) % Byte)

LEMMA CountedFacts ==
  ASSUME NEW p \in Payloads
  PROVE  /\ Counted(p) \in Int
         /\ Skippable(p) => Counted(p) = 4 + Len(p)
         /\ ~Skippable(p) => Counted(p) < 4 + Len(p)
<1> DEFINE hi == Len(p) \div Byte
           lo == Len(p) % Byte
<1>1. /\ hi \in Bytes /\ lo \in Bytes
      /\ hi * Byte + lo = Len(p) /\ Len(p) \in Nat
  BY PayloadFacts
<1>2. hi \in Nat /\ lo \in Nat /\ Half \in Nat /\ Byte \in Nat /\ Byte > 0
  BY <1>1, ByteFact DEF Bytes
<1>3. /\ Counted(p) = 4 + Signed(hi) * Byte + Signed(lo)
      /\ Skippable(p) <=> hi < Half /\ lo < Half
  BY DEF Counted, Skippable
<1> HIDE DEF hi, lo
<1>4. CASE hi < Half /\ lo < Half
  BY <1>1, <1>2, <1>3, <1>4 DEF Signed
<1>5. CASE ~(hi < Half)
  <2>1. Signed(hi) = hi - Byte
    BY <1>5 DEF Signed
  <2>2. Signed(lo) \in Int /\ Signed(lo) <= lo
    BY <1>2 DEF Signed
  <2>3. (hi - Byte) * Byte = hi * Byte - Byte * Byte /\ Byte * Byte > 0
    BY <1>2
  <2> QED
    BY <1>1, <1>2, <1>3, <1>5, <2>1, <2>2, <2>3
<1>6. CASE hi < Half /\ ~(lo < Half)
  BY <1>1, <1>2, <1>3, <1>6 DEF Signed
<1> QED
  BY <1>4, <1>5, <1>6

LEMMA DiscardedCounts ==
  ASSUME NEW p \in Payloads, NEW f, Shaped(f, p), NEW rest \in Seq(Bytes)
  PROVE  Discarded(f \o rest)
           = IF Counted(p) < 0 THEN <<>> ELSE From(f \o rest, Counted(p))
<1> DEFINE b == f \o rest
<1>1. 2 \in 1 .. 4 + Len(p) /\ 3 \in 1 .. 4 + Len(p)
  BY PayloadFacts
<1>2. b[2] = Len(p) \div Byte /\ b[3] = Len(p) % Byte
  BY <1>1, ShapedHead DEF Shaped
<1> QED
  BY <1>2 DEF Discarded, Counted

LEMMA ShapedSkipped ==
  ASSUME NEW p \in Payloads, NEW f, Shaped(f, p), NEW rest \in Seq(Bytes),
         Skippable(p)
  PROVE  Discarded(f \o rest) = rest
<1>1. Counted(p) = 4 + Len(p) /\ Counted(p) >= 0
  BY CountedFacts, PayloadFacts
<1>2. From(f \o rest, 4 + Len(p)) = rest
  <2>1. f \in Seq(Bytes) /\ Len(f) = 4 + Len(p)
    BY PayloadFacts DEF Shaped
  <2> QED
    BY <2>1, FromConcat
<1> QED
  BY <1>1, <1>2, DiscardedCounts

\* A frame that is refused takes its own bytes with it, if the two bytes of
\* its length are below 128.
THEOREM RefusedSkipped ==
  ASSUME NEW p \in Payloads, NEW rest \in Seq(Bytes), Skippable(p)
  PROVE  Discarded(Frame(p) \o rest) = rest
BY FrameShaped, ShapedSkipped

\* And only then: a longer one takes more or less than its own, or stays, and
\* what came after it is not what is read next.
THEOREM RefusedUnskipped ==
  ASSUME NEW p \in Payloads, NEW rest \in Seq(Bytes), rest # <<>>,
         ~Skippable(p)
  PROVE  Discarded(Frame(p) \o rest) # rest
<1> DEFINE b == Frame(p) \o rest
           n == Counted(p)
<1>1. n \in Int /\ n < 4 + Len(p)
  BY CountedFacts
<1>2. CASE n < 0
  BY <1>2, DiscardedCounts, FrameShaped
<1>3. CASE n >= 0
  <2>1. /\ b \in Seq(Bytes) /\ Len(b) = 4 + Len(p) + Len(rest)
        /\ Len(p) \in Nat /\ Len(rest) \in Nat
    BY Headed, PayloadFacts, LenProperties
  <2>2. Discarded(b) = SubSeq(b, n + 1, Len(b))
    BY <1>1, <1>3, DiscardedCounts, FrameShaped DEF From
  <2> HIDE DEF b, n
  <2>3. /\ n + 1 \in Int /\ Len(b) \in Int /\ n + 1 <= Len(b)
        /\ \A i \in n + 1 .. Len(b) : b[i] \in Bytes
    BY <1>1, <1>3, <2>1
  <2>4. Len(SubSeq(b, n + 1, Len(b)))
          = IF n + 1 <= Len(b) THEN Len(b) - (n + 1) + 1 ELSE 0
    BY <2>3, SubSeqProperties
  <2>5. Len(SubSeq(b, n + 1, Len(b))) > Len(rest)
    BY <1>1, <2>1, <2>3, <2>4
  <2>6. Len(Discarded(b)) > Len(rest)
    BY <2>2, <2>5
  <2>7. Discarded(b) # rest
    BY <2>1, <2>6
  <2> QED
    BY <2>7 DEF b
<1> QED
  BY <1>1, <1>2, <1>3

-----------------------------------------------------------------------------
(***************************************************************************)
(* What the checksum tells a reader.                                       *)
(***************************************************************************)
LEMMA SumAppend ==
  ASSUME NEW s \in Seq(Bytes), NEW c \in Bytes
  PROVE  Sum(Append(s, c)) = (Sum(s) + c) % Byte
<1> DEFINE n == Len(s)
           r == Append(s, c)
<1>1. /\ n \in Nat /\ r \in Seq(Bytes) /\ Len(r) = n + 1
      /\ r[n + 1] = c /\ \A k \in 1 .. n : r[k] = s[k]
  BY AppendProperties, LenProperties
<1>2. PICK t : Totals(s, n, t)
  BY TotalsExist
<1> HIDE DEF r, n
<1>3. Totals(r, n, t)
  BY <1>1, <1>2 DEF Totals
<1> DEFINE u == [k \in 0 .. n + 1 |->
                   IF k <= n THEN t[k] ELSE (t[n] + r[n + 1]) % Byte]
<1>4. Totals(r, n + 1, u)
  BY <1>1, <1>3, TotalsGrow
<1>5. u[n + 1] = (t[n] + c) % Byte
  BY <1>1
<1> HIDE DEF u
<1>6. Sum(r) = u[n + 1]
  BY <1>1, <1>4, SumTotal
<1>7. Sum(s) = t[n]
  BY <1>2, SumTotal DEF n
<1> QED
  BY <1>5, <1>6, <1>7 DEF r

LEMMA Cancel ==
  ASSUME NEW a \in Bytes, NEW b \in Bytes, NEW c \in Bytes,
         (a + c) % Byte = (b + c) % Byte
  PROVE  a = b
<1>1. /\ (a + c) % Byte = IF a + c < Byte THEN a + c ELSE a + c - Byte
      /\ (b + c) % Byte = IF b + c < Byte THEN b + c ELSE b + c - Byte
  BY AddMod, ByteFact DEF Bytes
<1> QED
  BY <1>1, ByteFact DEF Bytes

\* Two sequences that differ in one byte have different sums.
LEMMA SumDiffers ==
  ASSUME NEW s \in Seq(Bytes), NEW r \in Seq(Bytes), Len(r) = Len(s),
         NEW i \in 1 .. Len(s), s[i] # r[i],
         \A k \in 1 .. Len(s) : k # i => s[k] = r[k]
  PROVE  Sum(s) # Sum(r)
<1> DEFINE len == Len(s)
<1>1. PICK t : Totals(s, len, t)
  BY TotalsExist
<1>2. PICK u : Totals(r, len, u)
  BY TotalsExist
<1>3. Sum(s) = t[len] /\ Sum(r) = u[len]
  BY <1>1, <1>2, SumTotal
<1>4. len \in Nat /\ i \in Nat /\ i >= 1 /\ i <= len
  BY LenProperties
<1>5. \A k \in 1 .. len : s[k] \in Bytes /\ r[k] \in Bytes
  BY ElementOfSeq
<1> HIDE DEF len
<1>6. \A k \in 0 .. len : t[k] \in Bytes /\ u[k] \in Bytes
  BY <1>1, <1>2 DEF Totals
<1> DEFINE S == {n \in Nat : n <= len => (n < i <=> t[n] = u[n])}
<1>7. 0 \in S
  BY <1>1, <1>2, <1>4 DEF Totals
<1>8. ASSUME NEW n \in Nat, n \in S PROVE n + 1 \in S
  <2> SUFFICES ASSUME n + 1 <= len PROVE n + 1 < i <=> t[n + 1] = u[n + 1]
    OBVIOUS
  <2>1. /\ n + 1 \in 1 .. len /\ n \in 0 .. len /\ (n + 1) - 1 = n
        /\ (n < i <=> t[n] = u[n])
    BY <1>4, <1>8
  <2> DEFINE a == t[n]
             b == u[n]
             c == s[n + 1]
             d == r[n + 1]
  <2>2. a \in Bytes /\ b \in Bytes /\ c \in Bytes /\ d \in Bytes
    BY <1>5, <1>6, <2>1
  <2>3. t[n + 1] = (a + c) % Byte /\ u[n + 1] = (b + d) % Byte
    BY <1>1, <1>2, <2>1 DEF Totals
  <2>4. (c = d) <=> (n + 1 # i)
    BY <2>1 DEF len
  <2>5. a = b <=> n < i
    BY <2>1
  <2> HIDE DEF a, b, c, d
  <2>6. CASE n + 1 < i
    <3>1. a = b /\ c = d
      BY <1>4, <2>4, <2>5, <2>6
    <3> QED
      BY <2>3, <2>6, <3>1
  <2>7. CASE n + 1 = i
    <3>1. a = b /\ c # d
      BY <1>4, <2>4, <2>5, <2>7
    <3>2. c + a = a + c /\ d + a = a + d
      BY <2>2 DEF Bytes
    <3>3. (a + c) % Byte # (a + d) % Byte
      BY <2>2, <3>1, <3>2, Cancel
    <3> QED
      BY <1>4, <2>3, <2>7, <3>1, <3>3
  <2>8. CASE n + 1 > i
    <3>1. a # b /\ c = d
      BY <1>4, <2>4, <2>5, <2>8
    <3>2. (a + c) % Byte # (b + c) % Byte
      BY <2>2, <3>1, Cancel
    <3>3. ~(n + 1 < i)
      BY <1>4, <2>8
    <3> QED
      BY <2>3, <3>1, <3>2, <3>3
  <2> QED
    BY <1>4, <2>6, <2>7, <2>8
<1>9. \A n \in Nat : n \in S
  <2> HIDE DEF S
  <2> QED
    BY <1>7, <1>8, Induct
<1>10. len < i <=> t[len] = u[len]
  BY <1>4, <1>9
<1> QED
  BY <1>3, <1>4, <1>10

\* The bytes that are summed: the payload and the checksum.
Checked(b) == SubSeq(b, 4, 4 + Length(b))

LEMMA CheckedBytes ==
  ASSUME NEW p \in Payloads, NEW f, Shaped(f, p), NEW rest \in Seq(Bytes)
  PROVE  /\ Checked(f \o rest) \in Seq(Bytes)
         /\ Len(Checked(f \o rest)) = Len(p) + 1
         /\ \A k \in 1 .. Len(p) + 1 : Checked(f \o rest)[k] = f[k + 3]
<1> DEFINE b == f \o rest
           c == SubSeq(b, 4, 4 + Len(p))
<1>1. /\ b \in Seq(Bytes) /\ Len(b) = 4 + Len(p) + Len(rest)
      /\ \A k \in 1 .. 4 + Len(p) : b[k] = f[k]
      /\ Length(b) = Len(p)
      /\ Len(p) \in Nat /\ Len(rest) \in Nat
  BY ShapedHead, PayloadFacts, LenProperties
<1> HIDE DEF b
<1>2. /\ 4 \in Int /\ 4 + Len(p) \in Int
      /\ \A k \in 4 .. 4 + Len(p) : b[k] \in Bytes
  BY <1>1
<1>3. /\ c \in Seq(Bytes)
      /\ Len(c) = IF 4 <= 4 + Len(p) THEN (4 + Len(p)) - 4 + 1 ELSE 0
      /\ \A k \in 1 .. (4 + Len(p)) - 4 + 1 : c[k] = b[4 + k - 1]
  BY <1>2, SubSeqProperties
<1> HIDE DEF c
<1>4. c \in Seq(Bytes) /\ Len(c) = Len(p) + 1
  BY <1>1, <1>3
<1>5. ASSUME NEW k \in 1 .. Len(p) + 1 PROVE c[k] = f[k + 3]
  <2>1. /\ k \in 1 .. (4 + Len(p)) - 4 + 1 /\ 4 + k - 1 = k + 3
        /\ k + 3 \in 1 .. 4 + Len(p)
    BY <1>1
  <2> QED
    BY <1>1, <1>3, <2>1
<1> QED
  BY <1>1, <1>4, <1>5 DEF b, c, Checked

\* XBeePacket.read finds the checksum of a frame that came whole right.
THEOREM WholeSound ==
  ASSUME NEW p \in Payloads, NEW rest \in Seq(Bytes)
  PROVE  Sound(Frame(p) \o rest)
<1> DEFINE b == Frame(p) \o rest
           c == Checked(b)
           x == Byte - 1 - Sum(p)
<1>1. /\ c \in Seq(Bytes) /\ Len(c) = Len(p) + 1
      /\ \A k \in 1 .. Len(p) + 1 : c[k] = Frame(p)[k + 3]
  BY FrameShaped, CheckedBytes
<1>2. p \in Seq(Bytes) /\ Len(p) \in Nat /\ x \in Bytes
  BY PayloadFacts
<1>3. /\ \A k \in 1 .. Len(p) : Frame(p)[k + 3] = p[k]
      /\ Frame(p)[(Len(p) + 1) + 3] = x
  BY <1>2, FrameShape, (Len(p) + 1) + 3 = Len(p) + 4
<1> HIDE DEF c, x
<1>4. c = Append(p, x)
  <2>1. /\ Append(p, x) \in Seq(Bytes) /\ Len(Append(p, x)) = Len(p) + 1
        /\ Append(p, x)[Len(p) + 1] = x
        /\ \A k \in 1 .. Len(p) : Append(p, x)[k] = p[k]
    BY <1>2, AppendProperties
  <2>2. \A k \in 1 .. Len(p) + 1 : c[k] = Append(p, x)[k]
    <3> TAKE k \in 1 .. Len(p) + 1
    <3>1. k \in 1 .. Len(p) \/ k = Len(p) + 1
      BY <1>2
    <3> QED
      BY <1>1, <1>3, <2>1, <3>1
  <2> QED
    BY <1>1, <2>1, <2>2, SeqEqual
<1>5. Sum(c) = (Sum(p) + x) % Byte
  BY <1>2, <1>4, SumAppend
<1>6. Sum(p) \in Bytes /\ Sum(p) + x = Byte - 1
  BY <1>2, SumType, ByteFact DEF x, Bytes
<1> HIDE DEF Sum
<1>7. (Sum(p) + x) % Byte = Byte - 1
  <2>1. (Sum(p) + x) % Byte
          = IF Sum(p) + x < Byte THEN Sum(p) + x ELSE Sum(p) + x - Byte
    BY <1>2, <1>6, AddMod, ByteFact DEF Bytes
  <2> QED
    BY <1>6, <2>1, ByteFact
<1> QED
  BY <1>5, <1>7 DEF Sound, Checked, c

\* A frame with one byte of its payload, or its checksum, damaged is never
\* taken for a frame: the sum tells any change of one byte.
THEOREM DamageNoticed ==
  ASSUME NEW p \in Payloads, NEW rest \in Seq(Bytes),
         NEW i \in 4 .. Len(Frame(p)), NEW x \in Bytes, x # Frame(p)[i]
  PROVE  /\ Shaped([Frame(p) EXCEPT ![i] = x], p)
         /\ ~Readable([Frame(p) EXCEPT ![i] = x] \o rest)
<1> DEFINE f == Frame(p)
           d == [f EXCEPT ![i] = x]
           b == f \o rest
           e == d \o rest
           c == Checked(b)
           a == Checked(e)
<1>1. /\ f \in Seq(Bytes) /\ Len(f) = Len(p) + 4 /\ Len(p) \in Nat
      /\ Shaped(f, p)
  BY FrameShape, FrameShaped, PayloadFacts
<1>2. Sum(c) = Byte - 1
  BY WholeSound DEF Sound, Checked
<1> HIDE DEF f
<1>3. i \in 1 .. Len(f) /\ i \in Nat /\ i >= 4 /\ i <= Len(p) + 4
  BY <1>1 DEF f
<1>4. /\ d \in Seq(Bytes) /\ Len(d) = Len(f)
      /\ \A j \in 1 .. Len(f) : d[j] = IF j = i THEN x ELSE f[j]
  BY <1>1, <1>3, ExceptSeq, LenProperties
<1> HIDE DEF d
<1>5. Shaped(d, p)
  <2>1. 1 \in 1 .. Len(f) /\ 2 \in 1 .. Len(f) /\ 3 \in 1 .. Len(f)
    BY <1>1
  <2> QED
    BY <1>1, <1>3, <1>4, <2>1 DEF Shaped
<1>6. /\ c \in Seq(Bytes) /\ Len(c) = Len(p) + 1
      /\ \A k \in 1 .. Len(p) + 1 : c[k] = f[k + 3]
  BY <1>1, CheckedBytes
<1>7. /\ a \in Seq(Bytes) /\ Len(a) = Len(p) + 1
      /\ \A k \in 1 .. Len(p) + 1 : a[k] = d[k + 3]
  BY <1>5, CheckedBytes
<1> HIDE DEF a, c
<1>8. /\ i - 3 \in 1 .. Len(p) + 1 /\ (i - 3) + 3 = i
      /\ \A k \in 1 .. Len(p) + 1 : k + 3 \in 1 .. Len(f)
  BY <1>1, <1>3
<1>9. c[i - 3] # a[i - 3]
  BY <1>3, <1>4, <1>6, <1>7, <1>8 DEF f
<1>10. \A k \in 1 .. Len(p) + 1 : k # i - 3 => c[k] = a[k]
  <2> TAKE k \in 1 .. Len(p) + 1
  <2>1. k # i - 3 => k + 3 # i
    BY <1>3
  <2> QED
    BY <1>4, <1>6, <1>7, <1>8, <2>1
<1>11. Sum(c) # Sum(a)
  <2>1. /\ Len(a) = Len(c) /\ i - 3 \in 1 .. Len(c)
        /\ \A k \in 1 .. Len(c) : k # i - 3 => c[k] = a[k]
    BY <1>6, <1>7, <1>8, <1>10
  <2> HIDE DEF Sum
  <2> QED
    BY <1>6, <1>7, <1>9, <2>1, SumDiffers
<1>12. ~Sound(e)
  BY <1>2, <1>11 DEF Sound, Checked, a
<1> QED
  BY <1>5, <1>12 DEF Readable, d, f

-----------------------------------------------------------------------------
(***************************************************************************)
(* The types.  TypeOK is inductive.                                        *)
(***************************************************************************)
LEMMA FromType ==
  ASSUME NEW S, NEW b \in Seq(S), NEW n \in Nat
  PROVE  From(b, n) \in Seq(S)
<1>1. n + 1 \in Int /\ Len(b) \in Int /\ \A i \in n + 1 .. Len(b) : b[i] \in S
  BY LenProperties
<1> QED
  BY <1>1, SubSeqProperties DEF From

LEMMA PrefixType ==
  ASSUME NEW S, NEW b \in Seq(S), NEW n \in 0 .. Len(b)
  PROVE  SubSeq(b, 1, n) \in Seq(S)
<1>1. 1 \in Int /\ n \in Int /\ \A i \in 1 .. n : b[i] \in S
  BY LenProperties
<1> QED
  BY <1>1, SubSeqProperties

LEMMA SignedType ==
  ASSUME NEW x \in Bytes
  PROVE  Signed(x) \in Int
BY ByteFact DEF Bytes, Signed

LEMMA ConvertType ==
  ASSUME NEW g \in Gateways, NEW p \in Seq(Bytes)
  PROVE  Packets(g, p) \in Seq(Packet)
<1>1. SubSeq(p, 3, Len(p)) \in Seq(Bytes)
  BY FromType, 2 \in Nat, 2 + 1 = 3 DEF From
<1>2. Convert(g, p) \in Packet
  BY <1>1 DEF Convert, Packet, Sources
<1> QED
  BY <1>2 DEF Packets

LEMMA DiscardedType ==
  ASSUME NEW b \in Seq(Bytes), Complete(b)
  PROVE  Discarded(b) \in Seq(Bytes)
<1>1. b[2] \in Bytes /\ b[3] \in Bytes
  BY LenProperties DEF Complete
<1> DEFINE n == 4 + Signed(b[2]) * Byte + Signed(b[3])
<1>2. n \in Int
  BY <1>1, SignedType, ByteFact
<1>3. Discarded(b) = IF n < 0 THEN <<>> ELSE From(b, n)
  BY DEF Discarded
<1> HIDE DEF n
<1>4. CASE n < 0
  BY <1>3, <1>4
<1>5. CASE ~(n < 0)
  BY <1>2, <1>3, <1>5, FromType
<1> QED
  BY <1>4, <1>5

LEMMA CompleteType ==
  ASSUME NEW b \in Seq(Bytes), Complete(b)
  PROVE  /\ Length(b) \in Nat
         /\ Payload(b) \in Seq(Bytes)
         /\ From(b, 4 + Length(b)) \in Seq(Bytes)
<1>1. b[2] \in Bytes /\ b[3] \in Bytes /\ Len(b) \in Nat
  BY LenProperties DEF Complete
<1>2. Length(b) \in Nat /\ Len(b) >= 4 + Length(b)
  <2>1. b[2] \in Nat /\ b[3] \in Nat /\ Byte \in Nat
    BY <1>1, ByteFact DEF Bytes
  <2>2. b[2] * Byte + b[3] \in Nat
    BY <2>1
  <2> QED
    BY <2>2 DEF Length, Complete
<1>3. From(b, 4 + Length(b)) \in Seq(Bytes)
  BY <1>2, FromType
<1>4. /\ 4 \in Int /\ 3 + Length(b) \in Int
      /\ \A i \in 4 .. 3 + Length(b) : b[i] \in Bytes
  BY <1>1, <1>2, LenProperties
<1>5. Payload(b) \in Seq(Bytes)
  BY <1>4, SubSeqProperties DEF Payload
<1> QED
  BY <1>2, <1>3, <1>5

LEMMA TypeInit == Init => TypeOK
<1> SUFFICES ASSUME Init PROVE TypeOK
  OBVIOUS
<1>1. \A S : <<>> \in Seq(S)
  BY EmptySeq
<1>2. /\ wire \in [Gateways -> Seq(Bytes)]
      /\ buffer \in [Gateways -> Seq(Bytes)]
      /\ inbound \in [Gateways -> Seq(Packet)]
      /\ radio \in [Gateways -> Seq(Packet)]
      /\ offered \in [Sources -> Seq(Packet)]
      /\ topic \in Seq(Packet)
  BY <1>1 DEF Init
<1>3. taken \in [Gateways -> 0 .. Len(topic)]
  <2>1. 0 \in 0 .. Len(topic)
    BY EmptySeq DEF Init
  <2> QED
    BY <2>1 DEF Init
<1>4. sent \in [Gateways -> 0 .. MaxSent] /\ damage \in 0 .. MaxDamage
  BY BoundsAssumption DEF Init
<1>5. /\ pc \in [Gateways -> {"in", "dispatch", "out"}] /\ astray \in BOOLEAN
      /\ \A g \in Gateways : pc[g] # "dispatch"
  BY DEF Init
<1> QED
  BY <1>2, <1>3, <1>4, <1>5 DEF TypeOK

LEMMA TransmitType ==
  ASSUME TypeOK, NEW g \in Gateways, NEW bytes \in Seq(Bytes),
         Transmit(g, bytes)
  PROVE  /\ wire' \in [Gateways -> Seq(Bytes)]
         /\ sent' \in [Gateways -> 0 .. MaxSent]
<1>1. wire[g] \in Seq(Bytes) /\ sent[g] \in 0 .. MaxSent /\ sent[g] < MaxSent
  BY DEF TypeOK, Transmit
<1>2. wire[g] \o bytes \in Seq(Bytes)
  BY <1>1, ConcatProperties
<1>3. wire' \in [Gateways -> Seq(Bytes)]
  BY <1>2 DEF TypeOK, Transmit
<1>4. sent[g] + 1 \in 0 .. MaxSent
  BY <1>1, BoundsAssumption
<1> QED
  BY <1>3, <1>4 DEF TypeOK, Transmit

LEMMA SendWholeType ==
  ASSUME TypeOK, NEW g \in Gateways, SendWhole(g)
  PROVE  TypeOK'
<1>1. PICK p \in Payloads :
        /\ Transmit(g, Frame(p))
        /\ offered' = [offered EXCEPT ![g] = @ \o Packets(g, p)]
        /\ astray' = (astray \/ ~Passable(p))
        /\ UNCHANGED damage
  BY DEF SendWhole
<1>2. Frame(p) \in Seq(Bytes) /\ p \in Seq(Bytes)
  BY FrameShape, PayloadFacts
<1>3. /\ wire' \in [Gateways -> Seq(Bytes)]
      /\ sent' \in [Gateways -> 0 .. MaxSent]
  BY <1>1, <1>2, TransmitType
<1>4. offered[g] \in Seq(Packet) /\ Packets(g, p) \in Seq(Packet)
  BY <1>2, ConvertType DEF TypeOK, Sources
<1>5. offered[g] \o Packets(g, p) \in Seq(Packet)
  BY <1>4, ConcatProperties
<1>6. offered' \in [Sources -> Seq(Packet)]
  BY <1>1, <1>5 DEF TypeOK
<1> QED
  BY <1>1, <1>3, <1>6 DEF TypeOK, Transmit

LEMMA SendDamagedType ==
  ASSUME TypeOK, NEW g \in Gateways, SendDamaged(g)
  PROVE  TypeOK'
<1>p. PICK p \in Payloads, x \in Noise :
        \E i \in DOMAIN Frame(p) :
          /\ damage < MaxDamage
          /\ Transmit(g, [Frame(p) EXCEPT ![i] = x])
          /\ damage' = damage + 1
          /\ astray' = (astray \/ ~Harmless(p, Frame(p), i))
          /\ UNCHANGED offered
  BY DEF SendDamaged
<1>1. PICK i \in DOMAIN Frame(p) :
        /\ damage < MaxDamage
        /\ Transmit(g, [Frame(p) EXCEPT ![i] = x])
        /\ damage' = damage + 1
        /\ astray' = (astray \/ ~Harmless(p, Frame(p), i))
        /\ UNCHANGED offered
  BY <1>p
<1>2. Frame(p) \in Seq(Bytes) /\ x \in Bytes
  BY FrameShape, BytesAssumption
<1>3. i \in 1 .. Len(Frame(p))
  BY <1>2, LenProperties
<1>4. [Frame(p) EXCEPT ![i] = x] \in Seq(Bytes)
  BY <1>2, <1>3, ExceptSeq
<1>5. /\ wire' \in [Gateways -> Seq(Bytes)]
      /\ sent' \in [Gateways -> 0 .. MaxSent]
  BY <1>1, <1>4, TransmitType
<1> QED
  BY <1>1, <1>5, BoundsAssumption DEF TypeOK, Transmit

LEMMA SendNoiseType ==
  ASSUME TypeOK, NEW g \in Gateways, SendNoise(g)
  PROVE  TypeOK'
<1>1. PICK x \in Noise :
        /\ damage < MaxDamage
        /\ Transmit(g, <<x>>)
        /\ damage' = damage + 1
        /\ astray' = (astray \/ x = Delimiter)
        /\ UNCHANGED offered
  BY DEF SendNoise
<1>2. <<x>> \in Seq(Bytes)
  BY BytesAssumption
<1>3. /\ wire' \in [Gateways -> Seq(Bytes)]
      /\ sent' \in [Gateways -> 0 .. MaxSent]
  BY <1>1, <1>2, TransmitType
<1> QED
  BY <1>1, <1>3, BoundsAssumption DEF TypeOK, Transmit

LEMMA TopicGrows ==
  ASSUME TypeOK, NEW packet \in Packet, topic' = Append(topic, packet)
  PROVE  /\ topic' \in Seq(Packet)
         /\ taken \in [Gateways -> 0 .. Len(topic')]
<1>1. /\ topic' \in Seq(Packet) /\ Len(topic') = Len(topic) + 1
      /\ Len(topic) \in Nat
  BY AppendProperties, LenProperties DEF TypeOK
<1>2. 0 .. Len(topic) \subseteq 0 .. Len(topic')
  BY <1>1
<1> QED
  BY <1>1, <1>2 DEF TypeOK

LEMMA IssueType ==
  ASSUME TypeOK, Issue
  PROVE  TypeOK'
<1>1. PICK to \in Gateways \cup {Everyone} :
        LET packet == [from |-> Controller, to |-> to, body |-> <<>>]
        IN /\ topic' = Append(topic, packet)
           /\ offered' = [offered EXCEPT ![Controller] = Append(@, packet)]
           /\ UNCHANGED <<wire, buffer, pc, inbound, taken, radio, astray,
                          sent, damage>>
  BY DEF Issue
<1> DEFINE packet == [from |-> Controller, to |-> to, body |-> <<>>]
<1>2. packet \in Packet
  BY DEF Packet, Sources
<1>3. topic' \in Seq(Packet) /\ taken \in [Gateways -> 0 .. Len(topic')]
  <2> HIDE DEF packet
  <2> QED
    BY <1>1, <1>2, TopicGrows DEF packet
<1>4. offered' \in [Sources -> Seq(Packet)]
  <2>1. Controller \in Sources
    BY DEF Sources
  <2>2. Append(offered[Controller], packet) \in Seq(Packet)
    BY <1>2, <2>1, AppendProperties DEF TypeOK
  <2> QED
    BY <1>1, <2>2 DEF TypeOK
<1> QED
  BY <1>1, <1>3, <1>4 DEF TypeOK

LEMMA InboundType ==
  ASSUME TypeOK, NEW g \in Gateways, HandleInbound(g)
  PROVE  TypeOK'
<1>1. PICK n \in (IF wire[g] = <<>> THEN {0} ELSE 1 .. Len(wire[g])) :
        LET b == buffer[g] \o SubSeq(wire[g], 1, n)
        IN /\ wire' = [wire EXCEPT ![g] = From(@, n)]
           /\ \/ ReadIncomplete(g, b) \/ Prune(g, b) \/ Discard(g, b)
              \/ ReadShort(g, b) \/ Refuse(g, b) \/ Accept(g, b)
  BY DEF HandleInbound
<1> DEFINE b == buffer[g] \o SubSeq(wire[g], 1, n)
<1>2. buffer[g] \in Seq(Bytes) /\ wire[g] \in Seq(Bytes)
  BY DEF TypeOK
<1>3. n \in 0 .. Len(wire[g]) /\ n \in Nat
  BY <1>1, <1>2, LenProperties
<1>4. b \in Seq(Bytes)
  BY <1>2, <1>3, PrefixType, ConcatProperties
<1>5. wire' \in [Gateways -> Seq(Bytes)]
  BY <1>1, <1>2, <1>3, FromType DEF TypeOK
<1> HIDE DEF b
<1>6. UNCHANGED <<topic, taken, radio, offered, astray, sent, damage>>
  BY DEF HandleInbound
<1>7. ASSUME NEW rest \in Seq(Bytes), Turn(g, rest), UNCHANGED inbound
      PROVE  TypeOK'
  BY <1>5, <1>6, <1>7 DEF TypeOK, Turn
<1>8. CASE ReadIncomplete(g, b)
  BY <1>4, <1>7, <1>8 DEF ReadIncomplete
<1>9. CASE Prune(g, b)
  <2>1. Tail(b) \in Seq(Bytes)
    BY <1>4, <1>9, HeadTailProperties DEF Prune
  <2> QED
    BY <1>7, <1>9, <2>1 DEF Prune
<1>10. CASE Discard(g, b)
  <2>1. Discarded(b) \in Seq(Bytes)
    BY <1>4, <1>10, DiscardedType DEF Discard
  <2> QED
    BY <1>7, <1>10, <2>1 DEF Discard
<1>11. CASE ReadShort(g, b)
  BY <1>4, <1>7, <1>11 DEF ReadShort
<1>12. CASE Refuse(g, b)
  <2>1. From(b, 4 + Length(b)) \in Seq(Bytes)
    BY <1>4, <1>12, CompleteType DEF Refuse, Readable
  <2> QED
    BY <1>7, <1>12, <2>1 DEF Refuse
<1>13. CASE Accept(g, b)
  <2> DEFINE new == Packets(g, Payload(b))
  <2>1. /\ From(b, 4 + Length(b)) \in Seq(Bytes)
        /\ new \in Seq(Packet) /\ new # <<>>
    BY <1>4, <1>13, CompleteType, ConvertType DEF Accept, Readable
  <2>2. inbound[g] \in Seq(Packet)
    BY DEF TypeOK
  <2>3. inbound' = [inbound EXCEPT ![g] = inbound[g] \o new]
    BY <1>13 DEF Accept
  <2> HIDE DEF new
  <2>4. inbound[g] \o new \in Seq(Packet) /\ inbound[g] \o new # <<>>
    BY <2>1, <2>2, ConcatProperties, ConcatEqualIffEmpty
  <2> QED
    BY <1>5, <1>6, <1>13, <2>1, <2>3, <2>4 DEF TypeOK, Accept
<1> QED
  BY <1>1, <1>8, <1>9, <1>10, <1>11, <1>12, <1>13 DEF b

LEMMA DispatchType ==
  ASSUME TypeOK, NEW g \in Gateways, Dispatch(g)
  PROVE  TypeOK'
<1>1. inbound[g] \in Seq(Packet) /\ inbound[g] # <<>>
  BY DEF TypeOK, Dispatch
<1>2. Last(inbound[g]) \in Packet
  <2>1. Len(inbound[g]) \in 1 .. Len(inbound[g])
    BY <1>1, EmptySeq, LenProperties
  <2> QED
    BY <1>1, <2>1, ElementOfSeq DEF Last
<1>3. topic' = Append(topic, Last(inbound[g]))
  BY DEF Dispatch
<1>4. topic' \in Seq(Packet) /\ taken \in [Gateways -> 0 .. Len(topic')]
  BY <1>2, <1>3, TopicGrows
<1> QED
  BY <1>4 DEF TypeOK, Dispatch, line

LEMMA WriteType ==
  ASSUME TypeOK, NEW g \in Gateways, Write(g)
  PROVE  TypeOK'
<1>1. taken[g] \in 0 .. Len(topic) /\ taken[g] < Len(topic)
  BY DEF TypeOK, Write
<1>2. Len(topic) \in Nat /\ topic \in Seq(Packet)
  BY LenProperties DEF TypeOK
<1>3. taken[g] + 1 \in 1 .. Len(topic)
  BY <1>1, <1>2
<1>4. topic[taken[g] + 1] \in Packet
  BY <1>2, <1>3, ElementOfSeq
<1>5. taken' \in [Gateways -> 0 .. Len(topic)]
  BY <1>3 DEF TypeOK, Write
<1>6. Append(radio[g], topic[taken[g] + 1]) \in Seq(Packet)
  BY <1>4, AppendProperties DEF TypeOK
<1>7. radio' \in [Gateways -> Seq(Packet)]
  BY <1>6 DEF TypeOK, Write
<1> QED
  BY <1>5, <1>7 DEF TypeOK, Write, line

LEMMA TypeNext == TypeOK /\ [Next]_vars => TypeOK'
<1> SUFFICES ASSUME TypeOK, [Next]_vars PROVE TypeOK'
  OBVIOUS
<1>1. ASSUME NEW g \in Talking, SendWhole(g) \/ SendDamaged(g) \/ SendNoise(g)
      PROVE  TypeOK'
  BY <1>1, GatewaysAssumption, SendWholeType, SendDamagedType, SendNoiseType
<1>2. CASE Issue
  BY <1>2, IssueType
<1>3. ASSUME NEW g \in Gateways, Run(g) PROVE TypeOK'
  <2>1. CASE HandleInbound(g)
    BY <2>1, InboundType
  <2>2. CASE Dispatch(g)
    BY <2>2, DispatchType
  <2>3. CASE Write(g)
    BY <2>3, WriteType
  <2>4. CASE Drained(g)
    BY <2>4 DEF TypeOK, Drained, line
  <2> QED
    BY <1>3, <2>1, <2>2, <2>3, <2>4 DEF Run, HandleOutbound
<1>4. CASE UNCHANGED vars
  BY <1>4 DEF TypeOK, vars, line
<1> QED
  BY <1>1, <1>2, <1>3, <1>4 DEF Next

\* Every variable of the gateways' threads keeps its type, a gateway never
\* takes a packet that is not in the topic, and one that dispatches has a
\* packet to dispatch, whatever bytes arrive in whatever pieces.
THEOREM TypeCorrect == Spec => []TypeOK
BY TypeInit, TypeNext, PTL DEF Spec
-----------------------------------------------------------------------------
(***************************************************************************)
(* The order.  What is in the buffer of a gateway and on its way to it is  *)
(* a row of segments: frames that came whole, frames with a byte of the    *)
(* payload or the checksum damaged, and bytes that start no frame.         *)
(***************************************************************************)
Spoilt(t, p) ==
  \E i \in 4 .. Len(Frame(p)), x \in Bytes :
    x # Frame(p)[i] /\ t = [Frame(p) EXCEPT ![i] = x]

\* Bytes t are a segment that is to become the packets ps.
Segment(g, t, ps) ==
  \/ \E p \in Payloads :
       Passable(p) /\ t = Frame(p) /\ ps = Packets(g, p)
  \/ ps = <<>> /\ \E p \in Payloads : Skippable(p) /\ Spoilt(t, p)
  \/ ps = <<>> /\ t \in Seq(Bytes \ {Delimiter}) /\ t # <<>>

Pairs == Seq(Bytes) \X Seq(Packet)

\* C holds the empty row, and with a row the one with a segment before it.
Closed(g, C) ==
  /\ << <<>>, <<>> >> \in C
  /\ \A t \in Seq(Bytes), ps \in Seq(Packet),
        s \in Seq(Bytes), qs \in Seq(Packet) :
       Segment(g, t, ps) /\ <<s, qs>> \in C => <<t \o s, ps \o qs>> \in C

\* Bytes s are a row of segments that is to become the packets qs: the least
\* set that is closed.
Readings(g) ==
  {e \in Pairs : \A C \in SUBSET Pairs : Closed(g, C) => e \in C}

Reads(g, s, qs) == <<s, qs>> \in Readings(g)

LEMMA ReadsType ==
  ASSUME NEW g, NEW s, NEW qs, Reads(g, s, qs)
  PROVE  s \in Seq(Bytes) /\ qs \in Seq(Packet)
BY DEF Reads, Readings, Pairs

LEMMA SegmentType ==
  ASSUME NEW g \in Gateways, NEW t, NEW ps, Segment(g, t, ps)
  PROVE  t \in Seq(Bytes) /\ t # <<>> /\ ps \in Seq(Packet)
<1>1. ASSUME NEW p \in Payloads
      PROVE  Frame(p) \in Seq(Bytes) /\ Frame(p) # <<>>
             /\ Packets(g, p) \in Seq(Packet)
  <2>1. Frame(p) \in Seq(Bytes) /\ Len(Frame(p)) = Len(p) + 4 /\ Len(p) \in Nat
    BY FrameShape, PayloadFacts
  <2>2. Len(Frame(p)) # 0
    BY <2>1
  <2>3. Frame(p) # <<>>
    BY <2>2, EmptySeq
  <2> QED
    BY <2>1, <2>3, ConvertType, PayloadFacts
<1>2. ASSUME NEW p \in Payloads, Spoilt(t, p)
      PROVE  t \in Seq(Bytes) /\ t # <<>>
  <2>1. PICK i \in 4 .. Len(Frame(p)), x \in Bytes :
          x # Frame(p)[i] /\ t = [Frame(p) EXCEPT ![i] = x]
    BY <1>2 DEF Spoilt
  <2>2. Shaped(t, p)
    BY <2>1, DamageNoticed, EmptySeq
  <2>3. t \in Seq(Bytes) /\ Len(t) # 0
    BY <2>2, PayloadFacts DEF Shaped
  <2> QED
    BY <2>3, EmptySeq
<1>3. CASE ps = <<>> /\ t \in Seq(Bytes \ {Delimiter}) /\ t # <<>>
  <2>1. t \in Seq(Bytes)
    BY <1>3, SeqMonotonic
  <2> QED
    BY <1>3, <2>1, EmptySeq
<1>4. <<>> \in Seq(Packet)
  BY EmptySeq
<1> QED
  BY <1>1, <1>2, <1>3, <1>4 DEF Segment

LEMMA ReadsNone ==
  ASSUME NEW g \in Gateways
  PROVE  Reads(g, <<>>, <<>>)
<1>1. << <<>>, <<>> >> \in Pairs
  BY EmptySeq DEF Pairs
<1> QED
  BY <1>1 DEF Reads, Readings, Closed

LEMMA ReadsBefore ==
  ASSUME NEW g \in Gateways, NEW t, NEW ps, Segment(g, t, ps),
         NEW s, NEW qs, Reads(g, s, qs)
  PROVE  Reads(g, t \o s, ps \o qs)
<1>1. /\ t \in Seq(Bytes) /\ ps \in Seq(Packet)
      /\ s \in Seq(Bytes) /\ qs \in Seq(Packet)
  BY SegmentType, ReadsType
<1>2. t \o s \in Seq(Bytes) /\ ps \o qs \in Seq(Packet)
  BY <1>1, ConcatProperties
<1>3. ASSUME NEW C \in SUBSET Pairs, Closed(g, C)
      PROVE  <<t \o s, ps \o qs>> \in C
  <2>1. <<s, qs>> \in C
    BY <1>3 DEF Reads, Readings
  <2> QED
    BY <1>1, <1>3, <2>1 DEF Closed
<1>4. <<t \o s, ps \o qs>> \in Pairs
  BY <1>2 DEF Pairs
<1> QED
  BY <1>3, <1>4 DEF Reads, Readings

\* What is read is nothing, or begins with a segment.
Begins(g, s, qs) ==
  \E t \in Seq(Bytes), ps \in Seq(Packet),
     s1 \in Seq(Bytes), qs1 \in Seq(Packet) :
    /\ Segment(g, t, ps) /\ Reads(g, s1, qs1)
    /\ s = t \o s1 /\ qs = ps \o qs1

LEMMA ReadsBegin ==
  ASSUME NEW g \in Gateways, NEW s, NEW qs, Reads(g, s, qs), s # <<>>
  PROVE  Begins(g, s, qs)
<1> DEFINE C == {e \in Readings(g) : e[1] # <<>> => Begins(g, e[1], e[2])}
<1>1. C \in SUBSET Pairs
  BY DEF Readings
<1>2. << <<>>, <<>> >> \in C
  BY ReadsNone DEF Reads
<1>3. ASSUME NEW t \in Seq(Bytes), NEW ps \in Seq(Packet),
             NEW s1 \in Seq(Bytes), NEW qs1 \in Seq(Packet),
             Segment(g, t, ps), <<s1, qs1>> \in C
      PROVE  <<t \o s1, ps \o qs1>> \in C
  <2>1. Reads(g, s1, qs1)
    BY <1>3 DEF Reads
  <2>2. Reads(g, t \o s1, ps \o qs1)
    BY <1>3, <2>1, ReadsBefore
  <2>3. Begins(g, t \o s1, ps \o qs1)
    BY <1>3, <2>1 DEF Begins
  <2> QED
    BY <2>2, <2>3 DEF Reads
<1>4. Closed(g, C)
  <2> HIDE DEF C
  <2> QED
    BY <1>2, <1>3 DEF Closed
<1>5. <<s, qs>> \in C
  <2> HIDE DEF C
  <2> QED
    BY <1>1, <1>4 DEF Reads, Readings
<1> QED
  BY <1>5

\* A segment may as well come last.
LEMMA ReadsAfter ==
  ASSUME NEW g \in Gateways, NEW t, NEW ps, Segment(g, t, ps),
         NEW s, NEW qs, Reads(g, s, qs)
  PROVE  Reads(g, s \o t, qs \o ps)
<1>0. t \in Seq(Bytes) /\ ps \in Seq(Packet)
  BY SegmentType
<1> DEFINE C == {e \in Readings(g) : Reads(g, e[1] \o t, e[2] \o ps)}
<1>1. C \in SUBSET Pairs
  BY DEF Readings
<1>2. << <<>>, <<>> >> \in C
  <2>1. Reads(g, t \o <<>>, ps \o <<>>)
    BY ReadsNone, ReadsBefore
  <2>2. /\ t \o <<>> = <<>> \o t
        /\ ps \o <<>> = <<>> \o ps
    BY <1>0, ConcatEmptySeq
  <2> QED
    BY <2>1, <2>2, ReadsNone DEF Reads
<1>3. ASSUME NEW u \in Seq(Bytes), NEW us \in Seq(Packet),
             NEW s1 \in Seq(Bytes), NEW qs1 \in Seq(Packet),
             Segment(g, u, us), <<s1, qs1>> \in C
      PROVE  <<u \o s1, us \o qs1>> \in C
  <2>1. Reads(g, s1, qs1) /\ Reads(g, s1 \o t, qs1 \o ps)
    BY <1>3 DEF Reads
  <2>2. Reads(g, u \o s1, us \o qs1)
    BY <1>3, <2>1, ReadsBefore
  <2>3. Reads(g, u \o (s1 \o t), us \o (qs1 \o ps))
    BY <1>3, <2>1, ReadsBefore
  <2>4. (u \o s1) \o t = u \o (s1 \o t)
    BY <1>0, ConcatAssociative
  <2>5. (us \o qs1) \o ps = us \o (qs1 \o ps)
    BY <1>0, ConcatAssociative
  <2> QED
    BY <2>2, <2>3, <2>4, <2>5 DEF Reads
<1>4. Closed(g, C)
  <2> HIDE DEF C
  <2> QED
    BY <1>2, <1>3 DEF Closed
<1>5. <<s, qs>> \in C
  <2> HIDE DEF C
  <2> QED
    BY <1>1, <1>4 DEF Reads, Readings
<1> QED
  BY <1>5

\* What has arrived, b, and what is on its way, w, of a segment t and the
\* rest: b is a part of t, or has all of it.
LEMMA PartOf ==
  ASSUME NEW b \in Seq(Bytes), NEW w \in Seq(Bytes),
         NEW t \in Seq(Bytes), NEW s \in Seq(Bytes),
         b \o w = t \o s, Len(b) < Len(t)
  PROVE  b = SubSeq(t, 1, Len(b))
<1> DEFINE r == SubSeq(t, 1, Len(b))
<1>1. Len(b) \in Nat /\ Len(t) \in Nat /\ Len(w) \in Nat /\ Len(s) \in Nat
  BY LenProperties
<1>2. \A i \in 1 .. Len(b) : t[i] \in Bytes
  BY <1>1, ElementOfSeq
<1>3. /\ r \in Seq(Bytes) /\ Len(r) = IF 1 <= Len(b) THEN Len(b) - 1 + 1 ELSE 0
      /\ \A i \in 1 .. Len(b) - 1 + 1 : r[i] = t[1 + i - 1]
  BY <1>1, <1>2, SubSeqProperties
<1>4. \A i \in 1 .. Len(b) + Len(w) :
        (b \o w)[i] = IF i <= Len(b) THEN b[i] ELSE w[i - Len(b)]
  BY ConcatProperties
<1>5. \A i \in 1 .. Len(t) + Len(s) :
        (t \o s)[i] = IF i <= Len(t) THEN t[i] ELSE s[i - Len(t)]
  BY ConcatProperties
<1> HIDE DEF r
<1>6. ASSUME NEW i \in 1 .. Len(b) PROVE r[i] = b[i]
  <2>1. /\ i \in 1 .. Len(b) + Len(w) /\ i \in 1 .. Len(t) + Len(s)
        /\ i <= Len(b) /\ i <= Len(t)
        /\ i \in 1 .. Len(b) - 1 + 1 /\ 1 + i - 1 = i
    BY <1>1
  <2> QED
    BY <1>3, <1>4, <1>5, <2>1
<1>7. Len(r) = Len(b)
  BY <1>1, <1>3
<1> QED
  BY <1>3, <1>6, <1>7, SeqEqual DEF r

\* (The equation has a name here for the provers to match.)
Same(b, w, t, s) == b \o w = t \o s

LEMMA AllOf ==
  ASSUME NEW b \in Seq(Bytes), NEW w \in Seq(Bytes),
         NEW t \in Seq(Bytes), NEW s \in Seq(Bytes),
         Same(b, w, t, s), Len(t) <= Len(b)
  PROVE  /\ From(b, Len(t)) \in Seq(Bytes)
         /\ b = t \o From(b, Len(t)) /\ s = From(b, Len(t)) \o w
<1> DEFINE r == From(b, Len(t))
<1>0. b \o w = t \o s
  BY DEF Same
<1>1. Len(b) \in Nat /\ Len(t) \in Nat /\ Len(w) \in Nat /\ Len(s) \in Nat
  BY LenProperties
<1>2. r \in Seq(Bytes)
  BY <1>1, FromType
<1>3. b = t \o r
  <2> DEFINE a == SubSeq(b, 1, Len(t))
  <2>1. a \o r = SubSeq(b, 1, Len(b))
    <3>1. /\ 1 \in 1 .. Len(b) + 1 /\ Len(t) \in 1 - 1 .. Len(b)
          /\ Len(b) \in Len(t) .. Len(b)
      BY <1>1
    <3> QED
      BY <3>1, ConcatAdjacentSubSeq DEF From
  <2>2. SubSeq(b, 1, Len(b)) = b
    BY SubSeqFull
  <2>3. a = t
    <3>1. CASE Len(t) = Len(b)
      <4>1. a = b
        BY <2>2, <3>1
      <4>2. \A i \in 1 .. Len(b) : b[i] = t[i]
        <5>1. \A i \in 1 .. Len(b) + Len(w) :
                (b \o w)[i] = IF i <= Len(b) THEN b[i] ELSE w[i - Len(b)]
          BY ConcatProperties
        <5>2. \A i \in 1 .. Len(t) + Len(s) :
                (t \o s)[i] = IF i <= Len(t) THEN t[i] ELSE s[i - Len(t)]
          BY ConcatProperties
        <5> TAKE i \in 1 .. Len(b)
        <5>3. /\ i \in 1 .. Len(b) + Len(w) /\ i \in 1 .. Len(t) + Len(s)
              /\ i <= Len(b) /\ i <= Len(t)
          BY <1>1, <3>1
        <5> QED
          BY <1>0, <5>1, <5>2, <5>3
      <4>3. b = t
        BY <3>1, <4>2, SeqEqual
      <4> QED
        BY <4>1, <4>3
    <3>2. CASE Len(t) < Len(b)
      BY <1>0, <3>2, PartOf
    <3> QED
      BY <1>1, <3>1, <3>2
  <2> QED
    BY <2>1, <2>2, <2>3
<1>4. s = r \o w
  <2> HIDE DEF r
  <2>1. r \o w \in Seq(Bytes)
    BY <1>2, ConcatProperties
  <2>2. (t \o r) \o w = t \o (r \o w)
    BY <1>2, ConcatAssociative
  <2>3. t \o s = t \o (r \o w)
    BY <1>0, <1>3, <2>2
  <2>4. From(t \o s, Len(t)) = s
    BY FromConcat
  <2>5. From(t \o (r \o w), Len(t)) = r \o w
    BY <2>1, FromConcat
  <2> QED
    BY <2>3, <2>4, <2>5
<1> QED
  BY <1>2, <1>3, <1>4

\* What a thread may find in b when w is on its way, and what is left then.
Waits(b) == b = <<>> \/ (Delimited(b) /\ ~Complete(b))

Prunes(g, b, w, qs) ==
  b # <<>> /\ ~Delimited(b) /\ Reads(g, Tail(b) \o w, qs)

Discards(g, b, w, qs) ==
  /\ Complete(b) /\ ~Readable(b)
  /\ Len(Discarded(b)) < Len(b) /\ Reads(g, Discarded(b) \o w, qs)

Takes(g, b, w, qs) ==
  /\ Readable(b) /\ Len(Payload(b)) >= Overhead
  /\ \E qs1 \in Seq(Packet) :
       /\ Reads(g, From(b, 4 + Length(b)) \o w, qs1)
       /\ qs = Packets(g, Payload(b)) \o qs1

\* A part of a frame, damaged or not, waits.
LEMMA ShapedPart ==
  ASSUME NEW p \in Payloads, NEW t, Shaped(t, p),
         NEW b \in Seq(Bytes), NEW w \in Seq(Bytes), NEW s \in Seq(Bytes),
         b \o w = t \o s, b # <<>>, Len(b) < Len(t)
  PROVE  Waits(b)
<1>1. t \in Seq(Bytes)
  BY DEF Shaped
<1>2. b = SubSeq(t, 1, Len(b))
  BY <1>1, PartOf
<1>3. Len(b) \in 1 .. Len(t) - 1
  <2>1. Len(b) \in Nat /\ Len(b) # 0 /\ Len(t) \in Nat
    BY <1>1, EmptySeq, LenProperties
  <2> QED
    BY <2>1
<1>4. Delimited(SubSeq(t, 1, Len(b))) /\ ~Complete(SubSeq(t, 1, Len(b)))
  BY <1>3, ShapedWaits
<1> QED
  BY <1>2, <1>4 DEF Waits

LEMMA ShapedComplete ==
  ASSUME NEW p \in Payloads, NEW t, Shaped(t, p), NEW r \in Seq(Bytes)
  PROVE  Complete(t \o r)
<1>1. /\ Len(t \o r) = 4 + Len(p) + Len(r) /\ Length(t \o r) = Len(p)
      /\ Delimited(t \o r)
  BY ShapedHead
<1>2. Len(p) \in Nat /\ Len(r) \in Nat
  BY PayloadFacts, LenProperties
<1> QED
  BY <1>1, <1>2 DEF Complete

\* A frame that came whole: it waits, is taken, or is discarded if its type
\* is another.
LEMMA WholeRead ==
  ASSUME NEW g \in Gateways, NEW p \in Payloads, Passable(p),
         NEW b \in Seq(Bytes), NEW w \in Seq(Bytes), b # <<>>,
         NEW s \in Seq(Bytes), NEW qs \in Seq(Packet), Reads(g, s, qs),
         b \o w = Frame(p) \o s
  PROVE  \/ Waits(b)
         \/ Discards(g, b, w, Packets(g, p) \o qs)
         \/ Takes(g, b, w, Packets(g, p) \o qs)
<1> DEFINE f == Frame(p)
<1>1. f \in Seq(Bytes) /\ Shaped(f, p) /\ Len(f) \in Nat /\ Len(b) \in Nat
  BY FrameShape, FrameShaped, LenProperties
<1>2. CASE Len(b) < Len(f)
  BY <1>1, <1>2, ShapedPart
<1>3. CASE Len(f) <= Len(b)
  <2>1. PICK r \in Seq(Bytes) : b = f \o r /\ s = r \o w
    <3> HIDE DEF f
    <3>1. Same(b, w, f, s)
      BY DEF f, Same
    <3>2. /\ From(b, Len(f)) \in Seq(Bytes)
          /\ b = f \o From(b, Len(f)) /\ s = From(b, Len(f)) \o w
      BY <1>1, <1>3, <3>1, AllOf
    <3> QED
      BY <3>2
  <2>2. /\ Complete(b) /\ Payload(b) = p /\ Sound(b)
        /\ From(b, 4 + Length(b)) = r
    BY <2>1, FrameFound, WholeSound
  <2>3. CASE Typed(p)
    <3>1. Readable(b) /\ Len(Payload(b)) >= Overhead
      BY <2>2, <2>3 DEF Readable, Passable
    <3>2. Reads(g, From(b, 4 + Length(b)) \o w, qs)
      BY <2>1, <2>2
    <3>3. Takes(g, b, w, Packets(g, p) \o qs)
      BY <2>2, <3>1, <3>2 DEF Takes
    <3> QED
      BY <3>3
  <2>4. CASE ~Typed(p)
    <3>1. ~Readable(b)
      BY <2>2, <2>4 DEF Readable
    <3>2. Discarded(b) = r
      BY <2>1, <2>4, RefusedSkipped DEF Passable
    <3>3. Packets(g, p) \o qs = qs
      BY <2>4, ConcatEmptySeq DEF Packets
    <3>4. Len(r) < Len(b)
      <4>1. Len(b) = 4 + Len(p) + Len(r) /\ Len(r) \in Nat /\ Len(p) \in Nat
        BY <2>1, Headed, PayloadFacts, LenProperties
      <4> QED
        BY <4>1
    <3> QED
      BY <2>1, <2>2, <3>1, <3>2, <3>3, <3>4 DEF Discards
  <2> QED
    BY <2>3, <2>4
<1> QED
  BY <1>1, <1>2, <1>3

\* A frame with a damaged byte: it waits or is discarded.
LEMMA SpoiltRead ==
  ASSUME NEW g \in Gateways, NEW p \in Payloads, Skippable(p),
         NEW t, Spoilt(t, p),
         NEW b \in Seq(Bytes), NEW w \in Seq(Bytes), b # <<>>,
         NEW s \in Seq(Bytes), NEW qs, Reads(g, s, qs),
         b \o w = t \o s
  PROVE  Waits(b) \/ Discards(g, b, w, qs)
<1>1. PICK i \in 4 .. Len(Frame(p)), x \in Bytes :
        x # Frame(p)[i] /\ t = [Frame(p) EXCEPT ![i] = x]
  BY DEF Spoilt
<1>2. Shaped(t, p) /\ \A r \in Seq(Bytes) : ~Readable(t \o r)
  <2>1. <<>> \in Seq(Bytes)
    BY EmptySeq
  <2> QED
    BY <1>1, <2>1, DamageNoticed
<1>3. t \in Seq(Bytes) /\ Len(t) \in Nat /\ Len(b) \in Nat
  BY <1>2, LenProperties DEF Shaped
<1>4. CASE Len(b) < Len(t)
  BY <1>2, <1>4, ShapedPart
<1>5. CASE Len(t) <= Len(b)
  <2>1. PICK r \in Seq(Bytes) : b = t \o r /\ s = r \o w
    <3>1. Same(b, w, t, s)
      BY DEF Same
    <3>2. /\ From(b, Len(t)) \in Seq(Bytes)
          /\ b = t \o From(b, Len(t)) /\ s = From(b, Len(t)) \o w
      BY <1>3, <1>5, <3>1, AllOf
    <3> QED
      BY <3>2
  <2>2. Discarded(b) = r /\ Complete(b) /\ ~Readable(b)
    BY <1>2, <2>1, ShapedSkipped, ShapedComplete
  <2>3. Len(r) < Len(b)
    <3>1. Len(b) = 4 + Len(p) + Len(r) /\ Len(r) \in Nat /\ Len(p) \in Nat
      BY <1>2, <2>1, ShapedHead, PayloadFacts, LenProperties
    <3> QED
      BY <3>1
  <2> QED
    BY <2>1, <2>2, <2>3 DEF Discards
<1> QED
  BY <1>3, <1>4, <1>5

LEMMA TailConcat ==
  ASSUME NEW c \in Seq(Bytes), c # <<>>, NEW d \in Seq(Bytes)
  PROVE  Tail(c) \o d = From(c \o d, 1)
<1> DEFINE h == <<Head(c)>>
           u == Tail(c)
<1>1. h \in Seq(Bytes) /\ u \in Seq(Bytes) /\ Len(h) = 1
  BY HeadTailProperties
<1>2. c = h \o u
  OBVIOUS
<1> HIDE DEF h, u
<1>3. u \o d \in Seq(Bytes)
  BY <1>1, ConcatProperties
<1>4. (h \o u) \o d = h \o (u \o d)
  BY <1>1, ConcatAssociative
<1>5. From(h \o (u \o d), Len(h)) = u \o d
  BY <1>1, <1>3, FromConcat
<1>6. From(c \o d, 1) = u \o d
  BY <1>1, <1>2, <1>4, <1>5
<1> QED
  BY <1>6 DEF u

\* Bytes that start no frame: one is pruned.
LEMMA JunkRead ==
  ASSUME NEW g \in Gateways, NEW t \in Seq(Bytes \ {Delimiter}), t # <<>>,
         NEW b \in Seq(Bytes), NEW w \in Seq(Bytes), b # <<>>,
         NEW s \in Seq(Bytes), NEW qs \in Seq(Packet), Reads(g, s, qs),
         b \o w = t \o s
  PROVE  Prunes(g, b, w, qs)
<1>1. t \in Seq(Bytes)
  BY SeqMonotonic
<1>2. Len(b) \in Nat /\ Len(b) # 0 /\ Len(t) \in Nat /\ Len(t) # 0
  BY <1>1, EmptySeq, LenProperties
<1>3. /\ Head(b) = b[1] /\ Len(w) \in Nat /\ Len(s) \in Nat
  BY LenProperties
<1>4. b[1] = t[1]
  <2>1. 1 \in 1 .. Len(b) + Len(w) /\ 1 \in 1 .. Len(t) + Len(s)
        /\ 1 <= Len(b) /\ 1 <= Len(t)
    BY <1>2, <1>3
  <2>2. (b \o w)[1] = b[1]
    BY <2>1, ConcatProperties
  <2>3. (t \o s)[1] = t[1]
    BY <1>1, <2>1, ConcatProperties
  <2> QED
    BY <2>2, <2>3
<1>5. t[1] # Delimiter
  <2>1. 1 \in 1 .. Len(t)
    BY <1>2
  <2> QED
    BY <2>1, ElementOfSeq
<1>6. ~Delimited(b)
  BY <1>3, <1>4, <1>5 DEF Delimited
<1>7. Tail(b) \o w = Tail(t) \o s
  <2>1. Tail(b) \o w = From(b \o w, 1) /\ Tail(t) \o s = From(t \o s, 1)
    BY <1>1, TailConcat
  <2> QED
    BY <2>1
<1>8. Tail(t) \in Seq(Bytes \ {Delimiter})
  BY HeadTailProperties
<1>9. Reads(g, Tail(t) \o s, qs)
  <2>1. CASE Tail(t) = <<>>
    BY <2>1, ConcatEmptySeq
  <2>2. CASE Tail(t) # <<>>
    <3>1. Segment(g, Tail(t), <<>>)
      BY <1>8, <2>2 DEF Segment
    <3>2. Reads(g, Tail(t) \o s, <<>> \o qs)
      BY <3>1, ReadsBefore
    <3>3. <<>> \o qs = qs
      BY ConcatEmptySeq
    <3> QED
      BY <3>2, <3>3
  <2> QED
    BY <2>1, <2>2
<1> QED
  BY <1>6, <1>7, <1>9 DEF Prunes

\* Whatever has arrived, one of four things is found, and what is left is
\* still a row of segments.
LEMMA ReadOne ==
  ASSUME NEW g \in Gateways, NEW b \in Seq(Bytes), NEW w \in Seq(Bytes),
         NEW qs, Reads(g, b \o w, qs)
  PROVE  \/ Waits(b) \/ Prunes(g, b, w, qs)
         \/ Discards(g, b, w, qs) \/ Takes(g, b, w, qs)
<1>1. CASE b = <<>>
  BY <1>1 DEF Waits
<1>2. CASE b # <<>>
  <2>1. Begins(g, b \o w, qs)
    <3>1. b \o w # <<>>
      BY <1>2, ConcatEqualIffEmpty
    <3> QED
      BY <3>1, ReadsBegin
  <2>2. PICK t \in Seq(Bytes), ps \in Seq(Packet),
             s \in Seq(Bytes), qs1 \in Seq(Packet) :
          /\ Segment(g, t, ps) /\ Reads(g, s, qs1)
          /\ b \o w = t \o s /\ qs = ps \o qs1
    BY <2>1 DEF Begins
  <2>3. ps = <<>> => qs = qs1
    BY <2>2, ConcatEmptySeq
  <2>4. CASE \E p \in Payloads :
               Passable(p) /\ t = Frame(p) /\ ps = Packets(g, p)
    BY <1>2, <2>2, <2>4, WholeRead
  <2>5. CASE ps = <<>> /\ \E p \in Payloads : Skippable(p) /\ Spoilt(t, p)
    BY <1>2, <2>2, <2>3, <2>5, SpoiltRead
  <2>6. CASE ps = <<>> /\ t \in Seq(Bytes \ {Delimiter}) /\ t # <<>>
    BY <1>2, <2>2, <2>3, <2>6, JunkRead
  <2> QED
    BY <2>2, <2>4, <2>5, <2>6 DEF Segment
<1> QED
  BY <1>1, <1>2
-----------------------------------------------------------------------------
\* With b in its buffer and w on its way, a gateway that has sent the packets
\* ins is to send the rest of off.
Owes(g, b, w, ins, off) ==
  \E qs \in Seq(Packet) : Reads(g, b \o w, qs) /\ off = ins \o qs

Ordered(g) == Owes(g, buffer[g], wire[g], inbound[g], offered[g])

OrderInv == astray \/ \A g \in Gateways : Ordered(g)

\* What a module sends comes last.
LEMMA SendOwes ==
  ASSUME NEW g \in Gateways, NEW b \in Seq(Bytes), NEW w \in Seq(Bytes),
         NEW ins \in Seq(Packet), NEW off,
         Owes(g, b, w, ins, off), NEW t, NEW ps, Segment(g, t, ps)
  PROVE  Owes(g, b, w \o t, ins, off \o ps)
<1>1. PICK qs \in Seq(Packet) : Reads(g, b \o w, qs) /\ off = ins \o qs
  BY DEF Owes
<1>2. t \in Seq(Bytes) /\ ps \in Seq(Packet)
  BY SegmentType
<1>3. Reads(g, (b \o w) \o t, qs \o ps)
  <2> DEFINE s == b \o w
  <2>1. Reads(g, s, qs)
    BY <1>1
  <2> HIDE DEF s
  <2>2. Reads(g, s \o t, qs \o ps)
    BY <2>1, ReadsAfter
  <2> QED
    BY <2>2 DEF s
<1>4. (b \o w) \o t = b \o (w \o t)
  BY <1>2, ConcatAssociative
<1>5. off \o ps = ins \o (qs \o ps)
  <2>1. (ins \o qs) \o ps = ins \o (qs \o ps)
    BY <1>2, ConcatAssociative
  <2> QED
    BY <1>1, <2>1
<1>6. qs \o ps \in Seq(Packet)
  BY <1>2, ConcatProperties
<1> QED
  BY <1>3, <1>4, <1>5, <1>6 DEF Owes

\* Bytes that arrive are still before those that do not.
LEMMA ArriveOwes ==
  ASSUME NEW g \in Gateways, NEW b \in Seq(Bytes), NEW w \in Seq(Bytes),
         NEW ins, NEW off, Owes(g, b, w, ins, off), NEW n \in 0 .. Len(w)
  PROVE  Owes(g, b \o SubSeq(w, 1, n), From(w, n), ins, off)
<1> DEFINE u == SubSeq(w, 1, n)
           v == From(w, n)
<1>1. n \in Nat /\ Len(w) \in Nat /\ n <= Len(w)
  BY LenProperties
<1>2. u \in Seq(Bytes) /\ v \in Seq(Bytes)
  BY <1>1, PrefixType, FromType
<1>3. u \o v = w
  <2>1. 1 \in 1 .. Len(w) + 1 /\ n \in 1 - 1 .. Len(w) /\ Len(w) \in n .. Len(w)
    BY <1>1
  <2>2. u \o v = SubSeq(w, 1, Len(w))
    BY <2>1, ConcatAdjacentSubSeq DEF From
  <2> QED
    BY <2>2, SubSeqFull
<1> HIDE DEF u, v
<1>4. (b \o u) \o v = b \o w
  <2>1. (b \o u) \o v = b \o (u \o v)
    BY <1>2, ConcatAssociative
  <2> QED
    BY <1>3, <2>1
<1>5. Owes(g, b \o u, v, ins, off)
  BY <1>4 DEF Owes
<1> QED
  BY <1>5 DEF u, v

\* A read without a packet keeps what is owed, and one with a packet sends
\* what is owed first.
LEMMA ReadOwes ==
  ASSUME NEW g \in Gateways, NEW b \in Seq(Bytes), NEW w \in Seq(Bytes),
         NEW ins \in Seq(Packet), NEW off, Owes(g, b, w, ins, off)
  PROVE  /\ ReadIncomplete(g, b) => Waits(b)
         /\ Prune(g, b) => Owes(g, Tail(b), w, ins, off)
         /\ Discard(g, b) => Owes(g, Discarded(b), w, ins, off)
         /\ ~ReadShort(g, b)
         /\ Refuse(g, b) \/ Accept(g, b) =>
              Owes(g, From(b, 4 + Length(b)), w,
                   ins \o Packets(g, Payload(b)), off)
<1>1. PICK qs \in Seq(Packet) : Reads(g, b \o w, qs) /\ off = ins \o qs
  BY DEF Owes
<1>2. \/ Waits(b) \/ Prunes(g, b, w, qs)
      \/ Discards(g, b, w, qs) \/ Takes(g, b, w, qs)
  BY <1>1, ReadOne
<1>3. /\ Complete(b) => Delimited(b)
      /\ Delimited(b) => b # <<>>
      /\ Readable(b) => Complete(b)
  BY DEF Complete, Delimited, Readable
<1>4. ReadIncomplete(g, b) => Waits(b)
  BY DEF ReadIncomplete, Waits
<1>5. ASSUME Prune(g, b) PROVE Owes(g, Tail(b), w, ins, off)
  <2>1. Prunes(g, b, w, qs)
    BY <1>2, <1>3, <1>5 DEF Prune, Waits, Discards, Takes
  <2> QED
    BY <1>1, <2>1 DEF Prunes, Owes
<1>6. ASSUME Discard(g, b) PROVE Owes(g, Discarded(b), w, ins, off)
  <2>1. Discards(g, b, w, qs)
    BY <1>2, <1>3, <1>6 DEF Discard, Waits, Prunes, Takes
  <2> QED
    BY <1>1, <2>1 DEF Discards, Owes
<1>7. ASSUME Readable(b) PROVE Takes(g, b, w, qs)
  BY <1>2, <1>3, <1>7 DEF Waits, Prunes, Discards
<1>8. ~ReadShort(g, b)
  <2>1. Readable(b) => Len(Payload(b)) >= Overhead /\ Len(Payload(b)) \in Nat
    BY <1>3, <1>7, CompleteType, LenProperties DEF Takes
  <2> QED
    BY <2>1 DEF ReadShort, Overhead
<1>9. ASSUME Refuse(g, b) \/ Accept(g, b)
      PROVE  Owes(g, From(b, 4 + Length(b)), w,
                  ins \o Packets(g, Payload(b)), off)
  <2> DEFINE ps == Packets(g, Payload(b))
  <2>1. Readable(b)
    BY <1>9 DEF Refuse, Accept
  <2>2. PICK qs1 \in Seq(Packet) :
          /\ Reads(g, From(b, 4 + Length(b)) \o w, qs1)
          /\ qs = ps \o qs1
    BY <1>7, <2>1 DEF Takes
  <2>3. ps \in Seq(Packet)
    BY <1>3, <2>1, CompleteType, ConvertType
  <2> HIDE DEF ps
  <2>4. off = (ins \o ps) \o qs1
    <3>1. (ins \o ps) \o qs1 = ins \o (ps \o qs1)
      BY <2>3, ConcatAssociative
    <3> QED
      BY <1>1, <2>2, <3>1
  <2> QED
    BY <2>2, <2>4 DEF Owes, ps
<1> QED
  BY <1>4, <1>5, <1>6, <1>8, <1>9

\* A step of a module or of the line.
LEMMA TransmitOrder ==
  ASSUME TypeOK, OrderInv, NEW g \in Gateways, NEW t, NEW ps,
         astray' \/ Segment(g, t, ps), astray => astray',
         Transmit(g, t), \/ offered' = [offered EXCEPT ![g] = @ \o ps]
                         \/ ps = <<>> /\ UNCHANGED offered
  PROVE  OrderInv'
<1> SUFFICES ASSUME ~astray', NEW h \in Gateways PROVE Ordered(h)'
  BY DEF OrderInv
<1>1. Ordered(h) /\ Segment(g, t, ps)
  BY DEF OrderInv
<1>2. UNCHANGED <<buffer, inbound>>
  BY DEF Transmit
<1>3. CASE h # g
  <2>1. wire'[h] = wire[h] /\ offered'[h] = offered[h]
    BY <1>3 DEF TypeOK, Transmit, Sources
  <2> QED
    BY <1>1, <1>2, <2>1 DEF Ordered, Owes
<1>4. CASE h = g
  <2>1. /\ buffer[g] \in Seq(Bytes) /\ wire[g] \in Seq(Bytes)
        /\ inbound[g] \in Seq(Packet) /\ offered[g] \in Seq(Packet)
    BY DEF TypeOK, Sources
  <2>2. wire'[g] = wire[g] \o t
    BY DEF TypeOK, Transmit
  <2>3. offered'[g] = offered[g] \o ps
    BY <2>1, ConcatEmptySeq DEF TypeOK, Sources
  <2>4. Owes(g, buffer[g], wire[g] \o t, inbound[g], offered[g] \o ps)
    BY <1>1, <1>4, <2>1, SendOwes DEF Ordered
  <2> QED
    BY <1>2, <1>4, <2>2, <2>3, <2>4 DEF Ordered
<1> QED
  BY <1>3, <1>4

LEMMA SendWholeOrder ==
  ASSUME TypeOK, OrderInv, NEW g \in Gateways, SendWhole(g)
  PROVE  OrderInv'
<1>1. PICK p \in Payloads :
        /\ Transmit(g, Frame(p))
        /\ offered' = [offered EXCEPT ![g] = @ \o Packets(g, p)]
        /\ astray' = (astray \/ ~Passable(p))
  BY DEF SendWhole
<1>2. astray' \/ Segment(g, Frame(p), Packets(g, p))
  BY <1>1 DEF Segment
<1> QED
  BY <1>1, <1>2, TransmitOrder

LEMMA SendDamagedOrder ==
  ASSUME TypeOK, OrderInv, NEW g \in Gateways, SendDamaged(g)
  PROVE  OrderInv'
<1>p. PICK p \in Payloads, x \in Noise :
        \E i \in DOMAIN Frame(p) :
          /\ x # Frame(p)[i]
          /\ Transmit(g, [Frame(p) EXCEPT ![i] = x])
          /\ astray' = (astray \/ ~Harmless(p, Frame(p), i))
          /\ UNCHANGED offered
  BY DEF SendDamaged
<1>1. PICK i \in DOMAIN Frame(p) :
        /\ x # Frame(p)[i]
        /\ Transmit(g, [Frame(p) EXCEPT ![i] = x])
        /\ astray' = (astray \/ ~Harmless(p, Frame(p), i))
        /\ UNCHANGED offered
  BY <1>p
<1> DEFINE f == Frame(p)
           t == [f EXCEPT ![i] = x]
<1>2. /\ f \in Seq(Bytes) /\ Len(f) = Len(p) + 4 /\ Len(p) \in Nat
      /\ f[1] = Delimiter /\ x \in Bytes
  BY FrameShape, PayloadFacts, BytesAssumption
<1>3. i \in 1 .. Len(f)
  BY <1>2, LenProperties
<1>4. ASSUME i = 1, \A k \in 2 .. Len(f) : f[k] # Delimiter
      PROVE  Segment(g, t, <<>>)
  <2> HIDE DEF f
  <2>1. /\ t \in Seq(Bytes) /\ Len(t) = Len(f)
        /\ \A k \in 1 .. Len(f) : t[k] = IF k = i THEN x ELSE f[k]
    BY <1>2, <1>3, ExceptSeq, LenProperties
  <2> HIDE DEF t
  <2>2. \A k \in 1 .. Len(t) : t[k] \in Bytes \ {Delimiter}
    <3> TAKE k \in 1 .. Len(t)
    <3>1. t[k] \in Bytes
      BY <2>1, ElementOfSeq
    <3>2. CASE k = 1
      BY <1>1, <1>2, <1>4, <2>1, <3>1, <3>2 DEF f
    <3>3. CASE k # 1
      <4>1. k \in 2 .. Len(f)
        BY <1>2, <2>1, <3>3
      <4> QED
        BY <1>4, <2>1, <3>1, <3>3, <4>1
    <3> QED
      BY <3>2, <3>3
  <2>3. t \in Seq(Bytes \ {Delimiter})
    BY <2>1, <2>2, LenProperties, IsASeq
  <2>4. t # <<>>
    <3>1. Len(t) # 0
      BY <1>2, <2>1
    <3> QED
      BY <3>1, EmptySeq
  <2> QED
    BY <2>3, <2>4 DEF Segment
<1>5. ASSUME i > 3, Skippable(p)
      PROVE  Segment(g, t, <<>>)
  <2>1. i \in 4 .. Len(f)
    BY <1>2, <1>3, <1>5
  <2>2. Spoilt(t, p)
    BY <1>1, <1>2, <2>1 DEF Spoilt
  <2> QED
    BY <1>5, <2>2 DEF Segment
<1>6. astray' \/ Segment(g, t, <<>>)
  BY <1>1, <1>4, <1>5 DEF Harmless
<1>7. Transmit(g, t) /\ (astray => astray') /\ UNCHANGED offered
  BY <1>1
<1> HIDE DEF t
<1>8. /\ <<>> = <<>> /\ UNCHANGED offered
      /\ astray' \/ Segment(g, t, <<>>)
      /\ astray => astray'
  BY <1>6, <1>7
<1>9. Transmit(g, t)
  BY <1>7
<1> HIDE DEF f
<1> QED
  BY <1>8, <1>9, TransmitOrder

LEMMA SendNoiseOrder ==
  ASSUME TypeOK, OrderInv, NEW g \in Gateways, SendNoise(g)
  PROVE  OrderInv'
<1>1. PICK x \in Noise :
        /\ Transmit(g, <<x>>)
        /\ astray' = (astray \/ x = Delimiter)
        /\ UNCHANGED offered
  BY DEF SendNoise
<1>2. astray' \/ <<x>> \in Seq(Bytes \ {Delimiter})
  <2>1. ASSUME x # Delimiter PROVE <<x>> \in Seq(Bytes \ {Delimiter})
    <3>1. x \in Bytes \ {Delimiter}
      BY <2>1, BytesAssumption
    <3> QED
      BY <3>1
  <2>2. x = Delimiter => astray'
    BY <1>1
  <2> QED
    BY <2>1, <2>2
<1>3. astray' \/ Segment(g, <<x>>, <<>>)
  BY <1>2 DEF Segment
<1> QED
  BY <1>1, <1>3, TransmitOrder

\* A step of the thread of a gateway that reads.
LEMMA InboundOrder ==
  ASSUME TypeOK, OrderInv, NEW g \in Gateways, HandleInbound(g)
  PROVE  OrderInv'
<1>1. UNCHANGED <<offered, astray>>
  BY DEF HandleInbound
<1> SUFFICES ASSUME ~astray, NEW h \in Gateways PROVE Ordered(h)'
  BY <1>1 DEF OrderInv
<1>2. Ordered(h) /\ Ordered(g)
  BY DEF OrderInv
<1>3. /\ buffer[g] \in Seq(Bytes) /\ wire[g] \in Seq(Bytes)
      /\ inbound[g] \in Seq(Packet) /\ offered[g] \in Seq(Packet)
  BY DEF TypeOK, Sources
<1>4. PICK n \in (IF wire[g] = <<>> THEN {0} ELSE 1 .. Len(wire[g])) :
        LET b == buffer[g] \o SubSeq(wire[g], 1, n)
        IN /\ wire' = [wire EXCEPT ![g] = From(@, n)]
           /\ \/ ReadIncomplete(g, b) \/ Prune(g, b) \/ Discard(g, b)
              \/ ReadShort(g, b) \/ Refuse(g, b) \/ Accept(g, b)
  BY DEF HandleInbound
<1> DEFINE b == buffer[g] \o SubSeq(wire[g], 1, n)
           w == From(wire[g], n)
<1>5. n \in 0 .. Len(wire[g]) /\ n \in Nat
  BY <1>3, <1>4, LenProperties
<1>6. b \in Seq(Bytes) /\ w \in Seq(Bytes)
  BY <1>3, <1>5, PrefixType, FromType, ConcatProperties
<1>7. Owes(g, b, w, inbound[g], offered[g])
  BY <1>2, <1>3, <1>5, ArriveOwes DEF Ordered
<1>8. wire' = [wire EXCEPT ![g] = w]
  BY <1>4
<1>9. /\ \/ ReadIncomplete(g, b) \/ Prune(g, b) \/ Discard(g, b)
         \/ ReadShort(g, b) \/ Refuse(g, b) \/ Accept(g, b)
  BY <1>4
<1> HIDE DEF b, w
<1>10. CASE h # g
  <2>1. /\ wire'[h] = wire[h]
        /\ buffer'[h] = buffer[h] /\ inbound'[h] = inbound[h]
    BY <1>8, <1>9, <1>10
    DEF TypeOK, ReadIncomplete, Prune, Discard, ReadShort, Refuse, Accept, Turn
  <2> QED
    BY <1>1, <1>2, <2>1 DEF Ordered, Owes
<1>11. ASSUME NEW rest, NEW ps, Owes(g, rest, w, inbound[g] \o ps, offered[g]),
              buffer' = [buffer EXCEPT ![g] = rest],
              \/ inbound' = [inbound EXCEPT ![g] = @ \o ps]
              \/ ps = <<>> /\ UNCHANGED inbound
       PROVE  Ordered(g)'
  <2>1. wire'[g] = w /\ buffer'[g] = rest
    BY <1>8, <1>11 DEF TypeOK
  <2>2. inbound'[g] = inbound[g] \o ps
    BY <1>3, <1>11, ConcatEmptySeq DEF TypeOK
  <2> QED
    BY <1>1, <1>11, <2>1, <2>2 DEF Ordered
<1>12. inbound[g] \o <<>> = inbound[g]
  BY <1>3, ConcatEmptySeq
<1>13. /\ Prune(g, b) => Owes(g, Tail(b), w, inbound[g], offered[g])
       /\ Discard(g, b) => Owes(g, Discarded(b), w, inbound[g], offered[g])
       /\ ~ReadShort(g, b)
       /\ Refuse(g, b) \/ Accept(g, b) =>
            Owes(g, From(b, 4 + Length(b)), w,
                 inbound[g] \o Packets(g, Payload(b)), offered[g])
  BY <1>3, <1>6, <1>7, ReadOwes
<1>14. ASSUME ReadIncomplete(g, b) PROVE Ordered(g)'
  BY <1>7, <1>11, <1>12, <1>14 DEF ReadIncomplete, Turn
<1>15. ASSUME Prune(g, b) PROVE Ordered(g)'
  BY <1>11, <1>12, <1>13, <1>15 DEF Prune, Turn
<1>16. ASSUME Discard(g, b) PROVE Ordered(g)'
  BY <1>11, <1>12, <1>13, <1>16 DEF Discard, Turn
<1>17. ASSUME Refuse(g, b) PROVE Ordered(g)'
  <2>1. Packets(g, Payload(b)) = <<>>
    BY <1>17 DEF Refuse, Packets
  <2> QED
    BY <1>11, <1>13, <1>17, <2>1 DEF Refuse, Turn
<1>18. ASSUME Accept(g, b) PROVE Ordered(g)'
  <2> DEFINE ps == Packets(g, Payload(b))
  <2>1. inbound' = [inbound EXCEPT ![g] = @ \o ps]
    BY <1>18 DEF Accept
  <2> HIDE DEF ps
  <2> QED
    BY <1>11, <1>13, <1>18, <2>1 DEF Accept, ps
<1> QED
  BY <1>9, <1>10, <1>13, <1>14, <1>15, <1>16, <1>17, <1>18

LEMMA OrderInit == Init => OrderInv
<1> SUFFICES ASSUME Init, NEW g \in Gateways PROVE Ordered(g)
  BY DEF OrderInv
<1>1. /\ buffer[g] = <<>> /\ wire[g] = <<>>
      /\ inbound[g] = <<>> /\ offered[g] = <<>>
  BY DEF Init, Sources
<1>2. <<>> \o <<>> = <<>> /\ <<>> \in Seq(Packet)
  BY EmptySeq, ConcatEmptySeq
<1>3. Reads(g, <<>>, <<>>)
  BY ReadsNone
<1> QED
  BY <1>1, <1>2, <1>3 DEF Ordered, Owes

LEMMA OrderNext == TypeOK /\ OrderInv /\ [Next]_vars => OrderInv'
<1> SUFFICES ASSUME TypeOK, OrderInv, [Next]_vars PROVE OrderInv'
  OBVIOUS
<1>1. ASSUME NEW g \in Talking, SendWhole(g) \/ SendDamaged(g) \/ SendNoise(g)
      PROVE  OrderInv'
  BY <1>1, GatewaysAssumption, SendWholeOrder, SendDamagedOrder,
     SendNoiseOrder
<1>2. ASSUME UNCHANGED <<wire, buffer, inbound, astray>>,
             \A g \in Gateways : offered'[g] = offered[g]
      PROVE  OrderInv'
  BY <1>2 DEF OrderInv, Ordered, Owes
<1>3. CASE Issue
  <2>1. \A g \in Gateways : g # Controller
    BY GatewaysAssumption
  <2> QED
    BY <1>2, <1>3, <2>1 DEF Issue, TypeOK, Sources
<1>4. ASSUME NEW g \in Gateways, Run(g) PROVE OrderInv'
  <2>1. CASE HandleInbound(g)
    BY <2>1, InboundOrder
  <2>2. CASE Dispatch(g) \/ Write(g) \/ Drained(g)
    BY <1>2, <2>2 DEF Dispatch, Write, Drained, line
  <2> QED
    BY <1>4, <2>1, <2>2 DEF Run, HandleOutbound
<1>5. CASE UNCHANGED vars
  BY <1>2, <1>5 DEF vars, line
<1> QED
  BY <1>1, <1>3, <1>4, <1>5 DEF Next

\* A sequence is a prefix of what it is the first part of.
LEMMA PrefixOfConcat ==
  ASSUME NEW A, NEW s \in Seq(A), NEW q \in Seq(A)
  PROVE  IsPrefix(s, s \o q)
<1> DEFINE t == s \o q
<1>1. /\ Len(s) \in Nat /\ Len(q) \in Nat /\ Len(t) = Len(s) + Len(q)
  BY ConcatProperties, LenProperties
<1>2. SubSeq(t, 1, Len(s)) = SubSeq(s, 1, Len(s))
  <2>1. CASE s = <<>>
    <3>1. 1 \in Int /\ Len(s) \in Int /\ Len(s) < 1
      BY <1>1, <2>1, EmptySeq
    <3> QED
      BY <3>1, SubSeqEmpty
  <2>2. CASE s # <<>>
    <3>1. 1 \in 1 .. Len(s) /\ Len(s) \in 1 .. Len(s)
      BY <1>1, <2>2, EmptySeq
    <3> QED
      BY <3>1, SubSeqOfConcat1
  <2> QED
    BY <2>1, <2>2
<1>3. Len(s) <= Len(t)
  BY <1>1
<1> QED
  BY <1>2, <1>3 DEF IsPrefix

\* Of any row of bytes, in whatever pieces it comes, and whatever is damaged
\* where a reader recovers, the processes get from a gateway the packets of
\* the frames that came whole: none is lost, made up, repeated or out of
\* order, whatever the payloads hold.
THEOREM InOrderCorrect == Spec => []InOrder
<1>1. TypeOK /\ OrderInv => InOrder
  <2> SUFFICES ASSUME TypeOK, OrderInv, ~astray, NEW g \in Gateways
               PROVE  IsPrefix(inbound[g], offered[g])
    BY DEF InOrder
  <2> DEFINE s == inbound[g]
             t == offered[g]
  <2>1. s \in Seq(Packet) /\ t \in Seq(Packet)
    BY DEF TypeOK, Sources
  <2>2. PICK q \in Seq(Packet) : t = s \o q
    BY DEF OrderInv, Ordered, Owes
  <2> HIDE DEF s, t
  <2> QED
    BY <2>1, <2>2, PrefixOfConcat DEF s, t
<1> QED
  BY <1>1, TypeCorrect, OrderInit, OrderNext, PTL DEF Spec

-----------------------------------------------------------------------------
(***************************************************************************)
(* What is kept of a sequence.  Filter is a recursive function: as for the *)
(* checksum, its values are found by induction on the length, and a        *)
(* sequence longer by one is all that the rest needs.                      *)
(***************************************************************************)
\* What is kept of the first elements of s, up to the n-th.
Keeps(A, s, S, n, t) ==
  /\ t \in [0 .. n -> Seq(A)]
  /\ t[0] = <<>>
  /\ \A k \in 1 .. n :
       t[k] = IF s[k] \in S THEN Append(t[k - 1], s[k]) ELSE t[k - 1]

LEMMA KeepsGrow ==
  ASSUME NEW A, NEW S, NEW n \in Nat, NEW s, NEW t, Keeps(A, s, S, n, t),
         s[n + 1] \in A
  PROVE  Keeps(A, s, S, n + 1,
           [k \in 0 .. n + 1 |->
              IF k <= n THEN t[k]
              ELSE IF s[n + 1] \in S THEN Append(t[n], s[n + 1]) ELSE t[n]])
<1> DEFINE v == IF s[n + 1] \in S THEN Append(t[n], s[n + 1]) ELSE t[n]
           u == [k \in 0 .. n + 1 |-> IF k <= n THEN t[k] ELSE v]
<1>1. t \in [0 .. n -> Seq(A)] /\ t[0] = <<>>
  BY DEF Keeps
<1>2. \A k \in 1 .. n :
        t[k] = IF s[k] \in S THEN Append(t[k - 1], s[k]) ELSE t[k - 1]
  BY DEF Keeps
<1>3. v \in Seq(A)
  <2>1. t[n] \in Seq(A)
    BY <1>1
  <2> QED
    BY <2>1, AppendProperties
<1>4. u[n + 1] = v /\ u[n] = t[n] /\ (n + 1) - 1 = n
  OBVIOUS
<1>5. u[n + 1] = IF s[n + 1] \in S THEN Append(u[(n + 1) - 1], s[n + 1])
                 ELSE u[(n + 1) - 1]
  <2> HIDE DEF u
  <2> QED
    BY <1>4
<1> HIDE DEF v
<1>6. u \in [0 .. n + 1 -> Seq(A)] /\ u[0] = <<>>
  BY <1>1, <1>3
<1>7. \A k \in 1 .. n : u[k] = t[k] /\ u[k - 1] = t[k - 1]
  OBVIOUS
<1> HIDE DEF u
<1>8. \A k \in 1 .. n + 1 : k \in 1 .. n \/ k = n + 1
  OBVIOUS
<1>9. Keeps(A, s, S, n + 1, u)
  BY <1>2, <1>5, <1>6, <1>7, <1>8 DEF Keeps
<1> QED
  BY <1>9 DEF u, v

LEMMA KeepsExist ==
  ASSUME NEW A, NEW S, NEW s \in Seq(A)
  PROVE  \E t : Keeps(A, s, S, Len(s), t)
<1> DEFINE N == {n \in Nat : n <= Len(s) => \E t : Keeps(A, s, S, n, t)}
<1>1. 0 \in N
  <2>1. Keeps(A, s, S, 0, [k \in 0 .. 0 |-> <<>>])
    BY EmptySeq DEF Keeps
  <2> QED
    BY <2>1
<1>2. ASSUME NEW n \in Nat, n \in N PROVE n + 1 \in N
  <2> SUFFICES ASSUME n + 1 <= Len(s)
               PROVE  \E t : Keeps(A, s, S, n + 1, t)
    OBVIOUS
  <2>1. n <= Len(s) /\ n + 1 \in 1 .. Len(s)
    BY LenProperties
  <2>2. PICK t : Keeps(A, s, S, n, t)
    BY <1>2, <2>1
  <2>3. s[n + 1] \in A
    BY <2>1, ElementOfSeq
  <2> QED
    BY <2>2, <2>3, KeepsGrow
<1>3. \A n \in Nat : n \in N
  <2> HIDE DEF N
  <2> QED
    BY <1>1, <1>2, Induct
<1> QED
  BY <1>3, LenProperties

\* Filter is the last of them.
LEMMA FilterKept ==
  ASSUME NEW A, NEW S, NEW s \in Seq(A), NEW t, Keeps(A, s, S, Len(s), t)
  PROVE  Filter(s, S) = t[Len(s)]
<1> DEFINE kept[k \in 0 .. Len(s)] ==
             IF k = 0 THEN <<>>
             ELSE IF s[k] \in S THEN Append(kept[k - 1], s[k])
             ELSE kept[k - 1]
<1>1. Filter(s, S) = kept[Len(s)]
  BY DEF Filter
<1>2. t = [k \in 0 .. Len(s) |->
             IF k = 0 THEN <<>>
             ELSE IF s[k] \in S THEN Append(t[k - 1], s[k])
             ELSE t[k - 1]]
  <2>1. \A k \in 0 .. Len(s) :
          t[k] = IF k = 0 THEN <<>>
                 ELSE IF s[k] \in S THEN Append(t[k - 1], s[k])
                 ELSE t[k - 1]
    <3> TAKE k \in 0 .. Len(s)
    <3>1. k = 0 \/ k \in 1 .. Len(s)
      BY LenProperties
    <3>2. k \in 1 .. Len(s) => k # 0
      BY LenProperties
    <3> QED
      BY <3>1, <3>2 DEF Keeps
  <2>2. t \in [0 .. Len(s) -> Seq(A)]
    BY DEF Keeps
  <2> QED
    BY <2>1, <2>2
<1>3. kept = [k \in 0 .. Len(s) |->
                IF k = 0 THEN <<>>
                ELSE IF s[k] \in S THEN Append(kept[k - 1], s[k])
                ELSE kept[k - 1]]
  BY <1>2 DEF kept
<1> HIDE DEF kept
<1> DEFINE N == {n \in Nat : n <= Len(s) => kept[n] = t[n]}
<1>4. 0 \in N
  BY <1>3, LenProperties DEF Keeps
<1>5. ASSUME NEW n \in Nat, n \in N PROVE n + 1 \in N
  <2> SUFFICES ASSUME n + 1 <= Len(s) PROVE kept[n + 1] = t[n + 1]
    OBVIOUS
  <2>1. n <= Len(s) /\ n + 1 \in 1 .. Len(s) /\ n + 1 \in 0 .. Len(s)
    BY LenProperties
  <2>2. kept[n] = t[n] /\ (n + 1) - 1 = n /\ n + 1 # 0
    BY <1>5, <2>1
  <2>3. t[n + 1] = IF s[n + 1] \in S THEN Append(t[(n + 1) - 1], s[n + 1])
                   ELSE t[(n + 1) - 1]
    BY <2>1 DEF Keeps
  <2>4. kept[n + 1] =
          IF s[n + 1] \in S THEN Append(kept[(n + 1) - 1], s[n + 1])
          ELSE kept[(n + 1) - 1]
    BY <1>3, <2>1, <2>2
  <2> QED
    BY <2>2, <2>3, <2>4
<1>6. \A n \in Nat : n \in N
  <2> HIDE DEF N
  <2> QED
    BY <1>4, <1>5, Induct
<1> QED
  BY <1>1, <1>6, LenProperties

LEMMA FilterEmpty ==
  ASSUME NEW S
  PROVE  Filter(<<>>, S) = <<>>
<1>1. <<>> \in Seq({}) /\ Len(<<>>) = 0
  BY EmptySeq
<1>2. PICK t : Keeps({}, <<>>, S, Len(<<>>), t)
  BY <1>1, KeepsExist
<1>3. Filter(<<>>, S) = t[Len(<<>>)]
  BY <1>1, <1>2, FilterKept
<1> QED
  BY <1>1, <1>2, <1>3 DEF Keeps

LEMMA FilterAppend ==
  ASSUME NEW A, NEW S, NEW s \in Seq(A), NEW x \in A
  PROVE  /\ Filter(s, S) \in Seq(A)
         /\ Filter(Append(s, x), S) =
              IF x \in S THEN Append(Filter(s, S), x) ELSE Filter(s, S)
<1> DEFINE r == Append(s, x)
           n == Len(s)
<1>1. /\ r \in Seq(A) /\ n \in Nat /\ Len(r) = n + 1
      /\ r[n + 1] = x /\ \A k \in 1 .. n : r[k] = s[k]
  BY AppendProperties, LenProperties
<1>2. PICK t : Keeps(A, s, S, n, t)
  BY KeepsExist
<1>3. Filter(s, S) = t[n]
  BY <1>2, FilterKept
<1> HIDE DEF r, n
<1>4. Keeps(A, r, S, n, t)
  BY <1>1, <1>2 DEF Keeps
<1> DEFINE u == [k \in 0 .. n + 1 |->
                   IF k <= n THEN t[k]
                   ELSE IF r[n + 1] \in S THEN Append(t[n], r[n + 1])
                   ELSE t[n]]
<1>5. Keeps(A, r, S, n + 1, u)
  BY <1>1, <1>4, KeepsGrow
<1>6. u[n + 1] = IF x \in S THEN Append(t[n], x) ELSE t[n]
  BY <1>1
<1> HIDE DEF u
<1>7. Filter(r, S) = u[n + 1]
  BY <1>1, <1>5, FilterKept
<1>8. t[n] \in Seq(A)
  BY <1>1, <1>2 DEF Keeps
<1> QED
  BY <1>3, <1>6, <1>7, <1>8 DEF r

\* Induction over sequences, with a set for the predicate.
LEMMA SeqInduct ==
  ASSUME NEW A, NEW P, <<>> \in P,
         \A s \in Seq(A), x \in A : s \in P => Append(s, x) \in P
  PROVE  Seq(A) \subseteq P
<1> DEFINE N == {n \in Nat : \A s \in Seq(A) : Len(s) = n => s \in P}
<1>1. 0 \in N
  BY EmptySeq
<1>2. ASSUME NEW n \in Nat, n \in N PROVE n + 1 \in N
  <2> SUFFICES ASSUME NEW s \in Seq(A), Len(s) = n + 1 PROVE s \in P
    OBVIOUS
  <2>1. s # <<>>
    BY EmptySeq
  <2>2. PICK r \in Seq(A), x \in A : s = Append(r, x)
    BY <2>1, SequenceEmptyOrAppend
  <2>3. Len(r) \in Nat /\ Len(s) = Len(r) + 1
    BY <2>2, AppendProperties, LenProperties
  <2>4. r \in P
    BY <1>2, <2>3
  <2> QED
    BY <2>2, <2>4
<1>3. \A n \in Nat : n \in N
  <2> HIDE DEF N
  <2> QED
    BY <1>1, <1>2, Induct
<1> QED
  BY <1>3, LenProperties

LEMMA FilterType ==
  ASSUME NEW A, NEW S, NEW s \in Seq(A)
  PROVE  Filter(s, S) \in Seq(A)
<1>1. PICK t : Keeps(A, s, S, Len(s), t)
  BY KeepsExist
<1>2. Filter(s, S) = t[Len(s)]
  BY <1>1, FilterKept
<1> QED
  BY <1>1, <1>2, LenProperties DEF Keeps

\* An element added to two parts is added to the second.
LEMMA AppendConcat ==
  ASSUME NEW A, NEW s \in Seq(A), NEW r \in Seq(A), NEW x \in A
  PROVE  s \o Append(r, x) = Append(s \o r, x)
<1>1. <<x>> \in Seq(A) /\ s \o r \in Seq(A)
  BY ConcatProperties
<1>2. Append(r, x) = r \o <<x>> /\ Append(s \o r, x) = (s \o r) \o <<x>>
  BY <1>1, AppendIsConcat
<1>3. (s \o r) \o <<x>> = s \o (r \o <<x>>)
  BY <1>1, ConcatAssociative
<1> QED
  BY <1>2, <1>3

\* Two parts are kept one after the other.
LEMMA FilterConcat ==
  ASSUME NEW A, NEW S, NEW s \in Seq(A), NEW t \in Seq(A)
  PROVE  Filter(s \o t, S) = Filter(s, S) \o Filter(t, S)
<1> DEFINE P == {r \in Seq(A) :
                  Filter(s \o r, S) = Filter(s, S) \o Filter(r, S)}
<1>1. <<>> \in P
  <2>1. Filter(s, S) \in Seq(A) /\ <<>> \in Seq(A)
    BY FilterType, EmptySeq
  <2>2. s \o <<>> = s /\ Filter(s, S) \o <<>> = Filter(s, S)
    BY <2>1, ConcatEmptySeq
  <2> QED
    BY <2>1, <2>2, FilterEmpty
<1>2. ASSUME NEW r \in Seq(A), NEW x \in A, r \in P PROVE Append(r, x) \in P
  <2> DEFINE f == Filter(s, S)
             h == Filter(r, S)
             w == s \o r
  <2>1. f \in Seq(A) /\ h \in Seq(A) /\ w \in Seq(A) /\ Append(r, x) \in Seq(A)
    BY FilterType, ConcatProperties, AppendProperties
  <2>2. Filter(w, S) = f \o h
    BY <1>2
  <2>3. s \o Append(r, x) = Append(w, x)
    BY <1>2, AppendConcat
  <2>4. f \o Append(h, x) = Append(f \o h, x)
    BY <2>1, AppendConcat
  <2>5. Filter(Append(r, x), S) = IF x \in S THEN Append(h, x) ELSE h
    BY <1>2, FilterAppend
  <2> HIDE DEF f, h, w
  <2>6. /\ Filter(Append(w, x), S) =
             IF x \in S THEN Append(Filter(w, S), x) ELSE Filter(w, S)
        /\ Filter(Append(r, x), S) = IF x \in S THEN Append(h, x) ELSE h
    BY <1>2, <2>1, <2>5, FilterAppend
  <2>7. Filter(s \o Append(r, x), S) = f \o Filter(Append(r, x), S)
    <3>1. Filter(s \o Append(r, x), S) = Filter(Append(w, x), S)
      BY <2>3
    <3>2. CASE x \in S
      <4>1. Filter(Append(w, x), S) = Append(f \o h, x)
        BY <2>2, <2>6, <3>2
      <4>2. Filter(Append(r, x), S) = Append(h, x)
        BY <2>6, <3>2
      <4> QED
        BY <2>4, <3>1, <4>1, <4>2
    <3>3. CASE x \notin S
      <4>1. Filter(Append(w, x), S) = f \o h
        BY <2>2, <2>6, <3>3
      <4>2. Filter(Append(r, x), S) = h
        BY <2>6, <3>3
      <4> QED
        BY <3>1, <4>1, <4>2
    <3> QED
      BY <3>2, <3>3
  <2> QED
    BY <2>1, <2>7 DEF f
<1>3. Seq(A) \subseteq P
  <2> HIDE DEF P
  <2> QED
    BY <1>1, <1>2, SeqInduct
<1> QED
  BY <1>3

\* What is kept of what is kept.
LEMMA FilterTwice ==
  ASSUME NEW A, NEW S, NEW T, NEW s \in Seq(A)
  PROVE  Filter(Filter(s, S), T) = Filter(s, S \cap T)
<1> DEFINE P == {r \in Seq(A) : Filter(Filter(r, S), T) = Filter(r, S \cap T)}
<1>1. <<>> \in P
  BY FilterEmpty, EmptySeq
<1>2. ASSUME NEW r \in Seq(A), NEW x \in A, r \in P PROVE Append(r, x) \in P
  <2> DEFINE h == Filter(r, S)
             U == S \cap T
  <2>1. h \in Seq(A) /\ Append(r, x) \in Seq(A)
    BY FilterType, AppendProperties
  <2>2. Filter(Append(r, x), S) = IF x \in S THEN Append(h, x) ELSE h
    BY FilterAppend
  <2>3. Filter(Append(h, x), T) =
          IF x \in T THEN Append(Filter(h, T), x) ELSE Filter(h, T)
    BY <2>1, FilterAppend
  <2>4. Filter(Append(r, x), U) =
          IF x \in U THEN Append(Filter(r, U), x) ELSE Filter(r, U)
    BY FilterAppend
  <2>5. x \in U <=> x \in S /\ x \in T
    OBVIOUS
  <2>6. Filter(h, T) = Filter(r, U)
    BY <1>2
  <2> HIDE DEF h, U
  <2>7. Filter(Filter(Append(r, x), S), T) = Filter(Append(r, x), U)
    BY <2>2, <2>3, <2>4, <2>5, <2>6
  <2> QED
    BY <2>1, <2>7 DEF U
<1>3. Seq(A) \subseteq P
  <2> HIDE DEF P
  <2> QED
    BY <1>1, <1>2, SeqInduct
<1> QED
  BY <1>3

-----------------------------------------------------------------------------
(***************************************************************************)
(* From the gateways to the radios.  The topic holds, of each source and   *)
(* in its order, what came of it, but for a packet that a thread is about  *)
(* to dispatch; and a gateway has written what it wants of the part that   *)
(* it has taken.                                                           *)
(***************************************************************************)
By(s)      == {p \in Packet : p.from = s}
Wanting(g) == {p \in Packet : Wanted(g, p)}
ToBeWritten(g, s) == {p \in Packet : s # g /\ p.to \in {g, Everyone}}

\* What g has added to the topic.
Dispatched(g) ==
  IF pc[g] = "dispatch" THEN SubSeq(inbound[g], 1, Len(inbound[g]) - 1)
  ELSE inbound[g]

Collected(g) ==
  Filter(topic, By(g)) = Dispatched(g) /\ inbound[g] \in Seq(By(g))

Written(g) == radio[g] = Filter(SubSeq(topic, 1, taken[g]), Wanting(g))

RelayInv ==
  /\ \A g \in Gateways : Collected(g) /\ Written(g)
  /\ Filter(topic, By(Controller)) = offered[Controller]

\* The first n elements of a sequence, and the others.
LEMMA TakenPart ==
  ASSUME NEW A, NEW s \in Seq(A), NEW n \in 0 .. Len(s)
  PROVE  /\ SubSeq(s, 1, n) \in Seq(A) /\ From(s, n) \in Seq(A)
         /\ s = SubSeq(s, 1, n) \o From(s, n)
<1>1. Len(s) \in Nat /\ n \in Nat
  BY LenProperties
<1>2. SubSeq(s, 1, n) \in Seq(A) /\ From(s, n) \in Seq(A)
  BY <1>1, PrefixType, FromType
<1>3. /\ 1 \in 1 .. Len(s) + 1 /\ n \in 1 - 1 .. Len(s)
      /\ Len(s) \in n .. Len(s)
  BY <1>1
<1>4. SubSeq(s, 1, n) \o SubSeq(s, n + 1, Len(s)) = SubSeq(s, 1, Len(s))
  BY <1>3, ConcatAdjacentSubSeq
<1>5. SubSeq(s, 1, Len(s)) = s
  BY SubSeqFull
<1> QED
  BY <1>2, <1>4, <1>5 DEF From

\* One more element is taken.
LEMMA TakenNext ==
  ASSUME NEW A, NEW s \in Seq(A), NEW n \in 0 .. Len(s), n < Len(s)
  PROVE  SubSeq(s, 1, n + 1) = Append(SubSeq(s, 1, n), s[n + 1])
<1>1. Len(s) \in Nat /\ n \in Nat
  BY LenProperties
<1>2. /\ 1 \in 1 .. Len(s) /\ n + 1 \in 1 .. Len(s)
      /\ (n + 1) - 1 = n
  BY <1>1
<1>3. SubSeq(s, 1, n + 1) = SubSeq(s, 1, (n + 1) - 1) \o <<s[n + 1]>>
  <2>1. n + 1 \in 1 .. Len(s) /\ 1 \in 1 .. Len(s)
    BY <1>2
  <2> QED
    BY <2>1, SubSeqRecursiveSecond
<1>4. s[n + 1] \in A /\ SubSeq(s, 1, n) \in Seq(A)
  BY <1>2, ElementOfSeq, PrefixType
<1>5. Append(SubSeq(s, 1, n), s[n + 1]) = SubSeq(s, 1, n) \o <<s[n + 1]>>
  BY <1>4, AppendIsConcat
<1> QED
  BY <1>2, <1>3, <1>5

\* A packet is added to the topic: a gateway has taken what it had.
LEMMA TopicAppends ==
  ASSUME TypeOK, NEW p \in Packet, topic' = Append(topic, p),
         NEW g \in Gateways
  PROVE  SubSeq(topic', 1, taken[g]) = SubSeq(topic, 1, taken[g])
<1> DEFINE n == taken[g]
<1>1. topic \in Seq(Packet) /\ n \in 0 .. Len(topic) /\ Len(topic) \in Nat
  BY LenProperties DEF TypeOK
<1>2. topic' = topic \o <<p>> /\ <<p>> \in Seq(Packet)
  BY <1>1, AppendIsConcat
<1> HIDE DEF n
<1>3. CASE n = 0
  BY <1>3, SubSeqEmpty DEF n
<1>4. CASE n # 0
  <2>1. 1 \in 1 .. Len(topic) /\ n \in 1 .. Len(topic)
    BY <1>1, <1>4
  <2> QED
    BY <1>1, <1>2, <2>1, SubSeqOfConcat1 DEF n
<1> QED
  BY <1>3, <1>4

\* A step that leaves the topic and its readers alone.
LEMMA RelaySame ==
  ASSUME RelayInv, UNCHANGED <<pc, inbound, topic, taken, radio>>,
         offered'[Controller] = offered[Controller]
  PROVE  RelayInv'
BY DEF RelayInv, Collected, Written, Dispatched

LEMMA IssueRelay ==
  ASSUME TypeOK, RelayInv, Issue
  PROVE  RelayInv'
<1>1. PICK to \in Gateways \cup {Everyone} :
        LET packet == [from |-> Controller, to |-> to, body |-> <<>>]
        IN /\ topic' = Append(topic, packet)
           /\ offered' = [offered EXCEPT ![Controller] = Append(@, packet)]
           /\ UNCHANGED <<wire, buffer, pc, inbound, taken, radio, astray,
                          sent, damage>>
  BY DEF Issue
<1> DEFINE packet == [from |-> Controller, to |-> to, body |-> <<>>]
<1>2. packet \in Packet /\ packet.from = Controller
  BY EmptySeq DEF Packet, Sources
<1>3. /\ topic' = Append(topic, packet)
      /\ offered' = [offered EXCEPT ![Controller] = Append(@, packet)]
      /\ UNCHANGED <<pc, inbound, taken, radio>>
  BY <1>1
<1> HIDE DEF packet
<1>4. topic \in Seq(Packet) /\ Controller \in Sources
  BY DEF TypeOK, Sources
<1>5. ASSUME NEW g \in Gateways PROVE Collected(g)' /\ Written(g)'
  <2>1. g # Controller /\ packet \notin By(g)
    BY <1>2, GatewaysAssumption DEF By
  <2>2. Filter(topic', By(g)) = Filter(topic, By(g))
    BY <1>2, <1>3, <1>4, <2>1, FilterAppend
  <2>3. SubSeq(topic', 1, taken[g]) = SubSeq(topic, 1, taken[g])
    BY <1>2, <1>3, TopicAppends
  <2> QED
    BY <1>3, <2>2, <2>3 DEF RelayInv, Collected, Written, Dispatched
<1>6. Filter(topic', By(Controller)) = offered'[Controller]
  <2>1. packet \in By(Controller)
    BY <1>2 DEF By
  <2>2. Filter(topic', By(Controller)) =
          Append(Filter(topic, By(Controller)), packet)
    BY <1>2, <1>3, <1>4, <2>1, FilterAppend
  <2>3. offered'[Controller] = Append(offered[Controller], packet)
    BY <1>3, <1>4 DEF TypeOK
  <2> QED
    BY <2>2, <2>3 DEF RelayInv
<1> QED
  BY <1>5, <1>6 DEF RelayInv

LEMMA InboundRelay ==
  ASSUME TypeOK, RelayInv, NEW g \in Gateways, HandleInbound(g)
  PROVE  RelayInv'
<1>1. PICK n \in (IF wire[g] = <<>> THEN {0} ELSE 1 .. Len(wire[g])) :
        LET b == buffer[g] \o SubSeq(wire[g], 1, n)
        IN \/ ReadIncomplete(g, b) \/ Prune(g, b) \/ Discard(g, b)
           \/ ReadShort(g, b) \/ Refuse(g, b) \/ Accept(g, b)
  BY DEF HandleInbound
<1> DEFINE b == buffer[g] \o SubSeq(wire[g], 1, n)
<1>2. b \in Seq(Bytes)
  <2>1. buffer[g] \in Seq(Bytes) /\ wire[g] \in Seq(Bytes)
    BY DEF TypeOK
  <2>2. n \in 0 .. Len(wire[g])
    BY <1>1, <2>1, LenProperties
  <2> QED
    BY <2>1, <2>2, PrefixType, ConcatProperties
<1>3. \/ ReadIncomplete(g, b) \/ Prune(g, b) \/ Discard(g, b)
      \/ ReadShort(g, b) \/ Refuse(g, b) \/ Accept(g, b)
  BY <1>1
<1> HIDE DEF b
<1>4. pc[g] = "in" /\ UNCHANGED <<topic, taken, radio, offered>>
  BY DEF HandleInbound
<1>5. ASSUME pc'[g] # "dispatch", UNCHANGED inbound,
             \A h \in Gateways \ {g} : pc'[h] = pc[h]
      PROVE  RelayInv'
  <2>1. \A h \in Gateways : Dispatched(h)' = Dispatched(h)
    BY <1>4, <1>5 DEF Dispatched
  <2> QED
    BY <1>4, <1>5, <2>1 DEF RelayInv, Collected, Written
<1>6. CASE \/ ReadIncomplete(g, b) \/ Prune(g, b) \/ Discard(g, b)
           \/ ReadShort(g, b) \/ Refuse(g, b)
  BY <1>5, <1>6
  DEF ReadIncomplete, Prune, Discard, ReadShort, Refuse, Turn, TypeOK
<1>7. CASE Accept(g, b)
  <2> DEFINE c == Convert(g, Payload(b))
  <2>1. Packets(g, Payload(b)) = <<c>>
    BY <1>7 DEF Accept, Packets
  <2>2. c \in By(g) /\ c \in Packet
    <3>1. Packets(g, Payload(b)) \in Seq(Packet)
      BY <1>2, <1>7, CompleteType, ConvertType DEF Accept, Readable
    <3>2. c.from = g
      BY DEF Convert
    <3> HIDE DEF c
    <3>3. c \in Packet
      BY <2>1, <3>1
    <3> QED
      BY <3>2, <3>3 DEF By
  <2> HIDE DEF c
  <2>3. inbound' = [inbound EXCEPT ![g] = inbound[g] \o <<c>>]
    BY <1>7, <2>1 DEF Accept
  <2>4. pc' = [pc EXCEPT ![g] = "dispatch"]
    BY <1>7 DEF Accept
  <2>5. ASSUME NEW h \in Gateways, h # g PROVE Collected(h)' /\ Written(h)'
    BY <1>4, <2>3, <2>4, <2>5
    DEF RelayInv, Collected, Written, Dispatched, TypeOK
  <2>6. Collected(g)
    BY DEF RelayInv
  <2>7. inbound[g] \in Seq(By(g)) /\ Filter(topic, By(g)) = inbound[g]
    BY <1>4, <2>6 DEF Collected, Dispatched
  <2>8. inbound'[g] = inbound[g] \o <<c>> /\ pc'[g] = "dispatch"
    BY <2>3, <2>4 DEF TypeOK
  <2> DEFINE i == inbound[g]
             j == i \o <<c>>
  <2>9. /\ j \in Seq(By(g)) /\ Len(j) = Len(i) + 1 /\ Len(i) \in Nat
        /\ j = Append(i, c)
    <3>1. i \in Seq(By(g)) /\ <<c>> \in Seq(By(g)) /\ Len(<<c>>) = 1
      BY <2>2, <2>7
    <3> HIDE DEF i
    <3>2. Append(i, c) = i \o <<c>>
      BY <2>2, <3>1, AppendIsConcat
    <3> QED
      BY <3>1, <3>2, ConcatProperties, LenProperties
  <2>10. SubSeq(j, 1, Len(j) - 1) = i
    <3>1. i \in Seq(By(g))
      BY <2>7
    <3> HIDE DEF i, j
    <3>2. Len(i) \in 0 .. Len(j) /\ Len(j) - 1 = Len(i)
      BY <2>9
    <3>3. SubSeq(j, 1, Len(i)) \in Seq(By(g))
      BY <2>9, <3>2, PrefixType
    <3>4. /\ 1 \in Int /\ Len(i) \in Int
          /\ \A k \in 1 .. Len(i) : j[k] \in By(g)
      BY <2>9, LenProperties
    <3>5. /\ Len(SubSeq(j, 1, Len(i))) = Len(i)
          /\ \A k \in 1 .. Len(i) : SubSeq(j, 1, Len(i))[k] = j[k]
      <4>1. /\ Len(SubSeq(j, 1, Len(i))) =
                 IF 1 <= Len(i) THEN Len(i) - 1 + 1 ELSE 0
            /\ \A k \in 1 .. Len(i) - 1 + 1 :
                 SubSeq(j, 1, Len(i))[k] = j[1 + k - 1]
        BY <3>4, SubSeqProperties
      <4>2. \A k \in 1 .. Len(i) : 1 + k - 1 = k
        OBVIOUS
      <4> QED
        BY <2>9, <4>1, <4>2
    <3>6. \A k \in 1 .. Len(i) : j[k] = i[k]
      BY <2>2, <2>9, <3>1, AppendProperties
    <3>7. SubSeq(j, 1, Len(i)) = i
      BY <3>1, <3>3, <3>5, <3>6, SeqEqual
    <3> QED
      BY <3>2, <3>7
  <2>11. Dispatched(g)' = i
    <3> HIDE DEF j
    <3>1. inbound'[g] = j
      BY <2>8 DEF j
    <3> QED
      BY <2>8, <2>10, <3>1 DEF Dispatched
  <2>12. Collected(g)'
    BY <1>4, <2>7, <2>8, <2>9, <2>11 DEF Collected
  <2>13. Written(g)'
    BY <1>4 DEF RelayInv, Written
  <2> QED
    BY <1>4, <2>5, <2>12, <2>13 DEF RelayInv
<1> QED
  BY <1>3, <1>6, <1>7

LEMMA DispatchRelay ==
  ASSUME TypeOK, RelayInv, NEW g \in Gateways, Dispatch(g)
  PROVE  RelayInv'
<1> DEFINE i == inbound[g]
           p == Last(i)
<1>1. /\ topic' = Append(topic, p) /\ pc' = [pc EXCEPT ![g] = "out"]
      /\ UNCHANGED <<inbound, taken, radio, offered>>
  BY DEF Dispatch, line
<1>2. /\ Filter(topic, By(g)) = SubSeq(i, 1, Len(i) - 1)
      /\ i \in Seq(By(g)) /\ i # <<>>
  BY DEF RelayInv, Collected, Dispatched, Dispatch, TypeOK
<1>3. Len(i) \in 1 .. Len(i) /\ Len(i) \in Nat
  BY <1>2, EmptySeq, LenProperties
<1>4. p \in By(g) /\ p \in Packet /\ p.from = g
  <2>1. p \in By(g)
    BY <1>2, <1>3, ElementOfSeq DEF Last
  <2> QED
    BY <2>1 DEF By
<1>5. Append(SubSeq(i, 1, Len(i) - 1), p) = i
  <2>1. Len(i) - 1 \in 0 .. Len(i) /\ Len(i) - 1 < Len(i)
        /\ (Len(i) - 1) + 1 = Len(i)
    BY <1>3
  <2> HIDE DEF i
  <2>2. SubSeq(i, 1, (Len(i) - 1) + 1) =
          Append(SubSeq(i, 1, Len(i) - 1), i[(Len(i) - 1) + 1])
    BY <1>2, <2>1, TakenNext
  <2>3. SubSeq(i, 1, Len(i)) = i
    BY <1>2, SubSeqFull
  <2> QED
    BY <2>1, <2>2, <2>3 DEF Last
<1>6. topic \in Seq(Packet)
  BY DEF TypeOK
<1> HIDE DEF p
<1>7. ASSUME NEW h \in Gateways PROVE Written(h)'
  <2>1. SubSeq(topic', 1, taken[h]) = SubSeq(topic, 1, taken[h])
    BY <1>1, <1>4, TopicAppends
  <2> QED
    BY <1>1, <2>1 DEF RelayInv, Written
<1>8. ASSUME NEW h \in Gateways, h # g PROVE Collected(h)'
  <2>1. p \notin By(h)
    BY <1>4, <1>8 DEF By
  <2>2. Filter(topic', By(h)) = Filter(topic, By(h))
    BY <1>1, <1>4, <1>6, <2>1, FilterAppend
  <2> QED
    BY <1>1, <1>8, <2>2 DEF RelayInv, Collected, Dispatched, TypeOK
<1>9. Collected(g)'
  <2>1. Filter(topic', By(g)) = Append(Filter(topic, By(g)), p)
    BY <1>1, <1>4, <1>6, FilterAppend
  <2>2. Filter(topic', By(g)) = i
    BY <1>2, <1>5, <2>1
  <2>3. Dispatched(g)' = i
    BY <1>1 DEF Dispatched, TypeOK
  <2> QED
    BY <1>1, <1>2, <2>2, <2>3 DEF Collected
<1>10. Filter(topic', By(Controller)) = offered'[Controller]
  <2>1. p \notin By(Controller)
    BY <1>4, GatewaysAssumption DEF By
  <2>2. Filter(topic', By(Controller)) = Filter(topic, By(Controller))
    BY <1>1, <1>4, <1>6, <2>1, FilterAppend
  <2> QED
    BY <1>1, <2>2 DEF RelayInv
<1> QED
  BY <1>7, <1>8, <1>9, <1>10 DEF RelayInv

LEMMA WriteRelay ==
  ASSUME TypeOK, RelayInv, NEW g \in Gateways, Write(g)
  PROVE  RelayInv'
<1> DEFINE n == taken[g]
           p == topic[n + 1]
           before == SubSeq(topic, 1, n)
<1>1. topic \in Seq(Packet) /\ n \in 0 .. Len(topic) /\ n < Len(topic)
  BY DEF TypeOK, Write
<1>2. /\ UNCHANGED <<pc, inbound, topic, offered>>
      /\ taken' = [taken EXCEPT ![g] = n + 1]
      /\ radio' = IF Wanted(g, p) THEN [radio EXCEPT ![g] = Append(@, p)]
                  ELSE radio
  BY DEF Write, line
<1>3. ASSUME NEW h \in Gateways, h # g PROVE Written(h)'
  BY <1>2, <1>3 DEF RelayInv, Written, TypeOK
<1>4. ASSUME NEW h \in Gateways PROVE Collected(h)'
  BY <1>2 DEF RelayInv, Collected, Dispatched
<1>5. p \in Packet /\ before \in Seq(Packet)
  <2>1. n + 1 \in 1 .. Len(topic)
    BY <1>1, LenProperties
  <2> QED
    BY <1>1, <2>1, ElementOfSeq, PrefixType
<1>6. SubSeq(topic, 1, n + 1) = Append(before, p)
  BY <1>1, TakenNext
<1>7. p \in Wanting(g) <=> Wanted(g, p)
  BY <1>5 DEF Wanting
<1>8. radio[g] = Filter(before, Wanting(g))
  BY DEF RelayInv, Written
<1>9. taken'[g] = n + 1
  BY <1>2 DEF TypeOK
<1>10. radio'[g] = IF Wanted(g, p) THEN Append(radio[g], p) ELSE radio[g]
  BY <1>2 DEF TypeOK
<1> HIDE DEF n, p, before
<1>11. Filter(Append(before, p), Wanting(g)) =
         IF p \in Wanting(g) THEN Append(Filter(before, Wanting(g)), p)
         ELSE Filter(before, Wanting(g))
  BY <1>5, FilterAppend
<1>12. radio'[g] = Filter(Append(before, p), Wanting(g))
  BY <1>7, <1>8, <1>10, <1>11
<1>13. Written(g)'
  BY <1>2, <1>6, <1>9, <1>12 DEF Written
<1> QED
  BY <1>2, <1>3, <1>4, <1>13 DEF RelayInv

LEMMA RelayInit == Init => RelayInv
<1> SUFFICES ASSUME Init PROVE RelayInv
  OBVIOUS
<1>1. topic = <<>> /\ offered[Controller] = <<>>
  BY DEF Init, Sources
<1>2. ASSUME NEW g \in Gateways PROVE Collected(g) /\ Written(g)
  <2>1. pc[g] = "in" /\ inbound[g] = <<>> /\ radio[g] = <<>> /\ taken[g] = 0
    BY DEF Init
  <2>2. SubSeq(topic, 1, 0) = <<>>
    BY SubSeqEmpty
  <2>3. <<>> \in Seq(By(g))
    BY EmptySeq
  <2> QED
    BY <1>1, <2>1, <2>2, <2>3, FilterEmpty DEF Collected, Written, Dispatched
<1> QED
  BY <1>1, <1>2, FilterEmpty DEF RelayInv

LEMMA RelayNext == TypeOK /\ RelayInv /\ [Next]_vars => RelayInv'
<1> SUFFICES ASSUME TypeOK, RelayInv, [Next]_vars PROVE RelayInv'
  OBVIOUS
<1>1. ASSUME NEW g \in Talking, SendWhole(g) \/ SendDamaged(g) \/ SendNoise(g)
      PROVE  RelayInv'
  <2>1. g \in Gateways /\ g # Controller
    BY GatewaysAssumption
  <2>2. UNCHANGED <<pc, inbound, topic, taken, radio>>
    BY <1>1 DEF SendWhole, SendDamaged, SendNoise, Transmit
  <2>3. offered'[Controller] = offered[Controller]
    BY <1>1, <2>1 DEF SendWhole, SendDamaged, SendNoise, TypeOK, Sources
  <2> QED
    BY <2>2, <2>3, RelaySame
<1>2. CASE Issue
  BY <1>2, IssueRelay
<1>3. ASSUME NEW g \in Gateways, Run(g) PROVE RelayInv'
  <2>1. CASE HandleInbound(g)
    BY <2>1, InboundRelay
  <2>2. CASE Dispatch(g)
    BY <2>2, DispatchRelay
  <2>3. CASE Write(g)
    BY <2>3, WriteRelay
  <2>4. CASE Drained(g)
    <3>1. \A h \in Gateways : Dispatched(h)' = Dispatched(h)
      BY <2>4 DEF Drained, Dispatched, TypeOK
    <3> QED
      BY <2>4, <3>1 DEF RelayInv, Collected, Written, Drained, line
  <2> QED
    BY <1>3, <2>1, <2>2, <2>3, <2>4 DEF Run, HandleOutbound
<1>4. CASE UNCHANGED vars
  BY <1>4, RelaySame DEF vars, line
<1> QED
  BY <1>1, <1>2, <1>3, <1>4 DEF Next

\* What came of a source is the topic of it, and what is to come.
LEMMA CameFirst ==
  ASSUME TypeOK, OrderInv, RelayInv, ~astray, NEW s \in Sources
  PROVE  \E q \in Seq(Packet) : offered[s] = Filter(topic, By(s)) \o q
<1>1. offered[s] \in Seq(Packet) /\ topic \in Seq(Packet)
  BY DEF TypeOK
<1>2. CASE s = Controller
  <2>1. offered[s] \o <<>> = offered[s] /\ <<>> \in Seq(Packet)
    BY <1>1, ConcatEmptySeq, EmptySeq
  <2> QED
    BY <1>2, <2>1 DEF RelayInv
<1>3. CASE s \in Gateways
  <2> DEFINE i == inbound[s]
             d == Dispatched(s)
  <2>1. i \in Seq(Packet)
    BY <1>3 DEF TypeOK
  <2>2. PICK q \in Seq(Packet) : offered[s] = i \o q
    BY <1>3 DEF OrderInv, Ordered, Owes
  <2>3. \E r \in Seq(Packet) : d \in Seq(Packet) /\ i = d \o r
    <3>1. CASE pc[s] = "dispatch"
      <4>1. i # <<>>
        BY <1>3, <3>1 DEF TypeOK
      <4>2. Len(i) - 1 \in 0 .. Len(i)
        BY <2>1, <4>1, EmptySeq
      <4>3. d = SubSeq(i, 1, Len(i) - 1)
        BY <3>1 DEF Dispatched
      <4> HIDE DEF d, i
      <4> DEFINE m == Len(i) - 1
                 r == From(i, m)
      <4>4. SubSeq(i, 1, m) \in Seq(Packet) /\ r \in Seq(Packet)
        BY <2>1, <4>2, TakenPart
      <4>5. i = SubSeq(i, 1, m) \o r
        BY <2>1, <4>2, TakenPart
      <4> HIDE DEF r
      <4> QED
        BY <4>3, <4>4, <4>5
    <3>2. CASE pc[s] # "dispatch"
      <4>1. d = i
        BY <3>2 DEF Dispatched
      <4> HIDE DEF d, i
      <4>2. i \o <<>> = i /\ <<>> \in Seq(Packet)
        BY <2>1, ConcatEmptySeq, EmptySeq
      <4> QED
        BY <2>1, <4>1, <4>2
    <3> QED
      BY <3>1, <3>2
  <2>4. PICK r \in Seq(Packet) : d \in Seq(Packet) /\ i = d \o r
    BY <2>3
  <2>5. Filter(topic, By(s)) = d
    BY <1>3 DEF RelayInv, Collected
  <2> HIDE DEF d, i
  <2>6. (d \o r) \o q = d \o (r \o q)
    BY <2>4, ConcatAssociative
  <2>7. r \o q \in Seq(Packet)
    BY ConcatProperties
  <2> QED
    BY <2>2, <2>4, <2>5, <2>6, <2>7
<1> QED
  BY <1>2, <1>3 DEF Sources

\* What a gateway has written of a source is the first part of what it owes.
LEMMA WrittenFirst ==
  ASSUME TypeOK, OrderInv, RelayInv, ~astray,
         NEW g \in Gateways, NEW s \in Sources
  PROVE  IsPrefix(Of(s, radio[g]), Due(g, s))
<1> DEFINE n      == taken[g]
           before == SubSeq(topic, 1, n)
           after  == From(topic, n)
           T      == ToBeWritten(g, s)
           first  == Filter(before, By(s))
           rest   == Filter(after, By(s))
<1>1. topic \in Seq(Packet) /\ n \in 0 .. Len(topic)
  BY DEF TypeOK
<1>2. /\ before \in Seq(Packet) /\ after \in Seq(Packet)
      /\ topic = before \o after
  BY <1>1, TakenPart
<1>3. Of(s, radio[g]) = Filter(Filter(before, Wanting(g)), By(s))
  BY DEF Of, By, RelayInv, Written
<1>4. Wanting(g) \cap By(s) = By(s) \cap T
  BY DEF Wanting, Wanted, By, ToBeWritten
<1>5. Due(g, s) = Filter(offered[s], T)
  BY DEF Due, ToBeWritten
<1> HIDE DEF before, after, T
<1>6. Of(s, radio[g]) = Filter(first, T)
  <2>1. Filter(Filter(before, Wanting(g)), By(s)) =
          Filter(before, Wanting(g) \cap By(s))
    BY <1>2, FilterTwice
  <2>2. Filter(Filter(before, By(s)), T) = Filter(before, By(s) \cap T)
    BY <1>2, FilterTwice
  <2> QED
    BY <1>3, <1>4, <2>1, <2>2
<1>7. Filter(topic, By(s)) = first \o rest
  BY <1>2, FilterConcat
<1>8. first \in Seq(Packet) /\ rest \in Seq(Packet)
  BY <1>2, FilterType
<1> HIDE DEF first, rest
<1>9. PICK q \in Seq(Packet) : offered[s] = (first \o rest) \o q
  BY <1>7, CameFirst
<1>10. /\ (first \o rest) \o q = first \o (rest \o q)
       /\ rest \o q \in Seq(Packet)
  <2>1. (first \o rest) \o q = first \o (rest \o q)
    BY <1>8, ConcatAssociative
  <2>2. rest \o q \in Seq(Packet)
    BY <1>8, ConcatProperties
  <2> QED
    BY <2>1, <2>2
<1> DEFINE more == rest \o q
<1>11. more \in Seq(Packet) /\ offered[s] = first \o more
  BY <1>9, <1>10
<1> HIDE DEF more
<1>12. Due(g, s) = Filter(first, T) \o Filter(more, T)
  BY <1>5, <1>8, <1>11, FilterConcat
<1>13. Filter(first, T) \in Seq(Packet) /\ Filter(more, T) \in Seq(Packet)
  BY <1>8, <1>11, FilterType
<1> QED
  BY <1>6, <1>12, <1>13, PrefixOfConcat

\* From end to end, for any gateways and any interleaving of their threads:
\* what a gateway has written to its radio of each source is a prefix of
\* what that source has for it.  No packet comes back to the network that it
\* is from, none is written twice, and none before an earlier one.
THEOREM RelayedInOrderCorrect == Spec => []RelayedInOrder
<1>1. TypeOK /\ OrderInv /\ RelayInv => RelayedInOrder
  BY WrittenFirst DEF RelayedInOrder
<1> QED
  BY <1>1, TypeCorrect, OrderInit, OrderNext, RelayInit, RelayNext, PTL
  DEF Spec

-----------------------------------------------------------------------------
(***************************************************************************)
(* What is left.  That a thread gets to the end of its bytes needs its     *)
(* fairness, and is checked; that it is not stopped by a byte, and that    *)
(* nothing is missing once it has none to read, does not.                  *)
(***************************************************************************)
\* No byte is on its way to g, and it has no more than a part of a frame.
Idle(g) == wire[g] = <<>> /\ Waits(buffer[g])

\* Nothing becomes nothing.
LEMMA ReadsNothing ==
  ASSUME NEW g \in Gateways, NEW qs, Reads(g, <<>>, qs)
  PROVE  qs = <<>>
<1> DEFINE C == {e \in Pairs : e[1] = <<>> => e[2] = <<>>}
<1>1. << <<>>, <<>> >> \in C
  BY EmptySeq DEF Pairs
<1>2. ASSUME NEW t \in Seq(Bytes), NEW ps \in Seq(Packet),
             NEW s1 \in Seq(Bytes), NEW qs1 \in Seq(Packet),
             Segment(g, t, ps), <<s1, qs1>> \in C
      PROVE  <<t \o s1, ps \o qs1>> \in C
  <2>1. t # <<>>
    BY <1>2, SegmentType
  <2>2. t \o s1 # <<>>
    BY <2>1, ConcatEqualIffEmpty
  <2>3. t \o s1 \in Seq(Bytes) /\ ps \o qs1 \in Seq(Packet)
    BY ConcatProperties
  <2> QED
    BY <2>2, <2>3 DEF Pairs
<1>3. Closed(g, C)
  <2> HIDE DEF C
  <2> QED
    BY <1>1, <1>2 DEF Closed
<1>4. << <<>>, qs >> \in C
  <2>1. C \in SUBSET Pairs
    OBVIOUS
  <2> HIDE DEF C
  <2> QED
    BY <1>3, <2>1 DEF Reads, Readings
<1> QED
  BY <1>4

\* When no byte is to come, a row of segments makes no thread wait: it is
\* empty.
LEMMA WaitsForNone ==
  ASSUME NEW g \in Gateways, NEW b \in Seq(Bytes), NEW qs,
         Reads(g, b, qs), Waits(b)
  PROVE  b = <<>> /\ qs = <<>>
<1>1. b = <<>>
  <2> SUFFICES ASSUME b # <<>> PROVE FALSE
    OBVIOUS
  <2>1. PICK t \in Seq(Bytes), ps \in Seq(Packet),
             s \in Seq(Bytes), qs1 \in Seq(Packet) :
          /\ Segment(g, t, ps) /\ Reads(g, s, qs1)
          /\ b = t \o s /\ qs = ps \o qs1
    <3>1. Begins(g, b, qs)
      BY ReadsBegin
    <3> QED
      BY <3>1 DEF Begins
  <2>2. ASSUME NEW p \in Payloads, Shaped(t, p) PROVE FALSE
    BY <2>1, <2>2, ShapedComplete DEF Waits
  <2>3. ASSUME NEW p \in Payloads, t = Frame(p) PROVE FALSE
    BY <2>2, <2>3, FrameShaped
  <2>4. ASSUME NEW p \in Payloads, Spoilt(t, p) PROVE FALSE
    <3>1. Shaped(t, p)
      BY <2>4, DamageNoticed, EmptySeq DEF Spoilt
    <3> QED
      BY <2>2, <3>1
  <2>5. ASSUME t \in Seq(Bytes \ {Delimiter}), t # <<>> PROVE FALSE
    <3>1. b \o <<>> = t \o s /\ <<>> \in Seq(Bytes)
      BY <2>1, ConcatEmptySeq, EmptySeq
    <3>2. Prunes(g, b, <<>>, qs1)
      BY <2>1, <2>5, <3>1, JunkRead
    <3> QED
      BY <3>2 DEF Prunes, Waits
  <2> QED
    BY <2>1, <2>3, <2>4, <2>5 DEF Segment
<1> QED
  BY <1>1, ReadsNothing

LEMMA IdleEmpty ==
  ASSUME TypeOK, OrderInv, ~astray, NEW g \in Gateways, Idle(g)
  PROVE  buffer[g] = <<>> /\ inbound[g] = offered[g]
<1>1. buffer[g] \in Seq(Bytes) /\ inbound[g] \in Seq(Packet)
  BY DEF TypeOK
<1>2. PICK qs \in Seq(Packet) :
        /\ Reads(g, buffer[g] \o wire[g], qs)
        /\ offered[g] = inbound[g] \o qs
  BY DEF OrderInv, Ordered, Owes
<1>3. buffer[g] \o wire[g] = buffer[g]
  BY <1>1, ConcatEmptySeq DEF Idle
<1>4. buffer[g] = <<>> /\ qs = <<>>
  BY <1>1, <1>2, <1>3, WaitsForNone DEF Idle
<1>5. inbound[g] \o <<>> = inbound[g]
  BY <1>1, ConcatEmptySeq
<1> QED
  BY <1>2, <1>4, <1>5

\* A gateway that waits, when no byte is on its way, waits for nothing: it
\* holds no byte, and the processes have got every packet that came whole.
THEOREM NothingLeft ==
  Spec => [](astray \/ \A g \in Gateways :
               Idle(g) => buffer[g] = <<>> /\ inbound[g] = offered[g])
<1>1. TypeOK /\ OrderInv =>
        (astray \/ \A g \in Gateways :
           Idle(g) => buffer[g] = <<>> /\ inbound[g] = offered[g])
  BY IdleEmpty
<1> QED
  BY <1>1, TypeCorrect, OrderInit, OrderNext, PTL DEF Spec

\* No gateway has a byte to read or a packet to dispatch or to write.
Quiet ==
  \A g \in Gateways :
    Idle(g) /\ pc[g] # "dispatch" /\ taken[g] = Len(topic)

LEMMA QuietWritten ==
  ASSUME TypeOK, OrderInv, RelayInv, ~astray, Quiet,
         NEW g \in Gateways, NEW s \in Sources
  PROVE  Of(s, radio[g]) = Due(g, s)
<1>1. topic \in Seq(Packet) /\ taken[g] = Len(topic)
  BY DEF TypeOK, Quiet
<1>2. SubSeq(topic, 1, taken[g]) = topic
  BY <1>1, SubSeqFull
<1>3. Filter(topic, By(s)) = offered[s]
  <2>1. CASE s = Controller
    BY <2>1 DEF RelayInv
  <2>2. CASE s \in Gateways
    <3>1. Filter(topic, By(s)) = inbound[s]
      BY <2>2 DEF RelayInv, Collected, Dispatched, Quiet
    <3>2. inbound[s] = offered[s]
      BY <2>2, IdleEmpty DEF Quiet
    <3> QED
      BY <3>1, <3>2
  <2> QED
    BY <2>1, <2>2 DEF Sources
<1> DEFINE T == ToBeWritten(g, s)
<1>4. Of(s, radio[g]) = Filter(Filter(topic, Wanting(g)), By(s))
  BY <1>2 DEF Of, By, RelayInv, Written
<1>5. Wanting(g) \cap By(s) = By(s) \cap T
  BY DEF Wanting, Wanted, By, ToBeWritten
<1>6. Due(g, s) = Filter(offered[s], T)
  BY DEF Due, ToBeWritten
<1> HIDE DEF T
<1>7. Filter(Filter(topic, Wanting(g)), By(s)) =
        Filter(topic, Wanting(g) \cap By(s))
  BY <1>1, FilterTwice
<1>8. Filter(Filter(topic, By(s)), T) = Filter(topic, By(s) \cap T)
  BY <1>1, FilterTwice
<1> QED
  BY <1>3, <1>4, <1>5, <1>6, <1>7, <1>8

\* When the threads have nothing to do, all is done: each gateway has written
\* exactly what it owes its network, of every gateway and of the processes.
THEOREM QuietRelayed ==
  Spec => [](astray \/ (Quiet => \A g \in Gateways, s \in Sources :
                                   Of(s, radio[g]) = Due(g, s)))
<1>1. TypeOK /\ OrderInv /\ RelayInv =>
        (astray \/ (Quiet => \A g \in Gateways, s \in Sources :
                               Of(s, radio[g]) = Due(g, s)))
  BY QuietWritten
<1> QED
  BY <1>1, TypeCorrect, OrderInit, OrderNext, RelayInit, RelayNext, PTL
  DEF Spec

\* What a thread has before it: a byte on its way is to come, and to be read.
Work(g) == 2 * Len(wire[g]) + Len(buffer[g])

\* What a turn leaves of the bytes in hand: they are fewer, or they wait.
LEMMA TurnLeaves ==
  ASSUME NEW g \in Gateways, NEW b \in Seq(Bytes), NEW w \in Seq(Bytes),
         NEW ins, NEW off, Owes(g, b, w, ins, off), buffer[g] \in Seq(Bytes),
         buffer \in [Gateways -> Seq(Bytes)],
         \/ ReadIncomplete(g, b) \/ Prune(g, b) \/ Discard(g, b)
         \/ ReadShort(g, b) \/ Refuse(g, b) \/ Accept(g, b)
  PROVE  \/ Waits(b) /\ buffer'[g] = b
         \/ Len(buffer'[g]) \in Nat /\ Len(buffer'[g]) < Len(b)
<1>1. PICK qs \in Seq(Packet) : Reads(g, b \o w, qs)
  BY DEF Owes
<1>2. \/ Waits(b) \/ Prunes(g, b, w, qs)
      \/ Discards(g, b, w, qs) \/ Takes(g, b, w, qs)
  BY <1>1, ReadOne
<1>3. /\ Complete(b) => Delimited(b)
      /\ Delimited(b) => b # <<>>
      /\ Readable(b) => Complete(b)
  BY DEF Complete, Delimited, Readable
<1>4. CASE ReadIncomplete(g, b)
  BY <1>4 DEF ReadIncomplete, Turn, Waits
<1>5. CASE Prune(g, b)
  <2>1. buffer'[g] = Tail(b) /\ b # <<>>
    BY <1>5 DEF Prune, Turn
  <2> QED
    BY <2>1, HeadTailProperties, LenProperties
<1>6. CASE Discard(g, b)
  <2>1. Discards(g, b, w, qs)
    BY <1>2, <1>3, <1>6 DEF Discard, Waits, Prunes, Takes
  <2>2. buffer'[g] = Discarded(b)
    BY <1>6 DEF Discard, Turn
  <2>3. Discarded(b) \in Seq(Bytes) /\ Len(Discarded(b)) < Len(b)
    BY <2>1, DiscardedType DEF Discards
  <2> QED
    BY <2>2, <2>3, LenProperties
<1>7. ASSUME Readable(b)
      PROVE  /\ Takes(g, b, w, qs)
             /\ Len(From(b, 4 + Length(b))) \in Nat
             /\ Len(From(b, 4 + Length(b))) < Len(b)
  <2>1. Takes(g, b, w, qs)
    BY <1>2, <1>3, <1>7 DEF Waits, Prunes, Discards
  <2>2. Length(b) \in Nat /\ Len(b) >= 4 + Length(b) /\ Len(b) \in Nat
    BY <1>3, <1>7, CompleteType, LenProperties DEF Complete
  <2> DEFINE m == 4 + Length(b) + 1
  <2>3. /\ m \in Int /\ Len(b) \in Int
        /\ \A i \in m .. Len(b) : b[i] \in Bytes
    BY <2>2, ElementOfSeq
  <2>4. Len(From(b, 4 + Length(b))) =
          IF m <= Len(b) THEN Len(b) - m + 1 ELSE 0
    BY <2>3, SubSeqProperties DEF From
  <2> QED
    BY <2>1, <2>2, <2>4
<1>8. CASE ReadShort(g, b)
  <2>1. Readable(b) /\ Len(Payload(b)) < Overhead
    BY <1>8 DEF ReadShort
  <2>2. Len(Payload(b)) >= Overhead /\ Len(Payload(b)) \in Nat
    BY <1>3, <1>7, <2>1, CompleteType, LenProperties DEF Takes
  <2> QED
    BY <2>1, <2>2 DEF Overhead
<1>9. CASE Refuse(g, b)
  <2>1. Readable(b) /\ buffer'[g] = From(b, 4 + Length(b))
    BY <1>9 DEF Refuse, Turn
  <2> QED
    BY <1>7, <2>1
<1>10. CASE Accept(g, b)
  <2>1. Readable(b) /\ buffer'[g] = From(b, 4 + Length(b))
    BY <1>10 DEF Accept
  <2> QED
    BY <1>7, <2>1
<1> QED
  BY <1>4, <1>5, <1>6, <1>8, <1>9, <1>10

LEMMA Fewer ==
  ASSUME NEW n \in Nat, NEW x \in Nat, NEW y \in Nat, NEW z \in Nat,
         z < y + n \/ (z = y + n /\ n # 0)
  PROVE  2 * x + z < 2 * (n + x) + y
OBVIOUS

LEMMA TurnWorks ==
  ASSUME TypeOK, OrderInv, ~astray, NEW g \in Gateways, HandleInbound(g)
  PROVE  Idle(g) \/ Work(g)' < Work(g)
<1>1. buffer[g] \in Seq(Bytes) /\ wire[g] \in Seq(Bytes)
  BY DEF TypeOK
<1>2. PICK n \in (IF wire[g] = <<>> THEN {0} ELSE 1 .. Len(wire[g])) :
        LET b == buffer[g] \o SubSeq(wire[g], 1, n)
        IN /\ wire' = [wire EXCEPT ![g] = From(@, n)]
           /\ \/ ReadIncomplete(g, b) \/ Prune(g, b) \/ Discard(g, b)
              \/ ReadShort(g, b) \/ Refuse(g, b) \/ Accept(g, b)
  BY DEF HandleInbound
<1> DEFINE v == SubSeq(wire[g], 1, n)
           b == buffer[g] \o v
           w == From(wire[g], n)
<1>3. n \in 0 .. Len(wire[g]) /\ n \in Nat
  BY <1>1, <1>2, LenProperties
<1>4. /\ v \in Seq(Bytes) /\ w \in Seq(Bytes) /\ wire[g] = v \o w
      /\ Len(v) = n
  <2>1. v \in Seq(Bytes) /\ w \in Seq(Bytes) /\ wire[g] = v \o w
    BY <1>1, <1>3, TakenPart
  <2>2. 1 \in Int /\ n \in Int /\ \A i \in 1 .. n : wire[g][i] \in Bytes
    BY <1>1, <1>3, ElementOfSeq, LenProperties
  <2>3. Len(v) = IF 1 <= n THEN n - 1 + 1 ELSE 0
    BY <2>2, SubSeqProperties
  <2> QED
    BY <1>3, <2>1, <2>3
<1>5. Owes(g, b, w, inbound[g], offered[g])
  BY <1>1, <1>3, ArriveOwes DEF OrderInv, Ordered
<1>6. wire'[g] = w
  BY <1>2 DEF TypeOK
<1>7. \/ ReadIncomplete(g, b) \/ Prune(g, b) \/ Discard(g, b)
      \/ ReadShort(g, b) \/ Refuse(g, b) \/ Accept(g, b)
  BY <1>2
<1> HIDE DEF v, w
<1>8. b \in Seq(Bytes) /\ Len(b) = Len(buffer[g]) + n
  BY <1>1, <1>4, ConcatProperties
<1>9. Len(wire[g]) = n + Len(w) /\ Len(w) \in Nat /\ Len(buffer[g]) \in Nat
  BY <1>1, <1>4, ConcatProperties, LenProperties
<1>10. n = 0 => wire[g] = <<>> /\ b = buffer[g]
  <2>1. ASSUME n = 0 PROVE wire[g] = <<>> /\ v = <<>>
    BY <1>1, <1>2, <1>4, <2>1, EmptySeq, LenProperties
  <2> QED
    BY <1>1, <2>1, ConcatEmptySeq
<1> HIDE DEF b
<1>11. \/ Waits(b) /\ buffer'[g] = b
       \/ Len(buffer'[g]) \in Nat /\ Len(buffer'[g]) < Len(b)
  BY <1>1, <1>4, <1>5, <1>7, <1>8, TurnLeaves DEF TypeOK
<1>12. /\ Work(g) = 2 * Len(wire[g]) + Len(buffer[g])
       /\ Work(g)' = 2 * Len(w) + Len(buffer'[g])
  BY <1>6 DEF Work
<1>13. CASE Waits(b) /\ buffer'[g] = b
  <2>1. CASE n = 0
    BY <1>10, <1>13, <2>1 DEF Idle
  <2>2. CASE n # 0
    <3>1. Len(buffer'[g]) = Len(buffer[g]) + n /\ Len(b) \in Nat
      BY <1>8, <1>13, LenProperties
    <3>2. 2 * Len(w) + Len(buffer'[g]) < 2 * (n + Len(w)) + Len(buffer[g])
      BY <1>3, <1>8, <1>9, <1>13, <2>2, <3>1, Fewer
    <3> QED
      BY <1>9, <1>12, <3>2
  <2> QED
    BY <2>1, <2>2
<1>14. CASE Len(buffer'[g]) \in Nat /\ Len(buffer'[g]) < Len(b)
  <2>1. 2 * Len(w) + Len(buffer'[g]) < 2 * (n + Len(w)) + Len(buffer[g])
    BY <1>3, <1>8, <1>9, <1>14, Fewer
  <2> QED
    BY <1>9, <1>12, <2>1
<1> QED
  BY <1>11, <1>13, <1>14

\* No byte stops a reader, and none is read twice: each turn of the thread
\* brings it nearer to the end of its bytes, until it has none.  (This is what
\* the fairness of the threads needs to become the property Received.)
THEOREM ReadingGetsOn ==
  Spec => [][\A g \in Gateways : ~astray /\ HandleInbound(g) =>
                                   Idle(g) \/ Work(g)' < Work(g)]_vars
<1>1. TypeOK /\ OrderInv /\ [Next]_vars =>
        [\A g \in Gateways : ~astray /\ HandleInbound(g) =>
                               Idle(g) \/ Work(g)' < Work(g)]_vars
  BY TurnWorks
<1> QED
  BY <1>1, TypeCorrect, OrderInit, OrderNext, PTL DEF Spec
=============================================================================
