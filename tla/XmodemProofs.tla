---------------------------- MODULE XmodemProofs ----------------------------
(***************************************************************************)
(* Theorems about Xmodem, for every image, every size of the memories,     *)
(* every width of a block number and every number of faults and resets:    *)
(* the types and bounds, that blocks are stored once and in order, and     *)
(* that the program that is started is the whole one.                      *)
(*                                                                         *)
(* The bytes the receiver has of the current frame and those still on the  *)
(* line are one stream.  Wherever a header, a number, its complement, data *)
(* and a checksum that agree stand in a row in it, they are from one       *)
(* packet, however damaged its neighbours are; and what is on the line is  *)
(* the packet the host is at, behind copies of the one before it.          *)
(***************************************************************************)
EXTENDS Xmodem, SequenceTheorems, TLAPS

-----------------------------------------------------------------------------
(* Block numbers                                                            *)

LEMMA NumModRange == NumMod \in Int /\ NumMod >= 3 /\ NumMod <= 999
BY XmodemAssumption

LEMMA NumberRange ==
  ASSUME NEW x \in Nat
  PROVE  (x % NumMod) \in 0..NumMod - 1
BY NumModRange

LEMMA Quotient ==
  ASSUME NEW x \in Nat
  PROVE  \E q \in Nat : x = NumMod * q + (x % NumMod)
<1>1. x \div NumMod \in Nat /\ x = NumMod * (x \div NumMod) + (x % NumMod)
  BY NumModRange
<1> QED BY <1>1

LEMMA RemainderUnique ==
  ASSUME NEW p \in Nat, NEW r \in 0..NumMod - 1,
         NEW q \in Nat, NEW s \in 0..NumMod - 1, NumMod * p + r = NumMod * q + s
  PROVE  r = s
<1>1. CASE p > q
  <2>1. NumMod * p >= NumMod * (q + 1)
    BY <1>1, NumModRange
  <2>2. NumMod * (q + 1) = NumMod * q + NumMod
    BY NumModRange
  <2> QED BY <2>1, <2>2, NumModRange
<1>2. CASE p < q
  <2>1. NumMod * q >= NumMod * (p + 1)
    BY <1>2, NumModRange
  <2>2. NumMod * (p + 1) = NumMod * p + NumMod
    BY NumModRange
  <2> QED BY <2>1, <2>2, NumModRange
<1> QED BY <1>1, <1>2, NumModRange

LEMMA NextNumber ==
  ASSUME NEW x \in Nat
  PROVE  ((x + 1) % NumMod) = IF (x % NumMod) = NumMod - 1 THEN 0 ELSE (x % NumMod) + 1
<1>1. PICK q \in Nat : x = NumMod * q + (x % NumMod)
  BY Quotient
<1>2. PICK p \in Nat : x + 1 = NumMod * p + ((x + 1) % NumMod)
  BY Quotient
<1>3. (x % NumMod) \in 0..NumMod - 1 /\ ((x + 1) % NumMod) \in 0..NumMod - 1
  BY NumberRange
<1>4. CASE (x % NumMod) = NumMod - 1
  <2>1. NumMod * (q + 1) + 0 = NumMod * p + ((x + 1) % NumMod)
    BY <1>1, <1>2, <1>4, NumModRange
  <2>2. q + 1 \in Nat /\ 0 \in 0..NumMod - 1
    BY NumModRange
  <2>3. 0 = ((x + 1) % NumMod)
    BY <2>1, <2>2, <1>3, RemainderUnique
  <2> QED BY <2>3, <1>4
<1>5. CASE (x % NumMod) # NumMod - 1
  <2> DEFINE r == (x % NumMod) + 1
  <2>1. r \in 0..NumMod - 1
    BY <1>3, <1>5, NumModRange
  <2>2. NumMod * q + r = NumMod * p + ((x + 1) % NumMod)
    BY <1>1, <1>2, <1>3, NumModRange
  <2> HIDE DEF r
  <2>3. r = ((x + 1) % NumMod)
    BY <2>1, <2>2, <1>3, RemainderUnique
  <2> QED BY <2>3, <1>5 DEF r
<1> QED BY <1>4, <1>5

LEMMA NumberOfNext ==
  ASSUME NEW x \in Nat
  PROVE  (((x % NumMod) + 1) % NumMod) = ((x + 1) % NumMod)
<1> DEFINE r == x % NumMod
<1>1. r \in 0..NumMod - 1
  BY NumberRange
<1>2. (r % NumMod) = r
  <2>1. PICK q \in Nat : r = NumMod * q + (r % NumMod)
    BY <1>1, Quotient
  <2>2. (r % NumMod) \in 0..NumMod - 1
    BY <1>1, NumberRange
  <2>3. NumMod * 0 + r = NumMod * q + (r % NumMod)
    BY <2>1, <1>1, NumModRange
  <2> QED BY <2>2, <2>3, <1>1, RemainderUnique
<1>3. ((r + 1) % NumMod) = IF (r % NumMod) = NumMod - 1 THEN 0 ELSE (r % NumMod) + 1
  BY <1>1, NextNumber
<1> QED BY <1>2, <1>3, NextNumber

(* A packet that bears the number of the next block is the next block, when *)
(* it is that or the one before; also if its complement was taken for its   *)
(* number, and the header for the complement.                               *)
LEMMA NumberDecides ==
  ASSUME NEW x \in Nat, NEW k \in {x, x + 1}, NEW f \in Int,
         f = ((x + 1) % NumMod),
         \/ f = (k % NumMod)
         \/ f = SOH /\ (k % NumMod) = NumMod - 2
  PROVE  k = x + 1
<1> DEFINE r == x % NumMod
           s == (x + 1) % NumMod
<1>1. r \in 0..NumMod - 1 /\ s = IF r = NumMod - 1 THEN 0 ELSE r + 1
  BY NumberRange, NextNumber
<1>2. SUFFICES ASSUME k = x PROVE FALSE
  OBVIOUS
<1>3. s = r \/ (s = 1 /\ r = NumMod - 2)
  BY <1>2 DEF SOH
<1> HIDE DEF r, s
<1> QED BY <1>1, <1>3, NumModRange

-----------------------------------------------------------------------------
(* The stream                                                               *)

(* Where w may be read as a number, its complement, data and half of their  *)
(* checksum, the last of them at i.                                         *)
Looks(w, i) == w[i - 3] + w[i - 2] = NumMod - 1 /\ w[i] = CrcHi(w[i - 1])

(* What is read there is block k of im.                                     *)
Carries(im, w, i, k) ==
  /\ k \in 1..Len(im) /\ w[i - 1] = im[k]
  /\ \/ w[i - 3] = (k % NumMod)
     \/ w[i - 3] = SOH /\ (k % NumMod) = NumMod - 2

(* Up to c the stream has copies of block n - 1, behind it copies of n; an  *)
(* end of transmission follows the last block.                              *)
Ordered(im, w, c, n) ==
  /\ \A i \in 4..Len(w) : Looks(w, i) => Carries(im, w, i, IF i <= c THEN n - 1 ELSE n)
  /\ \A i \in 1..Len(w) : w[i] = EOT => n = Len(im) + 1 /\ i > c
Barren(w) == \A i \in 4..Len(w) : ~Looks(w, i)

(* What arrives of one packet: t begins with plain bytes, so that nothing   *)
(* that looks like a block reaches across its beginning.                    *)
Fragment(im, n, t) ==
  /\ t \in Seq(Bytes)
  /\ \A i \in 1..Len(t) : i <= 3 => t[i] <= DataTop
  /\ \A i \in 1..Len(t) : t[i] = EOT => n = Len(im) + 1
  /\ \A i \in 4..Len(t) : Looks(t, i) => Carries(im, t, i, n)
NoCan(t) == \A i \in 1..Len(t) : t[i] # CAN

LEMMA AboveRange ==
  Above \in Nat /\ DataTop \in Nat /\ Above = DataTop + 1000
BY XmodemAssumption DEF Above

LEMMA ByteRange ==
  ASSUME NEW a \in Bytes
  PROVE  a \in Int /\ a >= -999
BY AboveRange DEF Bytes

LEMMA IsByte ==
  ASSUME NEW a \in Int, a >= -999, a <= 4 * Above
  PROVE  a \in Bytes
BY AboveRange DEF Bytes

LEMMA DataRange ==
  ASSUME NEW a \in Data
  PROVE  a \in Int /\ a >= 1000 /\ a <= DataTop
BY XmodemAssumption DEF Data

LEMMA DropFirst ==
  ASSUME NEW s \in Seq(Bytes), NEW t \in Seq(Bytes), t # <<>>
  PROVE  /\ s \o t \in Seq(Bytes) /\ Tail(t) \in Seq(Bytes) /\ <<>> \o Tail(t) = Tail(t)
         /\ Len(s) \in Nat /\ Len(s \o t) = Len(Tail(t)) + (Len(s) + 1)
         /\ \A i \in 1..Len(Tail(t)) : Tail(t)[i] = (s \o t)[i + (Len(s) + 1)]
<1>1. s \o t \in Seq(Bytes) /\ Len(s \o t) = Len(s) + Len(t)
      /\ \A i \in 1..Len(s) + Len(t) : (s \o t)[i] = IF i <= Len(s) THEN s[i] ELSE t[i - Len(s)]
  BY ConcatProperties
<1>2. /\ Tail(t) \in Seq(Bytes) /\ Len(Tail(t)) = Len(t) - 1
      /\ \A i \in 1..Len(Tail(t)) : Tail(t)[i] = t[i + 1]
  BY HeadTailProperties
<1>3. Len(s) \in Nat /\ Len(t) \in Nat
  BY LenProperties
<1>4. <<>> \o Tail(t) = Tail(t)
  BY <1>2, ConcatEmptySeq
<1>5. ASSUME NEW i \in 1..Len(Tail(t))
      PROVE  Tail(t)[i] = (s \o t)[i + (Len(s) + 1)]
  <2>1. i + (Len(s) + 1) \in 1..Len(s) + Len(t) /\ ~(i + (Len(s) + 1) <= Len(s))
    BY <1>2, <1>3
  <2>2. (i + (Len(s) + 1)) - Len(s) = i + 1
    BY <1>3
  <2> QED BY <2>1, <2>2, <1>1, <1>2
<1> QED BY <1>1, <1>2, <1>3, <1>4, <1>5

LEMMA KeepFirst ==
  ASSUME NEW s \in Seq(Bytes), NEW t \in Seq(Bytes), t # <<>>
  PROVE  Append(s, Head(t)) \o Tail(t) = s \o t
<1>1. Head(t) \in Bytes /\ Tail(t) \in Seq(Bytes)
  BY HeadTailProperties
<1>2. t = <<Head(t)>> \o Tail(t)
  BY HeadTailProperties, ConcatProperties, SeqEqual
<1>3. Append(s, Head(t)) = s \o <<Head(t)>> /\ <<Head(t)>> \in Seq(Bytes)
  BY <1>1, AppendIsConcat
<1> QED BY <1>1, <1>2, <1>3, ConcatAssociative

(* Reading leaves the rest of the stream in order.                          *)
LEMMA BarrenRest ==
  ASSUME NEW w \in Seq(Bytes), NEW v \in Seq(Bytes), NEW m \in Nat,
         Len(w) = Len(v) + m, \A i \in 1..Len(v) : v[i] = w[i + m], Barren(w)
  PROVE  Barren(v)
<1> SUFFICES ASSUME NEW i \in 4..Len(v) PROVE ~Looks(v, i)
  BY DEF Barren
<1>1. i + m \in 4..Len(w) /\ ~Looks(w, i + m)
  BY LenProperties DEF Barren
<1>2. v[i] = w[i + m] /\ v[i - 1] = w[(i + m) - 1]
      /\ v[i - 2] = w[(i + m) - 2] /\ v[i - 3] = w[(i + m) - 3]
  <2>1. /\ i \in 1..Len(v) /\ i - 1 \in 1..Len(v) /\ i - 2 \in 1..Len(v) /\ i - 3 \in 1..Len(v)
        /\ (i - 1) + m = (i + m) - 1 /\ (i - 2) + m = (i + m) - 2 /\ (i - 3) + m = (i + m) - 3
    BY LenProperties
  <2> QED BY <2>1
<1> QED BY <1>1, <1>2 DEF Looks

LEMMA OrderedRest ==
  ASSUME NEW im, NEW n \in Nat, NEW c \in Nat,
         NEW w \in Seq(Bytes), NEW v \in Seq(Bytes), NEW m \in Nat,
         Len(w) = Len(v) + m, \A i \in 1..Len(v) : v[i] = w[i + m], Ordered(im, w, c, n)
  PROVE  Ordered(im, v, IF c > m THEN c - m ELSE 0, n)
<1> DEFINE d == IF c > m THEN c - m ELSE 0
<1>1. ASSUME NEW i \in 4..Len(v), Looks(v, i)
      PROVE  Carries(im, v, i, IF i <= d THEN n - 1 ELSE n)
  <2>1. /\ i \in 1..Len(v) /\ i - 1 \in 1..Len(v) /\ i - 2 \in 1..Len(v) /\ i - 3 \in 1..Len(v)
        /\ (i - 1) + m = (i + m) - 1 /\ (i - 2) + m = (i + m) - 2 /\ (i - 3) + m = (i + m) - 3
    BY LenProperties
  <2>2. v[i] = w[i + m] /\ v[i - 1] = w[(i + m) - 1]
        /\ v[i - 2] = w[(i + m) - 2] /\ v[i - 3] = w[(i + m) - 3]
    BY <2>1
  <2>3. i + m \in 4..Len(w) /\ Looks(w, i + m)
    <3>1. Len(v) \in Nat /\ Len(w) \in Nat
      BY LenProperties
    <3>2. i + m \in 4..Len(w)
      BY <3>1
    <3> QED BY <1>1, <2>2, <3>2 DEF Looks
  <2>4. Carries(im, w, i + m, IF i + m <= c THEN n - 1 ELSE n)
    BY <2>3 DEF Ordered
  <2>5. i + m <= c <=> i <= d
    OBVIOUS
  <2> QED BY <2>2, <2>4, <2>5 DEF Carries
<1>2. ASSUME NEW i \in 1..Len(v), v[i] = EOT
      PROVE  n = Len(im) + 1 /\ i > d
  <2>1. i + m \in 1..Len(w) /\ w[i + m] = EOT
    BY <1>2, LenProperties
  <2> QED BY <2>1 DEF Ordered
<1> QED BY <1>1, <1>2 DEF Ordered

(* A packet that arrives behind the stream adds itself and nothing else.    *)
LEMMA OrderedMore ==
  ASSUME NEW im, NEW n \in Nat, NEW w \in Seq(Bytes), NEW c \in 0..Len(w),
         NEW t, Fragment(im, n, t), Ordered(im, w, c, n)
  PROVE  Ordered(im, w \o t, c, n)
<1>1. t \in Seq(Bytes) /\ Len(w) \in Nat /\ Len(t) \in Nat
  BY LenProperties DEF Fragment
<1>2. /\ w \o t \in Seq(Bytes) /\ Len(w \o t) = Len(w) + Len(t)
      /\ \A i \in 1..Len(w) + Len(t) : (w \o t)[i] = IF i <= Len(w) THEN w[i] ELSE t[i - Len(w)]
  BY <1>1, ConcatProperties
<1>3. ASSUME NEW i \in 4..Len(w \o t), Looks(w \o t, i)
      PROVE  Carries(im, w \o t, i, IF i <= c THEN n - 1 ELSE n)
  <2>0. i \in 1..Len(w) + Len(t) /\ i - 1 \in 1..Len(w) + Len(t)
        /\ i - 2 \in 1..Len(w) + Len(t) /\ i - 3 \in 1..Len(w) + Len(t)
    BY <1>1, <1>2
  <2>1. CASE i <= Len(w)
    <3>1. /\ (w \o t)[i] = w[i] /\ (w \o t)[i - 1] = w[i - 1]
          /\ (w \o t)[i - 2] = w[i - 2] /\ (w \o t)[i - 3] = w[i - 3]
      BY <2>0, <2>1, <1>1, <1>2
    <3>2. Looks(w, i) /\ i \in 4..Len(w)
      BY <3>1, <2>1, <1>1, <1>3 DEF Looks
    <3>3. Carries(im, w, i, IF i <= c THEN n - 1 ELSE n)
      BY <3>2 DEF Ordered
    <3> QED BY <3>1, <3>3 DEF Carries
  <2>2. CASE i > Len(w) /\ i - Len(w) <= 3
    <3>1. (w \o t)[i] = t[i - Len(w)] /\ i - Len(w) \in 1..Len(t)
      BY <2>0, <2>2, <1>1, <1>2
    <3>2. (w \o t)[i] <= DataTop
      BY <3>1, <2>2 DEF Fragment
    <3>3. (w \o t)[i - 1] \in Bytes
      BY <2>0, <1>2, ElementOfSeq
    <3>4. (w \o t)[i] = (w \o t)[i - 1] + Above
      BY <1>3 DEF Looks, CrcHi
    <3> QED BY <3>2, <3>3, <3>4, ByteRange, AboveRange
  <2>3. CASE i > Len(w) /\ i - Len(w) > 3
    <3> DEFINE j == i - Len(w)
    <3>1. /\ (w \o t)[i] = t[j] /\ (w \o t)[i - 1] = t[j - 1]
          /\ (w \o t)[i - 2] = t[j - 2] /\ (w \o t)[i - 3] = t[j - 3] /\ j \in 4..Len(t)
      <4>1. /\ (i - 1) - Len(w) = j - 1 /\ (i - 2) - Len(w) = j - 2 /\ (i - 3) - Len(w) = j - 3
            /\ j \in 4..Len(t)
            /\ ~(i <= Len(w)) /\ ~(i - 1 <= Len(w)) /\ ~(i - 2 <= Len(w)) /\ ~(i - 3 <= Len(w))
        BY <2>0, <2>3, <1>1
      <4> QED BY <4>1, <2>0, <1>2
    <3>2. Carries(im, t, j, n) /\ ~(i <= c)
      BY <3>1, <1>3, <2>3, <1>1 DEF Looks, Fragment
    <3> QED BY <3>1, <3>2 DEF Carries
  <2> QED BY <2>1, <2>2, <2>3, <1>1
<1>4. ASSUME NEW i \in 1..Len(w \o t), (w \o t)[i] = EOT
      PROVE  n = Len(im) + 1 /\ i > c
  <2>1. CASE i <= Len(w)
    BY <2>1, <1>1, <1>2, <1>4 DEF Ordered
  <2>2. CASE i > Len(w)
    <3>1. i - Len(w) \in 1..Len(t) /\ t[i - Len(w)] = EOT
      BY <2>2, <1>1, <1>2, <1>4
    <3> QED BY <3>1, <2>2, <1>1 DEF Fragment
  <2> QED BY <2>1, <2>2, <1>1
<1> QED BY <1>3, <1>4 DEF Ordered

-----------------------------------------------------------------------------
(* What the line makes of a packet                                          *)

Block(im, n) ==
  <<SOH, n % NumMod, NumMod - 1 - (n % NumMod), im[n], CrcHi(im[n]), CrcLo(im[n])>>
Arrives(s, t) ==
  \/ t = s \/ t = <<>>
  \/ \E j \in DOMAIN s : t = Drop(s, j)
  \/ \E j \in DOMAIN s, b \in DamageTo : t = [s EXCEPT ![j] = b]

LEMMA DropOne ==
  ASSUME NEW s \in Seq(Bytes), NEW j \in 1..Len(s)
  PROVE  /\ Drop(s, j) \in Seq(Bytes) /\ Len(Drop(s, j)) = Len(s) - 1
         /\ \A i \in 1..Len(s) - 1 : Drop(s, j)[i] = IF i < j THEN s[i] ELSE s[i + 1]
<1> DEFINE a == SubSeq(s, 1, j - 1)
           b == SubSeq(s, j + 1, Len(s))
<1>0. Len(s) \in Nat /\ j \in Int
  BY LenProperties
<1>1. /\ a \in Seq(Bytes) /\ Len(a) = j - 1
      /\ \A i \in 1..j - 1 : a[i] = s[i]
  <2>1. \A i \in 1..j - 1 : s[i] \in Bytes
    BY <1>0, ElementOfSeq
  <2>2. /\ a \in Seq(Bytes) /\ Len(a) = IF 1 <= j - 1 THEN (j - 1) - 1 + 1 ELSE 0
        /\ \A i \in 1..(j - 1) - 1 + 1 : a[i] = s[1 + i - 1]
    BY <1>0, <2>1, SubSeqProperties
  <2> QED BY <2>2, <1>0
<1>2. /\ b \in Seq(Bytes) /\ Len(b) = Len(s) - j
      /\ \A i \in 1..Len(s) - j : b[i] = s[j + i]
  <2>1. \A i \in j + 1..Len(s) : s[i] \in Bytes
    BY <1>0, ElementOfSeq
  <2>2. /\ b \in Seq(Bytes) /\ Len(b) = IF j + 1 <= Len(s) THEN Len(s) - (j + 1) + 1 ELSE 0
        /\ \A i \in 1..Len(s) - (j + 1) + 1 : b[i] = s[(j + 1) + i - 1]
    BY <1>0, <2>1, SubSeqProperties
  <2>3. \A i \in 1..Len(s) - j : (j + 1) + i - 1 = j + i
    BY <1>0
  <2> QED BY <2>2, <2>3, <1>0
<1> HIDE DEF a, b
<1>3. /\ a \o b \in Seq(Bytes) /\ Len(a \o b) = Len(a) + Len(b)
      /\ \A i \in 1..Len(a) + Len(b) : (a \o b)[i] = IF i <= Len(a) THEN a[i] ELSE b[i - Len(a)]
  BY <1>1, <1>2, ConcatProperties
<1>4. ASSUME NEW i \in 1..Len(s) - 1
      PROVE  (a \o b)[i] = IF i < j THEN s[i] ELSE s[i + 1]
  <2>1. CASE i < j
    BY <2>1, <1>0, <1>1, <1>2, <1>3
  <2>2. CASE ~(i < j)
    <3>1. i - Len(a) \in 1..Len(s) - j /\ j + (i - Len(a)) = i + 1 /\ ~(i <= Len(a))
      BY <2>2, <1>0, <1>1
    <3> QED BY <3>1, <2>2, <1>0, <1>1, <1>2, <1>3
  <2> QED BY <2>1, <2>2
<1>5. Drop(s, j) = a \o b
  BY DEF Drop, a, b
<1>6. Len(a \o b) = Len(s) - 1
  BY <1>0, <1>1, <1>2, <1>3
<1> QED BY <1>3, <1>4, <1>5, <1>6

LEMMA OneDamaged ==
  ASSUME NEW s \in Seq(Bytes), NEW j \in 1..Len(s), NEW b \in Bytes
  PROVE  /\ [s EXCEPT ![j] = b] \in Seq(Bytes) /\ Len([s EXCEPT ![j] = b]) = Len(s)
         /\ \A i \in 1..Len(s) : [s EXCEPT ![j] = b][i] = IF i = j THEN b ELSE s[i]
BY ExceptSeq

LEMMA BlockBytes ==
  ASSUME NEW im \in Seq(Data), NEW n \in 1..Len(im)
  PROVE  /\ (n % NumMod) \in 0..NumMod - 1 /\ im[n] \in Data
         /\ Block(im, n) \in Seq(Bytes) /\ Len(Block(im, n)) = 6
<1>1. n \in Nat /\ im[n] \in Data /\ im[n] \in Int /\ im[n] >= 1000 /\ im[n] <= DataTop
  BY ElementOfSeq, LenProperties, DataRange
<1>2. (n % NumMod) \in 0..NumMod - 1
  BY <1>1, NumberRange
<1>3. /\ SOH \in Bytes /\ (n % NumMod) \in Bytes /\ NumMod - 1 - (n % NumMod) \in Bytes
      /\ im[n] \in Bytes /\ CrcHi(im[n]) \in Bytes /\ CrcLo(im[n]) \in Bytes
  <2>1. SOH \in Bytes
    BY IsByte, AboveRange DEF SOH
  <2>2. (n % NumMod) \in Bytes
    BY <1>2, NumModRange, AboveRange, IsByte
  <2>3. NumMod - 1 - (n % NumMod) \in Bytes
    BY <1>2, NumModRange, AboveRange, IsByte
  <2>4. im[n] \in Bytes
    BY <1>1, IsByte, AboveRange
  <2>5. CrcHi(im[n]) \in Bytes
    BY <1>1, IsByte, AboveRange DEF CrcHi
  <2>6. CrcLo(im[n]) \in Bytes
    BY <1>1, IsByte, AboveRange DEF CrcLo
  <2> QED BY <2>1, <2>2, <2>3, <2>4, <2>5, <2>6
<1> QED BY <1>1, <1>2, <1>3 DEF Block

LEMMA WholeBlock ==
  ASSUME NEW im \in Seq(Data), NEW n \in 1..Len(im)
  PROVE  Fragment(im, n, Block(im, n)) /\ NoCan(Block(im, n))
<1> DEFINE t == Block(im, n)
           a == n % NumMod
           d == im[n]
<1>1. /\ a \in Int /\ 0 <= a /\ a <= NumMod - 1 /\ d \in Int /\ d >= 1000 /\ d <= DataTop
      /\ t \in Seq(Bytes) /\ Len(t) = 6 /\ n \in Nat
  BY BlockBytes, LenProperties, DataRange, NumModRange, AboveRange
<1>2. /\ t[1] = 1 /\ t[2] = a /\ t[3] = NumMod - 1 - a
      /\ t[4] = d /\ t[5] = d + Above /\ t[6] = d + 3 * Above
  BY DEF Block, SOH, CrcHi, CrcLo
<1> HIDE DEF t, a, d
<1>3. ASSUME NEW i \in 1..6
      PROVE  (i <= 3 => t[i] <= DataTop) /\ t[i] # CAN /\ t[i] # EOT
  BY <1>1, <1>2, NumModRange, AboveRange DEF CAN, EOT
<1>4. ASSUME NEW i \in 4..6, Looks(t, i)
      PROVE  i = 5
  BY <1>1, <1>2, <1>4, NumModRange, AboveRange DEF Looks, CrcHi
<1>5. Carries(im, t, 5, n)
  BY <1>1, <1>2 DEF Carries, a, d
<1> QED BY <1>1, <1>3, <1>4, <1>5 DEF Fragment, NoCan, t

LEMMA BlockWithoutOne ==
  ASSUME NEW im \in Seq(Data), NEW n \in 1..Len(im), NEW j \in 1..6
  PROVE  Fragment(im, n, Drop(Block(im, n), j)) /\ NoCan(Drop(Block(im, n), j))
<1> DEFINE p == Block(im, n)
           t == Drop(p, j)
           a == n % NumMod
           d == im[n]
<1>1. /\ a \in Int /\ 0 <= a /\ a <= NumMod - 1 /\ d \in Int /\ d >= 1000 /\ d <= DataTop
      /\ p \in Seq(Bytes) /\ Len(p) = 6 /\ n \in Nat
  BY BlockBytes, LenProperties, DataRange, NumModRange, AboveRange
<1>2. /\ p[1] = 1 /\ p[2] = a /\ p[3] = NumMod - 1 - a
      /\ p[4] = d /\ p[5] = d + Above /\ p[6] = d + 3 * Above
  BY DEF Block, SOH, CrcHi, CrcLo
<1> HIDE DEF p
<1>3. /\ t \in Seq(Bytes) /\ Len(t) = 5
      /\ \A i \in 1..5 : t[i] = IF i < j THEN p[i] ELSE p[i + 1]
  <2>1. j \in 1..Len(p) /\ Len(p) - 1 = 5
    BY <1>1
  <2> QED BY <1>1, <2>1, DropOne
<1>4. /\ t[1] = IF 1 < j THEN p[1] ELSE p[2]
      /\ t[2] = IF 2 < j THEN p[2] ELSE p[3]
      /\ t[3] = IF 3 < j THEN p[3] ELSE p[4]
      /\ t[4] = IF 4 < j THEN p[4] ELSE p[5]
      /\ t[5] = IF 5 < j THEN p[5] ELSE p[6]
  BY <1>3
<1> HIDE DEF t, a, d
<1>5. ASSUME NEW i \in 1..5
      PROVE  (i <= 3 => t[i] <= DataTop) /\ t[i] # CAN /\ t[i] # EOT
  <2>1. ASSUME NEW k \in 1..6
        PROVE  (k <= 4 => p[k] <= DataTop) /\ p[k] # CAN /\ p[k] # EOT
    BY <1>1, <1>2, NumModRange, AboveRange DEF CAN, EOT
  <2>2. i \in 1..6 /\ i + 1 \in 1..6 /\ (t[i] = p[i] \/ t[i] = p[i + 1])
    BY <1>3
  <2> QED BY <2>1, <2>2
<1>6. ASSUME Looks(t, 4)
      PROVE  /\ t[3] = d
             /\ \/ t[1] = a
                \/ t[1] = 1 /\ a = NumMod - 2
  <2>1. t[1] + t[2] = NumMod - 1 /\ t[4] = t[3] + Above
    BY <1>6 DEF Looks, CrcHi
  <2>2. j <= 3
    BY <2>1, <1>1, <1>2, <1>4, NumModRange, AboveRange
  <2> QED BY <2>1, <2>2, <1>1, <1>2, <1>4, NumModRange, AboveRange
<1>7. ASSUME Looks(t, 5)
      PROVE  t[4] = d /\ t[2] = a
  <2>1. t[5] = t[4] + Above
    BY <1>7 DEF Looks, CrcHi
  <2>2. j = 6
    BY <2>1, <1>1, <1>2, <1>4, AboveRange
  <2> QED BY <2>2, <1>2, <1>4
<1>8. ASSUME NEW i \in 4..5, Looks(t, i)
      PROVE  Carries(im, t, i, n)
  <2>1. i = 4 \/ i = 5
    OBVIOUS
  <2> QED BY <2>1, <1>6, <1>7, <1>8 DEF Carries, SOH, a, d
<1> QED BY <1>3, <1>5, <1>8 DEF Fragment, NoCan, t, p

LEMMA DamagedBlock ==
  ASSUME NEW im \in Seq(Data), NEW n \in 1..Len(im), NEW j \in 1..6, NEW b \in DamageTo
  PROVE  Fragment(im, n, [Block(im, n) EXCEPT ![j] = b]) /\ NoCan([Block(im, n) EXCEPT ![j] = b])
<1> DEFINE p == Block(im, n)
           t == [p EXCEPT ![j] = b]
           a == n % NumMod
           d == im[n]
<1>1. /\ a \in Int /\ 0 <= a /\ a <= NumMod - 1 /\ d \in Int /\ d >= 1000 /\ d <= DataTop
      /\ p \in Seq(Bytes) /\ Len(p) = 6 /\ n \in Nat
  BY BlockBytes, LenProperties, DataRange, NumModRange, AboveRange
<1>2. /\ p[1] = 1 /\ p[2] = a /\ p[3] = NumMod - 1 - a
      /\ p[4] = d /\ p[5] = d + Above /\ p[6] = d + 3 * Above
  BY DEF Block, SOH, CrcHi, CrcLo
<1>b. b \in Bytes /\ b \in Int /\ b >= -999 /\ b <= DataTop /\ b # CAN /\ b # EOT
  BY XmodemAssumption, AboveRange, IsByte DEF Plain
<1> HIDE DEF p
<1>3. /\ t \in Seq(Bytes) /\ Len(t) = 6
      /\ \A i \in 1..6 : t[i] = IF i = j THEN b ELSE p[i]
  <2>1. j \in 1..Len(p)
    BY <1>1
  <2>2. p \in Seq(Bytes) /\ b \in Bytes
    BY <1>1, <1>b
  <2>3. t \in Seq(Bytes) /\ Len(t) = Len(p)
    BY <2>1, <2>2, OneDamaged
  <2>4. \A i \in 1..Len(p) : t[i] = IF i = j THEN b ELSE p[i]
    BY <2>1, <2>2, OneDamaged
  <2> QED BY <1>1, <2>3, <2>4
<1>4. /\ t[1] = IF 1 = j THEN b ELSE p[1]
      /\ t[2] = IF 2 = j THEN b ELSE p[2]
      /\ t[3] = IF 3 = j THEN b ELSE p[3]
      /\ t[4] = IF 4 = j THEN b ELSE p[4]
      /\ t[5] = IF 5 = j THEN b ELSE p[5]
      /\ t[6] = IF 6 = j THEN b ELSE p[6]
  BY <1>3
<1> HIDE DEF t, a, d
<1>5. ASSUME NEW i \in 1..6
      PROVE  (i <= 3 => t[i] <= DataTop) /\ t[i] # CAN /\ t[i] # EOT
  <2>1. (i <= 3 => p[i] <= DataTop) /\ p[i] # CAN /\ p[i] # EOT
    BY <1>1, <1>2, NumModRange, AboveRange DEF CAN, EOT
  <2> QED BY <2>1, <1>3, <1>b
<1>6. ~Looks(t, 4)
  <2>1. ASSUME Looks(t, 4) PROVE t[4] = t[3] + Above
    BY <2>1 DEF Looks, CrcHi
  <2> QED BY <2>1, <1>1, <1>2, <1>4, <1>b, NumModRange, AboveRange
<1>7. ASSUME Looks(t, 5)
      PROVE  t[4] = d /\ t[2] = a
  <2>1. t[2] + t[3] = NumMod - 1 /\ t[5] = t[4] + Above
    BY <1>7 DEF Looks, CrcHi
  <2>2. j # 5
    BY <2>1, <1>1, <1>2, <1>4, <1>b, AboveRange
  <2>3. t[4] = d
    BY <2>1, <2>2, <1>1, <1>2, <1>4, <1>b, AboveRange
  <2>4. t[2] = a
    BY <2>1, <1>1, <1>2, <1>4, <1>b, NumModRange, AboveRange
  <2> QED BY <2>3, <2>4
<1>8. ~Looks(t, 6)
  <2>1. ASSUME Looks(t, 6) PROVE t[6] = t[5] + Above
    BY <2>1 DEF Looks, CrcHi
  <2> QED BY <2>1, <1>1, <1>2, <1>4, <1>b, AboveRange
<1>9. ASSUME NEW i \in 4..6, Looks(t, i)
      PROVE  Carries(im, t, i, n)
  <2>1. i = 5
    BY <1>6, <1>8, <1>9
  <2> QED BY <2>1, <1>7, <1>9 DEF Carries, a, d
<1> QED BY <1>3, <1>5, <1>9 DEF Fragment, NoCan, t, p

LEMMA NothingArrives ==
  ASSUME NEW im, NEW n
  PROVE  Fragment(im, n, <<>>) /\ NoCan(<<>>)
<1>1. <<>> \in Seq(Bytes) /\ Len(<<>>) = 0
  BY EmptySeq
<1>2. 1..0 = {} /\ 4..0 = {}
  OBVIOUS
<1> QED BY <1>1, <1>2 DEF Fragment, NoCan

LEMMA EndArrives ==
  ASSUME NEW im \in Seq(Data), NEW t, Arrives(<<EOT>>, t)
  PROVE  Fragment(im, Len(im) + 1, t) /\ NoCan(t)
<1>0. EOT \in Int /\ EOT >= -999 /\ EOT <= DataTop /\ EOT # CAN /\ EOT \in Bytes
  <2>1. EOT \in Int /\ EOT >= -999 /\ EOT <= DataTop /\ EOT # CAN /\ EOT <= 4 * Above
    BY AboveRange DEF EOT, CAN
  <2> QED BY <2>1, IsByte
<1>1. \A x \in Bytes : x <= DataTop /\ x # CAN => Fragment(im, Len(im) + 1, <<x>>) /\ NoCan(<<x>>)
  <2> SUFFICES ASSUME NEW x \in Bytes, x <= DataTop, x # CAN
               PROVE  Fragment(im, Len(im) + 1, <<x>>) /\ NoCan(<<x>>)
    OBVIOUS
  <2>1. <<x>> \in Seq(Bytes) /\ Len(<<x>>) = 1 /\ <<x>>[1] = x
    OBVIOUS
  <2>2. \A i \in 1..1 : i = 1
    OBVIOUS
  <2>3. 4..1 = {}
    OBVIOUS
  <2> QED BY <2>1, <2>2, <2>3 DEF Fragment, NoCan
<1> DEFINE e == <<EOT>>
<1>2. e \in Seq(Bytes) /\ Len(e) = 1 /\ DOMAIN e = 1..1 /\ \A b : [e EXCEPT ![1] = b] = <<b>>
  BY <1>0
<1>3. CASE t = e
  BY <1>0, <1>1, <1>3
<1> HIDE DEF e
<1>4. CASE t = <<>>
  BY <1>4, NothingArrives
<1>5. CASE \E j \in DOMAIN e : t = Drop(e, j)
  <2>1. t = Drop(e, 1) /\ 1 \in 1..Len(e)
    BY <1>2, <1>5
  <2>2. Drop(e, 1) \in Seq(Bytes) /\ Len(Drop(e, 1)) = Len(e) - 1
    BY <2>1, <1>2, DropOne
  <2>3. t = <<>>
    BY <2>1, <2>2, <1>2, EmptySeq
  <2> QED BY <2>3, NothingArrives
<1>6. CASE \E j \in DOMAIN e, b \in DamageTo : t = [e EXCEPT ![j] = b]
  <2>1. PICK j \in DOMAIN e, b \in DamageTo : t = [e EXCEPT ![j] = b]
    BY <1>6
  <2>2. t = <<b>>
    BY <2>1, <1>2
  <2>3. b \in Bytes /\ b <= DataTop /\ b # CAN
    BY XmodemAssumption, AboveRange, IsByte DEF Plain
  <2> QED BY <2>2, <2>3, <1>1
<1> QED BY <1>3, <1>4, <1>5, <1>6 DEF Arrives, e

LEMMA BlockArrives ==
  ASSUME NEW im \in Seq(Data), NEW n \in 1..Len(im), NEW t, Arrives(Block(im, n), t)
  PROVE  Fragment(im, n, t) /\ NoCan(t)
<1>1. DOMAIN Block(im, n) = 1..6
  BY BlockBytes, LenProperties
<1>2. CASE t = Block(im, n)
  BY <1>2, WholeBlock
<1>3. CASE t = <<>>
  BY <1>3, NothingArrives
<1>4. CASE \E j \in DOMAIN Block(im, n) : t = Drop(Block(im, n), j)
  BY <1>1, <1>4, BlockWithoutOne
<1>5. CASE \E j \in DOMAIN Block(im, n), b \in DamageTo : t = [Block(im, n) EXCEPT ![j] = b]
  <2>1. PICK j \in 1..6, b \in DamageTo : t = [Block(im, n) EXCEPT ![j] = b]
    BY <1>1, <1>5
  <2> QED BY <2>1, DamagedBlock
<1> QED BY <1>2, <1>3, <1>4, <1>5 DEF Arrives

LEMMA CancelsArrive ==
  ASSUME NEW im, NEW n
  PROVE  Fragment(im, n, <<CAN, CAN, CAN, CAN>>)
<1> DEFINE t == <<CAN, CAN, CAN, CAN>>
<1>1. CAN \in Bytes
  BY AboveRange, IsByte DEF CAN
<1>2. t \in Seq(Bytes) /\ Len(t) = 4 /\ t[3] = CAN /\ t[4] = CAN
      /\ \A i \in 1..4 : t[i] = CAN
  BY <1>1
<1> HIDE DEF t
<1>3. ~Looks(t, 4)
  BY <1>2, AboveRange DEF Looks, CrcHi, CAN
<1>4. \A i \in 4..4 : i = 4
  OBVIOUS
<1>5. CAN <= DataTop /\ CAN # EOT
  BY AboveRange DEF CAN, EOT
<1> QED BY <1>2, <1>3, <1>4, <1>5 DEF Fragment, t

(* What the host sends arrives as a fragment of the packet it is at.        *)
LEMMA SendArrives ==
  ASSUME TypeOK, NEW r \in Regions, NEW n \in 1..Len(image[r]) + 1, Send(r, n)
  PROVE  \E t : /\ Fragment(image[r], n, t) /\ NoCan(t) /\ toRx' = toRx \o t
<1> DEFINE im == image[r]
           s == IF n > Len(im) THEN <<EOT>> ELSE Packet(r, n)
<1>1. im \in Seq(Data) /\ Len(im) \in Nat
  BY XmodemAssumption, LenProperties DEF TypeOK
<1>2. Packet(r, n) = Block(im, n)
  BY DEF Packet, Block
<1>3. \E t : Arrives(s, t) /\ toRx' = toRx \o t
  <2>1. Transmit(s)
    BY DEF Send
  <2>2. toRx = toRx \o <<>>
    BY ConcatEmptySeq DEF TypeOK
  <2> HIDE DEF s
  <2>3. CASE toRx' = toRx \o s
    BY <2>3 DEF Arrives
  <2>4. CASE toRx' = toRx
    BY <2>2, <2>4 DEF Arrives
  <2>5. CASE \E i \in DOMAIN s : toRx' = toRx \o Drop(s, i)
    BY <2>5 DEF Arrives
  <2>6. CASE \E i \in DOMAIN s, b \in DamageTo : toRx' = toRx \o [s EXCEPT ![i] = b]
    BY <2>6 DEF Arrives
  <2> QED BY <2>1, <2>3, <2>4, <2>5, <2>6 DEF Transmit
<1>4. PICK t : Arrives(s, t) /\ toRx' = toRx \o t
  BY <1>3
<1>5. CASE n > Len(im)
  <2>1. n = Len(im) + 1 /\ s = <<EOT>>
    BY <1>1, <1>5
  <2>2. Fragment(im, Len(im) + 1, t) /\ NoCan(t)
    BY <2>1, <1>1, <1>4, EndArrives
  <2> QED BY <2>1, <2>2, <1>4
<1>6. CASE ~(n > Len(im))
  <2>1. n \in 1..Len(im) /\ s = Block(im, n)
    BY <1>1, <1>2, <1>6
  <2> QED BY <2>1, <1>1, <1>4, BlockArrives
<1> QED BY <1>5, <1>6

(* Behind the last block of an image nothing looks like a block, and an end *)
(* of transmission does not change that.                                    *)
LEMMA OrderedIsBarren ==
  ASSUME NEW im \in Seq(Data), NEW w \in Seq(Bytes), Ordered(im, w, 0, Len(im) + 1)
  PROVE  Barren(w)
<1> SUFFICES ASSUME NEW i \in 4..Len(w), Looks(w, i) PROVE FALSE
  BY DEF Barren
<1>1. Carries(im, w, i, Len(im) + 1)
  <2>1. ~(i <= 0)
    BY LenProperties
  <2> QED BY <2>1 DEF Ordered
<1> QED BY <1>1, LenProperties DEF Carries

LEMMA BarrenMore ==
  ASSUME NEW im \in Seq(Data), NEW w \in Seq(Bytes), NEW t,
         Barren(w), Fragment(im, Len(im) + 1, t)
  PROVE  Barren(w \o t)
<1> DEFINE n == Len(im) + 1
<1>1. t \in Seq(Bytes) /\ Len(w) \in Nat /\ Len(t) \in Nat
  BY LenProperties DEF Fragment
<1>2. /\ w \o t \in Seq(Bytes) /\ Len(w \o t) = Len(w) + Len(t)
      /\ \A i \in 1..Len(w) + Len(t) : (w \o t)[i] = IF i <= Len(w) THEN w[i] ELSE t[i - Len(w)]
  BY <1>1, ConcatProperties
<1> SUFFICES ASSUME NEW i \in 4..Len(w \o t), Looks(w \o t, i) PROVE FALSE
  BY DEF Barren
<1>3. i \in 1..Len(w) + Len(t) /\ i - 1 \in 1..Len(w) + Len(t)
      /\ i - 2 \in 1..Len(w) + Len(t) /\ i - 3 \in 1..Len(w) + Len(t)
  BY <1>1, <1>2
<1>4. CASE i <= Len(w)
  <2>1. /\ (w \o t)[i] = w[i] /\ (w \o t)[i - 1] = w[i - 1]
        /\ (w \o t)[i - 2] = w[i - 2] /\ (w \o t)[i - 3] = w[i - 3]
    BY <1>1, <1>2, <1>3, <1>4
  <2>2. Looks(w, i)
    BY <2>1 DEF Looks
  <2>3. i \in 4..Len(w)
    BY <1>1, <1>4
  <2> QED BY <2>2, <2>3 DEF Barren
<1>5. CASE i > Len(w) /\ i - Len(w) <= 3
  <2>1. (w \o t)[i] = t[i - Len(w)] /\ i - Len(w) \in 1..Len(t)
    BY <1>1, <1>2, <1>3, <1>5
  <2>2. (w \o t)[i] <= DataTop
    BY <2>1, <1>5 DEF Fragment
  <2>3. (w \o t)[i - 1] \in Bytes
    BY <1>2, <1>3, ElementOfSeq
  <2>4. (w \o t)[i] = (w \o t)[i - 1] + Above
    BY DEF Looks, CrcHi
  <2> QED BY <2>2, <2>3, <2>4, ByteRange, AboveRange
<1>6. CASE i > Len(w) /\ i - Len(w) > 3
  <2> DEFINE j == i - Len(w)
  <2>1. /\ (w \o t)[i] = t[j] /\ (w \o t)[i - 1] = t[j - 1]
        /\ (w \o t)[i - 2] = t[j - 2] /\ (w \o t)[i - 3] = t[j - 3] /\ j \in 4..Len(t)
    <3>1. /\ (i - 1) - Len(w) = j - 1 /\ (i - 2) - Len(w) = j - 2 /\ (i - 3) - Len(w) = j - 3
          /\ j \in 4..Len(t)
          /\ ~(i <= Len(w)) /\ ~(i - 1 <= Len(w)) /\ ~(i - 2 <= Len(w)) /\ ~(i - 3 <= Len(w))
      BY <1>1, <1>3, <1>6
    <3> QED BY <3>1, <1>2, <1>3
  <2>2. Carries(im, t, j, Len(im) + 1)
    BY <2>1 DEF Looks, Fragment
  <2> QED BY <2>2, LenProperties DEF Carries
<1> QED BY <1>1, <1>3, <1>4, <1>5, <1>6

(* The host goes on to the next block.                                      *)
LEMMA OrderedNext ==
  ASSUME NEW im \in Seq(Data), NEW w \in Seq(Bytes), NEW n \in 1..Len(im), Ordered(im, w, 0, n)
  PROVE  Ordered(im, w, Len(w), n + 1)
<1>1. Len(im) \in Nat /\ Len(w) \in Nat /\ n # Len(im) + 1 /\ (n + 1) - 1 = n
  BY LenProperties
<1>2. ASSUME NEW i \in 4..Len(w), Looks(w, i)
      PROVE  Carries(im, w, i, n)
  <2>1. ~(i <= 0)
    BY <1>1
  <2> QED BY <2>1, <1>2 DEF Ordered
<1>3. \A i \in 1..Len(w) : w[i] # EOT
  BY <1>1 DEF Ordered
<1>4. \A i \in 4..Len(w) : i <= Len(w)
  BY <1>1
<1> QED BY <1>1, <1>2, <1>3, <1>4 DEF Ordered

-----------------------------------------------------------------------------
(* The invariant                                                            *)

Stream == frame \o toRx
NoAck(s) == \A i \in 1..Len(s) : s[i] # ACK
OneAck(s) == \A i, j \in 1..Len(s) : s[i] = ACK /\ s[j] = ACK => i = j

(* Both sides are at the beginning; nothing is on the line.                 *)
Idle ==
  /\ pc = "main" /\ toTx = <<>> /\ toRx = <<>>
  /\ host = [reg |-> "itcm", n |-> 1, st |-> "waits"]

(* The receiver has begun with the memory the host waits for: what is still *)
(* on the line is no block, and the host has no acknowledge ahead of it.    *)
Waits ==
  /\ pc # "main" /\ host.st = "waits" /\ host.n = 1
  /\ region = host.reg /\ total_received = 0
  /\ NoAck(toTx) /\ Barren(Stream)
  /\ toTx # <<>> /\ toTx[1] = CHR => toRx = <<>> /\ pc = "start"

(* Both are in the same transfer, and the host is at the block the receiver *)
(* wants or at the one it has just acknowledged.                            *)
Sent == pc # "main" /\ host.st \in {"sent", "aborted", "cancelled"}
Wanted ==
  /\ total_received = host.n - 1 /\ (host.st = "sent" => NoAck(toTx))
  /\ \E c \in 0..Len(Stream) : Ordered(image[region], Stream, c, host.n)
Acknowledged ==
  /\ total_received = host.n /\ (host.st = "sent" => OneAck(toTx))
  /\ Ordered(image[region], Stream, 0, host.n)
Same == Sent /\ region = host.reg /\ (Wanted \/ Acknowledged)

(* The receiver has seen the end of the first transfer, the host has not.   *)
Ended ==
  /\ Sent /\ host.reg = "itcm" /\ region = "dtcm" /\ total_received = 0
  /\ host.n = Len(image["itcm"]) + 1
  /\ Barren(Stream) /\ (host.st = "sent" => OneAck(toTx))

Sync == ~stale /\ ~tobrom /\ pc # "failed" => Idle \/ Waits \/ Same \/ Ended

(* What holds of the receiver's own state, and of the line, after any reset. *)
Working == pc \in {"start", "header", "can", "frame"}
Shape ==
  /\ pc # "frame" => frame = <<>>
  /\ Len(frame) >= 2 => frame[1] + frame[2] = NumMod - 1
  /\ Working => /\ block_num = (total_received % NumMod)
                /\ total_received <= Len(mem[region])
                /\ total_received <= MaxSize[region]
  /\ \A r \in Regions : Len(mem[r]) <= MaxSize[r] + 1
  /\ pc = "running" => tobrom
  /\ tobrom => pc \in {"main", "running"}
  /\ host.n <= Len(image[host.reg]) + 1
  /\ \A i \in 1..Len(toTx) : toTx[i] = CHR => i = 1
  /\ \A i \in 1..Len(toRx) : toRx[i] = CAN => host.st = "aborted" \/ stale \/ tobrom

(* The memories hold what the host has for them, and no more.               *)
Prefix ==
  \A i \in 1..total_received :
    i <= Len(mem[region]) /\ i <= Len(image[region]) /\ mem[region][i] = image[region][i]
Memory ==
  ~stale =>
    /\ Prefix
    /\ \A r \in Regions : Len(mem[r]) <= Len(image[r])
    /\ pc # "main" /\ region = "dtcm" =>
         mem["itcm"] = image["itcm"] /\ Len(image["itcm"]) <= MaxSize["itcm"]
    /\ tobrom => \A r \in Regions : mem[r] = image[r] /\ Len(image[r]) <= MaxSize[r]

IInv == TypeOK /\ Shape /\ Sync /\ Memory

(* The memory m with d behind its first k blocks.                           *)
Store(m, k, d) == SubSeq(m, 1, k) \o <<d>> \o SubSeq(m, k + 2, Len(m))

LEMMA Stored ==
  ASSUME NEW m \in Seq(Bytes), NEW k \in 0..Len(m), NEW d \in Bytes
  PROVE  /\ Store(m, k, d) \in Seq(Bytes)
         /\ Len(Store(m, k, d)) = IF k < Len(m) THEN Len(m) ELSE k + 1
         /\ \A i \in 1..k : Store(m, k, d)[i] = m[i]
         /\ Store(m, k, d)[k + 1] = d
<1> DEFINE q == Store(m, k, d)
           a == SubSeq(m, 1, k)
           b == SubSeq(m, k + 2, Len(m))
           e == <<d>>
<1>0. Len(m) \in Nat /\ k \in Int
  BY LenProperties
<1>1. a \in Seq(Bytes) /\ Len(a) = k /\ \A i \in 1..k : a[i] = m[i]
  <2>1. \A i \in 1..k : m[i] \in Bytes
    BY <1>0, ElementOfSeq
  <2>2. /\ a \in Seq(Bytes) /\ Len(a) = IF 1 <= k THEN k - 1 + 1 ELSE 0
        /\ \A i \in 1..k - 1 + 1 : a[i] = m[1 + i - 1]
    BY <1>0, <2>1, SubSeqProperties
  <2> QED BY <2>2, <1>0
<1>2. b \in Seq(Bytes) /\ Len(b) = IF k + 2 <= Len(m) THEN Len(m) - (k + 2) + 1 ELSE 0
  <2>1. \A i \in k + 2..Len(m) : m[i] \in Bytes
    BY <1>0, ElementOfSeq
  <2> QED BY <1>0, <2>1, SubSeqProperties
<1>3. e \in Seq(Bytes) /\ Len(e) = 1 /\ e[1] = d
  OBVIOUS
<1> HIDE DEF a, b, e
<1>4. /\ a \o e \in Seq(Bytes) /\ Len(a \o e) = Len(a) + Len(e)
      /\ \A i \in 1..Len(a) + Len(e) : (a \o e)[i] = IF i <= Len(a) THEN a[i] ELSE e[i - Len(a)]
  BY <1>1, <1>3, ConcatProperties
<1> DEFINE ae == a \o e
<1>5. ae \in Seq(Bytes) /\ Len(ae) = k + 1 /\ Len(b) \in Nat
  BY <1>0, <1>1, <1>2, <1>3, <1>4, LenProperties
<1>6. /\ ae \o b \in Seq(Bytes) /\ Len(ae \o b) = Len(ae) + Len(b)
      /\ \A i \in 1..Len(ae) + Len(b) : (ae \o b)[i] = IF i <= Len(ae) THEN ae[i] ELSE b[i - Len(ae)]
  <2> HIDE DEF ae
  <2> QED BY <1>2, <1>5, ConcatProperties
<1>7. q = ae \o b
  BY DEF a, b, e, ae, Store
<1> HIDE DEF q
<1>8. ASSUME NEW i \in 1..k + 1 PROVE q[i] = ae[i]
  <2>1. i \in 1..Len(ae) + Len(b) /\ i <= Len(ae)
    BY <1>0, <1>5
  <2> QED BY <2>1, <1>6, <1>7
<1>9. ASSUME NEW i \in 1..k PROVE q[i] = m[i]
  <2>1. i \in 1..k + 1 /\ i \in 1..Len(a) + Len(e) /\ i <= Len(a)
    BY <1>0, <1>1, <1>3
  <2> QED BY <2>1, <1>1, <1>4, <1>8
<1>10. q[k + 1] = d
  <2>1. k + 1 \in 1..k + 1 /\ k + 1 \in 1..Len(a) + Len(e) /\ ~(k + 1 <= Len(a)) /\ (k + 1) - Len(a) = 1
    BY <1>0, <1>1, <1>3
  <2> QED BY <2>1, <1>3, <1>4, <1>8
<1>11. Len(q) = IF k < Len(m) THEN Len(m) ELSE k + 1
  <2> HIDE DEF ae
  <2>1. Len(q) = (k + 1) + Len(b)
    BY <1>5, <1>6, <1>7
  <2>2. Len(b) = IF k + 2 <= Len(m) THEN Len(m) - (k + 2) + 1 ELSE 0
    BY <1>2
  <2>3. k \in Int /\ k <= Len(m) /\ Len(m) \in Int
    BY <1>0
  <2>4. \A x, y, z \in Int : z <= y /\ x = (IF z + 2 <= y THEN y - (z + 2) + 1 ELSE 0)
                              => (z + 1) + x = (IF z < y THEN y ELSE z + 1)
    OBVIOUS
  <2>5. Len(b) \in Int
    BY <1>5
  <2> QED BY ONLY <2>1, <2>2, <2>3, <2>4, <2>5
<1> QED BY <1>6, <1>7, <1>9, <1>10, <1>11 DEF q

LEMMA AnswerBytes == {ACK, NAK, CAN, CHR} \subseteq Bytes
BY AboveRange, IsByte DEF ACK, NAK, CAN, CHR

LEMMA ImageFacts ==
  ASSUME TypeOK, NEW r \in Regions
  PROVE  image[r] \in Seq(Data) /\ Len(image[r]) \in Nat /\ Len(image[r]) > 0
BY XmodemAssumption, LenProperties DEF TypeOK

(* What the host sends is bytes, and it stays at a block of the image or at *)
(* the end behind the last.                                                 *)
LEMMA SendTypes ==
  ASSUME TypeOK, NEW r \in Regions, NEW n \in 1..Len(image[r]) + 1, Send(r, n)
  PROVE  /\ toRx' \in Seq(Bytes) /\ faults' \in 0..MaxFaults
         /\ host' \in [reg : Regions, n : Nat \ {0},
                       st : {"waits", "sent", "done", "cancelled", "aborted"}]
         /\ host'.reg = r /\ host'.n = n /\ host'.st = "sent"
         /\ \A i \in 1..Len(toRx') : toRx'[i] = CAN => i \in 1..Len(toRx) /\ toRx[i] = CAN
<1>1. PICK t : /\ Fragment(image[r], n, t) /\ NoCan(t) /\ toRx' = toRx \o t
  BY SendArrives
<1>2. t \in Seq(Bytes) /\ toRx \in Seq(Bytes) /\ Len(toRx) \in Nat /\ Len(t) \in Nat
  BY <1>1, LenProperties DEF Fragment, TypeOK
<1>3. /\ toRx' \in Seq(Bytes) /\ Len(toRx') = Len(toRx) + Len(t)
      /\ \A i \in 1..Len(toRx) + Len(t) :
           toRx'[i] = IF i <= Len(toRx) THEN toRx[i] ELSE t[i - Len(toRx)]
  BY <1>1, <1>2, ConcatProperties
<1>4. faults' \in 0..MaxFaults
  BY XmodemAssumption DEF Send, Transmit, TypeOK
<1>5. n \in Nat \ {0} /\ host' = [reg |-> r, n |-> n, st |-> "sent"]
  BY ImageFacts DEF Send
<1>6. ASSUME NEW i \in 1..Len(toRx'), toRx'[i] = CAN
      PROVE  i \in 1..Len(toRx) /\ toRx[i] = CAN
  <2>1. CASE i <= Len(toRx)
    BY <2>1, <1>2, <1>3, <1>6
  <2>2. CASE i > Len(toRx)
    <3>1. i - Len(toRx) \in 1..Len(t) /\ t[i - Len(toRx)] = CAN
      BY <2>2, <1>2, <1>3, <1>6
    <3> QED BY <3>1, <1>1 DEF NoCan
  <2> QED BY <2>1, <2>2, <1>2, <1>3
<1> QED BY <1>3, <1>4, <1>5, <1>6

-----------------------------------------------------------------------------
(* Steps of the receiver                                                    *)

LEMMA Answering ==
  ASSUME NEW s \in Seq(Bytes), NEW a \in Seq({ACK, NAK, CAN})
  PROVE  /\ s \o a \in Seq(Bytes)
         /\ \A i \in 1..Len(s \o a) : (s \o a)[i] = CHR => i \in 1..Len(s) /\ s[i] = CHR
<1>1. a \in Seq(Bytes) /\ Len(s) \in Nat /\ Len(a) \in Nat
  <2>1. {ACK, NAK, CAN} \subseteq Bytes
    BY AnswerBytes
  <2> QED BY <2>1, SeqMonotonic, LenProperties
<1>2. /\ s \o a \in Seq(Bytes) /\ Len(s \o a) = Len(s) + Len(a)
      /\ \A i \in 1..Len(s) + Len(a) : (s \o a)[i] = IF i <= Len(s) THEN s[i] ELSE a[i - Len(s)]
  BY <1>1, ConcatProperties
<1>3. \A i \in 1..Len(a) : a[i] # CHR
  <2>1. \A i \in 1..Len(a) : a[i] \in {ACK, NAK, CAN}
    BY ElementOfSeq
  <2> QED BY <2>1 DEF ACK, NAK, CAN, CHR
<1>4. ASSUME NEW i \in 1..Len(s \o a), (s \o a)[i] = CHR
      PROVE  i \in 1..Len(s) /\ s[i] = CHR
  <2>1. i <= Len(s)
    <3> SUFFICES ASSUME ~(i <= Len(s)) PROVE FALSE
      OBVIOUS
    <3>1. i - Len(s) \in 1..Len(a) /\ a[i - Len(s)] = CHR
      BY <1>1, <1>2, <1>4
    <3> QED BY <3>1, <1>3
  <2> QED BY <2>1, <1>1, <1>2, <1>4
<1> QED BY <1>2, <1>4

LEMMA BlockErrorFacts ==
  ASSUME TypeOK, NEW a \in {ACK, NAK}, BlockError(a)
  PROVE  /\ frame' = <<>> /\ mem' = mem /\ region' = region /\ block_num' = block_num
         /\ total_received' = total_received /\ tobrom' = tobrom
         /\ error_count' \in 0..ErrorLimit /\ pc' \in {"failed", "header"}
         /\ pc' = "header" => toTx' = Append(toTx, a)
         /\ toTx' \in Seq(Bytes)
         /\ \A i \in 1..Len(toTx') : toTx'[i] = CHR => i \in 1..Len(toTx) /\ toTx[i] = CHR
<1>1. frame' = <<>> /\ mem' = mem
  BY DEF BlockError
<1>2. /\ region' = region /\ block_num' = block_num
      /\ total_received' = total_received /\ tobrom' = tobrom
      /\ error_count' \in 0..ErrorLimit /\ pc' \in {"failed", "header"}
      /\ pc' = "header" => toTx' = Append(toTx, a)
      /\ toTx' = toTx \o <<a, CAN, CAN>> \/ toTx' = Append(toTx, a)
  <2>1. error_count \in 0..ErrorLimit /\ ErrorLimit \in Nat
    BY XmodemAssumption DEF TypeOK
  <2>2. CASE error_count + 1 > ErrorLimit
    BY <2>1, <2>2 DEF BlockError, BootloaderFails, xfer
  <2>3. CASE ~(error_count + 1 > ErrorLimit)
    <3>1. error_count' = error_count + 1 /\ error_count + 1 \in 0..ErrorLimit
      BY <2>1, <2>3 DEF BlockError
    <3> QED BY <2>3, <3>1 DEF BlockError
  <2> QED BY <2>2, <2>3
<1>3. Append(toTx, a) = toTx \o <<a>>
  BY AnswerBytes, AppendIsConcat DEF TypeOK
<1>4. <<a>> \in Seq({ACK, NAK, CAN}) /\ <<a, CAN, CAN>> \in Seq({ACK, NAK, CAN})
  OBVIOUS
<1>5. \E b \in Seq({ACK, NAK, CAN}) : toTx' = toTx \o b
  BY <1>2, <1>3, <1>4
<1>6. /\ toTx' \in Seq(Bytes)
      /\ \A i \in 1..Len(toTx') : toTx'[i] = CHR => i \in 1..Len(toTx) /\ toTx[i] = CHR
  <2>1. PICK b \in Seq({ACK, NAK, CAN}) : toTx' = toTx \o b
    BY <1>5
  <2>2. toTx \in Seq(Bytes)
    BY DEF TypeOK
  <2> QED BY <2>1, <2>2, Answering
<1> QED BY <1>1, <1>2, <1>6

LEMMA FrameFacts ==
  ASSUME TypeOK, toRx # <<>>, NEW f, f = Append(frame, Head(toRx))
  PROVE  /\ Head(toRx) \in Bytes /\ Tail(toRx) \in Seq(Bytes)
         /\ f \in Seq(Bytes) /\ Len(f) = Len(frame) + 1 /\ Len(frame) \in 0..4
         /\ \A i \in 1..Len(frame) : f[i] = frame[i]
         /\ f[Len(frame) + 1] = Head(toRx)
<1>1. Head(toRx) \in Bytes /\ Tail(toRx) \in Seq(Bytes) /\ frame \in Seq(Bytes)
  BY HeadTailProperties DEF TypeOK
<1>2. Len(frame) \in 0..4
  <2>1. Len(frame) \in Nat /\ Len(frame) < 5
    BY <1>1, LenProperties DEF TypeOK
  <2>2. \A n \in Nat : n < 5 => n \in 0..4
    OBVIOUS
  <2> QED BY ONLY <2>1, <2>2
<1>3. /\ f \in Seq(Bytes) /\ Len(f) = Len(frame) + 1
      /\ \A i \in 1..Len(frame) : f[i] = frame[i]
      /\ f[Len(frame) + 1] = Head(toRx)
  BY <1>1, AppendProperties
<1> QED BY <1>1, <1>2, <1>3

(* The frame that is accepted, and what is stored.                          *)
LEMMA Accepted ==
  ASSUME TypeOK, Shape, Get("frame"), BlockReceived, NEW f,
         f = Append(frame, Head(toRx)), ~Refused(f), Len(f) = 5
  PROVE  /\ Len(frame) = 4 /\ frame[3] \in Bytes
         /\ frame[1] = ((total_received + 1) % NumMod)
         /\ frame[1] + frame[2] = NumMod - 1
         /\ frame[4] = CrcHi(frame[3])
         /\ mem' \in [Regions -> Seq(Bytes)]
         /\ \A r \in Regions : r # region => mem'[r] = mem[r]
         /\ Len(mem'[region]) = IF total_received < Len(mem[region])
                                THEN Len(mem[region]) ELSE total_received + 1
         /\ \A i \in 1..total_received : mem'[region][i] = mem[region][i]
         /\ mem'[region][total_received + 1] = frame[3]
         /\ block_num' = ((total_received + 1) % NumMod)
         /\ block_num' \in 0..NumMod - 1
         /\ toTx' \in Seq(Bytes)
         /\ \A i \in 1..Len(toTx') : toTx'[i] = CHR => i \in 1..Len(toTx) /\ toTx[i] = CHR
<1>1. toRx # <<>> /\ pc = "frame"
  BY DEF Get
<1>2. /\ Len(frame) = 4 /\ f[1] = frame[1] /\ f[2] = frame[2] /\ f[3] = frame[3] /\ f[4] = frame[4]
      /\ \A i \in 1..4 : frame[i] \in Bytes
  <2>1. Len(frame) = 4
    BY <1>1, FrameFacts
  <2>2. \A i \in 1..4 : f[i] = frame[i] /\ frame[i] \in Bytes
    BY <1>1, <2>1, FrameFacts, ElementOfSeq DEF TypeOK
  <2> QED BY <2>1, <2>2
<1>3. /\ block_num = (total_received % NumMod) /\ total_received \in 0..Len(mem[region])
      /\ total_received \in Nat /\ mem[region] \in Seq(Bytes) /\ region \in Regions
  BY <1>1, LenProperties DEF Shape, Working, TypeOK
<1>4. frame[1] = ((total_received + 1) % NumMod) /\ frame[1] \in 0..NumMod - 1
  <2>1. f[1] = expected_num
    BY DEF Refused
  <2>2. total_received + 1 \in Nat
    BY <1>3
  <2> QED BY <2>1, <2>2, <1>2, <1>3, NumberOfNext, NumberRange DEF expected_num
<1>5. frame[4] = CrcHi(frame[3])
  BY <1>2 DEF Refused
<1>6. frame[1] + frame[2] = NumMod - 1
  BY <1>2 DEF Shape
<1> DEFINE q == Store(mem[region], total_received, frame[3])
<1>7. mem' = [mem EXCEPT ![region] = q]
  BY DEF BlockReceived, Store
<1>8. frame[3] \in Bytes
  BY <1>2
<1>9. /\ q \in Seq(Bytes)
      /\ Len(q) = IF total_received < Len(mem[region])
                  THEN Len(mem[region]) ELSE total_received + 1
      /\ \A i \in 1..total_received : q[i] = mem[region][i]
      /\ q[total_received + 1] = frame[3]
  BY <1>3, <1>8, Stored
<1> HIDE DEF q
<1>10. /\ mem' \in [Regions -> Seq(Bytes)] /\ mem'[region] = q
       /\ \A r \in Regions : r # region => mem'[r] = mem[r]
  BY <1>3, <1>7, <1>9 DEF TypeOK
<1>11. block_num' = frame[1]
  BY DEF BlockReceived
<1>12. \E b \in Seq({ACK, NAK, CAN}) : toTx' = toTx \o b
  <2>1. Append(toTx, ACK) = toTx \o <<ACK>>
    BY AnswerBytes, AppendIsConcat DEF TypeOK
  <2>2. <<ACK>> \in Seq({ACK, NAK, CAN}) /\ <<ACK, CAN, CAN>> \in Seq({ACK, NAK, CAN})
    OBVIOUS
  <2>3. toTx' = toTx \o <<ACK, CAN, CAN>> \/ toTx' = Append(toTx, ACK)
    BY DEF BlockReceived
  <2> QED BY <2>1, <2>2, <2>3
<1>13. /\ toTx' \in Seq(Bytes)
       /\ \A i \in 1..Len(toTx') : toTx'[i] = CHR => i \in 1..Len(toTx) /\ toTx[i] = CHR
  <2>1. PICK b \in Seq({ACK, NAK, CAN}) : toTx' = toTx \o b
    BY <1>12
  <2>2. toTx \in Seq(Bytes)
    BY DEF TypeOK
  <2> QED BY <2>1, <2>2, Answering
<1> QED BY <1>2, <1>4, <1>5, <1>6, <1>8, <1>9, <1>10, <1>11, <1>13

LEMMA EndFacts ==
  ASSUME TypeOK, EndOfTransmission
  PROVE  /\ toTx' = Append(toTx, ACK) /\ toTx' \in Seq(Bytes)
         /\ \A i \in 1..Len(toTx') : toTx'[i] = CHR => i \in 1..Len(toTx) /\ toTx[i] = CHR
<1>1. toTx' = Append(toTx, ACK)
  BY DEF EndOfTransmission
<1>2. Append(toTx, ACK) = toTx \o <<ACK>>
  BY AnswerBytes, AppendIsConcat DEF TypeOK
<1>3. <<ACK>> \in Seq({ACK, NAK, CAN})
  OBVIOUS
<1> QED BY <1>1, <1>2, <1>3, Answering DEF TypeOK

-----------------------------------------------------------------------------
(* Types, and the receiver's own state                                      *)

LEMMA ReadTypes ==
  ASSUME TypeOK, NEW at, Get(at)
  PROVE  /\ toRx' \in Seq(Bytes) /\ image' \in Images
         /\ host' \in [reg : Regions, n : Nat \ {0},
                       st : {"waits", "sent", "done", "cancelled", "aborted"}]
         /\ faults' \in 0..MaxFaults /\ resets' \in 0..MaxResets /\ stale' \in BOOLEAN
BY HeadTailProperties DEF Get, TypeOK, outside

LEMMA EmptyBytes == <<>> \in Seq(Bytes) /\ Len(<<>>) < 5
BY EmptySeq

LEMMA ReceiverTypes ==
  ASSUME TypeOK, Shape, Receiver
  PROVE  TypeOK'
<1>1. CASE BromMain
  <2>1. 0 \in 0..NumMod - 1 /\ 0 \in 0..ErrorLimit
    BY XmodemAssumption
  <2> QED BY <1>1, <2>1 DEF BromMain, StartReceive, TypeOK, xfer, outside, Regions
<1>2. CASE SendC
  <2>1. CHR \in Bytes
    BY AnswerBytes
  <2>2. <<CHR>> \in Seq(Bytes)
    BY <2>1
  <2> QED BY <1>2, <2>2 DEF SendC, TypeOK, rxvars, xfer, outside
<1>3. CASE StartSeen
  BY <1>3 DEF StartSeen, GoOn, TypeOK, xfer, outside
<1>4. CASE EndOfTransmission
  <2>1. /\ toRx' \in Seq(Bytes) /\ image' \in Images
        /\ host' \in [reg : Regions, n : Nat \ {0},
                      st : {"waits", "sent", "done", "cancelled", "aborted"}]
        /\ faults' \in 0..MaxFaults /\ resets' \in 0..MaxResets /\ stale' \in BOOLEAN
    BY <1>4, ReadTypes DEF EndOfTransmission
  <2>2. toTx' \in Seq(Bytes)
    BY <1>4, EndFacts
  <2>3. 0 \in 0..NumMod - 1 /\ 0 \in 0..ErrorLimit
    BY XmodemAssumption
  <2>4. /\ pc' \in {"start", "failed", "running"} /\ region' \in Regions
        /\ block_num' \in 0..NumMod - 1 /\ total_received' \in Nat
        /\ error_count' \in 0..ErrorLimit /\ tobrom' \in BOOLEAN
    <3>1. /\ region \in Regions /\ block_num \in 0..NumMod - 1 /\ total_received \in Nat
          /\ error_count \in 0..ErrorLimit /\ tobrom \in BOOLEAN
      BY DEF TypeOK
    <3>2. CASE BootloaderFails
      BY <3>1, <3>2 DEF BootloaderFails, xfer
    <3>3. CASE BootloaderGoesOn /\ region = "itcm"
      <4>1. StartReceive("dtcm") /\ tobrom' = tobrom /\ "dtcm" \in Regions
        BY <3>3 DEF BootloaderGoesOn, Regions
      <4> QED BY <4>1, <3>1, <2>3 DEF StartReceive
    <3>4. CASE BootloaderGoesOn /\ region # "itcm"
      BY <3>1, <3>4 DEF BootloaderGoesOn, xfer
    <3> QED BY <1>4, <3>2, <3>3, <3>4 DEF EndOfTransmission
  <2>5. frame' = frame /\ mem' = mem
    BY <1>4 DEF EndOfTransmission
  <2> QED BY <2>1, <2>2, <2>4, <2>5 DEF TypeOK
<1>5. ASSUME NEW at, Get(at), NEW a \in {ACK, NAK}, BlockError(a)
      PROVE  TypeOK'
  <2>1. /\ toRx' \in Seq(Bytes) /\ image' \in Images
        /\ host' \in [reg : Regions, n : Nat \ {0},
                      st : {"waits", "sent", "done", "cancelled", "aborted"}]
        /\ faults' \in 0..MaxFaults /\ resets' \in 0..MaxResets /\ stale' \in BOOLEAN
    BY <1>5, ReadTypes
  <2>2. /\ frame' = <<>> /\ mem' = mem /\ region' = region /\ block_num' = block_num
        /\ total_received' = total_received /\ tobrom' = tobrom
        /\ error_count' \in 0..ErrorLimit /\ pc' \in {"failed", "header"}
        /\ toTx' \in Seq(Bytes)
    BY <1>5, BlockErrorFacts
  <2> QED BY <2>1, <2>2, EmptyBytes DEF TypeOK
<1>6. ASSUME NEW at, Get(at), NEW to \in {"header", "can", "frame"}, GoOn(to),
             frame' \in Seq(Bytes), Len(frame') < 5
      PROVE  TypeOK'
  <2>1. /\ toRx' \in Seq(Bytes) /\ image' \in Images
        /\ host' \in [reg : Regions, n : Nat \ {0},
                      st : {"waits", "sent", "done", "cancelled", "aborted"}]
        /\ faults' \in 0..MaxFaults /\ resets' \in 0..MaxResets /\ stale' \in BOOLEAN
    BY <1>6, ReadTypes
  <2> QED BY <1>6, <2>1 DEF TypeOK, GoOn, xfer
<1>7. CASE Header
  <2>1. CASE Head(toRx) = CAN
    BY <1>7, <2>1, <1>6 DEF Header, TypeOK, CAN, SOH
  <2>2. CASE Head(toRx) = SOH
    BY <1>7, <2>2, <1>6, EmptyBytes DEF Header, CAN, SOH
  <2>3. CASE Head(toRx) # CAN /\ Head(toRx) # SOH
    BY <1>7, <2>3, <1>5 DEF Header
  <2> QED BY <2>1, <2>2, <2>3
<1>8. CASE SecondCan
  BY <1>8, <1>5 DEF SecondCan
<1>9. CASE FrameByte
  <2> DEFINE f == Append(frame, Head(toRx))
  <2>0. Get("frame") /\ toRx # <<>>
    BY <1>9 DEF FrameByte, Get
  <2>1. CASE BlockError(NAK)
    BY <2>0, <2>1, <1>5
  <2>2. CASE ~Refused(f) /\ Len(f) = 5 /\ BlockReceived
    <3>1. /\ mem' \in [Regions -> Seq(Bytes)] /\ block_num' \in 0..NumMod - 1
          /\ toTx' \in Seq(Bytes)
      BY <2>0, <2>2, Accepted
    <3>2. /\ frame' = <<>> /\ region' = region /\ tobrom' = tobrom
          /\ total_received' = total_received + 1 /\ error_count' = 0
          /\ pc' \in {"failed", "header"}
      BY <2>2 DEF BlockReceived
    <3>3. 0 \in 0..ErrorLimit /\ total_received + 1 \in Nat
      BY XmodemAssumption DEF TypeOK
    <3>4. /\ toRx' \in Seq(Bytes) /\ image' \in Images
          /\ host' \in [reg : Regions, n : Nat \ {0},
                        st : {"waits", "sent", "done", "cancelled", "aborted"}]
          /\ faults' \in 0..MaxFaults /\ resets' \in 0..MaxResets /\ stale' \in BOOLEAN
      BY <2>0, ReadTypes
    <3> QED BY <3>1, <3>2, <3>3, <3>4, EmptyBytes DEF TypeOK
  <2>3. CASE ~Refused(f) /\ Len(f) < 5 /\ GoOn("frame") /\ frame' = f
    <3>1. f \in Seq(Bytes)
      BY <2>0, FrameFacts
    <3> HIDE DEF f
    <3> QED BY <2>0, <2>3, <3>1, <1>6
  <2> QED BY <1>9, <2>1, <2>2, <2>3 DEF FrameByte
<1> QED BY <1>1, <1>2, <1>3, <1>4, <1>7, <1>8, <1>9 DEF Receiver

LEMMA HostReadsCases ==
  ASSUME TypeOK, HostReads
  PROVE  \/ host.st = "waits" /\ Head(toTx) = CHR /\ Send(host.reg, 1)
         \/ host.st = "sent" /\ Head(toTx) = NAK /\ Send(host.reg, host.n)
         \/ /\ host.st = "sent" /\ Head(toTx) = ACK /\ host.n <= Len(image[host.reg])
            /\ Send(host.reg, host.n + 1)
         \/ /\ host.st = "sent" /\ Head(toTx) = ACK /\ host.n > Len(image[host.reg])
            /\ host' = IF host.reg = "itcm"
                       THEN [reg |-> "dtcm", n |-> 1, st |-> "waits"]
                       ELSE [host EXCEPT !.st = "done"]
            /\ UNCHANGED <<toRx, faults>>
         \/ /\ host.st = "sent" /\ Head(toTx) = CAN
            /\ host' = [host EXCEPT !.st = "cancelled"] /\ UNCHANGED <<toRx, faults>>
         \/ /\ UNCHANGED <<host, toRx, faults>>
            /\ ~(host.st = "waits" /\ Head(toTx) = CHR)
            /\ ~(host.st = "sent" /\ Head(toTx) \in {NAK, ACK, CAN})
<1>1. ACK # NAK /\ ACK # CAN /\ NAK # CAN
  BY DEF ACK, NAK, CAN
<1>2. host.n <= Len(image[host.reg]) \/ host.n > Len(image[host.reg])
  <2>1. host.n \in Nat /\ host.reg \in Regions
    BY DEF TypeOK
  <2>2. Len(image[host.reg]) \in Nat
    BY <2>1, ImageFacts
  <2> QED BY <2>1, <2>2
<1>3. ~(host.n <= Len(image[host.reg]) /\ host.n > Len(image[host.reg]))
  <2>1. host.n \in Nat /\ host.reg \in Regions
    BY DEF TypeOK
  <2>2. Len(image[host.reg]) \in Nat
    BY <2>1, ImageFacts
  <2> QED BY <2>1, <2>2
<1>4. "waits" # "sent"
  OBVIOUS
<1> QED BY <1>1, <1>2, <1>3, <1>4 DEF HostReads

(* The steps of the host and of the line, and a reset.                      *)
LEMMA OtherTypes ==
  ASSUME TypeOK, Shape, HostReads \/ LoseAnswer \/ HostTimeout \/ HostCancels \/ SoftReset
  PROVE  /\ TypeOK' /\ host'.n <= Len(image[host'.reg]) + 1
         /\ \A i \in 1..Len(toRx') : toRx'[i] = CAN => host'.st = "aborted" \/ stale' \/ tobrom
         /\ \A i \in 1..Len(toTx') : toTx'[i] = CHR => i = 1
<1>0. /\ host.reg \in Regions /\ host.n \in Nat \ {0} /\ "itcm" \in Regions /\ "dtcm" \in Regions
      /\ host.n <= Len(image[host.reg]) + 1 /\ Len(image[host.reg]) \in Nat
      /\ host.n \in 1..Len(image[host.reg]) + 1 /\ 1 \in 1..Len(image[host.reg]) + 1
      /\ image \in Images /\ resets \in 0..MaxResets /\ faults \in 0..MaxFaults
      /\ MaxFaults \in Nat /\ MaxResets \in Nat /\ stale \in BOOLEAN
      /\ toRx \in Seq(Bytes) /\ toTx \in Seq(Bytes)
      /\ host.st \in {"waits", "sent", "done", "cancelled", "aborted"}
  <2>1. host.reg \in Regions /\ host.n \in Nat \ {0}
    BY DEF TypeOK
  <2>2. Len(image[host.reg]) \in Nat /\ host.n <= Len(image[host.reg]) + 1
    BY <2>1, ImageFacts DEF Shape
  <2>3. host.n \in 1..Len(image[host.reg]) + 1 /\ 1 \in 1..Len(image[host.reg]) + 1
    BY <2>1, <2>2
  <2>4. MaxFaults \in Nat /\ MaxResets \in Nat
    BY XmodemAssumption
  <2> QED BY <2>1, <2>2, <2>3, <2>4 DEF TypeOK, Regions
<1>1. /\ pc \in {"main", "start", "header", "can", "frame", "failed", "running"}
      /\ region \in Regions /\ frame \in Seq(Bytes) /\ Len(frame) < 5
      /\ block_num \in 0..NumMod - 1 /\ total_received \in Nat
      /\ error_count \in 0..ErrorLimit
      /\ mem \in [Regions -> Seq(Bytes)] /\ tobrom \in BOOLEAN
  BY DEF TypeOK
<1>2. /\ \A i \in 1..Len(toTx) : toTx[i] = CHR => i = 1
      /\ \A i \in 1..Len(toRx) : toRx[i] = CAN => host.st = "aborted" \/ stale \/ tobrom
  BY DEF Shape
<1>3. ASSUME toTx # <<>>, toTx' = Tail(toTx)
      PROVE  toTx' \in Seq(Bytes) /\ \A i \in 1..Len(toTx') : toTx'[i] = CHR => i = 1
  <2>1. /\ toTx' \in Seq(Bytes) /\ Len(toTx') = Len(toTx) - 1
        /\ \A i \in 1..Len(toTx') : toTx'[i] = toTx[i + 1]
    BY <1>0, <1>3, HeadTailProperties
  <2>2. Len(toTx) \in Nat
    BY <1>0, LenProperties
  <2>3. \A i \in 1..Len(toTx') : i + 1 \in 1..Len(toTx) /\ i + 1 # 1
    BY <2>1, <2>2
  <2> QED BY <2>1, <2>3, <1>2
<1>4. ASSUME NEW r \in Regions, NEW n \in 1..Len(image[r]) + 1, Send(r, n),
             UNCHANGED <<image, rxvars, resets, stale>>,
             host.st # "aborted",
             toTx' \in Seq(Bytes), \A i \in 1..Len(toTx') : toTx'[i] = CHR => i = 1
      PROVE  /\ TypeOK' /\ host'.n <= Len(image[host'.reg]) + 1
             /\ \A i \in 1..Len(toRx') : toRx'[i] = CAN => host'.st = "aborted" \/ stale' \/ tobrom
             /\ \A i \in 1..Len(toTx') : toTx'[i] = CHR => i = 1
  <2>1. /\ toRx' \in Seq(Bytes) /\ faults' \in 0..MaxFaults
        /\ host' \in [reg : Regions, n : Nat \ {0},
                      st : {"waits", "sent", "done", "cancelled", "aborted"}]
        /\ host'.reg = r /\ host'.n = n /\ host'.st = "sent"
        /\ \A i \in 1..Len(toRx') : toRx'[i] = CAN => i \in 1..Len(toRx) /\ toRx[i] = CAN
    BY <1>4, SendTypes
  <2>2. TypeOK'
    BY <2>1, <1>0, <1>1, <1>4 DEF TypeOK, rxvars, xfer
  <2>3. host'.n <= Len(image[host'.reg]) + 1
    BY <2>1
  <2>4. \A i \in 1..Len(toRx') : toRx'[i] = CAN => host'.st = "aborted" \/ stale' \/ tobrom
    BY <2>1, <1>2, <1>4
  <2> QED BY <2>2, <2>3, <2>4, <1>4
<1>5. ASSUME UNCHANGED <<image, rxvars, resets, stale, toRx>>,
             faults' \in 0..MaxFaults,
             host' \in [reg : Regions, n : Nat \ {0},
                        st : {"waits", "sent", "done", "cancelled", "aborted"}],
             host'.n <= Len(image[host'.reg]) + 1, host.st = "aborted" => host'.st = "aborted",
             toTx' \in Seq(Bytes), \A i \in 1..Len(toTx') : toTx'[i] = CHR => i = 1
      PROVE  /\ TypeOK' /\ host'.n <= Len(image[host'.reg]) + 1
             /\ \A i \in 1..Len(toRx') : toRx'[i] = CAN => host'.st = "aborted" \/ stale' \/ tobrom
             /\ \A i \in 1..Len(toTx') : toTx'[i] = CHR => i = 1
  <2>1. TypeOK'
    BY <1>0, <1>1, <1>5 DEF TypeOK, rxvars, xfer
  <2> QED BY <2>1, <1>2, <1>5
<1>6. CASE HostReads
  <2>1. toTx # <<>> /\ toTx' = Tail(toTx) /\ UNCHANGED <<image, rxvars, resets, stale>>
    BY <1>6 DEF HostReads
  <2>2. toTx' \in Seq(Bytes) /\ \A i \in 1..Len(toTx') : toTx'[i] = CHR => i = 1
    BY <2>1, <1>3
  <2>3. CASE host.st = "waits" /\ Send(host.reg, 1)
    BY <2>1, <2>2, <2>3, <1>0, <1>4
  <2>4. CASE host.st = "sent" /\ Send(host.reg, host.n)
    BY <2>1, <2>2, <2>4, <1>0, <1>4
  <2>5. CASE host.st = "sent" /\ host.n <= Len(image[host.reg]) /\ Send(host.reg, host.n + 1)
    <3>1. host.n + 1 \in 1..Len(image[host.reg]) + 1
      BY <2>5, <1>0
    <3> QED BY <2>1, <2>2, <2>5, <3>1, <1>0, <1>4
  <2>6. CASE /\ host' = IF host.reg = "itcm"
                        THEN [reg |-> "dtcm", n |-> 1, st |-> "waits"]
                        ELSE [host EXCEPT !.st = "done"]
             /\ UNCHANGED <<toRx, faults>> /\ host.st = "sent"
    <3>1. host' \in [reg : Regions, n : Nat \ {0},
                     st : {"waits", "sent", "done", "cancelled", "aborted"}]
      <4>1. 1 \in Nat \ {0} /\ "dtcm" \in Regions
        BY DEF Regions
      <4>2. host \in [reg : Regions, n : Nat \ {0},
                      st : {"waits", "sent", "done", "cancelled", "aborted"}]
        BY DEF TypeOK
      <4>3. CASE host.reg = "itcm"
        BY <4>1, <4>3, <2>6
      <4>4. CASE host.reg # "itcm"
        BY <4>2, <4>4, <2>6
      <4> QED BY <4>3, <4>4
    <3>2. host'.n <= Len(image[host'.reg]) + 1
      <4>1. CASE host.reg = "itcm"
        <5>1. host'.n = 1 /\ host'.reg = "dtcm" /\ Len(image["dtcm"]) \in Nat
          BY <4>1, <2>6, <1>0, ImageFacts
        <5> QED BY <5>1
      <4>2. CASE host.reg # "itcm"
        BY <4>2, <2>6, <1>0 DEF TypeOK
      <4> QED BY <4>1, <4>2
    <3> QED BY <2>1, <2>2, <2>6, <3>1, <3>2, <1>0, <1>5
  <2>7. CASE /\ host' = [host EXCEPT !.st = "cancelled"] /\ UNCHANGED <<toRx, faults>>
             /\ host.st = "sent"
    <3>1. /\ host' \in [reg : Regions, n : Nat \ {0},
                        st : {"waits", "sent", "done", "cancelled", "aborted"}]
          /\ host'.n = host.n /\ host'.reg = host.reg
      BY <2>7 DEF TypeOK
    <3> QED BY <2>1, <2>2, <2>7, <3>1, <1>0, <1>5
  <2>8. CASE UNCHANGED <<host, toRx, faults>>
    <3>1. host \in [reg : Regions, n : Nat \ {0},
                    st : {"waits", "sent", "done", "cancelled", "aborted"}]
      BY DEF TypeOK
    <3> QED BY <2>1, <2>2, <2>8, <3>1, <1>0, <1>5
  <2> QED BY <1>6, <2>3, <2>4, <2>5, <2>6, <2>7, <2>8, HostReadsCases
<1>7. CASE LoseAnswer
  <2>1. toTx' \in Seq(Bytes) /\ \A i \in 1..Len(toTx') : toTx'[i] = CHR => i = 1
    BY <1>7, <1>3 DEF LoseAnswer
  <2>2. faults' \in 0..MaxFaults
    BY <1>7, <1>0 DEF LoseAnswer
  <2>3. host' \in [reg : Regions, n : Nat \ {0},
                   st : {"waits", "sent", "done", "cancelled", "aborted"}]
        /\ host' = host
    BY <1>7 DEF LoseAnswer, TypeOK
  <2> QED BY <1>7, <2>1, <2>2, <2>3, <1>0, <1>5 DEF LoseAnswer
<1>8. CASE HostTimeout
  BY <1>8, <1>0, <1>2, <1>4 DEF HostTimeout
<1>9. CASE HostCancels
  <2> DEFINE t == <<CAN, CAN, CAN, CAN>>
  <2>1. t \in Seq(Bytes)
    BY AnswerBytes
  <2>2. /\ toRx' = t /\ faults' \in 0..MaxFaults /\ host' = [host EXCEPT !.st = "aborted"]
        /\ UNCHANGED <<image, rxvars, toTx, resets, stale>>
    BY <1>9, <1>0 DEF HostCancels
  <2> HIDE DEF t
  <2>3. /\ host' \in [reg : Regions, n : Nat \ {0},
                      st : {"waits", "sent", "done", "cancelled", "aborted"}]
        /\ host'.n = host.n /\ host'.reg = host.reg /\ host'.st = "aborted"
    BY <2>2 DEF TypeOK
  <2>4. TypeOK'
    BY <2>1, <2>2, <2>3, <1>0, <1>1 DEF TypeOK, rxvars, xfer
  <2> QED BY <2>2, <2>3, <2>4, <1>0, <1>2
<1>10. CASE SoftReset
  <2>1. /\ resets' \in 0..MaxResets /\ pc' = "main" /\ frame' = <<>>
        /\ host' = [reg |-> "itcm", n |-> 1, st |-> "waits"]
        /\ toTx' = <<>> /\ stale' = (stale \/ (toRx # <<>> /\ ~tobrom))
        /\ UNCHANGED <<image, region, xfer, mem, tobrom, toRx, faults>>
    BY <1>10, <1>0 DEF SoftReset
  <2>2. TypeOK'
    BY <2>1, <1>0, <1>1, EmptyBytes DEF TypeOK, xfer
  <2>3. host'.n <= Len(image[host'.reg]) + 1
    BY <2>1, <1>0, ImageFacts
  <2>4. \A i \in 1..Len(toRx') : toRx'[i] = CAN => host'.st = "aborted" \/ stale' \/ tobrom
    <3> SUFFICES ASSUME NEW i \in 1..Len(toRx'), ~tobrom PROVE stale'
      OBVIOUS
    <3>1. Len(toRx) # 0 /\ toRx # <<>>
      BY <2>1, <1>0, EmptySeq
    <3> QED BY <3>1, <2>1
  <2>5. \A i \in 1..Len(toTx') : toTx'[i] = CHR => i = 1
    BY <2>1, EmptySeq
  <2> QED BY <2>2, <2>3, <2>4, <2>5
<1> QED BY <1>6, <1>7, <1>8, <1>9, <1>10

LEMMA ZeroNumber == 0 = (0 % NumMod)
<1>1. PICK q \in Nat : 0 = NumMod * q + (0 % NumMod)
  BY Quotient
<1>2. (0 % NumMod) \in 0..NumMod - 1
  BY NumberRange
<1>3. NumMod * 0 + 0 = NumMod * q + (0 % NumMod) /\ 0 \in 0..NumMod - 1
  BY <1>1, NumModRange
<1> QED BY <1>2, <1>3, RemainderUnique

(* What a step of the receiver leaves of Shape.                             *)
LEMMA ReceiverLeaves ==
  ASSUME TypeOK, Shape, UNCHANGED outside, tobrom => tobrom',
         toRx' = toRx \/ (toRx # <<>> /\ toRx' = Tail(toRx))
  PROVE  /\ host'.n <= Len(image'[host'.reg]) + 1
         /\ \A i \in 1..Len(toRx') : toRx'[i] = CAN => host'.st = "aborted" \/ stale' \/ tobrom'
<1>1. \A i \in 1..Len(toRx) : toRx[i] = CAN => host.st = "aborted" \/ stale \/ tobrom
  BY DEF Shape
<1>2. host' = host /\ image' = image /\ stale' = stale
  BY DEF outside
<1>3. CASE toRx' = toRx
  BY <1>1, <1>2, <1>3 DEF Shape
<1>4. CASE toRx # <<>> /\ toRx' = Tail(toRx)
  <2>1. /\ Len(toRx') = Len(toRx) - 1
        /\ \A i \in 1..Len(toRx') : toRx'[i] = toRx[i + 1]
    BY <1>4, HeadTailProperties DEF TypeOK
  <2>2. Len(toRx) \in Nat
    BY LenProperties DEF TypeOK
  <2>3. \A i \in 1..Len(toRx') : i + 1 \in 1..Len(toRx)
    BY <2>1, <2>2
  <2> QED BY <2>1, <2>3, <1>1, <1>2 DEF Shape
<1> QED BY <1>3, <1>4

LEMMA ReadOut ==
  ASSUME NEW at, Get(at)
  PROVE  UNCHANGED outside /\ toRx # <<>> /\ toRx' = Tail(toRx) /\ pc = at
BY DEF Get

LEMMA ReceiverShape ==
  ASSUME TypeOK, Shape, Receiver
  PROVE  Shape'
<1>0. /\ pc # "frame" => frame = <<>>
      /\ Len(frame) >= 2 => frame[1] + frame[2] = NumMod - 1
      /\ Working => /\ block_num = (total_received % NumMod)
                    /\ total_received <= Len(mem[region])
                    /\ total_received <= MaxSize[region]
      /\ \A r \in Regions : Len(mem[r]) <= MaxSize[r] + 1
      /\ pc = "running" => tobrom
      /\ tobrom => pc \in {"main", "running"}
      /\ \A i \in 1..Len(toTx) : toTx[i] = CHR => i = 1
  BY DEF Shape
<1>s. ASSUME NEW r \in Regions
      PROVE  mem[r] \in Seq(Bytes) /\ Len(mem[r]) \in Nat /\ MaxSize[r] \in Nat
  BY XmodemAssumption, LenProperties DEF TypeOK
<1>z. Len(<<>>) = 0
  BY EmptySeq
(* xmodem_receive starts. *)
<1>1. ASSUME NEW r \in Regions, StartReceive(r), frame' = <<>>, mem' = mem, tobrom' = tobrom, ~tobrom,
             UNCHANGED outside, toRx' = toRx \/ (toRx # <<>> /\ toRx' = Tail(toRx)),
             \A i \in 1..Len(toTx') : toTx'[i] = CHR => i = 1
      PROVE  Shape'
  <2>1. pc' = "start" /\ region' = r /\ block_num' = 0 /\ total_received' = 0
    BY <1>1 DEF StartReceive
  <2>2. block_num' = (total_received' % NumMod) /\ total_received' <= Len(mem'[region'])
        /\ total_received' <= MaxSize[region']
    BY <2>1, <1>1, <1>s, ZeroNumber
  <2> QED BY <2>1, <2>2, <1>0, <1>1, <1>z, ReceiverLeaves DEF Shape
(* An error of a block, or a failure. *)
<1>2. ASSUME NEW at \in {"header", "can", "frame"}, Get(at), NEW a \in {ACK, NAK}, BlockError(a)
      PROVE  Shape'
  <2>1. /\ frame' = <<>> /\ mem' = mem /\ region' = region /\ block_num' = block_num
        /\ total_received' = total_received /\ tobrom' = tobrom
        /\ pc' \in {"failed", "header"}
        /\ \A i \in 1..Len(toTx') : toTx'[i] = CHR => i \in 1..Len(toTx) /\ toTx[i] = CHR
    BY <1>2, BlockErrorFacts
  <2>2. UNCHANGED outside /\ toRx # <<>> /\ toRx' = Tail(toRx) /\ pc = at /\ Working /\ ~tobrom
    BY <1>2, <1>0, ReadOut DEF Working
  <2>3. /\ host'.n <= Len(image'[host'.reg]) + 1
        /\ \A i \in 1..Len(toRx') : toRx'[i] = CAN => host'.st = "aborted" \/ stale' \/ tobrom'
    BY <2>1, <2>2, ReceiverLeaves
  <2> QED BY <2>1, <2>2, <2>3, <1>0, <1>z DEF Shape
(* The frame goes on. *)
<1>3. ASSUME pc \in {"start", "header", "can", "frame"}, NEW to \in {"header", "can", "frame"}, GoOn(to),
             to # "frame" => frame' = <<>>, Len(frame') >= 2 => frame'[1] + frame'[2] = NumMod - 1,
             UNCHANGED outside, toRx' = toRx \/ (toRx # <<>> /\ toRx' = Tail(toRx))
      PROVE  Shape'
  <2>1. /\ pc' = to /\ mem' = mem /\ region' = region /\ block_num' = block_num
        /\ total_received' = total_received /\ tobrom' = tobrom /\ toTx' = toTx
    BY <1>3 DEF GoOn, xfer
  <2>2. Working /\ ~tobrom
    BY <1>0, <1>3 DEF Working
  <2>3. /\ host'.n <= Len(image'[host'.reg]) + 1
        /\ \A i \in 1..Len(toRx') : toRx'[i] = CAN => host'.st = "aborted" \/ stale' \/ tobrom'
    BY <2>1, <1>3, ReceiverLeaves
  <2>4. pc' # "frame" => frame' = <<>>
    BY <2>1, <1>3
  <2> QED BY <2>1, <2>2, <2>3, <2>4, <1>0, <1>3 DEF Shape
<1>4. CASE BromMain
  <2>1. pc = "main" /\ UNCHANGED <<frame, mem, tobrom, toRx, toTx, outside>> /\ frame = <<>>
    BY <1>4, <1>0 DEF BromMain
  <2>2. CASE tobrom
    <3>1. pc' = "running" /\ UNCHANGED <<region, xfer>>
      BY <1>4, <2>2 DEF BromMain
    <3> QED BY <2>1, <2>2, <3>1, <1>0, <1>z, ReceiverLeaves DEF Shape, Working, xfer
  <2>3. CASE ~tobrom
    <3>1. StartReceive("itcm") /\ "itcm" \in Regions
      BY <1>4, <2>3 DEF BromMain, Regions
    <3> QED BY <2>1, <2>3, <3>1, <1>0, <1>1
  <2> QED BY <2>2, <2>3
<1>5. CASE SendC
  <2>1. toTx' = <<CHR>> /\ UNCHANGED <<rxvars, toRx, outside>>
    BY <1>5 DEF SendC
  <2>2. \A i \in 1..Len(toTx') : i = 1
    <3>1. Len(<<CHR>>) = 1
      OBVIOUS
    <3> QED BY <2>1, <3>1
  <2>3. /\ host'.n <= Len(image'[host'.reg]) + 1
        /\ \A i \in 1..Len(toRx') : toRx'[i] = CAN => host'.st = "aborted" \/ stale' \/ tobrom'
    BY <2>1, ReceiverLeaves DEF rxvars
  <2> QED BY <2>1, <2>2, <2>3, <1>0 DEF Shape, Working, rxvars, xfer
<1>6. CASE StartSeen
  BY <1>6, <1>0, <1>3, <1>z DEF StartSeen
<1>7. CASE EndOfTransmission
  <2>1. /\ UNCHANGED outside /\ toRx # <<>> /\ toRx' = Tail(toRx) /\ pc = "header" /\ ~tobrom
        /\ frame' = frame /\ mem' = mem /\ frame = <<>>
    BY <1>7, <1>0, ReadOut DEF EndOfTransmission
  <2>2. \A i \in 1..Len(toTx') : toTx'[i] = CHR => i = 1
    BY <1>7, <1>0, EndFacts
  <2>3. CASE BootloaderFails
    <3>1. pc' = "failed" /\ UNCHANGED <<region, xfer, tobrom>>
      BY <2>3 DEF BootloaderFails
    <3> QED BY <2>1, <2>2, <3>1, <1>0, <1>z, ReceiverLeaves DEF Shape, Working, xfer
  <2>4. CASE BootloaderGoesOn /\ region = "itcm"
    <3>1. StartReceive("dtcm") /\ tobrom' = tobrom /\ "dtcm" \in Regions
      BY <2>4 DEF BootloaderGoesOn, Regions
    <3> QED BY <2>1, <2>2, <3>1, <1>1
  <2>5. CASE BootloaderGoesOn /\ region # "itcm"
    <3>1. tobrom' = TRUE /\ pc' = "running" /\ UNCHANGED <<region, xfer>>
      BY <2>5 DEF BootloaderGoesOn
    <3> QED BY <2>1, <2>2, <3>1, <1>0, <1>z, ReceiverLeaves DEF Shape, Working, xfer
  <2> QED BY <1>7, <2>3, <2>4, <2>5 DEF EndOfTransmission
<1>8. CASE Header
  <2>1. Get("header") /\ UNCHANGED outside /\ toRx # <<>> /\ toRx' = Tail(toRx) /\ pc = "header"
    BY <1>8, ReadOut DEF Header
  <2>2. CASE Head(toRx) = CAN
    <3>1. GoOn("can") /\ frame' = frame
      BY <1>8, <2>2 DEF Header, CAN, SOH
    <3> QED BY <2>1, <3>1, <1>0, <1>3, <1>z
  <2>3. CASE Head(toRx) = SOH
    <3>1. GoOn("frame") /\ frame' = <<>>
      BY <1>8, <2>3 DEF Header, CAN, SOH
    <3> QED BY <2>1, <3>1, <1>3, <1>z
  <2>4. CASE Head(toRx) # CAN /\ Head(toRx) # SOH
    BY <1>8, <2>1, <2>4, <1>2 DEF Header
  <2> QED BY <2>2, <2>3, <2>4
<1>9. CASE SecondCan
  BY <1>9, <1>2 DEF SecondCan
<1>10. CASE FrameByte
  <2> DEFINE f == Append(frame, Head(toRx))
  <2>0. Get("frame") /\ UNCHANGED outside /\ toRx # <<>> /\ toRx' = Tail(toRx) /\ pc = "frame"
    BY <1>10, ReadOut DEF FrameByte
  <2>1. CASE BlockError(NAK)
    BY <2>0, <2>1, <1>2
  <2>2. CASE ~Refused(f) /\ Len(f) = 5 /\ BlockReceived
    <3>1. /\ \A r \in Regions : r # region => mem'[r] = mem[r]
          /\ Len(mem'[region]) = IF total_received < Len(mem[region])
                                 THEN Len(mem[region]) ELSE total_received + 1
          /\ block_num' = ((total_received + 1) % NumMod)
          /\ \A i \in 1..Len(toTx') : toTx'[i] = CHR => i \in 1..Len(toTx) /\ toTx[i] = CHR
      BY <2>0, <2>2, Accepted
    <3>2. /\ frame' = <<>> /\ region' = region /\ tobrom' = tobrom
          /\ total_received' = total_received + 1
          /\ pc' \in {"failed", "header"}
          /\ pc' = "header" => ~(total_received + 1 > MaxSize[region])
      BY <2>2 DEF BlockReceived
    <3>3. /\ ~tobrom /\ total_received <= Len(mem[region]) /\ total_received <= MaxSize[region]
          /\ total_received \in Nat /\ region \in Regions
      BY <2>0, <1>0 DEF Working, TypeOK
    <3>4. \A r \in Regions : Len(mem'[r]) <= MaxSize[r] + 1
      BY <3>1, <3>3, <1>0, <1>s
    <3>5. Working' => /\ block_num' = (total_received' % NumMod)
                      /\ total_received' <= Len(mem'[region'])
                      /\ total_received' <= MaxSize[region']
      <4>1. MaxSize[region] \in Nat /\ Len(mem[region]) \in Nat
        BY <3>3, <1>s
      <4>2. total_received + 1 <= Len(mem'[region])
        BY <4>1, <3>1, <3>3
      <4> QED BY <4>1, <4>2, <3>1, <3>2, <3>3 DEF Working
    <3>6. /\ host'.n <= Len(image'[host'.reg]) + 1
          /\ \A i \in 1..Len(toRx') : toRx'[i] = CAN => host'.st = "aborted" \/ stale' \/ tobrom'
      BY <2>0, <3>2, ReceiverLeaves
    <3> QED BY <3>1, <3>2, <3>3, <3>4, <3>5, <3>6, <1>0, <1>z DEF Shape
  <2>3. CASE ~Refused(f) /\ Len(f) < 5 /\ GoOn("frame") /\ frame' = f
    <3>1. /\ f \in Seq(Bytes) /\ Len(f) = Len(frame) + 1 /\ Len(frame) \in 0..4
          /\ \A i \in 1..Len(frame) : f[i] = frame[i]
      BY <2>0, FrameFacts
    <3> HIDE DEF f
    <3>2. ASSUME Len(f) >= 2 PROVE f[1] + f[2] = NumMod - 1
      <4>1. CASE Len(f) = 2
        BY <4>1, <2>3 DEF Refused
      <4>2. CASE Len(f) > 2
        <5>1. Len(frame) >= 2 /\ 1 \in 1..Len(frame) /\ 2 \in 1..Len(frame)
          BY <4>2, <3>1
        <5> QED BY <5>1, <3>1, <1>0
      <4> QED BY <4>1, <4>2, <3>1, <3>2
    <3> QED BY <2>0, <2>3, <3>2, <1>3
  <2> QED BY <1>10, <2>1, <2>2, <2>3 DEF FrameByte
<1> QED BY <1>4, <1>5, <1>6, <1>7, <1>8, <1>9, <1>10 DEF Receiver

LEMMA OtherShape ==
  ASSUME TypeOK, Shape, HostReads \/ LoseAnswer \/ HostTimeout \/ HostCancels \/ SoftReset
  PROVE  Shape'
<1>1. /\ host'.n <= Len(image[host'.reg]) + 1
      /\ \A i \in 1..Len(toRx') : toRx'[i] = CAN => host'.st = "aborted" \/ stale' \/ tobrom
      /\ \A i \in 1..Len(toTx') : toTx'[i] = CHR => i = 1
  BY OtherTypes
<1>2. CASE HostReads \/ LoseAnswer \/ HostTimeout \/ HostCancels
  <2>1. UNCHANGED <<image, rxvars>>
    BY <1>2 DEF HostReads, LoseAnswer, HostTimeout, HostCancels
  <2> QED BY <2>1, <1>1 DEF Shape, Working, rxvars, xfer
<1>3. CASE SoftReset
  <2>1. pc' = "main" /\ frame' = <<>> /\ UNCHANGED <<image, mem, tobrom>>
    BY <1>3 DEF SoftReset
  <2>2. Len(<<>>) = 0
    BY EmptySeq
  <2> QED BY <2>1, <2>2, <1>1 DEF Shape, Working
<1> QED BY <1>2, <1>3

-----------------------------------------------------------------------------
(* The memories                                                             *)

LEMMA StreamFacts ==
  ASSUME TypeOK
  PROVE  /\ Stream \in Seq(Bytes) /\ Len(Stream) = Len(frame) + Len(toRx)
         /\ Len(frame) \in 0..4 /\ Len(toRx) \in Nat /\ Len(Stream) \in Nat
         /\ \A i \in 1..Len(Stream) :
              Stream[i] = IF i <= Len(frame) THEN frame[i] ELSE toRx[i - Len(frame)]
<1>1. frame \in Seq(Bytes) /\ toRx \in Seq(Bytes) /\ Len(frame) < 5
  BY DEF TypeOK
<1>2. /\ Stream \in Seq(Bytes) /\ Len(Stream) = Len(frame) + Len(toRx)
      /\ \A i \in 1..Len(frame) + Len(toRx) :
           Stream[i] = IF i <= Len(frame) THEN frame[i] ELSE toRx[i - Len(frame)]
  BY <1>1, ConcatProperties DEF Stream
<1>3. Len(frame) \in Nat /\ Len(toRx) \in Nat /\ Len(Stream) \in Nat
  BY <1>1, <1>2, LenProperties
<1>4. Len(frame) \in 0..4
  <2>1. \A n \in Nat : n < 5 => n \in 0..4
    OBVIOUS
  <2> QED BY ONLY <2>1, <1>1, <1>3
<1> QED BY <1>2, <1>3, <1>4

(* A block that is accepted is the one the host is at, and the one that the *)
(* receiver wants; nothing behind it is older.                              *)
LEMMA AcceptsWanted ==
  ASSUME IInv, ~stale, Get("frame"), BlockReceived, NEW f,
         f = Append(frame, Head(toRx)), ~Refused(f), Len(f) = 5
  PROVE  /\ Same /\ Wanted /\ total_received = host.n - 1
         /\ host.n \in 1..Len(image[region]) /\ frame[3] = image[region][host.n]
         /\ \E c \in 0..3 : Ordered(image[region], Stream, c, host.n)
<1>0. TypeOK /\ Shape /\ Sync /\ Memory
  BY DEF IInv
<1>1. /\ Len(frame) = 4 /\ frame[3] \in Bytes
      /\ frame[1] = ((total_received + 1) % NumMod)
      /\ frame[1] + frame[2] = NumMod - 1
      /\ frame[4] = CrcHi(frame[3])
  BY <1>0, Accepted
<1>2. pc = "frame" /\ toRx # <<>> /\ ~tobrom
  BY <1>0 DEF Get, Shape
<1>3. /\ Stream[1] = frame[1] /\ Stream[2] = frame[2] /\ Stream[3] = frame[3] /\ Stream[4] = frame[4]
      /\ Len(Stream) \in Nat /\ Len(Stream) >= 4 /\ 4 \in 4..Len(Stream)
  <2>1. Len(Stream) \in Nat /\ Len(Stream) >= 4
    BY <1>0, <1>1, StreamFacts
  <2>2. 1 \in 1..Len(Stream) /\ 2 \in 1..Len(Stream) /\ 3 \in 1..Len(Stream) /\ 4 \in 1..Len(Stream)
    BY <2>1
  <2> QED BY <2>1, <2>2, <1>0, <1>1, StreamFacts
<1>4. Looks(Stream, 4)
  BY <1>1, <1>3 DEF Looks
<1>5. ~Barren(Stream)
  BY <1>3, <1>4 DEF Barren
<1>6. Same
  BY <1>0, <1>2, <1>5 DEF Sync, Idle, Waits, Ended
<1>7. /\ total_received \in Nat /\ host.n \in Nat /\ region \in Regions
      /\ frame[1] \in Int
  <2>1. total_received \in Nat /\ host.n \in Nat /\ region \in Regions
    BY <1>0 DEF TypeOK
  <2> QED BY <2>1, <1>1, NumberRange
<1>8. ASSUME NEW k \in {total_received, total_received + 1}, Carries(image[region], Stream, 4, k)
      PROVE  k = total_received + 1
  <2>1. frame[1] = (k % NumMod) \/ (frame[1] = SOH /\ (k % NumMod) = NumMod - 2)
    BY <1>3, <1>8 DEF Carries
  <2> QED BY <2>1, <1>1, <1>7, NumberDecides
<1>9. ~Acknowledged
  <2> SUFFICES ASSUME Acknowledged PROVE FALSE
    OBVIOUS
  <2>1. Carries(image[region], Stream, 4, host.n) /\ total_received = host.n
    <3>1. ~(4 <= 0)
      OBVIOUS
    <3> QED BY <3>1, <1>3, <1>4 DEF Acknowledged, Ordered
  <2> QED BY <2>1, <1>7, <1>8
<1>10. Wanted
  BY <1>6, <1>9 DEF Same
<1>11. PICK c \in 0..Len(Stream) : Ordered(image[region], Stream, c, host.n)
  BY <1>10 DEF Wanted
<1>12. total_received = host.n - 1
  BY <1>10 DEF Wanted
<1>13. Carries(image[region], Stream, 4, IF 4 <= c THEN host.n - 1 ELSE host.n)
  BY <1>3, <1>4, <1>11 DEF Ordered
<1>14. ~(4 <= c)
  <2> SUFFICES ASSUME 4 <= c PROVE FALSE
    OBVIOUS
  <2>1. Carries(image[region], Stream, 4, total_received)
    BY <1>12, <1>13
  <2> QED BY <2>1, <1>7, <1>8
<1>15. c \in 0..3
  BY <1>3, <1>14
<1>16. host.n \in 1..Len(image[region]) /\ frame[3] = image[region][host.n]
  BY <1>3, <1>13, <1>14 DEF Carries
<1> QED BY <1>6, <1>10, <1>11, <1>12, <1>15, <1>16

(* An end of transmission that is accepted comes behind the last block.     *)
LEMMA EndsComplete ==
  ASSUME IInv, ~stale, Get("header"), Head(toRx) = EOT, total_received > 0
  PROVE  /\ Same /\ Wanted /\ total_received = Len(image[region])
         /\ host.n = Len(image[region]) + 1 /\ Barren(Stream)
<1>0. TypeOK /\ Shape /\ Sync /\ Memory
  BY DEF IInv
<1>1. pc = "header" /\ toRx # <<>> /\ ~tobrom /\ frame = <<>>
  BY <1>0 DEF Get, Shape
<1>2. Same
  BY <1>0, <1>1 DEF Sync, Idle, Waits, Ended
<1>3. /\ total_received \in Nat /\ host.n \in Nat /\ region \in Regions
      /\ image[region] \in Seq(Data) /\ Len(image[region]) \in Nat
  BY <1>0, ImageFacts DEF TypeOK
<1>4. 1 \in 1..Len(Stream) /\ Stream[1] = EOT /\ Stream \in Seq(Bytes)
  <2>1. Stream = toRx /\ toRx \in Seq(Bytes)
    BY <1>0, <1>1, ConcatEmptySeq DEF Stream, TypeOK
  <2>2. Len(toRx) \in Nat \ {0}
    BY <2>1, <1>1, EmptySeq
  <2> QED BY <2>1, <2>2
<1>5. ~Acknowledged
  <2> SUFFICES ASSUME Acknowledged PROVE FALSE
    OBVIOUS
  <2>1. total_received = Len(image[region]) + 1
    BY <1>4 DEF Acknowledged, Ordered
  <2>2. total_received \in 1..total_received
    BY <1>3
  <2>3. total_received <= Len(image[region])
    BY <2>2, <1>0 DEF Memory, Prefix
  <2> QED BY <2>1, <2>3, <1>3
<1>6. Wanted /\ total_received = host.n - 1
  BY <1>2, <1>5 DEF Same, Wanted
<1>7. PICK c \in 0..Len(Stream) : Ordered(image[region], Stream, c, host.n)
  BY <1>6 DEF Wanted
<1>8. host.n = Len(image[region]) + 1 /\ 1 > c
  BY <1>4, <1>7 DEF Ordered
<1>9. Ordered(image[region], Stream, 0, Len(image[region]) + 1)
  <2>1. c = 0
    BY <1>8
  <2> QED BY <2>1, <1>7, <1>8
<1>10. Barren(Stream)
  BY <1>3, <1>4, <1>9, OrderedIsBarren
<1> QED BY <1>2, <1>3, <1>6, <1>8, <1>10

LEMMA Complete ==
  ASSUME TypeOK, Prefix, Len(mem[region]) <= Len(image[region]),
         total_received = Len(image[region]), total_received <= Len(mem[region])
  PROVE  mem[region] = image[region]
<1>1. region \in Regions /\ mem[region] \in Seq(Bytes) /\ Len(mem[region]) \in Nat
  BY LenProperties DEF TypeOK
<1>2. image[region] \in Seq(Bytes) /\ Len(image[region]) \in Nat
  <2>1. Data \subseteq Bytes
    BY DataRange, IsByte, AboveRange
  <2>2. image[region] \in Seq(Data) /\ Len(image[region]) \in Nat
    BY <1>1, ImageFacts
  <2> QED BY <2>1, <2>2, SeqMonotonic
<1>3. Len(mem[region]) = Len(image[region])
  BY <1>1, <1>2
<1>4. \A i \in 1..Len(mem[region]) : mem[region][i] = image[region][i]
  BY <1>3 DEF Prefix
<1> QED BY <1>1, <1>2, <1>3, <1>4, SeqEqual

LEMMA MemoryKept ==
  ASSUME TypeOK, Shape, Memory, UNCHANGED <<image, region, mem, total_received, tobrom>>,
         ~stale' => ~stale, pc' # "main" => pc # "main"
  PROVE  Memory'
BY DEF Memory, Prefix

LEMMA ReceiverMemory ==
  ASSUME IInv, Receiver
  PROVE  Memory'
<1>0. TypeOK /\ Shape /\ Sync /\ Memory
  BY DEF IInv
<1>s. /\ region \in Regions /\ total_received \in Nat /\ Regions = {"itcm", "dtcm"}
      /\ \A r \in Regions : /\ mem[r] \in Seq(Bytes) /\ Len(mem[r]) \in Nat /\ MaxSize[r] \in Nat
                            /\ Len(image[r]) \in Nat
  BY <1>0, XmodemAssumption, LenProperties, ImageFacts DEF TypeOK, Regions
<1> SUFFICES ASSUME ~stale' PROVE Memory'
  BY DEF Memory
<1>1. /\ ~stale /\ image' = image /\ pc # "failed" /\ pc # "running"
      /\ Prefix
      /\ \A r \in Regions : Len(mem[r]) <= Len(image[r])
      /\ pc # "main" /\ region = "dtcm" =>
           mem["itcm"] = image["itcm"] /\ Len(image["itcm"]) <= MaxSize["itcm"]
      /\ tobrom => \A r \in Regions : mem[r] = image[r] /\ Len(image[r]) <= MaxSize[r]
      /\ tobrom => pc = "main"
  <2>1. UNCHANGED outside /\ pc \in {"main", "start", "header", "can", "frame"}
    BY DEF Receiver, BromMain, SendC, StartSeen, EndOfTransmission, Header, SecondCan, FrameByte, Get
  <2>2. ~stale /\ image' = image
    BY <2>1 DEF outside
  <2> QED BY <2>1, <2>2, <1>0 DEF Memory, Shape
<1>2. ASSUME NEW a \in {ACK, NAK}, BlockError(a), pc # "main"
      PROVE  Memory'
  BY <1>0, <1>1, <1>2, BlockErrorFacts, MemoryKept
<1>3. ASSUME NEW to, GoOn(to), pc # "main"
      PROVE  Memory'
  BY <1>0, <1>1, <1>3, MemoryKept DEF GoOn, xfer
<1>4. CASE BromMain
  <2>1. UNCHANGED <<frame, mem, tobrom>>
    BY <1>4 DEF BromMain
  <2>2. CASE tobrom
    <3>1. UNCHANGED <<region, xfer>>
      BY <1>4, <2>2 DEF BromMain
    <3> QED BY <2>1, <2>2, <3>1, <1>s, <1>1 DEF Memory, Prefix, xfer
  <2>3. CASE ~tobrom
    <3>1. region' = "itcm" /\ total_received' = 0
      BY <1>4, <2>3 DEF BromMain, StartReceive
    <3>2. Prefix'
      BY <3>1 DEF Prefix
    <3> QED BY <2>1, <2>3, <3>1, <3>2, <1>1 DEF Memory
  <2> QED BY <2>2, <2>3
<1>5. CASE SendC
  BY <1>5, <1>0, <1>1, MemoryKept DEF SendC, rxvars, xfer
<1>6. CASE StartSeen
  BY <1>6, <1>3 DEF StartSeen
<1>7. CASE EndOfTransmission
  <2>1. Get("header") /\ Head(toRx) = EOT /\ pc = "header" /\ mem' = mem /\ ~tobrom
    BY <1>7, <1>1 DEF EndOfTransmission, Get
  <2>2. CASE BootloaderFails
    BY <2>1, <2>2, <1>0, <1>1, MemoryKept DEF BootloaderFails, xfer
  <2>3. CASE ~BootloaderFails
    <3>1. total_received > 0 /\ BootloaderGoesOn
      BY <1>7, <2>3 DEF EndOfTransmission
    <3>2. total_received = Len(image[region])
      BY <2>1, <3>1, <1>1, EndsComplete
    <3>3. total_received <= Len(mem[region]) /\ total_received <= MaxSize[region]
      BY <2>1, <1>0 DEF Shape, Working
    <3>4. mem[region] = image[region] /\ Len(image[region]) <= MaxSize[region]
      BY <3>2, <3>3, <1>s, <1>0, <1>1, Complete
    <3>5. CASE region = "itcm"
      <4>1. region' = "dtcm" /\ total_received' = 0 /\ tobrom' = tobrom
        BY <3>1, <3>5 DEF BootloaderGoesOn, StartReceive
      <4>2. Prefix'
        BY <4>1 DEF Prefix
      <4> QED BY <2>1, <3>4, <3>5, <4>1, <4>2, <1>1 DEF Memory
    <3>6. CASE region # "itcm"
      <4>1. UNCHANGED <<region, xfer>> /\ region = "dtcm"
        BY <3>1, <3>6, <1>s DEF BootloaderGoesOn
      <4>2. \A r \in Regions : mem[r] = image[r] /\ Len(image[r]) <= MaxSize[r]
        BY <2>1, <3>4, <4>1, <1>s, <1>1
      <4> QED BY <2>1, <4>1, <4>2, <1>1 DEF Memory, Prefix, xfer
    <3> QED BY <3>5, <3>6
  <2> QED BY <2>2, <2>3
<1>8. CASE Header
  <2>1. pc # "main"
    BY <1>8 DEF Header, Get
  <2> QED BY <1>8, <2>1, <1>2, <1>3 DEF Header
<1>9. CASE SecondCan
  BY <1>9, <1>2 DEF SecondCan, Get
<1>10. CASE FrameByte
  <2> DEFINE f == Append(frame, Head(toRx))
  <2>0. Get("frame") /\ pc = "frame"
    BY <1>10 DEF FrameByte, Get
  <2>1. CASE BlockError(NAK)
    BY <2>0, <2>1, <1>2
  <2>2. CASE ~Refused(f) /\ Len(f) = 5 /\ BlockReceived
    <3> DEFINE n == total_received + 1
    <3>1. /\ n = host.n /\ n \in 1..Len(image[region]) /\ frame[3] = image[region][n]
      <4>1. /\ total_received = host.n - 1
            /\ host.n \in 1..Len(image[region]) /\ frame[3] = image[region][host.n]
        BY <2>0, <2>2, <1>1, AcceptsWanted
      <4>2. host.n \in Int
        BY <1>0 DEF TypeOK
      <4>3. n = host.n
        BY <4>1, <4>2, <1>s
      <4> QED BY <4>1, <4>3
    <3>2. /\ \A r \in Regions : r # region => mem'[r] = mem[r]
          /\ Len(mem'[region]) = IF total_received < Len(mem[region])
                                 THEN Len(mem[region]) ELSE total_received + 1
          /\ \A i \in 1..total_received : mem'[region][i] = mem[region][i]
          /\ mem'[region][n] = frame[3]
      BY <2>0, <2>2, <1>0, Accepted
    <3>3. region' = region /\ total_received' = n /\ tobrom' = tobrom /\ ~tobrom
      BY <2>0, <2>2, <1>1 DEF BlockReceived
    <3>4. n <= Len(mem'[region]) /\ Len(mem'[region]) <= Len(image[region]) /\ Len(mem'[region]) \in Nat
      BY <3>1, <3>2, <1>s, <1>1
    <3>5. Prefix'
      <4> SUFFICES ASSUME NEW i \in 1..n
                   PROVE  /\ i <= Len(mem'[region]) /\ i <= Len(image[region])
                          /\ mem'[region][i] = image[region][i]
        BY <3>3, <1>1 DEF Prefix
      <4>1. i <= Len(mem'[region]) /\ i <= Len(image[region])
        BY <3>1, <3>4, <1>s
      <4>2. CASE i = n
        BY <4>1, <4>2, <3>1, <3>2
      <4>3. CASE i # n
        <5>1. i \in 1..total_received
          BY <4>3, <1>s
        <5> QED BY <4>1, <5>1, <3>2, <1>1 DEF Prefix
      <4> QED BY <4>2, <4>3
    <3>6. \A r \in Regions : Len(mem'[r]) <= Len(image'[r])
      BY <3>2, <3>4, <1>1
    <3>7. pc # "main" /\ (region = "dtcm" => mem'["itcm"] = image["itcm"] /\ Len(image["itcm"]) <= MaxSize["itcm"])
      BY <2>0, <3>2, <1>s, <1>1
    <3> QED BY <3>3, <3>5, <3>6, <3>7, <1>1 DEF Memory
  <2>3. CASE GoOn("frame")
    BY <2>0, <2>3, <1>3
  <2> QED BY <1>10, <2>1, <2>2, <2>3 DEF FrameByte
<1> QED BY <1>4, <1>5, <1>6, <1>7, <1>8, <1>9, <1>10 DEF Receiver

LEMMA OtherMemory ==
  ASSUME IInv, HostReads \/ LoseAnswer \/ HostTimeout \/ HostCancels \/ SoftReset
  PROVE  Memory'
<1>1. /\ UNCHANGED <<image, region, mem, total_received, tobrom>>
      /\ ~stale' => ~stale
      /\ pc' # "main" => pc # "main"
  <2>1. CASE HostReads \/ LoseAnswer \/ HostTimeout \/ HostCancels
    BY <2>1 DEF HostReads, LoseAnswer, HostTimeout, HostCancels, rxvars, xfer
  <2>2. CASE SoftReset
    <3>1. UNCHANGED <<image, region, mem, total_received, tobrom>> /\ pc' = "main"
      BY <2>2 DEF SoftReset, xfer
    <3>2. stale' = (stale \/ (toRx # <<>> /\ ~tobrom))
      BY <2>2 DEF SoftReset
    <3>3. ~stale' => ~stale
      BY <3>2, Zenon
    <3> QED BY <3>1, <3>3
  <2> QED BY <2>1, <2>2
<1> QED BY <1>1, MemoryKept DEF IInv

-----------------------------------------------------------------------------
(* The two sides                                                            *)

LEMMA TailAnswers ==
  ASSUME NEW s \in Seq(Bytes), s # <<>>
  PROVE  /\ NoAck(s) => NoAck(Tail(s))
         /\ OneAck(s) => OneAck(Tail(s))
         /\ OneAck(s) /\ Head(s) = ACK => NoAck(Tail(s))
         /\ NoAck(s) => Head(s) # ACK
<1> DEFINE t == Tail(s)
<1>1. /\ t \in Seq(Bytes) /\ Len(t) = Len(s) - 1
      /\ \A i \in 1..Len(t) : t[i] = s[i + 1]
  BY HeadTailProperties
<1>2. Len(s) \in Nat /\ Len(s) # 0 /\ Head(s) = s[1]
  BY LenProperties, EmptySeq
<1>3. \A i \in 1..Len(t) : i + 1 \in 1..Len(s) /\ i + 1 # 1
  BY <1>1, <1>2
<1>4. 1 \in 1..Len(s)
  BY <1>2
<1> HIDE DEF t
<1>5. NoAck(s) => NoAck(t)
  BY <1>1, <1>3 DEF NoAck
<1>6. OneAck(s) => OneAck(t)
  <2> SUFFICES ASSUME OneAck(s), NEW i \in 1..Len(t), NEW j \in 1..Len(t), t[i] = ACK, t[j] = ACK
               PROVE  i = j
    BY DEF OneAck
  <2>1. i + 1 = j + 1
    BY <1>1, <1>3 DEF OneAck
  <2> QED BY <2>1
<1>7. OneAck(s) /\ Head(s) = ACK => NoAck(t)
  BY <1>1, <1>2, <1>3, <1>4 DEF OneAck, NoAck
<1>8. NoAck(s) => Head(s) # ACK
  BY <1>2, <1>4 DEF NoAck
<1> QED BY <1>5, <1>6, <1>7, <1>8 DEF t

LEMMA AppendAnswers ==
  ASSUME NEW s \in Seq(Bytes), NEW a \in Bytes
  PROVE  /\ NoAck(s) /\ a # ACK => NoAck(Append(s, a))
         /\ NoAck(s) => OneAck(Append(s, a))
         /\ OneAck(s) /\ a # ACK => OneAck(Append(s, a))
         /\ NoAck(s) => OneAck(s)
         /\ Append(s, a)[1] = IF s = <<>> THEN a ELSE s[1]
<1> DEFINE t == Append(s, a)
<1>1. /\ t \in Seq(Bytes) /\ Len(t) = Len(s) + 1 /\ Len(s) \in Nat
      /\ \A i \in 1..Len(s) : t[i] = s[i]
      /\ t[Len(s) + 1] = a
  BY AppendProperties, LenProperties
<1>2. \A i \in 1..Len(t) : i \in 1..Len(s) \/ i = Len(s) + 1
  BY <1>1
<1>3. t[1] = IF s = <<>> THEN a ELSE s[1]
  <2>1. CASE s = <<>>
    BY <2>1, <1>1, EmptySeq
  <2>2. CASE s # <<>>
    <3>1. Len(s) \in Nat \ {0}
      BY <2>2, EmptySeq
    <3>2. 1 \in 1..Len(s)
      BY <3>1
    <3> QED BY <2>2, <3>2, <1>1
  <2> QED BY <2>1, <2>2
<1> HIDE DEF t
<1>4. NoAck(s) /\ a # ACK => NoAck(t)
  BY <1>1, <1>2 DEF NoAck
<1>5. NoAck(s) => OneAck(t)
  BY <1>1, <1>2 DEF NoAck, OneAck
<1>6. OneAck(s) /\ a # ACK => OneAck(t)
  BY <1>1, <1>2 DEF OneAck
<1>7. NoAck(s) => OneAck(s)
  BY DEF NoAck, OneAck
<1> QED BY <1>3, <1>4, <1>5, <1>6, <1>7 DEF t

LEMMA ReadRest ==
  ASSUME TypeOK, toRx # <<>>, toRx' = Tail(toRx), frame' = <<>>
  PROVE  /\ Stream \in Seq(Bytes) /\ Stream' \in Seq(Bytes) /\ Len(frame) + 1 \in Nat
         /\ Len(Stream) = Len(Stream') + (Len(frame) + 1)
         /\ \A i \in 1..Len(Stream') : Stream'[i] = Stream[i + (Len(frame) + 1)]
<1>1. frame \in Seq(Bytes) /\ toRx \in Seq(Bytes)
  BY DEF TypeOK
<1>2. Stream = frame \o toRx /\ Stream' = <<>> \o Tail(toRx)
  BY DEF Stream
<1>3. /\ frame \o toRx \in Seq(Bytes) /\ Tail(toRx) \in Seq(Bytes) /\ <<>> \o Tail(toRx) = Tail(toRx)
      /\ Len(frame) \in Nat /\ Len(frame \o toRx) = Len(Tail(toRx)) + (Len(frame) + 1)
      /\ \A i \in 1..Len(Tail(toRx)) : Tail(toRx)[i] = (frame \o toRx)[i + (Len(frame) + 1)]
  BY <1>1, DropFirst
<1>4. Len(frame) + 1 \in Nat
  BY <1>3
<1> QED BY <1>2, <1>3, <1>4

LEMMA ReadKept ==
  ASSUME TypeOK, toRx # <<>>, toRx' = Tail(toRx), frame' = Append(frame, Head(toRx))
  PROVE  Stream' = Stream
BY KeepFirst DEF Stream, TypeOK

(* A read that stores nothing: the rest of the stream is as good as all of  *)
(* it.                                                                      *)
LEMMA QuietRead ==
  ASSUME IInv, ~stale, Working, pc' \in {"header", "can", "frame"},
         UNCHANGED <<image, region, total_received, host>>, toRx # <<>>,
         NEW m \in Nat, Stream' \in Seq(Bytes), Len(Stream) = Len(Stream') + m,
         \A i \in 1..Len(Stream') : Stream'[i] = Stream[i + m],
         \/ toTx' = toTx
         \/ toTx' = Append(toTx, NAK)
         \/ toTx' = Append(toTx, ACK) /\ host.st = "aborted"
  PROVE  Waits' \/ Same' \/ Ended'
<1>0. TypeOK /\ Shape /\ Sync /\ Memory /\ ~tobrom /\ pc # "main" /\ pc # "failed"
  BY DEF IInv, Shape, Working
<1>1. toTx \in Seq(Bytes) /\ NAK \in Bytes /\ ACK \in Bytes /\ NAK # ACK /\ NAK # CHR
  BY <1>0, AnswerBytes DEF TypeOK, NAK, ACK, CHR
<1>2. Stream \in Seq(Bytes) /\ Len(Stream) \in Nat /\ Len(Stream') \in Nat
  BY <1>0, StreamFacts, LenProperties
<1>3. Barren(Stream) => Barren(Stream')
  BY <1>2, BarrenRest
<1>4. CASE Waits
  <2>1. toTx' = toTx \/ toTx' = Append(toTx, NAK)
    BY <1>4 DEF Waits
  <2>2. NoAck(toTx')
    BY <2>1, <1>1, <1>4, AppendAnswers DEF Waits
  <2>3. ~(toTx' # <<>> /\ toTx'[1] = CHR)
    BY <2>1, <1>1, <1>4, AppendAnswers DEF Waits
  <2> QED BY <2>2, <2>3, <1>3, <1>4 DEF Waits
<1>5. /\ host.st = "sent" /\ NoAck(toTx) => NoAck(toTx')
      /\ host.st = "sent" /\ OneAck(toTx) => OneAck(toTx')
  BY <1>1, AppendAnswers
<1>6. CASE Same /\ Wanted
  <2>1. PICK c \in 0..Len(Stream) : Ordered(image[region], Stream, c, host.n)
    BY <1>6 DEF Wanted
  <2> DEFINE d == IF c > m THEN c - m ELSE 0
  <2>2. d \in 0..Len(Stream')
    BY <1>2
  <2>3. host.n \in Nat /\ c \in Nat
    BY <1>0, <1>2 DEF TypeOK
  <2>4. Ordered(image[region], Stream', d, host.n)
    BY <2>1, <2>3, <1>2, OrderedRest
  <2>5. Wanted'
    BY <2>2, <2>4, <1>5, <1>6 DEF Wanted
  <2> QED BY <2>5, <1>6 DEF Same, Sent
<1>7. CASE Same /\ Acknowledged
  <2>1. host.n \in Nat /\ 0 \in Nat /\ ~(0 > m)
    BY <1>0 DEF TypeOK
  <2>2. Ordered(image[region], Stream', IF 0 > m THEN 0 - m ELSE 0, host.n)
    BY <2>1, <1>2, <1>7, OrderedRest DEF Acknowledged
  <2>3. Ordered(image[region], Stream', 0, host.n)
    BY <2>1, <2>2
  <2>4. Acknowledged'
    BY <2>3, <1>5, <1>7 DEF Acknowledged
  <2> QED BY <2>4, <1>7 DEF Same, Sent
<1>8. CASE Ended
  BY <1>3, <1>5, <1>8 DEF Ended, Sent
<1>9. ~Idle
  BY <1>0 DEF Idle
<1> QED BY <1>0, <1>4, <1>6, <1>7, <1>8, <1>9 DEF Sync, Same

LEMMA EmptyStream == Barren(<<>>) /\ NoAck(<<>>) /\ OneAck(<<>>)
<1>1. Len(<<>>) = 0 /\ 4..0 = {} /\ 1..0 = {}
  BY EmptySeq
<1> QED BY <1>1 DEF Barren, NoAck, OneAck

LEMMA ReceiverSync ==
  ASSUME IInv, Receiver
  PROVE  Sync'
<1>0. TypeOK /\ Shape /\ Sync /\ Memory /\ TypeOK'
  BY ReceiverTypes DEF IInv
<1> SUFFICES ASSUME ~stale', ~tobrom', pc' # "failed"
             PROVE  Idle' \/ Waits' \/ Same' \/ Ended'
  BY DEF Sync
<1>1. UNCHANGED outside /\ ~stale /\ image' = image /\ host' = host
  <2>1. UNCHANGED outside
    BY DEF Receiver, BromMain, SendC, StartSeen, EndOfTransmission, Header, SecondCan, FrameByte, Get
  <2> QED BY <2>1 DEF outside
<1>2. Stream \in Seq(Bytes) /\ Stream' \in Seq(Bytes) /\ Len(Stream) \in Nat
      /\ host.n \in Nat /\ total_received \in Nat
  <2>1. frame' \in Seq(Bytes) /\ toRx' \in Seq(Bytes)
    BY <1>0 DEF TypeOK
  <2>2. Stream' \in Seq(Bytes)
    BY <2>1, ConcatProperties DEF Stream
  <2>3. host.n \in Nat /\ total_received \in Nat
    BY <1>0 DEF TypeOK
  <2> QED BY <2>2, <2>3, <1>0, StreamFacts
(* A read that answers an error, or nothing. *)
<1>3. ASSUME NEW at \in {"header", "can", "frame"}, Get(at), NEW a \in {ACK, NAK}, BlockError(a),
             a = ACK => host.st = "aborted"
      PROVE  Waits' \/ Same' \/ Ended'
  <2>1. /\ frame' = <<>> /\ region' = region /\ total_received' = total_received
        /\ pc' = "header" /\ toTx' = Append(toTx, a)
    BY <1>0, <1>3, BlockErrorFacts
  <2>2. toRx # <<>> /\ toRx' = Tail(toRx) /\ Working
    BY <1>3 DEF Get, Working
  <2>3. /\ Len(frame) + 1 \in Nat /\ Len(Stream) = Len(Stream') + (Len(frame) + 1)
        /\ \A i \in 1..Len(Stream') : Stream'[i] = Stream[i + (Len(frame) + 1)]
    BY <2>1, <2>2, <1>0, ReadRest
  <2>4. toTx' = Append(toTx, NAK) \/ (toTx' = Append(toTx, ACK) /\ host.st = "aborted")
    BY <2>1, <1>3
  <2> QED BY <2>1, <2>2, <2>3, <2>4, <1>1, <1>2, QuietRead
<1>4. ASSUME Working, toRx # <<>>, NEW to \in {"header", "can", "frame"}, GoOn(to),
             \/ Stream' = Stream
             \/ toRx' = Tail(toRx) /\ frame' = <<>>
      PROVE  Waits' \/ Same' \/ Ended'
  <2>1. /\ region' = region /\ total_received' = total_received
        /\ pc' = to /\ toTx' = toTx
    BY <1>4 DEF GoOn, xfer
  <2>2. CASE Stream' = Stream
    <3>1. 0 \in Nat /\ Len(Stream) = Len(Stream') + 0
          /\ \A i \in 1..Len(Stream') : Stream'[i] = Stream[i + 0]
      BY <2>2, <1>2
    <3> QED BY <2>1, <3>1, <1>1, <1>2, <1>4, QuietRead
  <2>3. CASE toRx' = Tail(toRx) /\ frame' = <<>>
    <3>1. /\ Len(frame) + 1 \in Nat /\ Len(Stream) = Len(Stream') + (Len(frame) + 1)
          /\ \A i \in 1..Len(Stream') : Stream'[i] = Stream[i + (Len(frame) + 1)]
      BY <2>3, <1>0, <1>4, ReadRest
    <3> QED BY <2>1, <3>1, <1>1, <1>2, <1>4, QuietRead
  <2> QED BY <2>2, <2>3, <1>4
<1>5. CASE BromMain
  <2>1. ~tobrom /\ pc = "main" /\ StartReceive("itcm") /\ UNCHANGED <<frame, toRx, toTx>>
    BY <1>5 DEF BromMain
  <2>2. Idle
    BY <2>1, <1>0, <1>1 DEF Sync, Waits, Same, Ended, Sent
  <2>3. frame = <<>>
    BY <2>1, <1>0 DEF Shape
  <2>4. Stream' = <<>>
    <3>1. <<>> \o <<>> = <<>>
      BY EmptyBytes, ConcatEmptySeq
    <3> QED BY <2>1, <2>2, <2>3, <3>1 DEF Stream, Idle
  <2>5. /\ pc' = "start" /\ region' = "itcm" /\ total_received' = 0 /\ toTx' = <<>>
        /\ host'.st = "waits" /\ host'.n = 1 /\ host'.reg = "itcm"
    BY <2>1, <2>2, <1>1 DEF Idle, StartReceive
  <2> QED BY <2>4, <2>5, EmptyStream DEF Waits
<1>6. CASE SendC
  <2>1. /\ pc = "start" /\ toRx = <<>> /\ toTx = <<>> /\ toTx' = <<CHR>>
        /\ UNCHANGED <<rxvars, toRx>>
    BY <1>6 DEF SendC
  <2>2. Stream' = Stream /\ UNCHANGED <<pc, region, total_received, tobrom>>
    BY <2>1 DEF Stream, rxvars, xfer
  <2>3. NoAck(toTx') /\ OneAck(toTx')
    <3>1. toTx' = Append(<<>>, CHR) /\ CHR \in Bytes /\ CHR # ACK
      BY <2>1, AnswerBytes DEF CHR, ACK
    <3> QED BY <3>1, EmptyStream, EmptyBytes, AppendAnswers
  <2>4. Waits \/ Same \/ Ended
    BY <2>1, <2>2, <1>0, <1>1 DEF Sync, Idle
  <2>5. CASE Waits
    BY <2>1, <2>2, <2>3, <2>5, <1>1 DEF Waits
  <2>6. CASE Same
    BY <2>2, <2>3, <2>6, <1>1 DEF Same, Sent, Wanted, Acknowledged
  <2>7. CASE Ended
    BY <2>2, <2>3, <2>7, <1>1 DEF Ended, Sent
  <2> QED BY <2>4, <2>5, <2>6, <2>7
<1>7. CASE StartSeen
  <2>1. toRx # <<>> /\ GoOn("header") /\ UNCHANGED <<frame, toRx>> /\ Working
    BY <1>7 DEF StartSeen, Working
  <2>2. Stream' = Stream
    BY <2>1 DEF Stream
  <2> QED BY <2>1, <2>2, <1>4
<1>8. CASE EndOfTransmission
  <2>1. /\ Get("header") /\ Head(toRx) = EOT /\ pc = "header" /\ toRx # <<>>
        /\ toRx' = Tail(toRx) /\ frame' = frame /\ toTx' = Append(toTx, ACK)
    BY <1>8 DEF EndOfTransmission, Get
  <2>2. BootloaderGoesOn /\ total_received > 0
    BY <1>8 DEF EndOfTransmission, BootloaderFails
  <2>3. region = "itcm" /\ StartReceive("dtcm")
    BY <2>2 DEF BootloaderGoesOn
  <2>4. /\ Same /\ Wanted /\ host.n = Len(image[region]) + 1 /\ Barren(Stream)
    BY <2>1, <2>2, <1>1, EndsComplete
  <2>5. frame' = <<>>
    BY <2>1, <1>0 DEF Shape
  <2>6. Barren(Stream')
    BY <2>1, <2>4, <2>5, <1>0, ReadRest, BarrenRest
  <2>7. host.st = "sent" => OneAck(toTx')
    BY <2>1, <2>4, <1>0, AnswerBytes, AppendAnswers DEF Wanted, TypeOK
  <2>8. pc' = "start" /\ region' = "dtcm" /\ total_received' = 0
    BY <2>3 DEF StartReceive
  <2> QED BY <2>3, <2>4, <2>6, <2>7, <2>8, <1>1 DEF Ended, Same, Sent
<1>9. CASE Header
  <2>1. Get("header") /\ pc = "header" /\ toRx # <<>> /\ toRx' = Tail(toRx) /\ frame = <<>> /\ Working
    BY <1>9, <1>0 DEF Header, Get, Shape, Working
  <2>2. CASE Head(toRx) = CAN
    BY <1>9, <2>1, <2>2, <1>4 DEF Header, CAN, SOH
  <2>3. CASE Head(toRx) = SOH
    BY <1>9, <2>1, <2>3, <1>4 DEF Header, CAN, SOH
  <2>4. CASE Head(toRx) # CAN /\ Head(toRx) # SOH
    <3>1. BlockError(NAK) /\ NAK # ACK
      BY <1>9, <2>4 DEF Header, NAK, ACK
    <3> QED BY <2>1, <3>1, <1>3
  <2> QED BY <2>2, <2>3, <2>4
<1>10. CASE SecondCan
  <2>1. Get("can") /\ pc = "can" /\ toRx # <<>>
        /\ BlockError(IF Head(toRx) = CAN THEN ACK ELSE NAK)
    BY <1>10 DEF SecondCan, Get
  <2>2. CASE Head(toRx) = CAN
    <3>1. 1 \in 1..Len(toRx) /\ toRx[1] = CAN
      <4>1. Len(toRx) \in Nat \ {0}
        BY <2>1, <1>0, EmptySeq DEF TypeOK
      <4> QED BY <4>1, <2>2
    <3>2. ~tobrom
      BY <2>1, <1>0 DEF Shape
    <3>3. host.st = "aborted"
      BY <3>1, <3>2, <1>0, <1>1 DEF Shape
    <3> QED BY <2>1, <2>2, <3>3, <1>3
  <2>3. CASE Head(toRx) # CAN
    <3>1. NAK # ACK
      BY DEF NAK, ACK
    <3> QED BY <2>1, <2>3, <3>1, <1>3
  <2> QED BY <2>2, <2>3
<1>11. CASE FrameByte
  <2> DEFINE f == Append(frame, Head(toRx))
  <2>0. Get("frame") /\ pc = "frame" /\ toRx # <<>> /\ toRx' = Tail(toRx) /\ Working
    BY <1>11 DEF FrameByte, Get, Working
  <2>1. CASE BlockError(NAK)
    <3>1. NAK # ACK
      BY DEF NAK, ACK
    <3> QED BY <2>0, <2>1, <3>1, <1>3
  <2>2. CASE ~Refused(f) /\ Len(f) = 5 /\ BlockReceived
    <3>1. /\ Same /\ Wanted /\ total_received = host.n - 1
      BY <2>0, <2>2, <1>1, AcceptsWanted DEF IInv
    <3>2. PICK c \in 0..3 : Ordered(image[region], Stream, c, host.n)
      BY <2>0, <2>2, <1>1, AcceptsWanted DEF IInv
    <3>3. Len(frame) = 4
      BY <2>0, <2>2, <1>0, Accepted
    <3>4. /\ frame' = <<>> /\ region' = region /\ pc' = "header"
          /\ total_received' = total_received + 1 /\ toTx' = Append(toTx, ACK)
      BY <2>2 DEF BlockReceived
    <3>5. /\ Len(Stream) = Len(Stream') + 5
          /\ \A i \in 1..Len(Stream') : Stream'[i] = Stream[i + 5]
      <4>1. /\ Len(Stream) = Len(Stream') + (Len(frame) + 1)
            /\ \A i \in 1..Len(Stream') : Stream'[i] = Stream[i + (Len(frame) + 1)]
        BY <2>0, <3>4, <1>0, ReadRest
      <4>2. Len(frame) + 1 = 5
        BY <3>3
      <4> QED BY <4>1, <4>2
    <3>6. Ordered(image[region], Stream', 0, host.n)
      <4>1. host.n \in Nat /\ c \in Nat /\ 5 \in Nat /\ ~(c > 5)
        BY <1>2
      <4>2. Ordered(image[region], Stream', IF c > 5 THEN c - 5 ELSE 0, host.n)
        BY <4>1, <3>2, <3>5, <1>2, OrderedRest
      <4> QED BY <4>1, <4>2
    <3>7. host.st = "sent" => OneAck(toTx')
      BY <3>1, <3>4, <1>0, AnswerBytes, AppendAnswers DEF Wanted, TypeOK
    <3>8. total_received' = host.n
      BY <3>1, <3>4, <1>2
    <3>9. Acknowledged'
      BY <3>4, <3>6, <3>7, <3>8, <1>1 DEF Acknowledged
    <3> QED BY <3>1, <3>4, <3>9, <1>1 DEF Same, Sent
  <2>3. CASE GoOn("frame") /\ frame' = f
    <3>1. Stream' = Stream
      BY <2>0, <2>3, <1>0, ReadKept
    <3> QED BY <2>0, <2>3, <3>1, <1>4
  <2> QED BY <1>11, <2>1, <2>2, <2>3 DEF FrameByte
<1> QED BY <1>5, <1>6, <1>7, <1>8, <1>9, <1>10, <1>11 DEF Receiver

LEMMA StreamMore ==
  ASSUME TypeOK, frame' = frame, NEW t \in Seq(Bytes), toRx' = toRx \o t
  PROVE  Stream' = Stream \o t
<1>1. frame \in Seq(Bytes) /\ toRx \in Seq(Bytes)
  BY DEF TypeOK
<1>2. (frame \o toRx) \o t = frame \o (toRx \o t)
  BY <1>1, ConcatAssociative
<1> QED BY <1>2 DEF Stream

(* The host sends what it is at again, or nothing, or gives up.             *)
LEMMA StaysSame ==
  ASSUME TypeOK, Shape, Same \/ Ended, UNCHANGED <<image, pc, region, frame, total_received>>,
         host'.reg = host.reg, host'.n = host.n, host'.st \in {"sent", "aborted", "cancelled"},
         host'.st = "sent" => host.st = "sent",
         NEW t, Fragment(image[host.reg], host.n, t), toRx' = toRx \o t,
         toTx' = toTx \/ (toTx # <<>> /\ toTx' = Tail(toTx))
  PROVE  Same' \/ Ended'
<1>1. /\ t \in Seq(Bytes) /\ Stream' = Stream \o t
      /\ Stream \in Seq(Bytes) /\ Len(Stream) \in Nat
  BY StreamFacts, StreamMore DEF Fragment
<1>2. /\ NoAck(toTx) => NoAck(toTx')
      /\ OneAck(toTx) => OneAck(toTx')
  BY TailAnswers DEF TypeOK
<1>3. /\ host.n \in Nat /\ host.reg \in Regions /\ "itcm" \in Regions
      /\ image["itcm"] \in Seq(Data)
  BY ImageFacts DEF TypeOK, Regions
<1>4. Len(Stream') = Len(Stream) + Len(t) /\ Len(t) \in Nat
  BY <1>1, ConcatProperties, LenProperties
<1>5. CASE Same /\ Wanted
  <2>1. PICK c \in 0..Len(Stream) : Ordered(image[region], Stream, c, host.n)
    BY <1>5 DEF Wanted
  <2>2. Ordered(image[region], Stream', c, host.n)
    BY <2>1, <1>1, <1>3, <1>5, OrderedMore DEF Same
  <2>3. c \in 0..Len(Stream')
    BY <1>1, <1>4
  <2>4. Wanted'
    BY <2>2, <2>3, <1>2, <1>5 DEF Wanted
  <2> QED BY <2>4, <1>5 DEF Same, Sent
<1>6. CASE Same /\ Acknowledged
  <2>1. 0 \in 0..Len(Stream)
    BY <1>1
  <2>2. Ordered(image[region], Stream', 0, host.n)
    BY <2>1, <1>1, <1>3, <1>6, OrderedMore DEF Same, Acknowledged
  <2>3. Acknowledged'
    BY <2>2, <1>2, <1>6 DEF Acknowledged
  <2> QED BY <2>3, <1>6 DEF Same, Sent
<1>7. CASE Ended
  <2>1. Barren(Stream')
    BY <1>1, <1>3, <1>7, BarrenMore DEF Ended
  <2> QED BY <2>1, <1>2, <1>7 DEF Ended, Sent
<1> QED BY <1>5, <1>6, <1>7 DEF Same

(* The first block of a transfer goes onto a silent line.                   *)
LEMMA Begins ==
  ASSUME TypeOK, Shape, Waits, Head(toTx) = CHR, toTx # <<>>, toTx' = Tail(toTx),
         Send(host.reg, 1), UNCHANGED <<image, pc, region, frame, total_received>>
  PROVE  Same'
<1>1. toTx[1] = CHR /\ toTx \in Seq(Bytes)
  BY DEF TypeOK
<1>2. /\ toRx = <<>> /\ pc = "start" /\ region = host.reg /\ total_received = 0 /\ NoAck(toTx)
      /\ frame = <<>>
  BY <1>1 DEF Waits, Shape
<1>3. /\ host.reg \in Regions /\ 1 \in 1..Len(image[host.reg]) + 1
  <2>1. host.reg \in Regions
    BY DEF TypeOK
  <2>2. Len(image[host.reg]) \in Nat
    BY <2>1, ImageFacts
  <2> QED BY <2>1, <2>2
<1>4. PICK t : Fragment(image[host.reg], 1, t) /\ toRx' = toRx \o t
  BY <1>3, SendArrives
<1>5. t \in Seq(Bytes) /\ Stream' = Stream \o t /\ Stream = <<>>
  <2>1. t \in Seq(Bytes)
    BY <1>4 DEF Fragment
  <2>2. <<>> \o <<>> = <<>>
    BY EmptyBytes, ConcatEmptySeq
  <2> QED BY <2>1, <2>2, <1>2, <1>4, StreamMore DEF Stream
<1>6. /\ <<>> \in Seq(Bytes) /\ 0 \in 0..Len(<<>>)
      /\ Ordered(image[host.reg], <<>>, 0, 1)
  <2>1. <<>> \in Seq(Bytes) /\ Len(<<>>) = 0 /\ 4..0 = {} /\ 1..0 = {}
    BY EmptySeq
  <2> QED BY <2>1 DEF Ordered
<1>7. Ordered(image[host.reg], Stream', 0, 1)
  <2>1. 1 \in Nat
    OBVIOUS
  <2> QED BY <2>1, <1>4, <1>5, <1>6, OrderedMore
<1>8. 0 \in 0..Len(Stream')
  <2>1. Stream' = t
    BY <1>5, ConcatEmptySeq
  <2>2. Len(t) \in Nat
    BY <1>5, LenProperties
  <2> QED BY <2>1, <2>2
<1>9. host' = [reg |-> host.reg, n |-> 1, st |-> "sent"]
  BY DEF Send
<1>10. NoAck(toTx')
  BY <1>1, <1>2, TailAnswers
<1>11. Wanted'
  BY <1>2, <1>7, <1>8, <1>9, <1>10 DEF Wanted
<1> QED BY <1>2, <1>9, <1>11 DEF Same, Sent

(* The host hears that its block has been stored, and sends the next.       *)
LEMMA GoesOn ==
  ASSUME IInv, ~stale, Same \/ Ended, host.st = "sent", Head(toTx) = ACK, toTx # <<>>, toTx' = Tail(toTx),
         host.n <= Len(image[host.reg]), Send(host.reg, host.n + 1),
         UNCHANGED <<image, pc, region, frame, total_received>>
  PROVE  Same'
<1>0. TypeOK /\ Shape
  BY DEF IInv
<1>1. toTx \in Seq(Bytes)
  BY <1>0 DEF TypeOK
<1>2. /\ host.reg \in Regions /\ host.n \in 1..Len(image[host.reg]) /\ host.n \in Nat
      /\ host.n + 1 \in 1..Len(image[host.reg]) + 1
      /\ image[host.reg] \in Seq(Data) /\ Len(image[host.reg]) \in Nat
  <2>1. host.reg \in Regions /\ host.n \in Nat \ {0}
    BY <1>0 DEF TypeOK
  <2>2. image[host.reg] \in Seq(Data) /\ Len(image[host.reg]) \in Nat
    BY <2>1, <1>0, ImageFacts
  <2> QED BY <2>1, <2>2
<1>3. Same /\ Acknowledged
  <2>1. ~Ended
    BY <1>2 DEF Ended
  <2>2. ~Wanted
    BY <1>1, TailAnswers DEF Wanted
  <2> QED BY <2>1, <2>2 DEF Same
<1>4. region = host.reg /\ total_received = host.n /\ Ordered(image[region], Stream, 0, host.n)
  BY <1>3 DEF Same, Acknowledged
<1>5. PICK t : Fragment(image[host.reg], host.n + 1, t) /\ toRx' = toRx \o t
  BY <1>0, <1>2, SendArrives
<1>6. /\ t \in Seq(Bytes) /\ Stream' = Stream \o t /\ Stream \in Seq(Bytes) /\ Len(Stream) \in Nat
      /\ Len(Stream) \in 0..Len(Stream) /\ Len(Stream) \in 0..Len(Stream')
  <2>1. t \in Seq(Bytes)
    BY <1>5 DEF Fragment
  <2>2. Stream' = Stream \o t /\ Stream \in Seq(Bytes) /\ Len(Stream) \in Nat
    BY <2>1, <1>0, <1>5, StreamMore, StreamFacts
  <2>3. Len(Stream') = Len(Stream) + Len(t) /\ Len(t) \in Nat
    BY <2>1, <2>2, ConcatProperties, LenProperties
  <2> QED BY <2>1, <2>2, <2>3
<1>7. Ordered(image[region], Stream, Len(Stream), host.n + 1)
  BY <1>2, <1>4, <1>6, OrderedNext
<1>8. Ordered(image[region], Stream', Len(Stream), host.n + 1)
  <2>1. host.n + 1 \in Nat
    BY <1>2
  <2> QED BY <2>1, <1>4, <1>5, <1>6, <1>7, OrderedMore
<1>9. host' = [reg |-> host.reg, n |-> host.n + 1, st |-> "sent"]
  BY DEF Send
<1>10. NoAck(toTx')
  BY <1>1, <1>3, TailAnswers DEF Acknowledged
<1>11. Wanted'
  <2>1. total_received' = host'.n - 1
    BY <1>2, <1>4, <1>9
  <2> QED BY <2>1, <1>4, <1>6, <1>8, <1>9, <1>10 DEF Wanted
<1> QED BY <1>3, <1>9, <1>11 DEF Same, Sent

(* The host hears that the transfer has ended, and waits for the next.      *)
LEMMA TurnsToNext ==
  ASSUME IInv, ~stale, Same \/ Ended, host.st = "sent", Head(toTx) = ACK, toTx # <<>>, toTx' = Tail(toTx),
         host.n > Len(image[host.reg]),
         host' = IF host.reg = "itcm"
                 THEN [reg |-> "dtcm", n |-> 1, st |-> "waits"]
                 ELSE [host EXCEPT !.st = "done"],
         UNCHANGED <<image, pc, region, frame, total_received, toRx>>
  PROVE  Waits'
<1>0. TypeOK /\ Shape /\ Memory
  BY DEF IInv
<1>1. toTx \in Seq(Bytes)
  BY <1>0 DEF TypeOK
<1>2. ~Wanted
  BY <1>1, TailAnswers DEF Wanted
<1>3. ~(Same /\ Acknowledged)
  <2> SUFFICES ASSUME Same, Acknowledged PROVE FALSE
    OBVIOUS
  <2>1. total_received \in Nat \ {0} /\ total_received = host.n /\ region = host.reg
        /\ region \in Regions
    BY <1>0 DEF TypeOK, Same, Acknowledged
  <2>2. total_received \in 1..total_received
    BY <2>1
  <2>3. total_received <= Len(image[region])
    BY <2>2, <1>0 DEF Memory, Prefix
  <2>4. Len(image[region]) \in Nat
    BY <2>1, <1>0, ImageFacts
  <2> QED BY <2>1, <2>3, <2>4
<1>4. Ended
  BY <1>2, <1>3 DEF Same
<1>5. Stream' = Stream
  BY DEF Stream
<1>6. NoAck(toTx')
  BY <1>1, <1>4, TailAnswers DEF Ended
<1>7. ~(toTx' # <<>> /\ toTx'[1] = CHR)
  <2> SUFFICES ASSUME toTx' # <<>>, toTx'[1] = CHR PROVE FALSE
    OBVIOUS
  <2>1. /\ toTx' \in Seq(Bytes) /\ Len(toTx') = Len(toTx) - 1
        /\ \A i \in 1..Len(toTx') : toTx'[i] = toTx[i + 1]
    BY <1>1, HeadTailProperties
  <2>2. Len(toTx') \in Nat \ {0} /\ Len(toTx) \in Nat
    BY <2>1, <1>1, EmptySeq, LenProperties
  <2>3. 1 \in 1..Len(toTx') /\ 2 \in 1..Len(toTx) /\ 1 + 1 = 2
    BY <2>1, <2>2
  <2>4. toTx[2] = CHR
    BY <2>1, <2>3
  <2> QED BY <2>3, <2>4, <1>0 DEF Shape
<1>8. host'.reg = "dtcm" /\ host'.n = 1 /\ host'.st = "waits"
  BY <1>4 DEF Ended
<1> QED BY <1>4, <1>5, <1>6, <1>7, <1>8 DEF Waits, Ended, Sent

(* The host does not answer.                                                *)
LEMMA AnswerGone ==
  ASSUME TypeOK, Shape, Waits \/ Same \/ Ended,
         UNCHANGED <<image, pc, region, frame, total_received, host, toRx>>,
         toTx # <<>>, toTx' = Tail(toTx)
  PROVE  Waits' \/ Same' \/ Ended'
<1>1. Stream' = Stream
  BY DEF Stream
<1>2. /\ NoAck(toTx) => NoAck(toTx')
      /\ OneAck(toTx) => OneAck(toTx')
  BY TailAnswers DEF TypeOK
<1>3. ~(toTx' # <<>> /\ toTx'[1] = CHR)
  <2> SUFFICES ASSUME toTx' # <<>>, toTx'[1] = CHR PROVE FALSE
    OBVIOUS
  <2>0. toTx \in Seq(Bytes)
    BY DEF TypeOK
  <2>1. /\ toTx' \in Seq(Bytes) /\ Len(toTx') = Len(toTx) - 1
        /\ \A i \in 1..Len(toTx') : toTx'[i] = toTx[i + 1]
    BY <2>0, HeadTailProperties
  <2>2. Len(toTx') \in Nat \ {0} /\ Len(toTx) \in Nat
    BY <2>0, <2>1, EmptySeq, LenProperties
  <2>3. 1 \in 1..Len(toTx') /\ 2 \in 1..Len(toTx) /\ 1 + 1 = 2
    BY <2>1, <2>2
  <2>4. toTx[2] = CHR
    BY <2>1, <2>3
  <2> QED BY <2>3, <2>4 DEF Shape
<1>4. CASE Waits
  BY <1>1, <1>2, <1>3, <1>4 DEF Waits
<1>5. CASE Same
  BY <1>1, <1>2, <1>5 DEF Same, Sent, Wanted, Acknowledged
<1>6. CASE Ended
  BY <1>1, <1>2, <1>6 DEF Ended, Sent
<1> QED BY <1>4, <1>5, <1>6

LEMMA OtherSync ==
  ASSUME IInv, HostReads \/ LoseAnswer \/ HostTimeout \/ HostCancels \/ SoftReset
  PROVE  Sync'
<1>0. TypeOK /\ Shape /\ Sync /\ Memory
  BY DEF IInv
<1> SUFFICES ASSUME ~stale', ~tobrom', pc' # "failed"
             PROVE  Idle' \/ Waits' \/ Same' \/ Ended'
  BY DEF Sync
<1>1. CASE SoftReset
  <2>1. /\ stale' = (stale \/ (toRx # <<>> /\ ~tobrom)) /\ tobrom' = tobrom /\ toRx' = toRx
        /\ pc' = "main" /\ toTx' = <<>> /\ host' = [reg |-> "itcm", n |-> 1, st |-> "waits"]
    BY <1>1 DEF SoftReset
  <2>2. ~(toRx # <<>> /\ ~tobrom)
    <3>1. stale' = (stale \/ (toRx # <<>> /\ ~tobrom))
      BY <2>1
    <3> QED BY <3>1, Zenon
  <2>3. toRx = <<>>
    BY <2>1, <2>2
  <2> QED BY <2>1, <2>3 DEF Idle
<1>2. ASSUME UNCHANGED <<image, rxvars, stale>>, Waits \/ Same \/ Ended => Waits' \/ Same' \/ Ended',
             host.st = "sent" \/ toTx # <<>>
      PROVE  Idle' \/ Waits' \/ Same' \/ Ended'
  <2>1. ~stale /\ ~tobrom /\ pc # "failed"
    BY <1>2 DEF rxvars
  <2> QED BY <2>1, <1>0, <1>2 DEF Sync, Idle
<1>3. ASSUME UNCHANGED <<image, rxvars>>
      PROVE  UNCHANGED <<image, pc, region, frame, total_received>>
  BY <1>3 DEF rxvars, xfer
<1>4. /\ host.reg \in Regions /\ host.n \in 1..Len(image[host.reg]) + 1
      /\ toRx \in Seq(Bytes) /\ toRx \o <<>> = toRx
  <2>1. host.reg \in Regions /\ host.n \in Nat \ {0} /\ toRx \in Seq(Bytes)
    BY <1>0 DEF TypeOK
  <2>2. Len(image[host.reg]) \in Nat /\ host.n <= Len(image[host.reg]) + 1
    BY <2>1, <1>0, ImageFacts DEF Shape
  <2> QED BY <2>1, <2>2, ConcatEmptySeq
<1>5. CASE HostReads
  <2>1. toTx # <<>> /\ toTx' = Tail(toTx) /\ UNCHANGED <<image, rxvars, stale>>
    BY <1>5 DEF HostReads
  <2>2. ~stale
    BY <2>1
  <2>3. SUFFICES ASSUME Waits \/ Same \/ Ended PROVE Waits' \/ Same' \/ Ended'
    BY <2>1, <1>2
  <2>4. UNCHANGED <<image, pc, region, frame, total_received>>
    BY <2>1, <1>3
  <2>5. CASE host.st = "waits" /\ Head(toTx) = CHR /\ Send(host.reg, 1)
    <3>1. Waits
      BY <2>3, <2>5 DEF Same, Ended, Sent
    <3> QED BY <2>1, <2>4, <2>5, <3>1, <1>0, Begins
  <2>6. CASE host.st = "sent" /\ Send(host.reg, host.n)
    <3>1. Same \/ Ended
      BY <2>3, <2>6 DEF Waits
    <3>2. PICK t : Fragment(image[host.reg], host.n, t) /\ toRx' = toRx \o t
      BY <2>6, <1>0, <1>4, SendArrives
    <3>3. host'.reg = host.reg /\ host'.n = host.n /\ host'.st = "sent"
      BY <2>6 DEF Send
    <3> QED BY <2>1, <2>4, <2>6, <3>1, <3>2, <3>3, <1>0, StaysSame
  <2>7. CASE host.st = "sent" /\ Head(toTx) = ACK /\ host.n <= Len(image[host.reg])
             /\ Send(host.reg, host.n + 1)
    <3>1. Same \/ Ended
      BY <2>3, <2>7 DEF Waits
    <3> QED BY <2>1, <2>2, <2>4, <2>7, <3>1, GoesOn
  <2>8. CASE /\ host.st = "sent" /\ Head(toTx) = ACK /\ host.n > Len(image[host.reg])
             /\ host' = IF host.reg = "itcm"
                        THEN [reg |-> "dtcm", n |-> 1, st |-> "waits"]
                        ELSE [host EXCEPT !.st = "done"]
             /\ UNCHANGED <<toRx, faults>>
    <3>1. Same \/ Ended
      BY <2>3, <2>8 DEF Waits
    <3> QED BY <2>1, <2>2, <2>4, <2>8, <3>1, TurnsToNext
  <2>9. CASE /\ host.st = "sent" /\ host' = [host EXCEPT !.st = "cancelled"]
             /\ UNCHANGED <<toRx, faults>>
    <3>1. Same \/ Ended
      BY <2>3, <2>9 DEF Waits
    <3>2. Fragment(image[host.reg], host.n, <<>>) /\ toRx' = toRx \o <<>>
      BY <2>9, <1>4, NothingArrives
    <3>3. host'.reg = host.reg /\ host'.n = host.n /\ host'.st = "cancelled"
      BY <2>9, <1>0 DEF TypeOK
    <3> QED BY <2>1, <2>4, <3>1, <3>2, <3>3, <1>0, StaysSame
  <2>10. CASE UNCHANGED <<host, toRx, faults>>
    BY <2>1, <2>3, <2>4, <2>10, <1>0, AnswerGone
  <2> QED BY <2>5, <2>6, <2>7, <2>8, <2>9, <2>10, <1>0, <1>5, HostReadsCases
<1>6. CASE LoseAnswer
  <2>1. toTx # <<>> /\ toTx' = Tail(toTx) /\ UNCHANGED <<image, rxvars, host, toRx, stale>>
    BY <1>6 DEF LoseAnswer
  <2>2. Waits \/ Same \/ Ended => Waits' \/ Same' \/ Ended'
    BY <2>1, <1>0, <1>3, AnswerGone
  <2> QED BY <2>1, <2>2, <1>2
<1>7. CASE HostTimeout
  <2>1. host.st = "sent" /\ toTx' = toTx /\ UNCHANGED <<image, rxvars, stale>> /\ Send(host.reg, host.n)
    BY <1>7 DEF HostTimeout
  <2>2. PICK t : Fragment(image[host.reg], host.n, t) /\ toRx' = toRx \o t
    BY <2>1, <1>0, <1>4, SendArrives
  <2>3. host'.reg = host.reg /\ host'.n = host.n /\ host'.st = "sent"
    BY <2>1 DEF Send
  <2>4. ASSUME Same \/ Ended PROVE Same' \/ Ended'
    BY <2>1, <2>2, <2>3, <2>4, <1>0, <1>3, StaysSame
  <2>5. ~Waits
    BY <2>1 DEF Waits
  <2> QED BY <2>1, <2>4, <2>5, <1>2
<1>8. CASE HostCancels
  <2> DEFINE t == <<CAN, CAN, CAN, CAN>>
  <2>1. /\ host.st = "sent" /\ toTx' = toTx /\ UNCHANGED <<image, rxvars, stale>>
        /\ toRx = <<>> /\ toRx' = t /\ host' = [host EXCEPT !.st = "aborted"]
    BY <1>8 DEF HostCancels
  <2>2. Fragment(image[host.reg], host.n, t)
    BY CancelsArrive
  <2>3. t \in Seq(Bytes)
    BY <2>2 DEF Fragment
  <2> HIDE DEF t
  <2>4. toRx' = toRx \o t
    BY <2>1, <2>3, ConcatEmptySeq
  <2>5. host'.reg = host.reg /\ host'.n = host.n /\ host'.st = "aborted"
    BY <2>1, <1>0 DEF TypeOK
  <2>6. ASSUME Same \/ Ended PROVE Same' \/ Ended'
    BY <2>1, <2>2, <2>4, <2>5, <2>6, <1>0, <1>3, StaysSame
  <2>7. ~Waits
    BY <2>1 DEF Waits
  <2> QED BY <2>1, <2>6, <2>7, <1>2
<1> QED BY <1>1, <1>5, <1>6, <1>7, <1>8

-----------------------------------------------------------------------------
(* Theorems                                                                 *)

LEMMA Initially ==
  ASSUME Init
  PROVE  IInv
<1>1. /\ 0 \in 0..NumMod - 1 /\ 0 \in 0..ErrorLimit /\ 0 \in 0..MaxFaults /\ 0 \in 0..MaxResets
      /\ \A r \in Regions : MaxSize[r] \in Nat
      /\ <<>> \in Seq(Bytes) /\ Len(<<>>) = 0
  BY XmodemAssumption, EmptySeq
<1>2. TypeOK
  <2>1. host \in [reg : Regions, n : Nat \ {0},
                  st : {"waits", "sent", "done", "cancelled", "aborted"}]
    BY DEF Init, Regions
  <2>2. mem \in [Regions -> Seq(Bytes)]
    BY <1>1 DEF Init
  <2>3. /\ region \in Regions /\ frame = <<>> /\ toRx = <<>> /\ toTx = <<>>
        /\ block_num = 0 /\ total_received = 0 /\ error_count = 0 /\ faults = 0 /\ resets = 0
        /\ image \in Images /\ pc = "main" /\ tobrom = FALSE /\ stale = FALSE
    BY DEF Init, Regions
  <2> QED BY <2>1, <2>2, <2>3, <1>1, EmptyBytes DEF TypeOK
<1>3. \A r \in Regions : mem[r] = <<>> /\ Len(image[r]) \in Nat
  BY <1>2, ImageFacts DEF Init
<1>4. Shape
  <2>1. host.n <= Len(image[host.reg]) + 1
    <3>1. host.reg \in Regions /\ host.n = 1
      BY DEF Init, Regions
    <3> QED BY <3>1, <1>3
  <2> QED BY <2>1, <1>1, <1>3 DEF Init, Shape, Working
<1>5. Sync
  BY DEF Init, Sync, Idle
<1>6. Memory
  BY <1>1, <1>3 DEF Init, Memory, Prefix
<1> QED BY <1>2, <1>4, <1>5, <1>6 DEF IInv

LEMMA Stutter ==
  ASSUME IInv, UNCHANGED vars
  PROVE  IInv'
<1>1. TypeOK'
  BY DEF IInv, TypeOK, vars, rxvars, xfer
<1>2. Shape'
  BY DEF IInv, Shape, Working, vars, rxvars, xfer
<1>3. Sync'
  BY DEF IInv, Sync, Idle, Waits, Same, Sent, Wanted, Acknowledged, Ended, Stream, vars, rxvars, xfer
<1>4. Memory'
  BY DEF IInv, Memory, Prefix, vars, rxvars, xfer
<1> QED BY <1>1, <1>2, <1>3, <1>4 DEF IInv

LEMMA Inductive ==
  ASSUME IInv, [Next]_vars
  PROVE  IInv'
<1>1. CASE Receiver
  BY <1>1, ReceiverTypes, ReceiverShape, ReceiverSync, ReceiverMemory DEF IInv
<1>2. CASE HostReads \/ LoseAnswer \/ HostTimeout \/ HostCancels \/ SoftReset
  BY <1>2, OtherTypes, OtherShape, OtherSync, OtherMemory DEF IInv
<1>3. CASE UNCHANGED vars
  BY <1>3, Stutter
<1> QED BY <1>1, <1>2, <1>3 DEF Next

LEMMA Invariant == Spec => []IInv
<1>1. Init => IInv
  BY Initially
<1>2. IInv /\ [Next]_vars => IInv'
  BY Inductive
<1> QED BY <1>1, <1>2, PTL DEF Spec

(* Every state of the loader is of its types, whatever the line, the host   *)
(* and resets do.                                                           *)
THEOREM TypeCorrect == Spec => []TypeOK
<1>1. IInv => TypeOK
  BY DEF IInv
<1> QED BY <1>1, Invariant, PTL

(* Counts and errors keep their bounds; no more than one block is written   *)
(* past the end of a memory, and then the program is not started            *)
(* (main.c l.184-202).                                                      *)
THEOREM LoaderIsSound == Spec => []LoaderSound
<1>1. IInv => LoaderSound
  <2> SUFFICES ASSUME IInv PROVE LoaderSound
    OBVIOUS
  <2>1. TypeOK /\ \A r \in Regions : Len(mem[r]) <= MaxSize[r] + 1
    BY DEF IInv, Shape
  <2>2. pc = "running" /\ ~stale => \A r \in Regions : Len(mem[r]) <= MaxSize[r]
    BY DEF IInv, Shape, Memory
  <2> QED BY <2>1, <2>2 DEF LoaderSound, OverrunStops
<1> QED BY <1>1, Invariant, PTL

(* What has been received is a beginning of the image, whatever was lost,   *)
(* damaged or sent twice (l.127-143).                                       *)
THEOREM ReceivesInOrder == Spec => []ReceivedInOrder
<1>1. IInv => ReceivedInOrder
  <2> SUFFICES ASSUME IInv, ~stale
               PROVE  IsInitial(SubSeq(mem[region], 1, total_received), image[region])
    BY DEF ReceivedInOrder
  <2> DEFINE n == total_received
             s == SubSeq(mem[region], 1, n)
             t == SubSeq(image[region], 1, n)
  <2>1. /\ TypeOK /\ Prefix /\ n \in Nat /\ region \in Regions
        /\ mem[region] \in Seq(Bytes) /\ image[region] \in Seq(Data)
        /\ Len(mem[region]) \in Nat /\ Len(image[region]) \in Nat
    BY ImageFacts, LenProperties DEF IInv, Memory, TypeOK
  <2>2. n <= Len(mem[region]) /\ n <= Len(image[region])
    <3>1. CASE n = 0
      BY <3>1, <2>1
    <3>2. CASE n # 0
      <4>1. n \in 1..n
        BY <3>2, <2>1
      <4> QED BY <4>1, <2>1 DEF Prefix
    <3> QED BY <3>1, <3>2
  <2>3. \A i \in 1..n : mem[region][i] = image[region][i] /\ mem[region][i] \in Bytes
    BY <2>1, <2>2, ElementOfSeq DEF Prefix
  <2>4. /\ s \in Seq(Bytes) /\ Len(s) = IF 1 <= n THEN n - 1 + 1 ELSE 0
        /\ \A i \in 1..n - 1 + 1 : s[i] = mem[region][1 + i - 1]
    BY <2>1, <2>3, SubSeqProperties
  <2>5. /\ t \in Seq(Bytes) /\ Len(t) = IF 1 <= n THEN n - 1 + 1 ELSE 0
        /\ \A i \in 1..n - 1 + 1 : t[i] = image[region][1 + i - 1]
    BY <2>1, <2>3, SubSeqProperties
  <2> HIDE DEF s, t
  <2>6. Len(s) = n /\ Len(t) = n /\ \A i \in 1..n : s[i] = t[i]
    <3>1. n - 1 + 1 = n /\ \A i \in 1..n : 1 + i - 1 = i
      BY <2>1
    <3> QED BY <3>1, <2>1, <2>3, <2>4, <2>5
  <2>7. s = t
    BY <2>4, <2>5, <2>6, SeqEqual
  <2>8. s = SubSeq(image[region], 1, Len(s)) /\ Len(s) <= Len(image[region])
    BY <2>2, <2>6, <2>7 DEF t
  <2> QED BY <2>8 DEF IsInitial, s
<1> QED BY <1>1, Invariant, PTL

(* A program that is started is the whole of what the host has for both     *)
(* memories, unless a reset left bytes of an unfinished transfer on the     *)
(* line (l.249, l.318).                                                     *)
THEOREM StartsWholeImage == Spec => []RunsWholeImage
<1>1. IInv => RunsWholeImage
  <2> SUFFICES ASSUME IInv, pc = "running", ~stale, NEW r \in Regions
               PROVE  IsInitial(image[r], mem[r])
    BY DEF RunsWholeImage
  <2>1. mem[r] = image[r] /\ TypeOK
    BY DEF IInv, Shape, Memory
  <2>2. mem[r] \in Seq(Bytes) /\ Len(mem[r]) \in Nat
    BY <2>1, LenProperties DEF TypeOK
  <2>3. SubSeq(mem[r], 1, Len(mem[r])) = mem[r]
    BY <2>2, SubSeqFull
  <2> QED BY <2>1, <2>2, <2>3 DEF IsInitial
<1> QED BY <1>1, Invariant, PTL

=============================================================================
