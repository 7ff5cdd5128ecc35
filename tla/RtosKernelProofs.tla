-------------------------- MODULE RtosKernelProofs --------------------------
(***************************************************************************)
(* What the operations of RtosKernel do to the kernel's state, for every   *)
(* set of tasks, number of priorities and width of the tick count. A ghost *)
(* function at says in which list each task is; Sound(x, at) says that the *)
(* lists, the bits of the ready priorities and the times of the state x    *)
(* agree with it. Each lemma takes a sound state through one operation and *)
(* says what is in which list after it, whether the current task is still  *)
(* the best, and what has not changed.                                     *)
(*                                                                         *)
(* The folds of the kernel (WakeDue, DrainPending, CatchUp,                *)
(* StartScheduler) are taken step by step with FoldProofs.                 *)
(*                                                                         *)
(* The heap comes next. HeapInv is inductive as it stands: a block that is *)
(* disjoint from all others is merged with at most one free block on each  *)
(* side, so that the result occupies the same memory and touches no free   *)
(* block. The sum of a finite set of blocks is a recursive function that   *)
(* takes the blocks in an order of its own; SumWithout shows that it does  *)
(* not depend on that order.                                               *)
(*                                                                         *)
(* The last sections define KernelInv, the invariant of RtosTasks, which   *)
(* relates the kernel, where each task is in its call and which task has   *)
(* memory, and take it through the steps a task makes while it keeps the   *)
(* scheduler suspended (Call...).                                          *)
(***************************************************************************)
EXTENDS RtosTasks, SequenceTheorems, FiniteSetTheorems, WellFoundedInduction,
        NaturalsInduction, TLAPS

Distinct(s) == \A i, j \in DOMAIN s : s[i] = s[j] => i = j

LEMMA LeastNat ==
  ASSUME NEW D \in SUBSET Nat, D # {}
  PROVE  Min(D) \in D /\ \A y \in D : Min(D) <= y
<1> DEFINE R == {ss \in Nat \X Nat : ss[1] < ss[2]}
<1>1. IsWellFoundedOn(R, Nat)
  BY NatLessThanWellFounded, SMT DEF OpToRel
<1>2. PICK x \in D : \A y \in D : ~(<<y, x>> \in R)
  <2> HIDE DEF R
  <2> QED BY <1>1, WFMin
<1>3. ASSUME NEW y \in D, y < x PROVE FALSE
  <2>1. <<y, x>> \in R
    BY <1>3
  <2> HIDE DEF R
  <2> QED BY <1>2, <2>1
<1>4. \A y \in D : x <= y
  BY <1>3
<1> QED BY <1>4 DEF Min

LEMMA GreatestNat ==
  ASSUME NEW n \in Nat, NEW D \in SUBSET (0..n), D # {}
  PROVE  Max(D) \in D /\ \A y \in D : Max(D) >= y
<1> DEFINE E == {n - x : x \in D}
<1>1. E \in SUBSET Nat /\ E # {}
  <2>1. \A x \in 0..n : n - x \in Nat
    OBVIOUS
  <2> QED BY <2>1
<1>2. PICK m \in E : \A y \in E : m <= y
  BY <1>1, LeastNat
<1>3. n - m \in D /\ \A y \in D : n - m >= y
  <2>1. PICK x \in D : m = n - x
    OBVIOUS
  <2>2. \A y \in D : n - y \in E
    OBVIOUS
  <2> HIDE DEF E
  <2> QED BY <1>2, <2>1, <2>2
<1> HIDE DEF E
<1> QED BY <1>3 DEF Max

LEMMA ContainsIsRange ==
  ASSUME NEW T, NEW s \in Seq(T), NEW e
  PROVE  Contains(s, e) <=> e \in Range(s)
BY DEF Contains, Range

LEMMA AppendList ==
  ASSUME NEW T, NEW s \in Seq(T), Distinct(s), NEW e \in T, e \notin Range(s)
  PROVE  /\ Append(s, e) \in Seq(T) /\ Distinct(Append(s, e))
         /\ Range(Append(s, e)) = Range(s) \cup {e}
         /\ Len(Append(s, e)) = Len(s) + 1
<1>1. Append(s, e) \in Seq(T) /\ Len(Append(s, e)) = Len(s) + 1
  OBVIOUS
<1>2. \A i \in 1..Len(s) : Append(s, e)[i] = s[i]
  OBVIOUS
<1>3. Append(s, e)[Len(s) + 1] = e
  OBVIOUS
<1>4. Distinct(Append(s, e))
  BY <1>1, <1>2, <1>3 DEF Distinct, Range
<1>5. Range(Append(s, e)) = Range(s) \cup {e}
  BY <1>1, <1>2, <1>3 DEF Range
<1> QED BY <1>1, <1>4, <1>5

LEMMA RemoveList ==
  ASSUME NEW T, NEW s \in Seq(T), Distinct(s), NEW e
  PROVE  LET r == RemoveFirst(s, e) IN
         /\ r \in Seq(T) /\ Distinct(r) /\ Range(r) = Range(s) \ {e}
         /\ e \notin Range(s) => r = s
         /\ e \in Range(s) => Len(r) = Len(s) - 1
         /\ \A i, j \in DOMAIN r : i < j =>
              \E a, b \in DOMAIN s : a < b /\ r[i] = s[a] /\ r[j] = s[b]
<1> DEFINE r == RemoveFirst(s, e)
<1>1. CASE e \notin Range(s)
  <2>1. r = s
    BY <1>1 DEF RemoveFirst, Range
  <2>2. Range(s) \ {e} = Range(s)
    BY <1>1
  <2>3. \A i, j \in DOMAIN r : i < j =>
          \E a, b \in DOMAIN s : a < b /\ r[i] = s[a] /\ r[j] = s[b]
    BY <2>1
  <2> HIDE DEF r
  <2> QED BY <1>1, <2>1, <2>2, <2>3 DEF r
<1>2. CASE e \in Range(s)
  <2> DEFINE I == {i \in 1..Len(s) : s[i] = e}
             n == Min(I)
  <2>1. I \in SUBSET Nat /\ I # {}
    BY <1>2 DEF Range
  <2>2. n \in I
    BY <2>1, LeastNat
  <2>3. n \in 1..Len(s) /\ s[n] = e
    BY <2>2
  <2>4. r = SubSeq(s, 1, n - 1) \o SubSeq(s, n + 1, Len(s))
    <3>1. \E i \in 1..Len(s) : s[i] = e
      BY <2>3
    <3>2. SelectInSeq(s, LAMBDA v : v = e) = n
      BY <2>1 DEF SelectInSeq
    <3> QED BY <3>1, <3>2 DEF RemoveFirst, RemoveAt
  <2> HIDE DEF n, I, r
  <2>5. /\ r \in Seq(T) /\ Len(r) = Len(s) - 1
        /\ \A i \in 1..Len(r) : r[i] = IF i < n THEN s[i] ELSE s[i + 1]
    <3> DEFINE a == SubSeq(s, 1, n - 1)
               b == SubSeq(s, n + 1, Len(s))
    <3>1. a \in Seq(T) /\ Len(a) = n - 1 /\ \A i \in 1..n - 1 : a[i] = s[i]
      BY <2>3
    <3>2. /\ b \in Seq(T) /\ Len(b) = Len(s) - n
          /\ \A i \in 1..Len(s) - n : b[i] = s[n + i]
      BY <2>3
    <3>3. r = a \o b
      BY <2>4
    <3> HIDE DEF a, b
    <3>4. /\ r \in Seq(T) /\ Len(r) = Len(a) + Len(b)
          /\ \A i \in 1..Len(a) + Len(b) : r[i] = IF i <= Len(a) THEN a[i] ELSE b[i - Len(a)]
      BY <3>1, <3>2, <3>3, ConcatProperties
    <3>5. ASSUME NEW i \in 1..Len(r) PROVE r[i] = IF i < n THEN s[i] ELSE s[i + 1]
      <4>1. CASE i < n
        BY ONLY <4>1, <2>3, <3>1, <3>2, <3>4
      <4>2. CASE i >= n
        <5>1. i - (n - 1) \in 1..Len(s) - n /\ n + (i - (n - 1)) = i + 1
          BY <4>2, <2>3, <3>1, <3>2, <3>4
        <5>2. b[i - (n - 1)] = s[i + 1]
          BY <5>1, <3>2
        <5> QED BY <4>2, <5>1, <5>2, <2>3, <3>1, <3>2, <3>4
      <4> QED BY <4>1, <4>2, <2>3
    <3> QED BY <2>3, <3>1, <3>2, <3>4, <3>5
  <2>6. DOMAIN r = 1..Len(s) - 1 /\ DOMAIN s = 1..Len(s)
    BY <2>5
  <2>7. Distinct(r)
    BY SMTT(30), <2>3, <2>5, <2>6 DEF Distinct
  <2>8. Range(r) = Range(s) \ {e}
    <3>1. ASSUME NEW x \in Range(r) PROVE x \in Range(s) \ {e}
      <4>1. PICK i \in 1..Len(s) - 1 : x = r[i]
        BY <2>6 DEF Range
      <4>2. PICK j \in 1..Len(s) : x = s[j] /\ j # n
        BY <4>1, <2>3, <2>5, <2>6
      <4> QED BY <4>2, <2>3, <2>6 DEF Range, Distinct
    <3>2. ASSUME NEW x \in Range(s) \ {e} PROVE x \in Range(r)
      <4>1. PICK i \in 1..Len(s) : x = s[i]
        BY <2>6 DEF Range
      <4>2. i # n
        BY <4>1, <2>3
      <4>3. CASE i < n
        BY ONLY <4>1, <4>3, <2>3, <2>5, <2>6 DEF Range
      <4>4. CASE i > n
        <5>1. i - 1 \in 1..Len(s) - 1 /\ r[i - 1] = s[i]
          BY <4>4, <2>3, <2>5
        <5> QED BY <5>1, <4>1, <2>6 DEF Range
      <4> QED BY <4>2, <4>3, <4>4, <2>3
    <3> QED BY <3>1, <3>2
  <2>9. ASSUME NEW i \in DOMAIN r, NEW j \in DOMAIN r, i < j
        PROVE  \E a, b \in DOMAIN s : a < b /\ r[i] = s[a] /\ r[j] = s[b]
    <3> DEFINE up(m) == IF m < n THEN m ELSE m + 1
    <3>1. /\ up(i) \in DOMAIN s /\ up(j) \in DOMAIN s /\ up(i) < up(j)
          /\ r[i] = s[up(i)] /\ r[j] = s[up(j)]
      BY <2>3, <2>5, <2>6, <2>9
    <3> HIDE DEF up
    <3> QED BY <3>1
  <2> QED BY <1>2, <2>5, <2>7, <2>8, <2>9 DEF r
<1> QED BY <1>1, <1>2

LEMMA RemoveHead ==
  ASSUME NEW T, NEW s \in Seq(T), s # <<>>
  PROVE  RemoveFirst(s, Head(s)) = Tail(s)
<1> DEFINE I == {i \in 1..Len(s) : s[i] = Head(s)}
<1>1. 1 \in I /\ I \in SUBSET Nat
  OBVIOUS
<1>2. Min(I) = 1
  <2>1. Min(I) \in I /\ Min(I) <= 1
    BY <1>1, LeastNat
  <2> HIDE DEF I
  <2>2. Min(I) \in 1..Len(s)
    BY <2>1 DEF I
  <2> QED BY <2>1, <2>2
<1>3. SelectInSeq(s, LAMBDA v : v = Head(s)) = 1
  BY <1>1, <1>2 DEF SelectInSeq
<1>4. \E i \in 1..Len(s) : s[i] = Head(s)
  BY <1>1
<1>5. RemoveFirst(s, Head(s)) = SubSeq(s, 1, 1 - 1) \o SubSeq(s, 1 + 1, Len(s))
  BY <1>3, <1>4 DEF RemoveFirst, RemoveAt
<1>6. SubSeq(s, 1, 1 - 1) = <<>> /\ SubSeq(s, 1 + 1, Len(s)) = Tail(s) /\ Tail(s) \in Seq(T)
  <2>1. SubSeq(s, 1, 0) = <<>> /\ 1 - 1 = 0 /\ 1 + 1 = 2
    BY SubSeqEmpty
  <2>2. SubSeq(s, 2, Len(s)) = Tail(s) /\ Tail(s) \in Seq(T)
    BY TailIsSubSeq
  <2> QED BY <2>1, <2>2
<1> QED BY <1>5, <1>6, ConcatEmptySeq

-----------------------------------------------------------------------------
(* Rings                                                                    *)

LEMMA RotateRing ==
  ASSUME NEW T, NEW s \in Seq(T), Distinct(s), s # <<>>
  PROVE  /\ Rotate(s) \in Seq(T) /\ Distinct(Rotate(s))
         /\ Range(Rotate(s)) = Range(s) /\ Len(Rotate(s)) = Len(s)
         /\ Len(s) > 1 => Head(Rotate(s)) = s[2]
         /\ Head(Rotate(s)) \in Range(s)
<1> DEFINE r == Rotate(s)
<1>1. /\ r \in Seq(T) /\ Len(r) = Len(s)
      /\ \A i \in 1..Len(s) - 1 : r[i] = s[i + 1]
      /\ r[Len(s)] = s[1]
  BY DEF Rotate
<1>2. DOMAIN r = 1..Len(s) /\ DOMAIN s = 1..Len(s) /\ Len(s) \in Nat \ {0}
  BY <1>1
<1>0. Len(s) \in Nat /\ Len(s) > 0
  OBVIOUS
<1> HIDE DEF r
<1>3. Distinct(r)
  <2>1. ASSUME NEW i \in 1..Len(s), NEW j \in 1..Len(s), r[i] = r[j] PROVE i = j
    <3> DEFINE on(m) == IF m = Len(s) THEN 1 ELSE m + 1
    <3>1. ASSUME NEW m \in 1..Len(s) PROVE r[m] = s[on(m)] /\ on(m) \in 1..Len(s)
      <4>1. CASE m = Len(s)
        BY <4>1, <1>1, <1>2
      <4>2. CASE m # Len(s)
        <5>1. m \in 1..Len(s) - 1
          BY <4>2, <1>0
        <5> QED BY <5>1, <4>2, <1>1, <1>0
      <4> QED BY <4>1, <4>2
    <3>2. on(i) = on(j)
      <4> HIDE DEF on
      <4> QED BY <2>1, <3>1, <1>2 DEF Distinct
    <3> QED BY <3>2, <1>0
  <2> QED BY <2>1, <1>2 DEF Distinct
<1>4. Range(r) = Range(s)
  <2>1. ASSUME NEW x \in Range(r) PROVE x \in Range(s)
    <3>1. PICK i \in 1..Len(s) : x = r[i]
      BY <1>2 DEF Range
    <3>2. CASE i = Len(s)
      BY <3>1, <3>2, <1>1, <1>2 DEF Range
    <3>3. CASE i # Len(s)
      <4>1. i + 1 \in 1..Len(s) /\ i \in 1..Len(s) - 1
        BY <3>3, <1>0
      <4>2. x = s[i + 1]
        BY <4>1, <3>1, <1>1
      <4> QED BY <4>1, <4>2, <1>2 DEF Range
    <3> QED BY <3>2, <3>3
  <2>2. ASSUME NEW x \in Range(s) PROVE x \in Range(r)
    <3>1. PICK i \in 1..Len(s) : x = s[i]
      BY <1>2 DEF Range
    <3>2. CASE i = 1
      BY <3>1, <3>2, <1>1, <1>2 DEF Range
    <3>3. CASE i # 1
      <4>1. i - 1 \in 1..Len(s) /\ x = r[i - 1]
        BY <3>1, <3>3, <1>1, <1>2
      <4> QED BY <4>1, <1>2 DEF Range
    <3> QED BY <3>2, <3>3
  <2> QED BY <2>1, <2>2
<1>5. Head(r) = r[1] /\ (Len(s) > 1 => r[1] = s[2]) /\ r[1] \in Range(r)
  BY <1>1, <1>2 DEF Range
<1> QED BY <1>1, <1>3, <1>4, <1>5 DEF r

LEMMA NextEntryRing ==
  ASSUME NEW T, NEW s \in Seq(T), Distinct(s), Len(s) > 1
  PROVE  /\ NextEntry(s) \in Seq(T) /\ Distinct(NextEntry(s))
         /\ Range(NextEntry(s)) = Range(s) /\ Len(NextEntry(s)) = Len(s)
         /\ Head(NextEntry(s)) \in Range(s) \ {END}
<1> DEFINE r == Rotate(s)
<1>1. /\ r \in Seq(T) /\ Distinct(r) /\ Range(r) = Range(s) /\ Len(r) = Len(s)
      /\ Head(r) \in Range(s)
  BY RotateRing
<1> HIDE DEF r
<1>2. CASE Head(r) = END
  <2>1. NextEntry(s) = Rotate(r)
    BY <1>2 DEF NextEntry, r
  <2>2. /\ Rotate(r) \in Seq(T) /\ Distinct(Rotate(r)) /\ Range(Rotate(r)) = Range(r)
        /\ Len(Rotate(r)) = Len(r) /\ Head(Rotate(r)) = r[2] /\ Head(Rotate(r)) \in Range(r)
    BY <1>1, RotateRing
  <2>3. r[2] # r[1] /\ Head(r) = r[1]
    BY <1>1 DEF Distinct
  <2> QED BY <1>1, <1>2, <2>1, <2>2, <2>3
<1>3. CASE Head(r) # END
  <2>1. NextEntry(s) = r
    BY <1>3 DEF NextEntry, r
  <2> QED BY <1>1, <1>3, <2>1
<1> QED BY <1>2, <1>3

LEMMA UnlinkRing ==
  ASSUME NEW T, NEW s \in Seq(T), Distinct(s), Len(s) > 1, NEW e \in Range(s)
  PROVE  /\ Unlink(s, e) \in Seq(T) /\ Distinct(Unlink(s, e))
         /\ Range(Unlink(s, e)) = Range(s) \ {e} /\ Len(Unlink(s, e)) = Len(s) - 1
<1>1. CASE Head(s) # e
  BY <1>1, RemoveList DEF Unlink
<1>2. CASE Head(s) = e
  <2> DEFINE f == Front(Tail(s))
             r == <<Last(s)>> \o f
  <2>0. Len(s) \in Nat /\ DOMAIN s = 1..Len(s)
    OBVIOUS
  <2>1. f \in Seq(T) /\ Len(f) = Len(s) - 2 /\ \A i \in 1..Len(s) - 2 : f[i] = s[i + 1]
    BY <2>0 DEF Front
  <2>2. <<Last(s)>> \in Seq(T) /\ Last(s) = s[Len(s)]
    BY <2>0 DEF Last
  <2> HIDE DEF f
  <2>3. /\ r \in Seq(T) /\ Len(r) = Len(s) - 1
        /\ r[1] = s[Len(s)]
        /\ \A i \in 2..Len(s) - 1 : r[i] = s[i]
    <3>1. /\ r \in Seq(T) /\ Len(r) = 1 + Len(f)
          /\ \A i \in 1..1 + Len(f) : r[i] = IF i <= 1 THEN <<Last(s)>>[i] ELSE f[i - 1]
      BY <2>1, <2>2, ConcatProperties
    <3>2. ASSUME NEW i \in 2..Len(s) - 1 PROVE r[i] = s[i]
      <4>1. i - 1 \in 1..Len(s) - 2 /\ (i - 1) + 1 = i
        BY <2>0
      <4>2. f[i - 1] = s[i]
        BY <2>1, <4>1
      <4> QED BY <4>1, <4>2, <3>1, <2>1, <2>0
    <3> HIDE DEF r
    <3> QED BY <3>1, <3>2, <2>0, <2>1, <2>2
  <2>4. Unlink(s, e) = r
    BY <1>2 DEF Unlink, f
  <2> HIDE DEF r
  <2>5. DOMAIN r = 1..Len(s) - 1
    BY <2>3
  <2> DEFINE old(i) == IF i = 1 THEN Len(s) ELSE i
  <2>6. \A i \in 1..Len(s) - 1 : r[i] = s[old(i)] /\ old(i) \in 2..Len(s)
    BY <2>0, <2>3
  <2>7. \A i, j \in 1..Len(s) - 1 : old(i) = old(j) => i = j
    BY <2>0
  <2>8. \A m \in 2..Len(s) : \E i \in 1..Len(s) - 1 : old(i) = m
    <3>1. ASSUME NEW m \in 2..Len(s) PROVE \E i \in 1..Len(s) - 1 : old(i) = m
      <4>1. CASE m = Len(s)
        BY <4>1, <2>0
      <4>2. CASE m # Len(s)
        <5>1. m \in 1..Len(s) - 1 /\ m # 1
          BY <4>2
        <5>2. old(m) = m
          BY <5>1
        <5> HIDE DEF old
        <5> QED BY <5>1, <5>2
      <4> QED BY <4>1, <4>2
    <3> QED BY <3>1
  <2> HIDE DEF old
  <2>9. s[1] = e /\ \A m \in 2..Len(s) : s[m] # e
    BY <1>2, <2>0 DEF Distinct
  <2>10. Distinct(r)
    BY <2>0, <2>5, <2>6, <2>7 DEF Distinct
  <2>11. Range(r) = Range(s) \ {e}
    <3>1. \A x : x \in Range(r) <=> \E m \in 2..Len(s) : x = s[m]
      <4>1. ASSUME NEW x \in Range(r) PROVE \E m \in 2..Len(s) : x = s[m]
        BY <2>5, <2>6 DEF Range
      <4>2. ASSUME NEW m \in 2..Len(s) PROVE s[m] \in Range(r)
        <5>1. PICK i \in 1..Len(s) - 1 : old(i) = m
          BY <2>8
        <5> QED BY <5>1, <2>5, <2>6 DEF Range
      <4> QED BY <4>1, <4>2
    <3>2. ASSUME NEW x \in Range(s) \ {e} PROVE \E m \in 2..Len(s) : x = s[m]
      <4>1. PICK m \in 1..Len(s) : x = s[m]
        BY <2>0 DEF Range
      <4> QED BY <4>1, <2>9, <2>0
    <3>3. \A m \in 2..Len(s) : s[m] \in Range(s) \ {e}
      BY <2>0, <2>9 DEF Range
    <3> QED BY <3>1, <3>2, <3>3
  <2> QED BY <2>3, <2>4, <2>10, <2>11
<1> QED BY <1>1, <1>2

-----------------------------------------------------------------------------
(* Lists in the order of their values                                       *)

LEMMA AheadIs ==
  ASSUME NEW T, NEW s \in Seq(T), NEW value \in [T -> Int], NEW v \in Int
  PROVE  /\ Ahead(s, value, v) \in 0..Len(s)
         /\ \A i \in 1..Len(s) : i <= Ahead(s, value, v) => value[s[i]] <= v
         /\ Ahead(s, value, v) < Len(s) => value[s[Ahead(s, value, v) + 1]] > v
<1> DEFINE later == {i \in DOMAIN s : value[s[i]] > v}
           n == Ahead(s, value, v)
<1>1. \A i \in 1..Len(s) : s[i] \in T /\ value[s[i]] \in Int
  OBVIOUS
<1>2. CASE later = {}
  <2>1. n = Len(s)
    BY <1>2 DEF Ahead
  <2>2. \A i \in 1..Len(s) : value[s[i]] <= v
    BY <1>1, <1>2
  <2> HIDE DEF n
  <2> QED BY <2>1, <2>2 DEF n
<1>3. CASE later # {}
  <2>1. later \in SUBSET Nat
    OBVIOUS
  <2>2. Min(later) \in later /\ \A y \in later : Min(later) <= y
    BY <1>3, <2>1, LeastNat
  <2>3. n = Min(later) - 1
    BY <1>3 DEF Ahead
  <2>4. \A i \in 1..Len(s) : i \in later <=> value[s[i]] > v
    OBVIOUS
  <2>5. Min(later) \in 1..Len(s)
    BY <2>2
  <2> HIDE DEF n, later
  <2>6. n \in 0..Len(s) /\ n + 1 \in later
    BY <2>2, <2>3, <2>5
  <2>7. \A i \in 1..Len(s) : i <= n => value[s[i]] <= v
    BY <1>1, <2>2, <2>3, <2>4, <2>5
  <2>8. n < Len(s) => value[s[n + 1]] > v
    BY <2>3, <2>4, <2>5, <2>6
  <2> QED BY <2>6, <2>7, <2>8 DEF n
<1> QED BY <1>2, <1>3

LEMMA AheadInOrder ==
  ASSUME NEW T, NEW s \in Seq(T), NEW value \in [T -> Int], NEW v \in Int, Sorted(s, value),
         NEW i \in 1..Len(s)
  PROVE  i <= Ahead(s, value, v) <=> value[s[i]] <= v
<1> DEFINE n == Ahead(s, value, v)
<1>1. /\ n \in 0..Len(s) /\ (i <= n => value[s[i]] <= v)
      /\ n < Len(s) => value[s[n + 1]] > v
  BY AheadIs
<1> HIDE DEF n
<1>2. ASSUME i > n PROVE value[s[i]] > v
  <2>1. n + 1 \in 1..Len(s) /\ n < Len(s) /\ (n + 1 = i \/ n + 1 < i)
    BY <1>1, <1>2
  <2>2. value[s[n + 1]] <= value[s[i]]
    BY <2>1 DEF Sorted
  <2>3. value[s[i]] \in Int /\ value[s[n + 1]] \in Int
    BY <2>1
  <2> QED BY <1>1, <2>1, <2>2, <2>3
<1>3. value[s[i]] \in Int
  OBVIOUS
<1> QED BY <1>1, <1>2, <1>3 DEF n

LEMMA InsertList ==
  ASSUME NEW T, NEW s \in Seq(T), Distinct(s), NEW e \in T, e \notin Range(s),
         NEW value \in [T -> Int], Sorted(s, value)
  PROVE  LET r == Insert(s, value, e) IN
         /\ r \in Seq(T) /\ Distinct(r) /\ Range(r) = Range(s) \cup {e}
         /\ Len(r) = Len(s) + 1 /\ Sorted(r, value)
<1> DEFINE n == Ahead(s, value, value[e])
           a == SubSeq(s, 1, n)
           b == SubSeq(s, n + 1, Len(s))
           r == Insert(s, value, e)
<1>0. Len(s) \in Nat /\ value[e] \in Int /\ DOMAIN s = 1..Len(s)
  OBVIOUS
<1>1. n \in 0..Len(s) /\ \A i \in 1..Len(s) : i <= n <=> value[s[i]] <= value[e]
  BY AheadIs, AheadInOrder
<1>2. r = a \o <<e>> \o b
  <2>1. r = SubSeq(s, 1, (n + 1) - 1) \o <<e>> \o b
    BY DEF Insert, InsertAt
  <2>2. (n + 1) - 1 = n
    BY <1>1
  <2> QED BY <2>1, <2>2
<1> HIDE DEF n
<1>3. /\ a \in Seq(T) /\ Len(a) = n /\ \A i \in 1..n : a[i] = s[i]
      /\ b \in Seq(T) /\ Len(b) = Len(s) - n /\ \A i \in 1..Len(s) - n : b[i] = s[n + i]
  <2>0. n \in Int /\ 1 \in Int /\ n + 1 \in Int /\ Len(s) \in Int
    BY <1>0, <1>1
  <2>1. \A i \in 1..n : s[i] \in T
    BY <1>0, <1>1
  <2>7. \A i \in (n + 1)..Len(s) : s[i] \in T
    BY <1>0, <1>1
  <2>2. /\ a \in Seq(T) /\ Len(a) = IF 1 <= n THEN n - 1 + 1 ELSE 0
        /\ \A i \in 1..n - 1 + 1 : a[i] = s[1 + i - 1]
    BY <2>0, <2>1, SubSeqProperties
  <2>8. \A m \in Int : (\A i \in m..Len(s) : s[i] \in T) =>
           LET d == SubSeq(s, m, Len(s)) IN
           /\ d \in Seq(T) /\ Len(d) = IF m <= Len(s) THEN Len(s) - m + 1 ELSE 0
           /\ \A i \in 1..Len(s) - m + 1 : d[i] = s[m + i - 1]
    BY <2>0, SubSeqProperties
  <2>3. /\ b \in Seq(T) /\ Len(b) = IF n + 1 <= Len(s) THEN Len(s) - (n + 1) + 1 ELSE 0
        /\ \A i \in 1..Len(s) - (n + 1) + 1 : b[i] = s[(n + 1) + i - 1]
    BY <2>0, <2>7, <2>8
  <2> HIDE DEF a, b
  <2>4. Len(a) = n /\ Len(b) = Len(s) - n
    <3>0. n \in Nat /\ n <= Len(s) /\ Len(s) \in Nat
      BY <1>0, <1>1
    <3>1. Len(a) = IF 1 <= n THEN n - 1 + 1 ELSE 0
      BY <2>2
    <3>2. Len(b) = IF n + 1 <= Len(s) THEN Len(s) - (n + 1) + 1 ELSE 0
      BY <2>3
    <3>3. Len(a) = n
      BY <3>0, <3>1
    <3>4. (IF n + 1 <= Len(s) THEN Len(s) - (n + 1) + 1 ELSE 0) = Len(s) - n
      BY <3>0
    <3> QED BY <3>2, <3>3, <3>4
  <2>5. ASSUME NEW i \in 1..n PROVE a[i] = s[i]
    <3>1. i \in 1..n - 1 + 1 /\ 1 + i - 1 = i
      BY <1>1
    <3> QED BY <3>1, <2>2
  <2>6. ASSUME NEW i \in 1..Len(s) - n PROVE b[i] = s[n + i]
    <3>1. i \in 1..Len(s) - (n + 1) + 1 /\ (n + 1) + i - 1 = n + i
      BY <1>0, <1>1
    <3> QED BY <3>1, <2>3
  <2> QED BY <2>2, <2>3, <2>4, <2>5, <2>6
<1> HIDE DEF a, b, r
<1>4. r \in Seq(T) /\ Len(r) = Len(s) + 1
  BY <1>0, <1>1, <1>2, <1>3
<1>5. ASSUME NEW i \in 1..Len(s) + 1
      PROVE  r[i] = IF i <= n THEN s[i] ELSE IF i = n + 1 THEN e ELSE s[i - 1]
  <2> DEFINE ae == a \o <<e>>
  <2>1. /\ ae \in Seq(T) /\ Len(ae) = n + 1
        /\ \A j \in 1..n + 1 : ae[j] = IF j <= n THEN s[j] ELSE e
    BY SMTT(30), <1>1, <1>3
  <2> HIDE DEF ae
  <2>2. r = ae \o b
    BY <1>2 DEF ae
  <2>3. \A j \in 1..Len(ae) + Len(b) : r[j] = IF j <= Len(ae) THEN ae[j] ELSE b[j - Len(ae)]
    BY ZenonT(30), <1>3, <2>1, <2>2, ConcatProperties
  <2>4. CASE i <= n + 1
    <3>1. i \in 1..Len(ae) + Len(b) /\ i <= Len(ae) /\ i \in 1..n + 1
      BY <2>4, <2>1, <1>0, <1>1, <1>3
    <3>2. r[i] = ae[i]
      BY <3>1, <2>3
    <3>3. i <= n \/ i = n + 1
      BY <2>4, <1>1
    <3> QED BY <3>1, <3>2, <3>3, <2>1, <1>1
  <2>5. CASE i > n + 1
    <3>1. i - (n + 1) \in 1..Len(s) - n /\ n + (i - (n + 1)) = i - 1
      BY <2>5, <1>0, <1>1
    <3>2. b[i - (n + 1)] = s[i - 1]
      BY <3>1, <1>3
    <3>3. i \in 1..Len(ae) + Len(b) /\ ~(i <= Len(ae)) /\ i - Len(ae) = i - (n + 1)
      BY <2>5, <2>1, <1>0, <1>1, <1>3
    <3>4. r[i] = b[i - (n + 1)]
      BY <3>3, <2>3
    <3>5. ~(i <= n) /\ i # n + 1
      BY <2>5, <1>1
    <3> QED BY <3>2, <3>4, <3>5
  <2> QED BY <2>4, <2>5, <1>0, <1>1
<1> DEFINE old(i) == IF i <= n THEN i ELSE i - 1
<1>6. ASSUME NEW i \in 1..Len(s) + 1, i # n + 1
      PROVE  old(i) \in 1..Len(s) /\ r[i] = s[old(i)] /\ (i <= n <=> old(i) <= n)
  BY <1>6, <1>5, <1>0, <1>1
<1>7. r[n + 1] = e
  BY <1>5, <1>0, <1>1
<1>8. DOMAIN r = 1..Len(s) + 1
  BY <1>4
<1>9. ASSUME NEW m \in 1..Len(s) PROVE \E i \in 1..Len(s) + 1 : r[i] = s[m]
  <2>1. CASE m <= n
    BY <2>1, <1>5, <1>0, <1>1
  <2>2. CASE m > n
    <3>1. m + 1 \in 1..Len(s) + 1 /\ ~(m + 1 <= n) /\ m + 1 # n + 1 /\ (m + 1) - 1 = m
      BY <2>2, <1>0, <1>1
    <3>2. r[m + 1] = s[m]
      BY <3>1, <1>5
    <3> QED BY <3>1, <3>2
  <2> QED BY <2>1, <2>2, <1>0, <1>1
<1>10. \A m \in 1..Len(s) : s[m] # e
  BY <1>0 DEF Range
<1>11. ASSUME NEW i \in 1..Len(s) + 1, NEW j \in 1..Len(s) + 1, i < j
       PROVE  r[i] # r[j] /\ value[r[i]] <= value[r[j]]
  <2>1. CASE i = n + 1
    <3>1. j # n + 1 /\ ~(j <= n)
      BY <2>1, <1>11, <1>1
    <3>2. old(j) \in 1..Len(s) /\ r[j] = s[old(j)] /\ ~(old(j) <= n)
      BY <3>1, <1>6
    <3> HIDE DEF old
    <3>3. value[s[old(j)]] \in Int
      BY <3>2
    <3> QED BY <3>2, <3>3, <2>1, <1>0, <1>1, <1>7, <1>10
  <2>2. CASE j = n + 1
    <3>1. i # n + 1 /\ i <= n
      BY <2>2, <1>11, <1>1
    <3>2. old(i) \in 1..Len(s) /\ r[i] = s[old(i)] /\ old(i) <= n
      BY <3>1, <1>6
    <3> HIDE DEF old
    <3> QED BY <3>2, <2>2, <1>1, <1>7, <1>10
  <2>3. CASE i # n + 1 /\ j # n + 1
    <3>1. old(i) < old(j)
      BY <2>3, <1>11, <1>1, <1>0
    <3>2. /\ old(i) \in 1..Len(s) /\ r[i] = s[old(i)]
          /\ old(j) \in 1..Len(s) /\ r[j] = s[old(j)]
      BY <2>3, <1>6
    <3> HIDE DEF old
    <3> QED BY <3>1, <3>2, <1>0 DEF Sorted, Distinct
  <2> QED BY <2>1, <2>2, <2>3
<1>12. Distinct(r)
  <2>1. ASSUME NEW i \in 1..Len(s) + 1, NEW j \in 1..Len(s) + 1, r[i] = r[j] PROVE i = j
    <3>1. ~(i < j) /\ ~(j < i)
      BY <2>1, <1>11
    <3> QED BY <3>1, <1>0
  <2> QED BY <2>1, <1>8 DEF Distinct
<1>13. Sorted(r, value)
  BY <1>8, <1>11 DEF Sorted
<1>14. Range(r) = Range(s) \cup {e}
  <2>1. ASSUME NEW x \in Range(r) PROVE x \in Range(s) \cup {e}
    <3>1. PICK i \in 1..Len(s) + 1 : x = r[i]
      BY <1>8 DEF Range
    <3>2. CASE i = n + 1
      BY <3>1, <3>2, <1>7
    <3>3. CASE i # n + 1
      <4>1. old(i) \in 1..Len(s) /\ r[i] = s[old(i)]
        BY <3>3, <1>6
      <4> HIDE DEF old
      <4> QED BY <3>1, <4>1, <1>0 DEF Range
    <3> QED BY <3>2, <3>3
  <2>2. ASSUME NEW x \in Range(s) \cup {e} PROVE x \in Range(r)
    <3>1. CASE x = e
      <4>1. n + 1 \in 1..Len(s) + 1
        BY <1>0, <1>1
      <4> QED BY <3>1, <4>1, <1>7, <1>8 DEF Range
    <3>2. CASE x \in Range(s)
      <4>1. PICK m \in 1..Len(s) : x = s[m]
        BY <3>2, <1>0 DEF Range
      <4>2. PICK i \in 1..Len(s) + 1 : r[i] = s[m]
        BY <1>9
      <4> QED BY <4>1, <4>2, <1>8 DEF Range
    <3> QED BY <3>1, <3>2
  <2> QED BY <2>1, <2>2
<1> QED BY <1>4, <1>12, <1>13, <1>14 DEF r

LEMMA SortedRemove ==
  ASSUME NEW T, NEW s \in Seq(T), Distinct(s), NEW e, NEW value, NEW new, Sorted(s, value),
         \A x \in Range(s) \ {e} : new[x] = value[x]
  PROVE  Sorted(RemoveFirst(s, e), new)
<1> DEFINE r == RemoveFirst(s, e)
<1>1. /\ r \in Seq(T) /\ Range(r) = Range(s) \ {e}
      /\ \A i, j \in DOMAIN r : i < j =>
           \E a, b \in DOMAIN s : a < b /\ r[i] = s[a] /\ r[j] = s[b]
  BY RemoveList
<1> HIDE DEF r
<1>2. ASSUME NEW i \in DOMAIN r, NEW j \in DOMAIN r, i < j PROVE new[r[i]] <= new[r[j]]
  <2>1. PICK a \in DOMAIN s, b \in DOMAIN s : a < b /\ r[i] = s[a] /\ r[j] = s[b]
    BY <1>1, <1>2
  <2>2. value[r[i]] <= value[r[j]]
    BY <2>1 DEF Sorted
  <2>3. r[i] \in Range(r) /\ r[j] \in Range(r)
    BY DEF Range
  <2> QED BY <2>2, <2>3, <1>1
<1> QED BY <1>2 DEF Sorted, r

-----------------------------------------------------------------------------
(* The kernel's state and where its tasks are                               *)

KernelState ==
  [cur : Task, ready : [Priority -> Seq(Task \cup {END})], top : SUBSET Priority,
   delayed : Seq(Task), overflow : Seq(Task), pending : Seq(Task),
   suspended : Seq(Task), dying : Seq(Task), evl : [EventList -> Seq(Task)],
   prio : [Task -> Priority], base : [Task -> Priority], held : [Task -> Int],
   wake : [Task -> 0..MaxDelay], evval : [Task -> Int], evuse : [Task -> BOOLEAN],
   ns : [Task -> {"none", "waiting", "received"}], nv : [Task -> Nat],
   aborted : [Task -> BOOLEAN], tick : 0..MaxDelay, unblock : 0..MaxDelay,
   ovf : Int, susp : Nat, ypend : BOOLEAN, pended : Nat, ntasks : Int,
   ndying : Int, halted : BOOLEAN]
Fields ==
  {"cur", "ready", "top", "delayed", "overflow", "pending", "suspended", "dying",
   "evl", "prio", "base", "held", "wake", "evval", "evuse", "ns", "nv", "aborted",
   "tick", "unblock", "ovf", "susp", "ypend", "pended", "ntasks", "ndying", "halted"}
(* y differs from x in the fields F at most.                                *)
Same(x, y, F) == \A f \in Fields \ F : y[f] = x[f]

Places == {"ready", "delayed", "overflow", "suspended", "dying", "none"}

(* Every task is in the list at says and in no other, a ready one in the    *)
(* list of its priority pr; delayed tasks are in the order of their times.  *)
InPlace(list, at, place) ==
  Distinct(list) /\ Range(list) = {t \in Task : at[t] = place}
Listed(x, at, pr) ==
  /\ at \in [Task -> Places]
  /\ \A p \in Priority :
       /\ Distinct(x.ready[p])
       /\ Range(x.ready[p]) = {END} \cup {t \in Task : at[t] = "ready" /\ pr[t] = p}
  /\ InPlace(x.delayed, at, "delayed") /\ InPlace(x.overflow, at, "overflow")
  /\ InPlace(x.suspended, at, "suspended") /\ InPlace(x.dying, at, "dying")
  /\ Sorted(x.delayed, x.wake) /\ Sorted(x.overflow, x.wake)
(* The bits of the ready priorities are exact.                              *)
Bits(x, at) ==
  \A p \in Priority : p \in x.top <=> \E t \in Task : at[t] = "ready" /\ x.prio[t] = p
(* The time of a task in the delayed list is still to come, and the cached  *)
(* time is not later.                                                       *)
InTime(x, at) ==
  \A t \in Task : at[t] = "delayed" => x.tick < x.wake[t] /\ x.unblock <= x.wake[t]
Shape(x, at) ==
  /\ x \in KernelState /\ Listed(x, at, x.prio) /\ Bits(x, at)
  /\ Distinct(x.pending) /\ \A l \in EventList : x.evl[l] = <<>>
  /\ x.base = x.prio /\ at[Idle] = "ready" /\ ~x.halted
Sound(x, at) == Shape(x, at) /\ InTime(x, at)

LEMMA Numbers ==
  /\ Priority \in SUBSET Nat /\ 0 \in Priority /\ MaxDelay \in Nat \ {0}
  /\ TickMod \in Nat \ {0, 1} /\ MaxDelay = TickMod - 1 /\ Idle \in Task /\ END \notin Task
BY KernelAssumption DEF Priority, MaxDelay
LEMMA Compared == \A p, q \in Priority : ~(p > q) <=> p <= q
<1> SUFFICES ASSUME NEW p \in Priority, NEW q \in Priority PROVE ~(p > q) <=> p <= q
  OBVIOUS
<1>1. p \in Nat /\ q \in Nat
  BY Numbers
<1> QED BY <1>1

LEMMA AddReadyFields ==
  ASSUME NEW x \in KernelState, NEW t \in Task, NEW y, y = prvAddTaskToReadyList(x, t)
  PROVE  /\ y \in KernelState /\ Same(x, y, {"top", "ready"})
         /\ y.top = x.top \cup {x.prio[t]}
         /\ y.ready = [x.ready EXCEPT ![x.prio[t]] = Append(@, t)]
<1> DEFINE r == [x.ready EXCEPT ![x.prio[t]] = Append(@, t)]
           tp == x.top \cup {x.prio[t]}
<1>1. x.prio[t] \in Priority
  BY DEF KernelState
<1>2. x.ready[x.prio[t]] \in Seq(Task \cup {END})
  BY <1>1 DEF KernelState
<1>3. Append(x.ready[x.prio[t]], t) \in Seq(Task \cup {END})
  BY <1>2
<1>4. r \in [Priority -> Seq(Task \cup {END})]
  BY <1>1, <1>3 DEF KernelState
<1>5. tp \in SUBSET Priority
  BY <1>1 DEF KernelState
<1>6. y = [x EXCEPT !.top = tp, !.ready = r]
  BY DEF prvAddTaskToReadyList, KernelState
<1> HIDE DEF r, tp
<1>7. y \in KernelState
  BY ZenonT(30), <1>4, <1>5, <1>6 DEF KernelState
<1>8. y.top = tp /\ y.ready = r
  BY <1>6 DEF KernelState
<1>9. Same(x, y, {"top", "ready"})
  BY <1>6 DEF KernelState, Same, Fields
<1> QED BY <1>7, <1>8, <1>9 DEF r, tp

(* A task that is in no list becomes ready.                                 *)
LEMMA AddReadyListed ==
  ASSUME NEW x \in KernelState, NEW at, Listed(x, at, x.prio), NEW t \in Task, at[t] = "none",
         NEW y, y = prvAddTaskToReadyList(x, t)
  PROVE  y \in KernelState /\ Listed(y, [at EXCEPT ![t] = "ready"], y.prio)
<1> DEFINE to == [at EXCEPT ![t] = "ready"]
           q == x.prio[t]
<1>1. /\ y \in KernelState /\ Same(x, y, {"top", "ready"})
      /\ y.ready = [x.ready EXCEPT ![q] = Append(@, t)]
  BY AddReadyFields
<1>2. /\ y.prio = x.prio /\ y.delayed = x.delayed /\ y.overflow = x.overflow
      /\ y.suspended = x.suspended /\ y.dying = x.dying /\ y.wake = x.wake
  BY <1>1 DEF Same, Fields
<1>3. q \in Priority /\ x.ready \in [Priority -> Seq(Task \cup {END})] /\ at \in [Task -> Places]
  BY DEF KernelState, Listed
<1>4. to \in [Task -> Places]
  BY <1>3 DEF Places
<1>5. ASSUME NEW p \in Priority
      PROVE  /\ Distinct(y.ready[p])
             /\ Range(y.ready[p]) = {END} \cup {u \in Task : to[u] = "ready" /\ y.prio[u] = p}
  <2>1. /\ Distinct(x.ready[p]) /\ x.ready[p] \in Seq(Task \cup {END})
        /\ Range(x.ready[p]) = {END} \cup {u \in Task : at[u] = "ready" /\ x.prio[u] = p}
    BY <1>3 DEF Listed
  <2>2. CASE p = q
    <3>1. t \notin Range(x.ready[p]) /\ y.ready[p] = Append(x.ready[p], t)
      BY <1>1, <1>3, <2>1, <2>2, Numbers
    <3>2. Distinct(y.ready[p]) /\ Range(y.ready[p]) = Range(x.ready[p]) \cup {t}
      BY <2>1, <3>1, AppendList
    <3> QED BY <1>2, <1>3, <2>1, <2>2, <3>2
  <2>3. CASE p # q
    <3>1. y.ready[p] = x.ready[p]
      BY <1>1, <1>3, <2>3
    <3> QED BY <1>2, <1>3, <2>1, <2>3, <3>1
  <2> QED BY <2>2, <2>3
<1>6. ASSUME NEW place \in {"delayed", "overflow", "suspended", "dying"}
      PROVE  {u \in Task : to[u] = place} = {u \in Task : at[u] = place}
  BY <1>3
<1>7. /\ InPlace(y.delayed, to, "delayed") /\ InPlace(y.overflow, to, "overflow")
      /\ InPlace(y.suspended, to, "suspended") /\ InPlace(y.dying, to, "dying")
  <2> HIDE DEF to
  <2> QED BY <1>2, <1>6 DEF Listed, InPlace
<1> HIDE DEF to
<1> QED BY <1>1, <1>2, <1>4, <1>5, <1>7 DEF Listed, to

LEMMA RemoveFromList ==
  ASSUME NEW at \in [Task -> Places], NEW place \in Places \ {"none"}, NEW list \in Seq(Task),
         InPlace(list, at, place), NEW t \in Task
  PROVE  /\ RemoveFirst(list, t) \in Seq(Task)
         /\ InPlace(RemoveFirst(list, t), [at EXCEPT ![t] = "none"], place)
<1>1. /\ RemoveFirst(list, t) \in Seq(Task) /\ Distinct(RemoveFirst(list, t))
      /\ Range(RemoveFirst(list, t)) = Range(list) \ {t}
  BY RemoveList DEF InPlace
<1> QED BY <1>1 DEF InPlace

LEMMA RemoveStateFields ==
  ASSUME NEW x \in KernelState, NEW t \in Task, NEW y, y = RemoveState(x, t)
  PROVE  /\ Same(x, y, {"ready", "delayed", "overflow", "suspended", "dying", "wake"})
         /\ y.ready = [p \in Priority |->
                         IF Contains(x.ready[p], t) THEN Unlink(x.ready[p], t) ELSE x.ready[p]]
         /\ y.delayed = RemoveFirst(x.delayed, t) /\ y.overflow = RemoveFirst(x.overflow, t)
         /\ y.suspended = RemoveFirst(x.suspended, t) /\ y.dying = RemoveFirst(x.dying, t)
         /\ y.wake = [x.wake EXCEPT ![t] = 0] /\ DOMAIN y = Fields
BY DEF RemoveState, KernelState, Same, Fields

(* A task is taken out of whatever list it is in.                           *)
StateLinks == {"ready", "delayed", "overflow", "suspended", "dying", "wake"}
TakenOut(x, y, at, pr, t) ==
  /\ y \in KernelState /\ Listed(y, [at EXCEPT ![t] = "none"], pr)
  /\ \A p \in Priority : ~(at[t] = "ready" /\ pr[t] = p) => y.ready[p] = x.ready[p]
  /\ \A p \in Priority : at[t] = "ready" /\ pr[t] = p => Len(y.ready[p]) = Len(x.ready[p]) - 1
  /\ at[t] # "dying" => y.dying = x.dying
  /\ at[t] = "dying" => Len(y.dying) = Len(x.dying) - 1
  /\ Same(x, y, StateLinks) /\ y.wake = [x.wake EXCEPT ![t] = 0]
LEMMA RemoveStateListed ==
  ASSUME NEW x \in KernelState, NEW at, NEW pr \in [Task -> Priority], Listed(x, at, pr),
         NEW t \in Task, NEW y, y = RemoveState(x, t)
  PROVE  TakenOut(x, y, at, pr, t)
<1> DEFINE to == [at EXCEPT ![t] = "none"]
<1>1. /\ Same(x, y, {"ready", "delayed", "overflow", "suspended", "dying", "wake"})
      /\ y.ready = [p \in Priority |->
                      IF Contains(x.ready[p], t) THEN Unlink(x.ready[p], t) ELSE x.ready[p]]
      /\ y.delayed = RemoveFirst(x.delayed, t) /\ y.overflow = RemoveFirst(x.overflow, t)
      /\ y.suspended = RemoveFirst(x.suspended, t) /\ y.dying = RemoveFirst(x.dying, t)
      /\ y.wake = [x.wake EXCEPT ![t] = 0] /\ DOMAIN y = Fields
  BY RemoveStateFields
<1>2. /\ x.ready \in [Priority -> Seq(Task \cup {END})] /\ at \in [Task -> Places]
      /\ x.delayed \in Seq(Task) /\ x.overflow \in Seq(Task)
      /\ x.suspended \in Seq(Task) /\ x.dying \in Seq(Task) /\ x.wake \in [Task -> 0..MaxDelay]
  BY DEF KernelState, Listed
<1>3. to \in [Task -> Places]
  BY <1>2 DEF Places
<1>4. ASSUME NEW p \in Priority
      PROVE  /\ y.ready[p] \in Seq(Task \cup {END}) /\ Distinct(y.ready[p])
             /\ Range(y.ready[p]) = {END} \cup {u \in Task : to[u] = "ready" /\ pr[u] = p}
             /\ ~(at[t] = "ready" /\ pr[t] = p) => y.ready[p] = x.ready[p]
             /\ at[t] = "ready" /\ pr[t] = p => Len(y.ready[p]) = Len(x.ready[p]) - 1
  <2>1. /\ Distinct(x.ready[p]) /\ x.ready[p] \in Seq(Task \cup {END})
        /\ Range(x.ready[p]) = {END} \cup {u \in Task : at[u] = "ready" /\ pr[u] = p}
    BY <1>2 DEF Listed
  <2>2. t # END
    BY Numbers
  <2>3. Contains(x.ready[p], t) <=> at[t] = "ready" /\ pr[t] = p
    BY <2>1, <2>2, ContainsIsRange
  <2>4. CASE at[t] = "ready" /\ pr[t] = p
    <3>1. y.ready[p] = Unlink(x.ready[p], t)
      BY <1>1, <2>3, <2>4
    <3>2. Len(x.ready[p]) > 1
      <4>0. END \in Range(x.ready[p]) /\ t \in Range(x.ready[p])
        BY <2>1, <2>4
      <4>1. PICK i \in 1..Len(x.ready[p]), j \in 1..Len(x.ready[p]) :
              x.ready[p][i] = END /\ x.ready[p][j] = t
        BY <2>1, <4>0 DEF Range
      <4>2. Len(x.ready[p]) \in Nat
        BY <2>1
      <4> QED BY <4>1, <4>2, <2>2
    <3>3. /\ y.ready[p] \in Seq(Task \cup {END}) /\ Distinct(y.ready[p])
          /\ Range(y.ready[p]) = Range(x.ready[p]) \ {t}
          /\ Len(y.ready[p]) = Len(x.ready[p]) - 1
      BY <2>1, <2>4, <3>1, <3>2, UnlinkRing
    <3>4. Range(x.ready[p]) \ {t} = {END} \cup {u \in Task : to[u] = "ready" /\ pr[u] = p}
      BY <1>2, <2>1, <2>2
    <3> QED BY <2>4, <3>3, <3>4
  <2>5. CASE ~(at[t] = "ready" /\ pr[t] = p)
    <3>1. y.ready[p] = x.ready[p]
      BY <1>1, <2>3, <2>5
    <3>2. {u \in Task : at[u] = "ready" /\ pr[u] = p} = {u \in Task : to[u] = "ready" /\ pr[u] = p}
      BY <1>2, <2>5
    <3> QED BY <2>1, <2>5, <3>1, <3>2
  <2> QED BY <2>4, <2>5
<1>5. /\ y.delayed \in Seq(Task) /\ InPlace(y.delayed, to, "delayed")
      /\ y.overflow \in Seq(Task) /\ InPlace(y.overflow, to, "overflow")
      /\ y.suspended \in Seq(Task) /\ InPlace(y.suspended, to, "suspended")
      /\ y.dying \in Seq(Task) /\ InPlace(y.dying, to, "dying")
  <2>1. /\ InPlace(x.delayed, at, "delayed") /\ InPlace(x.overflow, at, "overflow")
        /\ InPlace(x.suspended, at, "suspended") /\ InPlace(x.dying, at, "dying")
    BY DEF Listed
  <2>2. \A list \in Seq(Task) : \A place \in {"delayed", "overflow", "suspended", "dying"} :
          InPlace(list, at, place) =>
            RemoveFirst(list, t) \in Seq(Task) /\ InPlace(RemoveFirst(list, t), to, place)
    <3>1. {"delayed", "overflow", "suspended", "dying"} \subseteq Places \ {"none"}
      BY DEF Places
    <3> HIDE DEF Places
    <3> QED BY <1>2, <3>1, RemoveFromList
  <2> HIDE DEF to
  <2>3. y.delayed \in Seq(Task) /\ InPlace(y.delayed, to, "delayed")
    BY <1>1, <1>2, <2>1, <2>2
  <2>4. y.overflow \in Seq(Task) /\ InPlace(y.overflow, to, "overflow")
    BY <1>1, <1>2, <2>1, <2>2
  <2>5. y.suspended \in Seq(Task) /\ InPlace(y.suspended, to, "suspended")
    BY <1>1, <1>2, <2>1, <2>2
  <2>6. y.dying \in Seq(Task) /\ InPlace(y.dying, to, "dying")
    BY <1>1, <1>2, <2>1, <2>2
  <2> QED BY <2>3, <2>4, <2>5, <2>6
<1>6. /\ at[t] # "dying" => y.dying = x.dying
      /\ at[t] = "dying" => Len(y.dying) = Len(x.dying) - 1
  <2>1. t \in Range(x.dying) <=> at[t] = "dying"
    BY DEF Listed, InPlace
  <2> QED BY <1>1, <1>2, <2>1, RemoveList DEF Listed, InPlace
<1>7. \A u \in Task \ {t} : y.wake[u] = x.wake[u]
  BY <1>1, <1>2
<1>8. Sorted(y.delayed, y.wake) /\ Sorted(y.overflow, y.wake)
  <2>1. /\ \A u \in Range(x.delayed) \ {t} : y.wake[u] = x.wake[u]
        /\ \A u \in Range(x.overflow) \ {t} : y.wake[u] = x.wake[u]
    BY <1>7 DEF Listed, InPlace
  <2> QED BY <1>1, <1>2, <2>1, SortedRemove DEF Listed, InPlace
<1>9. y \in KernelState
  <2>1. y.ready \in [Priority -> Seq(Task \cup {END})]
    BY <1>1, <1>4
  <2>2. y.wake \in [Task -> 0..MaxDelay]
    BY <1>1, <1>2, Numbers
  <2> HIDE DEF to
  <2>3. y = [x EXCEPT !.ready = y.ready, !.delayed = y.delayed, !.overflow = y.overflow,
                      !.suspended = y.suspended, !.dying = y.dying, !.wake = y.wake]
    BY DEF RemoveState, KernelState
  <2> QED BY ZenonT(30), <1>5, <2>1, <2>2, <2>3 DEF KernelState
<1> HIDE DEF to
<1>10. Listed(y, to, pr)
  BY <1>3, <1>4, <1>5, <1>8 DEF Listed
<1> QED BY <1>1, <1>4, <1>6, <1>9, <1>10 DEF to, TakenOut, StateLinks

(* The fields that say nothing of lists and times.                          *)
Plain == {"cur", "held", "evval", "evuse", "ns", "nv", "aborted", "ovf", "susp", "ypend",
          "pended", "ntasks", "ndying"}

LEMMA SameLists ==
  ASSUME NEW x, NEW y, NEW F, Same(x, y, F), F \cap StateLinks = {}, NEW at, NEW pr, Listed(x, at, pr)
  PROVE  Listed(y, at, pr)
<1>1. /\ y.ready = x.ready /\ y.delayed = x.delayed /\ y.overflow = x.overflow
      /\ y.suspended = x.suspended /\ y.dying = x.dying /\ y.wake = x.wake
  BY DEF Same, Fields, StateLinks
<1> QED BY <1>1 DEF Listed

LEMMA SameShape ==
  ASSUME NEW x, NEW at, Shape(x, at), NEW y \in KernelState, Same(x, y, Plain \cup {"tick", "unblock"})
  PROVE  Shape(y, at)
<1>1. Listed(y, at, x.prio)
  BY SameLists DEF Shape, Plain, StateLinks
<1>2. /\ y.prio = x.prio /\ y.base = x.base /\ y.top = x.top /\ y.wake = x.wake
      /\ y.pending = x.pending
      /\ y.evl = x.evl /\ y.halted = x.halted
  BY DEF Same, Fields, Plain
<1> QED BY <1>1, <1>2 DEF Shape, Bits

LEMMA SameSound ==
  ASSUME NEW x, NEW at, Sound(x, at), NEW y \in KernelState, Same(x, y, Plain)
  PROVE  Sound(y, at)
<1>1. Same(x, y, Plain \cup {"tick", "unblock"})
  BY DEF Same
<1>2. y.tick = x.tick /\ y.unblock = x.unblock /\ y.wake = x.wake
  BY DEF Same, Fields, Plain
<1> QED BY <1>1, <1>2, SameShape DEF Sound, InTime

LEMMA RemoveEventFields ==
  ASSUME NEW x \in KernelState, Distinct(x.pending), \A l \in EventList : x.evl[l] = <<>>,
         NEW t \in Task, NEW y, y = RemoveEvent(x, t)
  PROVE  /\ y \in KernelState /\ Same(x, y, {"pending"})
         /\ Distinct(y.pending) /\ Range(y.pending) = Range(x.pending) \ {t}
         /\ t \notin Range(x.pending) => y.pending = x.pending
<1>1. \A l \in EventList : RemoveFirst(x.evl[l], t) = x.evl[l]
  <2>1. <<>> \in Seq(Task) /\ Distinct(<<>>) /\ t \notin Range(<<>>)
    BY DEF Distinct, Range
  <2> QED BY <2>1, RemoveList
<1>2. /\ RemoveFirst(x.pending, t) \in Seq(Task) /\ Distinct(RemoveFirst(x.pending, t))
      /\ Range(RemoveFirst(x.pending, t)) = Range(x.pending) \ {t}
      /\ t \notin Range(x.pending) => RemoveFirst(x.pending, t) = x.pending
  <2>1. x.pending \in Seq(Task)
    BY DEF KernelState
  <2> QED BY <2>1, RemoveList
<1>3. y = [x EXCEPT !.pending = RemoveFirst(x.pending, t), !.evl = [l \in EventList |-> RemoveFirst(x.evl[l], t)]]
  BY DEF RemoveEvent, KernelState
<1>4. [l \in EventList |-> RemoveFirst(x.evl[l], t)] = x.evl
  BY <1>1 DEF KernelState
<1>5. y = [x EXCEPT !.pending = RemoveFirst(x.pending, t), !.evl = x.evl]
  BY <1>3, <1>4
<1>6. y.pending = RemoveFirst(x.pending, t)
  BY <1>5 DEF KernelState
<1>7. y \in KernelState
  <2> DEFINE r == RemoveFirst(x.pending, t)
  <2>1. r \in Seq(Task) /\ x.evl \in [EventList -> Seq(Task)]
    BY <1>2 DEF KernelState
  <2>2. y = [x EXCEPT !.pending = r, !.evl = x.evl]
    BY <1>5
  <2> HIDE DEF r
  <2> QED BY ZenonT(30), <2>1, <2>2 DEF KernelState
<1>8. Same(x, y, {"pending"})
  BY <1>5 DEF KernelState, Same, Fields
<1> QED BY <1>2, <1>6, <1>7, <1>8

LEMMA RemoveEventShape ==
  ASSUME NEW x, NEW at, Shape(x, at), NEW t \in Task, NEW y, y = RemoveEvent(x, t)
  PROVE  /\ Shape(y, at) /\ Same(x, y, {"pending"})
         /\ Range(y.pending) = Range(x.pending) \ {t}
         /\ t \notin Range(x.pending) => y.pending = x.pending
<1>1. /\ y \in KernelState /\ Same(x, y, {"pending"})
      /\ Distinct(y.pending) /\ Range(y.pending) = Range(x.pending) \ {t}
      /\ t \notin Range(x.pending) => y.pending = x.pending
  BY RemoveEventFields DEF Shape
<1>2. Listed(y, at, x.prio)
  BY <1>1, SameLists DEF Shape, StateLinks
<1>3. /\ y.prio = x.prio /\ y.base = x.base /\ y.top = x.top /\ y.wake = x.wake
      /\ y.tick = x.tick /\ y.unblock = x.unblock
      /\ y.evl = x.evl /\ y.halted = x.halted
  BY <1>1 DEF Same, Fields
<1> QED BY <1>1, <1>2, <1>3 DEF Shape, Bits

LEMMA RingLength ==
  ASSUME NEW s \in Seq(Task \cup {END}), Distinct(s), END \in Range(s)
  PROVE  /\ Len(s) \in Nat \ {0}
         /\ Len(s) > 1 <=> \E u \in Range(s) : u # END
<1>1. Len(s) \in Nat /\ DOMAIN s = 1..Len(s)
  OBVIOUS
<1>2. PICK i \in 1..Len(s) : s[i] = END
  BY <1>1 DEF Range
<1>3. ASSUME Len(s) > 1 PROVE \E u \in Range(s) : u # END
  <2>1. PICK j \in 1..Len(s) : j # i
    <3>1. 1 \in 1..Len(s) /\ 2 \in 1..Len(s)
      BY <1>1, <1>3
    <3> QED BY <3>1
  <2> QED BY <1>1, <1>2, <2>1 DEF Distinct, Range
<1>4. ASSUME NEW u \in Range(s), u # END PROVE Len(s) > 1
  <2>1. PICK j \in 1..Len(s) : s[j] = u
    BY <1>1 DEF Range
  <2> QED BY <1>1, <1>2, <1>4, <2>1
<1> QED BY <1>1, <1>2, <1>3, <1>4

LEMMA ReadyLength ==
  ASSUME NEW x \in KernelState, NEW at, NEW pr, Listed(x, at, pr), NEW p \in Priority
  PROVE  /\ Len(x.ready[p]) \in Nat \ {0}
         /\ Length(x.ready[p]) > 0 <=> \E t \in Task : at[t] = "ready" /\ pr[t] = p
         /\ \A t \in Task : Contains(x.ready[p], t) <=> at[t] = "ready" /\ pr[t] = p
<1>1. /\ x.ready[p] \in Seq(Task \cup {END}) /\ Distinct(x.ready[p])
      /\ Range(x.ready[p]) = {END} \cup {t \in Task : at[t] = "ready" /\ pr[t] = p}
  BY DEF KernelState, Listed
<1>2. END \notin Task
  BY Numbers
<1>3. /\ Len(x.ready[p]) \in Nat \ {0}
      /\ Len(x.ready[p]) > 1 <=> \E u \in Range(x.ready[p]) : u # END
  BY <1>1, RingLength
<1>4. (\E u \in Range(x.ready[p]) : u # END) <=> \E t \in Task : at[t] = "ready" /\ pr[t] = p
  BY <1>1, <1>2
<1>5. Length(x.ready[p]) > 0 <=> Len(x.ready[p]) > 1
  BY <1>3 DEF Length
<1> QED BY <1>1, <1>2, <1>3, <1>4, <1>5, ContainsIsRange

(* A task goes from whatever list it is in to the ready list.               *)
MadeReady(x, y, at, t) ==
  /\ Shape(y, [at EXCEPT ![t] = "ready"]) /\ Same(x, y, StateLinks \cup {"top"})
  /\ at[t] # "dying" => y.dying = x.dying
  /\ \A u \in Task \ {t} : y.wake[u] = x.wake[u]
LEMMA Readied ==
  ASSUME NEW x, NEW at, Shape(x, at), NEW t \in Task,
         NEW y, y = prvAddTaskToReadyList(RemoveState(x, t), t)
  PROVE  MadeReady(x, y, at, t)
<1> DEFINE out == [at EXCEPT ![t] = "none"]
           to == [at EXCEPT ![t] = "ready"]
<1>0. PICK z : z = RemoveState(x, t)
  OBVIOUS
<1>1. x \in KernelState /\ Listed(x, at, x.prio) /\ x.prio \in [Task -> Priority] /\ at \in [Task -> Places]
  BY DEF Shape, KernelState, Listed
<1>4. TakenOut(x, z, at, x.prio, t)
  BY <1>0, <1>1, RemoveStateListed
<1>2. /\ z \in KernelState /\ Listed(z, out, x.prio)
      /\ at[t] # "dying" => z.dying = x.dying
      /\ Same(x, z, StateLinks) /\ z.wake = [x.wake EXCEPT ![t] = 0]
  BY <1>4 DEF TakenOut
<1>3. z.prio = x.prio /\ z.top = x.top
  BY <1>2 DEF Same, Fields, StateLinks
<1>5. y = prvAddTaskToReadyList(z, t)
  BY <1>0
<1>6. out[t] = "none" /\ [out EXCEPT ![t] = "ready"] = to
  BY <1>1
<1>7. /\ y \in KernelState /\ Listed(y, to, y.prio) /\ Same(z, y, {"top", "ready"})
      /\ y.top = z.top \cup {z.prio[t]}
  <2> HIDE DEF out, to
  <2>1. z \in KernelState /\ Listed(z, out, z.prio)
    BY <1>2, <1>3
  <2>2. y \in KernelState /\ Same(z, y, {"top", "ready"}) /\ y.top = z.top \cup {z.prio[t]}
    BY <1>5, <2>1, AddReadyFields
  <2>3. Listed(y, [out EXCEPT ![t] = "ready"], y.prio)
    BY <1>5, <1>6, <2>1, AddReadyListed
  <2> QED BY <1>6, <2>2, <2>3
<1>8. Same(x, y, StateLinks \cup {"top"})
  BY <1>2, <1>7 DEF Same, Fields, StateLinks
<1>9. y.dying = z.dying /\ y.wake = z.wake
  BY <1>7 DEF Same, Fields
<1>10. \A u \in Task \ {t} : y.wake[u] = x.wake[u]
  BY <1>1, <1>2, <1>9 DEF KernelState
<1>11. y.prio = x.prio /\ y.base = x.base /\ y.tick = x.tick /\ y.unblock = x.unblock
       /\ y.pending = x.pending /\ y.evl = x.evl /\ y.halted = x.halted
  BY <1>8 DEF Same, Fields, StateLinks
<1>12. Bits(y, to)
  <2>1. \A p \in Priority : p \in x.top <=> \E u \in Task : at[u] = "ready" /\ x.prio[u] = p
    BY DEF Shape, Bits
  <2>2. y.top = x.top \cup {x.prio[t]}
    BY <1>3, <1>7
  <2> QED BY <1>1, <1>11, <2>1, <2>2 DEF Bits
<1>14. to[Idle] = "ready"
  BY <1>1, Numbers DEF Shape
<1> HIDE DEF to
<1>15. Shape(y, to)
  BY <1>7, <1>11, <1>12, <1>14 DEF Shape
<1> QED BY <1>2, <1>8, <1>9, <1>10, <1>15 DEF to, MadeReady

(* WakeUp and the step of DrainPending make a task ready that may be in the *)
(* pending list.                                                            *)
Woken(x, y, at, t) ==
  /\ Shape(y, [at EXCEPT ![t] = "ready"]) /\ Same(x, y, StateLinks \cup {"top", "pending"})
  /\ Range(y.pending) = Range(x.pending) \ {t}
  /\ t \notin Range(x.pending) => y.pending = x.pending
  /\ at[t] # "dying" => y.dying = x.dying
  /\ \A u \in Task \ {t} : y.wake[u] = x.wake[u]
LEMMA WokenUp ==
  ASSUME NEW x, NEW at, Shape(x, at), NEW t \in Task, NEW e, e = RemoveEvent(x, t),
         NEW y, y = prvAddTaskToReadyList(RemoveState(e, t), t)
  PROVE  Woken(x, y, at, t)
<1>0. x \in KernelState
  BY DEF Shape
<1>1. /\ Shape(e, at) /\ Same(x, e, {"pending"}) /\ Range(e.pending) = Range(x.pending) \ {t}
      /\ t \notin Range(x.pending) => e.pending = x.pending
  BY RemoveEventShape
<1>2. MadeReady(e, y, at, t)
  BY <1>1, Readied
<1>4. /\ Shape(y, [at EXCEPT ![t] = "ready"]) /\ Same(e, y, StateLinks \cup {"top"})
      /\ at[t] # "dying" => y.dying = e.dying
      /\ \A u \in Task \ {t} : y.wake[u] = e.wake[u]
  BY <1>2 DEF MadeReady
<1>5. e.dying = x.dying /\ e.wake = x.wake
  BY <1>1 DEF Same, Fields
<1>6. y.pending = e.pending
  BY <1>4 DEF Same, Fields, StateLinks
<1>8. Same(x, y, StateLinks \cup {"top", "pending"})
  BY <1>1, <1>4 DEF Same
<1> QED BY <1>1, <1>4, <1>5, <1>6, <1>8 DEF Woken

LEMMA RemovalsCommute ==
  ASSUME NEW x \in KernelState, NEW t \in Task
  PROVE  RemoveEvent(RemoveState(x, t), t) = RemoveState(RemoveEvent(x, t), t)
<1> DEFINE r == [p \in Priority |-> IF Contains(x.ready[p], t) THEN Unlink(x.ready[p], t) ELSE x.ready[p]]
           e == [l \in EventList |-> RemoveFirst(x.evl[l], t)]
           d == RemoveFirst(x.delayed, t)
           o == RemoveFirst(x.overflow, t)
           s == RemoveFirst(x.suspended, t)
           g == RemoveFirst(x.dying, t)
           n == RemoveFirst(x.pending, t)
           w == [x.wake EXCEPT ![t] = 0]
<1>1. RemoveState(x, t) = [x EXCEPT !.ready = r, !.delayed = d, !.overflow = o, !.suspended = s,
                                    !.dying = g, !.wake = w]
  BY DEF RemoveState, KernelState
<1>2. RemoveEvent(x, t) = [x EXCEPT !.pending = n, !.evl = e]
  BY DEF RemoveEvent, KernelState
<1>3. RemoveEvent(RemoveState(x, t), t)
        = [[x EXCEPT !.ready = r, !.delayed = d, !.overflow = o, !.suspended = s,
                     !.dying = g, !.wake = w] EXCEPT !.pending = n, !.evl = e]
  BY <1>1 DEF RemoveEvent, KernelState
<1>4. RemoveState(RemoveEvent(x, t), t)
        = [[x EXCEPT !.pending = n, !.evl = e] EXCEPT !.ready = r, !.delayed = d, !.overflow = o,
                     !.suspended = s, !.dying = g, !.wake = w]
  BY <1>2 DEF RemoveState, KernelState
<1> HIDE DEF r, e, d, o, s, g, n, w
<1>5. x = [f \in Fields |-> x[f]]
  BY DEF KernelState, Fields
<1>6. ASSUME NEW a, a = [x EXCEPT !.ready = r, !.delayed = d, !.overflow = o, !.suspended = s,
                                  !.dying = g, !.wake = w, !.pending = n, !.evl = e],
             NEW b, b = [x EXCEPT !.pending = n, !.evl = e, !.ready = r, !.delayed = d,
                                  !.overflow = o, !.suspended = s, !.dying = g, !.wake = w]
      PROVE  a = b
  <2>1. a = [f \in Fields |-> a[f]] /\ b = [f \in Fields |-> b[f]]
    BY <1>5, <1>6
  <2>2. ASSUME NEW f \in Fields PROVE a[f] = b[f]
    BY <1>5, <1>6, <2>2 DEF Fields
  <2> QED BY <2>1, <2>2
<1> QED BY <1>3, <1>4, <1>6

(* A ready task leaves the list of its priority q with its bit, if it is    *)
(* the last there.                                                          *)
LEMMA TopChanged ==
  ASSUME NEW x \in KernelState, NEW tp \in SUBSET Priority
  PROVE  [x EXCEPT !.top = tp] \in KernelState
BY DEF KernelState

LeftReady(x, y, at, pr, t) ==
  LET to == [at EXCEPT ![t] = "none"] IN
  /\ y \in KernelState /\ Listed(y, to, pr) /\ Same(x, y, StateLinks \cup {"top"})
  /\ \A p \in Priority : p \in y.top <=> \E u \in Task : to[u] = "ready" /\ pr[u] = p
  /\ y.dying = x.dying /\ y.wake = [x.wake EXCEPT ![t] = 0]
LEMMA Unreadied ==
  ASSUME NEW x \in KernelState, NEW at, NEW pr \in [Task -> Priority], Listed(x, at, pr),
         \A p \in Priority : p \in x.top <=> \E u \in Task : at[u] = "ready" /\ pr[u] = p,
         NEW t \in Task, at[t] = "ready", NEW q, q = pr[t], NEW y, y = RemoveAndReset(x, t, q)
  PROVE  LeftReady(x, y, at, pr, t)
<1> DEFINE to == [at EXCEPT ![t] = "none"]
<1>0. PICK z : z = RemoveState(x, t)
  OBVIOUS
<1>1. q \in Priority /\ at \in [Task -> Places]
  BY DEF Listed
<1>9. TakenOut(x, z, at, pr, t)
  BY <1>0, <1>1, RemoveStateListed
<1>2. z \in KernelState /\ Listed(z, to, pr) /\ z.dying = x.dying
      /\ \A p \in Priority : pr[t] = p => Len(z.ready[p]) = Len(x.ready[p]) - 1
  BY <1>9 DEF TakenOut
<1>3. Same(x, z, StateLinks) /\ z.wake = [x.wake EXCEPT ![t] = 0]
  BY <1>9 DEF TakenOut
<1>4. z.top = x.top
  BY <1>3 DEF Same, Fields, StateLinks
<1>5. Alone(x, t) <=> Len(x.ready[q]) = 2
  <2>1. <<t>> \notin {x.delayed, x.overflow, x.suspended, x.dying}
    <3>1. Range(<<t>>) = {t}
      BY DEF Range
    <3> QED BY <3>1 DEF Listed, InPlace
  <2>2. \A p \in Priority : Contains(x.ready[p], t) <=> p = q
    BY <1>1, ReadyLength
  <2>3. Len(x.ready[q]) \in Nat
    BY <1>1, ReadyLength
  <2> QED BY <1>1, <2>1, <2>2, <2>3 DEF Alone, Length
<1>6. Len(x.ready[q]) = 2 <=> ~\E u \in Task : to[u] = "ready" /\ pr[u] = q
  <2>1. Len(x.ready[q]) \in Nat \ {0} /\ Len(z.ready[q]) \in Nat \ {0}
    BY <1>1, <1>2, ReadyLength
  <2>3. Len(z.ready[q]) = Len(x.ready[q]) - 1
    BY <1>1, <1>2
  <2> HIDE DEF to
  <2>2. Len(z.ready[q]) - 1 > 0 <=> \E u \in Task : to[u] = "ready" /\ pr[u] = q
    BY <1>1, <1>2, ReadyLength DEF Length
  <2>4. \A a, b \in Nat \ {0} : b = a - 1 => (a = 2 <=> ~(b - 1 > 0))
    OBVIOUS
  <2> QED BY <2>1, <2>2, <2>3, <2>4
<1>7. CASE Alone(x, t)
  <2>1. y = [z EXCEPT !.top = z.top \ {q}]
    BY <1>0, <1>7 DEF RemoveAndReset, portRESET_READY_PRIORITY
  <2>0. z \in KernelState /\ z.top \ {q} \in SUBSET Priority
    BY <1>2 DEF KernelState
  <2>2. y \in KernelState /\ Same(z, y, {"top"}) /\ y.top = x.top \ {q}
    <3>1. y \in KernelState
      BY <2>0, <2>1, TopChanged
    <3>2. Same(z, y, {"top"}) /\ y.top = z.top \ {q}
      BY <2>0, <2>1 DEF KernelState, Same, Fields
    <3> QED BY <1>4, <3>1, <3>2
  <2>3. Listed(y, to, pr)
    <3> HIDE DEF to
    <3> QED BY <1>2, <2>2, SameLists DEF StateLinks
  <2>4. Same(x, y, StateLinks \cup {"top"})
    BY <1>3, <2>2 DEF Same
  <2>5. y.dying = z.dying /\ y.wake = z.wake
    BY <2>2 DEF Same, Fields
  <2>6. ASSUME NEW p \in Priority PROVE p \in y.top <=> \E u \in Task : to[u] = "ready" /\ pr[u] = p
    <3>1. CASE p = q
      BY <1>5, <1>6, <1>7, <2>2, <3>1
    <3>2. CASE p # q
      BY <1>1, <2>2, <3>2
    <3> QED BY <3>1, <3>2
  <2> QED BY <1>2, <1>3, <2>2, <2>3, <2>4, <2>5, <2>6 DEF LeftReady
<1>8. CASE ~Alone(x, t)
  <2>1. y = z
    BY <1>0, <1>8 DEF RemoveAndReset
  <2>2. ASSUME NEW p \in Priority PROVE p \in z.top <=> \E u \in Task : to[u] = "ready" /\ pr[u] = p
    <3>1. CASE p = q
      BY <1>4, <1>5, <1>6, <1>8, <3>1
    <3>2. CASE p # q
      BY <1>1, <1>4, <3>2
    <3> QED BY <3>1, <3>2
  <2>3. Same(x, y, StateLinks \cup {"top"})
    BY <1>3, <2>1 DEF Same
  <2> QED BY <1>2, <1>3, <2>1, <2>2, <2>3 DEF LeftReady
<1> QED BY <1>7, <1>8

(* What was said of times stays true when only tasks became ready.          *)
LEMMA StillInTime ==
  ASSUME NEW x, NEW at, InTime(x, at), NEW y, NEW to, NEW t \in Task, y.tick = x.tick, y.unblock = x.unblock,
         \A u \in Task : to[u] = "delayed" => at[u] = "delayed" /\ y.wake[u] = x.wake[u]
  PROVE  InTime(y, to)
BY DEF InTime

LEMMA ReadiedSound ==
  ASSUME NEW x, NEW at, Sound(x, at), NEW t \in Task,
         NEW y, y = prvAddTaskToReadyList(RemoveState(x, t), t)
  PROVE  MadeReady(x, y, at, t) /\ Sound(y, [at EXCEPT ![t] = "ready"])
<1>1. MadeReady(x, y, at, t) /\ at \in [Task -> Places]
  BY Readied DEF Sound, Shape, Listed
<1>2. y.tick = x.tick /\ y.unblock = x.unblock
  BY <1>1 DEF MadeReady, Same, Fields, StateLinks
<1>3. InTime(y, [at EXCEPT ![t] = "ready"])
  BY <1>1, <1>2 DEF Sound, InTime, MadeReady
<1> QED BY <1>1, <1>3 DEF Sound, MadeReady

LEMMA WokenUpSound ==
  ASSUME NEW x, NEW at, Sound(x, at), NEW t \in Task, NEW e, e = RemoveEvent(x, t),
         NEW y, y = prvAddTaskToReadyList(RemoveState(e, t), t)
  PROVE  Woken(x, y, at, t) /\ Sound(y, [at EXCEPT ![t] = "ready"])
<1>1. Woken(x, y, at, t) /\ at \in [Task -> Places]
  BY WokenUp DEF Sound, Shape, Listed
<1>2. y.tick = x.tick /\ y.unblock = x.unblock
  BY <1>1 DEF Woken, Same, Fields, StateLinks
<1>3. InTime(y, [at EXCEPT ![t] = "ready"])
  BY <1>1, <1>2 DEF Sound, InTime, Woken
<1> QED BY <1>1, <1>3 DEF Sound, Woken

(* RemoveAndResetIfEmpty: whatever list the task was in.                    *)
Gone(x, y, at, t) ==
  LET to == [at EXCEPT ![t] = "none"] IN
  /\ y \in KernelState /\ Listed(y, to, x.prio) /\ Bits(y, to) /\ Same(x, y, StateLinks \cup {"top"})
  /\ at[t] # "dying" => y.dying = x.dying
  /\ at[t] = "dying" => Len(y.dying) = Len(x.dying) - 1
  /\ y.wake = [x.wake EXCEPT ![t] = 0]
LEMMA GoneFromList ==
  ASSUME NEW x, NEW at, Shape(x, at), NEW t \in Task, NEW y, y = RemoveAndResetIfEmpty(x, t)
  PROVE  Gone(x, y, at, t)
<1> DEFINE to == [at EXCEPT ![t] = "none"]
           q == x.prio[t]
<1>0. PICK z : z = RemoveState(x, t)
  OBVIOUS
<1>1. /\ q \in Priority /\ at \in [Task -> Places] /\ x \in KernelState
      /\ Listed(x, at, x.prio) /\ Bits(x, at) /\ x.prio \in [Task -> Priority]
  BY DEF Shape, Listed, KernelState
<1>2. TakenOut(x, z, at, x.prio, t)
  BY <1>0, <1>1, RemoveStateListed
<1>3. /\ z \in KernelState /\ Listed(z, to, x.prio) /\ Same(x, z, StateLinks)
      /\ at[t] # "dying" => z.dying = x.dying
      /\ at[t] = "dying" => Len(z.dying) = Len(x.dying) - 1
      /\ z.wake = [x.wake EXCEPT ![t] = 0]
      /\ at[t] = "ready" => Len(z.ready[q]) = Len(x.ready[q]) - 1
  BY <1>1, <1>2 DEF TakenOut
<1>4. z.top = x.top /\ z.prio = x.prio
  BY <1>3 DEF Same, Fields, StateLinks
<1>5. Length(z.ready[q]) > 0 <=> \E u \in Task : to[u] = "ready" /\ x.prio[u] = q
  <2> HIDE DEF to
  <2> QED BY <1>1, <1>3, ReadyLength
<1>6. Len(z.ready[q]) \in Nat \ {0} /\ Len(x.ready[q]) \in Nat \ {0}
  <2> HIDE DEF to
  <2> QED BY <1>1, <1>3, ReadyLength
<1>7. \A p \in Priority \ {q} : p \in x.top <=> \E u \in Task : to[u] = "ready" /\ x.prio[u] = p
  BY <1>1 DEF Bits
<1>8. q \in x.top <=> \E u \in Task : at[u] = "ready" /\ x.prio[u] = q
  BY <1>1 DEF Bits
<1>9. CASE Alone(x, t) /\ Length(z.ready[q]) = 0
  <2>1. y = [z EXCEPT !.top = z.top \ {q}]
    BY <1>0, <1>4, <1>9 DEF RemoveAndResetIfEmpty, portRESET_READY_PRIORITY
  <2>2. z.top \ {q} \in SUBSET Priority
    BY <1>3 DEF KernelState
  <2>3. y \in KernelState
    BY <1>3, <2>1, <2>2, TopChanged
  <2>4. Same(z, y, {"top"}) /\ y.top = z.top \ {q}
    BY <1>3, <2>1 DEF KernelState, Same, Fields
  <2>5. Listed(y, to, x.prio)
    <3> HIDE DEF to
    <3> QED BY <1>3, <2>4, SameLists DEF StateLinks
  <2>6. Same(x, y, StateLinks \cup {"top"})
    BY <1>3, <2>4 DEF Same
  <2>7. y.dying = z.dying /\ y.wake = z.wake /\ y.prio = z.prio
    BY <2>4 DEF Same, Fields
  <2>8. ~\E u \in Task : to[u] = "ready" /\ x.prio[u] = q
    BY <1>5, <1>9
  <2>9. Bits(y, to)
    <3> HIDE DEF to
    <3> QED BY <1>1, <1>4, <1>7, <2>4, <2>7, <2>8 DEF Bits
  <2> QED BY <1>3, <2>3, <2>5, <2>6, <2>7, <2>9 DEF Gone
<1>10. CASE ~(Alone(x, t) /\ Length(z.ready[q]) = 0)
  <2>1. y = z
    BY <1>0, <1>10 DEF RemoveAndResetIfEmpty
  <2>2. (\E u \in Task : at[u] = "ready" /\ x.prio[u] = q)
          <=> \E u \in Task : to[u] = "ready" /\ x.prio[u] = q
    <3>1. CASE at[t] = "ready"
      <4>1. Contains(x.ready[q], t)
        BY <1>1, <3>1, ReadyLength
      <4>0. \A a, b \in Nat \ {0} : (b = a - 1 /\ a # 2 => b - 1 > 0) /\ (b - 1 # 0 => b - 1 > 0)
        OBVIOUS
      <4>6. Length(z.ready[q]) = Len(z.ready[q]) - 1
        BY DEF Length
      <4>7. Len(z.ready[q]) = Len(x.ready[q]) - 1
        BY <1>3, <3>1
      <4>2. Len(x.ready[q]) # 2 => Length(z.ready[q]) > 0
        BY <1>6, <4>0, <4>6, <4>7
      <4>3. Len(x.ready[q]) = 2 => Alone(x, t)
        BY <1>1, <4>1 DEF Alone, Length
      <4>4. Length(z.ready[q]) > 0
        BY <1>6, <1>10, <4>0, <4>2, <4>3, <4>6
      <4>5. \E u \in Task : to[u] = "ready" /\ x.prio[u] = q
        BY <1>5, <4>4
      <4> QED BY <1>1, <4>5
    <3>2. CASE at[t] # "ready"
      BY <1>1, <3>2
    <3> QED BY <3>1, <3>2
  <2>3. Bits(y, to)
    <3> HIDE DEF to
    <3> QED BY <1>1, <1>4, <1>7, <1>8, <2>1, <2>2 DEF Bits
  <2>4. Same(x, y, StateLinks \cup {"top"})
    BY <1>3, <2>1 DEF Same
  <2> QED BY <1>3, <2>1, <2>3, <2>4 DEF Gone
<1> QED BY <1>9, <1>10

-----------------------------------------------------------------------------
(* The task that runs                                                       *)

NoneAbove(x, at) == \A t \in Task : at[t] = "ready" => x.prio[t] <= x.prio[x.cur]
Best(x, at) == at[x.cur] = "ready" /\ NoneAbove(x, at)
(* The best task runs, or will when the scheduler is resumed.               *)
Served(x, at) == IF x.susp = 0 THEN Best(x, at) ELSE x.ypend \/ NoneAbove(x, at)
Turn == {"cur", "ready", "ypend"}

LEMMA TopPriority ==
  ASSUME NEW x, NEW at, Shape(x, at), NEW p, p = Max(x.top)
  PROVE  /\ p \in Priority /\ \E t \in Task : at[t] = "ready" /\ x.prio[t] = p
         /\ \A t \in Task : at[t] = "ready" => x.prio[t] <= p
<1>1. /\ x.top \in SUBSET Priority /\ x.prio \in [Task -> Priority]
      /\ \A r \in Priority : r \in x.top <=> \E t \in Task : at[t] = "ready" /\ x.prio[t] = r
      /\ at[Idle] = "ready"
  BY DEF Shape, Bits, KernelState
<1>2. x.top # {}
  BY <1>1, Numbers
<1>3. MaxPriorities - 1 \in Nat /\ x.top \in SUBSET (0..MaxPriorities - 1)
  BY <1>1, KernelAssumption DEF Priority
<1>4. p \in x.top /\ \A r \in x.top : p >= r
  BY <1>2, <1>3, GreatestNat
<1>5. \A t \in Task : at[t] = "ready" => x.prio[t] \in x.top
  BY <1>1
<1> QED BY <1>1, <1>4, <1>5, Numbers

LEMMA TurnChanged ==
  ASSUME NEW x \in KernelState, NEW rd \in [Priority -> Seq(Task \cup {END})], NEW h \in Task,
         NEW y, y = [x EXCEPT !.ypend = FALSE, !.ready = rd, !.cur = h]
  PROVE  y \in KernelState
BY DEF KernelState

(* A context switch turns to a ready task of the highest priority.          *)
LEMMA Switched ==
  ASSUME NEW x, NEW at, Shape(x, at), x.susp = 0, NEW y, y = vTaskSwitchContext(x)
  PROVE  Shape(y, at) /\ Same(x, y, Turn) /\ Best(y, at)
<1>0. PICK p : p = Max(x.top)
  OBVIOUS
<1>1. /\ p \in Priority /\ \E t \in Task : at[t] = "ready" /\ x.prio[t] = p
      /\ \A t \in Task : at[t] = "ready" => x.prio[t] <= p
  BY <1>0, TopPriority
<1>2. /\ x \in KernelState /\ Listed(x, at, x.prio) /\ x.ready \in [Priority -> Seq(Task \cup {END})]
      /\ at \in [Task -> Places]
  BY DEF Shape, KernelState, Listed
<1>3. /\ Distinct(x.ready[p]) /\ x.ready[p] \in Seq(Task \cup {END})
      /\ Range(x.ready[p]) = {END} \cup {t \in Task : at[t] = "ready" /\ x.prio[t] = p}
  BY <1>1, <1>2 DEF Listed
<1>4. Len(x.ready[p]) \in Nat \ {0} /\ Length(x.ready[p]) > 0
  BY <1>1, <1>2, ReadyLength
<1>5. Len(x.ready[p]) > 1 /\ Length(x.ready[p]) # 0
  <2>1. Length(x.ready[p]) = Len(x.ready[p]) - 1
    BY DEF Length
  <2>2. \A a \in Nat \ {0} : a - 1 > 0 => a > 1 /\ a - 1 # 0
    OBVIOUS
  <2>3. Len(x.ready[p]) - 1 > 0 /\ Len(x.ready[p]) \in Nat \ {0}
    BY <1>4, <2>1
  <2> QED BY <2>1, <2>2, <2>3
<1>6. PICK ring : ring = NextEntry(x.ready[p])
  OBVIOUS
<1>7. /\ ring \in Seq(Task \cup {END}) /\ Distinct(ring)
      /\ Range(ring) = Range(x.ready[p]) /\ Head(ring) \in Range(x.ready[p]) \ {END}
  BY <1>3, <1>5, <1>6, NextEntryRing
<1>8. Head(ring) \in Task /\ at[Head(ring)] = "ready" /\ x.prio[Head(ring)] = p
  BY <1>3, <1>7
<1>9. y = [x EXCEPT !.ypend = FALSE, !.ready = [x.ready EXCEPT ![p] = ring], !.cur = Head(ring)]
  <2>1. ~(x.susp > 0)
    OBVIOUS
  <2>2. y = [x EXCEPT !.ypend = FALSE, !.ready[p] = ring, !.cur = Head(ring)]
    BY <1>0, <1>5, <1>6, <2>1 DEF vTaskSwitchContext
  <2> QED BY <1>2, <2>2 DEF KernelState
<1> DEFINE rd == [x.ready EXCEPT ![p] = ring]
           h == Head(ring)
<1>10. rd \in [Priority -> Seq(Task \cup {END})] /\ h \in Task
  BY <1>2, <1>7, <1>8
<1>11. \A q \in Priority : Distinct(rd[q]) /\ Range(rd[q]) = Range(x.ready[q])
  <2>1. \A q \in Priority : Distinct(x.ready[q])
    BY <1>2 DEF Listed
  <2> QED BY <1>1, <1>2, <1>7, <2>1
<1>12. at[h] = "ready" /\ x.prio[h] = p
  BY <1>8
<1>13. y = [x EXCEPT !.ypend = FALSE, !.ready = rd, !.cur = h]
  BY <1>9
<1> HIDE DEF rd, h
<1>14. y \in KernelState
  BY <1>2, <1>10, <1>13, TurnChanged
<1>15. y.cur = h /\ y.ready = rd /\ Same(x, y, Turn)
  BY <1>2, <1>13 DEF KernelState, Same, Fields, Turn
<1>16. /\ y.delayed = x.delayed /\ y.overflow = x.overflow /\ y.suspended = x.suspended
       /\ y.dying = x.dying /\ y.wake = x.wake /\ y.prio = x.prio /\ y.base = x.base
       /\ y.top = x.top /\ y.pending = x.pending /\ y.evl = x.evl /\ y.halted = x.halted
  BY <1>15 DEF Same, Fields, Turn
<1>17. Listed(y, at, y.prio)
  BY <1>2, <1>11, <1>15, <1>16 DEF Listed
<1>18. Shape(y, at)
  BY <1>14, <1>16, <1>17 DEF Shape, Bits
<1>19. Best(y, at)
  BY <1>1, <1>12, <1>15, <1>16 DEF Best, NoneAbove
<1> QED BY <1>15, <1>18, <1>19

LEMMA SameTurn ==
  ASSUME NEW x, NEW y, NEW at, Same(x, y, Turn), InTime(x, at)
  PROVE  InTime(y, at)
BY DEF Same, Fields, Turn, InTime

(* A switch if one is called for: at once, or when the scheduler resumes.   *)
Yielded(x, y, at) ==
  /\ Sound(y, at) /\ Served(y, at) /\ Same(x, y, Turn)
  /\ x.susp > 0 => y.cur = x.cur
LEMMA YieldedIf ==
  ASSUME NEW x, NEW at, Sound(x, at), NEW cond \in BOOLEAN, ~cond => Served(x, at),
         NEW y, y = YieldIf(x, cond)
  PROVE  Yielded(x, y, at)
<1>0. x \in KernelState
  BY DEF Sound, Shape
<1>1. CASE ~cond
  BY <1>1 DEF YieldIf, Same, Yielded
<1>2. CASE cond /\ x.susp = 0
  <2>1. y = vTaskSwitchContext(x)
    BY <1>2 DEF YieldIf
  <2>2. Shape(y, at) /\ Same(x, y, Turn) /\ Best(y, at)
    BY <1>2, <2>1, Switched DEF Sound
  <2>3. y.susp = 0 /\ InTime(y, at)
    BY <1>2, <2>2, SameTurn DEF Same, Fields, Turn, Sound
  <2>4. Sound(y, at) /\ Served(y, at)
    BY <2>2, <2>3 DEF Sound, Served
  <2>5. ~(x.susp > 0)
    BY <1>2
  <2> QED BY <2>2, <2>4, <2>5 DEF Yielded
<1>3. CASE cond /\ x.susp # 0
  <2>1. x.susp > 0 /\ x.susp \in Nat
    BY <1>0, <1>3 DEF KernelState
  <2>2. y = [x EXCEPT !.ypend = TRUE]
    BY <1>3, <2>1 DEF YieldIf, vTaskSwitchContext
  <2>3. y \in KernelState
    BY ZenonT(30), <1>0, <2>2 DEF KernelState
  <2>4. Same(x, y, {"ypend"}) /\ y.ypend
    BY <1>0, <2>2 DEF KernelState, Same, Fields
  <2>5. Same(x, y, Plain) /\ Same(x, y, Turn) /\ y.cur = x.cur /\ y.susp = x.susp
    BY <2>4 DEF Same, Plain, Turn, Fields
  <2>6. Sound(y, at)
    BY <2>3, <2>5, SameSound
  <2> QED BY <1>3, <2>4, <2>5, <2>6 DEF Served, Yielded
<1> QED BY <1>1, <1>2, <1>3

-----------------------------------------------------------------------------
(* Time                                                                     *)

(* The cached time is not later than that of any delayed task.              *)
LEMMA TimeReset ==
  ASSUME NEW x, NEW at, Shape(x, at), NEW y, y = prvResetNextTaskUnblockTime(x)
  PROVE  /\ Shape(y, at) /\ Same(x, y, {"unblock"})
         /\ \A t \in Task : at[t] = "delayed" => y.unblock <= x.wake[t]
<1> DEFINE u == IF x.delayed = <<>> THEN MaxDelay ELSE x.wake[Head(x.delayed)]
<1>1. /\ x \in KernelState /\ x.delayed \in Seq(Task) /\ x.wake \in [Task -> 0..MaxDelay]
      /\ Sorted(x.delayed, x.wake) /\ Range(x.delayed) = {t \in Task : at[t] = "delayed"}
  BY DEF Shape, KernelState, Listed, InPlace
<1>2. u \in 0..MaxDelay
  BY <1>1, Numbers
<1>3. \A t \in Task : at[t] = "delayed" => u <= x.wake[t]
  <2>1. SUFFICES ASSUME NEW t \in Task, at[t] = "delayed" PROVE u <= x.wake[t]
    OBVIOUS
  <2>2. PICK i \in 1..Len(x.delayed) : x.delayed[i] = t
    <3>1. t \in Range(x.delayed)
      BY <1>1, <2>1
    <3> QED BY <1>1, <3>1 DEF Range
  <2>3. x.delayed # <<>> /\ Head(x.delayed) = x.delayed[1] /\ 1 \in 1..Len(x.delayed)
    BY <1>1, <2>2
  <2>4. CASE i = 1
    BY <1>1, <1>2, <2>2, <2>3, <2>4, Numbers
  <2>5. CASE i # 1
    <3>1. 1 < i
      BY <2>5
    <3> QED BY <1>1, <2>2, <2>3, <3>1 DEF Sorted
  <2> QED BY <2>4, <2>5
<1>4. y = [x EXCEPT !.unblock = u]
  BY DEF prvResetNextTaskUnblockTime
<1> HIDE DEF u
<1>5. y \in KernelState
  BY ZenonT(30), <1>1, <1>2, <1>4 DEF KernelState
<1>6. Same(x, y, {"unblock"}) /\ y.unblock = u
  BY <1>1, <1>4 DEF KernelState, Same, Fields
<1>7. Same(x, y, Plain \cup {"tick", "unblock"})
  BY <1>6 DEF Same
<1>8. Shape(y, at)
  BY <1>5, <1>7, SameShape
<1> QED BY <1>3, <1>6, <1>8

(* The tick count wraps: the overflow list becomes the delayed list.        *)
LEMMA ListsSwitched ==
  ASSUME NEW x, NEW at, Shape(x, at), \A t \in Task : at[t] # "delayed",
         NEW y, y = taskSWITCH_DELAYED_LISTS(x),
         NEW to, to = [t \in Task |-> IF at[t] = "overflow" THEN "delayed" ELSE at[t]]
  PROVE  /\ Shape(y, to) /\ Same(x, y, {"delayed", "overflow", "unblock", "ovf"})
         /\ \A t \in Task : to[t] = "delayed" => y.unblock <= x.wake[t]
<1>1. /\ x \in KernelState /\ x.delayed \in Seq(Task) /\ x.overflow \in Seq(Task)
      /\ Listed(x, at, x.prio) /\ at \in [Task -> Places] /\ ~x.halted
  BY DEF Shape, KernelState, Listed
<1>2. x.delayed = <<>>
  <2>1. Range(x.delayed) = {}
    BY <1>1 DEF Listed, InPlace
  <2>2. x.delayed # <<>> => x.delayed[1] \in Range(x.delayed)
    BY <1>1 DEF Range
  <2> QED BY <2>1, <2>2
<1>3. PICK z : z = [x EXCEPT !.delayed = x.overflow, !.overflow = <<>>, !.ovf = (x.ovf + 1) % OvfMod]
  OBVIOUS
<1>4. y = prvResetNextTaskUnblockTime(z)
  <2>1. ConfigAssert(x, x.delayed = <<>>) = x
    BY <1>2 DEF ConfigAssert
  <2> QED BY <1>1, <1>2, <1>3, <2>1 DEF taskSWITCH_DELAYED_LISTS, KernelState
<1>5. (x.ovf + 1) % OvfMod \in Int
  <2>1. x.ovf \in Int
    BY <1>1 DEF KernelState
  <2>2. OvfMod \in Nat \ {0}
    BY KernelAssumption
  <2>3. \A i \in Int : \A d \in Nat \ {0} : (i + 1) % d \in Int
    OBVIOUS
  <2> QED BY <2>1, <2>2, <2>3
<1>6. z \in KernelState
  <2> DEFINE o == (x.ovf + 1) % OvfMod
             e == <<>>
  <2>1. o \in Int /\ e \in Seq(Task) /\ z = [x EXCEPT !.delayed = x.overflow, !.overflow = e, !.ovf = o]
    BY <1>3, <1>5
  <2> HIDE DEF o, e
  <2> QED BY <1>1, <2>1 DEF KernelState
<1>7. Same(x, z, {"delayed", "overflow", "ovf"}) /\ z.delayed = x.overflow /\ z.overflow = <<>>
  BY <1>1, <1>3 DEF KernelState, Same, Fields
<1>8. /\ z.ready = x.ready /\ z.suspended = x.suspended
      /\ z.dying = x.dying /\ z.wake = x.wake /\ z.prio = x.prio /\ z.base = x.base
      /\ z.top = x.top /\ z.pending = x.pending /\ z.evl = x.evl /\ z.halted = x.halted
  BY <1>7 DEF Same, Fields
<1>9. \A t \in Task : /\ to[t] = "delayed" <=> at[t] = "overflow"
                      /\ to[t] # "overflow" /\ to[t] \in Places
                      /\ \A place \in {"ready", "suspended", "dying"} : to[t] = place <=> at[t] = place
  BY <1>1 DEF Places
<1>10. to \in [Task -> Places]
  BY <1>9
<1>11. Listed(z, to, z.prio)
  <2>1. InPlace(z.delayed, to, "delayed")
    BY <1>1, <1>7, <1>9 DEF Listed, InPlace
  <2>2. InPlace(z.overflow, to, "overflow")
    <3>1. Distinct(<<>>) /\ Range(<<>>) = {}
      BY DEF Distinct, Range
    <3> QED BY <1>7, <1>9, <3>1 DEF InPlace
  <2>3. InPlace(z.suspended, to, "suspended") /\ InPlace(z.dying, to, "dying")
    BY <1>1, <1>8, <1>9 DEF Listed, InPlace
  <2>4. Sorted(z.delayed, z.wake) /\ Sorted(z.overflow, z.wake)
    <3>1. Sorted(x.overflow, x.wake) /\ Sorted(<<>>, x.wake)
      BY <1>1 DEF Listed, Sorted
    <3> QED BY <1>7, <1>8, <3>1
  <2>5. \A p \in Priority :
          /\ Distinct(z.ready[p])
          /\ Range(z.ready[p]) = {END} \cup {t \in Task : to[t] = "ready" /\ z.prio[t] = p}
    BY <1>1, <1>8, <1>9 DEF Listed
  <2> QED BY <1>10, <2>1, <2>2, <2>3, <2>4, <2>5 DEF Listed
<1>12. Shape(z, to)
  BY <1>6, <1>8, <1>9, <1>11, Numbers DEF Shape, Bits
<1>13. /\ Shape(y, to) /\ Same(z, y, {"unblock"})
       /\ \A t \in Task : to[t] = "delayed" => y.unblock <= z.wake[t]
  BY <1>4, <1>12, TimeReset
<1>14. Same(x, y, {"delayed", "overflow", "unblock", "ovf"})
  BY <1>7, <1>13 DEF Same
<1> QED BY <1>8, <1>13, <1>14

(* The tasks WakeDue wakes are those whose time is not later than now.      *)
LEMMA DueAre ==
  ASSUME NEW x, NEW at, Shape(x, at)
  PROVE  /\ DueTasks(x) = {t \in Task : at[t] = "delayed" /\ x.wake[t] <= x.tick}
         /\ Ahead(x.delayed, x.wake, x.tick) \in 0..Len(x.delayed)
         /\ \A i \in 1..Len(x.delayed) :
              i <= Ahead(x.delayed, x.wake, x.tick) <=> x.wake[x.delayed[i]] <= x.tick
<1> DEFINE n == Ahead(x.delayed, x.wake, x.tick)
<1>1. /\ x.delayed \in Seq(Task) /\ x.wake \in [Task -> 0..MaxDelay] /\ x.tick \in 0..MaxDelay
      /\ Sorted(x.delayed, x.wake) /\ Range(x.delayed) = {t \in Task : at[t] = "delayed"}
  BY DEF Shape, KernelState, Listed, InPlace
<1>2. x.wake \in [Task -> Int] /\ x.tick \in Int
  BY <1>1, Numbers
<1>3. n \in 0..Len(x.delayed) /\ \A i \in 1..Len(x.delayed) : i <= n <=> x.wake[x.delayed[i]] <= x.tick
  BY <1>1, <1>2, AheadIs, AheadInOrder
<1> HIDE DEF n
<1>4. ASSUME NEW t \in {x.delayed[i] : i \in 1..n}
      PROVE  t \in Task /\ at[t] = "delayed" /\ x.wake[t] <= x.tick
  <2>1. PICK i \in 1..n : t = x.delayed[i]
    OBVIOUS
  <2>2. i \in 1..Len(x.delayed) /\ i <= n
    BY <1>1, <1>3
  <2>3. t \in Range(x.delayed)
    BY <1>1, <2>1, <2>2 DEF Range
  <2> QED BY <1>1, <1>3, <2>1, <2>2, <2>3
<1>5. ASSUME NEW t \in Task, at[t] = "delayed", x.wake[t] <= x.tick
      PROVE  t \in {x.delayed[i] : i \in 1..n}
  <2>1. t \in Range(x.delayed)
    BY <1>1, <1>5
  <2>2. PICK i \in 1..Len(x.delayed) : t = x.delayed[i]
    BY <1>1, <2>1 DEF Range
  <2>3. i <= n
    BY <1>3, <1>5, <2>2
  <2>4. i \in 1..n
    BY <1>3, <2>2, <2>3
  <2> QED BY <2>2, <2>4
<1>6. DueTasks(x) = {x.delayed[i] : i \in 1..n}
  BY DEF DueTasks, n
<1>7. DueTasks(x) = {t \in Task : at[t] = "delayed" /\ x.wake[t] <= x.tick}
  BY <1>4, <1>5, <1>6
<1> QED BY <1>3, <1>7 DEF n

-----------------------------------------------------------------------------
(* The tasks whose time has come                                            *)

Waking == INSTANCE FoldProofs WITH Op <- WakeUp

(* What waking tasks whose time has come changes.                           *)
Wakes == StateLinks \cup {"top", "pending"}
Asleep == {"delayed", "overflow"}
Rouses(x, y, F, at, to) ==
  /\ Shape(y, to) /\ Same(x, y, F) /\ y.dying = x.dying
  /\ Range(y.pending) \subseteq Range(x.pending)
  /\ x.pending = <<>> => y.pending = <<>>
  /\ \A t \in Task : to[t] \in Asleep => y.wake[t] = x.wake[t]

LEMMA WakeUpFold ==
  ASSUME NEW x, NEW s
  PROVE  Waking!Fold(x, s) = FoldLeft(WakeUp, x, s)
BY DEF Waking!Fold, Waking!FoldLeft, Waking!MapThenFoldSet, FoldLeft, MapThenFoldSet, Max, Waking!Max

LEMMA Roused ==
  ASSUME NEW x, NEW y, NEW z, NEW at, NEW to, NEW on, NEW t \in Task,
         at \in [Task -> Places], at[t] # "dying", on = [to EXCEPT ![t] = "ready"],
         \A u \in Task : to[u] = at[u] \/ to[u] = "ready",
         Rouses(x, y, Wakes, at, to), Woken(y, z, to, t)
  PROVE  Rouses(x, z, Wakes, at, on)
<1>1. Shape(z, on)
  BY DEF Woken
<1>2. Same(x, z, Wakes)
  BY DEF Rouses, Woken, Same, Wakes
<1>3. z.dying = x.dying
  <2>1. to[t] # "dying"
    OBVIOUS
  <2> QED BY <2>1 DEF Rouses, Woken
<1>4. Range(z.pending) \subseteq Range(x.pending)
  BY DEF Rouses, Woken
<1>5. x.pending = <<>> => z.pending = <<>>
  <2>1. t \notin Range(<<>>)
    BY DEF Range
  <2> QED BY <2>1 DEF Rouses, Woken
<1>6. ASSUME NEW u \in Task, on[u] \in Asleep PROVE z.wake[u] = x.wake[u]
  <2>1. to \in [Task -> Places]
    BY DEF Rouses, Shape, Listed
  <2>2. u # t /\ to[u] \in Asleep
    BY <1>6, <2>1 DEF Asleep
  <2> QED BY <2>2 DEF Rouses, Woken
<1> QED BY <1>1, <1>2, <1>3, <1>4, <1>5, <1>6 DEF Rouses

LEMMA WakesDue ==
  ASSUME NEW x, NEW at, Shape(x, at), NEW y, y = WakeDue(x),
         NEW to, to = [t \in Task |-> IF at[t] = "delayed" /\ x.wake[t] <= x.tick THEN "ready" ELSE at[t]]
  PROVE  Rouses(x, y, Wakes \cup {"unblock"}, at, to) /\ InTime(y, to)
<1> DEFINE n == Ahead(x.delayed, x.wake, x.tick)
           s == SubSeq(x.delayed, 1, n)
           rest == SubSeq(x.delayed, n + 1, Len(x.delayed))
           Pl(m) == [t \in Task |-> IF \E i \in 1..m : x.delayed[i] = t THEN "ready" ELSE at[t]]
<1>1. /\ x \in KernelState /\ x.delayed \in Seq(Task) /\ Distinct(x.delayed)
      /\ Range(x.delayed) = {t \in Task : at[t] = "delayed"} /\ Sorted(x.delayed, x.wake)
      /\ x.wake \in [Task -> 0..MaxDelay] /\ x.tick \in 0..MaxDelay /\ at \in [Task -> Places]
  BY DEF Shape, KernelState, Listed, InPlace
<1>2. n \in 0..Len(x.delayed) /\ \A i \in 1..Len(x.delayed) : i <= n <=> x.wake[x.delayed[i]] <= x.tick
  BY DueAre
<1>3. Len(x.delayed) \in Nat /\ n \in Nat
  BY <1>1, <1>2
<1> HIDE DEF n
<1>4. DOMAIN s = 1..n /\ \A i \in 1..n : s[i] = x.delayed[i]
  BY <1>1, <1>2, <1>3
<1>5. PICK it : /\ it[0] = x
                /\ \A m \in 0..n - 1 : it[m + 1] = WakeUp(it[m], s[m + 1])
                /\ FoldLeft(WakeUp, x, s) = it[n]
  <2> HIDE DEF s
  <2>1. PICK it : /\ it[0] = x
                  /\ \A m \in 0..n - 1 : it[m + 1] = WakeUp(it[m], s[m + 1])
                  /\ Waking!Fold(x, s) = it[n]
    BY <1>3, <1>4, Waking!FoldSteps
  <2>2. Waking!Fold(x, s) = FoldLeft(WakeUp, x, s)
    BY WakeUpFold
  <2> QED BY <2>1, <2>2
<1> DEFINE T == {m \in Nat : m <= n => Rouses(x, it[m], Wakes, at, Pl(m))}
<1>6. 0 \in T
  <2>1. Pl(0) = at
    BY <1>1
  <2>2. Rouses(x, x, Wakes, at, at)
    BY DEF Rouses, Same
  <2> HIDE DEF Pl
  <2> QED BY <1>5, <2>1, <2>2
<1>7. ASSUME NEW m \in T PROVE m + 1 \in T
  <2>1. SUFFICES ASSUME m + 1 <= n PROVE Rouses(x, it[m + 1], Wakes, at, Pl(m + 1))
    OBVIOUS
  <2>2. m \in 0..n - 1 /\ m \in Nat /\ m + 1 \in 1..n /\ m + 1 \in 1..Len(x.delayed)
    BY <1>2, <1>3, <2>1
  <2>3. Rouses(x, it[m], Wakes, at, Pl(m))
    BY <2>2, <1>3
  <2>4. PICK t \in Task : t = x.delayed[m + 1]
    BY <1>1, <2>2
  <2>5. it[m + 1] = WakeUp(it[m], t)
    BY <1>4, <1>5, <2>2, <2>4
  <2>6. at[t] = "delayed"
    <3>1. t \in Range(x.delayed)
      BY <1>1, <2>2, <2>4 DEF Range
    <3> QED BY <1>1, <3>1
  <2>7. Pl(m + 1) = [Pl(m) EXCEPT ![t] = "ready"]
    <3>1. \A u \in Task : (\E i \in 1..m + 1 : x.delayed[i] = u) <=> u = t \/ \E i \in 1..m : x.delayed[i] = u
      <4>1. \A i \in 1..m + 1 : i = m + 1 \/ i \in 1..m
        BY <2>2
      <4>2. \A i \in 1..m : i \in 1..m + 1
        BY <2>2
      <4>3. m + 1 \in 1..m + 1
        BY <2>2
      <4> QED BY <2>4, <4>1, <4>2, <4>3
    <3> QED BY <3>1
  <2>8. \A u \in Task : Pl(m)[u] = at[u] \/ Pl(m)[u] = "ready"
    OBVIOUS
  <2> HIDE DEF Pl
  <2>9. Shape(it[m], Pl(m)) /\ it[m] \in KernelState
    BY <2>3 DEF Rouses, Shape
  <2>10. PICK e : e = RemoveEvent(it[m], t)
    OBVIOUS
  <2>11. it[m + 1] = prvAddTaskToReadyList(RemoveState(e, t), t)
    BY <2>5, <2>9, <2>10, RemovalsCommute DEF WakeUp
  <2>12. Woken(it[m], it[m + 1], Pl(m), t)
    BY <2>9, <2>10, <2>11, WokenUp
  <2> QED BY ONLY <1>1, <2>3, <2>6, <2>7, <2>8, <2>12, Roused
<1>8. Rouses(x, it[n], Wakes, at, Pl(n))
  <2> HIDE DEF T, Pl
  <2>1. T \in SUBSET Nat
    BY DEF T
  <2>2. n \in T
    BY <1>3, <1>6, <1>7, <2>1, Waking!NatInd
  <2> QED BY <1>3, <2>2 DEF T
<1>9. Pl(n) = to
  <2>1. ASSUME NEW t \in Task
        PROVE  (\E i \in 1..n : x.delayed[i] = t) <=> at[t] = "delayed" /\ x.wake[t] <= x.tick
    <3>1. at[t] = "delayed" <=> \E i \in 1..Len(x.delayed) : x.delayed[i] = t
      BY <1>1 DEF Range
    <3>2. \A i \in 1..n : i \in 1..Len(x.delayed) /\ i <= n
      BY <1>2, <1>3
    <3>3. \A i \in 1..Len(x.delayed) : i <= n => i \in 1..n
      BY <1>3
    <3> QED BY <1>2, <3>1, <3>2, <3>3
  <2> QED BY <2>1
<1> HIDE DEF Pl, s
<1> DEFINE u == IF rest = <<>> THEN MaxDelay ELSE x.wake[Head(rest)]
<1>10. y = [it[n] EXCEPT !.unblock = u]
  BY <1>5 DEF WakeDue, n, s
<1>11. u \in 0..MaxDelay /\ \A t \in Task : to[t] = "delayed" => x.tick < x.wake[t] /\ u <= x.wake[t]
  <2>1. rest \in Seq(Task) /\ Len(rest) = Len(x.delayed) - n
    BY <1>1, <1>2, <1>3
  <2>2. CASE rest = <<>>
    <3>1. n = Len(x.delayed)
      <4> HIDE DEF rest
      <4>1. Len(rest) = 0
        BY <2>2
      <4> QED BY <1>3, <2>1, <4>1
    <3>2. \A t \in Task : at[t] = "delayed" => x.wake[t] <= x.tick
      BY ONLY <1>1, <1>2, <3>1 DEF Range
    <3> QED BY <2>2, <3>2, Numbers
  <2>3. CASE rest # <<>>
    <3>1. n < Len(x.delayed) /\ n + 1 \in 1..Len(x.delayed)
      BY <1>3, <2>1, <2>3
    <3>2. Head(rest) = x.delayed[n + 1]
      BY <1>1, <1>3, <2>1, <2>3, <3>1
    <3>3. x.delayed[n + 1] \in Task /\ x.wake[x.delayed[n + 1]] \in 0..MaxDelay
      BY <1>1, <3>1
    <3>4. u = x.wake[x.delayed[n + 1]]
      BY <2>3, <3>2
    <3>5. ASSUME NEW t \in Task, to[t] = "delayed" PROVE x.tick < x.wake[t] /\ u <= x.wake[t]
      <4>1. at[t] = "delayed" /\ ~(x.wake[t] <= x.tick)
        BY <3>5
      <4>2. PICK i \in 1..Len(x.delayed) : x.delayed[i] = t
        BY <1>1, <4>1 DEF Range
      <4>3. ~(i <= n)
        BY <1>2, <4>1, <4>2
      <4>4. i = n + 1 \/ n + 1 < i
        BY <1>3, <4>3
      <4>5. x.wake[x.delayed[n + 1]] <= x.wake[x.delayed[i]]
        BY <1>1, <3>1, <3>3, <4>4, Numbers DEF Sorted
      <4>6. x.wake[t] \in Int /\ x.tick \in Int
        BY <1>1, Numbers
      <4> HIDE DEF u
      <4> QED BY <3>4, <4>1, <4>2, <4>5, <4>6
    <3> QED BY <3>3, <3>4, <3>5
  <2> QED BY <2>2, <2>3
<1> HIDE DEF u
<1>12. it[n] \in KernelState /\ Shape(it[n], to)
  BY <1>8, <1>9 DEF Rouses, Shape
<1>13. y \in KernelState
  BY ZenonT(30), <1>10, <1>11, <1>12 DEF KernelState
<1>14. Same(it[n], y, {"unblock"}) /\ y.unblock = u
  BY <1>10, <1>12 DEF KernelState, Same, Fields
<1>15. Shape(y, to)
  <2>1. Same(it[n], y, Plain \cup {"tick", "unblock"})
    BY <1>14 DEF Same
  <2> QED BY <1>12, <1>13, <2>1, SameShape
<1>16. y.pending = it[n].pending /\ y.dying = it[n].dying /\ y.wake = it[n].wake /\ y.tick = it[n].tick
  BY <1>14 DEF Same, Fields
<1>17. Same(x, y, Wakes \cup {"unblock"})
  BY <1>8, <1>14 DEF Rouses, Same
<1>18. Rouses(x, y, Wakes \cup {"unblock"}, at, to)
  BY <1>8, <1>9, <1>15, <1>16, <1>17 DEF Rouses
<1>19. InTime(y, to)
  <2>1. x.tick = y.tick
    BY <1>17 DEF Same, Fields, Wakes, StateLinks
  <2>2. \A t \in Task : to[t] = "delayed" => y.wake[t] = x.wake[t]
    BY <1>18 DEF Rouses, Asleep
  <2> QED BY <1>11, <1>14, <2>1, <2>2 DEF InTime
<1> QED BY <1>18, <1>19

-----------------------------------------------------------------------------
(* One tick                                                                 *)

(* Ticks until a sleeper is woken.                                          *)
Rem(x, at, t) == IF at[t] = "delayed" THEN x.wake[t] - x.tick ELSE x.wake[t] + TickMod - x.tick

(* The tick is counted, and the lists are switched when the count wraps.    *)
Counted(x, y, at, on) ==
  /\ Shape(y, on) /\ Same(x, y, {"delayed", "overflow", "tick", "unblock", "ovf"})
  /\ \A t \in Task : on[t] = "delayed" => y.unblock <= y.wake[t]
  /\ \A t \in Task : on[t] = at[t] \/ (at[t] = "overflow" /\ on[t] = "delayed")
  /\ \A t \in Task : at[t] \in Asleep => on[t] \in Asleep /\ Rem(y, on, t) = Rem(x, at, t) - 1
  /\ y.tick = (x.tick + 1) % TickMod

LEMMA NextTick ==
  ASSUME NEW i \in 0..MaxDelay
  PROVE  /\ (i + 1) % TickMod \in 0..MaxDelay
         /\ (i + 1) % TickMod = IF i = MaxDelay THEN 0 ELSE i + 1
<1>1. \A m \in Nat \ {0, 1} : \A j \in 0..m - 1 :
        (j + 1) % m \in 0..m - 1 /\ (j + 1) % m = IF j = m - 1 THEN 0 ELSE j + 1
  OBVIOUS
<1> QED BY <1>1, Numbers

LEMMA TickChanged ==
  ASSUME NEW x \in KernelState, NEW i \in 0..MaxDelay
  PROVE  [x EXCEPT !.tick = i] \in KernelState
BY DEF KernelState

LEMMA TickCounted ==
  ASSUME NEW x, NEW at, Sound(x, at), NEW z, z = [x EXCEPT !.tick = (x.tick + 1) % TickMod],
         NEW y, y = IF z.tick = 0 THEN taskSWITCH_DELAYED_LISTS(z) ELSE z
  PROVE  \E on : Counted(x, y, at, on)
<1>1. /\ x \in KernelState /\ x.tick \in 0..MaxDelay /\ x.wake \in [Task -> 0..MaxDelay]
      /\ at \in [Task -> Places] /\ MaxDelay \in Nat /\ MaxDelay = TickMod - 1 /\ x.unblock \in 0..MaxDelay
  BY Numbers DEF Sound, Shape, KernelState, Listed
<1>2. (x.tick + 1) % TickMod \in 0..MaxDelay /\ (x.tick + 1) % TickMod = IF x.tick = MaxDelay THEN 0 ELSE x.tick + 1
  BY <1>1, NextTick
<1>3. z \in KernelState
  BY <1>1, <1>2, TickChanged
<1>4. Same(x, z, {"tick"}) /\ z.tick = (x.tick + 1) % TickMod /\ z.wake = x.wake /\ z.unblock = x.unblock
  BY <1>1 DEF KernelState, Same, Fields
<1>5. Shape(z, at)
  <2>1. Same(x, z, Plain \cup {"tick", "unblock"})
    BY <1>4 DEF Same
  <2> QED BY <1>3, <2>1, SameShape DEF Sound
<1>6. CASE x.tick = MaxDelay
  <2>1. z.tick = 0
    BY <1>2, <1>4, <1>6
  <2>2. \A t \in Task : at[t] # "delayed"
    <3>1. ASSUME NEW t \in Task, at[t] = "delayed" PROVE FALSE
      <4>1. x.tick < x.wake[t] /\ x.wake[t] \in 0..MaxDelay
        BY <1>1, <3>1 DEF Sound, InTime
      <4> QED BY <1>1, <1>6, <4>1
    <3> QED BY <3>1
  <2>3. PICK on : on = [t \in Task |-> IF at[t] = "overflow" THEN "delayed" ELSE at[t]]
    OBVIOUS
  <2>4. /\ Shape(y, on) /\ Same(z, y, {"delayed", "overflow", "unblock", "ovf"})
        /\ \A t \in Task : on[t] = "delayed" => y.unblock <= z.wake[t]
    <3>1. y = taskSWITCH_DELAYED_LISTS(z)
      BY <2>1
    <3> HIDE DEF Shape, Same
    <3> QED BY ZenonT(30), <1>5, <2>2, <2>3, <3>1, ListsSwitched
  <2>5. y.wake = z.wake /\ y.tick = z.tick
    BY <2>4 DEF Same, Fields
  <2>6. ASSUME NEW t \in Task, at[t] \in Asleep
        PROVE  on[t] \in Asleep /\ Rem(y, on, t) = Rem(x, at, t) - 1
    <3>1. at[t] = "overflow" /\ on[t] = "delayed"
      BY <2>2, <2>3, <2>6 DEF Asleep
    <3>2. Rem(y, on, t) = x.wake[t] - 0 /\ Rem(x, at, t) = x.wake[t] + TickMod - MaxDelay
      BY <1>4, <1>6, <2>1, <2>5, <3>1 DEF Rem
    <3>3. x.wake[t] \in Int /\ TickMod \in Int
      BY <1>1, Numbers
    <3> QED BY <1>1, <3>1, <3>2, <3>3 DEF Asleep
  <2>7. Same(x, y, {"delayed", "overflow", "tick", "unblock", "ovf"})
    BY <1>4, <2>4 DEF Same
  <2>8. \A t \in Task : on[t] = at[t] \/ (at[t] = "overflow" /\ on[t] = "delayed")
    BY <2>3
  <2> QED BY <1>4, <2>4, <2>5, <2>6, <2>7, <2>8 DEF Counted
<1>7. CASE x.tick # MaxDelay
  <2>1. z.tick = x.tick + 1 /\ z.tick # 0
    BY <1>1, <1>2, <1>4, <1>7
  <2>2. y = z
    BY <2>1
  <2>3. ASSUME NEW t \in Task, at[t] \in Asleep PROVE Rem(y, at, t) = Rem(x, at, t) - 1
    <3>1. x.wake[t] \in Int /\ TickMod \in Int /\ x.tick \in Int
      BY <1>1, Numbers
    <3> QED BY <1>4, <2>1, <2>2, <3>1 DEF Rem
  <2>4. \A t \in Task : at[t] = "delayed" => y.unblock <= y.wake[t]
    BY <1>4, <2>2 DEF Sound, InTime
  <2>5. Same(x, y, {"delayed", "overflow", "tick", "unblock", "ovf"})
    BY <1>4, <2>2 DEF Same
  <2>6. Counted(x, y, at, at)
    BY <1>4, <1>5, <2>2, <2>3, <2>4, <2>5 DEF Counted
  <2> QED BY <2>6
<1> QED BY <1>6, <1>7

(* Tasks only wake, as far as they can.                                     *)
Moved(at, to) ==
  \A t \in Task : \/ to[t] = at[t]
                  \/ to[t] = "ready" /\ at[t] \notin {"none", "dying"}
                  \/ at[t] = "overflow" /\ to[t] = "delayed"
(* n ticks take those tasks out of their sleep whose time has come; those   *)
(* that are pending wake anyway.                                            *)
Elapsed(x, y, at, to, n) ==
  /\ y.tick = (x.tick + n) % TickMod
  /\ \A t \in Task \ Range(x.pending) : at[t] \in Asleep =>
       IF Rem(x, at, t) > n
       THEN to[t] \in Asleep /\ Rem(y, to, t) = Rem(x, at, t) - n
       ELSE to[t] = "ready"
Times == Wakes \cup {"tick", "unblock", "ovf"}
Ticked(x, y, switch, at, to) ==
  /\ Sound(y, to) /\ Moved(at, to) /\ Elapsed(x, y, at, to, 1)
  /\ Same(x, y, Times) /\ y.dying = x.dying
  /\ Range(y.pending) \subseteq Range(x.pending)
  /\ x.pending = <<>> => y.pending = <<>>
  /\ ~switch => \A t \in Task : to[t] = "ready" /\ at[t] # "ready" => x.prio[t] <= x.prio[x.cur]

LEMMA OneTick ==
  ASSUME NEW x, NEW at, Sound(x, at), x.susp = 0, NEW r, r = xTaskIncrementTick(x)
  PROVE  r.switch \in BOOLEAN /\ \E to : Ticked(x, r.k, r.switch, at, to)
<1>1. /\ x \in KernelState /\ x.susp \in Nat /\ at \in [Task -> Places] /\ x.prio \in [Task -> Priority] /\ x.cur \in Task
      /\ x.ypend \in BOOLEAN
  BY DEF Sound, Shape, KernelState, Listed
<1>2. PICK z : z = [x EXCEPT !.tick = (x.tick + 1) % TickMod]
  OBVIOUS
<1>3. PICK w : w = IF z.tick = 0 THEN taskSWITCH_DELAYED_LISTS(z) ELSE z
  OBVIOUS
<1>4. PICK due \in BOOLEAN : due <=> w.tick >= w.unblock
  OBVIOUS
<1>5. PICK y : y = IF due THEN WakeDue(w) ELSE w
  OBVIOUS
<1>6. /\ r.k = y
      /\ r.switch = (\/ due /\ \E t \in DueTasks(w) : Above(x, t)
                     \/ Length(y.ready[x.prio[x.cur]]) > 1
                     \/ x.ypend)
  BY <1>1, <1>2, <1>3, <1>4, <1>5 DEF xTaskIncrementTick
<1>7. PICK on : Counted(x, w, at, on)
  BY <1>2, <1>3, TickCounted
<1>8. w \in KernelState /\ w.tick \in 0..MaxDelay /\ w.unblock \in 0..MaxDelay /\ w.wake \in [Task -> 0..MaxDelay]
      /\ on \in [Task -> Places] /\ Shape(w, on) /\ w.prio = x.prio /\ w.pending = x.pending /\ w.dying = x.dying
  BY <1>7 DEF Counted, Shape, KernelState, Listed, Same, Fields
<1>9. w.tick \in Int /\ w.unblock \in Int /\ MaxDelay \in Nat /\ MaxDelay = TickMod - 1 /\ \A t \in Task : w.wake[t] \in Nat
  BY <1>8, Numbers
<1> DEFINE to == [t \in Task |-> IF on[t] = "delayed" /\ w.wake[t] <= w.tick THEN "ready" ELSE on[t]]
<1>10. Rouses(w, y, Wakes \cup {"unblock"}, on, to) /\ InTime(y, to)
  <2>1. CASE due
    <3> HIDE DEF to
    <3> QED BY <1>5, <1>8, <2>1, WakesDue DEF to
  <2>2. CASE ~due
    <3>1. \A t \in Task : on[t] = "delayed" => w.tick < w.wake[t] /\ w.unblock <= w.wake[t]
      BY <1>4, <1>7, <1>9, <2>2 DEF Counted
    <3>2. to = on
      <4>1. \A t \in Task : to[t] = on[t]
        BY <1>9, <3>1
      <4> QED BY <1>8, <4>1
    <3> HIDE DEF to
    <3>3. y = w
      BY <1>5, <2>2
    <3> QED BY <1>8, <3>1, <3>2, <3>3 DEF Rouses, InTime, Same
  <2> QED BY <2>1, <2>2
<1>11. Moved(at, to)
  <2> SUFFICES ASSUME NEW t \in Task
               PROVE  \/ to[t] = at[t]
                      \/ to[t] = "ready" /\ at[t] \notin {"none", "dying"}
                      \/ at[t] = "overflow" /\ to[t] = "delayed"
    BY DEF Moved
  <2>1. on[t] = at[t] \/ (at[t] = "overflow" /\ on[t] = "delayed")
    BY <1>7 DEF Counted
  <2> QED BY <2>1
<1>12. Elapsed(x, y, at, to, 1)
  <2>1. y.tick = w.tick /\ w.tick = (x.tick + 1) % TickMod
    BY <1>7, <1>10 DEF Counted, Rouses, Same, Fields, Wakes, StateLinks
  <2>2. ASSUME NEW t \in Task, at[t] \in Asleep
        PROVE  IF Rem(x, at, t) > 1 THEN to[t] \in Asleep /\ Rem(y, to, t) = Rem(x, at, t) - 1 ELSE to[t] = "ready"
    <3>1. on[t] \in Asleep /\ Rem(w, on, t) = Rem(x, at, t) - 1
      BY <1>7, <2>2 DEF Counted
    <3>2. Rem(w, on, t) \in Int /\ x.tick \in Int /\ x.wake[t] \in Int /\ TickMod \in Int
      <4>1. w.wake[t] \in Int /\ x.tick \in Int /\ x.wake[t] \in Int /\ TickMod \in Int /\ w.tick \in Int
        <5>1. x.tick \in 0..MaxDelay /\ x.wake \in [Task -> 0..MaxDelay]
          BY <1>1 DEF KernelState
        <5> QED BY <1>9, <5>1, Numbers
      <4> QED BY <4>1 DEF Rem
    <3>3. Rem(x, at, t) \in Int
      BY <3>2 DEF Rem
    <3>4. on[t] = "overflow" => Rem(w, on, t) > 0
      <4>1. w.wake[t] >= 0 /\ w.tick <= MaxDelay /\ w.wake[t] \in Int /\ TickMod \in Int
        BY <1>8, <1>9, <3>2
      <4> QED BY <1>9, <4>1 DEF Rem
    <3>5. on[t] = "delayed" => (Rem(w, on, t) > 0 <=> ~(w.wake[t] <= w.tick))
      BY <1>9 DEF Rem
    <3>6. to[t] \in Asleep <=> Rem(w, on, t) > 0
      BY <3>1, <3>4, <3>5 DEF Asleep
    <3>7. to[t] \in Asleep => to[t] = on[t] /\ Rem(y, to, t) = Rem(w, on, t)
      <4>1. to[t] \in Asleep => to[t] = on[t]
        BY DEF Asleep
      <4>2. to[t] \in Asleep => y.wake[t] = w.wake[t]
        BY <1>10 DEF Rouses
      <4> HIDE DEF to
      <4> QED BY <2>1, <4>1, <4>2 DEF Rem
    <3>8. to[t] \in Asleep \/ to[t] = "ready"
      BY <3>1
    <3>9. "ready" \notin Asleep
      BY DEF Asleep
    <3> HIDE DEF to
    <3> QED BY <3>1, <3>2, <3>3, <3>6, <3>7, <3>8, <3>9
  <2> HIDE DEF to
  <2> QED BY <2>1, <2>2 DEF Elapsed
<1>13. ASSUME ~r.switch, NEW t \in Task, to[t] = "ready", at[t] # "ready" PROVE x.prio[t] <= x.prio[x.cur]
  <2>1. on[t] # "ready"
    BY <1>7, <1>13 DEF Counted
  <2>2. on[t] = "delayed" /\ w.wake[t] <= w.tick
    BY <1>13, <2>1
  <2>3. due
    BY <1>4, <1>7, <1>9, <2>2 DEF Counted
  <2>4. t \in DueTasks(w)
    BY <1>8, <2>2, DueAre
  <2>5. ~Above(x, t)
    BY <1>6, <1>13, <2>3, <2>4
  <2> HIDE DEF to
  <2>6. x.prio[t] \in Priority /\ x.prio[x.cur] \in Priority
    BY <1>1
  <2>7. \A p \in Priority : p \in Int
    BY Numbers
  <2>8. x.prio[t] \in Int /\ x.prio[x.cur] \in Int
    BY <2>6, <2>7
  <2> QED BY <2>5, <2>8 DEF Above
<1> HIDE DEF to
<1>14. Same(x, y, Times)
  BY <1>7, <1>10 DEF Counted, Rouses, Same, Times, Wakes, StateLinks
<1>15. Sound(y, to) /\ y.dying = x.dying /\ Range(y.pending) \subseteq Range(x.pending) /\ (x.pending = <<>> => y.pending = <<>>)
  BY <1>8, <1>10 DEF Rouses, Sound
<1>16. Ticked(x, y, r.switch, at, to)
  BY <1>11, <1>12, <1>13, <1>14, <1>15 DEF Ticked
<1> QED BY <1>1, <1>6, <1>16

-----------------------------------------------------------------------------
(* Remainders                                                               *)

LEMMA Remainder == ASSUME NEW q \in Nat, NEW M \in Nat \ {0}, NEW r \in 0..M-1 PROVE (M * q + r) % M = r
OBVIOUS
LEMMA Divided ==
  ASSUME NEW a \in Nat, NEW M \in Nat \ {0}
  PROVE \E q \in Nat : \E r \in 0..M-1 : a = M * q + r /\ (a % M) = r
<1>1. a % M \in 0..M-1 /\ a \div M \in Nat
  OBVIOUS
<1>2. a = M * (a \div M) + (a % M)
  OBVIOUS
<1> QED BY <1>1, <1>2
LEMMA NextRemainder == ASSUME NEW a \in Nat, NEW M \in Nat \ {0} PROVE ((a % M) + 1) % M = (a + 1) % M
<1>1. PICK q \in Nat, r \in 0..M-1 : a = M * q + r /\ (a % M) = r
  BY Divided
<1>2. CASE r = M - 1
  <2>1. a + 1 = M * (q + 1) + 0 /\ q + 1 \in Nat /\ 0 \in 0..M-1 /\ r + 1 = M * 1 + 0
    BY <1>1, <1>2
  <2>2. (M * (q + 1) + 0) % M = 0 /\ (M * 1 + 0) % M = 0
    BY <2>1, Remainder
  <2> QED BY <1>1, <2>1, <2>2
<1>3. CASE r # M - 1
  <2>1. a + 1 = M * q + (r + 1) /\ r + 1 \in 0..M-1 /\ r + 1 = M * 0 + (r + 1)
    BY <1>1, <1>3
  <2>2. (M * q + (r + 1)) % M = r + 1 /\ (M * 0 + (r + 1)) % M = r + 1
    BY <2>1, Remainder
  <2> QED BY <1>1, <2>1, <2>2
<1> QED BY <1>2, <1>3
-----------------------------------------------------------------------------
(* Steps of the kernel                                                      *)

(* The current task stays the best one, or nothing that was not above it    *)
(* before is above it now, or the switch is on its way.                     *)
Keeps(x, y, at, to) ==
  /\ y.susp = x.susp
  /\ \/ y.susp = 0 /\ Best(y, to)
     \/ /\ y.cur = x.cur
        /\ \/ y.susp > 0 /\ y.ypend
           \/ /\ x.ypend => y.ypend
              /\ \A t \in Task : to[t] = "ready" /\ y.prio[t] > y.prio[y.cur]
                                   => at[t] = "ready" /\ x.prio[t] > x.prio[x.cur]
(* The step of an interrupt or of a call: tasks wake, the rest stays.       *)
Stepped(x, y, at, to, F) ==
  /\ Sound(y, to) /\ Moved(at, to) /\ Keeps(x, y, at, to)
  /\ Same(x, y, F) /\ y.dying = x.dying

LEMMA PendedChanged ==
  ASSUME NEW x, NEW at, Sound(x, at), NEW n \in Nat, NEW y, y = [x EXCEPT !.pended = n]
  PROVE  Sound(y, at) /\ Same(x, y, {"pended"}) /\ y.pended = n
<1>1. x \in KernelState
  BY DEF Sound, Shape
<1>2. y \in KernelState /\ Same(x, y, {"pended"}) /\ y.pended = n
  BY <1>1 DEF KernelState, Same, Fields
<1>3. Same(x, y, Plain)
  BY <1>2 DEF Same, Plain
<1> QED BY <1>2, <1>3, SameSound

LEMMA Unmoved ==
  ASSUME NEW x, NEW y, NEW at, Sound(y, at), Same(x, y, Plain \ {"cur", "susp"}), x.ypend => y.ypend
  PROVE  Keeps(x, y, at, at) /\ Moved(at, at) /\ y.dying = x.dying
<1>1. y.cur = x.cur /\ y.susp = x.susp /\ y.prio = x.prio /\ y.dying = x.dying
  BY DEF Same, Fields, Plain
<1> QED BY <1>1 DEF Keeps, Moved

(* The tick interrupt.                                                      *)
TickStep == Times \cup Turn \cup {"pended"}
LEMMA TickTaken ==
  ASSUME NEW x, NEW at, Sound(x, at), NEW y, y = TickInterrupt(x)
  PROVE  \E to :
           /\ Stepped(x, y, at, to, TickStep)
           /\ Range(y.pending) \subseteq Range(x.pending)
           /\ x.pending = <<>> => y.pending = <<>>
           /\ x.susp = 0 => y.pended = x.pended /\ Elapsed(x, y, at, to, 1)
           /\ x.susp > 0 => to = at /\ y = [x EXCEPT !.pended = x.pended + 1]
<1>1. x \in KernelState /\ x.susp \in Nat /\ x.pended \in Nat
  BY DEF Sound, Shape, KernelState
<1>2. CASE x.susp > 0
  <2>1. y = [x EXCEPT !.pended = x.pended + 1]
    BY <1>1, <1>2 DEF TickInterrupt, xTaskIncrementTick, YieldIf
  <2>2. x.pended + 1 \in Nat
    BY <1>1
  <2>3. Sound(y, at) /\ Same(x, y, {"pended"})
    BY <2>1, <2>2, PendedChanged
  <2>4. /\ Same(x, y, Plain \ {"cur", "susp"}) /\ Same(x, y, TickStep)
        /\ y.pending = x.pending /\ y.ypend = x.ypend
    BY <2>3 DEF Same, Plain, Fields, TickStep
  <2>5. Stepped(x, y, at, at, TickStep)
    BY <2>3, <2>4, Unmoved DEF Stepped
  <2>6. Range(y.pending) \subseteq Range(x.pending)
    BY <2>4
  <2> QED BY <1>2, <2>1, <2>4, <2>5, <2>6
<1>3. CASE x.susp = 0
  <2>1. PICK r : r = xTaskIncrementTick(x)
    OBVIOUS
  <2>2. PICK to : Ticked(x, r.k, r.switch, at, to)
    BY <1>3, <2>1, OneTick
  <2>3. r.switch \in BOOLEAN
    BY <1>3, <2>1, OneTick
  <2>4. PICK z : z = r.k
    OBVIOUS
  <2>5. y = IF r.switch THEN vTaskSwitchContext(z) ELSE z
    BY <2>1, <2>4 DEF TickInterrupt, YieldIf
  <2>6. /\ Sound(z, to) /\ Moved(at, to) /\ Elapsed(x, z, at, to, 1) /\ Same(x, z, Times) /\ z.dying = x.dying
        /\ Range(z.pending) \subseteq Range(x.pending) /\ (x.pending = <<>> => z.pending = <<>>)
    BY <2>2, <2>4 DEF Ticked
  <2>7. z.susp = 0 /\ z.cur = x.cur /\ z.prio = x.prio /\ z.ypend = x.ypend
    BY <1>3, <2>6 DEF Same, Fields, Times, Wakes, StateLinks
  <2>8. CASE r.switch
    <3>1. y = vTaskSwitchContext(z)
      BY <2>5, <2>8
    <3>2. Shape(y, to) /\ Same(z, y, Turn) /\ Best(y, to)
      BY <2>6, <2>7, <3>1, Switched DEF Sound
    <3>3. InTime(y, to)
      BY <2>6, <3>2, SameTurn DEF Sound
    <3>4. /\ y.pending = z.pending /\ y.dying = z.dying /\ y.tick = z.tick /\ y.wake = z.wake
          /\ y.susp = z.susp /\ y.pended = x.pended
      BY <2>6, <3>2 DEF Same, Fields, Turn, Times, Wakes, StateLinks
    <3>5. Elapsed(x, y, at, to, 1)
      BY <2>6, <3>4 DEF Elapsed, Rem
    <3>6. Same(x, y, TickStep)
      BY <2>6, <3>2 DEF Same, TickStep
    <3>7. Stepped(x, y, at, to, TickStep)
      BY <1>3, <2>6, <2>7, <3>2, <3>3, <3>4, <3>6 DEF Stepped, Keeps, Sound
    <3> QED BY <1>3, <2>6, <3>4, <3>5, <3>7
  <2>9. CASE ~r.switch
    <3>1. y = z
      BY <2>5, <2>9
    <3>2. Same(x, y, TickStep) /\ y.pended = x.pended
      BY <2>6, <3>1 DEF Same, TickStep, Fields, Times, Wakes, StateLinks
    <3>3. \A t \in Task : to[t] = "ready" /\ y.prio[t] > y.prio[y.cur]
                            => at[t] = "ready" /\ x.prio[t] > x.prio[x.cur]
      <4>1. ASSUME NEW t \in Task, to[t] = "ready", x.prio[t] > x.prio[x.cur] PROVE at[t] = "ready"
        <5>1. x.prio[t] \in Priority /\ x.prio[x.cur] \in Priority
          BY <1>1 DEF KernelState
        <5>2. \A p, q \in Priority : p > q => ~(p <= q)
          BY Numbers
        <5> QED BY <2>2, <2>9, <4>1, <5>1, <5>2 DEF Ticked
      <4> QED BY <2>7, <3>1, <4>1
    <3>4. Stepped(x, y, at, to, TickStep)
      BY <1>3, <2>6, <2>7, <3>1, <3>2, <3>3 DEF Stepped, Keeps
    <3> QED BY <1>3, <2>6, <3>1, <3>2, <3>4
  <2> QED BY <2>3, <2>8, <2>9
<1> QED BY <1>1, <1>2, <1>3

-----------------------------------------------------------------------------
(* The scheduler is resumed                                                 *)

Draining == INSTANCE FoldProofs WITH Op <- MakeReady
Ticking == INSTANCE FoldProofs WITH Op <- HeldTick

LEMMA MakeReadyFold ==
  ASSUME NEW x, NEW s
  PROVE  Draining!Fold(x, s) = FoldLeft(MakeReady, x, s)
BY DEF Draining!Fold, Draining!FoldLeft, Draining!MapThenFoldSet, FoldLeft, MapThenFoldSet, Max, Draining!Max

LEMMA HeldTickFold ==
  ASSUME NEW x, NEW s
  PROVE  Ticking!Fold(x, s) = FoldLeft(HeldTick, x, s)
BY DEF Ticking!Fold, Ticking!FoldLeft, Ticking!MapThenFoldSet, FoldLeft, MapThenFoldSet, Max, Ticking!Max

(* A switch is due, or the current task is still the best.                  *)
Owed(x, at) == x.ypend \/ NoneAbove(x, at)

LEMMA YpendChanged ==
  ASSUME NEW x, NEW at, Sound(x, at), NEW b \in BOOLEAN, NEW y, y = [x EXCEPT !.ypend = b]
  PROVE  Sound(y, at) /\ Same(x, y, {"ypend"}) /\ y.ypend = b
<1>1. x \in KernelState
  BY DEF Sound, Shape
<1>2. y \in KernelState /\ Same(x, y, {"ypend"}) /\ y.ypend = b
  BY <1>1 DEF KernelState, Same, Fields
<1>3. Same(x, y, Plain)
  BY <1>2 DEF Same, Plain
<1> QED BY <1>2, <1>3, SameSound

Brought(x, y, at, t) ==
  /\ Sound(y, [at EXCEPT ![t] = "ready"]) /\ Same(x, y, Wakes \cup {"ypend"})
  /\ Range(y.pending) = Range(x.pending) \ {t}
  /\ at[t] # "dying" => y.dying = x.dying
  /\ \A u \in Task \ {t} : y.wake[u] = x.wake[u]
  /\ Owed(x, at) => Owed(y, [at EXCEPT ![t] = "ready"])

LEMMA PendingReadied ==
  ASSUME NEW x, NEW at, Sound(x, at), NEW t \in Task, NEW y, y = MakeReady(x, t)
  PROVE  Brought(x, y, at, t)
<1>1. PICK e : e = RemoveEvent(x, t)
  OBVIOUS
<1>2. PICK z : z = prvAddTaskToReadyList(RemoveState(e, t), t)
  OBVIOUS
<1>3. PICK on : on = [at EXCEPT ![t] = "ready"]
  OBVIOUS
<1>4. Woken(x, z, at, t) /\ Sound(z, on)
  BY <1>1, <1>2, <1>3, WokenUpSound
<1>5. PICK b \in BOOLEAN : b <=> z.ypend \/ z.prio[t] >= z.prio[z.cur]
  OBVIOUS
<1>6. /\ z.ypend \in BOOLEAN /\ z.cur \in Task /\ z.prio \in [Task -> Priority] /\ z.prio = x.prio /\ z.cur = x.cur
      /\ z.ypend = x.ypend /\ at \in [Task -> Places]
  BY <1>4 DEF Sound, Shape, KernelState, Woken, Same, Fields, StateLinks, Listed
<1>7. y = [z EXCEPT !.ypend = b]
  BY <1>1, <1>2, <1>5, <1>6 DEF MakeReady
<1>8. Sound(y, on) /\ Same(z, y, {"ypend"}) /\ y.ypend = b
  BY <1>4, <1>7, YpendChanged
<1>9. y.pending = z.pending /\ y.dying = z.dying /\ y.wake = z.wake /\ y.prio = z.prio /\ y.cur = z.cur
  BY <1>8 DEF Same, Fields
<1>10. Same(x, y, Wakes \cup {"ypend"})
  BY <1>4, <1>8 DEF Woken, Same, Wakes
<1>11. ASSUME Owed(x, at) PROVE Owed(y, on)
  <2>1. \A p, q \in Priority : ~(p >= q) => p <= q
    BY Numbers
  <2>2. ASSUME ~b, NEW u \in Task, on[u] = "ready" PROVE y.prio[u] <= y.prio[y.cur]
    <3>1. u = t \/ (at[u] = "ready" /\ NoneAbove(x, at))
      BY <1>3, <1>5, <1>6, <1>11, <2>2 DEF Owed
    <3>2. z.prio[u] \in Priority /\ z.prio[z.cur] \in Priority
      BY <1>6
    <3> QED BY <1>5, <1>6, <1>9, <2>1, <2>2, <3>1, <3>2 DEF NoneAbove
  <2> QED BY <1>8, <2>2 DEF Owed, NoneAbove
<1> QED BY <1>3, <1>4, <1>8, <1>9, <1>10, <1>11 DEF Brought, Woken

Drained(x, y, at, to) ==
  /\ Sound(y, to) /\ Same(x, y, Wakes \cup {"ypend"}) /\ y.dying = x.dying
  /\ \A t \in Task : to[t] \in Asleep => y.wake[t] = x.wake[t]
  /\ Owed(y, to)

LEMMA DrainedOne ==
  ASSUME NEW x, NEW y, NEW z, NEW at, NEW to, NEW on, NEW t \in Task,
         at \in [Task -> Places], at[t] # "dying", on = [to EXCEPT ![t] = "ready"],
         \A u \in Task : to[u] = at[u] \/ to[u] = "ready",
         Drained(x, y, at, to), Brought(y, z, to, t)
  PROVE  Drained(x, z, at, on)
<1>1. Sound(z, on) /\ Owed(z, on)
  BY DEF Drained, Brought
<1>2. Same(x, z, Wakes \cup {"ypend"})
  BY DEF Drained, Brought, Same
<1>3. z.dying = x.dying
  <2>1. to[t] # "dying"
    OBVIOUS
  <2> QED BY <2>1 DEF Drained, Brought
<1>4. ASSUME NEW u \in Task, on[u] \in Asleep PROVE z.wake[u] = x.wake[u]
  <2>1. to \in [Task -> Places]
    BY DEF Drained, Sound, Shape, Listed
  <2>2. u # t /\ to[u] \in Asleep
    BY <1>4, <2>1 DEF Asleep
  <2> QED BY <2>2 DEF Drained, Brought
<1> QED BY <1>1, <1>2, <1>3, <1>4 DEF Drained

LEMMA PendingDrained ==
  ASSUME NEW x, NEW at, Sound(x, at), Owed(x, at),
         \A t \in Range(x.pending) : at[t] \notin {"none", "dying"},
         NEW y, y = FoldLeft(MakeReady, x, x.pending),
         NEW to, to = [t \in Task |-> IF t \in Range(x.pending) THEN "ready" ELSE at[t]]
  PROVE  Drained(x, y, at, to) /\ y.pending = <<>>
<1> DEFINE n == Len(x.pending)
           Pl(m) == [t \in Task |-> IF \E i \in 1..m : x.pending[i] = t THEN "ready" ELSE at[t]]
           Rest(m) == {x.pending[i] : i \in m + 1..n}
<1>1. x.pending \in Seq(Task) /\ Distinct(x.pending) /\ at \in [Task -> Places]
  BY DEF Sound, Shape, KernelState, Listed
<1>2. n \in Nat /\ DOMAIN x.pending = 1..n /\ Range(x.pending) = {x.pending[i] : i \in 1..n}
  BY <1>1 DEF Range
<1> HIDE DEF n
<1>3. PICK it : /\ it[0] = x
                /\ \A m \in 0..n - 1 : it[m + 1] = MakeReady(it[m], x.pending[m + 1])
                /\ y = it[n]
  <2>1. PICK it : /\ it[0] = x
                  /\ \A m \in 0..n - 1 : it[m + 1] = MakeReady(it[m], x.pending[m + 1])
                  /\ Draining!Fold(x, x.pending) = it[n]
    <3>1. PICK s : s = x.pending
      OBVIOUS
    <3>2. DOMAIN s = 1..n
      BY <1>2, <3>1
    <3>3. \E it : /\ it[0] = x
                  /\ \A m \in 0..n - 1 : it[m + 1] = MakeReady(it[m], s[m + 1])
                  /\ Draining!Fold(x, s) = it[n]
      BY <1>2, <3>2, Draining!FoldSteps
    <3> QED BY <3>1, <3>3
  <2>2. Draining!Fold(x, x.pending) = y
    BY MakeReadyFold
  <2> QED BY <2>1, <2>2
<1> DEFINE T == {m \in Nat : m <= n => Drained(x, it[m], at, Pl(m)) /\ Range(it[m].pending) = Rest(m)}
<1>4. 0 \in T
  <2>1. Pl(0) = at
    BY <1>1
  <2>2. Drained(x, x, at, at)
    BY DEF Drained, Same
  <2>3. Rest(0) = Range(x.pending)
    BY <1>2
  <2> HIDE DEF Pl, Rest
  <2> QED BY <1>3, <2>1, <2>2, <2>3
<1>5. ASSUME NEW m \in T PROVE m + 1 \in T
  <2>1. SUFFICES ASSUME m + 1 <= n
                 PROVE  Drained(x, it[m + 1], at, Pl(m + 1)) /\ Range(it[m + 1].pending) = Rest(m + 1)
    OBVIOUS
  <2>2. m \in 0..n - 1 /\ m \in Nat /\ m + 1 \in 1..n
    BY <1>2, <2>1
  <2>3. Drained(x, it[m], at, Pl(m)) /\ Range(it[m].pending) = Rest(m)
    BY <2>2, <1>2
  <2>4. PICK t \in Task : t = x.pending[m + 1]
    BY <1>1, <1>2, <2>2
  <2>5. it[m + 1] = MakeReady(it[m], t)
    BY <1>3, <2>2, <2>4
  <2>6. at[t] # "dying"
    BY <1>2, <2>2, <2>4
  <2>7. Pl(m + 1) = [Pl(m) EXCEPT ![t] = "ready"]
    <3>1. \A u \in Task : (\E i \in 1..m + 1 : x.pending[i] = u) <=> u = t \/ \E i \in 1..m : x.pending[i] = u
      <4>1. \A i \in 1..m + 1 : i = m + 1 \/ i \in 1..m
        BY <2>2
      <4>2. \A i \in 1..m : i \in 1..m + 1
        BY <2>2
      <4>3. m + 1 \in 1..m + 1
        BY <2>2
      <4> QED BY <2>4, <4>1, <4>2, <4>3
    <3> QED BY <3>1
  <2>8. \A u \in Task : Pl(m)[u] = at[u] \/ Pl(m)[u] = "ready"
    OBVIOUS
  <2>9. Rest(m + 1) = Rest(m) \ {t}
    <3>1. \A i \in m + 1..n : i \in 1..n /\ (i = m + 1 \/ i \in (m + 1) + 1..n)
      BY <1>2, <2>2
    <3>2. \A i \in (m + 1) + 1..n : i \in m + 1..n /\ i \in 1..n /\ i # m + 1
      BY <1>2, <2>2
    <3>3. \A i \in 1..n : x.pending[i] = t => i = m + 1
      BY <1>1, <1>2, <2>2, <2>4 DEF Distinct
    <3> QED BY <2>4, <3>1, <3>2, <3>3
  <2> HIDE DEF Pl, Rest
  <2>10. Sound(it[m], Pl(m))
    BY <2>3 DEF Drained
  <2>11. Brought(it[m], it[m + 1], Pl(m), t)
    BY <2>5, <2>10, PendingReadied
  <2>12. Drained(x, it[m + 1], at, Pl(m + 1))
    BY <1>1, <2>3, <2>6, <2>7, <2>8, <2>11, DrainedOne
  <2>13. Range(it[m + 1].pending) = Rest(m + 1)
    BY <2>3, <2>9, <2>11 DEF Brought
  <2> QED BY <2>12, <2>13
<1>6. Drained(x, y, at, Pl(n)) /\ Range(y.pending) = Rest(n)
  <2> HIDE DEF T, Pl, Rest
  <2>1. T \in SUBSET Nat
    BY DEF T
  <2>2. n \in T
    BY <1>2, <1>4, <1>5, <2>1, Draining!NatInd
  <2> QED BY <1>2, <1>3, <2>2 DEF T
<1>7. Pl(n) = to
  BY <1>2
<1>8. Rest(n) = {}
  BY <1>2
<1>9. y.pending = <<>>
  <2>1. y.pending \in Seq(Task)
    BY <1>6 DEF Drained, Sound, Shape, KernelState
  <2>2. y.pending # <<>> => y.pending[1] \in Range(y.pending)
    BY <2>1 DEF Range
  <2> QED BY <1>6, <1>8, <2>1, <2>2
<1> QED BY <1>6, <1>7, <1>9

NonePending(x, y, to) ==
  /\ Sound(y, to) /\ Same(x, y, Wakes \cup {"ypend", "unblock"}) /\ y.dying = x.dying
  /\ \A t \in Task : to[t] \in Asleep => y.wake[t] = x.wake[t]
  /\ Owed(y, to) /\ y.pending = <<>>

LEMMA Drains ==
  ASSUME NEW x, NEW at, Sound(x, at), Owed(x, at),
         \A t \in Range(x.pending) : at[t] \notin {"none", "dying"},
         NEW y, y = DrainPending(x),
         NEW to, to = [t \in Task |-> IF t \in Range(x.pending) THEN "ready" ELSE at[t]]
  PROVE  NonePending(x, y, to)
<1>1. at \in [Task -> Places]
  BY DEF Sound, Shape, Listed
<1>2. CASE x.pending = <<>>
  <2>1. y = x
    BY <1>2 DEF DrainPending
  <2>2. to = at
    <3>1. Range(x.pending) = {}
      BY <1>2 DEF Range
    <3> QED BY <1>1, <3>1
  <2> QED BY <1>2, <2>1, <2>2 DEF Same, NonePending
<1>3. CASE x.pending # <<>>
  <2>1. PICK z : z = FoldLeft(MakeReady, x, x.pending)
    OBVIOUS
  <2>2. y = prvResetNextTaskUnblockTime(z)
    BY <1>3, <2>1 DEF DrainPending
  <2>3. Drained(x, z, at, to) /\ z.pending = <<>>
    BY <2>1, PendingDrained
  <2>4. /\ Shape(y, to) /\ Same(z, y, {"unblock"})
        /\ \A t \in Task : to[t] = "delayed" => y.unblock <= z.wake[t]
    BY <2>2, <2>3, TimeReset DEF Drained, Sound
  <2>5. /\ y.pending = z.pending /\ y.dying = z.dying /\ y.wake = z.wake /\ y.tick = z.tick
        /\ y.ypend = z.ypend /\ y.prio = z.prio /\ y.cur = z.cur
    BY <2>4 DEF Same, Fields
  <2>6. InTime(y, to)
    BY <2>3, <2>4, <2>5 DEF Drained, Sound, InTime
  <2>7. Same(x, y, Wakes \cup {"ypend", "unblock"})
    BY <2>3, <2>4 DEF Drained, Same
  <2>8. Owed(y, to)
    BY <2>3, <2>5 DEF Drained, Owed, NoneAbove
  <2> QED BY <2>3, <2>4, <2>5, <2>6, <2>7, <2>8 DEF Drained, Sound, NonePending
<1> QED BY <1>2, <1>3

(* n ticks that were held back are made good for.                           *)
CaughtUp(x, y, at, to, n) ==
  /\ Sound(y, to) /\ Moved(at, to) /\ Elapsed(x, y, at, to, n)
  /\ Same(x, y, Times \cup {"ypend"}) /\ y.dying = x.dying
  /\ y.pending = <<>> /\ Owed(y, to)

LEMMA TickHeld ==
  ASSUME NEW x, NEW at, Sound(x, at), x.susp = 0, x.pending = <<>>, Owed(x, at),
         NEW i, NEW y, y = HeldTick(x, i)
  PROVE  \E to : CaughtUp(x, y, at, to, 1)
<1>1. PICK r : r = xTaskIncrementTick(x)
  OBVIOUS
<1>2. r.switch \in BOOLEAN
  BY <1>1, OneTick
<1>3. PICK to : Ticked(x, r.k, r.switch, at, to)
  BY <1>1, OneTick
<1>4. PICK z : z = r.k
  OBVIOUS
<1>5. /\ Sound(z, to) /\ Moved(at, to) /\ Elapsed(x, z, at, to, 1) /\ Same(x, z, Times)
      /\ z.dying = x.dying /\ z.pending = <<>>
  BY <1>3, <1>4 DEF Ticked
<1>6. z.ypend = x.ypend /\ z.ypend \in BOOLEAN /\ z.prio = x.prio /\ z.cur = x.cur
  BY <1>5 DEF Same, Fields, Times, Wakes, StateLinks, Sound, Shape, KernelState
<1>7. PICK b \in BOOLEAN : b <=> z.ypend \/ r.switch
  OBVIOUS
<1>8. y = [z EXCEPT !.ypend = b]
  BY <1>1, <1>2, <1>4, <1>6, <1>7 DEF HeldTick
<1>9. Sound(y, to) /\ Same(z, y, {"ypend"}) /\ y.ypend = b
  BY <1>5, <1>8, YpendChanged
<1>10. /\ y.pending = z.pending /\ y.dying = z.dying /\ y.wake = z.wake /\ y.tick = z.tick
       /\ y.prio = z.prio /\ y.cur = z.cur
  BY <1>9 DEF Same, Fields
<1>11. Elapsed(x, y, at, to, 1)
  BY <1>5, <1>10 DEF Elapsed, Rem
<1>12. Same(x, y, Times \cup {"ypend"})
  BY <1>5, <1>9 DEF Same
<1>13. Owed(y, to)
  <2>1. ASSUME ~b, NEW t \in Task, to[t] = "ready" PROVE x.prio[t] <= x.prio[x.cur]
    <3>1. ~x.ypend /\ ~r.switch
      BY <1>6, <1>7, <2>1
    <3>2. NoneAbove(x, at)
      BY <3>1 DEF Owed
    <3> QED BY <1>3, <2>1, <3>1, <3>2 DEF Ticked, NoneAbove
  <2> QED BY <1>6, <1>9, <1>10, <2>1 DEF Owed, NoneAbove
<1>14. CaughtUp(x, y, at, to, 1)
  BY <1>5, <1>9, <1>10, <1>11, <1>12, <1>13 DEF CaughtUp
<1> QED BY <1>14

LEMMA ElapsedOn ==
  ASSUME NEW x, NEW y, NEW z, NEW at, NEW to, NEW on, NEW n \in Nat,
         Sound(x, at), Sound(y, to), Elapsed(x, y, at, to, n), Elapsed(y, z, to, on, 1),
         y.pending = <<>>, Moved(to, on)
  PROVE  Elapsed(x, z, at, on, n + 1)
<1>1. x.tick \in Nat /\ x.wake \in [Task -> 0..MaxDelay] /\ MaxDelay \in Nat /\ TickMod \in Nat \ {0}
  <2>1. x.tick \in 0..MaxDelay /\ x.wake \in [Task -> 0..MaxDelay]
    BY DEF Sound, Shape, KernelState
  <2> QED BY <2>1, Numbers
<1>2. z.tick = (x.tick + (n + 1)) % TickMod
  <2>1. \A a \in Nat : ((a % TickMod) + 1) % TickMod = (a + 1) % TickMod
    BY <1>1, NextRemainder
  <2>2. x.tick + n \in Nat /\ (x.tick + n) + 1 = x.tick + (n + 1)
    BY <1>1
  <2> QED BY <2>1, <2>2 DEF Elapsed
<1>3. ASSUME NEW t \in Task \ Range(x.pending), at[t] \in Asleep
      PROVE  IF Rem(x, at, t) > n + 1
             THEN on[t] \in Asleep /\ Rem(z, on, t) = Rem(x, at, t) - (n + 1)
             ELSE on[t] = "ready"
  <2>1. IF Rem(x, at, t) > n THEN to[t] \in Asleep /\ Rem(y, to, t) = Rem(x, at, t) - n ELSE to[t] = "ready"
    BY <1>3 DEF Elapsed
  <2>2. Range(y.pending) = {}
    BY DEF Range
  <2>3. to[t] \in Asleep => IF Rem(y, to, t) > 1 THEN on[t] \in Asleep /\ Rem(z, on, t) = Rem(y, to, t) - 1
                                                 ELSE on[t] = "ready"
    BY <2>2 DEF Elapsed
  <2>4. to[t] = "ready" => on[t] = "ready"
    BY DEF Moved
  <2>5. Rem(x, at, t) \in Int
    <3>1. x.wake[t] \in 0..MaxDelay
      BY <1>1
    <3> QED BY <1>1, <3>1 DEF Rem
  <2>6. "ready" \notin Asleep
    BY DEF Asleep
  <2>7. \A r \in Int : (r > n => (r - n > 1 <=> r > n + 1)) /\ (~(r > n) => ~(r > n + 1)) /\ (r - n) - 1 = r - (n + 1)
    OBVIOUS
  <2> QED BY <2>1, <2>3, <2>4, <2>5, <2>6, <2>7
<1> QED BY <1>2, <1>3 DEF Elapsed

LEMMA MovedOn ==
  ASSUME NEW at, NEW to, NEW on, Moved(at, to), Moved(to, on)
  PROVE  Moved(at, on)
BY DEF Moved

LEMMA TicksCaughtUp ==
  ASSUME NEW x, NEW at, Sound(x, at), x.susp = 0, x.pending = <<>>, Owed(x, at),
         NEW n, n = x.pended, NEW y, y = FoldLeft(HeldTick, x, [i \in 1..n |-> i])
  PROVE  \E to : CaughtUp(x, y, at, to, n)
<1>1. n \in Nat /\ x.tick \in 0..MaxDelay /\ x.wake \in [Task -> 0..MaxDelay]
  BY DEF Sound, Shape, KernelState
<1>2. PICK s : s = [i \in 1..n |-> i]
  OBVIOUS
<1>3. PICK it : /\ it[0] = x
                /\ \A m \in 0..n - 1 : it[m + 1] = HeldTick(it[m], s[m + 1])
                /\ y = it[n]
  <2>1. DOMAIN s = 1..n
    BY <1>2
  <2>2. PICK it : /\ it[0] = x
                  /\ \A m \in 0..n - 1 : it[m + 1] = HeldTick(it[m], s[m + 1])
                  /\ Ticking!Fold(x, s) = it[n]
    BY ONLY <1>1, <2>1, Ticking!FoldSteps
  <2>3. Ticking!Fold(x, s) = y
    BY <1>2, HeldTickFold
  <2> QED BY <2>2, <2>3
<1> DEFINE T == {m \in Nat : m <= n => \E to : CaughtUp(x, it[m], at, to, m)}
<1>4. 0 \in T
  <2>1. x.tick = (x.tick + 0) % TickMod
    <3>1. x.tick \in 0..TickMod - 1 /\ TickMod \in Nat \ {0}
      BY <1>1, Numbers
    <3>2. \A m \in Nat \ {0} : \A a \in 0..m - 1 : a = (a + 0) % m
      OBVIOUS
    <3> QED BY <3>1, <3>2
  <2>2. ASSUME NEW t \in Task, at[t] \in Asleep PROVE Rem(x, at, t) > 0 /\ Rem(x, at, t) - 0 = Rem(x, at, t)
    <3>1. x.wake[t] \in 0..MaxDelay /\ x.tick \in 0..MaxDelay /\ MaxDelay \in Nat /\ TickMod = MaxDelay + 1
      BY <1>1, Numbers
    <3>2. at[t] = "delayed" => x.tick < x.wake[t]
      BY DEF Sound, InTime
    <3> QED BY <3>1, <3>2 DEF Rem
  <2>3. Elapsed(x, x, at, at, 0)
    BY <2>1, <2>2 DEF Elapsed
  <2>4. CaughtUp(x, x, at, at, 0)
    BY <2>3 DEF CaughtUp, Moved, Same
  <2> QED BY <1>3, <2>4
<1>5. ASSUME NEW m \in T PROVE m + 1 \in T
  <2>1. SUFFICES ASSUME m + 1 <= n PROVE \E to : CaughtUp(x, it[m + 1], at, to, m + 1)
    OBVIOUS
  <2>2. m \in 0..n - 1 /\ m \in Nat
    BY <1>1, <2>1
  <2>3. PICK to : CaughtUp(x, it[m], at, to, m)
    BY <1>1, <2>2
  <2>4. PICK i : i = s[m + 1]
    OBVIOUS
  <2>5. it[m + 1] = HeldTick(it[m], i)
    BY <1>3, <2>2, <2>4
  <2>6. it[m].susp = 0
    BY <2>3 DEF CaughtUp, Same, Fields, Times, Wakes, StateLinks
  <2>7. PICK on : CaughtUp(it[m], it[m + 1], to, on, 1)
    BY <2>3, <2>5, <2>6, TickHeld DEF CaughtUp
  <2>8. Elapsed(x, it[m + 1], at, on, m + 1)
    BY <2>2, <2>3, <2>7, ElapsedOn DEF CaughtUp
  <2>9. Moved(at, on)
    BY <2>3, <2>7, MovedOn DEF CaughtUp
  <2>10. Same(x, it[m + 1], Times \cup {"ypend"}) /\ it[m + 1].dying = x.dying
    BY <2>3, <2>7 DEF CaughtUp, Same
  <2>11. CaughtUp(x, it[m + 1], at, on, m + 1)
    BY <2>7, <2>8, <2>9, <2>10 DEF CaughtUp
  <2> QED BY <2>11
<1>6. n \in T
  <2> HIDE DEF T
  <2>1. T \in SUBSET Nat
    BY DEF T
  <2> QED BY <1>1, <1>4, <1>5, <2>1, Ticking!NatInd
<1>7. \E to : CaughtUp(x, it[n], at, to, n)
  <2>1. n <= n
    BY <1>1
  <2> QED BY <1>6, <2>1
<1> HIDE DEF T
<1> QED BY <1>3, <1>7

(* xTaskResumeAll at the outermost level: nothing is held back any more,    *)
(* and the best task runs unless the current one still has to yield.        *)
Resumed(x, y, yielded, at, to) ==
  /\ Sound(y, to) /\ Moved(at, to) /\ Elapsed(x, y, at, to, x.pended)
  /\ Same(x, y, Times \cup Turn \cup {"susp", "pended"}) /\ y.dying = x.dying
  /\ y.susp = 0 /\ y.pending = <<>> /\ y.pended = 0
  /\ \A t \in Range(x.pending) : to[t] = "ready"
  /\ yielded \in BOOLEAN
  /\ yielded => Best(y, to)
  /\ ~yielded => y.cur = x.cur /\ NoneAbove(y, to)

LEMMA SuspChanged ==
  ASSUME NEW x, NEW at, Sound(x, at), NEW n \in Nat, NEW y, y = [x EXCEPT !.susp = n]
  PROVE  Sound(y, at) /\ Same(x, y, {"susp"}) /\ y.susp = n
<1>1. x \in KernelState
  BY DEF Sound, Shape
<1>2. y \in KernelState /\ Same(x, y, {"susp"}) /\ y.susp = n
  BY <1>1 DEF KernelState, Same, Fields
<1>3. Same(x, y, Plain)
  BY <1>2 DEF Same, Plain
<1> QED BY <1>2, <1>3, SameSound

LEMMA RangeIn ==
  ASSUME NEW T, NEW s \in Seq(T)
  PROVE  Range(s) \subseteq T
BY DEF Range

LEMMA SchedulerResumed ==
  ASSUME NEW x, NEW at, Sound(x, at), x.susp = 1, Owed(x, at),
         \A t \in Range(x.pending) : at[t] \notin {"none", "dying"},
         NEW r, r = xTaskResumeAll(x)
  PROVE  \E to : Resumed(x, r.k, r.yielded, at, to)
<1>1. x \in KernelState /\ x.pended \in Nat /\ at \in [Task -> Places] /\ x.pending \in Seq(Task)
  BY DEF Sound, Shape, KernelState, Listed
<1>2. PICK x0 : x0 = [x EXCEPT !.susp = 0]
  OBVIOUS
<1>3. Sound(x0, at) /\ Same(x, x0, {"susp"}) /\ x0.susp = 0
  BY <1>2, SuspChanged
<1>4. /\ x0.ypend = x.ypend /\ x0.prio = x.prio /\ x0.cur = x.cur /\ x0.pending = x.pending
      /\ x0.dying = x.dying /\ x0.tick = x.tick /\ x0.wake = x.wake /\ x0.pended = x.pended
  BY <1>3 DEF Same, Fields
<1>5. PICK d : d = DrainPending(x0)
  OBVIOUS
<1>6. PICK on : on = [t \in Task |-> IF t \in Range(x0.pending) THEN "ready" ELSE at[t]]
  OBVIOUS
<1>7. Owed(x0, at) /\ \A t \in Range(x0.pending) : at[t] \notin {"none", "dying"}
  BY <1>4 DEF Owed, NoneAbove
<1>8. /\ Sound(d, on) /\ Same(x0, d, Wakes \cup {"ypend", "unblock"}) /\ d.dying = x0.dying
      /\ \A t \in Task : on[t] \in Asleep => d.wake[t] = x0.wake[t]
      /\ Owed(d, on) /\ d.pending = <<>>
  <2>1. NonePending(x0, d, on)
    BY <1>3, <1>5, <1>6, <1>7, Drains
  <2> QED BY <2>1 DEF NonePending
<1>9. d.susp = 0 /\ d.pended = x.pended /\ d.tick = x.tick
  BY <1>3, <1>4, <1>8 DEF Same, Fields, Wakes, StateLinks
<1>10. PICK n : n = x.pended
  OBVIOUS
<1>11. PICK c0 : c0 = FoldLeft(HeldTick, d, [i \in 1..n |-> i])
  OBVIOUS
<1>12. PICK to : CaughtUp(d, c0, on, to, n)
  BY <1>8, <1>9, <1>10, <1>11, TicksCaughtUp
<1>13. PICK c1 : c1 = [c0 EXCEPT !.pended = 0]
  OBVIOUS
<1>14. Sound(c1, to) /\ Same(c0, c1, {"pended"}) /\ c1.pended = 0
  <2>1. PICK n0 \in Nat : n0 = 0
    OBVIOUS
  <2>2. c1 = [c0 EXCEPT !.pended = n0]
    BY <1>13, <2>1
  <2>3. Sound(c0, to)
    BY <1>12 DEF CaughtUp
  <2>4. Sound(c1, to) /\ Same(c0, c1, {"pended"}) /\ c1.pended = n0
    BY <2>2, <2>3, PendedChanged
  <2> QED BY <2>1, <2>4
<1>15. /\ c1.ypend = c0.ypend /\ c1.prio = c0.prio /\ c1.cur = c0.cur /\ c1.pending = c0.pending
       /\ c1.dying = c0.dying /\ c1.tick = c0.tick /\ c1.wake = c0.wake /\ c1.susp = c0.susp
  BY <1>14 DEF Same, Fields
<1>16. c0.susp = 0 /\ c0.cur = x.cur
  BY <1>4, <1>8, <1>9, <1>12 DEF CaughtUp, Same, Fields, Times, Wakes, StateLinks
<1>17. c1 = CatchUp(DrainPending(x0))
  BY <1>5, <1>9, <1>10, <1>11, <1>13 DEF CatchUp
<1>18. /\ r.k = IF c1.ypend THEN vTaskSwitchContext(c1) ELSE c1
       /\ r.yielded = c1.ypend
  <2>1. ConfigAssert(x, x.susp > 0) = x
    BY DEF ConfigAssert
  <2>2. [ConfigAssert(x, x.susp > 0) EXCEPT !.susp = @ - 1] = x0
    <3>1. x.susp - 1 = 0
      OBVIOUS
    <3> QED BY <1>2, <2>1, <3>1
  <2>3. ~(x0.susp > 0)
    BY <1>3
  <2>4. r = [k |-> YieldIf(c1, c1.ypend), yielded |-> c1.ypend]
    BY <1>17, <2>2, <2>3 DEF xTaskResumeAll
  <2> QED BY <2>4 DEF YieldIf
<1>19. Moved(at, to)
  <2>1. Moved(at, on)
    BY <1>6, <1>7 DEF Moved
  <2> QED BY <1>12, <2>1, MovedOn DEF CaughtUp
<1>20. Elapsed(x, c1, at, to, n)
  <2>1. c1.tick = (x.tick + n) % TickMod
    BY <1>9, <1>12, <1>15 DEF CaughtUp, Elapsed
  <2>2. ASSUME NEW t \in Task \ Range(x.pending), at[t] \in Asleep
        PROVE  IF Rem(x, at, t) > n THEN to[t] \in Asleep /\ Rem(c1, to, t) = Rem(x, at, t) - n ELSE to[t] = "ready"
    <3>1. on[t] = at[t] /\ d.wake[t] = x.wake[t]
      BY <1>4, <1>6, <1>8, <2>2
    <3>2. Rem(d, on, t) = Rem(x, at, t)
      BY <1>9, <3>1 DEF Rem
    <3>3. Rem(c1, to, t) = Rem(c0, to, t)
      BY <1>15 DEF Rem
    <3>4. t \notin Range(d.pending)
      BY <1>8 DEF Range
    <3> QED BY <1>12, <2>2, <3>1, <3>2, <3>3, <3>4 DEF CaughtUp, Elapsed
  <2> QED BY <2>1, <2>2 DEF Elapsed
<1>21. Same(x, c1, Times \cup {"ypend", "susp", "pended"}) /\ c1.dying = x.dying /\ c1.pending = <<>>
  BY <1>3, <1>4, <1>8, <1>12, <1>14, <1>15 DEF CaughtUp, Same, Times
<1>22. Owed(c1, to)
  BY <1>12, <1>15 DEF CaughtUp, Owed, NoneAbove
<1>26. \A t \in Range(x.pending) : to[t] = "ready"
  <2>1. Range(x.pending) \subseteq Task
    BY <1>1, RangeIn
  <2>2. \A t \in Range(x.pending) : on[t] = "ready"
    BY <1>4, <1>6, <2>1
  <2> QED BY <1>12, <2>1, <2>2 DEF CaughtUp, Moved
<1>23. c1.ypend \in BOOLEAN
  BY <1>14 DEF Sound, Shape, KernelState
<1>24. CASE c1.ypend
  <2>1. PICK y : y = r.k
    OBVIOUS
  <2>2. Shape(y, to) /\ Same(c1, y, Turn) /\ Best(y, to)
    BY <1>14, <1>15, <1>16, <1>18, <1>24, <2>1, Switched DEF Sound
  <2>3. InTime(y, to)
    BY <1>14, <2>2, SameTurn DEF Sound
  <2>4. /\ y.pending = c1.pending /\ y.dying = c1.dying /\ y.tick = c1.tick /\ y.wake = c1.wake
        /\ y.susp = c1.susp /\ y.pended = c1.pended
    BY <2>2 DEF Same, Fields, Turn
  <2>5. Elapsed(x, y, at, to, n)
    BY <1>20, <2>4 DEF Elapsed, Rem
  <2>6. Same(x, y, Times \cup Turn \cup {"susp", "pended"})
    BY <1>21, <2>2 DEF Same, Turn
  <2>7. Resumed(x, y, TRUE, at, to)
    BY <1>10, <1>14, <1>15, <1>16, <1>19, <1>21, <1>26, <2>2, <2>3, <2>4, <2>5, <2>6 DEF Resumed, Sound
  <2> QED BY <1>18, <1>24, <2>1, <2>7
<1>25. CASE ~c1.ypend
  <2>1. NoneAbove(c1, to) /\ c1.cur = x.cur /\ c1.susp = 0
    BY <1>15, <1>16, <1>22, <1>25 DEF Owed
  <2>2. Same(x, c1, Times \cup Turn \cup {"susp", "pended"})
    BY <1>21 DEF Same, Turn
  <2>3. Resumed(x, c1, FALSE, at, to)
    BY <1>10, <1>14, <1>19, <1>20, <1>21, <1>26, <2>1, <2>2 DEF Resumed
  <2>4. r.k = c1 /\ r.yielded = FALSE
    BY <1>18, <1>23, <1>25
  <2> QED BY <2>3, <2>4
<1> QED BY <1>23, <1>24, <1>25

-----------------------------------------------------------------------------
(* The current task goes to sleep                                           *)

LEMMA PutListed ==
  ASSUME NEW x, NEW on, NEW pr, Listed(x, on, pr), NEW t \in Task, on[t] = "none",
         NEW place \in {"delayed", "overflow", "suspended", "dying"},
         NEW to, to = [on EXCEPT ![t] = place],
         NEW y, y.ready = x.ready,
         \A f \in {"delayed", "overflow", "suspended", "dying"} \ {place} : y[f] = x[f],
         InPlace(y[place], to, place), Sorted(y.delayed, y.wake), Sorted(y.overflow, y.wake)
  PROVE  Listed(y, to, pr)
<1>1. on \in [Task -> Places]
  BY DEF Listed
<1>2. to \in [Task -> Places]
  BY <1>1 DEF Places
<1>3. ASSUME NEW f \in {"delayed", "overflow", "suspended", "dying"} PROVE InPlace(y[f], to, f)
  <2>1. CASE f = place
    BY <2>1
  <2>2. CASE f # place
    <3>1. y[f] = x[f] /\ InPlace(x[f], on, f)
      BY <2>2 DEF Listed
    <3>2. \A u \in Task : to[u] = f <=> on[u] = f
      BY <1>1, <2>2
    <3> QED BY <3>1, <3>2 DEF InPlace
  <2> QED BY <2>1, <2>2
<1>4. \A u \in Task : to[u] = "ready" <=> on[u] = "ready"
  BY <1>1
<1>5. \A p \in Priority :
        /\ Distinct(y.ready[p])
        /\ Range(y.ready[p]) = {END} \cup {u \in Task : to[u] = "ready" /\ pr[u] = p}
  BY <1>4 DEF Listed
<1> QED BY <1>2, <1>3, <1>5 DEF Listed

LEMMA AppendPlace ==
  ASSUME NEW on \in [Task -> Places], NEW place \in Places \ {"none"}, NEW list \in Seq(Task), InPlace(list, on, place),
         NEW t \in Task, on[t] = "none", NEW to, to = [on EXCEPT ![t] = place],
         NEW r, r = Append(list, t)
  PROVE  r \in Seq(Task) /\ InPlace(r, to, place)
<1>1. t \notin Range(list) /\ Distinct(list) /\ Range(list) = {u \in Task : on[u] = place}
  BY DEF InPlace
<1>2. r \in Seq(Task) /\ Distinct(r) /\ Range(r) = Range(list) \cup {t}
  BY <1>1, AppendList
<1>3. Range(list) \cup {t} = {u \in Task : to[u] = place}
  BY <1>1
<1> QED BY <1>2, <1>3 DEF InPlace

LEMMA InsertPlace ==
  ASSUME NEW on \in [Task -> Places], NEW place \in Places \ {"none"}, NEW list \in Seq(Task), InPlace(list, on, place),
         NEW t \in Task, on[t] = "none", NEW to, to = [on EXCEPT ![t] = place],
         NEW value \in [Task -> Int], Sorted(list, value), NEW r, r = Insert(list, value, t)
  PROVE  r \in Seq(Task) /\ InPlace(r, to, place) /\ Sorted(r, value)
<1>1. t \notin Range(list) /\ Distinct(list) /\ Range(list) = {u \in Task : on[u] = place}
  BY DEF InPlace
<1>2. r \in Seq(Task) /\ Distinct(r) /\ Range(r) = Range(list) \cup {t} /\ Sorted(r, value)
  BY <1>1, InsertList
<1>3. Range(list) \cup {t} = {u \in Task : to[u] = place}
  BY <1>1
<1> QED BY <1>2, <1>3 DEF InPlace

(* Where the task is, and how long it sleeps.                               *)
Slept(x, y, at, place, n, indefinitely) ==
  LET to == [at EXCEPT ![x.cur] = place] IN
  /\ Sound(y, to) /\ Same(x, y, StateLinks \cup {"top", "unblock", "aborted"})
  /\ y.dying = x.dying
  /\ \A u \in Task \ {x.cur} : y.wake[u] = x.wake[u]
  /\ place \in {"delayed", "overflow", "suspended"}
  /\ place = "suspended" => n = MaxDelay /\ indefinitely
  /\ place # "suspended" => Rem(y, to, x.cur) = n

LEMMA WakeTime ==
  ASSUME NEW i \in 0..MaxDelay, NEW n \in 1..MaxDelay, NEW w, w = (i + n) % TickMod
  PROVE  /\ w \in 0..MaxDelay /\ w # i
         /\ w < i => w + TickMod - i = n
         /\ ~(w < i) => i < w /\ w - i = n
<1>1. TickMod \in Nat \ {0, 1} /\ MaxDelay = TickMod - 1 /\ MaxDelay \in Nat
  BY Numbers
<1>2. CASE i + n < TickMod
  <2>1. w = i + n
    <3>1. i + n \in 0..TickMod - 1
      BY <1>1, <1>2
    <3>2. \A m \in Nat \ {0} : \A a \in 0..m - 1 : a % m = a
      OBVIOUS
    <3> QED BY <1>1, <3>1, <3>2
  <2> QED BY <1>1, <1>2, <2>1
<1>3. CASE ~(i + n < TickMod)
  <2>1. w = i + n - TickMod
    <3>1. i + n - TickMod \in 0..TickMod - 1 /\ i + n = TickMod * 1 + (i + n - TickMod)
      BY <1>1, <1>3
    <3>2. (TickMod * 1 + (i + n - TickMod)) % TickMod = i + n - TickMod
      BY <1>1, <3>1, Remainder
    <3> QED BY <3>1, <3>2
  <2> QED BY <1>1, <1>3, <2>1
<1> QED BY <1>2, <1>3

LEMMA AbortedCleared ==
  ASSUME NEW x \in KernelState, NEW t \in Task, NEW y, y = [x EXCEPT !.aborted[t] = FALSE]
  PROVE  y \in KernelState /\ Same(x, y, {"aborted"})
BY DEF KernelState, Same, Fields

LEMMA ListChanged ==
  ASSUME NEW x \in KernelState, NEW list \in Seq(Task)
  PROVE  /\ [x EXCEPT !.suspended = list] \in KernelState
         /\ [x EXCEPT !.overflow = list] \in KernelState
         /\ [x EXCEPT !.dying = list] \in KernelState
         /\ [x EXCEPT !.pending = list] \in KernelState
BY DEF KernelState

LEMMA DelayedChanged ==
  ASSUME NEW x \in KernelState, NEW list \in Seq(Task), NEW u \in 0..MaxDelay
  PROVE  [x EXCEPT !.delayed = list, !.unblock = u] \in KernelState
BY DEF KernelState

LEMMA OutOfSorted ==
  ASSUME NEW list \in Seq(Task), NEW wake, NEW t, NEW w, t \notin Range(list), Sorted(list, wake),
         NEW new, \A u \in Task \ {t} : new[u] = wake[u]
  PROVE  Sorted(list, new)
<1>1. \A i \in DOMAIN list : list[i] \in Task \ {t}
  BY DEF Range
<1> QED BY <1>1 DEF Sorted

LEMMA Delayed ==
  ASSUME NEW x, NEW at, Sound(x, at), at[x.cur] = "ready", x.cur # Idle, NEW n \in 1..MaxDelay,
         NEW indefinitely \in BOOLEAN, NEW y, y = prvAddCurrentTaskToDelayedList(x, n, indefinitely)
  PROVE  \E place : Slept(x, y, at, place, n, indefinitely)
<1>1. /\ x \in KernelState /\ Listed(x, at, x.prio) /\ at \in [Task -> Places] /\ x.prio \in [Task -> Priority]
      /\ x.cur \in Task /\ x.tick \in 0..MaxDelay /\ x.base = x.prio /\ ~x.halted /\ at[Idle] = "ready"
      /\ \A p \in Priority : p \in x.top <=> \E u \in Task : at[u] = "ready" /\ x.prio[u] = p
      /\ MaxDelay \in Nat /\ x.unblock \in 0..MaxDelay
  BY Numbers DEF Sound, Shape, KernelState, Listed, Bits
<1>2. PICK t \in Task : t = x.cur
  BY <1>1
<1>3. PICK on : on = [at EXCEPT ![t] = "none"]
  OBVIOUS
<1>4. PICK z : z = RemoveAndReset(x, t, x.prio[t])
  OBVIOUS
<1>5. LeftReady(x, z, at, x.prio, t)
  BY <1>1, <1>2, <1>4, Unreadied
<1>6. /\ z \in KernelState /\ Listed(z, on, x.prio) /\ Same(x, z, StateLinks \cup {"top"})
      /\ \A p \in Priority : p \in z.top <=> \E u \in Task : on[u] = "ready" /\ x.prio[u] = p
      /\ z.dying = x.dying /\ z.wake = [x.wake EXCEPT ![t] = 0]
  BY <1>3, <1>5 DEF LeftReady
<1>7. PICK w : w = (x.tick + n) % TickMod
  OBVIOUS
<1>8. w \in 0..MaxDelay /\ (w < x.tick => w + TickMod - x.tick = n) /\ (~(w < x.tick) => x.tick < w /\ w - x.tick = n)
  BY <1>1, <1>7, WakeTime
<1>9. PICK k1 : k1 = [z EXCEPT !.aborted[t] = FALSE]
  OBVIOUS
<1>10. PICK k2 : k2 = [k1 EXCEPT !.wake[t] = w]
  OBVIOUS
<1>11. /\ k1 \in KernelState /\ Same(z, k1, {"aborted"})
       /\ k2 \in KernelState /\ Same(z, k2, {"aborted", "wake"}) /\ k2.wake = [z.wake EXCEPT ![t] = w]
  <2>1. z \in KernelState /\ w \in 0..MaxDelay
    BY <1>6, <1>8
  <2>2. k1 \in KernelState /\ Same(z, k1, {"aborted"})
    BY <2>1, <1>9, AbortedCleared
  <2>3. k2 \in KernelState /\ Same(k1, k2, {"wake"}) /\ k2.wake = [k1.wake EXCEPT ![t] = w]
    <3>1. k1 \in KernelState /\ w \in 0..MaxDelay
      BY <2>1, <2>2
    <3> QED BY <3>1, <1>10 DEF KernelState, Same, Fields
  <2>4. k1.wake = z.wake
    BY <2>2 DEF Same, Fields
  <2>5. Same(z, k2, {"aborted", "wake"})
    BY <2>2, <2>3 DEF Same
  <2> QED BY <2>2, <2>3, <2>4, <2>5
<1>12. y = IF n = MaxDelay /\ indefinitely THEN [k1 EXCEPT !.suspended = Append(k1.suspended, t)]
           ELSE IF k2.wake[t] < x.tick
           THEN [k2 EXCEPT !.overflow = Insert(k2.overflow, k2.wake, t)]
           ELSE [k2 EXCEPT !.delayed = Insert(k2.delayed, k2.wake, t),
                           !.unblock = IF k2.wake[t] < k2.unblock THEN k2.wake[t] ELSE k2.unblock]
  <2> DEFINE K1 == [RemoveAndReset(x, x.cur, x.prio[x.cur]) EXCEPT !.aborted[x.cur] = FALSE]
             K2 == [K1 EXCEPT !.wake[x.cur] = (x.tick + n) % TickMod]
  <2>1. K1 = k1
    BY <1>2, <1>4, <1>9
  <2>2. K2 = k2
    BY <1>2, <1>7, <1>10, <2>1
  <2>3. y = IF n = MaxDelay /\ indefinitely THEN [K1 EXCEPT !.suspended = Append(K1.suspended, x.cur)]
            ELSE IF K2.wake[x.cur] < x.tick
            THEN [K2 EXCEPT !.overflow = Insert(K2.overflow, K2.wake, x.cur)]
            ELSE [K2 EXCEPT !.delayed = Insert(K2.delayed, K2.wake, x.cur),
                            !.unblock = IF K2.wake[x.cur] < K2.unblock THEN K2.wake[x.cur] ELSE K2.unblock]
    BY DEF prvAddCurrentTaskToDelayedList
  <2> HIDE DEF K1, K2
  <2> QED BY <1>2, <2>1, <2>2, <2>3
<1>13. on \in [Task -> Places] /\ on[t] = "none"
  BY <1>1, <1>3 DEF Places
<1>14. /\ k1.wake = z.wake /\ k1.ready = z.ready /\ k1.delayed = z.delayed /\ k1.overflow = z.overflow
       /\ k1.suspended = z.suspended /\ k1.dying = z.dying /\ k1.top = z.top /\ k1.unblock = z.unblock
       /\ k2.ready = z.ready /\ k2.delayed = z.delayed /\ k2.overflow = z.overflow
       /\ k2.suspended = z.suspended /\ k2.dying = z.dying /\ k2.top = z.top /\ k2.unblock = z.unblock
  BY <1>11 DEF Same, Fields
<1>15. /\ z.unblock = x.unblock /\ z.prio = x.prio /\ z.tick = x.tick
       /\ z.wake \in [Task -> 0..MaxDelay] /\ z.delayed \in Seq(Task) /\ z.overflow \in Seq(Task) /\ z.suspended \in Seq(Task)
       /\ k2.wake \in [Task -> 0..MaxDelay] /\ k2.wake[t] = w /\ k2.unblock \in 0..MaxDelay
  <2>1. z.unblock = x.unblock /\ z.prio = x.prio /\ z.tick = x.tick
    BY <1>6 DEF Same, Fields, StateLinks
  <2>2. z.wake \in [Task -> 0..MaxDelay] /\ z.delayed \in Seq(Task) /\ z.overflow \in Seq(Task) /\ z.suspended \in Seq(Task)
    BY <1>6 DEF KernelState
  <2>3. k2.wake \in [Task -> 0..MaxDelay] /\ k2.unblock \in 0..MaxDelay
    BY <1>11 DEF KernelState
  <2> QED BY <1>11, <2>1, <2>2, <2>3
<1>16. k2.wake \in [Task -> Int]
  BY <1>15, Numbers
<1>17. /\ InPlace(z.delayed, on, "delayed") /\ InPlace(z.overflow, on, "overflow") /\ InPlace(z.suspended, on, "suspended")
       /\ Sorted(z.delayed, z.wake) /\ Sorted(z.overflow, z.wake)
  BY <1>6 DEF Listed
<1>18. /\ Sorted(z.delayed, k2.wake) /\ Sorted(z.overflow, k2.wake)
  <2>1. t \notin Range(z.delayed) /\ t \notin Range(z.overflow)
    BY <1>13, <1>17 DEF InPlace
  <2>2. \A u \in Task \ {t} : k2.wake[u] = z.wake[u]
    BY <1>11, <1>15
  <2> QED BY <1>15, <1>17, <2>1, <2>2, OutOfSorted
<1>19. Listed(k1, on, x.prio) /\ Listed(z, on, x.prio)
  <2>1. {"aborted"} \cap StateLinks = {}
    BY DEF StateLinks
  <2> QED BY <1>6, <1>11, <2>1, SameLists
<1>20. \A u \in Task \ {t} : z.wake[u] = x.wake[u] /\ k2.wake[u] = x.wake[u]
  <2>1. x.wake \in [Task -> 0..MaxDelay]
    BY <1>1 DEF KernelState
  <2> QED BY <1>6, <1>11, <1>15, <2>1
(* What is common to the three cases.                                       *)
<1>21. ASSUME NEW place \in {"delayed", "overflow", "suspended"}, NEW v, NEW to, to = [at EXCEPT ![t] = place],
              v \in KernelState, Same(z, v, {"aborted", "wake", "delayed", "overflow", "suspended", "unblock"}),
              Listed(v, to, x.prio), \A u \in Task \ {t} : v.wake[u] = x.wake[u],
              v.unblock <= x.unblock, place = "delayed" => x.tick < v.wake[t] /\ v.unblock <= v.wake[t],
              place = "suspended" => n = MaxDelay /\ indefinitely,
              place # "suspended" => Rem(v, to, t) = n
       PROVE  Slept(x, v, at, place, n, indefinitely)
  <2>1. Same(x, v, StateLinks \cup {"top", "unblock", "aborted"})
    BY <1>6, <1>21 DEF Same, StateLinks
  <2>2. /\ v.dying = z.dying /\ v.top = z.top /\ v.prio = x.prio /\ v.base = x.base /\ v.pending = x.pending
        /\ v.evl = x.evl /\ v.halted = x.halted /\ v.tick = x.tick
    BY <1>21, <2>1 DEF Same, Fields, StateLinks
  <2>3. \A u \in Task : to[u] = "ready" <=> on[u] = "ready"
    BY <1>1, <1>3, <1>21
  <2>4. Bits(v, to)
    BY <1>6, <2>2, <2>3 DEF Bits
  <2>5. to[Idle] = "ready"
    BY <1>1, <1>2, <1>21, Numbers
  <2>6. Distinct(v.pending) /\ \A l \in EventList : v.evl[l] = <<>>
    BY <2>2 DEF Sound, Shape
  <2>7. Shape(v, to)
    BY <1>1, <1>21, <2>2, <2>4, <2>5, <2>6 DEF Shape
  <2>8. ASSUME NEW u \in Task, to[u] = "delayed" PROVE v.tick < v.wake[u] /\ v.unblock <= v.wake[u]
    <3>1. CASE u = t
      BY <1>1, <1>21, <2>2, <2>8, <3>1
    <3>2. CASE u # t
      <4>1. at[u] = "delayed"
        BY <1>1, <1>21, <2>8, <3>2
      <4>2. x.tick < x.wake[u] /\ x.unblock <= x.wake[u]
        BY <4>1 DEF Sound, InTime
      <4>3. v.unblock \in Int /\ x.unblock \in Int /\ x.wake[u] \in Int
        <5>1. v.unblock \in 0..MaxDelay /\ x.unblock \in 0..MaxDelay /\ x.wake[u] \in 0..MaxDelay
          BY <1>1, <1>21 DEF KernelState
        <5> QED BY <1>1, <5>1
      <4> QED BY <1>21, <2>2, <3>2, <4>2, <4>3
    <3> QED BY <3>1, <3>2
  <2>9. Sound(v, to)
    BY <2>7, <2>8 DEF Sound, InTime
  <2> QED BY <1>2, <1>6, <1>21, <2>1, <2>2, <2>9 DEF Slept
<1>22. CASE n = MaxDelay /\ indefinitely
  <2>1. y = [k1 EXCEPT !.suspended = Append(k1.suspended, t)]
    BY <1>12, <1>22
  <2>2. PICK list : list = Append(k1.suspended, t)
    OBVIOUS
  <2>3. PICK to : to = [at EXCEPT ![t] = "suspended"]
    OBVIOUS
  <2>4. to = [on EXCEPT ![t] = "suspended"]
    BY <1>1, <1>3, <2>3
  <2>5. list \in Seq(Task) /\ InPlace(list, to, "suspended")
    <3>1. list = Append(z.suspended, t) /\ z.suspended \in Seq(Task) /\ InPlace(z.suspended, on, "suspended")
      BY <1>14, <1>15, <1>17, <2>2
    <3>2. "suspended" \in Places \ {"none"}
      BY DEF Places
    <3> QED BY <1>13, <2>4, <3>1, <3>2, AppendPlace
  <2>6. y \in KernelState
    <3>1. k1 \in KernelState /\ k2 \in KernelState
      BY <1>11
    <3> QED BY <2>1, <2>2, <2>5, <3>1, ListChanged
  <2>7. Same(k1, y, {"suspended"}) /\ y.suspended = list
    BY <1>11, <2>1, <2>2 DEF KernelState, Same, Fields
  <2>8. Same(z, y, {"aborted", "suspended"})
    BY <1>11, <2>7 DEF Same
  <2>9. /\ y.ready = z.ready /\ y.delayed = z.delayed /\ y.overflow = z.overflow /\ y.dying = z.dying
        /\ y.wake = z.wake /\ y.unblock = x.unblock
    BY <1>15, <2>8 DEF Same, Fields
  <2>10. Listed(y, to, x.prio)
    <3>1. InPlace(y["suspended"], to, "suspended")
      BY <2>5, <2>7
    <3>2. \A f \in {"delayed", "overflow", "suspended", "dying"} \ {"suspended"} : y[f] = z[f]
      BY <2>9
    <3>3. Sorted(y.delayed, y.wake) /\ Sorted(y.overflow, y.wake)
      BY <1>17, <2>9
    <3>4. "suspended" \in {"delayed", "overflow", "suspended", "dying"}
      OBVIOUS
    <3> QED BY <1>13, <1>19, <2>4, <2>9, <3>1, <3>2, <3>3, <3>4, PutListed
  <2>11. Same(z, y, {"aborted", "wake", "delayed", "overflow", "suspended", "unblock"})
    BY <2>8 DEF Same
  <2>12. y.unblock <= x.unblock
    BY <1>1, <2>9
  <2>13. Slept(x, y, at, "suspended", n, indefinitely)
    BY <1>20, <1>21, <1>22, <2>3, <2>6, <2>9, <2>10, <2>11, <2>12
  <2> QED BY <2>13
<1>23. CASE ~(n = MaxDelay /\ indefinitely) /\ w < x.tick
  <2>1. y = [k2 EXCEPT !.overflow = Insert(k2.overflow, k2.wake, t)]
    BY <1>12, <1>15, <1>23
  <2>2. PICK list : list = Insert(k2.overflow, k2.wake, t)
    OBVIOUS
  <2>3. PICK to : to = [at EXCEPT ![t] = "overflow"]
    OBVIOUS
  <2>4. to = [on EXCEPT ![t] = "overflow"]
    BY <1>1, <1>3, <2>3
  <2>5. list \in Seq(Task) /\ InPlace(list, to, "overflow") /\ Sorted(list, k2.wake)
    <3>1. /\ list = Insert(z.overflow, k2.wake, t) /\ z.overflow \in Seq(Task)
          /\ InPlace(z.overflow, on, "overflow") /\ Sorted(z.overflow, k2.wake)
      BY <1>14, <1>15, <1>17, <1>18, <2>2
    <3>2. "overflow" \in Places \ {"none"}
      BY DEF Places
    <3> QED BY <1>13, <1>16, <2>4, <3>1, <3>2, InsertPlace
  <2>6. y \in KernelState
    <3>1. k1 \in KernelState /\ k2 \in KernelState
      BY <1>11
    <3> QED BY <2>1, <2>2, <2>5, <3>1, ListChanged
  <2>7. Same(k2, y, {"overflow"}) /\ y.overflow = list
    BY <1>11, <2>1, <2>2 DEF KernelState, Same, Fields
  <2>8. Same(z, y, {"aborted", "wake", "overflow"})
    BY <1>11, <2>7 DEF Same
  <2>9. /\ y.ready = z.ready /\ y.delayed = z.delayed /\ y.suspended = z.suspended /\ y.dying = z.dying
        /\ y.wake = k2.wake /\ y.unblock = x.unblock /\ y.tick = x.tick
    BY <1>15, <2>7, <2>8 DEF Same, Fields
  <2>10. Listed(y, to, x.prio)
    <3>1. InPlace(y["overflow"], to, "overflow")
      BY <2>5, <2>7
    <3>2. \A f \in {"delayed", "overflow", "suspended", "dying"} \ {"overflow"} : y[f] = z[f]
      BY <2>9
    <3>3. Sorted(y.delayed, y.wake) /\ Sorted(y.overflow, y.wake)
      BY <1>18, <2>5, <2>7, <2>9
    <3>4. "overflow" \in {"delayed", "overflow", "suspended", "dying"}
      OBVIOUS
    <3> QED BY <1>13, <1>19, <2>4, <2>9, <3>1, <3>2, <3>3, <3>4, PutListed
  <2>11. Same(z, y, {"aborted", "wake", "delayed", "overflow", "suspended", "unblock"})
    BY <2>8 DEF Same
  <2>12. y.unblock <= x.unblock
    BY <1>1, <2>9
  <2>13. Rem(y, to, t) = n
    <3>1. to[t] = "overflow"
      BY <1>1, <2>3
    <3> QED BY <1>8, <1>15, <1>23, <2>9, <3>1 DEF Rem
  <2>14. Slept(x, y, at, "overflow", n, indefinitely)
    BY <1>20, <1>21, <1>23, <2>3, <2>6, <2>9, <2>10, <2>11, <2>12, <2>13
  <2> QED BY <2>14
<1>24. CASE ~(n = MaxDelay /\ indefinitely) /\ ~(w < x.tick)
  <2>1. PICK list : list = Insert(k2.delayed, k2.wake, t)
    OBVIOUS
  <2>2. PICK b : b = IF w < x.unblock THEN w ELSE x.unblock
    OBVIOUS
  <2>3. y = [k2 EXCEPT !.delayed = list, !.unblock = b]
    BY <1>12, <1>14, <1>15, <1>24, <2>1, <2>2
  <2>4. PICK to : to = [at EXCEPT ![t] = "delayed"]
    OBVIOUS
  <2>5. to = [on EXCEPT ![t] = "delayed"]
    BY <1>1, <1>3, <2>4
  <2>6. list \in Seq(Task) /\ InPlace(list, to, "delayed") /\ Sorted(list, k2.wake)
    <3>1. /\ list = Insert(z.delayed, k2.wake, t) /\ z.delayed \in Seq(Task)
          /\ InPlace(z.delayed, on, "delayed") /\ Sorted(z.delayed, k2.wake)
      BY <1>14, <1>15, <1>17, <1>18, <2>1
    <3>2. "delayed" \in Places \ {"none"}
      BY DEF Places
    <3> QED BY <1>13, <1>16, <2>5, <3>1, <3>2, InsertPlace
  <2>7. b \in 0..MaxDelay /\ b <= x.unblock /\ b <= w
    BY <1>1, <1>8, <2>2
  <2>8. y \in KernelState
    <3>1. k2 \in KernelState
      BY <1>11
    <3> QED BY ZenonT(30), <2>3, <2>6, <2>7, <3>1, DelayedChanged
  <2>9. Same(k2, y, {"delayed", "unblock"}) /\ y.delayed = list /\ y.unblock = b
    BY <1>11, <2>3 DEF KernelState, Same, Fields
  <2>10. Same(z, y, {"aborted", "wake", "delayed", "unblock"})
    BY <1>11, <2>9 DEF Same
  <2>11. /\ y.ready = z.ready /\ y.overflow = z.overflow /\ y.suspended = z.suspended /\ y.dying = z.dying
         /\ y.wake = k2.wake /\ y.tick = x.tick
    BY <1>15, <2>9, <2>10 DEF Same, Fields
  <2>12. Listed(y, to, x.prio)
    <3>1. InPlace(y["delayed"], to, "delayed")
      BY <2>6, <2>9
    <3>2. \A f \in {"delayed", "overflow", "suspended", "dying"} \ {"delayed"} : y[f] = z[f]
      BY <2>11
    <3>3. Sorted(y.delayed, y.wake) /\ Sorted(y.overflow, y.wake)
      BY <1>18, <2>6, <2>9, <2>11
    <3>4. "delayed" \in {"delayed", "overflow", "suspended", "dying"}
      OBVIOUS
    <3> QED BY <1>13, <1>19, <2>5, <2>11, <3>1, <3>2, <3>3, <3>4, PutListed
  <2>13. Same(z, y, {"aborted", "wake", "delayed", "overflow", "suspended", "unblock"})
    BY <2>10 DEF Same
  <2>14. Rem(y, to, t) = n
    <3>1. to[t] = "delayed"
      BY <1>1, <2>4
    <3> QED BY <1>8, <1>15, <1>24, <2>11, <3>1 DEF Rem
  <2>15. x.tick < y.wake[t] /\ y.unblock <= y.wake[t]
    BY <1>8, <1>15, <1>24, <2>7, <2>9, <2>11
  <2>16. Slept(x, y, at, "delayed", n, indefinitely)
    BY <1>20, <1>21, <2>4, <2>7, <2>8, <2>9, <2>11, <2>12, <2>13, <2>14, <2>15
  <2> QED BY <2>16
<1> QED BY <1>22, <1>23, <1>24

-----------------------------------------------------------------------------
(* Calls that wake a task                                                   *)

NoNewAbove(x, z, at, to) ==
  \A t \in Task : to[t] = "ready" /\ z.prio[t] > z.prio[z.cur]
                    => at[t] = "ready" /\ x.prio[t] > x.prio[x.cur]

Kept(x, z, y, at, to) ==
  /\ Sound(y, to) /\ Keeps(x, y, at, to) /\ Same(z, y, Turn) /\ y.dying = z.dying
  /\ y.pending = z.pending

LEMMA YieldKeeps ==
  ASSUME NEW x, NEW at, NEW z, NEW to, Sound(z, to), z.susp = x.susp, z.cur = x.cur,
         NEW cond \in BOOLEAN, ~cond => (x.ypend => z.ypend) /\ NoNewAbove(x, z, at, to),
         NEW y, y = YieldIf(z, cond)
  PROVE  Kept(x, z, y, at, to)
<1>1. z \in KernelState /\ z.susp \in Nat
  BY DEF Sound, Shape, KernelState
<1>2. CASE ~cond
  <2>1. y = z
    BY <1>2 DEF YieldIf
  <2> QED BY <1>2, <2>1 DEF Keeps, Same, NoNewAbove, Kept
<1>3. CASE cond /\ z.susp = 0
  <2>1. y = vTaskSwitchContext(z)
    BY <1>3 DEF YieldIf
  <2>2. Shape(y, to) /\ Same(z, y, Turn) /\ Best(y, to)
    BY <1>3, <2>1, Switched DEF Sound
  <2>3. InTime(y, to)
    BY <2>2, SameTurn DEF Sound
  <2>4. y.susp = z.susp /\ y.dying = z.dying /\ y.pending = z.pending
    BY <2>2 DEF Same, Fields, Turn
  <2> QED BY <1>3, <2>2, <2>3, <2>4 DEF Keeps, Sound, Kept
<1>4. CASE cond /\ z.susp > 0
  <2>1. y = [z EXCEPT !.ypend = TRUE]
    BY <1>4 DEF YieldIf, vTaskSwitchContext
  <2>2. PICK b \in BOOLEAN : b = TRUE
    OBVIOUS
  <2>3. y = [z EXCEPT !.ypend = b]
    BY <2>1, <2>2
  <2>4. Sound(y, to) /\ Same(z, y, {"ypend"}) /\ y.ypend = b
    BY <2>3, YpendChanged
  <2>5. y.susp = z.susp /\ y.dying = z.dying /\ y.pending = z.pending /\ y.cur = z.cur
    BY <2>4 DEF Same, Fields
  <2>6. Same(z, y, Turn)
    BY <2>4 DEF Same, Turn
  <2> QED BY <1>4, <2>2, <2>4, <2>5, <2>6 DEF Keeps, Kept
<1> QED BY <1>1, <1>2, <1>3, <1>4

AnyTurn == Wakes \cup Turn

(* Only who waits for a notification is woken from its sleep.               *)
Leaves(x, at, to) == \A t \in Task : at[t] \in Asleep /\ x.ns[t] # "waiting" => to[t] = at[t]
(* What a call or an interrupt that wakes a task does.                      *)
WakesOne(x, y, at, to, F) ==
  /\ Stepped(x, y, at, to, F)
  /\ x.susp = 0 => Range(y.pending) \subseteq Range(x.pending)
  /\ x.susp = 0 /\ x.pending = <<>> => y.pending = <<>>
  /\ \A t \in Task : to[t] \in Asleep => y.wake[t] = x.wake[t]
  /\ Leaves(x, at, to)

Rises(x, y, at, to, u, F) ==
  /\ Stepped(x, y, at, to, F) /\ y.pending = x.pending
  /\ to = [at EXCEPT ![u] = "ready"]
  /\ \A t \in Task : to[t] \in Asleep => y.wake[t] = x.wake[t]

LEMMA ReadiedKeeps ==
  ASSUME NEW x, NEW at, Sound(x, at), NEW z, Sound(z, at), NEW F, Same(x, z, F), F \subseteq {"ns", "nv", "evval"},
         NEW u \in Task, at[u] \notin {"none", "dying"},
         NEW w, w = prvAddTaskToReadyList(RemoveState(z, u), u),
         NEW cond \in BOOLEAN, ~cond => x.prio[u] <= x.prio[x.cur],
         NEW y, y = YieldIf(w, cond)
  PROVE  \E to : Rises(x, y, at, to, u, AnyTurn \cup F)
<1>1. PICK to : to = [at EXCEPT ![u] = "ready"]
  OBVIOUS
<1>2. MadeReady(z, w, at, u) /\ Sound(w, to)
  BY <1>1, ReadiedSound
<1>3. /\ at \in [Task -> Places] /\ x.prio \in [Task -> Priority] /\ x.cur \in Task
      /\ z.prio = x.prio /\ z.cur = x.cur /\ z.susp = x.susp /\ z.ypend = x.ypend /\ z.pending = x.pending
      /\ z.dying = x.dying /\ z.wake = x.wake
  <2>1. at \in [Task -> Places] /\ x.prio \in [Task -> Priority] /\ x.cur \in Task
    BY DEF Sound, Shape, KernelState, Listed
  <2>2. Same(x, z, {"ns", "nv", "evval"})
    BY DEF Same
  <2> QED BY <2>1, <2>2 DEF Same, Fields
<1>4. /\ w.prio = x.prio /\ w.cur = x.cur /\ w.susp = x.susp /\ w.ypend = x.ypend /\ w.pending = x.pending
      /\ w.dying = x.dying /\ \A t \in Task \ {u} : w.wake[t] = x.wake[t]
      /\ Same(z, w, StateLinks \cup {"top"})
  BY <1>2, <1>3 DEF MadeReady, Same, Fields, StateLinks
<1>5. ASSUME ~cond PROVE NoNewAbove(x, w, at, to)
  <2>1. \A p, q \in Priority : p <= q => ~(p > q)
    BY ONLY Numbers
  <2>2. ~(x.prio[u] > x.prio[x.cur])
    BY <1>3, <1>5, <2>1
  <2> QED BY <1>1, <1>3, <1>4, <2>2 DEF NoNewAbove
<1>6. /\ Sound(y, to) /\ Keeps(x, y, at, to) /\ Same(w, y, Turn) /\ y.dying = w.dying
      /\ y.pending = w.pending
  <2>1. Kept(x, w, y, at, to)
    BY <1>2, <1>4, <1>5, YieldKeeps
  <2> QED BY <2>1 DEF Kept
<1>7. Moved(at, to)
  BY <1>1, <1>3 DEF Moved
<1>8. Same(x, y, AnyTurn \cup F)
  BY <1>4, <1>6 DEF Same, AnyTurn, Wakes
<1>9. y.wake = w.wake
  BY <1>6 DEF Same, Fields, Turn
<1>10. \A t \in Task : to[t] \in Asleep => y.wake[t] = x.wake[t]
  BY <1>1, <1>3, <1>4, <1>9 DEF Asleep
<1> QED BY <1>1, <1>4, <1>6, <1>7, <1>8, <1>10 DEF Stepped, Rises

LEMMA Resumes ==
  ASSUME NEW x, NEW at, Sound(x, at), NEW u \in Task, NEW y, y = vTaskResume(x, u)
  PROVE  \E to : WakesOne(x, y, at, to, AnyTurn) /\ y.pending = x.pending
<1>1. /\ at \in [Task -> Places] /\ x.prio \in [Task -> Priority] /\ x.cur \in Task
      /\ x.suspended \in Seq(Task) /\ InPlace(x.suspended, at, "suspended")
  BY DEF Sound, Shape, KernelState, Listed
<1>2. CASE u # x.cur /\ prvTaskIsTaskSuspended(x, u)
  <2>1. at[u] = "suspended"
    BY <1>1, <1>2, ContainsIsRange DEF prvTaskIsTaskSuspended, InPlace
  <2>2. PICK cond \in BOOLEAN : cond <=> x.prio[u] >= x.prio[x.cur]
    OBVIOUS
  <2>3. PICK w : w = prvAddTaskToReadyList(RemoveState(x, u), u)
    OBVIOUS
  <2>4. y = YieldIf(w, cond)
    BY <1>2, <2>2, <2>3 DEF vTaskResume, YieldIf
  <2>5. ~cond => x.prio[u] <= x.prio[x.cur]
    <3>1. \A p, q \in Priority : ~(p >= q) => p <= q
      BY Numbers
    <3> QED BY <1>1, <2>2, <3>1
  <2>6. PICK F : F = {}
    OBVIOUS
  <2>7. Same(x, x, F) /\ F \subseteq {"ns", "nv", "evval"} /\ at[u] \notin {"none", "dying"}
    BY <2>1, <2>6 DEF Same
  <2>8. PICK to : Rises(x, y, at, to, u, AnyTurn \cup F)
    BY <2>3, <2>4, <2>5, <2>7, ReadiedKeeps
  <2>9. AnyTurn \cup F = AnyTurn
    BY <2>6
  <2>10. Leaves(x, at, to)
    <3>1. to = [at EXCEPT ![u] = "ready"]
      BY <2>8 DEF Rises
    <3> QED BY <1>1, <2>1, <3>1 DEF Leaves, Asleep
  <2> QED BY <2>8, <2>9, <2>10 DEF WakesOne, Rises
<1>3. CASE ~(u # x.cur /\ prvTaskIsTaskSuspended(x, u))
  <2>1. y = x
    BY <1>3 DEF vTaskResume
  <2>2. WakesOne(x, y, at, at, AnyTurn)
    BY <2>1 DEF WakesOne, Stepped, Moved, Keeps, Same, Leaves
  <2> QED BY <2>1, <2>2
<1> QED BY <1>2, <1>3

(* From an interrupt, a task waits in the pending list while the scheduler  *)
(* is suspended.                                                            *)
IsrWakes(x, y, at, to, u, F) ==
  /\ Stepped(x, y, at, to, F)
  /\ x.susp = 0 => y.pending = x.pending /\ to = [at EXCEPT ![u] = "ready"]
  /\ x.susp > 0 => y.pending = Append(x.pending, u) /\ to = at
  /\ \A t \in Task : to[t] \in Asleep => y.wake[t] = x.wake[t]

LEMMA PendingAdded ==
  ASSUME NEW x, NEW at, Sound(x, at), NEW u \in Task, u \notin Range(x.pending),
         NEW y, y = [x EXCEPT !.pending = Append(x.pending, u)]
  PROVE  Sound(y, at) /\ Same(x, y, {"pending"}) /\ y.pending = Append(x.pending, u)
<1>1. x \in KernelState /\ x.pending \in Seq(Task) /\ Distinct(x.pending)
  BY DEF Sound, Shape, KernelState
<1>2. PICK s : s = Append(x.pending, u)
  OBVIOUS
<1>3. s \in Seq(Task) /\ Distinct(s)
  BY <1>1, <1>2, AppendList
<1>4. y = [x EXCEPT !.pending = s]
  BY <1>2
<1>5. y \in KernelState
  BY <1>1, <1>3, <1>4, ListChanged
<1>6. Same(x, y, {"pending"}) /\ y.pending = s
  BY <1>1, <1>4 DEF KernelState, Same, Fields
<1>7. Listed(y, at, x.prio)
  <2>1. {"pending"} \cap StateLinks = {}
    BY DEF StateLinks
  <2> QED BY <1>6, <2>1, SameLists DEF Sound, Shape
<1>8. /\ y.prio = x.prio /\ y.base = x.base /\ y.top = x.top /\ y.evl = x.evl /\ y.halted = x.halted
      /\ y.tick = x.tick /\ y.wake = x.wake /\ y.unblock = x.unblock
  BY <1>6 DEF Same, Fields
<1>9. Sound(y, at)
  BY <1>3, <1>5, <1>6, <1>7, <1>8 DEF Sound, Shape, Bits, InTime
<1> QED BY <1>2, <1>6, <1>9

LEMMA ReadyOrPends ==
  ASSUME NEW x, NEW at, Sound(x, at), NEW z, Sound(z, at), NEW F, Same(x, z, F), F \subseteq {"ns", "nv"},
         NEW u \in Task, x.susp = 0 => at[u] \notin {"none", "dying"}, u \notin Range(x.pending),
         NEW w, w = ReadyOrPend(z, u),
         NEW cond \in BOOLEAN, x.susp = 0 /\ ~cond => x.prio[u] <= x.prio[x.cur],
         NEW v, v = [w EXCEPT !.ypend = w.ypend \/ cond],
         NEW y, y = YieldIf(v, cond)
  PROVE  \E to : IsrWakes(x, y, at, to, u, AnyTurn \cup F)
<1>1. /\ at \in [Task -> Places] /\ x.prio \in [Task -> Priority] /\ x.cur \in Task /\ x.susp \in Nat
      /\ z.prio = x.prio /\ z.cur = x.cur /\ z.susp = x.susp /\ z.ypend = x.ypend /\ z.pending = x.pending
      /\ z.dying = x.dying /\ z.wake = x.wake
  <2>1. at \in [Task -> Places] /\ x.prio \in [Task -> Priority] /\ x.cur \in Task /\ x.susp \in Nat
    BY DEF Sound, Shape, KernelState, Listed
  <2>2. Same(x, z, {"ns", "nv"})
    BY DEF Same
  <2> QED BY <2>1, <2>2 DEF Same, Fields
<1>2. ASSUME NEW to, Sound(w, to), Same(z, w, StateLinks \cup {"top", "pending"}), w.dying = z.dying,
             NoNewAbove(x, w, at, to) \/ (cond /\ x.susp = 0)
      PROVE  /\ Sound(y, to) /\ Keeps(x, y, at, to) /\ y.dying = x.dying /\ y.pending = w.pending
             /\ Same(x, y, AnyTurn \cup F) /\ y.wake = w.wake
  <2>1. /\ w.prio = x.prio /\ w.cur = x.cur /\ w.susp = x.susp /\ w.ypend = x.ypend /\ w.ypend \in BOOLEAN
    <3>1. w.ypend \in BOOLEAN
      BY <1>2 DEF Sound, Shape, KernelState
    <3>2. w.prio = z.prio /\ w.cur = z.cur /\ w.susp = z.susp /\ w.ypend = z.ypend
      BY <1>2 DEF Same, Fields, StateLinks
    <3> QED BY <1>1, <3>1, <3>2
  <2>2. PICK b \in BOOLEAN : b = (w.ypend \/ cond)
    OBVIOUS
  <2>3. v = [w EXCEPT !.ypend = b]
    BY <2>2
  <2>4. Sound(v, to) /\ Same(w, v, {"ypend"}) /\ v.ypend = b
    BY <1>2, <2>3, YpendChanged
  <2>5. v.prio = w.prio /\ v.cur = w.cur /\ v.susp = w.susp /\ v.pending = w.pending /\ v.dying = w.dying /\ v.wake = w.wake
    BY <2>4 DEF Same, Fields
  <2>6. ~cond => (x.ypend => v.ypend) /\ NoNewAbove(x, v, at, to)
    BY <1>2, <2>1, <2>2, <2>4, <2>5 DEF NoNewAbove
  <2>7. v.susp = x.susp /\ v.cur = x.cur
    BY <2>1, <2>5
  <2>8. /\ Sound(y, to) /\ Keeps(x, y, at, to) /\ Same(v, y, Turn) /\ y.dying = v.dying
        /\ y.pending = v.pending
    <3>1. Kept(x, v, y, at, to)
      BY <2>4, <2>6, <2>7, YieldKeeps
    <3> QED BY <3>1 DEF Kept
  <2>9. y.wake = v.wake
    BY <2>8 DEF Same, Fields, Turn
  <2>10. Same(x, y, AnyTurn \cup F)
    BY <1>2, <2>4, <2>8 DEF Same, AnyTurn, Wakes, Turn
  <2> QED BY <1>1, <1>2, <2>5, <2>8, <2>9, <2>10
<1>3. CASE x.susp = 0
  <2>1. PICK to : to = [at EXCEPT ![u] = "ready"]
    OBVIOUS
  <2>2. w = prvAddTaskToReadyList(RemoveState(z, u), u)
    BY <1>1, <1>3 DEF ReadyOrPend
  <2>3. MadeReady(z, w, at, u) /\ Sound(w, to)
    BY <2>1, <2>2, ReadiedSound
  <2>4. /\ Same(z, w, StateLinks \cup {"top", "pending"}) /\ w.dying = z.dying /\ w.pending = z.pending
        /\ \A t \in Task \ {u} : w.wake[t] = z.wake[t]
    BY <1>3, <2>3 DEF MadeReady, Same, Fields, StateLinks
  <2>5. NoNewAbove(x, w, at, to) \/ (cond /\ x.susp = 0)
    <3>1. w.prio = x.prio /\ w.cur = x.cur
      BY <1>1, <2>4 DEF Same, Fields, StateLinks
    <3>2. \A p, q \in Priority : p <= q => ~(p > q)
      BY ONLY Numbers
    <3>3. ~cond => ~(x.prio[u] > x.prio[x.cur])
      BY <1>1, <1>3, <3>2
    <3> QED BY <1>1, <1>3, <2>1, <3>1, <3>3 DEF NoNewAbove
  <2>6. /\ Sound(y, to) /\ Keeps(x, y, at, to) /\ y.dying = x.dying /\ y.pending = w.pending
        /\ Same(x, y, AnyTurn \cup F) /\ y.wake = w.wake
    BY <1>2, <2>3, <2>4, <2>5
  <2>7. Moved(at, to)
    BY <1>1, <1>3, <2>1 DEF Moved
  <2>8. \A t \in Task : to[t] \in Asleep => y.wake[t] = x.wake[t]
    BY <1>1, <2>1, <2>4, <2>6 DEF Asleep
  <2>9. IsrWakes(x, y, at, to, u, AnyTurn \cup F)
    BY <1>1, <1>3, <2>1, <2>4, <2>6, <2>7, <2>8 DEF IsrWakes, Stepped
  <2> QED BY <2>9
<1>4. CASE x.susp > 0
  <2>1. w = [z EXCEPT !.pending = Append(z.pending, u)]
    BY <1>1, <1>4 DEF ReadyOrPend
  <2>2. Sound(w, at) /\ Same(z, w, {"pending"}) /\ w.pending = Append(z.pending, u)
    <3>1. u \notin Range(z.pending)
      BY <1>1
    <3> QED BY <2>1, <3>1, PendingAdded
  <2>3. /\ w.dying = z.dying /\ w.wake = z.wake /\ w.prio = z.prio /\ w.cur = z.cur
        /\ Same(z, w, StateLinks \cup {"top", "pending"})
    BY <2>2 DEF Same, Fields
  <2>4. NoNewAbove(x, w, at, at)
    BY <1>1, <2>3 DEF NoNewAbove
  <2>5. /\ Sound(y, at) /\ Keeps(x, y, at, at) /\ y.dying = x.dying /\ y.pending = w.pending
        /\ Same(x, y, AnyTurn \cup F) /\ y.wake = w.wake
    BY <1>2, <2>2, <2>3, <2>4
  <2>6. IsrWakes(x, y, at, at, u, AnyTurn \cup F)
    <3>1. Stepped(x, y, at, at, AnyTurn \cup F)
      BY <2>5 DEF Stepped, Moved
    <3>2. y.pending = Append(x.pending, u) /\ y.wake = x.wake
      BY <1>1, <2>2, <2>3, <2>5
    <3>3. ~(x.susp = 0)
      BY <1>4
    <3> QED BY <3>1, <3>2, <3>3 DEF IsrWakes
  <2> QED BY <2>6
<1> QED BY <1>1, <1>3, <1>4

LEMMA ResumesFromIsr ==
  ASSUME NEW x, NEW at, Sound(x, at), NEW u \in Task,
         NEW y, y = xTaskResumeFromISR(x, u)
  PROVE  \/ y = x
         \/ /\ at[u] = "suspended" /\ u \notin Range(x.pending)
            /\ \E to : IsrWakes(x, y, at, to, u, AnyTurn)
<1>1. /\ at \in [Task -> Places] /\ x.prio \in [Task -> Priority] /\ x.cur \in Task
      /\ x.suspended \in Seq(Task) /\ InPlace(x.suspended, at, "suspended") /\ x.pending \in Seq(Task)
  BY DEF Sound, Shape, KernelState, Listed
<1>2. CASE prvTaskIsTaskSuspended(x, u)
  <2>1. at[u] = "suspended" /\ u \notin Range(x.pending)
    BY <1>1, <1>2, ContainsIsRange DEF prvTaskIsTaskSuspended, InPlace, EventFree
  <2>2. PICK cond \in BOOLEAN : cond = (x.susp = 0 /\ x.prio[u] >= x.prio[x.cur])
    OBVIOUS
  <2>3. PICK w : w = ReadyOrPend(x, u)
    OBVIOUS
  <2>4. PICK v : v = [w EXCEPT !.ypend = w.ypend \/ cond]
    OBVIOUS
  <2>5. y = YieldIf(v, cond)
    BY <1>2, <2>2, <2>3, <2>4 DEF xTaskResumeFromISR
  <2>6. x.susp = 0 /\ ~cond => x.prio[u] <= x.prio[x.cur]
    <3>1. \A p, q \in Priority : ~(p >= q) => p <= q
      BY Numbers
    <3> QED BY <1>1, <2>2, <3>1
  <2>7. PICK F : F = {}
    OBVIOUS
  <2>8. Same(x, x, F) /\ F \subseteq {"ns", "nv"} /\ at[u] \notin {"none", "dying"}
    BY <2>1, <2>7 DEF Same
  <2>9. PICK to : IsrWakes(x, y, at, to, u, AnyTurn \cup F)
    BY <2>1, <2>3, <2>4, <2>5, <2>6, <2>8, ReadyOrPends
  <2>10. AnyTurn \cup F = AnyTurn
    BY <2>7
  <2> QED BY <2>1, <2>9, <2>10
<1>3. CASE ~prvTaskIsTaskSuspended(x, u)
  BY <1>3 DEF xTaskResumeFromISR
<1> QED BY <1>2, <1>3

-----------------------------------------------------------------------------
(* Notifications                                                            *)

(* The counter of u is incremented.                                         *)
Counts(x, y, u) ==
  y.ns = [x.ns EXCEPT ![u] = "received"] /\ y.nv = [x.nv EXCEPT ![u] = x.nv[u] + 1]

LEMMA NoteChanged ==
  ASSUME NEW x \in KernelState, NEW s \in [Task -> {"none", "waiting", "received"}],
         NEW v \in [Task -> Nat], NEW y, y = [x EXCEPT !.ns = s, !.nv = v]
  PROVE  y \in KernelState
BY DEF KernelState

LEMMA NotifiedSound ==
  ASSUME NEW x, NEW at, Sound(x, at), NEW u \in Task, NEW y, y = Notified(x, u)
  PROVE  Sound(y, at) /\ Same(x, y, {"ns", "nv"}) /\ Counts(x, y, u)
<1>1. x \in KernelState /\ x.nv[u] \in Nat
  BY DEF Sound, Shape, KernelState
<1>2. PICK v \in Nat : v = x.nv[u] + 1
  BY <1>1
<1>3. y = [x EXCEPT !.ns[u] = "received", !.nv[u] = v]
  BY <1>2 DEF Notified
<1>4. y \in KernelState
  <2>1. x.ns \in [Task -> {"none", "waiting", "received"}] /\ x.nv \in [Task -> Nat]
    BY <1>1 DEF KernelState
  <2>2. PICK s \in [Task -> {"none", "waiting", "received"}] : s = [x.ns EXCEPT ![u] = "received"]
    BY <2>1
  <2>3. PICK nv \in [Task -> Nat] : nv = [x.nv EXCEPT ![u] = v]
    BY <2>1
  <2>4. y = [x EXCEPT !.ns = s, !.nv = nv]
    BY <1>3, <2>2, <2>3
  <2> QED BY <1>1, <2>4, NoteChanged
<1>5. Same(x, y, {"ns", "nv"}) /\ y.ns = [x.ns EXCEPT ![u] = "received"] /\ y.nv = [x.nv EXCEPT ![u] = v]
  BY <1>1, <1>3 DEF KernelState, Same, Fields
<1>6. Same(x, y, Plain)
  BY <1>5 DEF Same, Plain
<1>7. Sound(y, at)
  BY <1>4, <1>6, SameSound
<1> QED BY <1>2, <1>5, <1>7 DEF Counts

LEMMA FreeOfEvents ==
  ASSUME NEW x, NEW at, Sound(x, at), NEW u \in Task, u \notin Range(x.pending)
  PROVE  EventFree(x, u)
<1>1. x.pending \in Seq(Task) /\ \A l \in EventList : x.evl[l] = <<>>
  BY DEF Sound, Shape, KernelState
<1>2. ~Contains(x.pending, u)
  BY <1>1, ContainsIsRange
<1>3. ~Contains(<<>>, u)
  BY DEF Contains
<1> QED BY <1>1, <1>2, <1>3 DEF EventFree

Told(x, y, at, to, u) ==
  /\ Stepped(x, y, at, to, AnyTurn \cup {"ns", "nv"}) /\ Counts(x, y, u)
  /\ y.pending = x.pending
  /\ x.ns[u] = "waiting" => to[u] = "ready"
  /\ \A t \in Task : to[t] \in Asleep => y.wake[t] = x.wake[t]
  /\ Leaves(x, at, to)

LEMMA Notifies ==
  ASSUME NEW x, NEW at, Sound(x, at), NEW u \in Task,
         x.ns[u] = "waiting" => at[u] \notin {"none", "dying"} /\ u \notin Range(x.pending),
         NEW y, y = xTaskGenericNotify(x, u)
  PROVE  \E to : Told(x, y, at, to, u)
<1>1. PICK z : z = Notified(x, u)
  OBVIOUS
<1>2. Sound(z, at) /\ Same(x, z, {"ns", "nv"}) /\ Counts(x, z, u)
  BY <1>1, NotifiedSound
<1>3. /\ at \in [Task -> Places] /\ x.prio \in [Task -> Priority] /\ x.cur \in Task
      /\ z.pending = x.pending /\ z.wake = x.wake /\ z.ypend = x.ypend
  BY <1>2 DEF Sound, Shape, KernelState, Listed, Same, Fields
<1>4. CASE x.ns[u] = "waiting"
  <2>1. EventFree(z, u)
    BY <1>2, <1>3, <1>4, FreeOfEvents
  <2>2. PICK w : w = prvAddTaskToReadyList(RemoveState(z, u), u)
    OBVIOUS
  <2>3. PICK cond \in BOOLEAN : cond <=> Above(x, u)
    OBVIOUS
  <2>4. y = YieldIf(w, cond)
    BY <1>1, <1>4, <2>1, <2>2, <2>3 DEF xTaskGenericNotify, ConfigAssert, YieldIf
  <2>5. ~cond => x.prio[u] <= x.prio[x.cur]
    <3>1. \A p, q \in Priority : ~(p > q) => p <= q
      BY Compared
    <3> QED BY <1>3, <2>3, <3>1 DEF Above
  <2>6. PICK F : F = {"ns", "nv"}
    OBVIOUS
  <2>7. Same(x, z, F) /\ F \subseteq {"ns", "nv", "evval"} /\ at[u] \notin {"none", "dying"}
    BY <1>2, <1>4, <2>6
  <2>8. PICK to : Rises(x, y, at, to, u, AnyTurn \cup F)
    BY <1>2, <2>2, <2>4, <2>5, <2>7, ReadiedKeeps
  <2>9. y.ns = z.ns /\ y.nv = z.nv
    <3>1. MadeReady(z, w, at, u)
      BY <1>2, <2>2, ReadiedSound
    <3>2. w.ns = z.ns /\ w.nv = z.nv
      BY <3>1 DEF MadeReady, Same, Fields, StateLinks
    <3>3. y.ns = w.ns /\ y.nv = w.nv
      <4>1. w \in KernelState
        BY <3>1 DEF MadeReady, Shape
      <4> HIDE DEF vTaskSwitchContext
      <4>2. vTaskSwitchContext(w).ns = w.ns /\ vTaskSwitchContext(w).nv = w.nv
        BY <4>1 DEF vTaskSwitchContext, KernelState, Halt
      <4> QED BY <2>4, <4>2 DEF YieldIf
    <3> QED BY <3>2, <3>3
  <2>10. to[u] = "ready" /\ Leaves(x, at, to)
    BY <1>3, <1>4, <2>8 DEF Rises, Leaves
  <2>11. Told(x, y, at, to, u)
    BY <1>2, <2>6, <2>8, <2>9, <2>10 DEF Told, Rises, Counts
  <2> QED BY <2>11
<1>5. CASE x.ns[u] # "waiting"
  <2>1. y = z
    BY <1>1, <1>5 DEF xTaskGenericNotify
  <2>2. Same(x, y, Plain \ {"cur", "susp"}) /\ (x.ypend => y.ypend)
    BY <1>2, <1>3, <2>1 DEF Same, Plain
  <2>3. Keeps(x, y, at, at) /\ Moved(at, at) /\ y.dying = x.dying
    BY <1>2, <2>1, <2>2, Unmoved
  <2>4. Same(x, y, AnyTurn \cup {"ns", "nv"})
    BY <1>2, <2>1 DEF Same
  <2>5. Told(x, y, at, at, u)
    BY <1>2, <1>3, <1>5, <2>1, <2>3, <2>4 DEF Told, Stepped, Leaves
  <2> QED BY <2>5
<1> QED BY <1>4, <1>5

(* From an interrupt.                                                       *)
ToldFromIsr(x, y, at, to, u) ==
  /\ Stepped(x, y, at, to, AnyTurn \cup {"ns", "nv"}) /\ Counts(x, y, u)
  /\ IF x.ns[u] = "waiting" /\ x.susp > 0 THEN y.pending = Append(x.pending, u)
                                         ELSE y.pending = x.pending
  /\ x.ns[u] = "waiting" /\ x.susp = 0 => to[u] = "ready"
  /\ \A t \in Task : to[t] \in Asleep => y.wake[t] = x.wake[t]
  /\ Leaves(x, at, to)

LEMMA NotifiesFromIsr ==
  ASSUME NEW x, NEW at, Sound(x, at), NEW u \in Task,
         x.ns[u] = "waiting" => u \notin Range(x.pending) /\ (x.susp = 0 => at[u] \notin {"none", "dying"}),
         NEW y, y = xTaskGenericNotifyFromISR(x, u)
  PROVE  \E to : ToldFromIsr(x, y, at, to, u)
<1>1. PICK z : z = Notified(x, u)
  OBVIOUS
<1>2. Sound(z, at) /\ Same(x, z, {"ns", "nv"}) /\ Counts(x, z, u)
  BY <1>1, NotifiedSound
<1>3. /\ at \in [Task -> Places] /\ x.prio \in [Task -> Priority] /\ x.cur \in Task /\ x.susp \in Nat
      /\ z.pending = x.pending /\ z.wake = x.wake /\ z.ypend = x.ypend /\ z.susp = x.susp
  BY <1>2 DEF Sound, Shape, KernelState, Listed, Same, Fields
<1>4. CASE x.ns[u] = "waiting"
  <2>1. EventFree(z, u)
    BY <1>2, <1>3, <1>4, FreeOfEvents
  <2>2. PICK w : w = ReadyOrPend(z, u)
    OBVIOUS
  <2>3. PICK cond \in BOOLEAN : cond <=> Above(x, u)
    OBVIOUS
  <2>4. PICK v : v = [w EXCEPT !.ypend = w.ypend \/ cond]
    OBVIOUS
  <2>5. y = YieldIf(v, cond)
    <3>1. v = [w EXCEPT !.ypend = w.ypend \/ Above(x, u)]
      BY <2>3, <2>4
    <3>2. y = YieldIf(v, Above(x, u))
      BY <1>1, <1>4, <2>1, <2>2, <3>1 DEF xTaskGenericNotifyFromISR, ConfigAssert
    <3> QED BY <2>3, <3>2 DEF YieldIf
  <2>6. x.susp = 0 /\ ~cond => x.prio[u] <= x.prio[x.cur]
    <3>1. \A p, q \in Priority : ~(p > q) => p <= q
      BY Compared
    <3> QED BY <1>3, <2>3, <3>1 DEF Above
  <2>7. PICK F : F = {"ns", "nv"}
    OBVIOUS
  <2>8. Same(x, z, F) /\ F \subseteq {"ns", "nv"}
    BY <1>2, <2>7
  <2>9. PICK to : IsrWakes(x, y, at, to, u, AnyTurn \cup F)
    BY <1>2, <1>4, <2>2, <2>4, <2>5, <2>6, <2>8, ReadyOrPends
  <2>10. y.ns = z.ns /\ y.nv = z.nv
    <3>1. w \in KernelState /\ w.ns = z.ns /\ w.nv = z.nv
      <4>1. CASE z.susp = 0
        <5>1. w = prvAddTaskToReadyList(RemoveState(z, u), u)
          BY <2>2, <4>1 DEF ReadyOrPend
        <5>2. MadeReady(z, w, at, u)
          BY <1>2, <5>1, ReadiedSound
        <5> QED BY <5>2 DEF MadeReady, Same, Fields, StateLinks, Shape
      <4>2. CASE z.susp # 0
        <5>1. w = [z EXCEPT !.pending = Append(z.pending, u)]
          BY <2>2, <4>2 DEF ReadyOrPend
        <5>2. u \notin Range(z.pending)
          BY <1>3, <1>4
        <5>3. Sound(w, at) /\ Same(z, w, {"pending"})
          BY <1>2, <5>1, <5>2, PendingAdded
        <5> QED BY <5>3 DEF Same, Fields, Sound, Shape
      <4> QED BY <4>1, <4>2
    <3>2. v \in KernelState /\ v.ns = w.ns /\ v.nv = w.nv
      <4>1. PICK b \in BOOLEAN : b = (w.ypend \/ cond)
        <5>1. w.ypend \in BOOLEAN
          BY <3>1 DEF KernelState
        <5> QED BY <5>1
      <4>2. v = [w EXCEPT !.ypend = b]
        BY <2>4, <4>1
      <4> QED BY <3>1, <4>2 DEF KernelState
    <3>3. y.ns = v.ns /\ y.nv = v.nv
      <4>1. vTaskSwitchContext(v).ns = v.ns /\ vTaskSwitchContext(v).nv = v.nv
        BY <3>2 DEF vTaskSwitchContext, KernelState, Halt
      <4> QED BY <2>5, <4>1 DEF YieldIf
    <3> QED BY <3>1, <3>2, <3>3
  <2>11. x.susp = 0 => to[u] = "ready"
    BY <1>3, <2>9 DEF IsrWakes
  <2>14. Leaves(x, at, to)
    <3>1. to = at \/ to = [at EXCEPT ![u] = "ready"]
      <4>1. x.susp > 0 \/ x.susp = 0
        BY <1>3
      <4> QED BY <2>9, <4>1 DEF IsrWakes
    <3> QED BY <1>3, <1>4, <3>1 DEF Leaves
  <2>12. IF x.susp > 0 THEN y.pending = Append(x.pending, u) ELSE y.pending = x.pending
    <3>1. x.susp > 0 \/ x.susp = 0
      BY <1>3
    <3> QED BY <2>9, <3>1 DEF IsrWakes
  <2>13. ToldFromIsr(x, y, at, to, u)
    BY <1>2, <1>4, <2>7, <2>9, <2>10, <2>11, <2>12, <2>14 DEF ToldFromIsr, IsrWakes, Counts
  <2> QED BY <2>13
<1>5. CASE x.ns[u] # "waiting"
  <2>1. y = z
    BY <1>1, <1>5 DEF xTaskGenericNotifyFromISR
  <2>2. Same(x, y, Plain \ {"cur", "susp"}) /\ (x.ypend => y.ypend)
    BY <1>2, <1>3, <2>1 DEF Same, Plain
  <2>3. Keeps(x, y, at, at) /\ Moved(at, at) /\ y.dying = x.dying
    BY <1>2, <2>1, <2>2, Unmoved
  <2>4. Same(x, y, AnyTurn \cup {"ns", "nv"})
    BY <1>2, <2>1 DEF Same
  <2>5. ToldFromIsr(x, y, at, at, u)
    BY <1>2, <1>3, <1>5, <2>1, <2>3, <2>4 DEF ToldFromIsr, Stepped, Leaves
  <2> QED BY <2>5
<1> QED BY <1>4, <1>5

-----------------------------------------------------------------------------
(* What a task does to another                                              *)

LEMMA Settled ==
  ASSUME NEW x, NEW at, Sound(x, at), NEW to, NEW y \in KernelState, Listed(y, to, y.prio), Bits(y, to),
         Distinct(y.pending), to[Idle] = "ready", y.base = y.prio,
         y.evl = x.evl, y.halted = x.halted, y.tick = x.tick, y.unblock = x.unblock,
         \A t \in Task : to[t] = "delayed" => at[t] = "delayed" /\ y.wake[t] = x.wake[t]
  PROVE  Sound(y, to)
<1>1. InTime(y, to)
  BY DEF Sound, InTime
<1> QED BY <1>1 DEF Sound, Shape

(* Only the notifications change.                                           *)
Noted(x, y, at, s, v) == Sound(y, at) /\ Same(x, y, {"ns", "nv"}) /\ y.ns = s /\ y.nv = v
LEMMA NotesChanged ==
  ASSUME NEW x, NEW at, Sound(x, at), NEW s \in [Task -> {"none", "waiting", "received"}],
         NEW v \in [Task -> Nat], NEW y, y = [x EXCEPT !.ns = s, !.nv = v]
  PROVE  Noted(x, y, at, s, v)
<1>1. x \in KernelState
  BY DEF Sound, Shape
<1>2. y \in KernelState
  BY <1>1, NoteChanged
<1>3. Same(x, y, {"ns", "nv"}) /\ y.ns = s /\ y.nv = v
  BY <1>1 DEF KernelState, Same, Fields
<1>4. Same(x, y, Plain)
  BY <1>3 DEF Same, Plain
<1>5. Sound(y, at)
  BY <1>2, <1>4, SameSound
<1> QED BY <1>3, <1>5 DEF Noted

(* A task is taken out of its state list and of the pending list.           *)
Left2(x, z, at, u) ==
  LET on == [at EXCEPT ![u] = "none"] IN
  /\ z \in KernelState /\ Listed(z, on, x.prio) /\ Bits(z, on)
  /\ Same(x, z, StateLinks \cup {"top", "pending"}) /\ Distinct(z.pending)
  /\ Range(z.pending) = Range(x.pending) \ {u}
  /\ u \notin Range(x.pending) => z.pending = x.pending
  /\ at[u] # "dying" => z.dying = x.dying
  /\ z.wake = [x.wake EXCEPT ![u] = 0]
LEMMA LeavesLists ==
  ASSUME NEW x, NEW at, Sound(x, at), NEW u \in Task,
         NEW z, z = RemoveEvent(RemoveAndResetIfEmpty(x, u), u)
  PROVE  Left2(x, z, at, u)
<1>1. PICK w : w = RemoveAndResetIfEmpty(x, u)
  OBVIOUS
<1>2. PICK on : on = [at EXCEPT ![u] = "none"]
  OBVIOUS
<1>3. Gone(x, w, at, u)
  BY <1>1, GoneFromList DEF Sound
<1>4. /\ w \in KernelState /\ Listed(w, on, x.prio) /\ Bits(w, on) /\ Same(x, w, StateLinks \cup {"top"})
      /\ at[u] # "dying" => w.dying = x.dying
      /\ w.wake = [x.wake EXCEPT ![u] = 0]
  BY <1>2, <1>3 DEF Gone
<1>5. w.pending = x.pending /\ w.evl = x.evl
  BY <1>4 DEF Same, Fields, StateLinks
<1>6. Distinct(w.pending) /\ \A l \in EventList : w.evl[l] = <<>>
  BY <1>5 DEF Sound, Shape
<1>7. /\ z \in KernelState /\ Same(w, z, {"pending"})
      /\ Distinct(z.pending) /\ Range(z.pending) = Range(x.pending) \ {u}
      /\ u \notin Range(x.pending) => z.pending = x.pending
  BY <1>1, <1>4, <1>5, <1>6, RemoveEventFields
<1>8. Listed(z, on, x.prio)
  <2>1. {"pending"} \cap StateLinks = {}
    BY DEF StateLinks
  <2> QED BY <1>4, <1>7, <2>1, SameLists
<1>9. z.top = w.top /\ z.prio = w.prio /\ z.dying = w.dying /\ z.wake = w.wake
  BY <1>7 DEF Same, Fields
<1>10. Bits(z, on)
  BY <1>4, <1>9 DEF Bits
<1>11. Same(x, z, StateLinks \cup {"top", "pending"})
  BY <1>4, <1>7 DEF Same
<1> QED BY <1>2, <1>4, <1>7, <1>8, <1>9, <1>10, <1>11 DEF Left2

(* vTaskSuspend.                                                            *)
LEMMA SuspendedChanged ==
  ASSUME NEW x \in KernelState, NEW list \in Seq(Task), NEW s \in [Task -> {"none", "waiting", "received"}],
         NEW y, y = [x EXCEPT !.suspended = list, !.ns = s]
  PROVE  y \in KernelState
BY DEF KernelState

Suspends(x, y, at, to, u) ==
  /\ Sound(y, to) /\ to = [at EXCEPT ![u] = "suspended"]
  /\ Same(x, y, StateLinks \cup {"top", "pending", "ns"}) /\ y.dying = x.dying
  /\ Range(y.pending) = Range(x.pending) \ {u}
  /\ u \notin Range(x.pending) => y.pending = x.pending
  /\ y.ns = [x.ns EXCEPT ![u] = IF x.ns[u] = "waiting" THEN "none" ELSE x.ns[u]]
  /\ \A t \in Task \ {u} : y.wake[t] = x.wake[t]
LEMMA SuspendedTask ==
  ASSUME NEW x, NEW at, Sound(x, at), NEW u \in Task \ {Idle}, at[u] # "dying",
         NEW y, y = SuspendTask(x, u)
  PROVE  \E to : Suspends(x, y, at, to, u)
<1>1. PICK z : z = RemoveEvent(RemoveAndResetIfEmpty(x, u), u)
  OBVIOUS
<1>2. PICK on : on = [at EXCEPT ![u] = "none"]
  OBVIOUS
<1>3. PICK to : to = [at EXCEPT ![u] = "suspended"]
  OBVIOUS
<1>4. Left2(x, z, at, u)
  BY <1>1, LeavesLists
<1>5. /\ z \in KernelState /\ Listed(z, on, x.prio) /\ Bits(z, on)
      /\ Same(x, z, StateLinks \cup {"top", "pending"}) /\ Distinct(z.pending)
      /\ Range(z.pending) = Range(x.pending) \ {u}
      /\ u \notin Range(x.pending) => z.pending = x.pending
      /\ z.dying = x.dying /\ z.wake = [x.wake EXCEPT ![u] = 0]
  BY <1>2, <1>4 DEF Left2
<1>6. /\ at \in [Task -> Places] /\ x.wake \in [Task -> 0..MaxDelay] /\ at[Idle] = "ready" /\ x.base = x.prio
      /\ x.ns \in [Task -> {"none", "waiting", "received"}]
  BY DEF Sound, Shape, KernelState, Listed
<1>7. on \in [Task -> Places] /\ on[u] = "none" /\ to = [on EXCEPT ![u] = "suspended"]
  BY <1>2, <1>3, <1>6 DEF Places
<1>8. PICK list : list = Append(z.suspended, u)
  OBVIOUS
<1>9. PICK s \in [Task -> {"none", "waiting", "received"}] :
        s = [x.ns EXCEPT ![u] = IF x.ns[u] = "waiting" THEN "none" ELSE x.ns[u]]
  BY <1>6
<1>10. z.ns = x.ns /\ z.prio = x.prio /\ z.base = x.base /\ z.evl = x.evl /\ z.halted = x.halted
       /\ z.tick = x.tick /\ z.unblock = x.unblock
  BY <1>5 DEF Same, Fields, StateLinks
<1>11. list \in Seq(Task) /\ InPlace(list, to, "suspended")
  <2>1. z.suspended \in Seq(Task) /\ InPlace(z.suspended, on, "suspended")
    BY <1>5 DEF KernelState, Listed
  <2>2. "suspended" \in Places \ {"none"}
    BY DEF Places
  <2> QED BY <1>7, <1>8, <2>1, <2>2, AppendPlace
<1>12. y = [z EXCEPT !.suspended = list, !.ns = s]
  BY <1>1, <1>8, <1>9, <1>10 DEF SuspendTask
<1>13. y \in KernelState
  <2>1. z \in KernelState
    BY <1>5
  <2> QED BY <1>11, <1>12, <2>1, SuspendedChanged
<1>14. Same(z, y, {"suspended", "ns"}) /\ y.suspended = list /\ y.ns = s
  BY <1>5, <1>12 DEF KernelState, Same, Fields
<1>15. /\ y.prio = x.prio /\ y.base = x.base /\ y.evl = x.evl /\ y.halted = x.halted /\ y.ready = z.ready
       /\ y.delayed = z.delayed /\ y.overflow = z.overflow /\ y.dying = z.dying /\ y.wake = z.wake
       /\ y.pending = z.pending /\ y.top = z.top /\ y.tick = x.tick /\ y.unblock = x.unblock
  BY <1>10, <1>14 DEF Same, Fields
<1>16. Listed(y, to, x.prio)
  <2>1. InPlace(y["suspended"], to, "suspended")
    BY <1>11, <1>14
  <2>2. \A f \in {"delayed", "overflow", "suspended", "dying"} \ {"suspended"} : y[f] = z[f]
    BY <1>15
  <2>3. Sorted(y.delayed, y.wake) /\ Sorted(y.overflow, y.wake)
    BY <1>5, <1>15 DEF Listed
  <2>4. "suspended" \in {"delayed", "overflow", "suspended", "dying"}
    OBVIOUS
  <2>5. Listed(z, on, x.prio) /\ on[u] = "none" /\ to = [on EXCEPT ![u] = "suspended"] /\ y.ready = z.ready
    BY <1>5, <1>7, <1>15
  <2> QED BY <2>1, <2>2, <2>3, <2>4, <2>5, PutListed
<1>17. Bits(y, to)
  <2>1. \A t \in Task : to[t] = "ready" <=> on[t] = "ready"
    BY <1>7
  <2> QED BY <1>5, <1>10, <1>15, <2>1 DEF Bits
<1>18. \A t \in Task \ {u} : y.wake[t] = x.wake[t]
  BY <1>5, <1>6, <1>15
<1>19. Sound(y, to)
  <2>1. to[Idle] = "ready"
    BY <1>3, <1>6, Numbers
  <2>2. \A t \in Task : to[t] = "delayed" => at[t] = "delayed" /\ y.wake[t] = x.wake[t]
    BY <1>3, <1>6, <1>18
  <2> QED BY <1>5, <1>6, <1>13, <1>15, <1>16, <1>17, <2>1, <2>2, Settled
<1>20. Same(x, y, StateLinks \cup {"top", "pending", "ns"})
  BY <1>5, <1>14 DEF Same, StateLinks
<1>21. Suspends(x, y, at, to, u)
  BY <1>3, <1>5, <1>9, <1>14, <1>15, <1>18, <1>19, <1>20 DEF Suspends
<1> QED BY <1>21

LEMMA TimeResetSound ==
  ASSUME NEW x, NEW at, Sound(x, at), NEW y, y = prvResetNextTaskUnblockTime(x)
  PROVE  Sound(y, at) /\ Same(x, y, {"unblock"})
<1>1. /\ Shape(y, at) /\ Same(x, y, {"unblock"})
      /\ \A t \in Task : at[t] = "delayed" => y.unblock <= x.wake[t]
  BY TimeReset DEF Sound
<1>2. y.tick = x.tick /\ y.wake = x.wake
  BY <1>1 DEF Same, Fields
<1> QED BY <1>1, <1>2 DEF Sound, InTime

(* vTaskDelete.                                                             *)
LEMMA DyingChanged ==
  ASSUME NEW x \in KernelState, NEW list \in Seq(Task), NEW n \in Int,
         NEW y, y = [x EXCEPT !.dying = list, !.ndying = n]
  PROVE  y \in KernelState
BY DEF KernelState

LEMMA CountChanged ==
  ASSUME NEW x, NEW at, Sound(x, at), NEW n \in Int, NEW m \in Int,
         NEW y, y = [x EXCEPT !.ntasks = n, !.ndying = m]
  PROVE  Sound(y, at) /\ Same(x, y, {"ntasks", "ndying"}) /\ y.ntasks = n /\ y.ndying = m
<1>1. x \in KernelState
  BY DEF Sound, Shape
<1>2. y \in KernelState /\ Same(x, y, {"ntasks", "ndying"}) /\ y.ntasks = n /\ y.ndying = m
  BY <1>1 DEF KernelState, Same, Fields
<1>3. Same(x, y, Plain)
  BY <1>2 DEF Same, Plain
<1> QED BY <1>2, <1>3, SameSound

(* A task deletes itself: it waits for the idle task.                       *)
Dies(x, y, at, to) ==
  LET u == x.cur IN
  /\ Sound(y, to) /\ to = [at EXCEPT ![u] = "dying"]
  /\ Same(x, y, StateLinks \cup {"top", "pending", "ndying"})
  /\ y.dying = Append(x.dying, u) /\ y.ndying = x.ndying + 1
  /\ Range(y.pending) = Range(x.pending) \ {u}
  /\ u \notin Range(x.pending) => y.pending = x.pending
  /\ \A t \in Task \ {u} : y.wake[t] = x.wake[t]
LEMMA DeletesItself ==
  ASSUME NEW x, NEW at, Sound(x, at), x.cur # Idle, at[x.cur] # "dying",
         NEW y, y = DeleteTask(x, x.cur)
  PROVE  \E to : Dies(x, y, at, to)
<1>0. PICK u \in Task : u = x.cur
  BY DEF Sound, Shape, KernelState
<1>1. PICK z : z = RemoveEvent(RemoveAndResetIfEmpty(x, u), u)
  OBVIOUS
<1>2. PICK on : on = [at EXCEPT ![u] = "none"]
  OBVIOUS
<1>3. PICK to : to = [at EXCEPT ![u] = "dying"]
  OBVIOUS
<1>4. Left2(x, z, at, u)
  BY <1>1, LeavesLists
<1>5. /\ z \in KernelState /\ Listed(z, on, x.prio) /\ Bits(z, on)
      /\ Same(x, z, StateLinks \cup {"top", "pending"}) /\ Distinct(z.pending)
      /\ Range(z.pending) = Range(x.pending) \ {u}
      /\ u \notin Range(x.pending) => z.pending = x.pending
      /\ z.dying = x.dying /\ z.wake = [x.wake EXCEPT ![u] = 0]
  BY <1>0, <1>2, <1>4 DEF Left2
<1>6. /\ at \in [Task -> Places] /\ x.wake \in [Task -> 0..MaxDelay] /\ at[Idle] = "ready" /\ x.base = x.prio
      /\ x.ndying \in Int
  BY DEF Sound, Shape, KernelState, Listed
<1>7. on \in [Task -> Places] /\ on[u] = "none" /\ to = [on EXCEPT ![u] = "dying"]
  BY <1>2, <1>3, <1>6 DEF Places
<1>8. PICK list : list = Append(z.dying, u)
  OBVIOUS
<1>9. PICK n \in Int : n = x.ndying + 1
  BY <1>6
<1>10. z.ndying = x.ndying /\ z.prio = x.prio /\ z.base = x.base /\ z.evl = x.evl /\ z.halted = x.halted
       /\ z.tick = x.tick /\ z.unblock = x.unblock
  BY <1>5 DEF Same, Fields, StateLinks
<1>11. list \in Seq(Task) /\ InPlace(list, to, "dying")
  <2>1. z.dying \in Seq(Task) /\ InPlace(z.dying, on, "dying")
    BY <1>5 DEF KernelState, Listed
  <2>2. "dying" \in Places \ {"none"}
    BY DEF Places
  <2> QED BY <1>7, <1>8, <2>1, <2>2, AppendPlace
<1>12. y = [z EXCEPT !.dying = list, !.ndying = n]
  BY <1>0, <1>1, <1>8, <1>9, <1>10 DEF DeleteTask
<1>13. y \in KernelState
  <2>1. z \in KernelState
    BY <1>5
  <2> QED BY <1>11, <1>12, <2>1, DyingChanged
<1>14. Same(z, y, {"dying", "ndying"}) /\ y.dying = list /\ y.ndying = n
  BY <1>5, <1>12 DEF KernelState, Same, Fields
<1>15. /\ y.prio = x.prio /\ y.base = x.base /\ y.evl = x.evl /\ y.halted = x.halted /\ y.ready = z.ready
       /\ y.delayed = z.delayed /\ y.overflow = z.overflow /\ y.suspended = z.suspended /\ y.wake = z.wake
       /\ y.pending = z.pending /\ y.top = z.top /\ y.tick = x.tick /\ y.unblock = x.unblock
  BY <1>10, <1>14 DEF Same, Fields
<1>16. Listed(y, to, x.prio)
  <2>1. InPlace(y["dying"], to, "dying")
    BY <1>11, <1>14
  <2>2. \A f \in {"delayed", "overflow", "suspended", "dying"} \ {"dying"} : y[f] = z[f]
    BY <1>15
  <2>3. Sorted(y.delayed, y.wake) /\ Sorted(y.overflow, y.wake)
    BY <1>5, <1>15 DEF Listed
  <2>4. "dying" \in {"delayed", "overflow", "suspended", "dying"}
    OBVIOUS
  <2>5. Listed(z, on, x.prio) /\ on[u] = "none" /\ to = [on EXCEPT ![u] = "dying"] /\ y.ready = z.ready
    BY <1>5, <1>7, <1>15
  <2> QED BY <2>1, <2>2, <2>3, <2>4, <2>5, PutListed
<1>17. Bits(y, to)
  <2>1. \A t \in Task : to[t] = "ready" <=> on[t] = "ready"
    BY <1>7
  <2> QED BY <1>5, <1>10, <1>15, <2>1 DEF Bits
<1>18. \A t \in Task \ {u} : y.wake[t] = x.wake[t]
  BY <1>5, <1>6, <1>15
<1>19. Sound(y, to)
  <2>1. to[Idle] = "ready"
    BY <1>0, <1>3, <1>6, Numbers
  <2>2. \A t \in Task : to[t] = "delayed" => at[t] = "delayed" /\ y.wake[t] = x.wake[t]
    BY <1>3, <1>6, <1>18
  <2> QED BY <1>5, <1>6, <1>13, <1>15, <1>16, <1>17, <2>1, <2>2, Settled
<1>20. Same(x, y, StateLinks \cup {"top", "pending", "ndying"})
  BY <1>5, <1>14 DEF Same, StateLinks
<1>21. Dies(x, y, at, to)
  BY <1>0, <1>3, <1>5, <1>8, <1>9, <1>14, <1>15, <1>18, <1>19, <1>20 DEF Dies
<1> QED BY <1>21

(* A task that is in no list.                                               *)
Vanished(x, y, at, to, u) ==
  /\ Sound(y, to) /\ to = [at EXCEPT ![u] = "none"]
  /\ \A t \in Task \ {u} : y.wake[t] = x.wake[t]
LEMMA VanishedFromLists ==
  ASSUME NEW x, NEW at, Sound(x, at), NEW u \in Task \ {Idle}, NEW to, to = [at EXCEPT ![u] = "none"],
         NEW z, z = RemoveEvent(RemoveAndResetIfEmpty(x, u), u)
  PROVE  Vanished(x, z, at, to, u)
<1>1. Left2(x, z, at, u)
  BY LeavesLists
<1>2. /\ z \in KernelState /\ Listed(z, to, x.prio) /\ Bits(z, to)
      /\ Same(x, z, StateLinks \cup {"top", "pending"}) /\ Distinct(z.pending)
      /\ z.wake = [x.wake EXCEPT ![u] = 0]
  BY <1>1 DEF Left2
<1>3. /\ at \in [Task -> Places] /\ x.wake \in [Task -> 0..MaxDelay] /\ at[Idle] = "ready" /\ x.base = x.prio
  BY DEF Sound, Shape, KernelState, Listed
<1>4. /\ z.prio = x.prio /\ z.base = x.base /\ z.evl = x.evl /\ z.halted = x.halted
      /\ z.tick = x.tick /\ z.unblock = x.unblock
  BY <1>2 DEF Same, Fields, StateLinks
<1>5. to[Idle] = "ready" /\ \A t \in Task \ {u} : z.wake[t] = x.wake[t]
  BY <1>2, <1>3, Numbers
<1>6. \A t \in Task : to[t] = "delayed" => at[t] = "delayed" /\ z.wake[t] = x.wake[t]
  BY <1>3, <1>5
<1>7. Sound(z, to)
  <2>1. Listed(z, to, z.prio) /\ z.base = z.prio /\ z \in KernelState /\ Bits(z, to) /\ Distinct(z.pending)
    BY <1>2, <1>3, <1>4
  <2>2. z.evl = x.evl /\ z.halted = x.halted /\ z.tick = x.tick /\ z.unblock = x.unblock /\ to[Idle] = "ready"
    BY <1>4, <1>5
  <2>3. InTime(z, to)
    <3>1. \A t \in Task : at[t] = "delayed" => x.tick < x.wake[t] /\ x.unblock <= x.wake[t]
      BY DEF Sound, InTime
    <3> QED BY <1>6, <2>2, <3>1 DEF InTime
  <2>4. (\A l \in EventList : z.evl[l] = <<>>) /\ ~z.halted
    BY <2>2 DEF Sound, Shape
  <2> QED BY <2>1, <2>2, <2>3, <2>4 DEF Sound, Shape
<1> QED BY <1>5, <1>7 DEF Vanished

(* A task is deleted by another.                                            *)
Deleted(x, y, at, to, u) ==
  /\ Sound(y, to) /\ to = [at EXCEPT ![u] = "none"]
  /\ Same(x, y, StateLinks \cup {"top", "pending", "unblock", "ntasks"})
  /\ y.dying = x.dying /\ y.ntasks = x.ntasks - 1
  /\ Range(y.pending) = Range(x.pending) \ {u}
  /\ u \notin Range(x.pending) => y.pending = x.pending
  /\ \A t \in Task \ {u} : y.wake[t] = x.wake[t]
LEMMA DeletesOther ==
  ASSUME NEW x, NEW at, Sound(x, at), NEW u \in Task \ {Idle}, u # x.cur, at[u] # "dying",
         NEW y, y = DeleteTask(x, u)
  PROVE  \E to : Deleted(x, y, at, to, u)
<1>1. PICK z : z = RemoveEvent(RemoveAndResetIfEmpty(x, u), u)
  OBVIOUS
<1>2. PICK to : to = [at EXCEPT ![u] = "none"]
  OBVIOUS
<1>3. /\ Same(x, z, StateLinks \cup {"top", "pending"})
      /\ Range(z.pending) = Range(x.pending) \ {u}
      /\ u \notin Range(x.pending) => z.pending = x.pending
      /\ z.dying = x.dying
  <2>1. Left2(x, z, at, u)
    BY <1>1, LeavesLists
  <2> QED BY <2>1 DEF Left2
<1>4. Sound(z, to) /\ \A t \in Task \ {u} : z.wake[t] = x.wake[t]
  <2>1. Vanished(x, z, at, to, u)
    BY <1>1, <1>2, VanishedFromLists
  <2> QED BY <2>1 DEF Vanished
<1>5. z \in KernelState /\ z.ntasks \in Int /\ z.ndying \in Int
  BY <1>4 DEF Sound, Shape, KernelState
<1>6. PICK n \in Int : n = z.ntasks - 1
  BY <1>5
<1>7. PICK m \in Int : m = z.ndying
  BY <1>5
<1>8. PICK w : w = [z EXCEPT !.ntasks = n, !.ndying = m]
  OBVIOUS
<1>9. Sound(w, to) /\ Same(z, w, {"ntasks", "ndying"}) /\ w.ntasks = n /\ w.ndying = m
  <2>1. Sound(z, to)
    BY <1>4
  <2>2. z \in KernelState
    BY <1>5
  <2>3. w \in KernelState /\ Same(z, w, {"ntasks", "ndying"}) /\ w.ntasks = n /\ w.ndying = m
    BY <1>8, <2>2 DEF KernelState, Same, Fields
  <2>4. Same(z, w, Plain)
    BY <2>3 DEF Same, Plain
  <2> QED BY <2>1, <2>3, <2>4, SameSound
<1>10. w = [z EXCEPT !.ntasks = z.ntasks - 1]
  BY <1>5, <1>6, <1>7, <1>8 DEF KernelState
<1>11. y = prvResetNextTaskUnblockTime(w)
  BY <1>1, <1>10 DEF DeleteTask
<1>12. Sound(y, to) /\ Same(w, y, {"unblock"})
  BY <1>9, <1>11, TimeResetSound
<1>13. Same(x, y, StateLinks \cup {"top", "pending", "unblock", "ntasks"})
  <2>1. Same(z, w, {"ntasks"})
    BY <1>7, <1>9 DEF Same
  <2> QED BY <1>3, <1>12, <2>1 DEF Same, StateLinks
<1>14. y.dying = z.dying /\ y.pending = z.pending /\ y.wake = z.wake /\ y.ntasks = n /\ z.ntasks = x.ntasks
  BY <1>3, <1>9, <1>12 DEF Same, Fields, StateLinks
<1>15. Deleted(x, y, at, to, u)
  BY <1>2, <1>3, <1>4, <1>6, <1>12, <1>13, <1>14 DEF Deleted
<1> QED BY <1>15

(* A task that is not ready leaves the list it waits in.                    *)
TakenAway(x, y, at, to, u) ==
  /\ Sound(y, to) /\ to = [at EXCEPT ![u] = "none"] /\ Same(x, y, StateLinks)
  /\ at[u] # "dying" => y.dying = x.dying
  /\ at[u] = "dying" => Len(y.dying) = Len(x.dying) - 1
  /\ \A t \in Task \ {u} : y.wake[t] = x.wake[t]
LEMMA TakesAway ==
  ASSUME NEW x, NEW at, Sound(x, at), NEW u \in Task, at[u] # "ready", NEW y, y = RemoveState(x, u)
  PROVE  \E to : TakenAway(x, y, at, to, u)
<1>1. PICK to : to = [at EXCEPT ![u] = "none"]
  OBVIOUS
<1>2. /\ x \in KernelState /\ Listed(x, at, x.prio) /\ x.prio \in [Task -> Priority] /\ at \in [Task -> Places]
      /\ x.wake \in [Task -> 0..MaxDelay] /\ at[Idle] = "ready" /\ x.base = x.prio
  BY DEF Sound, Shape, KernelState, Listed
<1>3. TakenOut(x, y, at, x.prio, u)
  BY <1>2, RemoveStateListed
<1>4. /\ y \in KernelState /\ Listed(y, to, x.prio)
      /\ at[u] # "dying" => y.dying = x.dying
      /\ at[u] = "dying" => Len(y.dying) = Len(x.dying) - 1
      /\ Same(x, y, StateLinks) /\ y.wake = [x.wake EXCEPT ![u] = 0]
  BY <1>1, <1>3 DEF TakenOut
<1>5. /\ y.prio = x.prio /\ y.base = x.base /\ y.top = x.top /\ y.evl = x.evl /\ y.halted = x.halted
      /\ y.tick = x.tick /\ y.unblock = x.unblock /\ y.pending = x.pending
  BY <1>4 DEF Same, Fields, StateLinks
<1>6. Bits(y, to)
  <2>1. \A t \in Task : to[t] = "ready" <=> at[t] = "ready"
    BY <1>1, <1>2
  <2> QED BY <1>5, <2>1 DEF Sound, Shape, Bits
<1>7. \A t \in Task \ {u} : y.wake[t] = x.wake[t]
  BY <1>2, <1>4
<1>8. Sound(y, to)
  <2>1. to[Idle] = "ready"
    BY <1>1, <1>2, Numbers
  <2>2. \A t \in Task : to[t] = "delayed" => at[t] = "delayed" /\ y.wake[t] = x.wake[t]
    BY <1>1, <1>2, <1>7
  <2>3. Distinct(y.pending)
    BY <1>5 DEF Sound, Shape
  <2> QED BY <1>2, <1>4, <1>5, <1>6, <2>1, <2>2, <2>3, Settled
<1>9. TakenAway(x, y, at, to, u)
  BY <1>1, <1>4, <1>7, <1>8 DEF TakenAway
<1> QED BY <1>9

(* The idle task takes a deleted task off its list.                         *)
Buried(x, y, at, to, u) ==
  /\ Sound(y, to) /\ to = [at EXCEPT ![u] = "none"] /\ at[u] = "dying"
  /\ Same(x, y, StateLinks \cup {"ntasks", "ndying"})
  /\ y.ntasks = x.ntasks - 1 /\ y.ndying = x.ndying - 1 /\ Len(y.dying) = Len(x.dying) - 1
  /\ \A t \in Task \ {u} : y.wake[t] = x.wake[t]
LEMMA Buries ==
  ASSUME NEW x, NEW at, Sound(x, at), x.dying # <<>>, NEW u, u = Head(x.dying),
         NEW y, y = [RemoveState(x, u) EXCEPT !.ntasks = RemoveState(x, u).ntasks - 1,
                                              !.ndying = RemoveState(x, u).ndying - 1]
  PROVE  u \in Task /\ \E to : Buried(x, y, at, to, u)
<1>1. x.dying \in Seq(Task) /\ InPlace(x.dying, at, "dying")
  BY DEF Sound, Shape, KernelState, Listed
<1>2. u \in Range(x.dying)
  BY <1>1 DEF Range
<1>3. u \in Task /\ at[u] = "dying"
  BY <1>1, <1>2 DEF InPlace
<1>4. PICK z : z = RemoveState(x, u)
  OBVIOUS
<1>5. PICK to : TakenAway(x, z, at, to, u)
  BY <1>3, <1>4, TakesAway
<1>6. /\ Sound(z, to) /\ to = [at EXCEPT ![u] = "none"] /\ Same(x, z, StateLinks)
      /\ Len(z.dying) = Len(x.dying) - 1
      /\ \A t \in Task \ {u} : z.wake[t] = x.wake[t]
  BY <1>3, <1>5 DEF TakenAway
<1>7. z \in KernelState /\ z.ntasks \in Int /\ z.ndying \in Int
  BY <1>6 DEF Sound, Shape, KernelState
<1>8. PICK n \in Int : n = z.ntasks - 1
  BY <1>7
<1>9. PICK m \in Int : m = z.ndying - 1
  BY <1>7
<1>10. y = [z EXCEPT !.ntasks = n, !.ndying = m]
  BY <1>4, <1>8, <1>9
<1>11. Sound(y, to) /\ Same(z, y, {"ntasks", "ndying"}) /\ y.ntasks = n /\ y.ndying = m
  <2>1. Sound(z, to)
    BY <1>6
  <2>3. y \in KernelState /\ Same(z, y, {"ntasks", "ndying"}) /\ y.ntasks = n /\ y.ndying = m
    BY ZenonT(30), <1>7, <1>10 DEF KernelState, Same, Fields
  <2>4. Same(z, y, Plain)
    BY <2>3 DEF Same, Plain
  <2> QED BY <2>1, <2>3, <2>4, SameSound
<1>12. z.ntasks = x.ntasks /\ z.ndying = x.ndying /\ y.dying = z.dying /\ y.wake = z.wake
  BY <1>6, <1>11 DEF Same, Fields, StateLinks
<1>13. Same(x, y, StateLinks \cup {"ntasks", "ndying"})
  BY <1>6, <1>11 DEF Same
<1>14. Buried(x, y, at, to, u)
  BY <1>3, <1>6, <1>8, <1>9, <1>11, <1>12, <1>13 DEF Buried
<1> QED BY <1>3, <1>14

(* A task in no list becomes ready.                                         *)
LEMMA Enlisted ==
  ASSUME NEW x \in KernelState, NEW at, Listed(x, at, x.prio), Bits(x, at), NEW t \in Task, at[t] = "none",
         NEW to, to = [at EXCEPT ![t] = "ready"], NEW y, y = prvAddTaskToReadyList(x, t)
  PROVE  y \in KernelState /\ Listed(y, to, x.prio) /\ Bits(y, to) /\ Same(x, y, {"top", "ready"})
<1>1. y \in KernelState /\ Listed(y, to, y.prio)
  BY AddReadyListed
<1>2. Same(x, y, {"top", "ready"}) /\ y.top = x.top \cup {x.prio[t]}
  BY AddReadyFields
<1>3. y.prio = x.prio /\ at \in [Task -> Places]
  BY <1>2 DEF Same, Fields, Listed
<1>4. Bits(y, to)
  <2>1. \A p \in Priority : p \in x.top <=> \E u \in Task : at[u] = "ready" /\ x.prio[u] = p
    BY DEF Bits
  <2> QED BY <1>2, <1>3, <2>1 DEF Bits
<1> QED BY <1>1, <1>2, <1>3, <1>4

(* A task whose delay is aborted becomes ready.                             *)
AbortEnds(x, y, at, to, u) ==
  /\ Sound(y, to) /\ to = [at EXCEPT ![u] = "ready"] /\ Same(x, y, {"top", "ready", "ypend"})
  /\ Owed(x, at) => Owed(y, to)
LEMMA AbortedReady ==
  ASSUME NEW x, NEW at, Sound(x, at), NEW u \in Task, at[u] = "none",
         NEW w, w = prvAddTaskToReadyList(x, u),
         NEW y, y = [w EXCEPT !.ypend = w.ypend \/ Above(x, u)]
  PROVE  \E to : AbortEnds(x, y, at, to, u)
<1>1. PICK to : to = [at EXCEPT ![u] = "ready"]
  OBVIOUS
<1>2. /\ x \in KernelState /\ Listed(x, at, x.prio) /\ Bits(x, at) /\ x.prio \in [Task -> Priority] /\ x.cur \in Task
      /\ at \in [Task -> Places] /\ at[Idle] = "ready" /\ x.base = x.prio
  BY DEF Sound, Shape, KernelState, Listed
<1>3. w \in KernelState /\ Listed(w, to, x.prio) /\ Bits(w, to) /\ Same(x, w, {"top", "ready"})
  BY <1>1, <1>2, Enlisted
<1>4. /\ w.prio = x.prio /\ w.base = x.base /\ w.evl = x.evl /\ w.halted = x.halted /\ w.tick = x.tick
      /\ w.unblock = x.unblock /\ w.pending = x.pending /\ w.wake = x.wake /\ w.ypend = x.ypend /\ w.cur = x.cur
  BY <1>3 DEF Same, Fields
<1>5. Sound(w, to)
  <2>1. to[Idle] = "ready"
    BY <1>1, <1>2, Numbers
  <2>2. \A t \in Task : to[t] = "delayed" => at[t] = "delayed" /\ w.wake[t] = x.wake[t]
    BY <1>1, <1>2, <1>4
  <2>3. Distinct(w.pending)
    BY <1>4 DEF Sound, Shape
  <2> QED BY <1>2, <1>3, <1>4, <2>1, <2>2, <2>3, Settled
<1>6. PICK b \in BOOLEAN : b <=> (x.ypend \/ Above(x, u))
  OBVIOUS
<1>7. y = [w EXCEPT !.ypend = b]
  <2>1. x.ypend \in BOOLEAN
    BY <1>2 DEF KernelState
  <2>2. (x.ypend \/ Above(x, u)) \in BOOLEAN
    OBVIOUS
  <2> QED BY <1>4, <1>6, <2>1, <2>2
<1>8. Sound(y, to) /\ Same(w, y, {"ypend"}) /\ y.ypend = b
  BY <1>5, <1>7, YpendChanged
<1>9. Same(x, y, {"top", "ready", "ypend"})
  BY <1>3, <1>8 DEF Same
<1>10. Owed(x, at) => Owed(y, to)
  <2>1. y.prio = x.prio /\ y.cur = x.cur
    BY <1>9 DEF Same, Fields
  <2>2. \A p, q \in Priority : ~(p > q) => p <= q
    BY Compared
  <2>3. ~Above(x, u) => x.prio[u] <= x.prio[x.cur]
    BY <1>2, <2>2 DEF Above
  <2> QED BY <1>1, <1>2, <1>6, <1>8, <2>1, <2>3 DEF Owed, NoneAbove
<1>11. AbortEnds(x, y, at, to, u)
  BY <1>1, <1>8, <1>9, <1>10 DEF AbortEnds
<1> QED BY <1>11

-----------------------------------------------------------------------------
(* Priorities and new tasks                                                 *)

(* The priority of a task that is not ready does not matter to the lists.   *)
InOrder(x, at) == Listed(x, at, x.prio) /\ Bits(x, at)
LEMMA OtherPriority ==
  ASSUME NEW x, NEW at, InOrder(x, at), NEW u \in Task, at[u] # "ready",
         NEW y, Same(x, y, Plain \cup {"prio", "base"}), \A t \in Task \ {u} : y.prio[t] = x.prio[t]
  PROVE  InOrder(y, at)
<1>1. /\ y.ready = x.ready /\ y.delayed = x.delayed /\ y.overflow = x.overflow /\ y.suspended = x.suspended
      /\ y.dying = x.dying /\ y.wake = x.wake /\ y.top = x.top
  BY DEF Same, Fields, Plain
<1>2. \A p \in Priority : {t \in Task : at[t] = "ready" /\ y.prio[t] = p} = {t \in Task : at[t] = "ready" /\ x.prio[t] = p}
  OBVIOUS
<1>3. Listed(y, at, y.prio)
  BY <1>1, <1>2 DEF InOrder, Listed
<1>4. \A p \in Priority : (\E t \in Task : at[t] = "ready" /\ y.prio[t] = p) <=> \E t \in Task : at[t] = "ready" /\ x.prio[t] = p
  OBVIOUS
<1>5. Bits(y, at)
  BY <1>1, <1>4 DEF InOrder, Bits
<1> QED BY <1>3, <1>5 DEF InOrder

LEMMA PrioChanged ==
  ASSUME NEW x \in KernelState, NEW pr \in [Task -> Priority], NEW bs \in [Task -> Priority],
         NEW ev \in [Task -> Int], NEW y, y = [x EXCEPT !.prio = pr, !.base = bs, !.evval = ev]
  PROVE  y \in KernelState
BY DEF KernelState

LEMMA NewChanged ==
  ASSUME NEW x \in KernelState, NEW hl \in [Task -> Int], NEW us \in [Task -> BOOLEAN],
         NEW ab \in [Task -> BOOLEAN], NEW n \in Int,
         NEW y, y = [x EXCEPT !.held = hl, !.evuse = us, !.aborted = ab, !.ntasks = n]
  PROVE  y \in KernelState
BY DEF KernelState

NewFields == {"prio", "base", "held", "evval", "evuse", "ns", "nv", "aborted", "ntasks"}
(* A new task has its priority, and no notification.                        *)
Initialised(x, y, u, p) ==
  /\ y \in KernelState /\ Same(x, y, NewFields)
  /\ y.prio = [x.prio EXCEPT ![u] = p] /\ y.base = [x.base EXCEPT ![u] = p]
  /\ y.ns = [x.ns EXCEPT ![u] = "none"] /\ y.nv = [x.nv EXCEPT ![u] = 0]
  /\ y.ntasks = x.ntasks + 1
LEMMA Initialises ==
  ASSUME NEW x \in KernelState, NEW u \in Task, NEW p \in Priority,
         NEW y, y = prvInitialiseNewTask([x EXCEPT !.ntasks = x.ntasks + 1], u, p)
  PROVE  Initialised(x, y, u, p)
<1>1. /\ x.prio \in [Task -> Priority] /\ x.base \in [Task -> Priority] /\ x.held \in [Task -> Int]
      /\ x.evval \in [Task -> Int] /\ x.evuse \in [Task -> BOOLEAN] /\ x.aborted \in [Task -> BOOLEAN]
      /\ x.ns \in [Task -> {"none", "waiting", "received"}] /\ x.nv \in [Task -> Nat] /\ x.ntasks \in Int
  BY DEF KernelState
<1>2. PICK pr \in [Task -> Priority] : pr = [x.prio EXCEPT ![u] = p]
  BY <1>1
<1>3. PICK bs \in [Task -> Priority] : bs = [x.base EXCEPT ![u] = p]
  BY <1>1
<1>4. PICK hl \in [Task -> Int] : hl = [x.held EXCEPT ![u] = 0]
  <2>1. PICK n0 \in Int : n0 = 0
    OBVIOUS
  <2> QED BY <1>1, <2>1
<1>5. PICK e \in Int : e = MaxPriorities - p
  BY KernelAssumption, Numbers
<1>6. PICK ev \in [Task -> Int] : ev = [x.evval EXCEPT ![u] = e]
  BY <1>1
<1>7. PICK us \in [Task -> BOOLEAN] : us = [x.evuse EXCEPT ![u] = FALSE]
  BY <1>1
<1>8. PICK ab \in [Task -> BOOLEAN] : ab = [x.aborted EXCEPT ![u] = FALSE]
  BY <1>1
<1>9. PICK s \in [Task -> {"none", "waiting", "received"}] : s = [x.ns EXCEPT ![u] = "none"]
  BY <1>1
<1>10. PICK v \in [Task -> Nat] : v = [x.nv EXCEPT ![u] = 0]
  BY <1>1
<1>11. PICK n \in Int : n = x.ntasks + 1
  BY <1>1
<1>12. y = [x EXCEPT !.prio = pr, !.base = bs, !.held = hl, !.evval = ev, !.evuse = us, !.ns = s,
                     !.nv = v, !.aborted = ab, !.ntasks = n]
  <2>1. PICK x1 : x1 = [x EXCEPT !.ntasks = n]
    OBVIOUS
  <2>2. /\ x1.prio = x.prio /\ x1.base = x.base /\ x1.held = x.held /\ x1.evval = x.evval /\ x1.evuse = x.evuse
        /\ x1.ns = x.ns /\ x1.nv = x.nv /\ x1.aborted = x.aborted
    BY <2>1 DEF KernelState
  <2>3. y = [x1 EXCEPT !.prio[u] = p, !.base[u] = p, !.held[u] = 0, !.evval[u] = e, !.evuse[u] = FALSE,
                       !.ns[u] = "none", !.nv[u] = 0, !.aborted[u] = FALSE]
    BY <1>5, <1>11, <2>1 DEF prvInitialiseNewTask
  <2>4. y = [x1 EXCEPT !.prio = pr, !.base = bs, !.held = hl, !.evval = ev, !.evuse = us,
                       !.ns = s, !.nv = v, !.aborted = ab]
    <3>1. PICK xa : xa = [x1 EXCEPT !.prio[u] = p, !.base[u] = p]
      OBVIOUS
    <3>2. PICK xb : xb = [xa EXCEPT !.held[u] = 0, !.evval[u] = e]
      OBVIOUS
    <3>3. PICK xc : xc = [xb EXCEPT !.evuse[u] = FALSE, !.ns[u] = "none"]
      OBVIOUS
    <3>4. y = [xc EXCEPT !.nv[u] = 0, !.aborted[u] = FALSE]
      BY <2>3, <3>1, <3>2, <3>3
    <3>5. /\ DOMAIN x1 = Fields /\ DOMAIN xa = Fields /\ DOMAIN xb = Fields /\ DOMAIN xc = Fields
      BY <2>1, <3>1, <3>2, <3>3 DEF KernelState, Fields
    <3>6. /\ xa = [x1 EXCEPT !.prio = pr, !.base = bs] /\ xa.held = x.held /\ xa.evval = x.evval
          /\ xa.evuse = x.evuse /\ xa.ns = x.ns /\ xa.nv = x.nv /\ xa.aborted = x.aborted
      BY <1>2, <1>3, <2>2, <3>1, <3>5 DEF Fields
    <3>7. /\ xb = [xa EXCEPT !.held = hl, !.evval = ev]
          /\ xb.evuse = x.evuse /\ xb.ns = x.ns /\ xb.nv = x.nv /\ xb.aborted = x.aborted
      BY <1>4, <1>6, <3>2, <3>5, <3>6 DEF Fields
    <3>8. xc = [xb EXCEPT !.evuse = us, !.ns = s] /\ xc.nv = x.nv /\ xc.aborted = x.aborted
      BY <1>7, <1>9, <3>3, <3>5, <3>7 DEF Fields
    <3>9. y = [xc EXCEPT !.nv = v, !.aborted = ab]
      BY <1>8, <1>10, <3>4, <3>5, <3>8 DEF Fields
    <3> QED BY <3>6, <3>7, <3>8, <3>9
  <2> QED BY <2>1, <2>4 DEF KernelState
<1>13. PICK y1 : y1 = [x EXCEPT !.prio = pr, !.base = bs, !.evval = ev]
  OBVIOUS
<1>14. PICK y2 : y2 = [y1 EXCEPT !.ns = s, !.nv = v]
  OBVIOUS
<1>15. y1 \in KernelState
  BY <1>13, PrioChanged
<1>16. y2 \in KernelState
  BY <1>14, <1>15, NoteChanged
<1>17. y = [y2 EXCEPT !.held = hl, !.evuse = us, !.aborted = ab, !.ntasks = n]
  BY <1>12, <1>13, <1>14 DEF KernelState
<1>18. y \in KernelState
  BY <1>16, <1>17, NewChanged
<1>19. Same(x, y, NewFields) /\ y.prio = pr /\ y.base = bs /\ y.ns = s /\ y.nv = v /\ y.ntasks = n
  BY <1>12 DEF KernelState, Same, Fields, NewFields
<1> QED BY <1>2, <1>3, <1>9, <1>10, <1>11, <1>18, <1>19 DEF Initialised

(* xTaskCreate.                                                             *)
AddsTask(x, y, at, to, u, p) ==
  /\ Sound(y, to) /\ to = [at EXCEPT ![u] = "ready"]
  /\ Same(x, y, NewFields \cup {"top", "ready"})
  /\ y.prio = [x.prio EXCEPT ![u] = p]
  /\ y.ns = [x.ns EXCEPT ![u] = "none"] /\ y.nv = [x.nv EXCEPT ![u] = 0]
  /\ y.ntasks = x.ntasks + 1
LEMMA TaskAdded ==
  ASSUME NEW x, NEW at, Sound(x, at), NEW u \in Task, at[u] = "none", NEW p \in Priority,
         NEW y, y = prvAddNewTaskToReadyList(x, u, p)
  PROVE  \E to : AddsTask(x, y, at, to, u, p)
<1>1. PICK to : to = [at EXCEPT ![u] = "ready"]
  OBVIOUS
<1>2. /\ x \in KernelState /\ Listed(x, at, x.prio) /\ Bits(x, at) /\ x.prio \in [Task -> Priority]
      /\ at \in [Task -> Places] /\ at[Idle] = "ready" /\ x.base = x.prio
  BY DEF Sound, Shape, KernelState, Listed
<1>3. PICK z : z = prvInitialiseNewTask([x EXCEPT !.ntasks = x.ntasks + 1], u, p)
  OBVIOUS
<1>4. Initialised(x, z, u, p)
  BY <1>2, <1>3, Initialises
<1>5. /\ z \in KernelState /\ Same(x, z, NewFields)
      /\ z.prio = [x.prio EXCEPT ![u] = p] /\ z.base = [x.base EXCEPT ![u] = p]
      /\ z.ns = [x.ns EXCEPT ![u] = "none"] /\ z.nv = [x.nv EXCEPT ![u] = 0]
      /\ z.ntasks = x.ntasks + 1
  BY <1>4 DEF Initialised
<1>6. Listed(z, at, z.prio) /\ Bits(z, at)
  <2>1. Same(x, z, Plain \cup {"prio", "base"})
    BY <1>5 DEF Same, Plain, NewFields
  <2>2. \A t \in Task \ {u} : z.prio[t] = x.prio[t]
    BY <1>2, <1>5
  <2>3. InOrder(x, at)
    BY <1>2 DEF InOrder
  <2>4. InOrder(z, at)
    BY <1>2, <2>1, <2>2, <2>3, OtherPriority
  <2> QED BY <2>4 DEF InOrder
<1>7. y = prvAddTaskToReadyList(z, u)
  BY <1>3 DEF prvAddNewTaskToReadyList
<1>8. y \in KernelState /\ Listed(y, to, z.prio) /\ Bits(y, to) /\ Same(z, y, {"top", "ready"})
  <2>1. z \in KernelState
    BY <1>5
  <2> QED BY <1>1, <1>6, <1>7, <2>1, Enlisted
<1>9. /\ y.prio = z.prio /\ y.base = z.base /\ y.evl = x.evl /\ y.halted = x.halted /\ y.tick = x.tick
      /\ y.unblock = x.unblock /\ y.pending = x.pending /\ y.wake = x.wake
      /\ y.ns = z.ns /\ y.nv = z.nv /\ y.ntasks = z.ntasks
  BY <1>5, <1>8 DEF Same, Fields, NewFields
<1>10. Sound(y, to)
  <2>1. to[Idle] = "ready"
    BY <1>1, <1>2, Numbers
  <2>2. \A t \in Task : to[t] = "delayed" => at[t] = "delayed" /\ y.wake[t] = x.wake[t]
    BY <1>1, <1>2, <1>9
  <2>3. Distinct(y.pending)
    BY <1>9 DEF Sound, Shape
  <2>4. y.base = y.prio /\ Listed(y, to, y.prio)
    BY <1>2, <1>5, <1>8, <1>9
  <2> QED BY <1>8, <1>9, <2>1, <2>2, <2>3, <2>4, Settled
<1>11. Same(x, y, NewFields \cup {"top", "ready"})
  BY <1>5, <1>8 DEF Same
<1>12. AddsTask(x, y, at, to, u, p)
  BY <1>1, <1>5, <1>9, <1>10, <1>11 DEF AddsTask
<1> QED BY <1>12

(* vTaskPrioritySet.                                                        *)
WithPriority(x, u, p) ==
  SetEventOrder([x EXCEPT !.prio[u] = IF x.base[u] = x.prio[u] THEN p ELSE x.prio[u],
                          !.base[u] = p], u, p)
AtPriority(x, u, p) ==
  LET z == WithPriority(x, u, p) IN
  IF InReady(x, u, x.prio[u])
  THEN prvAddTaskToReadyList(RemoveAndReset(z, u, x.prio[u]), u)
  ELSE z
NewPriority(x, y, u, p) ==
  /\ y \in KernelState /\ Same(x, y, {"prio", "base", "evval"})
  /\ y.prio = [x.prio EXCEPT ![u] = p] /\ y.base = y.prio
LEMMA Reprioritises ==
  ASSUME NEW x, NEW at, Sound(x, at), NEW u \in Task, NEW p \in Priority,
         NEW y, y = WithPriority(x, u, p)
  PROVE  NewPriority(x, y, u, p)
<1>1. /\ x \in KernelState /\ x.prio \in [Task -> Priority] /\ x.base = x.prio /\ x.evval \in [Task -> Int]
      /\ x.evuse \in [Task -> BOOLEAN]
  BY DEF Sound, Shape, KernelState
<1>2. PICK pr \in [Task -> Priority] : pr = [x.prio EXCEPT ![u] = p]
  BY <1>1
<1>3. PICK e \in Int : e = MaxPriorities - p
  BY KernelAssumption, Numbers
<1>4. PICK ev \in [Task -> Int] : ev = IF x.evuse[u] THEN x.evval ELSE [x.evval EXCEPT ![u] = e]
  BY <1>1
<1>5. PICK z : z = [x EXCEPT !.prio = pr, !.base = pr]
  OBVIOUS
<1>6. z = [x EXCEPT !.prio[u] = IF x.base[u] = x.prio[u] THEN p ELSE x.prio[u], !.base[u] = p]
  BY <1>1, <1>2, <1>5
<1>7. y = SetEventOrder(z, u, p)
  BY <1>6 DEF WithPriority
<1>8. z.evuse = x.evuse /\ z.evval = x.evval /\ DOMAIN z = Fields
  BY <1>1, <1>5 DEF KernelState, Fields
<1>9. y = [z EXCEPT !.evval = ev]
  <2>1. CASE x.evuse[u]
    BY <1>4, <1>5, <1>7, <1>8, <2>1 DEF SetEventOrder, Fields
  <2>2. CASE ~x.evuse[u]
    BY <1>3, <1>4, <1>7, <1>8, <2>2 DEF SetEventOrder
  <2> QED BY <2>1, <2>2
<1>10. y = [x EXCEPT !.prio = pr, !.base = pr, !.evval = ev]
  BY <1>5, <1>9
<1>11. y \in KernelState
  BY <1>1, <1>10, PrioChanged
<1>12. Same(x, y, {"prio", "base", "evval"}) /\ y.prio = pr /\ y.base = pr
  BY <1>1, <1>10 DEF KernelState, Same, Fields
<1> QED BY <1>2, <1>11, <1>12 DEF NewPriority

Changes == {"prio", "base", "evval"}
(* A task that is ready goes to the list of its new priority.               *)
PriorityMoved(x, w, at, u, p) ==
  /\ Sound(w, at) /\ Same(x, w, Changes \cup StateLinks \cup {"top"})
  /\ w.prio = [x.prio EXCEPT ![u] = p] /\ w.dying = x.dying
  /\ \A t \in Task : at[t] # "ready" => w.wake[t] = x.wake[t]
LEMMA PriorityMoves ==
  ASSUME NEW x, NEW at, Sound(x, at), NEW u \in Task, NEW p \in Priority, NEW w, w = AtPriority(x, u, p)
  PROVE  PriorityMoved(x, w, at, u, p)
<1>0. PICK z : z = WithPriority(x, u, p)
  OBVIOUS
<1> w = IF InReady(x, u, x.prio[u])
        THEN prvAddTaskToReadyList(RemoveAndReset(z, u, x.prio[u]), u)
        ELSE z
  BY <1>0 DEF AtPriority
<1>1. /\ x \in KernelState /\ Listed(x, at, x.prio) /\ Bits(x, at) /\ x.prio \in [Task -> Priority]
      /\ at \in [Task -> Places] /\ at[Idle] = "ready" /\ x.wake \in [Task -> 0..MaxDelay]
  BY DEF Sound, Shape, KernelState, Listed
<1>2. /\ z \in KernelState /\ Same(x, z, {"prio", "base", "evval"})
      /\ z.prio = [x.prio EXCEPT ![u] = p] /\ z.base = z.prio
  <2>1. NewPriority(x, z, u, p)
    BY <1>0, Reprioritises
  <2> QED BY <2>1 DEF NewPriority
<1>3. /\ z.top = x.top /\ z.dying = x.dying /\ z.wake = x.wake /\ z.evl = x.evl /\ z.halted = x.halted
      /\ z.tick = x.tick /\ z.unblock = x.unblock /\ z.pending = x.pending
  BY <1>2 DEF Same, Fields
<1>4. InReady(x, u, x.prio[u]) <=> at[u] = "ready"
  <2>1. x.prio[u] \in Priority
    BY <1>1
  <2> QED BY <1>1, <2>1, ReadyLength DEF InReady
<1>5. CASE at[u] = "ready"
  <2>1. Listed(z, at, x.prio)
    <3>1. {"prio", "base", "evval"} \cap StateLinks = {}
      BY DEF StateLinks
    <3> QED BY <1>1, <1>2, <3>1, SameLists
  <2>2. \A q \in Priority : q \in z.top <=> \E t \in Task : at[t] = "ready" /\ x.prio[t] = q
    BY <1>1, <1>3 DEF Bits
  <2>3. PICK v : v = RemoveAndReset(z, u, x.prio[u])
    OBVIOUS
  <2>4. LeftReady(z, v, at, x.prio, u)
    BY <1>1, <1>2, <1>5, <2>1, <2>2, <2>3, Unreadied
  <2>5. PICK on : on = [at EXCEPT ![u] = "none"]
    OBVIOUS
  <2>6. /\ v \in KernelState /\ Listed(v, on, x.prio) /\ Same(z, v, StateLinks \cup {"top"})
        /\ \A q \in Priority : q \in v.top <=> \E t \in Task : on[t] = "ready" /\ x.prio[t] = q
        /\ v.dying = z.dying /\ v.wake = [z.wake EXCEPT ![u] = 0]
    BY <2>4, <2>5 DEF LeftReady
  <2>7. v.prio = z.prio
    BY <2>6 DEF Same, Fields, StateLinks
  <2>8. Listed(v, on, v.prio) /\ Bits(v, on)
    <3>1. \A t \in Task : on[t] = "ready" => v.prio[t] = x.prio[t]
      BY <1>1, <1>2, <2>5, <2>7
    <3>2. \A q \in Priority : {t \in Task : on[t] = "ready" /\ v.prio[t] = q} = {t \in Task : on[t] = "ready" /\ x.prio[t] = q}
      BY <3>1
    <3>3. Listed(v, on, v.prio)
      BY <2>6, <3>2 DEF Listed
    <3>4. \A q \in Priority : (\E t \in Task : on[t] = "ready" /\ v.prio[t] = q) <=> \E t \in Task : on[t] = "ready" /\ x.prio[t] = q
      BY <3>1
    <3>5. Bits(v, on)
      BY <2>6, <3>4 DEF Bits
    <3> QED BY <3>3, <3>5
  <2>9. on[u] = "none" /\ at = [on EXCEPT ![u] = "ready"]
    BY <1>1, <1>5, <2>5
  <2>10. w = prvAddTaskToReadyList(v, u)
    BY <1>4, <1>5, <2>3
  <2>11. w \in KernelState /\ Listed(w, at, v.prio) /\ Bits(w, at) /\ Same(v, w, {"top", "ready"})
    <3>1. v \in KernelState
      BY <2>6
    <3> QED BY <2>8, <2>9, <2>10, <3>1, Enlisted
  <2>12. Same(x, w, Changes \cup StateLinks \cup {"top"})
    BY <1>2, <2>6, <2>11 DEF Same, StateLinks, Changes
  <2>13. w.prio = z.prio /\ w.base = z.base /\ w.dying = x.dying /\ w.wake = v.wake
    <3>1. v.base = z.base
      BY <2>6 DEF Same, Fields, StateLinks
    <3> QED BY <1>3, <2>6, <2>7, <2>11, <3>1 DEF Same, Fields
  <2>14. /\ w.evl = x.evl /\ w.halted = x.halted /\ w.tick = x.tick /\ w.unblock = x.unblock /\ w.pending = x.pending
    BY <2>12 DEF Same, Fields, StateLinks, Changes
  <2>15. \A t \in Task : at[t] # "ready" => w.wake[t] = x.wake[t]
    BY <1>1, <1>3, <1>5, <2>6, <2>13
  <2>16. Sound(w, at)
    <3>1. \A t \in Task : at[t] = "delayed" => at[t] = "delayed" /\ w.wake[t] = x.wake[t]
      BY <2>15
    <3>2. Distinct(w.pending)
      BY <2>14 DEF Sound, Shape
    <3>3. w.base = w.prio /\ Listed(w, at, w.prio) /\ w \in KernelState /\ Bits(w, at)
      BY <1>2, <2>7, <2>11, <2>13
    <3> QED BY <1>1, <2>14, <3>1, <3>2, <3>3, Settled
  <2> QED BY <1>2, <2>12, <2>13, <2>15, <2>16 DEF PriorityMoved
<1>6. CASE at[u] # "ready"
  <2>1. w = z
    BY <1>4, <1>6
  <2>2. Listed(z, at, z.prio) /\ Bits(z, at)
    <3>1. Same(x, z, Plain \cup {"prio", "base"})
      BY <1>2 DEF Same, Plain
    <3>2. \A t \in Task \ {u} : z.prio[t] = x.prio[t]
      BY <1>1, <1>2
    <3>3. InOrder(x, at)
      BY <1>1 DEF InOrder
    <3>4. InOrder(z, at)
      BY <1>6, <3>1, <3>2, <3>3, OtherPriority
    <3> QED BY <3>4 DEF InOrder
  <2>3. Sound(z, at)
    <3>1. \A t \in Task : at[t] = "delayed" => at[t] = "delayed" /\ z.wake[t] = x.wake[t]
      BY <1>3
    <3>2. Distinct(z.pending)
      BY <1>3 DEF Sound, Shape
    <3>3. z.base = z.prio /\ z \in KernelState
      BY <1>2
    <3> QED BY <1>1, <1>3, <2>2, <3>1, <3>2, <3>3, Settled
  <2>4. Same(x, z, Changes \cup StateLinks \cup {"top"})
    BY <1>2 DEF Same, Changes
  <2> QED BY <1>2, <1>3, <2>1, <2>3, <2>4 DEF PriorityMoved
<1> QED BY <1>5, <1>6

-----------------------------------------------------------------------------
(* The calls that are one critical section                                  *)

CallStep == AnyTurn \cup {"prio", "base", "evval", "ns", "nv"}
Called(x, y, at, to) ==
  /\ Stepped(x, y, at, to, CallStep) /\ y.pending = x.pending
  /\ \A t \in Task : y.ns[t] = "waiting" => x.ns[t] = "waiting" /\ y.nv[t] = x.nv[t]
  /\ \A t \in Task : x.ns[t] = "waiting" /\ to[t] \in Asleep => y.ns[t] = "waiting"
  /\ \A t \in Task : to[t] \in Asleep => y.wake[t] = x.wake[t]
  /\ Leaves(x, at, to)

LEMMA SetsPriority ==
  ASSUME NEW x, NEW at, Sound(x, at), NEW u \in Task, NEW p \in Priority,
         NEW y, y = vTaskPrioritySet(x, u, p)
  PROVE  Called(x, y, at, at)
<1>1. /\ x.prio \in [Task -> Priority] /\ x.base = x.prio /\ x.cur \in Task
  BY DEF Sound, Shape, KernelState
<1>3. PICK w : w = AtPriority(x, u, p)
  OBVIOUS
<1>4. PriorityMoved(x, w, at, u, p)
  BY <1>3, PriorityMoves
<1>5. /\ Sound(w, at) /\ Same(x, w, Changes \cup StateLinks \cup {"top"})
      /\ w.prio = [x.prio EXCEPT ![u] = p] /\ w.dying = x.dying
      /\ \A t \in Task : at[t] # "ready" => w.wake[t] = x.wake[t]
  BY <1>4 DEF PriorityMoved
<1>6. /\ w.susp = x.susp /\ w.cur = x.cur /\ w.ypend = x.ypend /\ w.pending = x.pending /\ w.ns = x.ns /\ w.nv = x.nv
  BY <1>5 DEF Same, Fields, StateLinks, Changes
<1>7. PICK cond \in BOOLEAN : cond <=> \/ p > x.prio[u] /\ u # x.cur /\ p >= x.prio[x.cur]
                                       \/ p < x.prio[u] /\ u = x.cur
  OBVIOUS
<1>8. CASE p = x.prio[u]
  <2>1. y = x
    BY <1>1, <1>8 DEF vTaskPrioritySet
  <2>2. Same(x, y, Plain \ {"cur", "susp"})
    BY <2>1 DEF Same
  <2>3. Keeps(x, y, at, at) /\ Moved(at, at) /\ y.dying = x.dying
    BY <2>1, <2>2, Unmoved
  <2>4. Same(x, y, CallStep)
    BY <2>1 DEF Same
  <2> QED BY <2>1, <2>3, <2>4 DEF Called, Stepped, Leaves
<1>9. CASE p # x.prio[u]
  <2>1. y = YieldIf(w, cond)
    <3>1. y = YieldIf(w, \/ p > x.base[u] /\ u # x.cur /\ p >= x.prio[x.cur]
                         \/ p < x.base[u] /\ u = x.cur)
      BY <1>1, <1>3, <1>9 DEF vTaskPrioritySet, AtPriority, WithPriority
    <3> QED BY <1>1, <1>7, <3>1 DEF YieldIf
  <2>2. ASSUME ~cond PROVE NoNewAbove(x, w, at, at)
    <3>1. \A i, j \in Priority : i > j <=> ~(i <= j)
      BY Numbers
    <3>2. CASE u = x.cur
      <4>1. p > x.prio[u]
        <5>1. \A i, j \in Priority : i # j => i < j \/ i > j
          BY Numbers
        <5> QED BY <1>1, <1>7, <1>9, <2>2, <3>2, <5>1
      <4>2. \A i, j, l \in Priority : i > j /\ j > l => i > l
        BY Numbers
      <4>3. ASSUME NEW t \in Task, at[t] = "ready", w.prio[t] > w.prio[w.cur]
            PROVE  x.prio[t] > x.prio[x.cur]
        <5>1. w.prio[w.cur] = p
          BY <1>1, <1>5, <1>6, <3>2
        <5>2. t # u
          <6>1. ~(p > p)
            BY <3>1, Numbers
          <6> QED BY <1>1, <1>5, <4>3, <5>1, <6>1
        <5>3. w.prio[t] = x.prio[t]
          BY <1>1, <1>5, <5>2
        <5> QED BY <1>1, <3>2, <4>1, <4>2, <4>3, <5>1, <5>3
      <4> QED BY <4>3 DEF NoNewAbove
    <3>3. CASE u # x.cur
      <4>1. w.prio[w.cur] = x.prio[x.cur]
        BY <1>1, <1>5, <1>6, <3>3
      <4>2. ASSUME NEW t \in Task, at[t] = "ready", w.prio[t] > w.prio[w.cur]
            PROVE  x.prio[t] > x.prio[x.cur]
        <5>1. CASE t = u
          <6>1. p > x.prio[x.cur]
            BY <1>1, <1>5, <4>1, <4>2, <5>1
          <6>2. p >= x.prio[x.cur] /\ ~(p > x.prio[u])
            <7>1. \A i, j \in Priority : i > j => i >= j
              BY Numbers
            <7>2. p >= x.prio[x.cur]
              BY <1>1, <6>1, <7>1
            <7> QED BY <1>7, <2>2, <3>3, <7>2
          <6>3. \A i, j, l \in Priority : i > j /\ ~(i > l) => l > j
            BY Numbers
          <6> QED BY <1>1, <5>1, <6>1, <6>2, <6>3
        <5>2. CASE t # u
          BY <1>1, <1>5, <4>1, <4>2, <5>2
        <5> QED BY <5>1, <5>2
      <4> QED BY <4>2 DEF NoNewAbove
    <3> QED BY <3>2, <3>3
  <2>3. Kept(x, w, y, at, at)
    <3>1. ~cond => (x.ypend => w.ypend) /\ NoNewAbove(x, w, at, at)
      BY <1>6, <2>2
    <3>2. Sound(w, at) /\ w.susp = x.susp /\ w.cur = x.cur
      BY <1>5, <1>6
    <3> QED BY <2>1, <3>1, <3>2, YieldKeeps
  <2>4. /\ Sound(y, at) /\ Keeps(x, y, at, at) /\ Same(w, y, Turn) /\ y.dying = w.dying
        /\ y.pending = w.pending
    BY <2>3 DEF Kept
  <2>5. Same(x, y, CallStep)
    BY <1>5, <2>4 DEF Same, CallStep, AnyTurn, Wakes, Changes
  <2>6. y.wake = w.wake /\ y.ns = w.ns /\ y.nv = w.nv
    BY <2>4 DEF Same, Fields, Turn
  <2>7. \A t \in Task : at[t] \in Asleep => y.wake[t] = x.wake[t]
    BY <1>5, <2>6 DEF Asleep
  <2>8. Moved(at, at)
    BY DEF Moved
  <2> QED BY <1>5, <1>6, <2>4, <2>5, <2>6, <2>7, <2>8 DEF Called, Stepped, Leaves
<1> QED BY <1>8, <1>9

LEMMA ClearsState ==
  ASSUME NEW x, NEW at, Sound(x, at), NEW u \in Task,
         NEW y, y = [x EXCEPT !.ns[u] = IF x.ns[u] = "received" THEN "none" ELSE x.ns[u]]
  PROVE  Called(x, y, at, at)
<1>1. x \in KernelState /\ x.ns \in [Task -> {"none", "waiting", "received"}] /\ x.nv \in [Task -> Nat]
  BY DEF Sound, Shape, KernelState
<1>2. PICK s \in [Task -> {"none", "waiting", "received"}] :
        s = [x.ns EXCEPT ![u] = IF x.ns[u] = "received" THEN "none" ELSE x.ns[u]]
  BY <1>1
<1>3. PICK v \in [Task -> Nat] : v = x.nv
  BY <1>1
<1>4. y = [x EXCEPT !.ns = s, !.nv = v]
  BY <1>1, <1>2, <1>3 DEF KernelState
<1>5. Sound(y, at) /\ Same(x, y, {"ns", "nv"}) /\ y.ns = s /\ y.nv = v
  <2>1. Noted(x, y, at, s, v)
    BY <1>4, NotesChanged
  <2> QED BY <2>1 DEF Noted
<1>6. y.ypend = x.ypend /\ y.pending = x.pending /\ y.wake = x.wake
  BY <1>5 DEF Same, Fields
<1>7. Same(x, y, Plain \ {"cur", "susp"})
  BY <1>5 DEF Same, Plain
<1>8. Keeps(x, y, at, at) /\ Moved(at, at) /\ y.dying = x.dying
  BY <1>5, <1>6, <1>7, Unmoved
<1>9. Same(x, y, CallStep)
  BY <1>5 DEF Same, CallStep
<1>10. \A t \in Task : y.ns[t] = "waiting" <=> x.ns[t] = "waiting"
  BY <1>1, <1>2, <1>5
<1> QED BY <1>3, <1>5, <1>6, <1>8, <1>9, <1>10 DEF Called, Stepped, Leaves

LEMMA ResumesCalled ==
  ASSUME NEW x, NEW at, Sound(x, at), NEW u \in Task, NEW y, y = vTaskResume(x, u)
  PROVE  \E to : Called(x, y, at, to)
<1>1. PICK to : WakesOne(x, y, at, to, AnyTurn) /\ y.pending = x.pending
  BY Resumes
<1>2. Stepped(x, y, at, to, AnyTurn) /\ Leaves(x, at, to) /\ \A t \in Task : to[t] \in Asleep => y.wake[t] = x.wake[t]
  BY <1>1 DEF WakesOne
<1>3. Stepped(x, y, at, to, CallStep)
  BY <1>2 DEF Stepped, Same, CallStep
<1>4. y.ns = x.ns /\ y.nv = x.nv
  BY <1>2 DEF Stepped, Same, Fields, AnyTurn, Wakes, StateLinks, Turn
<1>5. Called(x, y, at, to)
  BY <1>1, <1>2, <1>3, <1>4 DEF Called
<1> QED BY <1>5

LEMMA NotifiesCalled ==
  ASSUME NEW x, NEW at, Sound(x, at), NEW u \in Task,
         x.ns[u] = "waiting" => at[u] \notin {"none", "dying"} /\ u \notin Range(x.pending),
         NEW y, y = xTaskGenericNotify(x, u)
  PROVE  \E to : Called(x, y, at, to)
<1>0. x.ns \in [Task -> {"none", "waiting", "received"}] /\ x.nv \in [Task -> Nat]
  BY DEF Sound, Shape, KernelState
<1>1. PICK to : Told(x, y, at, to, u)
  BY Notifies
<1>2. /\ Stepped(x, y, at, to, AnyTurn \cup {"ns", "nv"}) /\ Counts(x, y, u)
      /\ y.pending = x.pending
      /\ x.ns[u] = "waiting" => to[u] = "ready"
      /\ \A t \in Task : to[t] \in Asleep => y.wake[t] = x.wake[t]
      /\ Leaves(x, at, to)
  BY <1>1 DEF Told
<1>3. Stepped(x, y, at, to, CallStep)
  BY <1>2 DEF Stepped, Same, CallStep
<1>4. /\ \A t \in Task : y.ns[t] = "waiting" => x.ns[t] = "waiting" /\ y.nv[t] = x.nv[t]
      /\ \A t \in Task : x.ns[t] = "waiting" /\ to[t] \in Asleep => y.ns[t] = "waiting"
  BY <1>0, <1>2 DEF Counts, Asleep
<1>5. Called(x, y, at, to)
  BY <1>2, <1>3, <1>4 DEF Called
<1> QED BY <1>5

LEMMA CallsSimply ==
  ASSUME NEW x, NEW at, Sound(x, at), NEW d, d.op \in Simple, d.u \in Task,
         d.op = "PrioritySet" => d.n \in Priority,
         x.ns[d.u] = "waiting" => at[d.u] \notin {"none", "dying"} /\ d.u \notin Range(x.pending),
         NEW y, y = DoSimple(x, d)
  PROVE  \E to : Called(x, y, at, to)
<1>1. PICK u \in Task : u = d.u
  OBVIOUS
<1>2. CASE d.op = "PrioritySet"
  <2>1. PICK p \in Priority : p = d.n
    BY <1>2
  <2>2. y = vTaskPrioritySet(x, u, p)
    BY <1>1, <1>2, <2>1 DEF DoSimple
  <2> QED BY <2>2, SetsPriority
<1>3. CASE d.op = "Resume"
  <2>1. y = vTaskResume(x, u)
    BY <1>1, <1>3 DEF DoSimple
  <2> QED BY <2>1, ResumesCalled
<1>4. CASE d.op = "Notify"
  <2>1. y = xTaskGenericNotify(x, u)
    BY <1>1, <1>4 DEF DoSimple
  <2> QED BY <1>1, <2>1, NotifiesCalled
<1>5. CASE d.op = "StateClear"
  <2>1. y = [x EXCEPT !.ns[u] = IF x.ns[u] = "received" THEN "none" ELSE x.ns[u]]
    BY <1>1, <1>5 DEF DoSimple
  <2> QED BY <2>1, ClearsState
<1> QED BY <1>2, <1>3, <1>4, <1>5 DEF Simple

(* What a critical section of another or an interrupt leaves to the tasks;  *)
(* those of S may have become pending.                                      *)
AnyStep == CallStep \cup TickStep
Woke(x, y, at, to, S) ==
  /\ Stepped(x, y, at, to, AnyStep)
  /\ Range(y.pending) \subseteq Range(x.pending) \cup S
  /\ x.susp = 0 /\ x.pending = <<>> => y.pending = <<>>
  /\ x.susp > 0 => Range(x.pending) \subseteq Range(y.pending)
  /\ \A t \in Task : y.ns[t] = "waiting" =>
       /\ x.ns[t] = "waiting" /\ y.nv[t] = x.nv[t]
       /\ t \in Range(y.pending) => t \in Range(x.pending)
  /\ \A t \in Task : x.ns[t] = "waiting" /\ to[t] \in Asleep /\ t \notin Range(y.pending) => y.ns[t] = "waiting"
  /\ y.pended = x.pended \/ (x.susp > 0 /\ y.pended = x.pended + 1)

LEMMA CalledWoke ==
  ASSUME NEW x, NEW y, NEW at, NEW to, Called(x, y, at, to)
  PROVE  Woke(x, y, at, to, {}) /\ y.pended = x.pended
<1>1. Stepped(x, y, at, to, AnyStep)
  BY DEF Called, Stepped, Same, AnyStep
<1>2. y.pended = x.pended
  BY DEF Called, Stepped, Same, Fields, CallStep, AnyTurn, Wakes, StateLinks, Turn
<1> QED BY <1>1, <1>2 DEF Called, Woke

LEMMA TickWakes ==
  ASSUME NEW x, NEW at, Sound(x, at), NEW y, y = TickInterrupt(x)
  PROVE  \E to : Woke(x, y, at, to, {})
<1>1. PICK to :
           /\ Stepped(x, y, at, to, TickStep)
           /\ Range(y.pending) \subseteq Range(x.pending)
           /\ x.pending = <<>> => y.pending = <<>>
           /\ x.susp = 0 => y.pended = x.pended /\ Elapsed(x, y, at, to, 1)
           /\ x.susp > 0 => to = at /\ y = [x EXCEPT !.pended = x.pended + 1]
  BY TickTaken
<1>2. x \in KernelState /\ x.susp \in Nat
  BY DEF Sound, Shape, KernelState
<1>3. y.ns = x.ns /\ y.nv = x.nv
  BY <1>1 DEF Stepped, Same, Fields, TickStep, Times, Wakes, StateLinks, Turn
<1>4. Stepped(x, y, at, to, AnyStep)
  BY <1>1 DEF Stepped, Same, AnyStep
<1>5. x.susp > 0 => y.pended = x.pended + 1 /\ y.pending = x.pending
  BY <1>1, <1>2 DEF KernelState
<1>6. Woke(x, y, at, to, {})
  BY <1>1, <1>2, <1>3, <1>4, <1>5 DEF Woke
<1> QED BY <1>6

LEMMA IsrResumes ==
  ASSUME NEW x, NEW at, Sound(x, at), NEW u \in Task, at[u] = "suspended" => x.ns[u] # "waiting",
         NEW y, y = xTaskResumeFromISR(x, u)
  PROVE  \E to : Woke(x, y, at, to, {u}) /\ y.pended = x.pended
<1>1. CASE y = x
  <2>1. Same(x, y, Plain \ {"cur", "susp"})
    BY <1>1 DEF Same
  <2>2. Keeps(x, y, at, at) /\ Moved(at, at) /\ y.dying = x.dying
    BY <1>1, <2>1, Unmoved
  <2>3. Same(x, y, AnyStep)
    BY <1>1 DEF Same
  <2>4. Woke(x, y, at, at, {u})
    BY <1>1, <2>2, <2>3 DEF Woke, Stepped
  <2> QED BY <1>1, <2>4
<1>2. CASE y # x
  <2>1. /\ at[u] = "suspended" /\ u \notin Range(x.pending)
        /\ \E to : IsrWakes(x, y, at, to, u, AnyTurn)
    BY <1>2, ResumesFromIsr
  <2>2. PICK to : IsrWakes(x, y, at, to, u, AnyTurn)
    BY <2>1
  <2>3. /\ Stepped(x, y, at, to, AnyTurn)
        /\ x.susp = 0 => y.pending = x.pending
        /\ x.susp > 0 => y.pending = Append(x.pending, u)
    BY <2>2 DEF IsrWakes
  <2>4. x.pending \in Seq(Task) /\ x.susp \in Nat /\ Distinct(x.pending)
    BY DEF Sound, Shape, KernelState
  <2>5. x.susp > 0 => Range(y.pending) = Range(x.pending) \cup {u}
    <3>1. SUFFICES ASSUME x.susp > 0 PROVE Range(y.pending) = Range(x.pending) \cup {u}
      OBVIOUS
    <3>2. y.pending = Append(x.pending, u) /\ u \notin Range(x.pending)
      BY <2>1, <2>3, <3>1
    <3> QED BY <2>4, <3>2, AppendList
  <2>6. y.ns = x.ns /\ y.nv = x.nv /\ y.pended = x.pended
    BY <2>3 DEF Stepped, Same, Fields, AnyTurn, Wakes, StateLinks, Turn
  <2>7. Stepped(x, y, at, to, AnyStep)
    BY <2>3 DEF Stepped, Same, AnyStep, CallStep
  <2>8. x.ns[u] # "waiting"
    BY <2>1
  <2>9. x.susp = 0 \/ x.susp > 0
    BY <2>4
  <2>10. Woke(x, y, at, to, {u})
    BY <2>3, <2>5, <2>6, <2>7, <2>8, <2>9 DEF Woke
  <2> QED BY <2>6, <2>10
<1> QED BY <1>1, <1>2

LEMMA IsrNotifies ==
  ASSUME NEW x, NEW at, Sound(x, at), NEW u \in Task,
         x.ns[u] = "waiting" => u \notin Range(x.pending) /\ (x.susp = 0 => at[u] \notin {"none", "dying"}),
         NEW y, y = xTaskGenericNotifyFromISR(x, u)
  PROVE  \E to : Woke(x, y, at, to, {u}) /\ y.pended = x.pended
<1>0. /\ x.ns \in [Task -> {"none", "waiting", "received"}] /\ x.nv \in [Task -> Nat]
      /\ x.pending \in Seq(Task) /\ x.susp \in Nat /\ Distinct(x.pending)
  BY DEF Sound, Shape, KernelState
<1>1. PICK to : ToldFromIsr(x, y, at, to, u)
  BY NotifiesFromIsr
<1>2. /\ Stepped(x, y, at, to, AnyTurn \cup {"ns", "nv"}) /\ Counts(x, y, u)
      /\ IF x.ns[u] = "waiting" /\ x.susp > 0 THEN y.pending = Append(x.pending, u)
                                             ELSE y.pending = x.pending
      /\ x.ns[u] = "waiting" /\ x.susp = 0 => to[u] = "ready"
  BY <1>1 DEF ToldFromIsr
<1>3. Stepped(x, y, at, to, AnyStep)
  BY <1>2 DEF Stepped, Same, AnyStep, CallStep
<1>4. y.pended = x.pended
  BY <1>2 DEF Stepped, Same, Fields, AnyTurn, Wakes, StateLinks, Turn
<1>5. x.ns[u] = "waiting" /\ x.susp > 0 => Range(y.pending) = Range(x.pending) \cup {u}
  <2>1. SUFFICES ASSUME x.ns[u] = "waiting", x.susp > 0 PROVE Range(y.pending) = Range(x.pending) \cup {u}
    OBVIOUS
  <2>2. y.pending = Append(x.pending, u) /\ u \notin Range(x.pending)
    BY <1>2, <2>1
  <2> QED BY <1>0, <2>2, AppendList
<1>6. /\ Range(y.pending) \subseteq Range(x.pending) \cup {u} /\ Range(x.pending) \subseteq Range(y.pending)
      /\ x.susp = 0 => y.pending = x.pending
      /\ x.ns[u] # "waiting" => y.pending = x.pending
  BY <1>0, <1>2, <1>5
<1>7. \A t \in Task : y.ns[t] = "waiting" =>
       /\ x.ns[t] = "waiting" /\ y.nv[t] = x.nv[t]
       /\ t \in Range(y.pending) => t \in Range(x.pending)
  BY <1>0, <1>2, <1>6 DEF Counts
<1>8. \A t \in Task : x.ns[t] = "waiting" /\ to[t] \in Asleep /\ t \notin Range(y.pending) => y.ns[t] = "waiting"
  <2>1. ASSUME x.ns[u] = "waiting", to[u] \in Asleep PROVE u \in Range(y.pending)
    <3>1. x.susp > 0
      BY <1>0, <1>2, <2>1 DEF Asleep
    <3> QED BY <1>5, <2>1, <3>1
  <2> QED BY <1>0, <1>2, <2>1 DEF Counts
<1>9. Woke(x, y, at, to, {u})
  BY <1>3, <1>4, <1>6, <1>7, <1>8 DEF Woke
<1> QED BY <1>4, <1>9

-----------------------------------------------------------------------------
(* The current task waits for a notification                                *)

WaitStep == StateLinks \cup {"top", "unblock", "aborted", "ns", "ypend", "cur"}
Waiting(x, y, at, place, n) ==
  LET to == [at EXCEPT ![x.cur] = place] IN
  /\ Sound(y, to) /\ Best(y, to) /\ Same(x, y, WaitStep) /\ y.dying = x.dying
  /\ y.ns = [x.ns EXCEPT ![x.cur] = "waiting"]
  /\ place \in {"delayed", "overflow", "suspended"}
  /\ place = "suspended" => n = MaxDelay
  /\ \A u \in Task \ {x.cur} : y.wake[u] = x.wake[u]
LEMMA WaitsForNotification ==
  ASSUME NEW x, NEW at, Sound(x, at), at[x.cur] = "ready", x.cur # Idle, x.susp = 0,
         NEW n \in 1..MaxDelay,
         NEW z, z = [x EXCEPT !.ns[x.cur] = "waiting"],
         NEW y, y = vTaskSwitchContext(prvAddCurrentTaskToDelayedList(z, n, TRUE))
  PROVE  \E place : Waiting(x, y, at, place, n)
<1>1. x \in KernelState /\ x.ns \in [Task -> {"none", "waiting", "received"}] /\ x.nv \in [Task -> Nat] /\ x.cur \in Task
  BY DEF Sound, Shape, KernelState
<1>2. PICK s \in [Task -> {"none", "waiting", "received"}] : s = [x.ns EXCEPT ![x.cur] = "waiting"]
  BY <1>1
<1>3. PICK v \in [Task -> Nat] : v = x.nv
  BY <1>1
<1>4. z = [x EXCEPT !.ns = s, !.nv = v]
  BY <1>1, <1>2, <1>3 DEF KernelState
<1>5. Sound(z, at) /\ Same(x, z, {"ns", "nv"}) /\ z.ns = s /\ z.nv = v
  <2>1. Noted(x, z, at, s, v)
    BY <1>4, NotesChanged
  <2> QED BY <2>1 DEF Noted
<1>6. z.cur = x.cur /\ z.susp = x.susp /\ z.wake = x.wake /\ z.dying = x.dying
  BY <1>5 DEF Same, Fields
<1>7. PICK b \in BOOLEAN : b = TRUE
  OBVIOUS
<1>8. PICK w : w = prvAddCurrentTaskToDelayedList(z, n, b)
  OBVIOUS
<1>9. PICK place : Slept(z, w, at, place, n, b)
  BY <1>5, <1>6, <1>8, Delayed
<1>10. PICK to : to = [at EXCEPT ![x.cur] = place]
  OBVIOUS
<1>11. /\ Sound(w, to) /\ Same(z, w, StateLinks \cup {"top", "unblock", "aborted"})
       /\ w.dying = z.dying
       /\ \A u \in Task \ {z.cur} : w.wake[u] = z.wake[u]
       /\ place \in {"delayed", "overflow", "suspended"}
       /\ place = "suspended" => n = MaxDelay
  BY <1>6, <1>9, <1>10 DEF Slept
<1>12. w.susp = 0 /\ Shape(w, to) /\ InTime(w, to) /\ w.ns = s
  BY ZenonT(30), <1>5, <1>6, <1>11 DEF Sound, Same, Fields, StateLinks
<1>13. y = vTaskSwitchContext(w)
  BY <1>7, <1>8
<1>14. Shape(y, to) /\ Same(w, y, Turn) /\ Best(y, to)
  BY <1>12, <1>13, Switched
<1>15. InTime(y, to)
  BY <1>12, <1>14, SameTurn
<1>16. y.dying = x.dying /\ y.ns = s /\ y.wake = w.wake
  BY <1>6, <1>11, <1>12, <1>14 DEF Same, Fields, Turn
<1>17. Same(x, y, WaitStep)
  <2>1. Same(x, z, {"ns"})
    BY <1>3, <1>5 DEF Same
  <2> QED BY ZenonT(30), <1>11, <1>14, <2>1 DEF Same, WaitStep, Turn, StateLinks
<1>18. Waiting(x, y, at, place, n)
  BY <1>2, <1>6, <1>10, <1>11, <1>14, <1>15, <1>16, <1>17 DEF Waiting, Sound
<1> QED BY <1>18

-----------------------------------------------------------------------------

(* The scheduler starts                                                     *)
Creating == INSTANCE FoldProofs WITH Op <- Created1
LEMMA Created1Fold ==
  ASSUME NEW x, NEW s
  PROVE  Creating!Fold(x, s) = FoldLeft(Created1, x, s)
BY DEF Creating!Fold, Creating!FoldLeft, Creating!MapThenFoldSet, FoldLeft, MapThenFoldSet, Max, Creating!Max

(* The tasks of S have been created, and nothing else has happened.         *)
ReadyIn(S) == [t \in Task |-> IF t \in S THEN "ready" ELSE "none"]
Building(x, S) ==
  /\ x \in KernelState /\ InOrder(x, ReadyIn(S)) /\ x.base = x.prio
  /\ Same(prvInitialiseTaskLists, x, NewFields \cup {"top", "ready"})
  /\ \A t \in Task : x.ns[t] = "none"
  /\ IsFiniteSet(S) /\ x.ntasks = Cardinality(S)

LEMMA NothingBuilt ==
  ASSUME NEW x, x = prvInitialiseTaskLists
  PROVE  Building(x, {})
<1> DEFINE ring == <<END>>
<1>1. ring \in Seq(Task \cup {END}) /\ Range(ring) = {END} /\ Distinct(ring) /\ Range(<<>>) = {} /\ Distinct(<<>>)
  BY DEF Range, Distinct
<1>2. x \in KernelState
  <2>1. <<END>> \in Seq(Task \cup {END}) /\ <<>> \in Seq(Task)
    OBVIOUS
  <2> QED BY <2>1, Numbers DEF prvInitialiseTaskLists, KernelState
<1>3. /\ x.ready = [q \in Priority |-> ring] /\ x.delayed = <<>> /\ x.overflow = <<>> /\ x.suspended = <<>>
      /\ x.dying = <<>> /\ x.top = {} /\ x.base = x.prio /\ x.ntasks = 0 /\ \A t \in Task : x.ns[t] = "none"
  BY DEF prvInitialiseTaskLists
<1>4. PICK on : on = ReadyIn({})
  OBVIOUS
<1>5. on \in [Task -> Places] /\ \A t \in Task : on[t] = "none"
  BY <1>4 DEF ReadyIn, Places
<1>6. Listed(x, on, x.prio)
  <2>1. \A place \in Places \ {"none"} : InPlace(<<>>, on, place)
    BY <1>1, <1>5 DEF InPlace
  <2>2. Sorted(<<>>, x.wake)
    BY DEF Sorted
  <2> HIDE DEF ring
  <2> QED BY <1>1, <1>3, <1>5, <2>1, <2>2 DEF Listed, Places
<1>7. Bits(x, on)
  BY <1>3, <1>5 DEF Bits
<1>8. IsFiniteSet({}) /\ Cardinality({}) = 0
  BY FS_EmptySet
<1>9. InOrder(x, ReadyIn({}))
  BY <1>4, <1>6, <1>7 DEF InOrder
<1>10. Same(x, x, NewFields \cup {"top", "ready"})
  BY DEF Same
<1> QED BY <1>2, <1>3, <1>8, <1>9, <1>10 DEF Building

LEMMA BuiltOne ==
  ASSUME NEW x, NEW S \in SUBSET Task, Building(x, S), NEW u \in Task, u \notin S, NEW p \in Priority,
         NEW y, y = Created1(x, <<u, p>>)
  PROVE  Building(y, S \cup {u}) /\ y.prio = [x.prio EXCEPT ![u] = p]
<1>1. PICK at : at = ReadyIn(S)
  OBVIOUS
<1>2. PICK to : to = [at EXCEPT ![u] = "ready"]
  OBVIOUS
<1>3. /\ x \in KernelState /\ Listed(x, at, x.prio) /\ Bits(x, at) /\ x.prio \in [Task -> Priority]
      /\ at \in [Task -> Places] /\ x.base = x.prio /\ at[u] = "none"
  BY <1>1 DEF Building, InOrder, KernelState, Listed, ReadyIn
<1>4. to = ReadyIn(S \cup {u})
  BY <1>1, <1>2 DEF ReadyIn
<1>5. PICK z : z = prvInitialiseNewTask([x EXCEPT !.ntasks = x.ntasks + 1], u, p)
  OBVIOUS
<1>6. Initialised(x, z, u, p)
  BY <1>3, <1>5, Initialises
<1>7. /\ z \in KernelState /\ Same(x, z, NewFields)
      /\ z.prio = [x.prio EXCEPT ![u] = p] /\ z.base = [x.base EXCEPT ![u] = p]
      /\ z.ns = [x.ns EXCEPT ![u] = "none"]
      /\ z.ntasks = x.ntasks + 1
  BY <1>6 DEF Initialised
<1>8. Listed(z, at, z.prio) /\ Bits(z, at)
  <2>1. Same(x, z, Plain \cup {"prio", "base"})
    BY <1>7 DEF Same, Plain, NewFields
  <2>2. \A t \in Task \ {u} : z.prio[t] = x.prio[t]
    BY <1>3, <1>7
  <2>3. InOrder(x, at)
    BY <1>3 DEF InOrder
  <2>4. InOrder(z, at)
    BY <1>3, <2>1, <2>2, <2>3, OtherPriority
  <2> QED BY <2>4 DEF InOrder
<1>9. y = prvAddTaskToReadyList(z, u)
  BY <1>5 DEF Created1, prvAddNewTaskToReadyList
<1>10. y \in KernelState /\ Listed(y, to, z.prio) /\ Bits(y, to) /\ Same(z, y, {"top", "ready"})
  <2>1. z \in KernelState
    BY <1>7
  <2> QED BY <1>2, <1>3, <1>8, <1>9, <2>1, Enlisted
<1>11. y.prio = z.prio /\ y.base = z.base /\ y.ns = z.ns /\ y.ntasks = z.ntasks
  BY <1>10 DEF Same, Fields
<1>12. Same(prvInitialiseTaskLists, y, NewFields \cup {"top", "ready"})
  BY <1>7, <1>10 DEF Same, Building
<1>13. IsFiniteSet(S \cup {u}) /\ y.ntasks = Cardinality(S \cup {u})
  <2>1. IsFiniteSet(S) /\ x.ntasks = Cardinality(S)
    BY DEF Building
  <2> QED BY <2>1, <1>7, <1>11, FS_AddElement
<1>14. \A t \in Task : y.ns[t] = "none"
  <2>1. \A t \in Task : x.ns[t] = "none"
    BY DEF Building
  <2>2. x.ns \in [Task -> {"none", "waiting", "received"}]
    BY <1>3 DEF KernelState
  <2> QED BY <1>7, <1>11, <2>1, <2>2
<1>15. InOrder(y, ReadyIn(S \cup {u}))
  BY <1>4, <1>10, <1>11 DEF InOrder
<1>16. y.base = y.prio /\ y.prio = [x.prio EXCEPT ![u] = p]
  BY <1>3, <1>7, <1>11
<1> QED BY <1>10, <1>12, <1>13, <1>14, <1>15, <1>16 DEF Building

(* The tasks of seq are created one after the other.                        *)
LEMMA AllBuilt ==
  ASSUME NEW all \in Seq(Task), Distinct(all), NEW p \in [Task -> Priority],
         NEW y, y = FoldLeft(Created1, prvInitialiseTaskLists, [i \in DOMAIN all |-> <<all[i], p[all[i]]>>])
  PROVE  Building(y, Range(all)) /\ \A t \in Range(all) : y.prio[t] = p[t]
<1>1. PICK n \in Nat : n = Len(all)
  OBVIOUS
<1>2. DOMAIN all = 1..n /\ \A i \in 1..n : all[i] \in Task
  BY <1>1
<1>3. PICK s : s = [i \in DOMAIN all |-> <<all[i], p[all[i]]>>]
  OBVIOUS
<1>4. PICK x : x = prvInitialiseTaskLists
  OBVIOUS
<1>5. PICK it : /\ it[0] = x
                /\ \A m \in 0..n - 1 : it[m + 1] = Created1(it[m], s[m + 1])
                /\ y = it[n]
  <2>1. DOMAIN s = 1..n
    BY <1>2, <1>3
  <2>2. PICK it : /\ it[0] = x
                  /\ \A m \in 0..n - 1 : it[m + 1] = Created1(it[m], s[m + 1])
                  /\ Creating!Fold(x, s) = it[n]
    BY <1>1, <2>1, Creating!FoldSteps
  <2>3. Creating!Fold(x, s) = y
    BY <1>3, <1>4, Created1Fold
  <2> QED BY <2>2, <2>3
<1> DEFINE First(m) == {all[i] : i \in 1..m}
           Good1(m) == Building(it[m], First(m)) /\ \A t \in First(m) : it[m].prio[t] = p[t]
           T == {m \in Nat : m <= n => Good1(m)}
<1>6. 0 \in T
  <2>1. First(0) = {}
    OBVIOUS
  <2>2. Building(it[0], {})
    BY <1>4, <1>5, NothingBuilt
  <2> HIDE DEF First
  <2>3. Good1(0)
    BY <2>1, <2>2
  <2> HIDE DEF Good1
  <2> QED BY <2>3
<1>7. ASSUME NEW m \in T PROVE m + 1 \in T
  <2>1. SUFFICES ASSUME m + 1 <= n PROVE Good1(m + 1)
    OBVIOUS
  <2>2. m \in 0..n - 1 /\ m \in Nat /\ m + 1 \in 1..n
    BY <2>1
  <2>3. Good1(m)
    <3> HIDE DEF Good1
    <3>1. m <= n
      BY <2>1, <2>2
    <3> QED BY <3>1
  <2>4. PICK u : u = all[m + 1]
    OBVIOUS
  <2>5. PICK q : q = p[u]
    OBVIOUS
  <2>6. u \in Task /\ q \in Priority
    BY <1>2, <2>2, <2>4, <2>5
  <2>7. s[m + 1] = <<u, q>>
    BY <1>2, <1>3, <2>2, <2>4, <2>5
  <2>8. it[m + 1] = Created1(it[m], <<u, q>>)
    BY <1>5, <2>2, <2>7
  <2>9. First(m) \in SUBSET Task /\ u \notin First(m) /\ First(m + 1) = First(m) \cup {u}
    <3>1. \A i \in 1..m : i \in 1..n /\ i # m + 1 /\ i \in 1..m + 1
      BY <2>2
    <3>2. \A i \in 1..m : all[i] \in Task /\ all[i] # u
      BY <1>2, <2>2, <2>4, <3>1 DEF Distinct
    <3>3. \A i \in 1..m + 1 : i \in 1..m \/ i = m + 1
      BY <2>2
    <3>4. m + 1 \in 1..m + 1
      BY <2>2
    <3> QED BY <2>4, <3>1, <3>2, <3>3, <3>4
  <2>10. PICK S : S = First(m)
    OBVIOUS
  <2>11. S \in SUBSET Task /\ u \notin S /\ Building(it[m], S) /\ \A t \in S : it[m].prio[t] = p[t]
    BY <2>3, <2>9, <2>10
  <2>12. Building(it[m + 1], S \cup {u}) /\ it[m + 1].prio = [it[m].prio EXCEPT ![u] = q]
    <3>1. PICK w : w = it[m]
      OBVIOUS
    <3>2. PICK z : z = it[m + 1]
      OBVIOUS
    <3>3. Building(w, S) /\ z = Created1(w, <<u, q>>)
      BY <2>8, <2>11, <3>1, <3>2
    <3>4. Building(z, S \cup {u}) /\ z.prio = [w.prio EXCEPT ![u] = q]
      BY SMTT(30), <2>6, <2>11, <3>3, BuiltOne
    <3> QED BY <3>1, <3>2, <3>4
  <2>13. it[m].prio \in [Task -> Priority]
    BY <2>11 DEF Building, KernelState
  <2>14. \A t \in S \cup {u} : it[m + 1].prio[t] = p[t]
    BY <2>5, <2>6, <2>11, <2>12, <2>13
  <2>15. First(m + 1) = S \cup {u}
    BY <2>9, <2>10
  <2> HIDE DEF First
  <2> QED BY <2>12, <2>14, <2>15
<1>8. n \in T
  <2> HIDE DEF T
  <2>1. T \in SUBSET Nat
    BY DEF T
  <2> QED BY <1>6, <1>7, <2>1, Creating!NatInd
<1>9. Good1(n)
  <2> HIDE DEF Good1
  <2>1. n <= n
    OBVIOUS
  <2> QED BY <1>8, <2>1
<1>10. First(n) = Range(all)
  BY <1>2 DEF Range
<1> HIDE DEF First
<1> QED BY <1>5, <1>9, <1>10

LEMMA CurChanged ==
  ASSUME NEW x \in KernelState, NEW t \in Task, NEW y, y = [x EXCEPT !.cur = t]
  PROVE  y \in KernelState /\ Same(x, y, {"cur"}) /\ y.cur = t
BY DEF KernelState, Same, Fields

(* vTaskStartScheduler: a task of the highest priority runs.                *)
Starting(y, S) ==
  /\ Sound(y, ReadyIn(S)) /\ Best(y, ReadyIn(S))
  /\ y.susp = 0 /\ y.pending = <<>> /\ y.pended = 0 /\ y.dying = <<>> /\ y.ndying = 0
  /\ y.ntasks = Cardinality(S) /\ \A t \in Task : y.ns[t] = "none"
LEMMA Starts ==
  ASSUME NEW seq \in Seq(Task \ {Idle}), Distinct(seq), NEW p \in [Task -> Priority],
         NEW all, all = Append(seq, Idle), NEW y, y = StartScheduler(seq, p)
  PROVE  Starting(y, Range(all))
<1>1. all \in Seq(Task) /\ Distinct(all) /\ Idle \in Range(all) /\ Len(all) > 0
  <2>1. Idle \in Task
    BY Numbers
  <2>2. seq \in Seq(Task) /\ Idle \notin Range(seq)
    BY DEF Range
  <2>3. Distinct(all) /\ Range(all) = Range(seq) \cup {Idle} /\ all \in Seq(Task) /\ Len(all) = Len(seq) + 1
    BY <2>1, <2>2, AppendList
  <2> QED BY <2>3
<1>2. PICK n \in Nat : n = Len(all)
  BY <1>1
<1>3. DOMAIN all = 1..n /\ n > 0 /\ \A i \in 1..n : all[i] \in Task
  BY <1>1, <1>2
<1>4. PICK P : P = {p[all[i]] : i \in DOMAIN all}
  OBVIOUS
<1>5. PICK top : top = Max(P)
  OBVIOUS
<1>6. top \in P /\ \A q \in P : top >= q
  <2>1. P # {} /\ P \subseteq Priority
    BY <1>3, <1>4
  <2>2. PICK m \in Nat : Priority = 0..m
    BY KernelAssumption DEF Priority
  <2>3. P \in SUBSET (0..m)
    BY <2>1, <2>2
  <2> QED BY <1>5, <2>1, <2>3, GreatestNat
<1>7. PICK Q : Q = {i \in DOMAIN all : p[all[i]] = top}
  OBVIOUS
<1>8. PICK f : f = Max(Q)
  OBVIOUS
<1>9. f \in Q
  <2>1. Q # {} /\ Q \in SUBSET (0..n)
    BY <1>3, <1>4, <1>6, <1>7
  <2> QED BY <1>8, <2>1, GreatestNat
<1>10. PICK first : first = all[f]
  OBVIOUS
<1>11. first \in Task /\ first \in Range(all) /\ p[first] = top
  BY <1>3, <1>7, <1>9, <1>10 DEF Range
<1>12. PICK z : z = FoldLeft(Created1, prvInitialiseTaskLists, [i \in DOMAIN all |-> <<all[i], p[all[i]]>>])
  OBVIOUS
<1>13. y = [z EXCEPT !.cur = first]
  BY <1>4, <1>5, <1>7, <1>8, <1>10, <1>12 DEF StartScheduler
<1>14. Building(z, Range(all)) /\ \A t \in Range(all) : z.prio[t] = p[t]
  BY <1>1, <1>12, AllBuilt
<1>15. PICK at : at = ReadyIn(Range(all))
  OBVIOUS
<1>16. /\ z \in KernelState /\ Listed(z, at, z.prio) /\ Bits(z, at) /\ z.base = z.prio
       /\ Same(prvInitialiseTaskLists, z, NewFields \cup {"top", "ready"})
       /\ \A t \in Task : z.ns[t] = "none"
       /\ z.ntasks = Cardinality(Range(all))
  BY <1>14, <1>15 DEF Building, InOrder
<1>17. y \in KernelState /\ Same(z, y, {"cur"}) /\ y.cur = first
  BY <1>11, <1>13, <1>16, CurChanged
<1>18. Listed(y, at, y.prio) /\ Bits(y, at)
  <2>1. y.prio = z.prio /\ y.top = z.top
    BY <1>17 DEF Same, Fields
  <2>2. {"cur"} \cap StateLinks = {}
    BY DEF StateLinks
  <2>3. Listed(y, at, z.prio)
    BY <1>16, <1>17, <2>2, SameLists
  <2> QED BY <1>16, <2>1, <2>3 DEF Bits
<1>19. /\ y.pending = <<>> /\ y.evl = [l \in EventList |-> <<>>] /\ ~y.halted /\ y.susp = 0
       /\ y.pended = 0 /\ y.dying = <<>>
       /\ y.base = y.prio /\ y.prio = z.prio /\ y.ntasks = z.ntasks /\ y.ns = z.ns
  <2>1. \A g \in {"pending", "evl", "halted", "susp", "pended", "dying"} : y[g] = prvInitialiseTaskLists[g]
    BY <1>16, <1>17 DEF Same, Fields, NewFields
  <2>2. y.prio = z.prio /\ y.base = z.base /\ y.ntasks = z.ntasks /\ y.ns = z.ns
    BY <1>17 DEF Same, Fields
  <2> QED BY <1>16, <2>1, <2>2 DEF prvInitialiseTaskLists
<1>20. y.ndying = 0
  <2>1. y.ndying = prvInitialiseTaskLists.ndying
    BY <1>16, <1>17 DEF Same, Fields, NewFields
  <2> QED BY <2>1 DEF prvInitialiseTaskLists
<1>21. \A t \in Task : at[t] # "delayed" /\ (at[t] = "ready" <=> t \in Range(all))
  BY <1>15 DEF ReadyIn
<1>22. Sound(y, at)
  <2>1. at[Idle] = "ready"
    BY <1>1, <1>21, Numbers
  <2>2. InTime(y, at)
    BY <1>21 DEF InTime
  <2>3. Distinct(y.pending)
    BY <1>19 DEF Distinct
  <2> QED BY <1>17, <1>18, <1>19, <2>1, <2>2, <2>3 DEF Sound, Shape
<1>23. Best(y, at)
  <2>1. ASSUME NEW t \in Task, at[t] = "ready" PROVE y.prio[t] <= y.prio[y.cur]
    <3>1. t \in Range(all)
      BY <1>21, <2>1
    <3>2. y.prio[t] = p[t] /\ y.prio[y.cur] = top
      BY <1>11, <1>14, <1>17, <1>19, <3>1
    <3>3. p[t] \in P
      BY <1>4, <3>1 DEF Range
    <3>4. p[t] \in Nat /\ top \in Nat
      BY <1>11, Numbers
    <3> QED BY <1>6, <3>2, <3>3, <3>4
  <2> QED BY <1>11, <1>17, <1>21, <2>1 DEF Best, NoneAbove
<1> QED BY <1>15, <1>16, <1>19, <1>20, <1>22, <1>23 DEF Starting

(* The event of a delay that is aborted.                                    *)
AbortsEvent(x, y, at, u) ==
  /\ Sound(y, at) /\ Same(x, y, {"pending", "aborted"})
  /\ Range(y.pending) = Range(x.pending) \ {u}
LEMMA AbortedSet ==
  ASSUME NEW x \in KernelState, NEW u \in Task, NEW y, y = [x EXCEPT !.aborted[u] = TRUE]
  PROVE  y \in KernelState /\ Same(x, y, {"aborted"})
BY DEF KernelState, Same, Fields

LEMMA EventAborted ==
  ASSUME NEW x, NEW at, Sound(x, at), NEW u \in Task,
         NEW y, y = [RemoveEvent(x, u) EXCEPT !.aborted[u] = TRUE]
  PROVE  AbortsEvent(x, y, at, u)
<1>1. PICK z : z = RemoveEvent(x, u)
  OBVIOUS
<1>2. Shape(z, at) /\ Same(x, z, {"pending"}) /\ Range(z.pending) = Range(x.pending) \ {u}
  BY <1>1, RemoveEventShape DEF Sound
<1>3. y \in KernelState /\ Same(z, y, {"aborted"})
  <2>1. z \in KernelState /\ y = [z EXCEPT !.aborted[u] = TRUE]
    BY <1>1, <1>2 DEF Shape
  <2> QED BY <2>1, AbortedSet
<1>4. Same(z, y, Plain) /\ y.pending = z.pending
  BY <1>3 DEF Same, Plain, Fields
<1>5. Sound(z, at)
  <2>1. z.tick = x.tick /\ z.unblock = x.unblock /\ z.wake = x.wake
    BY <1>2 DEF Same, Fields
  <2>2. InTime(x, at)
    BY DEF Sound
  <2>3. InTime(z, at)
    BY <2>1, <2>2 DEF InTime
  <2> QED BY <1>2, <2>3 DEF Sound
<1>6. Sound(y, at)
  BY <1>3, <1>4, <1>5, SameSound
<1>7. Same(x, y, {"pending", "aborted"})
  BY <1>2, <1>3 DEF Same
<1> QED BY <1>2, <1>4, <1>6, <1>7 DEF AbortsEvent

-----------------------------------------------------------------------------
(* The heap                                                                 *)

Good(b) == b \in BlockLink_t /\ b.size > 0 /\ EndOf(b) <= HeapUnits
Apart(a, b) == EndOf(a) <= b.at \/ EndOf(b) <= a.at
AllApart(S) == \A a, b \in S : a # b => Apart(a, b)
Untouched(S) == \A a, b \in S : EndOf(a) # b.at
Holds(S, u) == \E b \in S : b.at <= u /\ u < EndOf(b)

(* What prvInsertBlockIntoFreeList puts in the place of b and the free      *)
(* blocks on either side of it.                                             *)
LEMMA InsertedBlock ==
  ASSUME NEW f, NEW b, Good(b), b \notin f,
         \A x \in f : Good(x), AllApart(f \cup {b})
  PROVE  \E at, end \in Nat :
           LET before == {x \in f : EndOf(x) = b.at}
               after == {x \in f : x.at = EndOf(b)}
           IN /\ prvInsertBlockIntoFreeList(f, b)
                   = (f \ (before \cup after)) \cup {[at |-> at, size |-> end - at]}
              /\ \/ before = {} /\ at = b.at
                 \/ \E p \in f : before = {p} /\ EndOf(p) = b.at /\ at = p.at
              /\ \/ after = {} /\ end = EndOf(b)
                 \/ \E s \in f : after = {s} /\ s.at = EndOf(b) /\ end = EndOf(s)
<1> DEFINE before == {x \in f : EndOf(x) = b.at}
           after == {x \in f : x.at = EndOf(b)}
           p == CHOOSE x \in before : TRUE
           s == CHOOSE x \in after : TRUE
           at == IF before = {} THEN b.at ELSE p.at
           end == IF after = {} THEN EndOf(b) ELSE EndOf(s)
<1>1. prvInsertBlockIntoFreeList(f, b)
        = (f \ (before \cup after)) \cup {[at |-> at, size |-> end - at]}
  BY DEF prvInsertBlockIntoFreeList
<1>2. ASSUME before # {} PROVE p \in f /\ before = {p} /\ EndOf(p) = b.at
  <2>1. p \in before
    BY <1>2
  <2>2. ASSUME NEW x \in before, x # p PROVE FALSE
    BY <2>1, <2>2, SMT DEF Good, AllApart, Apart, EndOf, BlockLink_t
  <2> QED BY <2>1, <2>2
<1>3. ASSUME after # {} PROVE s \in f /\ after = {s} /\ s.at = EndOf(b)
  <2>1. s \in after
    BY <1>3
  <2>2. ASSUME NEW x \in after, x # s PROVE FALSE
    BY <2>1, <2>2, SMT DEF Good, AllApart, Apart, EndOf, BlockLink_t
  <2> QED BY <2>1, <2>2
<1>4. /\ at \in Nat
      /\ \/ before = {} /\ at = b.at
         \/ \E x \in f : before = {x} /\ EndOf(x) = b.at /\ at = x.at
  <2>1. CASE before = {}
    BY <2>1 DEF Good, BlockLink_t
  <2>2. CASE before # {}
    <3>1. at = p.at
      BY <2>2
    <3> HIDE DEF p, at
    <3> QED BY <1>2, <2>2, <3>1 DEF Good, BlockLink_t
  <2> QED BY <2>1, <2>2
<1>5. /\ end \in Nat
      /\ \/ after = {} /\ end = EndOf(b)
         \/ \E x \in f : after = {x} /\ x.at = EndOf(b) /\ end = EndOf(x)
  <2>0. \A x \in f \cup {b} : EndOf(x) \in Nat
    BY DEF Good, BlockLink_t, EndOf
  <2>1. CASE after = {}
    BY <2>0, <2>1
  <2>2. CASE after # {}
    <3>1. end = EndOf(s)
      BY <2>2
    <3> HIDE DEF s, end
    <3> QED BY <1>3, <2>0, <2>2, <3>1
  <2> QED BY <2>1, <2>2
<1> HIDE DEF at, end
<1> QED BY <1>1, <1>4, <1>5

(* A block that joins the free list: nothing overlaps, no unit is lost, and *)
(* no two free blocks touch.  R are the blocks that are not free.           *)
LEMMA InsertPreserves ==
  ASSUME NEW f, NEW R, NEW b, Good(b), b \notin f \cup R,
         \A x \in f \cup R : Good(x), f \cap R = {},
         AllApart(f \cup R \cup {b}), Untouched(f),
         NEW g, g = prvInsertBlockIntoFreeList(f, b)
  PROVE  /\ \A x \in g : Good(x)
         /\ g \cap R = {}
         /\ AllApart(g \cup R)
         /\ Untouched(g)
         /\ \A u \in Nat : Holds(f \cup {b}, u) => Holds(g, u)
<1> DEFINE before == {x \in f : EndOf(x) = b.at}
           after == {x \in f : x.at = EndOf(b)}
<1>1. AllApart(f \cup {b})
  BY DEF AllApart
<1>2. PICK at, end \in Nat :
        /\ g = (f \ (before \cup after)) \cup {[at |-> at, size |-> end - at]}
        /\ \/ before = {} /\ at = b.at
           \/ \E p \in f : before = {p} /\ EndOf(p) = b.at /\ at = p.at
        /\ \/ after = {} /\ end = EndOf(b)
           \/ \E s \in f : after = {s} /\ s.at = EndOf(b) /\ end = EndOf(s)
  BY <1>1, InsertedBlock
<1> DEFINE n == [at |-> at, size |-> end - at]
<1>3. /\ \A x \in f \cup R \cup {b} : /\ x.at \in Nat /\ x.size \in Nat /\ x.size > 0
                                     /\ EndOf(x) = x.at + x.size /\ EndOf(x) <= HeapUnits
  BY DEF Good, BlockLink_t, EndOf
<1>4. /\ at <= b.at /\ EndOf(b) <= end /\ end <= HeapUnits
      /\ n.at = at /\ n.size = end - at /\ EndOf(n) = end
  BY <1>2, <1>3 DEF EndOf
<1>5. Good(n)
  BY <1>3, <1>4, HeapAssumption DEF Good, BlockLink_t, EndOf
<1>6. ASSUME NEW x \in (f \ (before \cup after)) \cup R PROVE Apart(x, n)
  <2>1. /\ x # b /\ Apart(x, b)
        /\ \A p \in before \cup after : x # p /\ Apart(x, p)
    BY DEF AllApart
  <2>2. EndOf(x) <= b.at \/ EndOf(b) <= x.at
    BY <2>1 DEF Apart
  <2>3. EndOf(x) <= b.at => EndOf(x) <= at
    <3>1. CASE before = {}
      BY <1>2, <3>1
    <3>2. CASE before # {}
      <4>1. PICK p \in f : before = {p} /\ EndOf(p) = b.at /\ at = p.at
        BY <1>2, <3>2
      <4>2. EndOf(x) <= p.at \/ EndOf(p) <= x.at
        BY <2>1, <4>1 DEF Apart
      <4> QED BY <1>3, <4>1, <4>2
    <3> QED BY <3>1, <3>2
  <2>4. EndOf(b) <= x.at => end <= x.at
    <3>1. CASE after = {}
      BY <1>2, <3>1
    <3>2. CASE after # {}
      <4>1. PICK s \in f : after = {s} /\ s.at = EndOf(b) /\ end = EndOf(s)
        BY <1>2, <3>2
      <4>2. EndOf(x) <= s.at \/ EndOf(s) <= x.at
        BY <2>1, <4>1 DEF Apart
      <4> QED BY <1>3, <4>1, <4>2
    <3> QED BY <3>1, <3>2
  <2> QED BY <1>4, <2>2, <2>3, <2>4 DEF Apart
<1>7. n \notin R
  <2>1. \A x \in R : Apart(x, n)
    BY <1>6
  <2>2. ~Apart(n, n)
    BY <1>3, <1>4 DEF Apart
  <2> QED BY <2>1, <2>2
<1>8. AllApart(g \cup R)
  <2> SUFFICES ASSUME NEW x \in g \cup R, NEW y \in g \cup R, x # y PROVE Apart(x, y)
    BY DEF AllApart
  <2>1. CASE x = n
    <3>1. Apart(y, n)
      BY <1>2, <1>6, <2>1
    <3> QED BY <2>1, <3>1 DEF Apart
  <2>2. CASE y = n
    BY <1>2, <1>6, <2>2
  <2>3. CASE x # n /\ y # n
    BY <1>2, <2>3 DEF AllApart
  <2> QED BY <2>1, <2>2, <2>3
<1>9. Untouched(g)
  <2> SUFFICES ASSUME NEW x \in g, NEW y \in g, EndOf(x) = y.at PROVE FALSE
    BY DEF Untouched
  <2>1. CASE x = n /\ y = n
    BY <1>3, <1>4, <2>1
  <2>2. CASE x = n /\ y # n
    <3>1. y \in f /\ y \notin after /\ end = y.at
      BY <1>2, <1>4, <2>2
    <3> QED BY <1>2, <3>1 DEF Untouched
  <2>3. CASE x # n /\ y = n
    <3>1. x \in f /\ x \notin before /\ EndOf(x) = at
      BY <1>2, <1>4, <2>3
    <3> QED BY <1>2, <3>1 DEF Untouched
  <2>4. CASE x # n /\ y # n
    BY <1>2, <2>4 DEF Untouched
  <2> QED BY <2>1, <2>2, <2>3, <2>4
<1>10. ASSUME NEW u \in Nat, Holds(f \cup {b}, u) PROVE Holds(g, u)
  <2>1. PICK x \in f \cup {b} : x.at <= u /\ u < EndOf(x)
    BY <1>10 DEF Holds
  <2>2. CASE x \in f \ (before \cup after)
    BY <1>2, <2>1, <2>2 DEF Holds
  <2>3. CASE x \in before \cup after \cup {b}
    <3>1. at <= x.at /\ EndOf(x) <= end
      <4>1. CASE x = b
        BY <1>4, <4>1
      <4>2. CASE x \in before
        BY <1>2, <1>3, <1>4, <4>2
      <4>3. CASE x \in after
        BY <1>2, <1>3, <1>4, <4>3
      <4> QED BY <2>3, <4>1, <4>2, <4>3
    <3>2. n \in g /\ n.at <= u /\ u < EndOf(n)
      BY <1>2, <1>3, <1>4, <2>1, <3>1
    <3> QED BY <3>2 DEF Holds
  <2> QED BY <2>1, <2>2, <2>3
<1> QED BY <1>2, <1>5, <1>7, <1>8, <1>9, <1>10
-----------------------------------------------------------------------------
LEMMA FreeDistinct ==
  ASSUME HeapInv
  PROVE  /\ \A x \in Blocks : Good(x)
         /\ AllApart(Blocks) /\ Untouched(free)
         /\ \A u \in 0..HeapUnits - 1 : Holds(Blocks, u)
         /\ free \cap (used \cup leaving) = {} /\ used \cap leaving = {}
BY DEF HeapInv, HeapTypeOK, Disjoint, Covered, Coalesced, Good, AllApart, Apart,
       Untouched, Holds

LEMMA InvFromParts ==
  ASSUME \A x \in Blocks : Good(x),
         AllApart(Blocks), Untouched(free),
         \A u \in 0..HeapUnits - 1 : Holds(Blocks, u),
         free \cap (used \cup leaving) = {}, used \cap leaving = {}
  PROVE  HeapInv
BY DEF HeapInv, HeapTypeOK, Disjoint, Covered, Coalesced, Good, AllApart, Apart,
       Untouched, Holds

LEMMA HeapInitInv == prvHeapInit => HeapInv
<1> SUFFICES ASSUME prvHeapInit PROVE HeapInv
  OBVIOUS
<1> DEFINE b == [at |-> 0, size |-> HeapUnits]
<1>1. Blocks = {b} /\ free = {b} /\ used = {} /\ leaving = {}
  BY DEF prvHeapInit, Blocks
<1>2. Good(b) /\ b.at = 0 /\ EndOf(b) = HeapUnits /\ HeapUnits > 0
  BY HeapAssumption DEF Good, BlockLink_t, EndOf
<1>3. \A x \in Blocks : Good(x)
  BY <1>1, <1>2
<1>4. AllApart(Blocks)
  BY <1>1 DEF AllApart
<1>5. Untouched(free)
  BY <1>1, <1>2 DEF Untouched
<1>6. \A u \in 0..HeapUnits - 1 : Holds(Blocks, u)
  BY <1>1, <1>2, HeapAssumption DEF Holds
<1> QED BY <1>1, <1>3, <1>4, <1>5, <1>6, InvFromParts

(* pvPortMalloc takes a block of the free list, or its front.               *)
LEMMA AllocatePreserves ==
  ASSUME HeapInv, NEW wanted \in Nat \ {0}, NEW b \in free, Allocate(b, wanted)
  PROVE  HeapInv'
<1> DEFINE split == b.size - wanted > heapMINIMUM_BLOCK_SIZE
           front == [at |-> b.at, size |-> wanted]
           rest == [at |-> b.at + wanted, size |-> b.size - wanted]
           f == free \ {b}
           R == used \cup leaving \cup {front}
<1>1. /\ \A x \in Blocks : Good(x)
      /\ AllApart(Blocks) /\ Untouched(free)
      /\ \A u \in 0..HeapUnits - 1 : Holds(Blocks, u)
      /\ free \cap (used \cup leaving) = {} /\ used \cap leaving = {}
  BY FreeDistinct
<1>2. /\ b \in Blocks /\ Good(b) /\ b.at \in Nat /\ b.size \in Nat
      /\ b.size >= wanted /\ leaving' = leaving
  BY <1>1 DEF Allocate, FirstFit, Blocks, Good, BlockLink_t
<1>3. CASE ~split
  <2>1. free' = f /\ used' = used \cup {b}
    BY <1>3 DEF Allocate
  <2>2. Blocks' = Blocks
    BY <1>2, <2>1 DEF Blocks
  <2>3. HeapTypeOK'
    BY <1>1, <1>2, <2>1, <2>2 DEF HeapTypeOK, Good
  <2>4. (Disjoint /\ Covered)'
    BY <2>2 DEF HeapInv, Disjoint, Covered
  <2>5. Coalesced'
    BY <2>1 DEF HeapInv, Coalesced
  <2> QED BY <2>3, <2>4, <2>5 DEF HeapInv
<1>4. CASE split
  <2>1. free' = prvInsertBlockIntoFreeList(f, rest) /\ used' = used \cup {front}
    BY <1>4 DEF Allocate
  <2>2. b.size > wanted
    BY <1>2, <1>4, HeapAssumption DEF heapMINIMUM_BLOCK_SIZE
  <2>3. /\ front.at = b.at /\ front.size = wanted /\ EndOf(front) = b.at + wanted
        /\ rest.at = b.at + wanted /\ EndOf(rest) = EndOf(b)
        /\ EndOf(b) = b.at + b.size /\ EndOf(b) <= HeapUnits
    BY <1>2 DEF EndOf, Good
  <2>4. Good(front) /\ Good(rest)
    BY <1>2, <2>2, <2>3, HeapAssumption DEF Good, BlockLink_t, EndOf
  <2>5. ASSUME NEW x \in Blocks, x # b PROVE Apart(x, front) /\ Apart(x, rest) /\ x # front /\ x # rest
    <3>1. Apart(x, b) /\ x.size > 0 /\ x.at \in Nat /\ x.size \in Nat /\ EndOf(x) = x.at + x.size
      BY <1>1, <1>2, <2>5 DEF AllApart, Good, BlockLink_t, EndOf
    <3>2. Apart(x, front) /\ Apart(x, rest)
      BY <1>2, <2>2, <2>3, <3>1 DEF Apart
    <3>3. x # front /\ x # rest
      BY <1>2, <2>2, <2>3, <3>1 DEF Apart
    <3> QED BY <3>2, <3>3
  <2>6. Apart(front, rest) /\ Apart(rest, front) /\ front # rest
    BY <1>2, <2>3 DEF Apart
  <2>7. AllApart(f \cup R \cup {rest})
    <3> SUFFICES ASSUME NEW x \in f \cup R \cup {rest}, NEW y \in f \cup R \cup {rest}, x # y
                 PROVE  Apart(x, y)
      BY DEF AllApart
    <3>1. \A z \in f \cup used \cup leaving : z \in Blocks /\ z # b
      BY <1>1 DEF Blocks
    <3>2. CASE x \in {front, rest} /\ y \in {front, rest}
      BY <2>6, <3>2
    <3>3. CASE x \in {front, rest} /\ y \notin {front, rest}
      BY <2>5, <3>1, <3>3 DEF Apart
    <3>4. CASE x \notin {front, rest} /\ y \in {front, rest}
      BY <2>5, <3>1, <3>4
    <3>5. CASE x \notin {front, rest} /\ y \notin {front, rest}
      BY <1>1, <3>1, <3>5 DEF AllApart
    <3> QED BY <3>2, <3>3, <3>4, <3>5
  <2>8. f \cap R = {} /\ rest \notin f \cup R /\ front \notin leaving
    BY <1>1, <2>5, <2>6 DEF Blocks
  <2>9. /\ \A x \in f \cup R : Good(x)
        /\ Untouched(f)
    BY <1>1, <2>4 DEF Blocks, Untouched
  <2>10. /\ \A x \in free' : Good(x)
         /\ free' \cap R = {}
         /\ AllApart(free' \cup R)
         /\ Untouched(free')
         /\ \A u \in Nat : Holds(f \cup {rest}, u) => Holds(free', u)
    <3> DEFINE g == prvInsertBlockIntoFreeList(f, rest)
    <3>1. g = free'
      BY <2>1
    <3>2. Good(rest)
      BY <2>4
    <3> HIDE DEF f, R, rest, g
    <3>3. /\ \A x \in g : Good(x)
          /\ g \cap R = {}
          /\ AllApart(g \cup R)
          /\ Untouched(g)
          /\ \A u \in Nat : Holds(f \cup {rest}, u) => Holds(g, u)
      BY <2>7, <2>8, <2>9, <3>2, InsertPreserves DEF g
    <3> QED BY <3>1, <3>3
  <2>11. Blocks' = free' \cup R
    BY <1>2, <2>1 DEF Blocks
  <2>12. ASSUME NEW u \in 0..HeapUnits - 1 PROVE Holds(Blocks, u)'
    <3>1. PICK x \in Blocks : x.at <= u /\ u < EndOf(x)
      BY <1>1 DEF Holds
    <3>2. CASE x # b
      <4>1. x \in f \/ x \in R
        BY <3>2 DEF Blocks
      <4>2. CASE x \in f
        BY <2>10, <2>11, <3>1, <4>2 DEF Holds
      <4>3. CASE x \in R
        BY <2>11, <3>1, <4>3 DEF Holds
      <4> QED BY <4>1, <4>2, <4>3
    <3>3. CASE x = b /\ u < b.at + wanted
      BY <2>3, <2>11, <3>1, <3>3 DEF Holds
    <3>4. CASE x = b /\ u >= b.at + wanted
      <4>1. Holds(f \cup {rest}, u)
        BY <2>3, <3>1, <3>4 DEF Holds
      <4> QED BY <2>10, <2>11, <4>1 DEF Holds
    <3> QED BY <1>2, <3>2, <3>3, <3>4
  <2>13. /\ (\A x \in Blocks : Good(x))'
         /\ AllApart(Blocks)'
         /\ Untouched(free)'
         /\ (\A u \in 0..HeapUnits - 1 : Holds(Blocks, u))'
         /\ (free \cap (used \cup leaving) = {})' /\ (used \cap leaving = {})'
    <3>1. (used \cap leaving = {})'
      BY <1>1, <1>2, <2>1, <2>8
    <3>2. (free \cap (used \cup leaving) = {})'
      BY <1>2, <2>1, <2>10
    <3>3. (\A x \in Blocks : Good(x))'
      BY <2>9, <2>10, <2>11 DEF Good, EndOf
    <3>4. AllApart(Blocks)' /\ Untouched(free)'
      BY <2>10, <2>11 DEF AllApart, Untouched, Apart, EndOf
    <3> QED BY <2>12, <3>1, <3>2, <3>3, <3>4
  <2> QED BY <2>13, InvFromParts, PTL
<1> QED BY <1>3, <1>4

(* The two halves of vPortFree.                                             *)
LEMMA FreePreserves ==
  ASSUME HeapInv, NEW b \in used, heapFREE_BLOCK(b)
  PROVE  HeapInv'
<1>1. free' = free /\ used' = used \ {b} /\ leaving' = leaving \cup {b}
  BY DEF heapFREE_BLOCK
<1>2. Blocks' = Blocks
  BY <1>1 DEF Blocks
<1> QED BY <1>1, <1>2 DEF HeapInv, HeapTypeOK, Disjoint, Covered, Coalesced, EndOf

LEMMA ReleasePreserves ==
  ASSUME HeapInv, NEW b \in leaving, Release(b)
  PROVE  HeapInv'
<1> DEFINE R == used \cup (leaving \ {b})
           g == prvInsertBlockIntoFreeList(free, b)
<1>1. /\ \A x \in Blocks : Good(x)
      /\ AllApart(Blocks) /\ Untouched(free)
      /\ \A u \in 0..HeapUnits - 1 : Holds(Blocks, u)
      /\ free \cap (used \cup leaving) = {} /\ used \cap leaving = {}
  BY FreeDistinct
<1>2. free' = g /\ leaving' = leaving \ {b} /\ used' = used /\ Blocks' = g \cup R
  BY DEF Release, Blocks
<1>3. Blocks = free \cup R \cup {b} /\ b \notin free \cup R /\ free \cap R = {}
  BY <1>1 DEF Blocks
<1>4. Good(b) /\ \A x \in free \cup R : Good(x)
  BY <1>1, <1>3
<1>5. AllApart(free \cup R \cup {b})
  BY <1>1, <1>3
<1>6. /\ \A x \in g : Good(x)
      /\ g \cap R = {}
      /\ AllApart(g \cup R)
      /\ Untouched(g)
      /\ \A u \in Nat : Holds(free \cup {b}, u) => Holds(g, u)
  <2> HIDE DEF R, g
  <2> QED BY <1>1, <1>3, <1>4, <1>5, InsertPreserves DEF g
<1>7. ASSUME NEW u \in 0..HeapUnits - 1 PROVE Holds(Blocks, u)'
  <2>1. PICK x \in Blocks : x.at <= u /\ u < EndOf(x)
    BY <1>1 DEF Holds
  <2>2. CASE x \in R
    BY <1>2, <2>1, <2>2 DEF Holds
  <2>3. CASE x \in free \cup {b}
    BY <1>2, <1>6, <2>1, <2>3 DEF Holds
  <2> QED BY <1>3, <2>2, <2>3
<1>8. /\ (\A x \in Blocks : Good(x))'
      /\ AllApart(Blocks)'
      /\ Untouched(free)'
      /\ (\A u \in 0..HeapUnits - 1 : Holds(Blocks, u))'
      /\ (free \cap (used \cup leaving) = {})' /\ (used \cap leaving = {})'
  <2>1. (\A x \in Blocks : Good(x))'
    BY <1>2, <1>4, <1>6 DEF Good, EndOf
  <2>2. AllApart(Blocks)' /\ Untouched(free)'
    BY <1>2, <1>6 DEF AllApart, Untouched, Apart, EndOf
  <2>3. (free \cap (used \cup leaving) = {})' /\ (used \cap leaving = {})'
    BY <1>1, <1>2, <1>6
  <2> QED BY <1>7, <2>1, <2>2, <2>3
<1> QED BY <1>8, InvFromParts, PTL

(* Every block of memory has one owner: allocations, and blocks on their    *)
(* way back, overlap neither each other nor the free list, no memory is     *)
(* lost, and free neighbours are merged (heap_4.c).                         *)
THEOREM HeapCorrect == HeapSpec => []HeapInv
<1>1. HeapInv /\ [HeapNext]_heapVars => HeapInv'
  <2> SUFFICES ASSUME HeapInv, [HeapNext]_heapVars PROVE HeapInv'
    OBVIOUS
  <2>1. ASSUME NEW wanted \in Nat \ {0}, NEW b \in free, Allocate(b, wanted) PROVE HeapInv'
    BY <2>1, AllocatePreserves
  <2>2. ASSUME NEW b \in used, heapFREE_BLOCK(b) PROVE HeapInv'
    BY <2>2, FreePreserves
  <2>3. ASSUME NEW b \in leaving, Release(b) PROVE HeapInv'
    BY <2>3, ReleasePreserves
  <2>4. CASE UNCHANGED heapVars
    BY <2>4 DEF heapVars, HeapInv, HeapTypeOK, Disjoint, Covered, Coalesced, Blocks, EndOf
  <2> QED BY <2>1, <2>2, <2>3, <2>4 DEF HeapNext
<1> QED BY HeapInitInv, <1>1, PTL DEF HeapSpec

(* When everything has been given back, in whatever order, the heap is one  *)
(* free block again (prvInsertBlockIntoFreeList).                           *)
THEOREM HeapBecomesWhole == HeapSpec => []WholeAgain
<1>1. HeapInv => WholeAgain
  <2> SUFFICES ASSUME HeapInv, used = {}, leaving = {}
               PROVE  free = {[at |-> 0, size |-> HeapUnits]}
    BY DEF WholeAgain
  <2>1. /\ \A x \in free : /\ x.at \in Nat /\ x.size \in Nat /\ x.size > 0
                           /\ EndOf(x) = x.at + x.size /\ EndOf(x) <= HeapUnits
                           /\ x = [at |-> x.at, size |-> x.size]
        /\ AllApart(free) /\ Untouched(free)
        /\ \A u \in 0..HeapUnits - 1 : Holds(free, u)
    <3>1. Blocks = free
      BY DEF Blocks
    <3> QED BY <3>1, FreeDistinct DEF Good, BlockLink_t, EndOf
  <2>2. PICK b \in free : b.at = 0
    BY <2>1, HeapAssumption DEF Holds
  <2>3. EndOf(b) = HeapUnits
    <3> SUFFICES ASSUME EndOf(b) < HeapUnits PROVE FALSE
      BY <2>1, HeapAssumption
    <3>0. EndOf(b) \in 0..HeapUnits - 1
      BY <2>1, HeapAssumption
    <3> DEFINE u == EndOf(b)
    <3>1. PICK d \in free : d.at <= u /\ u < EndOf(d)
      <4> HIDE DEF u
      <4>1. u \in 0..HeapUnits - 1
        BY <3>0 DEF u
      <4> QED BY <2>1, <4>1 DEF Holds
    <3>2. EndOf(b) <= d.at \/ EndOf(d) <= b.at
      BY <2>1, <3>1 DEF AllApart, Apart
    <3>3. EndOf(b) = d.at
      BY <2>1, <2>2, <3>1, <3>2
    <3> QED BY <2>1, <3>3 DEF Untouched
  <2>4. ASSUME NEW d \in free, d # b PROVE FALSE
    BY <2>1, <2>2, <2>3, <2>4 DEF AllApart, Apart
  <2>5. b = [at |-> 0, size |-> HeapUnits]
    BY <2>1, <2>2, <2>3
  <2> QED BY <2>4, <2>5
<1> QED BY HeapCorrect, <1>1, PTL

-----------------------------------------------------------------------------
(* The count of free memory                                                *)

(* The sizes of a finite set of blocks are added up by a recursive function *)
(* that takes the blocks in an order of its own.                            *)
SizeSum(S) == MapThenSumSet(LAMBDA b : b.size, S)
Pick(s) == CHOOSE x \in s : TRUE
SumStep(s, g) == IF s = {} THEN 0 ELSE Pick(s).size + g[s \ {Pick(s)}]
Sums(S, g) == g = [s \in SUBSET S |-> SumStep(s, g)]
SumsOf(S) == CHOOSE g : Sums(S, g)
Sized(S) == IsFiniteSet(S) /\ \A b \in S : b.size \in Int

LEMMA SizeSumIs ==
  ASSUME NEW S
  PROVE  SizeSum(S) = SumsOf(S)[S]
BY DEF SizeSum, MapThenSumSet, MapThenFoldSet, SumsOf, Sums, SumStep, Pick

LEMMA Picked ==
  ASSUME NEW S, IsFiniteSet(S), S # {}
  PROVE  /\ Pick(S) \in S /\ IsFiniteSet(S \ {Pick(S)})
         /\ Cardinality(S \ {Pick(S)}) = Cardinality(S) - 1 /\ Cardinality(S) \in Nat \ {0}
<1>1. Pick(S) \in S
  BY DEF Pick
<1>2. IsFiniteSet(S \ {Pick(S)}) /\ Cardinality(S \ {Pick(S)}) = Cardinality(S) - 1
  BY <1>1, FS_RemoveElement
<1>3. Cardinality(S) \in Nat /\ Cardinality(S) # 0
  BY FS_CardinalityType, FS_EmptySet
<1> QED BY <1>1, <1>2, <1>3

LEMMA SumsExist ==
  ASSUME NEW S, IsFiniteSet(S)
  PROVE  Sums(S, SumsOf(S))
<1> DEFINE Upto(n, g) == /\ g = [s \in SUBSET S |-> g[s]]
                         /\ \A s \in SUBSET S : Cardinality(s) <= n => g[s] = SumStep(s, g)
           T == {n \in Nat : \E g : Upto(n, g)}
<1>1. \A s \in SUBSET S : IsFiniteSet(s) /\ Cardinality(s) \in Nat /\ Cardinality(s) <= Cardinality(S)
  BY FS_Subset, FS_CardinalityType
<1>2. 0 \in T
  <2> DEFINE g == [s \in SUBSET S |-> 0]
  <2>1. \A s \in SUBSET S : Cardinality(s) <= 0 => s = {}
    BY <1>1, FS_EmptySet
  <2>2. Upto(0, g)
    BY <2>1 DEF SumStep
  <2> QED BY <2>2
<1>3. ASSUME NEW n \in T PROVE n + 1 \in T
  <2>1. PICK g : Upto(n, g)
    OBVIOUS
  <2> DEFINE h == [s \in SUBSET S |-> IF Cardinality(s) <= n THEN g[s] ELSE SumStep(s, g)]
  <2>2. ASSUME NEW s \in SUBSET S, Cardinality(s) <= n + 1 PROVE h[s] = SumStep(s, h)
    <3>1. n \in Nat
      OBVIOUS
    <3>2. h[s] = SumStep(s, g)
      <4> HIDE DEF SumStep
      <4> QED BY <2>1
    <3>3. CASE s = {}
      BY <3>2, <3>3 DEF SumStep
    <3>4. CASE s # {}
      <4>1. /\ Pick(s) \in s /\ Cardinality(s \ {Pick(s)}) = Cardinality(s) - 1 /\ Cardinality(s) \in Nat
        BY <3>4, <1>1, Picked
      <4>2. s \ {Pick(s)} \in SUBSET S /\ Cardinality(s \ {Pick(s)}) <= n
        BY <4>1, <2>2, <3>1
      <4>3. h[s \ {Pick(s)}] = g[s \ {Pick(s)}]
        BY <4>2
      <4> HIDE DEF h
      <4> QED BY <3>2, <4>3 DEF SumStep
    <3> QED BY <3>3, <3>4
  <2>3. Upto(n + 1, h)
    <3>1. h = [s \in SUBSET S |-> h[s]]
      OBVIOUS
    <3> HIDE DEF h
    <3> QED BY <2>2, <3>1
  <2> HIDE DEF Upto
  <2> QED BY <2>3
<1>4. Cardinality(S) \in T
  <2> HIDE DEF T
  <2>1. T \in SUBSET Nat
    BY DEF T
  <2> QED BY <1>1, <1>2, <1>3, <2>1, Waking!NatInd
<1>5. PICK g : Upto(Cardinality(S), g)
  BY <1>4
<1>6. \A s \in SUBSET S : g[s] = SumStep(s, g)
  BY <1>1, <1>5
<1>7. Sums(S, g)
  <2>1. g = [s \in SUBSET S |-> g[s]]
    BY <1>5
  <2>2. [s \in SUBSET S |-> g[s]] = [s \in SUBSET S |-> SumStep(s, g)]
    BY <1>6
  <2> QED BY <2>1, <2>2 DEF Sums
<1> QED BY <1>7 DEF SumsOf

LEMMA SumsApply ==
  ASSUME NEW S, IsFiniteSet(S), NEW s \in SUBSET S
  PROVE  SumsOf(S)[s] = SumStep(s, SumsOf(S))
<1> DEFINE g == SumsOf(S)
<1>1. g = [r \in SUBSET S |-> SumStep(r, g)]
  BY SumsExist DEF Sums
<1> HIDE DEF g
<1>2. g[s] = SumStep(s, g)
  BY <1>1
<1> QED BY <1>2 DEF g

(* The sum of a subset is the same whatever set it is taken in.             *)
LEMMA SumsAgree ==
  ASSUME NEW S, Sized(S), NEW s \in SUBSET S
  PROVE  SumsOf(S)[s] = SumsOf(s)[s] /\ SumsOf(s)[s] \in Int
<1> DEFINE P(n) == \A U : Sized(U) => \A r \in SUBSET U : Cardinality(r) = n
                     => SumsOf(U)[r] = SumsOf(r)[r] /\ SumsOf(r)[r] \in Int
           T == {n \in Nat : P(n)}
<1>0. ASSUME NEW U, Sized(U), NEW r \in SUBSET U PROVE Sized(r) /\ Cardinality(r) \in Nat
  BY <1>0, FS_Subset, FS_CardinalityType DEF Sized
<1>1. 0 \in T
  <2>1. ASSUME NEW U, Sized(U), NEW r \in SUBSET U, Cardinality(r) = 0
        PROVE  SumsOf(U)[r] = SumsOf(r)[r] /\ SumsOf(r)[r] \in Int
    <3>1. IsFiniteSet(r) /\ IsFiniteSet(U)
      BY <2>1, <1>0 DEF Sized
    <3>2. r = {}
      BY <2>1, <3>1, FS_EmptySet
    <3>3. SumsOf(U)[r] = SumStep(r, SumsOf(U)) /\ SumsOf(r)[r] = SumStep(r, SumsOf(r))
      BY <3>1, SumsApply
    <3> QED BY <3>2, <3>3 DEF SumStep
  <2> QED BY <2>1
<1>2. ASSUME NEW n \in T PROVE n + 1 \in T
  <2>1. ASSUME NEW U, Sized(U), NEW r \in SUBSET U, Cardinality(r) = n + 1
        PROVE  SumsOf(U)[r] = SumsOf(r)[r] /\ SumsOf(r)[r] \in Int
    <3>1. Sized(r) /\ Sized(U) /\ IsFiniteSet(r) /\ IsFiniteSet(U) /\ n \in Nat
      BY <2>1, <1>0 DEF Sized
    <3>2. r # {}
      BY <2>1, <3>1, FS_EmptySet
    <3>3. SumsOf(U)[r] = SumStep(r, SumsOf(U)) /\ SumsOf(r)[r] = SumStep(r, SumsOf(r))
      BY <3>1, SumsApply
    <3> DEFINE q == r \ {Pick(r)}
    <3>4. Pick(r) \in r /\ Cardinality(q) = n
      <4>1. Pick(r) \in r /\ Cardinality(q) = Cardinality(r) - 1
        BY ONLY <3>1, <3>2, Picked
      <4> QED BY ONLY <4>1, <2>1, <3>1
    <3>5. P(n)
      BY <1>2
    <3>6. q \in SUBSET U /\ q \in SUBSET r
      OBVIOUS
    <3>7. SumsOf(U)[q] = SumsOf(q)[q] /\ SumsOf(q)[q] \in Int
      BY ONLY <3>1, <3>4, <3>5, <3>6
    <3>8. SumsOf(r)[q] = SumsOf(q)[q]
      BY ONLY <3>1, <3>4, <3>5, <3>6
    <3>9. Pick(r).size \in Int
      BY <3>1, <3>4 DEF Sized
    <3> QED BY <3>2, <3>3, <3>7, <3>8, <3>9 DEF SumStep
  <2>2. P(n + 1)
    BY <2>1
  <2> HIDE DEF P
  <2> QED BY <2>2
<1>3. T \in SUBSET Nat
  OBVIOUS
<1>4. Nat \subseteq T
  <2> HIDE DEF T
  <2> QED BY <1>1, <1>2, <1>3, Waking!NatInd
<1>5. Cardinality(s) \in Nat
  BY <1>0
<1>6. P(Cardinality(s))
  <2> HIDE DEF P
  <2> QED BY <1>4, <1>5
<1> QED BY <1>6

LEMMA SumTyped ==
  ASSUME NEW S, Sized(S)
  PROVE  SizeSum(S) \in Int /\ SizeSum({}) = 0
<1>1. SizeSum(S) \in Int
  BY SizeSumIs, SumsAgree
<1>2. SumsOf({})[{}] = SumStep({}, SumsOf({}))
  BY FS_EmptySet, SumsApply
<1> QED BY <1>1, <1>2, SizeSumIs DEF SumStep

(* One block more or less, whichever it is.                                 *)
LEMMA SumWithout ==
  ASSUME NEW S, Sized(S), NEW x \in S
  PROVE  SizeSum(S) = SizeSum(S \ {x}) + x.size
<1> DEFINE P(n) == \A U : Sized(U) /\ Cardinality(U) = n
                     => \A y \in U : SizeSum(U) = SizeSum(U \ {y}) + y.size
           T == {n \in Nat : P(n)}
<1>0. ASSUME NEW U, Sized(U), NEW y \in U
      PROVE  /\ Sized(U \ {y}) /\ Cardinality(U \ {y}) = Cardinality(U) - 1 /\ Cardinality(U) \in Nat
             /\ y.size \in Int /\ SizeSum(U \ {y}) \in Int
  <2>1. Sized(U \ {y}) /\ Cardinality(U \ {y}) = Cardinality(U) - 1 /\ Cardinality(U) \in Nat /\ y.size \in Int
    BY <1>0, FS_RemoveElement, FS_CardinalityType DEF Sized
  <2> QED BY <2>1, SumTyped
<1>1. ASSUME NEW U, Sized(U), U # {} PROVE SizeSum(U) = SizeSum(U \ {Pick(U)}) + Pick(U).size
  <2> DEFINE q == U \ {Pick(U)}
  <2>1. IsFiniteSet(U) /\ U \in SUBSET U /\ q \in SUBSET U
    BY <1>1 DEF Sized
  <2>2. SumsOf(U)[U] = SumStep(U, SumsOf(U))
    BY ONLY <2>1, SumsApply
  <2>3. SumsOf(U)[q] = SumsOf(q)[q] /\ SumsOf(q)[q] \in Int
    BY ONLY <1>1, <2>1, SumsAgree
  <2>4. Pick(U).size \in Int
    BY <1>1, <2>1, Picked DEF Sized
  <2>5. SizeSum(U) = SumsOf(U)[U] /\ SizeSum(q) = SumsOf(q)[q]
    BY SizeSumIs
  <2> QED BY <1>1, <2>2, <2>3, <2>4, <2>5 DEF SumStep
<1>2. 0 \in T
  <2>1. ASSUME NEW U, Sized(U), Cardinality(U) = 0 PROVE U = {}
    BY <2>1, FS_EmptySet DEF Sized
  <2> QED BY <2>1
<1>3. ASSUME NEW n \in T PROVE n + 1 \in T
  <2>1. ASSUME NEW U, Sized(U), Cardinality(U) = n + 1, NEW y \in U
        PROVE  SizeSum(U) = SizeSum(U \ {y}) + y.size
    <3> DEFINE z == Pick(U)
    <3>1. z \in U
      BY DEF Pick
    <3>2. SizeSum(U) = SizeSum(U \ {z}) + z.size
      BY <2>1, <1>1
    <3>3. CASE y = z
      BY <3>2, <3>3
    <3>4. CASE y # z
      <4>1. /\ Sized(U \ {z}) /\ Cardinality(U \ {z}) = n /\ Sized(U \ {y}) /\ Cardinality(U \ {y}) = n
        <5>1. n \in Nat
          OBVIOUS
        <5>2. Sized(U \ {z}) /\ Cardinality(U \ {z}) = Cardinality(U) - 1
          BY ONLY <2>1, <3>1, <1>0
        <5>3. Sized(U \ {y}) /\ Cardinality(U \ {y}) = Cardinality(U) - 1
          BY ONLY <2>1, <1>0
        <5> QED BY ONLY <2>1, <5>1, <5>2, <5>3
      <4>2. P(n)
        BY <1>3
      <4>3. SizeSum(U \ {z}) = SizeSum((U \ {z}) \ {y}) + y.size
        BY ONLY <4>1, <4>2, <3>4, <2>1, <3>1
      <4>4. SizeSum(U \ {y}) = SizeSum((U \ {y}) \ {z}) + z.size
        BY ONLY <4>1, <4>2, <3>4, <2>1, <3>1
      <4>5. (U \ {y}) \ {z} = (U \ {z}) \ {y}
        OBVIOUS
      <4>6. SizeSum((U \ {z}) \ {y}) \in Int /\ y.size \in Int /\ z.size \in Int
        <5>1. y \in U \ {z}
          BY <2>1, <3>4
        <5> QED BY <4>1, <5>1, <1>0, <2>1, <3>1
      <4>7. SizeSum((U \ {y}) \ {z}) = SizeSum((U \ {z}) \ {y})
        BY <4>5
      <4> HIDE DEF z
      <4>8. ASSUME NEW A, NEW B \in Int, NEW b \in Int, NEW d \in Int, NEW E, NEW F,
                   A = E + d, E = B + b, F = B + d
            PROVE  A = F + b
        BY <4>8
      <4> QED BY ONLY <3>2, <4>3, <4>4, <4>6, <4>7, <4>8
    <3> QED BY <3>3, <3>4
  <2>2. P(n + 1)
    BY <2>1
  <2> HIDE DEF P
  <2> QED BY <2>2
<1>4. T \in SUBSET Nat
  OBVIOUS
<1>5. Nat \subseteq T
  <2> HIDE DEF T
  <2> QED BY <1>2, <1>3, <1>4, Waking!NatInd
<1>6. Cardinality(S) \in Nat
  BY FS_CardinalityType DEF Sized
<1>7. P(Cardinality(S))
  <2> HIDE DEF P
  <2> QED BY <1>5, <1>6
<1> QED BY <1>7

(* A block that joins the free list adds its size.                          *)
LEMMA InsertSum ==
  ASSUME NEW f, IsFiniteSet(f), NEW b, Good(b), b \notin f, \A x \in f : Good(x), AllApart(f \cup {b}),
         NEW g, g = prvInsertBlockIntoFreeList(f, b)
  PROVE  IsFiniteSet(g) /\ SizeSum(g) = SizeSum(f) + b.size
<1> DEFINE before == {x \in f : EndOf(x) = b.at}
           after == {x \in f : x.at = EndOf(b)}
           core == f \ (before \cup after)
<1>1. PICK at \in Nat, end \in Nat :
         /\ g = core \cup {[at |-> at, size |-> end - at]}
         /\ \/ before = {} /\ at = b.at
            \/ \E p \in f : before = {p} /\ EndOf(p) = b.at /\ at = p.at
         /\ \/ after = {} /\ end = EndOf(b)
            \/ \E s \in f : after = {s} /\ s.at = EndOf(b) /\ end = EndOf(s)
  BY InsertedBlock
<1> DEFINE x == [at |-> at, size |-> end - at]
<1>2. \A y \in f \cup {b} : y.at \in Nat /\ y.size \in Nat \ {0} /\ EndOf(y) = y.at + y.size
  BY DEF Good, BlockLink_t, EndOf
<1>3. ASSUME NEW y \in f PROVE EndOf(y) <= b.at \/ EndOf(b) <= y.at
  BY <1>3 DEF AllApart, Apart
<1>4. Sized(f) /\ Sized(core) /\ \A S \in SUBSET f : Sized(S) /\ SizeSum(S) \in Int
  <2>1. \A S \in SUBSET f : Sized(S)
    BY <1>2, FS_Subset DEF Sized
  <2> QED BY <2>1, SumTyped
<1>5. x.at = at /\ x.size = end - at /\ EndOf(x) = end
  <2>1. x.at = at /\ x.size = end - at
    OBVIOUS
  <2> QED BY <2>1 DEF EndOf
<1>6. at <= b.at /\ EndOf(b) <= end /\ b.at < EndOf(b)
  BY <1>1, <1>2
<1>7. x \notin f
  <2>1. b.at \in Nat /\ EndOf(b) \in Nat
    BY <1>2
  <2> HIDE DEF x
  <2>2. x \in f => EndOf(x) <= b.at \/ EndOf(b) <= x.at
    BY <1>3
  <2> QED BY ONLY <1>5, <1>6, <2>1, <2>2, at \in Nat, end \in Nat
<1> HIDE DEF x, before, after
<1>8. g = core \cup {x} /\ (core \cup {x}) \ {x} = core /\ x.size \in Int
  <2>1. x \notin core
    BY <1>7
  <2> QED BY <1>1, <1>5, <2>1 DEF x
<1>9. Sized(g) /\ IsFiniteSet(g)
  <2>1. IsFiniteSet(core \cup {x})
    BY <1>4, FS_AddElement DEF Sized
  <2> QED BY <1>4, <1>8, <2>1 DEF Sized
<1>10. SizeSum(g) = SizeSum(core) + (end - at)
  <2>1. SizeSum(g) = SizeSum(g \ {x}) + x.size
    BY <1>8, <1>9, SumWithout
  <2> QED BY <1>5, <1>8, <2>1
<1>11. PICK half \in SUBSET f :
         /\ SizeSum(f) = SizeSum(half) + (b.at - at) /\ half = f \ before
  <2>1. CASE before = {} /\ at = b.at
    BY <1>2, <1>4, <2>1
  <2>2. CASE \E p \in f : before = {p} /\ EndOf(p) = b.at /\ at = p.at
    <3>1. PICK p \in f : before = {p} /\ EndOf(p) = b.at /\ at = p.at
      BY <2>2
    <3>2. SizeSum(f) = SizeSum(f \ {p}) + p.size
      BY <1>4, SumWithout
    <3>3. p.size = b.at - at
      BY <1>2, <3>1
    <3> QED BY <3>1, <3>2, <3>3
  <2> QED BY <1>1, <2>1, <2>2
<1>12. SizeSum(half) = SizeSum(core) + (end - EndOf(b))
  <2>1. CASE after = {} /\ end = EndOf(b)
    <3>1. core = half
      BY <1>11, <2>1
    <3>2. SizeSum(half) \in Int /\ SizeSum(core) = SizeSum(half) /\ EndOf(b) \in Nat
      BY <1>2, <1>4, <3>1
    <3> QED BY ONLY <2>1, <3>2
  <2>2. CASE \E s \in f : after = {s} /\ s.at = EndOf(b) /\ end = EndOf(s)
    <3>1. PICK s \in f : after = {s} /\ s.at = EndOf(b) /\ end = EndOf(s)
      BY <2>2
    <3>2. s \notin before
      <4>1. \A y \in before : EndOf(y) = b.at
        BY DEF before
      <4> QED BY <1>2, <1>6, <3>1, <4>1
    <3>3. s \in half /\ core = half \ {s}
      BY <1>11, <3>1, <3>2
    <3>4. SizeSum(half) = SizeSum(half \ {s}) + s.size
      BY <1>4, <3>3, SumWithout
    <3>5. s.size = end - EndOf(b)
      BY <1>2, <3>1
    <3> QED BY <3>3, <3>4, <3>5
  <2> QED BY <1>1, <2>1, <2>2
<1>13. b.size = EndOf(b) - b.at /\ b.at \in Nat /\ b.size \in Nat /\ EndOf(b) \in Nat
  BY <1>2
<1>14. SizeSum(half) \in Int /\ SizeSum(core) \in Int
  BY <1>4
<1> QED BY ONLY <1>9, <1>10, <1>11, <1>12, <1>13, <1>14, at \in Nat, end \in Nat

(* The count of free memory is exact, and never below its minimum.          *)
Summed ==
  /\ IsFiniteSet(free) /\ xFreeBytesRemaining = SizeSum(free)
  /\ xMinimumEverFreeBytesRemaining \in Int
  /\ xMinimumEverFreeBytesRemaining <= xFreeBytesRemaining

LEMMA FreeSized ==
  ASSUME HeapInv, IsFiniteSet(free)
  PROVE  Sized(free) /\ SizeSum(free) \in Int
<1>1. \A b \in free : b.size \in Int
  BY DEF HeapInv, HeapTypeOK, Blocks, BlockLink_t
<1>2. Sized(free)
  BY <1>1 DEF Sized
<1> QED BY <1>2, SumTyped

LEMMA AllocateSum ==
  ASSUME HeapInv, Summed, NEW wanted \in Nat \ {0}, NEW b \in free, Allocate(b, wanted)
  PROVE  Summed'
<1> DEFINE split == b.size - wanted > heapMINIMUM_BLOCK_SIZE
           rest == [at |-> b.at + wanted, size |-> b.size - wanted]
           f == free \ {b}
<1>1. (\A x \in Blocks : Good(x)) /\ AllApart(Blocks) /\ free \subseteq Blocks
  BY FreeDistinct DEF Blocks
<1>2. /\ Good(b) /\ b.at \in Nat /\ b.size \in Nat /\ b.size >= wanted /\ EndOf(b) = b.at + b.size
      /\ EndOf(b) <= HeapUnits
  BY <1>1 DEF Allocate, FirstFit, Good, BlockLink_t, EndOf
<1>3. Sized(free) /\ IsFiniteSet(f) /\ SizeSum(free) = SizeSum(f) + b.size /\ SizeSum(f) \in Int
  <2>1. Sized(free)
    BY FreeSized DEF Summed
  <2>2. IsFiniteSet(f) /\ Sized(f)
    BY <2>1, FS_RemoveElement DEF Sized
  <2> QED BY <2>1, <2>2, SumWithout, SumTyped
<1> DEFINE taken == IF split THEN wanted ELSE b.size
<1>4. xFreeBytesRemaining' = xFreeBytesRemaining - taken
  BY DEF Allocate
<1>5. IsFiniteSet(free') /\ SizeSum(free') = SizeSum(free) - taken
  <2>1. CASE ~split
    <3>1. free' = f
      BY <2>1 DEF Allocate
    <3> QED BY <1>2, <1>3, <2>1, <3>1
  <2>2. CASE split
    <3>1. free' = prvInsertBlockIntoFreeList(f, rest)
      BY <2>2 DEF Allocate
    <3>2. b.size > wanted
      BY <1>2, <2>2, HeapAssumption DEF heapMINIMUM_BLOCK_SIZE
    <3>3. rest.at = b.at + wanted /\ rest.size = b.size - wanted /\ EndOf(rest) = EndOf(b) /\ Good(rest)
      BY <1>2, <3>2, HeapAssumption DEF Good, BlockLink_t, EndOf
    <3> HIDE DEF rest
    <3>4. ASSUME NEW x \in f PROVE Good(x) /\ Apart(x, rest) /\ Apart(rest, x) /\ x # rest
      <4>1. Good(x) /\ Apart(x, b) /\ x.size > 0 /\ x.at \in Nat /\ x.size \in Nat /\ EndOf(x) = x.at + x.size
        BY <1>1 DEF AllApart, Good, BlockLink_t, EndOf
      <4> QED BY <1>2, <3>2, <3>3, <4>1 DEF Apart
    <3>5. AllApart(f \cup {rest})
      <4>1. AllApart(f)
        BY <1>1 DEF AllApart
      <4> QED BY <3>4, <4>1 DEF AllApart
    <3>6. IsFiniteSet(free') /\ SizeSum(free') = SizeSum(f) + rest.size
      <4>1. rest \notin f /\ \A x \in f : Good(x)
        BY <3>4
      <4> QED BY ONLY <1>3, <3>1, <3>3, <3>5, <4>1, InsertSum
    <3> QED BY <1>2, <1>3, <2>2, <3>3, <3>6
  <2> QED BY <2>1, <2>2
<1>6. taken \in Int
  BY <1>2
<1>7. LET left == xFreeBytesRemaining - taken
      IN  xMinimumEverFreeBytesRemaining' =
            IF left < xMinimumEverFreeBytesRemaining THEN left ELSE xMinimumEverFreeBytesRemaining
  BY DEF Allocate
<1> HIDE DEF taken
<1>8. SizeSum(free) \in Int
  BY <1>3, <1>2
<1>9. xFreeBytesRemaining' = SizeSum(free') /\ xFreeBytesRemaining \in Int
  BY <1>4, <1>5, <1>8 DEF Summed
<1>10. /\ xMinimumEverFreeBytesRemaining' \in Int
       /\ xMinimumEverFreeBytesRemaining' <= xFreeBytesRemaining'
  BY <1>4, <1>6, <1>7, <1>9 DEF Summed
<1>11. SizeSum(free') = SizeSum(free)'
  BY DEF SizeSum, MapThenSumSet, MapThenFoldSet
<1> QED BY <1>5, <1>9, <1>10, <1>11 DEF Summed

LEMMA ReleaseSum ==
  ASSUME HeapInv, Summed, NEW b \in leaving, Release(b)
  PROVE  Summed'
<1>1. (\A x \in Blocks : Good(x)) /\ AllApart(Blocks) /\ free \cap (used \cup leaving) = {}
  BY FreeDistinct
<1>2. /\ Good(b) /\ b.size \in Nat /\ b \notin free /\ (\A x \in free : Good(x)) /\ AllApart(free \cup {b})
  BY <1>1 DEF Good, BlockLink_t, Blocks, AllApart
<1>3. free' = prvInsertBlockIntoFreeList(free, b) /\ IsFiniteSet(free)
  BY DEF Release, Summed
<1>4. IsFiniteSet(free') /\ SizeSum(free') = SizeSum(free) + b.size
  BY ONLY <1>2, <1>3, InsertSum
<1>5. SizeSum(free) \in Int
  BY <1>3, FreeSized
<1>6. SizeSum(free') = SizeSum(free)'
  BY DEF SizeSum, MapThenSumSet, MapThenFoldSet
<1> QED BY <1>2, <1>4, <1>5, <1>6 DEF Release, Summed

-----------------------------------------------------------------------------
(* The tasks                                                                *)

(* Where a task is in its call.                                             *)
SuspPc ==
  {"locked", "delay", "delayuntil", "catchup", "abort", "abortevent", "abortready", "resume"}
AbortPc == {"abortevent", "abortready"}
PC == Simple \cup SuspPc \cup
  {"run", "lock", "yield", "Delay", "DelayUntil", "Suspend", "suspended", "NotifyTake", "taken",
   "CatchUp", "AbortDelay", "Create", "createtcb", "createadd", "created", "Delete", "free", "release"}
TO == {"run", "yield", "createtcb", "createadd", "free"}
Ops == Aimed \cup Timed \cup {"CatchUp", "Create", "Delete"}
Call == [op : Ops \cup {"none"}, u : Task, n : Nat, locked : BOOLEAN]
ThreadState ==
  [pc : PC, c : Call, to : TO, got : Seq(BlockLink_t), prev : 0..MaxDelay]
OpOf(pc, op) ==
  /\ pc \in Simple => op = pc
  /\ pc \in {"lock", "locked"} => op \in Simple
  /\ pc \in {"Delay", "delay"} => op = "Delay"
  /\ pc \in {"DelayUntil", "delayuntil"} => op = "DelayUntil"
  /\ pc \in {"Suspend", "suspended"} => op = "Suspend"
  /\ pc \in {"NotifyTake", "taken"} => op = "NotifyTake"
  /\ pc \in {"CatchUp", "catchup"} => op = "CatchUp"
  /\ pc \in {"AbortDelay", "abort", "abortevent", "abortready"} => op = "AbortDelay"
  /\ pc \in {"Create", "createtcb", "createadd", "created"} => op = "Create"
  /\ pc = "Delete" => op = "Delete"
Doing(r, S) == r.pc \in S \/ (r.pc = "resume" /\ r.to \in S)
(* A thread that is here still has blocks.                                  *)
Holding == {"createtcb", "createadd", "free", "release"}
Thread(r, m, calls) ==
  /\ r.c \in calls \cup {NoCall}
  /\ OpOf(r.pc, r.c.op) /\ (r.pc = "resume" => OpOf(r.to, r.c.op))
  /\ r.pc = "delay" => r.c.n # 0
  /\ Doing(r, Holding) => r.got # <<>>
  /\ Doing(r, {"Create", "createtcb", "createadd"}) => m[r.c.u] = <<>>
Threads(h, m, a) ==
  h \in [Task -> ThreadState] /\ \A t \in Task : Thread(h[t], m, a.calls[t])

(* A task in no list does not exist, or a call is aborting its delay.       *)
Abandoned(h, t) == \E w \in Task : h[w].pc \in AbortPc /\ h[w].c.u = t
Situated(x, h, m, a, at) ==
  /\ \A t \in Task : at[t] = "none" <=> m[t] = <<>> \/ Abandoned(h, t)
  /\ \A t \in Task : at[t] = "dying" => t \in Passing(a)
  /\ \A t \in Staying(a) : m[t] # <<>>
  /\ at[x.cur] # "none"
(* The scheduler is suspended by the current task alone.                    *)
Locking(x, h, a) ==
  /\ x.susp \in {0, 1} /\ (x.susp = 1 <=> h[x.cur].pc \in SuspPc)
  /\ \A t \in Task : h[t].pc \in SuspPc => t = x.cur
  /\ x.susp = 0 => x.pending = <<>> /\ x.pended = 0
  /\ Range(x.pending) \subseteq Staying(a)
  /\ x.pended <= 2 * MaxPended /\ (h[x.cur].pc # "resume" => x.pended <= MaxPended)
(* The current task is the best, or a switch is on its way.                 *)
OnTurn(x, h, at) ==
  LET r == h[x.cur] IN
  /\ x.susp = 0 => \/ r.pc = "yield" \/ (r.pc = "suspended" /\ r.c.u = x.cur)
                   \/ /\ at[x.cur] = "ready"
                      /\ \A t \in Task : at[t] = "ready" /\ x.prio[t] > x.prio[x.cur]
                                           => r.pc = "created" /\ r.c.u = t
  /\ x.susp = 1 => Owed(x, at) /\ (at[x.cur] = "ready" \/ (r.pc = "resume" /\ r.to = "yield"))
(* Who waits for a notification has none.                                   *)
Heeds(x, h, at) ==
  \A t \in Task :
    /\ x.ns[t] = "waiting" => /\ h[t].pc = "taken" /\ x.nv[t] = 0 /\ t \notin Range(x.pending)
                              /\ at[t] = "suspended" => h[t].c.n = MaxDelay
    /\ h[t].pc = "taken" /\ at[t] \in Asleep /\ t \notin Range(x.pending) => x.ns[t] = "waiting"
Tally(x, m) ==
  /\ x.ndying = Len(x.dying) /\ x.ntasks = Cardinality({t \in Task : m[t] # <<>>})
  /\ m \in [Task -> Seq(BlockLink_t)]
KernelInv(x, h, m, a, at) ==
  /\ AppOK(a) /\ Sound(x, at) /\ Threads(h, m, a) /\ Situated(x, h, m, a, at)
  /\ Locking(x, h, a) /\ OnTurn(x, h, at) /\ Heeds(x, h, at) /\ Tally(x, m)

-----------------------------------------------------------------------------
(* Steps of the kernel under a thread that stands still                     *)

LEMMA StayingTasks ==
  ASSUME NEW a, AppOK(a)
  PROVE  /\ Staying(a) \subseteq Task /\ Idle \in Staying(a) \cup Passing(a)
         /\ \A t \in Staying(a) : t \notin Passing(a)
<1>1. a.order \in Seq(Task \ {Idle}) /\ Idle \in Task
  BY Numbers DEF AppOK
<1> QED BY <1>1 DEF Staying

LEMMA NobodyAborts ==
  ASSUME NEW x, NEW h, NEW a, Locking(x, h, a), h[x.cur].pc \notin AbortPc
  PROVE  \A t \in Task : h[t].pc \notin AbortPc /\ ~Abandoned(h, t)
BY DEF Locking, Abandoned, AbortPc, SuspPc

LEMMA Unlocked ==
  ASSUME NEW y, NEW g, NEW a, y.susp = 0, y.pending = <<>>, y.pended = 0, y.cur \in Task,
         \A t \in Task : g[t].pc \notin SuspPc
  PROVE  Locking(y, g, a)
<1>1. PICK n : n = y.susp
  OBVIOUS
<1>2. n = 0 /\ n # 1 /\ n \in {0, 1}
  BY <1>1
<1>3. Range(y.pending) \subseteq Staying(a)
  BY DEF Range
<1>4. PICK d : d = y.pended
  OBVIOUS
<1>5. d <= 2 * MaxPended /\ d <= MaxPended
  BY <1>4, AppAssumption
<1>6. y.susp \in {0, 1} /\ y.susp # 1
  BY <1>1, <1>2
<1>7. y.pended <= 2 * MaxPended /\ (g[y.cur].pc # "resume" => y.pended <= MaxPended)
  BY <1>4, <1>5
<1> QED BY <1>3, <1>6, <1>7 DEF Locking

LEMMA KernelMoves ==
  ASSUME NEW x, NEW h, NEW m, NEW a, NEW at, KernelInv(x, h, m, a, at), NEW y, NEW to, NEW S,
         Woke(x, y, at, to, S), S \subseteq Staying(a), y.pended = x.pended \/ x.pended < MaxPended
  PROVE  KernelInv(y, h, m, a, to)
<1>1. /\ Sound(x, at) /\ Situated(x, h, m, a, at) /\ Locking(x, h, a) /\ OnTurn(x, h, at)
      /\ Heeds(x, h, at) /\ Tally(x, m)
  BY DEF KernelInv
<1>2. Sound(y, to) /\ Moved(at, to) /\ Keeps(x, y, at, to) /\ Same(x, y, AnyStep) /\ y.dying = x.dying
  BY DEF Woke, Stepped
<1>3. y.susp = x.susp /\ y.ntasks = x.ntasks /\ y.ndying = x.ndying
  BY <1>2 DEF Same, Fields, AnyStep, CallStep, AnyTurn, TickStep, Times, Wakes, StateLinks, Turn
<1>4. x.cur \in Task /\ y.cur \in Task /\ x.pended \in Nat /\ y.pended \in Nat /\ MaxPended \in Nat
  BY <1>1, <1>2, AppAssumption DEF Sound, Shape, KernelState
<1>5. x.susp \in {0, 1} /\ (y.susp = 1 => y.cur = x.cur)
  BY <1>1, <1>2, <1>3 DEF Locking, Keeps
<1>6. y.cur # x.cur => Best(y, to) /\ y.susp = 0
  BY <1>2 DEF Keeps
<1>7. Situated(y, h, m, a, to)
  <2>1. \A t \in Task : (to[t] = "none" <=> at[t] = "none") /\ (to[t] = "dying" <=> at[t] = "dying")
    BY <1>2 DEF Moved
  <2>2. to[y.cur] # "none"
    <3>1. CASE y.cur = x.cur
      BY <1>1, <1>4, <2>1, <3>1 DEF Situated
    <3>2. CASE y.cur # x.cur
      BY <1>6, <3>2 DEF Best
    <3> QED BY <3>1, <3>2
  <2> QED BY <1>1, <2>1, <2>2 DEF Situated
<1>8. Locking(y, h, a)
  <2>1. y.susp = 1 <=> h[y.cur].pc \in SuspPc
    BY <1>1, <1>3, <1>4, <1>5 DEF Locking
  <2>2. \A t \in Task : h[t].pc \in SuspPc => t = y.cur
    BY <1>1, <1>3, <1>4, <1>5 DEF Locking
  <2>3. y.pended = x.pended \/ (x.susp > 0 /\ x.pended < MaxPended /\ y.pended = x.pended + 1)
    BY <1>4 DEF Woke
  <2>4. y.susp = 0 => y.pending = <<>> /\ y.pended = 0
    BY <1>1, <1>3, <2>3 DEF Locking, Woke
  <2>5. Range(y.pending) \subseteq Staying(a)
    BY <1>1 DEF Locking, Woke
  <2>6. y.pended <= 2 * MaxPended /\ (h[y.cur].pc # "resume" => y.pended <= MaxPended)
    <3>1. CASE x.susp = 0
      BY <1>3, <1>4, <2>4, <3>1
    <3>2. CASE x.susp = 1
      <4>1. y.cur = x.cur
        BY <1>3, <1>5, <3>2
      <4>2. x.pended <= 2 * MaxPended /\ (h[x.cur].pc # "resume" => x.pended <= MaxPended)
        BY <1>1 DEF Locking
      <4> QED BY <1>4, <2>3, <4>1, <4>2
    <3> QED BY <1>5, <3>1, <3>2
  <2> QED BY <1>3, <1>5, <2>1, <2>2, <2>4, <2>5, <2>6 DEF Locking
<1>9. OnTurn(y, h, to)
  <2>1. CASE y.susp = 0 /\ Best(y, to)
    <3>1. y.prio \in [Task -> Priority] /\ \A i, j \in Priority : i <= j => ~(i > j)
      BY <1>2, Numbers DEF Sound, Shape, KernelState
    <3> QED BY <1>4, <2>1, <3>1 DEF OnTurn, Best, NoneAbove
  <2>2. CASE /\ y.cur = x.cur
             /\ \/ y.susp > 0 /\ y.ypend
                \/ /\ x.ypend => y.ypend
                   /\ \A t \in Task : to[t] = "ready" /\ y.prio[t] > y.prio[y.cur]
                                        => at[t] = "ready" /\ x.prio[t] > x.prio[x.cur]
    <3>1. at[x.cur] = "ready" => to[x.cur] = "ready"
      BY <1>2, <1>4 DEF Moved
    <3>2. CASE x.susp = 0
      BY <1>1, <1>3, <2>2, <3>1, <3>2 DEF OnTurn
    <3>3. CASE x.susp = 1
      <4>1. Owed(x, at) /\ (at[x.cur] = "ready" \/ (h[x.cur].pc = "resume" /\ h[x.cur].to = "yield"))
        BY <1>1, <3>3 DEF OnTurn
      <4>2. Owed(y, to)
        <5>1. x.prio \in [Task -> Priority] /\ y.prio \in [Task -> Priority]
          BY <1>1, <1>2 DEF Sound, Shape, KernelState
        <5>2. \A i, j \in Priority : i <= j <=> ~(i > j)
          BY Numbers
        <5> QED BY <1>4, <2>2, <4>1, <5>1, <5>2 DEF Owed, NoneAbove
      <4> QED BY <1>3, <2>2, <3>1, <3>3, <4>1, <4>2 DEF OnTurn
    <3> QED BY <1>5, <3>2, <3>3
  <2> QED BY <1>2, <2>1, <2>2 DEF Keeps
<1>10. Heeds(y, h, to)
  <2>1. ASSUME NEW t \in Task, y.ns[t] = "waiting"
        PROVE  /\ h[t].pc = "taken" /\ y.nv[t] = 0 /\ t \notin Range(y.pending)
               /\ to[t] = "suspended" => h[t].c.n = MaxDelay
    <3>1. x.ns[t] = "waiting" /\ y.nv[t] = x.nv[t] /\ (t \in Range(y.pending) => t \in Range(x.pending))
      BY <2>1 DEF Woke
    <3>2. to[t] = "suspended" => at[t] = "suspended"
      BY <1>2 DEF Moved
    <3> QED BY <1>1, <3>1, <3>2 DEF Heeds
  <2>2. ASSUME NEW t \in Task, h[t].pc = "taken", to[t] \in Asleep, t \notin Range(y.pending)
        PROVE  y.ns[t] = "waiting"
    <3>1. at[t] \in Asleep
      BY <1>2, <2>2 DEF Moved, Asleep
    <3>2. t \notin Range(x.pending)
      <4>1. CASE x.susp = 0
        BY <1>1, <4>1 DEF Locking, Range
      <4>2. CASE x.susp = 1
        BY <2>2, <4>2 DEF Woke
      <4> QED BY <1>5, <4>1, <4>2
    <3>3. x.ns[t] = "waiting"
      BY <1>1, <2>2, <3>1, <3>2 DEF Heeds
    <3> QED BY <2>2, <3>3 DEF Woke
  <2> QED BY <2>1, <2>2 DEF Heeds
<1>11. Tally(y, m)
  BY <1>1, <1>2, <1>3 DEF Tally
<1> QED BY <1>2, <1>7, <1>8, <1>9, <1>10, <1>11 DEF KernelInv

(* The thread goes on, the kernel does not change.                          *)
LEMMA ThreadGoes ==
  ASSUME NEW x, NEW h, NEW m, NEW a, NEW at, KernelInv(x, h, m, a, at), NEW g, Threads(g, m, a),
         \A u \in Task \ {x.cur} : g[u] = h[u],
         h[x.cur].pc \notin AbortPc \cup {"yield", "suspended", "created", "taken", "resume"},
         g[x.cur].pc \notin AbortPc \cup {"taken"}, g[x.cur].pc \in SuspPc <=> h[x.cur].pc \in SuspPc
  PROVE  KernelInv(x, g, m, a, at)
<1>1. /\ Sound(x, at) /\ Situated(x, h, m, a, at) /\ Locking(x, h, a) /\ OnTurn(x, h, at)
      /\ Heeds(x, h, at) /\ Tally(x, m)
  BY DEF KernelInv
<1>2. x.cur \in Task
  BY <1>1 DEF Sound, Shape, KernelState
<1>3. Locking(x, g, a)
  BY <1>1, <1>2 DEF Locking
<1>4. \A t \in Task : ~Abandoned(h, t) /\ ~Abandoned(g, t)
  BY <1>1, <1>3, NobodyAborts
<1>5. Situated(x, g, m, a, at)
  BY <1>1, <1>4 DEF Situated
<1>6. OnTurn(x, g, at)
  BY <1>1 DEF OnTurn
<1>7. Heeds(x, g, at)
  BY <1>1, <1>2 DEF Heeds
<1> QED BY <1>1, <1>3, <1>5, <1>6, <1>7 DEF KernelInv

(* The thread suspends the scheduler.                                       *)
LEMMA Locks ==
  ASSUME NEW x, NEW h, NEW m, NEW a, NEW at, KernelInv(x, h, m, a, at), NEW g, Threads(g, m, a),
         \A u \in Task \ {x.cur} : g[u] = h[u],
         h[x.cur].pc \notin SuspPc \cup {"yield", "suspended", "created", "taken"},
         g[x.cur].pc \in SuspPc \ AbortPc, NEW y, y = vTaskSuspendAll(x)
  PROVE  KernelInv(y, g, m, a, at)
<1>1. /\ Sound(x, at) /\ Situated(x, h, m, a, at) /\ Locking(x, h, a) /\ OnTurn(x, h, at)
      /\ Heeds(x, h, at) /\ Tally(x, m)
  BY DEF KernelInv
<1>2. x.cur \in Task
  BY <1>1 DEF Sound, Shape, KernelState
<1>3. x.susp = 0 /\ x.pending = <<>> /\ x.pended = 0 /\ \A t \in Task : h[t].pc \notin SuspPc
  BY <1>1, <1>2 DEF Locking
<1>4. Sound(y, at) /\ Same(x, y, {"susp"}) /\ y.susp = 1
  BY <1>1, <1>3, SuspChanged DEF vTaskSuspendAll
<1>5. /\ y.cur = x.cur /\ y.pending = x.pending /\ y.pended = 0 /\ y.ns = x.ns /\ y.nv = x.nv
      /\ y.prio = x.prio /\ y.ndying = x.ndying /\ y.ntasks = x.ntasks /\ y.dying = x.dying
  BY <1>3, <1>4 DEF Same, Fields
<1>6. Locking(y, g, a)
  <2>1. MaxPended \in Nat /\ Range(y.pending) \subseteq Staying(a)
    BY <1>3, <1>5, AppAssumption DEF Range
  <2> QED BY <1>2, <1>3, <1>4, <1>5, <2>1 DEF Locking
<1>7. \A t \in Task : ~Abandoned(h, t) /\ ~Abandoned(g, t)
  <2>1. h[x.cur].pc \notin AbortPc /\ g[y.cur].pc \notin AbortPc
    BY <1>5 DEF AbortPc, SuspPc
  <2> QED BY <1>1, <1>6, <2>1, NobodyAborts
<1>8. Situated(y, g, m, a, at)
  BY <1>1, <1>5, <1>7 DEF Situated
<1>9. OnTurn(y, g, at)
  <2>1. at[x.cur] = "ready" /\ \A t \in Task : at[t] = "ready" => ~(x.prio[t] > x.prio[x.cur])
    BY <1>1, <1>3 DEF OnTurn
  <2>2. x.prio \in [Task -> Priority] /\ \A i, j \in Priority : i <= j <=> ~(i > j)
    BY <1>1, Numbers DEF Sound, Shape, KernelState
  <2>3. NoneAbove(y, at)
    BY <1>2, <1>5, <2>1, <2>2 DEF NoneAbove
  <2> QED BY <1>4, <1>5, <2>1, <2>3 DEF OnTurn, Owed
<1>10. Heeds(y, g, at)
  <2>1. g[x.cur].pc # "taken" /\ h[x.cur].pc # "taken"
    BY DEF SuspPc
  <2> QED BY <1>1, <1>2, <1>5, <2>1 DEF Heeds
<1>11. Tally(y, m)
  BY <1>1, <1>5 DEF Tally
<1> QED BY <1>4, <1>6, <1>8, <1>9, <1>10, <1>11 DEF KernelInv

-----------------------------------------------------------------------------
(* Steps of a thread                                                        *)

(* Only the place of thread t and what it holds have changed.               *)
Goes(h, g, t, p, q, e, w) ==
  /\ g \in [Task -> ThreadState] /\ \A u \in Task \ {t} : g[u] = h[u]
  /\ g[t] = [pc |-> p, c |-> h[t].c, to |-> q, got |-> e, prev |-> w]
LEMMA Went ==
  ASSUME NEW h \in [Task -> ThreadState], NEW t \in Task, NEW p \in PC, NEW q \in TO,
         NEW g, g = [h EXCEPT ![t].pc = p, ![t].to = q]
  PROVE  Goes(h, g, t, p, q, h[t].got, h[t].prev)
BY DEF Goes, ThreadState
LEMMA WentHolding ==
  ASSUME NEW h \in [Task -> ThreadState], NEW t \in Task, NEW p \in PC, NEW q \in TO,
         NEW e \in Seq(BlockLink_t), NEW g, g = [h EXCEPT ![t].pc = p, ![t].to = q, ![t].got = e]
  PROVE  Goes(h, g, t, p, q, e, h[t].prev)
BY DEF Goes, ThreadState
LEMMA WentUntil ==
  ASSUME NEW h \in [Task -> ThreadState], NEW t \in Task, NEW p \in PC, NEW q \in TO,
         NEW w \in 0..MaxDelay, NEW g, g = [h EXCEPT ![t].pc = p, ![t].to = q, ![t].prev = w]
  PROVE  Goes(h, g, t, p, q, h[t].got, w)
BY DEF Goes, ThreadState
LEMMA WentOff ==
  ASSUME NEW h \in [Task -> ThreadState], NEW t \in Task, NEW p \in PC,
         NEW e \in Seq(BlockLink_t), NEW g, g = [h EXCEPT ![t].pc = p, ![t].got = e]
  PROVE  Goes(h, g, t, p, h[t].to, e, h[t].prev)
BY DEF Goes, ThreadState

LEMMA GoesFields ==
  ASSUME NEW h, NEW g, NEW t, NEW p, NEW q, NEW e, NEW w, Goes(h, g, t, p, q, e, w)
  PROVE  /\ \A u \in Task \ {t} : g[u] = h[u]
         /\ g[t].pc = p /\ g[t].c = h[t].c /\ g[t].to = q /\ g[t].got = e /\ g[t].prev = w
BY DEF Goes

LEMMA Threaded ==
  ASSUME NEW h, NEW m, NEW a, Threads(h, m, a), NEW t \in Task, NEW g, NEW p, NEW q, NEW e, NEW w,
         Goes(h, g, t, p, q, e, w), OpOf(p, h[t].c.op), p = "resume" => OpOf(q, h[t].c.op),
         p = "delay" => h[t].c.n # 0,
         p \in {"createtcb", "createadd", "free", "release"} => e # <<>>,
         p = "resume" /\ q \in {"createtcb", "createadd", "free", "release"} => e # <<>>,
         p \in {"Create", "createtcb", "createadd"} => m[h[t].c.u] = <<>>,
         p = "resume" /\ q \in {"Create", "createtcb", "createadd"} => m[h[t].c.u] = <<>>
  PROVE  Threads(g, m, a)
<1>1. \A u \in Task \ {t} : g[u] = h[u]
  BY DEF Goes
<1>2. Thread(h[t], m, a.calls[t])
  BY DEF Threads
<1>3. Thread(g[t], m, a.calls[t])
  <2>1. PICK r : r = g[t]
    OBVIOUS
  <2>2. r.pc = p /\ r.c = h[t].c /\ r.to = q /\ r.got = e
    BY <2>1, GoesFields
  <2>3. h[t].c \in a.calls[t] \cup {NoCall}
    BY <1>2 DEF Thread
  <2>4. r.c \in a.calls[t] \cup {NoCall}
    BY <2>2, <2>3
  <2>5. OpOf(r.pc, r.c.op)
    BY <2>2
  <2>6. r.pc = "resume" => OpOf(r.to, r.c.op)
    BY <2>2
  <2>7. r.pc = "delay" => r.c.n # 0
    BY <2>2
  <2>8. Doing(r, Holding) => r.got # <<>>
    BY <2>2 DEF Doing, Holding
  <2>9. Doing(r, {"Create", "createtcb", "createadd"}) => m[r.c.u] = <<>>
    BY <2>2 DEF Doing
  <2>10. Thread(r, m, a.calls[t])
    BY <2>4, <2>5, <2>6, <2>7, <2>8, <2>9 DEF Thread
  <2> QED BY <2>1, <2>10
<1> QED BY <1>1, <1>3 DEF Threads, Goes

(* Between calls and at a yield nothing is asked of a thread.               *)
LEMMA OpOfNone ==
  ASSUME NEW p \in {"run", "yield", "resume", "free", "release"}, NEW op
  PROVE  OpOf(p, op)
BY DEF OpOf, Simple

(* A thread in a call is not the idle task, and its call is one of its own. *)
LEMMA InOwnCall ==
  ASSUME NEW h, NEW m, NEW a, AppOK(a), Threads(h, m, a), NEW t \in Task, h[t].c.op # "none"
  PROVE  t # Idle /\ h[t].c \in a.calls[t] /\ CallOK(a, t, h[t].c) /\ h[t].c.u \in Task /\ h[t].c \in Call
<1>1. h[t].c \in a.calls[t] \cup {NoCall} /\ h[t] \in ThreadState
  BY DEF Threads, Thread
<1>2. h[t].c \in a.calls[t] /\ h[t].c \in Call
  BY <1>1 DEF NoCall, ThreadState
<1> QED BY <1>2 DEF AppOK, Call

(* The task a call is aimed at is in a list.                                *)
LEMMA AimedAt ==
  ASSUME NEW x, NEW h, NEW m, NEW a, NEW at, KernelInv(x, h, m, a, at), NEW u,
         u \in Staying(a) \cup {x.cur}, h[x.cur].pc \notin AbortPc
  PROVE  u \in Task /\ at[u] # "none" /\ (u # x.cur => at[u] # "dying")
<1>1. AppOK(a) /\ Sound(x, at) /\ Situated(x, h, m, a, at) /\ Locking(x, h, a)
  BY DEF KernelInv
<1>2. x.cur \in Task /\ Staying(a) \subseteq Task /\ \A t \in Staying(a) : t \notin Passing(a)
  BY <1>1, StayingTasks DEF Sound, Shape, KernelState
<1>3. \A t \in Task : ~Abandoned(h, t)
  BY <1>1, NobodyAborts
<1> QED BY <1>1, <1>2, <1>3 DEF Situated

(* Outside of a yield the current task is ready.                            *)
LEMMA CurrentReady ==
  ASSUME NEW x, NEW h, NEW m, NEW a, NEW at, KernelInv(x, h, m, a, at),
         h[x.cur].pc \notin {"yield", "suspended", "resume"}
  PROVE  at[x.cur] = "ready" /\ x.cur \in Task
BY DEF KernelInv, OnTurn, Locking, Sound, Shape, KernelState

(* The calls that are one critical section.                                 *)
SimpleStep(x, h, y, g, p) ==
  /\ p \in {"resume", "run"} /\ (p = "resume" <=> h[x.cur].pc = "locked")
  /\ y = DoSimple(x, h[x.cur].c) /\ g = [h EXCEPT ![x.cur].pc = p, ![x.cur].to = "run"]

LEMMA SimpleMoves ==
  ASSUME NEW x, NEW h, NEW m, NEW a, NEW at, KernelInv(x, h, m, a, at),
         h[x.cur].pc \in Simple \cup {"locked"}, NEW p, NEW y, NEW g, SimpleStep(x, h, y, g, p)
  PROVE  \E to : KernelInv(y, g, m, a, to)
<1>1. AppOK(a) /\ Sound(x, at) /\ Threads(h, m, a) /\ Locking(x, h, a) /\ Heeds(x, h, at) /\ x.cur \in Task
  BY DEF KernelInv, Sound, Shape, KernelState
<1>2. PICK t : t = x.cur
  OBVIOUS
<1>3. PICK d : d = h[t].c
  OBVIOUS
<1>4. d.op \in Simple /\ t \in Task /\ h \in [Task -> ThreadState]
  BY <1>1, <1>2, <1>3 DEF Threads, Thread, OpOf
<1>5. CallOK(a, t, d) /\ d.u \in Task
  <2>1. d.op # "none"
    BY <1>4 DEF Simple
  <2> QED BY <1>1, <1>2, <1>3, <2>1, InOwnCall
<1>6. d.u \in Staying(a) \cup {t} /\ (d.op = "PrioritySet" => d.n \in Priority)
  BY <1>4, <1>5 DEF CallOK, Aimed
<1>7. x.ns[d.u] = "waiting" => at[d.u] \notin {"none", "dying"} /\ d.u \notin Range(x.pending)
  <2>1. h[t].pc \notin AbortPc /\ h[t].pc # "taken"
    BY <1>2 DEF Simple, AbortPc
  <2>2. at[d.u] # "none" /\ (d.u # t => at[d.u] # "dying")
    BY <1>2, <1>6, <2>1, AimedAt
  <2>3. x.ns[d.u] = "waiting" => h[d.u].pc = "taken" /\ d.u \notin Range(x.pending)
    BY <1>1, <1>5 DEF Heeds
  <2> QED BY <2>1, <2>2, <2>3
<1>8. PICK to : Called(x, y, at, to)
  <2>1. y = DoSimple(x, d)
    BY <1>2, <1>3 DEF SimpleStep
  <2> QED BY <1>1, <1>4, <1>5, <1>6, <1>7, <2>1, CallsSimply
<1>9. Woke(x, y, at, to, {}) /\ y.pended = x.pended
  BY <1>8, CalledWoke
<1>10. PICK q, e, w : Goes(h, g, t, p, q, e, w) /\ q = "run"
  <2>1. p \in PC /\ "run" \in TO
    BY DEF PC, TO, SuspPc, SimpleStep
  <2>2. g = [h EXCEPT ![t].pc = p, ![t].to = "run"]
    BY <1>2 DEF SimpleStep
  <2> QED BY <1>2, <1>4, <2>1, <2>2, Went
<1>11. p \in {"resume", "run"} /\ (p = "resume" <=> h[x.cur].pc = "locked")
  BY DEF SimpleStep
<1>12. Threads(g, m, a)
  <2>1. OpOf(p, d.op) /\ OpOf(q, d.op)
    BY <1>10, <1>11, OpOfNone
  <2> QED BY <1>1, <1>3, <1>4, <1>10, <1>11, <2>1, Threaded
<1>13. KernelInv(x, g, m, a, at)
  <2>1. g[t].pc = p /\ \A u \in Task \ {t} : g[u] = h[u]
    <3>1. Goes(h, g, t, p, q, e, w)
      BY <1>10
    <3>2. g[t].pc = p
      BY ONLY <3>1, GoesFields
    <3>3. \A u \in Task \ {t} : g[u] = h[u]
      BY ONLY <3>1, GoesFields
    <3> QED BY <3>2, <3>3
  <2>2. /\ h[x.cur].pc \notin AbortPc \cup {"yield", "suspended", "created", "taken", "resume"}
        /\ g[x.cur].pc \notin AbortPc \cup {"taken"} /\ (g[x.cur].pc \in SuspPc <=> h[x.cur].pc \in SuspPc)
    BY <1>2, <1>11, <2>1 DEF AbortPc, SuspPc, Simple
  <2>3. \A u \in Task \ {x.cur} : g[u] = h[u]
    BY <1>2, <2>1
  <2> HIDE DEF Simple, SuspPc, AbortPc
  <2> QED BY <1>12, <2>2, <2>3, ThreadGoes
<1>14. KernelInv(y, g, m, a, to)
  <2>1. KernelInv(x, g, m, a, at) /\ Woke(x, y, at, to, {}) /\ {} \subseteq Staying(a) /\ y.pended = x.pended
    BY <1>9, <1>13
  <2> QED BY ONLY <2>1, KernelMoves
<1> QED BY <1>14

(* The two general steps, for a thread whose record has changed.            *)
LEMMA GoesOn ==
  ASSUME NEW x, NEW h, NEW m, NEW a, NEW at, KernelInv(x, h, m, a, at),
         NEW g, NEW p, NEW q, NEW e, NEW w, Goes(h, g, x.cur, p, q, e, w), Threads(g, m, a),
         h[x.cur].pc \notin AbortPc \cup {"yield", "suspended", "created", "taken", "resume"},
         p \notin AbortPc \cup {"taken"}, p \in SuspPc <=> h[x.cur].pc \in SuspPc
  PROVE  KernelInv(x, g, m, a, at)
<1>1. g[x.cur].pc = p /\ \A u \in Task \ {x.cur} : g[u] = h[u]
  BY GoesFields
<1> QED BY <1>1, ThreadGoes

LEMMA GoesLocked ==
  ASSUME NEW x, NEW h, NEW m, NEW a, NEW at, KernelInv(x, h, m, a, at),
         NEW g, NEW p, NEW q, NEW e, NEW w, Goes(h, g, x.cur, p, q, e, w), Threads(g, m, a),
         h[x.cur].pc \notin SuspPc \cup {"yield", "suspended", "created", "taken"},
         p \in SuspPc \ AbortPc, NEW y, y = vTaskSuspendAll(x)
  PROVE  KernelInv(y, g, m, a, at)
<1>1. g[x.cur].pc = p /\ \A u \in Task \ {x.cur} : g[u] = h[u]
  BY GoesFields
<1> QED BY <1>1, Locks

LEMMA Running ==
  ASSUME NEW x, NEW h, NEW m, NEW a, NEW at, KernelInv(x, h, m, a, at)
  PROVE  /\ x.cur \in Task /\ h \in [Task -> ThreadState] /\ Threads(h, m, a)
         /\ h[x.cur] \in ThreadState /\ Thread(h[x.cur], m, a.calls[x.cur])
BY DEF KernelInv, Sound, Shape, KernelState, Threads

(* A call that begins by suspending the scheduler.                          *)
LEMMA CallLocks ==
  ASSUME NEW x, NEW h, NEW m, NEW a, NEW at, KernelInv(x, h, m, a, at), NEW p, NEW g,
         \/ h[x.cur].pc = "lock" /\ p = "locked"
         \/ h[x.cur].pc = "Delay" /\ p = "delay" /\ h[x.cur].c.n # 0
         \/ h[x.cur].pc = "DelayUntil" /\ p = "delayuntil"
         \/ h[x.cur].pc = "CatchUp" /\ p = "catchup"
         \/ h[x.cur].pc = "AbortDelay" /\ p = "abort",
         g = [h EXCEPT ![x.cur].pc = p, ![x.cur].to = "run"],
         NEW y, y = vTaskSuspendAll(x)
  PROVE  KernelInv(y, g, m, a, at)
<1>1. x.cur \in Task /\ h \in [Task -> ThreadState] /\ Threads(h, m, a) /\ Thread(h[x.cur], m, a.calls[x.cur])
  BY Running
<1>2. p \in {"locked", "delay", "delayuntil", "catchup", "abort"}
  OBVIOUS
<1>3. p \in PC /\ "run" \in TO /\ p \in SuspPc \ AbortPc
  BY <1>2 DEF PC, TO, SuspPc, AbortPc
<1>4. PICK q, e, w : Goes(h, g, x.cur, p, q, e, w) /\ q = "run"
  BY <1>1, <1>3, Went
<1>5. OpOf(p, h[x.cur].c.op) /\ (p = "delay" => h[x.cur].c.n # 0)
  <2>1. OpOf(h[x.cur].pc, h[x.cur].c.op)
    BY <1>1 DEF Thread
  <2> QED BY <2>1 DEF OpOf, Simple
<1>6. Threads(g, m, a)
  BY <1>1, <1>2, <1>4, <1>5, Threaded
<1>7. h[x.cur].pc \notin SuspPc \cup {"yield", "suspended", "created", "taken"}
  BY DEF SuspPc
<1> QED BY <1>3, <1>4, <1>6, <1>7, GoesLocked

(* A call that goes on without touching the kernel.                         *)
LEMMA CallGoesOn ==
  ASSUME NEW x, NEW h, NEW m, NEW a, NEW at, KernelInv(x, h, m, a, at), NEW p, NEW g,
         \/ h[x.cur].pc = "Delay" /\ p = "yield"
         \/ h[x.cur].pc = "Delete" /\ p = "run"
         \/ h[x.cur].pc = "free" /\ p = "release"
         \/ h[x.cur].pc = "abort" /\ p = "resume",
         g = [h EXCEPT ![x.cur].pc = p, ![x.cur].to = "run"]
  PROVE  KernelInv(x, g, m, a, at)
<1>1. x.cur \in Task /\ h \in [Task -> ThreadState] /\ Threads(h, m, a)
  BY Running
<1>2. p \in {"yield", "run", "release", "resume"}
  OBVIOUS
<1>3. p \in PC /\ "run" \in TO /\ p \notin AbortPc \cup {"taken"}
  BY <1>2 DEF PC, TO, SuspPc, AbortPc
<1>4. PICK q, e, w : Goes(h, g, x.cur, p, q, e, w) /\ q = "run" /\ e = h[x.cur].got
  BY <1>1, <1>3, Went
<1>5. OpOf(p, h[x.cur].c.op) /\ OpOf(q, h[x.cur].c.op)
  BY <1>2, <1>4, OpOfNone
<1>6. Threads(g, m, a)
  <2>1. p \in {"createtcb", "createadd", "free", "release"} => h[x.cur].pc = "free"
    OBVIOUS
  <2>2. h[x.cur].pc = "free" => h[x.cur].got # <<>>
    BY Running DEF Thread, Doing, Holding
  <2>3. p \in {"createtcb", "createadd", "free", "release"} => e # <<>>
    BY <1>4, <2>1, <2>2
  <2> QED BY <1>1, <1>2, <1>4, <1>5, <2>3, Threaded
<1>7. /\ h[x.cur].pc \notin AbortPc \cup {"yield", "suspended", "created", "taken", "resume"}
      /\ p \in SuspPc <=> h[x.cur].pc \in SuspPc
  BY DEF SuspPc, AbortPc
<1>8. KernelInv(x, h, m, a, at) /\ Goes(h, g, x.cur, p, q, e, w)
  BY <1>4
<1> QED BY ONLY <1>3, <1>6, <1>7, <1>8, GoesOn

(* A task starts a call.                                                    *)
Enters(h, g, t, p, d) ==
  /\ g \in [Task -> ThreadState] /\ \A u \in Task \ {t} : g[u] = h[u]
  /\ g[t].pc = p /\ g[t].c = d
LEMMA BeginShape ==
  ASSUME NEW h \in [Task -> ThreadState], NEW t \in Task, NEW p \in PC, NEW d \in Call,
         NEW g, g = [h EXCEPT ![t].pc = p, ![t].c = d]
  PROVE  Enters(h, g, t, p, d)
BY DEF Enters, ThreadState

LEMMA CallBegins ==
  ASSUME NEW x, NEW h, NEW m, NEW a, NEW at, KernelInv(x, h, m, a, at), h[x.cur].pc = "run",
         NEW d \in a.calls[x.cur], d.op = "Create" => m[d.u] = <<>>,
         NEW g, g = [h EXCEPT ![x.cur].pc = Entry(d), ![x.cur].c = d]
  PROVE  KernelInv(x, g, m, a, at)
<1>1. x.cur \in Task /\ h \in [Task -> ThreadState] /\ Threads(h, m, a) /\ AppOK(a)
  BY Running DEF KernelInv
<1>2. CallOK(a, x.cur, d)
  BY <1>1 DEF AppOK
<1>3. d.op \in Ops /\ d.u \in Task /\ d \in Call /\ (d.locked => d.op \in Simple)
  BY <1>2 DEF CallOK, Call, Ops
<1>4. PICK p : p = Entry(d)
  OBVIOUS
<1>5. (p = "lock" /\ d.op \in Simple) \/ (p = d.op /\ p \in Ops)
  <2>1. CASE d.locked
    BY <1>3, <1>4, <2>1 DEF Entry
  <2>2. CASE ~d.locked
    BY <1>3, <1>4, <2>2 DEF Entry
  <2> QED BY <2>1, <2>2
<1>6. p \in PC /\ p \notin SuspPc /\ p \notin AbortPc \cup {"taken"} /\ p \notin {"delay", "createtcb", "createadd", "free", "release", "resume"}
  BY <1>5 DEF PC, SuspPc, AbortPc, Ops, Aimed, Timed, Simple
<1>7. OpOf(p, d.op)
  BY <1>5 DEF OpOf, Ops, Aimed, Timed, Simple
<1>12. Enters(h, g, x.cur, p, d)
  <2>1. g = [h EXCEPT ![x.cur].pc = p, ![x.cur].c = d]
    BY <1>4
  <2>2. h \in [Task -> ThreadState] /\ x.cur \in Task /\ p \in PC /\ d \in Call
    BY <1>1, <1>3, <1>6
  <2> QED BY <2>1, <2>2, BeginShape
<1>8. g \in [Task -> ThreadState] /\ (\A u \in Task \ {x.cur} : g[u] = h[u]) /\ g[x.cur].pc = p /\ g[x.cur].c = d
  BY <1>12 DEF Enters
<1>9. Thread(g[x.cur], m, a.calls[x.cur])
  <2>1. p = "Create" => d.op = "Create"
    BY <1>5
  <2> QED BY <1>6, <1>7, <1>8, <2>1 DEF Thread, Doing, Holding
<1>10. Threads(g, m, a)
  BY <1>1, <1>8, <1>9 DEF Threads
<1>11. h[x.cur].pc \notin SuspPc /\ h[x.cur].pc \notin AbortPc \cup {"yield", "suspended", "created", "taken", "resume"}
  BY DEF SuspPc, AbortPc
<1> QED BY <1>6, <1>8, <1>10, <1>11, ThreadGoes

(* xTaskResumeAll: the scheduler runs again, nothing is pending any more.   *)
LEMMA CallResumes ==
  ASSUME NEW x, NEW h, NEW m, NEW a, NEW at, KernelInv(x, h, m, a, at), h[x.cur].pc = "resume",
         NEW r, r = xTaskResumeAll(x), NEW p, p = h[x.cur].to \/ p = "run",
         ~r.yielded => p = h[x.cur].to,
         NEW g, g = [h EXCEPT ![x.cur].pc = p, ![x.cur].to = "run"]
  PROVE  \E to : KernelInv(r.k, g, m, a, to)
<1>1. /\ AppOK(a) /\ Sound(x, at) /\ Situated(x, h, m, a, at) /\ Locking(x, h, a) /\ OnTurn(x, h, at)
      /\ Heeds(x, h, at) /\ Tally(x, m)
  BY DEF KernelInv
<1>2. /\ x.cur \in Task /\ h \in [Task -> ThreadState] /\ Threads(h, m, a) /\ Thread(h[x.cur], m, a.calls[x.cur])
      /\ h[x.cur] \in ThreadState
  BY Running
<1>3. x.susp = 1 /\ Owed(x, at) /\ (at[x.cur] = "ready" \/ h[x.cur].to = "yield")
  BY <1>1 DEF Locking, OnTurn, SuspPc
<1>4. \A t \in Range(x.pending) : at[t] \notin {"none", "dying"}
  <2>1. Range(x.pending) \subseteq Staying(a) /\ \A t \in Staying(a) : t \in Task /\ t \notin Passing(a)
    BY <1>1, StayingTasks DEF Locking
  <2>2. \A t \in Task : ~Abandoned(h, t)
    <3>1. h[x.cur].pc \notin AbortPc
      BY DEF AbortPc
    <3> QED BY <1>1, <3>1, NobodyAborts
  <2> QED BY <1>1, <2>1, <2>2 DEF Situated
<1>5. PICK y : y = r.k
  OBVIOUS
<1>6. PICK to : Resumed(x, y, r.yielded, at, to)
  <2>1. \E to : Resumed(x, r.k, r.yielded, at, to)
    BY <1>1, <1>3, <1>4, SchedulerResumed
  <2> QED BY <1>5, <2>1
<1>7. /\ Sound(y, to) /\ Moved(at, to) /\ y.dying = x.dying
      /\ y.susp = 0 /\ y.pending = <<>> /\ y.pended = 0
      /\ \A t \in Range(x.pending) : to[t] = "ready"
      /\ r.yielded \in BOOLEAN
      /\ r.yielded => Best(y, to)
      /\ ~r.yielded => y.cur = x.cur /\ NoneAbove(y, to)
  BY <1>6 DEF Resumed
<1>8. y.ns = x.ns /\ y.nv = x.nv /\ y.ntasks = x.ntasks /\ y.ndying = x.ndying
  BY <1>6 DEF Resumed, Same, Fields, Times, Wakes, StateLinks, Turn
<1>9. p \in TO /\ p \in PC /\ "run" \in TO /\ p \notin SuspPc /\ p # "taken"
  <2>1. h[x.cur].to \in TO
    BY <1>2 DEF ThreadState
  <2> QED BY <2>1 DEF TO, PC, SuspPc
<1>10. PICK q, e, w : Goes(h, g, x.cur, p, q, e, w) /\ q = "run" /\ e = h[x.cur].got
  BY <1>2, <1>9, Went
<1>11. g[x.cur].pc = p /\ g[x.cur].c = h[x.cur].c /\ \A u \in Task \ {x.cur} : g[u] = h[u]
  <2>1. Goes(h, g, x.cur, p, q, e, w)
    BY <1>10
  <2> QED BY ONLY <2>1, GoesFields
<1>12. Threads(g, m, a)
  <2>1. OpOf(p, h[x.cur].c.op) /\ p # "resume" /\ p # "delay"
    <3>1. OpOf(h[x.cur].to, h[x.cur].c.op)
      BY <1>2 DEF Thread
    <3>2. OpOf("run", h[x.cur].c.op)
      BY OpOfNone
    <3> QED BY <1>9, <3>1, <3>2 DEF TO
  <2>2. p \in {"createtcb", "createadd", "free", "release"} => h[x.cur].got # <<>>
    BY <1>2 DEF Thread, Doing, Holding
  <2>3. p \in {"Create", "createtcb", "createadd"} => m[h[x.cur].c.u] = <<>>
    BY <1>2 DEF Thread, Doing
  <2> QED BY <1>2, <1>10, <2>1, <2>2, <2>3, Threaded
<1>13. y.cur \in Task
  BY <1>7 DEF Sound, Shape, KernelState
<1>14. \A t \in Task : g[t].pc \notin SuspPc /\ (g[t].pc = "taken" <=> h[t].pc = "taken") /\ (h[t].pc = "taken" => g[t] = h[t])
  BY <1>1, <1>2, <1>9, <1>11 DEF Locking
<1>15. Locking(y, g, a)
  BY <1>7, <1>13, <1>14, Unlocked
<1>16. Situated(y, g, m, a, to)
  <2>1. \A t \in Task : ~Abandoned(h, t) /\ ~Abandoned(g, t)
    <3>1. g[y.cur].pc \notin AbortPc /\ h[x.cur].pc \notin AbortPc
      BY <1>13, <1>14 DEF AbortPc, SuspPc
    <3> QED BY <1>1, <1>15, <3>1, NobodyAborts
  <2>2. \A t \in Task : (to[t] = "none" <=> at[t] = "none") /\ (to[t] = "dying" <=> at[t] = "dying")
    BY <1>7 DEF Moved
  <2>3. to[y.cur] # "none"
    BY <1>1, <1>2, <1>7, <2>2 DEF Situated, Best
  <2> QED BY <1>1, <2>1, <2>2, <2>3 DEF Situated
<1>17. OnTurn(y, g, to)
  <2>4. \A i, j \in Priority : i <= j => ~(i > j)
    BY Numbers
  <2>5. y.prio \in [Task -> Priority]
    BY <1>7 DEF Sound, Shape, KernelState
  <2>1. y.prio \in [Task -> Priority] /\ \A i, j \in Priority : i <= j => ~(i > j)
    BY <2>4, <2>5
  <2>2. CASE Best(y, to)
    BY <1>7, <1>13, <2>1, <2>2 DEF OnTurn, Best, NoneAbove
  <2>3. CASE ~r.yielded
    <3>1. y.cur = x.cur /\ NoneAbove(y, to) /\ p = h[x.cur].to
      BY <1>7, <2>3
    <3>2. CASE p = "yield"
      BY <1>7, <1>11, <3>1, <3>2 DEF OnTurn
    <3>3. CASE p # "yield"
      <4>1. to[x.cur] = "ready"
        BY <1>2, <1>3, <1>7, <3>1, <3>3 DEF Moved
      <4>2. Best(y, to)
        BY <3>1, <4>1 DEF Best
      <4> QED BY <2>2, <4>2
    <3> QED BY <3>2, <3>3
  <2> QED BY <1>7, <2>2, <2>3
<1>18. Heeds(y, g, to)
  <2>1. ASSUME NEW t \in Task, y.ns[t] = "waiting"
        PROVE  /\ g[t].pc = "taken" /\ y.nv[t] = 0 /\ t \notin Range(y.pending)
               /\ to[t] = "suspended" => g[t].c.n = MaxDelay
    <3>1. h[t].pc = "taken" /\ x.nv[t] = 0 /\ (at[t] = "suspended" => h[t].c.n = MaxDelay)
      BY <1>1, <1>8, <2>1 DEF Heeds
    <3>2. to[t] = "suspended" => at[t] = "suspended"
      BY <1>7 DEF Moved
    <3>3. t \notin Range(y.pending)
      BY <1>7 DEF Range
    <3>4. g[t].pc = "taken" /\ y.nv[t] = 0
      BY <1>8, <1>14, <3>1
    <3>5. to[t] = "suspended" => g[t].c.n = MaxDelay
      BY <1>14, <3>1, <3>2
    <3> QED BY <3>3, <3>4, <3>5
  <2>2. ASSUME NEW t \in Task, g[t].pc = "taken", to[t] \in Asleep PROVE y.ns[t] = "waiting"
    <3>1. at[t] \in Asleep
      BY <1>7, <2>2 DEF Moved, Asleep
    <3>2. t \notin Range(x.pending)
      BY <1>7, <2>2 DEF Asleep
    <3> QED BY <1>1, <1>8, <1>14, <2>2, <3>1, <3>2 DEF Heeds
  <2> QED BY <2>1, <2>2 DEF Heeds
<1>19. Tally(y, m)
  BY <1>1, <1>7, <1>8 DEF Tally
<1>20. KernelInv(y, g, m, a, to)
  BY <1>1, <1>7, <1>12, <1>15, <1>16, <1>17, <1>18, <1>19 DEF KernelInv
<1> QED BY <1>5, <1>20

(* A switch while the scheduler runs.                                       *)
LEMMA CallSwitches ==
  ASSUME NEW x, NEW h, NEW m, NEW a, NEW at, KernelInv(x, h, m, a, at), h[x.cur].pc \in {"yield", "created"},
         NEW cond \in BOOLEAN, ~cond => Best(x, at), NEW y, y = YieldIf(x, cond),
         NEW g, g = [h EXCEPT ![x.cur].pc = "run", ![x.cur].to = "run"]
  PROVE  KernelInv(y, g, m, a, at)
<1>1. /\ AppOK(a) /\ Sound(x, at) /\ Situated(x, h, m, a, at) /\ Locking(x, h, a)
      /\ Heeds(x, h, at) /\ Tally(x, m)
  BY DEF KernelInv
<1>2. x.cur \in Task /\ h \in [Task -> ThreadState] /\ Threads(h, m, a)
  BY Running
<1>3. h[x.cur].pc \notin SuspPc /\ h[x.cur].pc # "taken"
  BY DEF SuspPc
<1>4. x.susp = 0 /\ x.pending = <<>> /\ x.pended = 0 /\ \A t \in Task : h[t].pc \notin SuspPc
  BY <1>1, <1>2, <1>3 DEF Locking
<1>5. Yielded(x, y, at)
  BY <1>1, <1>4, YieldedIf DEF Served
<1>6. /\ Sound(y, at) /\ y.susp = 0 /\ y.ns = x.ns /\ y.nv = x.nv /\ y.pending = x.pending /\ y.pended = 0
      /\ y.dying = x.dying /\ y.ntasks = x.ntasks /\ y.ndying = x.ndying /\ y.cur \in Task
  BY ZenonT(30), <1>4, <1>5 DEF Yielded, Same, Fields, Turn, Sound, Shape, KernelState
<1>7. Best(y, at)
  BY <1>5, <1>6 DEF Yielded, Served
<1>8. PICK p, q, e, w : Goes(h, g, x.cur, p, q, e, w) /\ p = "run" /\ q = "run"
  <2>1. "run" \in PC /\ "run" \in TO
    BY DEF PC, TO
  <2> QED BY <1>2, <2>1, Went
<1>9. g[x.cur].pc = p /\ g[x.cur].c = h[x.cur].c /\ \A u \in Task \ {x.cur} : g[u] = h[u]
  <2>1. Goes(h, g, x.cur, p, q, e, w)
    BY <1>8
  <2> QED BY ONLY <2>1, GoesFields
<1>10. Threads(g, m, a)
  <2>1. OpOf(p, h[x.cur].c.op)
    BY <1>8, OpOfNone
  <2> QED BY <1>2, <1>8, <2>1, Threaded
<1>11. \A t \in Task : g[t].pc \notin SuspPc /\ (g[t].pc = "taken" <=> h[t].pc = "taken") /\ (h[t].pc = "taken" => g[t] = h[t])
  BY <1>2, <1>3, <1>4, <1>8, <1>9 DEF SuspPc
<1>12. Locking(y, g, a)
  BY <1>4, <1>6, <1>11, Unlocked
<1>13. Situated(y, g, m, a, at)
  <2>1. \A t \in Task : ~Abandoned(h, t) /\ ~Abandoned(g, t)
    <3>1. g[y.cur].pc \notin AbortPc /\ h[x.cur].pc \notin AbortPc
      BY <1>6, <1>11 DEF AbortPc, SuspPc
    <3> QED BY <1>1, <1>12, <3>1, NobodyAborts
  <2>2. at[y.cur] # "none"
    BY <1>7 DEF Best
  <2> QED BY <1>1, <2>1, <2>2 DEF Situated
<1>14. OnTurn(y, g, at)
  <2>4. \A i, j \in Priority : i <= j => ~(i > j)
    BY Numbers
  <2>5. y.prio \in [Task -> Priority]
    BY <1>6 DEF Sound, Shape, KernelState
  <2>1. y.prio \in [Task -> Priority] /\ \A i, j \in Priority : i <= j => ~(i > j)
    BY <2>4, <2>5
  <2> QED BY <1>6, <1>7, <2>1 DEF OnTurn, Best, NoneAbove
<1>15. Heeds(y, g, at)
  <2>1. ASSUME NEW t \in Task, y.ns[t] = "waiting"
        PROVE  /\ g[t].pc = "taken" /\ y.nv[t] = 0 /\ t \notin Range(y.pending)
               /\ at[t] = "suspended" => g[t].c.n = MaxDelay
    <3>1. h[t].pc = "taken" /\ x.nv[t] = 0 /\ t \notin Range(x.pending) /\ (at[t] = "suspended" => h[t].c.n = MaxDelay)
      BY <1>1, <1>6, <2>1 DEF Heeds
    <3> QED BY <1>6, <1>11, <3>1
  <2>2. ASSUME NEW t \in Task, g[t].pc = "taken", at[t] \in Asleep, t \notin Range(y.pending) PROVE y.ns[t] = "waiting"
    BY <1>1, <1>6, <1>11, <2>2 DEF Heeds
  <2> QED BY <2>1, <2>2 DEF Heeds
<1>16. Tally(y, m)
  BY <1>1, <1>6 DEF Tally
<1> QED BY <1>1, <1>6, <1>10, <1>12, <1>13, <1>14, <1>15, <1>16 DEF KernelInv

LEMMA StillLocked ==
  ASSUME NEW x, NEW h, NEW a, Locking(x, h, a), NEW y, NEW g, \A u \in Task \ {x.cur} : g[u] = h[u],
         h[x.cur].pc \in SuspPc, g[x.cur].pc \in SuspPc, y.cur = x.cur, y.susp = x.susp,
         x.susp = 1, Range(y.pending) \subseteq Range(x.pending),
         y.pended <= 2 * MaxPended, g[x.cur].pc # "resume" => y.pended <= MaxPended
  PROVE  Locking(y, g, a)
BY DEF Locking

LEMMA PendedBound ==
  ASSUME NEW x, NEW h, NEW a, Locking(x, h, a)
  PROVE  x.pended <= 2 * MaxPended /\ (h[x.cur].pc # "resume" => x.pended <= MaxPended)
BY DEF Locking

(* Under a suspended scheduler.                                             *)
LEMMA InLock ==
  ASSUME NEW x, NEW h, NEW m, NEW a, NEW at, KernelInv(x, h, m, a, at), h[x.cur].pc \in SuspPc \ {"resume"}
  PROVE  /\ AppOK(a) /\ Sound(x, at) /\ Situated(x, h, m, a, at) /\ Locking(x, h, a) /\ OnTurn(x, h, at)
         /\ Heeds(x, h, at) /\ Tally(x, m)
         /\ x.cur \in Task /\ h \in [Task -> ThreadState] /\ Threads(h, m, a) /\ Thread(h[x.cur], m, a.calls[x.cur])
         /\ h[x.cur] \in ThreadState /\ x.susp = 1 /\ Owed(x, at) /\ at[x.cur] = "ready"
         /\ x.pended <= MaxPended /\ h[x.cur].pc # "taken"
<1>1. /\ AppOK(a) /\ Sound(x, at) /\ Situated(x, h, m, a, at) /\ Locking(x, h, a) /\ OnTurn(x, h, at)
      /\ Heeds(x, h, at) /\ Tally(x, m)
  BY DEF KernelInv
<1>2. /\ x.cur \in Task /\ h \in [Task -> ThreadState] /\ Threads(h, m, a) /\ Thread(h[x.cur], m, a.calls[x.cur])
      /\ h[x.cur] \in ThreadState
  BY Running
<1>3. x.susp = 1 /\ x.pended <= MaxPended
  BY <1>1 DEF Locking
<1>4. Owed(x, at) /\ at[x.cur] = "ready"
  BY <1>1, <1>3 DEF OnTurn
<1>5. h[x.cur].pc # "taken"
  BY DEF SuspPc
<1> QED BY <1>1, <1>2, <1>3, <1>4, <1>5

LEMMA LockedTurn ==
  ASSUME NEW y, NEW g, NEW to, y.susp = 1, Owed(y, to),
         to[y.cur] = "ready" \/ (g[y.cur].pc = "resume" /\ g[y.cur].to = "yield")
  PROVE  OnTurn(y, g, to)
<1>1. PICK n : n = y.susp
  OBVIOUS
<1>2. n # 0
  BY <1>1
<1>3. y.susp # 0
  BY <1>1, <1>2
<1> QED BY <1>3 DEF OnTurn

(* Only the tasks of U have changed, and they do not wait.                  *)
Unconcerned(x, h, at, y, g, to, U) ==
  /\ \A t \in Task \ U : /\ y.ns[t] = x.ns[t] /\ y.nv[t] = x.nv[t] /\ g[t] = h[t] /\ to[t] = at[t]
                         /\ t \in Range(y.pending) <=> t \in Range(x.pending)
  /\ \A t \in U : y.ns[t] # "waiting" /\ (g[t].pc # "taken" \/ to[t] \notin Asleep)
LEMMA HeedsOn ==
  ASSUME NEW x, NEW h, NEW at, Heeds(x, h, at), NEW y, NEW g, NEW to, NEW U,
         Unconcerned(x, h, at, y, g, to, U)
  PROVE  Heeds(y, g, to)
<1>1. ASSUME NEW t \in Task, t \notin U, y.ns[t] = "waiting"
      PROVE  /\ g[t].pc = "taken" /\ y.nv[t] = 0 /\ t \notin Range(y.pending)
             /\ to[t] = "suspended" => g[t].c.n = MaxDelay
  <2>1. y.ns[t] = x.ns[t] /\ y.nv[t] = x.nv[t] /\ g[t] = h[t] /\ to[t] = at[t]
    BY <1>1 DEF Unconcerned
  <2>2. t \in Range(y.pending) <=> t \in Range(x.pending)
    BY <1>1 DEF Unconcerned
  <2>3. h[t].pc = "taken" /\ x.nv[t] = 0 /\ t \notin Range(x.pending) /\ (at[t] = "suspended" => h[t].c.n = MaxDelay)
    BY <1>1, <2>1 DEF Heeds
  <2> QED BY <2>1, <2>2, <2>3
<1>2. ASSUME NEW t \in Task, t \notin U, g[t].pc = "taken", to[t] \in Asleep, t \notin Range(y.pending)
      PROVE  y.ns[t] = "waiting"
  <2>1. y.ns[t] = x.ns[t] /\ g[t] = h[t] /\ to[t] = at[t]
    BY <1>2 DEF Unconcerned
  <2>2. t \in Range(y.pending) <=> t \in Range(x.pending)
    BY <1>2 DEF Unconcerned
  <2> QED BY <1>2, <2>1, <2>2 DEF Heeds
<1>3. ASSUME NEW t \in U PROVE y.ns[t] # "waiting" /\ (g[t].pc # "taken" \/ to[t] \notin Asleep)
  BY DEF Unconcerned
<1> QED BY <1>1, <1>2, <1>3 DEF Heeds

(* The current task goes to sleep; the switch comes with xTaskResumeAll.    *)
LEMMA CallSleeps ==
  ASSUME NEW x, NEW h, NEW m, NEW a, NEW at, KernelInv(x, h, m, a, at), h[x.cur].pc \in {"delay", "delayuntil"},
         NEW n \in 1..MaxDelay, NEW y, y = prvAddCurrentTaskToDelayedList(x, n, FALSE),
         NEW g, NEW p, NEW q, NEW e, NEW w, Goes(h, g, x.cur, p, q, e, w), p = "resume", q = "yield"
  PROVE  \E to : KernelInv(y, g, m, a, to)
<1>1. h[x.cur].pc \in SuspPc \ {"resume"} /\ h[x.cur].pc \notin AbortPc
  BY DEF SuspPc, AbortPc
<1>2. /\ AppOK(a) /\ Sound(x, at) /\ Situated(x, h, m, a, at) /\ Locking(x, h, a)
      /\ Heeds(x, h, at) /\ Tally(x, m)
      /\ x.cur \in Task /\ h \in [Task -> ThreadState] /\ Threads(h, m, a) /\ Thread(h[x.cur], m, a.calls[x.cur])
      /\ x.susp = 1 /\ Owed(x, at) /\ at[x.cur] = "ready" /\ x.pended <= MaxPended /\ h[x.cur].pc # "taken"
  BY <1>1, InLock
<1>3. x.cur # Idle
  <2>1. h[x.cur].c.op # "none"
    BY <1>2 DEF Thread, OpOf
  <2> QED BY <1>2, <2>1, InOwnCall
<1>4. PICK place : Slept(x, y, at, place, n, FALSE)
  BY <1>2, <1>3, Delayed
<1>5. PICK to : to = [at EXCEPT ![x.cur] = place]
  OBVIOUS
<1>6. Sound(y, to) /\ Same(x, y, StateLinks \cup {"top", "unblock", "aborted"}) /\ y.dying = x.dying /\ place \in Asleep
  BY <1>4, <1>5 DEF Slept, Asleep
<1>7. /\ y.cur = x.cur /\ y.susp = x.susp /\ y.ns = x.ns /\ y.nv = x.nv /\ y.pending = x.pending /\ y.pended = x.pended
      /\ y.ntasks = x.ntasks /\ y.ndying = x.ndying /\ y.prio = x.prio /\ y.ypend = x.ypend
  BY <1>6 DEF Same, Fields, StateLinks
<1>8. at \in [Task -> Places]
  BY <1>2 DEF Sound, Shape, Listed
<1>9. g[x.cur].pc = p /\ g[x.cur].to = q /\ g[x.cur].c = h[x.cur].c /\ \A u \in Task \ {x.cur} : g[u] = h[u]
  BY GoesFields
<1>10. Threads(g, m, a)
  <2>1. OpOf(p, h[x.cur].c.op) /\ OpOf(q, h[x.cur].c.op)
    BY OpOfNone
  <2> QED BY <1>2, <2>1, Threaded
<1>11. Locking(y, g, a)
  <2>1. y.pended <= 2 * MaxPended
    BY <1>2, <1>7, PendedBound
  <2>2. g[x.cur].pc \in SuspPc /\ h[x.cur].pc \in SuspPc /\ g[x.cur].pc = "resume"
    BY <1>1, <1>9 DEF SuspPc
  <2>3. Range(y.pending) \subseteq Range(x.pending) /\ (g[x.cur].pc # "resume" => y.pended <= MaxPended)
    BY <1>7, <2>2
  <2> QED BY ONLY <1>2, <1>7, <1>9, <2>1, <2>2, <2>3, StillLocked
<1>12. Situated(y, g, m, a, to)
  <2>1. \A t \in Task : ~Abandoned(h, t) /\ ~Abandoned(g, t)
    <3>1. g[y.cur].pc \notin AbortPc
      BY <1>7, <1>9 DEF AbortPc
    <3> QED BY <1>1, <1>2, <1>11, <3>1, NobodyAborts
  <2>2. \A t \in Task : (to[t] = "none" <=> at[t] = "none") /\ (to[t] = "dying" => at[t] = "dying")
    BY <1>2, <1>5, <1>6, <1>8 DEF Asleep
  <2> QED BY <1>2, <1>7, <2>1, <2>2 DEF Situated
<1>13. OnTurn(y, g, to)
  <2>1. \A t \in Task : to[t] = "ready" => at[t] = "ready"
    BY <1>2, <1>5, <1>6, <1>8 DEF Asleep
  <2>2. Owed(y, to)
    BY <1>2, <1>7, <2>1 DEF Owed, NoneAbove
  <2>3. y.susp = 1 /\ g[y.cur].pc = "resume" /\ g[y.cur].to = "yield"
    BY <1>2, <1>7, <1>9
  <2> QED BY <2>2, <2>3, LockedTurn
<1>14. Heeds(y, g, to)
  <2>1. \A t \in Task \ {x.cur} : to[t] = at[t]
    BY <1>5, <1>8
  <2>2. g[x.cur].pc # "taken" /\ x.ns[x.cur] # "waiting"
    BY <1>2, <1>9 DEF Heeds
  <2>3. y.ns[x.cur] # "waiting"
    BY <1>7, <2>2
  <2>4. PICK U : U = {x.cur}
    OBVIOUS
  <2>5. \A t \in U : y.ns[t] # "waiting" /\ (g[t].pc # "taken" \/ to[t] \notin Asleep)
    BY <2>2, <2>3, <2>4
  <2>6. \A t \in Task \ U : /\ y.ns[t] = x.ns[t] /\ y.nv[t] = x.nv[t] /\ g[t] = h[t] /\ to[t] = at[t]
                            /\ t \in Range(y.pending) <=> t \in Range(x.pending)
    BY <1>7, <1>9, <2>1, <2>4
  <2>7. Unconcerned(x, h, at, y, g, to, U)
    BY <2>5, <2>6 DEF Unconcerned
  <2> QED BY <1>2, <2>7, HeedsOn
<1>15. Tally(y, m)
  BY <1>2, <1>6, <1>7 DEF Tally
<1> QED BY <1>2, <1>6, <1>10, <1>11, <1>12, <1>13, <1>14, <1>15 DEF KernelInv

(* xTaskCatchUpTicks.                                                       *)
LEMMA CallCatchesUp ==
  ASSUME NEW x, NEW h, NEW m, NEW a, NEW at, KernelInv(x, h, m, a, at), h[x.cur].pc = "catchup",
         NEW y, y = [x EXCEPT !.pended = x.pended + h[x.cur].c.n],
         NEW g, g = [h EXCEPT ![x.cur].pc = "resume", ![x.cur].to = "run"]
  PROVE  KernelInv(y, g, m, a, at)
<1>1. h[x.cur].pc \in SuspPc \ {"resume"} /\ h[x.cur].pc \notin AbortPc
  BY DEF SuspPc, AbortPc
<1>2. /\ AppOK(a) /\ Sound(x, at) /\ Situated(x, h, m, a, at) /\ Locking(x, h, a)
      /\ Heeds(x, h, at) /\ Tally(x, m)
      /\ x.cur \in Task /\ h \in [Task -> ThreadState] /\ Threads(h, m, a) /\ Thread(h[x.cur], m, a.calls[x.cur])
      /\ x.susp = 1 /\ Owed(x, at) /\ at[x.cur] = "ready" /\ x.pended <= MaxPended /\ h[x.cur].pc # "taken"
  BY <1>1, InLock
<1>3. h[x.cur].c.n \in Nat /\ h[x.cur].c.n <= MaxPended
  <2>1. h[x.cur].c.op = "CatchUp"
    BY <1>2 DEF Thread, OpOf
  <2>2. CallOK(a, x.cur, h[x.cur].c) /\ h[x.cur].c \in Call
    BY <1>2, <2>1, InOwnCall
  <2> QED BY <2>1, <2>2 DEF CallOK, Call
<1>4. x.pended \in Nat /\ MaxPended \in Nat
  BY <1>2, AppAssumption DEF Sound, Shape, KernelState
<1>5. PICK n : n = x.pended + h[x.cur].c.n
  OBVIOUS
<1>6. n \in Nat /\ n <= 2 * MaxPended
  BY <1>2, <1>3, <1>4, <1>5
<1>7. Sound(y, at) /\ Same(x, y, {"pended"}) /\ y.pended = n
  BY <1>2, <1>5, <1>6, PendedChanged
<1>8. /\ y.cur = x.cur /\ y.susp = x.susp /\ y.ns = x.ns /\ y.nv = x.nv /\ y.pending = x.pending
      /\ y.ntasks = x.ntasks /\ y.ndying = x.ndying /\ y.prio = x.prio /\ y.ypend = x.ypend /\ y.dying = x.dying
  BY <1>7 DEF Same, Fields
<1>9. PICK p, q, e, w : Goes(h, g, x.cur, p, q, e, w) /\ p = "resume" /\ q = "run"
  <2>1. "resume" \in PC /\ "run" \in TO
    BY DEF PC, TO, SuspPc
  <2> QED BY <1>2, <2>1, Went
<1>10. g[x.cur].pc = p /\ g[x.cur].c = h[x.cur].c /\ \A u \in Task \ {x.cur} : g[u] = h[u]
  <2>1. Goes(h, g, x.cur, p, q, e, w)
    BY <1>9
  <2> QED BY ONLY <2>1, GoesFields
<1>11. Threads(g, m, a)
  <2>1. OpOf(p, h[x.cur].c.op) /\ OpOf(q, h[x.cur].c.op)
    BY <1>9, OpOfNone
  <2> QED BY <1>2, <1>9, <2>1, Threaded
<1>12. Locking(y, g, a)
  <2>1. g[x.cur].pc \in SuspPc /\ h[x.cur].pc \in SuspPc /\ g[x.cur].pc = "resume"
    BY <1>1, <1>9, <1>10 DEF SuspPc
  <2> QED BY <1>2, <1>6, <1>7, <1>8, <1>10, <2>1, StillLocked
<1>13. Situated(y, g, m, a, at)
  <2>1. \A t \in Task : ~Abandoned(h, t) /\ ~Abandoned(g, t)
    <3>1. g[y.cur].pc \notin AbortPc
      BY <1>8, <1>9, <1>10 DEF AbortPc
    <3> QED BY <1>1, <1>2, <1>12, <3>1, NobodyAborts
  <2> QED BY <1>2, <1>8, <2>1 DEF Situated
<1>14. OnTurn(y, g, at)
  BY <1>2, <1>8 DEF OnTurn, Owed, NoneAbove
<1>15. Heeds(y, g, at)
  BY <1>2, <1>8, <1>9, <1>10 DEF Heeds
<1>16. Tally(y, m)
  BY <1>2, <1>8 DEF Tally
<1> QED BY <1>2, <1>7, <1>11, <1>12, <1>13, <1>14, <1>15, <1>16 DEF KernelInv

(* A thread that does not wait has gone on; nobody falls asleep.            *)
Undisturbed(x, at, y, to) ==
  /\ y.ns = x.ns /\ y.nv = x.nv /\ Range(y.pending) \subseteq Range(x.pending)
  /\ \A t \in Task : to[t] = "suspended" => at[t] = "suspended"
  /\ \A t \in Task : to[t] \in Asleep => at[t] \in Asleep /\ (t \in Range(x.pending) => t \in Range(y.pending))
LEMMA HeedsStill ==
  ASSUME NEW x, NEW h, NEW at, Heeds(x, h, at), NEW y, NEW g, NEW to, Undisturbed(x, at, y, to),
         NEW u, \A t \in Task \ {u} : g[t] = h[t], h[u].pc # "taken", g[u].pc # "taken"
  PROVE  Heeds(y, g, to)
<1>1. ASSUME NEW t \in Task, y.ns[t] = "waiting"
      PROVE  /\ g[t].pc = "taken" /\ y.nv[t] = 0 /\ t \notin Range(y.pending)
             /\ to[t] = "suspended" => g[t].c.n = MaxDelay
  <2>1. x.ns[t] = "waiting" /\ y.nv[t] = x.nv[t] /\ (to[t] = "suspended" => at[t] = "suspended")
        /\ (t \in Range(y.pending) => t \in Range(x.pending))
    BY <1>1 DEF Undisturbed
  <2>2. h[t].pc = "taken" /\ x.nv[t] = 0 /\ t \notin Range(x.pending) /\ (at[t] = "suspended" => h[t].c.n = MaxDelay)
    BY <2>1 DEF Heeds
  <2>3. g[t] = h[t]
    BY <2>2
  <2> QED BY <2>1, <2>2, <2>3
<1>2. ASSUME NEW t \in Task, g[t].pc = "taken", to[t] \in Asleep, t \notin Range(y.pending)
      PROVE  y.ns[t] = "waiting"
  <2>1. g[t] = h[t]
    BY <1>2
  <2>2. at[t] \in Asleep /\ t \notin Range(x.pending) /\ y.ns = x.ns
    BY <1>2 DEF Undisturbed
  <2> QED BY <1>2, <2>1, <2>2 DEF Heeds
<1> QED BY <1>1, <1>2 DEF Heeds

(* The thread of a call aborts nobody any more, or one task alone.          *)
LEMMA OnlyAborts ==
  ASSUME NEW y, NEW g, NEW a, Locking(y, g, a), y.cur \in Task, g[y.cur].pc \in AbortPc
  PROVE  \A t \in Task : Abandoned(g, t) <=> t = g[y.cur].c.u
<1>1. ASSUME NEW t \in Task, Abandoned(g, t) PROVE t = g[y.cur].c.u
  <2>1. PICK w \in Task : g[w].pc \in AbortPc /\ g[w].c.u = t
    BY <1>1 DEF Abandoned
  <2>2. w = y.cur
    BY <2>1 DEF Locking, AbortPc, SuspPc
  <2> QED BY <2>1, <2>2
<1>2. ASSUME NEW t \in Task, t = g[y.cur].c.u PROVE Abandoned(g, t)
  BY <1>2 DEF Abandoned
<1> QED BY <1>1, <1>2

(* xTaskAbortDelay: the target leaves its list, the list of its event, and  *)
(* becomes ready.                                                           *)
LEMMA BlockedPlace ==
  ASSUME NEW x, NEW at, Sound(x, at), NEW u \in Task, IsBlocked(x, u)
  PROVE  u # x.cur /\ at[u] \in {"delayed", "overflow", "suspended"}
<1>1. /\ x.delayed \in Seq(Task) /\ x.overflow \in Seq(Task) /\ x.suspended \in Seq(Task)
      /\ Listed(x, at, x.prio)
  BY DEF Sound, Shape, KernelState
<1>2. /\ Contains(x.delayed, u) <=> u \in Range(x.delayed)
      /\ Contains(x.overflow, u) <=> u \in Range(x.overflow)
      /\ Contains(x.suspended, u) <=> u \in Range(x.suspended)
  BY <1>1, ContainsIsRange
<1>3. u \in Range(x.delayed) \/ u \in Range(x.overflow) \/ u \in Range(x.suspended)
  BY SMTT(30), <1>2 DEF IsBlocked
<1> QED BY <1>1, <1>3 DEF IsBlocked, Listed, InPlace

LEMMA CallTakesAway ==
  ASSUME NEW x, NEW h, NEW m, NEW a, NEW at, KernelInv(x, h, m, a, at), h[x.cur].pc = "abort",
         NEW u, u = h[x.cur].c.u, IsBlocked(x, u), NEW y, y = RemoveState(x, u),
         NEW g, g = [h EXCEPT ![x.cur].pc = "abortevent", ![x.cur].to = "run"]
  PROVE  \E to : KernelInv(y, g, m, a, to)
<1>1. h[x.cur].pc \in SuspPc \ {"resume"} /\ h[x.cur].pc \notin AbortPc
  BY DEF SuspPc, AbortPc
<1>2. /\ AppOK(a) /\ Sound(x, at) /\ Situated(x, h, m, a, at) /\ Locking(x, h, a)
      /\ Heeds(x, h, at) /\ Tally(x, m)
      /\ x.cur \in Task /\ h \in [Task -> ThreadState] /\ Threads(h, m, a) /\ Thread(h[x.cur], m, a.calls[x.cur])
      /\ h[x.cur] \in ThreadState
      /\ x.susp = 1 /\ Owed(x, at) /\ at[x.cur] = "ready" /\ x.pended <= MaxPended /\ h[x.cur].pc # "taken"
  BY <1>1, InLock
<1>3. u \in Task
  BY <1>2 DEF ThreadState, Call
<1>4. u # x.cur /\ at[u] \in {"delayed", "overflow", "suspended"}
  BY <1>2, <1>3, BlockedPlace
<1>5. PICK to : TakenAway(x, y, at, to, u)
  BY SMTT(30), <1>2, <1>3, <1>4, TakesAway
<1>6. Sound(y, to) /\ to = [at EXCEPT ![u] = "none"] /\ Same(x, y, StateLinks) /\ y.dying = x.dying
  BY ONLY <1>4, <1>5 DEF TakenAway
<1>7. /\ y.cur = x.cur /\ y.susp = x.susp /\ y.ns = x.ns /\ y.nv = x.nv /\ y.pending = x.pending /\ y.pended = x.pended
      /\ y.ntasks = x.ntasks /\ y.ndying = x.ndying /\ y.prio = x.prio /\ y.ypend = x.ypend
  BY <1>6 DEF Same, Fields, StateLinks
<1>8. at \in [Task -> Places]
  BY <1>2 DEF Sound, Shape, Listed
<1>9. PICK p, q, e, w : Goes(h, g, x.cur, p, q, e, w) /\ p = "abortevent" /\ q = "run"
  <2>1. "abortevent" \in PC /\ "run" \in TO
    BY DEF PC, TO, SuspPc
  <2> QED BY <1>2, <2>1, Went
<1>10. g[x.cur].pc = p /\ g[x.cur].c = h[x.cur].c /\ \A t \in Task \ {x.cur} : g[t] = h[t]
  <2>1. Goes(h, g, x.cur, p, q, e, w)
    BY <1>9
  <2> QED BY ONLY <2>1, GoesFields
<1>11. Threads(g, m, a)
  <2>1. OpOf(p, h[x.cur].c.op)
    BY <1>2, <1>9 DEF Thread, OpOf, Simple
  <2> QED BY <1>2, <1>9, <2>1, Threaded
<1>12. g[x.cur].pc \in SuspPc /\ h[x.cur].pc \in SuspPc /\ g[x.cur].pc \in AbortPc /\ g[x.cur].pc # "taken"
  BY <1>1, <1>9, <1>10 DEF SuspPc, AbortPc
<1>13. Locking(y, g, a)
  <2>1. y.pended <= 2 * MaxPended
    BY <1>2, <1>7, PendedBound
  <2>3. Range(y.pending) \subseteq Range(x.pending) /\ (g[x.cur].pc # "resume" => y.pended <= MaxPended)
    BY ONLY <1>2, <1>7
  <2> QED BY ONLY <1>2, <1>7, <1>10, <1>12, <2>1, <2>3, StillLocked
<1>14. Situated(y, g, m, a, to)
  <2>1. \A t \in Task : ~Abandoned(h, t)
    BY ONLY <1>1, <1>2, NobodyAborts
  <2>2. \A t \in Task : Abandoned(g, t) <=> t = u
    <3>1. y.cur \in Task /\ g[y.cur].pc \in AbortPc /\ g[y.cur].c.u = u
      BY <1>2, <1>7, <1>10, <1>12
    <3>2. \A t \in Task : Abandoned(g, t) <=> t = g[y.cur].c.u
      BY ONLY <1>13, <3>1, OnlyAborts
    <3> QED BY ZenonT(30), <3>1, <3>2
  <2>3. \A t \in Task : to[t] = IF t = u THEN "none" ELSE at[t]
    BY <1>3, <1>6, <1>8
  <2> QED BY ZenonT(30), <1>2, <1>4, <1>7, <2>1, <2>2, <2>3 DEF Situated
<1>15. OnTurn(y, g, to)
  <2>1. \A t \in Task : to[t] = "ready" => at[t] = "ready"
    BY <1>3, <1>6, <1>8
  <2>2. Owed(y, to)
    BY ONLY <1>2, <1>7, <2>1 DEF Owed, NoneAbove
  <2>3. y.susp = 1 /\ to[y.cur] = "ready"
    BY <1>2, <1>4, <1>6, <1>7, <1>8
  <2> QED BY <2>2, <2>3, LockedTurn
<1>16. Heeds(y, g, to)
  <2>1. Undisturbed(x, at, y, to)
    BY <1>3, <1>6, <1>7, <1>8 DEF Undisturbed, Asleep
  <2>2. /\ Heeds(x, h, at) /\ (\A t \in Task \ {x.cur} : g[t] = h[t])
        /\ h[x.cur].pc # "taken" /\ g[x.cur].pc # "taken"
    BY ONLY <1>2, <1>10, <1>12
  <2> QED BY ONLY SMTT(30), <2>1, <2>2, HeedsStill
<1>17. Tally(y, m)
  BY <1>2, <1>6, <1>7 DEF Tally
<1> QED BY <1>2, <1>6, <1>11, <1>13, <1>14, <1>15, <1>16, <1>17 DEF KernelInv

(* The target of a delay that is being aborted is in no list, and stays.    *)
LEMMA TargetAborted ==
  ASSUME NEW x, NEW h, NEW m, NEW a, NEW at, KernelInv(x, h, m, a, at), h[x.cur].pc \in AbortPc,
         NEW u, u = h[x.cur].c.u
  PROVE  /\ u \in Task /\ u # x.cur /\ at[u] = "none" /\ m[u] # <<>>
         /\ \A t \in Task : Abandoned(h, t) <=> t = u
<1>1. h[x.cur].pc \in SuspPc \ {"resume"}
  BY DEF SuspPc, AbortPc
<1>2. /\ AppOK(a) /\ Situated(x, h, m, a, at) /\ Locking(x, h, a) /\ Threads(h, m, a)
      /\ x.cur \in Task /\ h[x.cur] \in ThreadState /\ Thread(h[x.cur], m, a.calls[x.cur]) /\ at[x.cur] = "ready"
  BY <1>1, InLock
<1>3. u \in Task
  BY <1>2 DEF ThreadState, Call
<1>4. \A t \in Task : Abandoned(h, t) <=> t = u
  BY <1>2, OnlyAborts
<1>5. at[u] = "none"
  BY <1>2, <1>3, <1>4 DEF Situated
<1>6. u \in Staying(a) \cup {x.cur}
  <2>1. h[x.cur].c.op = "AbortDelay"
    BY <1>2 DEF Thread, OpOf, AbortPc
  <2>2. CallOK(a, x.cur, h[x.cur].c)
    BY <1>2, <2>1, InOwnCall
  <2> QED BY <2>1, <2>2 DEF CallOK, Aimed
<1>7. u # x.cur
  BY ONLY <1>2, <1>5
<1> QED BY <1>2, <1>3, <1>4, <1>5, <1>6, <1>7 DEF Situated

LEMMA CallAbortsEvent ==
  ASSUME NEW x, NEW h, NEW m, NEW a, NEW at, KernelInv(x, h, m, a, at), h[x.cur].pc = "abortevent",
         NEW u, u = h[x.cur].c.u,
         NEW y, y = IF EventFree(x, u) THEN x ELSE [RemoveEvent(x, u) EXCEPT !.aborted[u] = TRUE],
         NEW g, g = [h EXCEPT ![x.cur].pc = "abortready", ![x.cur].to = "run"]
  PROVE  KernelInv(y, g, m, a, at)
<1>1. h[x.cur].pc \in SuspPc \ {"resume"} /\ h[x.cur].pc \in AbortPc
  BY DEF SuspPc, AbortPc
<1>2. /\ AppOK(a) /\ Sound(x, at) /\ Situated(x, h, m, a, at) /\ Locking(x, h, a)
      /\ Heeds(x, h, at) /\ Tally(x, m)
      /\ x.cur \in Task /\ h \in [Task -> ThreadState] /\ Threads(h, m, a) /\ Thread(h[x.cur], m, a.calls[x.cur])
      /\ h[x.cur] \in ThreadState
      /\ x.susp = 1 /\ Owed(x, at) /\ at[x.cur] = "ready" /\ x.pended <= MaxPended /\ h[x.cur].pc # "taken"
  BY <1>1, InLock
<1>3. u \in Task /\ at[u] = "none" /\ \A t \in Task : Abandoned(h, t) <=> t = u
  BY SMTT(30), <1>1, TargetAborted
<1>4. /\ Sound(y, at) /\ Same(x, y, {"pending", "aborted"}) /\ Range(y.pending) \subseteq Range(x.pending)
      /\ \A t \in Task \ {u} : t \in Range(x.pending) => t \in Range(y.pending)
  <2>1. CASE EventFree(x, u)
    <3>1. y = x
      BY <2>1
    <3> QED BY <1>2, <3>1 DEF Same
  <2>2. CASE ~EventFree(x, u)
    <3>1. y = [RemoveEvent(x, u) EXCEPT !.aborted[u] = TRUE]
      BY SMTT(30), <2>2
    <3>2. AbortsEvent(x, y, at, u)
      BY ONLY <1>2, <1>3, <3>1, EventAborted
    <3> QED BY <3>2 DEF AbortsEvent
  <2> QED BY ONLY <2>1, <2>2
<1>5. /\ y.cur = x.cur /\ y.susp = x.susp /\ y.ns = x.ns /\ y.nv = x.nv /\ y.pended = x.pended /\ y.dying = x.dying
      /\ y.ntasks = x.ntasks /\ y.ndying = x.ndying /\ y.prio = x.prio /\ y.ypend = x.ypend
  BY ZenonT(30), <1>4 DEF Same, Fields
<1>6. PICK p, q, e, w : Goes(h, g, x.cur, p, q, e, w) /\ p = "abortready" /\ q = "run"
  <2>1. "abortready" \in PC /\ "run" \in TO
    BY DEF PC, TO, SuspPc
  <2> QED BY <1>2, <2>1, Went
<1>7. g[x.cur].pc = p /\ g[x.cur].c = h[x.cur].c /\ \A t \in Task \ {x.cur} : g[t] = h[t]
  <2>1. Goes(h, g, x.cur, p, q, e, w)
    BY <1>6
  <2> QED BY ONLY <2>1, GoesFields
<1>8. Threads(g, m, a)
  <2>1. OpOf(p, h[x.cur].c.op)
    BY <1>2, <1>6 DEF Thread, OpOf, Simple
  <2> QED BY <1>2, <1>6, <2>1, Threaded
<1>9. g[x.cur].pc \in SuspPc /\ h[x.cur].pc \in SuspPc /\ g[x.cur].pc \in AbortPc /\ g[x.cur].pc # "taken"
  BY <1>1, <1>6, <1>7 DEF SuspPc, AbortPc
<1>10. Locking(y, g, a)
  <2>1. y.pended <= 2 * MaxPended
    BY ONLY <1>2, <1>5, PendedBound
  <2>3. Range(y.pending) \subseteq Range(x.pending) /\ (g[x.cur].pc # "resume" => y.pended <= MaxPended)
    BY ZenonT(30), <1>2, <1>4, <1>5
  <2> QED BY ONLY <1>2, <1>5, <1>7, <1>9, <2>1, <2>3, StillLocked
<1>11. Situated(y, g, m, a, at)
  <2>1. y.cur \in Task /\ g[y.cur].pc \in AbortPc /\ g[y.cur].c.u = u
    BY ZenonT(30), <1>2, <1>5, <1>7, <1>9
  <2>2. \A t \in Task : Abandoned(g, t) <=> t = g[y.cur].c.u
    BY ONLY <1>10, <2>1, OnlyAborts
  <2> QED BY ZenonT(30), <1>2, <1>3, <1>5, <2>1, <2>2 DEF Situated
<1>12. OnTurn(y, g, at)
  <2>1. Owed(y, at)
    BY ZenonT(30), <1>2, <1>5 DEF Owed, NoneAbove
  <2>2. y.susp = 1 /\ at[y.cur] = "ready"
    BY <1>2, <1>5
  <2> QED BY ZenonT(30), <2>1, <2>2, LockedTurn
<1>13. Heeds(y, g, at)
  <2>1. Undisturbed(x, at, y, at)
    BY ZenonT(30), <1>3, <1>4, <1>5 DEF Undisturbed, Asleep
  <2>2. /\ Heeds(x, h, at) /\ (\A t \in Task \ {x.cur} : g[t] = h[t])
        /\ h[x.cur].pc # "taken" /\ g[x.cur].pc # "taken"
    BY ONLY <1>2, <1>7, <1>9
  <2> QED BY ONLY SMTT(30), <2>1, <2>2, HeedsStill
<1>14. Tally(y, m)
  BY ONLY <1>2, <1>5 DEF Tally
<1> QED BY ZenonT(30), <1>2, <1>4, <1>8, <1>10, <1>11, <1>12, <1>13, <1>14 DEF KernelInv

LEMMA CallMakesReady ==
  ASSUME NEW x, NEW h, NEW m, NEW a, NEW at, KernelInv(x, h, m, a, at), h[x.cur].pc = "abortready",
         NEW u, u = h[x.cur].c.u, NEW z, z = prvAddTaskToReadyList(x, u),
         NEW y, y = [z EXCEPT !.ypend = z.ypend \/ Above(x, u)],
         NEW g, g = [h EXCEPT ![x.cur].pc = "resume", ![x.cur].to = "run"]
  PROVE  \E to : KernelInv(y, g, m, a, to)
<1>1. h[x.cur].pc \in SuspPc \ {"resume"} /\ h[x.cur].pc \in AbortPc
  BY DEF SuspPc, AbortPc
<1>2. /\ AppOK(a) /\ Sound(x, at) /\ Situated(x, h, m, a, at) /\ Locking(x, h, a)
      /\ Heeds(x, h, at) /\ Tally(x, m)
      /\ x.cur \in Task /\ h \in [Task -> ThreadState] /\ Threads(h, m, a) /\ Thread(h[x.cur], m, a.calls[x.cur])
      /\ h[x.cur] \in ThreadState
      /\ x.susp = 1 /\ Owed(x, at) /\ at[x.cur] = "ready" /\ x.pended <= MaxPended /\ h[x.cur].pc # "taken"
  BY <1>1, InLock
<1>3. u \in Task /\ u # x.cur /\ at[u] = "none" /\ m[u] # <<>> /\ \A t \in Task : Abandoned(h, t) <=> t = u
  BY <1>1, TargetAborted
<1>4. PICK to : AbortEnds(x, y, at, to, u)
  BY SMTT(30), <1>2, <1>3, AbortedReady
<1>5. Sound(y, to) /\ to = [at EXCEPT ![u] = "ready"] /\ Same(x, y, {"top", "ready", "ypend"}) /\ Owed(y, to)
  BY ONLY <1>2, <1>4 DEF AbortEnds
<1>6. /\ y.cur = x.cur /\ y.susp = x.susp /\ y.ns = x.ns /\ y.nv = x.nv /\ y.pended = x.pended /\ y.dying = x.dying
      /\ y.ntasks = x.ntasks /\ y.ndying = x.ndying /\ y.pending = x.pending
  BY <1>5 DEF Same, Fields
<1>7. at \in [Task -> Places]
  BY <1>2 DEF Sound, Shape, Listed
<1>8. \A t \in Task : to[t] = IF t = u THEN "ready" ELSE at[t]
  BY <1>3, <1>5, <1>7
<1>9. PICK p, q, e, w : Goes(h, g, x.cur, p, q, e, w) /\ p = "resume" /\ q = "run"
  <2>1. "resume" \in PC /\ "run" \in TO
    BY DEF PC, TO, SuspPc
  <2> QED BY <1>2, <2>1, Went
<1>10. g[x.cur].pc = p /\ g[x.cur].c = h[x.cur].c /\ \A t \in Task \ {x.cur} : g[t] = h[t]
  <2>1. Goes(h, g, x.cur, p, q, e, w)
    BY <1>9
  <2> QED BY ONLY <2>1, GoesFields
<1>11. Threads(g, m, a)
  <2>1. OpOf(p, h[x.cur].c.op) /\ OpOf(q, h[x.cur].c.op)
    BY <1>9, OpOfNone
  <2> QED BY <1>2, <1>9, <2>1, Threaded
<1>12. /\ g[x.cur].pc \in SuspPc /\ h[x.cur].pc \in SuspPc /\ g[x.cur].pc \notin AbortPc
       /\ g[x.cur].pc = "resume" /\ g[x.cur].pc # "taken"
  BY <1>1, <1>9, <1>10 DEF SuspPc, AbortPc
<1>13. Locking(y, g, a)
  <2>1. y.pended <= 2 * MaxPended
    BY ONLY <1>2, <1>6, PendedBound
  <2>2. Range(y.pending) \subseteq Range(x.pending) /\ (g[x.cur].pc # "resume" => y.pended <= MaxPended)
    BY ONLY <1>6, <1>12
  <2> QED BY ONLY <1>2, <1>6, <1>10, <1>12, <2>1, <2>2, StillLocked
<1>14. Situated(y, g, m, a, to)
  <2>1. \A t \in Task : ~Abandoned(g, t)
    <3>1. g[y.cur].pc \notin AbortPc
      BY <1>6, <1>12
    <3> QED BY ONLY <1>13, <3>1, NobodyAborts
  <2> QED BY <1>2, <1>3, <1>6, <1>8, <2>1 DEF Situated
<1>15. OnTurn(y, g, to)
  <2>1. y.susp = 1 /\ to[y.cur] = "ready"
    BY <1>2, <1>3, <1>6, <1>8
  <2> QED BY <1>5, <2>1, LockedTurn
<1>16. Heeds(y, g, to)
  <2>1. Undisturbed(x, at, y, to)
    BY <1>3, <1>6, <1>8 DEF Undisturbed, Asleep
  <2>2. /\ Heeds(x, h, at) /\ (\A t \in Task \ {x.cur} : g[t] = h[t])
        /\ h[x.cur].pc # "taken" /\ g[x.cur].pc # "taken"
    BY <1>2, <1>10, <1>12
  <2> QED BY ONLY <2>1, <2>2, HeedsStill
<1>17. Tally(y, m)
  BY <1>2, <1>6 DEF Tally
<1> QED BY ZenonT(30), <1>2, <1>5, <1>11, <1>13, <1>14, <1>15, <1>16, <1>17 DEF KernelInv
=============================================================================
