---------------------------- MODULE FoldProofs -----------------------------
(***************************************************************************)
(* What FoldLeft computes, step by step.  A fold is a recursive function,  *)
(* and the provers know of it only what is proved here by induction over   *)
(* the length of the sequence.  The step is the constant Op, so that a     *)
(* module that folds with an operator of its own instantiates this one.    *)
(***************************************************************************)
EXTENDS SequencesExt, WellFoundedInduction, NaturalsInduction, TLAPS

CONSTANT Op(_, _)

Fold(b, s) == FoldLeft(Op, b, s)

(* Induction over the natural numbers, for the set of those with a property. *)
LEMMA NatInd ==
  ASSUME NEW T \in SUBSET Nat, 0 \in T, \A n \in T : n + 1 \in T
  PROVE  Nat \subseteq T
<1> DEFINE D == Nat \ T
           R == {ss \in Nat \X Nat : ss[1] < ss[2]}
<1>1. SUFFICES ASSUME D # {} PROVE FALSE
  OBVIOUS
<1>2. IsWellFoundedOn(R, Nat)
  BY NatLessThanWellFounded, SMT DEF OpToRel
<1>3. PICK x \in D : \A y \in D : ~(<<y, x>> \in R)
  <2> HIDE DEF R
  <2> QED BY <1>1, <1>2, WFMin
<1>4. x # 0 /\ x - 1 \in D /\ x \in Nat
  BY <1>3
<1>5. <<x-1, x>> \in R
  BY <1>4
<1> QED BY <1>3, <1>4, <1>5

LEMMA MaxInt ==
  ASSUME NEW m \in Nat, NEW s \in SUBSET (1..m+1), m + 1 \in s
  PROVE  Max(s) = m + 1
<1>1. \A x \in s : (\A y \in s : x >= y) => x = m + 1
  OBVIOUS
<1>2. \A y \in s : m + 1 >= y
  OBVIOUS
<1> QED BY <1>1, <1>2 DEF Max

(* The intermediate results of a fold over s.                               *)
LEMMA FoldSteps ==
  ASSUME NEW base, NEW s, NEW n \in Nat, DOMAIN s = 1..n
  PROVE  \E it : /\ it[0] = base
                 /\ \A m \in 0..n - 1 : it[m + 1] = Op(it[m], s[m + 1])
                 /\ Fold(base, s) = it[n]
<1> DEFINE Step(u, g) == IF u = {} THEN base ELSE Op(g[u \ {Max(u)}], s[Max(u)])
           Rec(m, g) == g = [u \in SUBSET (1..m) |-> Step(u, g)]
           T == {m \in Nat : \E g : Rec(m, g)}
           iter == CHOOSE g : Rec(n, g)
<1>1. Fold(base, s) = iter[1..n]
  BY DEF Fold, FoldLeft, MapThenFoldSet
<1>2. 0 \in T
  <2> DEFINE g == [u \in SUBSET (1..0) |-> base]
  <2>1. \A u \in SUBSET (1..0) : u = {}
    OBVIOUS
  <2>2. Rec(0, g)
    BY <2>1
  <2> QED BY <2>2
<1>3. ASSUME NEW m \in T PROVE m + 1 \in T
  <2>1. PICK g : Rec(m, g)
    OBVIOUS
  <2> DEFINE h == [u \in SUBSET (1..m+1) |-> IF m + 1 \in u THEN Op(g[u \ {m + 1}], s[m + 1]) ELSE g[u]]
  <2>2. ASSUME NEW u \in SUBSET (1..m+1) PROVE h[u] = Step(u, h)
    <3>1. CASE m + 1 \in u
      <4>1. Max(u) = m + 1
        BY <3>1, MaxInt
      <4>2. u \ {m + 1} \in SUBSET (1..m) /\ m + 1 \notin (u \ {m + 1}) /\ u \ {m + 1} \in SUBSET (1..m+1)
        OBVIOUS
      <4>3. h[u \ {m + 1}] = g[u \ {m + 1}]
        BY <4>2
      <4> QED BY <3>1, <4>1, <4>3
    <3>2. CASE m + 1 \notin u
      <4>1. u \in SUBSET (1..m) /\ h[u] = g[u]
        BY <3>2
      <4>2. g[u] = Step(u, g)
        BY <4>1, <2>1
      <4>3. u # {} => u \ {Max(u)} \in SUBSET (1..m+1) /\ m + 1 \notin u \ {Max(u)}
        BY <3>2
      <4>4. u # {} => h[u \ {Max(u)}] = g[u \ {Max(u)}]
        BY <4>3
      <4> QED BY <4>1, <4>2, <4>4
    <3> QED BY <3>1, <3>2
  <2>3. Rec(m + 1, h)
    <3> HIDE DEF Step
    <3>1. h = [u \in SUBSET (1..m+1) |-> h[u]]
      OBVIOUS
    <3> HIDE DEF h
    <3> QED BY <2>2, <3>1
  <2> HIDE DEF Rec
  <2> QED BY <2>3
<1>4. n \in T
  <2> HIDE DEF T
  <2>1. T \in SUBSET Nat
    BY DEF T
  <2> QED BY <1>2, <1>3, <2>1, NatInd
<1>5. Rec(n, iter)
  <2> HIDE DEF Rec
  <2> QED BY <1>4
<1> DEFINE it == [m \in 0..n |-> iter[1..m]]
<1>6. it[0] = base
  <2>1. iter[{}] = base /\ 1..0 = {}
    <3> HIDE DEF iter
    <3>1. {} \in SUBSET (1..n) /\ 1..0 = {}
      OBVIOUS
    <3> QED BY <1>5, <3>1
  <2> HIDE DEF iter
  <2> QED BY <2>1
<1>7. ASSUME NEW m \in 0..n - 1 PROVE it[m + 1] = Op(it[m], s[m + 1])
  <2>1. 1..m + 1 # {} /\ 1..m+1 \in SUBSET (1..n) /\ (1..m+1) \ {m + 1} = 1..m
    OBVIOUS
  <2>2. Max(1..m+1) = m + 1
    BY MaxInt
  <2>3. iter[1..m+1] = Step(1..m+1, iter)
    <3> HIDE DEF Step, iter
    <3> QED BY <1>5, <2>1
  <2> HIDE DEF iter
  <2>4. it[m + 1] = iter[1..m+1] /\ it[m] = iter[1..m]
    OBVIOUS
  <2> HIDE DEF it
  <2> QED BY <2>1, <2>2, <2>3, <2>4
<1> HIDE DEF it
<1>8. Fold(base, s) = it[n]
  BY <1>1 DEF it
<1> QED BY <1>6, <1>7, <1>8
=============================================================================
