----------------------------- MODULE BasicLemmas -----------------------------
(***************************************************************************)
(* Facts about numbers and sequences, and about the loop of Where, that    *)
(* the proofs of the components share.  The induction theorems of the      *)
(* library take an operator as a parameter, which the provers cannot       *)
(* instantiate; the least element of a set of numbers is all the proofs    *)
(* here need, and induction on membership in a set follows from it.        *)
(***************************************************************************)
EXTENDS Integers, Sequences, FiniteSets, SequencesExt, TLAPS,
        NaturalsInduction, FiniteSetTheorems, SequenceTheorems, Where

(***************************************************************************)
(* Every set of natural numbers that is not empty has a least element.     *)
(***************************************************************************)
LEMMA LeastNumber ==
  ASSUME NEW S \in SUBSET Nat, S # {}
  PROVE  \E m \in S : \A k \in S : m <= k
<1>1. IsWellFoundedOn(OpToRel(<, Nat), Nat)
  BY NatLessThanWellFounded
<1>2. PICK m \in S : \A k \in S : ~(<<k, m>> \in OpToRel(<, Nat))
  BY <1>1, WFMin
<1>3. \A k \in S : ~(k < m)
  BY <1>2 DEF OpToRel
<1> QED
  BY <1>3

(***************************************************************************)
(* Induction: a set that has 0 and, with each number below n, the next one *)
(* has all numbers up to n.                                                *)
(***************************************************************************)
LEMMA InductionUpTo ==
  ASSUME NEW n \in Nat, NEW S, 0 \in S,
         \A i \in 0 .. n - 1 : i \in S => i + 1 \in S
  PROVE  0 .. n \subseteq S
<1> DEFINE Missing == {i \in 0 .. n : i \notin S}
<1> SUFFICES ASSUME Missing # {} PROVE FALSE
  OBVIOUS
<1>1. PICK m \in Missing : \A k \in Missing : m <= k
  <2>1. Missing \in SUBSET Nat
    OBVIOUS
  <2> HIDE DEF Missing
  <2> QED
    BY <2>1, LeastNumber
<1>2. m # 0 /\ m - 1 \in 0 .. n - 1 /\ m - 1 \notin Missing
  BY <1>1
<1> QED
  BY <1>1, <1>2

(***************************************************************************)
(* Min of a set of natural numbers is its least element.                   *)
(***************************************************************************)
LEMMA MinFacts ==
  ASSUME NEW S \in SUBSET Nat, S # {}
  PROVE  Min(S) \in S /\ \A k \in S : Min(S) <= k
BY LeastNumber DEF Min

(***************************************************************************)
(* Max of a bounded set of natural numbers is its greatest element.        *)
(***************************************************************************)
LEMMA MaxFacts ==
  ASSUME NEW n \in Nat, NEW S \in SUBSET (0 .. n), S # {}
  PROVE  Max(S) \in S /\ \A k \in S : k <= Max(S)
<1> DEFINE T == {n - k : k \in S}
<1>1. PICK m \in T : \A k \in T : m <= k
  <2>1. \A k \in S : n - k \in Nat
    OBVIOUS
  <2>2. T \in SUBSET Nat /\ T # {}
    BY <2>1
  <2> HIDE DEF T
  <2> QED
    BY <2>2, LeastNumber
<1>2. PICK x \in S : m = n - x
  BY <1>1
<1>3. \A k \in S : k <= x
  BY <1>1, <1>2
<1> QED
  BY <1>3 DEF Max

(***************************************************************************)
(* Appending to a sequence adds one element at its end.                    *)
(***************************************************************************)
LEMMA AppendFacts ==
  ASSUME NEW S, NEW s \in Seq(S), NEW e \in S
  PROVE  /\ Append(s, e) \in Seq(S)
         /\ Len(Append(s, e)) = Len(s) + 1
         /\ DOMAIN Append(s, e) = 1 .. Len(s) + 1
         /\ \A i \in DOMAIN s : Append(s, e)[i] = s[i]
         /\ Append(s, e)[Len(s) + 1] = e
         /\ ToSet(Append(s, e)) = ToSet(s) \cup {e}
         /\ IsPrefix(s, Append(s, e))
<1>1. /\ Append(s, e) \in Seq(S)
      /\ Len(Append(s, e)) = Len(s) + 1
      /\ DOMAIN Append(s, e) = 1 .. Len(s) + 1
      /\ DOMAIN s = 1 .. Len(s) /\ Len(s) \in Nat
      /\ \A i \in DOMAIN s : Append(s, e)[i] = s[i]
      /\ Append(s, e)[Len(s) + 1] = e
  OBVIOUS
<1>2. ToSet(Append(s, e)) = ToSet(s) \cup {e}
  <2>1. ASSUME NEW x \in ToSet(Append(s, e)) PROVE x \in ToSet(s) \cup {e}
    BY <1>1, <2>1 DEF ToSet
  <2>2. ASSUME NEW x \in ToSet(s) \cup {e} PROVE x \in ToSet(Append(s, e))
    BY <1>1, <2>2 DEF ToSet
  <2> QED
    BY <2>1, <2>2
<1>3. IsPrefix(s, Append(s, e))
  BY DEF IsPrefix
<1> QED
  BY <1>1, <1>2, <1>3

(***************************************************************************)
(* A set with no element, or with one, as a sequence.                      *)
(***************************************************************************)
LEMMA SetToSeqEmpty == SetToSeq({}) = <<>>
<1>1. Cardinality({}) = 0
  BY FS_EmptySet
<1>2. SetToSeq({}) = CHOOSE f \in [1 .. 0 -> {}] : IsInjective(f)
  BY <1>1 DEF SetToSeq
<1>3. <<>> \in [1 .. 0 -> {}] /\ IsInjective(<<>>)
  BY DEF IsInjective
<1>4. \A f \in [1 .. 0 -> {}] : f = <<>>
  OBVIOUS
<1> QED
  BY <1>2, <1>3, <1>4

LEMMA SetToSeqSingleton == ASSUME NEW x PROVE SetToSeq({x}) = <<x>>
<1>1. Cardinality({x}) = 1
  BY FS_Singleton
<1>2. SetToSeq({x}) = CHOOSE f \in [1 .. 1 -> {x}] : IsInjective(f)
  BY <1>1 DEF SetToSeq
<1>3. <<x>> \in [1 .. 1 -> {x}] /\ IsInjective(<<x>>)
  BY DEF IsInjective
<1>4. \A f \in [1 .. 1 -> {x}] : f = <<x>>
  OBVIOUS
<1> QED
  BY <1>2, <1>3, <1>4

(***************************************************************************)
(* What stands in a concatenation.                                         *)
(***************************************************************************)
LEMMA ConcatFacts ==
  ASSUME NEW S, NEW s \in Seq(S), NEW t \in Seq(S)
  PROVE  /\ s \o t \in Seq(S) /\ Len(s \o t) = Len(s) + Len(t)
         /\ DOMAIN (s \o t) = 1 .. Len(s) + Len(t)
         /\ \A i \in 1 .. Len(s) : (s \o t)[i] = s[i]
         /\ \A i \in 1 .. Len(t) : (s \o t)[Len(s) + i] = t[i]
         /\ ToSet(s \o t) = ToSet(s) \cup ToSet(t)
<1>1. /\ s \o t \in Seq(S) /\ Len(s \o t) = Len(s) + Len(t)
      /\ Len(s) \in Nat /\ Len(t) \in Nat
      /\ DOMAIN (s \o t) = 1 .. Len(s) + Len(t)
      /\ DOMAIN s = 1 .. Len(s) /\ DOMAIN t = 1 .. Len(t)
      /\ \A i \in 1 .. Len(s) : (s \o t)[i] = s[i]
  OBVIOUS
<1>2. \A i \in 1 .. Len(t) : (s \o t)[Len(s) + i] = t[i]
  BY <1>1
<1>3. ASSUME NEW x \in ToSet(s \o t) PROVE x \in ToSet(s) \cup ToSet(t)
  <2>1. PICK i \in 1 .. Len(s) + Len(t) : x = (s \o t)[i]
    BY <1>1 DEF ToSet
  <2>2. CASE i <= Len(s)
    BY <1>1, <2>1, <2>2 DEF ToSet
  <2>3. CASE i > Len(s)
    <3>1. i - Len(s) \in 1 .. Len(t) /\ i = Len(s) + (i - Len(s))
      BY <1>1, <2>3
    <3> QED
      BY <1>1, <1>2, <2>1, <3>1 DEF ToSet
  <2> QED
    BY <1>1, <2>2, <2>3
<1>4. ASSUME NEW x \in ToSet(s) \cup ToSet(t) PROVE x \in ToSet(s \o t)
  <2>1. CASE x \in ToSet(s)
    BY <1>1, <2>1 DEF ToSet
  <2>2. CASE x \in ToSet(t)
    <3>1. PICK i \in 1 .. Len(t) : x = t[i]
      BY <1>1, <2>2 DEF ToSet
    <3>2. Len(s) + i \in 1 .. Len(s) + Len(t)
      BY <1>1
    <3> QED
      BY <1>1, <1>2, <3>1, <3>2 DEF ToSet
  <2> QED
    BY <1>4, <2>1, <2>2
<1> QED
  BY <1>1, <1>2, <1>3, <1>4

\* One round of the recursion in MatchingRows, for the first len rows.
MatchingRound(q, s, len, f) ==
  [n \in 0 .. len |-> IF n = 0 THEN <<>>
                      ELSE IF Matches(q, s[n]) THEN Append(f[n - 1], s[n])
                      ELSE f[n - 1]]

(***************************************************************************)
(* The recursion in MatchingRows has a solution.                           *)
(***************************************************************************)
LEMMA MatchingRecursion ==
  ASSUME NEW q, NEW s, NEW len \in Nat
  PROVE  \E f : f = MatchingRound(q, s, len, f)
<1> DEFINE Solved == {m \in 0 .. len : \E f : f = MatchingRound(q, s, m, f)}
<1>1. 0 \in Solved
  <2> DEFINE f == [n \in 0 .. 0 |-> <<>>]
  <2>1. f = MatchingRound(q, s, 0, f)
    BY DEF MatchingRound
  <2>2. 0 \in 0 .. len
    OBVIOUS
  <2> HIDE DEF f
  <2> QED
    BY <2>1, <2>2
<1>2. ASSUME NEW i \in 0 .. len - 1, i \in Solved PROVE i + 1 \in Solved
  <2>1. PICK f : f = MatchingRound(q, s, i, f)
    BY <1>2
  <2> DEFINE last == IF Matches(q, s[i + 1]) THEN Append(f[i], s[i + 1]) ELSE f[i]
             g == [n \in 0 .. i + 1 |-> IF n = i + 1 THEN last ELSE f[n]]
  <2>2. ASSUME NEW n \in 0 .. i + 1
        PROVE  g[n] = IF n = 0 THEN <<>>
                      ELSE IF Matches(q, s[n]) THEN Append(g[n - 1], s[n])
                      ELSE g[n - 1]
    <3>1. CASE n = i + 1
      <4>1. n # 0 /\ n - 1 = i /\ i \in 0 .. i + 1 /\ i # i + 1
        BY <3>1
      <4>2. g[n] = last /\ g[n - 1] = f[i]
        BY <3>1, <4>1
      <4> QED
        BY <3>1, <4>1, <4>2
    <3>2. CASE n # i + 1
      <4>1. n \in 0 .. i /\ (n # 0 => n - 1 \in 0 .. i)
        BY <3>2
      <4>2. g[n] = f[n] /\ (n # 0 => g[n - 1] = f[n - 1])
        BY <3>2, <4>1
      <4>3. f[n] = IF n = 0 THEN <<>>
                   ELSE IF Matches(q, s[n]) THEN Append(f[n - 1], s[n])
                   ELSE f[n - 1]
        BY <2>1, <4>1 DEF MatchingRound
      <4> QED
        BY <4>2, <4>3
    <3> QED
      BY <3>1, <3>2
  <2>3. g = MatchingRound(q, s, i + 1, g)
    BY <2>2 DEF MatchingRound
  <2>4. i + 1 \in 0 .. len
    OBVIOUS
  <2> QED
    BY <2>3, <2>4
<1>3. len \in Solved
  <2> HIDE DEF Solved
  <2> QED
    BY <1>1, <1>2, InductionUpTo
<1> QED
  BY <1>3
=============================================================================
