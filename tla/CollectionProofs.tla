-------------------------- MODULE CollectionProofs --------------------------
(***************************************************************************)
(* What the other proofs need of numbers, finite sets and sequences: least *)
(* numbers, and what a filter keeps of a sequence.                         *)
(***************************************************************************)
EXTENDS Filtering, FiniteSetTheorems, WellFoundedInduction, NaturalsInduction, TLAPS

(* A set of numbers has a least one.                                       *)
LEMMA SomeIsLeast ==
    ASSUME NEW T \in SUBSET Nat, T # {}
    PROVE  \E t \in T : \A y \in T : t <= y
<1> DEFINE R == OpToRel(<, Nat)
<1>1. IsWellFoundedOn(R, Nat)
  BY NatLessThanWellFounded, Zenon
<1>2. \A x, y \in Nat : y < x => <<y, x>> \in R
  BY DEF OpToRel
<1> HIDE DEF R
<1>3. PICK t \in T : \A y \in T : <<y, t>> \notin R
  BY <1>1, WFMin
<1>4. \A y \in T : ~ (y < t)
  BY <1>2, <1>3
<1> QED BY <1>4

(* The numbers up to one are finitely many.                                *)
LEMMA UpToIsFinite == \A k \in Nat : IsFiniteSet(1 .. k) /\ Cardinality(1 .. k) = k
BY FS_Interval

(* Ranks run from one to the number of positions, without a gap.           *)
LEMMA RanksAreOnto ==
    ASSUME NEW n \in Nat, NEW I \in SUBSET (1 .. n)
    PROVE  /\ IsFiniteSet(I) /\ Cardinality(I) \in Nat /\ Cardinality(I) <= n
           /\ \A i \in I : Rank(I, i) \in 1 .. Cardinality(I)
           /\ \A i, j \in I : Rank(I, i) = Rank(I, j) => i = j
           /\ \A r \in 1 .. Cardinality(I) : \E i \in I : Rank(I, i) = r
<1> DEFINE UpTo(i) == {k \in I : k <= i}
           c == Cardinality(I)
<1>1. IsFiniteSet(I) /\ c \in Nat /\ c <= n
  <2>1. IsFiniteSet(1 .. n) /\ Cardinality(1 .. n) = n
    BY UpToIsFinite
  <2>2. IsFiniteSet(I) /\ Cardinality(I) <= Cardinality(1 .. n)
    BY <2>1, FS_Subset
  <2> QED BY <2>1, <2>2, FS_CardinalityType
<1> HIDE DEF c
<1>2. \A i \in I : IsFiniteSet(UpTo(i)) /\ Cardinality(UpTo(i)) \in Nat /\ Cardinality(UpTo(i)) <= c
  <2>1. \A i \in I : UpTo(i) \in SUBSET I
    OBVIOUS
  <2> HIDE DEF UpTo
  <2> QED BY <1>1, <2>1, FS_Subset, FS_CardinalityType DEF c
<1>3. \A i \in I : Cardinality(UpTo(i)) # 0
  <2>1. \A i \in I : i \in UpTo(i)
    OBVIOUS
  <2> HIDE DEF UpTo
  <2> QED BY <1>2, <2>1, FS_EmptySet
<1>4. ASSUME NEW i \in I, NEW j \in I, i < j
      PROVE  Cardinality(UpTo(i)) < Cardinality(UpTo(j))
  <2>1. \A k \in I : k \in Nat
    OBVIOUS
  <2>2. i \in Nat /\ j \in Nat /\ ~(j <= i) /\ j <= j
    BY <1>4, <2>1
  <2>3. \A k \in I : k <= i => k <= j
    BY <1>4, <2>1, <2>2
  <2>4. UpTo(i) \in SUBSET UpTo(j) /\ j \in UpTo(j) /\ j \notin UpTo(i)
    BY <2>2, <2>3
  <2> HIDE DEF UpTo
  <2> QED BY <1>2, <2>4, FS_Subset
<1>5. \A i : Rank(I, i) = Cardinality(UpTo(i))
  BY DEF Rank
<1> HIDE DEF UpTo
<1>6. \A i \in I : Rank(I, i) \in 1 .. c
  BY <1>1, <1>2, <1>3, <1>5
<1>7. \A i, j \in I : Rank(I, i) = Rank(I, j) => i = j
  <2>1. \A i, j \in I : i < j \/ j < i \/ i = j
    OBVIOUS
  <2> QED BY <1>2, <1>4, <1>5, <2>1
<1> DEFINE f == [i \in I |-> Rank(I, i)]
<1>8. f \in Injection(I, 1 .. c)
  <2>1. f \in [I -> 1 .. c]
    BY <1>6
  <2>2. \A i, j \in I : f[i] = f[j] => i = j
    BY <1>7
  <2> HIDE DEF f
  <2> QED BY <2>1, <2>2 DEF Injection, IsInjective
<1>9. f \in Surjection(I, 1 .. c)
  <2>1. IsFiniteSet(1 .. c) /\ Cardinality(1 .. c) = c
    BY <1>1, UpToIsFinite
  <2> HIDE DEF f
  <2> QED BY <1>8, <2>1, FS_Injection DEF c
<1>10. \A r \in 1 .. c : \E i \in I : Rank(I, i) = r
  BY <1>9 DEF Surjection
<1> QED BY <1>1, <1>6, <1>7, <1>10 DEF c

(* What a filter keeps: some of the elements, each at a place of its own.  *)
LEMMA KeptElements ==
    ASSUME NEW S, NEW s \in Seq(S), NEW I \in SUBSET (DOMAIN s)
    PROVE  /\ AtPositions(s, I) \in Seq(S)
           /\ Len(AtPositions(s, I)) = Cardinality(I)
           /\ DOMAIN AtPositions(s, I) = 1 .. Cardinality(I)
           /\ Cardinality(I) \in Nat /\ Cardinality(I) <= Len(s)
           /\ \E e \in Injection(1 .. Cardinality(I), I) :
                 \A j \in 1 .. Cardinality(I) : AtPositions(s, I)[j] = s[e[j]]
           /\ \A i \in I : \E j \in 1 .. Cardinality(I) : AtPositions(s, I)[j] = s[i]
<1> DEFINE c == Cardinality(I)
           e == [j \in 1 .. c |-> CHOOSE i \in I : Rank(I, i) = j]
<1>1. Len(s) \in Nat /\ DOMAIN s = 1 .. Len(s) /\ \A i \in DOMAIN s : s[i] \in S
  OBVIOUS
<1>2. /\ c \in Nat /\ c <= Len(s)
      /\ \A i \in I : Rank(I, i) \in 1 .. c
      /\ \A i, j \in I : Rank(I, i) = Rank(I, j) => i = j
      /\ \A r \in 1 .. c : \E i \in I : Rank(I, i) = r
  <2>1. I \in SUBSET (1 .. Len(s))
    BY <1>1
  <2> QED BY <1>1, <2>1, RanksAreOnto
<1>3. AtPositions(s, I) = [j \in 1 .. c |-> s[e[j]]]
  BY DEF AtPositions
<1> HIDE DEF c
<1>4. \A j \in 1 .. c : e[j] \in I /\ Rank(I, e[j]) = j
  BY <1>2
<1>5. e \in Injection(1 .. c, I)
  <2>1. e = [j \in 1 .. c |-> e[j]]
    OBVIOUS
  <2> HIDE DEF e
  <2>2. e \in [1 .. c -> I]
    BY <1>4, <2>1
  <2>3. \A j, k \in 1 .. c : e[j] = e[k] => j = k
    BY <1>4
  <2> QED BY <2>2, <2>3 DEF Injection, IsInjective
<1> HIDE DEF e
<1>6. \A j \in 1 .. c : s[e[j]] \in S
  BY <1>1, <1>4
<1>7. AtPositions(s, I) \in Seq(S) /\ Len(AtPositions(s, I)) = c /\ DOMAIN AtPositions(s, I) = 1 .. c
  BY <1>2, <1>3, <1>6
<1>8. \A j \in 1 .. c : AtPositions(s, I)[j] = s[e[j]]
  BY <1>3
<1>9. \A i \in I : e[Rank(I, i)] = i
  BY <1>2, <1>4
<1>10. \A i \in I : \E j \in 1 .. c : AtPositions(s, I)[j] = s[i]
  BY <1>2, <1>8, <1>9
<1> QED BY <1>2, <1>5, <1>7, <1>8, <1>10 DEF c

(* The least and the greatest of the positions kept are kept first and     *)
(* last.                                                                   *)
LEMMA KeptEnds ==
    ASSUME NEW S, NEW s \in Seq(S), NEW I \in SUBSET (DOMAIN s), NEW i \in I
    PROVE  /\ (\A k \in I : i <= k) => AtPositions(s, I)[1] = s[i]
           /\ (\A k \in I : k <= i) => AtPositions(s, I)[Cardinality(I)] = s[i]
<1> DEFINE c == Cardinality(I)
<1>1. /\ I \in SUBSET (1 .. Len(s)) /\ Len(s) \in Nat
      /\ c \in Nat
      /\ \A k \in I : Rank(I, k) \in 1 .. c
      /\ \A j, k \in I : Rank(I, j) = Rank(I, k) => j = k
  <2>1. I \in SUBSET (1 .. Len(s)) /\ Len(s) \in Nat
    OBVIOUS
  <2> QED BY <2>1, RanksAreOnto
<1>2. \A r \in 1 .. c : Rank(I, i) = r => AtPositions(s, I)[r] = s[i]
  <2>1. \A r \in 1 .. c : AtPositions(s, I)[r] = s[CHOOSE k \in I : Rank(I, k) = r]
    BY DEF AtPositions
  <2> HIDE DEF c
  <2> QED BY <1>1, <2>1
<1>3. ASSUME \A k \in I : i <= k
      PROVE  Rank(I, i) = 1
  <2>1. {k \in I : k <= i} = {i}
    BY <1>1, <1>3
  <2> QED BY <2>1, FS_Singleton DEF Rank
<1>4. ASSUME \A k \in I : k <= i
      PROVE  Rank(I, i) = c
  <2>1. {k \in I : k <= i} = I
    BY <1>4
  <2> QED BY <2>1 DEF Rank
<1> HIDE DEF c
<1>5. Rank(I, i) \in 1 .. c
  BY <1>1
<1> QED BY <1>2, <1>3, <1>4, <1>5 DEF c
=============================================================================
