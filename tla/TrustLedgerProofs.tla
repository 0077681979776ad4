-------------------------- MODULE TrustLedgerProofs --------------------------
(***************************************************************************)
(* Proofs about TrustLedger and MatterRecords, for every set of matters,   *)
(* actors, amounts and parties and every bound on the number of entries.   *)
(***************************************************************************)
EXTENDS MatterRecords, CollectionProofs, SequenceTheorems

----------------------------------------------------------------------------
(* Sums over finite sets, from the definition of SumFunctionOnSet.         *)

(* What holds of a set whenever it holds of the set without any one        *)
(* element holds of every finite set; G is the set of sets it holds of.    *)
LEMMA SubsetInduction ==
    ASSUME NEW S, IsFiniteSet(S), NEW G,
           \A s \in SUBSET S : (\A x \in s : s \ {x} \in G) => s \in G
    PROVE  SUBSET S \subseteq G
<1> DEFINE B == {s \in SUBSET S : s \notin G}
           T == {Cardinality(s) : s \in B}
<1> SUFFICES ASSUME B # {} PROVE FALSE
  OBVIOUS
<1>1. \A s \in B : IsFiniteSet(s) /\ Cardinality(s) \in Nat
  BY FS_Subset, FS_CardinalityType
<1>2. T \in SUBSET Nat /\ T # {}
  BY <1>1
<1>3. PICK t \in T : \A y \in T : t <= y
  <2> HIDE DEF T
  <2> QED BY <1>2, SomeIsLeast
<1>4. PICK b \in B : t = Cardinality(b)
  BY <1>3
<1>5. ASSUME NEW x \in b
      PROVE  b \ {x} \in G
  <2>1. Cardinality(b \ {x}) = Cardinality(b) - 1
    BY <1>1, <1>5, FS_RemoveElement
  <2>2. b \ {x} \in B => t <= Cardinality(b \ {x})
    BY <1>3
  <2>3. b \ {x} \in SUBSET S
    BY <1>4
  <2> QED BY <1>1, <1>4, <2>1, <2>2, <2>3
<1> QED BY <1>4, <1>5

(* The community module's fold as a function on the subsets of S: it takes *)
(* out an element of its own choosing until nothing is left.               *)
Pick(s) == CHOOSE x \in s : TRUE

Adds(v, S, f) ==
    f = [s \in SUBSET S |-> IF s = {} THEN 0 ELSE v[Pick(s)] + f[s \ {Pick(s)}]]

LEMMA SumIsFold ==
    ASSUME NEW v, NEW S
    PROVE  SumFunctionOnSet(v, S) = (CHOOSE f : Adds(v, S, f))[S]
BY Zenon DEF SumFunctionOnSet, FoldFunctionOnSet, MapThenFoldSet, Adds, Pick

LEMMA Picked == ASSUME NEW s, s # {} PROVE Pick(s) \in s
BY DEF Pick

(* Such a function exists on a finite set: it is built up by cardinality.  *)
LEMMA AddsExists ==
    ASSUME NEW v, NEW S, IsFiniteSet(S)
    PROVE  \E f : Adds(v, S, f)
<1> DEFINE Of(f, s) == IF s = {} THEN 0 ELSE v[Pick(s)] + f[s \ {Pick(s)}]
           Built(f) == [s \in SUBSET S |-> Of(f, s)]
           UpTo(f, n) == \A s \in SUBSET S : Cardinality(s) <= n => f[s] = Of(f, s)
           B == {n \in Nat : ~\E f : UpTo(f, n)}
<1>1. \A s \in SUBSET S : IsFiniteSet(s) /\ Cardinality(s) \in Nat /\ Cardinality(s) <= Cardinality(S)
  BY FS_Subset, FS_CardinalityType
<1>2. \A s \in SUBSET S : s # {} =>
         /\ Pick(s) \in s /\ s \ {Pick(s)} \in SUBSET S
         /\ Cardinality(s \ {Pick(s)}) = Cardinality(s) - 1
  BY <1>1, Picked, FS_RemoveElement
<1>3. ASSUME NEW n \in Nat, NEW f, UpTo(f, n)
      PROVE  UpTo(Built(f), n + 1)
  <2> SUFFICES ASSUME NEW s \in SUBSET S, Cardinality(s) <= n + 1
               PROVE  Built(f)[s] = Of(Built(f), s)
    OBVIOUS
  <2>1. Built(f)[s] = Of(f, s)
    OBVIOUS
  <2>2. CASE s # {}
    <3> DEFINE t == s \ {Pick(s)}
    <3>1. t \in SUBSET S /\ Cardinality(t) <= n
      BY <1>1, <1>2, <2>2
    <3>2. f[t] = Of(f, t) /\ Built(f)[t] = Of(f, t)
      BY <1>3, <3>1
    <3> HIDE DEF Built
    <3> QED BY <2>1, <2>2, <3>2
  <2>3. CASE s = {}
    BY <2>1, <2>3
  <2> QED BY <2>2, <2>3
<1>4. \E f : UpTo(f, 0)
  <2>1. UpTo([s \in SUBSET S |-> 0], 0)
    BY <1>1, FS_EmptySet
  <2> QED BY <2>1
<1>5. B = {}
  <2> HIDE DEF UpTo, Built
  <2> SUFFICES ASSUME B # {} PROVE FALSE
    OBVIOUS
  <2>1. PICK n \in B : \A k \in B : n <= k
    <3>1. B \in SUBSET Nat
      OBVIOUS
    <3> HIDE DEF B
    <3> QED BY <3>1, SomeIsLeast
  <2>2. n # 0 /\ n \in Nat
    BY <1>4, <2>1
  <2>3. n - 1 \in Nat /\ n - 1 \notin B /\ (n - 1) + 1 = n
    BY <2>1, <2>2
  <2>4. PICK f : UpTo(f, n - 1)
    BY <2>3
  <2>5. UpTo(Built(f), n)
    BY <1>3, <2>3, <2>4
  <2> QED BY <2>1, <2>5
<1>6. Cardinality(S) \in Nat
  BY FS_CardinalityType
<1>7. PICK f : UpTo(f, Cardinality(S))
  <2> HIDE DEF UpTo
  <2> QED BY <1>5, <1>6
<1>8. \A s \in SUBSET S : f[s] = Of(f, s)
  BY <1>1, <1>7
<1>9. \A s \in SUBSET S : Of(Built(f), s) = Of(f, s)
  <2>1. \A t \in SUBSET S : Built(f)[t] = f[t]
    BY <1>8
  <2> HIDE DEF Built
  <2> QED BY <1>2, <2>1
<1>10. Built(f) = [s \in SUBSET S |-> Of(Built(f), s)]
  <2> HIDE DEF Of
  <2> QED BY <1>9
<1>11. Adds(v, S, Built(f))
  <2> DEFINE g == Built(f)
  <2>1. g = [s \in SUBSET S |-> Of(g, s)]
    BY <1>10
  <2> HIDE DEF g
  <2>2. Adds(v, S, g)
    BY <2>1 DEF Adds
  <2> QED BY <2>2 DEF g
<1> QED BY <1>11

(* The sum over a set, whichever element is taken out of it first.         *)
LEMMA SumFacts ==
    ASSUME NEW S, IsFiniteSet(S), NEW v, \A x \in S : v[x] \in Int
    PROVE  /\ SumFunctionOnSet(v, {}) = 0
           /\ SumFunctionOnSet(v, S) \in Int
           /\ \A s \in SUBSET S : \A x \in s :
                 /\ SumFunctionOnSet(v, s) \in Int /\ SumFunctionOnSet(v, s \ {x}) \in Int
                 /\ SumFunctionOnSet(v, s) = v[x] + SumFunctionOnSet(v, s \ {x})
<1>1. ASSUME NEW s \in SUBSET S
      PROVE  Adds(v, s, CHOOSE f : Adds(v, s, f))
  <2>1. IsFiniteSet(s)
    BY FS_Subset
  <2> QED BY <2>1, AddsExists
<1>2. ASSUME NEW T \in SUBSET S, NEW f, Adds(v, T, f), NEW s \in SUBSET T
      PROVE  f[s] = IF s = {} THEN 0 ELSE v[Pick(s)] + f[s \ {Pick(s)}]
  BY <1>2 DEF Adds
<1>3. ASSUME NEW T \in SUBSET S, NEW f, Adds(v, T, f), NEW s \in SUBSET T
      PROVE  f[s] = SumFunctionOnSet(v, s)
  <2> DEFINE G == {r \in SUBSET T : f[r] = SumFunctionOnSet(v, r) }
      sum(r) == CHOOSE g : Adds(v, r, g)
  <2>1. ASSUME NEW g, NEW U \in SUBSET S, Adds(v, U, g), NEW r \in SUBSET (U \cap T)
        PROVE  f[r] = g[r]
    <3> DEFINE W == U \cap T
               H == {q \in SUBSET W : f[q] = g[q]}
    <3>1. ASSUME NEW q \in SUBSET W, \A x \in q : q \ {x} \in H
          PROVE  q \in H
      <4>1. CASE q = {}
        BY <1>2, <1>3, <2>1, <4>1
      <4>2. CASE q # {}
        <5>1. Pick(q) \in q /\ q \ {Pick(q)} \in H
          BY <3>1, <4>2, Picked
        <5>2. f[q \ {Pick(q)}] = g[q \ {Pick(q)}]
          BY <5>1
        <5>3. f[q] = v[Pick(q)] + f[q \ {Pick(q)}]
          <6>1. q \in SUBSET T
            OBVIOUS
          <6> QED BY <1>3, <4>2, <6>1 DEF Adds
        <5>4. g[q] = v[Pick(q)] + g[q \ {Pick(q)}]
          <6>1. q \in SUBSET U
            OBVIOUS
          <6> QED BY <1>2, <2>1, <4>2, <6>1
        <5> QED BY <5>2, <5>3, <5>4
      <4> QED BY <4>1, <4>2
    <3>2. IsFiniteSet(W)
      BY FS_Subset
    <3>3. SUBSET W \subseteq H
      <4> HIDE DEF H, W
      <4> QED BY <3>1, <3>2, SubsetInduction
    <3> QED BY <3>3
  <2>2. s \in SUBSET S /\ s \in SUBSET (s \cap T)
    OBVIOUS
  <2>3. f[s] = sum(s)[s]
    BY <1>1, <2>1, <2>2
  <2> QED BY <2>3, SumIsFold
<1> DEFINE F == CHOOSE f : Adds(v, S, f)
<1>4. \A s \in SUBSET S : F[s] = SumFunctionOnSet(v, s)
  BY <1>1, <1>3
<1>5. \A s \in SUBSET S :
         F[s] = IF s = {} THEN 0 ELSE v[Pick(s)] + F[s \ {Pick(s)}]
  BY <1>1, <1>2
<1> HIDE DEF F
<1>6. \A s \in SUBSET S : F[s] \in Int
  <2> DEFINE G == {s \in SUBSET S : F[s] \in Int}
  <2>1. ASSUME NEW s \in SUBSET S, \A x \in s : s \ {x} \in G
        PROVE  s \in G
    <3>1. CASE s # {}
      <4>1. Pick(s) \in s /\ F[s \ {Pick(s)}] \in Int /\ v[Pick(s)] \in Int
        BY <2>1, <3>1, Picked
      <4>2. F[s] = v[Pick(s)] + F[s \ {Pick(s)}]
        BY <1>5, <3>1
      <4> QED BY <4>1, <4>2
    <3>2. CASE s = {}
      <4>1. F[s] = 0
        BY <1>5, <3>2
      <4> QED BY <4>1
    <3> QED BY <3>1, <3>2
  <2>2. SUBSET S \subseteq G
    <3> HIDE DEF G
    <3> QED BY <2>1, SubsetInduction
  <2> QED BY <2>2
<1>7. \A s \in SUBSET S : \A x \in s : F[s] = v[x] + F[s \ {x}]
  <2> DEFINE G == {s \in SUBSET S : \A x \in s : F[s] = v[x] + F[s \ {x}]}
  <2>1. ASSUME NEW s \in SUBSET S, \A x \in s : s \ {x} \in G
        PROVE  s \in G
    <3> SUFFICES ASSUME NEW x \in s PROVE F[s] = v[x] + F[s \ {x}]
      OBVIOUS
    <3> DEFINE y == Pick(s)
    <3>1. y \in s /\ F[s] = v[y] + F[s \ {y}]
      BY <1>5, Picked
    <3> HIDE DEF y
    <3>2. CASE x = y
      BY <3>1, <3>2
    <3>3. CASE x # y
      <4> DEFINE r == (s \ {x}) \ {y}
      <4>1. (s \ {y}) \ {x} = r /\ r \in SUBSET S
        OBVIOUS
      <4>2. F[s \ {y}] = v[x] + F[r]
        BY <2>1, <3>1, <3>3, <4>1
      <4>3. F[s \ {x}] = v[y] + F[r]
        BY <2>1, <3>1, <3>3
      <4>4. F[r] \in Int /\ v[x] \in Int /\ v[y] \in Int
        BY <1>6, <3>1, <4>1
      <4> QED BY <3>1, <4>2, <4>3, <4>4
    <3> QED BY <3>2, <3>3
  <2>2. SUBSET S \subseteq G
    <3> HIDE DEF G
    <3> QED BY <2>1, SubsetInduction
  <2> QED BY <2>2
<1> QED BY <1>4, <1>5, <1>6, <1>7

(* Only the values on the set matter.                                      *)
LEMMA SumSame ==
    ASSUME NEW S, IsFiniteSet(S), NEW v, NEW w, \A x \in S : v[x] \in Int /\ w[x] = v[x]
    PROVE  SumFunctionOnSet(v, S) = SumFunctionOnSet(w, S)
<1> DEFINE G == {s \in SUBSET S : SumFunctionOnSet(v, s) = SumFunctionOnSet(w, s)}
<1>1. ASSUME NEW s \in SUBSET S, \A x \in s : s \ {x} \in G
      PROVE  s \in G
  <2>1. CASE s = {}
    BY <2>1, SumFacts
  <2>2. ASSUME NEW x \in s
        PROVE  s \in G
    <3>1. SumFunctionOnSet(v, s) = v[x] + SumFunctionOnSet(v, s \ {x})
      BY SumFacts
    <3>2. SumFunctionOnSet(w, s) = w[x] + SumFunctionOnSet(w, s \ {x})
      BY SumFacts
    <3> QED BY <1>1, <3>1, <3>2
  <2> QED BY <2>1, <2>2
<1>2. SUBSET S \subseteq G
  <2> HIDE DEF G
  <2> QED BY <1>1, SubsetInduction
<1> QED BY <1>2

(* Sums of what is not negative.                                           *)
LEMMA SumBounds ==
    ASSUME NEW S, IsFiniteSet(S), NEW v, \A x \in S : v[x] \in Nat
    PROVE  /\ SumFunctionOnSet(v, S) \in Nat
           /\ \A x \in S : v[x] <= SumFunctionOnSet(v, S)
<1> DEFINE G == {s \in SUBSET S : SumFunctionOnSet(v, s) \in Nat}
<1>1. ASSUME NEW s \in SUBSET S, \A x \in s : s \ {x} \in G
      PROVE  s \in G
  <2>1. CASE s = {}
    BY <2>1, SumFacts
  <2>2. ASSUME NEW x \in s
        PROVE  s \in G
    <3>1. SumFunctionOnSet(v, s) = v[x] + SumFunctionOnSet(v, s \ {x})
      BY SumFacts
    <3> QED BY <1>1, <3>1
  <2> QED BY <2>1, <2>2
<1>2. SUBSET S \subseteq G
  <2> HIDE DEF G
  <2> QED BY <1>1, SubsetInduction
<1>3. ASSUME NEW x \in S
      PROVE  v[x] <= SumFunctionOnSet(v, S)
  <2>1. SumFunctionOnSet(v, S) = v[x] + SumFunctionOnSet(v, S \ {x})
    BY SumFacts
  <2> QED BY <1>2, <2>1
<1> QED BY <1>2, <1>3

(* One more summand.                                                       *)
LEMMA SumOneMore ==
    ASSUME NEW S, IsFiniteSet(S), NEW x, x \notin S, NEW v, NEW w,
           \A y \in S : v[y] \in Int /\ w[y] = v[y], w[x] \in Int
    PROVE  SumFunctionOnSet(w, S \cup {x}) = SumFunctionOnSet(v, S) + w[x]
<1> DEFINE U == S \cup {x}
<1>1. IsFiniteSet(U) /\ U \ {x} = S /\ x \in U /\ U \in SUBSET U
  BY FS_AddElement
<1>2. \A y \in U : w[y] \in Int
  OBVIOUS
<1>3. SumFunctionOnSet(w, U) = w[x] + SumFunctionOnSet(w, S)
  <2> HIDE DEF U
  <2> QED BY <1>1, <1>2, SumFacts
<1>4. SumFunctionOnSet(w, S) = SumFunctionOnSet(v, S) /\ SumFunctionOnSet(v, S) \in Int
  BY SumSame, SumFacts
<1> QED BY <1>3, <1>4

(* One summand that changes.                                               *)
LEMMA SumOneChanged ==
    ASSUME NEW S, IsFiniteSet(S), NEW x \in S, NEW v, NEW w,
           \A y \in S : v[y] \in Int /\ w[y] \in Int,
           \A y \in S \ {x} : w[y] = v[y]
    PROVE  SumFunctionOnSet(w, S) = SumFunctionOnSet(v, S) + (w[x] - v[x])
<1> DEFINE R == S \ {x}
<1>1. IsFiniteSet(R) /\ S \in SUBSET S /\ \A y \in R : v[y] \in Int /\ w[y] = v[y]
  BY FS_Subset
<1>2. SumFunctionOnSet(w, R) = SumFunctionOnSet(v, R)
  <2> HIDE DEF R
  <2> QED BY <1>1, SumSame
<1>3. ASSUME NEW u, \A y \in S : u[y] \in Int
      PROVE  /\ SumFunctionOnSet(u, R) \in Int /\ u[x] \in Int
             /\ SumFunctionOnSet(u, S) = u[x] + SumFunctionOnSet(u, R)
  BY <1>1, <1>3, SumFacts
<1> HIDE DEF R
<1>4. /\ SumFunctionOnSet(v, R) \in Int /\ v[x] \in Int
      /\ SumFunctionOnSet(v, S) = v[x] + SumFunctionOnSet(v, R)
  BY <1>3
<1>5. /\ w[x] \in Int
      /\ SumFunctionOnSet(w, S) = w[x] + SumFunctionOnSet(w, R)
  BY <1>3
<1> QED BY <1>2, <1>4, <1>5

----------------------------------------------------------------------------
(* Lemmas on the last entry of a matter.                                   *)

(* Appending an entry of matter m makes it the last entry of m.            *)
LEMMA LastAfterOwnAppend ==
    ASSUME NEW S, NEW log \in Seq(S), NEW e, NEW m, e.matter = m
    PROVE  LastOnMatter(Append(log, e), m) = Len(log) + 1
<1> DEFINE L == Append(log, e)
           I == {i \in 1 .. Len(L) : L[i].matter = m}
<1>1. Len(L) = Len(log) + 1 /\ L[Len(log) + 1] = e /\ Len(log) \in Nat
  OBVIOUS
<1>2. Len(log) + 1 \in I /\ \A j \in I : Len(log) + 1 >= j
  BY <1>1
<1>3. \A x \in I : (\A y \in I : x >= y) => x = Len(log) + 1
  BY <1>1, <1>2
<1>4. Max(I) = Len(log) + 1
  <2> HIDE DEF I
  <2> QED BY <1>2, <1>3 DEF Max
<1>5. LastOnMatter(L, m) = IF I # {} THEN Max(I) ELSE 0
  BY DEF LastOnMatter, SelectLastInSeq
<1> QED
  <2> HIDE DEF I, L
  <2> QED BY <1>2, <1>4, <1>5 DEF L

(* Appending an entry of another matter leaves the last entry of m alone.  *)
LEMMA LastAfterOtherAppend ==
    ASSUME NEW S, NEW log \in Seq(S), NEW e, NEW m, e.matter # m
    PROVE  LastOnMatter(Append(log, e), m) = LastOnMatter(log, m)
<1> DEFINE L == Append(log, e)
<1>1. /\ Len(L) = Len(log) + 1 /\ L[Len(log) + 1] = e /\ Len(log) \in Nat
      /\ \A i \in 1 .. Len(log) : L[i] = log[i]
  OBVIOUS
<1>2. {i \in 1 .. Len(L) : L[i].matter = m} = {i \in 1 .. Len(log) : log[i].matter = m}
  BY <1>1
<1> QED
  <2> HIDE DEF L
  <2> QED BY <1>2 DEF LastOnMatter, SelectLastInSeq, L

(* The index of the last entry changes only for the appended entry's matter. *)
LEMMA BalanceAfterAppend ==
    ASSUME NEW log \in Seq(Entry), NEW e \in Entry, NEW m,
           LastOnMatter(log, m) \in 0 .. Len(log)
    PROVE  /\ LastOnMatter(Append(log, e), m) \in 0 .. Len(Append(log, e))
           /\ BalanceForMatter(Append(log, e), m) =
                 IF e.matter = m THEN e.balanceAfter ELSE BalanceForMatter(log, m)
<1> DEFINE L == Append(log, e)
<1>1. /\ Len(L) = Len(log) + 1 /\ L[Len(log) + 1] = e /\ Len(log) \in Nat
      /\ \A i \in 1 .. Len(log) : L[i] = log[i]
  OBVIOUS
<1>2. CASE e.matter = m
  <2>1. LastOnMatter(L, m) = Len(log) + 1
    BY <1>2, LastAfterOwnAppend
  <2> QED BY <1>1, <1>2, <2>1 DEF BalanceForMatter
<1>3. CASE e.matter # m
  <2>1. LastOnMatter(L, m) = LastOnMatter(log, m)
    BY <1>3, LastAfterOtherAppend
  <2> QED BY <1>1, <1>3, <2>1 DEF BalanceForMatter
<1> QED BY <1>2, <1>3

----------------------------------------------------------------------------
(* The inductive invariant.  The properties alone are not inductive: that  *)
(* an append keeps every running balance non-negative needs the balance    *)
(* the append starts from - the one on the matter's last entry - to be a   *)
(* number, for each matter, and that entry to be in the list; that an      *)
(* entry reverse() accepts is a movement needs every reversal it made to   *)
(* carry the type "reversal".                                              *)

BalancesDefined ==
    \A m \in Matters :
        /\ LastOnMatter(entries, m) \in 0 .. Len(entries)
        /\ BalanceForMatter(entries, m) \in Nat

ReversalsAreTyped ==
    \A i \in DOMAIN entries :
        entries[i].reversalOf # NoEntry => entries[i].type = "reversal"

(* Who recorded an entry, by its type, and that amounts are positive: what *)
(* an entry did to the balance follows from its type.                      *)
OutboundByAttorneys ==
    \A i \in DOMAIN entries :
        (entries[i].type \in OutboundTypes \/ entries[i].reversalOf # NoEntry)
            => entries[i].by \in Attorneys

AmountsPositive == \A i \in DOMAIN entries : entries[i].amount > 0

LedgerInv ==
    /\ TrustTypeOK
    /\ BalancesDefined
    /\ ReversalsAreTyped
    /\ NeverOverdrawn
    /\ ReversedAtMostOnce
    /\ OutboundByAttorneys
    /\ AmountsPositive

(* What the two operations append to the ledger, with the guards they      *)
(* passed: the shape every later step argues about.                        *)
Appended(m, type, amount, reversalOf, by, delta) ==
    entries' = Append(entries,
                  [matter |-> m, type |-> type, amount |-> amount,
                   reversalOf |-> reversalOf, by |-> by,
                   balanceAfter |-> BalanceForMatter(entries, m) + delta])

(* The empty ledger satisfies the invariant.                               *)
LEMMA InitLedgerInv == TrustInit => LedgerInv
<1> SUFFICES ASSUME TrustInit PROVE LedgerInv
  OBVIOUS
<1>1. entries = <<>> /\ DOMAIN entries = {} /\ Len(entries) = 0
  BY DEF TrustInit
<1>2. TrustTypeOK
  BY <1>1, AccessAssumption DEF TrustInit, AccessInit, TrustTypeOK, AccessTypeOK
<1>3. \A m : LastOnMatter(entries, m) = 0
  BY <1>1 DEF LastOnMatter, SelectLastInSeq
<1>4. BalancesDefined
  BY <1>1, <1>3 DEF BalancesDefined, BalanceForMatter
<1>5. /\ NeverOverdrawn /\ ReversedAtMostOnce
      /\ OutboundByAttorneys /\ AmountsPositive /\ ReversalsAreTyped
  BY <1>1 DEF NeverOverdrawn, ReversedAtMostOnce, OutboundByAttorneys, AmountsPositive,
              ReversalsAreTyped
<1> QED BY <1>2, <1>4, <1>5 DEF LedgerInv

(* What an entry does to a balance is an integer.                          *)
LEMMA DeltaIsInt ==
    ASSUME NEW type, NEW amount \in Int
    PROVE  SignedDelta(type, amount) \in Int
  BY DEF SignedDelta

(* One append preserves the invariant, whichever operation made it.        *)
LEMMA AppendPreserves ==
    ASSUME LedgerInv,
           NEW m \in Matters, NEW type \in RequestTypes, NEW amount \in Int,
           NEW r \in Nat, NEW by \in Actors, NEW delta \in Int,
           MayPost(m, delta), amount > 0,
           Appended(m, type, amount, r, by, delta),
           UNCHANGED accessVars,
           r # NoEntry => /\ r \in DOMAIN entries
                          /\ entries[r].type # "reversal"
                          /\ r \notin ReversedIn(entries)
                          /\ entries[r].matter = m /\ entries[r].amount = amount
                          /\ type = "reversal",
           type \in OutboundTypes \/ r # NoEntry => by \in Attorneys
    PROVE  LedgerInv'
<1> DEFINE e == [matter |-> m, type |-> type, amount |-> amount,
                 reversalOf |-> r, by |-> by,
                 balanceAfter |-> BalanceForMatter(entries, m) + delta]
           n == Len(entries)
<1>1. BalanceForMatter(entries, m) \in Nat /\ BalanceForMatter(entries, m) + delta \in Nat
  BY DEF LedgerInv, BalancesDefined, MayPost
<1>2. e \in Entry
  BY <1>1 DEF Entry
<1>3. entries \in Seq(Entry)
  BY DEF LedgerInv, TrustTypeOK
<1>4. entries' = Append(entries, e)
  BY DEF Appended
<1> HIDE DEF e
<1>5. /\ n \in Nat
      /\ DOMAIN entries = 1 .. n /\ DOMAIN entries' = 1 .. (n + 1)
      /\ Len(entries') = n + 1
      /\ entries'[n + 1] = e
      /\ \A i \in 1 .. n : entries'[i] = entries[i]
  BY <1>2, <1>3, <1>4
<1>6. TrustTypeOK'
  <2>1. entries' \in Seq(Entry)
    BY <1>2, <1>3, <1>4
  <2>2. AccessTypeOK'
    BY DEF LedgerInv, TrustTypeOK, AccessTypeOK, accessVars
  <2> QED BY <2>1, <2>2 DEF TrustTypeOK
<1>7. BalancesDefined'
  <2> SUFFICES ASSUME NEW x \in Matters
               PROVE  /\ LastOnMatter(entries', x) \in 0 .. Len(entries')
                      /\ BalanceForMatter(entries', x) \in Nat
    BY DEF BalancesDefined
  <2>1. /\ LastOnMatter(entries, x) \in 0 .. Len(entries)
        /\ BalanceForMatter(entries, x) \in Nat
    BY DEF LedgerInv, BalancesDefined
  <2>2. e.balanceAfter \in Nat
    BY <1>1 DEF e
  <2> QED BY <1>2, <1>3, <1>4, <2>1, <2>2, BalanceAfterAppend
<1>8. NeverOverdrawn'
  <2>1. e.balanceAfter >= 0
    BY <1>1 DEF e
  <2> QED BY <1>5, <2>1 DEF LedgerInv, NeverOverdrawn
<1>9. ReversedAtMostOnce'
  <2> SUFFICES ASSUME NEW i \in 1 .. (n + 1), entries'[i].reversalOf # NoEntry
               PROVE  LET q == entries'[i].reversalOf
                      IN  /\ q \in 1 .. (i - 1)
                          /\ entries'[q].type # "reversal"
                          /\ entries'[q].matter = entries'[i].matter
                          /\ entries'[q].amount = entries'[i].amount
                          /\ \A j \in 1 .. (n + 1) : entries'[j].reversalOf = q => j = i
    BY <1>5 DEF ReversedAtMostOnce
  <2>1. e.reversalOf = r /\ e.matter = m /\ e.amount = amount
    BY DEF e
  <2>2. CASE i = n + 1
    <3>1. r # NoEntry /\ r \in 1 .. n /\ entries'[i] = e
      BY <1>5, <2>1, <2>2
    <3>2. \A j \in 1 .. n : entries[j].reversalOf # r
      BY <1>5, <3>1 DEF ReversedIn
    <3> QED BY <1>5, <2>1, <2>2, <3>1, <3>2
  <2>3. CASE i \in 1 .. n
    <3>1. entries'[i] = entries[i]
      BY <1>5, <2>3
    <3> DEFINE q == entries[i].reversalOf
    <3>2. /\ q \in 1 .. (i - 1) /\ q # NoEntry
          /\ entries[q].type # "reversal"
          /\ entries[q].matter = entries[i].matter
          /\ entries[q].amount = entries[i].amount
          /\ \A j \in 1 .. n : entries[j].reversalOf = q => j = i
      BY <1>5, <2>3, <3>1 DEF LedgerInv, ReversedAtMostOnce
    <3>3. q \in ReversedIn(entries)
      BY <1>5, <2>3, <3>2 DEF ReversedIn
    <3>4. e.reversalOf # q
      BY <2>1, <3>2, <3>3
    <3>5. entries'[q] = entries[q]
      BY <1>5, <2>3, <3>2
    <3> HIDE DEF q
    <3>6. \A j \in 1 .. (n + 1) : entries'[j].reversalOf = q => j = i
      BY <1>5, <3>2, <3>4
    <3> QED BY <3>1, <3>2, <3>5, <3>6 DEF q
  <2> QED BY <1>5, <2>2, <2>3
<1>10. OutboundByAttorneys'
  <2>1. e.type = type /\ e.reversalOf = r /\ e.by = by
    BY DEF e
  <2> QED BY <1>5, <2>1 DEF LedgerInv, OutboundByAttorneys
<1>11. ReversalsAreTyped'
  <2>1. e.type = type /\ e.reversalOf = r
    BY DEF e
  <2> QED BY <1>5, <2>1 DEF LedgerInv, ReversalsAreTyped
<1>12. AmountsPositive'
  <2>1. e.amount > 0
    BY DEF e
  <2> QED BY <1>5, <2>1 DEF LedgerInv, AmountsPositive
<1> QED BY <1>6, <1>7, <1>8, <1>9, <1>10, <1>11, <1>12 DEF LedgerInv

(* Every step of the ledger keeps the invariant.                           *)
LEMMA NextLedgerInv == LedgerInv /\ [TrustNext]_trustVars => LedgerInv'
<1> SUFFICES ASSUME LedgerInv, [TrustNext]_trustVars
             PROVE  LedgerInv'
  OBVIOUS
<1>t. TrustTypeOK /\ entries \in Seq(Entry)
  BY DEF LedgerInv, TrustTypeOK
<1>0. ASSUME UNCHANGED entries, AccessTypeOK'
      PROVE  LedgerInv'
  BY <1>0 DEF LedgerInv, TrustTypeOK, BalancesDefined, NeverOverdrawn, ReversedAtMostOnce,
              OutboundByAttorneys, AmountsPositive, ReversalsAreTyped
<1>1. ASSUME NEW actor \in Actors, NEW m \in Matters, NEW type \in RequestTypes,
             NEW amount \in Amounts, RecordEntry(actor, m, type, amount)
      PROVE  LedgerInv'
  <2>1. amount \in Int /\ SignedDelta(type, amount) \in Int
    BY TrustAssumption, DeltaIsInt
  <2>2. /\ type \in OutboundTypes => actor \in Attorneys
        /\ MayPost(m, SignedDelta(type, amount)) /\ amount > 0
        /\ Appended(m, type, amount, NoEntry, actor, SignedDelta(type, amount))
        /\ UNCHANGED accessVars
    BY <1>1 DEF RecordEntry, LedgerRecord, AppendEntry, Appended
  <2> QED BY <2>1, <2>2, AppendPreserves DEF NoEntry
<1>2. ASSUME NEW actor \in Actors, NEW m \in Matters, NEW i \in DOMAIN entries,
             ReverseEntry(actor, m, i)
      PROVE  LedgerInv'
  <2> DEFINE d == -SignedDelta(entries[i].type, entries[i].amount)
  <2>1. /\ i \in Nat /\ i # NoEntry
        /\ entries[i].type \in RequestTypes /\ entries[i].amount \in Int
        /\ entries[i].amount > 0
    <3>1. i \in 1 .. Len(entries) /\ entries[i] \in Entry
      BY <1>t
    <3>2. entries[i].amount > 0
      BY DEF LedgerInv, AmountsPositive
    <3> QED BY <3>1, <3>2 DEF Entry, NoEntry
  <2>2. d \in Int /\ "reversal" \in RequestTypes
    BY <2>1, DeltaIsInt DEF RequestTypes, UncheckedTypes
  <2>3. /\ actor \in Attorneys /\ entries[i].matter = m
        /\ entries[i].type # "reversal" /\ i \notin ReversedIn(entries)
        /\ MayPost(m, d)
        /\ Appended(m, "reversal", entries[i].amount, i, actor, d)
        /\ UNCHANGED accessVars
    BY <1>2 DEF ReverseEntry, LedgerReverse, AppendEntry, Appended
  <2> HIDE DEF d
  <2> QED BY <2>1, <2>2, <2>3, AppendPreserves
<1>3. ASSUME StaffAccessNext, UNCHANGED entries
      PROVE  LedgerInv'
  <2>1. AccessTypeOK'
    BY <1>t, <1>3 DEF TrustTypeOK, AccessTypeOK, StaffAccessNext, AssignMatter,
                      UnassignMatter
  <2> QED BY <1>0, <1>3, <2>1
<1>4. ASSUME UNCHANGED trustVars
      PROVE  LedgerInv'
  <2>1. AccessTypeOK'
    BY <1>t, <1>4 DEF TrustTypeOK, AccessTypeOK, trustVars, accessVars
  <2> QED BY <1>0, <1>4, <2>1 DEF trustVars
<1> QED BY <1>1, <1>2, <1>3, <1>4 DEF TrustNext

(* Every reachable ledger satisfies the inductive invariant.               *)
THEOREM LedgerInvariant == TrustSpec => []LedgerInv
<1> QED BY InitLedgerInv, NextLedgerInv, PTL DEF TrustSpec

(* Type correctness: every entry names a matter, an actor and a position.  *)
THEOREM TrustTypeCorrect == TrustSpec => []TrustTypeOK
<1>1. LedgerInv => TrustTypeOK
  BY DEF LedgerInv
<1> QED BY <1>1, LedgerInvariant, PTL

(* No matter is ever overdrawn, whatever the requests and whoever sends    *)
(* them (the no-overdraw rule of TrustLedger.record).                      *)
THEOREM LedgerNeverOverdrawn == TrustSpec => []NeverOverdrawn
<1>1. LedgerInv => NeverOverdrawn
  BY DEF LedgerInv
<1> QED BY <1>1, LedgerInvariant, PTL

(* Money is put back at most once per entry (TrustLedger.reverse).         *)
THEOREM EntriesReversedAtMostOnce == TrustSpec => []ReversedAtMostOnce
<1>1. LedgerInv => ReversedAtMostOnce
  BY DEF LedgerInv
<1> QED BY <1>1, LedgerInvariant, PTL

(* What lowered a balance was recorded by an attorney, or under a type the *)
(* route lets through unchecked, whoever is assigned to the matter and     *)
(* whenever that changes (TrustService.record and reverse).                *)
THEOREM LedgerLoweredByAttorneys == TrustSpec => []LoweredByAttorneys
<1>1. LedgerInv => LoweredByAttorneys
  <2> SUFFICES ASSUME LedgerInv, NEW i \in DOMAIN entries,
                      Effect(entries, entries[i]) < 0, entries[i].by \notin Attorneys
               PROVE  entries[i].reversalOf = NoEntry /\ entries[i].type \in UncheckedTypes
    BY DEF LoweredByAttorneys
  <2>1. entries[i].reversalOf = NoEntry /\ entries[i].type \notin OutboundTypes
    BY DEF LedgerInv, OutboundByAttorneys
  <2>2. /\ entries[i].type \in RequestTypes
        /\ entries[i].amount \in Int /\ entries[i].amount > 0
    <3>1. entries[i] \in Entry
      BY DEF LedgerInv, TrustTypeOK
    <3> QED BY <3>1 DEF Entry, LedgerInv, AmountsPositive
  <2>3. SignedDelta(entries[i].type, entries[i].amount) < 0
    BY <2>1 DEF Effect
  <2>4. entries[i].type # "deposit"
    BY <2>2, <2>3 DEF SignedDelta
  <2> QED BY <2>1, <2>2, <2>4 DEF RequestTypes, UncheckedTypes
<1> QED BY <1>1, LedgerInvariant, PTL

----------------------------------------------------------------------------
(* The total of the balances is the sum of the movements.                  *)

(* One append adds its movement to both sums, whichever operation made it. *)
LEMMA AppendAddsUp ==
    ASSUME LedgerInv, LedgerTotalIsEveryMovement,
           NEW m \in Matters, NEW type \in RequestTypes, NEW amount \in Int,
           NEW r \in 0 .. Len(entries), NEW by \in Actors, NEW delta \in Int,
           Appended(m, type, amount, r, by, delta),
           delta = IF r = NoEntry THEN SignedDelta(type, amount)
                   ELSE -SignedDelta(entries[r].type, entries[r].amount)
    PROVE  LedgerTotalIsEveryMovement'
<1> DEFINE e == [matter |-> m, type |-> type, amount |-> amount,
                 reversalOf |-> r, by |-> by,
                 balanceAfter |-> BalanceForMatter(entries, m) + delta]
           n == Len(entries)
           D == 1 .. n
           seen == MattersSeen
           moves == [i \in D |-> Effect(entries, entries[i])]
           moved == [i \in D \cup {n + 1} |-> Effect(entries', entries'[i])]
           held == [x \in seen |-> BalanceForMatter(entries, x)]
           holds == [x \in seen \cup {m} |-> BalanceForMatter(entries', x)]
<1>1. entries \in Seq(Entry) /\ BalancesDefined /\ ReversedAtMostOnce
  BY DEF LedgerInv, TrustTypeOK
<1>2. /\ BalanceForMatter(entries, m) \in Nat
      /\ \A x \in Matters : LastOnMatter(entries, x) \in 0 .. n /\ BalanceForMatter(entries, x) \in Nat
  BY <1>1 DEF BalancesDefined
<1>3. /\ e.matter = m /\ e.type = type /\ e.amount = amount /\ e.reversalOf = r
      /\ e.balanceAfter = BalanceForMatter(entries, m) + delta
  OBVIOUS
<1>4. entries' = Append(entries, e)
  BY DEF Appended
<1> HIDE DEF e
<1>5. /\ n \in Nat /\ D = DOMAIN entries /\ D \cup {n + 1} = DOMAIN entries'
      /\ entries'[n + 1] = e /\ n + 1 \notin D
      /\ \A i \in D : entries'[i] = entries[i] /\ entries[i] \in Entry
  BY <1>1, <1>4
<1>6. \A i \in D : moves[i] \in Int /\ moved[i] = moves[i]
  <2> SUFFICES ASSUME NEW i \in D
               PROVE  /\ Effect(entries, entries[i]) \in Int
                      /\ Effect(entries', entries'[i]) = Effect(entries, entries[i])
    OBVIOUS
  <2>1. /\ entries[i].amount \in Int /\ entries'[i] = entries[i]
        /\ entries[i].reversalOf # NoEntry => entries[i].reversalOf \in D
    BY <1>1, <1>5 DEF Entry, ReversedAtMostOnce
  <2>2. \A j \in D : entries[j].amount \in Int /\ entries'[j] = entries[j]
    BY <1>5 DEF Entry
  <2> QED BY <2>1, <2>2 DEF Effect, SignedDelta
<1>7. moved[n + 1] = delta
  <2>1. r # NoEntry => r \in D /\ entries'[r] = entries[r]
    BY <1>5 DEF NoEntry
  <2> QED BY <1>3, <1>5, <2>1 DEF Effect
<1>8. SumFunctionOnSet(moved, D \cup {n + 1}) = SumFunctionOnSet(moves, D) + delta
  <2> HIDE DEF moves, moved
  <2>1. IsFiniteSet(D) /\ n + 1 \notin D /\ moved[n + 1] \in Int
    <3>1. IsFiniteSet(D)
      <4> HIDE DEF n
      <4> QED BY <1>5, UpToIsFinite, Zenon
    <3> HIDE DEF D, n
    <3>2. delta \in Int
      OBVIOUS
    <3> QED BY <1>5, <1>7, <3>1, <3>2, Zenon
  <2> DEFINE last == n + 1
  <2>2. last = n + 1
    OBVIOUS
  <2> HIDE DEF D, n, last
  <2>3. SumFunctionOnSet(moved, D \cup {last}) = SumFunctionOnSet(moves, D) + moved[last]
    <3>1. IsFiniteSet(D) /\ last \notin D /\ moved[last] \in Int
      BY <2>1, <2>2, Zenon
    <3>2. \A i \in D : moves[i] \in Int /\ moved[i] = moves[i]
      BY <1>6
    <3> QED BY <3>1, <3>2, SumOneMore, Zenon
  <2> QED BY <1>7, <2>2, <2>3, Zenon
<1>9. /\ seen \subseteq Matters /\ IsFiniteSet(seen)
      /\ MattersSeen' = seen \cup {m}
  <2>1. seen = {entries[i].matter : i \in D}
    BY <1>5 DEF MattersSeen
  <2>2. IsFiniteSet(seen)
    <3>1. IsFiniteSet(1 .. n)
      <4> HIDE DEF n
      <4> QED BY <1>5, UpToIsFinite, Zenon
    <3> DEFINE f == [i \in 1 .. n |-> entries[i].matter]
    <3>2. seen = {f[i] : i \in 1 .. n}
      BY <2>1
    <3>3. f \in Surjection(1 .. n, seen)
      BY <3>2 DEF Surjection
    <3> HIDE DEF f, seen
    <3> QED BY <3>1, <3>3, FS_Surjection DEF ExistsSurjection
  <2>3. seen \subseteq Matters
    BY <1>5, <2>1 DEF Entry
  <2>4. MattersSeen' = seen \cup {m}
    BY <1>3, <1>5, <2>1 DEF MattersSeen
  <2> QED BY <2>2, <2>3, <2>4
<1>10. \A x \in Matters : BalanceForMatter(entries', x) =
          IF x = m THEN BalanceForMatter(entries, m) + delta ELSE BalanceForMatter(entries, x)
  <2>1. e \in Entry
    BY <1>2 DEF Entry, e
  <2> QED BY <1>1, <1>2, <1>3, <1>4, <2>1, BalanceAfterAppend
<1>11. SumFunctionOnSet(holds, seen \cup {m}) = SumFunctionOnSet(held, seen) + delta
  <2>1. CASE m \in seen
    <3>1. seen \cup {m} = seen
      BY <2>1
    <3>2. /\ \A x \in seen : held[x] \in Int /\ holds[x] \in Int
          /\ \A x \in seen \ {m} : holds[x] = held[x]
          /\ holds[m] - held[m] = delta
      BY <1>2, <1>9, <1>10, <2>1
    <3> HIDE DEF held, holds, seen
    <3>3. SumFunctionOnSet(holds, seen) = SumFunctionOnSet(held, seen) + (holds[m] - held[m])
      BY <1>9, <2>1, <3>2, SumOneChanged
    <3>4. SumFunctionOnSet(holds, seen) = SumFunctionOnSet(held, seen) + delta
      BY <3>2, <3>3
    <3> QED BY <3>1, <3>4, Zenon
  <2>2. CASE m \notin seen
    <3>1. BalanceForMatter(entries, m) = 0
      <4>1. {i \in 1 .. Len(entries) : entries[i].matter = m} = {}
        BY <1>5, <2>2 DEF MattersSeen
      <4>2. LastOnMatter(entries, m) = 0
        BY <4>1 DEF LastOnMatter, SelectLastInSeq
      <4> QED BY <4>2 DEF BalanceForMatter
    <3>2. /\ \A x \in seen : held[x] \in Int /\ holds[x] = held[x]
          /\ holds[m] = delta
      BY <1>2, <1>9, <1>10, <2>2, <3>1
    <3> HIDE DEF held, holds, seen
    <3>3. /\ IsFiniteSet(seen) /\ holds[m] \in Int
          /\ \A x \in seen : held[x] \in Int /\ holds[x] = held[x]
      BY <1>9, <3>2
    <3>4. SumFunctionOnSet(holds, seen \cup {m}) = SumFunctionOnSet(held, seen) + holds[m]
      BY <2>2, <3>3, SumOneMore, Zenon
    <3> QED BY <3>2, <3>4
  <2> QED BY <2>1, <2>2
<1>12. SumFunctionOnSet(held, seen) = SumFunctionOnSet(moves, D)
  BY <1>5 DEF LedgerTotalIsEveryMovement, LedgerTotal, SumFunction
<1>13. /\ LedgerTotal' = SumFunctionOnSet(holds, seen \cup {m})
       /\ SumFunction([i \in DOMAIN entries' |-> Effect(entries', entries'[i])])
             = SumFunctionOnSet(moved, D \cup {n + 1})
  BY <1>5, <1>9 DEF LedgerTotal, SumFunction
<1> QED BY <1>8, <1>11, <1>12, <1>13 DEF LedgerTotalIsEveryMovement

(* An empty ledger holds nothing.                                          *)
LEMMA EmptyAddsUp == TrustInit => LedgerTotalIsEveryMovement
<1> SUFFICES ASSUME TrustInit PROVE LedgerTotalIsEveryMovement
  OBVIOUS
<1>1. DOMAIN entries = {}
  BY DEF TrustInit
<1>2. MattersSeen = {}
  BY <1>1 DEF MattersSeen
<1>3. \A v : SumFunctionOnSet(v, {}) = 0
  BY FS_EmptySet, SumFacts
<1> QED BY <1>1, <1>2, <1>3 DEF LedgerTotalIsEveryMovement, LedgerTotal, SumFunction

(* Recording and reversing keep the two sums equal, and so does every step.*)
LEMMA RecordAddsUp ==
    ASSUME LedgerInv, LedgerTotalIsEveryMovement,
           NEW by \in Actors, NEW m \in Matters, NEW type \in RequestTypes,
           NEW amount \in Int, LedgerRecord(by, m, type, amount)
    PROVE  LedgerTotalIsEveryMovement'
<1>1. Len(entries) \in Nat
  BY DEF LedgerInv, TrustTypeOK
<1>2. SignedDelta(type, amount) \in Int /\ NoEntry \in 0 .. Len(entries)
  BY <1>1, DeltaIsInt DEF NoEntry
<1>3. Appended(m, type, amount, NoEntry, by, SignedDelta(type, amount))
  BY DEF LedgerRecord, AppendEntry, Appended
<1> QED BY <1>2, <1>3, AppendAddsUp

LEMMA ReverseAddsUp ==
    ASSUME LedgerInv, LedgerTotalIsEveryMovement,
           NEW by \in Actors, NEW i \in DOMAIN entries, LedgerReverse(by, i)
    PROVE  LedgerTotalIsEveryMovement'
<1> DEFINE m == entries[i].matter
           d == -SignedDelta(entries[i].type, entries[i].amount)
<1>1. /\ i \in 0 .. Len(entries) /\ i # NoEntry
      /\ entries[i].amount \in Int /\ m \in Matters
  <2>1. i \in 1 .. Len(entries) /\ entries[i] \in Entry
    BY DEF LedgerInv, TrustTypeOK
  <2> QED BY <2>1 DEF Entry, NoEntry
<1>2. d \in Int /\ "reversal" \in RequestTypes
  BY <1>1, DeltaIsInt DEF RequestTypes, UncheckedTypes
<1>3. Appended(m, "reversal", entries[i].amount, i, by, d)
  BY DEF LedgerReverse, AppendEntry, Appended
<1>4. d = IF i = NoEntry THEN SignedDelta("reversal", entries[i].amount)
          ELSE -SignedDelta(entries[i].type, entries[i].amount)
  BY <1>1
<1> HIDE DEF d, m
<1> QED BY <1>1, <1>2, <1>3, <1>4, AppendAddsUp

LEMMA StepAddsUp ==
    LedgerInv /\ LedgerTotalIsEveryMovement /\ [TrustNext]_trustVars
        => LedgerTotalIsEveryMovement'
<1> SUFFICES ASSUME LedgerInv, LedgerTotalIsEveryMovement, [TrustNext]_trustVars
             PROVE  LedgerTotalIsEveryMovement'
  OBVIOUS
<1>1. CASE UNCHANGED entries
  BY <1>1 DEF LedgerTotalIsEveryMovement, LedgerTotal, MattersSeen
<1>2. ASSUME NEW actor \in Actors, NEW m \in Matters, NEW type \in RequestTypes,
             NEW amount \in Amounts, RecordEntry(actor, m, type, amount)
      PROVE  LedgerTotalIsEveryMovement'
  BY <1>2, RecordAddsUp, TrustAssumption DEF RecordEntry
<1>3. ASSUME NEW actor \in Actors, NEW m \in Matters, NEW i \in DOMAIN entries,
             ReverseEntry(actor, m, i)
      PROVE  LedgerTotalIsEveryMovement'
  BY <1>3, ReverseAddsUp DEF ReverseEntry
<1> QED BY <1>1, <1>2, <1>3 DEF TrustNext, trustVars

(* The ledger side of a reconciliation, the sum of the last balances, is   *)
(* the sum of every movement (TrustLedger.totalBalanceCents).              *)
THEOREM LedgerAddsUp == TrustSpec => []LedgerTotalIsEveryMovement
<1> QED BY EmptyAddsUp, StepAddsUp, LedgerInvariant, PTL DEF TrustSpec

----------------------------------------------------------------------------
(* The refinement: what an append does to the account's three variables.   *)

(* Appending an entry moves the balance of its own matter only.            *)
LEMMA FundsAfterAppend ==
    ASSUME LedgerInv,
           NEW m \in Matters, NEW type \in RequestTypes, NEW amount \in Int,
           NEW r \in Nat, NEW by \in Actors, NEW delta \in Int,
           MayPost(m, delta),
           Appended(m, type, amount, r, by, delta)
    PROVE  /\ BalanceForMatter(entries, m) + delta >= 0
           /\ [x \in Matters |-> BalanceForMatter(entries', x)] =
                 [[x \in Matters |-> BalanceForMatter(entries, x)]
                    EXCEPT ![m] = @ + delta]
<1> DEFINE e == [matter |-> m, type |-> type, amount |-> amount,
                 reversalOf |-> r, by |-> by,
                 balanceAfter |-> BalanceForMatter(entries, m) + delta]
<1>1. BalanceForMatter(entries, m) \in Nat /\ BalanceForMatter(entries, m) + delta \in Nat
  BY DEF LedgerInv, BalancesDefined, MayPost
<1>2. e \in Entry /\ entries \in Seq(Entry) /\ entries' = Append(entries, e)
  BY <1>1 DEF Entry, LedgerInv, TrustTypeOK, Appended
<1>3. e.matter = m /\ e.balanceAfter = BalanceForMatter(entries, m) + delta
  OBVIOUS
<1> HIDE DEF e
<1>4. \A x \in Matters : LastOnMatter(entries, x) \in 0 .. Len(entries)
  BY DEF LedgerInv, BalancesDefined
<1>5. \A x \in Matters :
        BalanceForMatter(entries', x) =
          IF x = m THEN BalanceForMatter(entries, m) + delta ELSE BalanceForMatter(entries, x)
  BY <1>2, <1>3, <1>4, BalanceAfterAppend
<1> DEFINE F == [x \in Matters |-> BalanceForMatter(entries, x)]
           G == [x \in Matters |-> BalanceForMatter(entries', x)]
<1>6. /\ F = [x \in Matters |-> F[x]] /\ G = [x \in Matters |-> G[x]]
      /\ \A x \in Matters : F[x] = BalanceForMatter(entries, x)
      /\ \A x \in Matters : G[x] = BalanceForMatter(entries', x)
  OBVIOUS
<1>7. \A x \in Matters : G[x] = IF x = m THEN F[m] + delta ELSE F[x]
  BY <1>5, <1>6
<1>8. G = [F EXCEPT ![m] = @ + delta]
  <2> HIDE DEF F, G
  <2> QED BY <1>6, <1>7
<1> QED BY <1>1, <1>8

(* Recording an entry is a movement of the trust account.                  *)
LEMMA RecordImplementsMove ==
    ASSUME LedgerInv,
           NEW by \in Actors, NEW m \in Matters, NEW type \in RequestTypes,
           NEW amount \in Int, LedgerRecord(by, m, type, amount)
    PROVE  /\ amount > 0 /\ SignedDelta(type, amount) \in {amount, -amount}
           /\ \E id \in 1 .. MaxEntries : Account!Move(id, m, SignedDelta(type, amount))
<1> DEFINE n == Len(entries)
           delta == SignedDelta(type, amount)
<1>1. /\ amount \in Int /\ amount > 0 /\ delta \in Int
      /\ delta = amount \/ delta = -amount
  BY DEF LedgerRecord, SignedDelta
<1>2. /\ MayPost(m, delta)
      /\ Appended(m, type, amount, NoEntry, by, delta)
  BY DEF LedgerRecord, AppendEntry, Appended
<1> HIDE DEF delta
<1>3. /\ BalanceForMatter(entries, m) + delta >= 0
      /\ [x \in Matters |-> BalanceForMatter(entries', x)] =
            [[x \in Matters |-> BalanceForMatter(entries, x)] EXCEPT ![m] = @ + delta]
  <2>1. NoEntry \in Nat
    BY DEF NoEntry
  <2> QED BY <1>1, <1>2, <2>1, FundsAfterAppend
<1>4. /\ n \in Nat /\ DOMAIN entries = 1 .. n /\ DOMAIN entries' = 1 .. (n + 1)
      /\ entries'[n + 1].matter = m /\ entries'[n + 1].type = type
      /\ entries'[n + 1].amount = amount /\ entries'[n + 1].reversalOf = NoEntry
      /\ \A i \in 1 .. n : entries'[i] = entries[i]
      /\ n < MaxEntries
  BY <1>2 DEF LedgerInv, TrustTypeOK, Appended, MayPost
<1> HIDE DEF n
<1>5. Movements' = Movements \cup {n + 1} /\ n + 1 \notin Movements
  BY <1>4 DEF Movements
<1>6. ReversedIn(entries') = ReversedIn(entries)
  BY <1>4 DEF ReversedIn
<1>7. n + 1 \in 1 .. MaxEntries
  BY <1>1, <1>4, TrustAssumption
<1>8. [i \in Movements |->
         [matter |-> entries[i].matter, delta |-> SignedDelta(entries[i].type, entries[i].amount)]]' =
      [k \in Movements \cup {n + 1} |->
         IF k = n + 1 THEN [matter |-> m, delta |-> delta]
         ELSE [i \in Movements |->
                 [matter |-> entries[i].matter,
                  delta |-> SignedDelta(entries[i].type, entries[i].amount)]][k]]
  BY <1>4, <1>5 DEF Movements, delta
<1>9. Account!Move(n + 1, m, delta)
  BY <1>3, <1>5, <1>6, <1>8 DEF Account!Move, Account!Adjust
<1> QED BY <1>1, <1>7, <1>9 DEF delta

(* Reversing an entry undoes the movement it names.                        *)
LEMMA ReverseImplementsUndo ==
    ASSUME LedgerInv,
           NEW by \in Actors, NEW i \in DOMAIN entries, LedgerReverse(by, i)
    PROVE  i \in Movements /\ Account!Undo(i)
<1> DEFINE n == Len(entries)
           m == entries[i].matter
           delta == SignedDelta(entries[i].type, entries[i].amount)
<1>0. /\ entries \in Seq(Entry) /\ n \in Nat /\ i \in 1 .. n /\ entries[i] \in Entry
  BY DEF LedgerInv, TrustTypeOK
<1>1. /\ entries[i].amount \in Int /\ i \in Nat /\ i # NoEntry
      /\ m \in Matters /\ entries[i].type # "reversal" /\ i \notin ReversedIn(entries)
  BY <1>0 DEF Entry, NoEntry, LedgerReverse
<1>2. /\ MayPost(m, -delta)
      /\ Appended(m, "reversal", entries[i].amount, i, by, -delta)
  BY DEF LedgerReverse, AppendEntry, Appended
<1>3. delta \in Int /\ -delta \in Int
  BY <1>1, DeltaIsInt
<1>d. delta = SignedDelta(entries[i].type, entries[i].amount)
  OBVIOUS
<1> HIDE DEF delta
<1>4. /\ BalanceForMatter(entries, m) + (-delta) >= 0
      /\ [x \in Matters |-> BalanceForMatter(entries', x)] =
            [[x \in Matters |-> BalanceForMatter(entries, x)] EXCEPT ![m] = @ + (-delta)]
  <2>1. "reversal" \in RequestTypes
    BY DEF RequestTypes, UncheckedTypes
  <2> QED BY <1>1, <1>2, <1>3, <2>1, FundsAfterAppend
<1>5. /\ DOMAIN entries = 1 .. n /\ DOMAIN entries' = 1 .. (n + 1)
      /\ entries'[n + 1].reversalOf = i
      /\ \A k \in 1 .. n : entries'[k] = entries[k]
  BY <1>0, <1>2 DEF Appended
<1>6. i \in Movements
  BY <1>1 DEF LedgerInv, ReversalsAreTyped, Movements
<1> HIDE DEF n
<1>7. Movements' = Movements
  BY <1>0, <1>1, <1>5 DEF Movements
<1>8. ReversedIn(entries') = ReversedIn(entries) \cup {i}
  BY <1>0, <1>1, <1>5 DEF ReversedIn
<1> DEFINE moves == [k \in Movements |->
                       [matter |-> entries[k].matter,
                        delta |-> SignedDelta(entries[k].type, entries[k].amount)]]
<1>9. moves' = moves
  BY <1>0, <1>5, <1>7 DEF Movements
<1>10. DOMAIN moves = Movements /\ moves[i].matter = m /\ moves[i].delta = delta
  BY <1>1, <1>6, <1>d
<1>11. Account!Undo(i)
  BY <1>1, <1>4, <1>6, <1>8, <1>9, <1>10 DEF Account!Undo, Account!Adjust
<1> QED BY <1>6, <1>11

(* The empty ledger is an account on which nothing happened.               *)
LEMMA EmptyAccount == TrustInit => Account!Init
<1> SUFFICES ASSUME TrustInit PROVE Account!Init
  OBVIOUS
<1>1. entries = <<>> /\ DOMAIN entries = {} /\ Len(entries) = 0
  BY DEF TrustInit
<1>2. \A m : BalanceForMatter(entries, m) = 0
  BY <1>1 DEF BalanceForMatter, LastOnMatter, SelectLastInSeq
<1>3. Movements = {} /\ ReversedIn(entries) = {}
  BY <1>1 DEF Movements, ReversedIn
<1> QED BY <1>2, <1>3 DEF Account!Init

(* The ledger implements the trust account: each matter's funds never go   *)
(* negative, move only by one recorded movement on that matter, and a      *)
(* reversal undoes exactly one movement, at most once.                     *)
THEOREM LedgerImplementsTrustAccount == TrustSpec => ImplementsTrustAccount
<1>1. LedgerInv /\ [TrustNext]_trustVars => [Account!Next]_Account!acctVars
  <2> SUFFICES ASSUME LedgerInv, [TrustNext]_trustVars
               PROVE  Account!Next \/ UNCHANGED Account!acctVars
    OBVIOUS
  <2>1. CASE UNCHANGED entries
    BY <2>1 DEF Account!acctVars, Movements
  <2>2. CASE TrustNext /\ entries' # entries
    <3>1. ASSUME NEW actor \in Actors, NEW m \in Matters, NEW type \in RequestTypes,
                 NEW amount \in Amounts, RecordEntry(actor, m, type, amount)
          PROVE  Account!Next
      <4>1. amount \in Int /\ LedgerRecord(actor, m, type, amount)
        BY <3>1, TrustAssumption DEF RecordEntry
      <4> DEFINE delta == SignedDelta(type, amount)
      <4>2. /\ amount > 0 /\ delta \in {amount, -amount}
            /\ \E id \in 1 .. MaxEntries : Account!Move(id, m, delta)
        BY <4>1, RecordImplementsMove
      <4> HIDE DEF delta
      <4>3. delta \in {a \in Amounts : a > 0} \cup {-a : a \in {b \in Amounts : b > 0}}
        BY <4>2
      <4> QED BY <4>2, <4>3 DEF Account!Next
    <3>2. ASSUME NEW actor \in Actors, NEW m \in Matters, NEW i \in DOMAIN entries,
                 ReverseEntry(actor, m, i)
          PROVE  Account!Next
      <4>1. i \in Movements /\ Account!Undo(i)
        BY <3>2, ReverseImplementsUndo DEF ReverseEntry
      <4> QED BY <4>1 DEF Account!Next
    <3> QED BY <2>2, <3>1, <3>2 DEF TrustNext
  <2> QED BY <2>1, <2>2 DEF trustVars
<1> QED BY <1>1, EmptyAccount, LedgerInvariant, PTL DEF TrustSpec, ImplementsTrustAccount, Account!Spec

----------------------------------------------------------------------------
(* Matters beside the ledger.                                              *)

(* The requests about matters only read the ledger.                        *)
LEMMA MatterStepsLedger == [MatterNext]_matterVars => [TrustNext]_trustVars
BY DEF MatterNext, matterVars, EditMatter, CloseMatter, ReopenMatter

(* What is proved of the ledger holds of the matters' system as well.      *)
THEOREM MattersKeepTheLedger == MatterSpec => TrustSpec
<1>1. MatterInit => TrustInit
  BY DEF MatterInit
<1> QED BY <1>1, MatterStepsLedger, PTL DEF MatterSpec, TrustSpec

(* ClosedWhenEmpty is not inductive: what a later edit inherits from a     *)
(* file - its note, its retention date, the time it was closed - must      *)
(* belong to a closing, and only an attorney's close() sets them.          *)
FileSound(m) ==
    /\ matters[m].status # "closed" =>
          ~matters[m].noted /\ ~matters[m].retained /\ matters[m].closedAt = NotClosed
    /\ matters[m].status = "closed" => matters[m].closedAt \in 0 .. Len(entries)
    /\ matters[m].noted \/ matters[m].retained => BalanceAt(m, matters[m].closedAt) = 0

FilesSound == \A m \in Matters : OnFile(m) => FileSound(m)

MatterInv == LedgerInv /\ Len(entries) <= MaxEntries /\ MatterTypeOK /\ FilesSound

LEMMA InitMatterInv == MatterInit => MatterInv
<1> SUFFICES ASSUME MatterInit PROVE MatterInv
  OBVIOUS
<1>1. LedgerInv /\ entries = <<>> /\ matters = [m \in Matters |-> NoRecord]
  BY InitLedgerInv DEF MatterInit, TrustInit
<1>2. MatterTypeOK /\ FilesSound
  BY <1>1 DEF MatterTypeOK, FilesSound, OnFile, LedgerInv
<1> QED BY <1>1, <1>2, TrustAssumption DEF MatterInv

(* The ledger only grows, and what it said before it still says.           *)
LEMMA LedgerGrows ==
    ASSUME MatterInv, [TrustNext]_trustVars
    PROVE  /\ LedgerInv' /\ Len(entries) \in Nat /\ Len(entries') \in Nat
           /\ Len(entries) <= Len(entries') /\ Len(entries') <= MaxEntries
           /\ \A m, n : n \in 0 .. Len(entries) => BalanceAt(m, n)' = BalanceAt(m, n)'
           /\ \A n \in 0 .. Len(entries) : SubSeq(entries', 1, n) = SubSeq(entries, 1, n)
<1>1. LedgerInv' /\ entries \in Seq(Entry) /\ entries' \in Seq(Entry)
  BY NextLedgerInv DEF MatterInv, LedgerInv, TrustTypeOK
<1>2. \/ entries' = entries
      \/ Len(entries) < MaxEntries /\ \E e : entries' = Append(entries, e)
  BY DEF TrustNext, trustVars, RecordEntry, ReverseEntry, LedgerRecord, LedgerReverse,
         AppendEntry, MayPost
<1>3. /\ Len(entries) \in Nat /\ Len(entries') \in Nat /\ Len(entries) <= Len(entries')
      /\ Len(entries') <= MaxEntries
      /\ \A i \in 1 .. Len(entries) : entries'[i] = entries[i]
  BY <1>1, <1>2, TrustAssumption DEF MatterInv
<1>4. ASSUME NEW n \in 0 .. Len(entries)
      PROVE  SubSeq(entries', 1, n) = SubSeq(entries, 1, n)
  <2>1. /\ n \in 0 .. Len(entries') /\ n \in 0 .. Len(entries)
        /\ \A i \in 1 .. n : entries'[i] = entries[i]
    BY <1>3
  <2>2. SubSeq(entries', 1, n) = Restrict(entries', 1 .. n)
    BY <1>1, <2>1, SubSeqRestrict
  <2>3. SubSeq(entries, 1, n) = Restrict(entries, 1 .. n)
    BY <1>1, SubSeqRestrict
  <2> QED BY <2>1, <2>2, <2>3 DEF Restrict
<1> QED BY <1>1, <1>3, <1>4

(* What a closed file's balance was when it was closed does not change.    *)
LEMMA FilesStay ==
    ASSUME MatterInv, [TrustNext]_trustVars, NEW m \in Matters, OnFile(m),
           matters'[m] = matters[m]
    PROVE  FileSound(m)'
<1>1. FileSound(m)
  BY DEF MatterInv, FilesSound
<1>2. matters[m].status = "closed" => matters[m].closedAt \in 0 .. Len(entries')
  BY <1>1, LedgerGrows DEF FileSound
<1>3. matters[m].noted \/ matters[m].retained => BalanceAt(m, matters[m].closedAt)' = 0
  BY <1>1, LedgerGrows DEF FileSound, BalanceAt
<1> QED BY <1>1, <1>2, <1>3 DEF FileSound

(* What upsert makes of a record.                                          *)
LEMMA UpsertSound ==
    ASSUME MatterInv, UNCHANGED trustVars, NEW m \in Matters,
           NEW status \in MatterStatuses, NEW parties \in PartyLists \cup {Unsent},
           NEW noted \in BOOLEAN, NEW retained \in BOOLEAN,
           Upsert(m, status, parties, noted, retained),
           noted \/ retained =>
              /\ status = "closed" /\ matters[m].status # "closed"
              /\ BalanceForMatter(entries, m) <= 0
    PROVE  MatterInv'
<1> DEFINE old == IF OnFile(m) THEN matters[m]
                  ELSE [status |-> "open", parties |-> {}, closedAt |-> NotClosed,
                        noted |-> FALSE, retained |-> FALSE]
           new == matters'[m]
<1>1. /\ LedgerInv /\ entries' = entries /\ LedgerInv' /\ TrustTypeOK'
      /\ Len(entries) \in Nat /\ Len(entries) <= MaxEntries /\ MaxEntries \in Nat
      /\ matters \in [Matters -> Record \cup {NoRecord}]
  BY NextLedgerInv, TrustAssumption
     DEF MatterInv, MatterTypeOK, LedgerInv, TrustTypeOK, trustVars
<1>2. old \in Record
  <2>1. CASE OnFile(m)
    BY <1>1, <2>1 DEF OnFile
  <2>2. CASE ~OnFile(m)
    BY <1>1, <2>2, MatterAssumption DEF Record, MatterStatuses, NotClosed
  <2> QED BY <2>1, <2>2
<1>3. /\ status # Unsent
      /\ new = [status   |-> status,
                parties  |-> IF parties = Unsent THEN old.parties ELSE parties,
                closedAt |-> IF status # "closed" THEN NotClosed
                             ELSE IF old.closedAt # NotClosed THEN old.closedAt
                             ELSE Len(entries),
                noted    |-> status = "closed" /\ (noted \/ old.noted),
                retained |-> status = "closed" /\ (retained \/ old.retained)]
      /\ \A x \in Matters \ {m} : matters'[x] = matters[x]
      /\ DOMAIN matters' = Matters
  BY <1>1, MatterAssumption DEF Upsert, MatterStatuses
<1>4. /\ old.status # "closed" => ~old.noted /\ ~old.retained /\ old.closedAt = NotClosed
      /\ old.status = "closed" => old.closedAt \in 0 .. Len(entries)
      /\ old.noted \/ old.retained => BalanceAt(m, old.closedAt) = 0
      /\ matters[m].status # "closed" => old.status # "closed"
  <2>1. CASE OnFile(m)
    BY <2>1 DEF MatterInv, FilesSound, FileSound
  <2>2. CASE ~OnFile(m)
    BY <2>2
  <2> QED BY <2>1, <2>2
<1> HIDE DEF old
<1>5. new \in Record /\ new # NoRecord
  BY <1>1, <1>2, <1>3 DEF Record, NotClosed, NoRecord, MatterStatuses
<1>6. NotClosed \notin 0 .. Len(entries) /\ Len(entries) \in 0 .. Len(entries)
  BY <1>1 DEF NotClosed
<1>7. /\ new.status # "closed" => ~new.noted /\ ~new.retained /\ new.closedAt = NotClosed
      /\ new.status = "closed" => new.closedAt \in 0 .. Len(entries)
      /\ new.noted \/ new.retained => BalanceAt(m, new.closedAt) = 0
  <2>1. new.status = "closed" => new.closedAt \in 0 .. Len(entries)
    BY <1>3, <1>4, <1>6
  <2>2. new.status # "closed" => ~new.noted /\ ~new.retained /\ new.closedAt = NotClosed
    BY <1>3
  <2>3. CASE noted \/ retained
    <3>1. BalanceForMatter(entries, m) = 0
      BY <1>1, <2>3 DEF LedgerInv, BalancesDefined
    <3>2. SubSeq(entries, 1, Len(entries)) = entries
      BY <1>1, SubSeqFull DEF LedgerInv, TrustTypeOK
    <3>3. new.closedAt = Len(entries)
      BY <1>3, <1>4, <2>3
    <3>4. BalanceAt(m, new.closedAt) = 0
      BY <3>1, <3>2, <3>3 DEF BalanceAt
    <3> QED BY <2>1, <2>2, <3>4
  <2>4. CASE ~noted /\ ~retained
    <3>1. new.noted \/ new.retained =>
             /\ old.noted \/ old.retained
             /\ new.closedAt = old.closedAt
      BY <1>3, <1>4, <1>6, <2>4
    <3>2. new.noted \/ new.retained => BalanceAt(m, new.closedAt) = 0
      <4> SUFFICES ASSUME new.noted \/ new.retained
                   PROVE  BalanceAt(m, new.closedAt) = 0
        OBVIOUS
      <4> HIDE DEF new
      <4> QED BY <1>4, <3>1
    <3> QED BY <2>1, <2>2, <3>2
  <2> QED BY <2>3, <2>4
<1>8. MatterTypeOK'
  <2>1. matters' = [matters EXCEPT ![m] = new]
    BY <1>1 DEF Upsert
  <2> HIDE DEF new
  <2>2. matters' \in [Matters -> Record \cup {NoRecord}]
    BY <1>1, <1>5, <2>1
  <2> QED BY <1>1, <2>2 DEF MatterTypeOK
<1>9. FilesSound'
  <2>1. FileSound(m)'
    BY <1>1, <1>7 DEF FileSound, BalanceAt
  <2>2. \A x \in Matters \ {m} : OnFile(x)' => FileSound(x)'
    BY <1>1, <1>3 DEF MatterInv, FilesSound, FileSound, OnFile, BalanceAt
  <2> QED BY <2>1, <2>2 DEF FilesSound
<1> QED BY <1>1, <1>8, <1>9 DEF MatterInv

LEMMA NextMatterInv == MatterInv /\ [MatterNext]_matterVars => MatterInv'
<1> SUFFICES ASSUME MatterInv, [MatterNext]_matterVars PROVE MatterInv'
  OBVIOUS
<1>1. ASSUME [TrustNext]_trustVars, matters' = matters
      PROVE  MatterInv'
  <2>1. FilesSound'
    BY <1>1, FilesStay DEF FilesSound, OnFile
  <2>2. MatterTypeOK'
    BY <1>1, LedgerGrows DEF MatterInv, MatterTypeOK, LedgerInv
  <2> QED BY <1>1, <2>1, <2>2, LedgerGrows DEF MatterInv
<1>2. ASSUME NEW actor \in Actors, NEW m \in Filed, NEW status \in MatterStatuses,
             NEW parties \in PartyLists, EditMatter(actor, m, status, parties)
      PROVE  MatterInv'
  BY <1>2, MatterAssumption, UpsertSound DEF EditMatter
<1>3. ASSUME NEW actor \in Actors, NEW m \in Filed, NEW years \in {RetentionYears, 0},
             CloseMatter(actor, m, years)
      PROVE  MatterInv'
  <2>1. "closed" \in MatterStatuses /\ (years > 0) \in BOOLEAN /\ m \in Matters
    BY MatterAssumption DEF MatterStatuses
  <2> QED BY <1>3, <2>1, UpsertSound DEF CloseMatter
<1>4. ASSUME NEW actor \in Actors, NEW m \in Filed, ReopenMatter(actor, m)
      PROVE  MatterInv'
  <2>1. "open" \in MatterStatuses /\ m \in Matters
    BY MatterAssumption DEF MatterStatuses
  <2> QED BY <1>4, <2>1, UpsertSound DEF ReopenMatter
<1>5. CASE UNCHANGED matterVars
  BY <1>1, <1>5 DEF matterVars
<1> QED BY <1>1, <1>2, <1>3, <1>4, <1>5 DEF MatterNext

(* Every record is one upsert could have written, with the fields of a     *)
(* closing where they belong.                                              *)
THEOREM MatterTypes == MatterSpec => []MatterTypeOK
<1>1. MatterInv => MatterTypeOK
  BY DEF MatterInv
<1> QED BY <1>1, InitMatterInv, NextMatterInv, PTL DEF MatterSpec

(* However closing, reopening, editing and moving money interleave, a file *)
(* close() closed held nothing of the client's when it was closed.         *)
THEOREM FilesClosedEmpty == MatterSpec => []ClosedWhenEmpty
<1>1. MatterInv => ClosedWhenEmpty
  <2> SUFFICES ASSUME MatterInv, NEW m \in Matters, OnFile(m),
                      matters[m].noted \/ m \in RetentionDue
               PROVE  /\ matters[m].closedAt \in 0 .. Len(entries)
                      /\ BalanceAt(m, matters[m].closedAt) = 0
    BY DEF ClosedWhenEmpty
  <2> QED BY DEF MatterInv, FilesSound, FileSound, RetentionDue
<1> QED BY <1>1, InitMatterInv, NextMatterInv, PTL DEF MatterSpec

----------------------------------------------------------------------------
(* Conflict screening.                                                     *)

(* Turning a name around moves its words and loses none.                   *)
LEMMA TurnedAround ==
    ASSUME NEW n \in Names
    PROVE  /\ n.words \in Seq(Tokens) /\ TurnAround(n) \in Seq(Tokens)
           /\ Len(TurnAround(n)) = Len(n.words)
           /\ ToSet(TurnAround(n)) = ToSet(n.words)
           /\ IsInjective(n.words) => IsInjective(TurnAround(n))
<1> DEFINE words == n.words
           L == Len(words)
           c == n.comma
<1>1. words \in Seq(Tokens) /\ c \in Nat /\ L \in Nat /\ DOMAIN words = 1 .. L
  BY ConflictsAssumption
<1>2. CASE TurnAround(n) = words
  BY <1>1, <1>2
<1>3. CASE TurnAround(n) # words
  <2>1. /\ c \in 1 .. (L - 1)
        /\ TurnAround(n) = SubSeq(words, c + 1, L) \o SubSeq(words, 1, c)
    BY <1>3 DEF TurnAround
  <2> DEFINE to(i) == IF i <= L - c THEN i + c ELSE i - (L - c)
             from(i) == IF i <= c THEN i + (L - c) ELSE i - c
             turned == TurnAround(n)
  <2> HIDE DEF words, L, c
  <2>2. /\ turned \in Seq(Tokens) /\ Len(turned) = L /\ DOMAIN turned = 1 .. L
        /\ \A i \in 1 .. L : turned[i] = words[to(i)]
    <3>1. /\ SubSeq(words, c + 1, L) \in Seq(Tokens) /\ Len(SubSeq(words, c + 1, L)) = L - c
          /\ \A i \in 1 .. (L - c) : SubSeq(words, c + 1, L)[i] = words[i + c]
      BY <1>1, <2>1 DEF L
    <3>2. /\ SubSeq(words, 1, c) \in Seq(Tokens) /\ Len(SubSeq(words, 1, c)) = c
          /\ \A i \in 1 .. c : SubSeq(words, 1, c)[i] = words[i]
      BY <1>1, <2>1 DEF L
    <3> DEFINE u == SubSeq(words, c + 1, L)
               v == SubSeq(words, 1, c)
    <3> HIDE DEF u, v
    <3>3. turned = u \o v /\ u \in Seq(Tokens) /\ v \in Seq(Tokens) /\ Len(u) = L - c /\ Len(v) = c
      BY <2>1, <3>1, <3>2 DEF u, v
    <3>4. \A i \in 1 .. (L - c) : u[i] = words[i + c]
      BY <3>1 DEF u
    <3>5. \A i \in 1 .. c : v[i] = words[i]
      BY <3>2 DEF v
    <3>6. turned \in Seq(Tokens) /\ Len(turned) = L /\ DOMAIN turned = 1 .. L
      BY <1>1, <2>1, <3>3
    <3>7. \A i \in 1 .. L : turned[i] = IF i <= L - c THEN u[i] ELSE v[i - (L - c)]
      <4>1. \A i \in 1 .. (Len(u) + Len(v)) :
               (u \o v)[i] = IF i <= Len(u) THEN u[i] ELSE v[i - Len(u)]
        BY <3>3
      <4>2. Len(u) + Len(v) = L
        BY <1>1, <2>1, <3>3
      <4> QED BY <3>3, <4>1, <4>2
    <3>8. \A i \in 1 .. L : turned[i] = words[to(i)]
      BY <1>1, <2>1, <3>4, <3>5, <3>7
    <3> QED BY <3>6, <3>8
  <2>3. \A i \in 1 .. L : to(i) \in 1 .. L /\ from(i) \in 1 .. L /\ to(from(i)) = i
    BY <1>1, <2>1
  <2>4. \A i, j \in 1 .. L : to(i) = to(j) => i = j
    BY <1>1, <2>1
  <2> HIDE DEF to, from, turned
  <2>5. ToSet(turned) = ToSet(words)
    BY <1>1, <2>2, <2>3 DEF ToSet
  <2>6. IsInjective(words) => IsInjective(turned)
    BY <1>1, <2>2, <2>3, <2>4 DEF IsInjective
  <2> QED BY <1>1, <2>2, <2>5, <2>6 DEF words, L, turned
<1> QED BY <1>2, <1>3

(* What a name is reduced to: the words that say who it is, whatever       *)
(* stands between them and whichever comes first.                          *)
LEMMA NormalIdentity ==
    ASSUME NEW n \in Names
    PROVE  /\ NormalizeName(n) \in Seq(Tokens)
           /\ ToSet(NormalizeName(n)) = Identity(n)
           /\ IsFiniteSet(Identity(n)) /\ Cardinality(Identity(n)) \in Nat
           /\ Cardinality(Identity(n)) <= Len(NormalizeName(n))
           /\ IsInjective(n.words) => Len(NormalizeName(n)) = Cardinality(Identity(n))
<1> DEFINE words == TurnAround(n)
           I == {i \in DOMAIN words : words[i] \notin NoIdentity}
           normal == NormalizeName(n)
           who == Identity(n)
<1>1. normal = AtPositions(words, I) /\ I \in SUBSET (DOMAIN words)
  BY DEF NormalizeName
<1>2. /\ words \in Seq(Tokens) /\ ToSet(words) = ToSet(n.words)
      /\ IsInjective(n.words) => IsInjective(words)
  BY TurnedAround
<1>3. who = {words[i] : i \in I}
  <2>1. who = ToSet(words) \ NoIdentity
    BY <1>2 DEF Identity
  <2> HIDE DEF words
  <2> QED BY <2>1 DEF ToSet
<1>4. I \in SUBSET (1 .. Len(words)) /\ Len(words) \in Nat
  BY <1>1, <1>2
<1> HIDE DEF I, words, normal, who
<1>5. IsFiniteSet(I) /\ Cardinality(I) \in Nat
  BY <1>4, RanksAreOnto
<1>6. /\ AtPositions(words, I) \in Seq(Tokens)
      /\ Len(AtPositions(words, I)) = Cardinality(I)
      /\ DOMAIN AtPositions(words, I) = 1 .. Cardinality(I)
      /\ \A i \in I : \E j \in 1 .. Cardinality(I) : AtPositions(words, I)[j] = words[i]
  BY <1>1, <1>2, KeptElements
<1>7. \E e \in Injection(1 .. Cardinality(I), I) :
         \A j \in 1 .. Cardinality(I) : AtPositions(words, I)[j] = words[e[j]]
  BY <1>1, <1>2, KeptElements, Zenon
<1>8. ToSet(normal) = who
  <2>1. \A j \in DOMAIN AtPositions(words, I) : AtPositions(words, I)[j] \in who
    BY <1>3, <1>6, <1>7 DEF Injection
  <2>2. \A x \in who : \E j \in DOMAIN AtPositions(words, I) : AtPositions(words, I)[j] = x
    BY <1>3, <1>6
  <2> QED BY <1>1, <2>1, <2>2 DEF ToSet
<1> DEFINE h == [i \in I |-> words[i]]
<1>9. h \in Surjection(I, who)
  BY <1>3 DEF Surjection
<1>10. /\ IsFiniteSet(who) /\ Cardinality(who) <= Cardinality(I)
       /\ h \in Injection(I, who) => Cardinality(who) = Cardinality(I)
  <2> HIDE DEF h
  <2> QED BY <1>5, <1>9, FS_Surjection
<1>11. IsInjective(words) => h \in Injection(I, who)
  <2>1. IsInjective(words) => IsInjective(h)
    BY <1>1 DEF IsInjective
  <2>2. h \in [I -> who]
    BY <1>3
  <2> HIDE DEF h
  <2> QED BY <2>1, <2>2 DEF Injection
<1>12. Cardinality(who) \in Nat
  BY <1>10, FS_CardinalityType
<1>13. Len(normal) = Cardinality(I) /\ normal \in Seq(Tokens)
  BY <1>1, <1>6
<1> QED BY <1>2, <1>8, <1>10, <1>11, <1>12, <1>13 DEF words, normal, who

(* A name and one with the same words, or with more of them, compare as    *)
(* one person, in either order.                                            *)
LEMMA ShortensMatches ==
    ASSUME NEW a \in Names, NEW b \in Names, Shortens(a, b)
    PROVE  CompareNames(a, b) # "none" /\ CompareNames(b, a) # "none"
<1> DEFINE na == NormalizeName(a)
           nb == NormalizeName(b)
<1>1. /\ na \in Seq(Tokens) /\ nb \in Seq(Tokens) /\ Len(na) \in Nat /\ Len(nb) \in Nat
      /\ ToSet(na) = Identity(a) /\ ToSet(nb) = Identity(b)
      /\ IsFiniteSet(Identity(a)) /\ Cardinality(Identity(a)) \in Nat
      /\ IsFiniteSet(Identity(b)) /\ Cardinality(Identity(b)) \in Nat
      /\ Cardinality(Identity(b)) <= Len(nb)
      /\ IsInjective(a.words) => Len(na) = Cardinality(Identity(a))
  BY NormalIdentity
<1>2. /\ Identity(a) # {} /\ Identity(a) \subseteq Identity(b)
      /\ \A t \in TooShort : Identity(a) # {t}
      /\ Identity(b) \subseteq Identity(a) \/ IsInjective(a.words)
  BY DEF Shortens, Telling
<1> HIDE DEF na, nb
<1>3. na # <<>> /\ nb # <<>>
  BY <1>1, <1>2 DEF ToSet
<1>4. Len(nb) <= Len(na) => Identity(b) = Identity(a)
  <2> SUFFICES ASSUME Len(nb) <= Len(na), IsInjective(a.words) PROVE Identity(b) = Identity(a)
    BY <1>2
  <2>1. Cardinality(Identity(a)) <= Cardinality(Identity(b))
    BY <1>1, <1>2, FS_Subset
  <2>2. Cardinality(Identity(a)) = Cardinality(Identity(b))
    BY <1>1, <2>1
  <2> QED BY <1>1, <1>2, <2>2, FS_Subset
<1>5. \A s \in Seq(Tokens) : Len(s) = 1 => ToSet(s) = {s[1]}
  BY DEF ToSet
<1> DEFINE Contained(s, l) == ToSet(s) \subseteq ToSet(l) /\ (Len(s) = 1 => s[1] \notin TooShort)
<1>6. Contained(na, nb)
  BY <1>1, <1>2, <1>5
<1>7. Len(nb) <= Len(na) => Contained(nb, na)
  BY <1>1, <1>2, <1>4, <1>5
<1>8. CompareNames(a, b) # "none"
  BY <1>1, <1>3, <1>6, <1>7 DEF CompareNames, na, nb
<1>9. CompareNames(b, a) # "none"
  BY <1>1, <1>3, <1>6, <1>7 DEF CompareNames, na, nb
<1> QED BY <1>8, <1>9

(* A name that has a surname and a first name is reduced to tokens that    *)
(* begin with the one and end with the other, wherever its comma is.       *)
LEMMA NormalEnds ==
    ASSUME NEW n \in Names, Cardinality(Bearing(n)) > 1, FamilyPart(n) # {}, GivenPart(n) # {}
    PROVE  /\ Len(NormalizeName(n)) > 1
           /\ Last(NormalizeName(n)) = Surname(n)
           /\ NormalizeName(n)[1] = FirstName(n)
<1> DEFINE words == n.words
           L == Len(words)
           c == n.comma
           turned == TurnAround(n)
           I == {i \in DOMAIN turned : turned[i] \notin NoIdentity}
           g == Min(GivenPart(n))
           f == Max(FamilyPart(n))
<1>1. words \in Seq(Tokens) /\ c \in Nat /\ L \in Nat /\ DOMAIN words = 1 .. L
  BY ConflictsAssumption
<1>2. Bearing(n) \subseteq 1 .. L /\ FamilyPart(n) \subseteq Bearing(n) /\ GivenPart(n) \subseteq Bearing(n)
  BY <1>1 DEF Bearing, FamilyPart, GivenPart
<1>3. g \in GivenPart(n) /\ \A k \in GivenPart(n) : g <= k
  <2>1. \E k \in GivenPart(n) : \A j \in GivenPart(n) : k <= j
    <3>1. GivenPart(n) \in SUBSET Nat
      BY <1>1, <1>2
    <3> QED BY <3>1, SomeIsLeast
  <2> QED BY <2>1, Zenon DEF Min
<1>4. f \in FamilyPart(n) /\ \A k \in FamilyPart(n) : f >= k
  <2>1. \E k \in FamilyPart(n) : \A j \in FamilyPart(n) : k >= j
    <3> DEFINE T == {L - k : k \in FamilyPart(n)}
    <3>1. T \in SUBSET Nat /\ T # {}
      BY <1>1, <1>2
    <3> HIDE DEF T
    <3>2. PICK t \in T : \A y \in T : t <= y
      BY <3>1, SomeIsLeast
    <3>3. PICK k \in FamilyPart(n) : t = L - k
      BY DEF T
    <3>4. \A j \in FamilyPart(n) : L - k <= L - j
      BY <3>2, <3>3 DEF T
    <3> QED BY <1>1, <1>2, <3>4
  <2> QED BY <2>1, Zenon DEF Max
<1>5. \/ /\ SurnameFirst(n) /\ c \in 1 .. (L - 1) /\ \A i \in 1 .. L :
               turned[i] = words[IF i <= L - c THEN i + c ELSE i - (L - c)]
      \/ ~SurnameFirst(n) /\ turned = words
  <2>1. CASE SurnameFirst(n)
    <3>1. c \in 1 .. (L - 1)
      BY <2>1 DEF SurnameFirst
    <3>2. c + 1 = L => Last(words) \notin EntityMarkers
      <4>1. g \in Bearing(n) /\ g \in 1 .. L /\ g > c
        BY <1>2, <1>3, <2>1 DEF GivenPart
      <4>2. c + 1 = L => g = L
        BY <1>1, <3>1, <4>1
      <4> QED BY <4>1, <4>2 DEF Bearing, NoIdentity, Last
    <3>3. turned = SubSeq(words, c + 1, L) \o SubSeq(words, 1, c)
      BY <3>1, <3>2 DEF TurnAround
    <3> DEFINE u == SubSeq(words, c + 1, L)
               v == SubSeq(words, 1, c)
    <3> HIDE DEF words, L, c, turned
    <3>4. /\ u \in Seq(Tokens) /\ Len(u) = L - c
          /\ \A i \in 1 .. (L - c) : u[i] = words[i + c]
      BY <1>1, <3>1 DEF L
    <3>5. /\ v \in Seq(Tokens) /\ Len(v) = c
          /\ \A i \in 1 .. c : v[i] = words[i]
      BY <1>1, <3>1 DEF L
    <3> HIDE DEF u, v
    <3>6. \A i \in 1 .. (Len(u) + Len(v)) :
             (u \o v)[i] = IF i <= Len(u) THEN u[i] ELSE v[i - Len(u)]
      BY <3>4, <3>5
    <3>7. turned = u \o v /\ Len(u) + Len(v) = L
      BY <1>1, <3>1, <3>3, <3>4, <3>5 DEF u, v
    <3>8. \A i \in 1 .. L : turned[i] = words[IF i <= L - c THEN i + c ELSE i - (L - c)]
      <4> SUFFICES ASSUME NEW i \in 1 .. L
                   PROVE  turned[i] = words[IF i <= L - c THEN i + c ELSE i - (L - c)]
        OBVIOUS
      <4>1. L \in Nat /\ c \in Nat
        BY <1>1, <3>1
      <4>2. turned[i] = IF i <= L - c THEN u[i] ELSE v[i - (L - c)]
        BY <3>4, <3>6, <3>7
      <4>3. CASE i <= L - c
        BY <3>4, <4>1, <4>2, <4>3
      <4>4. CASE ~(i <= L - c)
        <5>1. i - (L - c) \in 1 .. c
          BY <3>1, <4>1, <4>4
        <5> QED BY <3>5, <4>2, <4>4, <5>1
      <4> QED BY <4>3, <4>4
    <3> QED BY <2>1, <3>1, <3>8
  <2>2. CASE ~SurnameFirst(n)
    BY <2>2 DEF TurnAround, SurnameFirst
  <2> QED BY <2>1, <2>2
<1>6. turned \in Seq(Tokens) /\ Len(turned) = L /\ DOMAIN turned = 1 .. L
  BY <1>1, TurnedAround
<1>7. NormalizeName(n) = AtPositions(turned, I) /\ I \in SUBSET (DOMAIN turned)
  BY DEF NormalizeName
<1>8. \A i \in 1 .. L : (i \in I <=> turned[i] \notin NoIdentity) /\ (i \in Bearing(n) <=> words[i] \notin NoIdentity)
  BY <1>1, <1>6 DEF Bearing
<1>9. /\ \A i \in Bearing(n) : i \in FamilyPart(n) <=> (SurnameFirst(n) => i <= c)
      /\ \A i \in Bearing(n) : i \in GivenPart(n) <=> (SurnameFirst(n) => i > c)
  BY DEF FamilyPart, GivenPart
<1> HIDE DEF words, L, c, turned, I, g, f
<1>10. PICK first \in I : (\A k \in I : first <= k) /\ turned[first] = words[g]
  <2>1. CASE SurnameFirst(n)
    <3> DEFINE first == g - c
    <3>1. c \in 1 .. (L - 1) /\ g \in 1 .. L /\ g > c /\ g \in Bearing(n)
      BY <1>2, <1>3, <1>5, <1>9, <2>1
    <3>2. first \in 1 .. L /\ first <= L - c /\ turned[first] = words[g]
      BY <1>1, <1>5, <2>1, <3>1
    <3>3. first \in I
      BY <1>8, <3>1, <3>2
    <3>4. ASSUME NEW k \in I, k < first PROVE FALSE
      <4>1. k \in 1 .. L
        BY <1>6, <1>7
      <4>2. k + c \in 1 .. L /\ k + c < g /\ k + c > c /\ turned[k] = words[k + c]
        BY <1>1, <1>5, <2>1, <3>1, <3>2, <3>4, <4>1
      <4>3. k + c \in GivenPart(n)
        BY <1>8, <1>9, <4>1, <4>2
      <4> QED BY <1>1, <1>3, <3>1, <4>2, <4>3
    <3>5. \A k \in I : first <= k
      BY <1>1, <1>6, <1>7, <3>2, <3>4
    <3> QED BY <3>2, <3>3, <3>5
  <2>2. CASE ~SurnameFirst(n)
    <3>1. turned = words /\ GivenPart(n) = Bearing(n)
      BY <1>2, <1>5, <1>9, <2>2
    <3>2. I = Bearing(n)
      BY <1>2, <1>6, <1>7, <1>8, <3>1
    <3> QED BY <1>3, <3>1, <3>2
  <2> QED BY <2>1, <2>2
<1>11. PICK last \in I : (\A k \in I : k <= last) /\ turned[last] = words[f]
  <2>1. CASE SurnameFirst(n)
    <3> DEFINE last == f + (L - c)
    <3>1. c \in 1 .. (L - 1) /\ f \in 1 .. L /\ f <= c /\ f \in Bearing(n)
      BY <1>2, <1>4, <1>5, <1>9, <2>1
    <3>2. last \in 1 .. L /\ last > L - c /\ last - (L - c) = f /\ turned[last] = words[f]
      BY <1>1, <1>5, <2>1, <3>1
    <3>3. last \in I
      BY <1>8, <3>1, <3>2
    <3>4. ASSUME NEW k \in I, k > last PROVE FALSE
      <4>1. k \in 1 .. L
        BY <1>6, <1>7
      <4> DEFINE x == k - (L - c)
      <4>2. x \in 1 .. L /\ x > f /\ x <= c /\ turned[k] = words[x]
        BY <1>1, <1>5, <2>1, <3>1, <3>2, <3>4, <4>1
      <4>3. x \in FamilyPart(n)
        BY <1>8, <1>9, <4>1, <4>2
      <4> QED BY <1>1, <1>4, <3>1, <4>2, <4>3
    <3>5. \A k \in I : k <= last
      BY <1>1, <1>6, <1>7, <3>2, <3>4
    <3> QED BY <3>2, <3>3, <3>5
  <2>2. CASE ~SurnameFirst(n)
    <3>1. turned = words /\ FamilyPart(n) = Bearing(n)
      BY <1>2, <1>5, <1>9, <2>2
    <3>2. I = Bearing(n)
      BY <1>2, <1>6, <1>7, <1>8, <3>1
    <3>3. \A k \in I : k <= f
      BY <1>1, <1>2, <1>4, <3>1, <3>2
    <3> QED BY <1>4, <3>1, <3>2, <3>3
  <2> QED BY <2>1, <2>2
<1>12. Len(NormalizeName(n)) = Cardinality(I) /\ Cardinality(I) \in Nat
  BY <1>6, <1>7, KeptElements
<1>13. Cardinality(I) = Cardinality(Bearing(n))
  <2>1. CASE ~SurnameFirst(n)
    <3>1. I = Bearing(n)
      BY <1>2, <1>5, <1>6, <1>7, <1>8, <2>1
    <3> QED BY <3>1
  <2>2. CASE SurnameFirst(n)
    <3> DEFINE to(i) == IF i <= L - c THEN i + c ELSE i - (L - c)
               h == [i \in I |-> to(i)]
    <3>1. c \in 1 .. (L - 1) /\ \A i \in 1 .. L : turned[i] = words[to(i)]
      BY <1>5, <2>2
    <3>2. /\ \A i \in 1 .. L : to(i) \in 1 .. L
          /\ \A i, j \in 1 .. L : to(i) = to(j) => i = j
          /\ \A j \in 1 .. L : \E i \in 1 .. L : to(i) = j
      <4>1. /\ \A i \in 1 .. L : to(i) \in 1 .. L
            /\ \A i, j \in 1 .. L : to(i) = to(j) => i = j
        BY <1>1, <3>1
      <4>2. \A j \in 1 .. L : IF j <= c THEN j + (L - c) \in 1 .. L /\ to(j + (L - c)) = j
                               ELSE j - c \in 1 .. L /\ to(j - c) = j
        BY <1>1, <3>1
      <4> HIDE DEF to
      <4> QED BY <4>1, <4>2
    <3> HIDE DEF to
    <3>3. \A i \in I : i \in 1 .. L /\ to(i) \in Bearing(n)
      BY <1>6, <1>7, <1>8, <3>1, <3>2
    <3>4. h \in Surjection(I, Bearing(n))
      <4>1. \A j \in Bearing(n) : \E i \in I : to(i) = j
        BY <1>2, <1>8, <3>1, <3>2
      <4> QED BY <3>3, <4>1 DEF Surjection
    <3>5. h \in Injection(I, Bearing(n))
      <4>1. h \in [I -> Bearing(n)]
        BY <3>3
      <4>2. \A i, j \in I : h[i] = h[j] => i = j
        BY <3>2, <3>3
      <4> HIDE DEF h
      <4> QED BY <4>1, <4>2 DEF Injection, IsInjective
    <3>6. IsFiniteSet(I)
      <4>1. I \in SUBSET (1 .. L)
        BY <1>6, <1>7
      <4> QED BY <1>1, <4>1, RanksAreOnto
    <3> HIDE DEF h
    <3> QED BY <3>4, <3>5, <3>6, FS_Surjection
  <2> QED BY <2>1, <2>2
<1>14. NormalizeName(n)[1] = words[g] /\ NormalizeName(n)[Cardinality(I)] = words[f]
  BY <1>6, <1>7, <1>10, <1>11, KeptEnds
<1> QED BY <1>12, <1>13, <1>14 DEF Last, Surname, FirstName, words, g, f

(* An initial for the first name is enough.                                *)
LEMMA AbbreviatesMatches ==
    ASSUME NEW a \in Names, NEW b \in Names, Abbreviates(a, b)
    PROVE  CompareNames(a, b) # "none"
<1>1. \A n \in {a, b} : /\ Len(NormalizeName(n)) > 1
                        /\ Last(NormalizeName(n)) = Surname(n)
                        /\ NormalizeName(n)[1] = FirstName(n)
  BY NormalEnds DEF Abbreviates
<1>2. Last(NormalizeName(a)) = Last(NormalizeName(b))
      /\ Initial[NormalizeName(a)[1]] = Initial[NormalizeName(b)[1]]
  BY <1>1 DEF Abbreviates
<1>3. Len(NormalizeName(a)) > 1 /\ Len(NormalizeName(b)) > 1
      /\ NormalizeName(a) # <<>> /\ NormalizeName(b) # <<>>
  BY <1>1
<1> QED BY <1>2, <1>3 DEF CompareNames

(* Which of two names was searched for and which is on record makes no     *)
(* difference to how they match, unless one of them repeats a word.        *)
THEOREM ScreeningIsSymmetric ==
    \A a, b \in Names :
        IsInjective(a.words) /\ IsInjective(b.words) => Strength[<<a, b>>] = Strength[<<b, a>>]
<1> SUFFICES ASSUME NEW a \in Names, NEW b \in Names, IsInjective(a.words), IsInjective(b.words)
             PROVE  Strength[<<a, b>>] = Strength[<<b, a>>]
  OBVIOUS
<1> DEFINE na == NormalizeName(a)
           nb == NormalizeName(b)
<1>1. /\ na \in Seq(Tokens) /\ nb \in Seq(Tokens) /\ Len(na) \in Nat /\ Len(nb) \in Nat
      /\ ToSet(na) = Identity(a) /\ Len(na) = Cardinality(Identity(a)) /\ IsFiniteSet(Identity(a))
      /\ ToSet(nb) = Identity(b) /\ Len(nb) = Cardinality(Identity(b)) /\ IsFiniteSet(Identity(b))
  BY NormalIdentity
<1> HIDE DEF na, nb
<1>2. ASSUME Len(na) = Len(nb)
      PROVE  ToSet(na) \subseteq ToSet(nb) <=> ToSet(nb) \subseteq ToSet(na)
  BY <1>1, <1>2, FS_Subset
<1>3. ASSUME Len(na) = 1, Len(nb) = 1, ToSet(na) \subseteq ToSet(nb)
      PROVE  na = nb
  <2>1. na[1] = nb[1]
    BY <1>1, <1>3 DEF ToSet
  <2> QED BY <1>1, <1>3, <2>1
<1> DEFINE Within(s, l) == ToSet(s) \subseteq ToSet(l) /\ (Len(s) = 1 => s[1] \notin TooShort)
           Ordered(l, r) == IF Len(l) <= Len(r) THEN Within(l, r) ELSE Within(r, l)
           Akin(l, r) == /\ Len(l) > 1 /\ Len(r) > 1 /\ Last(l) = Last(r)
                         /\ Initial[l[1]] = Initial[r[1]]
           Compared(l, r) == IF l = <<>> \/ r = <<>> THEN "none"
                             ELSE IF l = r THEN "exact"
                             ELSE IF Ordered(l, r) THEN "strong"
                             ELSE IF Akin(l, r) THEN "possible" ELSE "none"
<1>4. CompareNames(a, b) = CompareNames(b, a)
  <2>1. CompareNames(a, b) = Compared(na, nb) /\ CompareNames(b, a) = Compared(nb, na)
    BY <1>1 DEF CompareNames, na, nb
  <2>2. na = nb \/ (Ordered(na, nb) <=> Ordered(nb, na))
    BY <1>1, <1>2, <1>3
  <2>3. Akin(na, nb) <=> Akin(nb, na)
    OBVIOUS
  <2> HIDE DEF Ordered, Akin
  <2> QED BY <2>1, <2>2, <2>3
<1>5. Strength[<<a, b>>] = CompareNames(a, b) /\ Strength[<<b, a>>] = CompareNames(b, a)
  BY Zenon DEF Strength
<1> QED BY <1>4, <1>5

(* The screening finds a name in every way of writing it that SameName     *)
(* speaks of: titles, suffixes, the order of the words, words left out,    *)
(* and an initial in place of the first name.                              *)
THEOREM SameNamesMatch ==
    \A a, b \in Names : SameName(a, b) => Strength[<<a, b>>] # "none"
<1> SUFFICES ASSUME NEW a \in Names, NEW b \in Names, SameName(a, b)
             PROVE  Strength[<<a, b>>] # "none"
  OBVIOUS
<1>1. Strength[<<a, b>>] = CompareNames(a, b)
  BY Zenon DEF Strength
<1> QED BY <1>1, ShortensMatches, AbbreviatesMatches DEF SameName

(* A party and one who would sit opposite it call for review, whatever the *)
(* status of the matter.                                                   *)
THEOREM AdverseIsAlwaysCaught == MatterSpec => []AdverseIsCaught
<1>1. MatterTypeOK => AdverseIsCaught
  <2> SUFFICES ASSUME MatterTypeOK, NEW m \in Matters, OnFile(m),
                      NEW p \in matters[m].parties, p.role \in {"client", "adverse"},
                      NEW n \in Spellings[p.name]
               PROVE  RequiresAttorneyReview(Records,
                          {[name |-> n, role |-> OppositeOf(p.role), padded |-> FALSE]}, {})
    BY DEF AdverseIsCaught
  <2> DEFINE searched == [name |-> n, role |-> OppositeOf(p.role), padded |-> FALSE]
             hit == [matter |-> m, party |-> p, searched |-> searched]
  <2>1. matters[m] \in Record /\ matters[m].parties \in PartyLists
    BY DEF MatterTypeOK, OnFile, Record
  <2>2. m \in DOMAIN Records /\ Records[m] = matters[m]
    BY DEF Records
  <2>3. p.name \in Names /\ n \in Names /\ SameName(n, p.name)
    BY <2>1, SpellingAssumption
  <2>4. Strength[<<n, p.name>>] # "none"
    BY <2>3, SameNamesMatch
  <2>5. hit \in Check(Records, {searched}, {})
    BY <2>2, <2>4 DEF Check
  <2>6. IncomingRole(searched) = OppositeOf(p.role)
    BY DEF IncomingRole, OppositeOf, PartyRoles
  <2>7. Opposed(OppositeOf(p.role), p.role)
    BY DEF Opposed, OppositeOf
  <2>8. Severity(Records, hit) \in {"direct", "former_client"}
    BY <2>2, <2>6, <2>7 DEF Severity, Classify
  <2> QED BY <2>5, <2>8 DEF RequiresAttorneyReview
<1> QED BY <1>1, MatterTypes, PTL
=============================================================================
