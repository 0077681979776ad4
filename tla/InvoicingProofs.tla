--------------------------- MODULE InvoicingProofs ---------------------------
(***************************************************************************)
(* Proofs about Invoicing: the invoices, their payments and the trust      *)
(* ledger behind them, for any matters, actors, amounts and bounds.        *)
(***************************************************************************)
EXTENDS Invoicing, TrustLedgerProofs

----------------------------------------------------------------------------
(* Sequences the store builds.                                             *)

(* The lines of a set, in any order, are each there once.                  *)
LEMMA SetToSeqLists ==
    ASSUME NEW S, IsFiniteSet(S)
    PROVE  /\ SetToSeq(S) \in Seq(S) /\ Len(SetToSeq(S)) = Cardinality(S)
           /\ \A k, l \in DOMAIN SetToSeq(S) : SetToSeq(S)[k] = SetToSeq(S)[l] => k = l
<1> DEFINE n == Cardinality(S)
<1>1. n \in Nat /\ ExistsBijection(1 .. n, S)
  BY FS_CardinalityType
<1>2. \E f \in [1 .. n -> S] : IsInjective(f)
  BY <1>1 DEF ExistsBijection, Bijection, Injection
<1>3. SetToSeq(S) \in [1 .. n -> S] /\ IsInjective(SetToSeq(S))
  BY <1>2 DEF SetToSeq
<1> QED BY <1>1, <1>3 DEF IsInjective

(* Taking one element out shifts those after it.                           *)
LEMMA RemovedAt ==
    ASSUME NEW S, NEW s \in Seq(S), NEW k \in DOMAIN s
    PROVE  /\ RemoveAt(s, k) \in Seq(S) /\ Len(RemoveAt(s, k)) = Len(s) - 1
           /\ \A j \in 1 .. (Len(s) - 1) : RemoveAt(s, k)[j] = IF j < k THEN s[j] ELSE s[j + 1]
<1>1. k \in 1 .. Len(s) /\ Len(s) \in Nat
  OBVIOUS
<1>2. /\ SubSeq(s, 1, k - 1) \in Seq(S) /\ Len(SubSeq(s, 1, k - 1)) = k - 1
      /\ \A j \in 1 .. (k - 1) : SubSeq(s, 1, k - 1)[j] = s[j]
  BY <1>1
<1>3. /\ SubSeq(s, k + 1, Len(s)) \in Seq(S) /\ Len(SubSeq(s, k + 1, Len(s))) = Len(s) - k
      /\ \A j \in 1 .. (Len(s) - k) : SubSeq(s, k + 1, Len(s))[j] = s[j + k]
  BY <1>1
<1> DEFINE a == SubSeq(s, 1, k - 1)
           b == SubSeq(s, k + 1, Len(s))
<1>4. RemoveAt(s, k) = a \o b
  BY DEF RemoveAt
<1>5. /\ a \in Seq(S) /\ Len(a) = k - 1 /\ \A j \in 1 .. (k - 1) : a[j] = s[j]
      /\ b \in Seq(S) /\ Len(b) = Len(s) - k /\ \A j \in 1 .. (Len(s) - k) : b[j] = s[j + k]
  BY <1>2, <1>3
<1> HIDE DEF a, b
<1>6. /\ a \o b \in Seq(S) /\ Len(a \o b) = Len(s) - 1
      /\ \A j \in 1 .. (Len(s) - 1) :
            (a \o b)[j] = IF j <= Len(a) THEN a[j] ELSE b[j - Len(a)]
  <2>1. a \in Seq(S) /\ b \in Seq(S) /\ Len(a) + Len(b) = Len(s) - 1
    BY <1>1, <1>5
  <2>2. /\ a \o b \in Seq(S) /\ Len(a \o b) = Len(a) + Len(b)
        /\ \A j \in 1 .. (Len(a) + Len(b)) :
              (a \o b)[j] = IF j <= Len(a) THEN a[j] ELSE b[j - Len(a)]
    BY <2>1
  <2> QED BY <2>1, <2>2
<1>7. ASSUME NEW j \in 1 .. (Len(s) - 1)
      PROVE  (a \o b)[j] = IF j < k THEN s[j] ELSE s[j + 1]
  <2>1. CASE j < k
    BY <1>1, <1>5, <1>6, <2>1
  <2>2. CASE ~ (j < k)
    <3>1. j - (k - 1) \in 1 .. (Len(s) - k) /\ (j - (k - 1)) + k = j + 1
      BY <1>1, <2>2
    <3>2. (a \o b)[j] = b[j - (k - 1)]
      BY <1>1, <1>5, <1>6, <2>2
    <3>3. b[j - (k - 1)] = s[(j - (k - 1)) + k]
      BY <1>5, <3>1
    <3> QED BY <2>2, <3>1, <3>2, <3>3
  <2> QED BY <2>1, <2>2
<1> QED BY <1>4, <1>6, <1>7

(* A bounded set of numbers has a largest one.                             *)
LEMMA MaxIsLargest ==
    ASSUME NEW S \in SUBSET Nat, S # {}, NEW k \in Nat, \A n \in S : n <= k
    PROVE  Max(S) \in S /\ \A n \in S : n <= Max(S)
<1> DEFINE T == {k - n : n \in S}
<1>1. \A n \in S : n \in Nat /\ k - n \in Nat
  OBVIOUS
<1>2. T \in SUBSET Nat /\ T # {}
  BY <1>1
<1>3. PICK t \in T : \A y \in T : t <= y
  <2> HIDE DEF T
  <2> QED BY <1>2, SomeIsLeast
<1>4. PICK m \in S : t = k - m
  BY <1>3
<1>5. \A n \in S : n <= m
  BY <1>1, <1>3, <1>4
<1> HIDE DEF T
<1>6. \E x \in S : \A y \in S : x >= y
  BY <1>1, <1>5
<1>7. Max(S) \in S /\ \A y \in S : Max(S) >= y
  BY <1>6 DEF Max
<1> QED BY <1>1, <1>7

(* So has a finite one.                                                    *)
LEMMA FiniteHasMax ==
    ASSUME NEW S \in SUBSET Nat, S # {}, IsFiniteSet(S)
    PROVE  Max(S) \in S /\ \A n \in S : n <= Max(S)
<1> DEFINE k == SumFunctionOnSet([n \in S |-> n], S)
           v == [n \in S |-> n]
<1>1. \A n \in S : v[n] \in Nat /\ v[n] = n
  OBVIOUS
<1>2. k \in Nat /\ \A n \in S : v[n] <= k
  <2> HIDE DEF v
  <2> QED BY <1>1, SumBounds DEF v
<1>3. \A n \in S : n <= k
  BY <1>1, <1>2
<1> HIDE DEF k
<1> QED BY <1>2, <1>3, MaxIsLargest

(* A sum of terms that are at most b is at most as many times b.           *)
LEMMA SumAtMost ==
    ASSUME NEW S, IsFiniteSet(S), NEW v, NEW b \in Nat, \A x \in S : v[x] \in Nat /\ v[x] <= b
    PROVE  SumFunctionOnSet(v, S) <= Cardinality(S) * b
<1> DEFINE G == {s \in SUBSET S : SumFunctionOnSet(v, s) <= Cardinality(s) * b}
<1>1. ASSUME NEW s \in SUBSET S, \A x \in s : s \ {x} \in G
      PROVE  s \in G
  <2>1. CASE s = {}
    <3>1. SumFunctionOnSet(v, s) = 0
      BY <2>1, SumFacts
    <3>2. Cardinality(s) * b = 0
      BY <2>1, FS_EmptySet
    <3> QED BY <3>1, <3>2
  <2>2. ASSUME NEW x \in s
        PROVE  s \in G
    <3> DEFINE r == s \ {x}
               c == Cardinality(r)
    <3>1. IsFiniteSet(s) /\ IsFiniteSet(r)
      BY FS_Subset
    <3>2. c \in Nat /\ Cardinality(s) \in Nat /\ Cardinality(s) = c + 1
      BY <3>1, FS_CardinalityType, FS_RemoveElement
    <3>3. /\ SumFunctionOnSet(v, r) \in Int
          /\ SumFunctionOnSet(v, s) = v[x] + SumFunctionOnSet(v, r)
      BY SumFacts
    <3>4. SumFunctionOnSet(v, r) <= c * b
      BY <1>1
    <3> HIDE DEF c, r
    <3>5. (c + 1) * b = c * b + b /\ c * b \in Nat
      BY <3>2
    <3>6. v[x] \in Nat /\ v[x] <= b
      OBVIOUS
    <3>7. SumFunctionOnSet(v, s) <= c * b + b
      BY <3>3, <3>4, <3>5, <3>6
    <3>8. SumFunctionOnSet(v, s) <= Cardinality(s) * b
      BY <3>2, <3>5, <3>7
    <3> QED BY <3>8
  <2> QED BY <2>1, <2>2
<1>2. SUBSET S \subseteq G
  <2> HIDE DEF G
  <2> QED BY <1>1, SubsetInduction
<1> QED BY <1>2

----------------------------------------------------------------------------
(* What is in the store.                                                   *)

Line    == [amount : LineAmounts, hour : Nat]
Invoice == [matter : Matters, status : Statuses, lines : Seq(Line)]
Methods == {"manual", "card", "trust_application"}
Ref     == [kind : {"none", "given", "trust", "processor", "intent", "session"}, id : Nat]
Payment == [inv : Nat, amount : Nat \ {0}, method : Methods, ref : Ref]

TotalOf(lines)  == SumFunction([k \in DOMAIN lines |-> lines[k].amount])
PaidOf(list, i) == SumFunction([p \in {q \in DOMAIN list : list[q].inv = i} |-> list[p].amount])

LEMMA MoneyIs ==
    \A i : /\ Total(i) = TotalOf(invoices[i].lines) /\ Total(i)' = TotalOf(invoices'[i].lines)
           /\ Paid(i) = PaidOf(payments, i) /\ Paid(i)' = PaidOf(payments', i)
           /\ Balance(i) = Total(i) - Paid(i)
BY DEF Total, TotalOf, Paid, PaidOf, PaymentsFor, Balance

LEMMA TotalIsNat ==
    ASSUME NEW lines \in Seq(Line)
    PROVE  TotalOf(lines) \in Nat
<1> DEFINE v == [k \in DOMAIN lines |-> lines[k].amount]
<1>1. IsFiniteSet(DOMAIN lines)
  <2>1. DOMAIN lines = 1 .. Len(lines) /\ Len(lines) \in Nat
    OBVIOUS
  <2>2. IsFiniteSet(1 .. Len(lines))
    BY <2>1, UpToIsFinite
  <2> QED BY <2>1, <2>2, Zenon
<1>2. \A k \in DOMAIN lines : v[k] \in Nat
  <2>1. \A k \in DOMAIN lines : lines[k] \in Line
    OBVIOUS
  <2> QED BY <2>1, InvoicesAssumption DEF Line
<1>3. TotalOf(lines) = SumFunctionOnSet(v, DOMAIN lines)
  BY DEF TotalOf, SumFunction
<1> HIDE DEF v
<1> QED BY <1>1, <1>2, <1>3, SumBounds

(* The payments of an invoice are finitely many.                           *)
LEMMA PaymentsAreFinite ==
    ASSUME NEW list \in Seq(Payment), NEW i
    PROVE  /\ IsFiniteSet({q \in DOMAIN list : list[q].inv = i})
           /\ PaidOf(list, i) \in Nat
           /\ {q \in DOMAIN list : list[q].inv = i} = {} => PaidOf(list, i) = 0
<1> DEFINE S == {q \in DOMAIN list : list[q].inv = i}
           v == [p \in S |-> list[p].amount]
<1>1. IsFiniteSet(S)
  <2>1. DOMAIN list = 1 .. Len(list) /\ Len(list) \in Nat
    OBVIOUS
  <2>2. IsFiniteSet(1 .. Len(list))
    BY <2>1, UpToIsFinite
  <2>3. S \in SUBSET (1 .. Len(list))
    BY <2>1
  <2> HIDE DEF S
  <2> QED BY <2>2, <2>3, FS_Subset
<1>2. \A p \in S : v[p] \in Nat
  <2>1. \A p \in S : list[p] \in Payment
    OBVIOUS
  <2> QED BY <2>1 DEF Payment
<1>3. PaidOf(list, i) = SumFunctionOnSet(v, S)
  BY DEF PaidOf, SumFunction
<1>4. SumFunctionOnSet(v, S) \in Nat
  <2> HIDE DEF v, S
  <2> QED BY <1>1, <1>2, SumBounds
<1>5. SumFunctionOnSet(v, {}) = 0
  BY FS_EmptySet, SumFacts
<1>6. ASSUME S = {} PROVE SumFunctionOnSet(v, S) = 0
  <2> HIDE DEF v, S
  <2> QED BY <1>5, <1>6, Zenon
<1> QED BY <1>1, <1>3, <1>4, <1>6

(* Recording a payment adds its amount to what its invoice was paid.       *)
LEMMA PaidOneMore ==
    ASSUME NEW list \in Seq(Payment), NEW new \in Payment, NEW i
    PROVE  PaidOf(Append(list, new), i)
              = PaidOf(list, i) + IF new.inv = i THEN new.amount ELSE 0
<1> DEFINE S == {q \in DOMAIN list : list[q].inv = i}
           more == Append(list, new)
           T == {q \in DOMAIN more : more[q].inv = i}
           n == Len(list) + 1
           v == [p \in S |-> list[p].amount]
           w == [p \in T |-> more[p].amount]
<1>1. /\ Len(list) \in Nat /\ DOMAIN list = 1 .. Len(list) /\ DOMAIN more = 1 .. n
      /\ more[n] = new /\ \A q \in 1 .. Len(list) : more[q] = list[q]
  OBVIOUS
<1>2. /\ PaidOf(list, i) = SumFunctionOnSet(v, S)
      /\ PaidOf(more, i) = SumFunctionOnSet(w, T)
  BY DEF PaidOf, SumFunction
<1>3. IsFiniteSet(S) /\ PaidOf(list, i) \in Nat
  BY PaymentsAreFinite
<1>4. n \notin S /\ S \subseteq 1 .. Len(list)
  BY <1>1
<1>5. \A q \in S : v[q] \in Int /\ q \in T /\ w[q] = v[q]
  <2>1. \A q \in S : list[q] \in Payment /\ more[q] = list[q] /\ q \in T
    BY <1>1
  <2> QED BY <2>1 DEF Payment
<1>6. CASE new.inv = i
  <2>1. T = S \cup {n} /\ w[n] = new.amount /\ w[n] \in Int
    BY <1>1, <1>6 DEF Payment
  <2> HIDE DEF S, T, v, w, n, more
  <2>2. SumFunctionOnSet(w, S \cup {n}) = SumFunctionOnSet(v, S) + w[n]
    <3>1. IsFiniteSet(S) /\ n \notin S /\ w[n] \in Int
      BY <1>3, <1>4, <2>1
    <3>2. \A q \in S : v[q] \in Int /\ w[q] = v[q]
      BY <1>5
    <3> QED BY <3>1, <3>2, SumOneMore, Zenon
  <2>3. SumFunctionOnSet(w, T) = SumFunctionOnSet(v, S) + w[n]
    BY <2>1, <2>2, Zenon
  <2>4. PaidOf(more, i) = PaidOf(list, i) + new.amount
    BY <1>2, <2>1, <2>3
  <2> QED BY <1>6, <2>4 DEF more
<1>7. CASE new.inv # i
  <2>1. T = S
    BY <1>1, <1>7
  <2> HIDE DEF S, T, v, w, n, more
  <2>2. SumFunctionOnSet(v, S) = SumFunctionOnSet(w, S)
    BY <1>3, <1>5, SumSame
  <2>3. PaidOf(more, i) = PaidOf(list, i)
    BY <1>2, <2>1, <2>2, Zenon
  <2> QED BY <1>3, <1>7, <2>3 DEF more
<1> QED BY <1>6, <1>7

----------------------------------------------------------------------------
(* Every step does one of six things to the store.                         *)

InvoicesSound ==
    /\ invoices \in Seq(Invoice) /\ payments \in Seq(Payment)
    /\ \A p \in DOMAIN payments : payments[p].inv \in DOMAIN invoices
    /\ \A i \in DOMAIN invoices : Len(invoices[i].lines) <= Bound["lines"]
    /\ StatusMatchesMoney
    /\ HourBilledOnce

(* The lines a draft gets keep its hours on a line each, and add none that *)
(* is billed already.                                                      *)
HoursKept(i, lines) ==
    \A k \in DOMAIN lines : lines[k].hour # NoHour =>
        /\ \A l \in DOMAIN lines : lines[l].hour = lines[k].hour => l = k
        /\ lines[k].hour \in BilledEntryIds(invoices[i].matter) =>
              \E l \in DOMAIN invoices[i].lines : invoices[i].lines[l].hour = lines[k].hour

Relined(i, lines) ==
    /\ invoices[i].status = "draft" /\ Len(lines) <= Bound["lines"] /\ HoursKept(i, lines)
    /\ invoices' = [invoices EXCEPT ![i].lines = lines]
    /\ UNCHANGED payments

StatusStep(i) == (StoreSend(i) \/ StoreVoid(i)) /\ UNCHANGED payments

BillStep ==
    \/ UNCHANGED invoiceVars
    \/ \E m \in Matters : StoreCreateDraft(m) /\ UNCHANGED payments
    \/ \E i \in DOMAIN invoices, lines \in Seq(Line) : Relined(i, lines)
    \/ \E i \in DOMAIN invoices : StatusStep(i)
    \/ \E i \in DOMAIN invoices, amount \in Int, method \in Methods, ref \in Ref :
            StoreRecordPayment(i, amount, method, ref)

LEMMA BilledIs ==
    \A h, m : h \in BilledEntryIds(m) <=>
        /\ h # NoHour
        /\ \E i \in DOMAIN invoices :
              /\ invoices[i].matter = m /\ invoices[i].status # "void"
              /\ \E k \in DOMAIN invoices[i].lines : invoices[i].lines[k].hour = h
BY DEF BilledEntryIds, ToSet

Agrees(status, paid, total) ==
    /\ status = "partially_paid" => 0 < paid /\ paid < total
    /\ status = "paid" => 0 < paid /\ paid = total
    /\ status \notin {"partially_paid", "paid"} => paid = 0

LEMMA StatusIs ==
    /\ StatusMatchesMoney <=>
          \A i \in DOMAIN invoices :
              Agrees(invoices[i].status, PaidOf(payments, i), TotalOf(invoices[i].lines))
    /\ StatusMatchesMoney' <=>
          \A i \in DOMAIN invoices' :
              Agrees(invoices'[i].status, PaidOf(payments', i), TotalOf(invoices'[i].lines))
<1>1. ASSUME NEW status, NEW paid, NEW total
      PROVE  (CASE status = "partially_paid" -> 0 < paid /\ paid < total
                [] status = "paid" -> 0 < paid /\ paid = total
                [] OTHER -> paid = 0) <=> Agrees(status, paid, total)
  BY DEF Agrees
<1> QED BY <1>1, MoneyIs DEF StatusMatchesMoney

(* What no step takes back: an invoice and its matter, a payment, and from *)
(* sending on the lines of an invoice and the order of its statuses.       *)
LaterStatuses == {<<"sent", "partially_paid">>, <<"sent", "paid">>, <<"sent", "void">>,
                  <<"partially_paid", "paid">>}

Kept(i) ==
    /\ i \in DOMAIN invoices' /\ invoices'[i].matter = invoices[i].matter
    /\ invoices[i].status # "draft" =>
          /\ invoices'[i].lines = invoices[i].lines
          /\ \/ invoices'[i].status = invoices[i].status
             \/ <<invoices[i].status, invoices'[i].status>> \in LaterStatuses

BillsGrow ==
    /\ \A i \in DOMAIN invoices : Kept(i)
    /\ \A p \in DOMAIN payments : p \in DOMAIN payments' /\ payments'[p] = payments[p]

(* One invoice changes.                                                    *)
LEMMA OneInvoiceChanges ==
    ASSUME InvoicesSound, NEW i \in DOMAIN invoices, NEW new \in Invoice,
           invoices' = [invoices EXCEPT ![i] = new]
    PROVE  /\ invoices' \in Seq(Invoice) /\ DOMAIN invoices' = DOMAIN invoices
           /\ invoices'[i] = new
           /\ \A j \in DOMAIN invoices : j # i => invoices'[j] = invoices[j]
<1>1. invoices \in Seq(Invoice)
  BY DEF InvoicesSound
<1> QED BY <1>1

(* Hours stay billed once where an invoice keeps its lines or is voided.   *)
LEMMA HoursStay ==
    ASSUME HourBilledOnce, DOMAIN invoices' = DOMAIN invoices,
           \A j \in DOMAIN invoices :
              /\ invoices'[j].matter = invoices[j].matter
              /\ invoices'[j].lines = invoices[j].lines
              /\ invoices[j].status = "void" => invoices'[j].status = "void"
    PROVE  HourBilledOnce'
BY DEF HourBilledOnce

LEMMA CreatingIsSound ==
    ASSUME InvoicesSound, NEW m \in Matters, StoreCreateDraft(m), UNCHANGED payments
    PROVE  InvoicesSound' /\ BillsGrow
<1> DEFINE new == [matter |-> m, status |-> "draft", lines |-> <<>>]
           n == Len(invoices) + 1
<1>1. invoices \in Seq(Invoice) /\ payments \in Seq(Payment) /\ Bound["lines"] \in Nat
  BY InvoicingAssumption DEF InvoicesSound, Kinds
<1>2. new \in Invoice /\ invoices' = Append(invoices, new) /\ payments' = payments
  BY DEF Invoice, Statuses, StoreCreateDraft
<1>3. /\ DOMAIN invoices = 1 .. Len(invoices) /\ DOMAIN invoices' = 1 .. n /\ Len(invoices) \in Nat
      /\ invoices'[n] = new /\ \A j \in DOMAIN invoices : invoices'[j] = invoices[j]
      /\ invoices' \in Seq(Invoice)
  BY <1>1, <1>2
<1>4. \A p \in DOMAIN payments : payments[p].inv \in DOMAIN invoices
  BY DEF InvoicesSound
<1>5. StatusMatchesMoney'
  <2>1. \A j \in DOMAIN invoices' : j \in DOMAIN invoices \/ j = n
    BY <1>3
  <2>2. \A j \in DOMAIN invoices :
           Agrees(invoices'[j].status, PaidOf(payments', j), TotalOf(invoices'[j].lines))
    BY <1>2, <1>3, StatusIs DEF InvoicesSound
  <2>3. {q \in DOMAIN payments : payments[q].inv = n} = {}
    BY <1>3, <1>4
  <2>4. PaidOf(payments', n) = 0
    BY <1>1, <1>2, <2>3, PaymentsAreFinite
  <2>5. Agrees(invoices'[n].status, PaidOf(payments', n), TotalOf(invoices'[n].lines))
    BY <1>3, <2>4 DEF Agrees
  <2> QED BY <2>1, <2>2, <2>5, StatusIs
<1>6. HourBilledOnce'
  <2>1. DOMAIN invoices'[n].lines = {}
    BY <1>3
  <2>2. HourBilledOnce /\ \A j \in DOMAIN invoices' : j \in DOMAIN invoices \/ j = n
    BY <1>3 DEF InvoicesSound
  <2> HIDE DEF new, n
  <2> QED BY <1>3, <2>1, <2>2 DEF HourBilledOnce
<1>7. \A j \in DOMAIN invoices' : Len(invoices'[j].lines) <= Bound["lines"]
  BY <1>1, <1>3 DEF InvoicesSound
<1>9. DOMAIN invoices \subseteq DOMAIN invoices'
  BY <1>3
<1> HIDE DEF new, n
<1>8. BillsGrow
  <2>1. \A j \in DOMAIN invoices : j \in DOMAIN invoices' /\ invoices'[j] = invoices[j]
    BY <1>3, <1>9
  <2> QED BY <1>2, <2>1 DEF BillsGrow, Kept
<1> QED BY <1>1, <1>2, <1>3, <1>4, <1>5, <1>6, <1>7, <1>8, <1>9 DEF InvoicesSound

LEMMA RelineIsSound ==
    ASSUME InvoicesSound, NEW i \in DOMAIN invoices, NEW lines \in Seq(Line), Relined(i, lines)
    PROVE  InvoicesSound' /\ BillsGrow
<1> DEFINE new == [invoices[i] EXCEPT !.lines = lines]
<1>1. invoices \in Seq(Invoice) /\ payments \in Seq(Payment) /\ invoices[i] \in Invoice
  BY DEF InvoicesSound
<1>2. /\ new \in Invoice /\ new.lines = lines /\ new.status = "draft"
      /\ new.matter = invoices[i].matter /\ invoices[i].status = "draft"
  BY <1>1 DEF Invoice, Relined
<1>3. invoices' = [invoices EXCEPT ![i] = new] /\ payments' = payments
  BY DEF Relined
<1> HIDE DEF new
<1>4. /\ invoices' \in Seq(Invoice) /\ DOMAIN invoices' = DOMAIN invoices
      /\ invoices'[i] = new
      /\ \A j \in DOMAIN invoices : j # i => invoices'[j] = invoices[j]
  BY <1>2, <1>3, OneInvoiceChanges
<1>5. StatusMatchesMoney'
  <2>1. \A j \in DOMAIN invoices :
           Agrees(invoices[j].status, PaidOf(payments, j), TotalOf(invoices[j].lines))
    BY StatusIs DEF InvoicesSound
  <2>2. Agrees(invoices'[i].status, PaidOf(payments', i), TotalOf(invoices'[i].lines))
    BY <1>2, <1>3, <1>4, <2>1 DEF Agrees
  <2> QED BY <1>3, <1>4, <2>1, <2>2, StatusIs
<1>6. HourBilledOnce'
  <2> SUFFICES ASSUME NEW a \in DOMAIN invoices, NEW b \in DOMAIN invoices,
                      invoices'[a].status # "void", invoices'[b].status # "void",
                      NEW k \in DOMAIN invoices'[a].lines, NEW l \in DOMAIN invoices'[b].lines,
                      invoices'[a].matter = invoices'[b].matter,
                      invoices'[a].lines[k].hour # NoHour,
                      invoices'[a].lines[k].hour = invoices'[b].lines[l].hour
               PROVE  a = b /\ k = l
    BY <1>4 DEF HourBilledOnce
  <2>1. HourBilledOnce
    BY DEF InvoicesSound
  <2>2. HoursKept(i, lines)
    BY DEF Relined
  <2>3. ASSUME NEW c \in DOMAIN invoices, c # i, invoices[c].status # "void",
               invoices[c].matter = invoices[i].matter,
               NEW x \in DOMAIN lines, NEW y \in DOMAIN invoices[c].lines,
               lines[x].hour # NoHour, lines[x].hour = invoices[c].lines[y].hour
        PROVE  FALSE
    <3>1. lines[x].hour \in BilledEntryIds(invoices[i].matter)
      BY <2>3, BilledIs
    <3>2. PICK z \in DOMAIN invoices[i].lines : invoices[i].lines[z].hour = lines[x].hour
      BY <2>2, <2>3, <3>1 DEF HoursKept
    <3> QED BY <1>2, <2>1, <2>3, <3>2 DEF HourBilledOnce
  <2>4. CASE a = i /\ b = i
    BY <1>2, <1>4, <2>2, <2>4 DEF HoursKept
  <2>5. CASE a = i /\ b # i
    BY <1>2, <1>4, <2>3, <2>5
  <2>6. CASE a # i /\ b = i
    BY <1>2, <1>4, <2>3, <2>6
  <2>7. CASE a # i /\ b # i
    BY <1>4, <2>1, <2>7 DEF HourBilledOnce
  <2> QED BY <2>4, <2>5, <2>6, <2>7
<1>7. \A j \in DOMAIN invoices' : Len(invoices'[j].lines) <= Bound["lines"]
  BY <1>2, <1>4 DEF InvoicesSound, Relined
<1>8. BillsGrow
  BY <1>2, <1>3, <1>4 DEF BillsGrow, Kept
<1> QED BY <1>1, <1>3, <1>4, <1>5, <1>6, <1>7, <1>8 DEF InvoicesSound

LEMMA StatusIsSound ==
    ASSUME InvoicesSound, NEW i \in DOMAIN invoices, StatusStep(i)
    PROVE  InvoicesSound' /\ BillsGrow
<1> DEFINE to == IF StoreSend(i) THEN "sent" ELSE "void"
           new == [invoices[i] EXCEPT !.status = to]
<1>1. invoices \in Seq(Invoice) /\ payments \in Seq(Payment) /\ invoices[i] \in Invoice
  BY DEF InvoicesSound
<1>2. /\ new \in Invoice /\ new.lines = invoices[i].lines /\ new.status = to
      /\ new.matter = invoices[i].matter
  BY <1>1 DEF Invoice, Statuses
<1>3. invoices' = [invoices EXCEPT ![i] = new] /\ payments' = payments
  BY DEF StatusStep, StoreSend, StoreVoid
<1>4. \/ to = "sent" /\ invoices[i].status = "draft"
      \/ to = "void" /\ PaymentsFor(i) = {} /\ invoices[i].status # "void"
  BY DEF StatusStep, StoreSend, StoreVoid, CanSend
<1> HIDE DEF new, to
<1>5. /\ invoices' \in Seq(Invoice) /\ DOMAIN invoices' = DOMAIN invoices
      /\ invoices'[i] = new
      /\ \A j \in DOMAIN invoices : j # i => invoices'[j] = invoices[j]
  BY <1>2, <1>3, OneInvoiceChanges
<1>6. \A j \in DOMAIN invoices :
         Agrees(invoices[j].status, PaidOf(payments, j), TotalOf(invoices[j].lines))
  BY StatusIs DEF InvoicesSound
<1>7. PaidOf(payments, i) = 0 /\ invoices[i].status \in {"draft", "sent"}
  <2>1. PaymentsFor(i) = {} => PaidOf(payments, i) = 0
    BY <1>1, PaymentsAreFinite DEF PaymentsFor
  <2>2. PaidOf(payments, i) = 0
    BY <1>4, <1>6, <2>1 DEF Agrees
  <2>3. invoices[i].status \notin {"partially_paid", "paid"}
    BY <1>6, <2>2 DEF Agrees
  <2> QED BY <1>1, <1>4, <2>2, <2>3 DEF Invoice, Statuses
<1>8. StatusMatchesMoney'
  <2>1. Agrees(invoices'[i].status, PaidOf(payments', i), TotalOf(invoices'[i].lines))
    BY <1>2, <1>3, <1>4, <1>5, <1>7 DEF Agrees
  <2> QED BY <1>3, <1>5, <1>6, <2>1, StatusIs
<1>9. \A j \in DOMAIN invoices :
         /\ invoices'[j].matter = invoices[j].matter
         /\ invoices'[j].lines = invoices[j].lines
         /\ invoices[j].status = "void" => invoices'[j].status = "void"
  BY <1>2, <1>5, <1>7
<1>10. HourBilledOnce'
  BY <1>5, <1>9, HoursStay DEF InvoicesSound
<1>11. BillsGrow
  <2>1. <<invoices[i].status, invoices'[i].status>> \in LaterStatuses \/ invoices[i].status = "draft"
    BY <1>2, <1>4, <1>5, <1>7 DEF LaterStatuses
  <2> QED BY <1>3, <1>5, <1>9, <2>1 DEF BillsGrow, Kept
<1> QED BY <1>1, <1>3, <1>5, <1>8, <1>9, <1>10, <1>11 DEF InvoicesSound

(* Recording a payment: what it appends, and the status it leads to.       *)
LEMMA PaymentIsSound ==
    ASSUME InvoicesSound, NEW i \in DOMAIN invoices, NEW amount \in Int,
           NEW method \in Methods, NEW ref \in Ref, StoreRecordPayment(i, amount, method, ref)
    PROVE  /\ InvoicesSound' /\ BillsGrow
           /\ amount > 0 /\ amount <= TotalOf(invoices[i].lines) - PaidOf(payments, i)
           /\ invoices[i].status \in {"sent", "partially_paid"}
           /\ invoices'[i].status \in {"partially_paid", "paid"}
           /\ DOMAIN invoices' = DOMAIN invoices /\ invoices'[i].lines = invoices[i].lines
           /\ \A j \in DOMAIN invoices : j # i => invoices'[j] = invoices[j]
<1> DEFINE new == [inv |-> i, amount |-> amount, method |-> method, ref |-> ref]
           to == IF Paid(i) + amount >= Total(i) THEN "paid" ELSE "partially_paid"
           inew == [invoices[i] EXCEPT !.status = to]
           T == TotalOf(invoices[i].lines)
           P == PaidOf(payments, i)
<1>1. /\ invoices \in Seq(Invoice) /\ payments \in Seq(Payment) /\ invoices[i] \in Invoice
      /\ i \in Nat
  BY DEF InvoicesSound
<1>2. /\ inew \in Invoice /\ inew.lines = invoices[i].lines /\ inew.status = to
      /\ inew.matter = invoices[i].matter
  BY <1>1 DEF Invoice, Statuses
<1>3. /\ invoices' = [invoices EXCEPT ![i] = inew] /\ payments' = Append(payments, new)
      /\ invoices[i].status \in Issued /\ amount > 0 /\ amount <= Balance(i)
  BY DEF StoreRecordPayment, CanRecordPayment
<1>4. /\ T \in Nat /\ P \in Nat /\ amount <= T - P
      /\ to = IF P + amount >= T THEN "paid" ELSE "partially_paid"
  BY <1>1, <1>3, MoneyIs, TotalIsNat, PaymentsAreFinite DEF Invoice
<1>5. new \in Payment /\ new.inv = i /\ new.amount = amount
  BY <1>1, <1>3 DEF Payment
<1> HIDE DEF new, to, inew, T, P
<1>6. /\ invoices' \in Seq(Invoice) /\ DOMAIN invoices' = DOMAIN invoices
      /\ invoices'[i] = inew
      /\ \A j \in DOMAIN invoices : j # i => invoices'[j] = invoices[j]
  BY <1>2, <1>3, OneInvoiceChanges
<1>7. /\ payments' \in Seq(Payment) /\ DOMAIN payments' = DOMAIN payments \cup {Len(payments) + 1}
      /\ payments'[Len(payments) + 1] = new
      /\ \A p \in DOMAIN payments : payments'[p] = payments[p]
  BY <1>1, <1>3, <1>5
<1>8. \A j \in DOMAIN invoices :
         Agrees(invoices[j].status, PaidOf(payments, j), TotalOf(invoices[j].lines))
  BY StatusIs DEF InvoicesSound
<1>9. invoices[i].status \in {"sent", "partially_paid"} /\ to \in {"partially_paid", "paid"}
  BY <1>3, <1>4, <1>8 DEF Agrees, Issued, T, P, to
<1>10. StatusMatchesMoney'
  <2>1. \A j \in DOMAIN invoices : j # i => PaidOf(payments', j) = PaidOf(payments, j)
    <3> SUFFICES ASSUME NEW j \in DOMAIN invoices, j # i
                 PROVE  PaidOf(payments', j) = PaidOf(payments, j)
      OBVIOUS
    <3>1. PaidOf(Append(payments, new), j) = PaidOf(payments, j) + IF new.inv = j THEN new.amount ELSE 0
      BY <1>1, <1>5, PaidOneMore
    <3>2. PaidOf(payments, j) \in Nat
      BY <1>1, PaymentsAreFinite
    <3> QED BY <1>3, <1>5, <3>1, <3>2
  <2>2. PaidOf(payments', i) = P + amount
    BY <1>1, <1>3, <1>5, PaidOneMore DEF P
  <2>3. Agrees(to, P + amount, T)
    BY <1>3, <1>4 DEF Agrees
  <2>4. Agrees(invoices'[i].status, PaidOf(payments', i), TotalOf(invoices'[i].lines))
    BY <1>2, <1>6, <2>2, <2>3 DEF T
  <2> QED BY <1>6, <1>8, <2>1, <2>4, StatusIs
<1>11. HourBilledOnce'
  <2>1. \A j \in DOMAIN invoices :
           /\ invoices'[j].matter = invoices[j].matter
           /\ invoices'[j].lines = invoices[j].lines
           /\ invoices[j].status = "void" => invoices'[j].status = "void"
    BY <1>2, <1>6, <1>9
  <2>2. HourBilledOnce /\ DOMAIN invoices' = DOMAIN invoices
    BY <1>6 DEF InvoicesSound
  <2> QED BY <2>1, <2>2, HoursStay
<1>12. BillsGrow
  <2>1. \/ <<invoices[i].status, invoices'[i].status>> \in LaterStatuses
        \/ invoices'[i].status = invoices[i].status
    BY <1>2, <1>6, <1>9 DEF LaterStatuses
  <2> QED BY <1>2, <1>6, <1>7, <2>1 DEF BillsGrow, Kept
<1>13. /\ \A p \in DOMAIN payments' : payments'[p].inv \in DOMAIN invoices'
       /\ \A j \in DOMAIN invoices' : Len(invoices'[j].lines) <= Bound["lines"]
  BY <1>2, <1>5, <1>6, <1>7 DEF InvoicesSound
<1>14. InvoicesSound'
  BY <1>6, <1>7, <1>10, <1>11, <1>13 DEF InvoicesSound
<1> QED BY <1>2, <1>3, <1>4, <1>6, <1>9, <1>12, <1>14 DEF T, P

LEMMA BillStepIsSound == InvoicesSound /\ BillStep => InvoicesSound' /\ BillsGrow
<1> SUFFICES ASSUME InvoicesSound, BillStep PROVE InvoicesSound' /\ BillsGrow
  OBVIOUS
<1>1. CASE UNCHANGED invoiceVars
  <2>1. invoices' = invoices /\ payments' = payments
    BY <1>1 DEF invoiceVars
  <2>2. InvoicesSound'
    BY <2>1, StatusIs DEF InvoicesSound, HourBilledOnce
  <2> QED BY <2>1, <2>2 DEF BillsGrow, Kept
<1> QED BY <1>1, CreatingIsSound, RelineIsSound, StatusIsSound, PaymentIsSound DEF BillStep

----------------------------------------------------------------------------
(* What the three operations on lines make of a draft's lines.             *)

(* The hours on the lines of a draft are billed, and on one line each.     *)
LEMMA DraftHours ==
    ASSUME InvoicesSound, NEW i \in DOMAIN invoices, invoices[i].status = "draft"
    PROVE  \A k \in DOMAIN invoices[i].lines : invoices[i].lines[k].hour # NoHour =>
              /\ invoices[i].lines[k].hour \in BilledEntryIds(invoices[i].matter)
              /\ \A l \in DOMAIN invoices[i].lines :
                    invoices[i].lines[l].hour = invoices[i].lines[k].hour => l = k
<1>1. HourBilledOnce
  BY DEF InvoicesSound
<1>2. ASSUME NEW k \in DOMAIN invoices[i].lines, invoices[i].lines[k].hour # NoHour,
             NEW l \in DOMAIN invoices[i].lines,
             invoices[i].lines[l].hour = invoices[i].lines[k].hour
      PROVE  l = k
  BY <1>1, <1>2 DEF HourBilledOnce
<1> QED BY <1>2, BilledIs

(* Lines of hours that were not billed, one line an hour, can be added.    *)
LEMMA AddingRelines ==
    ASSUME InvoicesSound, NEW i \in DOMAIN invoices, NEW more \in Seq(Line),
           StoreAddLines(i, more), UNCHANGED payments,
           Len(invoices[i].lines) + Len(more) <= Bound["lines"],
           \A k \in DOMAIN more : more[k].hour # NoHour =>
              /\ more[k].hour \notin BilledEntryIds(invoices[i].matter)
              /\ \A l \in DOMAIN more : more[l].hour = more[k].hour => l = k
    PROVE  BillStep
<1> DEFINE old == invoices[i].lines
           lines == old \o more
           n == Len(old)
<1>1. invoices[i].status = "draft" /\ invoices' = [invoices EXCEPT ![i].lines = lines]
  <2>1. invoices[i].status = "draft" /\ invoices' = [invoices EXCEPT ![i].lines = @ \o more]
    BY DEF StoreAddLines
  <2> QED BY <2>1
<1>2. old \in Seq(Line)
  <2>1. invoices[i] \in Invoice
    BY DEF InvoicesSound
  <2> QED BY <2>1 DEF Invoice
<1>3. \A k \in DOMAIN old : old[k].hour # NoHour =>
         /\ old[k].hour \in BilledEntryIds(invoices[i].matter)
         /\ \A l \in DOMAIN old : old[l].hour = old[k].hour => l = k
  BY <1>1, DraftHours
<1>4. Len(old) + Len(more) <= Bound["lines"]
  OBVIOUS
<1> HIDE DEF old
<1>5. /\ lines \in Seq(Line) /\ Len(lines) = n + Len(more) /\ n \in Nat /\ Len(more) \in Nat
      /\ DOMAIN old = 1 .. n /\ DOMAIN more = 1 .. Len(more) /\ DOMAIN lines = 1 .. (n + Len(more))
      /\ \A k \in 1 .. n : lines[k] = old[k]
      /\ \A k \in (n + 1) .. (n + Len(more)) : lines[k] = more[k - n] /\ k - n \in DOMAIN more
  BY <1>2
<1> HIDE DEF lines, n
<1>6. ASSUME NEW k \in DOMAIN lines, lines[k].hour # NoHour
      PROVE  /\ \A l \in DOMAIN lines : lines[l].hour = lines[k].hour => l = k
             /\ lines[k].hour \in BilledEntryIds(invoices[i].matter) =>
                   \E l \in DOMAIN old : old[l].hour = lines[k].hour
  <2>1. CASE k \in 1 .. n
    <3>1. lines[k] = old[k] /\ k \in DOMAIN old
      BY <1>5, <2>1
    <3>2. ASSUME NEW l \in DOMAIN lines, lines[l].hour = lines[k].hour
          PROVE  l = k
      <4>1. CASE l \in 1 .. n
        BY <1>3, <1>5, <1>6, <3>1, <3>2, <4>1
      <4>2. CASE l \in (n + 1) .. (n + Len(more))
        BY <1>3, <1>5, <1>6, <3>1, <3>2, <4>2
      <4> QED BY <1>5, <4>1, <4>2
    <3> QED BY <3>1, <3>2
  <2>2. CASE k \in (n + 1) .. (n + Len(more))
    <3>1. lines[k] = more[k - n] /\ k - n \in DOMAIN more
      BY <1>5, <2>2
    <3>2. ASSUME NEW l \in DOMAIN lines, lines[l].hour = lines[k].hour
          PROVE  l = k
      <4>1. CASE l \in 1 .. n
        BY <1>3, <1>5, <1>6, <3>1, <3>2, <4>1
      <4>2. CASE l \in (n + 1) .. (n + Len(more))
        <5>1. lines[l] = more[l - n] /\ l - n \in DOMAIN more
          BY <1>5, <4>2
        <5>2. l - n = k - n
          BY <1>6, <3>1, <3>2, <5>1
        <5> QED BY <1>5, <2>2, <4>2, <5>2
      <4> QED BY <1>5, <4>1, <4>2
    <3> QED BY <1>6, <3>1, <3>2
  <2> QED BY <1>5, <2>1, <2>2
<1>7. Relined(i, lines)
  BY <1>1, <1>4, <1>5, <1>6 DEF Relined, HoursKept, old, n
<1> QED BY <1>5, <1>7 DEF BillStep

LEMMA RemovingRelines ==
    ASSUME InvoicesSound, NEW i \in DOMAIN invoices, NEW k \in DOMAIN invoices[i].lines,
           StoreRemoveLine(i, k), UNCHANGED payments
    PROVE  BillStep
<1> DEFINE old == invoices[i].lines
           lines == RemoveAt(old, k)
           From(j) == IF j < k THEN j ELSE j + 1
<1>1. invoices[i].status = "draft" /\ invoices' = [invoices EXCEPT ![i].lines = lines]
  <2>1. invoices[i].status = "draft" /\ invoices' = [invoices EXCEPT ![i].lines = RemoveAt(@, k)]
    BY DEF StoreRemoveLine
  <2> QED BY <2>1
<1>2. old \in Seq(Line) /\ Len(old) <= Bound["lines"] /\ Bound["lines"] \in Nat
  <2>1. invoices[i] \in Invoice /\ Len(old) <= Bound["lines"]
    BY DEF InvoicesSound
  <2> QED BY <2>1, InvoicingAssumption DEF Invoice, Kinds
<1>3. \A x \in DOMAIN old : old[x].hour # NoHour =>
         \A l \in DOMAIN old : old[l].hour = old[x].hour => l = x
  BY <1>1, DraftHours
<1>4. k \in DOMAIN old
  OBVIOUS
<1> HIDE DEF old
<1>5. /\ lines \in Seq(Line) /\ Len(lines) = Len(old) - 1 /\ Len(old) \in Nat
      /\ \A j \in 1 .. (Len(old) - 1) : lines[j] = IF j < k THEN old[j] ELSE old[j + 1]
  BY <1>2, <1>4, RemovedAt
<1> HIDE DEF lines
<1>6. DOMAIN old = 1 .. Len(old) /\ DOMAIN lines = 1 .. (Len(old) - 1)
  BY <1>2, <1>5
<1>7. \A j \in DOMAIN lines : lines[j] = old[From(j)] /\ From(j) \in DOMAIN old
  BY <1>4, <1>5, <1>6
<1>8. \A j, l \in DOMAIN lines : From(j) = From(l) => j = l
  BY <1>4, <1>5, <1>6
<1> HIDE DEF From
<1>9. Relined(i, lines)
  <2>1. Len(lines) <= Bound["lines"]
    BY <1>2, <1>5
  <2>2. HoursKept(i, lines)
    BY <1>3, <1>7, <1>8 DEF HoursKept, old
  <2> QED BY <1>1, <2>1, <2>2 DEF Relined
<1> QED BY <1>5, <1>9 DEF BillStep

(* The lines that hours become: one an hour id, and not more than hours.   *)
LEMMA LinesOfHours ==
    ASSUME NEW added, IsFiniteSet(added), \A h \in added : h.id \in Nat, NEW amount \in LineAmounts
    PROVE  LET more == SetToSeq({[amount |-> amount, hour |-> h.id] : h \in added})
           IN  /\ more \in Seq(Line) /\ Len(more) <= Cardinality(added)
               /\ \A k \in DOMAIN more :
                     /\ \E h \in added : more[k].hour = h.id
                     /\ \A l \in DOMAIN more : more[l].hour = more[k].hour => l = k
<1> DEFINE X == {[amount |-> amount, hour |-> h.id] : h \in added}
           f == [h \in added |-> [amount |-> amount, hour |-> h.id]]
           more == SetToSeq(X)
<1>1. f \in Surjection(added, X)
  BY DEF Surjection
<1>2. \A x \in X : x \in Line /\ x.amount = amount /\ \E h \in added : x.hour = h.id
  BY DEF Line
<1>3. \A x, y \in X : x.hour = y.hour => x = y
  OBVIOUS
<1> HIDE DEF X, f
<1>4. IsFiniteSet(X) /\ Cardinality(X) <= Cardinality(added)
  BY <1>1, FS_Surjection
<1>5. /\ more \in Seq(X) /\ Len(more) = Cardinality(X)
      /\ \A k, l \in DOMAIN more : more[k] = more[l] => k = l
  BY <1>4, SetToSeqLists
<1> HIDE DEF more
<1>6. \A k \in DOMAIN more : more[k] \in X
  BY <1>5
<1>7. more \in Seq(Line)
  BY <1>2, <1>5, <1>6
<1> QED BY <1>2, <1>3, <1>4, <1>5, <1>6, <1>7 DEF more, X

----------------------------------------------------------------------------
(* The hours and the parties outside.                                      *)

Hour    == [id : Nat \ {0}, matter : Matters, tiny : BOOLEAN]
Session == [inv : Nat, amount : Nat \ {0}, intent : BOOLEAN,
            state : {"open", "paid", "answered"}]
Charge  == [inv : Nat, amount : PayAmounts,
            state : {"asked", "taken", "declined", "recorded", "unrecorded"}]
Mail    == [inv : Nat, kind : {"invoice", "reminder"}, lines : Seq(Line),
            state : {"sending", "accepted", "failed", "recorded", "unrecorded"}]

OutsideTypeOK ==
    /\ hours \subseteq Hour /\ IsFiniteSet(hours) /\ nextHour \in Nat \ {0}
    /\ sessions \in Seq(Session) /\ charges \in Seq(Charge) /\ mail \in Seq(Mail)

(* Whatever waits for an answer from outside is about an invoice that is   *)
(* there, and a checkout session about one that was sent.                  *)
PointersOK ==
    /\ \A s \in DOMAIN sessions :
          /\ sessions[s].inv \in DOMAIN invoices
          /\ invoices[sessions[s].inv].status # "draft"
    /\ \A c \in DOMAIN charges : charges[c].inv \in DOMAIN invoices
    /\ \A n \in DOMAIN mail : mail[n].inv \in DOMAIN invoices

(* Entries are kept and no transfer of earned fees is among the new ones.  *)
NoTransferCame ==
    /\ \A e \in DOMAIN entries : e \in DOMAIN entries' /\ entries'[e] = entries[e]
    /\ \A e \in DOMAIN entries' \ DOMAIN entries : entries'[e].type # "earned_fee_transfer"

SessionStep ==
    \/ \E actor \in Actors, m \in Matters, i \in DOMAIN invoices : CreateCheckoutSession(actor, m, i)
    \/ \E s \in DOMAIN sessions, intent \in BOOLEAN : ClientPays(s, intent)

MoneyStep ==
    \/ UNCHANGED <<payments, sessions>> /\ NoTransferCame
    \/ UNCHANGED <<entries, payments>> /\ SessionStep
    \/ /\ UNCHANGED <<entries, sessions>>
       /\ \E i \in DOMAIN invoices, amount \in Int, method \in {"manual", "card"}, ref \in Ref :
             ref.kind \in {"none", "given", "processor"} /\ StoreRecordPayment(i, amount, method, ref)
    \/ \E actor \in Actors, m \in Matters, i \in DOMAIN invoices, amount \in PayAmounts :
             PayFromTrust(actor, m, i, amount)
    \/ \E s \in DOMAIN sessions : Webhook(s)

(* The step a payment from trust takes: the store never refuses it.        *)
LEMMA TrustPaymentIs ==
    ASSUME InvoicesSound, NEW actor, NEW m \in Matters, NEW i \in DOMAIN invoices,
           NEW amount \in PayAmounts, PayFromTrust(actor, m, i, amount)
    PROVE  /\ actor \in Attorneys /\ invoices[i].matter = m
           /\ LedgerRecord(actor, m, "earned_fee_transfer", amount)
           /\ StoreRecordPayment(i, amount, "trust_application",
                                 [kind |-> "trust", id |-> Len(entries) + 1])
           /\ UNCHANGED <<accessVars, sessions>>
<1>1. invoices[i] \in Invoice
  BY DEF InvoicesSound
<1>2. /\ actor \in Attorneys /\ i \in InvoicesOf(m) /\ UNCHANGED <<accessVars, outsideVars>>
      /\ TrustTransfer(actor, m, i, amount)
      /\ invoices[i].status \notin {"draft", "void"} /\ amount <= Balance(i)
  BY DEF PayFromTrust
<1>3. LedgerRecord(actor, m, "earned_fee_transfer", amount) /\ amount > 0
  BY <1>2 DEF TrustTransfer, LedgerRecord
<1>4. CanRecordPayment(i, amount)
  BY <1>1, <1>2, <1>3 DEF CanRecordPayment, Issued, Invoice, Statuses
<1> QED BY <1>2, <1>3, <1>4 DEF TrustTransfer, InvoicesOf, outsideVars

(* A step of the ledger's own brings in a deposit or a reversal.           *)
LEMMA LedgerBringsNoTransfer ==
    ASSUME NEW actor, NEW m, LedgerNext(actor, m), entries \in Seq(Entry)
    PROVE  NoTransferCame
<1>1. PICK e : entries' = Append(entries, e) /\ e.type # "earned_fee_transfer"
  <2>1. CASE \E amount \in Amounts : RecordEntry(actor, m, "deposit", amount)
    BY <2>1 DEF RecordEntry, LedgerRecord, AppendEntry
  <2>2. CASE \E i \in DOMAIN entries : ReverseEntry(actor, m, i)
    BY <2>2 DEF ReverseEntry, LedgerReverse, AppendEntry
  <2> QED BY <2>1, <2>2 DEF LedgerNext
<1>2. /\ DOMAIN entries = 1 .. Len(entries) /\ Len(entries) \in Nat
      /\ DOMAIN entries' = 1 .. (Len(entries) + 1) /\ entries'[Len(entries) + 1] = e
      /\ \A x \in DOMAIN entries : entries'[x] = entries[x]
  BY <1>1
<1> QED BY <1>1, <1>2 DEF NoTransferCame

LEMMA NothingCame == UNCHANGED entries => NoTransferCame
BY DEF NoTransferCame

LEMMA DraftingSteps ==
    ASSUME InvoicesSound, OutsideTypeOK, NEW actor \in Actors, NEW m \in Matters,
           DraftingNext(actor, m)
    PROVE  BillStep /\ MoneyStep
<1>0. UNCHANGED <<entries, payments, sessions>>
  BY DEF DraftingNext, LogHours, DeleteEntry, CreateDraft, AddLineItem, AddTimeFromBillingHours,
         RemoveLineItem, SendInvoice, VoidInvoice, trustVars, invoiceVars, outsideVars
<1>1. MoneyStep
  BY <1>0, NothingCame DEF MoneyStep
<1>2. ASSUME \/ \E tiny \in BOOLEAN : LogHours(actor, m, tiny)
             \/ \E h \in hours : DeleteEntry(actor, m, h)
             \/ CreateDraft(actor, m)
      PROVE  BillStep
  BY <1>2 DEF LogHours, DeleteEntry, CreateDraft, BillStep
<1>3. ASSUME NEW i \in DOMAIN invoices, SendInvoice(actor, m, i) \/ VoidInvoice(actor, m, i)
      PROVE  BillStep
  BY <1>3 DEF SendInvoice, VoidInvoice, StatusStep, BillStep
<1>4. ASSUME NEW i \in DOMAIN invoices, NEW k \in DOMAIN invoices[i].lines,
             RemoveLineItem(actor, m, i, k)
      PROVE  BillStep
  BY <1>4, RemovingRelines DEF RemoveLineItem
<1>5. ASSUME NEW i \in DOMAIN invoices, NEW amount \in LineAmounts, AddLineItem(actor, m, i, amount)
      PROVE  BillStep
  <2> DEFINE more == <<[amount |-> amount, hour |-> NoHour]>>
  <2>1. /\ StoreAddLines(i, more) /\ UNCHANGED payments
        /\ Len(invoices[i].lines) < Bound["lines"]
    BY <1>5 DEF AddLineItem, Room
  <2>2. more \in Seq(Line) /\ Len(more) = 1 /\ DOMAIN more = {1} /\ more[1].hour = NoHour
    BY DEF Line, NoHour
  <2>3. Len(invoices[i].lines) + Len(more) <= Bound["lines"]
    <3>1. invoices[i] \in Invoice /\ Bound["lines"] \in Nat
      BY InvoicingAssumption DEF InvoicesSound, Kinds
    <3>2. Len(invoices[i].lines) \in Nat
      BY <3>1 DEF Invoice
    <3> QED BY <2>1, <2>2, <3>1, <3>2
  <2> HIDE DEF more
  <2> QED BY <2>1, <2>2, <2>3, AddingRelines
<1>6. ASSUME NEW i \in DOMAIN invoices, NEW amount \in LineAmounts,
             AddTimeFromBillingHours(actor, m, i, amount)
      PROVE  BillStep
  <2>1. PICK added \in SUBSET {h \in HoursOf(m) : h.id \notin BilledEntryIds(m)} :
           /\ Room("lines", Len(invoices[i].lines) + Cardinality(added) - 1)
           /\ StoreAddLines(i, SetToSeq({[amount |-> amount, hour |-> h.id] : h \in added}))
    BY <1>6 DEF AddTimeFromBillingHours
  <2>2. i \in InvoicesOf(m) /\ UNCHANGED payments
    BY <1>6 DEF AddTimeFromBillingHours
  <2> DEFINE more == SetToSeq({[amount |-> amount, hour |-> h.id] : h \in added})
  <2>3. /\ added \subseteq hours /\ IsFiniteSet(added) /\ Cardinality(added) \in Nat
        /\ \A h \in added : h.id \in Nat /\ h.id \notin BilledEntryIds(m)
    <3>1. added \in SUBSET hours
      BY DEF HoursOf
    <3>2. IsFiniteSet(added)
      BY <3>1, FS_Subset DEF OutsideTypeOK
    <3> QED BY <3>1, <3>2, FS_CardinalityType DEF OutsideTypeOK, Hour
  <2>4. /\ more \in Seq(Line) /\ Len(more) <= Cardinality(added)
        /\ \A k \in DOMAIN more :
              /\ \E h \in added : more[k].hour = h.id
              /\ \A l \in DOMAIN more : more[l].hour = more[k].hour => l = k
    BY <2>3, LinesOfHours
  <2>5. StoreAddLines(i, more) /\ invoices[i].matter = m
    BY <2>1, <2>2 DEF InvoicesOf
  <2>6. Len(invoices[i].lines) + Cardinality(added) - 1 < Bound["lines"]
    BY <2>1 DEF Room
  <2> HIDE DEF more
  <2>7. Len(invoices[i].lines) + Len(more) <= Bound["lines"]
    <3>1. invoices[i] \in Invoice /\ Bound["lines"] \in Nat
      BY InvoicingAssumption DEF InvoicesSound, Kinds
    <3>2. Len(invoices[i].lines) \in Nat /\ Len(more) \in Nat
      BY <2>4, <3>1 DEF Invoice
    <3> QED BY <2>3, <2>4, <2>6, <3>1, <3>2
  <2>8. \A k \in DOMAIN more :
           /\ more[k].hour \notin BilledEntryIds(invoices[i].matter)
           /\ \A l \in DOMAIN more : more[l].hour = more[k].hour => l = k
    BY <2>3, <2>4, <2>5
  <2> QED BY <2>2, <2>4, <2>5, <2>7, <2>8, AddingRelines
<1>7. BillStep
  BY <1>2, <1>3, <1>4, <1>5, <1>6 DEF DraftingNext
<1> QED BY <1>1, <1>7

LEMMA PaymentSteps ==
    ASSUME InvoicesSound, OutsideTypeOK, NEW actor \in Actors, NEW m \in Matters,
           PaymentNext(actor, m)
    PROVE  BillStep /\ MoneyStep
<1>1. ASSUME NEW i \in DOMAIN invoices, NEW amount \in PayAmounts,
             NEW ref \in {NoRef, [kind |-> "given", id |-> 0]},
             RecordPayment(actor, m, i, amount, ref)
      PROVE  BillStep /\ MoneyStep
  <2>1. /\ amount \in Int /\ "manual" \in Methods /\ ref \in Ref /\ ref.kind \in {"none", "given"}
        /\ StoreRecordPayment(i, amount, "manual", ref) /\ UNCHANGED <<entries, sessions>>
    BY <1>1, InvoicesAssumption DEF RecordPayment, Methods, Ref, NoRef, trustVars, outsideVars
  <2> QED BY <2>1 DEF BillStep, MoneyStep
<1>2. ASSUME NEW i \in DOMAIN invoices, NEW amount \in PayAmounts, PayFromTrust(actor, m, i, amount)
      PROVE  BillStep /\ MoneyStep
  <2>1. Len(entries) + 1 \in Nat => [kind |-> "trust", id |-> Len(entries) + 1] \in Ref
    BY DEF Ref
  <2>2. StoreRecordPayment(i, amount, "trust_application",
                           [kind |-> "trust", id |-> Len(entries) + 1])
    BY <1>2, TrustPaymentIs
  <2> QED BY <1>2, <2>1, <2>2, InvoicesAssumption DEF BillStep, MoneyStep, Methods
<1>3. ASSUME NEW i \in DOMAIN invoices,
             \/ \E amount \in PayAmounts : BeginCharge(actor, m, i, amount)
             \/ \E kind \in {"invoice", "reminder"} : BeginMail(actor, m, i, kind)
      PROVE  BillStep /\ MoneyStep
  <2>1. UNCHANGED <<entries, invoiceVars, sessions>>
    BY <1>3 DEF BeginCharge, BeginMail, trustVars
  <2> QED BY <2>1, NothingCame DEF BillStep, MoneyStep, invoiceVars
<1>4. ASSUME NEW i \in DOMAIN invoices, CreateCheckoutSession(actor, m, i)
      PROVE  BillStep /\ MoneyStep
  <2>1. UNCHANGED <<entries, invoiceVars>>
    BY <1>4 DEF CreateCheckoutSession, trustVars
  <2> QED BY <1>4, <2>1 DEF BillStep, MoneyStep, SessionStep, invoiceVars
<1> QED BY <1>1, <1>2, <1>3, <1>4 DEF PaymentNext

LEMMA OutsideSteps ==
    ASSUME InvoicesSound, OutsideTypeOK, PointersOK, OutsideNext
    PROVE  BillStep /\ MoneyStep
<1>1. ASSUME NEW c \in DOMAIN charges, FinishCharge(c)
      PROVE  BillStep /\ MoneyStep
  <2> DEFINE i == charges[c].inv
             amount == charges[c].amount
             ref == [kind |-> "processor", id |-> c]
  <2>1. charges[c] \in Charge /\ c \in Nat /\ i \in DOMAIN invoices
    BY DEF OutsideTypeOK, PointersOK
  <2>2. amount \in Int /\ ref \in Ref /\ ref.kind = "processor"
    BY <2>1, InvoicesAssumption DEF Charge, Ref
  <2>3. /\ UNCHANGED <<entries, sessions>>
        /\ StoreRecordPayment(i, amount, "card", ref) \/ UNCHANGED invoiceVars
    BY <1>1 DEF FinishCharge, trustVars
  <2> HIDE DEF i, amount, ref
  <2> QED BY <2>1, <2>2, <2>3, NothingCame DEF BillStep, MoneyStep, Methods, invoiceVars
<1>2. ASSUME NEW n \in DOMAIN mail, FinishMail(n)
      PROVE  BillStep /\ MoneyStep
  <2>1. mail[n].inv \in DOMAIN invoices
    BY DEF PointersOK
  <2>2. /\ UNCHANGED <<entries, payments, sessions>>
        /\ StoreSend(mail[n].inv) \/ UNCHANGED invoices
    BY <1>2 DEF FinishMail, trustVars
  <2> QED BY <2>1, <2>2, NothingCame DEF BillStep, MoneyStep, StatusStep, invoiceVars
<1>3. ASSUME \/ \E c \in DOMAIN charges, taken \in BOOLEAN : ProcessorAnswers(c, taken)
             \/ \E n \in DOMAIN mail, accepted \in BOOLEAN : TransportAnswers(n, accepted)
      PROVE  BillStep /\ MoneyStep
  <2>1. UNCHANGED <<entries, invoiceVars, sessions>>
    BY <1>3 DEF ProcessorAnswers, TransportAnswers, trustVars
  <2> QED BY <2>1, NothingCame DEF BillStep, MoneyStep, invoiceVars
<1>4. ASSUME NEW s \in DOMAIN sessions, NEW intent \in BOOLEAN, ClientPays(s, intent)
      PROVE  BillStep /\ MoneyStep
  <2>1. UNCHANGED <<entries, invoiceVars>>
    BY <1>4 DEF ClientPays, trustVars
  <2> QED BY <1>4, <2>1 DEF BillStep, MoneyStep, SessionStep, invoiceVars
<1>5. ASSUME NEW s \in DOMAIN sessions, Webhook(s)
      PROVE  BillStep /\ MoneyStep
  <2> DEFINE i == sessions[s].inv
             amount == IF sessions[s].amount < Balance(i) THEN sessions[s].amount ELSE Balance(i)
             ref == IF sessions[s].intent THEN IntentRef(s) ELSE SessionRef(s)
  <2>1. /\ sessions[s] \in Session /\ s \in Nat /\ i \in DOMAIN invoices
        /\ invoices[i] \in Invoice /\ payments \in Seq(Payment)
    BY DEF OutsideTypeOK, PointersOK, InvoicesSound
  <2>2. ref \in Ref
    BY <2>1 DEF IntentRef, SessionRef, Ref
  <2>3. amount \in Int
    <3>1. invoices[i].lines \in Seq(Line)
      BY <2>1 DEF Invoice
    <3>2. TotalOf(invoices[i].lines) \in Nat /\ PaidOf(payments, i) \in Nat
      BY <2>1, <3>1, TotalIsNat, PaymentsAreFinite
    <3>3. Balance(i) = TotalOf(invoices[i].lines) - PaidOf(payments, i)
      BY MoneyIs
    <3>4. Balance(i) \in Int /\ sessions[s].amount \in Int
      BY <2>1, <3>2, <3>3 DEF Session
    <3> QED BY <3>4
  <2>4. StoreRecordPayment(i, amount, "card", ref) \/ UNCHANGED invoiceVars
    BY <1>5 DEF Webhook, ApplyCheckout
  <2> HIDE DEF i, amount, ref
  <2> QED BY <1>5, <2>1, <2>2, <2>3, <2>4 DEF BillStep, MoneyStep, Methods
<1> QED BY <1>1, <1>2, <1>3, <1>4, <1>5 DEF OutsideNext

(* Every step of the system is one for the store and one for the money.    *)
LEMMA EveryStep ==
    ASSUME InvoicesSound, OutsideTypeOK, PointersOK, TrustTypeOK,
           [InvoicingNext]_invoicingVars
    PROVE  BillStep /\ MoneyStep
<1>1. ASSUME UNCHANGED <<entries, invoiceVars, sessions>>
      PROVE  BillStep /\ MoneyStep
  BY <1>1, NothingCame DEF BillStep, MoneyStep, invoiceVars
<1>2. ASSUME NEW actor \in Actors, NEW m \in Matters, LedgerNext(actor, m)
      PROVE  BillStep /\ MoneyStep
  <2>1. UNCHANGED <<invoiceVars, sessions>> /\ NoTransferCame
    BY <1>2, LedgerBringsNoTransfer DEF LedgerNext, outsideVars, TrustTypeOK
  <2> QED BY <2>1 DEF BillStep, MoneyStep, invoiceVars
<1>3. CASE Restart
  BY <1>1, <1>3 DEF Restart, trustVars
<1>4. CASE (StaffAccessNext \/ ClientAccessNext) /\ UNCHANGED <<entries, invoiceVars, hourVars, outsideVars>>
  BY <1>1, <1>4 DEF outsideVars
<1>5. CASE UNCHANGED invoicingVars
  BY <1>1, <1>5 DEF invoicingVars, trustVars, outsideVars
<1> QED BY <1>2, <1>3, <1>4, <1>5, DraftingSteps, PaymentSteps, OutsideSteps DEF InvoicingNext

----------------------------------------------------------------------------
(* The outside parties stay well-typed and keep pointing at invoices.      *)

HoursOK == hours \subseteq Hour /\ IsFiniteSet(hours) /\ nextHour \in Nat \ {0}

\* Of an invoice of the store as it was before the step.
SessionsPoint ==
    /\ sessions' \in Seq(Session)
    /\ \A s \in DOMAIN sessions' :
          /\ sessions'[s].inv \in DOMAIN invoices
          /\ invoices[sessions'[s].inv].status # "draft"

ChargesPoint ==
    /\ charges' \in Seq(Charge)
    /\ \A c \in DOMAIN charges' : charges'[c].inv \in DOMAIN invoices

MailPoints ==
    /\ mail' \in Seq(Mail)
    /\ \A n \in DOMAIN mail' : mail'[n].inv \in DOMAIN invoices

OutsideStays == HoursOK' /\ SessionsPoint /\ ChargesPoint /\ MailPoints

LEMMA PartsStay ==
    ASSUME OutsideTypeOK, PointersOK
    PROVE  /\ UNCHANGED hourVars => HoursOK'
           /\ UNCHANGED sessions => SessionsPoint
           /\ UNCHANGED charges => ChargesPoint
           /\ UNCHANGED mail => MailPoints
BY DEF OutsideTypeOK, PointersOK, HoursOK, SessionsPoint, ChargesPoint, MailPoints, hourVars

LEMMA HoursStep ==
    ASSUME OutsideTypeOK, NEW m \in Matters
    PROVE  /\ \A tiny \in BOOLEAN : StoreLogHours(m, tiny) => HoursOK'
           /\ \A h \in hours : StoreDeleteHours(h) => HoursOK'
<1>1. hours \subseteq Hour /\ IsFiniteSet(hours) /\ nextHour \in Nat \ {0}
  BY DEF OutsideTypeOK
<1>2. ASSUME NEW tiny \in BOOLEAN, StoreLogHours(m, tiny)
      PROVE  HoursOK'
  <2> DEFINE new == [id |-> nextHour, matter |-> m, tiny |-> tiny]
  <2>1. new \in Hour
    BY <1>1 DEF Hour
  <2>2. hours' = hours \cup {new} /\ nextHour' = nextHour + 1
    BY <1>2 DEF StoreLogHours
  <2> HIDE DEF new
  <2>3. IsFiniteSet(hours \cup {new})
    BY <1>1, FS_AddElement
  <2>4. IsFiniteSet(hours')
    BY <2>2, <2>3, Zenon
  <2>5. hours' \subseteq Hour /\ nextHour' \in Nat \ {0}
    BY <1>1, <2>1, <2>2
  <2> QED BY <2>4, <2>5 DEF HoursOK
<1>3. ASSUME NEW h \in hours, StoreDeleteHours(h)
      PROVE  HoursOK'
  <2>1. hours' \in SUBSET hours /\ nextHour' = nextHour
    BY <1>3 DEF StoreDeleteHours
  <2>2. IsFiniteSet(hours')
    BY <1>1, <2>1, FS_Subset
  <2> QED BY <1>1, <2>1, <2>2 DEF HoursOK
<1> QED BY <1>2, <1>3

(* After a restart the next id is beyond every id that was kept.           *)
LEMMA RestoringHours ==
    ASSUME OutsideTypeOK, RestoreHours
    PROVE  HoursOK'
<1> DEFINE ids == {h.id : h \in hours}
           f == [h \in hours |-> h.id]
           S == ids \cup {0}
<1>1. hours \subseteq Hour /\ IsFiniteSet(hours)
  BY DEF OutsideTypeOK
<1>2. f \in Surjection(hours, ids) /\ ids \subseteq Nat
  BY <1>1 DEF Surjection, Hour
<1>3. nextHour' = 1 + Max(S) /\ hours' = hours
  BY DEF RestoreHours
<1> HIDE DEF ids, f
<1>4. IsFiniteSet(ids)
  BY <1>1, <1>2, FS_Surjection
<1>5. IsFiniteSet(S) /\ S \in SUBSET Nat /\ S # {}
  BY <1>2, <1>4, FS_AddElement
<1> HIDE DEF S
<1>6. Max(S) \in Nat
  BY <1>5, FiniteHasMax
<1> QED BY <1>1, <1>3, <1>6 DEF HoursOK

(* Appending one, or changing one that keeps its invoice.                  *)
LEMMA OneAppended ==
    ASSUME NEW S, NEW list \in Seq(S), NEW new \in S
    PROVE  /\ Append(list, new) \in Seq(S)
           /\ \A k \in DOMAIN Append(list, new) :
                 \/ k \in DOMAIN list /\ Append(list, new)[k] = list[k]
                 \/ Append(list, new)[k] = new
OBVIOUS

LEMMA OneChanged ==
    ASSUME NEW S, NEW list \in Seq(S), NEW k \in DOMAIN list, NEW new \in S
    PROVE  /\ [list EXCEPT ![k] = new] \in Seq(S)
           /\ DOMAIN [list EXCEPT ![k] = new] = DOMAIN list
           /\ [list EXCEPT ![k] = new][k] = new
           /\ \A l \in DOMAIN list : l # k => [list EXCEPT ![k] = new][l] = list[l]
OBVIOUS

(* A charge or a mail moves on.                                            *)
LEMMA ChargeMoves ==
    ASSUME OutsideTypeOK, PointersOK, NEW c \in DOMAIN charges,
           NEW state \in {"taken", "declined", "recorded", "unrecorded"},
           charges' = [charges EXCEPT ![c].state = state]
    PROVE  ChargesPoint
<1> DEFINE new == [charges[c] EXCEPT !.state = state]
<1>1. charges \in Seq(Charge) /\ charges[c] \in Charge /\ charges[c].inv \in DOMAIN invoices
  BY DEF OutsideTypeOK, PointersOK
<1>2. new \in Charge /\ new.inv = charges[c].inv
  BY <1>1 DEF Charge
<1>3. charges' = [charges EXCEPT ![c] = new]
  OBVIOUS
<1> HIDE DEF new
<1> QED BY <1>1, <1>2, <1>3, OneChanged DEF ChargesPoint, PointersOK

LEMMA MailMoves ==
    ASSUME OutsideTypeOK, PointersOK, NEW n \in DOMAIN mail,
           NEW state \in {"accepted", "failed", "recorded", "unrecorded"},
           mail' = [mail EXCEPT ![n].state = state]
    PROVE  MailPoints
<1> DEFINE new == [mail[n] EXCEPT !.state = state]
<1>1. mail \in Seq(Mail) /\ mail[n] \in Mail /\ mail[n].inv \in DOMAIN invoices
  BY DEF OutsideTypeOK, PointersOK
<1>2. new \in Mail /\ new.inv = mail[n].inv
  BY <1>1 DEF Mail
<1>3. mail' = [mail EXCEPT ![n] = new]
  OBVIOUS
<1> HIDE DEF new
<1> QED BY <1>1, <1>2, <1>3, OneChanged DEF MailPoints, PointersOK

LEMMA SessionMoves ==
    ASSUME OutsideTypeOK, PointersOK, NEW s \in DOMAIN sessions, NEW new \in Session,
           new.inv = sessions[s].inv, sessions' = [sessions EXCEPT ![s] = new]
    PROVE  SessionsPoint
<1>1. sessions \in Seq(Session) /\ sessions[s].inv \in DOMAIN invoices
  BY DEF OutsideTypeOK, PointersOK
<1> QED BY <1>1, OneChanged DEF SessionsPoint, PointersOK

(* What is left of the handlers after a restart.                           *)
LEMMA RestartStays ==
    ASSUME OutsideTypeOK, PointersOK, Restart
    PROVE  OutsideStays
<1>1. charges \in Seq(Charge) /\ mail \in Seq(Mail)
  BY DEF OutsideTypeOK
<1>2. /\ charges' = [c \in DOMAIN charges |-> [charges[c] EXCEPT !.state = Abandoned(@)]]
      /\ mail' = [n \in DOMAIN mail |-> [mail[n] EXCEPT !.state = Abandoned(@)]]
      /\ UNCHANGED sessions /\ RestoreHours
  BY DEF Restart
<1>3. \A c \in DOMAIN charges : charges'[c] \in Charge /\ charges'[c].inv = charges[c].inv
  <2> SUFFICES ASSUME NEW c \in DOMAIN charges
               PROVE  charges'[c] \in Charge /\ charges'[c].inv = charges[c].inv
    OBVIOUS
  <2>1. charges[c] \in Charge /\ charges'[c] = [charges[c] EXCEPT !.state = Abandoned(charges[c].state)]
    BY <1>1, <1>2
  <2>2. Abandoned(charges[c].state) \in {"asked", "taken", "declined", "recorded", "unrecorded"}
    BY <2>1 DEF Abandoned, Charge
  <2> QED BY <2>1, <2>2 DEF Charge
<1>4. \A n \in DOMAIN mail : mail'[n] \in Mail /\ mail'[n].inv = mail[n].inv
  <2> SUFFICES ASSUME NEW n \in DOMAIN mail
               PROVE  mail'[n] \in Mail /\ mail'[n].inv = mail[n].inv
    OBVIOUS
  <2>1. mail[n] \in Mail /\ mail'[n] = [mail[n] EXCEPT !.state = Abandoned(mail[n].state)]
    BY <1>1, <1>2
  <2>2. Abandoned(mail[n].state) \in {"sending", "accepted", "failed", "recorded", "unrecorded"}
    BY <2>1 DEF Abandoned, Mail
  <2> QED BY <2>1, <2>2 DEF Mail
<1>5. ChargesPoint
  <2>1. DOMAIN charges' = 1 .. Len(charges) /\ DOMAIN charges = 1 .. Len(charges) /\ Len(charges) \in Nat
    BY <1>1, <1>2
  <2>2. \E n \in Nat : DOMAIN charges' = 1 .. n
    BY <2>1, Zenon
  <2>3. charges' = [c \in DOMAIN charges' |-> charges'[c]]
    BY <1>2
  <2>4. charges' \in Seq(Charge)
    BY <1>3, <2>1, <2>2, <2>3
  <2> QED BY <1>3, <2>1, <2>4 DEF ChargesPoint, PointersOK
<1>6. MailPoints
  <2>1. DOMAIN mail' = 1 .. Len(mail) /\ DOMAIN mail = 1 .. Len(mail) /\ Len(mail) \in Nat
    BY <1>1, <1>2
  <2>2. \E n \in Nat : DOMAIN mail' = 1 .. n
    BY <2>1, Zenon
  <2>3. mail' = [n \in DOMAIN mail' |-> mail'[n]]
    BY <1>2
  <2>4. mail' \in Seq(Mail)
    BY <1>4, <2>1, <2>2, <2>3
  <2> QED BY <1>4, <2>1, <2>4 DEF MailPoints, PointersOK
<1> QED BY <1>2, <1>5, <1>6, PartsStay, RestoringHours DEF OutsideStays

LEMMA OutsideTypesStay ==
    ASSUME InvoicesSound, OutsideTypeOK, PointersOK, [InvoicingNext]_invoicingVars
    PROVE  OutsideStays
<1> USE DEF OutsideStays
<1>0. ASSUME UNCHANGED <<hourVars, outsideVars>>
      PROVE  OutsideStays
  BY <1>0, PartsStay DEF outsideVars
<1>1. ASSUME NEW actor \in Actors, NEW m \in Matters, LedgerNext(actor, m) PROVE OutsideStays
  BY <1>0, <1>1 DEF LedgerNext
<1>2. ASSUME NEW actor \in Actors, NEW m \in Matters, DraftingNext(actor, m) PROVE OutsideStays
  <2>1. UNCHANGED outsideVars
    BY <1>2 DEF DraftingNext, LogHours, DeleteEntry, CreateDraft, AddLineItem, RemoveLineItem,
                AddTimeFromBillingHours, SendInvoice, VoidInvoice
  <2>2. \/ UNCHANGED hourVars
        \/ \E tiny \in BOOLEAN : StoreLogHours(m, tiny)
        \/ \E h \in hours : StoreDeleteHours(h)
    BY <1>2 DEF DraftingNext, LogHours, DeleteEntry, CreateDraft, AddLineItem, RemoveLineItem,
                AddTimeFromBillingHours, SendInvoice, VoidInvoice
  <2> QED BY <2>1, <2>2, PartsStay, HoursStep DEF outsideVars
<1>3. ASSUME NEW actor \in Actors, NEW m \in Matters, PaymentNext(actor, m) PROVE OutsideStays
  <2>1. PICK i \in DOMAIN invoices :
           \/ \E amount \in PayAmounts :
                 \/ \E ref \in {NoRef, [kind |-> "given", id |-> 0]} :
                       RecordPayment(actor, m, i, amount, ref)
                 \/ PayFromTrust(actor, m, i, amount)
                 \/ BeginCharge(actor, m, i, amount)
           \/ \E kind \in {"invoice", "reminder"} : BeginMail(actor, m, i, kind)
           \/ CreateCheckoutSession(actor, m, i)
    BY <1>3 DEF PaymentNext
  <2>2. invoices[i] \in Invoice /\ payments \in Seq(Payment) /\ i \in Nat
    BY DEF InvoicesSound
  <2>3. ASSUME NEW amount \in PayAmounts,
               \/ \E ref \in {NoRef, [kind |-> "given", id |-> 0]} :
                     RecordPayment(actor, m, i, amount, ref)
               \/ PayFromTrust(actor, m, i, amount)
        PROVE  OutsideStays
    BY <1>0, <2>3 DEF RecordPayment, PayFromTrust
  <2>4. ASSUME NEW amount \in PayAmounts, BeginCharge(actor, m, i, amount) PROVE OutsideStays
    <3> DEFINE new == [inv |-> i, amount |-> amount, state |-> "asked"]
    <3>1. new \in Charge /\ new.inv = i /\ charges \in Seq(Charge)
      BY <2>2 DEF Charge, OutsideTypeOK
    <3>2. charges' = Append(charges, new) /\ UNCHANGED <<hourVars, sessions, mail>>
      BY <2>4 DEF BeginCharge
    <3> HIDE DEF new
    <3>3. ChargesPoint
      BY <3>1, <3>2, OneAppended DEF ChargesPoint, PointersOK
    <3> QED BY <3>2, <3>3, PartsStay
  <2>5. ASSUME NEW kind \in {"invoice", "reminder"}, BeginMail(actor, m, i, kind)
        PROVE  OutsideStays
    <3> DEFINE new == [inv |-> i, kind |-> kind, lines |-> invoices[i].lines, state |-> "sending"]
    <3>1. new \in Mail /\ new.inv = i /\ mail \in Seq(Mail)
      BY <2>2 DEF Mail, Invoice, OutsideTypeOK
    <3>2. mail' = Append(mail, new) /\ UNCHANGED <<hourVars, sessions, charges>>
      BY <2>5 DEF BeginMail
    <3> HIDE DEF new
    <3>3. MailPoints
      BY <3>1, <3>2, OneAppended DEF MailPoints, PointersOK
    <3> QED BY <3>2, <3>3, PartsStay
  <2>6. ASSUME CreateCheckoutSession(actor, m, i) PROVE OutsideStays
    <3> DEFINE new == [inv |-> i, amount |-> Balance(i), intent |-> FALSE, state |-> "open"]
    <3>1. Balance(i) \in Int
      <4>1. invoices[i].lines \in Seq(Line)
        BY <2>2 DEF Invoice
      <4>2. TotalOf(invoices[i].lines) \in Nat /\ PaidOf(payments, i) \in Nat
        BY <2>2, <4>1, TotalIsNat, PaymentsAreFinite
      <4>3. Balance(i) = TotalOf(invoices[i].lines) - PaidOf(payments, i)
        BY MoneyIs
      <4> QED BY <4>2, <4>3
    <3>2. /\ sessions' = Append(sessions, new) /\ UNCHANGED <<hourVars, charges, mail>>
          /\ Balance(i) > 0 /\ invoices[i].status # "draft"
      BY <2>6 DEF CreateCheckoutSession
    <3>3. new \in Session /\ new.inv = i /\ sessions \in Seq(Session)
      BY <2>2, <3>1, <3>2 DEF Session, OutsideTypeOK
    <3> HIDE DEF new
    <3>4. SessionsPoint
      BY <3>2, <3>3, OneAppended DEF SessionsPoint, PointersOK
    <3> QED BY <3>2, <3>4, PartsStay
  <2> QED BY <2>1, <2>3, <2>4, <2>5, <2>6
<1>4. CASE OutsideNext
  <2>1. ASSUME NEW c \in DOMAIN charges,
               FinishCharge(c) \/ \E taken \in BOOLEAN : ProcessorAnswers(c, taken)
        PROVE  OutsideStays
    <3>1. UNCHANGED <<hourVars, sessions, mail>>
      BY <2>1 DEF FinishCharge, ProcessorAnswers
    <3>2. PICK state \in {"taken", "declined", "recorded", "unrecorded"} :
             charges' = [charges EXCEPT ![c].state = state]
      BY <2>1 DEF FinishCharge, ProcessorAnswers
    <3>3. ChargesPoint
      BY <3>2, ChargeMoves
    <3> QED BY <3>1, <3>3, PartsStay
  <2>2. ASSUME NEW n \in DOMAIN mail,
               FinishMail(n) \/ \E accepted \in BOOLEAN : TransportAnswers(n, accepted)
        PROVE  OutsideStays
    <3>1. UNCHANGED <<hourVars, sessions, charges>>
      BY <2>2 DEF FinishMail, TransportAnswers
    <3>2. PICK state \in {"accepted", "failed", "recorded", "unrecorded"} :
             mail' = [mail EXCEPT ![n].state = state]
      BY <2>2 DEF FinishMail, TransportAnswers
    <3>3. MailPoints
      BY <3>2, MailMoves
    <3> QED BY <3>1, <3>3, PartsStay
  <2>3. ASSUME NEW s \in DOMAIN sessions,
               Webhook(s) \/ \E intent \in BOOLEAN : ClientPays(s, intent)
        PROVE  OutsideStays
    <3>1. UNCHANGED <<hourVars, charges, mail>>
      BY <2>3 DEF Webhook, ApplyCheckout, ClientPays
    <3>2. sessions[s] \in Session
      BY DEF OutsideTypeOK
    <3>3. PICK new \in Session :
             new.inv = sessions[s].inv /\ sessions' = [sessions EXCEPT ![s] = new]
      <4>1. CASE Webhook(s)
        <5> DEFINE new == [sessions[s] EXCEPT !.state = "answered"]
        <5>1. new \in Session /\ new.inv = sessions[s].inv
          BY <3>2 DEF Session
        <5>2. sessions' = [sessions EXCEPT ![s].state = "answered"]
          BY <4>1 DEF Webhook, ApplyCheckout
        <5> QED BY <5>1, <5>2
      <4>2. ASSUME NEW intent \in BOOLEAN, ClientPays(s, intent)
            PROVE  \E new \in Session :
                      new.inv = sessions[s].inv /\ sessions' = [sessions EXCEPT ![s] = new]
        <5> DEFINE new == [sessions[s] EXCEPT !.state = "paid", !.intent = intent]
        <5>1. new \in Session /\ new.inv = sessions[s].inv
          BY <3>2 DEF Session
        <5>2. sessions' = [sessions EXCEPT ![s].state = "paid", ![s].intent = intent]
          BY <4>2 DEF ClientPays
        <5>3. sessions' = [sessions EXCEPT ![s] = new]
          BY <5>2
        <5> QED BY <5>1, <5>3
      <4> QED BY <2>3, <4>1, <4>2
    <3>4. SessionsPoint
      BY <3>3, SessionMoves
    <3> QED BY <3>1, <3>4, PartsStay
  <2> QED BY <1>4, <2>1, <2>2, <2>3 DEF OutsideNext
<1>5. CASE UNCHANGED invoicingVars
  BY <1>0, <1>5 DEF invoicingVars
<1>6. CASE (StaffAccessNext \/ ClientAccessNext) /\ UNCHANGED <<entries, invoiceVars, hourVars, outsideVars>>
  BY <1>0, <1>6
<1> QED BY <1>1, <1>2, <1>3, <1>4, <1>5, <1>6, RestartStays DEF InvoicingNext

LEMMA PointersStay ==
    ASSUME OutsideStays, BillsGrow
    PROVE  OutsideTypeOK' /\ PointersOK'
<1>1. OutsideTypeOK'
  BY DEF OutsideStays, OutsideTypeOK, HoursOK, SessionsPoint, ChargesPoint, MailPoints
<1>2. \A i \in DOMAIN invoices :
         i \in DOMAIN invoices' /\ (invoices[i].status # "draft" => invoices'[i].status # "draft")
  BY DEF BillsGrow, Kept, LaterStatuses
<1> QED BY <1>1, <1>2 DEF OutsideStays, PointersOK, SessionsPoint, ChargesPoint, MailPoints

----------------------------------------------------------------------------
(* The ledger behind the invoices keeps what is proved of it alone.        *)

LEMMA LedgerStays ==
    ASSUME LedgerInv, InvoicesSound, [InvoicingNext]_invoicingVars
    PROVE  LedgerInv'
<1>1. ASSUME NEW actor \in Actors, NEW m \in Matters, LedgerNext(actor, m)
      PROVE  LedgerInv'
  <2>1. "deposit" \in RequestTypes
    BY DEF RequestTypes
  <2>2. TrustNext
    BY <1>1, <2>1 DEF LedgerNext, TrustNext
  <2> QED BY <2>2, NextLedgerInv
<1>2. ASSUME NEW actor \in Actors, NEW m \in Matters, NEW i \in DOMAIN invoices,
             NEW amount \in PayAmounts, PayFromTrust(actor, m, i, amount)
      PROVE  LedgerInv'
  <2> DEFINE d == SignedDelta("earned_fee_transfer", amount)
  <2>1. /\ LedgerRecord(actor, m, "earned_fee_transfer", amount)
        /\ actor \in Attorneys /\ UNCHANGED accessVars
    BY <1>2, TrustPaymentIs
  <2>2. /\ amount \in Int /\ d \in Int /\ NoEntry \in Nat
        /\ "earned_fee_transfer" \in RequestTypes
    BY InvoicesAssumption, DeltaIsInt DEF NoEntry, RequestTypes, OutboundTypes
  <2>3. /\ MayPost(m, d) /\ amount > 0
        /\ Appended(m, "earned_fee_transfer", amount, NoEntry, actor, d)
    BY <2>1 DEF LedgerRecord, AppendEntry, Appended
  <2> HIDE DEF d
  <2> QED BY <2>1, <2>2, <2>3, AppendPreserves
<1>3. ASSUME ClientAccessNext, UNCHANGED entries
      PROVE  LedgerInv'
  <2>1. AccessTypeOK
    BY DEF LedgerInv, TrustTypeOK
  <2>2. AccessTypeOK'
    BY <1>3, <2>1 DEF AccessTypeOK, ClientAccessNext, GrantMatterAccess, RevokeMatterAccess
  <2> QED BY <1>3, <2>2 DEF LedgerInv, TrustTypeOK, BalancesDefined, NeverOverdrawn,
             ReversedAtMostOnce, OutboundByAttorneys, AmountsPositive, ReversalsAreTyped
<1>4. ASSUME StaffAccessNext, UNCHANGED entries
      PROVE  LedgerInv'
  BY <1>4, NextLedgerInv DEF TrustNext
<1>5. ASSUME UNCHANGED trustVars
      PROVE  LedgerInv'
  BY <1>5, NextLedgerInv
<1>6. ASSUME NEW actor \in Actors, NEW m \in Matters, DraftingNext(actor, m)
      PROVE  LedgerInv'
  BY <1>5, <1>6 DEF DraftingNext, LogHours, DeleteEntry, CreateDraft, AddLineItem, RemoveLineItem,
                    AddTimeFromBillingHours, SendInvoice, VoidInvoice
<1>7. ASSUME NEW actor \in Actors, NEW m \in Matters, PaymentNext(actor, m)
      PROVE  LedgerInv'
  BY <1>2, <1>5, <1>7 DEF PaymentNext, RecordPayment, BeginCharge, BeginMail, CreateCheckoutSession
<1>8. CASE OutsideNext
  BY <1>5, <1>8 DEF OutsideNext, ProcessorAnswers, FinishCharge, TransportAnswers, FinishMail,
                    ClientPays, Webhook, ApplyCheckout
<1>9. CASE Restart
  BY <1>5, <1>9 DEF Restart
<1>10. CASE UNCHANGED invoicingVars
  BY <1>5, <1>10 DEF invoicingVars
<1> QED BY <1>1, <1>3, <1>4, <1>6, <1>7, <1>8, <1>9, <1>10 DEF InvoicingNext

----------------------------------------------------------------------------
(* Payments from trust and transfers of earned fees come in pairs.         *)

(* No step but a payment from trust adds to either side.                   *)
LEMMA OtherMoney ==
    ASSUME TrustPaymentsBacked, InvoicesSound, BillsGrow, NoTransferCame,
           \A p \in DOMAIN payments' \ DOMAIN payments : payments'[p].method # "trust_application"
    PROVE  TrustPaymentsBacked'
<1>1. /\ Transfers' = Transfers
      /\ \A e \in Transfers : entries'[e] = entries[e]
  BY DEF NoTransferCame, Transfers
<1>2. /\ TrustPayments' = TrustPayments
      /\ \A p \in TrustPayments : payments'[p] = payments[p] /\ p \in DOMAIN payments
  BY DEF BillsGrow, TrustPayments
<1>3. \A p \in DOMAIN payments :
         invoices'[payments[p].inv].matter = invoices[payments[p].inv].matter
  BY DEF InvoicesSound, BillsGrow, Kept
<1> QED BY <1>1, <1>2, <1>3 DEF TrustPaymentsBacked

LEMMA TrustMoney ==
    ASSUME TrustPaymentsBacked, InvoicesSound, LedgerInv, BillsGrow,
           NEW actor, NEW m \in Matters, NEW i \in DOMAIN invoices, NEW amount \in PayAmounts,
           PayFromTrust(actor, m, i, amount)
    PROVE  TrustPaymentsBacked'
<1> DEFINE n == Len(entries) + 1
           r == Len(payments) + 1
           new == [inv |-> i, amount |-> amount, method |-> "trust_application",
                   ref |-> [kind |-> "trust", id |-> n]]
<1>1. entries \in Seq(Entry) /\ payments \in Seq(Payment)
  BY DEF LedgerInv, TrustTypeOK, InvoicesSound
<1>2. /\ LedgerRecord(actor, m, "earned_fee_transfer", amount)
      /\ payments' = Append(payments, new) /\ invoices[i].matter = m
  BY TrustPaymentIs DEF StoreRecordPayment
<1>3. PICK e : /\ entries' = Append(entries, e)
               /\ e.type = "earned_fee_transfer" /\ e.amount = amount /\ e.matter = m
  BY <1>2 DEF LedgerRecord, AppendEntry
<1>4. /\ DOMAIN entries' = DOMAIN entries \cup {n} /\ n \notin DOMAIN entries
      /\ entries'[n] = e /\ \A x \in DOMAIN entries : entries'[x] = entries[x]
  BY <1>1, <1>3
<1>5. /\ DOMAIN payments' = DOMAIN payments \cup {r} /\ r \notin DOMAIN payments
      /\ payments'[r] = new /\ \A p \in DOMAIN payments : payments'[p] = payments[p]
  BY <1>1, <1>2
<1>6. /\ new.method = "trust_application" /\ new.ref.id = n /\ new.amount = amount /\ new.inv = i
  OBVIOUS
<1> HIDE DEF new, n, r
<1>7. /\ Transfers' = Transfers \cup {n} /\ n \notin Transfers
      /\ \A x \in Transfers : entries'[x] = entries[x] /\ x # n
  BY <1>3, <1>4 DEF Transfers
<1>8. /\ TrustPayments' = TrustPayments \cup {r} /\ r \notin TrustPayments
      /\ \A p \in TrustPayments : payments'[p] = payments[p] /\ p \in DOMAIN payments
  BY <1>5, <1>6 DEF TrustPayments
<1>9. \A j \in DOMAIN invoices : invoices'[j].matter = invoices[j].matter
  BY DEF BillsGrow, Kept
<1>10. \A p \in DOMAIN payments : payments[p].inv \in DOMAIN invoices
  BY DEF InvoicesSound
<1>11. \A p \in TrustPayments' :
         LET x == payments'[p].ref.id
         IN  /\ x \in Transfers'
             /\ entries'[x].amount = payments'[p].amount
             /\ entries'[x].matter = invoices'[payments'[p].inv].matter
  <2>1. ASSUME NEW p \in TrustPayments
        PROVE  LET x == payments'[p].ref.id
               IN  /\ x \in Transfers'
                   /\ entries'[x].amount = payments'[p].amount
                   /\ entries'[x].matter = invoices'[payments'[p].inv].matter
    BY <1>7, <1>8, <1>9, <1>10 DEF TrustPaymentsBacked
  <2>2. LET x == payments'[r].ref.id
        IN  /\ x \in Transfers'
            /\ entries'[x].amount = payments'[r].amount
            /\ entries'[x].matter = invoices'[payments'[r].inv].matter
    BY <1>2, <1>3, <1>4, <1>5, <1>6, <1>7, <1>9
  <2> QED BY <1>8, <2>1, <2>2
<1>12. \A p \in TrustPayments : payments'[p].ref.id \in Transfers
  BY <1>8 DEF TrustPaymentsBacked
<1>13. \A x \in Transfers' :
         \E p \in TrustPayments' :
             /\ payments'[p].ref.id = x
             /\ \A q \in TrustPayments' : payments'[q].ref.id = x => q = p
  <2> SUFFICES ASSUME NEW x \in Transfers'
               PROVE  \E p \in TrustPayments' :
                         /\ payments'[p].ref.id = x
                         /\ \A q \in TrustPayments' : payments'[q].ref.id = x => q = p
    OBVIOUS
  <2>1. CASE x \in Transfers
    <3>1. PICK p \in TrustPayments : /\ payments[p].ref.id = x
                                     /\ \A q \in TrustPayments : payments[q].ref.id = x => q = p
      BY <2>1 DEF TrustPaymentsBacked
    <3> QED BY <1>5, <1>6, <1>7, <1>8, <2>1, <3>1
  <2>2. CASE x = n
    BY <1>5, <1>6, <1>7, <1>8, <1>12, <2>2
  <2> QED BY <1>7, <2>1, <2>2
<1> QED BY <1>11, <1>13 DEF TrustPaymentsBacked

----------------------------------------------------------------------------
(* Checkout sessions.  Which reference a payment carries depends on the    *)
(* intent, and that does not change once the session was answered.         *)

SessionsSound ==
    /\ AnsweredSessionAccounted
    /\ \A p \in DOMAIN payments : payments[p].ref.kind = "session" =>
          /\ payments[p].ref.id \in DOMAIN sessions
          /\ sessions[payments[p].ref.id].state = "answered"
          /\ ~sessions[payments[p].ref.id].intent

Settled(s) ==
    \/ \E p \in PaymentsFor(sessions[s].inv) : payments[p].ref = IntentRef(s)
    \/ invoices[sessions[s].inv].status = "void"
    \/ Balance(sessions[s].inv) = 0

(* An invoice with nothing due takes no payment and its total is fixed.    *)
LEMMA NothingDueStays ==
    ASSUME InvoicesSound, BillStep, BillsGrow, NEW i \in DOMAIN invoices,
           invoices[i].status # "draft", Balance(i) = 0
    PROVE  Balance(i)' = 0
<1>1. payments \in Seq(Payment) /\ invoices'[i].lines = invoices[i].lines
  BY DEF InvoicesSound, BillsGrow, Kept
<1>2. /\ Balance(i) = TotalOf(invoices[i].lines) - PaidOf(payments, i)
      /\ Balance(i)' = TotalOf(invoices'[i].lines) - PaidOf(payments', i)
  BY MoneyIs DEF Balance
<1>3. CASE payments' = payments
  BY <1>1, <1>2, <1>3
<1>4. ASSUME NEW j \in DOMAIN invoices, NEW amount \in Int, NEW method \in Methods, NEW ref \in Ref,
             StoreRecordPayment(j, amount, method, ref)
      PROVE  Balance(i)' = 0
  <2> DEFINE new == [inv |-> j, amount |-> amount, method |-> method, ref |-> ref]
  <2>1. amount > 0 /\ amount <= TotalOf(invoices[j].lines) - PaidOf(payments, j)
    BY <1>4, PaymentIsSound
  <2>2. j # i
    BY <1>2, <2>1
  <2>3. payments' = Append(payments, new) /\ j \in Nat
    BY <1>4 DEF StoreRecordPayment, InvoicesSound
  <2>4. new \in Payment /\ new.inv # i
    BY <2>1, <2>2, <2>3 DEF Payment
  <2> HIDE DEF new
  <2>5. PaidOf(payments', i) = PaidOf(payments, i) + 0
    BY <1>1, <2>3, <2>4, PaidOneMore
  <2>6. PaidOf(payments, i) \in Nat
    BY <1>1, PaymentsAreFinite
  <2> QED BY <1>1, <1>2, <2>5, <2>6
<1> QED BY <1>3, <1>4 DEF BillStep, invoiceVars, Relined, StatusStep

(* A session that is left as it is stays settled.                          *)
LEMMA SettledStays ==
    ASSUME InvoicesSound, PointersOK, BillStep, BillsGrow, NEW s \in DOMAIN sessions,
           Settled(s), sessions'[s] = sessions[s]
    PROVE  Settled(s)'
<1> DEFINE i == sessions[s].inv
<1>1. i \in DOMAIN invoices /\ invoices[i].status # "draft" /\ sessions'[s].inv = i
  BY DEF PointersOK
<1>2. CASE \E p \in PaymentsFor(i) : payments[p].ref = IntentRef(s)
  <2>1. PICK p \in PaymentsFor(i) : payments[p].ref = IntentRef(s)
    BY <1>2
  <2>2. p \in DOMAIN payments' /\ payments'[p] = payments[p] /\ payments[p].inv = i
    BY DEF PaymentsFor, BillsGrow
  <2>3. IntentRef(s)' = IntentRef(s)
    BY DEF IntentRef
  <2> QED BY <1>1, <2>1, <2>2, <2>3 DEF Settled, PaymentsFor
<1>3. CASE invoices[i].status = "void"
  <2>1. invoices'[i].status = "void"
    BY <1>1, <1>3 DEF BillsGrow, Kept, LaterStatuses
  <2> QED BY <1>1, <2>1 DEF Settled
<1>4. CASE Balance(i) = 0
  <2>1. Balance(i)' = 0
    BY <1>1, <1>4, NothingDueStays
  <2>2. Balance(i)' = TotalOf(invoices'[i].lines) - PaidOf(payments', i)
    BY MoneyIs DEF Balance
  <2>3. Balance(sessions[s].inv)'
           = TotalOf(invoices'[sessions'[s].inv].lines) - PaidOf(payments', sessions'[s].inv)
    BY DEF Balance, Total, TotalOf, Paid, PaidOf, PaymentsFor
  <2>4. Balance(sessions[s].inv)' = 0
    BY <1>1, <2>1, <2>2, <2>3
  <2> QED BY <2>4 DEF Settled
<1> QED BY <1>2, <1>3, <1>4 DEF Settled

LEMMA AccountedIs ==
    /\ AnsweredSessionAccounted <=>
          \A s \in DOMAIN sessions :
              sessions[s].state = "answered" /\ sessions[s].intent => Settled(s)
    /\ AnsweredSessionAccounted' <=>
          \A s \in DOMAIN sessions' :
              sessions'[s].state = "answered" /\ sessions'[s].intent => Settled(s)'
BY DEF AnsweredSessionAccounted, Settled

(* Steps that do not answer a session.                                     *)
LEMMA OtherSessions ==
    ASSUME InvoicesSound, PointersOK, SessionsSound, BillStep, BillsGrow,
           \A s \in DOMAIN sessions' :
              \/ s \in DOMAIN sessions /\ sessions'[s] = sessions[s]
              \/ sessions'[s].state # "answered",
           \A s \in DOMAIN sessions : sessions[s].state = "answered" =>
              s \in DOMAIN sessions' /\ sessions'[s] = sessions[s],
           \A p \in DOMAIN payments' \ DOMAIN payments : payments'[p].ref.kind # "session"
    PROVE  SessionsSound'
<1>1. AnsweredSessionAccounted'
  <2> SUFFICES ASSUME NEW s \in DOMAIN sessions', sessions'[s].state = "answered", sessions'[s].intent
               PROVE  Settled(s)'
    BY AccountedIs
  <2>1. s \in DOMAIN sessions /\ sessions'[s] = sessions[s]
    OBVIOUS
  <2>2. Settled(s)
    BY <2>1, AccountedIs DEF SessionsSound
  <2> QED BY <2>1, <2>2, SettledStays
<1>2. ASSUME NEW p \in DOMAIN payments', payments'[p].ref.kind = "session"
      PROVE  /\ payments'[p].ref.id \in DOMAIN sessions'
             /\ sessions'[payments'[p].ref.id].state = "answered"
             /\ ~sessions'[payments'[p].ref.id].intent
  <2>1. p \in DOMAIN payments /\ payments'[p] = payments[p]
    BY <1>2 DEF BillsGrow
  <2> QED BY <1>2, <2>1 DEF SessionsSound
<1> QED BY <1>1, <1>2 DEF SessionsSound

(* The webhook answers a session: its money is on the invoice by then, or  *)
(* there was nothing to put it on.                                         *)
LEMMA WebhookSettles ==
    ASSUME InvoicesSound, OutsideTypeOK, PointersOK, SessionsSound, BillsGrow,
           NEW s \in DOMAIN sessions, Webhook(s), sessions[s].intent
    PROVE  Settled(s)'
<1> DEFINE i == sessions[s].inv
           amount == IF sessions[s].amount < Balance(i) THEN sessions[s].amount ELSE Balance(i)
           n == Len(payments) + 1
<1>1. /\ sessions \in Seq(Session) /\ sessions[s] \in Session /\ s \in Nat
      /\ i \in DOMAIN invoices /\ invoices[i].status # "draft" /\ invoices[i] \in Invoice
      /\ payments \in Seq(Payment)
  BY DEF OutsideTypeOK, PointersOK, InvoicesSound
<1>2. /\ sessions' = [sessions EXCEPT ![s].state = "answered"]
      /\ IF ~AlreadyRecorded(s) /\ CanRecordPayment(i, amount)
         THEN StoreRecordPayment(i, amount, "card", IntentRef(s))
         ELSE UNCHANGED invoiceVars
  BY DEF Webhook, ApplyCheckout
<1>3. /\ sessions'[s].inv = i /\ sessions'[s].intent = sessions[s].intent
      /\ IntentRef(s)' = IntentRef(s)
  BY <1>1, <1>2 DEF IntentRef, Session
<1>4. ASSUME NEW p \in DOMAIN payments', payments'[p].inv = i, payments'[p].ref = IntentRef(s)
      PROVE  Settled(s)'
  BY <1>3, <1>4 DEF Settled, PaymentsFor
<1>5. CASE AlreadyRecorded(s)
  <2>1. PICK p \in PaymentsFor(i) : payments[p].ref \in {IntentRef(s), SessionRef(s)}
    BY <1>5 DEF AlreadyRecorded
  <2>2. p \in DOMAIN payments /\ payments[p].inv = i
    BY DEF PaymentsFor
  <2>3. payments[p].ref # SessionRef(s)
    BY <2>2 DEF SessionsSound, SessionRef
  <2> QED BY <1>4, <2>1, <2>2, <2>3 DEF BillsGrow
<1>6. CASE ~AlreadyRecorded(s) /\ CanRecordPayment(i, amount)
  <2> DEFINE new == [inv |-> i, amount |-> amount, method |-> "card", ref |-> IntentRef(s)]
  <2>1. payments' = Append(payments, new)
    BY <1>2, <1>6 DEF StoreRecordPayment
  <2>2. n \in DOMAIN payments' /\ payments'[n] = new
    BY <1>1, <2>1
  <2>3. payments'[n].inv = i /\ payments'[n].ref = IntentRef(s)
    BY <2>2
  <2> QED BY <1>4, <2>2, <2>3
<1>7. CASE ~AlreadyRecorded(s) /\ ~CanRecordPayment(i, amount)
  <2>1. invoices' = invoices /\ payments' = payments
    BY <1>2, <1>7 DEF invoiceVars
  <2>2. CASE invoices[i].status = "void"
    BY <1>3, <2>1, <2>2 DEF Settled
  <2>3. CASE invoices[i].status # "void"
    <3>1. /\ TotalOf(invoices[i].lines) \in Nat /\ PaidOf(payments, i) \in Nat
          /\ Balance(i) = TotalOf(invoices[i].lines) - PaidOf(payments, i)
      <4>1. invoices[i].lines \in Seq(Line)
        BY <1>1 DEF Invoice
      <4> QED BY <1>1, <4>1, MoneyIs, TotalIsNat, PaymentsAreFinite
    <3>2. invoices[i].status \in Issued
      BY <1>1, <2>3 DEF Invoice, Statuses, Issued
    <3>3. Balance(i) \in Nat
      <4>1. Agrees(invoices[i].status, PaidOf(payments, i), TotalOf(invoices[i].lines))
        BY <1>1, StatusIs DEF InvoicesSound
      <4> QED BY <3>1, <3>2, <4>1 DEF Agrees, Issued
    <3>4. sessions[s].amount \in Nat /\ sessions[s].amount > 0
      BY <1>1 DEF Session
    <3>5. Balance(i) = 0
      BY <1>7, <3>2, <3>3, <3>4 DEF CanRecordPayment
    <3>6. Balance(sessions[s].inv)'
             = TotalOf(invoices'[sessions'[s].inv].lines) - PaidOf(payments', sessions'[s].inv)
      BY DEF Balance, Total, TotalOf, Paid, PaidOf, PaymentsFor
    <3>7. Balance(sessions[s].inv)' = 0
      BY <1>3, <2>1, <3>1, <3>5, <3>6
    <3> QED BY <3>7 DEF Settled
  <2> QED BY <2>2, <2>3
<1> QED BY <1>5, <1>6, <1>7

LEMMA WebhookSessions ==
    ASSUME InvoicesSound, OutsideTypeOK, PointersOK, SessionsSound, BillStep, BillsGrow,
           NEW s \in DOMAIN sessions, Webhook(s)
    PROVE  SessionsSound'
<1> DEFINE ref == IF sessions[s].intent THEN IntentRef(s) ELSE SessionRef(s)
<1>1. sessions \in Seq(Session) /\ sessions[s] \in Session /\ payments \in Seq(Payment)
  BY DEF OutsideTypeOK, InvoicesSound
<1>2. sessions' = [sessions EXCEPT ![s].state = "answered"]
  BY DEF Webhook, ApplyCheckout
<1>3. /\ DOMAIN sessions' = DOMAIN sessions
      /\ sessions'[s].state = "answered" /\ sessions'[s].intent = sessions[s].intent
      /\ \A t \in DOMAIN sessions : t # s => sessions'[t] = sessions[t]
  BY <1>1, <1>2 DEF Session
<1>4. AnsweredSessionAccounted'
  <2> SUFFICES ASSUME NEW t \in DOMAIN sessions', sessions'[t].state = "answered", sessions'[t].intent
               PROVE  Settled(t)'
    BY AccountedIs
  <2>1. CASE t = s
    BY <1>3, <2>1, WebhookSettles
  <2>2. CASE t # s
    <3>1. t \in DOMAIN sessions /\ sessions'[t] = sessions[t]
      BY <1>3, <2>2
    <3>2. Settled(t)
      BY <3>1, AccountedIs DEF SessionsSound
    <3> QED BY <3>1, <3>2, SettledStays
  <2> QED BY <2>1, <2>2
<1>5. ASSUME NEW p \in DOMAIN payments', payments'[p].ref.kind = "session"
      PROVE  /\ payments'[p].ref.id \in DOMAIN sessions'
             /\ sessions'[payments'[p].ref.id].state = "answered"
             /\ ~sessions'[payments'[p].ref.id].intent
  <2>1. CASE p \in DOMAIN payments
    <3>1. payments'[p] = payments[p]
      BY <2>1 DEF BillsGrow
    <3> QED BY <1>3, <1>5, <2>1, <3>1 DEF SessionsSound
  <2>2. CASE p \notin DOMAIN payments
    <3>1. \E new : payments' = Append(payments, new) /\ new.ref = ref
      BY <2>2 DEF Webhook, ApplyCheckout, StoreRecordPayment, invoiceVars
    <3>2. payments'[p].ref = ref
      BY <1>1, <2>2, <3>1
    <3>3. ~sessions[s].intent /\ ref.id = s
      BY <1>5, <3>2 DEF IntentRef, SessionRef
    <3> HIDE DEF ref
    <3> QED BY <1>3, <3>2, <3>3
  <2> QED BY <2>1, <2>2
<1> QED BY <1>4, <1>5 DEF SessionsSound

----------------------------------------------------------------------------
(* The inductive invariant.  Each property needs more than itself: the     *)
(* money of an invoice needs every payment to name one; the pairs of trust *)
(* money need the ledger to be sound; a session needs its invoice to have  *)
(* been sent and its references to be of its own kind.                     *)
InvoicingInv ==
    /\ LedgerInv
    /\ InvoicesSound
    /\ OutsideTypeOK
    /\ PointersOK
    /\ TrustPaymentsBacked
    /\ SessionsSound

LEMMA InvoicingStarts == InvoicingInit => InvoicingInv
<1> SUFFICES ASSUME InvoicingInit PROVE InvoicingInv
  OBVIOUS
<1>1. /\ TrustInit /\ invoices = <<>> /\ payments = <<>> /\ hours = {} /\ nextHour = 1
      /\ sessions = <<>> /\ charges = <<>> /\ mail = <<>> /\ entries = <<>>
  BY DEF InvoicingInit, InvoicesInit, TrustInit
<1>2. /\ DOMAIN invoices = {} /\ DOMAIN payments = {} /\ DOMAIN entries = {}
      /\ DOMAIN sessions = {} /\ DOMAIN charges = {} /\ DOMAIN mail = {}
  BY <1>1
<1>3. LedgerInv
  BY <1>1, InitLedgerInv
<1>4. InvoicesSound
  BY <1>1, <1>2 DEF InvoicesSound, StatusMatchesMoney, HourBilledOnce
<1>5. OutsideTypeOK /\ PointersOK
  BY <1>1, <1>2, FS_EmptySet DEF OutsideTypeOK, PointersOK
<1>6. TrustPaymentsBacked /\ SessionsSound
  BY <1>2 DEF TrustPaymentsBacked, Transfers, TrustPayments, SessionsSound, AnsweredSessionAccounted
<1> QED BY <1>3, <1>4, <1>5, <1>6 DEF InvoicingInv

LEMMA InvoicingSteps ==
    InvoicingInv /\ [InvoicingNext]_invoicingVars => InvoicingInv' /\ BillStep /\ BillsGrow
<1> SUFFICES ASSUME InvoicingInv, [InvoicingNext]_invoicingVars
             PROVE  InvoicingInv' /\ BillStep /\ BillsGrow
  OBVIOUS
<1> USE DEF InvoicingInv
<1>1. BillStep /\ MoneyStep
  BY EveryStep DEF LedgerInv
<1>2. InvoicesSound' /\ BillsGrow
  BY <1>1, BillStepIsSound
<1>3. LedgerInv'
  BY LedgerStays
<1>4. OutsideTypeOK' /\ PointersOK'
  BY <1>2, OutsideTypesStay, PointersStay
<1>5. ASSUME UNCHANGED <<payments, sessions>>, NoTransferCame
      PROVE  TrustPaymentsBacked' /\ SessionsSound'
  <2>1. TrustPaymentsBacked'
    BY <1>2, <1>5, OtherMoney
  <2>2. SessionsSound'
    BY <1>1, <1>2, <1>5, OtherSessions
  <2> QED BY <2>1, <2>2
<1>6. ASSUME UNCHANGED <<entries, payments>>, SessionStep
      PROVE  TrustPaymentsBacked' /\ SessionsSound'
  <2>1. TrustPaymentsBacked'
    BY <1>2, <1>6, OtherMoney, NothingCame
  <2>2. /\ \A s \in DOMAIN sessions' :
              \/ s \in DOMAIN sessions /\ sessions'[s] = sessions[s]
              \/ sessions'[s].state # "answered"
        /\ \A s \in DOMAIN sessions : sessions[s].state = "answered" =>
              s \in DOMAIN sessions' /\ sessions'[s] = sessions[s]
    <3>1. sessions \in Seq(Session)
      BY DEF OutsideTypeOK
    <3>2. CASE \E actor \in Actors, m \in Matters, i \in DOMAIN invoices :
                  CreateCheckoutSession(actor, m, i)
      <4>1. PICK new : sessions' = Append(sessions, new) /\ new.state = "open"
        BY <3>2 DEF CreateCheckoutSession
      <4> QED BY <3>1, <4>1
    <3>3. ASSUME NEW t \in DOMAIN sessions, NEW intent \in BOOLEAN, ClientPays(t, intent)
          PROVE  /\ \A s \in DOMAIN sessions' :
                       \/ s \in DOMAIN sessions /\ sessions'[s] = sessions[s]
                       \/ sessions'[s].state # "answered"
                 /\ \A s \in DOMAIN sessions : sessions[s].state = "answered" =>
                       s \in DOMAIN sessions' /\ sessions'[s] = sessions[s]
      <4>1. /\ sessions[t].state = "open" /\ sessions[t] \in Session
            /\ sessions' = [sessions EXCEPT ![t].state = "paid", ![t].intent = intent]
        BY <3>1, <3>3 DEF ClientPays
      <4>2. /\ DOMAIN sessions' = DOMAIN sessions /\ sessions'[t].state = "paid"
            /\ \A s \in DOMAIN sessions : s # t => sessions'[s] = sessions[s]
        BY <3>1, <4>1 DEF Session
      <4> QED BY <4>1, <4>2
    <3> QED BY <1>6, <3>2, <3>3 DEF SessionStep
  <2>3. SessionsSound'
    BY <1>1, <1>2, <1>6, <2>2, OtherSessions
  <2> QED BY <2>1, <2>3
<1>7. ASSUME NEW i \in DOMAIN invoices, NEW amount \in Int, NEW method \in {"manual", "card"},
             NEW ref \in Ref, ref.kind \in {"none", "given", "processor"},
             StoreRecordPayment(i, amount, method, ref), UNCHANGED <<entries, sessions>>
      PROVE  TrustPaymentsBacked' /\ SessionsSound'
  <2> DEFINE new == [inv |-> i, amount |-> amount, method |-> method, ref |-> ref]
  <2>1. payments' = Append(payments, new) /\ new.method = method /\ new.ref = ref
    BY <1>7 DEF StoreRecordPayment
  <2> HIDE DEF new
  <2>2. \A p \in DOMAIN payments' \ DOMAIN payments : payments'[p] = new
    BY <2>1 DEF InvoicesSound
  <2>3. TrustPaymentsBacked'
    BY <1>2, <1>7, <2>1, <2>2, OtherMoney, NothingCame
  <2>4. SessionsSound'
    BY <1>1, <1>2, <1>7, <2>1, <2>2, OtherSessions
  <2> QED BY <2>3, <2>4
<1>8. ASSUME NEW actor \in Actors, NEW m \in Matters, NEW i \in DOMAIN invoices,
             NEW amount \in PayAmounts, PayFromTrust(actor, m, i, amount)
      PROVE  TrustPaymentsBacked' /\ SessionsSound'
  <2>1. TrustPaymentsBacked'
    BY <1>2, <1>8, TrustMoney
  <2> DEFINE ref == [kind |-> "trust", id |-> Len(entries) + 1]
             new == [inv |-> i, amount |-> amount, method |-> "trust_application", ref |-> ref]
  <2>2. StoreRecordPayment(i, amount, "trust_application", ref)
    BY <1>8, TrustPaymentIs
  <2>3. new.ref = ref /\ ref.kind = "trust"
    OBVIOUS
  <2> HIDE DEF ref
  <2>4. payments' = Append(payments, new)
    BY <2>2 DEF StoreRecordPayment
  <2> HIDE DEF new
  <2>5. payments' = Append(payments, new) /\ new.ref.kind = "trust"
    BY <2>3, <2>4
  <2>6. \A p \in DOMAIN payments' \ DOMAIN payments : payments'[p] = new
    BY <2>5 DEF InvoicesSound
  <2>7. UNCHANGED sessions
    BY <1>8, TrustPaymentIs
  <2>8. SessionsSound'
    BY <1>1, <1>2, <2>5, <2>6, <2>7, OtherSessions
  <2> QED BY <2>1, <2>8
<1>9. ASSUME NEW s \in DOMAIN sessions, Webhook(s)
      PROVE  TrustPaymentsBacked' /\ SessionsSound'
  <2>1. /\ UNCHANGED entries
        /\ \A p \in DOMAIN payments' \ DOMAIN payments : payments'[p].method # "trust_application"
    <3>1. UNCHANGED payments \/ \E new : payments' = Append(payments, new) /\ new.method = "card"
      BY <1>9 DEF Webhook, ApplyCheckout, StoreRecordPayment, invoiceVars
    <3>2. UNCHANGED entries
      BY <1>9 DEF Webhook, ApplyCheckout, trustVars
    <3> QED BY <3>1, <3>2 DEF InvoicesSound
  <2>2. TrustPaymentsBacked'
    BY <1>2, <2>1, OtherMoney, NothingCame
  <2> QED BY <1>1, <1>2, <1>9, <2>2, WebhookSessions
<1>10. TrustPaymentsBacked' /\ SessionsSound'
  BY <1>1, <1>5, <1>6, <1>7, <1>8, <1>9 DEF MoneyStep
<1> QED BY <1>1, <1>2, <1>3, <1>4, <1>10

(* Every reachable state of invoicing satisfies the inductive invariant.   *)
THEOREM InvoicingInvariant == InvoicingSpec => []InvoicingInv
<1> QED BY InvoicingStarts, InvoicingSteps, PTL DEF InvoicingSpec

(* The status of an invoice and the money applied to it agree, whatever    *)
(* payments arrive in whatever order.                                      *)
THEOREM StatusFollowsMoney == InvoicingSpec => []StatusMatchesMoney
<1>1. InvoicingInv => StatusMatchesMoney
  BY DEF InvoicingInv, InvoicesSound
<1> QED BY <1>1, InvoicingInvariant, PTL

(* No hour of a matter is on two of its lines that count.                  *)
THEOREM HoursBilledOnce == InvoicingSpec => []HourBilledOnce
<1>1. InvoicingInv => HourBilledOnce
  BY DEF InvoicingInv, InvoicesSound
<1> QED BY <1>1, InvoicingInvariant, PTL

(* Every transfer of earned fees paid one invoice of its matter, once.     *)
THEOREM TransfersPayInvoices == InvoicingSpec => []TrustPaymentsBacked
<1>1. InvoicingInv => TrustPaymentsBacked
  BY DEF InvoicingInv
<1> QED BY <1>1, InvoicingInvariant, PTL

(* Stripe is never told that money arrived that is on no invoice.          *)
THEOREM SessionsAreAccounted == InvoicingSpec => []AnsweredSessionAccounted
<1>1. InvoicingInv => AnsweredSessionAccounted
  BY DEF InvoicingInv, SessionsSound
<1> QED BY <1>1, InvoicingInvariant, PTL

(* What any step of invoicing does to the ledger: nothing, one movement or *)
(* one reversal.                                                           *)
LEMMA LedgerSteps ==
    ASSUME InvoicesSound, [InvoicingNext]_invoicingVars
    PROVE  \/ UNCHANGED entries
           \/ \E by \in Actors, m \in Matters, type \in RequestTypes, amount \in Amounts \cup PayAmounts :
                 LedgerRecord(by, m, type, amount)
           \/ \E by \in Actors, i \in DOMAIN entries : LedgerReverse(by, i)
<1> DEFINE Moves == \/ UNCHANGED entries
                    \/ \E by \in Actors, m \in Matters, type \in RequestTypes,
                          amount \in Amounts \cup PayAmounts : LedgerRecord(by, m, type, amount)
                    \/ \E by \in Actors, i \in DOMAIN entries : LedgerReverse(by, i)
<1>1. ASSUME NEW actor \in Actors, NEW m \in Matters, LedgerNext(actor, m)
      PROVE  Moves
  <2>1. "deposit" \in RequestTypes
    BY DEF RequestTypes
  <2>2. CASE \E amount \in Amounts : RecordEntry(actor, m, "deposit", amount)
    BY <2>1, <2>2 DEF RecordEntry
  <2>3. CASE \E i \in DOMAIN entries : ReverseEntry(actor, m, i)
    BY <2>3 DEF ReverseEntry
  <2> QED BY <1>1, <2>2, <2>3 DEF LedgerNext
<1>2. ASSUME NEW actor \in Actors, NEW m \in Matters, NEW i \in DOMAIN invoices,
             NEW amount \in PayAmounts, PayFromTrust(actor, m, i, amount)
      PROVE  Moves
  <2>1. LedgerRecord(actor, m, "earned_fee_transfer", amount)
    BY <1>2, TrustPaymentIs
  <2>2. "earned_fee_transfer" \in RequestTypes
    BY DEF RequestTypes, OutboundTypes
  <2> QED BY <2>1, <2>2
<1>3. ASSUME UNCHANGED entries
      PROVE  Moves
  BY <1>3
<1> HIDE DEF Moves
<1>4. ASSUME NEW actor \in Actors, NEW m \in Matters, DraftingNext(actor, m)
      PROVE  Moves
  BY <1>3, <1>4 DEF DraftingNext, LogHours, DeleteEntry, CreateDraft, AddLineItem, RemoveLineItem,
                    AddTimeFromBillingHours, SendInvoice, VoidInvoice, trustVars
<1>5. ASSUME NEW actor \in Actors, NEW m \in Matters, PaymentNext(actor, m)
      PROVE  Moves
  BY <1>2, <1>3, <1>5 DEF PaymentNext, RecordPayment, BeginCharge, BeginMail,
                          CreateCheckoutSession, trustVars
<1>6. CASE OutsideNext
  BY <1>3, <1>6 DEF OutsideNext, ProcessorAnswers, FinishCharge, TransportAnswers, FinishMail,
                    ClientPays, Webhook, ApplyCheckout, trustVars
<1>7. CASE Restart
  BY <1>3, <1>7 DEF Restart, trustVars
<1>8. CASE UNCHANGED invoicingVars
  BY <1>3, <1>8 DEF invoicingVars, trustVars
<1> QED BY <1>1, <1>3, <1>4, <1>5, <1>6, <1>7, <1>8 DEF InvoicingNext, Moves

(* With the invoices' payments among the movements the total of the        *)
(* matters' balances is still the sum of them all.                         *)
THEOREM InvoicingAddsUp == InvoicingSpec => []LedgerTotalIsEveryMovement
<1>1. InvoicingInit => LedgerTotalIsEveryMovement
  BY EmptyAddsUp DEF InvoicingInit
<1>2. InvoicingInv /\ LedgerTotalIsEveryMovement /\ [InvoicingNext]_invoicingVars
        => LedgerTotalIsEveryMovement'
  <2> SUFFICES ASSUME InvoicingInv, LedgerTotalIsEveryMovement, [InvoicingNext]_invoicingVars
               PROVE  LedgerTotalIsEveryMovement'
    OBVIOUS
  <2>1. LedgerInv /\ InvoicesSound
    BY DEF InvoicingInv
  <2>2. CASE UNCHANGED entries
    BY <2>2 DEF LedgerTotalIsEveryMovement, LedgerTotal, MattersSeen
  <2>3. ASSUME NEW by \in Actors, NEW m \in Matters, NEW type \in RequestTypes,
               NEW amount \in Amounts \cup PayAmounts, LedgerRecord(by, m, type, amount)
        PROVE  LedgerTotalIsEveryMovement'
    <3>1. amount \in Int
      BY TrustAssumption, InvoicesAssumption
    <3> QED BY <2>1, <2>3, <3>1, RecordAddsUp
  <2>4. ASSUME NEW by \in Actors, NEW i \in DOMAIN entries, LedgerReverse(by, i)
        PROVE  LedgerTotalIsEveryMovement'
    BY <2>1, <2>4, ReverseAddsUp
  <2> QED BY <2>1, <2>2, <2>3, <2>4, LedgerSteps
<1> QED BY <1>1, <1>2, InvoicingInvariant, PTL DEF InvoicingSpec

(* The account the ledger is, when it is moved by what invoices are paid   *)
(* too.                                                                    *)
BilledAccount == INSTANCE TrustAccount WITH
    Ids    <- 1 .. MaxEntries,
    Deltas <- UNION {{a, -a} : a \in {b \in Amounts \cup PayAmounts : b > 0}},
    funds  <- [m \in Matters |-> BalanceForMatter(entries, m)],
    moved  <- [i \in Movements |->
                 [matter |-> entries[i].matter,
                  delta  |-> SignedDelta(entries[i].type, entries[i].amount)]],
    undone <- ReversedIn(entries)

(* The ledger implements the trust account with the invoices at work:      *)
(* paying from trust is a movement like another, and nothing else that     *)
(* happens to an invoice moves a matter's money.                           *)
THEOREM InvoicingImplementsTrustAccount == InvoicingSpec => BilledAccount!Spec
<1>1. InvoicingInit => BilledAccount!Init
  BY EmptyAccount DEF InvoicingInit, Account!Init, BilledAccount!Init
<1>2. InvoicingInv /\ [InvoicingNext]_invoicingVars
        => [BilledAccount!Next]_BilledAccount!acctVars
  <2> SUFFICES ASSUME InvoicingInv, [InvoicingNext]_invoicingVars
               PROVE  BilledAccount!Next \/ UNCHANGED BilledAccount!acctVars
    OBVIOUS
  <2>1. LedgerInv /\ InvoicesSound
    BY DEF InvoicingInv
  <2>2. CASE UNCHANGED entries
    BY <2>2 DEF BilledAccount!acctVars, Movements
  <2>3. ASSUME NEW by \in Actors, NEW m \in Matters, NEW type \in RequestTypes,
               NEW amount \in Amounts \cup PayAmounts, LedgerRecord(by, m, type, amount)
        PROVE  BilledAccount!Next
    <3> DEFINE delta == SignedDelta(type, amount)
    <3>1. amount \in Int
      BY TrustAssumption, InvoicesAssumption
    <3>2. /\ amount > 0 /\ delta \in {amount, -amount}
          /\ \E id \in 1 .. MaxEntries : Account!Move(id, m, delta)
      BY <2>1, <2>3, <3>1, RecordImplementsMove
    <3> HIDE DEF delta
    <3>3. PICK id \in 1 .. MaxEntries : BilledAccount!Move(id, m, delta)
      BY <3>2 DEF Account!Move, Account!Adjust, BilledAccount!Move, BilledAccount!Adjust
    <3>4. delta \in UNION {{a, -a} : a \in {b \in Amounts \cup PayAmounts : b > 0}}
      BY <3>2
    <3> QED BY <3>3, <3>4 DEF BilledAccount!Next
  <2>4. ASSUME NEW by \in Actors, NEW i \in DOMAIN entries, LedgerReverse(by, i)
        PROVE  BilledAccount!Next
    <3>1. i \in Movements /\ Account!Undo(i)
      BY <2>1, <2>4, ReverseImplementsUndo
    <3>2. BilledAccount!Undo(i)
      BY <3>1 DEF Account!Undo, Account!Adjust, BilledAccount!Undo, BilledAccount!Adjust
    <3> QED BY <3>1, <3>2 DEF BilledAccount!Next
  <2> QED BY <2>1, <2>2, <2>3, <2>4, LedgerSteps
<1> QED BY <1>1, <1>2, InvoicingInvariant, PTL DEF InvoicingSpec, BilledAccount!Spec

(* No matter is overdrawn by paying invoices from trust either, and money  *)
(* is still put back at most once.                                         *)
THEOREM InvoicingNeverOverdraws == InvoicingSpec => [](NeverOverdrawn /\ ReversedAtMostOnce)
<1>1. InvoicingInv => NeverOverdrawn /\ ReversedAtMostOnce
  BY DEF InvoicingInv, LedgerInv
<1> QED BY <1>1, InvoicingInvariant, PTL

(* The lines of an invoice lock the moment it is sent.                     *)
THEOREM SentInvoicesLock == InvoicingSpec => IssuedLinesLocked
<1> DEFINE Locked == \A i \in DOMAIN invoices :
             invoices[i].status # "draft" =>
                /\ invoices'[i].lines = invoices[i].lines
                /\ invoices'[i].status # invoices[i].status =>
                     <<invoices[i].status, invoices'[i].status>> \in
                       {<<"sent", "partially_paid">>, <<"sent", "paid">>, <<"sent", "void">>,
                        <<"partially_paid", "paid">>}
<1>1. BillsGrow => Locked
  BY DEF BillsGrow, Kept, LaterStatuses
<1>2. InvoicingInv /\ [InvoicingNext]_invoicingVars => [Locked]_invoicingVars
  BY <1>1, InvoicingSteps
<1>3. (InvoicingSpec => [][Locked]_invoicingVars) => (InvoicingSpec => IssuedLinesLocked)
  BY DEF IssuedLinesLocked
<1> HIDE DEF Locked
<1>4. InvoicingSpec => [][Locked]_invoicingVars
  BY <1>2, InvoicingInvariant, PTL DEF InvoicingSpec
<1> QED BY <1>3, <1>4

----------------------------------------------------------------------------
(* The invoices implement the bills of Receivable.                         *)

BillOf(inv, paid) ==
    [state |-> CASE inv.status = "draft" -> "draft"
                 [] inv.status = "void"  -> "void"
                 [] OTHER                -> "issued",
     total |-> IF inv.status \in Issued THEN TotalOf(inv.lines) ELSE 0,
     paid  |-> paid]

BillList   == [i \in DOMAIN invoices |-> Bill(i)]
BillRecord == [state : {"draft", "issued", "void"}, total : Nat, paid : Nat]
MaxTotal   == Bound["lines"] * Max(LineAmounts)

LEMMA BillIs ==
    \A i : /\ Bill(i) = BillOf(invoices[i], PaidOf(payments, i))
           /\ Bill(i)' = BillOf(invoices'[i], PaidOf(payments', i))
BY MoneyIs DEF Bill, BillOf

LEMMA BillListIs ==
    ASSUME InvoicesSound
    PROVE  /\ BillList \in Seq(BillRecord) /\ Len(BillList) = Len(invoices)
           /\ \A i \in DOMAIN invoices : BillList[i] = Bill(i) /\ Bill(i) \in BillRecord
<1>1. /\ invoices \in Seq(Invoice) /\ payments \in Seq(Payment)
      /\ Len(invoices) \in Nat /\ DOMAIN invoices = 1 .. Len(invoices)
  BY DEF InvoicesSound
<1>2. ASSUME NEW i \in DOMAIN invoices
      PROVE  Bill(i) \in BillRecord
  <2>1. invoices[i].lines \in Seq(Line)
    <3>1. invoices[i] \in Invoice
      BY <1>1
    <3> QED BY <3>1 DEF Invoice
  <2>2. TotalOf(invoices[i].lines) \in Nat
    BY <2>1, TotalIsNat
  <2>3. PaidOf(payments, i) \in Nat
    BY <1>1, PaymentsAreFinite
  <2> QED BY <2>2, <2>3, BillIs DEF BillOf, BillRecord
<1>3. BillList \in [1 .. Len(invoices) -> BillRecord]
  BY <1>1, <1>2 DEF BillList
<1>4. \A i \in DOMAIN invoices : BillList[i] = Bill(i)
  BY DEF BillList
<1> QED BY <1>1, <1>2, <1>3, <1>4

(* Where one bill at most changes, the list changes there.                 *)
LEMMA OneBillChanges ==
    ASSUME NEW i \in DOMAIN invoices, DOMAIN invoices' = DOMAIN invoices,
           \A j \in DOMAIN invoices : j # i => Bill(j)' = Bill(j)
    PROVE  BillList' = [BillList EXCEPT ![i] = Bill(i)']
<1> DEFINE F == BillList
           G == BillList'
           b == Bill(i)'
<1>1. /\ F = [j \in DOMAIN invoices |-> F[j]] /\ G = [j \in DOMAIN invoices |-> G[j]]
      /\ \A j \in DOMAIN invoices : F[j] = Bill(j) /\ G[j] = Bill(j)'
  BY DEF BillList
<1>2. \A j \in DOMAIN invoices : G[j] = IF j = i THEN b ELSE F[j]
  BY <1>1
<1> HIDE DEF F, G, b
<1>3. G = [F EXCEPT ![i] = b]
  BY <1>1, <1>2
<1> QED BY <1>3 DEF F, G, b

(* An appended sequence, element by element.                               *)
LEMMA AppendedIs ==
    ASSUME NEW S, NEW f \in Seq(S), NEW b \in S, NEW n, n = Len(f) + 1
    PROVE  Append(f, b) = [j \in 1 .. n |-> IF j = n THEN b ELSE f[j]]
<1> DEFINE g == Append(f, b)
<1>1. Len(f) \in Nat /\ g = [j \in 1 .. (Len(f) + 1) |-> g[j]]
  <2>1. Len(f) \in Nat /\ g \in Seq(S) /\ Len(g) = Len(f) + 1
    OBVIOUS
  <2>2. \A h \in Seq(S) : h = [j \in 1 .. Len(h) |-> h[j]]
    OBVIOUS
  <2> HIDE DEF g
  <2>3. g = [j \in 1 .. Len(g) |-> g[j]]
    BY <2>1, <2>2
  <2> QED BY <2>1, <2>3, Zenon
<1>2. \A j \in 1 .. (Len(f) + 1) : g[j] = IF j = Len(f) + 1 THEN b ELSE f[j]
  OBVIOUS
<1> HIDE DEF g
<1>3. g = [j \in 1 .. n |-> IF j = n THEN b ELSE f[j]]
  BY <1>1, <1>2
<1> QED BY <1>3 DEF g

(* What issuing and applying write is one new bill in the place of the old.*)
LEMMA BillEdits ==
    ASSUME NEW f \in Seq(BillRecord), NEW i \in DOMAIN f, NEW x
    PROVE  /\ [f EXCEPT ![i].state = "issued", ![i].total = x]
                = [f EXCEPT ![i] = [state |-> "issued", total |-> x, paid |-> f[i].paid]]
           /\ [f EXCEPT ![i].paid = @ + x]
                = [f EXCEPT ![i] = [state |-> f[i].state, total |-> f[i].total,
                                    paid |-> f[i].paid + x]]
<1>1. f[i] = [state |-> f[i].state, total |-> f[i].total, paid |-> f[i].paid]
  <2>1. f[i] \in BillRecord
    OBVIOUS
  <2> QED BY <2>1 DEF BillRecord
<1>2. [[f[i] EXCEPT !.state = "issued"] EXCEPT !.total = x]
         = [state |-> "issued", total |-> x, paid |-> f[i].paid]
  <2>1. [f[i] EXCEPT !.state = "issued"]
           = [state |-> "issued", total |-> f[i].total, paid |-> f[i].paid]
    BY <1>1
  <2>2. [[state |-> "issued", total |-> f[i].total, paid |-> f[i].paid] EXCEPT !.total = x]
           = [state |-> "issued", total |-> x, paid |-> f[i].paid]
    OBVIOUS
  <2> QED BY <2>1, <2>2, Zenon
<1>3. [f[i] EXCEPT !.paid = @ + x]
         = [state |-> f[i].state, total |-> f[i].total, paid |-> f[i].paid + x]
  BY <1>1
<1> QED BY <1>2, <1>3

(* The lines of an invoice come to an amount a bill can be issued with.    *)
LEMMA TotalAtMost ==
    ASSUME NEW lines \in Seq(Line), Len(lines) <= Bound["lines"]
    PROVE  /\ lines = <<>> => TotalOf(lines) = 0
           /\ lines # <<>> => MaxTotal \in Nat /\ TotalOf(lines) \in 0 .. MaxTotal
<1> DEFINE D == DOMAIN lines
           v == [k \in D |-> lines[k].amount]
           n == Len(lines)
           top == Max(LineAmounts)
           b == Bound["lines"]
<1>1. n \in Nat /\ D = 1 .. n /\ b \in Nat /\ n <= b
  BY InvoicingAssumption DEF Kinds
<1>2. IsFiniteSet(D) /\ Cardinality(D) = n
  <2>1. \A x \in Nat : IsFiniteSet(1 .. x) /\ Cardinality(1 .. x) = x
    BY FS_Interval
  <2> HIDE DEF D, n
  <2> QED BY <1>1, <2>1, Zenon
<1>3. TotalOf(lines) = SumFunctionOnSet(v, D) /\ TotalOf(lines) \in Nat
  BY TotalIsNat DEF TotalOf, SumFunction
<1>4. \A k \in D : v[k] \in LineAmounts
  <2>1. \A k \in D : lines[k] \in Line
    OBVIOUS
  <2> QED BY <2>1 DEF Line
<1> HIDE DEF v
<1>5. ASSUME lines = <<>> PROVE TotalOf(lines) = 0
  <2>1. D = {}
    BY <1>5
  <2>2. SumFunctionOnSet(v, {}) = 0
    BY FS_EmptySet, SumFacts
  <2> HIDE DEF D
  <2> QED BY <1>3, <2>1, <2>2, Zenon
<1>6. ASSUME lines # <<>>
      PROVE  MaxTotal \in Nat /\ TotalOf(lines) \in 0 .. MaxTotal
  <2>1. LineAmounts # {}
    <3>1. 1 \in D
      BY <1>1, <1>6
    <3> QED BY <1>4, <3>1
  <2>2. /\ LineAmounts \in SUBSET Nat /\ IsFiniteSet(LineAmounts)
        /\ top \in LineAmounts /\ \A a \in LineAmounts : a <= top
    BY <2>1, InvoicesAssumption, FiniteHasMax
  <2> HIDE DEF D, n, top, b
  <2>3. top \in Nat /\ \A k \in D : v[k] \in Nat /\ v[k] <= top
    BY <1>4, <2>2
  <2>4. SumFunctionOnSet(v, D) <= Cardinality(D) * top
    BY <1>2, <2>3, SumAtMost
  <2>5. TotalOf(lines) <= n * top
    BY <1>2, <1>3, <2>4
  <2>6. n * top <= b * top /\ b * top \in Nat /\ n * top \in Nat
    <3>1. (b - n) \in Nat /\ \A x, y \in Nat : x * y \in Nat
      BY <1>1
    <3>2. b * top = n * top + (b - n) * top
      BY <1>1, <2>3
    <3> QED BY <1>1, <2>3, <3>1, <3>2
  <2>7. MaxTotal = b * top
    BY DEF MaxTotal, b, top
  <2> QED BY <1>3, <2>5, <2>6, <2>7
<1> QED BY <1>5, <1>6

(* Each thing done to the store is a step of the bills, or none.           *)
LEMMA BillStepImplements ==
    ASSUME InvoicesSound, BillStep, BillsGrow
    PROVE  Bills!Next \/ BillList' = BillList
<1> DEFINE T(i) == TotalOf(invoices[i].lines)
           P(i) == PaidOf(payments, i)
<1>1. /\ invoices \in Seq(Invoice) /\ payments \in Seq(Payment)
      /\ \A i \in DOMAIN invoices :
            /\ invoices[i] \in Invoice /\ Len(invoices[i].lines) <= Bound["lines"]
            /\ Agrees(invoices[i].status, P(i), T(i))
  BY StatusIs DEF InvoicesSound
<1>2. BillList \in Seq(BillRecord) /\ \A i \in DOMAIN invoices : BillList[i] = Bill(i)
  BY BillListIs
<1>3. CASE UNCHANGED invoiceVars
  BY <1>3, BillIs DEF invoiceVars, BillList
<1>4. ASSUME NEW m \in Matters, StoreCreateDraft(m), UNCHANGED payments
      PROVE  Bills!Next
  <2> DEFINE new == [matter |-> m, status |-> "draft", lines |-> <<>>]
  <2> PICK n \in Nat : n = Len(invoices) + 1
    BY <1>1
  <2> DEFINE b == Bill(n)'
  <2>1. /\ invoices' = Append(invoices, new) /\ Len(invoices) \in Nat
        /\ DOMAIN invoices = 1 .. Len(invoices) /\ DOMAIN invoices' = 1 .. n
        /\ invoices'[n] = new /\ \A j \in DOMAIN invoices : invoices'[j] = invoices[j]
    BY <1>1, <1>4 DEF StoreCreateDraft
  <2>2. \A j \in DOMAIN invoices : Bill(j)' = Bill(j)
    BY <1>4, <2>1, BillIs
  <2>3. b = Bills!NewBill
    <3>1. {q \in DOMAIN payments : payments[q].inv = n} = {}
      BY <2>1 DEF InvoicesSound
    <3>2. PaidOf(payments', n) = 0
      BY <1>1, <1>4, <3>1, PaymentsAreFinite
    <3>3. b = BillOf(new, 0)
      BY <2>1, <3>2, BillIs, Zenon
    <3> QED BY <3>3 DEF BillOf, Bills!NewBill, Issued
  <2>4. Len(BillList) = Len(invoices)
    BY BillListIs
  <2>5. BillList' = [j \in 1 .. n |-> IF j = n THEN b ELSE BillList[j]]
    <3>1. \A j \in 1 .. n : j # n => j \in DOMAIN invoices
      BY <2>1
    <3>2. \A j \in 1 .. n : Bill(j)' = IF j = n THEN b ELSE BillList[j]
      BY <1>2, <2>2, <3>1
    <3>3. BillList' = [j \in 1 .. n |-> Bill(j)']
      BY <2>1 DEF BillList
    <3> HIDE DEF b
    <3> QED BY <3>2, <3>3
  <2> HIDE DEF b
  <2>6. BillList' = Append(BillList, b)
    <3>1. b \in BillRecord
      BY <2>3 DEF BillRecord, Bills!NewBill
    <3>2. n = Len(BillList) + 1
      BY <2>4
    <3>3. Append(BillList, b) = [j \in 1 .. n |-> IF j = n THEN b ELSE BillList[j]]
      BY <1>2, <3>1, <3>2, AppendedIs
    <3> QED BY <2>5, <3>3, Zenon
  <2> QED BY <2>3, <2>6 DEF Bills!Next, Bills!Draft, BillList
<1>5. ASSUME NEW i \in DOMAIN invoices, NEW lines \in Seq(Line), Relined(i, lines)
      PROVE  BillList' = BillList
  <2> DEFINE new == [invoices[i] EXCEPT !.lines = lines]
  <2>1. /\ invoices' = [invoices EXCEPT ![i] = new] /\ payments' = payments
        /\ invoices[i].status = "draft" /\ invoices[i] \in Invoice
    BY <1>1, <1>5 DEF Relined
  <2>2. new \in Invoice /\ new.status = "draft"
    BY <2>1 DEF Invoice
  <2> HIDE DEF new
  <2>3. /\ DOMAIN invoices' = DOMAIN invoices /\ invoices'[i] = new
        /\ \A j \in DOMAIN invoices : j # i => invoices'[j] = invoices[j]
    BY <2>1, <2>2, OneInvoiceChanges
  <2>4. \A j \in DOMAIN invoices : Bill(j)' = Bill(j)
    BY <2>1, <2>2, <2>3, BillIs DEF BillOf, Issued
  <2> QED BY <2>3, <2>4 DEF BillList
<1>6. ASSUME NEW i \in DOMAIN invoices, StatusStep(i)
      PROVE  Bills!Next
  <2> DEFINE to == IF StoreSend(i) THEN "sent" ELSE "void"
             new == [invoices[i] EXCEPT !.status = to]
  <2>1. /\ new \in Invoice /\ new.lines = invoices[i].lines /\ new.status = to
        /\ invoices' = [invoices EXCEPT ![i] = new] /\ payments' = payments
    BY <1>1, <1>6 DEF Invoice, Statuses, StatusStep, StoreSend, StoreVoid
  <2>2. \/ to = "sent" /\ invoices[i].status = "draft" /\ invoices[i].lines # <<>>
        \/ to = "void" /\ PaymentsFor(i) = {} /\ invoices[i].status # "void"
    BY <1>6 DEF StatusStep, StoreSend, StoreVoid, CanSend
  <2> HIDE DEF new, to
  <2>3. /\ DOMAIN invoices' = DOMAIN invoices /\ invoices'[i] = new
        /\ \A j \in DOMAIN invoices : j # i => invoices'[j] = invoices[j]
    BY <2>1, OneInvoiceChanges
  <2>4. \A j \in DOMAIN invoices : j # i => Bill(j)' = Bill(j)
    BY <2>1, <2>3, BillIs
  <2>5. BillList' = [BillList EXCEPT ![i] = Bill(i)']
    BY <2>3, <2>4, OneBillChanges
  <2>6. Bill(i) = BillOf(invoices[i], P(i)) /\ Bill(i)' = BillOf(new, P(i)) /\ BillList[i] = Bill(i)
    BY <1>2, <2>1, <2>3, BillIs
  <2>7. PaymentsFor(i) = {} => P(i) = 0
    BY <1>1, PaymentsAreFinite DEF PaymentsFor
  <2>8. CASE to = "sent"
    <3>1. P(i) = 0 /\ invoices[i].status = "draft" /\ invoices[i].lines # <<>>
      BY <1>1, <2>2, <2>8 DEF Agrees
    <3>2. T(i) \in 0 .. MaxTotal
      BY <1>1, <3>1, TotalAtMost DEF Invoice
    <3>3. /\ Bill(i) = [state |-> "draft", total |-> 0, paid |-> P(i)]
          /\ Bill(i)' = [state |-> "issued", total |-> T(i), paid |-> P(i)]
      BY <2>1, <2>6, <2>8, <3>1 DEF BillOf, Issued
    <3> HIDE DEF T, P
    <3>4. BillList' = [BillList EXCEPT ![i].state = "issued", ![i].total = T(i)]
      <4>1. BillList[i] = [state |-> "draft", total |-> 0, paid |-> P(i)]
        BY <2>6, <3>3
      <4>2. BillList' = [BillList EXCEPT ![i] = [state |-> "issued", total |-> T(i), paid |-> P(i)]]
        BY <2>5, <3>3
      <4>3. i \in DOMAIN BillList
        BY DEF BillList
      <4>4. [BillList EXCEPT ![i].state = "issued", ![i].total = T(i)]
              = [BillList EXCEPT ![i] = [state |-> "issued", total |-> T(i),
                                         paid |-> BillList[i].paid]]
        BY <1>2, <4>3, BillEdits
      <4>5. BillList[i].paid = P(i)
        BY <4>1
      <4> QED BY <4>2, <4>4, <4>5, Zenon
    <3>5. Bills!Issue(i, T(i))
      BY <2>6, <3>3, <3>4 DEF Bills!Issue, BillList
    <3>6. i \in DOMAIN BillList
      BY DEF BillList
    <3> QED BY <3>2, <3>5, <3>6 DEF Bills!Next, BillList, MaxTotal
  <2>9. CASE to = "void" /\ PaymentsFor(i) = {} /\ invoices[i].status # "void"
    <3>1. /\ Bill(i).state # "void" /\ Bill(i).paid = 0
          /\ Bill(i)' = [state |-> "void", total |-> 0, paid |-> 0]
      BY <2>1, <2>6, <2>7, <2>9 DEF BillOf, Issued
    <3>2. Bills!Void(i)
      BY <2>5, <2>6, <3>1 DEF Bills!Void, Bills!NewBill, BillList
    <3>3. i \in DOMAIN BillList
      BY DEF BillList
    <3> QED BY <3>2, <3>3 DEF Bills!Next, BillList
  <2> QED BY <2>2, <2>8, <2>9
<1>7. ASSUME NEW i \in DOMAIN invoices, NEW amount \in Int, NEW method \in Methods,
             NEW ref \in Ref, StoreRecordPayment(i, amount, method, ref)
      PROVE  Bills!Next
  <2> DEFINE new == [inv |-> i, amount |-> amount, method |-> method, ref |-> ref]
  <2>1. /\ amount > 0 /\ amount <= T(i) - P(i)
        /\ invoices[i].status \in {"sent", "partially_paid"}
        /\ invoices'[i].status \in {"partially_paid", "paid"}
        /\ DOMAIN invoices' = DOMAIN invoices /\ invoices'[i].lines = invoices[i].lines
        /\ \A j \in DOMAIN invoices : j # i => invoices'[j] = invoices[j]
    BY <1>7, PaymentIsSound
  <2>2. payments' = Append(payments, new) /\ new \in Payment /\ new.inv = i /\ new.amount = amount
    BY <1>1, <1>7, <2>1 DEF StoreRecordPayment, Payment
  <2> HIDE DEF new
  <2>3. PaidOf(payments', i) = P(i) + amount
    BY <1>1, <2>2, PaidOneMore
  <2>4. \A j \in DOMAIN invoices : P(j) \in Nat /\ T(j) \in Nat
    BY <1>1, TotalIsNat, PaymentsAreFinite DEF Invoice
  <2>5. \A j \in DOMAIN invoices : j # i => PaidOf(payments', j) = PaidOf(payments, j)
    <3> SUFFICES ASSUME NEW j \in DOMAIN invoices, j # i
                 PROVE  PaidOf(payments', j) = PaidOf(payments, j)
      OBVIOUS
    <3>1. PaidOf(Append(payments, new), j) = PaidOf(payments, j) + IF new.inv = j THEN new.amount ELSE 0
      BY <1>1, <2>2, PaidOneMore
    <3> QED BY <2>2, <2>4, <3>1
  <2>6. \A j \in DOMAIN invoices : j # i => Bill(j)' = Bill(j)
    BY <2>1, <2>5, BillIs
  <2>7. BillList' = [BillList EXCEPT ![i] = Bill(i)']
    BY <2>1, <2>6, OneBillChanges
  <2>8. /\ Bill(i) = [state |-> "issued", total |-> T(i), paid |-> P(i)]
        /\ Bill(i)' = [state |-> "issued", total |-> T(i), paid |-> P(i) + amount]
    BY <2>1, <2>3, BillIs DEF BillOf, Issued
  <2>9. amount \in 1 .. MaxTotal /\ P(i) + amount <= T(i)
    <3>1. /\ invoices[i].lines = <<>> => T(i) = 0
          /\ invoices[i].lines # <<>> => MaxTotal \in Nat /\ T(i) \in 0 .. MaxTotal
      BY <1>1, TotalAtMost DEF Invoice
    <3> HIDE DEF T, P
    <3> QED BY <2>1, <2>4, <3>1
  <2> HIDE DEF T, P
  <2>10. BillList[i] = [state |-> "issued", total |-> T(i), paid |-> P(i)] /\ i \in DOMAIN BillList
    BY <1>2, <2>8 DEF BillList
  <2>11. BillList' = [BillList EXCEPT ![i].paid = @ + amount]
    <3>1. BillList' = [BillList EXCEPT ![i] = [state |-> "issued", total |-> T(i),
                                               paid |-> P(i) + amount]]
      BY <2>7, <2>8
    <3>2. [BillList EXCEPT ![i].paid = @ + amount]
             = [BillList EXCEPT ![i] = [state |-> BillList[i].state, total |-> BillList[i].total,
                                        paid |-> BillList[i].paid + amount]]
      BY <1>2, <2>10, BillEdits
    <3>3. /\ BillList[i].state = "issued" /\ BillList[i].total = T(i)
          /\ BillList[i].paid = P(i)
      BY <2>10
    <3> QED BY <3>1, <3>2, <3>3, Zenon
  <2>12. Bills!Apply(i, amount)
    BY <2>1, <2>9, <2>10, <2>11 DEF Bills!Apply, BillList
  <2> QED BY <2>9, <2>10, <2>12 DEF Bills!Next, BillList, MaxTotal
<1> QED BY <1>3, <1>4, <1>5, <1>6, <1>7 DEF BillStep

(* An invoice is a bill: its total is fixed when it is sent, money is      *)
(* applied up to that total and never taken off, whatever the payments,    *)
(* mail, checkout events and restarts in between.                          *)
THEOREM InvoicesImplementBills == InvoicingSpec => ImplementsReceivable
<1>1. InvoicingInit => Bills!Init
  <2>1. InvoicingInit => DOMAIN invoices = {}
    BY DEF InvoicingInit, InvoicesInit
  <2>2. InvoicingInit => BillList = <<>>
    BY <2>1 DEF BillList
  <2> QED BY <2>2 DEF Bills!Init, BillList
<1>2. InvoicingInv /\ [InvoicingNext]_invoicingVars
         => [Bills!Next]_[i \in DOMAIN invoices |-> Bill(i)]
  <2> SUFFICES ASSUME InvoicingInv, [InvoicingNext]_invoicingVars
               PROVE  Bills!Next \/ BillList' = BillList
    BY DEF BillList
  <2>1. InvoicesSound /\ BillStep /\ BillsGrow
    BY InvoicingSteps DEF InvoicingInv
  <2> QED BY <2>1, BillStepImplements
<1> QED BY <1>1, <1>2, InvoicingInvariant, PTL DEF InvoicingSpec, ImplementsReceivable, Bills!Spec
=============================================================================
