------------------------------ MODULE Invoices ------------------------------
(***************************************************************************)
(* The invoice store (core/invoicing.ts) and the billable-hours store it   *)
(* bills from (core/billing-hours.ts): the records and the operations on   *)
(* them, before any access check.                                          *)
(*                                                                         *)
(* Invoices and payments are never removed and nextId is saved with them,  *)
(* so both are named by their position.  An hour's id is a number that can *)
(* be handed out again: nextHour is not saved.  Of an hour's quantity only *)
(* one thing matters: whether it rounds to 0 thousandths, which a line     *)
(* item refuses.  Dates, descriptions, numbers and notes are left out.     *)
(***************************************************************************)
EXTENDS Integers, Sequences, SequencesExt

CONSTANTS
    LineAmounts,    \* cents a line comes to after rounding; 0 is possible
    PayAmounts      \* cents a payment request can carry, valid or not

ASSUME InvoicesAssumption ==
    /\ LineAmounts \subseteq Nat /\ IsFiniteSet(LineAmounts)
    /\ PayAmounts \subseteq Int

VARIABLES
    invoices,       \* sequence of [matter, status, lines]
    payments,       \* sequence of [inv, amount, method, ref]
    hours,          \* the logged hours, a set of [id, matter, tiny]
    nextHour        \* the id the next logged hour gets

invoiceVars == <<invoices, payments>>
hourVars    == <<hours, nextHour>>

NoHour == 0
NoRef  == [kind |-> "none", id |-> 0]

Statuses == {"draft", "sent", "partially_paid", "paid", "void"}
Issued   == {"sent", "partially_paid", "paid"}

Total(i) == SumFunction([k \in DOMAIN invoices[i].lines |-> invoices[i].lines[k].amount])

PaymentsFor(i) == {p \in DOMAIN payments : payments[p].inv = i}
Paid(i)        == SumFunction([p \in PaymentsFor(i) |-> payments[p].amount])
Balance(i)     == Total(i) - Paid(i)

HoursOf(m) == {h \in hours : h.matter = m}

\* Mutant: only an issued invoice counts as having billed an hour.
BilledOnIssued(m) ==
    UNION {{l.hour : l \in ToSet(invoices[i].lines)} \ {NoHour} :
             i \in {j \in DOMAIN invoices : /\ invoices[j].matter = m
                                            /\ invoices[j].status \in Issued}}

\* InvoiceStore.billedEntryIds: a void invoice releases its hours.
BilledEntryIds(m) ==
    UNION {{l.hour : l \in ToSet(invoices[i].lines)} \ {NoHour} :
             i \in {j \in DOMAIN invoices : /\ invoices[j].matter = m
                                            /\ invoices[j].status # "void"}}

----------------------------------------------------------------------------
(* InvoiceStore.  Each operation throws, changing nothing, where its guard *)
(* is false.  addLineItem is AddLines of one line.                         *)

StoreCreateDraft(m) ==
    invoices' = Append(invoices, [matter |-> m, status |-> "draft", lines |-> <<>>])

StoreAddLines(i, lines) ==
    /\ invoices[i].status = "draft"
    /\ invoices' = [invoices EXCEPT ![i].lines = @ \o lines]

\* Mutant: lines can still be taken off until money is applied.
StoreRemoveLineUntilPaid(i, k) ==
    /\ invoices[i].status \in {"draft", "sent"}
    /\ invoices' = [invoices EXCEPT ![i].lines = RemoveAt(@, k)]

StoreRemoveLine(i, k) ==
    /\ invoices[i].status = "draft"
    /\ invoices' = [invoices EXCEPT ![i].lines = RemoveAt(@, k)]

CanSend(i) == invoices[i].status = "draft" /\ invoices[i].lines # <<>>

StoreSend(i) ==
    /\ CanSend(i)
    /\ invoices' = [invoices EXCEPT ![i].status = "sent"]

\* Mutant: a partly paid invoice can be voided too.
StoreVoidUntilPaid(i) ==
    /\ invoices[i].status \notin {"void", "paid"}
    /\ invoices' = [invoices EXCEPT ![i].status = "void"]

StoreVoid(i) ==
    /\ invoices[i].status # "void"
    /\ PaymentsFor(i) = {}
    /\ invoices' = [invoices EXCEPT ![i].status = "void"]

CanRecordPayment(i, amount) ==
    /\ invoices[i].status \in Issued
    /\ amount > 0
    /\ amount <= Balance(i)

\* Mutant: the status is worked out from the total before this payment.
StoreRecordPaymentLate(i, amount, method, ref) ==
    /\ CanRecordPayment(i, amount)
    /\ payments' = Append(payments, [inv |-> i, amount |-> amount,
                                     method |-> method, ref |-> ref])
    /\ invoices' = [invoices EXCEPT ![i].status =
                      IF Paid(i) >= Total(i) THEN "paid" ELSE "partially_paid"]

StoreRecordPayment(i, amount, method, ref) ==
    /\ CanRecordPayment(i, amount)
    /\ payments' = Append(payments, [inv |-> i, amount |-> amount,
                                     method |-> method, ref |-> ref])
    /\ invoices' = [invoices EXCEPT ![i].status =
                      IF Paid(i) + amount >= Total(i) THEN "paid" ELSE "partially_paid"]

----------------------------------------------------------------------------
(* BillingHoursStore.                                                      *)

StoreLogHours(m, tiny) ==
    /\ hours' = hours \cup {[id |-> nextHour, matter |-> m, tiny |-> tiny]}
    /\ nextHour' = nextHour + 1

StoreDeleteHours(h) == hours' = hours \ {h} /\ UNCHANGED nextHour

\* BillingHoursStore.fromSnapshot: ids restart after the largest one kept.
RestoreHours ==
    /\ nextHour' = 1 + Max({h.id : h \in hours} \cup {0})
    /\ UNCHANGED hours

InvoicesInit ==
    /\ invoices = <<>> /\ payments = <<>>
    /\ hours = {} /\ nextHour = 1

----------------------------------------------------------------------------
(* The status of an invoice and the money applied to it always agree: a    *)
(* draft or void invoice has none, and an issued one is never overpaid and *)
(* is "paid" exactly when its payments reach its total, whatever mix of    *)
(* recorded, charged, trust and checkout payments arrived in whatever      *)
(* order.                                                                  *)
StatusMatchesMoney ==
    \A i \in DOMAIN invoices :
        CASE invoices[i].status = "partially_paid" -> 0 < Paid(i) /\ Paid(i) < Total(i)
          [] invoices[i].status = "paid"           -> 0 < Paid(i) /\ Paid(i) = Total(i)
          [] OTHER                                 -> Paid(i) = 0

(* No logged hour is billed twice: on the invoices of one matter that are  *)
(* not void, an hour id is on one line of one invoice at most.  (After a   *)
(* restart the id of a deleted hour can be another matter's new one, so    *)
(* across matters an id says nothing.)                                     *)
HourBilledOnce ==
    \A i, j \in {n \in DOMAIN invoices : invoices[n].status # "void"} :
        \A k \in DOMAIN invoices[i].lines, l \in DOMAIN invoices[j].lines :
            (/\ invoices[i].matter = invoices[j].matter
             /\ invoices[i].lines[k].hour # NoHour
             /\ invoices[i].lines[k].hour = invoices[j].lines[l].hour)
                => i = j /\ k = l
=============================================================================
