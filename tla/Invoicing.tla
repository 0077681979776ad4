----------------------------- MODULE Invoicing -----------------------------
(***************************************************************************)
(* Invoicing as the server runs it (review-ui/invoicing-service.ts and     *)
(* billing-hours-service.ts): the invoice store, the hours it bills, the   *)
(* client trust ledger it can be paid from, and three outside parties the  *)
(* handlers wait for - the mail transport, a card processor and Stripe     *)
(* Checkout.                                                               *)
(*                                                                         *)
(* A handler that awaits one of them is split where it awaits: what it     *)
(* copied before is kept in mail or charges, other handlers run meanwhile, *)
(* and the rest of it is an action of its own.  createCheckoutSession      *)
(* changes nothing after its await and is one action.                      *)
(***************************************************************************)
EXTENDS TrustLedger, Invoices

CONSTANTS
    Bound,      \* bound on each kind of record, a function from Kinds to Nat
    MaxWork     \* bound on the records of all kinds together, where one
                \* that a handler waits on counts twice

Kinds == {"invoices", "lines", "payments", "hours", "sessions", "charges", "mail"}

ASSUME InvoicingAssumption == Bound \in [Kinds -> Nat] /\ MaxWork \in Nat

VARIABLES
    sessions,   \* checkout sessions: sequence of [inv, amount, intent, state]
    charges,    \* processor charges: sequence of [inv, amount, state]
    mail        \* mail to clients: sequence of [inv, kind, lines, state]

outsideVars   == <<sessions, charges, mail>>
invoicingVars == <<trustVars, invoiceVars, hourVars, outsideVars>>

Work == Len(entries) + Len(invoices) + Len(payments) + nextHour - 1 +
        Len(sessions) + 2 * Len(charges) + 2 * Len(mail) +
        SumFunction([i \in DOMAIN invoices |-> Len(invoices[i].lines)])

Room(kind, n) == Work < MaxWork /\ n < Bound[kind]

InvoicesOf(m) == {i \in DOMAIN invoices : invoices[i].matter = m}

----------------------------------------------------------------------------
(* BillingHoursService                                                     *)

LogHours(actor, m, tiny) ==
    /\ AuthorizedStaff(actor, m)
    /\ Room("hours", nextHour - 1)
    /\ StoreLogHours(m, tiny)
    /\ UNCHANGED <<trustVars, invoiceVars, outsideVars>>

DeleteEntry(actor, m, h) ==
    /\ AuthorizedStaff(actor, m)
    /\ h \in HoursOf(m)
    /\ StoreDeleteHours(h)
    /\ UNCHANGED <<trustVars, invoiceVars, outsideVars>>

----------------------------------------------------------------------------
(* InvoicingService: drafting                                              *)

CreateDraft(actor, m) ==
    /\ AuthorizedStaff(actor, m)
    /\ Room("invoices", Len(invoices))
    /\ StoreCreateDraft(m)
    /\ UNCHANGED <<trustVars, payments, hourVars, outsideVars>>

AddLineItem(actor, m, i, amount) ==
    /\ AuthorizedStaff(actor, m)
    /\ i \in InvoicesOf(m)
    /\ Room("lines", Len(invoices[i].lines))
    /\ StoreAddLines(i, <<[amount |-> amount, hour |-> NoHour]>>)
    /\ UNCHANGED <<trustVars, payments, hourVars, outsideVars>>

RemoveLineItem(actor, m, i, k) ==
    /\ AuthorizedStaff(actor, m)
    /\ i \in InvoicesOf(m)
    /\ k \in DOMAIN invoices[i].lines
    /\ StoreRemoveLine(i, k)
    /\ UNCHANGED <<trustVars, payments, hourVars, outsideVars>>

\* The lines are added one by one in date order, and a tiny hour throws in
\* the middle of it: the hours dated before it stay on the draft.
AddTimeFromBillingHours(actor, m, i, amount) ==
    LET unbilled == {h \in HoursOf(m) : h.id \notin BilledEntryIds(m)}
        billable == {h \in unbilled : ~h.tiny}
    IN  /\ AuthorizedStaff(actor, m)
        /\ i \in InvoicesOf(m)
        /\ \E added \in SUBSET billable :
              /\ billable = unbilled => added = unbilled
              /\ added # {}
              /\ Room("lines", Len(invoices[i].lines) + Cardinality(added) - 1)
              /\ StoreAddLines(i, SetToSeq({[amount |-> amount, hour |-> h.id] : h \in added}))
        /\ UNCHANGED <<trustVars, payments, hourVars, outsideVars>>

SendInvoice(actor, m, i) ==
    /\ actor \in Attorneys
    /\ i \in InvoicesOf(m)
    /\ StoreSend(i)
    /\ UNCHANGED <<trustVars, payments, hourVars, outsideVars>>

VoidInvoice(actor, m, i) ==
    /\ actor \in Attorneys
    /\ i \in InvoicesOf(m)
    /\ StoreVoid(i)
    /\ UNCHANGED <<trustVars, payments, hourVars, outsideVars>>

----------------------------------------------------------------------------
(* InvoicingService: money from outside, and from the trust account        *)

\* Money received outside the app; a reference is optional free text.
RecordPayment(actor, m, i, amount, ref) ==
    /\ AuthorizedStaff(actor, m)
    /\ i \in InvoicesOf(m)
    /\ Room("payments", Len(payments))
    /\ StoreRecordPayment(i, amount, "manual", ref)
    /\ UNCHANGED <<trustVars, hourVars, outsideVars>>

TrustTransfer(actor, m, i, amount) ==
    /\ LedgerRecord(actor, m, "earned_fee_transfer", amount)
    /\ IF CanRecordPayment(i, amount)
       THEN StoreRecordPayment(i, amount, "trust_application",
                               [kind |-> "trust", id |-> Len(entries) + 1])
       ELSE UNCHANGED invoiceVars

\* Mutant: the trust ledger's own check is the only one before the transfer.
PayFromTrustUnchecked(actor, m, i, amount) ==
    /\ actor \in Attorneys
    /\ i \in InvoicesOf(m)
    /\ Room("payments", Len(payments))
    /\ TrustTransfer(actor, m, i, amount)
    /\ UNCHANGED <<accessVars, hourVars, outsideVars>>

\* The invoice side is checked, the trust side is written, then the payment
\* is: were the store to refuse it, the transfer would stay in the ledger.
PayFromTrust(actor, m, i, amount) ==
    /\ actor \in Attorneys
    /\ i \in InvoicesOf(m)
    /\ Room("payments", Len(payments))
    /\ invoices[i].status \notin {"draft", "void"}
    /\ amount <= Balance(i)
    /\ TrustTransfer(actor, m, i, amount)
    /\ UNCHANGED <<accessVars, hourVars, outsideVars>>

\* chargePayment up to its await: neither the invoice's status nor its
\* balance is looked at before the processor is asked.
BeginCharge(actor, m, i, amount) ==
    /\ AuthorizedStaff(actor, m)
    /\ i \in InvoicesOf(m)
    /\ Room("charges", Len(charges))
    /\ charges' = Append(charges, [inv |-> i, amount |-> amount, state |-> "asked"])
    /\ UNCHANGED <<trustVars, invoiceVars, hourVars, sessions, mail>>

ProcessorAnswers(c, taken) ==
    /\ charges[c].state = "asked"
    /\ charges' = [charges EXCEPT ![c].state = IF taken THEN "taken" ELSE "declined"]
    /\ UNCHANGED <<trustVars, invoiceVars, hourVars, sessions, mail>>

\* chargePayment after its await.
FinishCharge(c) ==
    LET i == charges[c].inv
        amount == charges[c].amount
        ref == [kind |-> "processor", id |-> c]
    IN  /\ charges[c].state = "taken"
        /\ IF CanRecordPayment(i, amount)
           THEN /\ StoreRecordPayment(i, amount, "card", ref)
                /\ charges' = [charges EXCEPT ![c].state = "recorded"]
           ELSE /\ charges' = [charges EXCEPT ![c].state = "unrecorded"]
                /\ UNCHANGED invoiceVars
        /\ UNCHANGED <<trustVars, hourVars, sessions, mail>>

----------------------------------------------------------------------------
(* InvoicingService: mail                                                  *)

\* emailInvoice and emailReminder up to their await: the lines are rendered.
BeginMail(actor, m, i, kind) ==
    /\ actor \in Attorneys
    /\ i \in InvoicesOf(m)
    /\ Room("mail", Len(mail))
    /\ invoices[i].status # "void"
    /\ kind = "invoice"  => invoices[i].lines # <<>>
    /\ kind = "reminder" => invoices[i].status # "draft" /\ Balance(i) > 0
    /\ mail' = Append(mail, [inv |-> i, kind |-> kind,
                             lines |-> invoices[i].lines, state |-> "sending"])
    /\ UNCHANGED <<trustVars, invoiceVars, hourVars, sessions, charges>>

TransportAnswers(n, accepted) ==
    /\ mail[n].state = "sending"
    /\ mail' = [mail EXCEPT ![n].state = IF accepted THEN "accepted" ELSE "failed"]
    /\ UNCHANGED <<trustVars, invoiceVars, hourVars, sessions, charges>>

\* emailInvoice and emailReminder after their await.  An invoice that is
\* still a draft is sent now, whatever its lines have become; without any,
\* send() throws and the delivery is not recorded.
FinishMail(n) ==
    LET i == mail[n].inv
        issues == mail[n].kind = "invoice" /\ invoices[i].status = "draft"
    IN  /\ mail[n].state = "accepted"
        /\ IF issues THEN (IF CanSend(i) THEN StoreSend(i) ELSE UNCHANGED invoices)
                     ELSE UNCHANGED invoices
        /\ mail' = [mail EXCEPT ![n].state =
                      IF issues => CanSend(i) THEN "recorded" ELSE "unrecorded"]
        /\ UNCHANGED <<trustVars, payments, hourVars, sessions, charges>>

----------------------------------------------------------------------------
(* InvoicingService: Stripe Checkout                                       *)

\* createCheckoutSession refuses a draft, not a void invoice.
CreateCheckoutSession(actor, m, i) ==
    /\ AuthorizedClient(actor, m)
    /\ i \in InvoicesOf(m)
    /\ Room("sessions", Len(sessions))
    /\ invoices[i].status # "draft"
    /\ Balance(i) > 0
    /\ sessions' = Append(sessions, [inv |-> i, amount |-> Balance(i),
                                     intent |-> FALSE, state |-> "open"])
    /\ UNCHANGED <<trustVars, invoiceVars, hourVars, charges, mail>>

\* Stripe takes the money; its event may or may not name a payment intent.
ClientPays(s, intent) ==
    /\ sessions[s].state = "open"
    /\ sessions' = [sessions EXCEPT ![s].state = "paid", ![s].intent = intent]
    /\ UNCHANGED <<trustVars, invoiceVars, hourVars, charges, mail>>

IntentRef(s)  == IF sessions[s].intent THEN [kind |-> "intent", id |-> s] ELSE NoRef
SessionRef(s) == [kind |-> "session", id |-> s]

\* A missing intent compares equal to the missing reference of a payment.
AlreadyRecorded(s) ==
    \E p \in PaymentsFor(sessions[s].inv) :
        payments[p].ref \in {IntentRef(s), SessionRef(s)}

ApplyCheckout(s, amount) ==
    /\ sessions[s].state \in {"paid", "answered"}
    /\ IF ~AlreadyRecorded(s) /\ CanRecordPayment(sessions[s].inv, amount)
       THEN StoreRecordPayment(sessions[s].inv, amount, "card",
              IF sessions[s].intent THEN IntentRef(s) ELSE SessionRef(s))
       ELSE UNCHANGED invoiceVars
    /\ sessions' = [sessions EXCEPT ![s].state = "answered"]
    /\ UNCHANGED <<trustVars, hourVars, charges, mail>>

\* Mutant: the amount of the event is not capped at what is still due.
WebhookUncapped(s) == ApplyCheckout(s, sessions[s].amount)

\* The webhook route around recordCheckoutPayment: an error is logged and
\* Stripe gets its 200 all the same.  An event can be delivered again.
Webhook(s) ==
    LET due == Balance(sessions[s].inv)
    IN  ApplyCheckout(s, IF sessions[s].amount < due THEN sessions[s].amount ELSE due)

----------------------------------------------------------------------------
\* What becomes of a handler's work when it is gone before it finished.
Abandoned(state) ==
    CASE state = "asked"                 -> "declined"
      [] state = "sending"               -> "failed"
      [] state \in {"taken", "accepted"} -> "unrecorded"
      [] OTHER                           -> state

\* Every handler that was waiting is gone; what was done outside stays done.
Restart ==
    /\ charges' = [c \in DOMAIN charges |-> [charges[c] EXCEPT !.state = Abandoned(@)]]
    /\ mail' = [n \in DOMAIN mail |-> [mail[n] EXCEPT !.state = Abandoned(@)]]
    /\ RestoreHours
    /\ UNCHANGED <<trustVars, invoiceVars, sessions>>

InvoicingInit ==
    /\ TrustInit /\ InvoicesInit
    /\ sessions = <<>> /\ charges = <<>> /\ mail = <<>>

\* The ledger's own requests are deposits and reversals here, so that every
\* transfer of earned fees in the ledger is one an invoice was paid with.
LedgerNext(actor, m) ==
    /\ Work < MaxWork
    /\ \/ \E amount \in Amounts : RecordEntry(actor, m, "deposit", amount)
       \/ \E i \in DOMAIN entries : ReverseEntry(actor, m, i)
    /\ UNCHANGED <<invoiceVars, hourVars, outsideVars>>

DraftingNext(actor, m) ==
    \/ \E tiny \in BOOLEAN : LogHours(actor, m, tiny)
    \/ \E h \in hours : DeleteEntry(actor, m, h)
    \/ CreateDraft(actor, m)
    \/ \E i \in DOMAIN invoices :
          \/ \E amount \in LineAmounts :
                \/ AddLineItem(actor, m, i, amount)
                \/ AddTimeFromBillingHours(actor, m, i, amount)
          \/ \E k \in DOMAIN invoices[i].lines : RemoveLineItem(actor, m, i, k)
          \/ SendInvoice(actor, m, i)
          \/ VoidInvoice(actor, m, i)

PaymentNext(actor, m) ==
    \E i \in DOMAIN invoices :
        \/ \E amount \in PayAmounts :
              \/ \E ref \in {NoRef, [kind |-> "given", id |-> 0]} :
                    RecordPayment(actor, m, i, amount, ref)
              \/ PayFromTrust(actor, m, i, amount)
              \/ BeginCharge(actor, m, i, amount)
        \/ \E kind \in {"invoice", "reminder"} : BeginMail(actor, m, i, kind)
        \/ CreateCheckoutSession(actor, m, i)

OutsideNext ==
    \/ \E c \in DOMAIN charges :
          \/ \E taken \in BOOLEAN : ProcessorAnswers(c, taken)
          \/ FinishCharge(c)
    \/ \E n \in DOMAIN mail :
          \/ \E accepted \in BOOLEAN : TransportAnswers(n, accepted)
          \/ FinishMail(n)
    \/ \E s \in DOMAIN sessions :
          \/ \E intent \in BOOLEAN : ClientPays(s, intent)
          \/ Webhook(s)

InvoicingNext ==
    \/ \E actor \in Actors, m \in Matters :
          LedgerNext(actor, m) \/ DraftingNext(actor, m) \/ PaymentNext(actor, m)
    \/ OutsideNext
    \/ (StaffAccessNext \/ ClientAccessNext)
          /\ UNCHANGED <<entries, invoiceVars, hourVars, outsideVars>>
    \/ Restart

InvoicingSpec == InvoicingInit /\ [][InvoicingNext]_invoicingVars

----------------------------------------------------------------------------

(* "An invoice's line items lock the moment it's sent" (core/invoicing.ts):*)
(* from then on no handler, not even one that was already running, changes *)
(* a line or takes the invoice anywhere but on towards paid, or to void.   *)
IssuedLinesLocked ==
    [][\A i \in DOMAIN invoices :
         invoices[i].status # "draft" =>
            /\ invoices'[i].lines = invoices[i].lines
            /\ invoices'[i].status # invoices[i].status =>
                 <<invoices[i].status, invoices'[i].status>> \in
                   {<<"sent", "partially_paid">>, <<"sent", "paid">>, <<"sent", "void">>,
                    <<"partially_paid", "paid">>}
      ]_invoicingVars

Transfers     == {e \in DOMAIN entries : entries[e].type = "earned_fee_transfer"}
TrustPayments == {p \in DOMAIN payments : payments[p].method = "trust_application"}

(* The trust ledger and the invoices agree on what was paid from trust:    *)
(* every transfer of earned fees is referred to by exactly one payment, of *)
(* the same amount on the same matter, and no such payment lacks one -     *)
(* "a rejected payment can't leave an orphaned withdrawal behind"          *)
(* (invoicing-service.ts payFromTrust).                                    *)
TrustPaymentsBacked ==
    /\ \A p \in TrustPayments :
          LET e == payments[p].ref.id
          IN  /\ e \in Transfers
              /\ entries[e].amount = payments[p].amount
              /\ entries[e].matter = invoices[payments[p].inv].matter
    /\ \A e \in Transfers :
          \E p \in TrustPayments :
              /\ payments[p].ref.id = e
              /\ \A q \in TrustPayments : payments[q].ref.id = e => q = p

(* Stripe gets a 200 whatever happens, so an event is not sent again: the  *)
(* money of a session with a payment intent must be on its invoice by      *)
(* then, unless the invoice is void or nothing is due on it any more,      *)
(* however many other payments arrived since the session was created.      *)
AnsweredSessionAccounted ==
    \A s \in DOMAIN sessions :
        sessions[s].state = "answered" /\ sessions[s].intent =>
            \/ \E p \in PaymentsFor(sessions[s].inv) : payments[p].ref = IntentRef(s)
            \/ invoices[sessions[s].inv].status = "void"
            \/ Balance(sessions[s].inv) = 0

(* An invoice implements the bill: its total and its payments change only  *)
(* as a bill's may.                                                        *)
Bill(i) ==
    [state |-> CASE invoices[i].status = "draft" -> "draft"
                 [] invoices[i].status = "void"  -> "void"
                 [] OTHER                        -> "issued",
     total |-> IF invoices[i].status \in Issued THEN Total(i) ELSE 0,
     paid  |-> Paid(i)]

Bills == INSTANCE Receivable WITH
    Totals  <- 0 .. (Bound["lines"] * Max(LineAmounts)),
    Payable <- 1 .. (Bound["lines"] * Max(LineAmounts)),
    bills   <- [i \in DOMAIN invoices |-> Bill(i)]

ImplementsReceivable == Bills!Spec
=============================================================================
