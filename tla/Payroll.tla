------------------------------- MODULE Payroll -------------------------------
(***************************************************************************)
(* What the firm pays its people (core/payroll.ts), behind its service     *)
(* (review-ui/payroll-service.ts) and /api/payroll in review-ui/server.ts. *)
(*                                                                         *)
(* Rates are only ever appended; worked hours are recorded and deleted.    *)
(* Both take their ids from one counter that is saved with them, so no id  *)
(* is given twice.  Days are numbers; descriptions and notes are left out  *)
(* but for whether the hours came from a clocked shift.                    *)
(***************************************************************************)
EXTENDS Integers, Sequences, SequencesExt, FiniteSetsExt

CONSTANTS
    Lawyers, Employees, \* the people on the payroll, by role
    Outsiders,          \* client accounts and the system credential
    WorkDays,           \* the days work is done on
    RateCents,          \* hourly rates a request can carry, valid or not
    HandHours,          \* thousandths of an hour a request can carry
    Scale,              \* thousandths in an hour, 1000 in the code
    Payees,             \* bound: the people requests set rates and hours of
    MaxIds              \* bound: rates and hours ever recorded

People == Lawyers \cup Employees
Users  == People \cup Outsiders

ASSUME PayrollAssumption ==
    /\ Lawyers \cap Employees = {} /\ People \cap Outsiders = {}
    /\ Payees \subseteq People
    /\ WorkDays \subseteq Int /\ \E last \in WorkDays : \A d \in WorkDays : d <= last
    /\ RateCents \subseteq Int /\ HandHours \subseteq Int
    /\ Scale \in Nat \ {0} /\ MaxIds \in Nat

VARIABLES
    rates,      \* every rate ever set, in the order it was set
    worked,     \* the worked-hours entries on record, by id
    nextPayId

payrollVars == <<rates, worked, nextPayId>>

Rate   == [actor : People, cents : RateCents, from : WorkDays]
Worked == [actor : People, date : WorkDays, milli : Int, clocked : BOOLEAN]

\* Math.round of a quotient: halves go up.
Rounded(a, b) == (2 * a + b) \div (2 * b)

\* requireSelfOrAttorney, after requireHuman has denied the outsiders.
SelfOrAttorney(actor, p) == actor \in People /\ (actor = p \/ actor \in Lawyers)

\* Mutant: the rate that was set last, whenever it takes effect.
RateSetLast(set, p, date) ==
    SelectLastInSeq(set, LAMBDA r : r.actor = p)

\* PayrollStore.rateOn, as a position in the list (0 for none): a stable
\* sort by effective date and the last of it, so of the rates effective
\* from one day the one set last.
RateOn(set, p, date) ==
    LET known == {i \in DOMAIN set : set[i].actor = p /\ set[i].from <= date}
        top   == {i \in known : \A j \in known : set[j].from <= set[i].from}
    IN  IF known = {} THEN 0 ELSE Max(top)

\* The line of summarize for one entry; hours without a rate earn nothing
\* and their date is reported.
Pay(set, e) ==
    LET r == RateOn(set, e.actor, e.date)
    IN  IF r = 0 THEN 0 ELSE Rounded(e.milli * set[r].cents, Scale)

\* PayrollStore.summarize, the gross pay of one person over a period.
GrossPay(p, from, to) ==
    MapThenSumSet(LAMBDA id : Pay(rates, worked[id]),
        {id \in DOMAIN worked : worked[id].actor = p /\ worked[id].date \in from .. to})

DatesMissingRate(p, from, to) ==
    {worked[id].date : id \in {x \in DOMAIN worked :
        /\ worked[x].actor = p /\ worked[x].date \in from .. to
        /\ RateOn(rates, p, worked[x].date) = 0}}

----------------------------------------------------------------------------
(* PayrollStore.recordHours and deleteHours *)

StoreHours(p, date, milli, clocked) ==
    /\ nextPayId <= MaxIds
    /\ milli > 0
    /\ worked' = [id \in DOMAIN worked \cup {nextPayId} |->
                    IF id = nextPayId
                    THEN [actor |-> p, date |-> date, milli |-> milli, clocked |-> clocked]
                    ELSE worked[id]]
    /\ nextPayId' = nextPayId + 1
    /\ UNCHANGED rates

----------------------------------------------------------------------------
(* review-ui/payroll-service.ts *)

SetRate(actor, p, cents, from) ==
    /\ nextPayId <= MaxIds
    /\ actor \in Lawyers
    /\ cents > 0
    /\ rates' = Append(rates, [actor |-> p, cents |-> cents, from |-> from])
    /\ nextPayId' = nextPayId + 1
    /\ UNCHANGED worked

RecordHours(actor, p, date, milli) ==
    /\ SelfOrAttorney(actor, p)
    /\ StoreHours(p, date, milli, FALSE)

\* An entry is deleted among those of p, whether or not a shift backs it.
DeleteHours(actor, p, id) ==
    /\ SelfOrAttorney(actor, p)
    /\ id \in DOMAIN worked /\ worked[id].actor = p
    /\ worked' = [x \in DOMAIN worked \ {id} |-> worked[x]]
    /\ UNCHANGED <<rates, nextPayId>>

PayrollInit == rates = <<>> /\ worked = <<>> /\ nextPayId = 1

PayrollNext ==
    \E actor \in Users, p \in Payees :
        \/ \E cents \in RateCents, from \in WorkDays : SetRate(actor, p, cents, from)
        \/ \E date \in WorkDays, milli \in HandHours : RecordHours(actor, p, date, milli)
        \/ \E id \in DOMAIN worked : DeleteHours(actor, p, id)

PayrollTypeOK ==
    /\ rates \in Seq(Rate)
    /\ nextPayId \in 1 .. (MaxIds + 1)
    /\ DOMAIN worked \subseteq 1 .. (nextPayId - 1)
    /\ \A id \in DOMAIN worked : worked[id] \in Worked /\ worked[id].milli > 0
=============================================================================
