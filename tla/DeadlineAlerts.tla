---------------------------- MODULE DeadlineAlerts ----------------------------
(***************************************************************************)
(* The digest of deadlines at risk (integrations/deadline-alerts.ts, a     *)
(* process of its own): it reads the list of what is coming due that       *)
(* core/deadline.ts and review-ui/review-service.ts work out, which        *)
(* review-ui/server.ts completes with the address of the attorney          *)
(* responsible for each matter, and mails one digest per address.          *)
(* Meanwhile dates are recorded (by the calendar job of integrations/      *)
(* calendar-deadline-sync.ts too, whatever is on the calendar), days pass, *)
(* and matters and addresses change.                                       *)
(*                                                                         *)
(* Between two sends anything may happen; the first one that fails ends    *)
(* the run.  Of an address it matters whether it is one mail can go to.    *)
(***************************************************************************)
EXTENDS Deadlines, Integers, FiniteSetsExt, SequencesExt

CONSTANTS
    Partners,       \* attorneys who may be responsible for a matter
    Unassigned,
    Addresses,      \* what the staff directory may hold for one
    BadAddresses,   \* those assertSafeEmailAddress refuses
    NoAddress,
    CatchAlls,      \* DEADLINE_ALERT_RECIPIENT as a run may find it, or NoAddress
    WithinDays,
    MaxDay          \* bound

ASSUME AlertsAssumption ==
    /\ Unassigned \notin Partners /\ NoAddress \notin Addresses
    /\ BadAddresses \subseteq Addresses /\ CatchAlls \subseteq Addresses \cup {NoAddress}
    /\ WithinDays \in Nat /\ MaxDay \in Nat /\ Dates \subseteq Nat

VARIABLES
    today,
    responsible,    \* responsible[m], by the record of the matter
    address,        \* address[p], in the staff directory
    job,            \* the run: where it is, the digests it has still to send,
                    \* the deadlines it told of and those it skipped
    listed          \* history: every deadline a run has ever found coming due

alertVars == <<calculations, today, responsible, address, job, listed>>

Deadline == DeadlineMatters \X DeadlineTypes
DatesOf(d) == {c.date : c \in CalculationsOf(d[1], d[2])}
Soonest(d) == Min(DatesOf(d))

\* Mutant: what is past due is not coming due.
UpcomingNotOverdue ==
    {d \in Deadline : DatesOf(d) # {} /\ Soonest(d) \in today .. today + WithinDays}

\* DeadlineTracker.listUpcoming: by the soonest date any source proposed,
\* what has slipped included.
Upcoming == {d \in Deadline : DatesOf(d) # {} /\ Soonest(d) <= today + WithinDays}

\* deadlineUrgency and the sort of listUpcomingDeadlines.
Urgency(d) ==
    100 - 7 * (Soonest(d) - today)
        + CASE Conflict(d[1], d[2])  -> 60
            [] Confirmed(d[1], d[2]) -> 0
            [] OTHER -> 40

Before(d, e) ==
    \/ Urgency(d) > Urgency(e)
    \/ Urgency(d) = Urgency(e) /\ Soonest(d) < Soonest(e)

\* responsibleAttorneyEmail, or else the catch-all.
Recipient(d, catchAll) ==
    LET p == responsible[d[1]]
    IN  IF p # Unassigned /\ address[p] # NoAddress THEN address[p] ELSE catchAll

DigestFor(to, catchAll) == {d \in Upcoming : Recipient(d, catchAll) = to}

----------------------------------------------------------------------------
Idle == [at |-> "idle", queue |-> <<>>, told |-> {}, skipped |-> {}]

\* The list is read in one request.  Digests are sent in the order in which
\* the recipients come up in it.
FetchUpcoming(catchAll) ==
    /\ job.at # "sending"
    /\ LET Digest(to) == DigestFor(to, catchAll)
           recipients == {Recipient(d, catchAll) : d \in Upcoming} \ {NoAddress}
       IN  \E order \in SetToSeqs(recipients) :
              /\ \A i, j \in DOMAIN order : i < j =>
                    \A e \in Digest(order[j]) : \E d \in Digest(order[i]) : ~Before(e, d)
              /\ job' = [at |-> "sending", told |-> {}, skipped |-> Digest(NoAddress),
                         queue |-> [i \in DOMAIN order |->
                                      [to |-> order[i], deadlines |-> Digest(order[i])]]]
    /\ listed' = listed \cup Upcoming
    /\ UNCHANGED <<calculations, today, responsible, address>>

SendDigest ==
    /\ job.at = "sending" /\ job.queue # <<>>
    /\ Head(job.queue).to \notin BadAddresses
    /\ job' = [job EXCEPT !.queue = Tail(@), !.told = @ \cup Head(job.queue).deadlines]
    /\ UNCHANGED <<calculations, today, responsible, address, listed>>

\* The address is refused, or the mail server does not take the mail.
SendFails ==
    /\ job.at = "sending" /\ job.queue # <<>>
    /\ job' = [job EXCEPT !.at = "failed", !.queue = <<>>]
    /\ UNCHANGED <<calculations, today, responsible, address, listed>>

RunEnds ==
    /\ job.at = "sending" /\ job.queue = <<>>
    /\ job' = [job EXCEPT !.at = "done"]
    /\ UNCHANGED <<calculations, today, responsible, address, listed>>

\* By the agent in drafting, by a person, or off the calendar.
DateRecorded(d, date, source) ==
    /\ RecordDeadline(d[1], d[2], date, source)
    /\ UNCHANGED <<today, responsible, address, job, listed>>

DayPasses ==
    /\ today < MaxDay
    /\ today' = today + 1
    /\ UNCHANGED <<calculations, responsible, address, job, listed>>

\* MattersService.upsert, of the one field that is read here.
AssignResponsible(m, p) ==
    /\ responsible' = [responsible EXCEPT ![m] = p]
    /\ UNCHANGED <<calculations, today, address, job, listed>>

\* An address is stored as it is typed.
SetAddress(p, a) ==
    /\ address' = [address EXCEPT ![p] = a]
    /\ UNCHANGED <<calculations, today, responsible, job, listed>>

AlertsInit ==
    /\ calculations = {}
    /\ today = 0
    /\ responsible = [m \in DeadlineMatters |-> Unassigned]
    /\ address = [p \in Partners |-> NoAddress]
    /\ job = Idle
    /\ listed = {}

AlertsNext ==
    \/ \E catchAll \in CatchAlls : FetchUpcoming(catchAll)
    \/ SendDigest \/ SendFails \/ RunEnds
    \/ \E d \in Deadline, date \in Dates, source \in Sources : DateRecorded(d, date, source)
    \/ DayPasses
    \/ \E m \in DeadlineMatters, p \in Partners \cup {Unassigned} : AssignResponsible(m, p)
    \/ \E p \in Partners, a \in Addresses \cup {NoAddress} : SetAddress(p, a)

AlertsSpec == AlertsInit /\ [][AlertsNext]_alertVars

----------------------------------------------------------------------------
(* "a digest that silently stopped mentioning a deadline ... would defeat  *)
(* the point" (integrations/deadline-alerts.ts): whatever run once found a *)
(* deadline coming due, every later run that ends well has told of it or   *)
(* counted it as skipped, also past due, with sources in conflict, and     *)
(* with the attorney changed in between.  A run that fails promises        *)
(* nothing to those it had not reached.                                    *)
NothingDropsOff ==
    job.at = "done" => listed \subseteq job.told \cup job.skipped
=============================================================================
