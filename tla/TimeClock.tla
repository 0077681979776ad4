------------------------------ MODULE TimeClock ------------------------------
(***************************************************************************)
(* The staff time clock (core/time-clock.ts) behind its service            *)
(* (review-ui/time-clock-service.ts) and /api/time-clock in                *)
(* review-ui/server.ts, composed with the payroll it posts shifts to.      *)
(*                                                                         *)
(* Shifts are never removed and their counter is saved with them, so the   *)
(* id of a shift is its position.  A punch takes the server's clock, which *)
(* is now; a correction takes any times the attorney types.  Of the        *)
(* corrections of a shift only whether there are any is kept, since the    *)
(* code reads no more; notes and time-zone names are left out.             *)
(***************************************************************************)
EXTENDS Payroll

CONSTANTS
    MaxTime,        \* bound: the clock
    DayLength,      \* ticks of the clock in a day of the firm's time zone
    TicksPerMilli,  \* ticks in a thousandth of an hour
    TypedTimes,     \* bound: the times a correction can carry
    MaxShifts,      \* bound: shifts
    Unsent          \* a field the request leaves out

Times == 0 .. MaxTime
Day(t) == t \div DayLength

ASSUME TimeClockAssumption ==
    /\ MaxTime \in Nat /\ MaxShifts \in Nat
    /\ DayLength \in Nat \ {0} /\ TicksPerMilli \in Nat \ {0}
    /\ \A t \in Times : Day(t) \in WorkDays
    /\ TypedTimes \subseteq Times /\ Unsent \notin Times

VARIABLES
    now,
    shifts      \* every shift, in the order it was started

timeVars == <<payrollVars, now, shifts>>

NoTime  == MaxTime + 1  \* clockOutAt of an open shift
NoEntry == 0            \* postedPayrollEntryId of a shift not posted

Shift == [actor : People, in : Times, out : Times \cup {NoTime},
          posted : 0 .. MaxIds, corrected : BOOLEAN]

IsOpen(s)  == s.out = NoTime
OpenShift(p) == {i \in DOMAIN shifts : shifts[i].actor = p /\ IsOpen(shifts[i])}

\* msToHoursMilli
HoursMilli(s) == Rounded(s.out - s.in, TicksPerMilli)

----------------------------------------------------------------------------
(* Punching is self-service: TimeClockService.clockIn and clockOut.        *)

ClockIn(p) ==
    /\ Len(shifts) < MaxShifts
    /\ OpenShift(p) = {}
    /\ shifts' = Append(shifts, [actor |-> p, in |-> now, out |-> NoTime,
                                 posted |-> NoEntry, corrected |-> FALSE])
    /\ UNCHANGED <<payrollVars, now>>

\* TimeClock.openShift is the first open one.
ClockOut(p) ==
    /\ OpenShift(p) # {}
    /\ shifts' = [shifts EXCEPT ![Min(OpenShift(p))].out = now]
    /\ UNCHANGED <<payrollVars, now>>

\* adjust keeps a time the request leaves out, so it can close an open
\* shift and never open a closed one.
NextOut(s, out) == IF out = Unsent THEN s.out ELSE out
NextIn(s, in)   == IF in = Unsent THEN s.in ELSE in

\* Mutant: the correction leaves no trace on the shift.
AdjustSilently(actor, i, in, out) ==
    LET s == shifts[i] IN
    /\ actor \in Lawyers
    /\ s.posted = NoEntry
    /\ NextOut(s, out) # NoTime => NextOut(s, out) > NextIn(s, in)
    /\ shifts' = [shifts EXCEPT ![i].in = NextIn(s, in), ![i].out = NextOut(s, out)]
    /\ UNCHANGED <<payrollVars, now>>

\* TimeClockService.adjust with a reason: nothing compares the new times
\* with the other shifts of the person, or with the clock.
Adjust(actor, i, in, out) ==
    LET s == shifts[i] IN
    /\ actor \in Lawyers
    /\ s.posted = NoEntry
    /\ NextOut(s, out) # NoTime => NextOut(s, out) > NextIn(s, in)
    /\ shifts' = [shifts EXCEPT ![i].in = NextIn(s, in), ![i].out = NextOut(s, out),
                                ![i].corrected = TRUE]
    /\ UNCHANGED <<payrollVars, now>>

\* Mutant: the shift is not looked at again before it is posted.
MayPostTwice(s) == ~IsOpen(s)

MayPost(s) == ~IsOpen(s) /\ s.posted = NoEntry

\* TimeClockService.postToPayroll: the hours are recorded, then the shift
\* is marked, in one turn of the event loop.
PostToPayroll(actor, i) ==
    /\ actor \in Lawyers
    /\ MayPost(shifts[i])
    /\ StoreHours(shifts[i].actor, Day(shifts[i].in), HoursMilli(shifts[i]), TRUE)
    /\ shifts' = [shifts EXCEPT ![i].posted = nextPayId]
    /\ UNCHANGED now

Tick == now < MaxTime /\ now' = now + 1 /\ UNCHANGED <<payrollVars, shifts>>

----------------------------------------------------------------------------
TimeInit == PayrollInit /\ now = 0 /\ shifts = <<>>

TimeNext ==
    \/ \E p \in People : ClockIn(p) \/ ClockOut(p)
    \/ \E actor \in Users, i \in DOMAIN shifts :
        \/ \E in, out \in TypedTimes \cup {Unsent} : Adjust(actor, i, in, out)
        \/ PostToPayroll(actor, i)
    \/ PayrollNext /\ UNCHANGED <<now, shifts>>
    \/ Tick

TimeSpec == TimeInit /\ [][TimeNext]_timeVars

----------------------------------------------------------------------------
TimeTypeOK ==
    /\ PayrollTypeOK
    /\ now \in Times
    /\ shifts \in Seq(Shift)

(* A person is on the clock at most once, whatever is punched and          *)
(* corrected in whatever order: clocking in looks for an open shift, a     *)
(* correction can close one, and neither it nor clocking out leaves two    *)
(* (core/time-clock.ts clockIn, adjust).                                   *)
OneOpenShift ==
    \A i, j \in DOMAIN shifts :
        IsOpen(shifts[i]) /\ IsOpen(shifts[j]) /\ shifts[i].actor = shifts[j].actor
            => i = j

(* The hours of a person's shifts do not overlap as long as they are       *)
(* punched: only a shift that an attorney corrected may cover time another *)
(* shift of that person covers too (core/time-clock.ts adjust).            *)
PunchesDontOverlap ==
    \A i, j \in DOMAIN shifts :
        /\ i < j /\ shifts[i].actor = shifts[j].actor
        /\ ~shifts[i].corrected /\ ~shifts[j].corrected
        => shifts[i].out <= shifts[j].in

(* A shift is paid once and as it was worked ("so the same hours can't be  *)
(* paid twice", "so the two can't disagree"): an entry that came from the  *)
(* clock belongs to exactly one shift, of that person, day and length,     *)
(* whatever is corrected, deleted or recorded by hand meanwhile.           *)
PaidOnceAsWorked ==
    \A id \in DOMAIN worked : worked[id].clocked =>
        \E i \in DOMAIN shifts :
            /\ {j \in DOMAIN shifts : shifts[j].posted = id} = {i}
            /\ worked[id] = [actor |-> shifts[i].actor, date |-> Day(shifts[i].in),
                             milli |-> HoursMilli(shifts[i]), clocked |-> TRUE]

(* "A raise applies from its effective date onward" (core/payroll.ts):     *)
(* work done before that date earns what it earned, a later rate already   *)
(* set keeps its own days, and nothing else, no hours recorded or deleted  *)
(* and nobody else's raise, changes what an entry on record earns.  The    *)
(* rest of that sentence, that a raise "never silently restates what       *)
(* someone was already paid", the code does not do: PayrollStore.setRate   *)
(* takes a date that is past, and the work on record since then, paid or   *)
(* not, earns the new rate.  That step passes here as any raise does.      *)
RateAppliesFromItsDate ==
    [][\A id \in DOMAIN worked \cap DOMAIN worked' :
         Pay(rates', worked'[id]) # Pay(rates, worked[id]) =>
            /\ Len(rates') = Len(rates) + 1
            /\ Last(rates').actor = worked[id].actor
            /\ Last(rates').from <= worked[id].date
            /\ \A i \in DOMAIN rates :
                  rates[i].actor = worked[id].actor /\ rates[i].from <= worked[id].date
                     => rates[i].from <= Last(rates').from]_timeVars
=============================================================================
