---------------------------- MODULE CalendarSync ----------------------------
(***************************************************************************)
(* Pushing appointments to the firm's calendar                             *)
(* (integrations/appointment-calendar-sync.ts, run by                      *)
(* sync-appointments-to-calendar.ts as a process of its own, from cron).   *)
(*                                                                         *)
(* A run fetches the pending appointments over HTTP and works through that *)
(* copy: for each, it changes the calendar and then posts what it did back *)
(* to the server.  The desk, other runs and restarts of the server happen  *)
(* between any two of these steps.  The calendar is outside the repository *)
(* and keeps at most one event per event id; the shared calendar and the   *)
(* attorneys' own are one calendar here.                                   *)
(***************************************************************************)
EXTENDS Scheduling, FiniteSets

CONSTANTS
    Runs,           \* runs of the sync job that can be alive together
    MaxFaults       \* bound: failed calls, crashed runs, server restarts and
                    \* events removed by hand, together

ASSUME CalendarAssumption == MaxFaults \in Nat

VARIABLES
    runs,           \* runs[r]: [todo, event, pushed], what run r still has to do
    calendar,       \* the events on the calendar: event id -> [appt, start]
    lastEvent,      \* the calendar's own counter of event ids
    faults

syncVars == <<schedulingVars, runs, calendar, lastEvent, faults>>

Idle    == [todo |-> <<>>, event |-> NoEvent, pushed |-> FALSE]
First(r) == Head(runs[r].todo)
Busy(r) == runs[r].todo # <<>>

PendingIds == {id \in DOMAIN appts : appts[id].pending}

Without(f, x) == [y \in DOMAIN f \ {x} |-> f[y]]

\* What the pending list tells the job of an appointment.
Copy(id) == [id |-> id, start |-> appts[id].start, status |-> appts[id].status,
             event |-> appts[id].event]

\* Run r goes on with the appointment after the first one.
Done(r) ==
    runs' = [runs EXCEPT ![r] = [todo |-> Tail(runs[r].todo), event |-> NoEvent,
                                 pushed |-> FALSE]]

\* The calendar now holds `event' for the first appointment of run r.
Pushed(r, event) ==
    runs' = [runs EXCEPT ![r] = [todo |-> runs[r].todo, event |-> event,
                                 pushed |-> TRUE]]

\* AppointmentCalendarSync.#fetchPending: the copies in the order of the ids.
FetchPending(r) ==
    /\ ~Busy(r)
    /\ PendingIds # {}
    /\ \E ids \in [1 .. Cardinality(PendingIds) -> PendingIds] :
          /\ \A i, j \in DOMAIN ids : i < j => ids[i] < ids[j]
          /\ runs' = [runs EXCEPT ![r].todo = [i \in DOMAIN ids |-> Copy(ids[i])]]
    /\ UNCHANGED <<schedulingVars, calendar, lastEvent, faults>>

\* Deleting an event that is already gone succeeds.
PushCancelled(r) ==
    LET a == First(r)
    IN  /\ a.status = "cancelled"
        /\ calendar' = Without(calendar, a.event)
        /\ Pushed(r, NoEvent)
        /\ UNCHANGED lastEvent

\* CalendarEventPublisher.upsertEvent: an event that was pushed before is
\* changed in place, and without one a new event is created.
PushEvent(r) ==
    LET a == First(r)
        event == IF a.event # NoEvent THEN a.event ELSE lastEvent + 1
    IN  /\ a.status # "cancelled"
        /\ a.event # NoEvent => a.event \in DOMAIN calendar
        /\ calendar' = [e \in DOMAIN calendar \cup {event} |->
                          IF e = event THEN [appt |-> a.id, start |-> a.start]
                                       ELSE calendar[e]]
        /\ Pushed(r, event)
        /\ lastEvent' = IF event > lastEvent THEN event ELSE lastEvent

Push(r) ==
    /\ Busy(r) /\ ~runs[r].pushed
    /\ PushCancelled(r) \/ PushEvent(r)
    /\ UNCHANGED <<schedulingVars, faults>>

\* Changing an event that was deleted on the calendar fails every time.
PushGone(r) ==
    /\ Busy(r) /\ ~runs[r].pushed
    /\ First(r).status # "cancelled"
    /\ First(r).event # NoEvent /\ First(r).event \notin DOMAIN calendar
    /\ Done(r)
    /\ UNCHANGED <<schedulingVars, calendar, lastEvent, faults>>

\* AppointmentCalendarSync.#recordSync
RecordSync(r) ==
    /\ Busy(r) /\ runs[r].pushed
    /\ RecordCalendarSync(First(r).id, runs[r].event)
    /\ Done(r)
    /\ UNCHANGED <<calendar, lastEvent, faults>>

\* The calendar or the server does not answer: the run notes a failure and
\* goes on with the next appointment.
CallFails(r) ==
    /\ Busy(r) /\ faults < MaxFaults
    /\ Done(r)
    /\ faults' = faults + 1
    /\ UNCHANGED <<schedulingVars, calendar, lastEvent>>

RunCrashes(r) ==
    /\ Busy(r) /\ faults < MaxFaults
    /\ runs' = [runs EXCEPT ![r] = Idle]
    /\ faults' = faults + 1
    /\ UNCHANGED <<schedulingVars, calendar, lastEvent>>

\* Somebody removes an event on the calendar itself.
EventRemoved(e) ==
    /\ faults < MaxFaults
    /\ calendar' = Without(calendar, e)
    /\ faults' = faults + 1
    /\ UNCHANGED <<schedulingVars, runs, lastEvent>>

ServerRestarts ==
    /\ faults < MaxFaults
    /\ RestoreSchedule
    /\ faults' = faults + 1
    /\ UNCHANGED <<runs, calendar, lastEvent>>

----------------------------------------------------------------------------
SyncInit ==
    /\ SchedulingInit
    /\ runs = [r \in Runs |-> Idle]
    /\ calendar = [e \in {} |-> NoEvent]
    /\ lastEvent = NoEvent
    /\ faults = 0

RunStep(r) == FetchPending(r) \/ Push(r) \/ PushGone(r) \/ RecordSync(r)

SyncNext ==
    \/ DeskNext /\ UNCHANGED <<runs, calendar, lastEvent, faults>>
    \/ \E r \in Runs : RunStep(r) \/ CallFails(r) \/ RunCrashes(r)
    \/ \E e \in DOMAIN calendar : EventRemoved(e)
    \/ ServerRestarts

\* Cron starts the job again and again and a started run goes on; the desk
\* need never act.
SyncSpec == SyncInit /\ [][SyncNext]_syncVars /\ \A r \in Runs : WF_syncVars(RunStep(r))

----------------------------------------------------------------------------
AppointmentCopy == [id : 1 .. MaxAppts, start : Slots, status : Statuses, event : Nat]

SyncTypeOK ==
    /\ SchedulingTypeOK
    /\ runs \in [Runs -> [todo : Seq(AppointmentCopy), event : Nat, pushed : BOOLEAN]]
    /\ \A r \in Runs : \A i \in DOMAIN runs[r].todo : runs[r].todo[i].id \in DOMAIN appts
    /\ lastEvent \in Nat
    /\ DOMAIN calendar \subseteq 1 .. lastEvent
    /\ \A e \in DOMAIN calendar :
          calendar[e] \in [appt : 1 .. MaxAppts, start : Slots]
    /\ faults \in 0 .. MaxFaults

GoneFromCalendar(id) ==
    appts[id].event # NoEvent /\ appts[id].event \notin DOMAIN calendar

(* Once failures stop, every change of an appointment is followed by a     *)
(* completed sync of that appointment, whatever the desk does meanwhile.   *)
(* The one exception is an appointment that names an event the calendar    *)
(* does not have: changing it fails for ever and no event is made anew.    *)
PendingIsSynced ==
    \A id \in 1 .. MaxAppts :
        id \in PendingIds ~> id \notin PendingIds \/ GoneFromCalendar(id)

\* What the calendar should show of appointment id.
ShownOnCalendar(id) ==
    IF appts[id].status = "cancelled"
    THEN \A e \in DOMAIN calendar : calendar[e].appt # id
    ELSE /\ appts[id].event \in DOMAIN calendar
         /\ calendar[appts[id].event] = [appt |-> id, start |-> appts[id].start]

(* "True whenever this appointment has changed since it was last pushed to *)
(* the calendar" (core/scheduling.ts calendarSyncPending).  It does not    *)
(* hold: a change made while a run is pushing the appointment is cleared   *)
(* by that run's write-back, and nothing pushes it again.                  *)
NotPendingIsShown ==
    \A id \in DOMAIN appts : ~appts[id].pending => ShownOnCalendar(id)
=============================================================================
