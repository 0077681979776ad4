----------------------------- MODULE Scheduling -----------------------------
(***************************************************************************)
(* Appointments (core/scheduling.ts, class SchedulingService), booked,     *)
(* moved, cancelled and completed through /api/appointments.               *)
(*                                                                         *)
(* An id appt_<n> is the number n.  It comes from a counter of the module, *)
(* which starts at 0 with the process and is not part of the snapshot, so  *)
(* after a restart ids are handed out again and the new appointment takes  *)
(* the place of the old one in the map.  Times are slot numbers.  Who may  *)
(* act on which matter and the business-hours check (which a request can   *)
(* switch off) only ever refuse; they are left out, as are the matter, the *)
(* type and the history of an appointment.                                 *)
(***************************************************************************)
EXTENDS Integers, Sequences

CONSTANTS
    Attorneys,      \* whose calendars are booked
    Slots,          \* start times a request can name
    Durations,      \* lengths a request can name, in slots
    Offsets,        \* how long before the start each reminder is due, a sequence
    MaxAppts        \* bound: appointments booked by one process

ASSUME SchedulingAssumption ==
    /\ Slots \subseteq Int
    /\ Durations \subseteq Int
    /\ Offsets \in Seq(Nat)
    /\ MaxAppts \in Nat

VARIABLES
    appts,          \* the appointments, a function from the ids in use
    apptSeq         \* appointmentSequence, the last id handed out

schedulingVars == <<appts, apptSeq>>

NoEvent == 0

Statuses == {"scheduled", "rescheduled", "cancelled", "completed"}

\* A reminder rem_<i> is named by its position: is it marked as sent?
Appointment == [attorney : Attorneys, start : Slots, length : Durations,
                status : Statuses, sent : [DOMAIN Offsets -> BOOLEAN],
                event : Nat, pending : BOOLEAN]

Unsent == [i \in DOMAIN Offsets |-> FALSE]

\* Mutant: only an appointment that was never moved blocks its time.
FreeOfScheduled(att, start, length, self) ==
    \A id \in DOMAIN appts \ {self} :
        appts[id].attorney = att /\ appts[id].status = "scheduled" =>
            \/ start >= appts[id].start + appts[id].length
            \/ appts[id].start >= start + length

\* SchedulingService.#assertNoOverlap
NoOverlap(att, start, length, self) ==
    \A id \in DOMAIN appts \ {self} :
        appts[id].attorney = att /\ appts[id].status # "cancelled" =>
            \/ start >= appts[id].start + appts[id].length
            \/ appts[id].start >= start + length

----------------------------------------------------------------------------
ScheduleConsultation(att, start, length) ==
    LET id == apptSeq + 1
    IN  /\ id <= MaxAppts
        /\ NoOverlap(att, start, length, 0)
        /\ apptSeq' = id
        /\ appts' = [x \in DOMAIN appts \cup {id} |->
                       IF x = id
                       THEN [attorney |-> att, start |-> start, length |-> length,
                             status |-> "scheduled", sent |-> Unsent,
                             event |-> NoEvent, pending |-> TRUE]
                       ELSE appts[x]]

Reschedule(id, start) ==
    /\ appts[id].status \notin {"cancelled", "completed"}
    /\ NoOverlap(appts[id].attorney, start, appts[id].length, id)
    /\ appts' = [appts EXCEPT ![id].start = start, ![id].status = "rescheduled",
                              ![id].sent = Unsent, ![id].pending = TRUE]
    /\ UNCHANGED apptSeq

Cancel(id) ==
    /\ appts[id].status # "completed"
    /\ appts' = [appts EXCEPT ![id].status = "cancelled", ![id].pending = TRUE]
    /\ UNCHANGED apptSeq

\* Completing does not mark the appointment for the calendar.
Complete(id) ==
    /\ appts[id].status # "cancelled"
    /\ appts' = [appts EXCEPT ![id].status = "completed"]
    /\ UNCHANGED apptSeq

\* Mutant: a push that left no event is not a push.
RecordCalendarEvent(id, event) ==
    /\ appts' = [appts EXCEPT ![id].event = event, ![id].pending = (event = NoEvent)]
    /\ UNCHANGED apptSeq

\* The flag is cleared whatever happened to the appointment meanwhile.
RecordCalendarSync(id, event) ==
    /\ appts' = [appts EXCEPT ![id].event = event, ![id].pending = FALSE]
    /\ UNCHANGED apptSeq

\* Mutant: the first reminder is found whichever was meant.
MarkFirstReminder(id, i) ==
    /\ appts' = [appts EXCEPT ![id].sent[1] = TRUE]
    /\ UNCHANGED apptSeq

\* A reminder is found by its place, whatever time it was rebuilt for.
MarkReminderSent(id, i) ==
    /\ appts' = [appts EXCEPT ![id].sent[i] = TRUE]
    /\ UNCHANGED apptSeq

\* fromSnapshot: the appointments come back, the counter does not.
RestoreSchedule == apptSeq' = 0 /\ UNCHANGED appts

SchedulingInit == appts = [id \in {} |-> NoEvent] /\ apptSeq = 0

DeskNext ==
    \/ \E att \in Attorneys, start \in Slots, length \in Durations :
          ScheduleConsultation(att, start, length)
    \/ \E id \in DOMAIN appts :
          \/ \E start \in Slots : Reschedule(id, start)
          \/ Cancel(id)
          \/ Complete(id)

----------------------------------------------------------------------------
SchedulingTypeOK ==
    /\ DOMAIN appts \subseteq 1 .. MaxAppts
    /\ \A id \in DOMAIN appts : appts[id] \in Appointment
    /\ apptSeq \in 0 .. MaxAppts

Covers(id, t) == appts[id].start <= t /\ t < appts[id].start + appts[id].length

(* No attorney is booked twice: however appointments are booked, moved,    *)
(* completed and booked again under an old id, no moment is covered by two *)
(* appointments of one attorney that are not cancelled.                    *)
NoDoubleBooking ==
    \A a, b \in DOMAIN appts :
        (/\ a # b /\ appts[a].attorney = appts[b].attorney
         /\ appts[a].status # "cancelled" /\ appts[b].status # "cancelled")
        => \A t \in {appts[a].start, appts[b].start} : ~(Covers(a, t) /\ Covers(b, t))
=============================================================================
