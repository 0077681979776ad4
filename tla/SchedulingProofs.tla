--------------------------- MODULE SchedulingProofs ---------------------------
(***************************************************************************)
(* Proofs about the appointments and the two jobs over them, for any       *)
(* attorneys, slots, lengths and bounds: no step of the desk, of a run, of *)
(* a crash or of a restart books an attorney or tells a client twice.      *)
(***************************************************************************)
EXTENDS CalendarSync, Reminders, TLAPS, FiniteSetTheorems

----------------------------------------------------------------------------
(* The desk: no operation on appointments books an attorney twice.         *)

(* Two appointments of one attorney, one of them about to start at `start' *)
(* for `length', are apart when #assertNoOverlap let the booking through.  *)
LEMMA ApartWhenFree ==
    ASSUME SchedulingTypeOK,
           NEW att \in Attorneys, NEW start \in Slots, NEW length \in Durations,
           NEW self, NoOverlap(att, start, length, self),
           NEW b \in DOMAIN appts, b # self,
           appts[b].attorney = att, appts[b].status # "cancelled",
           NEW t \in Int, start <= t, t < start + length
    PROVE  ~Covers(b, t)
<1>1. appts[b].start \in Int /\ appts[b].length \in Int
    BY SchedulingAssumption DEF SchedulingTypeOK, Appointment
<1>2. \/ start >= appts[b].start + appts[b].length
      \/ appts[b].start >= start + length
    BY DEF NoOverlap
<1>3. start \in Int /\ length \in Int
    BY SchedulingAssumption
<1> QED BY <1>1, <1>2, <1>3 DEF Covers

(* Changing neither the attorney, the time nor the length of anything, and *)
(* cancelling at most, books nobody twice.                                 *)
LEMMA SameTimesSameBookings ==
    ASSUME NoDoubleBooking,
           DOMAIN appts' \subseteq DOMAIN appts,
           \A id \in DOMAIN appts' :
              /\ appts'[id].attorney = appts[id].attorney
              /\ appts'[id].start = appts[id].start
              /\ appts'[id].length = appts[id].length
              /\ appts'[id].status # "cancelled" => appts[id].status # "cancelled"
    PROVE  NoDoubleBooking'
BY DEF NoDoubleBooking, Covers

(* scheduleConsultation, also where it takes the place of an appointment   *)
(* that has the id already.                                                *)
LEMMA BookingStep ==
    ASSUME SchedulingTypeOK, NoDoubleBooking,
           NEW att \in Attorneys, NEW start \in Slots, NEW length \in Durations,
           ScheduleConsultation(att, start, length)
    PROVE  SchedulingTypeOK' /\ NoDoubleBooking'
<1> DEFINE id == apptSeq + 1
           new == [attorney |-> att, start |-> start, length |-> length,
                   status |-> "scheduled", sent |-> Unsent,
                   event |-> NoEvent, pending |-> TRUE]
<1>1. id \in 1 .. MaxAppts /\ apptSeq' = id
    BY SchedulingAssumption DEF ScheduleConsultation, SchedulingTypeOK
<1>2. /\ DOMAIN appts' = DOMAIN appts \cup {id}
      /\ appts'[id] = new
      /\ \A x \in DOMAIN appts : x # id => appts'[x] = appts[x]
    BY DEF ScheduleConsultation
<1>3. new \in Appointment
    BY DEF Appointment, Unsent, Statuses, NoEvent
<1>4. SchedulingTypeOK'
    BY <1>1, <1>2, <1>3 DEF SchedulingTypeOK
<1>5. NoOverlap(att, start, length, 0)
    BY DEF ScheduleConsultation
<1>6. \A b \in DOMAIN appts : \A t \in Int :
         (/\ b # id /\ appts[b].attorney = att /\ appts[b].status # "cancelled"
          /\ start <= t /\ t < start + length)
         => ~Covers(b, t)
    <2> SUFFICES ASSUME NEW b \in DOMAIN appts, NEW t \in Int,
                        appts[b].attorney = att, appts[b].status # "cancelled",
                        start <= t, t < start + length
                 PROVE  ~Covers(b, t)
        OBVIOUS
    <2>1. b # 0
        BY DEF SchedulingTypeOK
    <2> QED BY <1>5, <2>1, ApartWhenFree
<1>7. NoDoubleBooking'
    <2> SUFFICES ASSUME NEW a \in DOMAIN appts', NEW b \in DOMAIN appts', a # b,
                        appts'[a].attorney = appts'[b].attorney,
                        appts'[a].status # "cancelled", appts'[b].status # "cancelled",
                        NEW t \in {appts'[a].start, appts'[b].start},
                        Covers(a, t)', Covers(b, t)'
                 PROVE  FALSE
        BY DEF NoDoubleBooking
    <2>1. t \in Int
        BY <1>4, SchedulingAssumption DEF SchedulingTypeOK, Appointment
    <2>2. CASE a = id
        <3>1. b \in DOMAIN appts /\ b # id /\ appts'[b] = appts[b]
            BY <1>2, <2>2
        <3>2. start <= t /\ t < start + length /\ appts[b].attorney = att
            BY <1>2, <2>2, <3>1 DEF Covers
        <3>3. Covers(b, t)
            BY <3>1 DEF Covers
        <3> QED BY <1>6, <2>1, <3>1, <3>2, <3>3
    <2>3. CASE b = id
        <3>1. a \in DOMAIN appts /\ a # id /\ appts'[a] = appts[a]
            BY <1>2, <2>3
        <3>2. start <= t /\ t < start + length /\ appts[a].attorney = att
            BY <1>2, <2>3, <3>1 DEF Covers
        <3>3. Covers(a, t)
            BY <3>1 DEF Covers
        <3> QED BY <1>6, <2>1, <3>1, <3>2, <3>3
    <2>4. CASE a # id /\ b # id
        BY <1>2, <2>4 DEF NoDoubleBooking, Covers
    <2> QED BY <2>2, <2>3, <2>4
<1> QED BY <1>4, <1>7

(* reschedule moves one appointment into a time that is free of all others. *)
LEMMA RescheduleStep ==
    ASSUME SchedulingTypeOK, NoDoubleBooking,
           NEW id \in DOMAIN appts, NEW start \in Slots, Reschedule(id, start)
    PROVE  SchedulingTypeOK' /\ NoDoubleBooking'
<1> DEFINE att == appts[id].attorney
           length == appts[id].length
           moved == [attorney |-> att, start |-> start, length |-> length,
                     status |-> "rescheduled", sent |-> Unsent,
                     event |-> appts[id].event, pending |-> TRUE]
<1>1. appts[id] \in Appointment
    BY DEF SchedulingTypeOK
<1>2. /\ DOMAIN appts' = DOMAIN appts
      /\ appts'[id] = moved
      /\ \A x \in DOMAIN appts : x # id => appts'[x] = appts[x]
    BY <1>1 DEF Reschedule, Appointment
<1>3. /\ appts'[id] \in Appointment
      /\ appts'[id].attorney = att /\ appts'[id].start = start
      /\ appts'[id].length = length
    BY <1>1, <1>2 DEF Appointment, Unsent, Statuses
<1>4. SchedulingTypeOK'
    BY <1>2, <1>3 DEF SchedulingTypeOK, Reschedule
<1>5. att \in Attorneys /\ length \in Durations
    BY <1>1 DEF Appointment
<1>6. \A b \in DOMAIN appts : \A t \in Int :
         (/\ b # id /\ appts[b].attorney = att /\ appts[b].status # "cancelled"
          /\ start <= t /\ t < start + length)
         => ~Covers(b, t)
    BY <1>5, ApartWhenFree DEF Reschedule
<1>7. NoDoubleBooking'
    <2> SUFFICES ASSUME NEW a \in DOMAIN appts', NEW b \in DOMAIN appts', a # b,
                        appts'[a].attorney = appts'[b].attorney,
                        appts'[a].status # "cancelled", appts'[b].status # "cancelled",
                        NEW t \in {appts'[a].start, appts'[b].start},
                        Covers(a, t)', Covers(b, t)'
                 PROVE  FALSE
        BY DEF NoDoubleBooking
    <2>1. t \in Int
        BY <1>4, SchedulingAssumption DEF SchedulingTypeOK, Appointment
    <2>2. CASE a = id
        <3>1. b # id /\ appts'[b] = appts[b]
            BY <1>2, <2>2
        <3>2. start <= t /\ t < start + length /\ appts[b].attorney = att
            BY <1>3, <2>2, <3>1 DEF Covers
        <3>3. Covers(b, t)
            BY <3>1 DEF Covers
        <3> QED BY <1>2, <1>6, <2>1, <3>1, <3>2, <3>3
    <2>3. CASE b = id
        <3>1. a # id /\ appts'[a] = appts[a]
            BY <1>2, <2>3
        <3>2. start <= t /\ t < start + length /\ appts[a].attorney = att
            BY <1>3, <2>3, <3>1 DEF Covers
        <3>3. Covers(a, t)
            BY <3>1 DEF Covers
        <3> QED BY <1>2, <1>6, <2>1, <3>1, <3>2, <3>3
    <2>4. CASE a # id /\ b # id
        BY <1>2, <2>4 DEF NoDoubleBooking, Covers
    <2> QED BY <2>2, <2>3, <2>4
<1> QED BY <1>4, <1>7

(* cancel, complete, and the job's write-back touch no time.               *)
LEMMA UpdateStep ==
    ASSUME SchedulingTypeOK, NoDoubleBooking, NEW id \in DOMAIN appts,
           \/ Cancel(id)
           \/ Complete(id)
           \/ \E event \in Nat : RecordCalendarSync(id, event)
    PROVE  SchedulingTypeOK' /\ NoDoubleBooking' /\ DOMAIN appts' = DOMAIN appts
<1>1. appts[id] \in Appointment
    BY DEF SchedulingTypeOK
<1>2. /\ DOMAIN appts' = DOMAIN appts /\ apptSeq' = apptSeq
      /\ \A x \in DOMAIN appts : x # id => appts'[x] = appts[x]
    BY DEF Cancel, Complete, RecordCalendarSync
<1>3. /\ appts'[id] \in Appointment
      /\ appts'[id].attorney = appts[id].attorney
      /\ appts'[id].start = appts[id].start
      /\ appts'[id].length = appts[id].length
      /\ appts'[id].status # "cancelled" => appts[id].status # "cancelled"
    <2>1. CASE Cancel(id)
        BY <1>1, <2>1 DEF Cancel, Appointment, Statuses
    <2>2. CASE Complete(id)
        BY <1>1, <2>2 DEF Complete, Appointment, Statuses
    <2>3. CASE \E event \in Nat : RecordCalendarSync(id, event)
        <3>1. PICK event \in Nat : RecordCalendarSync(id, event)
            BY <2>3
        <3> DEFINE a == appts[id]
                   synced == [attorney |-> a.attorney, start |-> a.start,
                              length |-> a.length, status |-> a.status,
                              sent |-> a.sent, event |-> event, pending |-> FALSE]
        <3>2. synced \in Appointment
            BY <1>1 DEF Appointment
        <3>3. appts'[id] = synced
            BY <1>1, <3>1 DEF RecordCalendarSync, Appointment
        <3> QED BY <3>2, <3>3
    <2> QED BY <2>1, <2>2, <2>3
<1>4. SchedulingTypeOK'
    BY <1>2, <1>3 DEF SchedulingTypeOK
<1>5. NoDoubleBooking'
    BY <1>2, <1>3, SameTimesSameBookings
<1> QED BY <1>2, <1>4, <1>5

(* Nothing the desk does books an attorney twice, or forgets an            *)
(* appointment.                                                            *)
LEMMA DeskStep ==
    ASSUME SchedulingTypeOK, NoDoubleBooking, DeskNext
    PROVE  SchedulingTypeOK' /\ NoDoubleBooking' /\ DOMAIN appts \subseteq DOMAIN appts'
<1>1. CASE \E att \in Attorneys, start \in Slots, length \in Durations :
              ScheduleConsultation(att, start, length)
    BY <1>1, BookingStep DEF ScheduleConsultation
<1>2. CASE \E id \in DOMAIN appts, start \in Slots : Reschedule(id, start)
    BY <1>2, RescheduleStep DEF Reschedule
<1>3. CASE \E id \in DOMAIN appts : Cancel(id) \/ Complete(id)
    BY <1>3, UpdateStep
<1> QED BY <1>1, <1>2, <1>3 DEF DeskNext

----------------------------------------------------------------------------
SyncInv == SyncTypeOK /\ NoDoubleBooking

(* No appointment and no run: the invariant holds at the start.            *)
LEMMA InitSyncInv == SyncInit => SyncInv
<1> SUFFICES ASSUME SyncInit PROVE SyncInv
    OBVIOUS
<1>1. SchedulingTypeOK
    BY SchedulingAssumption DEF SyncInit, SchedulingInit, SchedulingTypeOK
<1>2. runs \in [Runs -> [todo : Seq(AppointmentCopy), event : Nat, pushed : BOOLEAN]]
    BY DEF SyncInit, Idle, NoEvent
<1>3. SyncTypeOK
    BY <1>1, <1>2, CalendarAssumption DEF SyncInit, SyncTypeOK, Idle, NoEvent
<1>4. NoDoubleBooking
    BY DEF SyncInit, SchedulingInit, NoDoubleBooking
<1> QED BY <1>3, <1>4 DEF SyncInv

(* What the runs still have to do stays well typed when one run takes the  *)
(* next appointment, or drops all of them.                                 *)
RunsOK == /\ runs \in [Runs -> [todo : Seq(AppointmentCopy), event : Nat, pushed : BOOLEAN]]
          /\ \A r \in Runs : \A i \in DOMAIN runs[r].todo :
                runs[r].todo[i].id \in DOMAIN appts

(* Going on with the next appointment keeps the other copies as they were. *)
LEMMA DoneKeepsRunsOK ==
    ASSUME RunsOK, NEW r \in Runs, Busy(r), Done(r),
           DOMAIN appts' = DOMAIN appts
    PROVE  RunsOK'
<1> DEFINE q == runs[r].todo
           left == [todo |-> Tail(q), event |-> NoEvent, pushed |-> FALSE]
<1>1. q \in Seq(AppointmentCopy) /\ q # <<>>
    BY DEF RunsOK, Busy
<1>2. runs' = [runs EXCEPT ![r] = left]
    BY DEF Done, Idle
<1>3. Tail(q) \in Seq(AppointmentCopy)
    BY <1>1
<1>4. \A i \in DOMAIN Tail(q) : i + 1 \in DOMAIN q /\ Tail(q)[i] = q[i + 1]
    BY <1>1
<1>5. left \in [todo : Seq(AppointmentCopy), event : Nat, pushed : BOOLEAN]
    BY <1>3 DEF NoEvent
<1>6. \A i \in DOMAIN left.todo : left.todo[i].id \in DOMAIN appts
    BY <1>4 DEF RunsOK
<1> QED BY <1>2, <1>5, <1>6 DEF RunsOK

(* The fetched copies name appointments the server has.                    *)
LEMMA FetchKeepsRunsOK ==
    ASSUME SchedulingTypeOK, RunsOK, NEW r \in Runs, FetchPending(r)
    PROVE  RunsOK'
<1>1. PICK ids \in [1 .. Cardinality(PendingIds) -> PendingIds] :
         runs' = [runs EXCEPT ![r].todo = [i \in DOMAIN ids |-> Copy(ids[i])]]
    BY DEF FetchPending
<1>2. Cardinality(PendingIds) \in Nat
    <2>1. IsFiniteSet(1 .. MaxAppts)
        BY SchedulingAssumption, FS_Interval
    <2>2. PendingIds \subseteq 1 .. MaxAppts
        BY DEF PendingIds, SchedulingTypeOK
    <2> QED BY <2>1, <2>2, FS_Subset, FS_CardinalityType
<1>3. \A id \in PendingIds : Copy(id) \in AppointmentCopy /\ Copy(id).id \in DOMAIN appts
    BY DEF Copy, AppointmentCopy, PendingIds, SchedulingTypeOK, Appointment
<1> DEFINE q == [i \in DOMAIN ids |-> Copy(ids[i])]
<1>4. /\ q \in Seq(AppointmentCopy)
      /\ \A i \in DOMAIN q : q[i].id \in DOMAIN appts
    <2>1. q \in [1 .. Cardinality(PendingIds) -> AppointmentCopy]
        BY <1>3
    <2>2. \A i \in DOMAIN q : q[i].id \in DOMAIN appts
        BY <1>3
    <2> QED BY <1>2, <2>1, <2>2
<1>5. appts' = appts
    BY DEF FetchPending, schedulingVars
<1> HIDE DEF q
<1>6. runs' = [runs EXCEPT ![r].todo = q]
    BY <1>1 DEF q
<1> QED BY <1>4, <1>5, <1>6 DEF RunsOK

(* A push changes nothing in the list of what is still to do.              *)
LEMMA PushKeepsRunsOK ==
    ASSUME RunsOK, NEW r \in Runs, NEW event \in Nat, DOMAIN appts' = DOMAIN appts,
           Pushed(r, event)
    PROVE  RunsOK'
<1> DEFINE after == [todo |-> runs[r].todo, event |-> event, pushed |-> TRUE]
<1>1. after \in [todo : Seq(AppointmentCopy), event : Nat, pushed : BOOLEAN]
    BY DEF RunsOK
<1>2. runs' = [runs EXCEPT ![r] = after]
    BY DEF Pushed
<1>3. \A i \in DOMAIN after.todo : after.todo[i].id \in DOMAIN appts
    BY DEF RunsOK
<1> HIDE DEF after
<1> QED BY <1>1, <1>2, <1>3 DEF RunsOK

(* The events on the calendar are typed and were all handed out.           *)
CalendarOK == /\ lastEvent \in Nat
              /\ DOMAIN calendar \subseteq 1 .. lastEvent
              /\ \A e \in DOMAIN calendar : calendar[e] \in [appt : 1 .. MaxAppts, start : Slots]

(* Taking an event off the calendar leaves the others typed.               *)
LEMMA WithoutKeepsCalendarOK ==
    ASSUME CalendarOK, NEW e, calendar' = Without(calendar, e), lastEvent' = lastEvent
    PROVE  CalendarOK'
BY DEF CalendarOK, Without

(* What a busy run works on is a copy of an appointment the server has.    *)
LEMMA FirstIsACopy ==
    ASSUME RunsOK, NEW r \in Runs, Busy(r)
    PROVE  First(r) \in AppointmentCopy /\ First(r).id \in DOMAIN appts
<1>1. runs[r].todo \in Seq(AppointmentCopy) /\ runs[r].todo # <<>>
    BY DEF RunsOK, Busy
<1>2. 1 \in DOMAIN runs[r].todo /\ First(r) = runs[r].todo[1]
    BY <1>1 DEF First
<1> QED BY <1>1, <1>2 DEF RunsOK

(* A push leaves typed runs and a typed calendar.                          *)
LEMMA PushStep ==
    ASSUME SchedulingTypeOK, RunsOK, CalendarOK, NEW r \in Runs, Push(r)
    PROVE  RunsOK' /\ CalendarOK'
<1>1. First(r) \in AppointmentCopy
    BY FirstIsACopy DEF Push
<1>2. DOMAIN appts' = DOMAIN appts
    BY DEF Push, schedulingVars
<1>3. CASE PushCancelled(r)
    <2>1. RunsOK'
        BY <1>2, <1>3, PushKeepsRunsOK DEF PushCancelled, NoEvent
    <2>2. CalendarOK'
        BY <1>3, WithoutKeepsCalendarOK DEF PushCancelled
    <2> QED BY <2>1, <2>2
<1>4. CASE PushEvent(r)
    <2> DEFINE a == First(r)
               event == IF a.event # NoEvent THEN a.event ELSE lastEvent + 1
    <2>1. event \in Nat \ {0} /\ event \in Nat
        BY <1>1 DEF AppointmentCopy, NoEvent, CalendarOK
    <2>2. RunsOK'
        BY <1>2, <1>4, <2>1, PushKeepsRunsOK DEF PushEvent
    <2>3. lastEvent' \in Nat /\ lastEvent' >= lastEvent /\ lastEvent' >= event
        BY <1>4, <2>1 DEF PushEvent, CalendarOK
    <2>4. DOMAIN calendar' = DOMAIN calendar \cup {event}
        BY <1>4 DEF PushEvent
    <2>5. [appt |-> a.id, start |-> a.start] \in [appt : 1 .. MaxAppts, start : Slots]
        BY <1>1 DEF AppointmentCopy
    <2>6. \A e \in DOMAIN calendar' :
             calendar'[e] \in [appt : 1 .. MaxAppts, start : Slots]
        BY <1>4, <2>5 DEF PushEvent, CalendarOK
    <2>7. DOMAIN calendar' \subseteq 1 .. lastEvent'
        BY <2>1, <2>3, <2>4 DEF CalendarOK
    <2> QED BY <2>2, <2>3, <2>6, <2>7 DEF CalendarOK
<1> QED BY <1>3, <1>4 DEF Push

(* RunsOK survives whatever only adds appointments.                        *)
LEMMA MoreApptsKeepRunsOK ==
    ASSUME RunsOK, runs' = runs, DOMAIN appts \subseteq DOMAIN appts'
    PROVE  RunsOK'
BY DEF RunsOK

(* The type invariant by the parts the steps are proved for.               *)
LEMMA TypeParts == SyncTypeOK <=> /\ SchedulingTypeOK /\ RunsOK /\ CalendarOK
                                  /\ faults \in 0 .. MaxFaults
BY DEF SyncTypeOK, RunsOK, CalendarOK

(* One step of the desk, of the job, of a failure or of a restart.         *)
LEMMA NextSyncInv ==
    ASSUME SyncInv, [SyncNext]_syncVars
    PROVE  SyncInv'
<1>1. /\ SchedulingTypeOK /\ RunsOK /\ CalendarOK /\ faults \in 0 .. MaxFaults
      /\ NoDoubleBooking
    BY TypeParts DEF SyncInv
<1> DEFINE Same == UNCHANGED schedulingVars
           Goal == /\ SchedulingTypeOK' /\ NoDoubleBooking' /\ RunsOK' /\ CalendarOK'
                   /\ faults' \in 0 .. MaxFaults
<1>2. ASSUME Same PROVE /\ SchedulingTypeOK' /\ NoDoubleBooking' /\ DOMAIN appts' = DOMAIN appts
    BY <1>1, <1>2 DEF schedulingVars, SchedulingTypeOK, NoDoubleBooking, Covers
<1>3. ASSUME UNCHANGED <<calendar, lastEvent>> PROVE CalendarOK'
    BY <1>1, <1>3 DEF CalendarOK
<1>4. ASSUME DeskNext, UNCHANGED <<runs, calendar, lastEvent, faults>> PROVE Goal
    BY <1>1, <1>3, <1>4, DeskStep, MoreApptsKeepRunsOK
<1>5. ASSUME NEW r \in Runs, FetchPending(r) PROVE Goal
    BY <1>1, <1>2, <1>3, <1>5, FetchKeepsRunsOK DEF FetchPending
<1>6. ASSUME NEW r \in Runs, Push(r) PROVE Goal
    BY <1>1, <1>2, <1>6, PushStep DEF Push
<1>7. ASSUME NEW r \in Runs, PushGone(r) PROVE Goal
    BY <1>1, <1>2, <1>3, <1>7, DoneKeepsRunsOK DEF PushGone
<1>8. ASSUME NEW r \in Runs, RecordSync(r) PROVE Goal
    <2>1. First(r).id \in DOMAIN appts
        BY <1>1, <1>8, FirstIsACopy DEF RecordSync
    <2>2. runs[r].event \in Nat
        BY <1>1 DEF RunsOK
    <2>3. SchedulingTypeOK' /\ NoDoubleBooking' /\ DOMAIN appts' = DOMAIN appts
        BY <1>1, <1>8, <2>1, <2>2, UpdateStep DEF RecordSync
    <2> QED BY <1>1, <1>3, <1>8, <2>3, DoneKeepsRunsOK DEF RecordSync
<1>9. ASSUME NEW r \in Runs, CallFails(r) PROVE Goal
    BY <1>1, <1>2, <1>3, <1>9, CalendarAssumption, DoneKeepsRunsOK DEF CallFails
<1>10. ASSUME NEW r \in Runs, RunCrashes(r) PROVE Goal
    <2>1. Idle \in [todo : Seq(AppointmentCopy), event : Nat, pushed : BOOLEAN]
          /\ DOMAIN Idle.todo = {}
        BY DEF Idle, NoEvent
    <2>2. runs' = [runs EXCEPT ![r] = Idle] /\ Same
        BY <1>10 DEF RunCrashes
    <2>3. RunsOK'
        BY <1>1, <1>2, <2>1, <2>2 DEF RunsOK
    <2> QED BY <1>1, <1>2, <1>3, <1>10, <2>3, CalendarAssumption DEF RunCrashes
<1>11. ASSUME NEW e \in DOMAIN calendar, EventRemoved(e) PROVE Goal
    BY <1>1, <1>2, <1>11, CalendarAssumption, WithoutKeepsCalendarOK, MoreApptsKeepRunsOK
       DEF EventRemoved
<1>12. ASSUME ServerRestarts PROVE Goal
    <2>1. apptSeq' = 0 /\ UNCHANGED appts
        BY <1>12 DEF ServerRestarts, RestoreSchedule
    <2>2. SchedulingTypeOK' /\ NoDoubleBooking'
        BY <1>1, <2>1, SchedulingAssumption DEF SchedulingTypeOK, NoDoubleBooking, Covers
    <2> QED BY <1>1, <1>3, <1>12, <2>1, <2>2, CalendarAssumption, MoreApptsKeepRunsOK
            DEF ServerRestarts
<1>13. ASSUME UNCHANGED syncVars PROVE Goal
    <2>1. Same /\ UNCHANGED <<runs, calendar, lastEvent, faults>>
        BY <1>13 DEF syncVars
    <2> QED BY <1>1, <1>2, <1>3, <2>1, MoreApptsKeepRunsOK
<1> HIDE DEF Goal
<1>14. Goal
    BY <1>4, <1>5, <1>6, <1>7, <1>8, <1>9, <1>10, <1>11, <1>12, <1>13 DEF SyncNext, RunStep
<1>15. SyncTypeOK'
    BY <1>14 DEF Goal, SyncTypeOK, RunsOK, CalendarOK
<1> QED BY <1>14, <1>15 DEF Goal, SyncInv

----------------------------------------------------------------------------
(* The inductive invariant of the appointments and the job.                *)
THEOREM SyncInvariant == SyncSpec => []SyncInv
<1>1. SyncInit => SyncInv
    BY InitSyncInv
<1>2. SyncInv /\ [SyncNext]_syncVars => SyncInv'
    BY NextSyncInv
<1> QED BY <1>1, <1>2, PTL DEF SyncSpec

(* Every copy a run works on names an appointment the server has, and      *)
(* every event on the calendar has an id the calendar handed out.          *)
THEOREM SyncTypeCorrect == SyncSpec => []SyncTypeOK
<1>1. SyncInv => SyncTypeOK
    BY DEF SyncInv
<1> QED BY <1>1, SyncInvariant, PTL

(* No attorney is booked twice, whatever the desk, the job and restarts do. *)
THEOREM AttorneyNeverDoubleBooked == SyncSpec => []NoDoubleBooking
<1>1. SyncInv => NoDoubleBooking
    BY DEF SyncInv
<1> QED BY <1>1, SyncInvariant, PTL

----------------------------------------------------------------------------
(* The reminder job.  Its invariant is about copies as well: while one run *)
(* is alive, what it still has to send is not marked as sent, because only *)
(* the run marks reminders, and the desk only takes marks back.            *)

Copied == [id : 1 .. MaxAppts, i : DOMAIN Offsets, start : Slots]

SendersOK ==
    /\ senders \in [Senders -> [todo : SUBSET Copied, told : SUBSET Copied]]
    /\ \A s \in Senders :
          /\ senders[s].told \subseteq senders[s].todo
          /\ \A c, d \in senders[s].told : c = d
          /\ \A c, d \in senders[s].todo : c.id = d.id /\ c.i = d.i => c = d
          /\ \A c \in senders[s].todo : c.id \in DOMAIN appts

StillToSend ==
    \A s \in Senders : \A c \in senders[s].todo : ~appts[c.id].sent[c.i]

ReminderInv == SchedulingTypeOK /\ NoDoubleBooking /\ SendersOK /\ StillToSend

(* Of the reminders of an appointment the desk keeps the marks or drops    *)
(* them all.                                                               *)
SentKept ==
    \A id \in DOMAIN appts :
        id \in DOMAIN appts' /\ appts'[id].sent \in {appts[id].sent, Unsent}

LEMMA DeskKeepsSent ==
    ASSUME SchedulingTypeOK, DeskNext
    PROVE  SentKept
<1>1. \A id \in DOMAIN appts : appts[id] \in Appointment
    BY DEF SchedulingTypeOK
<1>2. ASSUME NEW att \in Attorneys, NEW start \in Slots, NEW length \in Durations,
             ScheduleConsultation(att, start, length)
      PROVE  SentKept
    BY <1>2 DEF ScheduleConsultation, SentKept
<1>3. ASSUME NEW a \in DOMAIN appts, NEW start \in Slots, Reschedule(a, start)
      PROVE  SentKept
    BY <1>1, <1>3 DEF Reschedule, SentKept, Appointment
<1>4. ASSUME NEW a \in DOMAIN appts, Cancel(a) \/ Complete(a)
      PROVE  SentKept
    BY <1>1, <1>4 DEF Cancel, Complete, SentKept, Appointment
<1> QED BY <1>2, <1>3, <1>4 DEF DeskNext

(* Marks are kept or dropped under the copies of a run, which stay as they *)
(* are or lose some.                                                       *)
LEMMA FewerCopies ==
    ASSUME SendersOK, StillToSend, SentKept,
           NEW s \in Senders, NEW todo \in SUBSET senders[s].todo, NEW told2 \in SUBSET todo,
           \A c, d \in told2 : c = d,
           senders' = [senders EXCEPT ![s] = [todo |-> todo, told |-> told2]]
    PROVE  SendersOK' /\ StillToSend'
<1> DEFINE new == [todo |-> todo, told |-> told2]
<1>1. new \in [todo : SUBSET Copied, told : SUBSET Copied] /\ new.todo = todo /\ new.told = told2
    BY DEF SendersOK
<1>2. /\ senders' \in [Senders -> [todo : SUBSET Copied, told : SUBSET Copied]]
      /\ senders'[s] = new /\ \A t \in Senders : t # s => senders'[t] = senders[t]
    BY <1>1 DEF SendersOK
<1> HIDE DEF new
<1>3. SendersOK'
    BY <1>1, <1>2 DEF SendersOK, SentKept
<1>4. StillToSend'
    <2> SUFFICES ASSUME NEW t \in Senders, NEW c \in senders'[t].todo
                 PROVE  ~appts'[c.id].sent[c.i]
        BY DEF StillToSend
    <2>1. c \in senders[t].todo /\ c.id \in DOMAIN appts /\ c.i \in DOMAIN Offsets
        BY <1>1, <1>2 DEF SendersOK, Copied
    <2>2. ~appts[c.id].sent[c.i] /\ ~Unsent[c.i]
        BY <2>1 DEF StillToSend, Unsent
    <2> QED BY <2>1, <2>2 DEF SentKept
<1> QED BY <1>3, <1>4

(* The same where no run moves.                                            *)
LEMMA SameCopies ==
    ASSUME SendersOK, StillToSend, SentKept, UNCHANGED senders
    PROVE  SendersOK' /\ StillToSend'
<1>1. SendersOK'
    BY DEF SendersOK, SentKept
<1>2. StillToSend'
    <2> SUFFICES ASSUME NEW t \in Senders, NEW c \in senders[t].todo
                 PROVE  ~appts'[c.id].sent[c.i]
        BY DEF StillToSend
    <2>1. c.id \in DOMAIN appts /\ c.i \in DOMAIN Offsets
        BY DEF SendersOK, Copied
    <2>2. ~appts[c.id].sent[c.i] /\ ~Unsent[c.i]
        BY <2>1 DEF StillToSend, Unsent
    <2> QED BY <2>1, <2>2 DEF SentKept
<1> QED BY <1>1, <1>2

(* A run fetches reminders that are not marked, each once.                 *)
LEMMA FetchDueStep ==
    ASSUME SchedulingTypeOK, SendersOK, StillToSend, NEW s \in Senders, FetchDue(s)
    PROVE  SendersOK' /\ StillToSend'
<1> DEFINE todo == {[id |-> r[1], i |-> r[2], start |-> appts[r[1]].start] : r \in DueReminders}
<1>1. \A c \in todo : /\ c \in Copied /\ c.id \in DOMAIN appts /\ c.start = appts[c.id].start
                      /\ ~appts[c.id].sent[c.i]
    <2> SUFFICES ASSUME NEW r \in DueReminders
                 PROVE  /\ r[1] \in 1 .. MaxAppts /\ r[2] \in DOMAIN Offsets
                        /\ appts[r[1]].start \in Slots
                        /\ r[1] \in DOMAIN appts /\ ~appts[r[1]].sent[r[2]]
        BY DEF Copied
    <2>1. r[1] \in DOMAIN appts /\ r[2] \in DOMAIN Offsets /\ Due(r[1], r[2])
        BY DEF DueReminders
    <2>2. appts[r[1]] \in Appointment /\ r[1] \in 1 .. MaxAppts
        BY <2>1 DEF SchedulingTypeOK
    <2> QED BY <2>1, <2>2 DEF Due, Appointment
<1>2. /\ senders[s].told = {} /\ senders' = [senders EXCEPT ![s].todo = todo]
      /\ UNCHANGED appts
    BY DEF FetchDue, AtRest, schedulingVars
<1> HIDE DEF todo
<1> DEFINE new == [todo |-> todo, told |-> {}]
<1>3. new \in [todo : SUBSET Copied, told : SUBSET Copied] /\ new.todo = todo /\ new.told = {}
    BY <1>1
<1>4. senders' = [senders EXCEPT ![s] = new]
    <2>1. senders' = [senders EXCEPT ![s] = [senders[s] EXCEPT !.todo = todo]]
        BY <1>2
    <2>2. senders[s] = [todo |-> {}, told |-> {}]
        BY DEF FetchDue, AtRest
    <2>3. [senders[s] EXCEPT !.todo = todo] = new
        BY <2>2
    <2> QED BY <2>1, <2>3, Zenon
<1>5. /\ senders' \in [Senders -> [todo : SUBSET Copied, told : SUBSET Copied]]
      /\ senders'[s] = new /\ \A t \in Senders : t # s => senders'[t] = senders[t]
    BY <1>3, <1>4 DEF SendersOK
<1>6. \A c, d \in todo : c.id = d.id /\ c.i = d.i => c = d
    BY <1>1 DEF Copied
<1> HIDE DEF new
<1> QED BY <1>1, <1>2, <1>3, <1>5, <1>6 DEF SendersOK, StillToSend

(* Marking a reminder: the only run has no other copy of it.               *)
LEMMA MarkSentStep ==
    ASSUME \A s, t \in Senders : s = t,
           SchedulingTypeOK, NoDoubleBooking, SendersOK, StillToSend,
           NEW s \in Senders, NEW c \in senders[s].todo, MarkSent(s, c)
    PROVE  SchedulingTypeOK' /\ NoDoubleBooking' /\ SendersOK' /\ StillToSend'
<1> DEFINE a == appts[c.id]
           sent2 == [a.sent EXCEPT ![c.i] = TRUE]
           marked == [attorney |-> a.attorney, start |-> a.start, length |-> a.length,
                      status |-> a.status, sent |-> sent2,
                      event |-> a.event, pending |-> a.pending]
           todo == senders[s].todo \ {c}
           new == [todo |-> todo, told |-> {}]
<1>1. c \in Copied /\ c.id \in DOMAIN appts /\ c.i \in DOMAIN Offsets /\ a \in Appointment
    BY DEF SendersOK, SchedulingTypeOK, Copied
<1>2. /\ appts' = [appts EXCEPT ![c.id].sent[c.i] = TRUE] /\ apptSeq' = apptSeq
      /\ senders' = [senders EXCEPT ![s] = new]
    BY DEF MarkSent, MarkReminderSent, Forget
<1>3. /\ sent2 \in [DOMAIN Offsets -> BOOLEAN]
      /\ \A i \in DOMAIN Offsets : i # c.i => sent2[i] = a.sent[i]
    BY <1>1 DEF Appointment
<1>4. /\ DOMAIN appts' = DOMAIN appts /\ appts'[c.id] = marked
      /\ \A id \in DOMAIN appts : id # c.id => appts'[id] = appts[id]
    BY <1>1, <1>2 DEF Appointment
<1>5. marked \in Appointment /\ marked.sent = sent2
    BY <1>1, <1>3 DEF Appointment
<1>6. SchedulingTypeOK'
    BY <1>2, <1>4, <1>5 DEF SchedulingTypeOK
<1>7. NoDoubleBooking'
    BY <1>4, SameTimesSameBookings
<1>8. /\ senders' \in [Senders -> [todo : SUBSET Copied, told : SUBSET Copied]]
      /\ senders'[s].todo = todo /\ senders'[s].told = {}
      /\ \A t \in Senders : t = s
    <2>1. new \in [todo : SUBSET Copied, told : SUBSET Copied] /\ new.todo = todo /\ new.told = {}
        BY DEF SendersOK
    <2> HIDE DEF new
    <2> QED BY <1>2, <2>1 DEF SendersOK
<1> HIDE DEF marked, sent2, new
<1>9. SendersOK'
    BY <1>4, <1>8 DEF SendersOK
<1>10. StillToSend'
    <2> SUFFICES ASSUME NEW d \in senders[s].todo, d # c
                 PROVE  ~appts'[d.id].sent[d.i]
        BY <1>8 DEF StillToSend
    <2>1. d.id # c.id \/ d.i # c.i
        BY DEF SendersOK
    <2>2. d.id \in DOMAIN appts /\ d.i \in DOMAIN Offsets /\ ~appts[d.id].sent[d.i]
        BY DEF SendersOK, StillToSend, Copied
    <2>3. CASE d.id # c.id
        BY <1>4, <2>2, <2>3
    <2>4. CASE d.id = c.id /\ d.i # c.i
        BY <1>3, <1>4, <1>5, <2>2, <2>4
    <2> QED BY <2>1, <2>3, <2>4
<1> QED BY <1>6, <1>7, <1>9, <1>10

LEMMA ReminderSteps ==
    ASSUME \A s, t \in Senders : s = t
    PROVE  ReminderInv /\ [RemindersNext]_reminderVars => ReminderInv'
<1> SUFFICES ASSUME ReminderInv, [RemindersNext]_reminderVars PROVE ReminderInv'
    OBVIOUS
<1>1. SchedulingTypeOK /\ NoDoubleBooking /\ SendersOK /\ StillToSend
    BY DEF ReminderInv
<1>2. ASSUME UNCHANGED schedulingVars
      PROVE  SentKept /\ SchedulingTypeOK' /\ NoDoubleBooking'
    BY <1>1, <1>2 DEF schedulingVars, SentKept, SchedulingTypeOK, NoDoubleBooking, Covers
<1>3. ASSUME DeskNext, UNCHANGED senders PROVE ReminderInv'
    BY <1>1, <1>3, DeskStep, DeskKeepsSent, SameCopies DEF ReminderInv
<1>4. ASSUME NEW s \in Senders, FetchDue(s) PROVE ReminderInv'
    BY <1>1, <1>2, <1>4, FetchDueStep DEF FetchDue, ReminderInv
<1>5. ASSUME NEW s \in Senders, NEW c \in senders[s].todo,
             Skip(s, c) \/ SendOrMarkFails(s, c)
      PROVE  ReminderInv'
    <2>1. Forget(s, c) /\ UNCHANGED schedulingVars
        BY <1>5 DEF Skip, SendOrMarkFails
    <2> DEFINE rest == senders[s].todo \ {c}
    <2>2. /\ rest \in SUBSET senders[s].todo /\ {} \in SUBSET rest
          /\ senders' = [senders EXCEPT ![s] = [todo |-> rest, told |-> {}]]
        BY <2>1 DEF Forget
    <2> HIDE DEF rest
    <2>3. \A d, e \in {} : d = e
        OBVIOUS
    <2>4. SendersOK' /\ StillToSend'
        BY <1>1, <1>2, <2>1, <2>2, <2>3, FewerCopies
    <2> QED BY <1>2, <2>1, <2>4 DEF ReminderInv
<1>6. ASSUME NEW s \in Senders, NEW c \in senders[s].todo, Send(s, c) PROVE ReminderInv'
    <2>1. /\ senders' = [senders EXCEPT ![s] = [todo |-> senders[s].todo, told |-> {c}]]
          /\ UNCHANGED schedulingVars
        <3>1. senders[s] = [todo |-> senders[s].todo, told |-> senders[s].told]
            BY <1>1 DEF SendersOK
        <3>2. [senders[s] EXCEPT !.told = {c}] = [todo |-> senders[s].todo, told |-> {c}]
            BY <3>1
        <3>3. senders' = [senders EXCEPT ![s] = [senders[s] EXCEPT !.told = {c}]]
            BY <1>6 DEF Send
        <3>4. UNCHANGED schedulingVars
            BY <1>6 DEF Send
        <3> QED BY <3>2, <3>3, <3>4, Zenon
    <2> DEFINE all == senders[s].todo
    <2>2. /\ all \in SUBSET senders[s].todo /\ {c} \in SUBSET all
          /\ senders' = [senders EXCEPT ![s] = [todo |-> all, told |-> {c}]]
        BY <2>1
    <2> HIDE DEF all
    <2>3. \A d, e \in {c} : d = e
        OBVIOUS
    <2>4. SendersOK' /\ StillToSend'
        BY <1>1, <1>2, <2>1, <2>2, <2>3, FewerCopies
    <2> QED BY <1>2, <2>1, <2>4 DEF ReminderInv
<1>7. ASSUME NEW s \in Senders, NEW c \in senders[s].todo, MarkSent(s, c) PROVE ReminderInv'
    BY <1>1, <1>7, MarkSentStep DEF ReminderInv
<1>8. ASSUME NEW s \in Senders, SenderCrashes(s) PROVE ReminderInv'
    <2>1. /\ senders' = [senders EXCEPT ![s] = [todo |-> {}, told |-> {}]]
          /\ UNCHANGED schedulingVars
        BY <1>8 DEF SenderCrashes, AtRest
    <2>2. {} \in SUBSET senders[s].todo /\ {} \in SUBSET {} /\ \A d, e \in {} : d = e
        OBVIOUS
    <2>3. SendersOK' /\ StillToSend'
        BY <1>1, <1>2, <2>1, <2>2, FewerCopies
    <2> QED BY <1>2, <2>1, <2>3 DEF ReminderInv
<1>9. ASSUME ServiceRestarts PROVE ReminderInv'
    <2>1. apptSeq' = 0 /\ UNCHANGED <<appts, senders>>
        BY <1>9 DEF ServiceRestarts, RestoreSchedule
    <2>2. SchedulingTypeOK' /\ NoDoubleBooking' /\ SentKept
        BY <1>1, <2>1, SchedulingAssumption DEF SchedulingTypeOK, NoDoubleBooking, Covers, SentKept
    <2> QED BY <1>1, <2>1, <2>2, SameCopies DEF ReminderInv
<1>10. ASSUME UNCHANGED <<schedulingVars, senders>> PROVE ReminderInv'
    BY <1>1, <1>2, <1>10, SameCopies DEF ReminderInv
<1>11. CASE Tick
    BY <1>10, <1>11 DEF Tick
<1>12. CASE UNCHANGED reminderVars
    BY <1>10, <1>12 DEF reminderVars
<1> QED BY <1>3, <1>4, <1>5, <1>6, <1>7, <1>8, <1>9, <1>11, <1>12 DEF RemindersNext, SenderStep

(* While one run of the reminder job is alive, no client is told again of  *)
(* a time that stands and is marked as told, for any appointments,         *)
(* reminders, failures, crashes and restarts; and the desk still books     *)
(* nobody twice.                                                           *)
THEOREM ToldOnce ==
    ASSUME \A s, t \in Senders : s = t
    PROVE  RemindersSpec => NotToldAgain /\ []NoDoubleBooking
<1> DEFINE Fresh == \A s \in Senders : \A c \in senders'[s].told \ senders[s].told :
                       ~(appts[c.id].sent[c.i] /\ appts[c.id].start = c.start)
<1>1. RemindersInit => ReminderInv
    BY SchedulingAssumption
       DEF RemindersInit, SchedulingInit, ReminderInv, SchedulingTypeOK, NoDoubleBooking,
           SendersOK, StillToSend, AtRest
<1>2. ReminderInv /\ [RemindersNext]_reminderVars => ReminderInv'
    BY ReminderSteps
<1>3. ReminderInv /\ [RemindersNext]_reminderVars => [Fresh]_reminderVars
    <2> SUFFICES ASSUME ReminderInv, RemindersNext,
                        NEW s \in Senders, NEW c \in senders'[s].told \ senders[s].told
                 PROVE  ~appts[c.id].sent[c.i]
        OBVIOUS
    <2>1. /\ senders \in [Senders -> [todo : SUBSET Copied, told : SUBSET Copied]]
          /\ StillToSend
        BY DEF ReminderInv, SendersOK
    <2>2. c \in senders[s].todo
        <3>1. CASE UNCHANGED senders
            BY <3>1
        <3>2. ASSUME NEW t \in Senders, NEW d \in senders[t].todo, Forget(t, d)
              PROVE  FALSE
            BY <2>1, <3>2 DEF Forget
        <3>3. ASSUME NEW t \in Senders, NEW d \in senders[t].todo, Send(t, d)
              PROVE  c \in senders[s].todo
            BY <2>1, <3>3 DEF Send
        <3>4. ASSUME NEW t \in Senders, FetchDue(t) \/ SenderCrashes(t)
              PROVE  FALSE
            BY <2>1, <3>4 DEF FetchDue, SenderCrashes, AtRest
        <3> QED BY <3>1, <3>2, <3>3, <3>4
                DEF RemindersNext, SenderStep, Skip, MarkSent, SendOrMarkFails, ServiceRestarts, Tick
    <2> QED BY <2>1, <2>2 DEF StillToSend
<1>4. (RemindersSpec => [][Fresh]_reminderVars) => (RemindersSpec => NotToldAgain)
    BY DEF NotToldAgain
<1>5. ReminderInv => NoDoubleBooking
    BY DEF ReminderInv
<1> HIDE DEF Fresh
<1>6. RemindersSpec => [][Fresh]_reminderVars /\ []NoDoubleBooking
    BY <1>1, <1>2, <1>3, <1>5, PTL DEF RemindersSpec
<1> QED BY <1>4, <1>6
=============================================================================
