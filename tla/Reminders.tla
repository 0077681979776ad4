------------------------------ MODULE Reminders ------------------------------
(***************************************************************************)
(* Reminding clients of their appointments                                 *)
(* (integrations/appointment-reminders.ts, run from cron as a process of   *)
(* its own).                                                               *)
(*                                                                         *)
(* A run fetches the reminders that are due, sends each to the address and *)
(* number the fetch gave it, and marks the ones that went out.  The desk   *)
(* goes on working meanwhile.  A reminder went out when either of the two  *)
(* channels took it; the run takes its reminders in any order here.        *)
(***************************************************************************)
EXTENDS Scheduling

CONSTANTS
    Senders,        \* runs of the reminder job that can be alive together
    Reachable,      \* ids of the appointments whose matter has an address
    MaxTime,        \* bound: the last slot time reaches
    MaxFailures       \* bound: failed sends and calls, crashed runs and server
                    \* restarts, together

ASSUME RemindersAssumption == MaxTime \in Nat /\ MaxFailures \in Nat

VARIABLES
    now,            \* the slot it is
    senders,        \* senders[s]: [todo, told], what run s still has to do and
                    \* the reminder it sent and has not marked yet
    told,           \* what clients were told: a set of [id, i, start]
    failures

reminderVars == <<schedulingVars, now, senders, told, failures>>

AtRest == [todo |-> {}, told |-> {}]

Due(id, i) ==
    /\ appts[id].status \notin {"cancelled", "completed"}
    /\ ~appts[id].sent[i]
    /\ appts[id].start - Offsets[i] <= now

\* Mutant: whether a reminder was sent already is not looked at.
DueRemindersAnew ==
    {r \in (DOMAIN appts) \X (DOMAIN Offsets) :
        /\ appts[r[1]].status \notin {"cancelled", "completed"}
        /\ appts[r[1]].start - Offsets[r[2]] <= now}

\* SchedulingService.getDueReminders, as pairs of an appointment and a reminder
DueReminders == {r \in (DOMAIN appts) \X (DOMAIN Offsets) : Due(r[1], r[2])}

----------------------------------------------------------------------------
FetchDue(s) ==
    /\ senders[s] = AtRest
    /\ DueReminders # {}
    /\ senders' = [senders EXCEPT ![s].todo =
                     {[id |-> r[1], i |-> r[2], start |-> appts[r[1]].start] :
                        r \in DueReminders}]
    /\ UNCHANGED <<schedulingVars, now, told, failures>>

Forget(s, c) == senders' = [senders EXCEPT ![s] = [todo |-> senders[s].todo \ {c},
                                                   told |-> {}]]

\* There is neither an address nor a number to send it to.
Skip(s, c) ==
    /\ senders[s].told = {}
    /\ c.id \notin Reachable
    /\ Forget(s, c)
    /\ UNCHANGED <<schedulingVars, now, told, failures>>

Send(s, c) ==
    /\ senders[s].told = {}
    /\ c.id \in Reachable
    /\ told' = told \cup {c}
    /\ senders' = [senders EXCEPT ![s].told = {c}]
    /\ UNCHANGED <<schedulingVars, now, failures>>

MarkSent(s, c) ==
    /\ senders[s].told = {c}
    /\ MarkReminderSent(c.id, c.i)
    /\ Forget(s, c)
    /\ UNCHANGED <<now, told, failures>>

\* No channel takes the reminder, or the call that marks it fails.
SendOrMarkFails(s, c) ==
    /\ failures < MaxFailures
    /\ c.id \in Reachable
    /\ senders[s].told \in {{}, {c}}
    /\ Forget(s, c)
    /\ failures' = failures + 1
    /\ UNCHANGED <<schedulingVars, now, told>>

SenderCrashes(s) ==
    /\ senders[s] # AtRest /\ failures < MaxFailures
    /\ senders' = [senders EXCEPT ![s] = AtRest]
    /\ failures' = failures + 1
    /\ UNCHANGED <<schedulingVars, now, told>>

ServiceRestarts ==
    /\ failures < MaxFailures
    /\ RestoreSchedule
    /\ failures' = failures + 1
    /\ UNCHANGED <<now, senders, told>>

Tick ==
    /\ now < MaxTime
    /\ now' = now + 1
    /\ UNCHANGED <<schedulingVars, senders, told, failures>>

----------------------------------------------------------------------------
RemindersInit ==
    /\ SchedulingInit
    /\ now = 0
    /\ senders = [s \in Senders |-> AtRest]
    /\ told = {}
    /\ failures = 0

SenderStep(s) ==
    \/ FetchDue(s)
    \/ \E c \in senders[s].todo : Skip(s, c) \/ Send(s, c) \/ MarkSent(s, c)

RemindersNext ==
    \/ DeskNext /\ UNCHANGED <<now, senders, told, failures>>
    \/ \E s \in Senders :
          \/ SenderStep(s)
          \/ \E c \in senders[s].todo : SendOrMarkFails(s, c)
          \/ SenderCrashes(s)
    \/ ServiceRestarts
    \/ Tick

\* Cron starts the job again and again, and a started run goes on.
RemindersSpec ==
    RemindersInit /\ [][RemindersNext]_reminderVars
                  /\ \A s \in Senders : WF_reminderVars(SenderStep(s))

----------------------------------------------------------------------------

(* Once failures stop, a due reminder of a matter with an address does not *)
(* stay due: it is marked as sent, or the appointment is moved, cancelled  *)
(* or completed.                                                           *)
DueIsSettled ==
    \A id \in Reachable, i \in DOMAIN Offsets :
        <<id, i>> \in DueReminders ~> <<id, i>> \notin DueReminders

(* While only one run is alive, a client is never told again of a time     *)
(* that is still the time of the appointment and is marked as told, over   *)
(* any crashes, failures and changes of the appointment: "there's no       *)
(* reason to text someone a second time" (appointment-reminders.ts).       *)
NotToldAgain ==
    [][\A s \in Senders : \A c \in senders'[s].told \ senders[s].told :
          ~(appts[c.id].sent[c.i] /\ appts[c.id].start = c.start)]_reminderVars
=============================================================================
