------------------------------ MODULE Deadlines ------------------------------
(***************************************************************************)
(* The redundant deadline tracker (core/deadline.ts, DeadlineTracker).     *)
(*                                                                         *)
(* Calculations are only ever added.  The status of a deadline depends on  *)
(* which independent sources named which dates, so the calculations are a  *)
(* set here and recording one twice changes nothing.  The agent is one     *)
(* source however often it calculates, the calendar system is another, and *)
(* every human is one of their own: a human source is named by its actor.  *)
(***************************************************************************)
EXTENDS FiniteSets, Naturals

CONSTANTS
    DeadlineMatters,    \* matters that have deadlines
    DeadlineTypes,      \* "speedy_trial", "arraignment", ...
    Dates,
    Humans,             \* actors who may record a date they checked
    Agent,              \* the source of a date that was calculated in drafting
    CalendarSystem      \* the source behind the system credential

Sources == Humans \cup {Agent, CalendarSystem}

ASSUME DeadlinesAssumption == Agent # CalendarSystem /\ {Agent, CalendarSystem} \cap Humans = {}

VARIABLES calculations      \* a set of [matter, type, date, source]

Calculation == [matter : DeadlineMatters, type : DeadlineTypes, date : Dates,
                source : Sources]

CalculationsOf(m, t) == {c \in calculations : c.matter = m /\ c.type = t}

\* Two independent sources named a date, the same or not.
Redundant(m, t) ==
    \E c, d \in CalculationsOf(m, t) : c.source # d.source

Agreed(m, t) == \A c, d \in CalculationsOf(m, t) : c.date = d.date

\* Mutant: one source that agrees with itself is enough.
ConfirmedAlone(m, t) == CalculationsOf(m, t) # {} /\ Agreed(m, t)

\* DeadlineTracker.status: "confirmed", "conflict" or, otherwise, "unconfirmed".
Confirmed(m, t) == Redundant(m, t) /\ Agreed(m, t)
Conflict(m, t)  == Redundant(m, t) /\ ~Agreed(m, t)

\* Mutant: the last word of a source replaces what it said before.
RecordDeadlineAnew(m, t, date, source) ==
    calculations' =
        {c \in calculations : ~(c.matter = m /\ c.type = t /\ c.source = source)}
            \cup {[matter |-> m, type |-> t, date |-> date, source |-> source]}

\* DeadlineTracker.record
RecordDeadline(m, t, date, source) ==
    calculations' = calculations \cup
        {[matter |-> m, type |-> t, date |-> date, source |-> source]}
=============================================================================
