--------------------------- MODULE MCCalendarSync ---------------------------
(* Model-checking instance of CalendarSync: one attorney, two appointments *)
(* of different lengths and one run of the job at a time.                 *)
EXTENDS CalendarSync

MCSlots     == 1 .. 2
MCDurations == 1 .. 2
MCOffsets   == <<1>>
=============================================================================
