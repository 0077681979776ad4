---------------------------- MODULE MCReminders ----------------------------
(* Model-checking instance of Reminders: two appointments, one of a matter *)
(* without an address, two times, two reminders for each and one run at a  *)
(* time.  The first reminder is due two slots ahead, the second one slot.  *)
EXTENDS Reminders

MCSlots     == 2 .. 3
MCDurations == {1}
MCOffsets   == <<2, 1>>
MCReachable == {1}
=============================================================================
