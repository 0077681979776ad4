----------------------------- MODULE MCStaffPanels -----------------------------
(* Model-checking instance of five panels of the dashboard: the time clock *)
(* over payroll, staff messaging, the calendar connections, the documents  *)
(* of a matter with the client portal, and the deadlines coming due with   *)
(* the job that mails them.  They share no state and no step of one looks  *)
(* at another, so checking each with the others at rest checks their       *)
(* composition: the panel in use is chosen once, and the runs of the five  *)
(* are laid side by side instead of interleaved.                           *)
EXTENDS TimeClock, Messaging, CalendarConnections, ClientFile, DeadlineAlerts, TLC

PanelSymmetry ==
    Permutations(Colleagues) \cup Permutations(Matters) \cup Permutations(DeadlineMatters)

VARIABLE panel

panelVars == <<timeVars, messagingVars, connectionVars, fileVars,
               alertVars, panel>>

PanelsInit ==
    /\ panel \in {"time clock", "messages", "connections", "documents", "deadlines"}
    /\ TimeInit /\ MessagingInit /\ ConnectionInit /\ FileInit
    /\ AlertsInit

PanelsNext ==
    /\ UNCHANGED panel
    /\ \/ /\ panel = "time clock" /\ TimeNext
          /\ UNCHANGED <<messagingVars, connectionVars, fileVars, alertVars>>
       \/ /\ panel = "messages" /\ MessagingNext
          /\ UNCHANGED <<timeVars, connectionVars, fileVars, alertVars>>
       \/ /\ panel = "connections" /\ ConnectionNext
          /\ UNCHANGED <<timeVars, messagingVars, fileVars, alertVars>>
       \/ /\ panel = "documents" /\ FileNext
          /\ UNCHANGED <<timeVars, messagingVars, connectionVars, alertVars>>
       \/ /\ panel = "deadlines" /\ AlertsNext
          /\ UNCHANGED <<timeVars, messagingVars, connectionVars, fileVars>>

PanelsSpec == PanelsInit /\ [][PanelsNext]_panelVars
=============================================================================
