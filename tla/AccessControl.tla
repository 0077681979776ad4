---------------------------- MODULE AccessControl ----------------------------
(***************************************************************************)
(* Who may act on which matter (core/access-control.ts), and the attorney  *)
(* operations that change it (review-ui/accounts-service.ts).              *)
(*                                                                         *)
(* An attorney reaches every matter; a paralegal agent exactly the one     *)
(* matter it is assigned to; a client account the matters it was granted,  *)
(* and those only through the portal; every other role is denied the two   *)
(* categories modelled here.  Each decision is also appended to the audit  *)
(* log; no decision reads the log, so it is left out of this state.        *)
(***************************************************************************)
EXTENDS Naturals

CONSTANTS
    Matters,        \* matter ids
    Attorneys,      \* actor ids, by role
    Paralegals,
    Clients,
    OtherActors,    \* receptionist, staff and system actors
    NoMatter        \* "no active matter assignment"

Actors     == Attorneys \cup Paralegals \cup Clients \cup OtherActors
LegalStaff == Attorneys \cup Paralegals

ASSUME AccessAssumption ==
    /\ NoMatter \notin Matters
    /\ Attorneys \cap (Paralegals \cup Clients \cup OtherActors) = {}
    /\ Paralegals \cap (Clients \cup OtherActors) = {}
    /\ Clients \cap OtherActors = {}

VARIABLES
    assignment,     \* assignment[p]: the matter paralegal p works on, or NoMatter
    grants          \* grants[c]: the matters client c may view

accessVars == <<assignment, grants>>

AccessTypeOK ==
    /\ assignment \in [Paralegals -> Matters \cup {NoMatter}]
    /\ grants \in [Clients -> SUBSET Matters]

AccessInit ==
    /\ assignment = [p \in Paralegals |-> NoMatter]
    /\ grants = [c \in Clients |-> {}]

\* AccessControl.authorize for "billing_internal" and "case_file"; every
\* caller also requires one of the two legal-staff roles.
AuthorizedStaff(actor, m) ==
    \/ actor \in Attorneys
    \/ actor \in Paralegals /\ assignment[actor] = m

\* AccessControl.authorize for "client_portal", reached by clients alone.
AuthorizedClient(actor, m) ==
    actor \in Clients /\ m \in grants[actor]

----------------------------------------------------------------------------
(* AccountsService operations that move access; all are attorney-only.     *)

AssignMatter(actor, p, m) ==
    /\ actor \in Attorneys
    /\ assignment' = [assignment EXCEPT ![p] = m]
    /\ UNCHANGED grants

UnassignMatter(actor, p) ==
    /\ actor \in Attorneys
    /\ assignment' = [assignment EXCEPT ![p] = NoMatter]
    /\ UNCHANGED grants

GrantMatterAccess(actor, c, m) ==
    /\ actor \in Attorneys
    /\ grants' = [grants EXCEPT ![c] = @ \cup {m}]
    /\ UNCHANGED assignment

RevokeMatterAccess(actor, c, m) ==
    /\ actor \in Attorneys
    /\ grants' = [grants EXCEPT ![c] = @ \ {m}]
    /\ UNCHANGED assignment

StaffAccessNext ==
    \E actor \in Attorneys, p \in Paralegals :
        \/ \E m \in Matters : AssignMatter(actor, p, m)
        \/ UnassignMatter(actor, p)

ClientAccessNext ==
    \E actor \in Attorneys, c \in Clients, m \in Matters :
        GrantMatterAccess(actor, c, m) \/ RevokeMatterAccess(actor, c, m)
=============================================================================
