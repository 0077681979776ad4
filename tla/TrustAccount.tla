----------------------------- MODULE TrustAccount -----------------------------
(***************************************************************************)
(* What a client trust account promises, with no log and no actors: every  *)
(* matter has its own non-negative funds, money moves one movement on one  *)
(* matter at a time, and a movement is undone exactly, at most once.       *)
(***************************************************************************)
EXTENDS Integers

CONSTANTS
    Matters,
    Ids,        \* identifiers a movement can have
    Deltas      \* signed amounts a movement can have, without 0

VARIABLES
    funds,      \* funds[m]: what the firm holds for matter m
    moved,      \* the movements made so far: movement id -> [matter, delta]
    undone      \* ids of the movements that have been undone

acctVars == <<funds, moved, undone>>

Init ==
    /\ funds = [m \in Matters |-> 0]
    /\ moved = [id \in {} |-> 0]
    /\ undone = {}

Adjust(m, d) ==
    /\ funds[m] + d >= 0
    /\ funds' = [funds EXCEPT ![m] = @ + d]

Move(id, m, d) ==
    /\ id \notin DOMAIN moved
    /\ moved' = [k \in DOMAIN moved \cup {id} |->
                    IF k = id THEN [matter |-> m, delta |-> d] ELSE moved[k]]
    /\ Adjust(m, d)
    /\ UNCHANGED undone

Undo(id) ==
    /\ id \in DOMAIN moved \ undone
    /\ undone' = undone \cup {id}
    /\ Adjust(moved[id].matter, -moved[id].delta)
    /\ UNCHANGED moved

Next ==
    \/ \E id \in Ids, m \in Matters, d \in Deltas : Move(id, m, d)
    \/ \E id \in DOMAIN moved : Undo(id)

Spec == Init /\ [][Next]_acctVars
=============================================================================
