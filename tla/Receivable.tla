------------------------------ MODULE Receivable ------------------------------
(***************************************************************************)
(* What a bill promises, with no lines, payments, mail or actors: its      *)
(* total is fixed the moment it is issued, money is applied to an issued   *)
(* bill only and never beyond that total, nothing applied is taken off     *)
(* again, and only a bill nothing was applied to can be voided.            *)
(***************************************************************************)
EXTENDS Integers, Sequences

CONSTANTS
    Totals,     \* totals a bill can be issued with
    Payable     \* amounts that can be applied to a bill

VARIABLES bills     \* sequence of [state, total, paid]

NewBill == [state |-> "draft", total |-> 0, paid |-> 0]

Init == bills = <<>>

Draft == bills' = Append(bills, NewBill)

Issue(b, t) ==
    /\ bills[b].state = "draft"
    /\ bills' = [bills EXCEPT ![b].state = "issued", ![b].total = t]

Apply(b, a) ==
    /\ bills[b].state = "issued"
    /\ a > 0
    /\ bills[b].paid + a <= bills[b].total
    /\ bills' = [bills EXCEPT ![b].paid = @ + a]

Void(b) ==
    /\ bills[b].state # "void"
    /\ bills[b].paid = 0
    /\ bills' = [bills EXCEPT ![b] = [NewBill EXCEPT !.state = "void"]]

Next ==
    \/ Draft
    \/ \E b \in DOMAIN bills :
        \/ \E t \in Totals : Issue(b, t)
        \/ \E a \in Payable : Apply(b, a)
        \/ Void(b)

Spec == Init /\ [][Next]_bills
=============================================================================
