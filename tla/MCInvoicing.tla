---------------------------- MODULE MCInvoicing ----------------------------
(* Model-checking instance of Invoicing: one matter, its attorney and one  *)
(* client account.  MCBound lets two invoices, two hours, two sessions and *)
(* two payments meet; MaxWork keeps the records together to a handful.     *)
EXTENDS Invoicing

MCAmounts    == {2}
MCPayAmounts == {1, 2}
MCLineAmounts == {0, 2}

MCBound == [invoices |-> 2, lines |-> 2, payments |-> 2, hours |-> 2,
            sessions |-> 2, charges |-> 1, mail |-> 1]
=============================================================================
