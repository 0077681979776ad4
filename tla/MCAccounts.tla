----------------------------- MODULE MCAccounts -----------------------------
(***************************************************************************)
(* Accounts for TLC.  No operation tells one password from another, so     *)
(* they are symmetric.                                                     *)
(***************************************************************************)
EXTENDS Accounts

Symmetry == Permutations(Passwords)
=============================================================================
