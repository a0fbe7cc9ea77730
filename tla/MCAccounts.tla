----------------------------- MODULE MCAccounts ------------------------------
(***************************************************************************)
(* Values for TLC.                                                         *)
(***************************************************************************)
EXTENDS Accounts, TLC

Symmetry == Permutations(Sessions) \cup Permutations(Requests) \cup Permutations(Passwords)
=============================================================================
