---------------------------- MODULE MCCredentials ----------------------------
(***************************************************************************)
(* Values for TLC.                                                         *)
(***************************************************************************)
EXTENDS Credentials, TLC

Symmetry == Permutations(Calls) \cup Permutations(States)
=============================================================================
