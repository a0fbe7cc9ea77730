------------------------------ MODULE MCUpgrade ------------------------------
(***************************************************************************)
(* Values for TLC.                                                         *)
(***************************************************************************)
EXTENDS Upgrade
=============================================================================
