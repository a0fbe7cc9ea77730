----------------------------- MODULE MCPayments -----------------------------
(***************************************************************************)
(* Values for TLC.                                                         *)
(***************************************************************************)
EXTENDS Payments, TLC

=============================================================================
