------------------------- MODULE MCVerificationQueue -------------------------
(***************************************************************************)
(* Values for TLC.                                                         *)
(***************************************************************************)
EXTENDS VerificationQueue, TLC
=============================================================================
