---------------------------- MODULE MCMailPolling ----------------------------
(***************************************************************************)
(* Values for TLC.                                                         *)
(***************************************************************************)
EXTENDS MailPolling, TLC
=============================================================================
