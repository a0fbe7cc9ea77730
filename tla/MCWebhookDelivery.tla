-------------------------- MODULE MCWebhookDelivery --------------------------
(***************************************************************************)
(* Values for TLC.                                                         *)
(***************************************************************************)
EXTENDS WebhookDelivery, TLC

Symmetry == Permutations(Workers) \cup Permutations(Events)
=============================================================================
