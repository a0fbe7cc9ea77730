---------------------------- MODULE MCOrderStore ----------------------------
(***************************************************************************)
(* Values for TLC.  Prices: outlook costs 1, gmail 2, or 3 after a change. *)
(***************************************************************************)
EXTENDS OrderStore, TLC

CONSTANTS outlook, gmail

AllOutlook == [m \in Mailboxes |-> outlook]
AllGmail == [m \in Mailboxes |-> gmail]
OnePriceTable == {[p \in Providers |-> IF p = outlook THEN 1 ELSE 2]}
TwoGmailTables == OnePriceTable \cup {[p \in Providers |-> IF p = outlook THEN 1 ELSE 3]}
NoAdjustments == {}
OneAdjustment == {-1}

Symmetry == Permutations(Users) \cup Permutations(OrderIds) \cup Permutations(Clients) \cup Permutations(Mailboxes)
=============================================================================
