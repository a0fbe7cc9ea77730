------------------------------- MODULE Wallet -------------------------------
(***************************************************************************)
(* What HeroMail promises about a user's money, whatever moves it: the     *)
(* wallet ledger is append-only, every row carries the balance it left,    *)
(* the balance is the last of those, it is never negative, an order is     *)
(* charged once, and it is refunded at most once, by what it was charged.  *)
(*                                                                         *)
(* This is the abstract specification: no orders, no mailboxes, no locks.  *)
(* OrderStore implements it (see OrderStore!WalletSpec).                   *)
(***************************************************************************)
EXTENDS Integers, Sequences

CONSTANTS Users,           \* wallet owners (users.id)
          OrderIds,        \* what a charge or a refund refers to (wallet_ledgers.order_id)
          None,            \* the empty reference of an adjustment
          InitialBalance   \* the balance each user starts from

VARIABLES balance,         \* users.balance_cents
          ledger           \* wallet_ledgers, in the order the rows were committed

walletVars == <<balance, ledger>>

EntryTypes == {"admin_adjustment", "order_charge", "order_refund"}

Entry == [type : EntryTypes, ref : OrderIds \cup {None}, amount : Int, after : Nat]

\* Some ledger row of user u has this type and refers to order o.
Posted(u, type, o) == \E i \in DOMAIN ledger[u] : ledger[u][i].type = type /\ ledger[u][i].ref = o

\* The ledger row that opens the wallet.
Opening == [type |-> "admin_adjustment", ref |-> None, amount |-> InitialBalance, after |-> InitialBalance]

Init == /\ balance = [u \in Users |-> InitialBalance]
        /\ ledger = [u \in Users |-> <<Opening>>]

\* Append one row and move the balance by exactly its amount.
Post(u, type, o, amount) ==
    /\ balance[u] + amount >= 0
    /\ balance' = [balance EXCEPT ![u] = balance[u] + amount]
    /\ ledger' = [ledger EXCEPT ![u] = Append(ledger[u],
            [type |-> type, ref |-> o, amount |-> amount, after |-> balance[u] + amount])]

Charge(u, o, amount) ==
    /\ amount >= 0
    /\ \A v \in Users : ~Posted(v, "order_charge", o)
    /\ Post(u, "order_charge", o, 0 - amount)

\* A refund gives back a charge of the same user and order, once, to the cent.
Refund(u, o, amount) ==
    /\ amount >= 0
    /\ \E i \in DOMAIN ledger[u] : /\ ledger[u][i].type = "order_charge"
                                   /\ ledger[u][i].ref = o
                                   /\ ledger[u][i].amount = 0 - amount
    /\ \A v \in Users : ~Posted(v, "order_refund", o)
    /\ Post(u, "order_refund", o, amount)

Adjust(u, amount) == Post(u, "admin_adjustment", None, amount)

\* A step adds a row to one ledger; what it moves is the difference it makes to
\* the balance.
Next == \E u \in Users :
            /\ ledger'[u] # ledger[u]
            /\ LET moved == balance'[u] - balance[u]
               IN  \/ \E o \in OrderIds : Charge(u, o, 0 - moved) \/ Refund(u, o, moved)
                   \/ Adjust(u, moved)

Spec == Init /\ [][Next]_walletVars

-----------------------------------------------------------------------------
(* What follows for every ledger *)

\* Every row starts from the balance the row before it left, the first from 0,
\* and the wallet holds what the last one left.
AddsUp(u) ==
    /\ ledger[u] # <<>>
    /\ balance[u] = ledger[u][Len(ledger[u])].after
    /\ \A i \in DOMAIN ledger[u] :
          ledger[u][i].after = ledger[u][i].amount + (IF i = 1 THEN 0 ELSE ledger[u][i - 1].after)

\* Row i of u's ledger is of this type and refers to order o.
RowOf(u, i, type, o) == ledger[u][i].type = type /\ ledger[u][i].ref = o

\* No order has two rows of this type, in one ledger or in two.
Once(type) ==
    \A o \in OrderIds, u, v \in Users : \A i \in DOMAIN ledger[u], j \in DOMAIN ledger[v] :
        RowOf(u, i, type, o) /\ RowOf(v, j, type, o) => u = v /\ i = j

\* A refund gives back an earlier charge of its own ledger, to the cent.
RefundsCharge ==
    \A o \in OrderIds, u \in Users : \A i \in DOMAIN ledger[u] : RowOf(u, i, "order_refund", o) =>
        \E j \in 1 .. (i - 1) : RowOf(u, j, "order_charge", o) /\ ledger[u][j].amount = 0 - ledger[u][i].amount

Sound == (\A u \in Users : AddsUp(u)) /\ Once("order_charge") /\ Once("order_refund") /\ RefundsCharge
=============================================================================
