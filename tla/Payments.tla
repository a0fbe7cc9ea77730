------------------------------ MODULE Payments ------------------------------
(***************************************************************************)
(* Top-ups: a payment order is created for a payment provider, the user    *)
(* pays at the provider's gateway, and the gateway's signed callback       *)
(* credits the wallet.  The gateway (external) reports a payment as often  *)
(* as it likes and as late as it likes; callbacks are handled by several   *)
(* requests at once; locally the order may meanwhile expire or be          *)
(* canceled, and the administrator may edit or delete the provider.        *)
(*                                                                         *)
(* CancelPaymentOrder and CompletePaymentOrder lock the order row, the     *)
(* expiry is one UPDATE: each is one atomic action.  Service.Create is     *)
(* split between its statements, DeletePaymentProvider between its count   *)
(* and its delete, Notify between reading the provider and crediting.      *)
(***************************************************************************)
EXTENDS Integers, Sequences

CONSTANTS Users, Providers,
          PaymentIds,    \* bound: the payment orders that can ever be created
          Amounts,       \* amounts in cents, within CreatePaymentOrder's limits
          Configs,       \* provider configurations (keys and merchant id)
          Handlers,      \* callback requests that may run at the same time
          Admins,        \* DeletePaymentProvider calls that may run at the same time
          None

ASSUME PaymentsAssumption ==
    /\ Amounts \subseteq Nat \ {0}
    /\ None \notin Users \cup Providers \cup PaymentIds \cup Configs

VARIABLES balance,     \* users.balance_cents (the part topped up)
          topups,      \* payment_topup rows of wallet_ledgers by user, in commit order
          payments,    \* payment_orders
          providers,   \* payment_providers
          creating,    \* the Service.Create call of each payment
          gateway,     \* external: what the gateway knows of each payment
          handlers,    \* the verified callback each request holds
          deleting     \* the provider each DeletePaymentProvider call has checked

vars == <<balance, topups, payments, providers, creating, gateway, handlers, deleting>>

Payment == [status : {"none", "pending", "completed", "canceled", "expired"}, user : Users \cup {None},
            provider : Providers \cup {None}, amount : Nat, due : BOOLEAN]
Provider == [state : {"absent", "enabled", "disabled"}, config : Configs]
Topup == [payment : PaymentIds, amount : Nat, after : Nat]

\* A Create call has chosen its provider, then inserted the order.
Create == [phase : {"idle", "chosen", "inserted"}, user : Users \cup {None}, provider : Providers \cup {None},
           amount : Nat, config : Configs \cup {None}]

\* The gateway knows a payment once the user has its URL, which was signed
\* with the configuration of that moment; paid is what it has taken, or 0.
Gateway == [opened : Configs \cup {None}, paid : Nat]

NoPayment == [status |-> "none", user |-> None, provider |-> None, amount |-> 0, due |-> FALSE]
NoCreate == [phase |-> "idle", user |-> None, provider |-> None, amount |-> 0, config |-> None]
NoCallback == [payment |-> None, amount |-> 0]

Init ==
    /\ balance = [u \in Users |-> 0]
    /\ topups = [u \in Users |-> <<>>]
    /\ payments = [p \in PaymentIds |-> NoPayment]
    /\ providers \in [Providers -> [state : {"enabled"}, config : Configs]]
    /\ creating = [p \in PaymentIds |-> NoCreate]
    /\ gateway = [p \in PaymentIds |-> [opened |-> None, paid |-> 0]]
    /\ handlers = [h \in Handlers |-> NoCallback]
    /\ deleting = [a \in Admins |-> None]

Pending(p) == payments[p].status = "pending"

-----------------------------------------------------------------------------
(* Service.Create *)

\* The first enabled provider and its configuration are read.
ChooseProvider(p, u, pr, amount) ==
    /\ payments[p].status = "none"
    /\ creating[p].phase = "idle"
    /\ providers[pr].state = "enabled"
    /\ creating' = [creating EXCEPT ![p] = [phase |-> "chosen", user |-> u, provider |-> pr,
                                            amount |-> amount, config |-> providers[pr].config]]
    /\ UNCHANGED <<balance, topups, payments, providers, gateway, handlers, deleting>>

\* The row is inserted after an unlocked look at the provider.
CreatePaymentOrder(p) ==
    LET cr == creating[p] IN
    /\ cr.phase = "chosen"
    /\ payments' = [payments EXCEPT ![p] = [NoPayment EXCEPT !.status = "pending", !.user = cr.user,
                                            !.provider = cr.provider, !.amount = cr.amount]]
    /\ creating' = [creating EXCEPT ![p].phase = "inserted"]
    /\ UNCHANGED <<balance, topups, providers, gateway, handlers, deleting>>

\* The URL is signed and handed to the user, who can now pay.
SetPaymentOrderURL(p) ==
    /\ creating[p].phase = "inserted"
    /\ gateway' = [gateway EXCEPT ![p].opened = creating[p].config]
    /\ creating' = [creating EXCEPT ![p] = NoCreate]
    /\ UNCHANGED <<balance, topups, payments, providers, handlers, deleting>>

\* The provider refuses, or the URL cannot be made: the order is canceled.
CreateFails(p) ==
    /\ creating[p].phase = "inserted"
    /\ payments' = IF Pending(p) THEN [payments EXCEPT ![p].status = "canceled"] ELSE payments
    /\ creating' = [creating EXCEPT ![p] = NoCreate]
    /\ UNCHANGED <<balance, topups, providers, gateway, handlers, deleting>>

\* The request dies, or the second look at the provider finds it disabled.
AbortCreate(p) ==
    /\ creating[p].phase # "idle"
    /\ creating' = [creating EXCEPT ![p] = NoCreate]
    /\ UNCHANGED <<balance, topups, payments, providers, gateway, handlers, deleting>>

-----------------------------------------------------------------------------
(* The order while the user pays *)

\* External: the gateway takes the money.
Pay(p, amount) ==
    /\ gateway[p].opened # None
    /\ gateway[p].paid = 0
    /\ gateway' = [gateway EXCEPT ![p].paid = amount]
    /\ UNCHANGED <<balance, topups, payments, providers, creating, handlers, deleting>>

\* The clock passes the order's expires_at.
PassDeadline(p) ==
    /\ Pending(p)
    /\ ~payments[p].due
    /\ payments' = [payments EXCEPT ![p].due = TRUE]
    /\ UNCHANGED <<balance, topups, providers, creating, gateway, handlers, deleting>>

\* One UPDATE of every due row.
ReapExpiredPaymentOrders ==
    /\ \E p \in PaymentIds : Pending(p) /\ payments[p].due
    /\ payments' = [p \in PaymentIds |-> IF Pending(p) /\ payments[p].due
                                         THEN [payments[p] EXCEPT !.status = "expired"] ELSE payments[p]]
    /\ UNCHANGED <<balance, topups, providers, creating, gateway, handlers, deleting>>

CancelPaymentOrder(p) ==
    /\ Pending(p)
    /\ payments' = [payments EXCEPT ![p].status = "canceled"]
    /\ UNCHANGED <<balance, topups, providers, creating, gateway, handlers, deleting>>

-----------------------------------------------------------------------------
(* Callbacks *)

\* The callback is checked against the provider as it is now: it need not be
\* enabled, but it must exist and hold the keys the payment was signed with.
Notify(h, p) ==
    LET pr == payments[p].provider IN
    /\ handlers[h] = NoCallback
    /\ gateway[p].paid # 0
    /\ providers[pr].state # "absent"
    /\ providers[pr].config = gateway[p].opened
    /\ handlers' = [handlers EXCEPT ![h] = [payment |-> p, amount |-> gateway[p].paid]]
    /\ UNCHANGED <<balance, topups, payments, providers, creating, gateway, deleting>>

\* Mutant: an order that expired meanwhile is refused.
onlyPendingCanComplete(status) == status = "pending"

\* A payment that arrives after the order expired still counts.
paymentOrderCanComplete(status) == status \in {"pending", "paid", "expired"}

\* Mutant: the amount of the callback is not compared with the order's.
CreditableAnyAmount(p, amount) == paymentOrderCanComplete(payments[p].status)

Creditable(p, amount) ==
    /\ paymentOrderCanComplete(payments[p].status)
    /\ amount = payments[p].amount

\* Mutant: the order is not saved as completed.
CreditWithoutStatus(p) ==
    LET u == payments[p].user
        amount == payments[p].amount IN
    /\ balance' = [balance EXCEPT ![u] = balance[u] + amount]
    /\ topups' = [topups EXCEPT ![u] = Append(topups[u],
            [payment |-> p, amount |-> amount, after |-> balance[u] + amount])]
    /\ UNCHANGED payments

Credit(p) ==
    LET u == payments[p].user
        amount == payments[p].amount IN
    /\ balance' = [balance EXCEPT ![u] = balance[u] + amount]
    /\ topups' = [topups EXCEPT ![u] = Append(topups[u],
            [payment |-> p, amount |-> amount, after |-> balance[u] + amount])]
    /\ payments' = [payments EXCEPT ![p].status = "completed"]

\* Under the locks on the order and on the user.  A repeated callback of a
\* completed order is answered with success, a canceled order or another
\* amount with an error: neither changes anything.
CompletePaymentOrder(h) ==
    LET p == handlers[h].payment IN
    /\ p # None
    /\ IF Creditable(p, handlers[h].amount) THEN Credit(p) ELSE UNCHANGED <<balance, topups, payments>>
    /\ handlers' = [handlers EXCEPT ![h] = NoCallback]
    /\ UNCHANGED <<providers, creating, gateway, deleting>>

\* The request dies between the two.
DropCallback(h) ==
    /\ handlers[h] # NoCallback
    /\ handlers' = [handlers EXCEPT ![h] = NoCallback]
    /\ UNCHANGED <<balance, topups, payments, providers, creating, gateway, deleting>>

-----------------------------------------------------------------------------
(* Administrator *)

SavePaymentProvider(pr, row) ==
    /\ providers[pr].state # "absent"
    /\ providers' = [providers EXCEPT ![pr] = row]
    /\ UNCHANGED <<balance, topups, payments, creating, gateway, handlers, deleting>>

\* The count of pending orders, which locks nothing; expired orders are not counted.
CheckPendingOrders(a, pr) ==
    /\ deleting[a] = None
    /\ \A p \in PaymentIds : ~(Pending(p) /\ payments[p].provider = pr)
    /\ deleting' = [deleting EXCEPT ![a] = pr]
    /\ UNCHANGED <<balance, topups, payments, providers, creating, gateway, handlers>>

DeletePaymentProvider(a) ==
    /\ deleting[a] # None
    /\ providers' = [providers EXCEPT ![deleting[a]].state = "absent"]
    /\ deleting' = [deleting EXCEPT ![a] = None]
    /\ UNCHANGED <<balance, topups, payments, creating, gateway, handlers>>

-----------------------------------------------------------------------------
PaymentStep(p) ==
    \/ \E u \in Users, pr \in Providers, amount \in Amounts : ChooseProvider(p, u, pr, amount)
    \/ CreatePaymentOrder(p)
    \/ SetPaymentOrderURL(p)
    \/ CreateFails(p)
    \/ AbortCreate(p)
    \/ \E amount \in Amounts : Pay(p, amount)
    \/ PassDeadline(p)
    \/ CancelPaymentOrder(p)

HandlerStep(h) ==
    \/ \E p \in PaymentIds : Notify(h, p)
    \/ CompletePaymentOrder(h)
    \/ DropCallback(h)

AdminStep(a) ==
    \/ \E pr \in Providers : CheckPendingOrders(a, pr)
    \/ DeletePaymentProvider(a)

Next ==
    \/ \E p \in PaymentIds : PaymentStep(p)
    \/ ReapExpiredPaymentOrders
    \/ \E h \in Handlers : HandlerStep(h)
    \/ \E a \in Admins : AdminStep(a)
    \/ \E pr \in Providers, row \in [state : {"enabled", "disabled"}, config : Configs] : SavePaymentProvider(pr, row)

Spec == Init /\ [][Next]_vars

\* The gateway repeats a callback until it is answered, and other callbacks do
\* not keep it out for ever (SF: the Handlers bound makes it wait its turn); a
\* request that has verified one gets its row locks and credits it in the end
\* unless its process dies, which does not happen every time.
Fairness == /\ \A p \in PaymentIds : SF_vars(\E h \in Handlers : Notify(h, p))
            /\ \A h \in Handlers, p \in PaymentIds :
                  SF_vars(handlers[h].payment = p /\ CompletePaymentOrder(h))

FairSpec == Spec /\ Fairness

-----------------------------------------------------------------------------
(* Properties *)

\* Every variable has its type.
TypeOK ==
    /\ balance \in [Users -> Nat]
    /\ topups \in [Users -> Seq(Topup)]
    /\ payments \in [PaymentIds -> Payment]
    /\ providers \in [Providers -> Provider]
    /\ creating \in [PaymentIds -> Create]
    /\ gateway \in [PaymentIds -> Gateway]
    /\ handlers \in [Handlers -> [payment : PaymentIds \cup {None}, amount : Nat]]
    /\ deleting \in [Admins -> Providers \cup {None}]

TopupRows(p, u) == {i \in DOMAIN topups[u] : topups[u][i].payment = p}

\* A completed order of user u has one row in u's ledger, of its amount; any
\* other order has none.
RowsMatch(p, u) ==
    IF payments[p].status = "completed" /\ payments[p].user = u
    THEN \E i \in TopupRows(p, u) : TopupRows(p, u) = {i} /\ topups[u][i].amount = payments[p].amount
    ELSE TopupRows(p, u) = {}

\* Every row carries the balance that it and the rows before it add up to.
LedgerAddsUp(u) ==
    /\ balance[u] = IF topups[u] = <<>> THEN 0 ELSE topups[u][Len(topups[u])].after
    /\ \A i \in DOMAIN topups[u] :
          topups[u][i].after = topups[u][i].amount + (IF i = 1 THEN 0 ELSE topups[u][i - 1].after)

\* However many callbacks of a payment arrive and however they overlap with
\* expiry and cancellation, the wallet holds exactly one top-up of a completed
\* order, in its user's ledger, of its amount, and none of any other order; and
\* no top-up is lost to another one of the same user.
CreditedOnce == /\ \A p \in PaymentIds, u \in Users : RowsMatch(p, u)
                /\ \A u \in Users : LedgerAddsUp(u)

\* Nothing is credited that the gateway has not taken, to the cent.
CreditedWasPaid ==
    \A p \in PaymentIds : payments[p].status = "completed" => gateway[p].paid = payments[p].amount

Paid(p) == gateway[p].paid # 0 /\ gateway[p].paid = payments[p].amount

\* The provider can no longer verify the payment's callbacks.
Unverifiable(p) == LET pr == payments[p].provider
                   IN  /\ pr # None
                       /\ providers[pr].state = "absent" \/ providers[pr].config # gateway[p].opened

\* A paid order is credited in the end, also when it expired first or its
\* provider was disabled (the comments at payment/service.go:105 and
\* postgres_payments.go:218), unless the user canceled it, or the provider was
\* deleted or given other keys.
PaidIsCredited ==
    \A p \in PaymentIds :
        Paid(p) ~> payments[p].status \in {"completed", "canceled"} \/ Unverifiable(p)
=============================================================================
