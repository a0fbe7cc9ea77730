----------------------------- MODULE OrderStore -----------------------------
(***************************************************************************)
(* The order core of HeroMail as PostgresStore runs it: allocation of a    *)
(* mailbox to an order, delivery of the code, cancellation, expiry and     *)
(* reconciliation, the wallet movements they make, the verification        *)
(* results that may end an order, and the administrator's operations on    *)
(* mailboxes and services.                                                 *)
(*                                                                         *)
(* Transactions run at READ COMMITTED.  One that reads every row it        *)
(* depends on FOR UPDATE is one atomic action, enabled when no other       *)
(* transaction holds those rows.  CreateOrder, SaveMailbox, DeleteMailbox  *)
(* and DeleteService read rows they do not lock, so each is split at that  *)
(* read: what they write later may be based on a row that has changed.     *)
(* The history variable lost records the mailboxes of which such a write   *)
(* has undone a lease or a consumed mark.                                  *)
(***************************************************************************)
EXTENDS Integers, Sequences

CONSTANTS Users, Services, Mailboxes, Providers,
          OrderIds,                    \* bound: the orders that can ever be created
          Requests,                    \* request ids a client may send; "unset" is none
          Clients,                     \* CreateOrder calls that may run at the same time
          Admins,                      \* administrator calls that may run at the same time
          ProviderOf,                  \* the provider of each mailbox's address
          PriceTables,                 \* price tables SaveService may store (cents by provider)
          AdjustAmounts,               \* amounts AdjustBalance may be called with
          MailboxServiceTimeoutLimit,  \* 5 in the code
          InitialBalance,
          MaxLedger,                   \* bound: AdjustBalance stops at this ledger length
          None                         \* the empty string of id columns; "unset" is the empty
                                       \* string of a request's field

ASSUME ConstantsAssumption ==
    /\ None \notin Users \cup Services \cup Mailboxes \cup OrderIds
    /\ ProviderOf \in [Mailboxes -> Providers]
    /\ PriceTables \subseteq [Providers -> Nat]
    /\ AdjustAmounts \subseteq Int
    /\ MailboxServiceTimeoutLimit \in Nat \ {0}
    /\ InitialBalance \in Nat
    /\ MaxLedger \in Nat

VARIABLES balance,    \* users.balance_cents
          ledger,     \* wallet_ledgers by user, in commit order
          orders,     \* registration_orders
          mailboxes,  \* mailboxes
          pairs,      \* mailbox_service_states by mailbox and service
          services,   \* target_services
          outbox,     \* webhook events enqueued for each order, in commit order
          creating,   \* the CreateOrder call each client has in progress
          sessions,   \* the administrator call in progress
          lost        \* history: mailboxes of which a stale write undid a lease or a mark

vars == <<balance, ledger, orders, mailboxes, pairs, services, outbox, creating, sessions, lost>>

-----------------------------------------------------------------------------
(* Rows *)

OrderStatus == {"none", "waiting_code", "code_received", "completed", "canceled", "expired_refunded"}
MailboxState == {"absent", "available", "leased", "blocked", "auth_error", "pending_verification"}
PairState == {"absent", "available", "leased", "consumed"}
Verification == {"pending_verification", "verified", "failed"}

Order == [status : OrderStatus, user : Users \cup {None}, service : Services \cup {None},
          mailbox : Mailboxes \cup {None}, request : Requests \cup {None},
          price : Nat, refunded : BOOLEAN, due : BOOLEAN]
Mailbox == [state : MailboxState, active : OrderIds \cup {None}, verification : Verification]
Pair == [state : PairState, timeouts : Nat]
Service == [state : {"absent", "enabled", "disabled"}, prices : PriceTables]
LedgerRow == [type : {"admin_adjustment", "order_charge", "order_refund"},
              ref : OrderIds \cup {None}, amount : Int, after : Nat]

NoOrder == [status |-> "none", user |-> None, service |-> None, mailbox |-> None,
            request |-> None, price |-> 0, refunded |-> FALSE, due |-> FALSE]
NoMailbox == [state |-> "absent", active |-> None, verification |-> "pending_verification"]
NoPair == [state |-> "absent", timeouts |-> 0]
FreshPair == [state |-> "available", timeouts |-> 0]

\* A CreateOrder call: idle, begun (service read, duplicate check done), or
\* selected (the user row and the mailbox row are locked, balance is the
\* balance read under that lock).
Creating == [phase : {"idle", "begun", "selected"}, user : Users \cup {None}, service : Services \cup {None},
             request : Requests \cup {None}, providers : SUBSET Providers, prices : PriceTables \cup {None},
             mailbox : Mailboxes \cup {None}, balance : Nat]
NotCreating == [phase |-> "idle", user |-> None, service |-> None, request |-> None,
                providers |-> {}, prices |-> None, mailbox |-> None, balance |-> 0]

\* An administrator call between its unlocked read and its write.
Session == [op : {"idle", "saveMailbox", "deleteMailbox", "deleteService"},
            mailbox : Mailboxes \cup {None}, service : Services \cup {None}, row : Mailbox]
NoSession == [op |-> "idle", mailbox |-> None, service |-> None, row |-> NoMailbox]

Init ==
    /\ balance = [u \in Users |-> InitialBalance]
    /\ ledger = [u \in Users |-> <<[type |-> "admin_adjustment", ref |-> None,
                                    amount |-> InitialBalance, after |-> InitialBalance]>>]
    /\ orders = [o \in OrderIds |-> NoOrder]
    /\ mailboxes = [m \in Mailboxes |-> [state |-> "available", active |-> None, verification |-> "verified"]]
    /\ pairs = [m \in Mailboxes |-> [s \in Services |-> FreshPair]]
    /\ services \in [Services -> [state : {"enabled"}, prices : PriceTables]]
    /\ outbox = [o \in OrderIds |-> <<>>]
    /\ creating = [c \in Clients |-> NotCreating]
    /\ sessions = [a \in Admins |-> NoSession]
    /\ lost = {}

-----------------------------------------------------------------------------
(* Row locks held by a CreateOrder call between its SELECT ... FOR UPDATE  *)
(* and its commit; every other transaction that locks or writes the row    *)
(* waits for them.                                                         *)

\* Mutants: the SELECT forgets FOR UPDATE.
UserRowUnlocked(u) == TRUE
MailboxRowUnlocked(m) == TRUE

UserRowFree(u) == \A c \in Clients : ~(creating[c].phase = "selected" /\ creating[c].user = u)

MailboxRowFree(m) == \A c \in Clients : ~(creating[c].phase = "selected" /\ creating[c].mailbox = m)

Waiting(o) == orders[o].status = "waiting_code"

\* One wallet movement: the new balance is computed from the balance that was read.
PostEntry(u, type, o, amount, read) ==
    /\ balance' = [balance EXCEPT ![u] = read + amount]
    /\ ledger' = [ledger EXCEPT ![u] = Append(ledger[u],
            [type |-> type, ref |-> o, amount |-> amount, after |-> read + amount])]

\* A write that is based on a stale read undoes something of mailbox m.
Loses(m, undone) == lost' = IF undone THEN lost \cup {m} ELSE lost

EnqueueWebhook(o, event) == outbox' = [outbox EXCEPT ![o] = Append(outbox[o], event)]

-----------------------------------------------------------------------------
(* CreateOrder *)

RequestUsed(u, r) == \E o \in OrderIds : /\ orders[o].status # "none"
                                         /\ orders[o].user = u
                                         /\ orders[o].request = r

\* Mutant: the index on (user_id, request_id) is not unique.
PlainIndex(u, r) == TRUE

\* The unique index idx_user_request on (user_id, request_id).
UniqueRequest(u, r) == ~RequestUsed(u, r)

\* Read the service, validate the providers, look for the request id: none of
\* these rows is locked.
BeginCreate(c, u, s, r, ps) ==
    /\ creating[c].phase = "idle"
    /\ services[s].state = "enabled"
    /\ ps # {}
    /\ r # "unset" => ~RequestUsed(u, r)
    /\ creating' = [creating EXCEPT ![c] = [NotCreating EXCEPT !.phase = "begun", !.user = u, !.service = s,
            !.request = r, !.providers = ps, !.prices = services[s].prices]]
    /\ UNCHANGED <<balance, ledger, orders, mailboxes, pairs, services, outbox, sessions, lost>>

\* Mutant: the balance need only cover the cheapest of the requested providers.
CoversCheapest(u, c) == \E p \in creating[c].providers : balance[u] >= creating[c].prices[p]

\* The balance must cover the dearest of the requested providers.
Covers(u, c) == \A p \in creating[c].providers : balance[u] >= creating[c].prices[p]

\* Mutant: the SELECT forgets verification_status.
AllocatableUnverified(m, s, ps) ==
    /\ mailboxes[m].state = "available"
    /\ mailboxes[m].active = None
    /\ pairs[m][s].state = "available"
    /\ ProviderOf[m] \in ps
    /\ MailboxRowFree(m)

Allocatable(m, s, ps) ==
    /\ mailboxes[m].state = "available"
    /\ mailboxes[m].active = None
    /\ mailboxes[m].verification = "verified"
    /\ pairs[m][s].state = "available"
    /\ ProviderOf[m] \in ps
    /\ MailboxRowFree(m)

\* Lock the user row, check the balance, lock one allocatable mailbox row
\* (FOR UPDATE OF m SKIP LOCKED: the pair row is read but not locked).
SelectMailbox(c) ==
    LET cr == creating[c] IN
    /\ cr.phase = "begun"
    /\ UserRowFree(cr.user)
    /\ Covers(cr.user, c)
    /\ \E m \in Mailboxes :
          /\ Allocatable(m, cr.service, cr.providers)
          /\ creating' = [creating EXCEPT ![c] = [@ EXCEPT !.phase = "selected", !.mailbox = m,
                                                           !.balance = balance[cr.user]]]
    /\ UNCHANGED <<balance, ledger, orders, mailboxes, pairs, services, outbox, sessions, lost>>

\* Charge, insert the order, lease the mailbox and the pair, write the ledger
\* row and the webhook job, commit.  The unique index on (user_id, request_id)
\* refuses a second order of the same request.
CommitOrder(c, o) ==
    LET cr == creating[c]
        m  == cr.mailbox
        s  == cr.service
        price == cr.prices[ProviderOf[m]] IN
    /\ cr.phase = "selected"
    /\ orders[o].status = "none"
    /\ UniqueRequest(cr.user, cr.request)
    /\ PostEntry(cr.user, "order_charge", o, 0 - price, cr.balance)
    /\ orders' = [orders EXCEPT ![o] = [NoOrder EXCEPT !.status = "waiting_code", !.user = cr.user,
            !.service = s, !.mailbox = m, !.request = cr.request, !.price = price]]
    /\ mailboxes' = [mailboxes EXCEPT ![m] = [@ EXCEPT !.state = "leased", !.active = o]]
    /\ pairs' = IF pairs[m][s].state = "absent" THEN pairs ELSE [pairs EXCEPT ![m][s].state = "leased"]
    /\ EnqueueWebhook(o, "waiting_code")
    /\ creating' = [creating EXCEPT ![c] = NotCreating]
    /\ Loses(m, pairs[m][s].state \in {"consumed", "absent"})
    /\ UNCHANGED <<services, sessions>>

\* The call ends without an order and its transaction rolls back: the balance
\* is short, nothing is allocatable, the insert hits the unique index, or the
\* process or its connection dies.
AbortCreate(c) ==
    /\ creating[c].phase # "idle"
    /\ creating' = [creating EXCEPT ![c] = NotCreating]
    /\ UNCHANGED <<balance, ledger, orders, mailboxes, pairs, services, outbox, sessions, lost>>

-----------------------------------------------------------------------------
(* The life of an order after its creation *)

\* The clock passes the order's expires_at.
PassDeadline(o) ==
    /\ Waiting(o)
    /\ ~orders[o].due
    /\ orders' = [orders EXCEPT ![o].due = TRUE]
    /\ UNCHANGED <<balance, ledger, mailboxes, pairs, services, outbox, creating, sessions, lost>>

\* Mutant: the order is taken off the mailbox, whose state is forgotten.
FreedOrderOnly(row) ==
    IF row.state = "absent" THEN row ELSE [row EXCEPT !.active = None]

\* UPDATE mailboxes SET state = available, active_order_id = '' WHERE id = ...
FreedMailbox(row) ==
    IF row.state = "absent" THEN row ELSE [row EXCEPT !.state = "available", !.active = None]

ReceiveCode(o) ==
    LET m == orders[o].mailbox
        s == orders[o].service IN
    /\ Waiting(o)
    /\ ~orders[o].due
    /\ MailboxRowFree(m)
    /\ orders' = [orders EXCEPT ![o].status = "code_received"]
    /\ mailboxes' = [mailboxes EXCEPT ![m] = FreedMailbox(mailboxes[m])]
    /\ pairs' = IF pairs[m][s].state = "absent" THEN pairs ELSE [pairs EXCEPT ![m][s].state = "consumed"]
    /\ EnqueueWebhook(o, "code_received")
    /\ UNCHANGED <<balance, ledger, services, creating, sessions, lost>>

\* Mutant: updateOrder forgets the list of allowed statuses.
CompleteAny(o) ==
    /\ orders[o].status \notin {"none", "completed"}
    /\ orders' = [orders EXCEPT ![o].status = "completed"]
    /\ EnqueueWebhook(o, "completed")
    /\ UNCHANGED <<balance, ledger, mailboxes, pairs, services, creating, sessions, lost>>

CompleteOrder(o) ==
    /\ orders[o].status = "code_received"
    /\ orders' = [orders EXCEPT ![o].status = "completed"]
    /\ EnqueueWebhook(o, "completed")
    /\ UNCHANGED <<balance, ledger, mailboxes, pairs, services, creating, sessions, lost>>

\* Mutant: the limit is compared with >.
oneTimeoutTooMany(current) ==
    [state |-> IF current + 1 > MailboxServiceTimeoutLimit THEN "consumed" ELSE "available",
     timeouts |-> current + 1]

\* A pair's count and state after one more order without a code.
nextTimeoutState(current) ==
    [state |-> IF current + 1 >= MailboxServiceTimeoutLimit THEN "consumed" ELSE "available",
     timeouts |-> current + 1]

\* What a refund makes of the pair: nothing unless it is leased, and only a
\* refund as expired counts as a timeout.
ReleasedPair(pair, status) ==
    IF pair.state # "leased" THEN pair
    ELSE IF status = "expired_refunded" THEN nextTimeoutState(pair.timeouts)
    ELSE [pair EXCEPT !.state = "available"]

\* Mutant: the refund is of the service's price of today.
refundTodaysPrice(o, status) ==
    LET m == orders[o].mailbox
        s == orders[o].service
        u == orders[o].user IN
    /\ UserRowFree(u)
    /\ pairs[m][s].state # "absent"
    /\ PostEntry(u, "order_refund", o, services[s].prices[ProviderOf[m]], balance[u])
    /\ orders' = [orders EXCEPT ![o] = [@ EXCEPT !.status = status, !.refunded = TRUE]]
    /\ pairs' = [pairs EXCEPT ![m][s] = ReleasedPair(pairs[m][s], status)]
    /\ EnqueueWebhook(o, status)

\* Everything refundOrder writes but the mailbox row, which its callers write
\* again.  A missing pair row fails it, and the transaction rolls back.  (Its
\* first test, an order already refunded, is never met: see OrderSettled.)
refundOrder(o, status) ==
    LET m == orders[o].mailbox
        s == orders[o].service
        u == orders[o].user IN
    /\ UserRowFree(u)
    /\ pairs[m][s].state # "absent"
    /\ PostEntry(u, "order_refund", o, orders[o].price, balance[u])
    /\ orders' = [orders EXCEPT ![o] = [@ EXCEPT !.status = status, !.refunded = TRUE]]
    /\ pairs' = [pairs EXCEPT ![m][s] = ReleasedPair(pairs[m][s], status)]
    /\ EnqueueWebhook(o, status)

\* Mutant: an order that has received its code can still be canceled.
CancelReceived(o) ==
    LET m == orders[o].mailbox IN
    /\ orders[o].status \in {"waiting_code", "code_received"}
    /\ MailboxRowFree(m)
    /\ refundOrder(o, "canceled")
    /\ mailboxes' = [mailboxes EXCEPT ![m] = FreedMailbox(mailboxes[m])]
    /\ UNCHANGED <<services, creating, sessions, lost>>

CancelOrder(o) ==
    LET m == orders[o].mailbox IN
    /\ Waiting(o)
    /\ MailboxRowFree(m)
    /\ refundOrder(o, "canceled")
    /\ mailboxes' = [mailboxes EXCEPT ![m] = FreedMailbox(mailboxes[m])]
    /\ UNCHANGED <<services, creating, sessions, lost>>

\* Mutant: ReapExpired compares expires_at with the clock the wrong way round.
ReapNotYetDue(o) ==
    LET m == orders[o].mailbox IN
    /\ Waiting(o)
    /\ ~orders[o].due
    /\ MailboxRowFree(m)
    /\ refundOrder(o, "expired_refunded")
    /\ mailboxes' = [mailboxes EXCEPT ![m] = FreedMailbox(mailboxes[m])]
    /\ UNCHANGED <<services, creating, sessions, lost>>

\* Mutant: the order is not read again under its lock.
ReapUnchecked(o) ==
    LET m == orders[o].mailbox IN
    /\ orders[o].status # "none"
    /\ orders[o].due
    /\ MailboxRowFree(m)
    /\ refundOrder(o, "expired_refunded")
    /\ mailboxes' = [mailboxes EXCEPT ![m] = FreedMailbox(mailboxes[m])]
    /\ UNCHANGED <<services, creating, sessions, lost>>

\* One order of ReapExpired's list: rechecked under its lock, then refunded.
ReapExpired(o) ==
    LET m == orders[o].mailbox IN
    /\ Waiting(o)
    /\ orders[o].due
    /\ MailboxRowFree(m)
    /\ refundOrder(o, "expired_refunded")
    /\ mailboxes' = [mailboxes EXCEPT ![m] = FreedMailbox(mailboxes[m])]
    /\ UNCHANGED <<services, creating, sessions, lost>>

\* One order of ReconcileInvalidMailboxOrders' list.  A blocked mailbox keeps
\* the state refundOrder has just written.
ReconcileInvalidMailboxOrders(o) ==
    LET m == orders[o].mailbox IN
    /\ Waiting(o)
    /\ mailboxes[m].state # "absent"
    /\ mailboxes[m].verification # "verified"
    /\ MailboxRowFree(m)
    /\ refundOrder(o, "expired_refunded")
    /\ mailboxes' = [mailboxes EXCEPT ![m] = [@ EXCEPT
            !.active = None,
            !.state = IF mailboxes[m].state = "blocked" THEN "available" ELSE "auth_error"]]
    /\ UNCHANGED <<services, creating, sessions, lost>>

-----------------------------------------------------------------------------
(* Results of mailbox verification and of the history scan *)

VerifiedMailbox(row) ==
    [row EXCEPT !.verification = "verified",
                !.state = IF row.state \in {"auth_error", "pending_verification"} /\ row.active = None
                          THEN "available" ELSE row.state]

\* Mutant: the failed mailbox keeps the id of the order that held it.
FailedKeepsOrder(row) ==
    [row EXCEPT !.verification = "failed", !.state = IF row.state = "blocked" THEN "blocked" ELSE "auth_error"]

FailedMailbox(row) ==
    [row EXCEPT !.verification = "failed", !.active = None,
                !.state = IF row.state = "blocked" THEN "blocked" ELSE "auth_error"]

MarkVerified(m) ==
    /\ mailboxes[m].state # "absent"
    /\ MailboxRowFree(m)
    /\ mailboxes' = [mailboxes EXCEPT ![m] = VerifiedMailbox(mailboxes[m])]
    /\ UNCHANGED <<balance, ledger, orders, pairs, services, outbox, creating, sessions, lost>>

\* A failed verification ends the order that holds the mailbox in the same
\* transaction.
MarkFailed(m) ==
    LET o == mailboxes[m].active IN
    /\ mailboxes[m].state # "absent"
    /\ MailboxRowFree(m)
    /\ mailboxes' = [mailboxes EXCEPT ![m] = FailedMailbox(mailboxes[m])]
    /\ IF o # None /\ Waiting(o)
       THEN refundOrder(o, "expired_refunded")
       ELSE UNCHANGED <<balance, ledger, orders, pairs, outbox>>
    /\ UNCHANGED <<services, creating, sessions, lost>>

\* History scan: UPDATE ... WHERE state = available.
MarkMailboxServiceConsumed(m, s) ==
    /\ pairs[m][s].state = "available"
    /\ pairs' = [pairs EXCEPT ![m][s].state = "consumed"]
    /\ UNCHANGED <<balance, ledger, orders, mailboxes, services, outbox, creating, sessions, lost>>

\* The administrator's mark: the pair row is read under its lock, and a
\* leased pair is refused.
MarkMailboxServiceRegistered(m, s) ==
    /\ pairs[m][s].state \notin {"absent", "leased", "consumed"}
    /\ pairs' = [pairs EXCEPT ![m][s].state = "consumed"]
    /\ UNCHANGED <<balance, ledger, orders, mailboxes, services, outbox, creating, sessions, lost>>

-----------------------------------------------------------------------------
(* Administrator *)

AdjustBalance(u, amount) ==
    /\ Len(ledger[u]) < MaxLedger
    /\ UserRowFree(u)
    /\ balance[u] + amount >= 0
    /\ PostEntry(u, "admin_adjustment", None, amount, balance[u])
    /\ UNCHANGED <<orders, mailboxes, pairs, services, outbox, creating, sessions, lost>>

\* Mutant: FirstOrCreate becomes an upsert.
ResetPair(pair) == FreshPair

EnsuredPair(pair) == IF pair.state = "absent" THEN FreshPair ELSE pair

SaveService(s, row) ==
    /\ services' = [services EXCEPT ![s] = row]
    /\ pairs' = [m \in Mailboxes |-> [pairs[m] EXCEPT ![s] =
            IF mailboxes[m].state = "absent" THEN pairs[m][s] ELSE EnsuredPair(pairs[m][s])]]
    /\ UNCHANGED <<balance, ledger, orders, mailboxes, outbox, creating, sessions, lost>>

\* Unlocked reads: the row SaveMailbox will write back, the active order
\* DeleteMailbox looks for, the orders DeleteService counts.
ReadMailbox(a, m) ==
    /\ sessions[a].op = "idle"
    /\ \E op \in {"saveMailbox", "deleteMailbox"} :
          /\ op = "deleteMailbox" => mailboxes[m].state # "absent" /\ mailboxes[m].active = None
          /\ sessions' = [sessions EXCEPT ![a] = [NoSession EXCEPT !.op = op, !.mailbox = m,
                                                                  !.row = mailboxes[m]]]
    /\ UNCHANGED <<balance, ledger, orders, mailboxes, pairs, services, outbox, creating, lost>>

ReadService(a, s) ==
    /\ sessions[a].op = "idle"
    /\ services[s].state # "absent"
    /\ \A o \in OrderIds : orders[o].service # s
    /\ sessions' = [sessions EXCEPT ![a] = [NoSession EXCEPT !.op = "deleteService", !.service = s]]
    /\ UNCHANGED <<balance, ledger, orders, mailboxes, pairs, services, outbox, creating, lost>>

\* The row SaveMailbox builds from the row it read and the request; "unset" leaves
\* a column alone.
SavedMailbox(row, state, verification) ==
    LET status == IF verification = "unset" THEN row.verification ELSE verification
        chosen == IF state # "unset" /\ row.active = None THEN state ELSE row.state
    IN  IF row.state = "absent"
        THEN [state |-> IF state = "unset" THEN "available" ELSE state, active |-> None, verification |-> status]
        ELSE [row EXCEPT !.verification = status,
                         !.state = IF row.active = None /\ chosen = "auth_error" /\ verification = "verified"
                                   THEN "available" ELSE chosen]

\* tx.Save writes every column of the row read earlier, inserting it again if
\* it was deleted meanwhile; then the missing pair rows are created.
SaveMailbox(a, state, verification) ==
    LET m == sessions[a].mailbox
        row == sessions[a].row IN
    /\ sessions[a].op = "saveMailbox"
    /\ MailboxRowFree(m)
    /\ row.state = "absent" => mailboxes[m].state = "absent"
    /\ mailboxes' = [mailboxes EXCEPT ![m] = SavedMailbox(row, state, verification)]
    /\ pairs' = [pairs EXCEPT ![m] = [s \in Services |->
            IF services[s].state = "absent" THEN pairs[m][s] ELSE EnsuredPair(pairs[m][s])]]
    /\ sessions' = [sessions EXCEPT ![a] = NoSession]
    /\ Loses(m, mailboxes[m].active # row.active)
    /\ UNCHANGED <<balance, ledger, orders, services, outbox, creating>>

DeleteMailbox(a) ==
    LET m == sessions[a].mailbox IN
    /\ sessions[a].op = "deleteMailbox"
    /\ MailboxRowFree(m)
    /\ mailboxes' = [mailboxes EXCEPT ![m] = NoMailbox]
    /\ pairs' = [pairs EXCEPT ![m] = [s \in Services |-> NoPair]]
    /\ sessions' = [sessions EXCEPT ![a] = NoSession]
    /\ Loses(m, mailboxes[m].active # None)
    /\ UNCHANGED <<balance, ledger, orders, services, outbox, creating>>

DeleteService(a) ==
    LET s == sessions[a].service IN
    /\ sessions[a].op = "deleteService"
    /\ services[s].state # "absent"
    /\ services' = [services EXCEPT ![s].state = "absent"]
    /\ pairs' = [m \in Mailboxes |-> [pairs[m] EXCEPT ![s] = NoPair]]
    /\ sessions' = [sessions EXCEPT ![a] = NoSession]
    /\ lost' = lost \cup {orders[o].mailbox : o \in {p \in OrderIds : Waiting(p) /\ orders[p].service = s}}
    /\ UNCHANGED <<balance, ledger, orders, mailboxes, outbox, creating>>

\* The call fails (a unique index, a row already gone) or its process dies.
AbortSession(a) ==
    /\ sessions[a].op # "idle"
    /\ sessions' = [sessions EXCEPT ![a] = NoSession]
    /\ UNCHANGED <<balance, ledger, orders, mailboxes, pairs, services, outbox, creating, lost>>

\* One batch: the rows are selected FOR UPDATE SKIP LOCKED.
DeleteInvalidMailboxes(batch) ==
    /\ batch # {}
    /\ \A m \in batch : /\ mailboxes[m].state = "auth_error"
                        /\ mailboxes[m].verification = "failed"
                        /\ mailboxes[m].active = None
                        /\ MailboxRowFree(m)
    /\ mailboxes' = [m \in Mailboxes |-> IF m \in batch THEN NoMailbox ELSE mailboxes[m]]
    /\ pairs' = [m \in Mailboxes |-> IF m \in batch THEN [s \in Services |-> NoPair] ELSE pairs[m]]
    /\ UNCHANGED <<balance, ledger, orders, services, outbox, creating, sessions, lost>>

-----------------------------------------------------------------------------
\* What an administrator's request, an import or an OAuth callback may send to
\* SaveMailbox: nothing checks a state or a status, alone or together.  A state of
\* no meaning here (cooldown, or any other string) is treated as "leased" is, and
\* a status that is none of the three as "pending_verification" is.
SaveRequests == [state : (MailboxState \cup {"unset"}) \ {"absent"}, verification : Verification \cup {"unset"}]

ClientStep(c) ==
    \/ \E u \in Users, s \in Services, r \in Requests, ps \in SUBSET Providers : BeginCreate(c, u, s, r, ps)
    \/ SelectMailbox(c)
    \/ \E o \in OrderIds : CommitOrder(c, o)
    \/ AbortCreate(c)

OrderStep(o) ==
    \/ PassDeadline(o)
    \/ ReceiveCode(o)
    \/ CompleteOrder(o)
    \/ CancelOrder(o)
    \/ ReapExpired(o)
    \/ ReconcileInvalidMailboxOrders(o)

MailboxStep(m) ==
    \/ MarkVerified(m)
    \/ MarkFailed(m)
    \/ \E s \in Services : MarkMailboxServiceConsumed(m, s) \/ MarkMailboxServiceRegistered(m, s)

SessionStep(a) ==
    \/ \E m \in Mailboxes : ReadMailbox(a, m)
    \/ \E s \in Services : ReadService(a, s)
    \/ \E q \in SaveRequests : SaveMailbox(a, q.state, q.verification)
    \/ DeleteMailbox(a)
    \/ DeleteService(a)
    \/ AbortSession(a)

Next ==
    \/ \E c \in Clients : ClientStep(c)
    \/ \E o \in OrderIds : OrderStep(o)
    \/ \E m \in Mailboxes : MailboxStep(m)
    \/ \E a \in Admins : SessionStep(a)
    \/ \E u \in Users, amount \in AdjustAmounts : AdjustBalance(u, amount)
    \/ \E s \in Services, row \in [state : {"enabled", "disabled"}, prices : PriceTables] : SaveService(s, row)
    \/ \E batch \in SUBSET Mailboxes : DeleteInvalidMailboxes(batch)

Spec == Init /\ [][Next]_vars

\* A CreateOrder call that has begun ends: its transaction commits or rolls back.
EndCreate(c) == (\E o \in OrderIds : CommitOrder(c, o)) \/ AbortCreate(c)

\* Time passes; a request ends; the 30-second loop keeps calling ReapExpired,
\* whose wait for a row lock is served in turn by the database (hence SF: other
\* transactions take and release the same rows in between).
Fairness == /\ \A o \in OrderIds : WF_vars(PassDeadline(o)) /\ SF_vars(ReapExpired(o))
            /\ \A c \in Clients : WF_vars(EndCreate(c))

FairSpec == Spec /\ Fairness

-----------------------------------------------------------------------------
(* Properties *)

\* Every variable has the rows of its table; in particular no balance is ever
\* negative, although the price charged is that of the mailbox found later.
TypeOK ==
    /\ balance \in [Users -> Nat]
    /\ ledger \in [Users -> Seq(LedgerRow)]
    /\ orders \in [OrderIds -> Order]
    /\ mailboxes \in [Mailboxes -> Mailbox]
    /\ pairs \in [Mailboxes -> [Services -> Pair]]
    /\ services \in [Services -> Service]
    /\ outbox \in [OrderIds -> Seq(OrderStatus)]
    /\ creating \in [Clients -> Creating]
    /\ sessions \in [Admins -> Session]
    /\ lost \subseteq Mailboxes

\* The wallet movements of every order operation, interleaved with one another
\* and with AdjustBalance, are steps of the abstract wallet: no update of a
\* balance is lost, an order is charged once and refunded at most once, by the
\* amount it was charged.
W == INSTANCE Wallet WITH balance <- balance, ledger <- ledger
WalletSpec == W!Spec

\* What that means for the rows: in every ledger each row starts from the
\* balance the one before it left, so a user can add it up; no order has two
\* charges or two refunds, in whoever's ledger; a refund follows its charge.
LedgerSound == W!Sound

\* Every step takes at most one order one step along its life: it is created
\* waiting, it receives its code or is refunded, never both, whoever else is
\* about to cancel, expire, deliver or condemn it.
L == INSTANCE OrderLife WITH Orders <- OrderIds, status <- [o \in OrderIds |-> orders[o].status]
LifeSpec == L!Spec

Row(u, i, type, o) == ledger[u][i].type = type /\ ledger[u][i].ref = o

\* The ledger and the orders table agree on order o: one that was never
\* created has no row; a created one has its charge, of its own price, in its
\* own user's ledger; it has a refund row exactly when it was canceled or
\* expired.
Settled(o) ==
    /\ orders[o].refunded <=> orders[o].status \in {"canceled", "expired_refunded"}
    /\ orders[o].status = "none" => \A u \in Users : \A i \in DOMAIN ledger[u] : ledger[u][i].ref # o
    /\ orders[o].status # "none" =>
          \E i \in DOMAIN ledger[orders[o].user] :
              /\ Row(orders[o].user, i, "order_charge", o)
              /\ ledger[orders[o].user][i].amount = 0 - orders[o].price
    /\ orders[o].refunded <=> \E u \in Users : \E i \in DOMAIN ledger[u] : Row(u, i, "order_refund", o)

\* The money of every order is settled in every state: whatever the callers of
\* refundOrder do concurrently, an order whose code was delivered stays paid,
\* a refund is of an order that was charged, and none is forgotten.
OrderSettled == \A o \in OrderIds : Settled(o)

\* Of a mailbox no stale write has touched: an order that waits on it holds it
\* and its pair; it is held only by an order that waits on it, and is leased
\* then; and a leased pair has such an order.  So it never serves two orders at
\* once and a lease ends with its order, whatever state and verification status
\* an administrator writes to it meanwhile.
LeaseExclusive ==
    \A m \in Mailboxes \ lost :
        /\ \A o \in OrderIds : Waiting(o) /\ orders[o].mailbox = m =>
              mailboxes[m].active = o /\ pairs[m][orders[o].service].state = "leased"
        /\ mailboxes[m].active # None =>
              /\ mailboxes[m].state = "leased"
              /\ Waiting(mailboxes[m].active)
              /\ orders[mailboxes[m].active].mailbox = m
        /\ \A s \in Services : pairs[m][s].state = "leased" =>
              \E o \in OrderIds : Waiting(o) /\ orders[o].mailbox = m /\ orders[o].service = s

\* Of a mailbox no stale write has touched: a pair still offered to orders has
\* not used up its timeouts.
TimeoutBudget ==
    \A m \in Mailboxes \ lost, s \in Services :
        pairs[m][s].state \in {"available", "leased"} => pairs[m][s].timeouts < MailboxServiceTimeoutLimit

\* Of a mailbox no stale write has touched: a consumed pair is never offered
\* again; only deleting its mailbox or service removes it.
ConsumedStays ==
    [][\A m \in Mailboxes, s \in Services :
          pairs[m][s].state = "consumed" => m \in lost' \/ pairs'[m][s].state \in {"consumed", "absent"}]_vars

\* The step ends a save of mailbox m.
SavedNow(m) == \E a \in Admins : /\ sessions[a].op = "saveMailbox" /\ sessions[a].mailbox = m
                                 /\ sessions'[a].op = "idle"

\* A leased mailbox that no order holds, which nothing gives back.
Stranded(row) == row.state = "leased" /\ row.active = None

\* Only a save strands a mailbox, by writing "leased" itself: an order that
\* ends, a verification result or a reconciliation that takes the order away
\* never leaves the lease behind.
LeaseGivenBack ==
    [][\A m \in Mailboxes : Stranded(mailboxes'[m]) => Stranded(mailboxes[m]) \/ SavedNow(m)]_vars

\* A mailbox whose verification has failed serves an order.
FailedServing(row) == row.verification = "failed" /\ row.active # None

\* No verification result and no allocation, however they race, brings about what
\* the comment at postgres_resources.go:342 rules out.  Only a save does, which
\* writes "failed" on a leased mailbox, or writes an old row back, and leaves the
\* order on it; that order is no other while the mailbox stays so.
FailedServesNobody ==
    [][\A m \in Mailboxes : FailedServing(mailboxes'[m]) =>
          \/ SavedNow(m)
          \/ FailedServing(mailboxes[m]) /\ mailboxes'[m].active = mailboxes[m].active]_vars

\* Of a mailbox no stale write has touched: a blocked one is unblocked by a save
\* only.  Verification results, orders that end and allocations racing the
\* block leave it blocked; so the branch of ReconcileInvalidMailboxOrders that
\* makes a blocked mailbox available is reached after stale writes alone.
BlockedStays ==
    [][\A m \in Mailboxes : mailboxes[m].state = "blocked" =>
          \/ m \in lost'
          \/ mailboxes'[m].state \in {"blocked", "absent"}
          \/ SavedNow(m)]_vars

\* An order does not wait for ever: it receives its code, is canceled, or is
\* refunded after its deadline, although the row locks refundOrder needs are
\* taken by others in between; unless a stale write has touched its mailbox.
RefundedUnlessLost == \A o \in OrderIds : Waiting(o) ~> (~Waiting(o) \/ orders[o].mailbox \in lost)

\* The webhook events an order has enqueued are the path it took through its
\* states: none missing, none twice, none of a state it never had.
EventPath(status) ==
    CASE status = "none"             -> <<>>
      [] status = "waiting_code"     -> <<"waiting_code">>
      [] status = "code_received"    -> <<"waiting_code", "code_received">>
      [] status = "completed"        -> <<"waiting_code", "code_received", "completed">>
      [] status = "canceled"         -> <<"waiting_code", "canceled">>
      [] status = "expired_refunded" -> <<"waiting_code", "expired_refunded">>

OutboxFollowsOrder == \A o \in OrderIds : outbox[o] = EventPath(orders[o].status)

\* A client that repeats a request id, or sends it twice at the same time, is
\* charged for one order.  It says nothing of orders sent without an id, of which
\* the index refuses a second one although BeginCreate lets it through.
RequestChargedOnce ==
    \A o1, o2 \in OrderIds :
        /\ orders[o1].status # "none" /\ orders[o2].status # "none" /\ orders[o1].request # "unset"
        /\ orders[o1].user = orders[o2].user /\ orders[o1].request = orders[o2].request
        => o1 = o2

-----------------------------------------------------------------------------
(* What the product design says, with no exception for stale writes *)

\* docs/final-product-design.md:65: an order without a code is refunded after
\* 30 minutes, so an order never waits for ever.  True while no administrator
\* deletes a mailbox or a service; with such a call racing an allocation the
\* pair row that refundOrder needs may be gone.
OrderRefundedInTheEnd == \A o \in OrderIds : Waiting(o) ~> ~Waiting(o)
=============================================================================
