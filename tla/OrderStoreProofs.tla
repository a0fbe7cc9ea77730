-------------------------- MODULE OrderStoreProofs --------------------------
(***************************************************************************)
(* Proofs about OrderStore, for every value of its constants:              *)
(*   - its types (TypeOK);                                                 *)
(*   - its money: the orders table and the ledger agree (OrderSettled),    *)
(*     it implements the abstract wallet (WalletSpec), and every ledger    *)
(*     adds up (LedgerSound);                                              *)
(*   - the life of an order: it implements OrderLife (LifeSpec), the       *)
(*     webhook events of an order are the path it took                     *)
(*     (OutboxFollowsOrder), a request id is charged for once              *)
(*     (RequestChargedOnce), and what an order holds: its pair             *)
(*     (TimeoutBudget, ConsumedStays) and its mailbox (LeaseExclusive);    *)
(*   - the rows of mailboxes: leases given back (LeaseGivenBack), failed   *)
(*     mailboxes (FailedServesNobody) and blocked ones (BlockedStays).     *)
(***************************************************************************)
EXTENDS OrderStore, TLAPS

-----------------------------------------------------------------------------
(* Types.  TypeOK is not inductive: the ids of an order, of a CreateOrder  *)
(* call or of an administrator session may be None only while it is        *)
(* unused, and a call that has locked its rows has checked that the        *)
(* balance it read covers the price of the mailbox it found.               *)

OrdersOK ==
    \A o \in OrderIds : orders[o].status # "none" =>
        /\ orders[o].user \in Users
        /\ orders[o].service \in Services
        /\ orders[o].mailbox \in Mailboxes

CreatingOK ==
    \A c \in Clients :
        /\ creating[c].phase # "idle" =>
              /\ creating[c].user \in Users
              /\ creating[c].service \in Services
              /\ creating[c].request \in Requests
              /\ creating[c].prices \in PriceTables
        /\ creating[c].phase = "selected" =>
              /\ creating[c].mailbox \in Mailboxes
              /\ creating[c].prices[ProviderOf[creating[c].mailbox]] \in 0 .. creating[c].balance

SessionsOK ==
    \A a \in Admins :
        /\ sessions[a].op \in {"saveMailbox", "deleteMailbox"} => sessions[a].mailbox \in Mailboxes
        /\ sessions[a].op = "deleteService" => sessions[a].service \in Services

TypeInv == TypeOK /\ OrdersOK /\ CreatingOK /\ SessionsOK

USE DEF OrderStatus, MailboxState, PairState, Verification

\* A posting that does not overdraw keeps balances and ledgers well typed.
LEMMA PostEntryType ==
    ASSUME TypeOK, NEW u \in Users, NEW type \in {"admin_adjustment", "order_charge", "order_refund"},
           NEW o \in OrderIds \cup {None}, NEW amount \in Int, NEW read \in Int, read + amount >= 0,
           PostEntry(u, type, o, amount, read)
    PROVE  /\ balance' \in [Users -> Nat]
           /\ ledger' \in [Users -> Seq(LedgerRow)]
<1>1. read + amount \in Nat
  OBVIOUS
<1>2. [type |-> type, ref |-> o, amount |-> amount, after |-> read + amount] \in LedgerRow
  BY <1>1 DEF LedgerRow
<1>3. Append(ledger[u], [type |-> type, ref |-> o, amount |-> amount, after |-> read + amount]) \in Seq(LedgerRow)
  BY <1>2 DEF TypeOK
<1>4. QED
  BY <1>1, <1>3 DEF TypeOK, PostEntry

\* What refundOrder writes is well typed.
LEMMA RefundType ==
    ASSUME TypeInv, NEW o \in OrderIds, Waiting(o), NEW status \in {"canceled", "expired_refunded"},
           refundOrder(o, status)
    PROVE  /\ balance' \in [Users -> Nat]
           /\ ledger' \in [Users -> Seq(LedgerRow)]
           /\ orders' \in [OrderIds -> Order]
           /\ pairs' \in [Mailboxes -> [Services -> Pair]]
           /\ outbox' \in [OrderIds -> Seq(OrderStatus)]
           /\ OrdersOK'
<1> DEFINE m == orders[o].mailbox
           s == orders[o].service
           u == orders[o].user
<1>1. m \in Mailboxes /\ s \in Services /\ u \in Users
  BY DEF TypeInv, OrdersOK, Waiting
<1>2. orders[o] \in Order /\ orders[o].price \in Nat /\ balance[u] \in Nat
  BY <1>1 DEF TypeInv, TypeOK, Order
<1>3. balance' \in [Users -> Nat] /\ ledger' \in [Users -> Seq(LedgerRow)]
  <2>1. PostEntry(u, "order_refund", o, orders[o].price, balance[u])
    BY DEF refundOrder
  <2>2. balance[u] + orders[o].price >= 0
    BY <1>2
  <2>3. QED
    BY <1>1, <1>2, <2>1, <2>2, PostEntryType DEF TypeInv
<1>4. orders' \in [OrderIds -> Order] /\ OrdersOK'
  BY <1>1, <1>2 DEF refundOrder, TypeInv, TypeOK, OrdersOK, Order, Waiting
<1>5. pairs' \in [Mailboxes -> [Services -> Pair]]
  <2>1. pairs[m][s] \in Pair
    BY <1>1 DEF TypeInv, TypeOK
  <2>2. ReleasedPair(pairs[m][s], status) \in Pair
    BY <2>1 DEF ReleasedPair, nextTimeoutState, Pair
  <2>3. QED
    BY <1>1, <2>2 DEF refundOrder, TypeInv, TypeOK
<1>6. outbox' \in [OrderIds -> Seq(OrderStatus)]
  BY DEF refundOrder, EnqueueWebhook, TypeInv, TypeOK
<1>7. QED
  BY <1>3, <1>4, <1>5, <1>6

\* Writing the state of one pair keeps the pairs well typed.
LEMMA PairType ==
    ASSUME TypeOK, NEW m \in Mailboxes, NEW s \in Services, NEW state \in PairState
    PROVE  [pairs EXCEPT ![m][s].state = state] \in [Mailboxes -> [Services -> Pair]]
<1>0. pairs[m][s] \in Pair
  BY DEF TypeOK
<1>1. [pairs[m][s] EXCEPT !.state = state] \in Pair
  BY <1>0 DEF Pair
<1>2. [pairs EXCEPT ![m][s].state = state]
        = [pairs EXCEPT ![m] = [pairs[m] EXCEPT ![s] = [pairs[m][s] EXCEPT !.state = state]]]
  OBVIOUS
<1>3. QED
  BY <1>1, <1>2 DEF TypeOK

\* So does writing one mailbox row.
LEMMA MailboxRowType ==
    ASSUME TypeOK, NEW m \in Mailboxes, NEW row \in Mailbox, mailboxes' = [mailboxes EXCEPT ![m] = row]
    PROVE  mailboxes' \in [Mailboxes -> Mailbox]
BY DEF TypeOK

\* A freed mailbox row is a mailbox row.
LEMMA FreedType ==
    ASSUME TypeOK, NEW m \in Mailboxes
    PROVE  FreedMailbox(mailboxes[m]) \in Mailbox
BY DEF TypeOK, FreedMailbox, Mailbox

\* The initial state is well typed.
LEMMA InitType == Init => TypeInv
<1> SUFFICES ASSUME Init PROVE TypeInv
  OBVIOUS
<1>1. ledger \in [Users -> Seq(LedgerRow)]
  <2>1. [type |-> "admin_adjustment", ref |-> None, amount |-> InitialBalance, after |-> InitialBalance] \in LedgerRow
    BY ConstantsAssumption DEF LedgerRow
  <2>2. QED
    BY <2>1 DEF Init
<1>2. creating \in [Clients -> Creating] /\ CreatingOK
  BY DEF Init, Creating, NotCreating, CreatingOK
<1>3. sessions \in [Admins -> Session] /\ SessionsOK
  BY DEF Init, Session, NoSession, SessionsOK, Mailbox, NoMailbox
<1>4. orders \in [OrderIds -> Order] /\ OrdersOK
  BY DEF Init, Order, NoOrder, OrdersOK
<1>5. services \in [Services -> Service]
  BY DEF Init, Service
<1>6. mailboxes \in [Mailboxes -> Mailbox]
  BY DEF Init, Mailbox
<1>7. pairs \in [Mailboxes -> [Services -> Pair]]
  <2>1. FreshPair \in Pair
    BY DEF FreshPair, Pair
  <2>2. QED
    BY <2>1 DEF Init
<1>8. balance \in [Users -> Nat] /\ lost \subseteq Mailboxes
  BY ConstantsAssumption DEF Init
<1>9. outbox \in [OrderIds -> Seq(OrderStatus)]
  BY DEF Init
<1>10. QED
  BY <1>1, <1>2, <1>3, <1>4, <1>5, <1>6, <1>7, <1>8, <1>9 DEF TypeInv, TypeOK

\* CreateOrder's steps keep the types.
LEMMA ClientType == ASSUME TypeInv, NEW c \in Clients, ClientStep(c) PROVE TypeInv'
<1> USE DEF TypeInv
<1>1. ASSUME NEW u \in Users, NEW s \in Services, NEW r \in Requests, NEW ps \in SUBSET Providers,
             BeginCreate(c, u, s, r, ps)
      PROVE  TypeInv'
  <2>1. services[s].prices \in PriceTables
    BY DEF TypeOK, Service
  <2>2. creating' \in [Clients -> Creating] /\ CreatingOK'
    BY <1>1, <2>1 DEF BeginCreate, TypeOK, Creating, NotCreating, CreatingOK
  <2>3. QED
    BY <1>1, <2>2 DEF BeginCreate, TypeOK, OrdersOK, SessionsOK
<1>2. CASE SelectMailbox(c)
  <2>1. PICK m \in Mailboxes :
            /\ Allocatable(m, creating[c].service, creating[c].providers)
            /\ creating' = [creating EXCEPT ![c] = [@ EXCEPT !.phase = "selected", !.mailbox = m,
                                                             !.balance = balance[creating[c].user]]]
    BY <1>2 DEF SelectMailbox
  <2>2. /\ creating[c].user \in Users
        /\ creating[c].prices \in PriceTables
        /\ ProviderOf[m] \in creating[c].providers
    BY <1>2, <2>1 DEF SelectMailbox, CreatingOK, Allocatable
  <2>3. /\ balance[creating[c].user] \in Nat
        /\ creating[c].prices[ProviderOf[m]] \in Nat
    BY <2>2, ConstantsAssumption DEF TypeOK
  <2>4. creating[c].prices[ProviderOf[m]] <= balance[creating[c].user]
    BY <1>2, <2>2 DEF SelectMailbox, Covers
  <2>5. creating' \in [Clients -> Creating]
    <3> DEFINE row == [creating[c] EXCEPT !.phase = "selected", !.mailbox = m, !.balance = balance[creating[c].user]]
    <3>1. row \in Creating
      BY <2>3 DEF TypeOK, Creating
    <3>2. creating' = [creating EXCEPT ![c] = row]
      BY <2>1
    <3> HIDE DEF row
    <3>3. QED
      BY <3>1, <3>2 DEF TypeOK
  <2>6. CreatingOK'
    <3>1. /\ creating'[c] = [creating[c] EXCEPT !.phase = "selected", !.mailbox = m, !.balance = balance[creating[c].user]]
          /\ \A d \in Clients : d # c => creating'[d] = creating[d]
      BY <2>1 DEF TypeOK
    <3>2. creating[c] \in Creating /\ creating[c].phase # "idle"
      BY <1>2 DEF SelectMailbox, TypeOK
    <3>3. \A d \in Clients : d # c => creating'[d] = creating[d]
      BY <3>1
    <3>4. /\ creating'[c].user = creating[c].user /\ creating'[c].service = creating[c].service
          /\ creating'[c].request = creating[c].request /\ creating'[c].prices = creating[c].prices
          /\ creating'[c].mailbox = m /\ creating'[c].balance = balance[creating[c].user]
      BY <3>1, <3>2 DEF Creating
    <3>5. QED
      BY <2>1, <2>2, <2>3, <2>4, <3>2, <3>3, <3>4 DEF CreatingOK
  <2>7. QED
    BY <1>2, <2>5, <2>6 DEF SelectMailbox, TypeOK, OrdersOK, SessionsOK
<1>3. ASSUME NEW o \in OrderIds, CommitOrder(c, o)
      PROVE  TypeInv'
  <2> DEFINE m == creating[c].mailbox
             s == creating[c].service
             u == creating[c].user
             price == creating[c].prices[ProviderOf[m]]
  <2>1. /\ m \in Mailboxes /\ s \in Services /\ u \in Users /\ creating[c].request \in Requests
        /\ price \in 0 .. creating[c].balance /\ creating[c].balance \in Nat
    BY <1>3 DEF CommitOrder, CreatingOK, TypeOK, Creating
  <2>2. balance' \in [Users -> Nat] /\ ledger' \in [Users -> Seq(LedgerRow)]
    <3>1. PostEntry(u, "order_charge", o, 0 - price, creating[c].balance)
      BY <1>3 DEF CommitOrder
    <3>2. 0 - price \in Int /\ creating[c].balance + (0 - price) >= 0
      BY <2>1
    <3>3. QED
      BY <2>1, <3>1, <3>2, PostEntryType
  <2>3. orders' \in [OrderIds -> Order] /\ OrdersOK'
    <3> DEFINE row == [NoOrder EXCEPT !.status = "waiting_code", !.user = u, !.service = s, !.mailbox = m,
                                      !.request = creating[c].request, !.price = price]
    <3>0. price \in Nat
      BY <2>1
    <3>1. row \in Order /\ row.user \in Users /\ row.service \in Services /\ row.mailbox \in Mailboxes
      BY <2>1, <3>0 DEF Order, NoOrder
    <3>2. orders' = [orders EXCEPT ![o] = row]
      BY <1>3 DEF CommitOrder
    <3> HIDE DEF row
    <3>3. QED
      BY <3>1, <3>2 DEF TypeOK, OrdersOK
  <2>4. mailboxes' \in [Mailboxes -> Mailbox]
    <3>0. mailboxes[m] \in Mailbox
      BY <2>1 DEF TypeOK
    <3>1. [mailboxes[m] EXCEPT !.state = "leased", !.active = o] \in Mailbox
      BY <3>0 DEF Mailbox
    <3>2. mailboxes' = [mailboxes EXCEPT ![m] = [mailboxes[m] EXCEPT !.state = "leased", !.active = o]]
      BY <1>3 DEF CommitOrder
    <3>3. QED
      BY <2>1, <3>1, <3>2, MailboxRowType
  <2>5. pairs' \in [Mailboxes -> [Services -> Pair]]
    <3>1. pairs' = IF pairs[m][s].state = "absent" THEN pairs ELSE [pairs EXCEPT ![m][s].state = "leased"]
      BY <1>3 DEF CommitOrder
    <3>2. QED
      BY <2>1, <3>1, PairType DEF TypeOK
  <2>6. outbox' \in [OrderIds -> Seq(OrderStatus)]
    BY <1>3 DEF CommitOrder, EnqueueWebhook, TypeOK
  <2>7. creating' \in [Clients -> Creating] /\ CreatingOK'
    BY <1>3 DEF CommitOrder, TypeOK, Creating, NotCreating, CreatingOK
  <2>8. lost' \subseteq Mailboxes
    BY <1>3, <2>1 DEF CommitOrder, Loses, TypeOK
  <2>9. UNCHANGED <<services, sessions>>
    BY <1>3 DEF CommitOrder
  <2>10. QED
    BY <2>2, <2>3, <2>4, <2>5, <2>6, <2>7, <2>8, <2>9 DEF TypeOK, SessionsOK
<1>4. CASE AbortCreate(c)
  <2>1. creating' \in [Clients -> Creating] /\ CreatingOK'
    BY <1>4 DEF AbortCreate, TypeOK, Creating, NotCreating, CreatingOK
  <2>2. QED
    BY <1>4, <2>1 DEF AbortCreate, TypeOK, OrdersOK, SessionsOK
<1>5. QED
  BY <1>1, <1>2, <1>3, <1>4 DEF ClientStep

\* The steps of an order after its creation keep the types.
LEMMA OrderType == ASSUME TypeInv, NEW o \in OrderIds, OrderStep(o) PROVE TypeInv'
<1> USE DEF TypeInv
<1> DEFINE m == orders[o].mailbox
           s == orders[o].service
<1>0. orders[o].status # "none" => m \in Mailboxes /\ s \in Services
  BY DEF OrdersOK
<1>1. CASE PassDeadline(o)
  <2>1. orders' \in [OrderIds -> Order] /\ OrdersOK'
    <3>1. [orders[o] EXCEPT !.due = TRUE] \in Order
      BY DEF TypeOK, Order
    <3>2. orders' = [orders EXCEPT ![o] = [orders[o] EXCEPT !.due = TRUE]]
      BY <1>1 DEF PassDeadline
    <3>3. QED
      BY <3>1, <3>2 DEF TypeOK, OrdersOK, Order
  <2>2. QED
    BY <1>1, <2>1 DEF PassDeadline, TypeOK, CreatingOK, SessionsOK
<1>2. CASE ReceiveCode(o)
  <2>1. m \in Mailboxes /\ s \in Services
    BY <1>0, <1>2 DEF ReceiveCode, Waiting
  <2>2. orders' \in [OrderIds -> Order] /\ OrdersOK'
    <3>1. [orders[o] EXCEPT !.status = "code_received"] \in Order
      BY DEF TypeOK, Order
    <3>2. orders' = [orders EXCEPT ![o] = [orders[o] EXCEPT !.status = "code_received"]] /\ Waiting(o)
      BY <1>2 DEF ReceiveCode
    <3>3. QED
      BY <3>1, <3>2 DEF TypeOK, OrdersOK, Order, Waiting
  <2>3. mailboxes' \in [Mailboxes -> Mailbox]
    BY <1>2, <2>1, FreedType, MailboxRowType DEF ReceiveCode
  <2>4. pairs' \in [Mailboxes -> [Services -> Pair]]
    <3>1. pairs' = IF pairs[m][s].state = "absent" THEN pairs ELSE [pairs EXCEPT ![m][s].state = "consumed"]
      BY <1>2 DEF ReceiveCode
    <3>2. QED
      BY <2>1, <3>1, PairType DEF TypeOK
  <2>5. outbox' \in [OrderIds -> Seq(OrderStatus)]
    BY <1>2 DEF ReceiveCode, EnqueueWebhook, TypeOK
  <2>6. QED
    BY <1>2, <2>2, <2>3, <2>4, <2>5 DEF ReceiveCode, TypeOK, CreatingOK, SessionsOK
<1>3. CASE CompleteOrder(o)
  <2>1. orders' \in [OrderIds -> Order] /\ OrdersOK'
    <3>1. [orders[o] EXCEPT !.status = "completed"] \in Order
      BY DEF TypeOK, Order
    <3>2. /\ orders' = [orders EXCEPT ![o] = [orders[o] EXCEPT !.status = "completed"]]
          /\ orders[o].status # "none"
      BY <1>3 DEF CompleteOrder
    <3>3. QED
      BY <3>1, <3>2 DEF TypeOK, OrdersOK, Order
  <2>2. outbox' \in [OrderIds -> Seq(OrderStatus)]
    BY <1>3 DEF CompleteOrder, EnqueueWebhook, TypeOK
  <2>3. QED
    BY <1>3, <2>1, <2>2 DEF CompleteOrder, TypeOK, CreatingOK, SessionsOK
<1>4. CASE CancelOrder(o)
  <2>1. mailboxes' \in [Mailboxes -> Mailbox]
    BY <1>0, <1>4, FreedType, MailboxRowType DEF CancelOrder, Waiting
  <2>2. refundOrder(o, "canceled") /\ Waiting(o) /\ UNCHANGED <<services, creating, sessions, lost>>
    BY <1>4 DEF CancelOrder
  <2>3. QED
    BY <2>1, <2>2, RefundType DEF TypeOK, CreatingOK, SessionsOK
<1>5. CASE ReapExpired(o)
  <2>1. mailboxes' \in [Mailboxes -> Mailbox]
    BY <1>0, <1>5, FreedType, MailboxRowType DEF ReapExpired, Waiting
  <2>2. refundOrder(o, "expired_refunded") /\ Waiting(o) /\ UNCHANGED <<services, creating, sessions, lost>>
    BY <1>5 DEF ReapExpired
  <2>3. QED
    BY <2>1, <2>2, RefundType DEF TypeOK, CreatingOK, SessionsOK
<1>6. CASE ReconcileInvalidMailboxOrders(o)
  <2>1. mailboxes' \in [Mailboxes -> Mailbox]
    <3> DEFINE state == IF mailboxes[m].state = "blocked" THEN "available" ELSE "auth_error"
    <3>0. m \in Mailboxes
      BY <1>0, <1>6 DEF ReconcileInvalidMailboxOrders, Waiting
    <3>1. [mailboxes[m] EXCEPT !.active = None, !.state = state] \in Mailbox
      BY <3>0 DEF TypeOK, Mailbox
    <3>2. mailboxes' = [mailboxes EXCEPT ![m] = [mailboxes[m] EXCEPT !.active = None, !.state = state]]
      BY <1>6 DEF ReconcileInvalidMailboxOrders
    <3>3. QED
      BY <3>0, <3>1, <3>2, MailboxRowType
  <2>2. refundOrder(o, "expired_refunded") /\ Waiting(o) /\ UNCHANGED <<services, creating, sessions, lost>>
    BY <1>6 DEF ReconcileInvalidMailboxOrders
  <2>3. QED
    BY <2>1, <2>2, RefundType DEF TypeOK, CreatingOK, SessionsOK
<1>7. QED
  BY <1>1, <1>2, <1>3, <1>4, <1>5, <1>6 DEF OrderStep

\* Verification results and registration marks keep the types.
LEMMA MailboxType == ASSUME TypeInv, NEW m \in Mailboxes, MailboxStep(m) PROVE TypeInv'
<1> USE DEF TypeInv
<1>1. CASE MarkVerified(m)
  <2>1. mailboxes' \in [Mailboxes -> Mailbox]
    <3>1. VerifiedMailbox(mailboxes[m]) \in Mailbox
      BY DEF VerifiedMailbox, TypeOK, Mailbox
    <3>2. QED
      BY <1>1, <3>1, MailboxRowType DEF MarkVerified
  <2>2. QED
    BY <1>1, <2>1 DEF MarkVerified, TypeOK, OrdersOK, CreatingOK, SessionsOK
<1>2. CASE MarkFailed(m)
  <2> DEFINE o == mailboxes[m].active
  <2>1. mailboxes' \in [Mailboxes -> Mailbox] /\ UNCHANGED <<services, creating, sessions, lost>>
    BY <1>2 DEF MarkFailed, FailedMailbox, TypeOK, Mailbox
  <2>2. CASE o # None /\ Waiting(o)
    <3>1. o \in OrderIds /\ refundOrder(o, "expired_refunded")
      BY <1>2, <2>2 DEF MarkFailed, TypeOK, Mailbox
    <3>2. QED
      BY <2>1, <2>2, <3>1, RefundType DEF TypeOK, CreatingOK, SessionsOK
  <2>3. CASE ~(o # None /\ Waiting(o))
    BY <1>2, <2>1, <2>3 DEF MarkFailed, TypeOK, OrdersOK, CreatingOK, SessionsOK
  <2>4. QED
    BY <2>2, <2>3
<1>3. ASSUME NEW s \in Services, MarkMailboxServiceConsumed(m, s) \/ MarkMailboxServiceRegistered(m, s)
      PROVE  TypeInv'
  <2>1. pairs' \in [Mailboxes -> [Services -> Pair]]
    <3>1. pairs' = [pairs EXCEPT ![m][s].state = "consumed"]
      BY <1>3 DEF MarkMailboxServiceConsumed, MarkMailboxServiceRegistered
    <3>2. QED
      BY <3>1, PairType
  <2>2. QED
    BY <1>3, <2>1 DEF MarkMailboxServiceConsumed, MarkMailboxServiceRegistered, TypeOK,
                      OrdersOK, CreatingOK, SessionsOK
<1>4. QED
  BY <1>1, <1>2, <1>3 DEF MailboxStep

\* The administrator's calls keep the types.
LEMMA SessionType == ASSUME TypeInv, NEW a \in Admins, SessionStep(a) PROVE TypeInv'
<1> USE DEF TypeInv
<1>0. NoPair \in Pair /\ FreshPair \in Pair /\ NoMailbox \in Mailbox
  BY DEF NoPair, FreshPair, Pair, NoMailbox, Mailbox
<1>1. ASSUME sessions' = [sessions EXCEPT ![a] = NoSession]
      PROVE  sessions' \in [Admins -> Session] /\ SessionsOK'
  <2>1. NoSession \in Session /\ NoSession.op = "idle"
    BY <1>0 DEF NoSession, Session
  <2>2. QED
    BY <1>1, <2>1 DEF TypeOK, SessionsOK
<1>2. ASSUME NEW m \in Mailboxes, ReadMailbox(a, m)
      PROVE  TypeInv'
  <2>1. PICK op \in {"saveMailbox", "deleteMailbox"} :
            sessions' = [sessions EXCEPT ![a] = [NoSession EXCEPT !.op = op, !.mailbox = m, !.row = mailboxes[m]]]
    BY <1>2 DEF ReadMailbox
  <2> DEFINE entry == [NoSession EXCEPT !.op = op, !.mailbox = m, !.row = mailboxes[m]]
  <2>2. entry \in Session /\ entry.mailbox = m /\ entry.op = op
    BY DEF NoSession, Session, TypeOK
  <2> HIDE DEF entry
  <2>3. sessions' \in [Admins -> Session] /\ SessionsOK'
    BY <2>1, <2>2 DEF TypeOK, SessionsOK, entry
  <2>4. QED
    BY <1>2, <2>3 DEF ReadMailbox, TypeOK, OrdersOK, CreatingOK
<1>3. ASSUME NEW s \in Services, ReadService(a, s)
      PROVE  TypeInv'
  <2> DEFINE entry == [NoSession EXCEPT !.op = "deleteService", !.service = s]
  <2>1. entry \in Session /\ entry.service = s /\ entry.op = "deleteService"
    BY <1>0 DEF NoSession, Session
  <2>2. sessions' = [sessions EXCEPT ![a] = entry]
    BY <1>3 DEF ReadService
  <2> HIDE DEF entry
  <2>3. sessions' \in [Admins -> Session] /\ SessionsOK'
    BY <2>1, <2>2 DEF TypeOK, SessionsOK
  <2>4. QED
    BY <1>3, <2>3 DEF ReadService, TypeOK, OrdersOK, CreatingOK
<1>4. ASSUME NEW q \in SaveRequests, SaveMailbox(a, q.state, q.verification)
      PROVE  TypeInv'
  <2> DEFINE m == sessions[a].mailbox
             row == sessions[a].row
  <2>1. m \in Mailboxes /\ row \in Mailbox
    BY <1>4 DEF SaveMailbox, SessionsOK, TypeOK, Session
  <2>2. q.state \in MailboxState \cup {"unset"} /\ q.verification \in Verification \cup {"unset"}
    BY DEF SaveRequests
  <2>3. SavedMailbox(row, q.state, q.verification) \in Mailbox
    BY <2>1, <2>2 DEF SavedMailbox, Mailbox
  <2>4. mailboxes' \in [Mailboxes -> Mailbox]
    BY <1>4, <2>1, <2>3, MailboxRowType DEF SaveMailbox
  <2>5. pairs' \in [Mailboxes -> [Services -> Pair]]
    BY <1>0, <1>4, <2>1 DEF SaveMailbox, EnsuredPair, TypeOK
  <2>6. sessions' \in [Admins -> Session] /\ SessionsOK'
    BY <1>1, <1>4 DEF SaveMailbox
  <2>7. lost' \subseteq Mailboxes /\ UNCHANGED <<balance, ledger, orders, services, outbox, creating>>
    BY <1>4, <2>1 DEF SaveMailbox, Loses, TypeOK
  <2>8. QED
    BY <2>4, <2>5, <2>6, <2>7 DEF TypeOK, OrdersOK, CreatingOK
<1>5. CASE DeleteMailbox(a)
  <2>1. sessions[a].mailbox \in Mailboxes
    BY <1>5 DEF DeleteMailbox, SessionsOK
  <2>2. mailboxes' \in [Mailboxes -> Mailbox] /\ pairs' \in [Mailboxes -> [Services -> Pair]]
    BY <1>0, <1>5, <2>1 DEF DeleteMailbox, TypeOK
  <2>3. sessions' \in [Admins -> Session] /\ SessionsOK'
    BY <1>1, <1>5 DEF DeleteMailbox
  <2>4. lost' \subseteq Mailboxes /\ UNCHANGED <<balance, ledger, orders, services, outbox, creating>>
    BY <1>5, <2>1 DEF DeleteMailbox, Loses, TypeOK
  <2>5. QED
    BY <2>2, <2>3, <2>4 DEF TypeOK, OrdersOK, CreatingOK
<1>6. CASE DeleteService(a)
  <2> DEFINE s == sessions[a].service
  <2>1. s \in Services
    BY <1>6 DEF DeleteService, SessionsOK
  <2>2. services' \in [Services -> Service]
    <3>1. services[s] \in Service
      BY <2>1 DEF TypeOK
    <3>2. [services[s] EXCEPT !.state = "absent"] \in Service
      BY <3>1 DEF Service
    <3>3. services' = [services EXCEPT ![s] = [services[s] EXCEPT !.state = "absent"]]
      BY <1>6 DEF DeleteService
    <3>4. QED
      BY <2>1, <3>2, <3>3 DEF TypeOK
  <2>3. pairs' \in [Mailboxes -> [Services -> Pair]]
    <3>1. \A m \in Mailboxes : [pairs[m] EXCEPT ![s] = NoPair] \in [Services -> Pair]
      BY <1>0 DEF TypeOK
    <3>2. QED
      BY <1>6, <3>1 DEF DeleteService
  <2>4. sessions' \in [Admins -> Session] /\ SessionsOK'
    BY <1>1, <1>6 DEF DeleteService
  <2>5. lost' \subseteq Mailboxes /\ UNCHANGED <<balance, ledger, orders, mailboxes, outbox, creating>>
    BY <1>6 DEF DeleteService, Waiting, TypeOK, OrdersOK
  <2>6. QED
    BY <2>2, <2>3, <2>4, <2>5 DEF TypeOK, OrdersOK, CreatingOK
<1>7. CASE AbortSession(a)
  <2>1. sessions' \in [Admins -> Session] /\ SessionsOK'
    BY <1>1, <1>7 DEF AbortSession
  <2>2. QED
    BY <1>7, <2>1 DEF AbortSession, TypeOK, OrdersOK, CreatingOK
<1>8. QED
  BY <1>2, <1>3, <1>4, <1>5, <1>6, <1>7 DEF SessionStep

\* Every step keeps the types.
LEMMA NextType == TypeInv /\ [Next]_vars => TypeInv'
<1> SUFFICES ASSUME TypeInv, [Next]_vars PROVE TypeInv'
  OBVIOUS
<1> USE DEF TypeInv
<1>0. NoPair \in Pair /\ FreshPair \in Pair /\ NoMailbox \in Mailbox
  BY DEF NoPair, FreshPair, Pair, NoMailbox, Mailbox
<1>1. ASSUME NEW u \in Users, NEW amount \in AdjustAmounts, AdjustBalance(u, amount)
      PROVE  TypeInv'
  <2>1. amount \in Int /\ balance[u] \in Int /\ balance[u] + amount >= 0
    BY <1>1, ConstantsAssumption DEF AdjustBalance, TypeOK
  <2>2. PostEntry(u, "admin_adjustment", None, amount, balance[u])
    BY <1>1 DEF AdjustBalance
  <2>3. balance' \in [Users -> Nat] /\ ledger' \in [Users -> Seq(LedgerRow)]
    BY <2>1, <2>2, PostEntryType
  <2>4. QED
    BY <1>1, <2>3 DEF AdjustBalance, TypeOK, OrdersOK, CreatingOK, SessionsOK
<1>2. ASSUME NEW s \in Services, NEW row \in [state : {"enabled", "disabled"}, prices : PriceTables],
             SaveService(s, row)
      PROVE  TypeInv'
  <2>1. row \in Service
    BY DEF Service
  <2>2. services' \in [Services -> Service]
    BY <1>2, <2>1 DEF SaveService, TypeOK
  <2>3. pairs' \in [Mailboxes -> [Services -> Pair]]
    <3>1. \A m \in Mailboxes :
              (IF mailboxes[m].state = "absent" THEN pairs[m][s] ELSE EnsuredPair(pairs[m][s])) \in Pair
      BY <1>0 DEF TypeOK, EnsuredPair
    <3>2. \A m \in Mailboxes :
              [pairs[m] EXCEPT ![s] = IF mailboxes[m].state = "absent" THEN pairs[m][s]
                                      ELSE EnsuredPair(pairs[m][s])] \in [Services -> Pair]
      BY <3>1 DEF TypeOK
    <3>3. QED
      BY <1>2, <3>2 DEF SaveService
  <2>4. QED
    BY <1>2, <2>2, <2>3 DEF SaveService, TypeOK, OrdersOK, CreatingOK, SessionsOK
<1>3. ASSUME NEW batch \in SUBSET Mailboxes, DeleteInvalidMailboxes(batch)
      PROVE  TypeInv'
  <2>1. mailboxes' \in [Mailboxes -> Mailbox] /\ pairs' \in [Mailboxes -> [Services -> Pair]]
    BY <1>0, <1>3 DEF DeleteInvalidMailboxes, TypeOK
  <2>2. QED
    BY <1>3, <2>1 DEF DeleteInvalidMailboxes, TypeOK, OrdersOK, CreatingOK, SessionsOK
<1>4. CASE UNCHANGED vars
  BY <1>4 DEF vars, TypeOK, OrdersOK, CreatingOK, SessionsOK
<1>5. QED
  BY <1>1, <1>2, <1>3, <1>4, ClientType, OrderType, MailboxType, SessionType DEF Next

\* TypeInv, the inductive strengthening of TypeOK, holds in every reachable state.
THEOREM TypeInvariant == Spec => []TypeInv
BY InitType, NextType, PTL DEF Spec

\* Every reachable state is well typed: in particular CreateOrder, refundOrder
\* and AdjustBalance, however they interleave, never leave a negative balance,
\* for any set of users, price table and number of concurrent calls.
THEOREM TypeCorrect == Spec => []TypeOK
<1>1. TypeInv => TypeOK
  BY DEF TypeInv
<1>2. QED
  BY <1>1, TypeInvariant, PTL


-----------------------------------------------------------------------------
(* The row lock on a user.  CreateOrder writes a balance computed from the *)
(* one it read; that is sound because the user's row stays locked between  *)
(* the two, so the balance it read is still the balance.                   *)

LockInv ==
    /\ \A c \in Clients : creating[c].phase = "selected" => creating[c].balance = balance[creating[c].user]
    /\ \A c, d \in Clients :
          creating[c].phase = "selected" /\ creating[d].phase = "selected" /\ creating[c].user = creating[d].user
            => c = d

MoneyInv == TypeInv /\ LockInv /\ OrderSettled

\* The four things a step may do to money.
Quiet ==
    /\ UNCHANGED <<balance, ledger>>
    /\ \A o \in OrderIds :
          /\ orders'[o].user = orders[o].user
          /\ orders'[o].price = orders[o].price
          /\ orders'[o].refunded = orders[o].refunded
          /\ orders'[o].status = "none" <=> orders[o].status = "none"
          /\ orders'[o].status \in {"canceled", "expired_refunded"}
                <=> orders[o].status \in {"canceled", "expired_refunded"}
Charging == \E c \in Clients, o \in OrderIds : CommitOrder(c, o)
Refunding == \E o \in OrderIds, status \in {"canceled", "expired_refunded"} :
                Waiting(o) /\ refundOrder(o, status) /\ UNCHANGED creating
Adjusting == \E u \in Users, amount \in AdjustAmounts : AdjustBalance(u, amount)

\* A step that moves no money and no order is quiet.
LEMMA QuietWhenUnchanged == UNCHANGED <<balance, ledger, orders>> => Quiet
BY DEF Quiet

\* Every step is quiet, charges an order, refunds one or adjusts a balance.
LEMMA MoneySteps ==
    ASSUME TypeInv, [Next]_vars
    PROVE  Quiet \/ Charging \/ Refunding \/ Adjusting
<1>1. ASSUME NEW c \in Clients, ClientStep(c)
      PROVE  Quiet \/ Charging
  BY <1>1, QuietWhenUnchanged DEF ClientStep, BeginCreate, SelectMailbox, AbortCreate, Charging
<1>2. ASSUME NEW o \in OrderIds, OrderStep(o)
      PROVE  Quiet \/ Refunding
  <2>1. CASE PassDeadline(o)
    BY <2>1 DEF PassDeadline, Quiet, TypeInv, TypeOK, Order
  <2>2. CASE ReceiveCode(o)
    BY <2>2 DEF ReceiveCode, Waiting, Quiet, TypeInv, TypeOK, Order
  <2>3. CASE CompleteOrder(o)
    BY <2>3 DEF CompleteOrder, Quiet, TypeInv, TypeOK, Order
  <2>4. CASE CancelOrder(o) \/ ReapExpired(o) \/ ReconcileInvalidMailboxOrders(o)
    BY <2>4 DEF CancelOrder, ReapExpired, ReconcileInvalidMailboxOrders, Refunding
  <2>5. QED
    BY <1>2, <2>1, <2>2, <2>3, <2>4 DEF OrderStep
<1>3. ASSUME NEW m \in Mailboxes, MailboxStep(m)
      PROVE  Quiet \/ Refunding
  <2>1. CASE MarkFailed(m)
    <3>1. CASE mailboxes[m].active # None /\ Waiting(mailboxes[m].active)
      <4>1. mailboxes[m].active \in OrderIds
        BY <3>1 DEF TypeInv, TypeOK, Mailbox
      <4>2. QED
        BY <2>1, <3>1, <4>1 DEF MarkFailed, Refunding
    <3>2. CASE ~(mailboxes[m].active # None /\ Waiting(mailboxes[m].active))
      BY <2>1, <3>2, QuietWhenUnchanged DEF MarkFailed
    <3>3. QED
      BY <3>1, <3>2
  <2>2. CASE ~MarkFailed(m)
    BY <1>3, <2>2, QuietWhenUnchanged DEF MailboxStep, MarkVerified, MarkMailboxServiceConsumed, MarkMailboxServiceRegistered
  <2>3. QED
    BY <2>1, <2>2
<1>4. ASSUME NEW a \in Admins, SessionStep(a)
      PROVE  Quiet
  BY <1>4, QuietWhenUnchanged
     DEF SessionStep, ReadMailbox, ReadService, SaveMailbox, DeleteMailbox, DeleteService, AbortSession
<1>5. ASSUME NEW s \in Services, NEW row \in [state : {"enabled", "disabled"}, prices : PriceTables], SaveService(s, row)
      PROVE  Quiet
  BY <1>5, QuietWhenUnchanged DEF SaveService
<1>6. ASSUME NEW batch \in SUBSET Mailboxes, DeleteInvalidMailboxes(batch)
      PROVE  Quiet
  BY <1>6, QuietWhenUnchanged DEF DeleteInvalidMailboxes
<1>7. CASE UNCHANGED vars
  BY <1>7, QuietWhenUnchanged DEF vars
<1>8. QED
  BY <1>1, <1>2, <1>3, <1>4, <1>5, <1>6, <1>7 DEF Next, Adjusting

-----------------------------------------------------------------------------
(* The ledger *)

\* A posting keeps every row and adds one.
Grown(u, row) ==
    /\ \A v \in Users : \A i \in DOMAIN ledger[v] : i \in DOMAIN ledger'[v] /\ ledger'[v][i] = ledger[v][i]
    /\ \A v \in Users : \A i \in DOMAIN ledger'[v] :
           \/ i \in DOMAIN ledger[v] /\ ledger'[v][i] = ledger[v][i]
           \/ v = u /\ ledger'[v][i] = row
    /\ \E i \in DOMAIN ledger'[u] : ledger'[u][i] = row

\* What appending one row does to the rows of every ledger.
LEMMA LedgerGrows ==
    ASSUME TypeOK, NEW u \in Users, NEW row \in LedgerRow, ledger' = [ledger EXCEPT ![u] = Append(ledger[u], row)]
    PROVE  Grown(u, row)
<1>1. ledger[u] \in Seq(LedgerRow) /\ \A v \in Users : v # u => ledger'[v] = ledger[v]
  BY DEF TypeOK
<1>2. ledger'[u] = Append(ledger[u], row)
  BY DEF TypeOK
<1>3. /\ DOMAIN ledger'[u] = 1 .. Len(ledger[u]) + 1
      /\ \A i \in 1 .. Len(ledger[u]) : ledger'[u][i] = ledger[u][i]
      /\ ledger'[u][Len(ledger[u]) + 1] = row
  BY <1>1, <1>2
<1>4. DOMAIN ledger[u] = 1 .. Len(ledger[u]) /\ Len(ledger[u]) \in Nat
  BY <1>1
<1>5. QED
  BY <1>1, <1>3, <1>4 DEF Grown

\* Orders a posting does not refer to stay settled.
LEMMA OthersStaySettled ==
    ASSUME TypeInv, NEW p \in OrderIds, Settled(p), orders'[p] = orders[p],
           NEW u \in Users, NEW row \in LedgerRow, row.ref # p,
           ledger' = [ledger EXCEPT ![u] = Append(ledger[u], row)]
    PROVE  Settled(p)'
<1>1. Grown(u, row)
  BY LedgerGrows DEF TypeInv
<1>2. orders[p].status # "none" => orders[p].user \in Users
  BY DEF TypeInv, OrdersOK
<1>3. QED
  BY <1>1, <1>2 DEF Settled, Row, Grown

-----------------------------------------------------------------------------
(* LockInv *)

\* A step that leaves the calls alone and moves at most the balance of a user
\* whose row is free.
LEMMA FreeRowMoves ==
    ASSUME TypeInv, LockInv, NEW u \in Users, UserRowFree(u), NEW b,
           balance' = [balance EXCEPT ![u] = b], UNCHANGED creating
    PROVE  LockInv'
<1>1. \A c \in Clients : creating[c].phase = "selected" => creating[c].user # u /\ creating[c].user \in Users
  BY DEF UserRowFree, TypeInv, CreatingOK
<1>2. \A v \in Users : v # u => balance'[v] = balance[v]
  BY DEF TypeInv, TypeOK
<1>3. QED
  BY <1>1, <1>2 DEF LockInv

\* The user row CreateOrder has locked is not written by anybody else: the
\* balance it read is still the balance when it commits.
LEMMA LockStep == ASSUME MoneyInv, [Next]_vars PROVE LockInv'
<1> USE DEF MoneyInv
<1>0. creating \in [Clients -> Creating] /\ balance \in [Users -> Nat]
  BY DEF TypeInv, TypeOK
<1>1. ASSUME NEW c \in Clients, ClientStep(c)
      PROVE  LockInv'
  <2>1. ASSUME UNCHANGED balance, NEW new, new.phase # "selected", creating' = [creating EXCEPT ![c] = new]
        PROVE  LockInv'
    BY <1>0, <2>1 DEF LockInv
  <2>2. ASSUME NEW u \in Users, NEW s \in Services, NEW r \in Requests, NEW ps \in SUBSET Providers,
               BeginCreate(c, u, s, r, ps)
        PROVE  LockInv'
    <3> DEFINE new == [NotCreating EXCEPT !.phase = "begun", !.user = u, !.service = s,
            !.request = r, !.providers = ps, !.prices = services[s].prices]
    <3>1. new.phase = "begun"
      BY DEF NotCreating
    <3>2. creating' = [creating EXCEPT ![c] = new] /\ UNCHANGED balance
      BY <2>2 DEF BeginCreate
    <3> HIDE DEF new
    <3>3. QED
      BY <2>1, <3>1, <3>2
  <2>3. CASE SelectMailbox(c)
    <3>1. PICK m \in Mailboxes :
              creating' = [creating EXCEPT ![c] = [@ EXCEPT !.phase = "selected", !.mailbox = m,
                                                            !.balance = balance[creating[c].user]]]
      BY <2>3 DEF SelectMailbox
    <3>2. /\ \A d \in Clients : d # c => creating'[d] = creating[d]
          /\ creating'[c].phase = "selected"
          /\ creating'[c].user = creating[c].user
          /\ creating'[c].balance = balance[creating[c].user]
      BY <1>0, <3>1 DEF Creating
    <3>3. \A d \in Clients : ~(creating[d].phase = "selected" /\ creating[d].user = creating[c].user)
      BY <2>3 DEF SelectMailbox, UserRowFree
    <3>4. UNCHANGED balance
      BY <2>3 DEF SelectMailbox
    <3>5. QED
      BY <3>2, <3>3, <3>4 DEF LockInv
  <2>4. ASSUME NEW o \in OrderIds, CommitOrder(c, o)
        PROVE  LockInv'
    <3> DEFINE u == creating[c].user
               b == creating[c].balance + (0 - creating[c].prices[ProviderOf[creating[c].mailbox]])
    <3>1. u \in Users /\ creating[c].phase = "selected"
      BY <2>4 DEF CommitOrder, TypeInv, CreatingOK
    <3>2. balance' = [balance EXCEPT ![u] = b] /\ creating' = [creating EXCEPT ![c] = NotCreating]
      BY <2>4 DEF CommitOrder, PostEntry
    <3>3. \A d \in Clients : creating'[d].phase = "selected" =>
              /\ d # c
              /\ creating'[d] = creating[d]
              /\ creating[d].user \in Users
              /\ creating[d].user # u
      BY <1>0, <3>1, <3>2 DEF NotCreating, LockInv, TypeInv, CreatingOK
    <3>4. \A v \in Users : v # u => balance'[v] = balance[v]
      BY <1>0, <3>2
    <3>5. QED
      BY <3>3, <3>4 DEF LockInv
  <2>5. CASE AbortCreate(c)
    <3>1. NotCreating.phase # "selected"
      BY DEF NotCreating
    <3>2. QED
      BY <2>1, <2>5, <3>1 DEF AbortCreate
  <2>6. QED
    BY <1>1, <2>2, <2>3, <2>4, <2>5 DEF ClientStep
<1>2. ASSUME UNCHANGED <<balance, creating>>
      PROVE  LockInv'
  BY <1>2 DEF LockInv
<1>3. CASE Refunding
  <2>1. PICK o \in OrderIds, status \in {"canceled", "expired_refunded"} :
            Waiting(o) /\ refundOrder(o, status) /\ UNCHANGED creating
    BY <1>3 DEF Refunding
  <2>2. orders[o].user \in Users
    BY <2>1 DEF TypeInv, OrdersOK, Waiting
  <2>3. /\ UserRowFree(orders[o].user)
        /\ balance' = [balance EXCEPT ![orders[o].user] = balance[orders[o].user] + orders[o].price]
    BY <2>1 DEF refundOrder, PostEntry
  <2>4. QED
    BY <2>1, <2>2, <2>3, FreeRowMoves
<1>4. CASE Adjusting
  BY <1>4, FreeRowMoves DEF Adjusting, AdjustBalance, PostEntry
<1>5. CASE Quiet /\ ~(\E c \in Clients : ClientStep(c))
  <2>1. UNCHANGED creating
    BY <1>5 DEF Next, vars, OrderStep, PassDeadline, ReceiveCode, CompleteOrder, CancelOrder, ReapExpired,
                ReconcileInvalidMailboxOrders, MailboxStep, MarkVerified, MarkFailed, MarkMailboxServiceConsumed,
                MarkMailboxServiceRegistered, SessionStep, ReadMailbox, ReadService, SaveMailbox, DeleteMailbox,
                DeleteService, AbortSession, AdjustBalance, SaveService, DeleteInvalidMailboxes
  <2>2. QED
    BY <1>2, <1>5, <2>1 DEF Quiet
<1>6. Charging => \E c \in Clients : ClientStep(c)
  BY DEF Charging, ClientStep
<1>7. QED
  BY <1>1, <1>3, <1>4, <1>5, <1>6, MoneySteps

-----------------------------------------------------------------------------
(* OrderSettled *)

\* The row a posting appends.
LEMMA PostedRow ==
    ASSUME TypeInv, NEW u \in Users, NEW type \in {"admin_adjustment", "order_charge", "order_refund"},
           NEW o \in OrderIds \cup {None}, NEW amount \in Int, NEW read \in Int, read + amount >= 0,
           PostEntry(u, type, o, amount, read)
    PROVE  \E row \in LedgerRow :
              /\ row.type = type /\ row.ref = o /\ row.amount = amount
              /\ ledger' = [ledger EXCEPT ![u] = Append(ledger[u], row)]
<1> DEFINE row == [type |-> type, ref |-> o, amount |-> amount, after |-> read + amount]
<1>1. row \in LedgerRow /\ row.type = type /\ row.ref = o /\ row.amount = amount
  BY DEF LedgerRow
<1>2. ledger' = [ledger EXCEPT ![u] = Append(ledger[u], row)]
  BY DEF PostEntry
<1>3. QED
  BY <1>1, <1>2

\* A quiet step leaves every order settled.
LEMMA QuietSettles == ASSUME TypeInv, OrderSettled, Quiet PROVE OrderSettled'
<1>1. ASSUME NEW p \in OrderIds PROVE Settled(p)'
  <2>1. Settled(p) /\ UNCHANGED ledger
    BY DEF OrderSettled, Quiet
  <2>2. QED
    BY <2>1 DEF Settled, Row, Quiet
<1>2. QED
  BY <1>1 DEF OrderSettled

\* What CommitOrder charges, and to whom.
LEMMA ChargeFacts ==
    ASSUME MoneyInv, NEW c \in Clients, NEW o \in OrderIds, CommitOrder(c, o)
    PROVE  \E u \in Users, price \in Nat :
              /\ orders[o].status = "none"
              /\ balance[u] >= price
              /\ PostEntry(u, "order_charge", o, 0 - price, balance[u])
              /\ \A p \in OrderIds : p # o => orders'[p] = orders[p]
              /\ orders'[o].status = "waiting_code" /\ orders'[o].user = u
              /\ orders'[o].price = price /\ orders'[o].refunded = FALSE
<1> USE DEF MoneyInv
<1> DEFINE u == creating[c].user
           m == creating[c].mailbox
           price == creating[c].prices[ProviderOf[m]]
           row == [NoOrder EXCEPT !.status = "waiting_code", !.user = u, !.service = creating[c].service,
                                  !.mailbox = m, !.request = creating[c].request, !.price = price]
<1>1. u \in Users /\ price \in 0 .. creating[c].balance /\ creating[c].balance \in Nat
  BY DEF CommitOrder, TypeInv, CreatingOK, TypeOK, Creating
<1>2. creating[c].balance = balance[u]
  BY DEF CommitOrder, LockInv
<1>3. price \in Nat /\ balance[u] >= price
  BY <1>1, <1>2
<1>4. orders[o].status = "none" /\ PostEntry(u, "order_charge", o, 0 - price, balance[u])
  BY <1>2 DEF CommitOrder
<1>5. row.status = "waiting_code" /\ row.user = u /\ row.price = price /\ row.refunded = FALSE
  BY DEF NoOrder
<1>6. orders' = [orders EXCEPT ![o] = row]
  BY DEF CommitOrder
<1> HIDE DEF row
<1>7. (\A p \in OrderIds : p # o => orders'[p] = orders[p]) /\ orders'[o] = row
  BY <1>6 DEF TypeInv, TypeOK
<1>8. QED
  BY <1>1, <1>3, <1>4, <1>5, <1>7

\* What a refund pays, and to whom.
LEMMA RefundFacts ==
    ASSUME TypeInv, NEW o \in OrderIds, NEW status \in {"canceled", "expired_refunded"},
           Waiting(o), refundOrder(o, status)
    PROVE  /\ orders[o].user \in Users /\ orders[o].price \in Nat /\ balance[orders[o].user] \in Nat
           /\ PostEntry(orders[o].user, "order_refund", o, orders[o].price, balance[orders[o].user])
           /\ \A p \in OrderIds : p # o => orders'[p] = orders[p]
           /\ orders'[o].status = status /\ orders'[o].refunded = TRUE
           /\ orders'[o].user = orders[o].user /\ orders'[o].price = orders[o].price
<1>1. orders[o].user \in Users
  BY DEF TypeInv, OrdersOK, Waiting
<1>2. orders[o].price \in Nat /\ balance[orders[o].user] \in Nat
  BY <1>1 DEF TypeInv, TypeOK, Order
<1>3. QED
  BY <1>1, <1>2 DEF refundOrder, TypeInv, TypeOK, Order

\* Every step leaves every order settled.
LEMMA SettledStep == ASSUME MoneyInv, [Next]_vars PROVE OrderSettled'
<1> USE DEF MoneyInv
<1>1. CASE Quiet
  BY <1>1, QuietSettles
<1>2. CASE Charging
  <2>1. PICK c \in Clients, o \in OrderIds : CommitOrder(c, o)
    BY <1>2 DEF Charging
  <2>2. PICK u \in Users, price \in Nat :
              /\ orders[o].status = "none"
              /\ balance[u] >= price
              /\ PostEntry(u, "order_charge", o, 0 - price, balance[u])
              /\ \A p \in OrderIds : p # o => orders'[p] = orders[p]
              /\ orders'[o].status = "waiting_code" /\ orders'[o].user = u
              /\ orders'[o].price = price /\ orders'[o].refunded = FALSE
    BY <2>1, ChargeFacts
  <2>3. balance[u] \in Int /\ 0 - price \in Int /\ balance[u] + (0 - price) >= 0
    BY <2>2 DEF TypeInv, TypeOK
  <2>4. PICK row \in LedgerRow : /\ row.type = "order_charge" /\ row.ref = o /\ row.amount = 0 - price
                                 /\ ledger' = [ledger EXCEPT ![u] = Append(ledger[u], row)]
    BY <2>2, <2>3, PostedRow
  <2>5. ASSUME NEW p \in OrderIds, p # o PROVE Settled(p)'
    BY <2>2, <2>4, <2>5, OthersStaySettled DEF OrderSettled
  <2>6. Settled(o)'
    <3>1. Grown(u, row)
      BY <2>4, LedgerGrows DEF TypeInv
    <3>2. \A v \in Users : \A i \in DOMAIN ledger[v] : ledger[v][i].ref # o
      BY <2>2 DEF OrderSettled, Settled
    <3>3. \A v \in Users : \A i \in DOMAIN ledger'[v] : ~(ledger'[v][i].type = "order_refund" /\ ledger'[v][i].ref = o)
      BY <2>4, <3>1, <3>2 DEF Grown
    <3>4. \E i \in DOMAIN ledger'[u] :
              /\ ledger'[u][i].type = "order_charge" /\ ledger'[u][i].ref = o
              /\ ledger'[u][i].amount = 0 - price
      BY <2>4, <3>1 DEF Grown
    <3>5. /\ orders'[o].refunded = FALSE /\ orders'[o].status = "waiting_code"
          /\ orders'[o].user = u /\ orders'[o].price = price
      BY <2>2
    <3>6. QED
      BY <3>3, <3>4, <3>5 DEF Settled, Row
  <2>7. QED
    BY <2>5, <2>6 DEF OrderSettled
<1>3. CASE Refunding
  <2>1. PICK o \in OrderIds, status \in {"canceled", "expired_refunded"} : Waiting(o) /\ refundOrder(o, status)
    BY <1>3 DEF Refunding
  <2>2. PICK u \in Users, price \in Nat :
        /\ u = orders[o].user /\ price = orders[o].price /\ balance[u] \in Nat
        /\ PostEntry(u, "order_refund", o, price, balance[u])
        /\ \A p \in OrderIds : p # o => orders'[p] = orders[p]
        /\ orders'[o].status = status /\ orders'[o].refunded = TRUE
        /\ orders'[o].user = u /\ orders'[o].price = price
    BY <2>1, RefundFacts
  <2>3. PICK row \in LedgerRow : /\ row.type = "order_refund" /\ row.ref = o /\ row.amount = price
                                 /\ ledger' = [ledger EXCEPT ![u] = Append(ledger[u], row)]
    <3>1. balance[u] + price >= 0 /\ price \in Int /\ balance[u] \in Int
      BY <2>2
    <3>2. QED
      BY <2>2, <3>1, PostedRow
  <2>4. ASSUME NEW p \in OrderIds, p # o PROVE Settled(p)'
    BY <2>2, <2>3, <2>4, OthersStaySettled DEF OrderSettled
  <2>5. Settled(o)'
    <3>1. Grown(u, row)
      BY <2>3, LedgerGrows DEF TypeInv
    <3>2. \E i \in DOMAIN ledger[u] : Row(u, i, "order_charge", o) /\ ledger[u][i].amount = 0 - price
      BY <2>1, <2>2 DEF OrderSettled, Settled, Waiting
    <3>3. \E i \in DOMAIN ledger'[u] : Row(u, i, "order_charge", o)' /\ ledger'[u][i].amount = 0 - price
      BY <2>2, <3>1, <3>2 DEF Row, Grown
    <3>4. \E v \in Users : \E i \in DOMAIN ledger'[v] :
              ledger'[v][i].type = "order_refund" /\ ledger'[v][i].ref = o
      BY <2>3, <3>1 DEF Grown
    <3>5. /\ orders'[o].refunded = TRUE /\ orders'[o].status \in {"canceled", "expired_refunded"}
          /\ orders'[o].status # "none" /\ orders'[o].user = u /\ orders'[o].price = price
      BY <2>2
    <3>6. QED
      BY <3>3, <3>4, <3>5 DEF Settled, Row
  <2>6. QED
    BY <2>4, <2>5 DEF OrderSettled
<1>4. CASE Adjusting
  <2>1. PICK u \in Users, amount \in AdjustAmounts : AdjustBalance(u, amount)
    BY <1>4 DEF Adjusting
  <2>2. amount \in Int /\ balance[u] \in Int /\ balance[u] + amount >= 0
    BY <2>1, ConstantsAssumption DEF AdjustBalance, TypeInv, TypeOK
  <2>3. PICK row \in LedgerRow : /\ row.ref = None
                                 /\ ledger' = [ledger EXCEPT ![u] = Append(ledger[u], row)]
    BY <2>1, <2>2, PostedRow DEF AdjustBalance
  <2>4. ASSUME NEW p \in OrderIds PROVE Settled(p)'
    BY <2>1, <2>3, OthersStaySettled, ConstantsAssumption DEF OrderSettled, AdjustBalance
  <2>5. QED
    BY <2>4 DEF OrderSettled
<1>5. QED
  BY <1>1, <1>2, <1>3, <1>4, MoneySteps

\* Nothing is ordered, locked or owed at the start.
LEMMA MoneyInit == Init => MoneyInv
<1> SUFFICES ASSUME Init PROVE MoneyInv
  OBVIOUS
<1>1. LockInv
  BY DEF Init, NotCreating, LockInv
<1>2. ASSUME NEW o \in OrderIds PROVE Settled(o)
  <2>1. orders[o].status = "none" /\ orders[o].refunded = FALSE
    BY DEF Init, NoOrder
  <2>2. \A u \in Users : \A i \in DOMAIN ledger[u] : ledger[u][i].ref = None
    BY DEF Init
  <2>3. o # None
    BY ConstantsAssumption
  <2>4. QED
    BY <2>1, <2>2, <2>3 DEF Settled, Row
<1>3. QED
  BY <1>1, <1>2, InitType DEF MoneyInv, OrderSettled

\* MoneyInv holds in every reachable state: an order's money is settled, and a
\* CreateOrder call that has locked its user's row knows its balance.
THEOREM MoneyInvariant == Spec => []MoneyInv
<1>1. MoneyInv /\ [Next]_vars => MoneyInv'
  BY NextType, LockStep, SettledStep DEF MoneyInv
<1>2. QED
  BY <1>1, MoneyInit, PTL DEF Spec

\* The orders table and the ledger agree in every reachable state.
THEOREM OrdersAreSettled == Spec => []OrderSettled
<1>1. MoneyInv => OrderSettled
  BY DEF MoneyInv
<1>2. QED
  BY <1>1, MoneyInvariant, PTL

-----------------------------------------------------------------------------
(* The abstract wallet *)

\* A posting computed from the current balance is a posting of the wallet.
LEMMA PostingIsPost ==
    ASSUME TypeInv, NEW u \in Users, NEW type, NEW o, NEW amount \in Int,
           balance[u] + amount >= 0, PostEntry(u, type, o, amount, balance[u])
    PROVE  W!Post(u, type, o, amount) /\ balance'[u] - balance[u] = amount /\ ledger'[u] # ledger[u]
<1>1. balance \in [Users -> Nat]
  BY DEF TypeInv, TypeOK
<1>2. balance' = [balance EXCEPT ![u] = balance[u] + amount]
  BY DEF PostEntry
<1>3. balance'[u] - balance[u] = amount
  BY <1>1, <1>2
<1>4. W!Post(u, type, o, amount)
  BY DEF PostEntry, W!Post
<1>5. ledger'[u] # ledger[u]
  <2>1. ledger \in [Users -> Seq(LedgerRow)] /\ Len(ledger[u]) \in Nat
    BY DEF TypeInv, TypeOK
  <2>2. PICK row : ledger'[u] = Append(ledger[u], row)
    BY <2>1 DEF PostEntry
  <2>3. Len(ledger'[u]) = Len(ledger[u]) + 1
    BY <2>1, <2>2
  <2>4. QED
    BY <2>1, <2>3
<1>6. QED
  BY <1>3, <1>4, <1>5

\* Every step of the order core is a step of the abstract wallet, or a stutter.
LEMMA WalletStep == ASSUME MoneyInv, [Next]_vars PROVE [W!Next]_(W!walletVars)
<1> USE DEF MoneyInv
<1>1. CASE Quiet
  BY <1>1 DEF Quiet, W!walletVars
<1>2. CASE Charging
  <2>1. PICK c \in Clients, o \in OrderIds : CommitOrder(c, o)
    BY <1>2 DEF Charging
  <2>2. PICK u \in Users, price \in Nat : /\ orders[o].status = "none"
                                          /\ balance[u] >= price
                                          /\ PostEntry(u, "order_charge", o, 0 - price, balance[u])
    BY <2>1, ChargeFacts
  <2>3. balance[u] \in Int /\ 0 - price \in Int /\ balance[u] + (0 - price) >= 0
    BY <2>2 DEF TypeInv, TypeOK
  <2>4. W!Post(u, "order_charge", o, 0 - price) /\ balance'[u] - balance[u] = 0 - price
         /\ ledger'[u] # ledger[u]
    BY <2>2, <2>3, PostingIsPost
  <2>5. 0 - (balance'[u] - balance[u]) = price /\ price >= 0
    BY <2>4
  <2>6. \A v \in Users : ~W!Posted(v, "order_charge", o)
    BY <2>2 DEF OrderSettled, Settled, W!Posted
  <2>7. W!Charge(u, o, price)
    BY <2>4, <2>5, <2>6 DEF W!Charge
  <2>8. W!Charge(u, o, 0 - (balance'[u] - balance[u]))
    BY <2>5, <2>7
  <2>9. QED
    BY <2>4, <2>8 DEF W!Next
<1>3. CASE Refunding
  <2>1. PICK o \in OrderIds, status \in {"canceled", "expired_refunded"} : Waiting(o) /\ refundOrder(o, status)
    BY <1>3 DEF Refunding
  <2>2. PICK u \in Users, price \in Nat :
            /\ u = orders[o].user /\ price = orders[o].price /\ balance[u] \in Nat
            /\ PostEntry(u, "order_refund", o, price, balance[u])
    BY <2>1, RefundFacts
  <2>3. price \in Int /\ balance[u] + price >= 0 /\ price >= 0
    BY <2>2
  <2>4. W!Post(u, "order_refund", o, price) /\ balance'[u] - balance[u] = price
         /\ ledger'[u] # ledger[u]
    BY <2>2, <2>3, PostingIsPost
  <2>5. Settled(o) /\ orders[o].status # "none" /\ ~orders[o].refunded
    BY <2>1 DEF OrderSettled, Settled, Waiting
  <2>6. \E i \in DOMAIN ledger[u] : /\ ledger[u][i].type = "order_charge"
                                    /\ ledger[u][i].ref = o
                                    /\ ledger[u][i].amount = 0 - price
    BY <2>2, <2>5 DEF Settled, Row
  <2>7. \A v \in Users : ~W!Posted(v, "order_refund", o)
    BY <2>5 DEF Settled, Row, W!Posted
  <2>8. W!Refund(u, o, price)
    BY <2>3, <2>4, <2>6, <2>7 DEF W!Refund
  <2>9. QED
    BY <2>4, <2>8 DEF W!Next
<1>4. CASE Adjusting
  <2>1. PICK u \in Users, amount \in AdjustAmounts : AdjustBalance(u, amount)
    BY <1>4 DEF Adjusting
  <2>2. amount \in Int /\ balance[u] + amount >= 0
    BY <2>1, ConstantsAssumption DEF AdjustBalance
  <2>3. W!Post(u, "admin_adjustment", None, amount) /\ balance'[u] - balance[u] = amount
         /\ ledger'[u] # ledger[u]
    BY <2>1, <2>2, PostingIsPost DEF AdjustBalance
  <2>4. W!Adjust(u, balance'[u] - balance[u])
    BY <2>3 DEF W!Adjust
  <2>5. QED
    BY <2>3, <2>4 DEF W!Next
<1>5. QED
  BY <1>1, <1>2, <1>3, <1>4, MoneySteps

\* The order core implements the abstract wallet: for any number of users,
\* orders, mailboxes and concurrent calls, no balance update is lost and no
\* order is charged or refunded twice.
THEOREM ImplementsWallet == Spec => WalletSpec
<1>1. Init => W!Init
  BY DEF Init, W!Init, W!Opening
<1>2. QED
  BY <1>1, MoneyInvariant, WalletStep, PTL DEF Spec, WalletSpec, W!Spec
-----------------------------------------------------------------------------
(* What the abstract wallet means for the ledgers                          *)

\* The rows after a posting: those before it, and one more in u's ledger.
LEMMA RowsPosted ==
    ASSUME TypeInv, NEW u \in Users, NEW type \in W!EntryTypes, NEW o \in OrderIds \cup {None}, NEW amount \in Int,
           W!Post(u, type, o, amount)
    PROVE  LET n == Len(ledger[u])
           IN  /\ n \in Nat /\ Len(ledger'[u]) = n + 1
               /\ ledger'[u][n + 1].type = type /\ ledger'[u][n + 1].ref = o
               /\ ledger'[u][n + 1].amount = amount /\ ledger'[u][n + 1].after = balance[u] + amount
               /\ DOMAIN ledger[u] = 1 .. n /\ DOMAIN ledger'[u] = 1 .. (n + 1)
               /\ balance'[u] = balance[u] + amount
               /\ \A i \in 1 .. n : ledger'[u][i] = ledger[u][i]
               /\ \A v \in Users : v # u => ledger'[v] = ledger[v] /\ balance'[v] = balance[v]
<1> DEFINE n == Len(ledger[u])
           row == [type |-> type, ref |-> o, amount |-> amount, after |-> balance[u] + amount]
<1>1. /\ ledger \in [Users -> Seq(LedgerRow)] /\ balance \in [Users -> Nat]
      /\ ledger[u] \in Seq(LedgerRow) /\ balance[u] + amount \in Nat
  BY DEF TypeInv, TypeOK, W!Post
<1>2. /\ ledger' = [ledger EXCEPT ![u] = Append(ledger[u], row)]
      /\ balance' = [balance EXCEPT ![u] = balance[u] + amount]
  BY DEF W!Post
<1>3. row \in LedgerRow /\ row.type = type /\ row.ref = o /\ row.amount = amount /\ row.after = balance[u] + amount
  BY <1>1 DEF LedgerRow, W!EntryTypes
<1> HIDE DEF row
<1>4. n \in Nat /\ DOMAIN ledger[u] = 1 .. n
  BY <1>1
<1>5. /\ Len(Append(ledger[u], row)) = n + 1 /\ Append(ledger[u], row)[n + 1] = row
      /\ DOMAIN Append(ledger[u], row) = 1 .. (n + 1)
      /\ \A i \in 1 .. n : Append(ledger[u], row)[i] = ledger[u][i]
  BY <1>1, <1>3
<1>6. ledger'[u] = Append(ledger[u], row) /\ balance'[u] = balance[u] + amount
  BY <1>1, <1>2
<1>7. \A v \in Users : v # u => ledger'[v] = ledger[v] /\ balance'[v] = balance[v]
  BY <1>1, <1>2
<1>8. QED
  BY <1>3, <1>4, <1>5, <1>6, <1>7

\* A posting keeps every ledger adding up.
LEMMA PostAddsUp ==
    ASSUME TypeInv, \A u \in Users : W!AddsUp(u),
           NEW u \in Users, NEW type \in W!EntryTypes, NEW o \in OrderIds \cup {None}, NEW amount \in Int,
           W!Post(u, type, o, amount)
    PROVE  \A v \in Users : W!AddsUp(v)'
<1> DEFINE n == Len(ledger[u])
<1>1. /\ n \in Nat /\ Len(ledger'[u]) = n + 1
      /\ ledger'[u][n + 1].amount = amount /\ ledger'[u][n + 1].after = balance[u] + amount
      /\ DOMAIN ledger[u] = 1 .. n /\ DOMAIN ledger'[u] = 1 .. (n + 1)
      /\ balance'[u] = balance[u] + amount
      /\ \A i \in 1 .. n : ledger'[u][i] = ledger[u][i]
      /\ \A v \in Users : v # u => ledger'[v] = ledger[v] /\ balance'[v] = balance[v]
  BY RowsPosted
<1>2. n # 0 /\ balance[u] = ledger[u][n].after /\ balance[u] \in Int
  BY DEF W!AddsUp, TypeInv, TypeOK
<1> HIDE DEF n
<1>3. ASSUME NEW i \in 1 .. (n + 1)
      PROVE  ledger'[u][i].after = ledger'[u][i].amount + (IF i = 1 THEN 0 ELSE ledger'[u][i - 1].after)
  <2>1. CASE i = n + 1
    <3>1. i # 1 /\ i - 1 \in 1 .. n /\ i - 1 = n
      BY <1>1, <1>2, <2>1
    <3>2. ledger'[u][i - 1].after = balance[u]
      BY <1>1, <1>2, <3>1
    <3>3. ledger'[u][i].after = balance[u] + amount /\ ledger'[u][i].amount = amount
      BY <1>1, <2>1
    <3>4. balance[u] + amount = amount + balance[u]
      BY <1>2
    <3>5. QED
      BY <3>1, <3>2, <3>3, <3>4
  <2>2. CASE i \in 1 .. n
    <3>1. ledger[u][i].after = ledger[u][i].amount + (IF i = 1 THEN 0 ELSE ledger[u][i - 1].after)
      BY <1>1, <2>2 DEF W!AddsUp
    <3>2. ledger'[u][i] = ledger[u][i]
      BY <1>1, <2>2
    <3>3. CASE i = 1
      BY <3>1, <3>2, <3>3
    <3>4. CASE i # 1
      <4>1. i - 1 \in 1 .. n
        BY <1>1, <2>2, <3>4
      <4>2. ledger'[u][i - 1] = ledger[u][i - 1]
        BY <1>1, <4>1
      <4>3. QED
        BY <3>1, <3>2, <3>4, <4>2
    <3>5. QED
      BY <3>3, <3>4
  <2>3. QED
    BY <1>1, <2>1, <2>2
<1>4. W!AddsUp(u)'
  <2>1. ledger'[u] # <<>> /\ balance'[u] = ledger'[u][Len(ledger'[u])].after
    BY <1>1
  <2>2. QED
    BY <1>1, <1>3, <2>1 DEF W!AddsUp
<1>5. ASSUME NEW v \in Users, v # u PROVE W!AddsUp(v)'
  BY <1>1, <1>5 DEF W!AddsUp
<1>6. QED
  BY <1>4, <1>5

\* A row after a posting is one from before it, at its place, or the new one.
LEMMA RowsKnown ==
    ASSUME TypeInv, NEW u \in Users, NEW type \in W!EntryTypes, NEW o \in OrderIds \cup {None}, NEW amount \in Int,
           W!Post(u, type, o, amount), NEW v \in Users, NEW i \in DOMAIN ledger'[v]
    PROVE  \/ i \in DOMAIN ledger[v] /\ ledger'[v][i] = ledger[v][i]
           \/ v = u /\ i = Len(ledger[u]) + 1 /\ ledger'[v][i].type = type /\ ledger'[v][i].ref = o
              /\ ledger'[v][i].amount = amount
<1>1. CASE v = u
  <2>1. PICK n \in Nat : /\ n = Len(ledger[u])
                         /\ ledger'[u][n + 1].type = type /\ ledger'[u][n + 1].ref = o
                         /\ ledger'[u][n + 1].amount = amount
                         /\ DOMAIN ledger[u] = 1 .. n /\ DOMAIN ledger'[u] = 1 .. (n + 1)
                         /\ \A k \in 1 .. n : ledger'[u][k] = ledger[u][k]
    BY RowsPosted
  <2>2. i \in 1 .. n \/ i = n + 1
    BY <1>1, <2>1
  <2>3. QED
    BY <1>1, <2>1, <2>2
<1>2. CASE v # u
  BY <1>2, RowsPosted
<1>3. QED
  BY <1>1, <1>2

\* A row type of which the posting is the first row of its order, or no row,
\* stays once per order.
LEMMA StaysOnce ==
    ASSUME TypeInv, NEW kind, W!Once(kind),
           NEW u \in Users, NEW type \in W!EntryTypes, NEW o \in OrderIds \cup {None}, NEW amount \in Int,
           W!Post(u, type, o, amount), type = kind => \A v \in Users : ~W!Posted(v, kind, o)
    PROVE  W!Once(kind)'
<1>1. SUFFICES ASSUME NEW p \in OrderIds, NEW v \in Users, NEW w \in Users,
                      NEW i \in DOMAIN ledger'[v], NEW j \in DOMAIN ledger'[w],
                      W!RowOf(v, i, kind, p)', W!RowOf(w, j, kind, p)'
               PROVE  v = w /\ i = j
  BY DEF W!Once
<1>2. /\ ledger'[v][i].type = kind /\ ledger'[v][i].ref = p
      /\ ledger'[w][j].type = kind /\ ledger'[w][j].ref = p
  BY <1>1 DEF W!RowOf
<1>3. /\ i \in DOMAIN ledger[v] /\ ledger'[v][i] = ledger[v][i] => W!RowOf(v, i, kind, p) /\ W!Posted(v, kind, p)
      /\ j \in DOMAIN ledger[w] /\ ledger'[w][j] = ledger[w][j] => W!RowOf(w, j, kind, p) /\ W!Posted(w, kind, p)
  BY <1>2 DEF W!RowOf, W!Posted
<1>4. ASSUME NEW x \in Users, NEW k \in DOMAIN ledger'[x], ledger'[x][k].type = kind, ledger'[x][k].ref = p
      PROVE  \/ k \in DOMAIN ledger[x] /\ ledger'[x][k] = ledger[x][k]
             \/ x = u /\ k = Len(ledger[u]) + 1 /\ type = kind /\ o = p
  BY <1>4, RowsKnown
<1>5. /\ \/ i \in DOMAIN ledger[v] /\ ledger'[v][i] = ledger[v][i]
         \/ v = u /\ i = Len(ledger[u]) + 1 /\ type = kind /\ o = p
      /\ \/ j \in DOMAIN ledger[w] /\ ledger'[w][j] = ledger[w][j]
         \/ w = u /\ j = Len(ledger[u]) + 1 /\ type = kind /\ o = p
  BY <1>2, <1>4
<1>6. QED
  BY <1>3, <1>5 DEF W!Once

\* A posting that is no refund, or refunds a charge of its ledger.
LEMMA StaysCharged ==
    ASSUME TypeInv, W!RefundsCharge,
           NEW u \in Users, NEW type \in W!EntryTypes, NEW o \in OrderIds \cup {None}, NEW amount \in Int,
           W!Post(u, type, o, amount),
           type = "order_refund" => \E j \in DOMAIN ledger[u] :
               ledger[u][j].type = "order_charge" /\ ledger[u][j].ref = o /\ ledger[u][j].amount = 0 - amount
    PROVE  W!RefundsCharge'
<1>1. SUFFICES ASSUME NEW p \in OrderIds, NEW v \in Users, NEW i \in DOMAIN ledger'[v],
                      ledger'[v][i].type = "order_refund", ledger'[v][i].ref = p
               PROVE  \E j \in 1 .. (i - 1) : /\ ledger'[v][j].type = "order_charge" /\ ledger'[v][j].ref = p
                                              /\ ledger'[v][j].amount = 0 - ledger'[v][i].amount
  BY DEF W!RefundsCharge, W!RowOf
<1>2. \A w \in Users : \E n \in Nat : /\ DOMAIN ledger[w] = 1 .. n
                                      /\ \A k \in 1 .. n : ledger'[w][k] = ledger[w][k]
  <2>1. ASSUME NEW w \in Users
        PROVE  \E n \in Nat : DOMAIN ledger[w] = 1 .. n /\ \A k \in 1 .. n : ledger'[w][k] = ledger[w][k]
    <3>1. ledger[w] \in Seq(LedgerRow)
      BY DEF TypeInv, TypeOK
    <3>2. Len(ledger[w]) \in Nat /\ DOMAIN ledger[w] = 1 .. Len(ledger[w])
      BY <3>1
    <3>3. \A k \in 1 .. Len(ledger[w]) : ledger'[w][k] = ledger[w][k]
      BY RowsPosted
    <3>4. QED
      BY <3>2, <3>3
  <2>2. QED
    BY <2>1
<1>3. PICK n \in Nat : DOMAIN ledger[v] = 1 .. n /\ \A k \in 1 .. n : ledger'[v][k] = ledger[v][k]
  BY <1>2
<1>4. CASE i \in DOMAIN ledger[v] /\ ledger'[v][i] = ledger[v][i]
  <2>1. PICK j \in 1 .. (i - 1) : /\ ledger[v][j].type = "order_charge" /\ ledger[v][j].ref = p
                                  /\ ledger[v][j].amount = 0 - ledger[v][i].amount
    BY <1>1, <1>4 DEF W!RefundsCharge, W!RowOf
  <2>2. j \in 1 .. n
    BY <1>3, <1>4
  <2>3. QED
    BY <1>3, <1>4, <2>1, <2>2
<1>5. CASE /\ v = u /\ i = Len(ledger[u]) + 1 /\ ledger'[v][i].type = type /\ ledger'[v][i].ref = o
           /\ ledger'[v][i].amount = amount
  <2>1. PICK j \in DOMAIN ledger[u] :
            ledger[u][j].type = "order_charge" /\ ledger[u][j].ref = o /\ ledger[u][j].amount = 0 - amount
    BY <1>1, <1>5
  <2>2. Len(ledger[u]) \in Nat /\ DOMAIN ledger[u] = 1 .. Len(ledger[u])
    BY RowsPosted
  <2>3. j \in 1 .. (i - 1) /\ j \in 1 .. n
    BY <1>3, <1>5, <2>1, <2>2
  <2>4. QED
    BY <1>1, <1>3, <1>5, <2>1, <2>3
<1>6. QED
  BY <1>4, <1>5, RowsKnown

\* Every step of the abstract wallet keeps its ledgers sound.
LEMMA SoundStep == ASSUME TypeInv, TypeInv', W!Sound, [W!Next]_(W!walletVars) PROVE W!Sound'
<1> USE DEF W!EntryTypes
<1>1. ASSUME NEW u \in Users, NEW o \in OrderIds, NEW amount \in Int, W!Charge(u, o, amount)
      PROVE  W!Sound'
  <2>1. 0 - amount \in Int /\ W!Post(u, "order_charge", o, 0 - amount) /\ \A v \in Users : ~W!Posted(v, "order_charge", o)
    BY <1>1 DEF W!Charge
  <2>2. (\A v \in Users : W!AddsUp(v)') /\ W!Once("order_charge")' /\ W!Once("order_refund")' /\ W!RefundsCharge'
    BY <2>1, PostAddsUp, StaysOnce, StaysCharged DEF W!Sound
  <2>3. QED
    BY <2>2 DEF W!Sound
<1>2. ASSUME NEW u \in Users, NEW o \in OrderIds, NEW amount \in Int, W!Refund(u, o, amount)
      PROVE  W!Sound'
  <2>1. /\ W!Post(u, "order_refund", o, amount)
        /\ \A v \in Users : ~W!Posted(v, "order_refund", o)
        /\ \E i \in DOMAIN ledger[u] :
              ledger[u][i].type = "order_charge" /\ ledger[u][i].ref = o /\ ledger[u][i].amount = 0 - amount
    BY <1>2 DEF W!Refund
  <2>2. (\A v \in Users : W!AddsUp(v)') /\ W!Once("order_charge")' /\ W!Once("order_refund")' /\ W!RefundsCharge'
    BY <2>1, PostAddsUp, StaysOnce, StaysCharged DEF W!Sound
  <2>3. QED
    BY <2>2 DEF W!Sound
<1>3. ASSUME NEW u \in Users, NEW amount \in Int, W!Adjust(u, amount)
      PROVE  W!Sound'
  <2>1. W!Post(u, "admin_adjustment", None, amount)
    BY <1>3 DEF W!Adjust
  <2>2. (\A v \in Users : W!AddsUp(v)') /\ W!Once("order_charge")' /\ W!Once("order_refund")' /\ W!RefundsCharge'
    BY <2>1, PostAddsUp, StaysOnce, StaysCharged DEF W!Sound
  <2>3. QED
    BY <2>2 DEF W!Sound
<1>4. CASE UNCHANGED W!walletVars
  BY <1>4 DEF W!walletVars, W!Sound, W!AddsUp, W!Once, W!RefundsCharge, W!RowOf
<1>5. \A u \in Users : balance'[u] - balance[u] \in Int /\ 0 - (balance'[u] - balance[u]) \in Int
  BY DEF TypeInv, TypeOK
<1>6. QED
  BY <1>1, <1>2, <1>3, <1>4, <1>5 DEF W!Next

\* In every ledger each row starts from the balance the one before it left, no
\* order is charged or refunded twice in whoever's ledger, and a refund follows
\* its charge: what the wallet promises holds of the order core's ledgers,
\* because the order core implements the wallet.
THEOREM LedgersSound == Spec => []LedgerSound
<1>1. Init => W!Sound
  BY ConstantsAssumption DEF Init, W!Sound, W!AddsUp, W!Once, W!RefundsCharge, W!RowOf
<1>2. QED
  BY <1>1, SoundStep, WalletStep, TypeInvariant, MoneyInvariant, PTL DEF Spec, LedgerSound

-----------------------------------------------------------------------------
(* What a step may do to the orders                                        *)

Kept(p) == /\ orders'[p].user = orders[p].user /\ orders'[p].request = orders[p].request
           /\ orders'[p].mailbox = orders[p].mailbox /\ orders'[p].service = orders[p].service

\* No order changes its status or its outbox.
Still ==
    /\ outbox' = outbox
    /\ \A p \in OrderIds : orders'[p].status = orders[p].status /\ Kept(p)

\* One order becomes status, and says so in its outbox.
Advances(o, status) ==
    /\ EnqueueWebhook(o, status)
    /\ orders'[o].status = status
    /\ \A p \in OrderIds : p # o => orders'[p].status = orders[p].status

Creates(o) == \E c \in Clients : CommitOrder(c, o)
Receives(o) == Waiting(o) /\ Advances(o, "code_received") /\ \A p \in OrderIds : Kept(p)
Completes(o) == orders[o].status = "code_received" /\ Advances(o, "completed") /\ \A p \in OrderIds : Kept(p)
Refunds(o) ==
    /\ Waiting(o)
    /\ \E status \in {"canceled", "expired_refunded"} : Advances(o, status)
    /\ \A p \in OrderIds : Kept(p)

\* A step that leaves both tables alone is still.
LEMMA StillWhenUnchanged == UNCHANGED <<orders, outbox>> => Still
BY DEF Still, Kept

\* What refundOrder does to the orders and their events.
LEMMA RefundMoves ==
    ASSUME TypeInv, NEW o \in OrderIds, Waiting(o), NEW status \in {"canceled", "expired_refunded"},
           refundOrder(o, status)
    PROVE  Refunds(o)
<1>1. EnqueueWebhook(o, status) /\ orders' = [orders EXCEPT ![o] = [@ EXCEPT !.status = status, !.refunded = TRUE]]
  BY DEF refundOrder
<1>2. orders'[o].status = status /\ \A p \in OrderIds : Kept(p) /\ (p # o => orders'[p].status = orders[p].status)
  BY <1>1 DEF TypeInv, TypeOK, Order, Kept
<1>3. QED
  BY <1>1, <1>2 DEF Refunds, Advances

\* Every step is still, creates an order, delivers its code, completes or refunds it.
LEMMA OrderMoves ==
    ASSUME TypeInv, [Next]_vars
    PROVE  Still \/ \E o \in OrderIds : Creates(o) \/ Receives(o) \/ Completes(o) \/ Refunds(o)
<1>1. ASSUME NEW c \in Clients, ClientStep(c)
      PROVE  Still \/ \E o \in OrderIds : Creates(o)
  BY <1>1, StillWhenUnchanged DEF ClientStep, BeginCreate, SelectMailbox, AbortCreate, Creates
<1>2. ASSUME NEW o \in OrderIds, OrderStep(o)
      PROVE  Still \/ Receives(o) \/ Completes(o) \/ Refunds(o)
  <2>1. CASE PassDeadline(o)
    BY <2>1 DEF PassDeadline, Still, Kept, TypeInv, TypeOK, Order
  <2>2. CASE ReceiveCode(o)
    BY <2>2 DEF ReceiveCode, Receives, Advances, Kept, TypeInv, TypeOK, Order
  <2>3. CASE CompleteOrder(o)
    BY <2>3 DEF CompleteOrder, Completes, Advances, Kept, TypeInv, TypeOK, Order
  <2>4. CASE CancelOrder(o) \/ ReapExpired(o) \/ ReconcileInvalidMailboxOrders(o)
    BY <2>4, RefundMoves DEF CancelOrder, ReapExpired, ReconcileInvalidMailboxOrders
  <2>5. QED
    BY <1>2, <2>1, <2>2, <2>3, <2>4 DEF OrderStep
<1>3. ASSUME NEW m \in Mailboxes, MailboxStep(m)
      PROVE  Still \/ \E o \in OrderIds : Refunds(o)
  <2>1. CASE MarkFailed(m)
    <3>1. CASE mailboxes[m].active # None /\ Waiting(mailboxes[m].active)
      <4>1. mailboxes[m].active \in OrderIds
        BY <3>1 DEF TypeInv, TypeOK, Mailbox
      <4>2. refundOrder(mailboxes[m].active, "expired_refunded")
        BY <2>1, <3>1 DEF MarkFailed
      <4>3. QED
        BY <3>1, <4>1, <4>2, RefundMoves
    <3>2. CASE ~(mailboxes[m].active # None /\ Waiting(mailboxes[m].active))
      BY <2>1, <3>2, StillWhenUnchanged DEF MarkFailed
    <3>3. QED
      BY <3>1, <3>2
  <2>2. CASE ~MarkFailed(m)
    BY <1>3, <2>2, StillWhenUnchanged DEF MailboxStep, MarkVerified, MarkMailboxServiceConsumed, MarkMailboxServiceRegistered
  <2>3. QED
    BY <2>1, <2>2
<1>4. ASSUME NEW a \in Admins, SessionStep(a)
      PROVE  Still
  BY <1>4, StillWhenUnchanged
     DEF SessionStep, ReadMailbox, ReadService, SaveMailbox, DeleteMailbox, DeleteService, AbortSession
<1>5. ASSUME NEW u \in Users, NEW amount \in AdjustAmounts, AdjustBalance(u, amount)
      PROVE  Still
  BY <1>5, StillWhenUnchanged DEF AdjustBalance
<1>6. ASSUME NEW s \in Services, NEW row \in [state : {"enabled", "disabled"}, prices : PriceTables], SaveService(s, row)
      PROVE  Still
  BY <1>6, StillWhenUnchanged DEF SaveService
<1>7. ASSUME NEW batch \in SUBSET Mailboxes, DeleteInvalidMailboxes(batch)
      PROVE  Still
  BY <1>7, StillWhenUnchanged DEF DeleteInvalidMailboxes
<1>8. CASE UNCHANGED vars
  BY <1>8, StillWhenUnchanged DEF vars
<1>9. QED
  BY <1>1, <1>2, <1>3, <1>4, <1>5, <1>6, <1>7, <1>8 DEF Next

\* What CommitOrder does to the orders and their events.
LEMMA CreationFacts ==
    ASSUME TypeInv, NEW c \in Clients, NEW o \in OrderIds, CommitOrder(c, o)
    PROVE  /\ orders[o].status = "none"
           /\ Advances(o, "waiting_code")
           /\ \A p \in OrderIds : p # o => Kept(p)
           /\ ~RequestUsed(creating[c].user, creating[c].request)
           /\ orders'[o].user = creating[c].user
           /\ orders'[o].request = creating[c].request
<1> DEFINE row == [NoOrder EXCEPT !.status = "waiting_code", !.user = creating[c].user,
                      !.service = creating[c].service, !.mailbox = creating[c].mailbox,
                      !.request = creating[c].request, !.price = creating[c].prices[ProviderOf[creating[c].mailbox]]]
<1>1. orders' = [orders EXCEPT ![o] = row]
  BY DEF CommitOrder
<1>2. row.status = "waiting_code" /\ row.user = creating[c].user /\ row.request = creating[c].request
  BY DEF NoOrder
<1>3. orders[o].status = "none" /\ UniqueRequest(creating[c].user, creating[c].request) /\ EnqueueWebhook(o, "waiting_code")
  BY DEF CommitOrder
<1> HIDE DEF row
<1>4. orders'[o] = row /\ \A p \in OrderIds : p # o => orders'[p] = orders[p]
  BY <1>1 DEF TypeInv, TypeOK
<1>5. QED
  BY <1>2, <1>3, <1>4 DEF Advances, Kept, UniqueRequest

-----------------------------------------------------------------------------
(* OrderLife *)

StatusOf == [o \in OrderIds |-> orders[o].status]

\* One order's step along its life is a step of OrderLife.
LEMMA AdvanceIsBecome ==
    ASSUME NEW o \in OrderIds, NEW from, NEW to, orders[o].status = from, Advances(o, to)
    PROVE  L!Become(o, from, to)
<1>1. StatusOf' = [StatusOf EXCEPT ![o] = to]
  BY DEF Advances, StatusOf
<1>2. StatusOf[o] = from
  BY DEF StatusOf
<1>3. QED
  BY <1>1, <1>2 DEF L!Become, StatusOf

\* Every step of the order core is one of OrderLife or leaves it as it is.
LEMMA LifeStep == ASSUME TypeInv, [Next]_vars PROVE [L!Next]_StatusOf
<1>1. CASE Still
  BY <1>1 DEF Still, StatusOf
<1>2. ASSUME NEW o \in OrderIds, Creates(o)
      PROVE  L!Next
  <2>1. orders[o].status = "none" /\ Advances(o, "waiting_code")
    BY <1>2, CreationFacts DEF Creates
  <2>2. L!Create(o)
    BY <2>1, AdvanceIsBecome DEF L!Create
  <2>3. QED
    BY <2>2 DEF L!Next
<1>3. ASSUME NEW o \in OrderIds, Receives(o)
      PROVE  L!Next
  <2>1. L!Receive(o)
    BY <1>3, AdvanceIsBecome DEF Receives, Waiting, L!Receive
  <2>2. QED
    BY <2>1 DEF L!Next
<1>4. ASSUME NEW o \in OrderIds, Completes(o)
      PROVE  L!Next
  <2>1. L!Complete(o)
    BY <1>4, AdvanceIsBecome DEF Completes, L!Complete
  <2>2. QED
    BY <2>1 DEF L!Next
<1>5. ASSUME NEW o \in OrderIds, Refunds(o)
      PROVE  L!Next
  <2>1. L!Refund(o)
    BY <1>5, AdvanceIsBecome DEF Refunds, Waiting, L!Refund
  <2>2. QED
    BY <2>1 DEF L!Next
<1>6. QED
  BY <1>1, <1>2, <1>3, <1>4, <1>5, OrderMoves

\* The order core implements the life of an order: for any number of orders and
\* calls, an order receives its code or is refunded, never both, and nothing
\* happens to it afterwards but its completion.
THEOREM ImplementsOrderLife == Spec => LifeSpec
<1>1. Init => L!Init
  BY DEF Init, L!Init, NoOrder
<1>2. TypeInv /\ [Next]_vars => [L!Next]_StatusOf
  BY LifeStep
<1>3. QED
  BY <1>1, <1>2, TypeInvariant, PTL DEF Spec, LifeSpec, L!Spec, StatusOf

-----------------------------------------------------------------------------
(* The outbox *)

\* The path of each status is the path of the status before it, and itself.
LEMMA PathGrows ==
    /\ EventPath("waiting_code") = Append(EventPath("none"), "waiting_code")
    /\ EventPath("code_received") = Append(EventPath("waiting_code"), "code_received")
    /\ EventPath("completed") = Append(EventPath("code_received"), "completed")
    /\ EventPath("canceled") = Append(EventPath("waiting_code"), "canceled")
    /\ EventPath("expired_refunded") = Append(EventPath("waiting_code"), "expired_refunded")
BY DEF EventPath

\* An order that advances takes its outbox along.
LEMMA AdvanceFollows ==
    ASSUME TypeInv, OutboxFollowsOrder, NEW o \in OrderIds, NEW to, Advances(o, to),
           EventPath(to) = Append(EventPath(orders[o].status), to)
    PROVE  OutboxFollowsOrder'
<1>1. outbox'[o] = Append(outbox[o], to) /\ \A p \in OrderIds : p # o => outbox'[p] = outbox[p]
  BY DEF Advances, EnqueueWebhook, TypeInv, TypeOK
<1>2. outbox'[o] = EventPath(orders'[o].status)
  BY <1>1 DEF OutboxFollowsOrder, Advances
<1>3. ASSUME NEW p \in OrderIds, p # o PROVE outbox'[p] = EventPath(orders'[p].status)
  BY <1>1, <1>3 DEF OutboxFollowsOrder, Advances
<1>4. QED
  BY <1>2, <1>3 DEF OutboxFollowsOrder

\* In every reachable state the events enqueued for an order are the path it
\* took through its states, each once and in order.
THEOREM EventsFollowOrders == Spec => []OutboxFollowsOrder
<1>1. Init => OutboxFollowsOrder
  BY DEF Init, NoOrder, OutboxFollowsOrder, EventPath
<1>2. ASSUME TypeInv, OutboxFollowsOrder, [Next]_vars
      PROVE  OutboxFollowsOrder'
  <2>1. CASE Still
    BY <1>2, <2>1 DEF Still, OutboxFollowsOrder
  <2>2. ASSUME NEW o \in OrderIds, Creates(o)
        PROVE  OutboxFollowsOrder'
    BY <1>2, <2>2, CreationFacts, AdvanceFollows, PathGrows DEF Creates
  <2>3. ASSUME NEW o \in OrderIds, Receives(o) \/ Completes(o) \/ Refunds(o)
        PROVE  OutboxFollowsOrder'
    BY <1>2, <2>3, AdvanceFollows, PathGrows DEF Receives, Completes, Refunds, Waiting
  <2>4. QED
    BY <1>2, <2>1, <2>2, <2>3, OrderMoves
<1>3. QED
  BY <1>1, <1>2, TypeInvariant, PTL DEF Spec

-----------------------------------------------------------------------------
(* Request ids *)

\* An order exists afterwards with the user and request it had before.
LEMMA RequestsKept ==
    ASSUME RequestChargedOnce, \A p \in OrderIds : Kept(p),
           \A p \in OrderIds : orders'[p].status # "none" => orders[p].status # "none"
    PROVE  RequestChargedOnce'
BY DEF RequestChargedOnce, Kept

\* The unique index charges a request id of a user for one order, however many
\* calls repeat it at the same time.
THEOREM RequestsChargedOnce == Spec => []RequestChargedOnce
<1>1. Init => RequestChargedOnce
  BY DEF Init, NoOrder, RequestChargedOnce
<1>2. ASSUME TypeInv, RequestChargedOnce, [Next]_vars
      PROVE  RequestChargedOnce'
  <2>1. CASE Still
    BY <1>2, <2>1, RequestsKept DEF Still
  <2>2. ASSUME NEW o \in OrderIds, Creates(o)
        PROVE  RequestChargedOnce'
    <3>1. PICK c \in Clients : CommitOrder(c, o)
      BY <2>2 DEF Creates
    <3>2. /\ \A p \in OrderIds : p # o => Kept(p) /\ orders'[p].status = orders[p].status
          /\ ~RequestUsed(orders'[o].user, orders'[o].request)
      BY <1>2, <3>1, CreationFacts DEF Advances
    <3>3. QED
      BY <1>2, <3>2 DEF RequestChargedOnce, RequestUsed, Kept
  <2>3. ASSUME NEW o \in OrderIds, Receives(o) \/ Completes(o) \/ Refunds(o)
        PROVE  RequestChargedOnce'
    <3>1. orders[o].status # "none" /\ \A p \in OrderIds : p # o => orders'[p].status = orders[p].status
      BY <2>3 DEF Receives, Completes, Refunds, Waiting, Advances
    <3>2. QED
      BY <1>2, <2>3, <3>1, RequestsKept DEF Receives, Completes, Refunds
  <2>4. QED
    BY <1>2, <2>1, <2>2, <2>3, OrderMoves
<1>3. QED
  BY <1>1, <1>2, TypeInvariant, PTL DEF Spec

-----------------------------------------------------------------------------
(* Pairs *)

\* What a step may make of the pair of mailbox m and service s.
PairMoves(m, s) ==
    \/ pairs'[m][s] \in {pairs[m][s], NoPair, EnsuredPair(pairs[m][s]), [pairs[m][s] EXCEPT !.state = "consumed"]}
    \/ /\ pairs[m][s].state \in {"available", "leased", "consumed"}
       /\ pairs'[m][s] = [pairs[m][s] EXCEPT !.state = "leased"]
       /\ pairs[m][s].state = "consumed" => m \in lost'
    \/ \E status \in {"canceled", "expired_refunded"} : pairs'[m][s] = ReleasedPair(pairs[m][s], status)

AllPairsMove == lost \subseteq lost' /\ \A m \in Mailboxes, s \in Services : PairMoves(m, s)

\* A step that leaves the pairs alone moves none.
LEMMA NoPairMoves == UNCHANGED <<pairs, lost>> => AllPairsMove
BY DEF AllPairsMove, PairMoves

\* Marking one pair consumed leaves the others alone.
LEMMA ConsumedMoves ==
    ASSUME TypeOK, NEW m \in Mailboxes, NEW s \in Services, lost' = lost,
           pairs' = [pairs EXCEPT ![m] = [pairs[m] EXCEPT ![s] = [pairs[m][s] EXCEPT !.state = "consumed"]]]
    PROVE  AllPairsMove
<1>1. pairs'[m][s] = [pairs[m][s] EXCEPT !.state = "consumed"]
  BY DEF TypeOK
<1>2. \A n \in Mailboxes, t \in Services : ~(n = m /\ t = s) => pairs'[n][t] = pairs[n][t]
  BY DEF TypeOK
<1>3. QED
  BY <1>1, <1>2 DEF AllPairsMove, PairMoves

\* refundOrder releases the pair of its order and no other.
LEMMA RefundReleases ==
    ASSUME TypeInv, NEW o \in OrderIds, Waiting(o), NEW status \in {"canceled", "expired_refunded"},
           refundOrder(o, status)
    PROVE  /\ orders[o].mailbox \in Mailboxes /\ orders[o].service \in Services
           /\ \A m \in Mailboxes, s \in Services :
                 pairs'[m][s] = IF m = orders[o].mailbox /\ s = orders[o].service
                                THEN ReleasedPair(pairs[m][s], status) ELSE pairs[m][s]
<1>1. orders[o].mailbox \in Mailboxes /\ orders[o].service \in Services
  BY DEF TypeInv, OrdersOK, Waiting
<1>2. pairs' = [pairs EXCEPT ![orders[o].mailbox][orders[o].service]
                   = ReleasedPair(pairs[orders[o].mailbox][orders[o].service], status)]
  BY DEF refundOrder
<1>3. QED
  BY <1>1, <1>2 DEF TypeInv, TypeOK

\* What CommitOrder does to its pair, and to no other.
LEMMA CommitLeases ==
    ASSUME TypeInv, NEW c \in Clients, NEW o \in OrderIds, CommitOrder(c, o)
    PROVE  \E m \in Mailboxes, s \in Services :
              /\ m = creating[c].mailbox /\ s = creating[c].service
              /\ Loses(m, pairs[m][s].state \in {"consumed", "absent"})
              /\ \A n \in Mailboxes, t \in Services :
                    pairs'[n][t] = IF n = m /\ t = s /\ pairs[m][s].state # "absent"
                                   THEN [pairs[m][s] EXCEPT !.state = "leased"] ELSE pairs[n][t]
<1>1. PICK m \in Mailboxes, s \in Services : m = creating[c].mailbox /\ s = creating[c].service
  BY DEF CommitOrder, TypeInv, CreatingOK
<1>2. pairs' = IF pairs[m][s].state = "absent" THEN pairs ELSE [pairs EXCEPT ![m][s].state = "leased"]
  BY <1>1 DEF CommitOrder
<1>3. Loses(m, pairs[m][s].state \in {"consumed", "absent"})
  BY <1>1 DEF CommitOrder
<1>4. \A n \in Mailboxes, t \in Services :
         pairs'[n][t] = IF n = m /\ t = s /\ pairs[m][s].state # "absent"
                        THEN [pairs[m][s] EXCEPT !.state = "leased"] ELSE pairs[n][t]
  <2>1. CASE pairs[m][s].state = "absent"
    BY <1>2, <2>1
  <2>2. CASE pairs[m][s].state # "absent"
    <3>1. pairs' = [pairs EXCEPT ![m][s].state = "leased"]
      BY <1>2, <2>2
    <3>2. pairs' = [pairs EXCEPT ![m] = [pairs[m] EXCEPT ![s] = [pairs[m][s] EXCEPT !.state = "leased"]]]
      BY <3>1
    <3>3. QED
      BY <2>2, <3>2 DEF TypeInv, TypeOK
  <2>3. QED
    BY <2>1, <2>2
<1>5. QED
  BY <1>1, <1>3, <1>4

\* Every step moves each pair in one of these ways.
LEMMA PairsMove == ASSUME TypeInv, [Next]_vars PROVE AllPairsMove
<1>0. TypeOK /\ \A m \in Mailboxes, s \in Services : pairs[m][s] \in Pair
  BY DEF TypeInv, TypeOK
<1>1. ASSUME NEW c \in Clients, ClientStep(c)
      PROVE  AllPairsMove
  <2>1. ASSUME NEW o \in OrderIds, CommitOrder(c, o)
        PROVE  AllPairsMove
    <3>1. PICK m \in Mailboxes, s \in Services :
          /\ Loses(m, pairs[m][s].state \in {"consumed", "absent"})
          /\ \A n \in Mailboxes, t \in Services :
                pairs'[n][t] = IF n = m /\ t = s /\ pairs[m][s].state # "absent"
                               THEN [pairs[m][s] EXCEPT !.state = "leased"] ELSE pairs[n][t]
      BY <2>1, CommitLeases
    <3>2. pairs[m][s].state \in PairState
      BY <1>0 DEF Pair
    <3>3. ASSUME NEW n \in Mailboxes, NEW t \in Services
          PROVE  PairMoves(n, t)
      <4>1. CASE n = m /\ t = s /\ pairs[m][s].state # "absent"
        <5>1. pairs'[n][t] = [pairs[n][t] EXCEPT !.state = "leased"]
          BY <3>1, <4>1
        <5>2. pairs[m][s].state = "consumed" => m \in lost'
          BY <3>1 DEF Loses
        <5>3. pairs[n][t].state \in {"available", "leased", "consumed"}
          BY <3>2, <4>1 DEF PairState
        <5>4. QED
          BY <4>1, <5>1, <5>2, <5>3 DEF PairMoves
      <4>2. CASE ~(n = m /\ t = s /\ pairs[m][s].state # "absent")
        BY <3>1, <4>2 DEF PairMoves
      <4>3. QED
        BY <4>1, <4>2
    <3>4. QED
      BY <3>1, <3>3 DEF AllPairsMove, Loses
  <2>2. CASE \A o \in OrderIds : ~CommitOrder(c, o)
    BY <1>1, <2>2, NoPairMoves DEF ClientStep, BeginCreate, SelectMailbox, AbortCreate
  <2>3. QED
    BY <2>1, <2>2
<1>2. ASSUME NEW o \in OrderIds, NEW status \in {"canceled", "expired_refunded"},
             Waiting(o), refundOrder(o, status), UNCHANGED lost
      PROVE  AllPairsMove
  BY <1>2, RefundReleases DEF AllPairsMove, PairMoves
<1>3. ASSUME NEW o \in OrderIds, OrderStep(o)
      PROVE  AllPairsMove
  <2>1. CASE ReceiveCode(o)
    <3>1. PICK m \in Mailboxes, s \in Services : m = orders[o].mailbox /\ s = orders[o].service
      BY <2>1 DEF ReceiveCode, Waiting, TypeInv, OrdersOK
    <3>2. /\ pairs' = IF pairs[m][s].state = "absent" THEN pairs ELSE [pairs EXCEPT ![m][s].state = "consumed"]
          /\ lost' = lost
      BY <2>1, <3>1 DEF ReceiveCode
    <3>3. CASE pairs[m][s].state = "absent"
      BY <3>2, <3>3, NoPairMoves
    <3>4. CASE pairs[m][s].state # "absent"
      <4>1. pairs' = [pairs EXCEPT ![m][s].state = "consumed"]
        BY <3>2, <3>4
      <4>2. pairs' = [pairs EXCEPT ![m] = [pairs[m] EXCEPT ![s] = [pairs[m][s] EXCEPT !.state = "consumed"]]]
        BY <4>1
      <4>3. QED
        BY <3>2, <4>2, ConsumedMoves DEF TypeInv
    <3>5. QED
      BY <3>3, <3>4
  <2>2. CASE CancelOrder(o) \/ ReapExpired(o) \/ ReconcileInvalidMailboxOrders(o)
    BY <1>2, <2>2 DEF CancelOrder, ReapExpired, ReconcileInvalidMailboxOrders
  <2>3. CASE PassDeadline(o) \/ CompleteOrder(o)
    BY <2>3, NoPairMoves DEF PassDeadline, CompleteOrder
  <2>4. QED
    BY <1>3, <2>1, <2>2, <2>3 DEF OrderStep
<1>4. ASSUME NEW m \in Mailboxes, MailboxStep(m)
      PROVE  AllPairsMove
  <2>1. CASE MarkFailed(m)
    <3>1. CASE mailboxes[m].active # None /\ Waiting(mailboxes[m].active)
      <4>1. mailboxes[m].active \in OrderIds
        BY <3>1 DEF TypeInv, TypeOK, Mailbox
      <4>2. QED
        BY <1>2, <2>1, <3>1, <4>1 DEF MarkFailed
    <3>2. CASE ~(mailboxes[m].active # None /\ Waiting(mailboxes[m].active))
      BY <2>1, <3>2, NoPairMoves DEF MarkFailed
    <3>3. QED
      BY <3>1, <3>2
  <2>2. ASSUME NEW s \in Services, MarkMailboxServiceConsumed(m, s) \/ MarkMailboxServiceRegistered(m, s)
        PROVE  AllPairsMove
    <3>1. pairs' = [pairs EXCEPT ![m][s].state = "consumed"] /\ lost' = lost
      BY <2>2 DEF MarkMailboxServiceConsumed, MarkMailboxServiceRegistered
    <3>2. pairs' = [pairs EXCEPT ![m] = [pairs[m] EXCEPT ![s] = [pairs[m][s] EXCEPT !.state = "consumed"]]]
      BY <3>1
    <3>3. QED
      BY <3>1, <3>2, ConsumedMoves DEF TypeInv
  <2>3. CASE MarkVerified(m)
    BY <2>3, NoPairMoves DEF MarkVerified
  <2>4. QED
    BY <1>4, <2>1, <2>2, <2>3 DEF MailboxStep
<1>5. ASSUME NEW a \in Admins, SessionStep(a)
      PROVE  AllPairsMove
  <2>1. ASSUME NEW q \in SaveRequests, SaveMailbox(a, q.state, q.verification)
        PROVE  AllPairsMove
    <3>1. /\ pairs' = [pairs EXCEPT ![sessions[a].mailbox] = [s \in Services |->
                IF services[s].state = "absent" THEN pairs[sessions[a].mailbox][s]
                ELSE EnsuredPair(pairs[sessions[a].mailbox][s])]]
          /\ lost \subseteq lost'
      BY <2>1 DEF SaveMailbox, Loses
    <3>2. sessions[a].mailbox \in Mailboxes
      BY <2>1 DEF SaveMailbox, TypeInv, SessionsOK
    <3>3. QED
      BY <1>0, <3>1, <3>2 DEF AllPairsMove, PairMoves, TypeOK
  <2>2. CASE DeleteMailbox(a)
    <3>1. /\ pairs' = [pairs EXCEPT ![sessions[a].mailbox] = [s \in Services |-> NoPair]]
          /\ lost \subseteq lost'
      BY <2>2 DEF DeleteMailbox, Loses
    <3>2. QED
      BY <1>0, <3>1 DEF AllPairsMove, PairMoves, TypeOK
  <2>3. CASE DeleteService(a)
    <3>1. /\ pairs' = [m \in Mailboxes |-> [pairs[m] EXCEPT ![sessions[a].service] = NoPair]]
          /\ lost \subseteq lost'
      BY <2>3 DEF DeleteService
    <3>2. QED
      BY <1>0, <3>1 DEF AllPairsMove, PairMoves, TypeOK
  <2>4. QED
    BY <1>5, <2>1, <2>2, <2>3, NoPairMoves DEF SessionStep, ReadMailbox, ReadService, AbortSession
<1>6. ASSUME NEW s \in Services, NEW row \in [state : {"enabled", "disabled"}, prices : PriceTables], SaveService(s, row)
      PROVE  AllPairsMove
  <2>1. /\ pairs' = [m \in Mailboxes |-> [pairs[m] EXCEPT ![s] =
               IF mailboxes[m].state = "absent" THEN pairs[m][s] ELSE EnsuredPair(pairs[m][s])]]
        /\ lost' = lost
    BY <1>6 DEF SaveService
  <2>2. QED
    BY <1>0, <2>1 DEF AllPairsMove, PairMoves, TypeOK
<1>7. ASSUME NEW batch \in SUBSET Mailboxes, DeleteInvalidMailboxes(batch)
      PROVE  AllPairsMove
  BY <1>7 DEF DeleteInvalidMailboxes, AllPairsMove, PairMoves
<1>8. ASSUME NEW u \in Users, NEW amount \in AdjustAmounts, AdjustBalance(u, amount)
      PROVE  AllPairsMove
  BY <1>8, NoPairMoves DEF AdjustBalance
<1>9. CASE UNCHANGED vars
  BY <1>9, NoPairMoves DEF vars
<1>10. QED
  BY <1>1, <1>3, <1>4, <1>5, <1>6, <1>7, <1>8, <1>9 DEF Next

\* A pair still offered to orders has not used up its timeouts, unless a write
\* was based on a stale read: whatever releases, recreates or leases it.
THEOREM TimeoutsBounded == Spec => []TimeoutBudget
<1>1. Init => TimeoutBudget
  BY ConstantsAssumption DEF Init, TimeoutBudget, FreshPair
<1>2. ASSUME TypeInv, TimeoutBudget, [Next]_vars
      PROVE  TimeoutBudget'
  <2>1. AllPairsMove
    BY <1>2, PairsMove
  <2>2. SUFFICES ASSUME NEW m \in Mailboxes, m \notin lost', NEW s \in Services,
                        pairs'[m][s].state \in {"available", "leased"}
                 PROVE  pairs'[m][s].timeouts < MailboxServiceTimeoutLimit
    BY DEF TimeoutBudget
  <2>3. m \notin lost /\ PairMoves(m, s) /\ pairs[m][s] \in Pair
    BY <1>2, <2>1, <2>2 DEF AllPairsMove, TypeInv, TypeOK
  <2>4. pairs[m][s].state \in {"available", "leased"} => pairs[m][s].timeouts < MailboxServiceTimeoutLimit
    BY <1>2, <2>3 DEF TimeoutBudget
  <2>5. QED
    BY <2>2, <2>3, <2>4, ConstantsAssumption
       DEF PairMoves, Pair, NoPair, EnsuredPair, FreshPair, ReleasedPair, nextTimeoutState
<1>3. QED
  BY <1>1, <1>2, TypeInvariant, PTL DEF Spec

\* A consumed mark goes only with its mailbox or service, or under a write that
\* was based on a stale read.
THEOREM ConsumedMarksStay == Spec => ConsumedStays
<1>1. ASSUME TypeInv, [Next]_vars
      PROVE  \A m \in Mailboxes, s \in Services :
                pairs[m][s].state = "consumed" => m \in lost' \/ pairs'[m][s].state \in {"consumed", "absent"}
  <2>1. \A m \in Mailboxes, s \in Services : PairMoves(m, s) /\ pairs[m][s] \in Pair
    BY <1>1, PairsMove DEF AllPairsMove, TypeInv, TypeOK
  <2>2. ASSUME NEW m \in Mailboxes, NEW s \in Services, pairs[m][s].state = "consumed"
        PROVE  m \in lost' \/ pairs'[m][s].state \in {"consumed", "absent"}
    <3>1. PairMoves(m, s) /\ pairs[m][s] \in Pair
      BY <2>1
    <3>2. EnsuredPair(pairs[m][s]) = pairs[m][s]
      BY <2>2 DEF EnsuredPair
    <3>3. \A status : ReleasedPair(pairs[m][s], status) = pairs[m][s]
      BY <2>2 DEF ReleasedPair
    <3>4. [pairs[m][s] EXCEPT !.state = "consumed"].state = "consumed" /\ NoPair.state = "absent"
      BY <3>1 DEF Pair, NoPair
    <3>5. QED
      BY <2>2, <3>1, <3>2, <3>3, <3>4 DEF PairMoves
  <2>3. QED
    BY <2>2
<1>2. QED
  BY <1>1, TypeInvariant, PTL DEF Spec, ConsumedStays

-----------------------------------------------------------------------------
(* The row lock on a mailbox.  CreateOrder leases the mailbox it has found *)
(* allocatable; the row is still so when it commits, and no other call has *)
(* found the same one.                                                     *)

SelectedInv ==
    /\ \A c \in Clients : creating[c].phase = "selected" =>
          mailboxes[creating[c].mailbox].state = "available" /\ mailboxes[creating[c].mailbox].active = None
    /\ \A c, d \in Clients :
          creating[c].phase = "selected" /\ creating[d].phase = "selected" /\ creating[c].mailbox = creating[d].mailbox
            => c = d

\* A step that leaves the calls alone and changes only rows that are free.
LEMMA FreeMailboxMoves ==
    ASSUME TypeInv, SelectedInv, UNCHANGED creating,
           \A m \in Mailboxes : mailboxes'[m] # mailboxes[m] => MailboxRowFree(m)
    PROVE  SelectedInv'
BY DEF SelectedInv, MailboxRowFree, TypeInv, CreatingOK

\* So does one that changes the row of one free mailbox.
LEMMA FreeRowWritten ==
    ASSUME TypeInv, SelectedInv, UNCHANGED creating,
           NEW m \in Mailboxes, MailboxRowFree(m), NEW row, mailboxes' = [mailboxes EXCEPT ![m] = row]
    PROVE  SelectedInv'
<1>1. \A n \in Mailboxes : n # m => mailboxes'[n] = mailboxes[n]
  BY DEF TypeInv, TypeOK
<1>2. QED
  BY <1>1, FreeMailboxMoves

\* Every step keeps the selected mailboxes as they were found.
LEMMA SelectedStep == ASSUME TypeInv, SelectedInv, [Next]_vars PROVE SelectedInv'
<1>0. TypeOK /\ OrdersOK /\ CreatingOK /\ SessionsOK
  BY DEF TypeInv
<1>a. ASSUME UNCHANGED <<creating, mailboxes>> PROVE SelectedInv'
  BY <1>a DEF SelectedInv
<1>1. ASSUME NEW c \in Clients, ClientStep(c)
      PROVE  SelectedInv'
  <2>1. CASE SelectMailbox(c)
    <3>1. PICK m \in Mailboxes :
              /\ Allocatable(m, creating[c].service, creating[c].providers)
              /\ creating' = [creating EXCEPT ![c] = [@ EXCEPT !.phase = "selected", !.mailbox = m,
                                                               !.balance = balance[creating[c].user]]]
      BY <2>1 DEF SelectMailbox
    <3>2. /\ creating'[c].mailbox = m
          /\ \A d \in Clients : d # c => creating'[d] = creating[d]
      BY <1>0, <3>1 DEF TypeOK, Creating
    <3>3. /\ mailboxes' = mailboxes
          /\ mailboxes[m].state = "available" /\ mailboxes[m].active = None /\ MailboxRowFree(m)
      BY <2>1, <3>1 DEF SelectMailbox, Allocatable
    <3>4. QED
      BY <3>2, <3>3 DEF SelectedInv, MailboxRowFree
  <2>2. ASSUME NEW o \in OrderIds, CommitOrder(c, o)
        PROVE  SelectedInv'
    <3>1. /\ creating' = [creating EXCEPT ![c] = NotCreating]
          /\ creating[c].phase = "selected"
          /\ mailboxes' = [mailboxes EXCEPT ![creating[c].mailbox] = [@ EXCEPT !.state = "leased", !.active = o]]
      BY <2>2 DEF CommitOrder
    <3>2. /\ creating'[c].phase = "idle"
          /\ \A d \in Clients : d # c => creating'[d] = creating[d]
      BY <1>0, <3>1 DEF TypeOK, NotCreating
    <3>3. \A n \in Mailboxes : n # creating[c].mailbox => mailboxes'[n] = mailboxes[n]
      BY <1>0, <3>1 DEF TypeOK
    <3>4. ASSUME NEW d \in Clients, creating'[d].phase = "selected"
          PROVE  /\ d # c /\ creating'[d] = creating[d]
                 /\ mailboxes'[creating[d].mailbox] = mailboxes[creating[d].mailbox]
      <4>1. d # c /\ creating'[d] = creating[d]
        BY <3>2, <3>4
      <4>2. creating[d].mailbox \in Mailboxes /\ creating[d].mailbox # creating[c].mailbox
        BY <1>0, <3>1, <3>4, <4>1 DEF SelectedInv, CreatingOK
      <4>3. QED
        BY <3>3, <4>1, <4>2
    <3>5. QED
      BY <3>4 DEF SelectedInv
  <2>3. ASSUME NEW call, creating' = [creating EXCEPT ![c] = call], call.phase # "selected", UNCHANGED mailboxes
        PROVE  SelectedInv'
    <3>1. creating'[c].phase # "selected" /\ \A d \in Clients : d # c => creating'[d] = creating[d]
      BY <1>0, <2>3 DEF TypeOK
    <3>2. QED
      BY <2>3, <3>1 DEF SelectedInv
  <2>4. ASSUME NEW u \in Users, NEW s \in Services, NEW r \in Requests, NEW ps \in SUBSET Providers,
               BeginCreate(c, u, s, r, ps)
        PROVE  SelectedInv'
    <3> DEFINE call == [NotCreating EXCEPT !.phase = "begun", !.user = u, !.service = s,
                           !.request = r, !.providers = ps, !.prices = services[s].prices]
    <3>1. creating' = [creating EXCEPT ![c] = call] /\ UNCHANGED mailboxes
      BY <2>4 DEF BeginCreate
    <3>2. call.phase # "selected"
      BY DEF NotCreating
    <3> HIDE DEF call
    <3>3. QED
      BY <2>3, <3>1, <3>2
  <2>5. CASE AbortCreate(c)
    <3>1. creating' = [creating EXCEPT ![c] = NotCreating] /\ UNCHANGED mailboxes
      BY <2>5 DEF AbortCreate
    <3>2. NotCreating.phase # "selected"
      BY DEF NotCreating
    <3>3. QED
      BY <2>3, <3>1, <3>2
  <2>6. QED
    BY <1>1, <2>1, <2>2, <2>4, <2>5 DEF ClientStep
<1>2. ASSUME NEW o \in OrderIds, OrderStep(o)
      PROVE  SelectedInv'
  <2>1. CASE PassDeadline(o) \/ CompleteOrder(o)
    BY <1>a, <2>1 DEF PassDeadline, CompleteOrder
  <2>2. CASE ~(PassDeadline(o) \/ CompleteOrder(o))
    <3>1. orders[o].mailbox \in Mailboxes /\ MailboxRowFree(orders[o].mailbox) /\ UNCHANGED creating
      BY <1>0, <1>2, <2>2 DEF OrderStep, ReceiveCode, CancelOrder, ReapExpired, ReconcileInvalidMailboxOrders,
                              Waiting, OrdersOK
    <3>2. \A n \in Mailboxes : n # orders[o].mailbox => mailboxes'[n] = mailboxes[n]
      BY <1>0, <1>2, <2>2, <3>1 DEF OrderStep, ReceiveCode, CancelOrder, ReapExpired, ReconcileInvalidMailboxOrders, TypeOK
    <3>3. QED
      BY <3>1, <3>2, FreeMailboxMoves
  <2>3. QED
    BY <2>1, <2>2
<1>3. ASSUME NEW m \in Mailboxes, MailboxStep(m)
      PROVE  SelectedInv'
  <2>1. CASE MarkVerified(m)
    BY <2>1, FreeRowWritten DEF MarkVerified
  <2>2. CASE MarkFailed(m)
    BY <2>2, FreeRowWritten DEF MarkFailed
  <2>3. CASE ~MarkVerified(m) /\ ~MarkFailed(m)
    BY <1>3, <1>a, <2>3 DEF MailboxStep, MarkMailboxServiceConsumed, MarkMailboxServiceRegistered
  <2>4. QED
    BY <2>1, <2>2, <2>3
<1>4. ASSUME NEW a \in Admins, SessionStep(a)
      PROVE  SelectedInv'
  <2>1. ASSUME NEW q \in SaveRequests, SaveMailbox(a, q.state, q.verification)
        PROVE  SelectedInv'
    <3>1. sessions[a].mailbox \in Mailboxes
      BY <1>0, <2>1 DEF SaveMailbox, SessionsOK
    <3>2. \A n \in Mailboxes : n # sessions[a].mailbox => mailboxes'[n] = mailboxes[n]
      BY <1>0, <2>1, <3>1 DEF SaveMailbox, TypeOK
    <3>3. QED
      BY <2>1, <3>2, FreeMailboxMoves DEF SaveMailbox
  <2>2. CASE DeleteMailbox(a)
    <3>1. \A n \in Mailboxes : n # sessions[a].mailbox => mailboxes'[n] = mailboxes[n]
      BY <1>0, <2>2 DEF DeleteMailbox, TypeOK
    <3>2. QED
      BY <2>2, <3>1, FreeMailboxMoves DEF DeleteMailbox
  <2>3. QED
    BY <1>4, <1>a, <2>1, <2>2 DEF SessionStep, ReadMailbox, ReadService, DeleteService, AbortSession
<1>5. ASSUME NEW u \in Users, NEW amount \in AdjustAmounts, AdjustBalance(u, amount)
      PROVE  SelectedInv'
  BY <1>5, <1>a DEF AdjustBalance
<1>6. ASSUME NEW s \in Services, NEW row \in [state : {"enabled", "disabled"}, prices : PriceTables], SaveService(s, row)
      PROVE  SelectedInv'
  BY <1>6, <1>a DEF SaveService
<1>7. ASSUME NEW batch \in SUBSET Mailboxes, DeleteInvalidMailboxes(batch)
      PROVE  SelectedInv'
  <2>1. UNCHANGED creating /\ \A m \in Mailboxes : mailboxes'[m] # mailboxes[m] => MailboxRowFree(m)
    BY <1>7 DEF DeleteInvalidMailboxes
  <2>2. QED
    BY <2>1, FreeMailboxMoves
<1>8. CASE UNCHANGED vars
  BY <1>8, <1>a DEF vars
<1>9. QED
  BY <1>1, <1>2, <1>3, <1>4, <1>5, <1>6, <1>7, <1>8 DEF Next

-----------------------------------------------------------------------------
(* Whose rows they are.  The order a mailbox row names, and the one named  *)
(* in the copy SaveMailbox has read, is an order of that mailbox: what     *)
(* happens to one mailbox never reaches the orders of another.             *)

OfMailbox(o, m) == o # None => orders[o].status # "none" /\ orders[o].mailbox = m

OwnedRows ==
    /\ \A m \in Mailboxes : OfMailbox(mailboxes[m].active, m)
    /\ \A a \in Admins : sessions[a].op = "saveMailbox" => OfMailbox(sessions[a].row.active, sessions[a].mailbox)

\* An order keeps its mailbox and its service.
LEMMA MailboxKept ==
    ASSUME TypeInv, [Next]_vars, NEW o \in OrderIds, orders[o].status # "none"
    PROVE  orders'[o].status # "none" /\ orders'[o].mailbox = orders[o].mailbox /\ orders'[o].service = orders[o].service
<1>1. CASE Still
  BY <1>1 DEF Still, Kept
<1>2. ASSUME NEW p \in OrderIds, Creates(p)
      PROVE  Kept(o) /\ orders'[o].status = orders[o].status
  BY <1>2, CreationFacts DEF Creates, Advances
<1>3. ASSUME NEW p \in OrderIds, Receives(p) \/ Completes(p) \/ Refunds(p)
      PROVE  Kept(o) /\ orders'[o].status # "none"
  BY <1>3 DEF Receives, Completes, Refunds, Advances
<1>4. QED
  BY <1>1, <1>2, <1>3, OrderMoves DEF Kept

LEMMA OwnerKept ==
    ASSUME TypeInv, [Next]_vars, NEW o \in OrderIds \cup {None}, NEW m, OfMailbox(o, m)
    PROVE  OfMailbox(o, m)'
BY MailboxKept DEF OfMailbox

\* The order a row names after a step is the one it named, none, the new order
\* of its mailbox, or the one in the copy a session holds of it.
LEMMA ActiveMoves ==
    ASSUME TypeInv, [Next]_vars, NEW m \in Mailboxes
    PROVE  \/ mailboxes'[m].active \in {mailboxes[m].active, None}
           \/ \E c \in Clients, o \in OrderIds : CommitOrder(c, o) /\ creating[c].mailbox = m /\ mailboxes'[m].active = o
           \/ \E a \in Admins : /\ sessions[a].op = "saveMailbox" /\ sessions[a].mailbox = m
                                /\ mailboxes'[m].active = sessions[a].row.active
<1> DEFINE Outcome ==
      \/ mailboxes'[m].active \in {mailboxes[m].active, None}
      \/ \E c \in Clients, o \in OrderIds : CommitOrder(c, o) /\ creating[c].mailbox = m /\ mailboxes'[m].active = o
      \/ \E a \in Admins : /\ sessions[a].op = "saveMailbox" /\ sessions[a].mailbox = m
                           /\ mailboxes'[m].active = sessions[a].row.active
<1>0. TypeOK /\ mailboxes[m] \in Mailbox
  BY DEF TypeInv, TypeOK
<1>a. ASSUME mailboxes'[m] = mailboxes[m] PROVE Outcome
  BY <1>a
<1>b. ASSUME NEW n \in Mailboxes, NEW row, mailboxes' = [mailboxes EXCEPT ![n] = row],
             n = m => row.active \in {mailboxes[m].active, None}
      PROVE  Outcome
  BY <1>0, <1>b DEF TypeOK
<1>1. ASSUME NEW c \in Clients, ClientStep(c)
      PROVE  Outcome
  <2>1. ASSUME NEW o \in OrderIds, CommitOrder(c, o)
        PROVE  Outcome
    <3>1. mailboxes' = [mailboxes EXCEPT ![creating[c].mailbox] = [@ EXCEPT !.state = "leased", !.active = o]]
      BY <2>1 DEF CommitOrder
    <3>2. CASE creating[c].mailbox = m
      BY <1>0, <2>1, <3>1, <3>2 DEF TypeOK, Mailbox
    <3>3. CASE creating[c].mailbox # m
      BY <1>0, <3>1, <3>3 DEF TypeOK
    <3>4. QED
      BY <3>2, <3>3
  <2>2. CASE \A o \in OrderIds : ~CommitOrder(c, o)
    BY <1>1, <1>a, <2>2 DEF ClientStep, BeginCreate, SelectMailbox, AbortCreate
  <2>3. QED
    BY <2>1, <2>2
<1>2. ASSUME NEW o \in OrderIds, OrderStep(o)
      PROVE  Outcome
  <2>1. CASE PassDeadline(o) \/ CompleteOrder(o)
    BY <1>a, <2>1 DEF PassDeadline, CompleteOrder
  <2>2. CASE ReceiveCode(o) \/ CancelOrder(o) \/ ReapExpired(o)
    <3>1. /\ mailboxes' = [mailboxes EXCEPT ![orders[o].mailbox] = FreedMailbox(mailboxes[orders[o].mailbox])]
          /\ orders[o].mailbox \in Mailboxes
      BY <2>2 DEF ReceiveCode, CancelOrder, ReapExpired, Waiting, TypeInv, OrdersOK
    <3>2. FreedMailbox(mailboxes[m]).active \in {mailboxes[m].active, None}
      BY <1>0 DEF FreedMailbox, Mailbox
    <3>3. QED
      BY <1>b, <3>1, <3>2
  <2>3. CASE ReconcileInvalidMailboxOrders(o)
    <3> DEFINE n == orders[o].mailbox
               row == [mailboxes[n] EXCEPT !.active = None,
                         !.state = IF mailboxes[n].state = "blocked" THEN "available" ELSE "auth_error"]
    <3>1. mailboxes' = [mailboxes EXCEPT ![n] = row] /\ n \in Mailboxes
      BY <2>3 DEF ReconcileInvalidMailboxOrders, Waiting, TypeInv, OrdersOK
    <3>2. row.active = None
      BY <1>0, <3>1 DEF TypeOK, Mailbox
    <3> HIDE DEF row
    <3>3. QED
      BY <1>b, <3>1, <3>2
  <2>4. QED
    BY <1>2, <2>1, <2>2, <2>3 DEF OrderStep
<1>3. ASSUME NEW n \in Mailboxes, MailboxStep(n)
      PROVE  Outcome
  <2>0. mailboxes[n] \in Mailbox
    BY <1>0 DEF TypeOK
  <2>1. CASE MarkVerified(n)
    <3>1. VerifiedMailbox(mailboxes[n]).active = mailboxes[n].active
      BY <2>0 DEF VerifiedMailbox, Mailbox
    <3>2. QED
      BY <1>b, <2>1, <3>1 DEF MarkVerified
  <2>2. CASE MarkFailed(n)
    <3>1. FailedMailbox(mailboxes[n]).active = None
      BY <2>0 DEF FailedMailbox, Mailbox
    <3>2. QED
      BY <1>b, <2>2, <3>1 DEF MarkFailed
  <2>3. CASE ~MarkVerified(n) /\ ~MarkFailed(n)
    BY <1>3, <1>a, <2>3 DEF MailboxStep, MarkMailboxServiceConsumed, MarkMailboxServiceRegistered
  <2>4. QED
    BY <2>1, <2>2, <2>3
<1>4. ASSUME NEW a \in Admins, SessionStep(a)
      PROVE  Outcome
  <2>1. ASSUME NEW q \in SaveRequests, SaveMailbox(a, q.state, q.verification)
        PROVE  Outcome
    <3>1. /\ sessions[a].op = "saveMailbox"
          /\ mailboxes' = [mailboxes EXCEPT ![sessions[a].mailbox] = SavedMailbox(sessions[a].row, q.state, q.verification)]
      BY <2>1 DEF SaveMailbox
    <3>2. SavedMailbox(sessions[a].row, q.state, q.verification).active \in {sessions[a].row.active, None}
      BY <1>0 DEF SavedMailbox, TypeOK, Session, Mailbox
    <3>3. CASE sessions[a].mailbox = m
      BY <1>0, <3>1, <3>2, <3>3 DEF TypeOK
    <3>4. CASE sessions[a].mailbox # m
      BY <1>0, <3>1, <3>4 DEF TypeOK
    <3>5. QED
      BY <3>3, <3>4
  <2>2. CASE DeleteMailbox(a)
    <3>1. mailboxes' = [mailboxes EXCEPT ![sessions[a].mailbox] = NoMailbox]
      BY <2>2 DEF DeleteMailbox
    <3>2. NoMailbox.active = None
      BY DEF NoMailbox
    <3>3. QED
      BY <1>0, <3>1, <3>2 DEF TypeOK
  <2>3. QED
    BY <1>4, <1>a, <2>1, <2>2 DEF SessionStep, ReadMailbox, ReadService, DeleteService, AbortSession
<1>5. ASSUME NEW batch \in SUBSET Mailboxes, DeleteInvalidMailboxes(batch)
      PROVE  Outcome
  BY <1>5 DEF DeleteInvalidMailboxes, NoMailbox
<1>6. ASSUME NEW u \in Users, NEW amount \in AdjustAmounts, AdjustBalance(u, amount)
      PROVE  Outcome
  BY <1>6, <1>a DEF AdjustBalance
<1>7. ASSUME NEW s \in Services, NEW row \in [state : {"enabled", "disabled"}, prices : PriceTables], SaveService(s, row)
      PROVE  Outcome
  BY <1>7, <1>a DEF SaveService
<1>8. ASSUME UNCHANGED vars
      PROVE  Outcome
  BY <1>8, <1>a DEF vars
<1> HIDE DEF Outcome
<1>9. Outcome
  BY <1>1, <1>2, <1>3, <1>4, <1>5, <1>6, <1>7, <1>8 DEF Next
<1>10. QED
  BY <1>9 DEF Outcome

\* A session keeps its copy of a row, ends, or has just read the row.
LEMMA SessionMoves ==
    ASSUME TypeInv, [Next]_vars, NEW a \in Admins, sessions'[a].op = "saveMailbox"
    PROVE  \/ sessions'[a] = sessions[a]
           \/ /\ UNCHANGED <<mailboxes, lost>>
              /\ sessions'[a].mailbox \in Mailboxes /\ sessions'[a].row = mailboxes[sessions'[a].mailbox]
<1> DEFINE Outcome == \/ sessions'[a] = sessions[a]
                      \/ /\ UNCHANGED <<mailboxes, lost>>
                         /\ sessions'[a].mailbox \in Mailboxes /\ sessions'[a].row = mailboxes[sessions'[a].mailbox]
<1>0. TypeOK /\ NoSession.op = "idle"
  BY DEF TypeInv, NoSession
<1>a. ASSUME sessions' = sessions PROVE Outcome
  BY <1>a
<1>b. ASSUME NEW b \in Admins, NEW entry, sessions' = [sessions EXCEPT ![b] = entry], entry.op # "saveMailbox"
      PROVE  Outcome
  BY <1>0, <1>b DEF TypeOK
<1>1. ASSUME NEW b \in Admins, SessionStep(b)
      PROVE  Outcome
  <2>1. ASSUME NEW m \in Mailboxes, ReadMailbox(b, m)
        PROVE  Outcome
    <3>1. PICK op \in {"saveMailbox", "deleteMailbox"} :
              sessions' = [sessions EXCEPT ![b] = [NoSession EXCEPT !.op = op, !.mailbox = m, !.row = mailboxes[m]]]
      BY <2>1 DEF ReadMailbox
    <3> DEFINE entry == [NoSession EXCEPT !.op = op, !.mailbox = m, !.row = mailboxes[m]]
    <3>2. entry.mailbox = m /\ entry.row = mailboxes[m]
      BY DEF NoSession
    <3>3. sessions' = [sessions EXCEPT ![b] = entry] /\ UNCHANGED <<mailboxes, lost>>
      BY <2>1, <3>1 DEF ReadMailbox
    <3> HIDE DEF entry
    <3>4. QED
      BY <1>0, <3>2, <3>3 DEF TypeOK
  <2>2. ASSUME NEW s \in Services, ReadService(b, s)
        PROVE  Outcome
    <3> DEFINE entry == [NoSession EXCEPT !.op = "deleteService", !.service = s]
    <3>1. entry.op # "saveMailbox" /\ sessions' = [sessions EXCEPT ![b] = entry]
      BY <2>2 DEF ReadService, NoSession
    <3>2. QED
      BY <1>b, <3>1
  <2>3. CASE sessions' = [sessions EXCEPT ![b] = NoSession]
    BY <1>0, <1>b, <2>3
  <2>4. QED
    BY <1>1, <2>1, <2>2, <2>3 DEF SessionStep, SaveMailbox, DeleteMailbox, DeleteService, AbortSession
<1>2. ASSUME NEW o \in OrderIds, OrderStep(o)
      PROVE  Outcome
  BY <1>2, <1>a DEF OrderStep, PassDeadline, ReceiveCode, CompleteOrder, CancelOrder, ReapExpired, ReconcileInvalidMailboxOrders
<1>3. ASSUME NEW m \in Mailboxes, MailboxStep(m)
      PROVE  Outcome
  BY <1>3, <1>a DEF MailboxStep, MarkVerified, MarkFailed, MarkMailboxServiceConsumed, MarkMailboxServiceRegistered
<1>4. ASSUME NEW c \in Clients, ClientStep(c)
      PROVE  Outcome
  BY <1>4, <1>a DEF ClientStep, BeginCreate, SelectMailbox, CommitOrder, AbortCreate
<1>5. ASSUME UNCHANGED vars
      PROVE  Outcome
  BY <1>5, <1>a DEF vars
<1> HIDE DEF Outcome
<1>6. Outcome
  BY <1>1, <1>2, <1>3, <1>4, <1>5, <1>a DEF Next, AdjustBalance, SaveService, DeleteInvalidMailboxes
<1>7. QED
  BY <1>6 DEF Outcome

LEMMA OwnedStep == ASSUME TypeInv, OwnedRows, [Next]_vars PROVE OwnedRows'
<1>0. TypeOK
  BY DEF TypeInv
<1>1. ASSUME NEW m \in Mailboxes
      PROVE  OfMailbox(mailboxes[m].active, m)'
  <2>1. CASE mailboxes'[m].active = None
    BY <2>1 DEF OfMailbox
  <2>2. CASE mailboxes'[m].active = mailboxes[m].active
    <3>1. mailboxes[m].active \in OrderIds \cup {None} /\ OfMailbox(mailboxes[m].active, m)
      BY <1>0 DEF TypeOK, Mailbox, OwnedRows
    <3>2. QED
      BY <2>2, <3>1, OwnerKept DEF OfMailbox
  <2>3. ASSUME NEW c \in Clients, NEW o \in OrderIds,
               CommitOrder(c, o), creating[c].mailbox = m, mailboxes'[m].active = o
        PROVE  OfMailbox(mailboxes[m].active, m)'
    <3> DEFINE row == [NoOrder EXCEPT !.status = "waiting_code", !.user = creating[c].user,
                          !.service = creating[c].service, !.mailbox = creating[c].mailbox,
                          !.request = creating[c].request, !.price = creating[c].prices[ProviderOf[creating[c].mailbox]]]
    <3>1. orders' = [orders EXCEPT ![o] = row]
      BY <2>3 DEF CommitOrder
    <3>2. row.status = "waiting_code" /\ row.mailbox = m
      BY <2>3 DEF NoOrder
    <3> HIDE DEF row
    <3>3. QED
      BY <1>0, <2>3, <3>1, <3>2 DEF TypeOK, OfMailbox
  <2>4. ASSUME NEW a \in Admins, sessions[a].op = "saveMailbox", sessions[a].mailbox = m,
               mailboxes'[m].active = sessions[a].row.active
        PROVE  OfMailbox(mailboxes[m].active, m)'
    <3>1. sessions[a].row.active \in OrderIds \cup {None} /\ OfMailbox(sessions[a].row.active, m)
      BY <1>0, <2>4 DEF TypeOK, Session, Mailbox, OwnedRows
    <3>2. QED
      BY <2>4, <3>1, OwnerKept DEF OfMailbox
  <2>5. QED
    BY <2>1, <2>2, <2>3, <2>4, ActiveMoves
<1>2. ASSUME NEW a \in Admins, sessions'[a].op = "saveMailbox"
      PROVE  OfMailbox(sessions[a].row.active, sessions[a].mailbox)'
  <2>1. CASE sessions'[a] = sessions[a]
    <3>1. /\ sessions[a].row.active \in OrderIds \cup {None}
          /\ OfMailbox(sessions[a].row.active, sessions[a].mailbox)
      BY <1>0, <1>2, <2>1 DEF TypeOK, Session, Mailbox, OwnedRows
    <3>2. QED
      BY <2>1, <3>1, OwnerKept DEF OfMailbox
  <2>2. ASSUME UNCHANGED mailboxes, NEW m \in Mailboxes, m = sessions'[a].mailbox, sessions'[a].row = mailboxes[m]
        PROVE  OfMailbox(sessions[a].row.active, sessions[a].mailbox)'
    <3>1. OfMailbox(mailboxes[m].active, m)'
      BY <1>1
    <3>2. QED
      BY <2>2, <3>1 DEF OfMailbox
  <2>3. QED
    BY <1>2, <2>1, <2>2, SessionMoves
<1>3. QED
  BY <1>1, <1>2 DEF OwnedRows

-----------------------------------------------------------------------------
(* Leases, one mailbox at a time                                           *)

WaitingOn(m) == {o \in OrderIds : Waiting(o) /\ orders[o].mailbox = m}

\* What LeaseExclusive says of a mailbox.
LeaseOf(m) ==
    /\ \A o \in WaitingOn(m) : mailboxes[m].active = o /\ pairs[m][orders[o].service].state = "leased"
    /\ mailboxes[m].active # None => mailboxes[m].state = "leased" /\ mailboxes[m].active \in WaitingOn(m)
    /\ \A s \in Services : pairs[m][s].state = "leased" => \E o \in WaitingOn(m) : orders[o].service = s

LEMMA LeasesAreExclusive == ASSUME TypeOK PROVE LeaseExclusive <=> \A m \in Mailboxes \ lost : LeaseOf(m)
<1>1. \A m \in Mailboxes : mailboxes[m].active \in OrderIds \cup {None}
  BY DEF TypeOK, Mailbox
<1>2. QED
  BY <1>1 DEF LeaseExclusive, LeaseOf, WaitingOn

\* The copy a session has read of a mailbox no stale write has touched is leased
\* when it names an order, as the mailbox was.
ReadRows ==
    \A a \in Admins : sessions[a].op = "saveMailbox" /\ sessions[a].mailbox \notin lost =>
        (sessions[a].row.active # None => sessions[a].row.state = "leased")

\* The three things a step may do to the lease of a mailbox: nothing, end it
\* with its order, begin one with a new order.
SameWaiting(m) ==
    \A o \in OrderIds : /\ o \in WaitingOn(m)' <=> o \in WaitingOn(m)
                        /\ o \in WaitingOn(m) => orders'[o].service = orders[o].service

LeaseStands(m) ==
    /\ SameWaiting(m)
    /\ mailboxes'[m].active = mailboxes[m].active
    /\ mailboxes[m].active # None => mailboxes'[m].state = mailboxes[m].state
    /\ \A s \in Services : pairs'[m][s].state = "leased" <=> pairs[m][s].state = "leased"

LeaseEnds(m, o) ==
    /\ o \in WaitingOn(m)
    /\ WaitingOn(m)' \subseteq WaitingOn(m) \ {o}
    /\ mailboxes'[m].active = None
    /\ pairs'[m][orders[o].service].state # "leased"
    /\ \A s \in Services : s # orders[o].service => pairs'[m][s] = pairs[m][s]

LeaseBegins(m, o, s) ==
    /\ mailboxes[m].active = None
    /\ o \in WaitingOn(m)' /\ orders'[o].service = s
    /\ WaitingOn(m)' \subseteq WaitingOn(m) \cup {o}
    /\ mailboxes'[m].state = "leased" /\ mailboxes'[m].active = o
    /\ pairs'[m][s].state = "leased"
    /\ \A t \in Services : t # s => pairs'[m][t] = pairs[m][t]

LeaseMoves(m) ==
    \/ LeaseStands(m)
    \/ \E o \in OrderIds : LeaseEnds(m, o)
    \/ \E o \in OrderIds, s \in Services : LeaseBegins(m, o, s)

\* A lease that stands is as it was.
LEMMA StandKeeps == ASSUME TypeInv, NEW m \in Mailboxes, LeaseOf(m), LeaseStands(m) PROVE LeaseOf(m)'
<1>0. /\ WaitingOn(m) \subseteq OrderIds /\ WaitingOn(m)' \subseteq OrderIds
      /\ \A o \in WaitingOn(m) : orders[o].service \in Services /\ o # None
  BY ConstantsAssumption DEF WaitingOn, TypeInv, OrdersOK, Waiting
<1>1. ASSUME NEW o \in WaitingOn(m)'
      PROVE  mailboxes'[m].active = o /\ pairs'[m][orders'[o].service].state = "leased"
  <2>1. o \in WaitingOn(m) /\ orders'[o].service = orders[o].service
    BY <1>0, <1>1 DEF LeaseStands, SameWaiting
  <2>2. mailboxes[m].active = o /\ pairs[m][orders[o].service].state = "leased"
    BY <2>1 DEF LeaseOf
  <2>3. QED
    BY <1>0, <2>1, <2>2 DEF LeaseStands
<1>2. mailboxes'[m].active # None => mailboxes'[m].state = "leased"
  BY DEF LeaseOf, LeaseStands
<1>3. mailboxes'[m].active # None => mailboxes'[m].active \in WaitingOn(m)'
  BY <1>0 DEF LeaseOf, LeaseStands, SameWaiting
<1>4. ASSUME NEW s \in Services, pairs'[m][s].state = "leased"
      PROVE  \E o \in WaitingOn(m)' : orders'[o].service = s
  <2>1. PICK o \in WaitingOn(m) : orders[o].service = s
    BY <1>4 DEF LeaseOf, LeaseStands
  <2>2. QED
    BY <1>0, <2>1 DEF LeaseStands, SameWaiting
<1>5. QED
  BY <1>1, <1>2, <1>3, <1>4 DEF LeaseOf

\* An order that ends takes its lease along.
LEMMA EndKeeps ==
    ASSUME TypeInv, NEW m \in Mailboxes, LeaseOf(m), NEW o \in OrderIds, LeaseEnds(m, o)
    PROVE  LeaseOf(m)'
<1>1. \A p \in WaitingOn(m) : p = o
  BY DEF LeaseOf, LeaseEnds
<1>2. WaitingOn(m)' = {}
  BY <1>1 DEF LeaseEnds
<1>3. \A s \in Services : pairs'[m][s].state # "leased"
  BY <1>1 DEF LeaseOf, LeaseEnds
<1>4. mailboxes'[m].active = None
  BY DEF LeaseEnds
<1>5. QED
  BY <1>2, <1>3, <1>4 DEF LeaseOf

\* A new order holds its lease, and nobody held it before.
LEMMA BeginKeeps ==
    ASSUME TypeInv, NEW m \in Mailboxes, LeaseOf(m), NEW o \in OrderIds, NEW s \in Services, LeaseBegins(m, o, s)
    PROVE  LeaseOf(m)'
<1>1. o # None /\ \A p \in WaitingOn(m) : p # None
  BY ConstantsAssumption DEF WaitingOn
<1>2. WaitingOn(m) = {}
  BY <1>1 DEF LeaseOf, LeaseBegins
<1>3. WaitingOn(m)' = {o}
  BY <1>2 DEF LeaseBegins
<1>4. \A t \in Services : pairs[m][t].state # "leased"
  BY <1>2 DEF LeaseOf
<1>5. \A t \in Services : pairs'[m][t].state = "leased" => t = s
  BY <1>4 DEF LeaseBegins
<1>6. /\ mailboxes'[m].state = "leased" /\ mailboxes'[m].active = o
      /\ orders'[o].service = s /\ pairs'[m][s].state = "leased"
  BY DEF LeaseBegins
<1>7. QED
  BY <1>1, <1>3, <1>5, <1>6 DEF LeaseOf

\* A mailbox no order holds has no leased pair.
LEMMA IdlePairs ==
    ASSUME NEW m \in Mailboxes, LeaseOf(m), mailboxes[m].active = None, NEW s \in Services
    PROVE  pairs[m][s].state # "leased"
BY ConstantsAssumption DEF LeaseOf, WaitingOn

\* A step that leaves the orders alone leaves those waiting on a mailbox.
LEMMA WaitingStands == ASSUME UNCHANGED orders, NEW m PROVE SameWaiting(m)
BY DEF SameWaiting, WaitingOn, Waiting

\* A lease stands when order, row and pairs of its mailbox do.
LEMMA RowsStand ==
    ASSUME NEW m \in Mailboxes, SameWaiting(m), mailboxes'[m] = mailboxes[m],
           \A s \in Services : pairs'[m][s] = pairs[m][s]
    PROVE  LeaseStands(m)
BY DEF LeaseStands

\* What an order does that ends on its mailbox n, freeing it.
LEMMA EndsOnly ==
    ASSUME TypeInv, NEW o \in OrderIds, Waiting(o), NEW n \in Mailboxes, n = orders[o].mailbox,
           orders'[o].status # "waiting_code",
           \A p \in OrderIds : Kept(p) /\ (p # o => orders'[p].status = orders[p].status),
           NEW row, row.active = None, mailboxes' = [mailboxes EXCEPT ![n] = row],
           pairs'[n][orders[o].service].state # "leased",
           \A m \in Mailboxes, s \in Services :
              ~(m = n /\ s = orders[o].service) => pairs'[m][s] = pairs[m][s],
           NEW m \in Mailboxes
    PROVE  LeaseStands(m) \/ LeaseEnds(m, o)
<1>1. mailboxes'[n] = row /\ \A k \in Mailboxes : k # n => mailboxes'[k] = mailboxes[k]
  BY DEF TypeInv, TypeOK
<1>2. CASE m = n
  <2>1. o \in WaitingOn(m) /\ WaitingOn(m)' \subseteq WaitingOn(m) \ {o}
    BY <1>2 DEF WaitingOn, Waiting, Kept
  <2>2. LeaseEnds(m, o)
    BY <1>1, <1>2, <2>1 DEF LeaseEnds
  <2>3. QED
    BY <2>2
<1>3. CASE m # n
  <2>1. SameWaiting(m)
    BY <1>3 DEF SameWaiting, WaitingOn, Waiting, Kept
  <2>2. QED
    BY <1>1, <1>3, <2>1, RowsStand
<1>4. QED
  BY <1>2, <1>3

\* A refund that frees its mailbox ends the lease, and touches no other.
LEMMA RefundEndsLease ==
    ASSUME TypeInv, NEW o \in OrderIds, Waiting(o), NEW status \in {"canceled", "expired_refunded"},
           refundOrder(o, status), NEW row, row.active = None,
           mailboxes' = [mailboxes EXCEPT ![orders[o].mailbox] = row],
           NEW m \in Mailboxes
    PROVE  LeaseStands(m) \/ LeaseEnds(m, o)
<1>1. /\ orders[o].mailbox \in Mailboxes /\ orders[o].service \in Services
      /\ \A n \in Mailboxes, s \in Services :
            pairs'[n][s] = IF n = orders[o].mailbox /\ s = orders[o].service
                           THEN ReleasedPair(pairs[n][s], status) ELSE pairs[n][s]
  BY RefundReleases
<1>2. orders' = [orders EXCEPT ![o] = [@ EXCEPT !.status = status, !.refunded = TRUE]]
  BY DEF refundOrder
<1>3. orders'[o].status = status /\ \A p \in OrderIds : Kept(p) /\ (p # o => orders'[p].status = orders[p].status)
  BY <1>2 DEF TypeInv, TypeOK, Order, Kept
<1>4. \A n \in Mailboxes, s \in Services : ReleasedPair(pairs[n][s], status).state # "leased"
  BY DEF ReleasedPair, nextTimeoutState, TypeInv, TypeOK, Pair
<1>5. PICK n \in Mailboxes : n = orders[o].mailbox
  BY <1>1
<1>6. orders'[o].status # "waiting_code" /\ pairs'[n][orders[o].service].state # "leased"
  BY <1>1, <1>3, <1>4, <1>5
<1>7. \A k \in Mailboxes, s \in Services :
         ~(k = n /\ s = orders[o].service) => pairs'[k][s] = pairs[k][s]
  BY <1>1, <1>5
<1>8. mailboxes' = [mailboxes EXCEPT ![n] = row]
  BY <1>5
<1>9. QED
  BY <1>3, <1>5, <1>6, <1>7, <1>8, EndsOnly, Zenon

\* CommitOrder begins a lease, unless its pair had been consumed or deleted.
LEMMA CommitBegins ==
    ASSUME TypeInv, SelectedInv, NEW c \in Clients, NEW o \in OrderIds, CommitOrder(c, o),
           NEW m \in Mailboxes, m \notin lost'
    PROVE  LeaseStands(m) \/ \E s \in Services : LeaseBegins(m, o, s)
<1> DEFINE row == [NoOrder EXCEPT !.status = "waiting_code", !.user = creating[c].user,
                      !.service = creating[c].service, !.mailbox = creating[c].mailbox,
                      !.request = creating[c].request, !.price = creating[c].prices[ProviderOf[creating[c].mailbox]]]
<1>1. PICK n \in Mailboxes, s \in Services :
          /\ n = creating[c].mailbox /\ s = creating[c].service
          /\ Loses(n, pairs[n][s].state \in {"consumed", "absent"})
          /\ \A k \in Mailboxes, t \in Services :
                pairs'[k][t] = IF k = n /\ t = s /\ pairs[n][s].state # "absent"
                               THEN [pairs[n][s] EXCEPT !.state = "leased"] ELSE pairs[k][t]
  BY CommitLeases
<1>2. orders' = [orders EXCEPT ![o] = row] /\ orders[o].status = "none"
  BY DEF CommitOrder
<1>3. row.status = "waiting_code" /\ row.mailbox = n /\ row.service = s
  BY <1>1 DEF NoOrder
<1> HIDE DEF row
<1>4. orders'[o] = row /\ \A p \in OrderIds : p # o => orders'[p] = orders[p]
  BY <1>2 DEF TypeInv, TypeOK
<1>5. mailboxes' = [mailboxes EXCEPT ![n] = [@ EXCEPT !.state = "leased", !.active = o]]
  BY <1>1 DEF CommitOrder
<1>6. /\ mailboxes'[n].state = "leased" /\ mailboxes'[n].active = o
      /\ \A k \in Mailboxes : k # n => mailboxes'[k] = mailboxes[k]
  BY <1>5 DEF TypeInv, TypeOK, Mailbox
<1>7. mailboxes[n].active = None
  BY <1>1 DEF CommitOrder, SelectedInv
<1>8. CASE m = n
  <2>1. pairs[n][s].state # "absent"
    BY <1>1, <1>8 DEF Loses
  <2>2. pairs[n][s] \in Pair
    BY DEF TypeInv, TypeOK
  <2>3. pairs'[m][s].state = "leased" /\ \A t \in Services : t # s => pairs'[m][t] = pairs[m][t]
    BY <1>1, <1>8, <2>1, <2>2 DEF Pair
  <2>4. o \in WaitingOn(m)' /\ WaitingOn(m)' \subseteq WaitingOn(m) \cup {o} /\ orders'[o].service = s
    BY <1>3, <1>4, <1>8 DEF WaitingOn, Waiting
  <2>5. LeaseBegins(m, o, s)
    BY <1>6, <1>7, <1>8, <2>3, <2>4 DEF LeaseBegins
  <2>6. QED
    BY <2>5
<1>9. CASE m # n
  <2>1. SameWaiting(m)
    BY <1>2, <1>3, <1>4, <1>9 DEF SameWaiting, WaitingOn, Waiting
  <2>2. mailboxes'[m] = mailboxes[m] /\ \A t \in Services : pairs'[m][t] = pairs[m][t]
    BY <1>1, <1>6, <1>9
  <2>3. QED
    BY <2>1, <2>2, RowsStand
<1>10. QED
  BY <1>8, <1>9

\* Nor does what an order does on its mailbox n reach another.
LEMMA Elsewhere ==
    ASSUME TypeInv, NEW o \in OrderIds, NEW n \in Mailboxes, n = orders[o].mailbox,
           \A p \in OrderIds : Kept(p) /\ (p # o => orders'[p].status = orders[p].status),
           NEW row, mailboxes' = [mailboxes EXCEPT ![n] = row],
           NEW m \in Mailboxes, m # n, \A s \in Services : pairs'[m][s] = pairs[m][s]
    PROVE  LeaseStands(m)
<1>1. mailboxes'[m] = mailboxes[m]
  BY DEF TypeInv, TypeOK
<1>2. SameWaiting(m)
  BY DEF SameWaiting, WaitingOn, Waiting, Kept
<1>3. QED
  BY <1>1, <1>2, RowsStand

\* A lease stands when a row is written that names the same order.
LEMMA RowWritten ==
    ASSUME TypeInv, UNCHANGED <<orders, pairs>>, NEW n \in Mailboxes, NEW row,
           mailboxes' = [mailboxes EXCEPT ![n] = row], NEW m \in Mailboxes,
           n = m => /\ row.active = mailboxes[m].active
                    /\ row.active # None => row.state = mailboxes[m].state
    PROVE  LeaseStands(m)
<1>1. SameWaiting(m)
  BY WaitingStands
<1>2. mailboxes'[n] = row /\ (n # m => mailboxes'[m] = mailboxes[m])
  BY DEF TypeInv, TypeOK
<1>3. QED
  BY <1>1, <1>2 DEF LeaseStands

\* It stands when pairs change which are leased neither before nor after.
LEMMA PairsWritten ==
    ASSUME UNCHANGED <<orders, mailboxes>>, NEW m \in Mailboxes,
           \A s \in Services : pairs'[m][s].state = "leased" <=> pairs[m][s].state = "leased"
    PROVE  LeaseStands(m)
<1>1. SameWaiting(m)
  BY WaitingStands
<1>2. QED
  BY <1>1 DEF LeaseStands

LEMMA NothingWritten == ASSUME UNCHANGED <<orders, mailboxes, pairs>>, NEW m \in Mailboxes PROVE LeaseStands(m)
BY PairsWritten

\* ReceiveCode ends the lease of its order.
LEMMA ReceiveEnds ==
    ASSUME TypeInv, NEW o \in OrderIds, ReceiveCode(o), NEW m \in Mailboxes, LeaseOf(m)
    PROVE  LeaseStands(m) \/ LeaseEnds(m, o)
<1>1. PICK n \in Mailboxes, s \in Services : n = orders[o].mailbox /\ s = orders[o].service
  BY DEF ReceiveCode, Waiting, TypeInv, OrdersOK
<1>2. Waiting(o) /\ orders' = [orders EXCEPT ![o].status = "code_received"]
  BY DEF ReceiveCode
<1>3. /\ orders'[o].status = "code_received"
      /\ \A p \in OrderIds : Kept(p) /\ (p # o => orders'[p].status = orders[p].status)
  BY <1>2 DEF TypeInv, TypeOK, Order, Kept
<1>4. mailboxes' = [mailboxes EXCEPT ![n] = FreedMailbox(mailboxes[n])]
  BY <1>1 DEF ReceiveCode
<1>5. pairs' = IF pairs[n][s].state = "absent" THEN pairs ELSE [pairs EXCEPT ![n][s].state = "consumed"]
  BY <1>1 DEF ReceiveCode
<1>6. CASE n # m
  <2>1. \A t \in Services : pairs'[m][t] = pairs[m][t]
    BY <1>5, <1>6 DEF TypeInv, TypeOK
  <2>2. QED
    BY <1>1, <1>3, <1>4, <1>6, <2>1, Elsewhere
<1>7. CASE n = m
  <2>1. o # None /\ o \in WaitingOn(m)
    BY <1>1, <1>2, <1>7, ConstantsAssumption DEF WaitingOn
  <2>2. mailboxes[n].state = "leased" /\ pairs[n][s].state = "leased"
    BY <1>1, <1>7, <2>1 DEF LeaseOf
  <2> DEFINE row == FreedMailbox(mailboxes[n])
  <2>3. row.active = None /\ mailboxes' = [mailboxes EXCEPT ![n] = row]
    BY <1>4, <2>2 DEF FreedMailbox, TypeInv, TypeOK, Mailbox
  <2>4. pairs' = [pairs EXCEPT ![n] = [pairs[n] EXCEPT ![s] = [pairs[n][s] EXCEPT !.state = "consumed"]]]
    BY <1>5, <2>2
  <2>5. /\ pairs'[n][s].state = "consumed"
        /\ \A k \in Mailboxes, t \in Services : ~(k = n /\ t = s) => pairs'[k][t] = pairs[k][t]
    BY <2>4 DEF TypeInv, TypeOK, Pair
  <2>6. orders'[o].status # "waiting_code" /\ pairs'[n][orders[o].service].state # "leased"
    BY <1>1, <1>3, <2>5
  <2> HIDE DEF row
  <2>7. QED
    BY <1>1, <1>2, <1>3, <2>3, <2>5, <2>6, EndsOnly, Zenon
<1>8. QED
  BY <1>6, <1>7

\* A cancellation or an expiry ends the lease of its order.
LEMMA RefundOrExpiryEnds ==
    ASSUME TypeInv, NEW o \in OrderIds, CancelOrder(o) \/ ReapExpired(o), NEW m \in Mailboxes, LeaseOf(m)
    PROVE  LeaseStands(m) \/ LeaseEnds(m, o)
<1>1. PICK status \in {"canceled", "expired_refunded"} : refundOrder(o, status)
  BY DEF CancelOrder, ReapExpired
<1>2. PICK n \in Mailboxes : n = orders[o].mailbox
  BY DEF CancelOrder, ReapExpired, Waiting, TypeInv, OrdersOK
<1>3. Waiting(o) /\ mailboxes' = [mailboxes EXCEPT ![n] = FreedMailbox(mailboxes[n])]
  BY <1>2 DEF CancelOrder, ReapExpired
<1>4. CASE n # m
  <2>1. orders' = [orders EXCEPT ![o] = [@ EXCEPT !.status = status, !.refunded = TRUE]]
    BY <1>1 DEF refundOrder
  <2>2. \A p \in OrderIds : Kept(p) /\ (p # o => orders'[p].status = orders[p].status)
    BY <2>1 DEF TypeInv, TypeOK, Order, Kept
  <2>3. \A s \in Services : pairs'[m][s] = pairs[m][s]
    BY <1>1, <1>2, <1>3, <1>4, RefundReleases
  <2>4. QED
    BY <1>2, <1>3, <1>4, <2>2, <2>3, Elsewhere
<1>5. CASE n = m
  <2>1. o # None /\ o \in WaitingOn(m)
    BY <1>2, <1>3, <1>5, ConstantsAssumption DEF WaitingOn
  <2>2. mailboxes[n].state = "leased"
    BY <1>5, <2>1 DEF LeaseOf
  <2> DEFINE row == FreedMailbox(mailboxes[n])
  <2>3. row.active = None /\ mailboxes' = [mailboxes EXCEPT ![orders[o].mailbox] = row]
    BY <1>2, <1>3, <2>2 DEF FreedMailbox, TypeInv, TypeOK, Mailbox
  <2> HIDE DEF row
  <2>4. QED
    BY <1>1, <1>3, <2>3, RefundEndsLease
<1>6. QED
  BY <1>4, <1>5

\* The steps of an order: its lease ends with it, and no other.
LEMMA OrderStepLeases ==
    ASSUME TypeInv, NEW o \in OrderIds, OrderStep(o), NEW m \in Mailboxes, LeaseOf(m)
    PROVE  LeaseStands(m) \/ LeaseEnds(m, o)
<1>1. ASSUME PassDeadline(o) \/ CompleteOrder(o)
      PROVE  LeaseStands(m)
  <2>1. UNCHANGED <<mailboxes, pairs>>
    BY <1>1 DEF PassDeadline, CompleteOrder
  <2>2. \A p \in OrderIds : Kept(p) /\ (p # o => orders'[p].status = orders[p].status)
    BY <1>1 DEF PassDeadline, CompleteOrder, TypeInv, TypeOK, Order, Kept
  <2>3. Waiting(o) <=> orders'[o].status = "waiting_code"
    BY <1>1 DEF PassDeadline, CompleteOrder, Waiting, TypeInv, TypeOK, Order
  <2>4. SameWaiting(m)
    BY <2>2, <2>3 DEF SameWaiting, WaitingOn, Waiting, Kept
  <2>5. QED
    BY <2>1, <2>4, RowsStand
<1>2. ASSUME ReconcileInvalidMailboxOrders(o)
      PROVE  LeaseStands(m) \/ LeaseEnds(m, o)
  <2>1. PICK n \in Mailboxes : n = orders[o].mailbox
    BY <1>2 DEF ReconcileInvalidMailboxOrders, Waiting, TypeInv, OrdersOK
  <2> DEFINE row == [mailboxes[n] EXCEPT !.active = None, !.state = IF mailboxes[n].state = "blocked" THEN "available" ELSE "auth_error"]
  <2>2. mailboxes' = [mailboxes EXCEPT ![orders[o].mailbox] = row]
    BY <1>2, <2>1 DEF ReconcileInvalidMailboxOrders
  <2>3. row.active = None
    BY DEF TypeInv, TypeOK, Mailbox
  <2> HIDE DEF row
  <2>4. Waiting(o) /\ refundOrder(o, "expired_refunded")
    BY <1>2 DEF ReconcileInvalidMailboxOrders
  <2>5. QED
    BY <2>2, <2>3, <2>4, RefundEndsLease
<1>3. QED
  BY <1>1, <1>2, ReceiveEnds, RefundOrExpiryEnds DEF OrderStep

\* The results of a verification and of a history scan.
LEMMA MailboxStepLeases ==
    ASSUME TypeInv, OwnedRows, NEW n \in Mailboxes, MailboxStep(n), NEW m \in Mailboxes, LeaseOf(m)
    PROVE  LeaseStands(m) \/ \E o \in OrderIds : LeaseEnds(m, o)
<1>0. mailboxes[n] \in Mailbox
  BY DEF TypeInv, TypeOK
<1>1. ASSUME MarkVerified(n)
      PROVE  LeaseStands(m)
  <2>1. mailboxes' = [mailboxes EXCEPT ![n] = VerifiedMailbox(mailboxes[n])] /\ UNCHANGED <<orders, pairs>>
    BY <1>1 DEF MarkVerified
  <2>2. /\ VerifiedMailbox(mailboxes[n]).active = mailboxes[n].active
        /\ mailboxes[n].active # None => VerifiedMailbox(mailboxes[n]).state = mailboxes[n].state
    BY <1>0 DEF VerifiedMailbox, Mailbox
  <2>3. QED
    BY <2>1, <2>2, RowWritten
<1>2. ASSUME MarkFailed(n)
      PROVE  LeaseStands(m) \/ \E o \in OrderIds : LeaseEnds(m, o)
  <2>1. mailboxes' = [mailboxes EXCEPT ![n] = FailedMailbox(mailboxes[n])]
    BY <1>2 DEF MarkFailed
  <2>2. FailedMailbox(mailboxes[n]).active = None
    BY <1>0 DEF FailedMailbox, Mailbox
  <2>3. ASSUME NEW o \in OrderIds, o = mailboxes[n].active, Waiting(o)
        PROVE  LeaseStands(m) \/ LeaseEnds(m, o)
    <3>1. o # None
      BY ConstantsAssumption
    <3>2. orders[o].mailbox = n
      BY <2>3, <3>1 DEF OwnedRows, OfMailbox
    <3>3. refundOrder(o, "expired_refunded")
      BY <1>2, <2>3, <3>1 DEF MarkFailed
    <3> DEFINE row == FailedMailbox(mailboxes[n])
    <3>4. mailboxes' = [mailboxes EXCEPT ![orders[o].mailbox] = row] /\ row.active = None
      BY <2>1, <2>2, <3>2
    <3> HIDE DEF row
    <3>5. QED
      BY <2>3, <3>3, <3>4, RefundEndsLease
  <2>4. ASSUME ~(mailboxes[n].active # None /\ Waiting(mailboxes[n].active))
        PROVE  LeaseStands(m)
    <3>1. UNCHANGED <<orders, pairs>>
      BY <1>2, <2>4 DEF MarkFailed
    <3>2. n = m => mailboxes[n].active = None
      BY <2>4 DEF LeaseOf, WaitingOn
    <3>3. QED
      BY <2>1, <2>2, <3>1, <3>2, RowWritten
  <2>5. mailboxes[n].active \in OrderIds \cup {None}
    BY <1>0 DEF Mailbox
  <2>6. QED
    BY <2>3, <2>4, <2>5
<1>3. ASSUME NEW s \in Services, MarkMailboxServiceConsumed(n, s) \/ MarkMailboxServiceRegistered(n, s)
      PROVE  LeaseStands(m)
  <2>1. pairs' = [pairs EXCEPT ![n][s].state = "consumed"] /\ UNCHANGED <<orders, mailboxes>> /\ pairs[n][s].state # "leased"
    BY <1>3 DEF MarkMailboxServiceConsumed, MarkMailboxServiceRegistered
  <2>2. pairs' = [pairs EXCEPT ![n] = [pairs[n] EXCEPT ![s] = [pairs[n][s] EXCEPT !.state = "consumed"]]]
    BY <2>1
  <2>3. /\ pairs'[n][s].state = "consumed"
        /\ \A k \in Mailboxes, t \in Services : ~(k = n /\ t = s) => pairs'[k][t] = pairs[k][t]
    BY <2>2 DEF TypeInv, TypeOK, Pair
  <2>4. \A t \in Services : pairs'[m][t].state = "leased" <=> pairs[m][t].state = "leased"
    BY <2>1, <2>3
  <2>5. QED
    BY <2>1, <2>4, PairsWritten
<1>4. QED
  BY <1>1, <1>2, <1>3 DEF MailboxStep

\* SaveMailbox writes back the row it has read; the order it names is the one
\* the mailbox still names, unless the write touches the mailbox.
LEMMA SaveStands ==
    ASSUME TypeInv, ReadRows, NEW a \in Admins, NEW q \in SaveRequests, SaveMailbox(a, q.state, q.verification),
           NEW m \in Mailboxes, LeaseOf(m), m \notin lost'
    PROVE  LeaseStands(m)
<1>1. PICK n \in Mailboxes : n = sessions[a].mailbox
  BY DEF SaveMailbox, TypeInv, SessionsOK
<1> DEFINE read == sessions[a].row
           row == SavedMailbox(read, q.state, q.verification)
<1>2. mailboxes' = [mailboxes EXCEPT ![n] = row] /\ UNCHANGED orders
  BY <1>1 DEF SaveMailbox
<1>3. n = m => row.active = mailboxes[m].active /\ (row.active # None => row.state = mailboxes[m].state)
  <2>1. SUFFICES ASSUME n = m
                 PROVE  row.active = mailboxes[m].active /\ (row.active # None => row.state = mailboxes[m].state)
    OBVIOUS
  <2>2. m \notin lost /\ mailboxes[m].active = read.active
    BY <1>1, <2>1 DEF SaveMailbox, Loses
  <2>3. read.active # None => read.state = "leased"
    BY <1>1, <2>1, <2>2 DEF ReadRows, SaveMailbox
  <2>4. read \in Mailbox
    BY DEF TypeInv, TypeOK, Session
  <2>5. CASE read.active = None
    BY <2>2, <2>4, <2>5 DEF SavedMailbox, Mailbox
  <2>6. CASE read.active # None
    <3>1. row.active = read.active /\ row.state = "leased"
      BY <2>3, <2>4, <2>6 DEF SavedMailbox, Mailbox
    <3>2. mailboxes[m].state = "leased"
      BY <2>2, <2>6 DEF LeaseOf
    <3>3. QED
      BY <2>2, <3>1, <3>2
  <2>7. QED
    BY <2>5, <2>6
<1> HIDE DEF row
<1>4. mailboxes'[n] = row /\ (n # m => mailboxes'[m] = mailboxes[m])
  BY <1>2 DEF TypeInv, TypeOK
<1>5. pairs' = [pairs EXCEPT ![n] = [s \in Services |->
          IF services[s].state = "absent" THEN pairs[n][s] ELSE EnsuredPair(pairs[n][s])]]
  BY <1>1 DEF SaveMailbox
<1>6. \A s \in Services : EnsuredPair(pairs[n][s]).state = "leased" <=> pairs[n][s].state = "leased"
  BY DEF EnsuredPair, FreshPair
<1>7. \A s \in Services : pairs'[m][s].state = "leased" <=> pairs[m][s].state = "leased"
  BY <1>5, <1>6 DEF TypeInv, TypeOK
<1>8. SameWaiting(m)
  BY <1>2, WaitingStands
<1>9. QED
  BY <1>3, <1>4, <1>7, <1>8 DEF LeaseStands

\* A deletion that no order waits for frees nothing that is leased.
LEMMA DeletionStands ==
    ASSUME TypeInv, NEW a \in Admins, DeleteMailbox(a) \/ DeleteService(a),
           NEW m \in Mailboxes, LeaseOf(m), m \notin lost'
    PROVE  LeaseStands(m)
<1>1. ASSUME DeleteMailbox(a)
      PROVE  LeaseStands(m)
  <2>1. PICK n \in Mailboxes : n = sessions[a].mailbox
    BY <1>1 DEF DeleteMailbox, TypeInv, SessionsOK
  <2>2. /\ mailboxes' = [mailboxes EXCEPT ![n] = NoMailbox] /\ UNCHANGED orders
        /\ pairs' = [pairs EXCEPT ![n] = [s \in Services |-> NoPair]]
        /\ Loses(n, mailboxes[n].active # None)
    BY <1>1, <2>1 DEF DeleteMailbox
  <2>3. SameWaiting(m)
    BY <2>2, WaitingStands
  <2>4. CASE n # m
    <3>1. mailboxes'[m] = mailboxes[m] /\ \A s \in Services : pairs'[m][s] = pairs[m][s]
      BY <2>2, <2>4 DEF TypeInv, TypeOK
    <3>2. QED
      BY <2>3, <3>1, RowsStand
  <2>5. CASE n = m
    <3>1. mailboxes[m].active = None
      BY <2>2, <2>5 DEF Loses
    <3>2. \A s \in Services : pairs[m][s].state # "leased"
      BY <3>1, IdlePairs
    <3>3. mailboxes'[m] = NoMailbox /\ \A s \in Services : pairs'[m][s] = NoPair
      BY <2>2, <2>5 DEF TypeInv, TypeOK
    <3>4. QED
      BY <2>3, <3>1, <3>2, <3>3 DEF LeaseStands, NoMailbox, NoPair
  <2>6. QED
    BY <2>4, <2>5
<1>2. ASSUME DeleteService(a)
      PROVE  LeaseStands(m)
  <2>1. PICK s \in Services : s = sessions[a].service
    BY <1>2 DEF DeleteService, TypeInv, SessionsOK
  <2>2. /\ pairs' = [k \in Mailboxes |-> [pairs[k] EXCEPT ![s] = NoPair]] /\ UNCHANGED <<orders, mailboxes>>
        /\ lost' = lost \cup {orders[o].mailbox : o \in {p \in OrderIds : Waiting(p) /\ orders[p].service = s}}
    BY <1>2, <2>1 DEF DeleteService
  <2>3. \A o \in WaitingOn(m) : orders[o].service # s
    BY <2>2 DEF WaitingOn
  <2>4. pairs[m][s].state # "leased"
    BY <2>3 DEF LeaseOf
  <2>5. \A t \in Services : pairs'[m][t] = IF t = s THEN NoPair ELSE pairs[m][t]
    BY <2>2 DEF TypeInv, TypeOK
  <2>6. \A t \in Services : pairs'[m][t].state = "leased" <=> pairs[m][t].state = "leased"
    BY <2>4, <2>5 DEF NoPair
  <2>7. QED
    BY <2>2, <2>6, PairsWritten
<1>3. QED
  BY <1>1, <1>2

\* Every step leaves the lease of a mailbox standing, ends it with its order,
\* or begins one with a new order, unless it touches the mailbox.
LEMMA EveryLeaseMoves ==
    ASSUME TypeInv, SelectedInv, OwnedRows, ReadRows, [Next]_vars,
           NEW m \in Mailboxes, LeaseOf(m), m \notin lost'
    PROVE  LeaseMoves(m)
<1> USE DEF LeaseMoves
<1>1. ASSUME NEW c \in Clients, ClientStep(c)
      PROVE  LeaseMoves(m)
  BY <1>1, CommitBegins, NothingWritten DEF ClientStep, BeginCreate, SelectMailbox, AbortCreate
<1>2. ASSUME NEW o \in OrderIds, OrderStep(o)
      PROVE  LeaseMoves(m)
  BY <1>2, OrderStepLeases
<1>3. ASSUME NEW n \in Mailboxes, MailboxStep(n)
      PROVE  LeaseMoves(m)
  BY <1>3, MailboxStepLeases
<1>4. ASSUME NEW a \in Admins, SessionStep(a)
      PROVE  LeaseMoves(m)
  BY <1>4, SaveStands, DeletionStands, NothingWritten DEF SessionStep, ReadMailbox, ReadService, AbortSession
<1>5. ASSUME NEW u \in Users, NEW amount \in AdjustAmounts, AdjustBalance(u, amount)
      PROVE  LeaseMoves(m)
  BY <1>5, NothingWritten DEF AdjustBalance
<1>6. ASSUME NEW s \in Services, NEW row \in [state : {"enabled", "disabled"}, prices : PriceTables], SaveService(s, row)
      PROVE  LeaseMoves(m)
  <2>1. pairs' = [n \in Mailboxes |-> [pairs[n] EXCEPT ![s] =
            IF mailboxes[n].state = "absent" THEN pairs[n][s] ELSE EnsuredPair(pairs[n][s])]]
    BY <1>6 DEF SaveService
  <2>2. \A t \in Services : pairs'[m][t] = pairs[m][t] \/ pairs'[m][t] = EnsuredPair(pairs[m][t])
    BY <2>1 DEF TypeInv, TypeOK
  <2>3. \A t \in Services : pairs'[m][t].state = "leased" <=> pairs[m][t].state = "leased"
    BY <2>2 DEF EnsuredPair, FreshPair
  <2>4. QED
    BY <1>6, <2>3, PairsWritten DEF SaveService
<1>7. ASSUME NEW batch \in SUBSET Mailboxes, DeleteInvalidMailboxes(batch)
      PROVE  LeaseMoves(m)
  <2>1. m \in batch => mailboxes[m].active = None /\ \A s \in Services : pairs[m][s].state # "leased"
    BY <1>7, IdlePairs DEF DeleteInvalidMailboxes
  <2>2. mailboxes'[m] = IF m \in batch THEN NoMailbox ELSE mailboxes[m]
    BY <1>7 DEF DeleteInvalidMailboxes
  <2>3. \A s \in Services : pairs'[m][s] = IF m \in batch THEN NoPair ELSE pairs[m][s]
    BY <1>7 DEF DeleteInvalidMailboxes
  <2>4. SameWaiting(m)
    BY <1>7, WaitingStands DEF DeleteInvalidMailboxes
  <2>5. LeaseStands(m)
    BY <2>1, <2>2, <2>3, <2>4 DEF LeaseStands, NoMailbox, NoPair
  <2>6. QED
    BY <2>5
<1>8. ASSUME UNCHANGED vars
      PROVE  LeaseMoves(m)
  BY <1>8, NothingWritten DEF vars
<1>9. QED
  BY <1>1, <1>2, <1>3, <1>4, <1>5, <1>6, <1>7, <1>8 DEF Next

\* A session reads a mailbox whose row and lease agree.
LEMMA ReadRowsStep ==
    ASSUME TypeInv, ReadRows, \A m \in Mailboxes \ lost : LeaseOf(m), [Next]_vars
    PROVE  ReadRows'
<1>1. lost \subseteq lost'
  BY PairsMove DEF AllPairsMove
<1>2. SUFFICES ASSUME NEW a \in Admins, sessions'[a].op = "saveMailbox", sessions'[a].mailbox \notin lost'
               PROVE  sessions'[a].row.active # None => sessions'[a].row.state = "leased"
  BY DEF ReadRows
<1>3. CASE sessions'[a] = sessions[a]
  BY <1>1, <1>2, <1>3 DEF ReadRows
<1>4. ASSUME NEW m \in Mailboxes \ lost, sessions'[a].row = mailboxes[m]
      PROVE  sessions'[a].row.active # None => sessions'[a].row.state = "leased"
  BY <1>4 DEF LeaseOf
<1>5. QED
  BY <1>1, <1>2, <1>3, <1>4, SessionMoves

LeaseInv == SelectedInv /\ OwnedRows /\ ReadRows /\ LeaseExclusive

\* The leases with what they rest on: the row locks, whose rows they are, and
\* what the sessions have read.
THEOREM LeaseInvariant == Spec => []LeaseInv
<1> USE DEF LeaseInv
<1>1. Init => LeaseInv
  <2>1. ASSUME Init PROVE SelectedInv /\ OwnedRows /\ ReadRows
    BY <2>1 DEF Init, SelectedInv, NotCreating, OwnedRows, OfMailbox, ReadRows, NoSession
  <2>2. ASSUME Init PROVE LeaseExclusive
    BY <2>2 DEF Init, LeaseExclusive, Waiting, NoOrder, FreshPair
  <2>3. QED
    BY <2>1, <2>2
<1>2. ASSUME TypeInv, TypeInv', LeaseInv, [Next]_vars
      PROVE  LeaseInv'
  <2>1. \A m \in Mailboxes \ lost : LeaseOf(m)
    BY <1>2, LeasesAreExclusive DEF TypeInv
  <2>2. SelectedInv' /\ OwnedRows' /\ ReadRows' /\ lost \subseteq lost'
    BY <1>2, <2>1, SelectedStep, OwnedStep, ReadRowsStep, PairsMove DEF AllPairsMove
  <2>3. ASSUME NEW m \in Mailboxes, m \notin lost' PROVE LeaseOf(m)'
    <3>1. LeaseOf(m)
      BY <2>1, <2>2, <2>3
    <3>2. LeaseMoves(m)
      BY <1>2, <2>3, <3>1, EveryLeaseMoves
    <3>3. QED
      BY <1>2, <3>1, <3>2, StandKeeps, EndKeeps, BeginKeeps DEF LeaseMoves
  <2>4. LeaseExclusive'
    <3>1. \A m \in Mailboxes : mailboxes'[m].active \in OrderIds \cup {None}
      BY <1>2 DEF TypeInv, TypeOK, Mailbox
    <3>2. QED
      BY <2>3, <3>1 DEF LeaseExclusive, LeaseOf, WaitingOn, Waiting
  <2>5. QED
    BY <2>2, <2>4
<1> HIDE DEF LeaseInv
<1>3. QED
  BY <1>1, <1>2, TypeInvariant, PTL DEF Spec

\* An order waiting for its code holds its mailbox and its pair, no other order
\* holds either, and whatever holds them waits, until a write based on a stale
\* read touches the mailbox: for any number of clients, orders and
\* administrators, and whatever these write, none serves two orders at once and
\* a lease ends with its order.
THEOREM LeasesExclusive == Spec => []LeaseExclusive
<1>1. LeaseInv => LeaseExclusive
  BY DEF LeaseInv
<1>2. QED
  BY <1>1, LeaseInvariant, PTL

-----------------------------------------------------------------------------
(* Rows of mailboxes: leases given back, blocked mailboxes, and those      *)
(* whose verification has failed                                           *)

\* What a step may make of the row of mailbox m: an order begins or ends on it,
\* a verification result or a deletion reaches it while nobody holds its lock,
\* or a session saves it.
RowBegins(m, c, o) ==
    /\ CommitOrder(c, o) /\ creating[c].mailbox = m
    /\ mailboxes'[m] = [mailboxes[m] EXCEPT !.state = "leased", !.active = o]

RowEnds(m, o) ==
    /\ MailboxRowFree(m) /\ Waiting(o) /\ orders[o].mailbox = m
    /\ mailboxes'[m].active = None /\ mailboxes'[m].state # "leased"

RowJudged(m) ==
    MailboxRowFree(m) /\ mailboxes'[m] \in {VerifiedMailbox(mailboxes[m]), FailedMailbox(mailboxes[m]), NoMailbox}

RowSaved(m, a, q) ==
    /\ MailboxRowFree(m)
    /\ sessions[a].op = "saveMailbox" /\ sessions[a].mailbox = m /\ sessions'[a].op = "idle"
    /\ mailboxes'[m] = SavedMailbox(sessions[a].row, q.state, q.verification)

RowMoves(m) ==
    \/ mailboxes'[m] = mailboxes[m]
    \/ \E c \in Clients, o \in OrderIds : RowBegins(m, c, o)
    \/ \E o \in OrderIds : RowEnds(m, o)
    \/ RowJudged(m)
    \/ \E a \in Admins, q \in SaveRequests : RowSaved(m, a, q)

LEMMA EveryRowMoves == ASSUME TypeInv, [Next]_vars, NEW m \in Mailboxes PROVE RowMoves(m)
<1>0. TypeOK /\ mailboxes[m] \in Mailbox
  BY DEF TypeInv, TypeOK
<1>a. ASSUME mailboxes'[m] = mailboxes[m] PROVE RowMoves(m)
  BY <1>a DEF RowMoves
<1>1. ASSUME NEW c \in Clients, ClientStep(c)
      PROVE  RowMoves(m)
  <2>1. ASSUME NEW o \in OrderIds, CommitOrder(c, o)
        PROVE  RowMoves(m)
    <3>1. mailboxes' = [mailboxes EXCEPT ![creating[c].mailbox] = [@ EXCEPT !.state = "leased", !.active = o]]
      BY <2>1 DEF CommitOrder
    <3>2. CASE creating[c].mailbox = m
      <4>1. RowBegins(m, c, o)
        BY <1>0, <2>1, <3>1, <3>2 DEF TypeOK, RowBegins
      <4>2. QED
        BY <4>1 DEF RowMoves
    <3>3. CASE creating[c].mailbox # m
      BY <1>0, <1>a, <3>1, <3>3 DEF TypeOK
    <3>4. QED
      BY <3>2, <3>3
  <2>2. QED
    BY <1>1, <1>a, <2>1 DEF ClientStep, BeginCreate, SelectMailbox, AbortCreate
<1>2. ASSUME NEW o \in OrderIds, OrderStep(o)
      PROVE  RowMoves(m)
  <2>1. CASE PassDeadline(o) \/ CompleteOrder(o)
    BY <1>a, <2>1 DEF PassDeadline, CompleteOrder
  <2>2. ASSUME NEW n \in Mailboxes, n = orders[o].mailbox, Waiting(o), MailboxRowFree(n), NEW row,
               mailboxes' = [mailboxes EXCEPT ![n] = row],
               (row.active = None /\ row.state # "leased") \/ row = mailboxes[n]
        PROVE  RowMoves(m)
    <3>1. n = m => mailboxes'[m] = mailboxes[m] \/ RowEnds(m, o)
      BY <1>0, <2>2 DEF TypeOK, RowEnds
    <3>2. n # m => mailboxes'[m] = mailboxes[m]
      BY <1>0, <2>2 DEF TypeOK
    <3>3. QED
      BY <3>1, <3>2 DEF RowMoves
  <2>3. CASE ReceiveCode(o) \/ CancelOrder(o) \/ ReapExpired(o)
    <3>1. PICK n \in Mailboxes : n = orders[o].mailbox
      BY <2>3 DEF ReceiveCode, CancelOrder, ReapExpired, Waiting, TypeInv, OrdersOK
    <3>2. /\ mailboxes' = [mailboxes EXCEPT ![n] = FreedMailbox(mailboxes[n])]
          /\ Waiting(o) /\ MailboxRowFree(n)
      BY <2>3, <3>1 DEF ReceiveCode, CancelOrder, ReapExpired
    <3>3. \/ FreedMailbox(mailboxes[n]).active = None /\ FreedMailbox(mailboxes[n]).state # "leased"
          \/ FreedMailbox(mailboxes[n]) = mailboxes[n]
      BY <1>0 DEF FreedMailbox, TypeOK, Mailbox
    <3>4. QED
      BY <2>2, <3>1, <3>2, <3>3
  <2>4. CASE ReconcileInvalidMailboxOrders(o)
    <3>1. PICK n \in Mailboxes : n = orders[o].mailbox
      BY <2>4 DEF ReconcileInvalidMailboxOrders, Waiting, TypeInv, OrdersOK
    <3> DEFINE row == [mailboxes[n] EXCEPT !.active = None,
                         !.state = IF mailboxes[n].state = "blocked" THEN "available" ELSE "auth_error"]
    <3>2. mailboxes' = [mailboxes EXCEPT ![n] = row] /\ Waiting(o) /\ MailboxRowFree(n)
      BY <2>4, <3>1 DEF ReconcileInvalidMailboxOrders
    <3>3. row.active = None /\ row.state # "leased"
      BY <1>0 DEF TypeOK, Mailbox
    <3> HIDE DEF row
    <3>4. QED
      BY <2>2, <3>1, <3>2, <3>3
  <2>5. QED
    BY <1>2, <2>1, <2>3, <2>4 DEF OrderStep
<1>3. ASSUME NEW n \in Mailboxes, MailboxStep(n)
      PROVE  RowMoves(m)
  <2>1. ASSUME MailboxRowFree(n), NEW row \in {VerifiedMailbox(mailboxes[n]), FailedMailbox(mailboxes[n])},
               mailboxes' = [mailboxes EXCEPT ![n] = row]
        PROVE  RowMoves(m)
    <3>1. n = m => RowJudged(m)
      BY <1>0, <2>1 DEF TypeOK, RowJudged
    <3>2. n # m => mailboxes'[m] = mailboxes[m]
      BY <1>0, <2>1 DEF TypeOK
    <3>3. QED
      BY <3>1, <3>2 DEF RowMoves
  <2>2. QED
    BY <1>3, <1>a, <2>1 DEF MailboxStep, MarkVerified, MarkFailed, MarkMailboxServiceConsumed, MarkMailboxServiceRegistered
<1>4. ASSUME NEW a \in Admins, SessionStep(a)
      PROVE  RowMoves(m)
  <2>1. ASSUME NEW q \in SaveRequests, SaveMailbox(a, q.state, q.verification)
        PROVE  RowMoves(m)
    <3>1. /\ sessions[a].op = "saveMailbox" /\ MailboxRowFree(sessions[a].mailbox)
          /\ sessions' = [sessions EXCEPT ![a] = NoSession]
          /\ mailboxes' = [mailboxes EXCEPT ![sessions[a].mailbox] = SavedMailbox(sessions[a].row, q.state, q.verification)]
      BY <2>1 DEF SaveMailbox
    <3>2. sessions'[a].op = "idle"
      BY <1>0, <3>1 DEF TypeOK, NoSession
    <3>3. CASE sessions[a].mailbox = m
      <4>1. RowSaved(m, a, q)
        BY <1>0, <3>1, <3>2, <3>3 DEF TypeOK, RowSaved
      <4>2. QED
        BY <4>1 DEF RowMoves
    <3>4. CASE sessions[a].mailbox # m
      BY <1>0, <1>a, <3>1, <3>4 DEF TypeOK
    <3>5. QED
      BY <3>3, <3>4
  <2>2. CASE DeleteMailbox(a)
    <3>1. mailboxes' = [mailboxes EXCEPT ![sessions[a].mailbox] = NoMailbox] /\ MailboxRowFree(sessions[a].mailbox)
      BY <2>2 DEF DeleteMailbox
    <3>2. sessions[a].mailbox = m => RowJudged(m)
      BY <1>0, <3>1 DEF TypeOK, RowJudged
    <3>3. sessions[a].mailbox # m => mailboxes'[m] = mailboxes[m]
      BY <1>0, <3>1 DEF TypeOK
    <3>4. QED
      BY <3>2, <3>3 DEF RowMoves
  <2>3. QED
    BY <1>4, <1>a, <2>1, <2>2 DEF SessionStep, ReadMailbox, ReadService, DeleteService, AbortSession
<1>5. ASSUME NEW batch \in SUBSET Mailboxes, DeleteInvalidMailboxes(batch)
      PROVE  RowMoves(m)
  BY <1>5 DEF DeleteInvalidMailboxes, RowMoves, RowJudged
<1>6. ASSUME NEW u \in Users, NEW amount \in AdjustAmounts, AdjustBalance(u, amount)
      PROVE  RowMoves(m)
  BY <1>6, <1>a DEF AdjustBalance
<1>7. ASSUME NEW s \in Services, NEW row \in [state : {"enabled", "disabled"}, prices : PriceTables], SaveService(s, row)
      PROVE  RowMoves(m)
  BY <1>7, <1>a DEF SaveService
<1>8. ASSUME UNCHANGED vars
      PROVE  RowMoves(m)
  BY <1>8, <1>a DEF vars
<1>9. QED
  BY <1>1, <1>2, <1>3, <1>4, <1>5, <1>6, <1>7, <1>8 DEF Next

\* The row a call has selected stays verified until the call ends.
VerifiedRows ==
    \A c \in Clients : creating[c].phase = "selected" => mailboxes[creating[c].mailbox].verification = "verified"

\* What a verification result or a deletion makes of a row.
LEMMA JudgedRows ==
    ASSUME NEW row \in Mailbox
    PROVE  /\ VerifiedMailbox(row).verification = "verified"
           /\ FailedMailbox(row).active = None
           /\ Stranded(VerifiedMailbox(row)) => Stranded(row)
           /\ FailedMailbox(row).state # "leased"
           /\ row.state = "blocked" => VerifiedMailbox(row).state = "blocked" /\ FailedMailbox(row).state = "blocked"
           /\ NoMailbox.active = None /\ NoMailbox.state = "absent"
BY DEF VerifiedMailbox, FailedMailbox, NoMailbox, Mailbox, Stranded

\* A call that has selected a mailbox after a step had selected it before, and
\* does not commit in this step, or has just found it verified.
LEMMA CallMoves ==
    ASSUME TypeInv, [Next]_vars, NEW c \in Clients, creating'[c].phase = "selected"
    PROVE  \/ creating'[c] = creating[c] /\ \A o \in OrderIds : ~CommitOrder(c, o)
           \/ mailboxes'[creating'[c].mailbox].verification = "verified"
<1> DEFINE Outcome == \/ creating'[c] = creating[c] /\ \A o \in OrderIds : ~CommitOrder(c, o)
                      \/ mailboxes'[creating'[c].mailbox].verification = "verified"
<1>0. TypeOK
  BY DEF TypeInv
<1>a. \A o \in OrderIds : ~CommitOrder(c, o)
  BY <1>0 DEF CommitOrder, TypeOK, NotCreating
<1>b. ASSUME creating' = creating PROVE Outcome
  BY <1>a, <1>b
<1>1. ASSUME NEW d \in Clients, ClientStep(d)
      PROVE  Outcome
  <2>1. ASSUME NEW call, creating' = [creating EXCEPT ![d] = call], call.phase # "selected"
        PROVE  Outcome
    BY <1>0, <1>a, <2>1 DEF TypeOK
  <2>2. CASE SelectMailbox(d)
    <3>1. PICK m \in Mailboxes :
              /\ Allocatable(m, creating[d].service, creating[d].providers)
              /\ creating' = [creating EXCEPT ![d] = [@ EXCEPT !.phase = "selected", !.mailbox = m,
                                                               !.balance = balance[creating[d].user]]]
      BY <2>2 DEF SelectMailbox
    <3>2. mailboxes' = mailboxes /\ mailboxes[m].verification = "verified"
      BY <2>2, <3>1 DEF SelectMailbox, Allocatable
    <3>3. creating'[d].mailbox = m /\ (d # c => creating'[c] = creating[c])
      BY <1>0, <3>1 DEF TypeOK, Creating
    <3>4. QED
      BY <1>a, <3>2, <3>3
  <2>3. ASSUME NEW u \in Users, NEW s \in Services, NEW r \in Requests, NEW ps \in SUBSET Providers,
               BeginCreate(d, u, s, r, ps)
        PROVE  Outcome
    <3> DEFINE call == [NotCreating EXCEPT !.phase = "begun", !.user = u, !.service = s,
                           !.request = r, !.providers = ps, !.prices = services[s].prices]
    <3>1. creating' = [creating EXCEPT ![d] = call]
      BY <2>3 DEF BeginCreate
    <3>2. call.phase # "selected"
      BY DEF NotCreating
    <3> HIDE DEF call
    <3>3. QED
      BY <2>1, <3>1, <3>2
  <2>4. ASSUME creating' = [creating EXCEPT ![d] = NotCreating]
        PROVE  Outcome
    <3>1. NotCreating.phase # "selected"
      BY DEF NotCreating
    <3>2. QED
      BY <2>1, <2>4, <3>1
  <2>5. QED
    BY <1>1, <2>2, <2>3, <2>4 DEF ClientStep, CommitOrder, AbortCreate
<1>2. ASSUME NEW o \in OrderIds, OrderStep(o)
      PROVE  Outcome
  BY <1>2, <1>b DEF OrderStep, PassDeadline, ReceiveCode, CompleteOrder, CancelOrder, ReapExpired, ReconcileInvalidMailboxOrders
<1>3. ASSUME NEW m \in Mailboxes, MailboxStep(m)
      PROVE  Outcome
  BY <1>3, <1>b DEF MailboxStep, MarkVerified, MarkFailed, MarkMailboxServiceConsumed, MarkMailboxServiceRegistered
<1>4. ASSUME NEW a \in Admins, SessionStep(a)
      PROVE  Outcome
  BY <1>4, <1>b DEF SessionStep, ReadMailbox, ReadService, SaveMailbox, DeleteMailbox, DeleteService, AbortSession
<1>5. ASSUME UNCHANGED vars
      PROVE  Outcome
  BY <1>5, <1>b DEF vars
<1> HIDE DEF Outcome
<1>6. Outcome
  BY <1>1, <1>2, <1>3, <1>4, <1>5, <1>b DEF Next, AdjustBalance, SaveService, DeleteInvalidMailboxes
<1>7. QED
  BY <1>6 DEF Outcome

LEMMA VerifiedStep == ASSUME TypeInv, SelectedInv, VerifiedRows, [Next]_vars PROVE VerifiedRows'
<1>1. ASSUME NEW c \in Clients, creating'[c].phase = "selected",
             creating'[c] = creating[c], \A o \in OrderIds : ~CommitOrder(c, o)
      PROVE  mailboxes'[creating'[c].mailbox].verification = "verified"
  <2>1. PICK m \in Mailboxes : m = creating[c].mailbox
    BY <1>1 DEF TypeInv, CreatingOK
  <2>2. mailboxes[m].verification = "verified" /\ ~MailboxRowFree(m)
    BY <1>1, <2>1 DEF VerifiedRows, MailboxRowFree
  <2>3. ASSUME NEW d \in Clients, NEW o \in OrderIds, RowBegins(m, d, o)
        PROVE  FALSE
    <3>1. d = c
      BY <1>1, <2>1, <2>3 DEF RowBegins, CommitOrder, SelectedInv
    <3>2. QED
      BY <1>1, <2>3, <3>1 DEF RowBegins
  <2>4. mailboxes'[m] = mailboxes[m]
    BY <2>2, <2>3, EveryRowMoves DEF RowMoves, RowEnds, RowJudged, RowSaved
  <2>5. QED
    BY <1>1, <2>1, <2>2, <2>4
<1>2. QED
  BY <1>1, CallMoves DEF VerifiedRows

\* A mailbox whose verification has failed gets no order: its own ends in the
\* transaction that writes the result, and an allocation that races the result
\* has locked the row it found verified.  Only an administrator's save puts the
\* two together, for any number of clients and administrators.
THEOREM FailedMailboxesServeNobody == Spec => FailedServesNobody
<1>1. Init => VerifiedRows
  BY DEF Init, VerifiedRows, NotCreating
<1>2. ASSUME TypeInv, VerifiedRows, [Next]_vars, NEW m \in Mailboxes, FailedServing(mailboxes'[m])
      PROVE  \/ SavedNow(m)
             \/ FailedServing(mailboxes[m]) /\ mailboxes'[m].active = mailboxes[m].active
  <2>0. mailboxes[m] \in Mailbox
    BY <1>2 DEF TypeInv, TypeOK
  <2>1. CASE mailboxes'[m] = mailboxes[m]
    BY <1>2, <2>1
  <2>2. ASSUME NEW c \in Clients, NEW o \in OrderIds, RowBegins(m, c, o)
        PROVE  FALSE
    <3>1. mailboxes[m].verification = "verified"
      BY <1>2, <2>2 DEF RowBegins, CommitOrder, VerifiedRows
    <3>2. mailboxes'[m].verification = "verified"
      BY <2>0, <2>2, <3>1 DEF RowBegins, Mailbox
    <3>3. QED
      BY <1>2, <3>2 DEF FailedServing
  <2>3. \A o \in OrderIds : ~RowEnds(m, o)
    BY <1>2 DEF RowEnds, FailedServing
  <2>4. ~RowJudged(m)
    BY <1>2, <2>0, JudgedRows DEF RowJudged, FailedServing
  <2>5. ASSUME NEW a \in Admins, NEW q \in SaveRequests, RowSaved(m, a, q)
        PROVE  SavedNow(m)
    BY <2>5 DEF RowSaved, SavedNow
  <2>6. QED
    BY <1>2, <2>1, <2>2, <2>3, <2>4, <2>5, EveryRowMoves DEF RowMoves
<1>3. ASSUME TypeInv, VerifiedRows, [Next]_vars
      PROVE  [\A m \in Mailboxes : FailedServing(mailboxes'[m]) =>
                \/ SavedNow(m)
                \/ FailedServing(mailboxes[m]) /\ mailboxes'[m].active = mailboxes[m].active]_vars
  BY <1>2, <1>3
<1>4. LeaseInv => SelectedInv
  BY DEF LeaseInv
<1>5. QED
  BY <1>1, <1>3, <1>4, VerifiedStep, TypeInvariant, LeaseInvariant, PTL DEF Spec, FailedServesNobody

\* No order that ends and no verification result leaves a mailbox leased with
\* nobody to give it back: only an administrator's save writes such a row.
THEOREM LeasesGivenBack == Spec => LeaseGivenBack
<1>1. ASSUME TypeInv, [Next]_vars, NEW m \in Mailboxes, Stranded(mailboxes'[m])
      PROVE  Stranded(mailboxes[m]) \/ SavedNow(m)
  <2>0. mailboxes[m] \in Mailbox
    BY <1>1 DEF TypeInv, TypeOK
  <2>1. CASE mailboxes'[m] = mailboxes[m]
    BY <1>1, <2>1
  <2>2. ASSUME NEW c \in Clients, NEW o \in OrderIds, RowBegins(m, c, o)
        PROVE  FALSE
    <3>1. mailboxes'[m].active = o
      BY <2>0, <2>2 DEF RowBegins, Mailbox
    <3>2. QED
      BY <1>1, <3>1, ConstantsAssumption DEF Stranded
  <2>3. \A o \in OrderIds : ~RowEnds(m, o)
    BY <1>1 DEF RowEnds, Stranded
  <2>4. RowJudged(m) => Stranded(mailboxes[m])
    BY <1>1, <2>0, JudgedRows DEF RowJudged, Stranded
  <2>5. ASSUME NEW a \in Admins, NEW q \in SaveRequests, RowSaved(m, a, q)
        PROVE  SavedNow(m)
    BY <2>5 DEF RowSaved, SavedNow
  <2>6. QED
    BY <2>1, <2>2, <2>3, <2>4, <2>5, <1>1, EveryRowMoves DEF RowMoves
<1>2. ASSUME TypeInv, [Next]_vars
      PROVE  [\A m \in Mailboxes : Stranded(mailboxes'[m]) => Stranded(mailboxes[m]) \/ SavedNow(m)]_vars
  BY <1>1, <1>2
<1>3. QED
  BY <1>2, TypeInvariant, PTL DEF Spec, LeaseGivenBack

\* A blocked mailbox stays blocked until an administrator saves or deletes it:
\* no verification result, no end of an order and no allocation that had
\* started before unblocks it, on every mailbox no stale write has touched.
THEOREM BlockedMailboxesStay == Spec => BlockedStays
<1>1. ASSUME TypeInv, LeaseInv, [Next]_vars, NEW m \in Mailboxes, mailboxes[m].state = "blocked", m \notin lost'
      PROVE  \/ mailboxes'[m].state \in {"blocked", "absent"}
             \/ SavedNow(m)
  <2>1. m \notin lost /\ mailboxes[m] \in Mailbox
    BY <1>1, PairsMove DEF AllPairsMove, TypeInv, TypeOK
  <2>2. LeaseOf(m)
    BY <1>1, <2>1, LeasesAreExclusive DEF LeaseInv, TypeInv
  <2>3. \A c \in Clients, o \in OrderIds : ~RowBegins(m, c, o)
    BY <1>1 DEF RowBegins, CommitOrder, LeaseInv, SelectedInv
  <2>4. \A o \in OrderIds : ~RowEnds(m, o)
    BY <1>1, <2>2, ConstantsAssumption DEF RowEnds, LeaseOf, WaitingOn
  <2>5. RowJudged(m) => mailboxes'[m].state \in {"blocked", "absent"}
    BY <1>1, <2>1, JudgedRows DEF RowJudged
  <2>6. QED
    BY <1>1, <2>3, <2>4, <2>5, EveryRowMoves DEF RowMoves, RowSaved, SavedNow
<1>2. ASSUME TypeInv, LeaseInv, [Next]_vars
      PROVE  [\A m \in Mailboxes : mailboxes[m].state = "blocked" =>
                \/ m \in lost'
                \/ mailboxes'[m].state \in {"blocked", "absent"}
                \/ SavedNow(m)]_vars
  BY <1>1, <1>2
<1>3. QED
  BY <1>2, TypeInvariant, LeaseInvariant, PTL DEF Spec, BlockedStays
=============================================================================
