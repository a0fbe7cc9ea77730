--------------------------- MODULE PaymentsProofs ---------------------------
(***************************************************************************)
(* A payment is credited once, and only with what the gateway has taken.   *)
(***************************************************************************)
EXTENDS Payments, TLAPS

(* Types *)

\* An order that exists has its user and its provider; a Create call that has
\* begun knows what to insert, and before it inserts there is no row.
RowOK(p) ==
    /\ payments[p].status # "none" => payments[p].user \in Users /\ payments[p].provider \in Providers
    /\ creating[p].phase # "idle" => /\ creating[p].user \in Users
                                     /\ creating[p].provider \in Providers
                                     /\ creating[p].config \in Configs
    /\ creating[p].phase = "chosen" => payments[p].status = "none"

RowsOK == \A p \in PaymentIds : RowOK(p)

TypeInv == TypeOK /\ RowsOK

\* The types of the rows and calls that an action reads.
LEMMA Fields ==
    ASSUME TypeInv
    PROVE  /\ \A p \in PaymentIds : /\ payments[p] \in Payment
                                    /\ creating[p] \in Create
                                    /\ gateway[p] \in Gateway
                                    /\ payments[p].amount \in Nat
                                    /\ creating[p].amount \in Nat
                                    /\ gateway[p].paid \in Nat
           /\ \A h \in Handlers : handlers[h].payment \in PaymentIds \cup {None} /\ handlers[h].amount \in Nat
           /\ \A u \in Users : balance[u] \in Nat /\ topups[u] \in Seq(Topup)
BY DEF TypeInv, TypeOK, Payment, Create, Gateway

\* The initial state is well typed.
LEMMA TypeInit == Init => TypeInv
BY PaymentsAssumption DEF Init, TypeInv, TypeOK, RowsOK, RowOK, NoPayment, NoCreate, NoCallback,
                          Payment, Provider, Create, Gateway, Topup

\* Another row in payment_orders.
LEMMA PaymentRow ==
    ASSUME TypeOK, NEW p \in PaymentIds, NEW row \in Payment, payments' = [payments EXCEPT ![p] = row]
    PROVE  /\ payments' \in [PaymentIds -> Payment]
           /\ payments'[p] = row
           /\ \A q \in PaymentIds \ {p} : payments'[q] = payments[q]
BY DEF TypeOK

\* Another state of a Create call.
LEMMA CreateRow ==
    ASSUME TypeOK, NEW p \in PaymentIds, NEW row \in Create, creating' = [creating EXCEPT ![p] = row]
    PROVE  /\ creating' \in [PaymentIds -> Create]
           /\ creating'[p] = row
           /\ \A q \in PaymentIds \ {p} : creating'[q] = creating[q]
BY DEF TypeOK

\* The rows of the other payments stay as they are.
LEMMA RowsKept ==
    ASSUME TypeInv, NEW p \in PaymentIds, RowOK(p)',
           \A q \in PaymentIds \ {p} : payments'[q] = payments[q] /\ creating'[q] = creating[q]
    PROVE  RowsOK'
BY DEF TypeInv, RowsOK, RowOK

\* A row changes its status only, or becomes due.
LEMMA StatusRow ==
    ASSUME TypeInv, NEW p \in PaymentIds, payments[p].status \in {"pending", "expired"},
           NEW status \in {"pending", "completed", "canceled", "expired"}, NEW due \in BOOLEAN,
           payments' = [payments EXCEPT ![p] = [payments[p] EXCEPT !.status = status, !.due = due]]
    PROVE  /\ payments' \in [PaymentIds -> Payment]
           /\ creating'[p] \in {creating[p], NoCreate} => RowOK(p)'
           /\ \A q \in PaymentIds \ {p} : payments'[q] = payments[q]
<1>1. /\ payments[p] \in Payment
      /\ payments[p].user \in Users /\ payments[p].provider \in Providers
      /\ creating[p].phase # "chosen"
  BY Fields DEF TypeInv, RowsOK, RowOK
<1> DEFINE row == [payments[p] EXCEPT !.status = status, !.due = due]
<1>2. /\ row \in Payment /\ row.status = status
      /\ row.user = payments[p].user /\ row.provider = payments[p].provider
  BY <1>1 DEF Payment
<1>3. /\ payments' \in [PaymentIds -> Payment]
      /\ payments'[p] = row
      /\ \A q \in PaymentIds \ {p} : payments'[q] = payments[q]
  BY <1>2, PaymentRow DEF TypeInv
<1>4. creating'[p] \in {creating[p], NoCreate} => RowOK(p)'
  BY <1>1, <1>2, <1>3 DEF TypeInv, RowsOK, RowOK, NoCreate
<1>5. QED
  BY <1>3, <1>4

\* The steps of a payment keep the types.
LEMMA PaymentType == ASSUME TypeInv, NEW p \in PaymentIds, PaymentStep(p) PROVE TypeInv'
<1>0. /\ payments[p] \in Payment /\ creating[p] \in Create /\ gateway[p] \in Gateway
      /\ RowOK(p)
      /\ NoCreate \in Create
      /\ payments \in [PaymentIds -> Payment] /\ creating \in [PaymentIds -> Create]
  BY Fields DEF TypeInv, TypeOK, RowsOK, NoCreate, Create
<1>1. ASSUME NEW u \in Users, NEW pr \in Providers, NEW amount \in Amounts, ChooseProvider(p, u, pr, amount)
      PROVE  TypeInv'
  <2> DEFINE row == [phase |-> "chosen", user |-> u, provider |-> pr, amount |-> amount, config |-> providers[pr].config]
  <2>1. row \in Create /\ providers[pr].config \in Configs
    BY PaymentsAssumption DEF TypeInv, TypeOK, Provider, Create
  <2>2. /\ creating' \in [PaymentIds -> Create]
        /\ creating'[p] = row
        /\ \A q \in PaymentIds \ {p} : creating'[q] = creating[q]
    BY <1>1, <2>1, CreateRow DEF ChooseProvider, TypeInv
  <2>3. RowOK(p)'
    BY <1>0, <1>1, <2>1, <2>2 DEF ChooseProvider, RowOK
  <2>4. RowsOK'
    BY <1>1, <2>2, <2>3, RowsKept DEF ChooseProvider
  <2>5. QED
    BY <1>1, <2>2, <2>4 DEF ChooseProvider, TypeInv, TypeOK
<1>2. CASE CreatePaymentOrder(p)
  <2> DEFINE cr == creating[p]
             row == [NoPayment EXCEPT !.status = "pending", !.user = cr.user, !.provider = cr.provider, !.amount = cr.amount]
             call == [cr EXCEPT !.phase = "inserted"]
  <2>1. cr.user \in Users /\ cr.provider \in Providers /\ cr.config \in Configs /\ cr.amount \in Nat
    BY <1>0, <1>2 DEF CreatePaymentOrder, RowOK, Create
  <2>2. /\ row \in Payment /\ row.user = cr.user /\ row.provider = cr.provider
        /\ call \in Create /\ call.phase = "inserted"
        /\ call.user = cr.user /\ call.provider = cr.provider /\ call.config = cr.config
    BY <1>0, <2>1 DEF NoPayment, Payment, Create
  <2>3. payments' = [payments EXCEPT ![p] = row] /\ creating' = [creating EXCEPT ![p] = call]
    BY <1>0, <1>2 DEF CreatePaymentOrder
  <2>4. /\ payments' \in [PaymentIds -> Payment] /\ creating' \in [PaymentIds -> Create]
        /\ payments'[p] = row /\ creating'[p] = call
        /\ \A q \in PaymentIds \ {p} : payments'[q] = payments[q] /\ creating'[q] = creating[q]
    BY <2>2, <2>3, PaymentRow, CreateRow DEF TypeInv
  <2>5. RowOK(p)'
    BY <2>1, <2>2, <2>4 DEF RowOK
  <2>6. RowsOK'
    BY <2>4, <2>5, RowsKept
  <2>7. QED
    BY <1>2, <2>4, <2>6 DEF CreatePaymentOrder, TypeInv, TypeOK
<1>3. ASSUME creating' = [creating EXCEPT ![p] = NoCreate], UNCHANGED payments
      PROVE  creating' \in [PaymentIds -> Create] /\ RowsOK'
  <2>1. /\ creating' \in [PaymentIds -> Create]
        /\ creating'[p] = NoCreate
        /\ \A q \in PaymentIds \ {p} : creating'[q] = creating[q]
    BY <1>0, <1>3, CreateRow DEF TypeInv
  <2>2. RowOK(p)'
    BY <1>0, <1>3, <2>1 DEF RowOK, NoCreate
  <2>3. QED
    BY <1>3, <2>1, <2>2, RowsKept
<1>4. CASE SetPaymentOrderURL(p)
  <2>1. creating[p].config \in Configs
    BY <1>0, <1>4 DEF SetPaymentOrderURL, RowOK
  <2>2. [gateway[p] EXCEPT !.opened = creating[p].config] \in Gateway
    BY <1>0, <2>1 DEF Gateway
  <2>3. gateway' \in [PaymentIds -> Gateway]
    BY <1>4, <2>2 DEF SetPaymentOrderURL, TypeInv, TypeOK
  <2>4. QED
    BY <1>3, <1>4, <2>3 DEF SetPaymentOrderURL, TypeInv, TypeOK
<1>5. CASE CreateFails(p)
  <2>1. CASE Pending(p)
    <3>1. payments' = [payments EXCEPT ![p] = [payments[p] EXCEPT !.status = "canceled", !.due = payments[p].due]]
      BY <1>0, <1>5, <2>1 DEF CreateFails, Payment
    <3>2. /\ creating' \in [PaymentIds -> Create]
          /\ creating'[p] = NoCreate
          /\ \A q \in PaymentIds \ {p} : creating'[q] = creating[q]
      BY <1>0, <1>5, CreateRow DEF CreateFails, TypeInv
    <3>3. payments[p].status = "pending" /\ payments[p].due \in BOOLEAN
      BY <1>0, <2>1 DEF Pending, Payment
    <3>4. /\ payments' \in [PaymentIds -> Payment]
          /\ RowOK(p)'
          /\ \A q \in PaymentIds \ {p} : payments'[q] = payments[q]
      BY <3>1, <3>2, <3>3, StatusRow
    <3>5. QED
      BY <1>5, <3>2, <3>4, RowsKept DEF CreateFails, TypeInv, TypeOK
  <2>2. CASE ~Pending(p)
    BY <1>3, <1>5, <2>2 DEF CreateFails, TypeInv, TypeOK
  <2>3. QED
    BY <2>1, <2>2
<1>6. CASE AbortCreate(p)
  BY <1>3, <1>6 DEF AbortCreate, TypeInv, TypeOK
<1>7. ASSUME NEW amount \in Amounts, Pay(p, amount) PROVE TypeInv'
  <2>1. [gateway[p] EXCEPT !.paid = amount] \in Gateway
    BY <1>0, PaymentsAssumption DEF Gateway
  <2>2. gateway' \in [PaymentIds -> Gateway]
    BY <1>7, <2>1 DEF Pay, TypeInv, TypeOK
  <2>3. QED
    BY <1>7, <2>2 DEF Pay, TypeInv, TypeOK, RowsOK, RowOK
<1>8. ASSUME NEW status \in {"pending", "canceled"}, NEW due \in BOOLEAN, payments[p].status = "pending",
             payments' = [payments EXCEPT ![p] = [payments[p] EXCEPT !.status = status, !.due = due]],
             UNCHANGED <<balance, topups, providers, creating, gateway, handlers, deleting>>
      PROVE  TypeInv'
  <2>1. /\ payments' \in [PaymentIds -> Payment]
        /\ RowOK(p)'
        /\ \A q \in PaymentIds \ {p} : payments'[q] = payments[q]
    BY <1>8, StatusRow
  <2>2. RowsOK'
    BY <1>8, <2>1, RowsKept
  <2>3. QED
    BY <1>8, <2>1, <2>2 DEF TypeInv, TypeOK
<1>9. CASE PassDeadline(p)
  <2>1. payments' = [payments EXCEPT ![p] = [payments[p] EXCEPT !.status = "pending", !.due = TRUE]]
    BY <1>0, <1>9 DEF PassDeadline, Pending, Payment
  <2>2. QED
    BY <1>8, <1>9, <2>1 DEF PassDeadline, Pending
<1>10. CASE CancelPaymentOrder(p)
  <2>1. payments' = [payments EXCEPT ![p] = [payments[p] EXCEPT !.status = "canceled", !.due = payments[p].due]]
    BY <1>0, <1>10 DEF CancelPaymentOrder, Payment
  <2>2. payments[p].due \in BOOLEAN
    BY <1>0 DEF Payment
  <2>3. QED
    BY <1>8, <1>10, <2>1, <2>2 DEF CancelPaymentOrder, Pending
<1>11. QED
  BY <1>1, <1>2, <1>4, <1>5, <1>6, <1>7, <1>9, <1>10 DEF PaymentStep

\* What crediting writes: one row more in the user's ledger, of the order's
\* amount, and the balance it leaves.
LEMMA CreditFacts ==
    ASSUME TypeInv, NEW p \in PaymentIds, NEW amount, Creditable(p, amount), Credit(p)
    PROVE  LET u == payments[p].user
               row == [payment |-> p, amount |-> payments[p].amount, after |-> balance[u] + payments[p].amount]
           IN  /\ u \in Users
               /\ payments[p].status \in {"pending", "expired"}
               /\ row \in Topup
               /\ balance' = [balance EXCEPT ![u] = row.after]
               /\ topups' = [topups EXCEPT ![u] = Append(topups[u], row)]
               /\ payments' = [payments EXCEPT ![p] =
                                 [payments[p] EXCEPT !.status = "completed", !.due = payments[p].due]]
<1>1. payments[p] \in Payment
  BY Fields
<1>2. payments[p].status \in {"pending", "expired"}
  BY <1>1 DEF Creditable, paymentOrderCanComplete, Payment
<1>3. payments[p].user \in Users
  BY <1>2 DEF TypeInv, RowsOK, RowOK
<1>4. balance[payments[p].user] + payments[p].amount \in Nat /\ payments[p].amount \in Nat
  BY <1>3, Fields
<1>5. [payment |-> p, amount |-> payments[p].amount, after |-> balance[payments[p].user] + payments[p].amount] \in Topup
  BY <1>4 DEF Topup
<1>6. payments' = [payments EXCEPT ![p] = [payments[p] EXCEPT !.status = "completed", !.due = payments[p].due]]
  BY <1>1 DEF Credit, Payment
<1>7. QED
  BY <1>2, <1>3, <1>5, <1>6 DEF Credit

\* The callbacks keep the types.
LEMMA HandlerType == ASSUME TypeInv, NEW h \in Handlers, HandlerStep(h) PROVE TypeInv'
<1>1. ASSUME NEW p \in PaymentIds, Notify(h, p) PROVE TypeInv'
  <2>1. [payment |-> p, amount |-> gateway[p].paid] \in [payment : PaymentIds \cup {None}, amount : Nat]
    BY Fields
  <2>2. QED
    BY <1>1, <2>1 DEF Notify, TypeInv, TypeOK, RowsOK, RowOK
<1>2. CASE CompletePaymentOrder(h)
  <2>1. PICK p \in PaymentIds : p = handlers[h].payment
    BY <1>2, Fields DEF CompletePaymentOrder
  <2>2. handlers' \in [Handlers -> [payment : PaymentIds \cup {None}, amount : Nat]]
    BY <1>2 DEF CompletePaymentOrder, NoCallback, TypeInv, TypeOK
  <2>3. CASE Creditable(p, handlers[h].amount) /\ Credit(p)
    <3> DEFINE u == payments[p].user
               row == [payment |-> p, amount |-> payments[p].amount, after |-> balance[u] + payments[p].amount]
    <3>1. /\ u \in Users
          /\ row \in Topup /\ row.after \in Nat
          /\ balance' = [balance EXCEPT ![u] = row.after]
          /\ topups' = [topups EXCEPT ![u] = Append(topups[u], row)]
      BY <2>3, CreditFacts DEF Topup
    <3>2. Append(topups[u], row) \in Seq(Topup)
      BY <3>1, Fields
    <3>3. balance' \in [Users -> Nat] /\ topups' \in [Users -> Seq(Topup)]
      BY <3>1, <3>2 DEF TypeInv, TypeOK
    <3>4. payments' = [payments EXCEPT ![p] = [payments[p] EXCEPT !.status = "completed", !.due = payments[p].due]]
      BY <2>3, CreditFacts
    <3>5. /\ payments[p].status \in {"pending", "expired"} /\ payments[p].due \in BOOLEAN
      BY <2>3, CreditFacts, Fields DEF Payment
    <3>6. /\ payments' \in [PaymentIds -> Payment]
          /\ creating'[p] \in {creating[p], NoCreate} => RowOK(p)'
          /\ \A q \in PaymentIds \ {p} : payments'[q] = payments[q]
      BY <3>4, <3>5, StatusRow
    <3>7. UNCHANGED <<providers, creating, gateway, deleting>>
      BY <1>2 DEF CompletePaymentOrder
    <3>8. RowsOK'
      BY <3>6, <3>7, RowsKept
    <3>9. QED
      BY <2>2, <3>3, <3>6, <3>7, <3>8 DEF TypeInv, TypeOK
  <2>4. CASE UNCHANGED <<balance, topups, payments>>
    BY <1>2, <2>2, <2>4 DEF CompletePaymentOrder, TypeInv, TypeOK, RowsOK, RowOK
  <2>5. QED
    BY <1>2, <2>1, <2>3, <2>4 DEF CompletePaymentOrder
<1>3. CASE DropCallback(h)
  BY <1>3 DEF DropCallback, NoCallback, TypeInv, TypeOK, RowsOK, RowOK
<1>4. QED
  BY <1>1, <1>2, <1>3 DEF HandlerStep

\* The expiry keeps the types.
LEMMA ReapType == ASSUME TypeInv, ReapExpiredPaymentOrders PROVE TypeInv'
<1>1. ASSUME NEW p \in PaymentIds
      PROVE  payments'[p] \in Payment /\ RowOK(p)'
  <2>1. /\ payments[p] \in Payment /\ RowOK(p)
        /\ payments'[p] = IF Pending(p) /\ payments[p].due
                          THEN [payments[p] EXCEPT !.status = "expired"] ELSE payments[p]
        /\ creating' = creating
    BY Fields DEF ReapExpiredPaymentOrders, TypeInv, RowsOK
  <2>2. QED
    BY <2>1 DEF Pending, Payment, RowOK
<1>2. payments' \in [PaymentIds -> Payment]
  BY <1>1 DEF ReapExpiredPaymentOrders
<1>3. RowsOK'
  BY <1>1 DEF RowsOK
<1>4. QED
  BY <1>2, <1>3 DEF ReapExpiredPaymentOrders, TypeInv, TypeOK

\* Every step keeps the types.
LEMMA TypeStep == TypeInv /\ [Next]_vars => TypeInv'
<1> SUFFICES ASSUME TypeInv, [Next]_vars PROVE TypeInv'
  OBVIOUS
<1>1. ASSUME providers' \in [Providers -> Provider], deleting' \in [Admins -> Providers \cup {None}],
             UNCHANGED <<balance, topups, payments, creating, gateway, handlers>>
      PROVE  TypeInv'
  BY <1>1 DEF TypeInv, TypeOK, RowsOK, RowOK
<1>2. ASSUME NEW a \in Admins, AdminStep(a) PROVE TypeInv'
  <2>1. ASSUME NEW pr \in Providers, CheckPendingOrders(a, pr) PROVE TypeInv'
    BY <1>1, <2>1 DEF CheckPendingOrders, TypeInv, TypeOK
  <2>2. CASE DeletePaymentProvider(a)
    <3>1. PICK pr \in Providers : pr = deleting[a]
      BY <2>2 DEF DeletePaymentProvider, TypeInv, TypeOK
    <3>2. [providers[pr] EXCEPT !.state = "absent"] \in Provider
      BY DEF TypeInv, TypeOK, Provider
    <3>3. QED
      BY <1>1, <2>2, <3>1, <3>2 DEF DeletePaymentProvider, TypeInv, TypeOK
  <2>3. QED
    BY <1>2, <2>1, <2>2 DEF AdminStep
<1>3. ASSUME NEW pr \in Providers, NEW row \in [state : {"enabled", "disabled"}, config : Configs],
             SavePaymentProvider(pr, row)
      PROVE  TypeInv'
  <2>1. row \in Provider
    BY DEF Provider
  <2>2. QED
    BY <1>1, <1>3, <2>1 DEF SavePaymentProvider, TypeInv, TypeOK
<1>4. CASE UNCHANGED vars
  BY <1>4 DEF vars, TypeInv, TypeOK, RowsOK, RowOK
<1>5. QED
  BY <1>2, <1>3, <1>4, PaymentType, HandlerType, ReapType DEF Next

\* Every variable has its type, and a row that exists has its user and provider.
THEOREM PaymentsTyped == Spec => []TypeInv
BY TypeInit, TypeStep, PTL DEF Spec

(* A payment is credited once *)

\* A step that touches no wallet, completes no order and moves no completed one.
Quiet ==
    /\ UNCHANGED <<balance, topups>>
    /\ \A p \in PaymentIds :
          /\ payments'[p].status = "completed" <=> payments[p].status = "completed"
          /\ payments[p].status = "completed" => /\ payments'[p].user = payments[p].user
                                                 /\ payments'[p].amount = payments[p].amount

\* Such a step leaves every wallet as it should be.
LEMMA QuietKeeps == ASSUME CreditedOnce, Quiet PROVE CreditedOnce'
<1>1. ASSUME NEW p \in PaymentIds, NEW u \in Users PROVE RowsMatch(p, u)'
  <2>1. TopupRows(p, u)' = TopupRows(p, u)
    BY DEF Quiet, TopupRows
  <2>2. QED
    BY <2>1 DEF Quiet, CreditedOnce, RowsMatch
<1>2. ASSUME NEW u \in Users PROVE LedgerAddsUp(u)'
  BY DEF Quiet, CreditedOnce, LedgerAddsUp
<1>3. QED
  BY <1>1, <1>2 DEF CreditedOnce

\* Only a callback's second step is not quiet: the other steps of a payment.
LEMMA PaymentQuiet == ASSUME TypeInv, NEW p \in PaymentIds, PaymentStep(p) PROVE Quiet
<1>1. payments \in [PaymentIds -> Payment] /\ payments[p] \in Payment /\ NoPayment.status = "none"
  BY DEF TypeInv, TypeOK, NoPayment
<1>2. ASSUME UNCHANGED <<balance, topups, payments>> PROVE Quiet
  BY <1>2 DEF Quiet
<1>3. ASSUME NEW row, payments' = [payments EXCEPT ![p] = row], UNCHANGED <<balance, topups>>,
             payments[p].status # "completed", row.status # "completed"
      PROVE  Quiet
  BY <1>1, <1>3 DEF Quiet
<1>4. CASE CreatePaymentOrder(p)
  <2> DEFINE row == [NoPayment EXCEPT !.status = "pending", !.user = creating[p].user,
                                      !.provider = creating[p].provider, !.amount = creating[p].amount]
  <2>1. row.status = "pending"
    BY DEF NoPayment
  <2>2. payments[p].status # "completed"
    BY <1>4 DEF CreatePaymentOrder, TypeInv, RowsOK, RowOK
  <2>3. payments' = [payments EXCEPT ![p] = row]
    BY <1>4 DEF CreatePaymentOrder
  <2>4. UNCHANGED <<balance, topups>>
    BY <1>4 DEF CreatePaymentOrder
  <2> HIDE DEF row
  <2>5. QED
    BY <1>3, <2>1, <2>2, <2>3, <2>4
<1>5. ASSUME NEW status \in {"pending", "canceled"}, NEW due \in BOOLEAN, Pending(p), UNCHANGED <<balance, topups>>,
             payments' = [payments EXCEPT ![p] = [payments[p] EXCEPT !.status = status, !.due = due]]
      PROVE  Quiet
  <2>1. [payments[p] EXCEPT !.status = status, !.due = due].status = status
    BY <1>1 DEF Payment
  <2>2. QED
    BY <1>3, <1>5, <2>1 DEF Pending
<1>6. CASE PassDeadline(p)
  <2>1. payments' = [payments EXCEPT ![p] = [payments[p] EXCEPT !.status = "pending", !.due = TRUE]]
    BY <1>1, <1>6 DEF PassDeadline, Pending, Payment
  <2>2. QED
    BY <1>5, <1>6, <2>1 DEF PassDeadline
<1>7. ASSUME Pending(p), payments' = [payments EXCEPT ![p].status = "canceled"], UNCHANGED <<balance, topups>>
      PROVE  Quiet
  <2>1. /\ payments' = [payments EXCEPT ![p] = [payments[p] EXCEPT !.status = "canceled", !.due = payments[p].due]]
        /\ payments[p].due \in BOOLEAN
    BY <1>1, <1>7 DEF Payment
  <2>2. QED
    BY <1>5, <1>7, <2>1
<1>8. QED
  BY <1>2, <1>4, <1>6, <1>7 DEF PaymentStep, ChooseProvider, SetPaymentOrderURL, CreateFails, AbortCreate, Pay,
                                CancelPaymentOrder

\* The expiry is quiet.
LEMMA ReapQuiet == ASSUME TypeInv, ReapExpiredPaymentOrders PROVE Quiet
<1>1. ASSUME NEW p \in PaymentIds
      PROVE  /\ payments'[p].status = "completed" <=> payments[p].status = "completed"
             /\ payments[p].status = "completed" => payments'[p] = payments[p]
  <2>1. /\ payments[p] \in Payment
        /\ payments'[p] = IF Pending(p) /\ payments[p].due
                          THEN [payments[p] EXCEPT !.status = "expired"] ELSE payments[p]
    BY Fields DEF ReapExpiredPaymentOrders
  <2>2. QED
    BY <2>1 DEF Pending, Payment
<1>2. QED
  BY <1>1 DEF Quiet, ReapExpiredPaymentOrders

\* Crediting an order that was not completed adds its one row, and to the
\* balance what the row says.
LEMMA CreditKeeps ==
    ASSUME TypeInv, CreditedOnce, NEW p \in PaymentIds, NEW amount, Creditable(p, amount), Credit(p)
    PROVE  CreditedOnce'
<1> DEFINE u == payments[p].user
           row == [payment |-> p, amount |-> payments[p].amount, after |-> balance[u] + payments[p].amount]
           n == Len(topups[u])
<1>1. /\ u \in Users /\ row \in Topup
      /\ payments[p].status # "completed"
      /\ balance' = [balance EXCEPT ![u] = row.after]
      /\ topups' = [topups EXCEPT ![u] = Append(topups[u], row)]
  BY CreditFacts
<1>2. /\ \A v \in Users : topups[v] \in Seq(Topup)
      /\ balance \in [Users -> Nat] /\ topups \in [Users -> Seq(Topup)]
      /\ payments \in [PaymentIds -> Payment] /\ payments[p] \in Payment
  BY DEF TypeInv, TypeOK
<1>3. /\ payments'[p].status = "completed" /\ payments'[p].user = u /\ payments'[p].amount = payments[p].amount
      /\ \A q \in PaymentIds \ {p} : payments'[q] = payments[q]
  BY <1>2 DEF Credit, Payment
<1>4. \A v \in Users \ {u} : topups'[v] = topups[v] /\ balance'[v] = balance[v]
  BY <1>1, <1>2
<1>5. /\ topups[u] \in Seq(Topup) /\ n \in Nat /\ DOMAIN topups[u] = 1 .. n
      /\ topups'[u] = Append(topups[u], row) /\ balance'[u] = row.after
  BY <1>1, <1>2
<1>6. /\ DOMAIN topups'[u] = 1 .. n + 1 /\ Len(topups'[u]) = n + 1
      /\ topups'[u][n + 1] = row
      /\ \A i \in 1 .. n : topups'[u][i] = topups[u][i]
  BY <1>1, <1>5
<1> HIDE DEF n
<1>7. ASSUME NEW q \in PaymentIds, NEW v \in Users PROVE RowsMatch(q, v)'
  <2>1. CASE v # u
    <3>1. TopupRows(q, v)' = TopupRows(q, v)
      BY <1>4, <2>1 DEF TopupRows
    <3>2. (payments'[q].status = "completed" /\ payments'[q].user = v) <=>
          (payments[q].status = "completed" /\ payments[q].user = v)
      BY <1>1, <1>3, <2>1
    <3>3. payments'[q].amount = payments[q].amount
      BY <1>3
    <3>4. topups'[v] = topups[v]
      BY <1>4, <2>1
    <3>5. QED
      BY <3>1, <3>2, <3>3, <3>4 DEF CreditedOnce, RowsMatch
  <2>2. CASE v = u /\ q # p
    <3>1. row.payment # q
      BY <2>2
    <3>2. TopupRows(q, v)' = TopupRows(q, v)
      BY <1>5, <1>6, <2>2, <3>1 DEF TopupRows
    <3>3. payments'[q] = payments[q]
      BY <1>3, <2>2
    <3>4. \A i \in TopupRows(q, v) : topups'[v][i] = topups[v][i]
      BY <1>5, <1>6, <2>2 DEF TopupRows
    <3>5. QED
      BY <3>2, <3>3, <3>4 DEF CreditedOnce, RowsMatch
  <2>3. CASE v = u /\ q = p
    <3>1. TopupRows(p, u) = {}
      BY <1>1 DEF CreditedOnce, RowsMatch
    <3>2. {i \in DOMAIN topups'[v] : topups'[v][i].payment = p} = {n + 1}
      BY <1>5, <1>6, <2>3, <3>1 DEF TopupRows
    <3>3. TopupRows(q, v)' = {n + 1}
      BY <2>3, <3>2 DEF TopupRows
    <3>4. topups'[v][n + 1].amount = payments'[q].amount
      BY <1>3, <1>6, <2>3
    <3>5. QED
      BY <1>3, <2>3, <3>3, <3>4 DEF RowsMatch
  <2>4. QED
    BY <2>1, <2>2, <2>3
<1>8. ASSUME NEW v \in Users PROVE LedgerAddsUp(v)'
  <2>1. CASE v # u
    BY <1>4, <2>1 DEF CreditedOnce, LedgerAddsUp
  <2>2. CASE v = u
    <3>1. /\ balance[u] = IF topups[u] = <<>> THEN 0 ELSE topups[u][Len(topups[u])].after
          /\ \A i \in 1 .. n : topups[u][i].after = topups[u][i].amount + (IF i = 1 THEN 0 ELSE topups[u][i - 1].after)
      BY <1>1, <1>5 DEF CreditedOnce, LedgerAddsUp
    <3>2. balance[u] = IF n = 0 THEN 0 ELSE topups[u][n].after
      BY <1>5, <3>1 DEF n
    <3>3. row.after = row.amount + (IF n + 1 = 1 THEN 0 ELSE topups'[u][n].after)
      <4>1. row.amount = payments[p].amount /\ row.after = balance[u] + payments[p].amount
        OBVIOUS
      <4>2. payments[p].amount \in Nat /\ balance[u] \in Nat
        BY <1>1, <1>2, Fields
      <4>3. n # 0 => topups'[u][n].after = balance[u]
        BY <1>5, <1>6, <3>2
      <4> HIDE DEF row
      <4>4. QED
        BY <1>5, <3>2, <4>1, <4>2, <4>3
    <3>4. \A i \in 1 .. n + 1 :
             topups'[u][i].after = topups'[u][i].amount + (IF i = 1 THEN 0 ELSE topups'[u][i - 1].after)
      <4> HIDE DEF row
      <4> TAKE i \in 1 .. n + 1
      <4>1. CASE i = n + 1
        BY <1>5, <1>6, <3>3, <4>1
      <4>2. CASE i \in 1 .. n
        <5>1. topups'[u][i] = topups[u][i]
          BY <1>6, <4>2
        <5>2. i # 1 => topups'[u][i - 1] = topups[u][i - 1]
          BY <1>5, <1>6, <4>2
        <5>3. QED
          BY <3>1, <4>2, <5>1, <5>2
      <4>3. QED
        BY <1>5, <4>1, <4>2
    <3>5. topups'[u] # <<>> /\ balance'[u] = topups'[u][Len(topups'[u])].after
      BY <1>5, <1>6
    <3>6. QED
      BY <1>6, <2>2, <3>4, <3>5 DEF LedgerAddsUp
  <2>3. QED
    BY <2>1, <2>2
<1>9. QED
  BY <1>7, <1>8 DEF CreditedOnce

\* Every step leaves every wallet as it should be.
LEMMA CreditedOnceStep == ASSUME TypeInv, CreditedOnce, [Next]_vars PROVE CreditedOnce'
<1>1. ASSUME UNCHANGED <<balance, topups, payments>> PROVE CreditedOnce'
  BY <1>1, QuietKeeps DEF Quiet
<1>2. ASSUME NEW h \in Handlers, HandlerStep(h) PROVE CreditedOnce'
  <2>1. CASE CompletePaymentOrder(h)
    <3>1. PICK p \in PaymentIds : p = handlers[h].payment
      BY <2>1, Fields DEF CompletePaymentOrder
    <3>2. \/ Creditable(p, handlers[h].amount) /\ Credit(p)
          \/ UNCHANGED <<balance, topups, payments>>
      BY <2>1, <3>1 DEF CompletePaymentOrder
    <3>3. QED
      BY <1>1, <3>2, CreditKeeps
  <2>2. QED
    BY <1>1, <1>2, <2>1 DEF HandlerStep, Notify, DropCallback
<1>3. ASSUME NEW a \in Admins, AdminStep(a) PROVE CreditedOnce'
  BY <1>1, <1>3 DEF AdminStep, CheckPendingOrders, DeletePaymentProvider
<1>4. ASSUME NEW pr \in Providers, NEW row \in [state : {"enabled", "disabled"}, config : Configs],
             SavePaymentProvider(pr, row)
      PROVE  CreditedOnce'
  BY <1>1, <1>4 DEF SavePaymentProvider
<1>5. CASE UNCHANGED vars
  BY <1>1, <1>5 DEF vars
<1>6. QED
  BY <1>2, <1>3, <1>4, <1>5, PaymentQuiet, ReapQuiet, QuietKeeps DEF Next

\* However callbacks, expiry and cancellation overlap, a completed order has
\* one row in its user's ledger and any other order none, and the rows add up
\* to the balance.
THEOREM TopupsCreditedOnce == Spec => []CreditedOnce
<1>1. Init => CreditedOnce
  <2>1. ASSUME Init, NEW p \in PaymentIds, NEW u \in Users PROVE RowsMatch(p, u)
    <3>1. TopupRows(p, u) = {} /\ payments[p].status # "completed"
      BY <2>1 DEF Init, TopupRows, NoPayment
    <3>2. QED
      BY <3>1 DEF RowsMatch
  <2>2. ASSUME Init, NEW u \in Users PROVE LedgerAddsUp(u)
    BY <2>2 DEF Init, LedgerAddsUp
  <2>3. QED
    BY <2>1, <2>2 DEF CreditedOnce
<1>2. QED
  BY <1>1, PaymentsTyped, CreditedOnceStep, PTL DEF Spec

(* Only what was paid is credited *)

\* A callback carries what the gateway took for a payment, and a completed
\* order is of that amount.
PaidInv ==
    /\ \A h \in Handlers : handlers[h].payment # None =>
          gateway[handlers[h].payment].paid = handlers[h].amount /\ handlers[h].amount # 0
    /\ \A p \in PaymentIds : payments[p].status = "completed" =>
          gateway[p].paid = payments[p].amount /\ payments[p].amount # 0

\* A step that leaves the gateway's books and completes no order.
LEMMA QuietPaid ==
    ASSUME TypeInv, PaidInv, Quiet, UNCHANGED gateway,
           \A h \in Handlers : handlers'[h] = handlers[h] \/ handlers'[h].payment = None
    PROVE  PaidInv'
<1>1. ASSUME NEW h \in Handlers, handlers'[h].payment # None
      PROVE  gateway'[handlers'[h].payment].paid = handlers'[h].amount /\ handlers'[h].amount # 0
  BY <1>1 DEF PaidInv
<1>2. ASSUME NEW p \in PaymentIds, payments'[p].status = "completed"
      PROVE  gateway'[p].paid = payments'[p].amount /\ payments'[p].amount # 0
  BY <1>2 DEF PaidInv, Quiet
<1>3. QED
  BY <1>1, <1>2 DEF PaidInv

\* The steps of a payment: the gateway takes money once.
LEMMA PaymentPaid == ASSUME TypeInv, PaidInv, NEW p \in PaymentIds, PaymentStep(p) PROVE PaidInv'
<1>1. Quiet
  BY PaymentQuiet
<1>2. UNCHANGED handlers
  BY DEF PaymentStep, ChooseProvider, CreatePaymentOrder, SetPaymentOrderURL, CreateFails, AbortCreate, Pay,
         PassDeadline, CancelPaymentOrder
<1>3. \A q \in PaymentIds : gateway[q].paid # 0 => gateway'[q].paid = gateway[q].paid
  <2>1. gateway \in [PaymentIds -> Gateway]
    BY DEF TypeInv, TypeOK
  <2>2. CASE SetPaymentOrderURL(p)
    BY <2>1, <2>2 DEF SetPaymentOrderURL, Gateway
  <2>3. ASSUME NEW amount \in Amounts, Pay(p, amount)
        PROVE  \A q \in PaymentIds : gateway[q].paid # 0 => gateway'[q].paid = gateway[q].paid
    BY <2>1, <2>3 DEF Pay, Gateway
  <2>4. QED
    BY <2>2, <2>3 DEF PaymentStep, ChooseProvider, CreatePaymentOrder, CreateFails, AbortCreate, PassDeadline,
                      CancelPaymentOrder
<1>4. ASSUME NEW h \in Handlers, handlers'[h].payment # None
      PROVE  gateway'[handlers'[h].payment].paid = handlers'[h].amount /\ handlers'[h].amount # 0
  BY <1>2, <1>3, <1>4, Fields DEF PaidInv
<1>5. ASSUME NEW q \in PaymentIds, payments'[q].status = "completed"
      PROVE  gateway'[q].paid = payments'[q].amount /\ payments'[q].amount # 0
  BY <1>1, <1>3, <1>5 DEF PaidInv, Quiet
<1>6. QED
  BY <1>4, <1>5 DEF PaidInv

\* The callbacks: what is credited is what the callback says was paid.
LEMMA HandlerPaid == ASSUME TypeInv, PaidInv, NEW h \in Handlers, HandlerStep(h) PROVE PaidInv'
<1>1. handlers \in [Handlers -> [payment : PaymentIds \cup {None}, amount : Nat]] /\ NoCallback.payment = None
  BY DEF TypeInv, TypeOK, NoCallback
<1>2. ASSUME NEW p \in PaymentIds, Notify(h, p) PROVE PaidInv'
  <2>1. /\ handlers' = [handlers EXCEPT ![h] = [payment |-> p, amount |-> gateway[p].paid]]
        /\ gateway[p].paid # 0
        /\ UNCHANGED <<payments, gateway>>
    BY <1>2 DEF Notify
  <2>2. QED
    BY <1>1, <2>1 DEF PaidInv
<1>3. CASE CompletePaymentOrder(h)
  <2>1. PICK p \in PaymentIds : p = handlers[h].payment
    BY <1>3, Fields DEF CompletePaymentOrder
  <2>2. handlers' = [handlers EXCEPT ![h] = NoCallback] /\ UNCHANGED gateway
    BY <1>3 DEF CompletePaymentOrder
  <2>3. CASE Creditable(p, handlers[h].amount) /\ Credit(p)
    <3>1. payments[p].amount = handlers[h].amount /\ handlers[h].amount # 0
      BY <2>1, <2>3, PaymentsAssumption DEF Creditable, PaidInv
    <3>2. gateway[p].paid = payments[p].amount
      BY <2>1, <3>1, PaymentsAssumption DEF PaidInv
    <3>3. /\ payments'[p].amount = payments[p].amount
          /\ \A q \in PaymentIds \ {p} : payments'[q] = payments[q]
      BY <2>3 DEF Credit, TypeInv, TypeOK, Payment
    <3>4. \A q \in PaymentIds : payments'[q].status = "completed" =>
             gateway'[q].paid = payments'[q].amount /\ payments'[q].amount # 0
      BY <2>2, <3>1, <3>2, <3>3 DEF PaidInv
    <3>5. QED
      BY <1>1, <2>2, <3>4 DEF PaidInv
  <2>4. CASE UNCHANGED <<balance, topups, payments>>
    BY <1>1, <2>2, <2>4, QuietPaid DEF Quiet
  <2>5. QED
    BY <1>3, <2>1, <2>3, <2>4 DEF CompletePaymentOrder
<1>4. CASE DropCallback(h)
  BY <1>1, <1>4, QuietPaid DEF DropCallback, Quiet
<1>5. QED
  BY <1>2, <1>3, <1>4 DEF HandlerStep

\* Every step credits only what was paid.
LEMMA PaidStep == ASSUME TypeInv, PaidInv, [Next]_vars PROVE PaidInv'
<1>1. ASSUME UNCHANGED <<balance, topups, payments, gateway, handlers>> PROVE PaidInv'
  BY <1>1 DEF PaidInv
<1>2. ASSUME NEW a \in Admins, AdminStep(a) PROVE PaidInv'
  BY <1>1, <1>2 DEF AdminStep, CheckPendingOrders, DeletePaymentProvider
<1>3. ASSUME NEW pr \in Providers, NEW row \in [state : {"enabled", "disabled"}, config : Configs],
             SavePaymentProvider(pr, row)
      PROVE  PaidInv'
  BY <1>1, <1>3 DEF SavePaymentProvider
<1>4. CASE ReapExpiredPaymentOrders
  BY <1>4, ReapQuiet, QuietPaid DEF ReapExpiredPaymentOrders
<1>5. CASE UNCHANGED vars
  BY <1>1, <1>5 DEF vars
<1>6. QED
  BY <1>2, <1>3, <1>4, <1>5, PaymentPaid, HandlerPaid DEF Next

\* A completed order is one whose amount the gateway has taken.
THEOREM OnlyPaidCredited == Spec => []CreditedWasPaid
<1>1. Init => PaidInv
  BY DEF Init, PaidInv, NoPayment, NoCallback
<1>2. PaidInv => CreditedWasPaid
  BY DEF PaidInv, CreditedWasPaid
<1>3. QED
  BY <1>1, <1>2, PaymentsTyped, PaidStep, PTL DEF Spec
=============================================================================
