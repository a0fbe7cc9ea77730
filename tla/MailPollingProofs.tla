-------------------------- MODULE MailPollingProofs --------------------------
(***************************************************************************)
(* The mail worker for any number of orders, services and messages, and    *)
(* any lengths of time: it implements OrderLife (LifeSpec), a message is   *)
(* the code of one order of a service (OneOrderPerMessage), and the newest *)
(* code of a page is stored first (NewestCodeFirst).                       *)
(***************************************************************************)
EXTENDS MailPolling, TLAPS

-----------------------------------------------------------------------------
(* What a step may do to the orders.  A verdict refunds every waiting      *)
(* order; one at most waits, so that it is one order's step.               *)

OneWaiting == \A o, p \in OrderIds : Waiting(o) /\ Waiting(p) => o = p

\* An order that was allocated has a service.
OrdersOK == \A o \in OrderIds : orders[o].status # "none" => orders[o].service \in Services

\* The poll's snapshot is of orders that were waiting together.
SnapshotOK ==
    /\ \A o \in poll.orders : orders[o].status # "none"
    /\ \A o, p \in poll.orders : o = p

TypeInv == TypeOK /\ OneWaiting /\ OrdersOK /\ SnapshotOK

Creates(o, s) ==
    /\ \A p \in OrderIds : ~Waiting(p)
    /\ orders[o].status = "none"
    /\ pairs[s] = "available"
    /\ orders' = [orders EXCEPT ![o] = [status |-> "waiting_code", service |-> s, assigned |-> clock, code |-> None]]
    /\ UNCHANGED pairs

Receives(o, x) ==
    /\ Waiting(o)
    /\ orders' = [orders EXCEPT ![o] = [@ EXCEPT !.status = "code_received", !.code = x]]
    /\ pairs' = ConsumedPairs(o)

Refunds(o) ==
    /\ Waiting(o)
    /\ \E status \in {"canceled", "expired_refunded"} : orders' = [orders EXCEPT ![o].status = status]
    /\ UNCHANGED pairs

OrdersMove ==
    \/ UNCHANGED <<orders, pairs>>
    \/ \E o \in OrderIds, s \in Services : Creates(o, s)
    \/ \E o \in OrderIds, x \in Messages : Receives(o, x)
    \/ \E o \in OrderIds : Refunds(o)

\* A verdict refunds the order that waits, if there is one.
LEMMA VerdictRefunds ==
    ASSUME TypeInv, NEW good \in BOOLEAN, Verdict(good), UNCHANGED pairs
    PROVE  OrdersMove /\ verified' \in BOOLEAN
<1>1. CASE good \/ \A o \in OrderIds : ~Waiting(o)
  BY <1>1 DEF Verdict, TypeInv, TypeOK, OrdersMove
<1>2. ASSUME ~good, NEW o \in OrderIds, Waiting(o)
      PROVE  Refunds(o)
  <2>1. orders' = [p \in OrderIds |-> IF Waiting(p) THEN [orders[p] EXCEPT !.status = "expired_refunded"] ELSE orders[p]]
    BY <1>2 DEF Verdict
  <2>2. \A p \in OrderIds : Waiting(p) <=> p = o
    BY <1>2 DEF TypeInv, OneWaiting
  <2>3. orders' = [orders EXCEPT ![o].status = "expired_refunded"]
    BY <2>1, <2>2 DEF TypeInv, TypeOK
  <2>4. QED
    BY <1>2, <2>3 DEF Refunds
<1>3. QED
  BY <1>1, <1>2 DEF Verdict, OrdersMove

\* Every step leaves the orders alone, allocates one, delivers its code or refunds it.
LEMMA OrderMoves == ASSUME TypeInv, [Next]_vars PROVE OrdersMove
<1>1. ASSUME NEW o \in OrderIds, NEW s \in Services, Allocate(o, s)
      PROVE  OrdersMove
  <2>1. orders[o].status = "none"
    BY <1>1, ConstantsAssumption DEF Allocate
  <2>2. QED
    BY <1>1, <2>1 DEF Allocate, Creates, OrdersMove
<1>2. ASSUME NEW o \in OrderIds, Cancel(o) \/ ReapExpired(o)
      PROVE  OrdersMove
  BY <1>2 DEF Cancel, ReapExpired, Refund, Refunds, OrdersMove
<1>3. ASSUME NEW good \in BOOLEAN, Verify(good)
      PROVE  OrdersMove
  BY <1>3, VerdictRefunds DEF Verify
<1>4. CASE ReadInboxFails
  BY <1>4, VerdictRefunds DEF ReadInboxFails
<1>5. ASSUME NEW x \in Messages, NEW o \in OrderIds, StoreCode(x, o)
      PROVE  OrdersMove
  BY <1>5 DEF StoreCode, Receives, OrdersMove
<1>6. CASE UNCHANGED <<orders, pairs>>
  BY <1>6 DEF OrdersMove
<1>7. QED
  BY <1>1, <1>2, <1>3, <1>4, <1>5, <1>6
     DEF Next, World, PollStep, Store, Tick, Arrive, BeginPoll, ReadInbox, Skip, StoreFails, Crash, vars

-----------------------------------------------------------------------------
(* Types *)

OrdersKept ==
    /\ orders' \in [OrderIds -> Order]
    /\ pairs' \in [Services -> {"available", "consumed"}]
    /\ OneWaiting' /\ OrdersOK'
    /\ \A o \in OrderIds : orders[o].status # "none" =>
          /\ orders'[o].status # "none" /\ (Waiting(o)' => Waiting(o))
          /\ orders'[o].service = orders[o].service /\ orders'[o].assigned = orders[o].assigned

\* Orders stay well typed, one of them waits, and those that exist remain.
LEMMA OrdersStay == ASSUME TypeInv, OrdersMove PROVE OrdersKept
<1>0. orders \in [OrderIds -> Order] /\ pairs \in [Services -> {"available", "consumed"}] /\ OneWaiting /\ OrdersOK
  BY DEF TypeInv, TypeOK
<1>1. ASSUME NEW o \in OrderIds, NEW row \in Order, orders' = [orders EXCEPT ![o] = row],
             row.status # "none", row.service \in Services,
             orders[o].status # "none" => row.service = orders[o].service /\ row.assigned = orders[o].assigned,
             row.status = "waiting_code" => orders[o].status = "none" /\ \A p \in OrderIds : ~Waiting(p),
             pairs' \in [Services -> {"available", "consumed"}]
      PROVE  OrdersKept
  <2>1. \A p \in OrderIds : orders'[p] = IF p = o THEN row ELSE orders[p]
    BY <1>0, <1>1
  <2>2. QED
    BY <1>0, <1>1, <2>1 DEF OrdersKept, OneWaiting, OrdersOK, Waiting
<1>2. ASSUME NEW o \in OrderIds, NEW s \in Services, Creates(o, s)
      PROVE  OrdersKept
  <2>1. PICK row : row = [status |-> "waiting_code", service |-> s, assigned |-> clock, code |-> None]
    OBVIOUS
  <2>2. row \in Order /\ row.status = "waiting_code" /\ row.service = s
    BY <2>1 DEF Order, TypeInv, TypeOK
  <2>3. QED
    BY <1>0, <1>1, <1>2, <2>1, <2>2 DEF Creates
<1>3. ASSUME NEW o \in OrderIds, NEW x \in Messages, Receives(o, x)
      PROVE  OrdersKept
  <2>1. PICK row : row = [orders[o] EXCEPT !.status = "code_received", !.code = x]
    OBVIOUS
  <2>2. row \in Order /\ row.status = "code_received" /\ row.service = orders[o].service /\ row.assigned = orders[o].assigned
    BY <1>0, <2>1 DEF Order
  <2>3. orders' = [orders EXCEPT ![o] = row] /\ orders[o].status # "none"
    BY <1>3, <2>1 DEF Receives, Waiting
  <2>4. pairs' \in [Services -> {"available", "consumed"}]
    BY <1>0, <1>3 DEF Receives, ConsumedPairs
  <2>5. QED
    BY <1>0, <1>1, <2>2, <2>3, <2>4 DEF OrdersOK
<1>4. ASSUME NEW o \in OrderIds, Refunds(o)
      PROVE  OrdersKept
  <2>1. PICK status \in {"canceled", "expired_refunded"} : orders' = [orders EXCEPT ![o].status = status]
    BY <1>4 DEF Refunds
  <2>2. PICK row : row = [orders[o] EXCEPT !.status = status]
    OBVIOUS
  <2>3. row \in Order /\ row.status = status /\ row.service = orders[o].service /\ row.assigned = orders[o].assigned
    BY <1>0, <2>2 DEF Order
  <2>4. orders' = [orders EXCEPT ![o] = row] /\ orders[o].status # "none" /\ UNCHANGED pairs
    BY <1>4, <2>1, <2>2 DEF Refunds, Waiting
  <2>5. QED
    BY <1>0, <1>1, <2>3, <2>4 DEF OrdersOK
<1>5. CASE UNCHANGED <<orders, pairs>>
  BY <1>0, <1>5 DEF OrdersKept, OneWaiting, OrdersOK, Waiting
<1>6. QED
  BY <1>2, <1>3, <1>4, <1>5 DEF OrdersMove

\* Messages that arrived stay as they are, and time does not go back.
InboxKept ==
    /\ inbox' \in [Messages -> Message]
    /\ \A x \in Messages : inbox[x].here => inbox'[x] = inbox[x]
    /\ clock' \in 0 .. MaxTime /\ clock <= clock'

LEMMA InboxStays == ASSUME TypeInv, [Next]_vars PROVE InboxKept
<1>0. inbox \in [Messages -> Message] /\ clock \in 0 .. MaxTime
  BY DEF TypeInv, TypeOK
<1>1. CASE Tick
  BY <1>0, <1>1, ConstantsAssumption DEF Tick, InboxKept
<1>2. ASSUME NEW x \in Messages, NEW matches \in SUBSET Services, Arrive(x, matches)
      PROVE  InboxKept
  <2>1. [here |-> TRUE, at |-> clock, matches |-> matches] \in Message
    BY <1>0 DEF Message
  <2>2. QED
    BY <1>0, <1>2, <2>1, ConstantsAssumption DEF Arrive, InboxKept
<1>3. CASE UNCHANGED <<inbox, clock>>
  BY <1>0, <1>3, ConstantsAssumption DEF InboxKept
<1>4. QED
  BY <1>1, <1>2, <1>3
     DEF Next, World, PollStep, Store, Allocate, Cancel, ReapExpired, Verify, BeginPoll, ReadInbox, ReadInboxFails,
         Skip, StoreCode, StoreFails, Crash, vars

\* What is known of a poll.
PollOK(k) ==
    /\ k \in Poll
    /\ k.left \subseteq k.page
    /\ \A x \in k.page : inbox[x].here
    /\ \A o \in k.orders : orders[o].status # "none"
    /\ \A o, p \in k.orders : o = p

LEMMA PollIsOK == TypeInv => PollOK(poll)
BY DEF TypeInv, TypeOK, SnapshotOK, PollOK

\* It stays so, whatever happens around the poll.
LEMMA PollStays == ASSUME OrdersKept, InboxKept, NEW k, PollOK(k) PROVE PollOK(k)'
BY DEF OrdersKept, InboxKept, PollOK, Poll

LEMMA NoPollOK == PollOK(NoPoll) /\ NoPoll.phase = "idle"
BY DEF NoPoll, PollOK, Poll

\* What is left of a poll when a message was dealt with.
LEMMA DoneOK ==
    ASSUME TypeInv, poll.phase = "matching", NEW x \in Messages, x \in poll.left
    PROVE  /\ PollOK(Done(x))
           /\ Done(x).phase \in {"idle", "matching"}
           /\ Done(x).phase = "matching" => /\ Done(x).orders = poll.orders /\ Done(x).page = poll.page
                                            /\ Done(x).left = poll.left \ {x} /\ Done(x).failed = poll.failed
<1>1. CASE poll.left = {x}
  BY <1>1, NoPollOK DEF Done
<1>2. CASE poll.left # {x}
  <2>1. PICK k : k = [poll EXCEPT !.left = poll.left \ {x}, !.tried = {}]
    OBVIOUS
  <2>2. PollOK(poll)
    BY PollIsOK
  <2>3. /\ k \in Poll /\ k.phase = "matching" /\ k.orders = poll.orders /\ k.page = poll.page
        /\ k.left = poll.left \ {x} /\ k.failed = poll.failed
    BY <2>1, <2>2 DEF PollOK, Poll
  <2>4. PollOK(k)
    BY <2>2, <2>3 DEF PollOK
  <2>5. Done(x) = k
    BY <1>2, <2>1 DEF Done
  <2>6. QED
    BY <2>3, <2>4, <2>5
<1>3. QED
  BY <1>1, <1>2

\* The snapshot has one order: when storing its code has failed, no other is tried.
LEMMA FailureEnds ==
    ASSUME TypeInv, NEW x \in Messages, NEW o \in OrderIds, StoreFails(x, o)
    PROVE  /\ x \in poll.left /\ poll.phase = "matching" /\ UNCHANGED <<clock, orders, pairs, inbox>>
           /\ \A p \in poll.orders : p = o
           /\ poll' = IF Done(x).phase = "idle" THEN Done(x)
                      ELSE [Done(x) EXCEPT !.failed = poll.failed \/ (Waiting(o) /\ ~Due(o))]
<1>1. x \in poll.left /\ poll.phase = "matching" /\ o \in Matching(x) /\ UNCHANGED <<clock, orders, pairs, inbox>>
  BY DEF StoreFails, Current, Target
<1>2. Matching(x) \subseteq poll.orders
  BY DEF Matching, Candidates
<1>3. \A p \in poll.orders : p = o
  BY <1>1, <1>2 DEF TypeInv, SnapshotOK
<1>4. Matching(x) \ (poll.tried \cup {o}) = {}
  BY <1>2, <1>3
<1>5. QED
  BY <1>1, <1>3, <1>4 DEF StoreFails

\* The poll after a code could not be stored.
LEMMA FailureFacts ==
    ASSUME TypeInv, NEW x \in Messages, NEW o \in OrderIds, StoreFails(x, o)
    PROVE  /\ PollOK(poll')
           /\ poll'.phase = "matching" =>
                 /\ poll'.orders = poll.orders /\ poll'.page = poll.page /\ poll'.left = poll.left \ {x}
                 /\ poll'.failed = (poll.failed \/ (Waiting(o) /\ ~Due(o)))
<1>1. x \in poll.left /\ poll.phase = "matching"
  BY FailureEnds
<1>2. PICK k : k = Done(x)
  OBVIOUS
<1>3. PollOK(k)
  BY <1>1, <1>2, DoneOK
<1>4. PICK f \in BOOLEAN : f = (poll.failed \/ (Waiting(o) /\ ~Due(o)))
  OBVIOUS
<1>5. CASE k.phase = "idle"
  BY <1>2, <1>3, <1>5, FailureEnds
<1>6. CASE k.phase # "idle"
  <2>1. poll' = [k EXCEPT !.failed = f]
    BY <1>2, <1>4, <1>6, FailureEnds
  <2>2. /\ poll' \in Poll /\ poll'.phase = k.phase /\ poll'.orders = k.orders /\ poll'.page = k.page
        /\ poll'.left = k.left /\ poll'.failed = f
    BY <1>3, <2>1 DEF PollOK, Poll
  <2>3. PollOK(poll')
    BY <1>3, <2>2 DEF PollOK
  <2>4. k.orders = poll.orders /\ k.page = poll.page /\ k.left = poll.left \ {x}
    BY <1>1, <1>2, <1>6, DoneOK
  <2>5. QED
    BY <1>4, <2>2, <2>3, <2>4
<1>7. QED
  BY <1>5, <1>6

\* A poll that begins has the one waiting order, and one that has read the inbox
\* all of its page still to go through.
LEMMA BeginFacts ==
    ASSUME TypeInv, BeginPoll
    PROVE  PollOK(poll') /\ poll'.phase = "reading"
<1>1. PICK k : k = [NoPoll EXCEPT !.phase = "reading", !.orders = WaitingOrdersForMailbox]
  OBVIOUS
<1>2. WaitingOrdersForMailbox \subseteq {o \in OrderIds : Waiting(o)}
  BY DEF WaitingOrdersForMailbox
<1>3. k \in Poll /\ k.phase = "reading" /\ k.orders = WaitingOrdersForMailbox /\ k.page = {} /\ k.left = {}
  BY <1>1, <1>2 DEF NoPoll, Poll
<1>4. PollOK(k)
  BY <1>2, <1>3 DEF PollOK, TypeInv, OneWaiting, Waiting
<1>5. QED
  BY <1>1, <1>3, <1>4 DEF BeginPoll

LEMMA ReadFacts ==
    ASSUME TypeInv, ReadInbox
    PROVE  PollOK(poll') /\ (poll'.phase = "matching" => poll'.left = poll'.page) /\ verified' \in BOOLEAN
<1>1. PICK page \in SUBSET {x \in Messages : inbox[x].here} :
          poll' = IF page = {} THEN NoPoll ELSE [poll EXCEPT !.phase = "matching", !.page = page, !.left = page]
  BY DEF ReadInbox
<1>2. PICK k : k = [poll EXCEPT !.phase = "matching", !.page = page, !.left = page]
  OBVIOUS
<1>3. PollOK(poll)
  BY PollIsOK
<1>4. k \in Poll /\ k.left = k.page /\ k.page = page /\ k.orders = poll.orders
  BY <1>2, <1>3 DEF PollOK, Poll
<1>5. PollOK(k)
  BY <1>1, <1>3, <1>4 DEF PollOK
<1>6. verified' \in BOOLEAN
  BY DEF ReadInbox, TypeInv, TypeOK
<1>7. QED
  BY <1>1, <1>2, <1>4, <1>5, <1>6, NoPollOK

\* What a step may make of the poll.
PollMoves ==
    \/ poll' = poll
    \/ poll'.phase \in {"idle", "reading"} /\ PollOK(poll')
    \/ PollOK(poll') /\ poll'.left = poll'.page
    \/ \E x \in Messages : Skip(x)
    \/ \E x \in Messages, o \in OrderIds : StoreCode(x, o) \/ StoreFails(x, o)

LEMMA PollsMove == ASSUME TypeInv, [Next]_vars PROVE PollMoves
<1>1. CASE BeginPoll
  BY <1>1, BeginFacts DEF PollMoves
<1>2. CASE ReadInbox
  <2>1. poll'.phase \in {"idle", "reading", "matching"}
    BY <1>2, ReadFacts DEF PollOK, Poll
  <2>2. QED
    BY <1>2, <2>1, ReadFacts DEF PollMoves
<1>3. CASE ReadInboxFails \/ Crash
  BY <1>3, NoPollOK DEF ReadInboxFails, Crash, PollMoves
<1>4. CASE UNCHANGED poll
  BY <1>4 DEF PollMoves
<1>5. ASSUME NEW x \in Messages, Skip(x)
      PROVE  PollMoves
  BY <1>5 DEF PollMoves
<1>6. ASSUME NEW x \in Messages, NEW o \in OrderIds, StoreCode(x, o) \/ StoreFails(x, o)
      PROVE  PollMoves
  BY <1>6 DEF PollMoves
<1>7. QED
  BY <1>1, <1>2, <1>3, <1>4, <1>5, <1>6
     DEF Next, World, PollStep, Store, Tick, Allocate, Cancel, ReapExpired, Arrive, Verify, vars

LEMMA PollType == ASSUME TypeInv, [Next]_vars PROVE PollOK(poll')
<1>1. ASSUME NEW x \in Messages, Skip(x) \/ \E o \in OrderIds : StoreCode(x, o)
      PROVE  PollOK(poll')
  BY <1>1, DoneOK DEF Skip, StoreCode, Current
<1>2. ASSUME NEW x \in Messages, NEW o \in OrderIds, StoreFails(x, o)
      PROVE  PollOK(poll')
  BY <1>2, FailureFacts
<1>3. QED
  BY <1>1, <1>2, PollsMove, PollIsOK DEF PollMoves

\* Every variable has its type, one order waits at most, and a poll is of orders
\* that exist and messages that have arrived.
THEOREM TypeInvariant == Spec => []TypeInv
<1>1. Init => TypeInv
  BY ConstantsAssumption
     DEF Init, TypeInv, TypeOK, OneWaiting, OrdersOK, SnapshotOK, Waiting, NoOrder, Order, NoMessage, Message, NoPoll, Poll
<1>2. ASSUME TypeInv, [Next]_vars
      PROVE  TypeInv'
  <2>1. OrdersKept /\ InboxKept
    BY <1>2, OrderMoves, OrdersStay, InboxStays
  <2>2. verified' \in BOOLEAN
    <3>1. CASE ReadInbox
      BY <1>2, <3>1, ReadFacts
    <3>2. CASE ReadInboxFails
      BY <1>2, <3>2, VerdictRefunds DEF ReadInboxFails
    <3>3. ASSUME NEW good \in BOOLEAN, Verify(good)
          PROVE  verified' \in BOOLEAN
      BY <1>2, <3>3, VerdictRefunds DEF Verify
    <3>4. CASE UNCHANGED verified
      BY <1>2, <3>4 DEF TypeInv, TypeOK
    <3>5. QED
      BY <1>2, <3>1, <3>2, <3>3, <3>4
         DEF Next, World, PollStep, Store, Tick, Allocate, Cancel, ReapExpired, Arrive, BeginPoll, Skip, StoreCode,
             StoreFails, Crash, vars
  <2>3. seen' \subseteq Messages
    BY <1>2
       DEF TypeInv, TypeOK, Next, World, PollStep, Store, Tick, Allocate, Cancel, ReapExpired, Arrive, Verify, BeginPoll,
           ReadInbox, ReadInboxFails, Skip, StoreCode, StoreFails, Crash, vars
  <2>4. PICK k : k = poll'
    OBVIOUS
  <2>5. PollOK(k)'
    BY <1>2, <2>1, <2>4, PollType, PollStays
  <2>6. poll' \in Poll /\ poll'.left \subseteq poll'.page /\ (\A x \in poll'.page : inbox'[x].here) /\ SnapshotOK'
    BY <2>4, <2>5 DEF PollOK, Poll, SnapshotOK
  <2>7. QED
    BY <2>1, <2>2, <2>3, <2>6 DEF TypeInv, TypeOK, OrdersKept, InboxKept, Poll
<1>3. QED
  BY <1>1, <1>2, PTL DEF Spec

-----------------------------------------------------------------------------
(* OrderLife *)

StatusOf == [o \in OrderIds |-> orders[o].status]

\* One order's change of status is a step of OrderLife.
LEMMA ChangeIsBecome ==
    ASSUME TypeInv, NEW o \in OrderIds, NEW row, orders' = [orders EXCEPT ![o] = row], NEW from, orders[o].status = from
    PROVE  L!Become(o, from, row.status)
<1>1. orders'[o].status = row.status /\ \A p \in OrderIds : p # o => orders'[p].status = orders[p].status
  BY DEF TypeInv, TypeOK
<1>2. StatusOf' = [StatusOf EXCEPT ![o] = row.status]
  BY <1>1 DEF StatusOf
<1>3. StatusOf[o] = from
  BY DEF StatusOf
<1>4. QED
  BY <1>2, <1>3 DEF L!Become, StatusOf

LEMMA LifeStep == ASSUME TypeInv, [Next]_vars PROVE [L!Next]_StatusOf
<1>0. \A o \in OrderIds : orders[o] \in Order
  BY DEF TypeInv, TypeOK
<1>1. ASSUME NEW o \in OrderIds, NEW s \in Services, Creates(o, s)
      PROVE  L!Next
  <2>1. PICK row : row = [status |-> "waiting_code", service |-> s, assigned |-> clock, code |-> None]
    OBVIOUS
  <2>2. orders' = [orders EXCEPT ![o] = row] /\ orders[o].status = "none" /\ row.status = "waiting_code"
    BY <1>1, <2>1 DEF Creates
  <2>3. L!Become(o, "none", row.status)
    BY <2>2, ChangeIsBecome
  <2>4. QED
    BY <2>2, <2>3 DEF L!Create, L!Next
<1>2. ASSUME NEW o \in OrderIds, NEW x \in Messages, Receives(o, x)
      PROVE  L!Next
  <2>1. PICK row : row = [orders[o] EXCEPT !.status = "code_received", !.code = x]
    OBVIOUS
  <2>2. row.status = "code_received"
    BY <1>0, <2>1 DEF Order
  <2>3. orders' = [orders EXCEPT ![o] = row] /\ orders[o].status = "waiting_code"
    BY <1>2, <2>1 DEF Receives, Waiting
  <2>4. L!Become(o, "waiting_code", row.status)
    BY <2>3, ChangeIsBecome
  <2>5. QED
    BY <2>2, <2>4 DEF L!Receive, L!Next
<1>3. ASSUME NEW o \in OrderIds, Refunds(o)
      PROVE  L!Next
  <2>1. PICK status \in {"canceled", "expired_refunded"} : orders' = [orders EXCEPT ![o].status = status]
    BY <1>3 DEF Refunds
  <2>2. PICK row : row = [orders[o] EXCEPT !.status = status]
    OBVIOUS
  <2>3. row.status = status
    BY <1>0, <2>2 DEF Order
  <2>4. orders' = [orders EXCEPT ![o] = row] /\ orders[o].status = "waiting_code"
    BY <1>3, <2>1, <2>2 DEF Refunds, Waiting
  <2>5. L!Become(o, "waiting_code", row.status)
    BY <2>4, ChangeIsBecome
  <2>6. QED
    BY <2>1, <2>3, <2>5 DEF L!Refund, L!Next
<1>4. CASE UNCHANGED orders
  BY <1>4 DEF StatusOf
<1>5. QED
  BY <1>1, <1>2, <1>3, <1>4, OrderMoves DEF OrdersMove

\* Although it works from old snapshots, the worker implements the life of an
\* order: one code, only while the order waits, or one refund.
THEOREM ImplementsOrderLife == Spec => LifeSpec
<1>1. Init => L!Init
  BY DEF Init, L!Init, NoOrder
<1>2. TypeInv /\ [Next]_vars => [L!Next]_StatusOf
  BY LifeStep
<1>3. QED
  BY <1>1, <1>2, TypeInvariant, PTL DEF Spec, LifeSpec, L!Spec, StatusOf

-----------------------------------------------------------------------------
(* One order per message.  The pair is consumed with the code, so that no  *)
(* later order of the service comes to this mailbox; and no earlier one    *)
(* waits any more.                                                         *)

\* An order with a code has consumed its pair, and none of the service waits.
CodeConsumes(o) ==
    orders[o].code # None =>
        /\ orders[o].status = "code_received"
        /\ pairs[orders[o].service] = "consumed"

WaitingPairs ==
    \A o \in OrderIds : Waiting(o) => orders[o].code = None /\ pairs[orders[o].service] = "available"

OneCode ==
    \A o, p \in OrderIds :
        orders[o].code # None /\ orders[p].code # None /\ orders[o].service = orders[p].service => o = p

CodeInv == WaitingPairs /\ OneCode /\ \A o \in OrderIds : CodeConsumes(o)

LEMMA CodeStep == ASSUME TypeInv, CodeInv, [Next]_vars PROVE CodeInv'
<1>0. orders \in [OrderIds -> Order] /\ pairs \in [Services -> {"available", "consumed"}] /\ OneWaiting /\ OrdersOK
  BY DEF TypeInv, TypeOK
<1>1. ASSUME NEW o \in OrderIds, NEW s \in Services, Creates(o, s)
      PROVE  CodeInv'
  <2>1. PICK row : row = [status |-> "waiting_code", service |-> s, assigned |-> clock, code |-> None]
    OBVIOUS
  <2>2. \A p \in OrderIds : orders'[p] = IF p = o THEN row ELSE orders[p]
    BY <1>0, <1>1, <2>1 DEF Creates
  <2>3. row.status = "waiting_code" /\ row.service = s /\ row.code = None /\ pairs[s] = "available" /\ pairs' = pairs
    BY <1>1, <2>1 DEF Creates
  <2>4. QED
    BY <2>2, <2>3 DEF CodeInv, CodeConsumes, WaitingPairs, OneCode, Waiting
<1>2. ASSUME NEW o \in OrderIds, NEW x \in Messages, Receives(o, x)
      PROVE  CodeInv'
  <2>1. PICK row : row = [orders[o] EXCEPT !.status = "code_received", !.code = x]
    OBVIOUS
  <2>2. row.status = "code_received" /\ row.code = x /\ row.service = orders[o].service
    BY <1>0, <2>1 DEF Order
  <2>3. Waiting(o) /\ orders' = [orders EXCEPT ![o] = row] /\ pairs' = ConsumedPairs(o)
    BY <1>2, <2>1 DEF Receives
  <2>4. \A p \in OrderIds : orders'[p] = IF p = o THEN row ELSE orders[p]
    BY <1>0, <2>3
  <2>5. orders[o].service \in Services /\ pairs[orders[o].service] = "available"
    BY <1>0, <2>3 DEF OrdersOK, CodeInv, WaitingPairs, Waiting
  <2>6. pairs'[orders[o].service] = "consumed" /\ \A s \in Services : s # orders[o].service => pairs'[s] = pairs[s]
    BY <1>0, <2>3, <2>5 DEF ConsumedPairs
  <2>7. \A p \in OrderIds : orders[p].code # None => orders[p].service # orders[o].service
    BY <2>5 DEF CodeInv, CodeConsumes
  <2>8. \A p \in OrderIds : p # o => ~Waiting(p)
    BY <1>0, <2>3 DEF OneWaiting
  <2>9. WaitingPairs'
    BY <2>2, <2>4, <2>8 DEF WaitingPairs, Waiting
  <2>10. OneCode'
    BY <2>2, <2>4, <2>7 DEF OneCode, CodeInv
  <2>11. ASSUME NEW p \in OrderIds PROVE CodeConsumes(p)'
    <3>1. CASE p = o
      BY <2>2, <2>4, <2>6, <3>1 DEF CodeConsumes
    <3>2. CASE p # o
      BY <1>0, <2>4, <2>6, <2>7, <3>2 DEF CodeInv, CodeConsumes, OrdersOK
    <3>3. QED
      BY <3>1, <3>2
  <2>12. QED
    BY <2>9, <2>10, <2>11 DEF CodeInv
<1>3. ASSUME NEW o \in OrderIds, Refunds(o)
      PROVE  CodeInv'
  <2>1. PICK status \in {"canceled", "expired_refunded"} : orders' = [orders EXCEPT ![o].status = status]
    BY <1>3 DEF Refunds
  <2>2. PICK row : row = [orders[o] EXCEPT !.status = status]
    OBVIOUS
  <2>3. row.status = status /\ row.service = orders[o].service /\ row.code = orders[o].code
    BY <1>0, <2>2 DEF Order
  <2>4. \A p \in OrderIds : orders'[p] = IF p = o THEN row ELSE orders[p]
    BY <1>0, <2>1, <2>2
  <2>5. pairs' = pairs /\ orders[o].code = None
    BY <1>3 DEF Refunds, CodeInv, WaitingPairs
  <2>6. QED
    BY <2>1, <2>3, <2>4, <2>5 DEF CodeInv, CodeConsumes, WaitingPairs, OneCode, Waiting
<1>4. CASE UNCHANGED <<orders, pairs>>
  BY <1>4 DEF CodeInv, CodeConsumes, WaitingPairs, OneCode, Waiting
<1>5. QED
  BY <1>1, <1>2, <1>3, <1>4, OrderMoves DEF OrdersMove

\* Every poll reads messages again that were stored before; still a message is
\* the code of one order of a service at most.
THEOREM MessagesGoToOneOrder == Spec => []OneOrderPerMessage
<1>1. Init => CodeInv
  BY DEF Init, CodeInv, CodeConsumes, WaitingPairs, OneCode, Waiting, NoOrder
<1>2. TypeInv /\ CodeInv /\ [Next]_vars => CodeInv'
  BY CodeStep
<1>3. CodeInv => OneOrderPerMessage
  BY DEF CodeInv, OneCode, OneOrderPerMessage
<1>4. QED
  BY <1>1, <1>2, <1>3, TypeInvariant, PTL DEF Spec

-----------------------------------------------------------------------------
(* The newest code.  A message the poll has gone past is no code of its    *)
(* order, unless the order does not wait any more, or storing it failed.   *)

Passed(k) ==
    k.phase = "matching" /\ ~k.failed =>
        \A y \in k.page \ k.left, o \in k.orders :
            Waiting(o) /\ ~Due(o) => ~(orders[o].service \in inbox[y].matches /\ InWindow(y, o))

\* What happens around the poll does not change that.
LEMMA PassedStays == ASSUME TypeInv, OrdersKept, InboxKept, NEW k, PollOK(k), Passed(k) PROVE Passed(k)'
<1>1. ASSUME k.phase = "matching", ~k.failed, NEW y \in k.page \ k.left, NEW o \in k.orders, Waiting(o)', ~Due(o)'
      PROVE  ~(orders'[o].service \in inbox'[y].matches /\ InWindow(y, o)')
  <2>1. o \in OrderIds /\ y \in Messages /\ orders[o].status # "none" /\ inbox'[y] = inbox[y]
    BY DEF PollOK, Poll, InboxKept
  <2>2. Waiting(o) /\ orders'[o].service = orders[o].service /\ orders'[o].assigned = orders[o].assigned
    BY <1>1, <2>1 DEF OrdersKept
  <2>3. orders[o].assigned \in Nat /\ clock \in Nat /\ clock' \in Nat /\ clock <= clock' /\ TTL \in Nat
    BY <2>1, ConstantsAssumption DEF TypeInv, TypeOK, Order, InboxKept
  <2>4. ~Due(o)
    BY <1>1, <2>2, <2>3 DEF Due
  <2>5. ~(orders[o].service \in inbox[y].matches /\ InWindow(y, o))
    BY <1>1, <2>2, <2>4 DEF Passed
  <2>6. QED
    BY <2>1, <2>2, <2>5 DEF InWindow
<1>2. QED
  BY <1>1 DEF Passed

\* No step leaves a code behind.
LEMMA PassedStep == ASSUME TypeInv, Passed(poll), [Next]_vars PROVE Passed(poll)'
<1>0. OrdersKept /\ InboxKept /\ PollOK(poll) /\ PollOK(poll')
  BY OrderMoves, OrdersStay, InboxStays, PollIsOK, PollType
<1>1. PICK k : k = poll'
  OBVIOUS
<1>2. ASSUME k.phase # "matching" \/ k.left = k.page
      PROVE  Passed(k)'
  BY <1>2 DEF Passed
<1>3. ASSUME k = poll
      PROVE  Passed(k)'
  BY <1>0, <1>3, PassedStays
<1>4. ASSUME NEW x \in Messages, Skip(x)
      PROVE  Passed(k)'
  <2>1. x \in poll.left /\ poll.phase = "matching" /\ k = Done(x) /\ Matching(x) = {}
    BY <1>1, <1>4 DEF Skip, Current
  <2>2. k.phase = "matching" => k.orders = poll.orders /\ k.page = poll.page /\ k.left = poll.left \ {x} /\ k.failed = poll.failed
    BY <2>1, DoneOK
  <2>3. \A o \in poll.orders : ~(orders[o].service \in inbox[x].matches /\ InWindow(x, o))
    BY <2>1 DEF Matching, Candidates
  <2>4. Passed(k)
    BY <2>1, <2>2, <2>3 DEF Passed
  <2>5. QED
    BY <1>0, <1>1, <2>4, PassedStays
<1>5. ASSUME NEW x \in Messages, NEW o \in OrderIds, StoreCode(x, o)
      PROVE  Passed(k)'
  <2>1. x \in poll.left /\ poll.phase = "matching" /\ k = Done(x) /\ o \in poll.orders
    BY <1>1, <1>5 DEF StoreCode, Current, Target, Matching, Candidates
  <2>2. k.phase = "matching" => k.orders = poll.orders
    BY <2>1, DoneOK
  <2>3. \A p \in poll.orders : p = o
    BY <1>0, <2>1 DEF PollOK
  <2>4. orders'[o].status = "code_received"
    BY <1>5 DEF StoreCode, TypeInv, TypeOK, Order
  <2>5. QED
    BY <2>2, <2>3, <2>4 DEF Passed, Waiting
<1>6. ASSUME NEW x \in Messages, NEW o \in OrderIds, StoreFails(x, o)
      PROVE  Passed(k)'
  <2>1. (\A p \in poll.orders : p = o) /\ poll.phase = "matching"
    BY <1>6, FailureEnds
  <2>2. k.phase = "matching" =>
           k.orders = poll.orders /\ k.page = poll.page /\ k.left = poll.left \ {x}
           /\ k.failed = (poll.failed \/ (Waiting(o) /\ ~Due(o)))
    BY <1>1, <1>6, FailureFacts
  <2>3. Passed(k)
    BY <2>1, <2>2 DEF Passed
  <2>4. QED
    BY <1>0, <1>1, <2>3, PassedStays
<1>7. Passed(k)'
  BY <1>1, <1>2, <1>3, <1>4, <1>5, <1>6, PollsMove DEF PollMoves
<1>8. QED
  BY <1>1, <1>7 DEF Passed, InWindow, Due, Waiting

\* A code comes from StoreCode.
LEMMA CodesAreStored ==
    ASSUME TypeInv, [Next]_vars, NEW o \in OrderIds, orders[o].code = None, orders'[o].code # None
    PROVE  \E x \in Messages : StoreCode(x, o)
<1>0. orders \in [OrderIds -> Order]
  BY DEF TypeInv, TypeOK
<1>1. ASSUME NEW p \in OrderIds, NEW s \in Services, Allocate(p, s)
      PROVE  FALSE
  BY <1>0, <1>1 DEF Allocate
<1>3. ASSUME NEW p \in OrderIds, Cancel(p) \/ ReapExpired(p)
      PROVE  FALSE
  BY <1>0, <1>3 DEF Cancel, ReapExpired, Refund, Order
<1>4. ASSUME NEW good \in BOOLEAN, Verdict(good)
      PROVE  FALSE
  BY <1>0, <1>4 DEF Verdict, Order
<1>5. ASSUME NEW x \in Messages, NEW p \in OrderIds, StoreCode(x, p)
      PROVE  p = o
  BY <1>0, <1>5 DEF StoreCode
<1>6. CASE UNCHANGED orders
  BY <1>6
<1>7. QED
  BY <1>1, <1>3, <1>4, <1>5, <1>6
     DEF Next, World, PollStep, Store, Tick, Arrive, Verify, BeginPoll, ReadInbox, ReadInboxFails, Skip, StoreFails,
         Crash, vars

\* A platform asked for its code twice sends two: an order is given the newest
\* of the page, unless storing a newer one has failed in that poll.
THEOREM NewestCodesFirst == Spec => NewestCodeFirst
<1>1. Init => Passed(poll)
  BY DEF Init, NoPoll, Passed
<1>2. TypeInv /\ Passed(poll) /\ [Next]_vars => Passed(poll)'
  BY PassedStep
<1>3. ASSUME TypeInv, Passed(poll), [Next]_vars, NEW o \in OrderIds, orders[o].code = None, orders'[o].code # None,
             ~poll.failed, NEW y \in poll.page, orders[o].service \in inbox[y].matches, InWindow(y, o)
      PROVE  ~Newer(y, orders'[o].code)
  <2>1. PICK x \in Messages : StoreCode(x, o)
    BY <1>3, CodesAreStored
  <2>2. /\ poll.phase = "matching" /\ Waiting(o) /\ ~Due(o) /\ o \in poll.orders
        /\ \A z \in poll.left : ~Newer(z, x)
    BY <2>1 DEF StoreCode, Current, Target, Matching, Candidates
  <2>3. orders'[o].code = x
    BY <1>3, <2>1 DEF StoreCode, TypeInv, TypeOK, Order
  <2>4. y \in poll.left
    BY <1>3, <2>2 DEF Passed
  <2>5. QED
    BY <2>2, <2>3, <2>4
<1>4. TypeInv /\ Passed(poll) /\ [Next]_vars =>
        [\A o \in OrderIds :
            orders[o].code = None /\ orders'[o].code # None =>
                \/ poll.failed
                \/ \A y \in poll.page : /\ orders[o].service \in inbox[y].matches
                                        /\ InWindow(y, o)
                                        => ~Newer(y, orders'[o].code)]_vars
  BY <1>3
<1>5. QED
  BY <1>1, <1>2, <1>4, TypeInvariant, PTL DEF Spec, NewestCodeFirst
=============================================================================
