----------------------------- MODULE MailPolling -----------------------------
(***************************************************************************)
(* The mail worker on one mailbox: the poll of every 15 seconds reads the  *)
(* orders that wait for a code there, then the newest messages of the      *)
(* inbox, and stores the first code that matches.  Meanwhile mail arrives, *)
(* orders are canceled, expire and are allocated anew, a verification may  *)
(* condemn the mailbox, a database call may fail and the process may stop. *)
(*                                                                         *)
(* Mailboxes are polled by goroutines that share nothing, and poll waits   *)
(* for all of them, so a mailbox has one poll at a time.  How the poll     *)
(* authenticates is module Credentials; here reading the inbox succeeds or *)
(* fails.  The mailbox holds one waiting order at a time (LeaseExclusive   *)
(* of OrderStore), so its active order is not a variable.                  *)
(***************************************************************************)
EXTENDS Integers, FiniteSets

CONSTANTS OrderIds,    \* bound: the orders ever allocated to the mailbox, in order of creation
          Services, Messages,
          None,        \* no message
          MaxTime,     \* bound: the clock stops here
          Slack,       \* one minute in the code
          TTL,         \* an order's life, in the same unit
          PageSize     \* 25 in the code

ASSUME ConstantsAssumption ==
    /\ OrderIds \subseteq Nat
    /\ None \notin Messages
    /\ MaxTime \in Nat
    /\ Slack \in Nat
    /\ TTL \in Nat \ {0}
    /\ PageSize \in Nat \ {0}

VARIABLES clock,
          verified,   \* mailboxes.verification_status = verified
          orders,     \* the registration_orders rows of this mailbox
          pairs,      \* mailbox_service_states by service: can it still be leased
          inbox,      \* what the provider holds
          seen,       \* mail_events
          poll        \* the pollMailbox call in progress

vars == <<clock, verified, orders, pairs, inbox, seen, poll>>

-----------------------------------------------------------------------------
Order == [status : {"none", "waiting_code", "code_received", "canceled", "expired_refunded"},
          service : Services \cup {None}, assigned : 0 .. MaxTime, code : Messages \cup {None}]
NoOrder == [status |-> "none", service |-> None, assigned |-> 0, code |-> None]

\* A message and the services whose sender, subject and code rules it meets.
Message == [here : BOOLEAN, at : 0 .. MaxTime, matches : SUBSET Services]
NoMessage == [here |-> FALSE, at |-> 0, matches |-> {}]

\* idle; reading: the orders are read, the inbox not yet; matching: left are
\* the messages to go through, tried the orders whose ReceiveCodeValue has
\* failed on the newest of them; failed is the history that one failed although
\* its order was waiting.
Poll == [phase : {"idle", "reading", "matching"}, orders : SUBSET OrderIds, page : SUBSET Messages,
         left : SUBSET Messages, tried : SUBSET OrderIds, failed : BOOLEAN]
NoPoll == [phase |-> "idle", orders |-> {}, page |-> {}, left |-> {}, tried |-> {}, failed |-> FALSE]

Init ==
    /\ clock = 0
    /\ verified = TRUE
    /\ orders = [o \in OrderIds |-> NoOrder]
    /\ pairs = [s \in Services |-> "available"]
    /\ inbox = [x \in Messages |-> NoMessage]
    /\ seen = {}
    /\ poll = NoPoll

Waiting(o) == orders[o].status = "waiting_code"

Due(o) == clock >= orders[o].assigned + TTL

-----------------------------------------------------------------------------
(* The world around the worker *)

Tick ==
    /\ clock < MaxTime
    /\ clock' = clock + 1
    /\ UNCHANGED <<verified, orders, pairs, inbox, seen, poll>>

\* CreateOrder leases this mailbox to the next order.
Allocate(o, s) ==
    /\ \A p \in OrderIds : IF p < o THEN orders[p].status # "none" ELSE orders[p].status = "none"
    /\ \A p \in OrderIds : ~Waiting(p)
    /\ verified
    /\ pairs[s] = "available"
    /\ orders' = [orders EXCEPT ![o] = [status |-> "waiting_code", service |-> s, assigned |-> clock, code |-> None]]
    /\ UNCHANGED <<clock, verified, pairs, inbox, seen, poll>>

\* refundOrder: CancelOrder, ReapExpired or a failed verification.
Refund(o, status) == orders' = [orders EXCEPT ![o].status = status]

Cancel(o) ==
    /\ Waiting(o)
    /\ Refund(o, "canceled")
    /\ UNCHANGED <<clock, verified, pairs, inbox, seen, poll>>

ReapExpired(o) ==
    /\ Waiting(o)
    /\ Due(o)
    /\ Refund(o, "expired_refunded")
    /\ UNCHANGED <<clock, verified, pairs, inbox, seen, poll>>

\* The provider accepts a message.
Arrive(x, matches) ==
    /\ ~inbox[x].here
    /\ inbox' = [inbox EXCEPT ![x] = [here |-> TRUE, at |-> clock, matches |-> matches]]
    /\ UNCHANGED <<clock, verified, orders, pairs, seen, poll>>

\* UpdateMailboxVerification by the verifier, and what it does to the waiting order.
Verdict(good) ==
    /\ verified' = good
    /\ orders' = IF good THEN orders
                 ELSE [o \in OrderIds |-> IF Waiting(o) THEN [orders[o] EXCEPT !.status = "expired_refunded"]
                                          ELSE orders[o]]

Verify(good) ==
    /\ Verdict(good)
    /\ UNCHANGED <<clock, pairs, inbox, seen, poll>>

-----------------------------------------------------------------------------
(* pollMailbox *)

WaitingOrdersForMailbox == IF verified THEN {o \in OrderIds : Waiting(o) /\ ~Due(o)} ELSE {}

BeginPoll ==
    /\ poll.phase = "idle"
    /\ WaitingOrdersForMailbox # {}
    /\ poll' = [NoPoll EXCEPT !.phase = "reading", !.orders = WaitingOrdersForMailbox]
    /\ UNCHANGED <<clock, verified, orders, pairs, inbox, seen>>

Newer(x, y) == inbox[x].at > inbox[y].at

\* $top=25&$orderby=receivedDateTime desc: the page holds the newest messages.
NewestPage(page) ==
    /\ Cardinality(page) = PageSize \/ page = {x \in Messages : inbox[x].here}
    /\ \A x \in page, y \in Messages \ page : inbox[y].here => ~Newer(y, x)

\* The inbox is read.  By IMAP this also marks a Microsoft mailbox verified.
ReadInbox ==
    /\ poll.phase = "reading"
    /\ \E page \in SUBSET {x \in Messages : inbox[x].here} :
          /\ Cardinality(page) <= PageSize
          /\ NewestPage(page)
          /\ poll' = IF page = {} THEN NoPoll
                     ELSE [poll EXCEPT !.phase = "matching", !.page = page, !.left = page]
    /\ verified' \in {verified, TRUE}
    /\ UNCHANGED <<clock, orders, pairs, inbox, seen>>

\* Neither OAuth nor a password reads it: the mailbox is condemned.
ReadInboxFails ==
    /\ poll.phase = "reading"
    /\ Verdict(FALSE)
    /\ poll' = NoPoll
    /\ UNCHANGED <<clock, pairs, inbox, seen>>

\* Mutant: the page is gone through as the IMAP server numbers it, oldest first.
OldestFirst(x) == x \in poll.left /\ \A y \in poll.left : ~Newer(x, y)

\* The page is gone through newest first.
Current(x) == x \in poll.left /\ \A y \in poll.left : ~Newer(y, x)

InWindow(x, o) == inbox[x].at >= orders[o].assigned - Slack

\* Mutant: no allowance for mail dated before the allocation.
CandidatesSince(x) == {o \in poll.orders : inbox[x].at >= orders[o].assigned}

\* The orders of the snapshot that the message may belong to.
Candidates(x) == {o \in poll.orders : InWindow(x, o)}

\* matchCode for the order's service.
Matching(x) == {o \in Candidates(x) : orders[o].service \in inbox[x].matches}

\* The order tried next: the oldest not tried yet.
Target(x) == {o \in Matching(x) \ poll.tried : \A p \in Matching(x) \ poll.tried : o <= p}

\* poll after the message has been dealt with.
Done(x) == IF poll.left = {x} THEN NoPoll ELSE [poll EXCEPT !.left = poll.left \ {x}, !.tried = {}]

\* The message belongs to no order of the snapshot: one that meets no rule is
\* recorded in mail_events, if that succeeds.
Skip(x) ==
    /\ poll.phase = "matching"
    /\ Current(x)
    /\ Matching(x) = {}
    /\ seen' \in IF Candidates(x) = {} THEN {seen} ELSE {seen, seen \cup {x}}
    /\ poll' = Done(x)
    /\ UNCHANGED <<clock, verified, orders, pairs, inbox>>

\* Mutant: the pair is left for other orders of the service.
PairKept(o) == pairs

ConsumedPairs(o) == [pairs EXCEPT ![orders[o].service] = "consumed"]

\* Mutant: ReceiveCodeValue trusts the snapshot.
StoreUnchecked(x, o) ==
    /\ poll.phase = "matching"
    /\ Current(x)
    /\ o \in Target(x)
    /\ orders' = [orders EXCEPT ![o] = [@ EXCEPT !.status = "code_received", !.code = x]]
    /\ pairs' = ConsumedPairs(o)
    /\ seen' \in {seen, seen \cup {x}}
    /\ poll' = Done(x)
    /\ UNCHANGED <<clock, verified, inbox>>

\* ReceiveCodeValue succeeds; the message is recorded, if that succeeds.
StoreCode(x, o) ==
    /\ poll.phase = "matching"
    /\ Current(x)
    /\ o \in Target(x)
    /\ Waiting(o)
    /\ ~Due(o)
    /\ orders' = [orders EXCEPT ![o] = [@ EXCEPT !.status = "code_received", !.code = x]]
    /\ pairs' = ConsumedPairs(o)
    /\ seen' \in {seen, seen \cup {x}}
    /\ poll' = Done(x)
    /\ UNCHANGED <<clock, verified, inbox>>

\* ReceiveCodeValue fails, because the order has changed since it was read or
\* because the database did: the next matching order is tried, and the message
\* is not recorded if none takes it.
StoreFails(x, o) ==
    /\ poll.phase = "matching"
    /\ Current(x)
    /\ o \in Target(x)
    /\ LET rest == Matching(x) \ (poll.tried \cup {o})
           after == IF rest = {} THEN Done(x) ELSE [poll EXCEPT !.tried = poll.tried \cup {o}]
       IN  poll' = IF after.phase = "idle" THEN after
                   ELSE [after EXCEPT !.failed = poll.failed \/ (Waiting(o) /\ ~Due(o))]
    /\ UNCHANGED <<clock, verified, orders, pairs, inbox, seen>>

\* The process stops; the poll is in no table.
Crash ==
    /\ poll.phase # "idle"
    /\ poll' = NoPoll
    /\ UNCHANGED <<clock, verified, orders, pairs, inbox, seen>>

-----------------------------------------------------------------------------
World ==
    \/ Tick
    \/ \E o \in OrderIds, s \in Services : Allocate(o, s)
    \/ \E o \in OrderIds : Cancel(o) \/ ReapExpired(o)
    \/ \E x \in Messages, matches \in SUBSET Services : Arrive(x, matches)
    \/ \E good \in BOOLEAN : Verify(good)

Store == \E x \in Messages, o \in OrderIds : StoreCode(x, o)

PollStep ==
    \/ BeginPoll
    \/ ReadInbox
    \/ ReadInboxFails
    \/ \E x \in Messages : Skip(x)
    \/ Store
    \/ \E x \in Messages, o \in OrderIds : StoreFails(x, o)

Next == World \/ PollStep \/ Crash

Spec == Init /\ [][Next]_vars

\* The ticker keeps polling and a poll goes on to its end; a database that
\* fails, or a process that stops, does not do so at every attempt (hence SF).
Fairness == /\ WF_vars(PollStep)
            /\ SF_vars(ReadInbox)
            /\ \A x \in Messages : SF_vars(Skip(x))
            /\ SF_vars(Store)

FairSpec == Spec /\ Fairness

-----------------------------------------------------------------------------
(* Properties *)

\* Every variable has its type; the poll goes through messages of the page it
\* fetched, which are in the inbox.
TypeOK ==
    /\ clock \in 0 .. MaxTime
    /\ verified \in BOOLEAN
    /\ orders \in [OrderIds -> Order]
    /\ pairs \in [Services -> {"available", "consumed"}]
    /\ inbox \in [Messages -> Message]
    /\ seen \subseteq Messages
    /\ poll \in Poll
    /\ poll.left \subseteq poll.page
    /\ \A x \in poll.page : inbox[x].here

\* The worker's snapshot of the orders may be old when it stores a code:
\* whatever happened since, an order receives at most one code, and only
\* while it waits; canceled and expired orders stay without one.
L == INSTANCE OrderLife WITH Orders <- OrderIds, status <- [o \in OrderIds |-> orders[o].status]
LifeSpec == L!Spec

\* Every poll reads the same messages again, delivered ones included: still no
\* message is credited to two orders of one service, although the second order
\* may begin within a minute of it.
OneOrderPerMessage ==
    \A o1, o2 \in OrderIds :
        /\ orders[o1].code # None /\ orders[o1].code = orders[o2].code
        /\ orders[o1].service = orders[o2].service
        => o1 = o2

\* A platform that was asked for its code twice has sent two, and only the last
\* is valid: an order is given the newest matching code of the page fetched,
\* unless storing a newer one has failed in that poll.
NewestCodeFirst ==
    [][\A o \in OrderIds :
          orders[o].code = None /\ orders'[o].code # None =>
              \/ poll.failed
              \/ \A y \in poll.page : /\ orders[o].service \in inbox[y].matches
                                      /\ InWindow(y, o)
                                      => ~Newer(y, orders'[o].code)]_vars

\* The order waits, the mailbox is readable and a message with its code is in
\* its window and on the first page.
Deliverable(o) ==
    /\ o \in WaitingOrdersForMailbox
    /\ \E x \in Messages :
          /\ inbox[x].here
          /\ orders[o].service \in inbox[x].matches
          /\ InWindow(x, o)
          /\ Cardinality({y \in Messages \ {x} : inbox[y].here /\ ~Newer(x, y)}) < PageSize

\* Such an order does not stay so: the code is stored, although a database call
\* may fail after the message was matched and the process may stop at any step.
CodeDelivered == \A o \in OrderIds : Deliverable(o) ~> ~Deliverable(o)
=============================================================================
