------------------------------ MODULE OrderLife ------------------------------
(***************************************************************************)
(* What every part of HeroMail promises about an order: it is created      *)
(* waiting for its code, it receives one code or is refunded, never both,  *)
(* and only an order with a code is completed.  OrderStore and MailPolling *)
(* implement it.                                                           *)
(***************************************************************************)
CONSTANTS Orders    \* the orders that can ever be created

VARIABLE status     \* registration_orders.status by order

Init == status = [o \in Orders |-> "none"]

Become(o, from, to) == status[o] = from /\ status' = [status EXCEPT ![o] = to]

Create(o) == Become(o, "none", "waiting_code")

Receive(o) == Become(o, "waiting_code", "code_received")

Complete(o) == Become(o, "code_received", "completed")

Refund(o) == Become(o, "waiting_code", "canceled") \/ Become(o, "waiting_code", "expired_refunded")

Next == \E o \in Orders : Create(o) \/ Receive(o) \/ Complete(o) \/ Refund(o)

Spec == Init /\ [][Next]_status
=============================================================================
