\* Two callback requests and a provider being edited and deleted.
SPECIFICATION FairSpec
CONSTANTS
    None = None
    Users = {u1, u2}
    Providers = {pr1}
    PaymentIds = {p1}
    Amounts = {1, 2}
    Configs = {k1, k2}
    Handlers = {h1, h2}
    Admins = {a1}
INVARIANTS CreditedOnce CreditedWasPaid
PROPERTY PaidIsCredited
CHECK_DEADLOCK FALSE
