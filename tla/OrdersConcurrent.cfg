\* Two CreateOrder calls at a time, of one user or of two; no administrator session.
SPECIFICATION Spec
CONSTANTS
    outlook = outlook
    gmail = gmail
    None = None
    Users = {u1, u2}
    Services = {s1}
    Mailboxes = {m1, m2}
    Providers = {outlook}
    OrderIds = {o1, o2}
    Requests = {"unset", "r1"}
    Clients = {c1, c2}
    Admins = {}
    ProviderOf <- AllOutlook
    PriceTables <- OnePriceTable
    AdjustAmounts <- NoAdjustments
    MailboxServiceTimeoutLimit = 1
    InitialBalance = 2
    MaxLedger = 1
SYMMETRY Symmetry
INVARIANTS OrderSettled LeaseExclusive OutboxFollowsOrder RequestChargedOnce
PROPERTIES WalletSpec LifeSpec
CHECK_DEADLOCK FALSE
