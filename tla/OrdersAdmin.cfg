\* An order of a mailbox, one CreateOrder call and one administrator call at a
\* time, under fair scheduling, while prices and balances change.
SPECIFICATION FairSpec
CONSTANTS
    outlook = outlook
    gmail = gmail
    None = None
    Users = {u1}
    Services = {s1}
    Mailboxes = {m1}
    Providers = {outlook, gmail}
    OrderIds = {o1}
    Requests = {"unset"}
    Clients = {c1}
    Admins = {a1}
    ProviderOf <- AllGmail
    PriceTables <- TwoGmailTables
    AdjustAmounts <- OneAdjustment
    MailboxServiceTimeoutLimit = 1
    InitialBalance = 2
    MaxLedger = 2
INVARIANTS TypeOK LedgerSound LeaseExclusive TimeoutBudget
PROPERTIES WalletSpec ConsumedStays LeaseGivenBack FailedServesNobody BlockedStays RefundedUnlessLost
CHECK_DEADLOCK FALSE
