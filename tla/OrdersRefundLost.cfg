\* DeleteMailbox or DeleteService racing an allocation.
SPECIFICATION FairSpec
CONSTANTS
    outlook = outlook
    gmail = gmail
    None = None
    Users = {u1}
    Services = {s1}
    Mailboxes = {m1}
    Providers = {outlook}
    OrderIds = {o1}
    Requests = {"unset", "r1"}
    Clients = {c1}
    Admins = {a1}
    ProviderOf <- AllOutlook
    PriceTables <- OnePriceTable
    AdjustAmounts <- NoAdjustments
    MailboxServiceTimeoutLimit = 2
    InitialBalance = 2
    MaxLedger = 1
PROPERTY OrderRefundedInTheEnd
CHECK_DEADLOCK FALSE
