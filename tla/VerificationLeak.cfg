\* One verifier, one mailbox saved once.
SPECIFICATION FairSpec
CONSTANTS
    None = None
    Mailboxes = {m1}
    Verifiers = {v1}
    Scanners = {s1}
    Callers = {}
    MaxVersion = 1
PROPERTY NeverPendingForEver
CHECK_DEADLOCK FALSE
