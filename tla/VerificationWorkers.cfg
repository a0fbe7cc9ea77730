\* Two verifiers, a scanner and a direct request on one mailbox saved twice.
SPECIFICATION FairSpec
CONSTANTS
    None = None
    Mailboxes = {m1}
    Verifiers = {v1, v2}
    Scanners = {s1}
    Callers = {c1}
    MaxVersion = 2
INVARIANTS QueueMatchesSet OneVerifierAtATime InFlightReleased VerdictIsCurrent
PROPERTY PendingEnds
CHECK_DEADLOCK FALSE
