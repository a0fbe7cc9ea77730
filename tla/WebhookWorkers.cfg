\* Two workers, two events, one endpoint; a worker claims one of two rows at a time.
SPECIFICATION FairSpec
CONSTANTS
    None = None
    Endpoints = {e1}
    Events = {v1, v2}
    Workers = {w1, w2}
    BatchLimit = 1
    MaxAttempts = 2
    MaxRetries = 1
INVARIANTS HeldByOne NoneStranded AttemptsBudget
PROPERTIES GivenUpLate DeliveryEnds
CHECK_DEADLOCK FALSE
