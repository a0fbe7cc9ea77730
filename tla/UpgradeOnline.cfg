\* Three administrators ask for an upgrade.  Once all are answered the system rests.
SPECIFICATION FairSpec
CONSTANTS
    Requests = {r1, r2, r3}
    None = None
INVARIANTS BackupFirst UpgradeShown
PROPERTY StatusSettles
CHECK_DEADLOCK FALSE
