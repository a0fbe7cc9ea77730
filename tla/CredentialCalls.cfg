\* Two calls and one authorization at the same time; every kind of credential.
SPECIFICATION Spec
CONSTANTS
    Calls = {a1, a2}
    States = {t1}
    Kinds = {"imap_oauth", "graph", "gmail"}
    MaxTokens = 2
SYMMETRY Symmetry
INVARIANT GrantKept
PROPERTY CondemnedWithCause
CHECK_DEADLOCK FALSE
