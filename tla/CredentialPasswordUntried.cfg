\* One call on a Graph mailbox.
SPECIFICATION Spec
CONSTANTS
    Calls = {a1}
    States = {}
    Kinds = {"graph"}
    MaxTokens = 2
PROPERTY PasswordTried
CHECK_DEADLOCK FALSE
