\* Two users; logins, changes of the password and API keys at the same time.
SPECIFICATION Spec
CONSTANTS
    Emails = {e1, e2}
    Passwords = {p1, p2}
    Sessions = {s1, s2, s3}
    Keys = {k1}
    Requests = {r1, r2}
    None = None
SYMMETRY Symmetry
INVARIANTS OldPasswordOut ServedByLiveToken
CHECK_DEADLOCK FALSE
