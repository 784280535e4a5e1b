\* Two tabs of a browser, two sessions of one user.
SPECIFICATION Spec
CONSTANTS
    Sessions = {s1, s2}
    Tokens = {t1, t2, t3, t4, t5}
    Requests = {r1, r2}
    None = None
SYMMETRY Symmetry
\* Nothing has to happen.
CHECK_DEADLOCK FALSE
INVARIANTS
    EndedSessionIsNotRenewed
    LogoutAllIsComplete
    CookieIsCurrent
