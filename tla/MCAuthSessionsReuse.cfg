\* A refresh with a token that was rotated away.
SPECIFICATION Spec
CONSTANTS
    Sessions = {s1, s2}
    Tokens = {t1, t2, t3, t4, t5}
    Requests = {r1, r2}
    None = None
SYMMETRY Symmetry
\* Nothing has to happen.
CHECK_DEADLOCK FALSE
PROPERTIES
    ReuseRevokes
