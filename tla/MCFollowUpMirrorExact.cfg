\* Two follow-ups of one lead created at the same time.
SPECIFICATION Spec
CONSTANTS
    FollowUps = {f1, f2}
    Leads = {l1}
    Requests = {r1, r2}
    Times = {1, 2}
    Edits = {}
    None = None
    Unset = Unset
SYMMETRY Symmetry
\* Nothing has to happen.
CHECK_DEADLOCK FALSE
INVARIANTS
    MirrorIsExact
