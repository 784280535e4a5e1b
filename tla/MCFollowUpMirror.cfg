\* Two requests at once on two follow-ups of two leads, and edits of the leads.
SPECIFICATION Spec
CONSTANTS
    FollowUps = {f1, f2}
    Leads = {l1, l2}
    Requests = {r1, r2}
    Times = {1, 2}
    Edits = {1, None}
    None = None
    Unset = Unset
SYMMETRY Symmetry
\* Nothing has to happen.
CHECK_DEADLOCK FALSE
PROPERTIES
    NeverPendingAgain
    LoneRequestRepairsMirror
    OwnChangeIsMirrored
