\* Two agents and a manager, their requests in flight together, and one inbound call at a
\* time; or an agent, the manager and two inbound calls at once.
CONSTANTS
    c1 = c1  c2 = c2  a = a  b = b  g = g  i1 = i1  i2 = i2  p1 = p1  p2 = p2
    None = None
    MAX_PERSIST_ATTEMPTS = 3
    MAX_RETRIES_PER_RACE_KIND = 1
    Conversations = {c1, c2}
    Users = {a, b, g}
    Managers = {g}
    Inbounds = {i1, i2}
    Intakes = {p1}
    Pair = {a, g}
    TwoCalls = {p1, p2}
SPECIFICATION SceneSpec
SYMMETRY Symmetry
\* The contact may stop writing and the agents may stop working.
CHECK_DEADLOCK FALSE
INVARIANTS
    EntryStateIsUntouched
    AtMostOneReply
    HandoffHasReply
PROPERTIES
    HumanAlwaysWins
    AssignmentRespected
