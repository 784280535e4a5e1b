\* One part at a time, each with its failures and its fairness.
SPECIFICATION ServicesSpec
\* A stopped worker stays stopped.
CHECK_DEADLOCK FALSE
CONSTANTS
    None = None  Nil = None
    ours = ours  theirs = theirs  other = other  customer = customer  person = person
    m1 = m1  m2 = m2  m3 = m3  m4 = m4  m5 = m5  m6 = m6  e1 = e1  e2 = e2  w1 = w1
    k1 = k1  k2 = k2  x1 = x1  x2 = x2  x3 = x3
    Notifications <- MCNotifications
    Configured = {ours}
    Outbound = {w1}
    Refused = {m6}
    Poison = {m1}
    Deliveries = {r1, r2}
    MaxFailures = 1
    Messages = {m1, m2, m3}
    Manual = {m3}
    Served = {m1}
    Workers = {n1, n2}
    Ids = {i1}
    NoId = NoId
    MaxAttempts = 2
    Unserved = {1, 2}
    Polls = {p1, p2}
    Instances = {n1}
    Slots = {q1}
    Credentials <- MCCredentials
    First <- MCFirst
    Lines <- MCLines
    Bodies <- MCBodies
    Taken <- MCTaken
    MaxContent = 2
    RateLimit = 2
    MaxEdits = 1
    MaxFaults = 2
    Sessions = {s1}
    Calls = {c1, c2}
INVARIANTS
    AcknowledgedIsStored
PROPERTIES
    EventuallySettled
    EveryTenantIsServed
    InboundIsAccepted
    CallsEnd
