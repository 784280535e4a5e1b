\* Two processes: one message to send, with settings and time; or one message of a caller,
\* two requests at a time.
SPECIFICATION ProcessesSpec
\* Time ends, and the caller is done when its message is settled.
CHECK_DEADLOCK FALSE
CONSTANTS
    None = None  Nil = None
    ours = ours  OURS = OURS  theirs = theirs  other = other  customer = customer  person = person
    m1 = m1  m2 = m2  m3 = m3  m4 = m4  m5 = m5  m6 = m6  e1 = e1  e2 = e2  w1 = w1
    k1 = k1  k2 = k2  x1 = x1  x2 = x2  x3 = x3  p1 = p1  p2 = p2
    Processes = {n1, n2}
    Environments <- MCEnvironments
    Tenant = ours
    Recipients = {"phone", "other"}
    Lower <- MCLower
    Responses <- MCResponses
    TemporaryCodes = {130429}
    PermanentCodes = {131047}
    DefaultHttp = 1
    DefaultSend = 2
    DefaultLease = 4
    OUTBOUND_MAX_ATTEMPTS = 2
    MaxEdits = 1
    MaxStops = 1
    MaxDelay = 3
    MaxTime = 9
    Slots = {1, 2}
    Lines <- MCLines
    Credentials <- MCCredentials
    First <- MCFirst
    Bodies <- OneBody
    Taken = {}
    MaxContent = 2
    RateLimit = 1
    MaxRotations = 2
    MaxFaults = 2
SYMMETRY Symmetry
INVARIANTS
    OneCallAtATime
    CallerIsNeverLockedOut
    OneCreated
