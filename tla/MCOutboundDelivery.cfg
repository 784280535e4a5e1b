\* One message and two workers, or two messages and one worker.
SPECIFICATION CrewSpec
CONSTANTS
    first = m1
    Messages = {m1, m2}
    Manual = {}
    Served = {m1, m2}
    Workers = {w1, w2}
    Ids = {i1, i2}
    NoId = NoId
    MaxAttempts = 5
    BatchSize = 2
SYMMETRY Symmetry
CHECK_DEADLOCK FALSE
INVARIANTS
    CallsWithinAttempts
    SentWasAccepted
    LastAttemptIsLeased
PROPERTIES
    LiveLeaseIsRespected
    AcceptanceIsRecorded
    ImplementsContract
