\* Two requests of one user at a time, in one page; three requests of the calendar.
SPECIFICATION PagesSpec
\* Requests, loads and visits are bounded.
CHECK_DEADLOCK FALSE
CONSTANTS
    Asks = {r1, r2}
    another = r3
    Nothing = Nothing  Absent = Absent  Null = Null  Missing = Missing
    Events = {e1, e2}
    meeting = e1
    Instants = {1, 2}
    Week = {1}
    Clients = {l1, l2, l3}
    Phones <- MCPhones
    Amounts = {"empty"}
    LastStage = 2
    Reminders = {f1, f2}
    MaxTime = 1
    \* The browser's clock is ahead, and a tab may have more rows than it shows.
    ClockSkew = 1
    RowsOfAWeek = 2  CardsOfABoard = 2  RowsOfATab = 1
    Connections = 2
    MaxLoads = 3
    MaxOpenings = 2
    MaxVisits = 2
    MaxOthers = 1
SYMMETRY Symmetry
INVARIANTS
    PagesTypeOK
    TrailExplainsStatus
    SerialRequestsAreExact
    ListingsAreFresh
    DisabledIsFreed
    FormsAreCoherent
