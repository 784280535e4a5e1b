\* One part at a time: conversations and texts, a demo tab, two requests and two sessions,
\* and two summaries around three writes.
SPECIFICATION WebSpec
\* Loads, writes and visits are bounded, and nobody has to do anything.
CHECK_DEADLOCK FALSE
CONSTANTS
    None = None
    c1 = c1  c2 = c2
    Conversations = {c1, c2}
    Texts = {"a", "b"}
    Lists <- MCLists
    MaxFetches = 3  MaxMessages = 1
    DemoConversations = {"demo-conv-1", "demo-conv-3"}
    DemoUsers = {"demo-user", "demo-agent-bruna"}
    Tabs = {t1}
    PageLimit = 2  MaxDemoTime = 8  MaxQueue = 1
    Sessions = {s1, s2}
    Calls = {r1, r2}
    Leads = {l1, l2}
    FollowUps = {f1, f2}
    Events = {e1}
    \* A month has two days, and a card one row.
    LastStage = 1  DayLength = 1  MonthLength = 2  MaxTime = 1
    RowsOfACard = 1
    Amount <- MCAmount
    MaxWrites = 3  MaxVisits = 2
INVARIANTS
    WebTypeOK
    ShownBelong
    TokenBelongsToUser
    EffectAtMostOnce
    SummaryIsCoherent
PROPERTIES
    MirrorsTheApi
