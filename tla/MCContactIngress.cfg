\* Two calls at a time: four events that share people, phones and threads; three of one
\* person whose threads anchor a conversation; one, and an agent who writes.
SPECIFICATION SceneSpec
CONSTANTS
    m1 = m1  m2 = m2  m3 = m3  m4 = m4
    whatsapp = whatsapp  instagram = instagram
    i1 = i1  i2 = i2  phone = phone  t1 = t1  t2 = t2
    Events <- MCEvents
    Contacts = {p1, p2}
    Conversations = {c1, c2, c3}
    Calls = {k1, k2}
    Agents = {}
    OnePerson <- ThreadEvents  OneMessage <- TalkEvents  Writers = {a1}
    MaxTime = 1
    None = None
    MAX_RESOLVE_ATTEMPTS = 3
    MAX_PERSIST_ATTEMPTS = 3
    MAX_RETRIES_PER_RACE_KIND = 1
SYMMETRY Symmetry
\* Nothing has to happen.
CHECK_DEADLOCK FALSE
INVARIANTS
    MessageOfItsContact
    LastIsNewestInbound
    ContactRaceEndsWell
