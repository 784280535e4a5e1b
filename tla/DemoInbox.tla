------------------------------ MODULE DemoInbox ------------------------------
(***************************************************************************)
(* The inbox of the demo mode: an API inside the page.  Each tab of the    *)
(* browser has its own copy of the conversations in memory, taken from     *)
(* localStorage when it first needs it, and writes the whole copy back     *)
(* after every action.  A request is delayed as if it had crossed a        *)
(* network, then handled in one step; equal delays end in order.           *)
(*                                                                         *)
(* Storage is there and holds what was written.  The clock does not go     *)
(* back, so a list of messages is already in order of date.                *)
(***************************************************************************)
EXTENDS Naturals, Sequences, SequencesExt, FiniteSets

CONSTANTS
    Conversations,  \* those of the fixtures that are looked at
    Users,          \* ids of ASSIGNABLE_USERS; the signed-in one is "demo-user"
    Tabs,
    Limit,          \* messages of a page
    MaxTime,        \* bound on the moments at which something is written
    MaxQueue,       \* bound on the requests of a tab that are delayed
    None

FixtureIds == {"demo-conv-1", "demo-conv-2", "demo-conv-3", "demo-conv-4"}

VARIABLES
    now,
    stored,   \* localStorage: an inbox, or None
    memory,   \* memory[t]: inboxMemory of the tab, or None
    queue,    \* queue[t]: the delayed requests of the tab
    walk,     \* walk[t]: the pages of a conversation the tab has fetched
    told      \* history: each conversation as the last action on it was answered

vars == <<now, stored, memory, queue, walk, told>>

-----------------------------------------------------------------------------
Open == {"AI_ATENDENDO", "AGUARDANDO_HUMANO", "HUMANO_ATENDENDO"}
States == Open \cup {"ENCERRADA"}

(* A fixture with k messages, the last of them as recent as rank says.     *)
Fixture(state, assigned, k, rank) ==
    [state |-> state, assigned |-> assigned, lastMessageAt |-> rank, updatedAt |-> rank,
     messages |-> [n \in 1..k |-> [n |-> n, at |-> rank]]]

Fixtures ==
    [c \in FixtureIds |->
        CASE c = "demo-conv-1" -> Fixture("AI_ATENDENDO", None, 3, 4)
          [] c = "demo-conv-2" -> Fixture("AGUARDANDO_HUMANO", None, 4, 3)
          [] c = "demo-conv-3" -> Fixture("HUMANO_ATENDENDO", "demo-agent-bruna", 4, 2)
          [] c = "demo-conv-4" -> Fixture("ENCERRADA", "demo-user", 4, 1)]

inboxInitial == [c \in Conversations |-> Fixtures[c]]

Message == [n : Nat, at : 0..MaxTime]
Row == [state : States, assigned : Users \cup {None}, lastMessageAt : 0..MaxTime,
        updatedAt : 0..MaxTime, messages : Seq(Message)]
Inbox == [Conversations -> Row]

DemoInboxAssumption ==
    /\ Conversations \subseteq FixtureIds
    /\ {"demo-user", "demo-agent-bruna"} \subseteq Users
    /\ None \notin Users
    /\ Limit \in Nat \ {0} /\ MaxQueue \in Nat
    /\ MaxTime \in Nat /\ MaxTime >= 5
    /\ None \notin Inbox

loadInboxState == IF stored # None THEN stored ELSE inboxInitial

inboxState(t) == IF memory[t] # None THEN memory[t] ELSE loadInboxState

Writes ==
    [op : {"messages", "unassign"}, conv : Conversations]
        \cup [op : {"state"}, conv : Conversations, target : States]
        \cup [op : {"assign"}, conv : Conversations, user : Users]
Reads == [op : {"page"}, conv : Conversations]

(* No page fetched; before is the id of the oldest message at hand.        *)
NoWalk == [conv |-> None, rows |-> <<>>, before |-> 0, over |-> FALSE]

Init ==
    /\ now = 5
    /\ stored = None
    /\ memory = [t \in Tabs |-> None]
    /\ queue = [t \in Tabs |-> <<>>]
    /\ walk = [t \in Tabs |-> NoWalk]
    /\ told = inboxInitial

-----------------------------------------------------------------------------
(* Lists *)

(* A filter leaves a field it does not ask for at None.                    *)
Selected(inbox, q) ==
    {c \in Conversations :
        /\ q.state \in {None, inbox[c].state}
        /\ IF q.unassigned THEN inbox[c].assigned = None
                           ELSE q.assigned \in {None, inbox[c].assigned}}

listConversationsFor(inbox, q) ==
    SetToSortSeq(Selected(inbox, q),
        LAMBDA a, b :
            IF inbox[a].lastMessageAt # inbox[b].lastMessageAt
            THEN inbox[a].lastMessageAt > inbox[b].lastMessageAt
            ELSE inbox[a].updatedAt > inbox[b].updatedAt)

\* Mutant: the cursor's own message is listed again.
listMessagesForMutant(all, before) ==
    LET pool == IF \E i \in DOMAIN all : all[i].n = before
                THEN SubSeq(all, 1, CHOOSE i \in DOMAIN all : all[i].n = before)
                ELSE all
        hasMore == Len(pool) > Limit
        items == IF hasMore THEN SubSeq(pool, Len(pool) - Limit + 1, Len(pool)) ELSE pool
    IN  [items |-> items, hasMore |-> hasMore,
         nextCursor |-> IF hasMore THEN items[1].n ELSE 0]

(* The Limit messages before the cursor, all when the cursor is unknown.   *)
listMessagesFor(all, before) ==
    LET pool == IF \E i \in DOMAIN all : all[i].n = before
                THEN SubSeq(all, 1, (CHOOSE i \in DOMAIN all : all[i].n = before) - 1)
                ELSE all
        hasMore == Len(pool) > Limit
        items == IF hasMore THEN SubSeq(pool, Len(pool) - Limit + 1, Len(pool)) ELSE pool
    IN  [items |-> items, hasMore |-> hasMore,
         nextCursor |-> IF hasMore THEN items[1].n ELSE 0]

-----------------------------------------------------------------------------
(* Actions on a conversation *)

\* Mutant: what a person attends goes back to the queue without being released.
INBOX_STATE_TRANSITIONSMutant ==
    [AI_ATENDENDO      |-> {"AGUARDANDO_HUMANO", "ENCERRADA"},
     AGUARDANDO_HUMANO |-> {"ENCERRADA"},
     HUMANO_ATENDENDO  |-> {"AGUARDANDO_HUMANO", "ENCERRADA"},
     ENCERRADA         |-> {"AGUARDANDO_HUMANO"}]

INBOX_STATE_TRANSITIONS ==
    [AI_ATENDENDO      |-> {"AGUARDANDO_HUMANO", "ENCERRADA"},
     AGUARDANDO_HUMANO |-> {"ENCERRADA"},
     HUMANO_ATENDENDO  |-> {"ENCERRADA"},
     ENCERRADA         |-> {"AGUARDANDO_HUMANO"}]

(* Whether the request changes the row.  The rest is refused, or is        *)
(* answered with the row as it is.                                         *)
Accepts(row, r) ==
    CASE r.op = "messages" -> row.state # "ENCERRADA"
      [] r.op = "state" -> r.target \in INBOX_STATE_TRANSITIONS[row.state]
      [] r.op = "assign" -> row.state # "ENCERRADA"
      [] r.op = "unassign" -> row.assigned # None

\* Mutant: a message is pushed and its conversation keeps its date.
PostMutant(row) ==
    [row EXCEPT !.messages = Append(@, [n |-> Len(@) + 1, at |-> now]), !.updatedAt = now]

Post(row) ==
    [row EXCEPT !.messages = Append(@, [n |-> Len(@) + 1, at |-> now]),
                !.lastMessageAt = now, !.updatedAt = now]

\* Mutants: released and still attended; assigned to undefined.
unassignMutant(row) == [row EXCEPT !.assigned = None, !.updatedAt = now]
unassignUndefined(row) ==
    [row EXCEPT !.assigned = "undefined", !.updatedAt = now, !.state = "AGUARDANDO_HUMANO"]

unassign(row) ==
    [row EXCEPT !.assigned = None, !.updatedAt = now,
                !.state = IF @ = "HUMANO_ATENDENDO" THEN "AGUARDANDO_HUMANO" ELSE @]

Changed(row, r) ==
    CASE r.op = "messages" -> Post(row)
      [] r.op = "state" -> [row EXCEPT !.state = r.target, !.updatedAt = now]
      [] r.op = "assign" -> [row EXCEPT !.assigned = r.user, !.state = "HUMANO_ATENDENDO",
                                        !.updatedAt = now]
      [] r.op = "unassign" -> unassign(row)

-----------------------------------------------------------------------------
(* A tab *)

Ask(t) ==
    /\ Len(queue[t]) < MaxQueue
    /\ \E r \in Writes \cup Reads : queue' = [queue EXCEPT ![t] = Append(@, r)]
    /\ UNCHANGED <<now, stored, memory, walk, told>>

\* Mutant: only messages are kept.
inboxSaveMutant(inbox, r) ==
    stored' = IF r.op = "messages" THEN inbox ELSE stored

inboxSave(inbox, r) == stored' = inbox

Taken(t) == queue' = [queue EXCEPT ![t] = Tail(@)]

(* The delay of the oldest request is over: it changes the tab's copy ...  *)
Write(t) ==
    LET r == Head(queue[t])
        row == inboxState(t)[r.conv]
        inbox == [inboxState(t) EXCEPT ![r.conv] = Changed(row, r)]
    IN  /\ queue[t] # <<>> /\ r.op # "page"
        /\ now < MaxTime
        /\ Accepts(row, r)
        /\ memory' = [memory EXCEPT ![t] = inbox]
        /\ inboxSave(inbox, r)
        /\ told' = [told EXCEPT ![r.conv] =
                      [Changed(row, r) EXCEPT !.messages =
                         IF r.op = "messages" THEN Append(told[r.conv].messages, Last(@))
                                              ELSE told[r.conv].messages]]
        /\ now' = now + 1
        /\ Taken(t)
        /\ UNCHANGED walk

(* ... or does not.                                                        *)
Refuse(t) ==
    LET r == Head(queue[t]) IN
    /\ queue[t] # <<>> /\ r.op # "page"
    /\ ~Accepts(inboxState(t)[r.conv], r)
    /\ memory' = [memory EXCEPT ![t] = inboxState(t)]
    /\ Taken(t)
    /\ UNCHANGED <<now, stored, walk, told>>

(* A page of messages.  Another conversation than the last starts anew.    *)
ReadPage(t) ==
    LET c == Head(queue[t]).conv
        from == IF walk[t].conv = c THEN walk[t] ELSE [NoWalk EXCEPT !.conv = c]
        page == listMessagesFor(inboxState(t)[c].messages, from.before)
    IN  /\ queue[t] # <<>> /\ Head(queue[t]).op = "page"
        /\ memory' = [memory EXCEPT ![t] = inboxState(t)]
        /\ walk' = [walk EXCEPT ![t] =
                      IF from.over THEN from
                      ELSE [conv |-> c, rows |-> page.items \o from.rows,
                            before |-> page.nextCursor, over |-> ~page.hasMore]]
        /\ Taken(t)
        /\ UNCHANGED <<now, stored, told>>

(* The page is loaded again: its memory and its delayed requests are gone. *)
Gone(t) ==
    /\ memory' = [memory EXCEPT ![t] = None]
    /\ queue' = [queue EXCEPT ![t] = <<>>]
    /\ walk' = [walk EXCEPT ![t] = NoWalk]

Reload(t) == Gone(t) /\ UNCHANGED <<now, stored, told>>

resetDemo(t) ==
    /\ Gone(t)
    /\ stored' = inboxInitial
    /\ told' = inboxInitial
    /\ UNCHANGED now

Next == \E t \in Tabs : \/ Ask(t) \/ Write(t) \/ Refuse(t) \/ ReadPage(t)
                        \/ Reload(t) \/ resetDemo(t)

Spec == Init /\ [][Next]_vars

-----------------------------------------------------------------------------
(* Properties *)

(* Every variable has its type.                                            *)
TypeOK ==
    /\ now \in 0..MaxTime
    /\ stored \in Inbox \cup {None}
    /\ memory \in [Tabs -> Inbox \cup {None}]
    /\ queue \in [Tabs -> Seq(Writes \cup Reads)] /\ \A t \in Tabs : Len(queue[t]) <= MaxQueue
    /\ told \in Inbox

(* A page loaded again finds every action that was answered since the last *)
(* reset: each conversation as it was left, and all the messages sent.     *)
KeptOverReload ==
    \A c \in Conversations :
        /\ loadInboxState[c].state = told[c].state
        /\ loadInboxState[c].assigned = told[c].assigned
        /\ Range(told[c].messages) \subseteq Range(loadInboxState[c].messages)

(* Nobody attends a conversation that is assigned to no one.               *)
AttendedIsAssigned ==
    \A t \in Tabs, c \in Conversations :
        inboxState(t)[c].state = "HUMANO_ATENDENDO" => inboxState(t)[c].assigned # None

(* The transitions of the real API, from the module of its conversations.  *)
API == INSTANCE ConversationLifecycle WITH
         Managers <- Users, Inbounds <- {}, Intakes <- {},
         MAX_PERSIST_ATTEMPTS <- 1, MAX_RETRIES_PER_RACE_KIND <- 0,
         conv <- told, inbox <- <<>>, replies <- <<>>, handled <- {},
         request <- <<>>, intake <- <<>>

(* The demo mirrors the API: an action moves a conversation as the API's   *)
(* table allows, or takes it over or gives it back along with its agent.   *)
ActsLikeTheApi ==
    \A c \in Conversations :
        LET old == told[c]  new == told'[c] IN
        (old.state # new.state /\ told' # inboxInitial) =>
            \/ new.state \in API!ALLOWED_TRANSITIONS[old.state]
            \/ new.state = "HUMANO_ATENDENDO" /\ old.state \in API!Open
            \/ /\ old.assigned # None /\ new.assigned = None
               /\ new.state = API!ReleasedState(old.state)

MirrorsTheApi == [][ActsLikeTheApi]_vars

(* The pages of a conversation fit together: what was fetched is a part of *)
(* its messages without a gap, up to the first when there are no more.     *)
PagesFit ==
    \A t \in Tabs :
        walk[t].conv # None =>
            LET all == inboxState(t)[walk[t].conv].messages IN
            \E i \in DOMAIN all :
                /\ i + Len(walk[t].rows) - 1 <= Len(all)
                /\ SubSeq(all, i, i + Len(walk[t].rows) - 1) = walk[t].rows
                /\ walk[t].over => i = 1

(* Every list, filtered or not, has the conversation with the newest       *)
(* message first, whatever was done to the others since.                   *)
NewestFirst ==
    \A t \in Tabs, s \in States \cup {None}, u \in Users \cup {None}, n \in BOOLEAN :
        LET inbox == inboxState(t)
            list == listConversationsFor(inbox, [state |-> s, assigned |-> u, unassigned |-> n])
        IN  \A i \in 1 .. Len(list) - 1 :
                Last(inbox[list[i]].messages).at >= Last(inbox[list[i + 1]].messages).at
=============================================================================
