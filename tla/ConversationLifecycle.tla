------------------------- MODULE ConversationLifecycle -------------------------
(***************************************************************************)
(* The conversations of one contact on one external channel: the inbound   *)
(* path that opens them and acknowledges the first contact, and the agents *)
(* who assign, release, close and reopen them.                             *)
(*                                                                         *)
(* An operation is a READ COMMITTED transaction that reads a row, decides, *)
(* and writes.  Nothing locks the row it read, so read and write are two   *)
(* actions; the write holds the row lock until the commit, so the write,   *)
(* the statements after it and the commit are one.  An operation that      *)
(* fails leaves nothing behind.                                            *)
(***************************************************************************)
EXTENDS Naturals, FiniteSets

CONSTANTS
    Conversations,  \* the conversation ids there may be
    Users,          \* the users of the tenant
    Managers,       \* those with role ADMIN or GESTOR
    Inbounds,       \* the contact's messages, by the provider's message id
    Intakes,        \* concurrent calls of ConversationIntakeService.receive
    None,           \* SQL's NULL
    MAX_PERSIST_ATTEMPTS, MAX_RETRIES_PER_RACE_KIND

ASSUME LifecycleAssumption ==
    /\ Managers \subseteq Users
    /\ None \notin Users \cup Conversations \cup Inbounds
    /\ MAX_PERSIST_ATTEMPTS \in Nat \ {0}
    /\ MAX_RETRIES_PER_RACE_KIND \in Nat

VARIABLES
    conv,     \* the conversations table
    inbox,    \* inbox[i]: the conversation the inbound message i is stored in
    replies,  \* replies[c]: the messages an automatic reply in c acknowledges
    handled,  \* conversations with a person's entry in the audit log
    request,  \* request[u]: what u's request has read and is about to write
    intake    \* intake[p]: how far a call of the inbound path has come

vars == <<conv, inbox, replies, handled, request, intake>>

-----------------------------------------------------------------------------
Open == {"AI_ATENDENDO", "AGUARDANDO_HUMANO", "HUMANO_ATENDENDO"}
States == Open \cup {"ENCERRADA", "ABSENT"}

Row == [state : States, assigned : Users \cup {None}]
NoRow == [state |-> "ABSENT", assigned |-> None]

Operations == {"assign", "unassign", "changeState"}
\* The assignee the UPDATE compares with, and the state and assignee it sets.
Request == [op       : Operations,
            conv     : Conversations,
            seen     : Users \cup {None},
            state    : States,
            assignee : Users \cup {None}]
NoRequest == [op |-> None, conv |-> None, seen |-> None,
              state |-> "ABSENT", assignee |-> None]

RaceKinds == {"conversation", "message"}
NoRetries == [kind \in RaceKinds |-> 0]
\* conv is what resolveConversation found.
Intake == [phase   : {"received", "resolved", "acknowledge"},
           msg     : Inbounds,
           conv    : Conversations \cup {None},
           retries : [RaceKinds -> 0..MAX_RETRIES_PER_RACE_KIND]]
NoIntake == [phase |-> "idle", msg |-> None, conv |-> None, retries |-> NoRetries]

Init ==
    /\ conv = [c \in Conversations |-> NoRow]
    /\ inbox = [i \in Inbounds |-> None]
    /\ replies = [c \in Conversations |-> {}]
    /\ handled = {}
    /\ request = [u \in Users |-> NoRequest]
    /\ intake = [p \in Intakes |-> NoIntake]

\* The partial unique index conversations_open_per_contact_channel.
OpenIndexAllows(c, state) ==
    state \in Open => \A d \in Conversations \ {c} : conv[d].state \notin Open

-----------------------------------------------------------------------------
(* Agents: what a request reads and decides *)

isManager(u) == u \in Managers

assertCanReassign(u, current, target) ==
    \/ isManager(u)
    \/ current = None /\ target = u
    \/ current = u

Begin(u, op, c, seen, state, assignee) ==
    /\ request[u] = NoRequest
    /\ conv[c].state # "ABSENT"
    /\ request' = [request EXCEPT ![u] =
                     [op |-> op, conv |-> c, seen |-> seen,
                      state |-> state, assignee |-> assignee]]
    /\ UNCHANGED <<conv, inbox, replies, handled, intake>>

assign(u, c, target) ==
    /\ conv[c].state # "ENCERRADA"
    /\ assertCanReassign(u, conv[c].assigned, target)
    /\ Begin(u, "assign", c, conv[c].assigned, "HUMANO_ATENDENDO", target)

\* Mutants: released to the wrong state.
ReleasedStateMutant(state) == state
ReleasedStateToEntry(state) ==
    IF state = "HUMANO_ATENDENDO" THEN "AI_ATENDENDO" ELSE state

ReleasedState(state) ==
    IF state = "HUMANO_ATENDENDO" THEN "AGUARDANDO_HUMANO" ELSE state

unassign(u, c) ==
    /\ conv[c].assigned # None
    /\ isManager(u) \/ conv[c].assigned = u
    /\ Begin(u, "unassign", c, conv[c].assigned, ReleasedState(conv[c].state), None)

ALLOWED_TRANSITIONS ==
    [ABSENT            |-> {},
     AI_ATENDENDO      |-> {"AGUARDANDO_HUMANO", "ENCERRADA"},
     AGUARDANDO_HUMANO |-> {"ENCERRADA"},
     HUMANO_ATENDENDO  |-> {"ENCERRADA"},
     ENCERRADA         |-> {"AGUARDANDO_HUMANO"}]

changeState(u, c, target) ==
    /\ target \in ALLOWED_TRANSITIONS[conv[c].state]
    /\ "ENCERRADA" \in {target, conv[c].state} =>
           isManager(u) \/ conv[c].assigned = u
    /\ Begin(u, "changeState", c, None, target, None)

-----------------------------------------------------------------------------
(* Agents: the UPDATE, the audit entry and the commit *)

\* Mutant: no compare-and-set on the assignee.
StillMatchesMutant(r) == TRUE

\* assign and unassign compare the assignee they read; changeState compares nothing.
StillMatches(r) == r.op = "changeState" \/ conv[r.conv].assigned = r.seen

\* changeState writes only the state.
Written(r) ==
    [state    |-> r.state,
     assigned |-> IF r.op = "changeState" THEN conv[r.conv].assigned ELSE r.assignee]

Commit(u) ==
    LET r == request[u] IN
    /\ r # NoRequest
    /\ StillMatches(r)
    /\ OpenIndexAllows(r.conv, r.state)
    /\ conv' = [conv EXCEPT ![r.conv] = Written(r)]
    /\ handled' = handled \cup {r.conv}
    /\ request' = [request EXCEPT ![u] = NoRequest]
    /\ UNCHANGED <<inbox, replies, intake>>

\* A conflict, a unique violation, a lost connection or a crash: nothing is written.
Rollback(u) ==
    /\ request[u] # NoRequest
    /\ request' = [request EXCEPT ![u] = NoRequest]
    /\ UNCHANGED <<conv, inbox, replies, handled, intake>>

-----------------------------------------------------------------------------
(* The inbound path: ingest, then acknowledge.  On this channel messages carry *)
(* no thread id.                                                               *)

\* The provider delivers a message, perhaps again, perhaps while it is processed.
Receive(p, i) ==
    /\ intake[p].phase = "idle"
    /\ intake' = [intake EXCEPT ![p] =
                    [phase |-> "received", msg |-> i, conv |-> None, retries |-> NoRetries]]
    /\ UNCHANGED <<conv, inbox, replies, handled, request>>

\* findProcessed, then resolveConversation's search.  A message already stored
\* ends the call as a duplicate, which is never acknowledged.
resolveConversation(p) ==
    /\ intake[p].phase = "received"
    /\ IF inbox[intake[p].msg] # None
       THEN intake' = [intake EXCEPT ![p] = NoIntake]
       ELSE \E found \in Conversations \cup {None} :
              /\ IF found = None
                 THEN \A c \in Conversations : conv[c].state \notin Open
                 ELSE conv[found].state \in Open
              /\ intake' = [intake EXCEPT ![p].phase = "resolved", ![p].conv = found]
    /\ UNCHANGED <<conv, inbox, replies, handled, request>>

\* Mutant: one retry too many.
canRetryMutant(retries, kind) == retries[kind] <= MAX_RETRIES_PER_RACE_KIND

canRetry(retries, kind) ==
    /\ 1 + retries["conversation"] + retries["message"] < MAX_PERSIST_ATTEMPTS
    /\ retries[kind] < MAX_RETRIES_PER_RACE_KIND

Retried(call, kind) ==
    [call EXCEPT !.phase = "received", !.conv = None,
                 !.retries = [call.retries EXCEPT ![kind] = @ + 1]]

\* A lost race rolls back.  It is retried in a new transaction, or thrown.
LoseRace(p, kind) ==
    /\ \/ /\ ~canRetry(intake[p].retries, kind)
          /\ intake' = [intake EXCEPT ![p] = NoIntake]
       \/ /\ canRetry(intake[p].retries, kind)
          /\ intake' = [intake EXCEPT ![p] = Retried(intake[p], kind)]
    /\ UNCHANGED <<conv, inbox, replies, handled, request>>

isPendingFirstContact(row) == row.state = "AI_ATENDENDO" /\ row.assigned = None

\* The message is stored in c, which now has the given row; the call goes on to
\* the acknowledgement if that row, as the commit leaves it, is a first contact.
Store(p, c, row) ==
    /\ inbox' = [inbox EXCEPT ![intake[p].msg] = c]
    /\ conv' = [conv EXCEPT ![c] = row]
    /\ intake' = [intake EXCEPT ![p] =
                    IF isPendingFirstContact(row)
                    THEN [@ EXCEPT !.phase = "acknowledge", !.conv = c]
                    ELSE NoIntake]
    /\ UNCHANGED <<replies, handled, request>>

\* The conversation found takes the message, whatever has become of it.
createMessage(p) ==
    /\ intake[p].phase = "resolved" /\ intake[p].conv # None
    /\ IF inbox[intake[p].msg] # None
       THEN LoseRace(p, "message")
       ELSE Store(p, intake[p].conv, conv[intake[p].conv])

\* None was found: a new one is opened in the transaction of its first message.
createConversation(p) ==
    /\ intake[p].phase = "resolved" /\ intake[p].conv = None
    /\ \E c \in Conversations :
         /\ conv[c].state = "ABSENT"
         /\ IF ~OpenIndexAllows(c, "AI_ATENDENDO") THEN LoseRace(p, "conversation")
            ELSE IF inbox[intake[p].msg] # None THEN LoseRace(p, "message")
            ELSE Store(p, c, [state |-> "AI_ATENDENDO", assigned |-> None])

\* Mutants: the reply is decided on the row ingest returned; the claim commits
\* without its reply.
acknowledgeUnclaimed(p) ==
    LET c == intake[p].conv IN
    /\ intake[p].phase = "acknowledge"
    /\ conv' = [conv EXCEPT ![c].state = "AGUARDANDO_HUMANO"]
    /\ replies' = [replies EXCEPT ![c] = @ \cup {intake[p].msg}]
    /\ intake' = [intake EXCEPT ![p] = NoIntake]
    /\ UNCHANGED <<inbox, handled, request>>
acknowledgeInTwo(p) ==
    LET c == intake[p].conv IN
    /\ intake[p].phase = "acknowledge"
    /\ isPendingFirstContact(conv[c])
    /\ conv' = [conv EXCEPT ![c].state = "AGUARDANDO_HUMANO"]
    /\ intake' = [intake EXCEPT ![p] = NoIntake]
    /\ UNCHANGED <<inbox, handled, request, replies>>

\* The claim of the first contact and the reply, in one transaction.
acknowledge(p) ==
    LET c == intake[p].conv IN
    /\ intake[p].phase = "acknowledge"
    /\ isPendingFirstContact(conv[c])
    /\ conv' = [conv EXCEPT ![c].state = "AGUARDANDO_HUMANO"]
    /\ replies' = [replies EXCEPT ![c] = @ \cup {intake[p].msg}]
    /\ intake' = [intake EXCEPT ![p] = NoIntake]
    /\ UNCHANGED <<inbox, handled, request>>

\* The claim finds no row, a transaction fails, or the process dies.
Abandon(p) ==
    /\ intake[p].phase # "idle"
    /\ intake' = [intake EXCEPT ![p] = NoIntake]
    /\ UNCHANGED <<conv, inbox, replies, handled, request>>

-----------------------------------------------------------------------------
Agent(u) ==
    \/ \E c \in Conversations :
         \/ \E target \in Users : assign(u, c, target)
         \/ unassign(u, c)
         \/ \E target \in States : changeState(u, c, target)
    \/ Commit(u)
    \/ Rollback(u)

Inbound(p) ==
    \/ \E i \in Inbounds : Receive(p, i)
    \/ resolveConversation(p)
    \/ createMessage(p)
    \/ createConversation(p)
    \/ acknowledge(p)
    \/ Abandon(p)

Next == (\E u \in Users : Agent(u)) \/ (\E p \in Intakes : Inbound(p))

Spec == Init /\ [][Next]_vars

-----------------------------------------------------------------------------
(* Properties *)

\* Every variable has its type.
TypeOK ==
    /\ conv \in [Conversations -> Row]
    /\ inbox \in [Inbounds -> Conversations \cup {None}]
    /\ replies \in [Conversations -> SUBSET Inbounds]
    /\ handled \subseteq Conversations
    /\ request \in [Users -> Request \cup {NoRequest}]
    /\ intake \in [Intakes -> Intake \cup {NoIntake}]

\* A conversation gets at most one automatic reply, however many messages arrive
\* together, are redelivered, or find the same conversation in its entry state.
AtMostOneReply ==
    \A c \in Conversations : \A i, j \in replies[c] : i = j

\* AI_ATENDENDO is the entry state: a conversation in it was never acknowledged,
\* assigned, or changed by a person, not even by an UPDATE that writes back a
\* state it read earlier.
EntryStateIsUntouched ==
    \A c \in Conversations :
        conv[c].state = "AI_ATENDENDO" =>
            conv[c].assigned = None /\ replies[c] = {} /\ c \notin handled

\* A conversation is never handed to the team without its reply: one that waits
\* for a human was acknowledged, unless a person moved it.
HandoffHasReply ==
    \A c \in Conversations :
        conv[c].state = "AGUARDANDO_HUMANO" /\ c \notin handled => replies[c] # {}

\* A human cannot be attending without being assigned, whichever stale read an
\* assignment, a release and a transition were decided on.
AttendedIsAssigned ==
    \A c \in Conversations :
        conv[c].state = "HUMANO_ATENDENDO" => conv[c].assigned # None

\* A human always wins: no reply is created in a conversation a person has touched.
HumanAlwaysWins ==
    [][\A c \in Conversations : replies'[c] # replies[c] => c \notin handled]_vars

\* An agent is only taken off a conversation by a manager or by themselves.
AssignmentRespected ==
    [][\A c \in Conversations, u \in Users :
          conv[c].assigned = u /\ conv'[c].assigned # u =>
              \E actor \in Managers \cup {u} :
                  request[actor].conv = c /\ request'[actor] = NoRequest]_vars

(* The inductive invariant behind them *)

\* Nobody has anything to do with a conversation before it leaves its entry state.
UntouchedUntilHandoff ==
    \A c \in Conversations :
        conv[c].state \in {"ABSENT", "AI_ATENDENDO"} =>
            conv[c].assigned = None /\ replies[c] = {} /\ c \notin handled

\* What was decided on a row read earlier stays safe to write, whatever the row is
\* now: no request leads back to the entry state, only an assignment leads to a
\* human attending, and whoever replaces an assignee was entitled to replace that one.
RequestsAreSound ==
    \A u \in Users : request[u] # NoRequest =>
        /\ request[u].state \in {"AGUARDANDO_HUMANO", "HUMANO_ATENDENDO", "ENCERRADA"}
        /\ request[u].state = "HUMANO_ATENDENDO" =>
              request[u].op = "assign" /\ request[u].assignee # None
        /\ request[u].op # "changeState" /\ request[u].seen # None =>
              u \in Managers \cup {request[u].seen}

IntakesAreSound ==
    \A p \in Intakes : intake[p].phase = "acknowledge" => intake[p].conv \in Conversations

\* Conversations, replies, requests and inbound calls fit together.
LifecycleInv ==
    /\ UntouchedUntilHandoff
    /\ RequestsAreSound
    /\ IntakesAreSound
    /\ AtMostOneReply
    /\ HandoffHasReply
    /\ AttendedIsAssigned

(* What the documentation says and the code does not keep *)

\* assignedUserId and state never disagree: an open conversation has an assignee
\* exactly when a human is attending it.
StateAgreesWithAssignee ==
    \A c \in Conversations :
        conv[c].state \in Open =>
            (conv[c].assigned # None <=> conv[c].state = "HUMANO_ATENDENDO")

\* A closed conversation is not assigned: it has to be reopened first.
ClosedIsNotAssigned ==
    [][\A c \in Conversations :
          conv[c].state = "ENCERRADA" => conv'[c].state # "HUMANO_ATENDENDO"]_vars

\* A closed conversation is history: no inbound message is stored in it.
ClosedIsNeverReused ==
    [][\A i \in Inbounds :
          inbox'[i] # inbox[i] => conv[inbox'[i]].state # "ENCERRADA"]_vars

\* An agent who is not a manager closes only conversations of their own.
OnlyTheOwnerCloses ==
    [][\A c \in Conversations :
          conv[c].state # "ENCERRADA" /\ conv'[c].state = "ENCERRADA" =>
              \E actor \in Managers \cup ({conv[c].assigned} \ {None}) :
                  request[actor].conv = c /\ request'[actor] = NoRequest]_vars
=============================================================================
