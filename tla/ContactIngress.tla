----------------------------- MODULE ContactIngress -----------------------------
(***************************************************************************)
(* From a provider's message to a contact, a conversation and a stored     *)
(* message: ContactsService.findOrCreateByIdentity and                     *)
(* ConversationIngressService.ingest, called for any events at the same    *)
(* time, beside the agents who close, reopen and write.                    *)
(*                                                                         *)
(* A transaction is READ COMMITTED: each of its reads is an action.  Its   *)
(* writes and its commit are one action, because a unique index that       *)
(* refuses an INSERT does so only for rows that are committed: an INSERT   *)
(* that meets an uncommitted one waits.                                    *)
(***************************************************************************)
EXTENDS Naturals, FiniteSets

CONSTANTS
    Events,         \* what providers deliver, each any number of times: see Event
    Contacts, Conversations,
    Calls,          \* calls of ingest that may run at the same time
    Agents,         \* requests of agents that write a message
    MaxTime,        \* bound of the clock
    None,           \* SQL's NULL
    MAX_RESOLVE_ATTEMPTS, MAX_PERSIST_ATTEMPTS, MAX_RETRIES_PER_RACE_KIND

\* identity is an external contact id, phone and thread may be missing.
Channels == {e.channel : e \in Events}
Identities == {[channel |-> e.channel, external |-> e.external] : e \in Events}
Messages == {e.message : e \in Events}

ASSUME IngressAssumption ==
    /\ MaxTime \in Nat /\ \A e \in Events : e.occurredAt \in Nat
    /\ None \notin Contacts \cup Conversations
    /\ {MAX_RESOLVE_ATTEMPTS, MAX_PERSIST_ATTEMPTS} \subseteq Nat \ {0}
    /\ MAX_RETRIES_PER_RACE_KIND \in Nat

VARIABLES
    clock,
    contact,    \* the contacts table
    identity,   \* contact_channel_identities: the contact of an identity
    conv,       \* the conversations table
    stored,     \* the messages table
    call,       \* call[k]: how far a call of ingest has come
    send        \* send[a]: an agent's request between its read and its write

db == <<contact, identity, conv, stored>>
vars == <<clock, db, call, send>>

-----------------------------------------------------------------------------
IdentityOf(e) == [channel |-> e.channel, external |-> e.external]

NoContact == [exists |-> FALSE, phone |-> None]
NoConv == [state |-> "ABSENT", contact |-> None, channel |-> None, thread |-> None, last |-> 0]
Idle == [phase |-> "idle"]
NoSend == [conv |-> None, at |-> 0]
NoRetries == [conversation |-> 0, message |-> 0]

IsOpen(c) == conv[c].state = "OPEN"

Init ==
    /\ clock = 0
    /\ contact = [p \in Contacts |-> NoContact]
    /\ identity = [i \in Identities |-> None]
    /\ conv = [c \in Conversations |-> NoConv]
    /\ stored = {}
    /\ call = [k \in Calls |-> Idle]
    /\ send = [a \in Agents |-> NoSend]

InPhase(k, phase) == call[k].phase = phase
Goes(k, x) == call' = [call EXCEPT ![k] = x]
Ends(k) == Goes(k, Idle)

-----------------------------------------------------------------------------
(* The message is looked up first *)

\* Mutant: a clock of the provider that runs ahead is believed.
SentAtMutant(e) == e.occurredAt

\* A time in the future is clamped to the time of receipt.
SentAt(e) == IF e.occurredAt > clock THEN clock ELSE e.occurredAt

\* findProcessed: the message is there, from this channel or (a 409) from another one.
FindProcessed(e) == \E x \in stored : x.event # None /\ x.event.message = e.message

\* A message that is there already needs nothing.
Ingest(k, e) ==
    /\ InPhase(k, "idle")
    /\ ~FindProcessed(e)
    /\ Goes(k, [phase |-> "received", event |-> e, at |-> SentAt(e), contact |-> None,
                conv |-> None, anchor |-> FALSE, attempt |-> 1, retries |-> NoRetries])
    /\ UNCHANGED <<clock, db, send>>

-----------------------------------------------------------------------------
(* findOrCreateByIdentity: a transaction of its own, run again after a lost race *)

LookUpIdentity(k) ==
    LET x == call[k]
        p == identity[IdentityOf(x.event)]
    IN
    /\ InPhase(k, "received")
    /\ Goes(k, IF p # None
               THEN [x EXCEPT !.phase = "resolved", !.contact = p, !.attempt = 1]
               ELSE [x EXCEPT !.phase = "unknown"])
    /\ UNCHANGED <<clock, db, send>>

WithPhone(phone) == {p \in Contacts : contact[p].exists /\ contact[p].phone = phone}

\* At most one contact has a phone; without a phone there is nothing to look for.
LookUpPhone(k) ==
    /\ InPhase(k, "unknown")
    /\ IF call[k].event.phone # None /\ WithPhone(call[k].event.phone) # {}
       THEN \E p \in WithPhone(call[k].event.phone) :
              Goes(k, [call[k] EXCEPT !.phase = "insert", !.contact = p])
       ELSE Goes(k, [call[k] EXCEPT !.phase = "insert", !.contact = None])
    /\ UNCHANGED <<clock, db, send>>

\* Mutant: one attempt too few.
CanResolveAgainMutant(x) == x.attempt + 1 < MAX_RESOLVE_ATTEMPTS
CanResolveAgain(x) == x.attempt < MAX_RESOLVE_ATTEMPTS

LoseContact(k) ==
    Goes(k, IF CanResolveAgain(call[k])
            THEN [call[k] EXCEPT !.phase = "received", !.contact = None, !.attempt = @ + 1]
            ELSE [call[k] EXCEPT !.phase = "failed", !.contact = None])

\* Mutant: the contact is committed before the identity is refused.
KeptMutant(p, phone) == contact' = [contact EXCEPT ![p] = [exists |-> TRUE, phone |-> phone]]
Kept(p, phone) == UNCHANGED contact

\* (tenant, phone) and (tenant, channel, external id) are unique: a contact and its
\* identity are there together or not at all.
InsertIdentity(k) ==
    LET x == call[k]
        i == IdentityOf(x.event)
        new == x.contact = None
    IN
    /\ InPhase(k, "insert")
    /\ \E p \in IF new THEN {q \in Contacts : ~contact[q].exists} ELSE {x.contact} :
         \/ /\ new /\ x.event.phone # None /\ WithPhone(x.event.phone) # {}
            /\ LoseContact(k)
            /\ UNCHANGED <<contact, identity>>
         \/ /\ new => x.event.phone = None \/ WithPhone(x.event.phone) = {}
            /\ identity[i] # None
            /\ LoseContact(k)
            /\ IF new THEN Kept(p, x.event.phone) ELSE UNCHANGED contact
            /\ UNCHANGED identity
         \/ /\ new => x.event.phone = None \/ WithPhone(x.event.phone) = {}
            /\ identity[i] = None
            /\ contact' = [contact EXCEPT ![p] =
                             IF new THEN [exists |-> TRUE, phone |-> x.event.phone] ELSE @]
            /\ identity' = [identity EXCEPT ![i] = p]
            /\ Goes(k, [x EXCEPT !.phase = "resolved", !.contact = p, !.attempt = 1])
    /\ UNCHANGED <<clock, conv, stored, send>>

-----------------------------------------------------------------------------
(* The persist transaction: its reads *)

Recheck(k) ==
    /\ InPhase(k, "resolved")
    /\ IF FindProcessed(call[k].event) THEN Ends(k)
       ELSE Goes(k, [call[k] EXCEPT !.phase = "checked"])
    /\ UNCHANGED <<clock, db, send>>

OfThread(e) ==
    {c \in Conversations : IsOpen(c) /\ conv[c].channel = e.channel
                           /\ e.thread # None /\ conv[c].thread = e.thread}

\* Mutant: whoever has the thread gets the message.
RefusesThreadMutant(c, x) == FALSE

\* 409: a conversation is never moved between contacts.
RefusesThread(c, x) == conv[c].contact # x.contact

FindByThread(k) ==
    LET x == call[k] IN
    /\ InPhase(k, "checked")
    /\ IF OfThread(x.event) = {}
       THEN Goes(k, [x EXCEPT !.phase = "noThread"])
       ELSE \E c \in OfThread(x.event) :
              IF RefusesThread(c, x) THEN Ends(k)
              ELSE Goes(k, [x EXCEPT !.phase = "decided", !.conv = c, !.anchor = FALSE])
    /\ UNCHANGED <<clock, db, send>>

OpenOf(p, channel) ==
    {c \in Conversations : IsOpen(c) /\ conv[c].contact = p /\ conv[c].channel = channel}

\* An open conversation of the contact, to be anchored if it has no thread yet; or none.
FindOpen(k) ==
    LET x == call[k]
        open == OpenOf(x.contact, x.event.channel)
    IN
    /\ InPhase(k, "noThread")
    /\ IF open = {}
       THEN Goes(k, [x EXCEPT !.phase = "decided", !.conv = None, !.anchor = FALSE])
       ELSE \E c \in open :
              Goes(k, [x EXCEPT !.phase = "decided", !.conv = c,
                                !.anchor = x.event.thread # None /\ conv[c].thread = None])
    /\ UNCHANGED <<clock, db, send>>

-----------------------------------------------------------------------------
(* The persist transaction: its writes, and what a lost race does to them *)

\* The indexes conversations_open_per_contact_channel and
\* conversations_open_external_conversation_id.
OpenIndexesAllow(c, row) ==
    \A d \in Conversations \ {c} : IsOpen(d) /\ conv[d].channel = row.channel =>
        conv[d].contact # row.contact /\ (row.thread # None => conv[d].thread # row.thread)

\* Mutant: the anchor is set whatever the row has by now.
AnchorsMutant(x) == x.anchor /\ IsOpen(x.conv)

\* The UPDATE matches while the anchor is NULL and the conversation open.
Anchors(x) == x.anchor /\ IsOpen(x.conv) /\ conv[x.conv].thread = None

\* Mutant: the last writer wins.
advanceLastMessageAtMutant(row, at) == [row EXCEPT !.last = at]

\* lastMessageAt = max(current, sentAt), on the row as it is now.
advanceLastMessageAt(row, at) == [row EXCEPT !.last = IF at > @ THEN at ELSE @]

canRetry(x, kind) ==
    x.attempt < MAX_PERSIST_ATTEMPTS /\ x.retries[kind] < MAX_RETRIES_PER_RACE_KIND

LoseRace(k, kind) ==
    /\ Goes(k, IF canRetry(call[k], kind)
               THEN [call[k] EXCEPT !.phase = "resolved", !.conv = None, !.anchor = FALSE,
                                    !.attempt = @ + 1, !.retries[kind] = @ + 1]
               ELSE [call[k] EXCEPT !.phase = "failed"])
    /\ UNCHANGED <<conv, stored>>

\* Mutant: an insert that meets the same message stores it again.
MessageIsFreeMutant(e) == TRUE
MessageIsFree(e) == ~FindProcessed(e)

\* row is what the transaction makes of the conversation before the message.
createMessage(k, c, row) ==
    IF MessageIsFree(call[k].event)
    THEN /\ stored' = stored \cup {[event |-> call[k].event, conv |-> c, at |-> call[k].at]}
         /\ conv' = [conv EXCEPT ![c] = advanceLastMessageAt(row, call[k].at)]
         /\ Ends(k)
    ELSE LoseRace(k, "message")

Persist(k) ==
    LET x == call[k]
        created(c) == [state |-> "OPEN", contact |-> x.contact, channel |-> x.event.channel,
                       thread |-> x.event.thread, last |-> 0]
        anchored == [conv[x.conv] EXCEPT !.thread = x.event.thread]
    IN
    /\ InPhase(k, "decided")
    /\ \/ /\ x.conv = None
          /\ \E c \in {d \in Conversations : conv[d].state = "ABSENT"} :
               IF OpenIndexesAllow(c, created(c)) THEN createMessage(k, c, created(c))
               ELSE LoseRace(k, "conversation")
       \/ /\ x.conv # None
          /\ IF ~Anchors(x) THEN createMessage(k, x.conv, conv[x.conv])
             ELSE IF OpenIndexesAllow(x.conv, anchored) THEN createMessage(k, x.conv, anchored)
             ELSE LoseRace(k, "conversation")
    /\ UNCHANGED <<clock, contact, identity, send>>

\* Any other error, or a crash: the transaction is rolled back and the provider told
\* to deliver again.
Abandon(k) ==
    /\ call[k].phase # "idle"
    /\ Ends(k)
    /\ UNCHANGED <<clock, db, send>>

-----------------------------------------------------------------------------
(* Agents *)

\* MessagesService.send, up to its clock; the conversation is open when it is read.
DecideSend(a, c) ==
    /\ send[a] = NoSend /\ IsOpen(c)
    /\ send' = [send EXCEPT ![a] = [conv |-> c, at |-> clock]]
    /\ UNCHANGED <<clock, db, call>>

\* The INSERT and the UPDATE by id of lastMessageAt.
CommitSend(a) ==
    LET x == send[a] IN
    /\ x # NoSend
    /\ stored' = stored \cup {[event |-> None, conv |-> x.conv, at |-> x.at]}
    /\ conv' = [conv EXCEPT ![x.conv].last = x.at]
    /\ send' = [send EXCEPT ![a] = NoSend]
    /\ UNCHANGED <<clock, contact, identity, call>>

changeState(c) ==
    /\ \/ IsOpen(c) /\ conv' = [conv EXCEPT ![c].state = "ENCERRADA"]
       \/ /\ conv[c].state = "ENCERRADA" /\ OpenIndexesAllow(c, conv[c])
          /\ conv' = [conv EXCEPT ![c].state = "OPEN"]
    /\ UNCHANGED <<clock, contact, identity, stored, call, send>>

Tick ==
    /\ clock < MaxTime
    /\ clock' = clock + 1
    /\ UNCHANGED <<db, call, send>>

Next ==
    \/ \E k \in Calls :
         \/ \E e \in Events : Ingest(k, e)
         \/ LookUpIdentity(k) \/ LookUpPhone(k) \/ InsertIdentity(k)
         \/ Recheck(k) \/ FindByThread(k) \/ FindOpen(k) \/ Persist(k) \/ Abandon(k)
    \/ \E a \in Agents : CommitSend(a) \/ \E c \in Conversations : DecideSend(a, c)
    \/ \E c \in Conversations : changeState(c)
    \/ Tick

Spec == Init /\ [][Next]_vars

-----------------------------------------------------------------------------
(* Properties *)

Times == 0..MaxTime
Phases == {"received", "unknown", "insert", "resolved", "checked", "noThread", "decided", "failed"}
IngressCalls ==
    [phase : Phases, event : Events, at : Times, contact : Contacts \cup {None},
     conv : Conversations \cup {None}, anchor : BOOLEAN,
     attempt : 1..MAX_RESOLVE_ATTEMPTS \cup 1..MAX_PERSIST_ATTEMPTS,
     retries : [conversation : Nat, message : Nat]]

\* Every variable has its type.
TypeOK ==
    /\ clock \in Times
    /\ contact \in [Contacts -> [exists : BOOLEAN, phone : {e.phone : e \in Events} \cup {None}]]
    /\ identity \in [Identities -> Contacts \cup {None}]
    /\ conv \in [Conversations ->
                 [state : {"ABSENT", "OPEN", "ENCERRADA"}, contact : Contacts \cup {None},
                  channel : Channels \cup {None}, thread : {e.thread : e \in Events} \cup {None},
                  last : Times]]
    /\ stored \subseteq [event : Events \cup {None}, conv : Conversations, at : Times]
    /\ call \in [Calls -> {Idle} \cup IngressCalls]
    /\ send \in [Agents -> {NoSend} \cup [conv : Conversations, at : Times]]

\* A message is in a conversation of the contact its sender's identity leads to, on
\* its own channel, whatever threads and phones it shares with others.
MessageOfItsContact ==
    \A x \in stored : x.event # None =>
        /\ conv[x.conv].contact = identity[IdentityOf(x.event)]
        /\ conv[x.conv].channel = x.event.channel

\* A provider's message is stored once.
StoredOnce ==
    \A x, y \in stored : x.event # None /\ y.event # None /\ x.event.message = y.event.message => x = y

\* The first anchor wins: a conversation never changes its thread, its contact or its
\* channel, however many events and agents are at it.
AnchorIsFinal ==
    [][\A c \in Conversations : conv[c].state # "ABSENT" =>
          /\ conv'[c].contact = conv[c].contact /\ conv'[c].channel = conv[c].channel
          /\ conv[c].thread # None => conv'[c].thread = conv[c].thread]_vars

HasNewest(c) ==
    /\ \E x \in stored : x.conv = c /\ x.at = conv[c].last
    /\ \A x \in stored : x.conv = c => x.at <= conv[c].last

\* lastMessageAt is the time of the newest message, in whatever order messages are
\* stored, as long as no agent has written. Then, see NeverDriftApart.
LastIsNewestInbound ==
    \A c \in Conversations :
        conv[c].state # "ABSENT" /\ (\A x \in stored : x.conv = c => x.event # None) => HasNewest(c)

\* A race never leaves a contact that nobody can be reached as.
NoOrphanContact ==
    \A p \in Contacts : contact[p].exists => \E i \in Identities : identity[i] = p

\* Three attempts are enough to find or create a contact, however many others do.
ContactRaceIsWon ==
    \A k \in Calls : InPhase(k, "failed") => call[k].contact # None

\* A race for a contact is won within the code's three attempts, by whoever it may be, and
\* never leaves a contact nobody can be reached as (ContactsService.findOrCreateByIdentity).
ContactRaceEndsWell == ContactRaceIsWon /\ NoOrphanContact

(* The inductive invariant behind them *)

\* What a transaction wrote is in a conversation that exists; agents write into those; and
\* each has a contact.
ConversationsExist ==
    /\ \A c \in Conversations : conv[c].state # "ABSENT" => conv[c].contact # None
    /\ \A x \in stored : conv[x.conv].state # "ABSENT"
    /\ \A a \in Agents : send[a] # NoSend => conv[send[a].conv].state # "ABSENT"

\* What a call has read of its contact stays true, since an identity is never moved; and
\* of the conversation, which may be closed meanwhile, since it never changes its owner.
IsWellInformed(k) ==
    LET x == call[k] IN
    /\ x.phase \in {"resolved", "checked", "noThread", "decided"} =>
          x.contact # None /\ identity[IdentityOf(x.event)] = x.contact
    /\ x.phase = "decided" /\ x.conv # None =>
          /\ conv[x.conv].state # "ABSENT"
          /\ conv[x.conv].contact = x.contact /\ conv[x.conv].channel = x.event.channel

IsKnown(e) == identity[IdentityOf(e)] # None
PhoneIsTaken(e) == e.phone # None /\ WithPhone(e.phone) # {}

\* A lost race leaves less to lose: whoever loses once finds the identity or the phone,
\* and whoever loses twice finds the identity.
LosesLess(k) ==
    LET x == call[k] IN
    /\ x.phase \in {"received", "unknown"} /\ x.attempt = 2 => IsKnown(x.event) \/ PhoneIsTaken(x.event)
    /\ x.phase = "insert" /\ x.attempt = 2 => IsKnown(x.event) \/ x.contact # None
    /\ x.phase = "received" => x.attempt <= 2 \/ (x.attempt = 3 /\ IsKnown(x.event))
    /\ x.phase \in {"unknown", "insert"} => x.attempt <= 2
    /\ x.phase = "failed" => x.contact # None \/ MAX_RESOLVE_ATTEMPTS < 3

IngressInv ==
    /\ ConversationsExist /\ MessageOfItsContact /\ StoredOnce
    /\ LastIsNewestInbound /\ NoOrphanContact
    /\ \A k \in Calls : IsWellInformed(k) /\ LosesLess(k)

(* What the comments say and the code does not keep *)

\* lastMessageAt and the messages never drift apart.
NeverDriftApart == \A c \in Conversations : conv[c].state # "ABSENT" => HasNewest(c)

\* An agent writes into a conversation that is open; a closed one is reopened first.
ClosedTakesNoAnswer ==
    [][\A a \in Agents : send[a] # NoSend /\ send'[a] = NoSend => IsOpen(send[a].conv)]_vars

\* One retry per kind of race is enough.
NoRaceSurfaces == \A k \in Calls : ~InPhase(k, "failed")
=============================================================================
