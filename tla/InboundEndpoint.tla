---------------------------- MODULE InboundEndpoint ----------------------------
(***************************************************************************)
(* POST /api/conversations/inbound: the way in for the adapters of other   *)
(* channels.  A caller has a service credential, listed in                 *)
(* INBOUND_SERVICE_CREDENTIALS, that each process reads once, when it      *)
(* boots.  The operator changes the list and the caller's key while        *)
(* processes run and restart; the caller sends a message again until it    *)
(* has an answer that settles it.  What the intake does with a message is  *)
(* module ContactIngress: here it is one transaction, stored or duplicate. *)
(***************************************************************************)
EXTENDS Naturals, FiniteSets

CONSTANTS
    Instances,          \* processes of the API
    Credentials,        \* entries the operator may write: see CredentialType
    Lines,              \* places of the list: 1..n
    First,              \* the caller's entry at the beginning
    Bodies,             \* what the caller has to deliver: see BodyType
    Taken,              \* bodies whose externalMessageId another channel has used
    Slots,              \* requests that may be under way at the same time
    RateLimit,          \* INBOUND_RATE_LIMIT.limit
    MaxContent,         \* MAX_CONTENT
    MaxEdits, MaxFaults,    \* bounds: entries added; stops, failures and lost answers
    None

\* sound: each field by itself is what parseInboundCredentials accepts.
CredentialType(c) ==
    /\ DOMAIN c = {"keyId", "tenantId", "channel", "secret", "sound"}
    /\ c.sound \in BOOLEAN
\* unknown: the fields InboundMessageDto does not have; a time without an offset is "local".
BodyType(b) ==
    /\ DOMAIN b = {"message", "unknown", "content", "contact", "occurredAt"}
    /\ b.content \in Nat
    /\ b.contact \in {None, "sound", "unsound"}
    /\ b.occurredAt \in {None, "local", "offset"}

\* What the endpoint answers.
Statuses == {200, 201, 400, 401, 409, 429, 500}

EndpointAssumption ==
    /\ \A c \in Credentials : CredentialType(c)
    /\ \A b \in Bodies : BodyType(b)
    /\ First \in Credentials /\ First.sound
    /\ Lines \subseteq Nat /\ 1 \in Lines /\ IsFiniteSet(Lines)
    /\ {RateLimit, MaxContent} \subseteq Nat \ {0}
    /\ {MaxEdits, MaxFaults} \subseteq Nat
    /\ None \notin Credentials /\ None \notin Statuses /\ Taken \subseteq Bodies

VARIABLES
    file,       \* file[n]: the n-th entry of the variable, None where there is none
    registry,   \* registry[i]: what process i knows by keyId, None while it is down
    hits,       \* hits[i]: requests of the caller in the rate limit's window
    current,    \* the entry the caller uses
    request,    \* request[s]: the request in slot s
    stored,     \* the caller's messages in the database
    created,    \* created[b]: answers that said 201
    settled,    \* settled[b]: the answer that settled it for the caller
    edits, faults

operator == <<file, current, edits>>
vars == <<operator, registry, hits, request, stored, created, settled, faults>>

-----------------------------------------------------------------------------
(* parseInboundCredentials and InboundCredentialsService *)

KeyIds == {c.keyId : c \in Credentials}
Entries == {n \in Lines : file[n] # None}

\* Mutant: a keyId may be there twice.
ProblemsMutant ==
    {n \in Entries :
        \/ ~file[n].sound
        \/ \E k \in Entries : k < n /\ file[k].secret = file[n].secret}

\* The entries the parser complains about: any of them stops the boot.
Problems ==
    {n \in Entries :
        \/ ~file[n].sound
        \/ \E k \in Entries : k < n /\ \/ file[k].keyId = file[n].keyId
                                        \/ file[k].secret = file[n].secret}

\* byKeyId: of two entries with one keyId, Map.set keeps the later.
ByKeyId ==
    [key \in KeyIds |->
        LET at == {n \in Entries : file[n].keyId = key}
        IN  IF at = {} THEN None ELSE file[CHOOSE n \in at : \A k \in at : k <= n]]

Running == {i \in Instances : registry[i] # None}

\* A keyId finds one candidate, and the secret has to be the candidate's.
Authenticate(i, c) ==
    IF registry[i][c.keyId] # None /\ registry[i][c.keyId].secret = c.secret
    THEN registry[i][c.keyId]
    ELSE None

-----------------------------------------------------------------------------
Free == [phase |-> "free"]
CallerTenant == First.tenantId
CallerChannel == First.channel

Init ==
    /\ file = [n \in Lines |-> IF n = 1 THEN First ELSE None]
    /\ registry = [i \in Instances |-> None]
    /\ hits = [i \in Instances |-> 0]
    /\ current = First
    /\ request = [s \in Slots |-> Free]
    /\ stored = {[message |-> b.message, tenantId |-> CallerTenant, channel |-> None] : b \in Taken}
    /\ created = [b \in Bodies |-> 0]
    /\ settled = [b \in Bodies |-> None]
    /\ edits = 0 /\ faults = 0

Fault == faults < MaxFaults /\ faults' = faults + 1

-----------------------------------------------------------------------------
(* The operator rotates keys: add the new one, switch the caller, remove the old one *)

AddEntry(c) ==
    /\ edits < MaxEdits
    /\ \E n \in Lines \ Entries : file' = [file EXCEPT ![n] = c]
    /\ edits' = edits + 1
    /\ UNCHANGED <<registry, hits, current, request, stored, created, settled, faults>>

\* Once every process that runs knows the new key, and the list is in order.
SwitchCaller(c) ==
    /\ Problems = {} /\ \E n \in Entries : file[n] = c
    /\ c # current /\ c.tenantId = CallerTenant /\ c.channel = CallerChannel
    /\ \A i \in Running : Authenticate(i, c) = c
    /\ current' = c
    /\ UNCHANGED <<file, registry, hits, request, stored, created, settled, edits, faults>>

\* Whatever the caller does not need, a mistake included.
RemoveEntry(n) ==
    /\ n \in Entries
    /\ \E k \in Entries \ {n} : file[k] = current
    /\ file' = [file EXCEPT ![n] = None]
    /\ UNCHANGED <<registry, hits, current, request, stored, created, settled, edits, faults>>

\* A list that stops the boot is repaired.
Repair == Problems # {} /\ \E n \in Lines : RemoveEntry(n)

-----------------------------------------------------------------------------
(* A process: it boots with the list as it is, or not at all *)

Boot(i) ==
    /\ registry[i] = None
    /\ Problems = {}
    /\ registry' = [registry EXCEPT ![i] = ByKeyId]
    /\ UNCHANGED <<operator, hits, request, stored, created, settled, faults>>

\* Deployed again, or gone: its requests and its counters with it.
Stop(i) ==
    /\ registry[i] # None
    /\ Fault
    /\ registry' = [registry EXCEPT ![i] = None]
    /\ hits' = [hits EXCEPT ![i] = 0]
    /\ request' = [s \in Slots |-> IF request[s] # Free /\ request[s].instance = i
                                   THEN Free ELSE request[s]]
    /\ UNCHANGED <<operator, stored, created, settled>>

NewWindow(i) ==
    /\ hits[i] > 0
    /\ hits' = [hits EXCEPT ![i] = 0]
    /\ UNCHANGED <<operator, registry, request, stored, created, settled, faults>>

-----------------------------------------------------------------------------
(* A request *)

\* The caller sends what is not settled, also while an earlier request for it still runs.
Send(s, b, i) ==
    /\ request[s] = Free
    /\ settled[b] = None
    /\ i \in Running
    /\ request' = [request EXCEPT ![s] = [phase |-> "sent", body |-> b, instance |-> i, with |-> current]]
    /\ UNCHANGED <<operator, registry, hits, stored, created, settled, faults>>

Answers(s, status) ==
    request' = [request EXCEPT ![s] = [phase |-> "done", body |-> request[s].body,
                                       instance |-> request[s].instance, status |-> status]]

\* InboundMessageDto under forbidNonWhitelisted: what a body must be.
IsValid(b) ==
    /\ b.unknown = {}
    /\ b.content \in 1..MaxContent
    /\ b.contact # "unsound"
    /\ b.occurredAt # "local"

\* Mutant: one request too many.
IsLimitedMutant(i) == hits[i] > RateLimit

IsLimited(i) == hits[i] >= RateLimit

\* The rate limit first, then the credential, then the body.
Admit(s) ==
    LET r == request[s]
        i == r.instance
        service == Authenticate(i, r.with)
    IN
    /\ r # Free /\ r.phase = "sent"
    /\ \/ /\ hits[i] >= RateLimit
          /\ Answers(s, 429) /\ UNCHANGED hits
       \/ /\ ~IsLimited(i)
          /\ hits' = [hits EXCEPT ![i] = @ + 1]
          /\ \/ service = None /\ Answers(s, 401)
             \/ service # None /\ ~IsValid(r.body) /\ Answers(s, 400)
             \/ /\ service # None /\ IsValid(r.body)
                /\ request' = [request EXCEPT ![s] =
                                 [phase |-> "intake", body |-> r.body, instance |-> i, service |-> service]]
    /\ UNCHANGED <<operator, registry, stored, created, settled, faults>>

Row(r) == [message |-> r.body.message, tenantId |-> r.service.tenantId, channel |-> r.service.channel]

\* Mutant: a message that is there is a conflict, whatever its channel.
ConflictsMutant(r) ==
    \E x \in stored : x.message = r.body.message /\ x.tenantId = r.service.tenantId

\* findProcessed: the message's id belongs to another channel.
Conflicts(r) ==
    \E x \in stored : /\ x.message = r.body.message /\ x.tenantId = r.service.tenantId
                      /\ x.channel # r.service.channel

\* Mutant: every message that is there is a new one.
StatusMutant(duplicate) == 201

Status(duplicate) == IF duplicate THEN 200 ELSE 201

\* Mutant: an error that is not an HttpException is answered as a success.
UnknownErrorMutant == 200

\* InboundExceptionFilter: anything that is not an HttpException.
UnknownError == 500

Receive(s) ==
    LET r == request[s]
        duplicate == Row(r) \in stored
    IN
    /\ r # Free /\ r.phase = "intake"
    /\ \/ /\ Conflicts(r)
          /\ Answers(s, 409)
          /\ UNCHANGED <<stored, created, faults>>
       \/ /\ ~Conflicts(r)
          /\ stored' = stored \cup {Row(r)}
          /\ Answers(s, Status(duplicate))
          /\ created' = [created EXCEPT ![r.body] = IF Status(duplicate) = 201 THEN @ + 1 ELSE @]
          /\ UNCHANGED faults
       \/ /\ Fault                      \* the database, before anything is written
          /\ Answers(s, UnknownError)
          /\ UNCHANGED <<stored, created>>
    /\ UNCHANGED <<operator, registry, hits, settled>>

\* 401, 429 and 500 are sent again.
Settles(status) == status \in {200, 201, 400, 409}

\* An answer that comes, or is lost.
Hear(s) ==
    LET r == request[s] IN
    /\ r # Free /\ r.phase = "done"
    /\ request' = [request EXCEPT ![s] = Free]
    /\ \/ /\ settled' = [settled EXCEPT ![r.body] =
                           IF @ = None /\ Settles(r.status) THEN r.status ELSE @]
          /\ UNCHANGED faults
       \/ Fault /\ UNCHANGED settled
    /\ UNCHANGED <<operator, registry, hits, stored, created>>

-----------------------------------------------------------------------------
Next ==
    \/ \E c \in Credentials : AddEntry(c) \/ SwitchCaller(c)
    \/ \E n \in Lines : RemoveEntry(n)
    \/ \E i \in Instances : Boot(i) \/ Stop(i) \/ NewWindow(i)
    \/ \E s \in Slots : \/ \E b \in Bodies, i \in Instances : Send(s, b, i)
                        \/ Admit(s) \/ Receive(s) \/ Hear(s)

Spec == Init /\ [][Next]_vars

\* Processes are started again, windows end, requests run and the caller goes on
\* sending what is not settled (the caller's part, and the operator's is to repair a list).
Fairness ==
    /\ WF_vars(Repair)
    /\ \A i \in Instances : WF_vars(Boot(i)) /\ WF_vars(NewWindow(i))
    /\ \A s \in Slots : WF_vars(Admit(s) \/ Receive(s) \/ Hear(s))
    /\ SF_vars(\E s \in Slots, b \in Bodies, i \in Instances : Send(s, b, i))

FairSpec == Spec /\ Fairness

-----------------------------------------------------------------------------
RequestType ==
    {Free}
    \cup [phase : {"sent"}, body : Bodies, instance : Instances, with : Credentials]
    \cup [phase : {"intake"}, body : Bodies, instance : Instances, service : Credentials]
    \cup [phase : {"done"}, body : Bodies, instance : Instances, status : Statuses]

\* Every variable has its type, and a request lives in a process that runs.
TypeOK ==
    /\ file \in [Lines -> Credentials \cup {None}]
    /\ registry \in [Instances -> {None} \cup [KeyIds -> Credentials \cup {None}]]
    /\ hits \in [Instances -> 0..RateLimit]
    /\ current \in Credentials
    /\ request \in [Slots -> RequestType]
    /\ \A s \in Slots : request[s] = Free \/ request[s].instance \in Running
    /\ created \in [Bodies -> Nat]
    /\ settled \in [Bodies -> {None, 200, 201, 400, 409}]
    /\ edits \in 0..MaxEdits /\ faults \in 0..MaxFaults

\* While keys are rotated, entries added by mistake and processes deployed in any order,
\* each process that runs accepts the key the caller uses (inbound-credentials.ts:15).
CallerIsNeverLockedOut ==
    \A i \in Running : Authenticate(i, current) = current

\* However often a message is sent, and however many requests for it run at the same
\* time, at most one is told that it created the message (the controller's 201 and 200).
OneCreated == \A b \in Bodies : created[b] <= 1

\* A caller that stops sending after a 2xx has lost nothing: the message is stored, under
\* the tenant and the channel of its credential.
CallerRow(b) == [message |-> b.message, tenantId |-> CallerTenant, channel |-> CallerChannel]
SettledIsStored ==
    \A b \in Bodies : settled[b] \in {200, 201} => CallerRow(b) \in stored

(* The inductive invariant behind them *)

OfTheCaller(c) == c.tenantId = CallerTenant /\ c.channel = CallerChannel

\* The list always has the entry the caller uses, so that whoever boots learns it.
CallerIsListed ==
    /\ \E n \in Entries : file[n] = current
    /\ OfTheCaller(current)

\* A request that waits is authenticated by what its process knew when it was sent: a
\* process that boots again drops its requests. What is under way is the caller's own.
RequestsAreTheCallers ==
    \A s \in Slots :
        LET r == request[s] IN
        /\ r.phase = "sent" => Authenticate(r.instance, r.with) = r.with /\ OfTheCaller(r.with)
        /\ r.phase = "intake" => OfTheCaller(r.service)
        /\ r.phase = "done" /\ r.status \in {200, 201} => CallerRow(r.body) \in stored

\* What was created is there, so nobody creates it again.
CreatedIsStored ==
    \A b \in Bodies : created[b] = 0 \/ (created[b] = 1 /\ CallerRow(b) \in stored)

EndpointInv ==
    CallerIsListed /\ CallerIsNeverLockedOut /\ RequestsAreTheCallers
    /\ CreatedIsStored /\ SettledIsStored

\* Every message the endpoint has to take is taken in the end: stored, with a 2xx the
\* caller has heard; a lost answer or a process that is deployed again only delays it.
ValidIsAccepted ==
    \A b \in Bodies :
        IsValid(b) /\ b \notin Taken => <>[](settled[b] \in {200, 201})
=============================================================================
