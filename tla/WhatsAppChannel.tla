---------------------------- MODULE WhatsAppChannel ----------------------------
(***************************************************************************)
(* From the environment to a call of Meta's API: env.validation.ts decides *)
(* whether a process boots, AppConfigService what it works with, and       *)
(* WhatsAppCloudAdapter.send uses it, under the lease and the timeout of   *)
(* the delivery engine.  Processes boot at different times with different  *)
(* settings and share one message.  Time is counted in units of the three  *)
(* durations, which module OutboundDelivery leaves out.                    *)
(***************************************************************************)
EXTENDS Naturals, FiniteSets, Sequences

CONSTANTS
    Processes,
    Environments,   \* what the operator may write: see EnvironmentType
    Tenant,         \* the tenant of the message
    Recipients,     \* what its contact may be known by: "phone", "bsuid" or "other"
    Lower(_),       \* toLowerCase: a tenant's id as it is stored
    Responses,      \* what Meta may answer: [status, id, code]
    TemporaryCodes, PermanentCodes,     \* TEMPORARY_CODES and PERMANENT_CODES
    DefaultHttp, DefaultSend, DefaultLease,
    OUTBOUND_MAX_ATTEMPTS,
    MaxDelay,       \* bound: from the claim of a message to the call of send
    MaxTime, MaxEdits, MaxStops,    \* bounds
    None

\* A variable that is not set is None; sound is a value its own rule accepts.
EnvironmentType(e) ==
    /\ DOMAIN e = {"enabled", "sound", "accounts", "http", "send", "lease"}
    /\ e.enabled \in BOOLEAN /\ e.sound \in BOOLEAN
    /\ Len(e.accounts) \in Nat
    /\ \A n \in 1..Len(e.accounts) :
         DOMAIN e.accounts[n] = {"tenantId", "phoneNumberId", "sound"}
    /\ {e.http, e.send, e.lease} \subseteq (Nat \ {0}) \cup {None}

ASSUME ChannelAssumption ==
    /\ \A e \in Environments : EnvironmentType(e)
    /\ {DefaultHttp, DefaultSend, DefaultLease} \subseteq Nat \ {0}
    /\ DefaultHttp < DefaultSend /\ DefaultSend < DefaultLease
    /\ TemporaryCodes \cap PermanentCodes = {}
    /\ OUTBOUND_MAX_ATTEMPTS \in Nat \ {0}
    /\ {MaxDelay, MaxTime, MaxEdits, MaxStops} \subseteq Nat
    /\ None \notin Nat /\ None # "TIMEOUT"

VARIABLES
    now,
    env,        \* the environment as it is written
    settings,   \* settings[i]: what process i works with, None while it is down
    message,    \* its row in the database
    flight,     \* flight[i]: the delivery process i is making
    heard,      \* heard[n]: what the process that made attempt n learned from Meta
    edits, stops

vars == <<now, env, settings, message, flight, heard, edits, stops>>

-----------------------------------------------------------------------------
(* The environment: what stops the boot *)

Places(s) == 1..Len(s)

\* Mutant: a number may be listed for two tenants.
AccountProblemsMutant(s) ==
    {n \in Places(s) :
        \/ ~s[n].sound
        \/ \E k \in Places(s) : k < n /\ Lower(s[k].tenantId) = Lower(s[n].tenantId)}

\* parseWhatsAppCloudAccounts: one account per tenant, one tenant per number.
AccountProblems(s) ==
    {n \in Places(s) :
        \/ ~s[n].sound
        \/ \E k \in Places(s) : /\ k < n
                                 /\ \/ Lower(s[k].tenantId) = Lower(s[n].tenantId)
                                    \/ s[k].phoneNumberId = s[n].phoneNumberId}

Set(value, default) == IF value = None THEN default ELSE value
Http(e) == Set(e.http, DefaultHttp)
Send(e) == Set(e.send, DefaultSend)
Lease(e) == Set(e.lease, DefaultLease)

\* Mutant: the two limits may be the same.
EnabledIsSoundMutant(e) ==
    e.enabled => e.sound /\ e.accounts # <<>> /\ Http(e) <= Send(e)

\* With the integration on: secrets, an account, and a call that ends before the send.
EnabledIsSound(e) ==
    e.enabled => e.sound /\ e.accounts # <<>> /\ Http(e) < Send(e)

\* Mutant: the send may take longer than the lease.
LeaseIsLongerMutant(e) == TRUE

LeaseIsLonger(e) == Send(e) < Lease(e)

IsValid(e) == AccountProblems(e.accounts) = {} /\ EnabledIsSound(e) /\ LeaseIsLonger(e)

\* What the getters of AppConfigService give from then on.
Settings(e) ==
    [enabled |-> e.enabled,
     accounts |-> [n \in Places(e.accounts) |-> [e.accounts[n] EXCEPT !.tenantId = Lower(@)]],
     http |-> Http(e), send |-> Send(e), lease |-> Lease(e)]

-----------------------------------------------------------------------------
(* WhatsAppAccountResolver: the first that matches *)

FirstOf(s, P) == IF P = {} THEN None ELSE s[CHOOSE n \in P : \A k \in P : n <= k]

ByPhoneNumberId(i, phone) ==
    LET s == settings[i].accounts IN FirstOf(s, {n \in Places(s) : s[n].phoneNumberId = phone})
ByTenant(i, tenant) ==
    LET s == settings[i].accounts IN FirstOf(s, {n \in Places(s) : s[n].tenantId = tenant})

-----------------------------------------------------------------------------
Idle == [phase |-> "idle"]
Up == {i \in Processes : settings[i] # None}
InPhase(i, phase) == flight[i].phase = phase

Init ==
    /\ now = 0
    /\ env \in Environments
    /\ settings = [i \in Processes |-> None]
    /\ \E to \in Recipients :
         message = [to |-> to, status |-> "PENDING", attempts |-> 0, leaseEnds |-> None, due |-> 0]
    /\ flight = [i \in Processes |-> Idle]
    /\ heard = [n \in 1..OUTBOUND_MAX_ATTEMPTS |-> "nothing"]
    /\ edits = 0 /\ stops = 0

Edit(e) ==
    /\ edits < MaxEdits /\ e # env
    /\ env' = e /\ edits' = edits + 1
    /\ UNCHANGED <<now, settings, message, flight, heard, stops>>

\* A bad value stops the boot; the others work on with what they have read.
Boot(i) ==
    /\ settings[i] = None
    /\ IsValid(env)
    /\ settings' = [settings EXCEPT ![i] = Settings(env)]
    /\ UNCHANGED <<now, env, message, flight, heard, edits, stops>>

Stop(i) ==
    /\ settings[i] # None /\ stops < MaxStops
    /\ stops' = stops + 1
    /\ settings' = [settings EXCEPT ![i] = None]
    /\ flight' = [flight EXCEPT ![i] = Idle]
    /\ UNCHANGED <<now, env, message, heard, edits>>

-----------------------------------------------------------------------------
(* The engine: claim, send with a timeout, record *)

\* Mutant: the lease stays.
SettledMutant(status) == [message EXCEPT !.status = status]

Settled(status) == [message EXCEPT !.status = status, !.leaseEnds = None]

Unleased == message.leaseEnds # None => message.leaseEnds < now

\* A process that is not enabled has no adapter: it claims nothing, and still gives up.
Claim(i) ==
    /\ i \in Up /\ InPhase(i, "idle")
    /\ message.status = "PENDING" /\ Unleased
    /\ \/ /\ message.attempts >= OUTBOUND_MAX_ATTEMPTS
          /\ message' = Settled("FAILED")
          /\ UNCHANGED flight
       \/ /\ settings[i].enabled
          /\ message.attempts < OUTBOUND_MAX_ATTEMPTS /\ message.due <= now
          /\ message' = [message EXCEPT !.attempts = @ + 1, !.leaseEnds = now + settings[i].lease]
          /\ flight' = [flight EXCEPT ![i] = [phase |-> "claimed", attempt |-> message.attempts + 1,
                                              since |-> now]]
    /\ UNCHANGED <<now, env, settings, heard, edits, stops>>

Ends(i, kind, code) ==
    flight' = [flight EXCEPT ![i] = [phase |-> "done", attempt |-> flight[i].attempt,
                                     kind |-> kind, code |-> code]]

\* send: the tenant's own number to a phone or a BSUID, or nothing.
Call(i) ==
    LET account == ByTenant(i, Tenant) IN
    /\ InPhase(i, "claimed")
    /\ \/ account = None /\ Ends(i, "permanent", "WA_NOT_CONFIGURED")
       \/ account # None /\ message.to = "other" /\ Ends(i, "permanent", "WA_INVALID_RECIPIENT")
       \/ /\ account # None /\ message.to # "other"
          /\ flight' = [flight EXCEPT ![i] = [phase |-> "calling", attempt |-> flight[i].attempt,
                                              since |-> now, claimed |-> flight[i].since,
                                              from |-> account.phoneNumberId]]
    /\ UNCHANGED <<now, env, settings, message, heard, edits, stops>>

\* Mutant: a success without an id is tried again.
UnusableMutant == "temporary"

\* Meta accepted it, or not: a second message to a real customer is the worse mistake.
Unusable == "permanent"

\* classifyGraphFailure: a known code decides, then the status.
Classify(r) ==
    IF r.code \in TemporaryCodes \/ (r.code \notin PermanentCodes /\ (r.status = 429 \/ r.status >= 500))
    THEN "temporary" ELSE "permanent"

Answer(i, r) ==
    /\ InPhase(i, "calling")
    /\ \/ r.status = 200 /\ r.id /\ Ends(i, "sent", None)
       \/ r.status = 200 /\ ~r.id /\ Ends(i, Unusable, "WA_INVALID_RESPONSE")
       \/ r.status # 200 /\ Ends(i, Classify(r), "WA_CODE")
    /\ heard' = [heard EXCEPT ![flight[i].attempt] = IF r.status = 200 THEN "accepted" ELSE "refused"]
    /\ UNCHANGED <<now, env, settings, message, edits, stops>>

CallEnds(i) == flight[i].since + settings[i].http
SendEnds(i) == flight[i].since + settings[i].send

\* What ends a call without an answer: the network, the call's own limit, the engine's.
Causes(i) ==
    {"WA_NETWORK"}
    \cup {c \in {"WA_TIMEOUT"} : now >= CallEnds(i)}
    \cup {c \in {"TIMEOUT"} : now >= SendEnds(i)}

\* The status is here and the body never comes: nobody looks at the status.
StatusAlone(r) == IF r.status = 200 THEN "success" ELSE "refused"

\* fetch fails, or it returns and response.text() fails: one catch for both.  Whether
\* Meta has the message is unknown, or could be known from the status.
NoAnswer(i) ==
    /\ InPhase(i, "calling")
    /\ \E cause \in Causes(i) : Ends(i, "temporary", cause)
    /\ \/ UNCHANGED heard
       \/ \E r \in Responses : heard' = [heard EXCEPT ![flight[i].attempt] = StatusAlone(r)]
    /\ UNCHANGED <<now, env, settings, message, edits, stops>>

\* Compare-and-set on the lease: a token is new with every attempt.  The wait after a
\* failure is one unit.
OwnsLease(i) ==
    /\ message.status = "PENDING" /\ message.leaseEnds # None
    /\ message.attempts = flight[i].attempt

Record(i) ==
    LET f == flight[i] IN
    /\ InPhase(i, "done")
    /\ flight' = [flight EXCEPT ![i] = Idle]
    /\ \/ ~OwnsLease(i) /\ UNCHANGED message
       \/ /\ OwnsLease(i)
          /\ \/ f.kind = "sent" /\ message' = Settled("SENT")
             \/ /\ f.kind = "temporary" /\ f.attempt < OUTBOUND_MAX_ATTEMPTS
                /\ message' = [message EXCEPT !.leaseEnds = None, !.due = now + 1]
             \/ /\ f.kind = "permanent" \/ (f.kind = "temporary" /\ f.attempt >= OUTBOUND_MAX_ATTEMPTS)
                /\ message' = Settled("FAILED")
    /\ UNCHANGED <<now, env, settings, heard, edits, stops>>

\* A timer that is due fires before time goes on.
MustFire(i) ==
    \/ InPhase(i, "claimed") /\ now >= flight[i].since + MaxDelay
    \/ InPhase(i, "calling") /\ (now >= CallEnds(i) \/ now >= SendEnds(i))

Tick ==
    /\ now < MaxTime
    /\ \A i \in Processes : ~MustFire(i)
    /\ now' = now + 1
    /\ UNCHANGED <<env, settings, message, flight, heard, edits, stops>>

-----------------------------------------------------------------------------
Next ==
    \/ \E e \in Environments : Edit(e)
    \/ \E i \in Processes : \/ Boot(i) \/ Stop(i) \/ Claim(i) \/ Call(i)
                            \/ \E r \in Responses : Answer(i, r)
                            \/ NoAnswer(i) \/ Record(i)
    \/ Tick

Spec == Init /\ [][Next]_vars

-----------------------------------------------------------------------------
Statuses == {"PENDING", "SENT", "FAILED"}
Attempts == 1..OUTBOUND_MAX_ATTEMPTS

\* A process that is down is making no delivery, and each works with settings it could
\* boot with.
ProcessType(i) ==
    /\ settings[i] # None => \E e \in Environments : IsValid(e) /\ settings[i] = Settings(e)
    /\ flight[i].phase \in {"idle", "claimed", "calling", "done"}
    /\ ~InPhase(i, "idle") => i \in Up /\ flight[i].attempt \in 1..message.attempts
    /\ InPhase(i, "claimed") \/ InPhase(i, "calling") =>
         settings[i].enabled /\ flight[i].since \in 0..now
    /\ InPhase(i, "calling") => flight[i].claimed \in 0..flight[i].since
    /\ InPhase(i, "done") => flight[i].kind \in {"sent", "temporary", "permanent"}

\* Every variable has its type; a message that is settled has no lease.
TypeOK ==
    /\ now \in 0..MaxTime
    /\ env \in Environments
    /\ DOMAIN settings = Processes /\ DOMAIN flight = Processes
    /\ \A i \in Processes : ProcessType(i)
    /\ message \in [to : Recipients, status : Statuses, attempts : {0} \cup Attempts,
                    leaseEnds : Nat \cup {None}, due : Nat]
    /\ message.leaseEnds # None => message.status = "PENDING"
    /\ heard \in [Attempts -> {"nothing", "success", "accepted", "refused"}]
    /\ edits \in 0..MaxEdits /\ stops \in 0..MaxStops

\* The call came some time after its claim, and its own limit lies beyond the lease.
Late(i) ==
    /\ flight[i].since > flight[i].claimed
    /\ CallEnds(i) > flight[i].claimed + settings[i].lease

\* A message is in two calls at once only if one of them was late for its lease: with the
\* limits the processes boot with, each its own, a call made at once ends before its lease
\* does (env.validation.ts:163), and one that waited does if they leave it the time.
OneCallAtATime ==
    \A i, j \in Processes :
        InPhase(i, "calling") /\ InPhase(j, "calling") => i = j \/ Late(i) \/ Late(j)

\* A message leaves from a number whose answers come back to its own tenant: the two
\* lookups of the resolver are each other's inverse in every process that has booted.
AnswersComeBack ==
    \A i \in Processes : InPhase(i, "calling") =>
        /\ ByPhoneNumberId(i, flight[i].from) # None
        /\ ByPhoneNumberId(i, flight[i].from).tenantId = Tenant

\* The call's own limit ends it, never the engine's (env.validation.ts:143).
OwnTimeoutFirst == \A i \in Processes : InPhase(i, "done") => flight[i].code # "TIMEOUT"

\* A message that is put back into the queue is one whose acceptance by Meta no process has
\* read to its end (whatsapp-cloud.adapter.ts:119); its status may have been seen.
QueuedIsNotAccepted ==
    message.status = "PENDING" /\ message.leaseEnds = None /\ message.attempts > 0 =>
        heard[message.attempts] # "accepted"

(* What two comments say and the code does not keep *)

\* No other process makes a send of a message that is still in one: the timeout is strictly
\* shorter than the lease (env.validation.ts:163).
SendsDoNotOverlap ==
    \A i, j \in Processes : InPhase(i, "calling") /\ InPhase(j, "calling") => i = j

\* A success without a usable id is not retried (whatsapp-cloud.adapter.ts:119).
SuccessIsNotRetried ==
    message.status = "PENDING" /\ message.leaseEnds = None /\ message.attempts > 0 =>
        heard[message.attempts] \notin {"success", "accepted"}

(* The inductive invariant behind them *)

\* No two deliveries are of the same attempt.
AttemptsDiffer ==
    \A i, j \in Processes :
        i # j /\ ~InPhase(i, "idle") /\ ~InPhase(j, "idle") => flight[i].attempt # flight[j].attempt

\* Timers fire in time.
KeepsTime(i) == InPhase(i, "calling") => now <= CallEnds(i)

\* Nobody puts a message back but the process that made its last attempt.
HasTheLast(i) ==
    ~InPhase(i, "idle") /\ flight[i].attempt = message.attempts /\ message.status = "PENDING" =>
        message.leaseEnds # None

\* Who is about to call has the lease as long as it lasts, and who calls in time has it
\* until after the call has to end.
KeepsItsLease(i) ==
    /\ InPhase(i, "claimed") =>
         \/ OwnsLease(i) /\ message.leaseEnds = flight[i].since + settings[i].lease
         \/ flight[i].since + settings[i].lease < now
    /\ InPhase(i, "calling") /\ ~Late(i) =>
         OwnsLease(i) /\ CallEnds(i) <= message.leaseEnds

\* Nothing is heard of an attempt before its call, and one to be made again was not accepted.
HeardInTime ==
    /\ \A n \in Attempts : n > message.attempts => heard[n] = "nothing"
    /\ \A i \in Processes :
         /\ InPhase(i, "claimed") \/ InPhase(i, "calling") => heard[flight[i].attempt] = "nothing"
         /\ InPhase(i, "done") /\ flight[i].kind = "temporary" =>
              heard[flight[i].attempt] # "accepted"

ChannelInv ==
    /\ AttemptsDiffer
    /\ \A i \in Processes : KeepsTime(i) /\ HasTheLast(i) /\ KeepsItsLease(i)
    /\ HeardInTime /\ QueuedIsNotAccepted
    /\ AnswersComeBack /\ OwnTimeoutFirst
=============================================================================
