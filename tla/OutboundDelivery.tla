--------------------------- MODULE OutboundDelivery ---------------------------
(***************************************************************************)
(* The outbound delivery engine of apps/api: the message rows of one       *)
(* tenant, the worker processes that claim, send and finalize them, the    *)
(* messaging provider, and the provider's status callbacks.                *)
(*                                                                         *)
(* A row update is one conditional UPDATE in its own transaction, so it is *)
(* one action here.  A delivery is not: between its claim, its provider    *)
(* call and its finalization the process may crash, the lease may expire   *)
(* and other workers may act.                                              *)
(***************************************************************************)
EXTENDS Naturals, FiniteSets

CONSTANTS
    Messages,     \* the OUTBOUND messages the tenant may create
    Manual,       \* those on the MANUAL channel, which has no provider
    Served,       \* those on a channel some adapter is registered for
    Workers,      \* polling chains: one per process that runs the worker
    Ids, NoId,    \* message ids the provider hands out; NoId is SQL's NULL
    MaxAttempts,  \* OUTBOUND_MAX_ATTEMPTS
    BatchSize     \* messages claimed by one poll

ASSUME DeliveryAssumption ==
    /\ Manual \subseteq Messages
    /\ Served \subseteq Messages \ Manual
    /\ IsFiniteSet(Workers)
    /\ NoId \notin Ids
    /\ MaxAttempts \in Nat \ {0}
    /\ BatchSize \in Nat \ {0}

VARIABLES
    row,       \* the messages table
    job,       \* job[w][m]: what worker w is doing with message m
    calls,     \* calls[m]: provider requests made for m (never stored by the code)
    wire,      \* requests <<m, attempt>> the provider has not decided yet
    accepted   \* what the provider accepted: every element is a copy the customer gets

vars == <<row, job, calls, wire, accepted>>

-----------------------------------------------------------------------------
(* Rows and deliveries *)

Statuses == {"ABSENT", "PENDING", "SENT", "DELIVERED", "READ", "FAILED"}
Codes == {"NONE", "FAILURE", "ATTEMPTS_EXHAUSTED", "LEASE_EXPIRED",
          "EXTERNAL_ID_CONFLICT", "WA_FAILED"}

\* A lease token is a fresh uuid; the number of the attempt it was made for,
\* which no other claim of that message can have, stands for it. 0 is NULL.
Row == [status     : Statuses,
        next       : {"null", "later", "due"},
        attempts   : 0..MaxAttempts,
        lease      : 0..MaxAttempts,
        expires    : {"null", "future", "past"},
        externalId : Ids \cup {NoId},
        code       : Codes]

NoRow == [status |-> "ABSENT", next |-> "null", attempts |-> 0, lease |-> 0,
          expires |-> "null", externalId |-> NoId, code |-> "NONE"]

Phases == {"idle", "claimed", "sending", "accepted", "conflict",
           "temporary", "permanent"}
\* What the claim returned (attempt, lease token), and the id of the answer.
Job == [phase   : Phases,
        attempt : 0..MaxAttempts,
        lease   : 0..MaxAttempts,
        id      : Ids \cup {NoId}]
Idle == [phase |-> "idle", attempt |-> 0, lease |-> 0, id |-> NoId]

Accepts == [msg : Messages, attempt : 0..MaxAttempts, id : Ids]

Init ==
    /\ row = [m \in Messages |-> NoRow]
    /\ job = [w \in Workers |-> [m \in Messages |-> Idle]]
    /\ calls = [m \in Messages |-> 0]
    /\ wire = {}
    /\ accepted = {}

-----------------------------------------------------------------------------
(* Creation: an agent's message or the first-contact reply *)

requiresExternalDelivery(m) == m \notin Manual

Create(m) ==
    /\ row[m].status = "ABSENT"
    /\ row' = [row EXCEPT ![m] =
                 IF requiresExternalDelivery(m)
                 THEN [@ EXCEPT !.status = "PENDING", !.next = "due"]
                 ELSE [@ EXCEPT !.status = "SENT"]]
    /\ UNCHANGED <<job, calls, wire, accepted>>

-----------------------------------------------------------------------------
(* Claim: one transaction, first the exhausted messages, then a batch *)

\* Mutant: one attempt too many.
hasAttemptsLeftMutant(attempt) == attempt <= MaxAttempts
hasAttemptsLeft(attempt) == attempt < MaxAttempts

\* Mutant: a dead worker's lease is never taken over.
UnleasedMutant(r) == r.lease = 0

\* No lease, or one whose time is over.
Unleased(r) == r.lease = 0 \/ r.expires = "past"

\* Mutant: gives up on a last attempt that is still in flight.
ExhaustedMutant ==
    {m \in Messages : /\ row[m].status = "PENDING"
                      /\ row[m].next # "null"
                      /\ ~hasAttemptsLeft(row[m].attempts)}

Exhausted ==
    {m \in Messages : /\ row[m].status = "PENDING"
                      /\ row[m].next # "null"
                      /\ ~hasAttemptsLeft(row[m].attempts)
                      /\ Unleased(row[m])}

Due ==
    {m \in Served : /\ row[m].status = "PENDING"
                    /\ row[m].next = "due"
                    /\ hasAttemptsLeft(row[m].attempts)
                    /\ Unleased(row[m])}

GiveUp(r) ==
    [r EXCEPT !.status = "FAILED",
              !.code = IF r.lease = 0 THEN "ATTEMPTS_EXHAUSTED" ELSE "LEASE_EXPIRED",
              !.next = "null", !.lease = 0, !.expires = "null"]

\* Mutants: the attempt is not counted by the claim; the token is not renewed.
TakeLeaseUncounted(r) == [r EXCEPT !.lease = r.attempts + 1, !.expires = "future"]
TakeLeaseSameToken(r) ==
    [r EXCEPT !.lease = IF @ = 0 THEN r.attempts + 1 ELSE @, !.expires = "future",
              !.attempts = r.attempts + 1]

TakeLease(r) ==
    [r EXCEPT !.lease = r.attempts + 1, !.expires = "future",
              !.attempts = r.attempts + 1]

Claimed(r) ==
    [phase |-> "claimed", attempt |-> r.attempts, lease |-> r.lease, id |-> NoId]

\* SKIP LOCKED and LIMIT: the batch is any part of what is due, up to its size.
\* A worker polls again only when every delivery of its last poll has ended.
Claim(w, batch) ==
    /\ \A m \in Messages : job[w][m].phase = "idle"
    /\ batch \subseteq Due
    /\ Cardinality(batch) <= BatchSize
    /\ batch # {} \/ Exhausted # {}
    /\ row' = [m \in Messages |->
                 IF m \in Exhausted THEN GiveUp(row[m])
                 ELSE IF m \in batch THEN TakeLease(row[m])
                 ELSE row[m]]
    /\ job' = [job EXCEPT ![w] = [m \in Messages |->
                 IF m \in batch THEN Claimed(TakeLease(row[m])) ELSE Idle]]
    /\ UNCHANGED <<calls, wire, accepted>>

-----------------------------------------------------------------------------
(* Delivery: no transaction is open *)

Becomes(w, m, phase) == job' = [job EXCEPT ![w][m].phase = phase]

\* No adapter (temporary), empty body, no recipient, adapter not configured
\* (permanent): the provider is not called.
RefuseToSend(w, m) ==
    /\ job[w][m].phase = "claimed"
    /\ \E failure \in {"temporary", "permanent"} : Becomes(w, m, failure)
    /\ UNCHANGED <<row, calls, wire, accepted>>

Send(w, m) ==
    /\ job[w][m].phase = "claimed"
    /\ Becomes(w, m, "sending")
    /\ calls' = [calls EXCEPT ![m] = @ + 1]
    /\ wire' = wire \cup {<<m, job[w][m].attempt>>}
    /\ UNCHANGED <<row, accepted>>

\* The provider may accept a request long after its caller gave up on it.
\* The ids it hands out are its business: the code does not assume them fresh.
ProviderAccepts(m, attempt, id) ==
    /\ <<m, attempt>> \in wire
    /\ wire' = wire \ {<<m, attempt>>}
    /\ accepted' = accepted \cup {[msg |-> m, attempt |-> attempt, id |-> id]}
    /\ UNCHANGED <<row, job, calls>>

ProviderRefuses(m, attempt) ==
    /\ <<m, attempt>> \in wire
    /\ wire' = wire \ {<<m, attempt>>}
    /\ UNCHANGED <<row, job, calls, accepted>>

\* The answer of an acceptance: its id, or nothing usable (permanent).
ReceiveAcceptance(w, m) ==
    /\ job[w][m].phase = "sending"
    /\ \E a \in accepted :
         /\ a.msg = m /\ a.attempt = job[w][m].attempt
         /\ \/ job' = [job EXCEPT ![w][m].phase = "accepted", ![w][m].id = a.id]
            \/ Becomes(w, m, "permanent")
    /\ UNCHANGED <<row, calls, wire, accepted>>

\* The answer of a refusal, classified by the adapter.
ReceiveRefusal(w, m) ==
    /\ job[w][m].phase = "sending"
    /\ <<m, job[w][m].attempt>> \notin wire
    /\ \A a \in accepted : ~(a.msg = m /\ a.attempt = job[w][m].attempt)
    /\ \E failure \in {"temporary", "permanent"} : Becomes(w, m, failure)
    /\ UNCHANGED <<row, calls, wire, accepted>>

\* The timeout, or a network failure, wins the race: the outcome is unknown.
SendTimeout(w, m) ==
    /\ job[w][m].phase = "sending"
    /\ Becomes(w, m, "temporary")
    /\ UNCHANGED <<row, calls, wire, accepted>>

-----------------------------------------------------------------------------
(* Finalization: compare-and-set on the lease token *)

\* Mutant: the token is not compared.
OwnsLeaseMutant(w, m) == row[m].status = "PENDING"

OwnsLease(w, m) ==
    /\ row[m].status = "PENDING"
    /\ row[m].lease = job[w][m].lease

\* Mutant: an UPDATE by id alone.
FinalizeMutant(w, m, r) ==
    /\ row' = [row EXCEPT ![m] = r]
    /\ job' = [job EXCEPT ![w][m] = Idle]
    /\ UNCHANGED <<calls, wire, accepted>>

\* The end of the delivery, with the row it leaves if the lease is still its own.
Finalize(w, m, r) ==
    /\ row' = IF OwnsLease(w, m) THEN [row EXCEPT ![m] = r] ELSE row
    /\ job' = [job EXCEPT ![w][m] = Idle]
    /\ UNCHANGED <<calls, wire, accepted>>

\* Mutant: no unique index.
IdIsFreeMutant(m, id) == row[m].externalId \in {NoId, id}

\* unique (tenant_id, external_id), and an id already stored is never replaced.
IdIsFree(m, id) ==
    /\ row[m].externalId \in {NoId, id}
    /\ \A other \in Messages \ {m} : row[other].externalId # id

\* Mutant: the row keeps its place in the queue.
SettledMutant(r, status, code) ==
    [r EXCEPT !.status = status, !.code = code, !.lease = 0, !.expires = "null"]

Settled(r, status, code) ==
    [r EXCEPT !.status = status, !.code = code,
              !.next = "null", !.lease = 0, !.expires = "null"]

markSent(w, m) ==
    /\ job[w][m].phase = "accepted"
    /\ OwnsLease(w, m) /\ IdIsFree(m, job[w][m].id)
    /\ Finalize(w, m, [Settled(row[m], "SENT", "NONE")
                          EXCEPT !.externalId = job[w][m].id])

\* The first UPDATE found no row or violated the unique index; the second one
\* runs in a transaction of its own.
markSentMisses(w, m) ==
    /\ job[w][m].phase = "accepted"
    /\ ~(OwnsLease(w, m) /\ IdIsFree(m, job[w][m].id))
    /\ Becomes(w, m, "conflict")
    /\ UNCHANGED <<row, calls, wire, accepted>>

\* Mutant: an id conflict counts as a failure.
markSentWithoutIdMutant(w, m) ==
    /\ job[w][m].phase = "conflict"
    /\ Finalize(w, m, Settled(row[m], "FAILED", "EXTERNAL_ID_CONFLICT"))

markSentWithoutId(w, m) ==
    /\ job[w][m].phase = "conflict"
    /\ Finalize(w, m, Settled(row[m], "SENT", "EXTERNAL_ID_CONFLICT"))

\* Mutant: a temporary failure is always retried.
markRetryMutant(w, m) ==
    /\ job[w][m].phase = "temporary"
    /\ Finalize(w, m, [row[m] EXCEPT !.next = "later", !.lease = 0,
                                     !.expires = "null", !.code = "FAILURE"])

markRetry(w, m) ==
    /\ job[w][m].phase = "temporary"
    /\ hasAttemptsLeft(job[w][m].attempt)
    /\ Finalize(w, m, [row[m] EXCEPT !.next = "later", !.lease = 0,
                                     !.expires = "null", !.code = "FAILURE"])

markFailed(w, m) ==
    /\ \/ job[w][m].phase = "permanent"
       \/ /\ job[w][m].phase = "temporary"
          /\ ~hasAttemptsLeft(job[w][m].attempt)
    /\ Finalize(w, m, Settled(row[m], "FAILED", "FAILURE"))

\* The outcome could not be written: the lease is left to expire.
FinalizeError(w, m) ==
    /\ job[w][m].phase \in {"accepted", "conflict", "temporary", "permanent"}
    /\ job' = [job EXCEPT ![w][m] = Idle]
    /\ UNCHANGED <<row, calls, wire, accepted>>

\* The process dies with every delivery it had in flight, and is restarted.
Crash(w) ==
    /\ \E m \in Messages : job[w][m].phase # "idle"
    /\ job' = [job EXCEPT ![w] = [m \in Messages |-> Idle]]
    /\ UNCHANGED <<row, calls, wire, accepted>>

-----------------------------------------------------------------------------
(* Time *)

LeaseExpires(m) ==
    /\ row[m].expires = "future"
    /\ row' = [row EXCEPT ![m].expires = "past"]
    /\ UNCHANGED <<job, calls, wire, accepted>>

BackoffElapses(m) ==
    /\ row[m].next = "later"
    /\ row' = [row EXCEPT ![m].next = "due"]
    /\ UNCHANGED <<job, calls, wire, accepted>>

-----------------------------------------------------------------------------
(* Status callbacks: in any order, any number of times, or never *)

MetaStatuses == {"sent", "delivered", "read", "failed"}

META_STATUS_TARGET ==
    [sent |-> "SENT", delivered |-> "DELIVERED", read |-> "READ", failed |-> "FAILED"]

\* Mutant: a late delivered replaces read.
ADVANCES_FROMMutant ==
    [sent |-> {}, delivered |-> {"SENT", "READ"}, read |-> {"SENT", "DELIVERED"},
     failed |-> {"SENT"}]

ADVANCES_FROM ==
    [sent |-> {}, delivered |-> {"SENT"}, read |-> {"SENT", "DELIVERED"},
     failed |-> {"SENT"}]

applyStatus(id, status) ==
    /\ \E a \in accepted : a.id = id
    /\ \E m \in Messages :
         /\ row[m].externalId = id
         /\ row[m].status \in ADVANCES_FROM[status]
    /\ row' = [m \in Messages |->
                 IF row[m].externalId = id /\ row[m].status \in ADVANCES_FROM[status]
                 THEN [row[m] EXCEPT !.status = META_STATUS_TARGET[status],
                                     !.code = IF status = "failed" THEN "WA_FAILED" ELSE @]
                 ELSE row[m]]
    /\ UNCHANGED <<job, calls, wire, accepted>>

-----------------------------------------------------------------------------

\* Every step a worker takes by itself, once it has claimed the message.
Deliver(w, m) ==
    \/ RefuseToSend(w, m) \/ Send(w, m)
    \/ ReceiveAcceptance(w, m) \/ ReceiveRefusal(w, m) \/ SendTimeout(w, m)
    \/ markSent(w, m) \/ markSentMisses(w, m) \/ markSentWithoutId(w, m)
    \/ markRetry(w, m) \/ markFailed(w, m) \/ FinalizeError(w, m)

Provider ==
    \E m \in Messages, attempt \in 1..MaxAttempts :
        \/ ProviderRefuses(m, attempt)
        \/ \E id \in Ids : ProviderAccepts(m, attempt, id)

Next ==
    \/ \E m \in Messages : Create(m) \/ LeaseExpires(m) \/ BackoffElapses(m)
    \/ \E w \in Workers : \E batch \in SUBSET Due : Claim(w, batch)
    \/ \E w \in Workers, m \in Messages : Deliver(w, m)
    \/ \E w \in Workers : Crash(w)
    \/ Provider
    \/ \E id \in Ids, status \in MetaStatuses : applyStatus(id, status)

Spec == Init /\ [][Next]_vars

\* Time passes; the worker loop polls forever and its ORDER BY next_attempt_at
\* puts no message off for ever; every await of a delivery is bounded (the send by
\* its timeout), so each delivery moves on. Nothing is assumed of the provider.
Fairness ==
    /\ \A m \in Messages : WF_vars(LeaseExpires(m)) /\ WF_vars(BackoffElapses(m))
    /\ \A m \in Served : SF_vars(\E w \in Workers : \E batch \in SUBSET Due :
                                        m \in batch /\ Claim(w, batch))
    /\ SF_vars(Exhausted # {} /\ \E w \in Workers : Claim(w, {}))
    /\ \A w \in Workers, m \in Messages : WF_vars(Deliver(w, m))

FairSpec == Spec /\ Fairness

-----------------------------------------------------------------------------
(* Properties *)

\* Every variable has its type.
TypeOK ==
    /\ row \in [Messages -> Row]
    /\ job \in [Workers -> [Messages -> Job]]
    /\ calls \in [Messages -> Nat]
    /\ wire \subseteq Messages \X (0..MaxAttempts)
    /\ accepted \subseteq Accepts

\* The CHECK constraints of the delivery columns: a lease is a token and an
\* expiry, and only a PENDING message is queued or leased.  A step that broke
\* them would abort its transaction and leave the message claimable for ever.
OnlyPendingIsQueued ==
    \A m \in Messages :
        /\ row[m].lease = 0 <=> row[m].expires = "null"
        /\ row[m].next # "null" \/ row[m].lease # 0 => row[m].status = "PENDING"

\* The provider is never asked more often than the attempts counted on the row,
\* so at most OUTBOUND_MAX_ATTEMPTS times, whatever crashes, expired leases and
\* stale workers do: the claim counts the attempt before the send.
CallsWithinAttempts ==
    \A m \in Messages : calls[m] <= row[m].attempts

\* Two deliveries of one message never both hold its lease: after a re-claim the
\* first worker's compare-and-set finds no row.
OneLeaseHolder ==
    \A m \in Messages : \A w, v \in Workers :
        /\ job[w][m].phase # "idle" /\ OwnsLease(w, m)
        /\ job[v][m].phase # "idle" /\ OwnsLease(v, m)
        => w = v

\* A message of an external channel that reads SENT (or further) was accepted by
\* the provider on the last attempt counted, and carries that acceptance's id
\* unless the id conflict is recorded on it.
SentWasAccepted ==
    \A m \in Messages \ Manual :
        row[m].status \in {"SENT", "DELIVERED", "READ"} =>
            \E a \in accepted :
                /\ a.msg = m
                /\ a.attempt = row[m].attempts
                /\ \/ row[m].externalId = a.id
                   \/ row[m].externalId = NoId /\ row[m].code = "EXTERNAL_ID_CONFLICT"

\* A PENDING message whose attempts ran out is still leased by its last attempt:
\* the claim's ATTEMPTS_EXHAUSTED branch is only a safety net, because a retry
\* decided on the worker's copy of the attempt number agrees with the row.
LastAttemptIsLeased ==
    \A m \in Messages :
        row[m].status = "PENDING" /\ ~hasAttemptsLeft(row[m].attempts)
            => row[m].lease # 0

Rank == [ABSENT |-> 0, PENDING |-> 1, SENT |-> 2, DELIVERED |-> 3, READ |-> 4,
         FAILED |-> 5]

\* A status only moves forward, through the worker and the callbacks together;
\* nothing leaves READ or FAILED, and FAILED never replaces DELIVERED or READ.
StatusForwardOnly ==
    [][\A m \in Messages :
          row'[m].status # row[m].status =>
              /\ Rank[row[m].status] < Rank[row'[m].status]
              /\ row'[m].status = "FAILED" => row[m].status \in {"PENDING", "SENT"}]_vars

\* A live lease is given up only by the delivery that took it, in the step that ends that
\* delivery; everybody else, a poll that looks for messages out of attempts included,
\* waits for its expiry, also while the holder is still in its call.
LiveLeaseIsRespected ==
    [][\A m \in Messages :
          row[m].expires = "future" /\ row'[m].lease # row[m].lease =>
              \E w \in Workers :
                  /\ job[w][m].phase # "idle" /\ job[w][m].lease = row[m].lease
                  /\ job'[w][m].phase = "idle"]_vars

\* An acceptance known to the holder of a live lease is never turned into a retry
\* or a failure, not even by an id conflict: that would invite a second copy.
AcceptanceIsRecorded ==
    [][\A w \in Workers, m \in Messages :
          /\ job[w][m].phase \in {"accepted", "conflict"}
          /\ OwnsLease(w, m) /\ row[m].expires = "future"
          /\ row'[m].lease # row[m].lease
          => row'[m].status = "SENT"]_vars

\* Every message of a served channel leaves the queue: sent, or failed after a
\* bounded number of attempts, however often workers crash.
EventuallySettled ==
    \A m \in Served : []<>(row[m].status # "PENDING")

(* The inductive invariant behind the safety properties *)

\* What the code never states but all of it relies on: a row's lease is the one
\* of its last attempt; a message not yet created is untouched and one not yet
\* settled carries no provider id.
RowsAreCoherent ==
    \A m \in Messages :
        /\ row[m].lease \in {0, row[m].attempts}
        /\ row[m].status = "ABSENT" => row[m] = NoRow
        /\ row[m].status \in {"ABSENT", "PENDING"} => row[m].externalId = NoId

\* A delivery in flight was claimed, with the token of its attempt, by no one else.
JobsAreCoherent ==
    \A m \in Messages : \A w \in Workers :
        job[w][m].phase # "idle" =>
            /\ job[w][m].lease = job[w][m].attempt
            /\ job[w][m].attempt \in 1..row[m].attempts
            /\ \A v \in Workers \ {w} :
                  job[v][m].phase # "idle" => job[v][m].attempt # job[w][m].attempt
            /\ job[w][m].phase \in {"accepted", "conflict"} =>
                  [msg |-> m, attempt |-> job[w][m].attempt, id |-> job[w][m].id] \in accepted

\* Claims not yet followed by their provider call.
Unsent(m) == {w \in Workers : job[w][m].phase = "claimed"}

CallsAreBudgeted ==
    \A m \in Messages : calls[m] + Cardinality(Unsent(m)) <= row[m].attempts

\* The engine's bookkeeping, as one inductive invariant: rows, deliveries in
\* flight, provider calls and acceptances agree with one another.
DeliveryInv ==
    /\ OnlyPendingIsQueued
    /\ RowsAreCoherent
    /\ JobsAreCoherent
    /\ CallsAreBudgeted
    /\ SentWasAccepted
    /\ LastAttemptIsLeased

-----------------------------------------------------------------------------
(* The abstract promise, and the invariant behind the refinement *)

Copies(m) == {a \in accepted : a.msg = m}
Undecided(m) == {attempt \in 1..MaxAttempts : <<m, attempt>> \in wire}

Contract == INSTANCE DeliveryContract WITH
    status <- [m \in Messages |-> row[m].status],
    copies <- [m \in Messages |-> Cardinality(Copies(m))]

\* An attempt is one request at most: not yet sent by the delivery that claimed it,
\* or undecided, or accepted once; the attempts not yet counted have none of them.
RequestedOnce ==
    \A m \in Messages :
        /\ \A a \in Copies(m) : a.attempt \notin Undecided(m) /\ a.attempt <= row[m].attempts
        /\ \A attempt \in Undecided(m) : attempt <= row[m].attempts
        /\ \A w \in Unsent(m) :
              /\ job[w][m].attempt \notin Undecided(m)
              /\ \A a \in Copies(m) : a.attempt # job[w][m].attempt

\* Every copy, and every request that may still become one, was a call.
CopiesAreCalled ==
    \A m \in Messages :
        /\ IsFiniteSet(Copies(m))
        /\ Cardinality(Undecided(m)) + Cardinality(Copies(m)) <= calls[m]

\* An id is stored on one message, and never on one that has no provider, because
\* only messages of served channels are ever delivered.
IdsBelongToOne ==
    /\ \A w \in Workers, m \in Messages : job[w][m].phase # "idle" => m \in Served
    /\ \A m \in Messages : row[m].externalId # NoId =>
          /\ m \in Served
          /\ \A other \in Messages \ {m} : row[other].externalId # row[m].externalId

PromiseInv == RequestedOnce /\ CopiesAreCalled /\ IdsBelongToOne

\* The engine implements its promise: every step it, the provider or a callback
\* takes is a step of the contract (or invisible to it).
ImplementsContract == Contract!Spec
=============================================================================
