----------------------------- MODULE OutboundWorker -----------------------------
(***************************************************************************)
(* The polling loop around the delivery engine: OutboundWorker's timer and *)
(* cursor, and a cycle of OutboundDispatcherService over a page of the     *)
(* tenants that have something due.                                        *)
(*                                                                         *)
(* JavaScript runs one callback at a time; a poll is cut where it awaits.  *)
(* What happens to a claimed message is module OutboundDelivery's: a claim *)
(* takes it off the due ones here.                                         *)
(***************************************************************************)
EXTENDS Naturals, Sequences, FiniteSets

CONSTANTS
    LastTenant,          \* tenants are 1..LastTenant, in the order of their ids
    Unserved,            \* those whose due messages are on a channel with no adapter
    Polls,               \* names for the polls that run or have a timer
    TENANTS_PER_POLL, TENANT_CONCURRENCY, BatchSize,
    MaxMessages,         \* bound of the messages a tenant gets
    MaxFaults,           \* bound of the failures
    Restarts,            \* bound of the calls of start after a stop
    None

Tenants == 1..LastTenant

WorkerAssumption ==
    /\ LastTenant \in Nat /\ Unserved \subseteq Tenants /\ None \notin Polls
    /\ {TENANTS_PER_POLL, TENANT_CONCURRENCY, BatchSize} \subseteq Nat \ {0}
    /\ {MaxMessages, MaxFaults, Restarts} \subseteq Nat

VARIABLES
    due,        \* due[t]: messages of t that are due and not leased
    arrived,    \* arrived[t]: messages t got so far
    running, cursor,
    timer,      \* this.timer: the poll it will start
    armed,      \* timers that have not fired
    inFlight,   \* this.inFlight
    poll,       \* poll[p]: how far a poll has come
    stopping,   \* stop(): the poll it waits for; None when no stop waits
    faults,
    starts      \* calls of start

queue == <<due, arrived>>
loop == <<running, timer, armed, inFlight, stopping, starts>>
vars == <<queue, loop, cursor, poll, faults>>

-----------------------------------------------------------------------------
NoPoll == [phase |-> "none", page |-> <<>>, next |-> 1, working |-> {}, served |-> {}]

Init ==
    /\ due = [t \in Tenants |-> 0] /\ arrived = [t \in Tenants |-> 0]
    /\ running = FALSE /\ cursor = 0
    /\ timer = None /\ armed = {} /\ inFlight = None
    /\ poll = [p \in Polls |-> NoPoll]
    /\ stopping = None
    /\ faults = 0 /\ starts = 0

MessageArrives(t) ==
    /\ arrived[t] < MaxMessages
    /\ arrived' = [arrived EXCEPT ![t] = @ + 1]
    /\ due' = [due EXCEPT ![t] = @ + 1]
    /\ UNCHANGED <<loop, cursor, poll, faults>>

-----------------------------------------------------------------------------
(* The loop *)

Free(p) == poll[p] = NoPoll /\ p \notin armed

\* schedule(): a timer, unless the worker was stopped.
schedule(p, isRunning) ==
    IF isRunning THEN armed' = armed \cup {p} /\ timer' = p
                 ELSE UNCHANGED <<armed, timer>>

\* Called at bootstrap; again only after a stop.
start ==
    /\ ~running
    /\ starts <= Restarts
    /\ starts' = starts + 1
    /\ running' = TRUE
    /\ \E p \in Polls : Free(p) /\ schedule(p, TRUE)
    /\ UNCHANGED <<queue, cursor, inFlight, poll, stopping, faults>>

\* Mutant: the timer is left to fire.
ClearedMutant == armed

\* clearTimeout(this.timer).
Cleared == armed \ {timer}

\* stop(), up to the wait for the poll in flight.
stop ==
    /\ running
    /\ running' = FALSE
    /\ armed' = Cleared
    /\ timer' = None
    /\ stopping' = inFlight
    /\ UNCHANGED <<queue, cursor, inFlight, poll, faults, starts>>

\* The poll ended, or the grace period did.
StopGivesUp ==
    /\ stopping # None
    /\ faults < MaxFaults
    /\ faults' = faults + 1
    /\ stopping' = None
    /\ UNCHANGED <<queue, running, cursor, timer, armed, inFlight, poll, starts>>

TimerFires(p) ==
    /\ p \in armed
    /\ armed' = armed \ {p}
    /\ timer' = None
    /\ inFlight' = p
    /\ poll' = [poll EXCEPT ![p].phase = "started"]
    /\ UNCHANGED <<queue, running, cursor, stopping, faults, starts>>

\* The end of a poll: the next one is scheduled only now.
PollEnds(p) ==
    /\ poll' = [poll EXCEPT ![p] = NoPoll]
    /\ schedule(p, running)
    /\ inFlight' = IF inFlight = p THEN None ELSE inFlight
    /\ stopping' = IF stopping = p THEN None ELSE stopping
    /\ UNCHANGED <<running, starts>>

\* Any error of the cycle: logged, and from the first page again.
PollFails(p) ==
    /\ poll[p].phase = "started"
    /\ faults < MaxFaults
    /\ faults' = faults + 1
    /\ cursor' = 0
    /\ PollEnds(p)
    /\ UNCHANGED queue

-----------------------------------------------------------------------------
(* dispatchCycle *)

\* Mutant: always from the first tenant.
AfterCursorMutant(t) == TRUE
AfterCursor(t) == t > cursor

DueAfterCursor == {t \in Tenants : due[t] > 0 /\ AfterCursor(t)}

\* The first TENANTS_PER_POLL of them, in order.
discoverTenants ==
    CHOOSE page \in UNION {[1..n -> DueAfterCursor] : n \in 0..TENANTS_PER_POLL} :
        /\ \A i, j \in DOMAIN page : i < j => page[i] < page[j]
        /\ Len(page) < TENANTS_PER_POLL => {page[i] : i \in DOMAIN page} = DueAfterCursor
        /\ \A t \in DueAfterCursor, i \in DOMAIN page :
               t < page[i] => \E j \in DOMAIN page : page[j] = t

Discover(p) ==
    /\ poll[p].phase = "started"
    /\ poll' = [poll EXCEPT ![p].phase = "serving", ![p].page = discoverTenants]
    /\ UNCHANGED <<queue, loop, cursor, faults>>

\* Mutant: the index moves on when the work is done.
AfterTakingMutant(x) == x.next

\* next++: the index is taken before the work is awaited.
AfterTaking(x) == x.next + 1

\* A runner of mapWithConcurrency takes the next tenant.
Take(p) ==
    LET x == poll[p] IN
    /\ x.phase = "serving"
    /\ x.next <= Len(x.page)
    /\ Cardinality(x.working) < TENANT_CONCURRENCY
    /\ poll' = [poll EXCEPT ![p].next = AfterTaking(x), ![p].working = @ \cup {x.page[x.next]}]
    /\ UNCHANGED <<queue, loop, cursor, faults>>

\* Mutant: the batch is always full.
BatchOfMutant(t) == IF t \in Unserved THEN 0 ELSE BatchSize

BatchOf(t) == IF t \in Unserved THEN 0 ELSE IF due[t] < BatchSize THEN due[t] ELSE BatchSize

\* dispatchTenant, or its error, which is only logged.
Serve(p, t) ==
    LET x == poll[p] IN
    /\ t \in x.working
    /\ \/ due' = [due EXCEPT ![t] = @ - BatchOf(t)] /\ UNCHANGED faults
       \/ faults < MaxFaults /\ faults' = faults + 1 /\ UNCHANGED due
    /\ poll' = [poll EXCEPT ![p].working = @ \ {t}, ![p].served = @ \cup {t}]
    /\ UNCHANGED <<arrived, loop, cursor>>

IsFull(page) == Len(page) >= TENANTS_PER_POLL

\* Full: the next poll goes on after its last tenant. Short: it starts over.
CycleEnds(p) ==
    LET x == poll[p] IN
    /\ x.phase = "serving"
    /\ x.next > Len(x.page) /\ x.working = {}
    /\ cursor' = IF IsFull(x.page) THEN x.page[Len(x.page)] ELSE 0
    /\ PollEnds(p)
    /\ UNCHANGED <<queue, faults>>

PollStep(p) ==
    \/ TimerFires(p) \/ Discover(p) \/ Take(p) \/ CycleEnds(p)
    \/ \E t \in Tenants : Serve(p, t)

Next ==
    \/ \E t \in Tenants : MessageArrives(t)
    \/ start \/ stop \/ StopGivesUp
    \/ \E p \in Polls : PollStep(p) \/ PollFails(p)

Spec == Init /\ [][Next]_vars

\* A timer fires, and every call a poll awaits ends: the adapters and the database
\* have timeouts.
Fairness == \A p \in Polls : WF_vars(PollStep(p))

FairSpec == Spec /\ Fairness

-----------------------------------------------------------------------------
(* Properties *)

Active(p) == poll[p] # NoPoll

\* Every variable has its type.
TypeOK ==
    /\ due \in [Tenants -> 0..MaxMessages] /\ arrived \in [Tenants -> 0..MaxMessages]
    /\ running \in BOOLEAN /\ cursor \in 0..LastTenant
    /\ armed \subseteq Polls /\ {timer, inFlight, stopping} \subseteq Polls \cup {None}
    /\ \A p \in Polls :
         /\ poll[p].phase \in {"none", "started", "serving"}
         /\ Len(poll[p].page) <= TENANTS_PER_POLL /\ poll[p].next \in 1..TENANTS_PER_POLL + 1
         /\ poll[p].working \cup poll[p].served \subseteq Tenants
    /\ faults \in 0..MaxFaults /\ starts \in 0..Restarts + 1

\* A tenant is served by one runner at a time and once in a cycle, and no tenant of the
\* page is left out.
PageIsServedOnce ==
    \A p \in Polls : poll[p].phase = "serving" =>
        LET x == poll[p]
            Past == {x.page[i] : i \in {j \in DOMAIN x.page : j < x.next}}
        IN
        /\ x.working \cap x.served = {}
        /\ x.working \cup x.served = Past

\* When a stop that did not give up is over, nothing polls and nothing will.
StoppedIsQuiet ==
    ~running /\ stopping = None /\ faults = 0 => armed = {} /\ \A p \in Polls : ~Active(p)

\* Every message of a tenant that can be served is taken in the end, however many
\* tenants ahead of it have messages that cannot be.
EveryTenantIsServed ==
    \A t \in Tenants \ Unserved : []<>(due[t] = 0 \/ ~running)

(* What the comments say and the code does not keep *)

\* Polls never pile up.
OnePollAtATime == Cardinality({p \in Polls : Active(p)} \cup armed) <= 1
=============================================================================
