------------------------------ MODULE MCServices ------------------------------
(* What the parts that serve others do in the end: the delivery engine, the worker that *)
(* polls for it, the webhook, the endpoint of the other channels, and the session of a   *)
(* browser tab.  A behaviour is of one of them, and `part' says which; the others have    *)
(* nothing to do in it, so that their fairness asks for nothing.                          *)
EXTENDS InboundEndpoint, InboundData, TLC

CONSTANTS
    Messages, Manual, Served, Workers, Ids, NoId, MaxAttempts,              \* OutboundDelivery
    Unserved, Polls,                                                        \* OutboundWorker
    Notifications, Configured, Outbound, Refused, Poison, Deliveries, MaxFailures,  \* WebhookIntake
    Sessions, Calls                                                         \* WebSession

VARIABLES
    part,
    row, job, calls, wire, accepted,
    due, arrived, running, cursor, timer, armed, inFlight, poll, stopping, pollFaults, starts,
    owed, delivered, kept, status, seen, failures,
    live, known, jar, accessToken, refresh, call, boot, signIn, signOut, page, user,
    straggler, signedOut

Delivery == INSTANCE OutboundDelivery WITH BatchSize <- 1

\* The tenants of the first page cannot be served.
Worker ==
    INSTANCE OutboundWorker WITH
        LastTenant <- 4, TENANTS_PER_POLL <- 2, TENANT_CONCURRENCY <- 2, BatchSize <- 1,
        MaxMessages <- 1, MaxFaults <- 1, Restarts <- 0, faults <- pollFaults

Parser == INSTANCE WebhookParser WITH Absent <- None

ParsedEvents == Parser!EventsOf

Webhook ==
    INSTANCE WebhookIntake WITH
        Events <- ParsedEvents, Requests <- Deliveries, MaxFaults <- MaxFailures,
        request <- delivered, stored <- kept, faults <- failures

Tab == INSTANCE WebSession WITH status <- page

ASSUME ServicesAssumption ==
    /\ EndpointAssumption /\ Worker!WorkerAssumption
    /\ Parser!ParserAssumption /\ Webhook!WebhookAssumption /\ Tab!WebSessionAssumption

delivery == <<row, job, calls, wire, accepted>>
worker == <<due, arrived, running, cursor, timer, armed, inFlight, poll, stopping, pollFaults, starts>>
webhook == <<owed, delivered, kept, status, seen, failures>>
tab == <<live, known, jar, accessToken, refresh, call, boot, signIn, signOut, page, user,
         straggler, signedOut>>
allVars == <<part, vars, delivery, worker, webhook, tab>>

-----------------------------------------------------------------------------
\* Each notification was delivered and acknowledged.
NothingToDeliver ==
    /\ owed = {} /\ delivered = [r \in Deliveries |-> Webhook!NoRequest]
    /\ kept = UNION {Webhook!CustomerTexts(n) \ Refused : n \in Notifications}
    /\ status = [w \in Outbound |-> None] /\ seen = [w \in Outbound |-> {}]
    /\ failures = 0

\* No process has to boot, and the caller is done with each message.
NothingToSend ==
    /\ file = [n \in Lines |-> None]
    /\ registry = [i \in Instances |-> <<>>] /\ hits = [i \in Instances |-> 0]
    /\ current = First
    /\ request = [s \in Slots |-> Free]
    /\ stored = {} /\ created = [b \in Bodies |-> 0]
    /\ settled = [b \in Bodies |-> 200]
    /\ edits = 0 /\ faults = 0

ServicesInit ==
    /\ part \in {"delivery", "worker", "webhook", "endpoint", "tab"}
    /\ Delivery!Init /\ Worker!Init /\ Tab!Init
    /\ IF part = "webhook" THEN Webhook!Init ELSE NothingToDeliver
    /\ IF part = "endpoint" THEN Init ELSE NothingToSend

ServicesNext ==
    \/ part = "delivery" /\ Delivery!Next /\ UNCHANGED <<part, vars, worker, webhook, tab>>
    \/ part = "worker" /\ Worker!Next /\ UNCHANGED <<part, vars, delivery, webhook, tab>>
    \/ part = "webhook" /\ Webhook!Next /\ UNCHANGED <<part, vars, delivery, worker, tab>>
    \/ part = "endpoint" /\ Next /\ UNCHANGED <<part, delivery, worker, webhook, tab>>
    \/ part = "tab" /\ Tab!Next /\ UNCHANGED <<part, vars, delivery, worker, webhook>>

\* The fairness of each part, in the behaviours of that part.
Is(p) == part = p

ServicesFairness ==
    /\ \A m \in Messages :
         /\ WF_delivery(Is("delivery") /\ Delivery!LeaseExpires(m))
         /\ WF_delivery(Is("delivery") /\ Delivery!BackoffElapses(m))
         /\ \A w \in Workers : WF_delivery(Is("delivery") /\ Delivery!Deliver(w, m))
    /\ \A m \in Served :
         SF_delivery(Is("delivery") /\ \E w \in Workers : \E batch \in SUBSET Delivery!Due :
                         m \in batch /\ Delivery!Claim(w, batch))
    /\ SF_delivery(/\ Is("delivery") /\ Delivery!Exhausted # {}
                   /\ \E w \in Workers : Delivery!Claim(w, {}))
    /\ \A p \in Polls : WF_worker(Is("worker") /\ Worker!PollStep(p))
    /\ \A r \in Deliveries : WF_webhook(Is("webhook") /\ (Webhook!Handle(r) \/ Webhook!Answer(r)))
    /\ \A n \in Notifications :
         SF_webhook(Is("webhook") /\ n \in owed /\ \E r \in Deliveries : Webhook!Deliver(r, n))
    /\ WF_vars(Is("endpoint") /\ Repair)
    /\ \A i \in Instances :
         /\ WF_vars(Is("endpoint") /\ Boot(i))
         /\ WF_vars(Is("endpoint") /\ NewWindow(i))
    /\ \A s \in Slots :
         WF_vars(Is("endpoint") /\ (Admit(s) \/ Receive(s) \/ Hear(s)))
    /\ SF_vars(/\ Is("endpoint")
                   /\ \E s \in Slots, b \in Bodies, i \in Instances : Send(s, b, i))
    /\ WF_tab(Is("tab") /\ (Tab!ApiRefreshes \/ Tab!RefreshSucceeds \/ Tab!RefreshFails))
    /\ \A c \in Calls : WF_tab(Is("tab") /\ Tab!Progress(c))

ServicesSpec == ServicesInit /\ [][ServicesNext]_allVars /\ ServicesFairness

-----------------------------------------------------------------------------

\* Whatever failed, crashed or ran beside it: Meta is told 200 only when each text of the
\* notification is stored, or was refused for good.
AcknowledgedIsStored == part = "webhook" => Webhook!AcknowledgedIsStored

\* Every message of a served channel leaves the queue: sent, or failed after a
\* bounded number of attempts, however often workers crash.
EventuallySettled == Delivery!EventuallySettled

\* Every message of a tenant that can be served is taken in the end, however many
\* tenants ahead of it have messages that cannot be.
EveryTenantIsServed == Worker!EveryTenantIsServed

\* What is delivered again and again is accepted in the end: a notification of Meta is
\* acknowledged, and a message the endpoint has to take is stored, with a 2xx its caller
\* has heard; a lost answer, an event that always fails or a process that is deployed
\* again only delays it, and keeps no other message of a notification from being stored.
InboundIsAccepted ==
    Webhook!OthersAreStored /\ Webhook!EventuallyAcknowledged /\ ValidIsAccepted

\* Every request comes to an end: refresh and replay do not loop.
CallsEnd == Tab!CallsEnd

(* True of these instances as well; not among the properties of the run *)

\* Every variable has its type.
ServicesTypeOK ==
    /\ Delivery!TypeOK /\ Worker!TypeOK /\ Webhook!TypeOK /\ Tab!TypeOK
    /\ part = "endpoint" => TypeOK

\* A tenant is served by one runner at a time and once in a cycle, and no tenant of the
\* page is left out.
PageIsServedOnce == Worker!PageIsServedOnce

\* When a stop that did not give up is over, nothing polls and nothing will.
StoppedIsQuiet == Worker!StoppedIsQuiet
=============================================================================
