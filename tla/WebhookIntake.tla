----------------------------- MODULE WebhookIntake -----------------------------
(***************************************************************************)
(* The WhatsApp webhook: Meta delivers a notification until it is answered *)
(* 200, possibly to several requests at once, and also when it already     *)
(* was.  A request parses it, handles its events one after the other, and  *)
(* answers at the end.  The parser is module WebhookParser.                *)
(*                                                                         *)
(* Storing a message is one action here: ContactIngress has its steps.     *)
(***************************************************************************)
EXTENDS Naturals, Sequences, SequencesExt, FiniteSets

CONSTANTS
    Notifications,  \* what Meta delivers: see WebhookParser
    Events,         \* Events[n]: what parseWhatsAppWebhook makes of notification n
    Configured,     \* the phone number ids that have a tenant
    Outbound,       \* provider ids of messages we sent
    Refused,        \* messages and ids the intake answers with a 4xx, however often
    Poison,         \* messages whose handling fails for another reason, however often
    Requests,       \* notifications that may be handled at the same time
    MaxFaults,      \* bound of the failures and crashes
    None

WebhookAssumption == MaxFaults \in Nat

VARIABLES
    owed,       \* notifications Meta has not seen a 200 for
    request,    \* request[r]: the notification and how much of it is done
    stored,     \* ids of inbound messages that are stored
    status,     \* status[w]: of the message we sent, None while its id is not recorded
    seen,       \* seen[w]: callbacks that were handled since then
    faults

vars == <<owed, request, stored, status, seen, faults>>

-----------------------------------------------------------------------------
NoRequest == [notification |-> <<>>, at |-> 0, failures |-> 0]

Init ==
    /\ owed = Notifications
    /\ request = [r \in Requests |-> NoRequest]
    /\ stored = {}
    /\ status = [w \in Outbound |-> None]
    /\ seen = [w \in Outbound |-> {}]
    /\ faults = 0

\* Meta delivers, again or for the first time.
Deliver(r, n) ==
    /\ request[r] = NoRequest
    /\ request' = [request EXCEPT ![r] = [notification |-> n, at |-> 1, failures |-> 0]]
    /\ UNCHANGED <<owed, stored, status, seen, faults>>

\* e is the event that is next in r.
Handles(r, e) ==
    LET events == Events[request[r].notification] IN
    /\ request[r].at \in DOMAIN events
    /\ e = events[request[r].at]

\* Mutants: the event after one that fails is skipped; the first that fails ends the request.
AfterFailureSkips(x) == [x EXCEPT !.failures = @ + 1, !.at = @ + 2]
AfterFailureMutant(x) ==
    [x EXCEPT !.failures = @ + 1, !.at = Len(Events[x.notification]) + 1]

\* The other events are handled before the request is answered.
AfterFailure(x) == [x EXCEPT !.failures = @ + 1, !.at = @ + 1]

Done(r) == request' = [request EXCEPT ![r].at = @ + 1]
Fails(r) == request' = [request EXCEPT ![r] = AfterFailure(@)]

\* Nobody's number: dropped.
UnknownAccount(r, e) ==
    /\ e.account \notin Configured
    /\ Done(r)
    /\ UNCHANGED <<owed, stored, status, seen, faults>>

\* Mutant: every error is worth a retry.
isDeterministicMutant(e) == FALSE

\* A failure that delivering the event again cannot fix.
isDeterministic(e) == e.id \in Refused

Reject(r, e) ==
    /\ e.account \in Configured /\ e.id \in Refused
    /\ IF isDeterministic(e) THEN Done(r) ELSE Fails(r)
    /\ UNCHANGED <<owed, stored, status, seen, faults>>

\* Any other error. A commit whose answer is lost may have stored the message.
Fail(r, e) ==
    /\ e.account \in Configured /\ e.id \notin Refused
    /\ \/ e.id \in Poison /\ UNCHANGED <<stored, faults>>
       \/ /\ faults < MaxFaults /\ e.id \notin Poison
          /\ faults' = faults + 1
          /\ stored' \in {stored} \cup
                         (IF e.kind = "text" THEN {stored \cup {e.id}} ELSE {})
    /\ Fails(r)
    /\ UNCHANGED <<owed, status, seen>>

handleText(r, e) ==
    /\ e.kind = "text" /\ e.account \in Configured /\ e.id \notin Refused \cup Poison
    /\ stored' = stored \cup {e.id}
    /\ Done(r)
    /\ UNCHANGED <<owed, status, seen, faults>>

\* Mutant: read comes after delivered only.
ADVANCES_FROMMutant ==
    [sent |-> {}, delivered |-> {"SENT"}, read |-> {"DELIVERED"}, failed |-> {"SENT"}]

ADVANCES_FROM ==
    [sent |-> {}, delivered |-> {"SENT"}, read |-> {"SENT", "DELIVERED"}, failed |-> {"SENT"}]

META_STATUS_TARGET ==
    [sent |-> "SENT", delivered |-> "DELIVERED", read |-> "READ", failed |-> "FAILED"]

\* One conditional UPDATE. A message whose id is not recorded is not found: unmatched.
handleStatus(r, e) ==
    /\ e.kind = "status" /\ e.account \in Configured /\ e.id \notin Refused \cup Poison
    /\ IF e.id \in Outbound /\ status[e.id] # None
       THEN /\ status' = IF status[e.id] \in ADVANCES_FROM[e.status]
                         THEN [status EXCEPT ![e.id] = META_STATUS_TARGET[e.status]]
                         ELSE status
            /\ seen' = [seen EXCEPT ![e.id] = @ \cup {e.status}]
       ELSE UNCHANGED <<status, seen>>
    /\ Done(r)
    /\ UNCHANGED <<owed, stored, faults>>

\* Mutant: the failures are only logged.
AcknowledgesMutant(x) == TRUE
Acknowledges(x) == x.failures = 0

\* 200, or 503: Meta delivers again.
Answer(r) ==
    LET x == request[r] IN
    /\ x # NoRequest
    /\ x.at > Len(Events[x.notification])
    /\ owed' = IF Acknowledges(x) THEN owed \ {x.notification} ELSE owed
    /\ request' = [request EXCEPT ![r] = NoRequest]
    /\ UNCHANGED <<stored, status, seen, faults>>

\* The process dies, or the connection does before the answer.
Crash(r) ==
    /\ request[r] # NoRequest
    /\ faults < MaxFaults
    /\ faults' = faults + 1
    /\ request' = [request EXCEPT ![r] = NoRequest]
    /\ UNCHANGED <<owed, stored, status, seen>>

\* The dispatcher records the id under which Meta accepted the message.
markSent(w) ==
    /\ status[w] = None
    /\ status' = [status EXCEPT ![w] = "SENT"]
    /\ UNCHANGED <<owed, request, stored, seen, faults>>

Handle(r) ==
    /\ request[r] # NoRequest
    /\ \E e \in ToSet(Events[request[r].notification]) :
        /\ Handles(r, e)
        /\ \/ UnknownAccount(r, e) \/ Reject(r, e) \/ Fail(r, e)
           \/ handleText(r, e) \/ handleStatus(r, e)

Next ==
    \/ \E r \in Requests, n \in Notifications : Deliver(r, n)
    \/ \E r \in Requests : Handle(r) \/ Answer(r) \/ Crash(r)
    \/ \E w \in Outbound : markSent(w)

Spec == Init /\ [][Next]_vars

\* The server goes on with a request, and Meta keeps delivering what is not acknowledged.
Fairness ==
    /\ \A r \in Requests : WF_vars(Handle(r) \/ Answer(r))
    /\ \A n \in Notifications : SF_vars(n \in owed /\ \E r \in Requests : Deliver(r, n))

FairSpec == Spec /\ Fairness

-----------------------------------------------------------------------------
(* Properties *)

\* Every variable has its type.
TypeOK ==
    /\ owed \subseteq Notifications
    /\ \A r \in Requests : request[r] # NoRequest =>
         /\ request[r].notification \in Notifications
         /\ request[r].at \in 1..Len(Events[request[r].notification]) + 1
         /\ request[r].failures \in 0..Len(Events[request[r].notification])
    /\ stored \subseteq UNION {{e.id : e \in ToSet(Events[n])} : n \in Notifications}
    /\ status \in [Outbound -> {None, "SENT", "DELIVERED", "READ", "FAILED"}]
    /\ seen \in [Outbound -> SUBSET DOMAIN META_STATUS_TARGET]
    /\ faults \in 0..MaxFaults

\* The texts a customer wrote to one of our numbers in n.
CustomerTexts(n) ==
    UNION {{x.id : x \in {y \in ToSet(n[i].messages) : y.author = "customer" /\ y.type = "text"}} :
             i \in {j \in DOMAIN n : n[j].field = "messages" /\ n[j].account \in Configured}}

\* A notification is acknowledged only when each of its texts is stored, or was refused
\* for good: whatever failed, crashed or ran beside it, Meta delivers the rest again.
AcknowledgedIsStored ==
    \A n \in Notifications \ owed : CustomerTexts(n) \ Refused \subseteq stored

\* What we write ourselves is never taken for a customer's message.
OnlyCustomersAreStored ==
    stored \subseteq UNION {CustomerTexts(n) : n \in Notifications}

\* The status of a message is what its callbacks say, in whatever order they came:
\* the furthest of them, and FAILED only if that came first.
StatusIsFurthest ==
    \A w \in Outbound :
        /\ status[w] = "FAILED" => "failed" \in seen[w]
        /\ status[w] # "FAILED" =>
             /\ "read" \in seen[w] => status[w] = "READ"
             /\ "delivered" \in seen[w] => status[w] \in {"DELIVERED", "READ"}
             /\ "failed" \in seen[w] => seen[w] \cap {"delivered", "read"} # {}

\* A message that always fails does not keep the others of its notification out.
OthersAreStored ==
    <>[](\A n \in Notifications : CustomerTexts(n) \ (Refused \cup Poison) \subseteq stored)

\* A notification whose errors a retry cannot fix is not delivered for ever.
EventuallyAcknowledged ==
    \A n \in Notifications :
        ({e.id : e \in ToSet(Events[n])} \cap Poison = {}) => <>[](n \notin owed)
=============================================================================
