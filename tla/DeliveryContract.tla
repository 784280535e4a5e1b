--------------------------- MODULE DeliveryContract ---------------------------
(***************************************************************************)
(* What the delivery engine promises of a message, with no worker, lease,  *)
(* queue or clock in sight: AT-LEAST-ONCE delivery within a budget of      *)
(* attempts, a status that is only SENT when the customer has a copy, and  *)
(* provider confirmations that only move it forward.                       *)
(***************************************************************************)
EXTENDS Naturals

CONSTANTS Messages, Manual, MaxAttempts

VARIABLES
    status,   \* status[m]: what the product shows
    calls,    \* calls[m]: provider requests made for m
    copies    \* copies[m]: how often the provider accepted m

contractVars == <<status, calls, copies>>

Init ==
    /\ status = [m \in Messages |-> "ABSENT"]
    /\ calls = [m \in Messages |-> 0]
    /\ copies = [m \in Messages |-> 0]

Create(m) ==
    /\ status[m] = "ABSENT"
    /\ status' = [status EXCEPT ![m] = IF m \in Manual THEN "SENT" ELSE "PENDING"]
    /\ UNCHANGED <<calls, copies>>

\* A request may still leave after another worker settled the message.
Call(m) ==
    /\ m \notin Manual
    /\ status[m] # "ABSENT"
    /\ calls[m] < MaxAttempts
    /\ calls' = [calls EXCEPT ![m] = @ + 1]
    /\ UNCHANGED <<status, copies>>

Deliver(m) ==
    /\ copies[m] < calls[m]
    /\ copies' = [copies EXCEPT ![m] = @ + 1]
    /\ UNCHANGED <<status, calls>>

Settle(m) ==
    /\ status[m] = "PENDING"
    /\ copies[m] > 0
    /\ status' = [status EXCEPT ![m] = "SENT"]
    /\ UNCHANGED <<calls, copies>>

\* One poll may give up on several messages.
GiveUp(failed) ==
    /\ failed # {}
    /\ \A m \in failed : status[m] = "PENDING"
    /\ status' = [m \in Messages |-> IF m \in failed THEN "FAILED" ELSE status[m]]
    /\ UNCHANGED <<calls, copies>>

Confirm(m, to) ==
    /\ copies[m] > 0
    /\ \/ status[m] = "SENT" /\ to \in {"DELIVERED", "READ", "FAILED"}
       \/ status[m] = "DELIVERED" /\ to = "READ"
    /\ status' = [status EXCEPT ![m] = to]
    /\ UNCHANGED <<calls, copies>>

Next ==
    \/ \E m \in Messages : Create(m) \/ Call(m) \/ Deliver(m) \/ Settle(m)
    \/ \E failed \in SUBSET Messages : GiveUp(failed)
    \/ \E m \in Messages, to \in {"DELIVERED", "READ", "FAILED"} : Confirm(m, to)

Spec == Init /\ [][Next]_contractVars
=============================================================================
