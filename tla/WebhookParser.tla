----------------------------- MODULE WebhookParser -----------------------------
(***************************************************************************)
(* parseWhatsAppWebhook: the events of a notification, in its order, what  *)
(* customers wrote and what became of the messages we sent.  What has      *)
(* another form, and what the business wrote itself, is dropped.           *)
(***************************************************************************)
EXTENDS Naturals, Sequences, SequencesExt

CONSTANTS
    Notifications,  \* sequences of changes
    Absent          \* an id that is absent

\* A change is a record [field, account, business, messages, statuses]; a message
\* [id, type, waId, bsuid, author] (author is who really wrote it: no code reads it);
\* a status [id, status].
IsSeq(s) == s \in Seq(ToSet(s))

\* Meta's side, as the parser takes it: a customer has a phone number or an id, and "the
\* business's own number can never be a customer".
CustomersAreIdentified ==
    \A n \in Notifications : \A i \in DOMAIN n : \A x \in ToSet(n[i].messages) :
        x.author = "customer" =>
            /\ x.waId # Absent \/ x.bsuid # Absent
            /\ x.waId # Absent => x.waId # n[i].business

ParserAssumption ==
    /\ \A n \in Notifications :
          IsSeq(n) /\ \A i \in DOMAIN n : IsSeq(n[i].messages) /\ IsSeq(n[i].statuses)
    /\ CustomersAreIdentified

-----------------------------------------------------------------------------
\* Mutant: only the field tells who wrote.
IsEchoMutant(change, x) == FALSE

\* Second layer: a message of the business's own number.
IsEcho(change, x) == x.waId # Absent /\ x.waId = change.business

parseMessage(change, x) ==
    IF x.type = "text" /\ (x.waId # Absent \/ x.bsuid # Absent) /\ ~IsEcho(change, x)
    THEN <<[kind |-> "text", account |-> change.account, id |-> x.id]>>
    ELSE <<>>

Statuses == {"sent", "delivered", "read", "failed"}

parseStatus(change, x) ==
    IF x.status \in Statuses
    THEN <<[kind |-> "status", account |-> change.account, id |-> x.id, status |-> x.status]>>
    ELSE <<>>

Parsed(change) ==
    IF change.field # "messages" THEN <<>>
    ELSE FlattenSeq([i \in DOMAIN change.messages |-> parseMessage(change, change.messages[i])])
         \o FlattenSeq([i \in DOMAIN change.statuses |-> parseStatus(change, change.statuses[i])])

EventsOf == [n \in Notifications |-> FlattenSeq([i \in DOMAIN n |-> Parsed(n[i])])]
=============================================================================
