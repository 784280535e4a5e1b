------------------------------- MODULE InboundData -------------------------------
(* What comes in, in the runs: notifications of Meta, credentials and bodies of a     *)
(* caller of the endpoint.                                                             *)
EXTENDS Naturals, Sequences

CONSTANTS
    ours, theirs, other, customer, person,
    m1, m2, m3, m4, m5, m6, e1, e2, w1, \* messages, echoes of ours, a message of ours
    k1, k2, x1, x2, x3,                 \* keys and secrets
    Nil

Text(id, waId, bsuid, author) ==
    [id |-> id, type |-> "text", waId |-> waId, bsuid |-> bsuid, author |-> author]
Image(id) == [Text(id, customer, Nil, "customer") EXCEPT !.type = "image"]
Callback(id, s) == [id |-> id, status |-> s]
Change(field, account, messages, statuses) ==
    [field |-> field, account |-> account, business |-> ours,
     messages |-> messages, statuses |-> statuses]

\* Two customers, one of them known by phone; and Meta's news about our answer.
Batch ==
    <<Change("messages", ours,
             <<Text(m1, customer, Nil, "customer"), Text(m2, Nil, person, "customer"), Image(m3)>>,
             <<Callback(w1, "sent"), Callback(w1, "delivered")>>),
      Change("messages", other, <<Text(m4, customer, Nil, "customer")>>, <<>>)>>

\* The rest of the news, and what we wrote ourselves.
Later ==
    <<Change("smb_message_echoes", ours, <<Text(e1, ours, Nil, "business")>>, <<>>),
      Change("messages", ours, <<Text(e2, ours, Nil, "business"), Text(m6, Nil, person, "customer"),
               Text(m5, customer, person, "customer")>>,
             <<Callback(w1, "read"), Callback(w1, "played"), Callback(w1, "failed")>>)>>

MCNotifications == {Batch, Later}

Credential(key, tenant, secret) ==
    [keyId |-> key, tenantId |-> tenant, channel |-> "WEBCHAT", secret |-> secret, sound |-> TRUE]
Body(m) ==
    [message |-> m, unknown |-> {}, content |-> 1, contact |-> Nil, occurredAt |-> "offset"]

MCFirst == Credential(k1, ours, x1)
MCLines == 1..3

\* The caller's next key, another tenant's entry with a keyId in use, a secret in use,
\* and a channel no caller may have.
MCCredentials ==
    {MCFirst, Credential(k2, ours, x2), Credential(k1, theirs, x3), Credential(k2, theirs, x1),
     [Credential(k2, ours, x3) EXCEPT !.channel = "MANUAL", !.sound = FALSE]}

OneBody == {Body(m1)}
\* One to take, one whose id another channel has used, one that names its tenant itself.
MCTaken == {Body(m2)}
MCBodies == {Body(m1), Body(m2), [Body(m3) EXCEPT !.unknown = {"tenantId"}]}
=============================================================================
