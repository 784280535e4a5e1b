--------------------------- MODULE MCContactIngress ---------------------------
(* Small instances of ContactIngress.  The first run takes three of them, one per      *)
(* behaviour: `scene' says which.                                                      *)
EXTENDS ContactIngress, TLC

CONSTANTS
    m1, m2, m3, m4, whatsapp, instagram, i1, i2, phone, t1, t2,
    OnePerson, OneMessage, Writers

VARIABLE scene

Event(message, channel, external, number, thread, at) ==
    [message |-> message, channel |-> channel, external |-> external,
     phone |-> number, thread |-> thread, occurredAt |-> at]

First == Event(m1, whatsapp, i1, phone, t1, 1)

\* The same person in another thread, the same phone on another channel, and somebody
\* else in the first thread.
MCEvents ==
    {First, Event(m2, whatsapp, i1, phone, t2, 0),
     Event(m3, instagram, i1, phone, None, 2), Event(m4, whatsapp, i2, None, t1, 1)}

\* One person, first without a thread and then in two.
ThreadEvents ==
    {Event(m2, whatsapp, i1, None, None, 0), First, Event(m3, whatsapp, i1, None, t2, 0)}

TalkEvents == {First}

\* One person whose threads anchor a conversation.
Threads == INSTANCE ContactIngress WITH Events <- OnePerson

\* One message, and an agent who writes.
Talk == INSTANCE ContactIngress WITH Events <- OneMessage, Agents <- Writers

SceneInit ==
    \/ scene = "people" /\ Init
    \/ scene = "threads" /\ Threads!Init
    \/ scene = "talk" /\ Talk!Init

SceneNext ==
    \/ scene = "people" /\ Next /\ UNCHANGED scene
    \/ scene = "threads" /\ Threads!Next /\ UNCHANGED scene
    \/ scene = "talk" /\ Talk!Next /\ UNCHANGED scene

SceneSpec == SceneInit /\ [][SceneNext]_<<vars, scene>>

-----------------------------------------------------------------------------

\* Every variable has its type.
SceneTypeOK ==
    CASE scene = "people" -> TypeOK
      [] scene = "threads" -> Threads!TypeOK
      [] scene = "talk" -> Talk!TypeOK

Symmetry == Permutations(Contacts) \cup Permutations(Conversations) \cup Permutations(Calls)
=============================================================================
