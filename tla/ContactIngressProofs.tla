------------------------- MODULE ContactIngressProofs -------------------------
(***************************************************************************)
(* TLAPS proofs about ContactIngress: for any events, however many calls   *)
(* take them and agents write at the same time.                            *)
(***************************************************************************)
EXTENDS ContactIngress, TLAPS

-----------------------------------------------------------------------------
(* What the operators return *)

LEMMA IdentityOfType ==
    ASSUME NEW e \in Events
    PROVE  IdentityOf(e) \in Identities
  BY DEF IdentityOf, Identities

LEMMA SentAtType ==
    ASSUME TypeOK, NEW e \in Events
    PROVE  SentAt(e) \in Times
  <1>1. e.occurredAt \in Nat /\ MaxTime \in Nat
    BY IngressAssumption
  <1>2. clock \in 0..MaxTime
    BY DEF TypeOK, Times
  <1> QED
    BY <1>1, <1>2 DEF SentAt, Times

(* A call that is under way. *)
LEMMA CallFields ==
    ASSUME TypeOK, NEW k \in Calls, call[k].phase # "idle"
    PROVE  call[k] \in IngressCalls
  BY DEF TypeOK, Idle

(* What a step of one call does to the others. *)
LEMMA GoesCalls ==
    ASSUME TypeOK, NEW k \in Calls, NEW x, Goes(k, x)
    PROVE  \A q \in Calls : call'[q] = IF q = k THEN x ELSE call[q]
  BY DEF TypeOK, Goes

LEMMA GoesType ==
    ASSUME TypeOK, NEW k \in Calls, NEW x \in {Idle} \cup IngressCalls, Goes(k, x)
    PROVE  call' \in [Calls -> {Idle} \cup IngressCalls]
  BY DEF TypeOK, Goes

-----------------------------------------------------------------------------
(* Type correctness *)

LEMMA InitType ==
    ASSUME Init
    PROVE  TypeOK
  <1>1. MaxTime \in Nat /\ 0 \in Times
    BY IngressAssumption DEF Times
  <1> QED
    BY <1>1 DEF Init, TypeOK, NoContact, NoConv, Idle

ConversationRows ==
    [state : {"ABSENT", "OPEN", "ENCERRADA"}, contact : Contacts \cup {None},
     channel : Channels \cup {None}, thread : {e.thread : e \in Events} \cup {None}, last : Times]

LEMMA LoseRaceType ==
    ASSUME TypeOK, NEW k \in Calls, call[k].phase = "decided",
           NEW kind \in {"conversation", "message"}, LoseRace(k, kind)
    PROVE  call' \in [Calls -> {Idle} \cup IngressCalls]
  <1>1. call[k] \in IngressCalls
    BY CallFields
  <1>2. CASE canRetry(call[k], kind)
    <2> DEFINE x == [call[k] EXCEPT !.phase = "resolved", !.conv = None, !.anchor = FALSE,
                                    !.attempt = @ + 1, !.retries[kind] = @ + 1]
    <2>1. call[k].attempt \in Nat \ {0} /\ MAX_PERSIST_ATTEMPTS \in Nat
      BY <1>1, IngressAssumption DEF IngressCalls
    <2>2. call[k].attempt + 1 \in 1..MAX_PERSIST_ATTEMPTS
      BY <1>2, <2>1 DEF canRetry
    <2>3. [call[k].retries EXCEPT ![kind] = @ + 1] \in [conversation : Nat, message : Nat]
      BY <1>1 DEF IngressCalls
    <2>4. x \in IngressCalls
      BY <1>1, <2>2, <2>3 DEF IngressCalls, Phases
    <2> QED
      BY <1>2, <2>4, GoesType DEF LoseRace
  <1>3. CASE ~canRetry(call[k], kind)
    <2>1. [call[k] EXCEPT !.phase = "failed"] \in IngressCalls
      BY <1>1 DEF IngressCalls, Phases
    <2> QED
      BY <1>3, <2>1, GoesType DEF LoseRace
  <1> QED
    BY <1>2, <1>3

(* What createMessage makes of a row that the transaction has prepared. *)
LEMMA CreateType ==
    ASSUME TypeOK, NEW k \in Calls, call[k].phase = "decided",
           NEW c \in Conversations, NEW row \in ConversationRows, createMessage(k, c, row)
    PROVE  /\ conv' \in [Conversations -> ConversationRows]
           /\ stored' \subseteq [event : Events \cup {None}, conv : Conversations, at : Times]
           /\ call' \in [Calls -> {Idle} \cup IngressCalls]
  <1>1. call[k] \in IngressCalls
    BY CallFields
  <1>2. CASE MessageIsFree(call[k].event)
    <2>1. advanceLastMessageAt(row, call[k].at) \in ConversationRows
      BY <1>1 DEF advanceLastMessageAt, ConversationRows, IngressCalls
    <2>2. conv' \in [Conversations -> ConversationRows]
      BY <1>2, <2>1 DEF createMessage, TypeOK, ConversationRows
    <2>3. stored' \subseteq [event : Events \cup {None}, conv : Conversations, at : Times]
      BY <1>1, <1>2 DEF createMessage, TypeOK, IngressCalls
    <2> QED
      BY <1>2, <2>2, <2>3, GoesType DEF createMessage, Ends
  <1>3. CASE ~MessageIsFree(call[k].event)
    <2>1. LoseRace(k, "message")
      BY <1>3 DEF createMessage
    <2>2. call' \in [Calls -> {Idle} \cup IngressCalls]
      BY <2>1, LoseRaceType
    <2> QED
      BY <2>1, <2>2 DEF LoseRace, TypeOK, ConversationRows
  <1> QED
    BY <1>2, <1>3

(* A lost attempt to insert goes back to the start, or fails. *)
LEMMA LoseContactType ==
    ASSUME TypeOK, NEW k \in Calls, call[k].phase = "insert", LoseContact(k)
    PROVE  call' \in [Calls -> {Idle} \cup IngressCalls]
  <1>1. call[k] \in IngressCalls
    BY CallFields
  <1>2. CASE CanResolveAgain(call[k])
    <2>1. call[k].attempt \in Nat \ {0} /\ MAX_RESOLVE_ATTEMPTS \in Nat
      BY <1>1, IngressAssumption DEF IngressCalls
    <2>2. call[k].attempt + 1 \in 1..MAX_RESOLVE_ATTEMPTS
      BY <1>2, <2>1 DEF CanResolveAgain
    <2>3. [call[k] EXCEPT !.phase = "received", !.contact = None, !.attempt = @ + 1] \in IngressCalls
      BY <1>1, <2>2 DEF IngressCalls, Phases
    <2> QED
      BY <1>2, <2>3, GoesType DEF LoseContact
  <1>3. CASE ~CanResolveAgain(call[k])
    <2>1. [call[k] EXCEPT !.phase = "failed", !.contact = None] \in IngressCalls
      BY <1>1 DEF IngressCalls, Phases
    <2> QED
      BY <1>3, <2>1, GoesType DEF LoseContact
  <1> QED
    BY <1>2, <1>3

LEMMA NextType ==
    ASSUME TypeOK, [Next]_vars
    PROVE  TypeOK'
  <1>1. ASSUME NEW k \in Calls, NEW e \in Events, Ingest(k, e)
        PROVE  TypeOK'
    <2> DEFINE x == [phase |-> "received", event |-> e, at |-> SentAt(e), contact |-> None,
                     conv |-> None, anchor |-> FALSE, attempt |-> 1, retries |-> NoRetries]
    <2>1. 1 \in 1..MAX_RESOLVE_ATTEMPTS
      BY IngressAssumption
    <2>2. x \in IngressCalls
      BY <2>1, SentAtType DEF IngressCalls, Phases, NoRetries
    <2>3. call' \in [Calls -> {Idle} \cup IngressCalls]
      BY <1>1, <2>2, GoesType DEF Ingest
    <2> QED
      BY <1>1, <2>3 DEF Ingest, db, TypeOK
  <1>2. ASSUME NEW k \in Calls, LookUpIdentity(k)
        PROVE  TypeOK'
    <2>1. call[k] \in IngressCalls
      BY <1>2, CallFields DEF LookUpIdentity, InPhase
    <2>2. identity[IdentityOf(call[k].event)] \in Contacts \cup {None} /\ 1 \in 1..MAX_RESOLVE_ATTEMPTS
      BY <2>1, IdentityOfType, IngressAssumption DEF TypeOK, IngressCalls
    <2>3. \A p \in Contacts \cup {None} :
             /\ [call[k] EXCEPT !.phase = "resolved", !.contact = p, !.attempt = 1] \in IngressCalls
             /\ [call[k] EXCEPT !.phase = "unknown"] \in IngressCalls
      BY <2>1, <2>2 DEF IngressCalls, Phases
    <2>4. call' \in [Calls -> {Idle} \cup IngressCalls]
      BY <1>2, <2>2, <2>3, GoesType DEF LookUpIdentity
    <2> QED
      BY <1>2, <2>4 DEF LookUpIdentity, db, TypeOK
  <1>3. ASSUME NEW k \in Calls, LookUpPhone(k)
        PROVE  TypeOK'
    <2>1. call[k] \in IngressCalls
      BY <1>3, CallFields DEF LookUpPhone, InPhase
    <2>2. \A p \in Contacts \cup {None} :
             [call[k] EXCEPT !.phase = "insert", !.contact = p] \in IngressCalls
      BY <2>1 DEF IngressCalls, Phases
    <2>3. call' \in [Calls -> {Idle} \cup IngressCalls]
      BY <1>3, <2>2, GoesType DEF LookUpPhone, WithPhone
    <2> QED
      BY <1>3, <2>3 DEF LookUpPhone, db, TypeOK
  <1>4. ASSUME NEW k \in Calls, InsertIdentity(k)
        PROVE  TypeOK'
    <2> DEFINE x == call[k]
               i == IdentityOf(x.event)
    <2>1. x \in IngressCalls /\ x.phase = "insert"
      BY <1>4, CallFields DEF InsertIdentity, InPhase
    <2>2. i \in Identities /\ x.event.phone \in {e.phone : e \in Events}
      BY <2>1, IdentityOfType DEF IngressCalls
    <2>3. PICK p \in Contacts :
             \/ LoseContact(k) /\ UNCHANGED <<contact, identity>>
             \/ /\ \/ UNCHANGED contact
                   \/ contact' = [contact EXCEPT ![p] = [exists |-> TRUE, phone |-> x.event.phone]]
                /\ identity' = [identity EXCEPT ![i] = p]
                /\ Goes(k, [x EXCEPT !.phase = "resolved", !.contact = p, !.attempt = 1])
      <3>1. CASE x.contact = None
        BY <1>4, <3>1 DEF InsertIdentity, Kept
      <3>2. CASE x.contact # None
        <4>1. x.contact \in Contacts
          BY <2>1, <3>2 DEF IngressCalls
        <4>2. [contact EXCEPT ![x.contact] = @] = contact
          BY <4>1 DEF TypeOK
        <4> QED
          BY <1>4, <3>2, <4>1, <4>2 DEF InsertIdentity
      <3> QED
        BY <3>1, <3>2
    <2>4. CASE LoseContact(k) /\ UNCHANGED <<contact, identity>>
      BY <1>4, <2>1, <2>4, LoseContactType DEF InsertIdentity, TypeOK
    <2>5. CASE ~(LoseContact(k) /\ UNCHANGED <<contact, identity>>)
      <3>1. 1 \in 1..MAX_RESOLVE_ATTEMPTS
        BY IngressAssumption
      <3>2. [x EXCEPT !.phase = "resolved", !.contact = p, !.attempt = 1] \in IngressCalls
        BY <2>1, <3>1 DEF IngressCalls, Phases
      <3>3. call' \in [Calls -> {Idle} \cup IngressCalls]
        BY <2>3, <2>5, <3>2, GoesType
      <3>4. identity' \in [Identities -> Contacts \cup {None}]
        BY <2>2, <2>3, <2>5 DEF TypeOK
      <3>5. contact' \in [Contacts -> [exists : BOOLEAN, phone : {e.phone : e \in Events} \cup {None}]]
        <4>1. [exists |-> TRUE, phone |-> x.event.phone]
                \in [exists : BOOLEAN, phone : {e.phone : e \in Events} \cup {None}]
          BY <2>2
        <4> QED
          BY <2>3, <2>5, <4>1 DEF TypeOK
      <3> QED
        BY <1>4, <3>3, <3>4, <3>5 DEF InsertIdentity, TypeOK
    <2> QED
      BY <2>4, <2>5
  <1>5. ASSUME NEW k \in Calls, Recheck(k)
        PROVE  TypeOK'
    <2>1. call[k] \in IngressCalls
      BY <1>5, CallFields DEF Recheck, InPhase
    <2>2. [call[k] EXCEPT !.phase = "checked"] \in IngressCalls
      BY <2>1 DEF IngressCalls, Phases
    <2>3. call' \in [Calls -> {Idle} \cup IngressCalls]
      BY <1>5, <2>2, GoesType DEF Recheck, Ends
    <2> QED
      BY <1>5, <2>3 DEF Recheck, db, TypeOK
  <1>6. ASSUME NEW k \in Calls, FindByThread(k)
        PROVE  TypeOK'
    <2>1. call[k] \in IngressCalls
      BY <1>6, CallFields DEF FindByThread, InPhase
    <2>2. /\ [call[k] EXCEPT !.phase = "noThread"] \in IngressCalls
          /\ \A c \in Conversations :
               [call[k] EXCEPT !.phase = "decided", !.conv = c, !.anchor = FALSE] \in IngressCalls
      BY <2>1 DEF IngressCalls, Phases
    <2>3. call' \in [Calls -> {Idle} \cup IngressCalls]
      BY <1>6, <2>2, GoesType DEF FindByThread, OfThread, Ends
    <2> QED
      BY <1>6, <2>3 DEF FindByThread, db, TypeOK
  <1>7. ASSUME NEW k \in Calls, FindOpen(k)
        PROVE  TypeOK'
    <2>1. call[k] \in IngressCalls
      BY <1>7, CallFields DEF FindOpen, InPhase
    <2>2. \A c \in Conversations \cup {None}, anchor \in BOOLEAN :
             [call[k] EXCEPT !.phase = "decided", !.conv = c, !.anchor = anchor] \in IngressCalls
      BY <2>1 DEF IngressCalls, Phases
    <2>3. \E c \in Conversations \cup {None}, anchor \in BOOLEAN :
             Goes(k, [call[k] EXCEPT !.phase = "decided", !.conv = c, !.anchor = anchor])
      BY <1>7 DEF FindOpen, OpenOf
    <2>4. call' \in [Calls -> {Idle} \cup IngressCalls]
      BY <2>2, <2>3, GoesType
    <2> QED
      BY <1>7, <2>4 DEF FindOpen, db, TypeOK
  <1>8. ASSUME NEW k \in Calls, Persist(k)
        PROVE  TypeOK'
    <2> DEFINE x == call[k]
               created == [state |-> "OPEN", contact |-> x.contact, channel |-> x.event.channel,
                           thread |-> x.event.thread, last |-> 0]
               anchored == [conv[x.conv] EXCEPT !.thread = x.event.thread]
    <2>1. x \in IngressCalls /\ x.phase = "decided"
      BY <1>8, CallFields DEF Persist, InPhase
    <2>2. created \in ConversationRows
      <3>1. 0 \in Times
        BY IngressAssumption DEF Times
      <3> QED
        BY <2>1, <3>1 DEF ConversationRows, IngressCalls, Channels
    <2>3. x.conv # None => conv[x.conv] \in ConversationRows /\ anchored \in ConversationRows
      <3> SUFFICES ASSUME x.conv # None
                   PROVE  conv[x.conv] \in ConversationRows /\ anchored \in ConversationRows
        OBVIOUS
      <3>1. x.conv \in Conversations /\ x.event.thread \in {e.thread : e \in Events}
        BY <2>1 DEF IngressCalls
      <3>2. conv[x.conv] \in ConversationRows
        BY <3>1 DEF TypeOK, ConversationRows
      <3> QED
        BY <3>1, <3>2 DEF ConversationRows
    <2>4. \/ \E c \in Conversations, row \in ConversationRows : createMessage(k, c, row)
          \/ LoseRace(k, "conversation")
      <3>1. CASE x.conv = None
        BY <1>8, <2>2, <3>1 DEF Persist
      <3>2. CASE x.conv # None
        <4>1. x.conv \in Conversations
          BY <2>1, <3>2 DEF IngressCalls
        <4> QED
          BY <1>8, <2>3, <3>2, <4>1 DEF Persist
      <3> QED
        BY <3>1, <3>2
    <2>5. /\ conv' \in [Conversations -> ConversationRows]
          /\ stored' \subseteq [event : Events \cup {None}, conv : Conversations, at : Times]
          /\ call' \in [Calls -> {Idle} \cup IngressCalls]
      <3>1. CASE LoseRace(k, "conversation")
        <4>1. call' \in [Calls -> {Idle} \cup IngressCalls]
          BY <2>1, <3>1, LoseRaceType
        <4> QED
          BY <3>1, <4>1 DEF LoseRace, TypeOK, ConversationRows
      <3> QED
        BY <2>1, <2>4, <3>1, CreateType
    <2> QED
      BY <1>8, <2>5 DEF Persist, TypeOK, ConversationRows
  <1>9. ASSUME NEW k \in Calls, Abandon(k)
        PROVE  TypeOK'
    <2>1. call' \in [Calls -> {Idle} \cup IngressCalls]
      BY <1>9, GoesType DEF Abandon, Ends
    <2> QED
      BY <1>9, <2>1 DEF Abandon, db, TypeOK
  <1>10. ASSUME NEW a \in Agents, NEW c \in Conversations, DecideSend(a, c)
         PROVE  TypeOK'
    BY <1>10 DEF DecideSend, db, TypeOK
  <1>11. ASSUME NEW a \in Agents, CommitSend(a)
         PROVE  TypeOK'
    <2>1. send[a].conv \in Conversations /\ send[a].at \in Times
      BY <1>11 DEF CommitSend, TypeOK
    <2>2. stored' \subseteq [event : Events \cup {None}, conv : Conversations, at : Times]
      BY <1>11, <2>1 DEF CommitSend, TypeOK
    <2>3. conv' \in [Conversations -> ConversationRows]
      BY <1>11, <2>1 DEF CommitSend, TypeOK, ConversationRows
    <2>4. send' \in [Agents -> {NoSend} \cup [conv : Conversations, at : Times]]
      BY <1>11 DEF CommitSend, TypeOK
    <2> QED
      BY <1>11, <2>2, <2>3, <2>4 DEF CommitSend, TypeOK, ConversationRows
  <1>12. ASSUME NEW c \in Conversations, changeState(c)
         PROVE  TypeOK'
    <2>1. conv \in [Conversations -> ConversationRows]
      BY DEF TypeOK, ConversationRows
    <2>2. \A state \in {"OPEN", "ENCERRADA"} : [conv[c] EXCEPT !.state = state] \in ConversationRows
      BY <2>1 DEF ConversationRows
    <2>3. conv' \in [Conversations -> ConversationRows]
      BY <1>12, <2>1, <2>2 DEF changeState
    <2> QED
      BY <1>12, <2>3 DEF changeState, TypeOK, ConversationRows
  <1>13. CASE Tick
    <2>1. clock' \in Times
      BY <1>13, IngressAssumption DEF Tick, TypeOK, Times
    <2> QED
      BY <1>13, <2>1 DEF Tick, db, TypeOK
  <1>14. CASE UNCHANGED vars
    BY <1>14 DEF vars, db, TypeOK
  <1> QED
    BY <1>1, <1>2, <1>3, <1>4, <1>5, <1>6, <1>7, <1>8, <1>9, <1>10, <1>11, <1>12, <1>13, <1>14
    DEF Next

-----------------------------------------------------------------------------
(* What a step does *)

(* The message is stored in a conversation that is new, and the contact's, or that the *)
(* call has found, whose owner does not change and whose time only grows.              *)
LEMMA PersistEffect ==
    ASSUME TypeOK, NEW k \in Calls, Persist(k)
    PROVE  \/ /\ \E kind \in {"conversation", "message"} : LoseRace(k, kind)
              /\ UNCHANGED <<conv, stored>>
           \/ \E c \in Conversations :
                /\ Ends(k) /\ ~FindProcessed(call[k].event)
                /\ stored' = stored \cup {[event |-> call[k].event, conv |-> c, at |-> call[k].at]}
                /\ \A d \in Conversations \ {c} : conv'[d] = conv[d]
                /\ \/ /\ call[k].conv = None /\ conv[c].state = "ABSENT" /\ conv'[c].state = "OPEN"
                      /\ conv'[c].contact = call[k].contact
                      /\ conv'[c].channel = call[k].event.channel
                      /\ conv'[c].last = IF call[k].at > 0 THEN call[k].at ELSE 0
                   \/ /\ call[k].conv = c /\ conv'[c].state = conv[c].state
                      /\ conv'[c].contact = conv[c].contact /\ conv'[c].channel = conv[c].channel
                      /\ conv[c].thread # None => conv'[c].thread = conv[c].thread
                      /\ conv'[c].last = IF call[k].at > conv[c].last THEN call[k].at
                                         ELSE conv[c].last
  <1> DEFINE x == call[k]
             created == [state |-> "OPEN", contact |-> x.contact, channel |-> x.event.channel,
                         thread |-> x.event.thread, last |-> 0]
             anchored == [conv[x.conv] EXCEPT !.thread = x.event.thread]
  <1>1. x \in IngressCalls
    BY CallFields DEF Persist, InPhase
  <1>2. \/ LoseRace(k, "conversation")
        \/ \E c \in Conversations :
             \/ x.conv = None /\ conv[c].state = "ABSENT" /\ createMessage(k, c, created)
             \/ x.conv = c /\ createMessage(k, c, conv[c])
             \/ x.conv = c /\ conv[c].thread = None /\ createMessage(k, c, anchored)
    <2>1. CASE x.conv = None
      BY <2>1 DEF Persist
    <2>2. CASE x.conv # None
      <3>1. x.conv \in Conversations
        BY <1>1, <2>2 DEF IngressCalls
      <3> QED
        BY <2>2, <3>1 DEF Persist, Anchors
    <2> QED
      BY <2>1, <2>2
  <1>3. CASE LoseRace(k, "conversation")
    BY <1>3 DEF LoseRace
  <1>4. CASE LoseRace(k, "message")
    BY <1>4 DEF LoseRace
  <1>5. CASE ~LoseRace(k, "message") /\ ~LoseRace(k, "conversation")
    <2>1. PICK c \in Conversations :
             \/ x.conv = None /\ conv[c].state = "ABSENT" /\ createMessage(k, c, created)
             \/ x.conv = c /\ createMessage(k, c, conv[c])
             \/ x.conv = c /\ conv[c].thread = None /\ createMessage(k, c, anchored)
      BY <1>2, <1>5
    <2>2. ASSUME NEW row, createMessage(k, c, row)
          PROVE  /\ Ends(k) /\ ~FindProcessed(x.event)
                 /\ stored' = stored \cup {[event |-> x.event, conv |-> c, at |-> x.at]}
                 /\ conv'[c] = advanceLastMessageAt(row, x.at)
                 /\ \A d \in Conversations \ {c} : conv'[d] = conv[d]
      BY <1>5, <2>2 DEF createMessage, MessageIsFree, TypeOK
    <2>3. conv[c] \in ConversationRows
      BY DEF TypeOK, ConversationRows
    <2>4. CASE x.conv = None /\ conv[c].state = "ABSENT" /\ createMessage(k, c, created)
      <3>1. conv'[c] = advanceLastMessageAt(created, x.at)
        BY <2>2, <2>4
      <3>2. /\ conv'[c].state = "OPEN" /\ conv'[c].contact = x.contact
            /\ conv'[c].channel = x.event.channel /\ conv'[c].last = IF x.at > 0 THEN x.at ELSE 0
        BY <3>1 DEF advanceLastMessageAt
      <3> QED
        BY <2>2, <2>4, <3>2
    <2>5. CASE x.conv = c /\ createMessage(k, c, conv[c])
      <3>1. conv'[c] = advanceLastMessageAt(conv[c], x.at)
        BY <2>2, <2>5
      <3>2. /\ conv'[c].state = conv[c].state /\ conv'[c].contact = conv[c].contact
            /\ conv'[c].channel = conv[c].channel /\ conv'[c].thread = conv[c].thread
            /\ conv'[c].last = IF x.at > conv[c].last THEN x.at ELSE conv[c].last
        BY <2>3, <3>1 DEF advanceLastMessageAt, ConversationRows
      <3> QED
        BY <2>2, <2>5, <3>2
    <2>6. CASE x.conv = c /\ conv[c].thread = None /\ createMessage(k, c, anchored)
      <3>1. conv'[c] = advanceLastMessageAt(anchored, x.at)
        BY <2>2, <2>6
      <3>2. /\ conv'[c].state = conv[c].state /\ conv'[c].contact = conv[c].contact
            /\ conv'[c].channel = conv[c].channel
            /\ conv'[c].last = IF x.at > conv[c].last THEN x.at ELSE conv[c].last
        BY <2>3, <2>6, <3>1 DEF advanceLastMessageAt, ConversationRows
      <3> QED
        BY <2>2, <2>6, <3>2
    <2> QED
      BY <2>1, <2>4, <2>5, <2>6
  <1> QED
    BY <1>3, <1>4, <1>5

(* What InsertIdentity does when it does not lose: the contact is there before, or new. *)
LEMMA InsertEffect ==
    ASSUME TypeOK, NEW k \in Calls, InsertIdentity(k)
    PROVE  \/ /\ LoseContact(k) /\ UNCHANGED <<contact, identity>>
              /\ \/ IsKnown(call[k].event)
                 \/ call[k].contact = None /\ PhoneIsTaken(call[k].event)
           \/ \E p \in Contacts :
                /\ identity[IdentityOf(call[k].event)] = None
                /\ identity' = [identity EXCEPT ![IdentityOf(call[k].event)] = p]
                /\ Goes(k, [call[k] EXCEPT !.phase = "resolved", !.contact = p, !.attempt = 1])
                /\ \A q \in Contacts \ {p} : contact'[q] = contact[q]
                /\ contact[p].exists => contact'[p] = contact[p]
  <1>1. call[k] \in IngressCalls
    BY CallFields DEF InsertIdentity, InPhase
  <1>2. CASE call[k].contact = None
    BY <1>2 DEF InsertIdentity, Kept, IsKnown, PhoneIsTaken, TypeOK
  <1>3. CASE call[k].contact # None
    <2>1. call[k].contact \in Contacts
      BY <1>1, <1>3 DEF IngressCalls
    <2> QED
      BY <1>3, <2>1 DEF InsertIdentity, IsKnown, TypeOK
  <1> QED
    BY <1>2, <1>3

(* An identity is never moved, and a contact keeps its phone. *)
LEMMA ContactsStay ==
    ASSUME TypeOK, [Next]_vars
    PROVE  /\ \A i \in Identities : identity[i] # None => identity'[i] = identity[i]
           /\ \A p \in Contacts : contact[p].exists => contact'[p] = contact[p]
  <1>1. ASSUME NEW k \in Calls, InsertIdentity(k)
        PROVE  /\ \A i \in Identities : identity[i] # None => identity'[i] = identity[i]
               /\ \A p \in Contacts : contact[p].exists => contact'[p] = contact[p]
    BY <1>1, InsertEffect DEF TypeOK
  <1>2. CASE \A k \in Calls : ~InsertIdentity(k)
    <2>1. UNCHANGED <<contact, identity>>
      BY <1>2 DEF Next, vars, db, Ingest, LookUpIdentity, LookUpPhone, Recheck, FindByThread,
                  FindOpen, Persist, Abandon, DecideSend, CommitSend, changeState, Tick
    <2> QED
      BY <2>1
  <1> QED
    BY <1>1, <1>2

(* A conversation that is there stays, its contact's and its channel's, and keeps the *)
(* anchor it has.                                                                     *)
LEMMA ConversationsStay ==
    ASSUME TypeOK, [Next]_vars, NEW c \in Conversations, conv[c].state # "ABSENT"
    PROVE  /\ conv'[c].state # "ABSENT"
           /\ conv'[c].contact = conv[c].contact /\ conv'[c].channel = conv[c].channel
           /\ conv[c].thread # None => conv'[c].thread = conv[c].thread
  <1>1. ASSUME NEW k \in Calls, Persist(k)
        PROVE  /\ conv'[c].state # "ABSENT"
               /\ conv'[c].contact = conv[c].contact /\ conv'[c].channel = conv[c].channel
               /\ conv[c].thread # None => conv'[c].thread = conv[c].thread
    BY <1>1, PersistEffect
  <1>2. ASSUME NEW a \in Agents, CommitSend(a)
        PROVE  /\ conv'[c].state = conv[c].state /\ conv'[c].thread = conv[c].thread
               /\ conv'[c].contact = conv[c].contact /\ conv'[c].channel = conv[c].channel
    BY <1>2 DEF CommitSend, TypeOK
  <1>3. ASSUME NEW d \in Conversations, changeState(d)
        PROVE  /\ conv'[c].state # "ABSENT" /\ conv'[c].thread = conv[c].thread
               /\ conv'[c].contact = conv[c].contact /\ conv'[c].channel = conv[c].channel
    BY <1>3 DEF changeState, TypeOK
  <1>4. CASE /\ \A k \in Calls : ~Persist(k)
             /\ \A a \in Agents : ~CommitSend(a)
             /\ \A d \in Conversations : ~changeState(d)
    <2>1. UNCHANGED conv
      BY <1>4 DEF Next, vars, db, Ingest, LookUpIdentity, LookUpPhone, InsertIdentity, Recheck,
                  FindByThread, FindOpen, Abandon, DecideSend, Tick
    <2> QED
      BY <2>1
  <1> QED
    BY <1>1, <1>2, <1>3, <1>4

-----------------------------------------------------------------------------
(* The invariant *)

LEMMA CallsAreListed ==
    ASSUME TypeOK
    PROVE  call = [k \in Calls |-> call[k]]
  BY DEF TypeOK

LEMMA InitInv ==
    ASSUME Init
    PROVE  IngressInv
  <1>1. stored = {} /\ \A c \in Conversations : conv[c].state = "ABSENT"
    BY DEF Init, NoConv
  <1>2. ConversationsExist
    BY <1>1 DEF Init, ConversationsExist
  <1>3. NoOrphanContact
    BY DEF Init, NoContact, NoOrphanContact
  <1>4. \A k \in Calls : IsWellInformed(k) /\ LosesLess(k)
    BY DEF Init, Idle, IsWellInformed, LosesLess
  <1> QED
    BY <1>1, <1>2, <1>3, <1>4 DEF IngressInv, MessageOfItsContact, StoredOnce, LastIsNewestInbound

(* What is known of an event stays known. *)
LEMMA KnownStays ==
    ASSUME TypeOK, [Next]_vars, NEW e \in Events
    PROVE  /\ IsKnown(e) => identity'[IdentityOf(e)] = identity[IdentityOf(e)] /\ IsKnown(e)'
           /\ PhoneIsTaken(e) => PhoneIsTaken(e)'
  <1>1. IdentityOf(e) \in Identities
    BY IdentityOfType
  <1>2. IsKnown(e) => identity'[IdentityOf(e)] = identity[IdentityOf(e)] /\ IsKnown(e)'
    BY <1>1, ContactsStay DEF IsKnown, IdentityOf
  <1>3. PhoneIsTaken(e) => PhoneIsTaken(e)'
    BY ContactsStay DEF PhoneIsTaken, WithPhone
  <1> QED
    BY <1>2, <1>3

(* So a call that does nothing keeps what it knows. *)
LEMMA OthersStay ==
    ASSUME TypeOK, [Next]_vars, NEW q \in Calls, IsWellInformed(q), LosesLess(q), call'[q] = call[q]
    PROVE  IsWellInformed(q)' /\ LosesLess(q)'
  <1>1. CASE call[q].phase = "idle"
    BY <1>1 DEF IsWellInformed, LosesLess
  <1>2. CASE call[q].phase # "idle"
    <2>1. call[q] \in IngressCalls
      BY <1>2, CallFields
    <2>2. call[q].event \in Events /\ (call[q].conv # None => call[q].conv \in Conversations)
      BY <2>1 DEF IngressCalls
    <2>3. LosesLess(q)'
      BY <2>2, KnownStays DEF LosesLess
    <2>4. IsWellInformed(q)'
      <3>1. call[q].phase \in {"resolved", "checked", "noThread", "decided"} =>
              identity'[IdentityOf(call[q].event)] = call[q].contact
        BY <2>2, KnownStays DEF IsWellInformed, IsKnown
      <3>2. call[q].phase = "decided" /\ call[q].conv # None =>
              /\ conv'[call[q].conv].state # "ABSENT"
              /\ conv'[call[q].conv].contact = call[q].contact
              /\ conv'[call[q].conv].channel = call[q].event.channel
        BY <2>2, ConversationsStay DEF IsWellInformed
      <3> QED
        BY <3>1, <3>2 DEF IsWellInformed, IdentityOf
    <2> QED
      BY <2>3, <2>4
  <1> QED
    BY <1>1, <1>2

(* A call that takes a step knows what it needs for the next. *)
LEMMA CallsInv ==
    ASSUME TypeOK, IngressInv, [Next]_vars
    PROVE  (\A k \in Calls : IsWellInformed(k) /\ LosesLess(k))'
  <1>1. ASSUME NEW k \in Calls, NEW x, Goes(k, x), IsWellInformed(k)' /\ LosesLess(k)'
        PROVE  (\A q \in Calls : IsWellInformed(q) /\ LosesLess(q))'
    <2>1. \A q \in Calls \ {k} : call'[q] = call[q]
      BY <1>1, GoesCalls
    <2> QED
      BY <1>1, <2>1, OthersStay DEF IngressInv
  <1>2. ASSUME NEW k \in Calls, Ends(k)
        PROVE  IsWellInformed(k)' /\ LosesLess(k)'
    <2>1. call'[k].phase = "idle"
      BY <1>2, GoesCalls DEF Ends, Idle
    <2> QED
      BY <2>1 DEF IsWellInformed, LosesLess
  <1>3. ASSUME UNCHANGED call
        PROVE  (\A q \in Calls : IsWellInformed(q) /\ LosesLess(q))'
    BY <1>3, OthersStay DEF IngressInv
  <1>4. \A k \in Calls : IsWellInformed(k) /\ LosesLess(k)
    BY DEF IngressInv
  <1>5. ASSUME NEW k \in Calls, NEW e \in Events, Ingest(k, e)
        PROVE  (\A q \in Calls : IsWellInformed(q) /\ LosesLess(q))'
    <2>1. call'[k].phase = "received" /\ call'[k].attempt = 1
      BY <1>5, GoesCalls DEF Ingest
    <2>2. IsWellInformed(k)' /\ LosesLess(k)'
      BY <2>1 DEF IsWellInformed, LosesLess
    <2> QED
      BY <1>1, <1>5, <2>2 DEF Ingest
  <1>6. ASSUME NEW k \in Calls, LookUpIdentity(k)
        PROVE  (\A q \in Calls : IsWellInformed(q) /\ LosesLess(q))'
    <2> DEFINE p == identity[IdentityOf(call[k].event)]
    <2>1. call[k] \in IngressCalls /\ call[k].phase = "received" /\ UNCHANGED <<identity, contact>>
      BY <1>6, CallFields DEF LookUpIdentity, InPhase, db
    <2>2. CASE p # None
      <3>1. /\ call'[k].phase = "resolved" /\ call'[k].contact = p
            /\ call'[k].event = call[k].event
        BY <1>6, <2>1, <2>2, CallsAreListed DEF Goes, LookUpIdentity, IngressCalls
      <3>2. IsWellInformed(k)' /\ LosesLess(k)'
        BY <2>1, <2>2, <3>1 DEF IsWellInformed, LosesLess, IdentityOf
      <3> QED
        BY <1>1, <1>6, <2>2, <3>2 DEF LookUpIdentity
    <2>3. CASE p = None
      <3>1. /\ call'[k].phase = "unknown" /\ call'[k].attempt = call[k].attempt
            /\ call'[k].event = call[k].event
        BY <1>6, <2>1, <2>3, GoesCalls DEF LookUpIdentity, IngressCalls
      <3>2. IsWellInformed(k)' /\ LosesLess(k)'
        BY <1>4, <2>1, <2>3, <3>1 DEF IsWellInformed, LosesLess, IsKnown, PhoneIsTaken, WithPhone, IdentityOf
      <3> QED
        BY <1>1, <1>6, <2>3, <3>2 DEF LookUpIdentity
    <2> QED
      BY <2>2, <2>3
  <1>7. ASSUME NEW k \in Calls, LookUpPhone(k)
        PROVE  (\A q \in Calls : IsWellInformed(q) /\ LosesLess(q))'
    <2>1. call[k] \in IngressCalls /\ call[k].phase = "unknown" /\ UNCHANGED <<identity, contact>>
      BY <1>7, CallFields DEF LookUpPhone, InPhase, db
    <2>2. PICK p \in Contacts \cup {None} :
            /\ Goes(k, [call[k] EXCEPT !.phase = "insert", !.contact = p])
            /\ PhoneIsTaken(call[k].event) => p \in Contacts
      BY <1>7 DEF LookUpPhone, WithPhone, PhoneIsTaken
    <2>3. /\ call'[k].phase = "insert" /\ call'[k].attempt = call[k].attempt
          /\ call'[k].event = call[k].event /\ call'[k].contact = p
      BY <2>1, <2>2, CallsAreListed DEF Goes, IngressCalls
    <2>4. IsWellInformed(k)' /\ LosesLess(k)'
      BY <1>4, <2>1, <2>2, <2>3, IngressAssumption DEF IsWellInformed, LosesLess, IsKnown, IdentityOf
    <2> QED
      BY <1>1, <2>2, <2>4
  <1>8. ASSUME NEW k \in Calls, InsertIdentity(k)
        PROVE  (\A q \in Calls : IsWellInformed(q) /\ LosesLess(q))'
    <2>1. call[k] \in IngressCalls /\ call[k].phase = "insert"
      BY <1>8, CallFields DEF InsertIdentity, InPhase
    <2>2. IdentityOf(call[k].event) \in Identities /\ call[k].attempt \in Nat \ {0}
      BY <2>1, IdentityOfType, IngressAssumption DEF IngressCalls
    <2>3. CASE /\ LoseContact(k) /\ UNCHANGED <<contact, identity>>
               /\ \/ IsKnown(call[k].event)
                  \/ call[k].contact = None /\ PhoneIsTaken(call[k].event)
      <3>1. call[k].attempt \in {1, 2} /\ (call[k].attempt = 2 => IsKnown(call[k].event))
        BY <1>4, <2>1, <2>2, <2>3 DEF LosesLess
      <3>2. CASE CanResolveAgain(call[k])
        <4>1. /\ call'[k].phase = "received" /\ call'[k].attempt = call[k].attempt + 1
              /\ call'[k].event = call[k].event
          BY <2>1, <2>3, <3>2, CallsAreListed DEF Goes, LoseContact, IngressCalls
        <4>2. IsWellInformed(k)' /\ LosesLess(k)'
          BY <2>3, <3>1, <4>1 DEF IsWellInformed, LosesLess, IsKnown, PhoneIsTaken, WithPhone, IdentityOf
        <4> QED
          BY <1>1, <2>3, <3>2, <4>2 DEF LoseContact
      <3>3. CASE ~CanResolveAgain(call[k])
        <4>1. call'[k].phase = "failed"
          BY <2>1, <2>3, <3>3, CallsAreListed DEF Goes, LoseContact, IngressCalls
        <4>2. MAX_RESOLVE_ATTEMPTS < 3
          BY <3>1, <3>3, IngressAssumption DEF CanResolveAgain
        <4>3. IsWellInformed(k)' /\ LosesLess(k)'
          BY <4>1, <4>2 DEF IsWellInformed, LosesLess
        <4> QED
          BY <1>1, <2>3, <3>3, <4>3 DEF LoseContact
      <3> QED
        BY <3>2, <3>3
    <2>4. CASE \E p \in Contacts :
                 /\ identity' = [identity EXCEPT ![IdentityOf(call[k].event)] = p]
                 /\ Goes(k, [call[k] EXCEPT !.phase = "resolved", !.contact = p, !.attempt = 1])
      <3>1. PICK p \in Contacts :
              /\ identity' = [identity EXCEPT ![IdentityOf(call[k].event)] = p]
              /\ Goes(k, [call[k] EXCEPT !.phase = "resolved", !.contact = p, !.attempt = 1])
        BY <2>4
      <3>2. call'[k].phase = "resolved" /\ call'[k].contact = p /\ call'[k].event = call[k].event
        BY <2>1, <3>1, CallsAreListed DEF Goes, IngressCalls
      <3>3. identity'[IdentityOf(call[k].event)] = p /\ p # None
        BY <2>2, <3>1, IngressAssumption DEF TypeOK
      <3>4. IsWellInformed(k)' /\ LosesLess(k)'
        BY <3>2, <3>3 DEF IsWellInformed, LosesLess, IdentityOf
      <3> QED
        BY <1>1, <3>1, <3>4
    <2> QED
      BY <1>8, <2>3, <2>4, InsertEffect
  <1>9. ASSUME NEW k \in Calls, Recheck(k)
        PROVE  (\A q \in Calls : IsWellInformed(q) /\ LosesLess(q))'
    <2>1. call[k] \in IngressCalls /\ call[k].phase = "resolved" /\ UNCHANGED identity
      BY <1>9, CallFields DEF Recheck, InPhase, db
    <2>2. CASE Ends(k)
      BY <1>1, <1>2, <2>2 DEF Ends
    <2>3. CASE Goes(k, [call[k] EXCEPT !.phase = "checked"])
      <3>1. /\ call'[k].phase = "checked" /\ call'[k].contact = call[k].contact
            /\ call'[k].event = call[k].event
        BY <2>1, <2>3, GoesCalls DEF IngressCalls
      <3>2. IsWellInformed(k)' /\ LosesLess(k)'
        BY <1>4, <2>1, <3>1 DEF IsWellInformed, LosesLess, IdentityOf
      <3> QED
        BY <1>1, <2>3, <3>2
    <2> QED
      BY <1>9, <2>2, <2>3 DEF Recheck
  <1>10. ASSUME NEW k \in Calls, FindByThread(k)
         PROVE  (\A q \in Calls : IsWellInformed(q) /\ LosesLess(q))'
    <2>1. call[k] \in IngressCalls /\ call[k].phase = "checked" /\ UNCHANGED <<identity, conv>>
      BY <1>10, CallFields DEF FindByThread, InPhase, db
    <2>2. CASE Ends(k)
      BY <1>1, <1>2, <2>2 DEF Ends
    <2>3. CASE Goes(k, [call[k] EXCEPT !.phase = "noThread"])
      <3>1. /\ call'[k].phase = "noThread" /\ call'[k].contact = call[k].contact
            /\ call'[k].event = call[k].event
        BY <2>1, <2>3, GoesCalls DEF IngressCalls
      <3>2. IsWellInformed(k)' /\ LosesLess(k)'
        BY <1>4, <2>1, <3>1 DEF IsWellInformed, LosesLess, IdentityOf
      <3> QED
        BY <1>1, <2>3, <3>2
    <2>4. ASSUME NEW c \in OfThread(call[k].event), ~RefusesThread(c, call[k]),
                 Goes(k, [call[k] EXCEPT !.phase = "decided", !.conv = c, !.anchor = FALSE])
          PROVE  (\A q \in Calls : IsWellInformed(q) /\ LosesLess(q))'
      <3>1. /\ call'[k].phase = "decided" /\ call'[k].contact = call[k].contact
            /\ call'[k].event = call[k].event /\ call'[k].conv = c
        BY <2>1, <2>4, CallsAreListed DEF Goes, IngressCalls
      <3>2. conv[c].state = "OPEN" /\ conv[c].channel = call[k].event.channel
            /\ conv[c].contact = call[k].contact
        BY <2>4 DEF OfThread, RefusesThread, IsOpen
      <3>3. IsWellInformed(k)' /\ LosesLess(k)'
        BY <1>4, <2>1, <3>1, <3>2 DEF IsWellInformed, LosesLess, IdentityOf
      <3> QED
        BY <1>1, <2>4, <3>3
    <2> QED
      BY <1>10, <2>2, <2>3, <2>4 DEF FindByThread
  <1>11. ASSUME NEW k \in Calls, FindOpen(k)
         PROVE  (\A q \in Calls : IsWellInformed(q) /\ LosesLess(q))'
    <2>1. call[k] \in IngressCalls /\ call[k].phase = "noThread" /\ UNCHANGED <<identity, conv>>
      BY <1>11, CallFields DEF FindOpen, InPhase, db
    <2>2. PICK c \in Conversations \cup {None}, anchor \in BOOLEAN :
            /\ Goes(k, [call[k] EXCEPT !.phase = "decided", !.conv = c, !.anchor = anchor])
            /\ c # None => c \in OpenOf(call[k].contact, call[k].event.channel)
      BY <1>11 DEF FindOpen, OpenOf
    <2>3. /\ call'[k].phase = "decided" /\ call'[k].contact = call[k].contact
          /\ call'[k].event = call[k].event /\ call'[k].conv = c
      BY <2>1, <2>2, CallsAreListed DEF Goes, IngressCalls
    <2>4. c # None => /\ conv[c].state = "OPEN" /\ conv[c].channel = call[k].event.channel
                      /\ conv[c].contact = call[k].contact
      BY <2>2 DEF OpenOf, IsOpen
    <2>5. IsWellInformed(k)' /\ LosesLess(k)'
      BY <1>4, <2>1, <2>3, <2>4 DEF IsWellInformed, LosesLess, IdentityOf
    <2> QED
      BY <1>1, <2>2, <2>5
  <1>12. ASSUME NEW k \in Calls, Persist(k)
         PROVE  (\A q \in Calls : IsWellInformed(q) /\ LosesLess(q))'
    <2>1. call[k] \in IngressCalls /\ call[k].phase = "decided" /\ UNCHANGED identity
      BY <1>12, CallFields DEF Persist, InPhase
    <2>2. CASE Ends(k)
      BY <1>1, <1>2, <2>2 DEF Ends
    <2>3. ASSUME NEW kind \in {"conversation", "message"}, LoseRace(k, kind)
          PROVE  (\A q \in Calls : IsWellInformed(q) /\ LosesLess(q))'
      <3>1. /\ call'[k].phase \in {"resolved", "failed"} /\ call'[k].contact = call[k].contact
            /\ call'[k].event = call[k].event
        BY <2>1, <2>3, CallsAreListed DEF Goes, LoseRace, IngressCalls
      <3>2. IsWellInformed(k)' /\ LosesLess(k)'
        BY <1>4, <2>1, <3>1 DEF IsWellInformed, LosesLess, IdentityOf
      <3> QED
        BY <1>1, <2>3, <3>2 DEF LoseRace
    <2> QED
      BY <1>12, <2>2, <2>3, PersistEffect
  <1>13. ASSUME NEW k \in Calls, Abandon(k)
         PROVE  (\A q \in Calls : IsWellInformed(q) /\ LosesLess(q))'
    BY <1>1, <1>2, <1>13 DEF Abandon, Ends
  <1> QED
    BY <1>3, <1>5, <1>6, <1>7, <1>8, <1>9, <1>10, <1>11, <1>12, <1>13
    DEF Next, DecideSend, CommitSend, changeState, Tick, vars

(* What a conversation is and who owns it, whoever writes. *)
LEMMA ExistInv ==
    ASSUME TypeOK, IngressInv, [Next]_vars
    PROVE  ConversationsExist'
  <1> USE DEF IngressInv
  <1>1. ASSUME NEW c \in Conversations, conv[c].state # "ABSENT"
        PROVE  conv'[c].state # "ABSENT" /\ conv'[c].contact # None
    BY <1>1, ConversationsStay DEF ConversationsExist
  <1>2. \A x \in stored : x.conv \in Conversations
    BY DEF TypeOK
  <1>3. \A a \in Agents : send[a] # NoSend => send[a].conv \in Conversations
    BY DEF TypeOK
  <1>4. ASSUME NEW k \in Calls, Persist(k)
        PROVE  ConversationsExist'
    <2>1. CASE UNCHANGED <<conv, stored>>
      BY <1>4, <2>1 DEF Persist, ConversationsExist
    <2>2. CASE ~UNCHANGED <<conv, stored>>
      <3>1. PICK c \in Conversations :
              /\ stored' = stored \cup {[event |-> call[k].event, conv |-> c, at |-> call[k].at]}
              /\ \A d \in Conversations \ {c} : conv'[d] = conv[d]
              /\ \/ /\ call[k].conv = None /\ conv'[c].state = "OPEN"
                    /\ conv'[c].contact = call[k].contact
                 \/ call[k].conv = c
        BY <1>4, <2>2, PersistEffect
      <3>2. IsWellInformed(k) /\ call[k].phase = "decided"
        BY <1>4 DEF Persist, InPhase
      <3>3. conv'[c].state # "ABSENT" /\ conv'[c].contact # None
        BY <1>1, <3>1, <3>2, IngressAssumption DEF IsWellInformed
      <3>4. \A d \in Conversations : conv'[d].state # "ABSENT" => conv'[d].contact # None
        BY <3>1, <3>3 DEF ConversationsExist
      <3>5. \A x \in stored' : conv'[x.conv].state # "ABSENT"
        BY <1>1, <1>2, <3>1, <3>3 DEF ConversationsExist
      <3>6. \A a \in Agents : send'[a] # NoSend => conv'[send'[a].conv].state # "ABSENT"
        BY <1>1, <1>3, <1>4 DEF Persist, ConversationsExist
      <3> QED
        BY <3>4, <3>5, <3>6 DEF ConversationsExist
    <2> QED
      BY <2>1, <2>2
  <1>5. ASSUME NEW a \in Agents, NEW c \in Conversations, DecideSend(a, c)
        PROVE  ConversationsExist'
    <2>1. UNCHANGED <<conv, stored>> /\ conv[c].state # "ABSENT"
      BY <1>5 DEF DecideSend, IsOpen, db
    <2>2. \A b \in Agents : send'[b] = send[b] \/ send'[b].conv = c
      BY <1>5 DEF DecideSend, TypeOK
    <2> QED
      BY <2>1, <2>2 DEF ConversationsExist
  <1>6. ASSUME NEW a \in Agents, CommitSend(a)
        PROVE  ConversationsExist'
    <2>1. send[a].conv \in Conversations /\ conv[send[a].conv].state # "ABSENT"
      BY <1>3, <1>6 DEF CommitSend, ConversationsExist
    <2>2. \A d \in Conversations : conv'[d].state = conv[d].state /\ conv'[d].contact = conv[d].contact
      BY <1>6 DEF CommitSend, TypeOK
    <2>3. \A x \in stored' : x \in stored \/ x.conv = send[a].conv
      BY <1>6 DEF CommitSend
    <2>4. \A b \in Agents : send'[b] # NoSend => send'[b] = send[b]
      BY <1>6 DEF CommitSend, TypeOK
    <2> QED
      BY <1>2, <1>3, <2>1, <2>2, <2>3, <2>4 DEF ConversationsExist
  <1>7. ASSUME NEW c \in Conversations, changeState(c)
        PROVE  ConversationsExist'
    <2>1. \A d \in Conversations : (conv'[d].state # "ABSENT") = (conv[d].state # "ABSENT")
                                   /\ conv'[d].contact = conv[d].contact
      BY <1>7 DEF changeState, IsOpen, TypeOK
    <2> QED
      BY <1>2, <1>3, <1>7, <2>1 DEF changeState, ConversationsExist
  <1>8. CASE UNCHANGED <<conv, stored, send>>
    BY <1>8 DEF ConversationsExist
  <1> QED
    BY <1>4, <1>5, <1>6, <1>7, <1>8
    DEF Next, vars, db, Ingest, LookUpIdentity, LookUpPhone, InsertIdentity, Recheck,
        FindByThread, FindOpen, Abandon, Tick

(* Messages and their conversations. *)
LEMMA MessagesInv ==
    ASSUME TypeOK, IngressInv, [Next]_vars
    PROVE  MessageOfItsContact' /\ StoredOnce'
  <1> USE DEF IngressInv
  \* What holds of a message that is there.
  <1>1. ASSUME NEW x \in stored, x.event # None
        PROVE  /\ conv'[x.conv].contact = identity'[IdentityOf(x.event)]
               /\ conv'[x.conv].channel = x.event.channel
    <2>1. x.event \in Events /\ x.conv \in Conversations
      BY <1>1 DEF TypeOK
    <2>2. conv[x.conv].state # "ABSENT" /\ IsKnown(x.event)
      BY <1>1, <2>1 DEF ConversationsExist, MessageOfItsContact, IsKnown
    <2> QED
      BY <1>1, <2>1, <2>2, ConversationsStay, KnownStays DEF MessageOfItsContact
  <1>2. CASE \A x \in stored' : x \in stored \/ x.event = None
    <2>1. MessageOfItsContact'
      BY <1>1, <1>2 DEF MessageOfItsContact, IdentityOf
    <2> QED
      BY <1>2, <2>1 DEF StoredOnce
  <1>3. ASSUME NEW k \in Calls, Persist(k), ~UNCHANGED stored
        PROVE  MessageOfItsContact' /\ StoredOnce'
    <2>1. PICK c \in Conversations :
            /\ ~FindProcessed(call[k].event)
            /\ stored' = stored \cup {[event |-> call[k].event, conv |-> c, at |-> call[k].at]}
            /\ \/ /\ conv'[c].contact = call[k].contact /\ conv'[c].channel = call[k].event.channel
               \/ /\ call[k].conv = c
                  /\ conv'[c].contact = conv[c].contact /\ conv'[c].channel = conv[c].channel
      BY <1>3, PersistEffect
    <2>2. IsWellInformed(k) /\ call[k].phase = "decided" /\ identity' = identity
      BY <1>3 DEF Persist, InPhase
    <2>3. conv'[c].contact = identity'[IdentityOf(call[k].event)]
          /\ conv'[c].channel = call[k].event.channel
      BY <2>1, <2>2, IngressAssumption DEF IsWellInformed
    <2>4. MessageOfItsContact'
      BY <1>1, <2>1, <2>3 DEF MessageOfItsContact, IdentityOf
    <2>5. StoredOnce'
      BY <2>1 DEF StoredOnce, FindProcessed
    <2> QED
      BY <2>4, <2>5
  <1>4. CASE UNCHANGED stored
    BY <1>2, <1>4
  <1>5. ASSUME NEW a \in Agents, CommitSend(a)
        PROVE  \A x \in stored' : x \in stored \/ x.event = None
    BY <1>5 DEF CommitSend
  <1> QED
    BY <1>2, <1>3, <1>4, <1>5
    DEF Next, vars, db, Ingest, LookUpIdentity, LookUpPhone, InsertIdentity, Recheck,
        FindByThread, FindOpen, Abandon, DecideSend, changeState, Tick

(* The time of the newest message, as long as only customers write. *)
LEMMA NewestInv ==
    ASSUME TypeOK, IngressInv, [Next]_vars
    PROVE  LastIsNewestInbound'
  <1> USE DEF IngressInv
  \* A step that leaves the conversation and its messages alone.
  <1>1. ASSUME NEW c \in Conversations, conv'[c].last = conv[c].last,
               (conv'[c].state # "ABSENT") => (conv[c].state # "ABSENT"),
               \A x \in stored' : x.conv = c => x \in stored, stored \subseteq stored',
               conv'[c].state # "ABSENT", \A x \in stored' : x.conv = c => x.event # None
        PROVE  HasNewest(c)'
    <2>1. HasNewest(c)
      BY <1>1 DEF LastIsNewestInbound
    <2> QED
      BY <1>1, <2>1 DEF HasNewest
  <1>2. ASSUME NEW k \in Calls, Persist(k), ~UNCHANGED <<conv, stored>>
        PROVE  LastIsNewestInbound'
    <2>1. PICK c \in Conversations :
            /\ stored' = stored \cup {[event |-> call[k].event, conv |-> c, at |-> call[k].at]}
            /\ \A d \in Conversations \ {c} : conv'[d] = conv[d]
            /\ \/ /\ conv[c].state = "ABSENT"
                  /\ conv'[c].last = IF call[k].at > 0 THEN call[k].at ELSE 0
               \/ /\ call[k].conv = c
                  /\ conv'[c].last = IF call[k].at > conv[c].last THEN call[k].at ELSE conv[c].last
      BY <1>2, PersistEffect
    <2> DEFINE m == [event |-> call[k].event, conv |-> c, at |-> call[k].at]
    <2>2. call[k] \in IngressCalls /\ call[k].phase = "decided"
      BY <1>2, CallFields DEF Persist, InPhase
    <2>3. call[k].at \in Nat /\ conv[c].last \in Nat /\ \A x \in stored : x.at \in Nat
      BY <2>2, IngressAssumption DEF IngressCalls, Times, TypeOK
    <2>4. CASE conv[c].state = "ABSENT"
      <3>1. \A x \in stored : x.conv # c
        BY <2>4 DEF ConversationsExist
      <3>2. conv'[c].last = call[k].at
        <4>1. ~(call[k].conv = c)
          BY <2>2, <2>4, IngressAssumption DEF IsWellInformed
        <4> QED
          BY <2>1, <2>3, <4>1
      <3>3. HasNewest(c)'
        <4>1. m \in stored' /\ m.conv = c /\ m.at = conv'[c].last
          BY <2>1, <3>2
        <4>2. \A x \in stored' : x.conv = c => x.at <= conv'[c].last
          BY <2>1, <2>3, <3>1, <3>2
        <4> QED
          BY <4>1, <4>2 DEF HasNewest
      <3> QED
        BY <1>1, <2>1, <3>3 DEF LastIsNewestInbound
    <2>5. CASE conv[c].state # "ABSENT"
      <3>1. ASSUME \A x \in stored' : x.conv = c => x.event # None
            PROVE  HasNewest(c)'
        <4>1. HasNewest(c)
          BY <2>1, <2>5, <3>1 DEF LastIsNewestInbound
        <4>2. conv'[c].last = IF call[k].at > conv[c].last THEN call[k].at ELSE conv[c].last
          BY <2>1, <2>5
        <4>3. \E x \in stored' : x.conv = c /\ x.at = conv'[c].last
          <5>1. CASE call[k].at > conv[c].last
            <6>1. m \in stored' /\ m.conv = c /\ m.at = conv'[c].last
              BY <2>1, <4>2, <5>1
            <6> QED
              BY <6>1
          <5>2. CASE ~(call[k].at > conv[c].last)
            BY <2>1, <4>1, <4>2, <5>2 DEF HasNewest
          <5> QED
            BY <5>1, <5>2
        <4>4. ASSUME NEW x \in stored', x.conv = c
              PROVE  x.at <= conv'[c].last
          <5>1. CASE x = m
            BY <2>3, <4>2, <5>1
          <5>2. CASE x \in stored
            <6>1. x.at <= conv[c].last /\ x.at \in Nat
              BY <2>3, <4>1, <4>4, <5>2 DEF HasNewest
            <6> QED
              BY <2>3, <4>2, <6>1
          <5> QED
            BY <2>1, <5>1, <5>2
        <4> QED
          BY <4>3, <4>4 DEF HasNewest
      <3> QED
        BY <1>1, <2>1, <3>1 DEF LastIsNewestInbound
    <2> QED
      BY <2>4, <2>5
  <1>3. ASSUME NEW a \in Agents, CommitSend(a)
        PROVE  LastIsNewestInbound'
    <2> DEFINE m == [event |-> None, conv |-> send[a].conv, at |-> send[a].at]
    <2>1. stored' = stored \cup {m}
      BY <1>3 DEF CommitSend
    <2>2. \A c \in Conversations :
            /\ conv'[c].state = conv[c].state
            /\ c # send[a].conv => conv'[c] = conv[c]
      BY <1>3 DEF CommitSend, TypeOK
    <2>3. m \in stored' /\ m.event = None /\ m.conv = send[a].conv
      BY <2>1
    <2>4. \A x \in stored' : x.conv # send[a].conv => x \in stored
      BY <2>1
    <2> HIDE DEF m
    <2> QED
      BY <1>1, <2>1, <2>2, <2>3, <2>4 DEF LastIsNewestInbound
  <1>4. ASSUME NEW d \in Conversations, changeState(d)
        PROVE  LastIsNewestInbound'
    <2>1. \A c \in Conversations :
            /\ conv'[c].last = conv[c].last
            /\ conv'[c].state # "ABSENT" => conv[c].state # "ABSENT"
      BY <1>4 DEF changeState, IsOpen, TypeOK
    <2>2. stored' = stored
      BY <1>4 DEF changeState
    <2> QED
      BY <1>1, <2>1, <2>2 DEF LastIsNewestInbound
  <1>5. CASE UNCHANGED <<conv, stored>>
    BY <1>5 DEF LastIsNewestInbound, HasNewest
  <1> QED
    BY <1>2, <1>3, <1>4, <1>5
    DEF Next, vars, db, Ingest, LookUpIdentity, LookUpPhone, InsertIdentity, Recheck,
        FindByThread, FindOpen, Abandon, DecideSend, Tick

(* A contact is created with the identity that leads to it. *)
LEMMA ReachableInv ==
    ASSUME TypeOK, IngressInv, [Next]_vars
    PROVE  NoOrphanContact'
  <1>1. ASSUME NEW k \in Calls, InsertIdentity(k), ~UNCHANGED <<contact, identity>>
        PROVE  NoOrphanContact'
    <2> DEFINE i == IdentityOf(call[k].event)
    <2>1. call[k] \in IngressCalls
      BY <1>1, CallFields DEF InsertIdentity, InPhase
    <2>2. i \in Identities
      BY <2>1, IdentityOfType DEF IngressCalls
    <2>3. PICK p \in Contacts :
            /\ identity[i] = None
            /\ identity' = [identity EXCEPT ![i] = p]
            /\ \A q \in Contacts \ {p} : contact'[q] = contact[q]
      BY <1>1, InsertEffect
    <2>4. identity'[i] = p /\ \A j \in Identities \ {i} : identity'[j] = identity[j]
      BY <2>2, <2>3 DEF TypeOK
    <2>5. ASSUME NEW q \in Contacts, contact'[q].exists
          PROVE  \E j \in Identities : identity'[j] = q
      <3>1. CASE q = p
        BY <2>2, <2>4, <3>1
      <3>2. CASE q # p
        <4>1. PICK j \in Identities : identity[j] = q
          BY <2>3, <2>5, <3>2 DEF IngressInv, NoOrphanContact
        <4>2. j # i
          BY <2>3, <4>1, IngressAssumption
        <4> QED
          BY <2>4, <4>1, <4>2
      <3> QED
        BY <3>1, <3>2
    <2> QED
      BY <2>5 DEF NoOrphanContact
  <1>2. CASE UNCHANGED <<contact, identity>>
    BY <1>2 DEF IngressInv, NoOrphanContact
  <1> QED
    BY <1>1, <1>2
    DEF Next, vars, db, Ingest, LookUpIdentity, LookUpPhone, Recheck, FindByThread, FindOpen,
        Persist, Abandon, DecideSend, CommitSend, changeState, Tick

LEMMA NextInv ==
    ASSUME TypeOK, IngressInv, [Next]_vars
    PROVE  IngressInv'
  BY CallsInv, ExistInv, MessagesInv, NewestInv, ReachableInv DEF IngressInv

-----------------------------------------------------------------------------
(* The theorems *)

\* Every variable has its type.
THEOREM TypeCorrect == Spec => []TypeOK
  <1>1. Init => TypeOK
    BY InitType
  <1>2. TypeOK /\ [Next]_vars => TypeOK'
    BY NextType
  <1> QED
    BY <1>1, <1>2, PTL DEF Spec

\* The invariant the properties follow from.
THEOREM InvariantCorrect == Spec => []IngressInv
  <1>1. Init => IngressInv
    BY InitInv
  <1>2. TypeOK /\ IngressInv /\ [Next]_vars => IngressInv'
    BY NextInv
  <1> QED
    BY <1>1, <1>2, TypeCorrect, PTL DEF Spec

\* However many calls deliver however many events, a message is in a conversation of the
\* contact its sender's identity leads to, on its own channel.
THEOREM MessagesAreFiledRight == Spec => []MessageOfItsContact
  <1>1. IngressInv => MessageOfItsContact
    BY DEF IngressInv
  <1> QED
    BY <1>1, InvariantCorrect, PTL

\* However often a provider delivers a message, and however many calls take it at the same
\* time, it is stored once.
THEOREM MessagesAreStoredOnce == Spec => []StoredOnce
  <1>1. IngressInv => StoredOnce
    BY DEF IngressInv
  <1> QED
    BY <1>1, InvariantCorrect, PTL

\* In whatever order messages are stored, lastMessageAt is the time of the newest, in each
\* conversation no agent has written into.
THEOREM NewestIsKept == Spec => []LastIsNewestInbound
  <1>1. IngressInv => LastIsNewestInbound
    BY DEF IngressInv
  <1> QED
    BY <1>1, InvariantCorrect, PTL

\* Three attempts, which are MAX_RESOLVE_ATTEMPTS in the code, are enough to find or create
\* a contact, whatever the number of calls that race for it; no contact is left over.
THEOREM ContactRacesEndWell ==
    ASSUME MAX_RESOLVE_ATTEMPTS >= 3
    PROVE  Spec => []ContactRaceEndsWell
  <1>1. IngressInv => ContactRaceEndsWell
    BY IngressAssumption DEF IngressInv, LosesLess, ContactRaceEndsWell, ContactRaceIsWon, InPhase
  <1> QED
    BY <1>1, InvariantCorrect, PTL

\* A conversation never changes its contact, its channel or the thread it is anchored to.
THEOREM AnchorsAreFinal == Spec => AnchorIsFinal
  <1>1. TypeOK /\ [Next]_vars =>
          [\A c \in Conversations : conv[c].state # "ABSENT" =>
             /\ conv'[c].contact = conv[c].contact /\ conv'[c].channel = conv[c].channel
             /\ conv[c].thread # None => conv'[c].thread = conv[c].thread]_vars
    BY ConversationsStay
  <1> QED
    BY <1>1, TypeCorrect, PTL DEF Spec, AnchorIsFinal
=============================================================================
