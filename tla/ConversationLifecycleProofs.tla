---------------------- MODULE ConversationLifecycleProofs ----------------------
(***************************************************************************)
(* TLAPS proofs about ConversationLifecycle, for any number of             *)
(* conversations, agents, messages and concurrent inbound calls.           *)
(***************************************************************************)
EXTENDS ConversationLifecycle, TLAPS

LEMMA NoRowType == NoRow \in Row
  BY DEF NoRow, Row, States

LEMMA InitType == Init => TypeOK
  BY NoRowType DEF Init, TypeOK

(* A request never carries a state or an assignee the table could not hold. *)
LEMMA BeginType ==
    ASSUME TypeOK, NEW u \in Users, NEW op \in Operations, NEW c \in Conversations,
           NEW seen \in Users \cup {None}, NEW state \in States,
           NEW assignee \in Users \cup {None},
           Begin(u, op, c, seen, state, assignee)
    PROVE  TypeOK'
  <1>1. [op |-> op, conv |-> c, seen |-> seen, state |-> state, assignee |-> assignee]
            \in Request
    BY DEF Request
  <1> QED
    BY <1>1 DEF TypeOK, Begin

LEMMA AgentType ==
    ASSUME TypeOK, NEW u \in Users, Agent(u)
    PROVE  TypeOK'
  <1>1. ASSUME NEW c \in Conversations, NEW target \in Users, assign(u, c, target)
        PROVE  TypeOK'
    <2>1. conv[c].assigned \in Users \cup {None}
      BY DEF TypeOK, Row
    <2> QED
      BY <1>1, <2>1, BeginType DEF assign, Operations, States, Open
  <1>2. ASSUME NEW c \in Conversations, unassign(u, c)
        PROVE  TypeOK'
    <2>1. conv[c].assigned \in Users \cup {None} /\ ReleasedState(conv[c].state) \in States
      BY DEF TypeOK, Row, ReleasedState, States, Open
    <2> QED
      BY <1>2, <2>1, BeginType DEF unassign, Operations
  <1>3. ASSUME NEW c \in Conversations, NEW target \in States, changeState(u, c, target)
        PROVE  TypeOK'
    BY <1>3, BeginType DEF changeState, Operations
  <1>4. CASE Commit(u)
    <2>1. /\ request[u].conv \in Conversations
          /\ request[u].state \in States /\ request[u].assignee \in Users \cup {None}
      BY <1>4 DEF TypeOK, Request, Commit
    <2>2. conv[request[u].conv].assigned \in Users \cup {None}
      BY <2>1 DEF TypeOK, Row
    <2>3. Written(request[u]) \in Row
      BY <2>1, <2>2 DEF Written, Row
    <2> DEFINE row == Written(request[u])
    <2>4. /\ conv' = [conv EXCEPT ![request[u].conv] = row]
          /\ handled' = handled \cup {request[u].conv}
          /\ request' = [request EXCEPT ![u] = NoRequest]
          /\ UNCHANGED <<inbox, replies, intake>>
      BY <1>4 DEF Commit
    <2> HIDE DEF row
    <2> QED
      BY <2>1, <2>3, <2>4 DEF TypeOK, row
  <1>5. CASE Rollback(u)
    BY <1>5 DEF Rollback, TypeOK
  <1> QED
    BY <1>1, <1>2, <1>3, <1>4, <1>5 DEF Agent

LEMMA InboundType ==
    ASSUME TypeOK, NEW p \in Intakes, Inbound(p)
    PROVE  TypeOK'
  <1>0. intake[p] \in Intake \cup {NoIntake}
    BY DEF TypeOK
  <1>1. ASSUME NEW i \in Inbounds, Receive(p, i)
        PROVE  TypeOK'
    <2>1. [phase |-> "received", msg |-> i, conv |-> None, retries |-> NoRetries] \in Intake
      <3>1. NoRetries \in [RaceKinds -> 0..MAX_RETRIES_PER_RACE_KIND]
        BY LifecycleAssumption DEF NoRetries
      <3> QED
        BY <3>1 DEF Intake
    <2> QED
      BY <1>1, <2>1 DEF Receive, TypeOK
  <1>2. CASE resolveConversation(p)
    <2>1. intake[p] \in Intake
      BY <1>0, <1>2 DEF resolveConversation, NoIntake
    <2>2. ASSUME NEW found \in Conversations \cup {None}
          PROVE  [intake[p] EXCEPT !.phase = "resolved", !.conv = found] \in Intake
      BY <2>1, Zenon DEF Intake
    <2>3. ASSUME NEW found \in Conversations \cup {None},
                 intake' = [intake EXCEPT ![p].phase = "resolved", ![p].conv = found]
          PROVE  intake' \in [Intakes -> Intake \cup {NoIntake}]
      <3>1. intake' = [intake EXCEPT ![p] =
                          [intake[p] EXCEPT !.phase = "resolved", !.conv = found]]
        BY <2>3, Zenon DEF TypeOK
      <3> QED
        BY <2>2, <3>1 DEF TypeOK
    <2>4. intake' \in [Intakes -> Intake \cup {NoIntake}]
      BY <1>2, <2>3 DEF resolveConversation, TypeOK
    <2> QED
      BY <1>2, <2>4 DEF resolveConversation, TypeOK
  <1>3. ASSUME NEW kind \in RaceKinds, LoseRace(p, kind), intake[p] \in Intake
        PROVE  TypeOK'
    <2>1. CASE canRetry(intake[p].retries, kind)
      <3> DEFINE more == [intake[p].retries EXCEPT ![kind] = @ + 1]
      <3>1. intake[p].retries \in [RaceKinds -> 0..MAX_RETRIES_PER_RACE_KIND]
        BY <1>3 DEF Intake
      <3>2. intake[p].retries[kind] + 1 \in 0..MAX_RETRIES_PER_RACE_KIND
        BY <2>1, <3>1, LifecycleAssumption DEF canRetry
      <3>3. more \in [RaceKinds -> 0..MAX_RETRIES_PER_RACE_KIND]
        BY <3>1, <3>2
      <3>4. Retried(intake[p], kind) = [intake[p] EXCEPT !.phase = "received", !.conv = None,
                                                         !.retries = more]
        BY DEF Retried
      <3> HIDE DEF more
      <3>5. Retried(intake[p], kind) \in Intake
        BY <1>3, <3>3, <3>4, Zenon DEF Intake
      <3> QED
        BY <1>3, <3>5 DEF LoseRace, TypeOK
    <2>2. CASE ~canRetry(intake[p].retries, kind)
      BY <1>3, <2>2 DEF LoseRace, TypeOK
    <2> QED
      BY <2>1, <2>2
  <1>4. ASSUME NEW c \in Conversations, NEW row \in Row, intake[p] \in Intake,
               Store(p, c, row)
        PROVE  TypeOK'
    <2>1. [intake[p] EXCEPT !.phase = "acknowledge", !.conv = c] \in Intake
      BY <1>4, Zenon DEF Intake
    <2>2. intake' = [intake EXCEPT ![p] =
                        IF isPendingFirstContact(row)
                        THEN [intake[p] EXCEPT !.phase = "acknowledge", !.conv = c]
                        ELSE NoIntake]
      BY <1>4, Zenon DEF Store, TypeOK
    <2> QED
      BY <1>4, <2>1, <2>2 DEF Store, TypeOK
  <1>5. CASE createMessage(p)
    <2>1. intake[p] \in Intake /\ intake[p].conv \in Conversations
      BY <1>0, <1>5 DEF createMessage, NoIntake, Intake
    <2>2. conv[intake[p].conv] \in Row
      BY <2>1 DEF TypeOK
    <2> QED
      BY <1>3, <1>4, <1>5, <2>1, <2>2 DEF createMessage, RaceKinds
  <1>6. CASE createConversation(p)
    <2>1. intake[p] \in Intake
      BY <1>0, <1>6 DEF createConversation, NoIntake
    <2>2. [state |-> "AI_ATENDENDO", assigned |-> None] \in Row
      BY DEF Row, States, Open
    <2> QED
      BY <1>3, <1>4, <1>6, <2>1, <2>2 DEF createConversation, RaceKinds
  <1>7. CASE acknowledge(p)
    <2> DEFINE c == intake[p].conv
    <2>1. intake[p].msg \in Inbounds
      BY <1>0, <1>7 DEF acknowledge, NoIntake, Intake
    <2>2. \A d \in Conversations : [conv[d] EXCEPT !.state = "AGUARDANDO_HUMANO"] \in Row
      <3>1. "AGUARDANDO_HUMANO" \in States
        BY DEF States, Open
      <3> QED
        BY <3>1, Zenon DEF TypeOK, Row
    <2>3. conv' \in [Conversations -> Row]
      <3>1. CASE c \in Conversations
        <4>1. conv' = [conv EXCEPT ![c] = [conv[c] EXCEPT !.state = "AGUARDANDO_HUMANO"]]
          BY <1>7, Zenon DEF acknowledge, TypeOK
        <4> QED
          BY <2>2, <3>1, <4>1 DEF TypeOK
      <3>2. CASE c \notin Conversations
        BY <1>7, <3>2 DEF acknowledge, TypeOK
      <3> QED
        BY <3>1, <3>2
    <2>4. replies' \in [Conversations -> SUBSET Inbounds]
      BY <1>7, <2>1 DEF acknowledge, TypeOK
    <2> QED
      BY <1>7, <2>3, <2>4 DEF acknowledge, TypeOK
  <1>8. CASE Abandon(p)
    BY <1>8 DEF Abandon, TypeOK
  <1> QED
    BY <1>1, <1>2, <1>5, <1>6, <1>7, <1>8 DEF Inbound

LEMMA NextType == TypeOK /\ [Next]_vars => TypeOK'
  <1>1. ASSUME TypeOK, UNCHANGED vars
        PROVE  TypeOK'
    BY <1>1 DEF vars, TypeOK
  <1> QED
    BY <1>1, AgentType, InboundType DEF Next

(***************************************************************************)
(* Every variable keeps its type.                                          *)
(***************************************************************************)
THEOREM LifecycleTypeCorrect == Spec => []TypeOK
  BY InitType, NextType, PTL DEF Spec

-----------------------------------------------------------------------------
(***************************************************************************)
(* The inductive invariant.  Its conversation conjuncts speak of one       *)
(* conversation at a time.                                                 *)
(***************************************************************************)

ConversationGood(row, answered, touched) ==
    /\ row.state \in {"ABSENT", "AI_ATENDENDO"} =>
          row.assigned = None /\ answered = {} /\ ~touched
    /\ \A i, j \in answered : i = j
    /\ row.state = "AGUARDANDO_HUMANO" /\ ~touched => answered # {}
    /\ row.state = "HUMANO_ATENDENDO" => row.assigned # None

LEMMA ConversationsGood ==
    LifecycleInv => \A c \in Conversations :
                        ConversationGood(conv[c], replies[c], c \in handled)
  BY DEF LifecycleInv, UntouchedUntilHandoff, AtMostOneReply, HandoffHasReply,
         AttendedIsAssigned, ConversationGood

LEMMA LifecycleInvFromParts ==
    ASSUME \A c \in Conversations : ConversationGood(conv[c], replies[c], c \in handled)',
           RequestsAreSound', IntakesAreSound'
    PROVE  LifecycleInv'
  BY DEF LifecycleInv, UntouchedUntilHandoff, AtMostOneReply, HandoffHasReply,
         AttendedIsAssigned, ConversationGood

LEMMA InitInv == Init => LifecycleInv
  <1> SUFFICES ASSUME Init
               PROVE  LifecycleInv
    OBVIOUS
  <1>1. \A c \in Conversations : conv[c] = NoRow /\ replies[c] = {} /\ c \notin handled
    BY DEF Init
  <1>2. UntouchedUntilHandoff /\ AtMostOneReply /\ HandoffHasReply /\ AttendedIsAssigned
    BY <1>1 DEF NoRow, UntouchedUntilHandoff, AtMostOneReply, HandoffHasReply,
                AttendedIsAssigned
  <1>3. RequestsAreSound /\ IntakesAreSound
    BY DEF Init, RequestsAreSound, IntakesAreSound, NoIntake
  <1> QED
    BY <1>2, <1>3 DEF LifecycleInv

(* A request whose UPDATE will be safe begins. *)
LEMMA BeginInv ==
    ASSUME TypeOK, LifecycleInv, NEW u \in Users, NEW op, NEW c \in Conversations,
           NEW seen, NEW state, NEW assignee,
           Begin(u, op, c, seen, state, assignee),
           state \in {"AGUARDANDO_HUMANO", "HUMANO_ATENDENDO", "ENCERRADA"},
           state = "HUMANO_ATENDENDO" => op = "assign" /\ assignee # None,
           op # "changeState" /\ seen # None => u \in Managers \cup {seen}
    PROVE  LifecycleInv'
  <1>1. RequestsAreSound'
    <2>1. request'[u] = [op |-> op, conv |-> c, seen |-> seen,
                         state |-> state, assignee |-> assignee]
      BY DEF Begin, TypeOK
    <2>2. \A v \in Users \ {u} : request'[v] = request[v]
      BY DEF Begin, TypeOK
    <2> QED
      BY <2>1, <2>2 DEF LifecycleInv, RequestsAreSound
  <1>2. \A d \in Conversations : ConversationGood(conv[d], replies[d], d \in handled)'
    BY ConversationsGood DEF Begin
  <1>3. IntakesAreSound'
    BY DEF LifecycleInv, IntakesAreSound, Begin
  <1> QED
    BY <1>1, <1>2, <1>3, LifecycleInvFromParts

LEMMA CommitInv ==
    ASSUME TypeOK, LifecycleInv, NEW u \in Users, Commit(u)
    PROVE  LifecycleInv'
  <1> DEFINE r == request[u]
             row == Written(r)
  <1>1. /\ r \in Request /\ r.conv \in Conversations
        /\ r.state \in {"AGUARDANDO_HUMANO", "HUMANO_ATENDENDO", "ENCERRADA"}
        /\ r.state = "HUMANO_ATENDENDO" => r.op = "assign" /\ r.assignee # None
    BY DEF Commit, TypeOK, Request, LifecycleInv, RequestsAreSound
  <1>2. row.state = r.state /\ (r.state = "HUMANO_ATENDENDO" => row.assigned # None)
    BY <1>1 DEF Written
  <1>3. /\ conv' = [conv EXCEPT ![r.conv] = row]
        /\ handled' = handled \cup {r.conv}
        /\ request' = [request EXCEPT ![u] = NoRequest]
        /\ UNCHANGED <<inbox, replies, intake>>
    BY DEF Commit
  <1> HIDE DEF r, row
  <1>4. ASSUME NEW c \in Conversations
        PROVE  ConversationGood(conv'[c], replies'[c], c \in handled')
    <2>0. ConversationGood(conv[c], replies[c], c \in handled)
      BY ConversationsGood
    <2>1. CASE c = r.conv
      <3>1. conv'[c] = row /\ c \in handled' /\ replies'[c] = replies[c]
        BY <1>3, <2>1 DEF TypeOK
      <3> QED
        BY <1>1, <1>2, <2>0, <3>1 DEF ConversationGood
    <2>2. CASE c # r.conv
      <3>1. conv'[c] = conv[c] /\ replies'[c] = replies[c] /\ (c \in handled' <=> c \in handled)
        BY <1>3, <2>2 DEF TypeOK
      <3> QED
        BY <2>0, <3>1 DEF ConversationGood
    <2> QED
      BY <2>1, <2>2
  <1>5. RequestsAreSound'
    BY <1>3 DEF TypeOK, LifecycleInv, RequestsAreSound
  <1>6. IntakesAreSound'
    BY <1>3 DEF LifecycleInv, IntakesAreSound
  <1> QED
    BY <1>4, <1>5, <1>6, LifecycleInvFromParts

LEMMA AgentInv ==
    ASSUME TypeOK, LifecycleInv, NEW u \in Users, Agent(u)
    PROVE  LifecycleInv'
  <1>1. ASSUME NEW c \in Conversations, NEW target \in Users, assign(u, c, target)
        PROVE  LifecycleInv'
    <2>1. conv[c].assigned # None => u \in Managers \cup {conv[c].assigned}
      BY <1>1 DEF assign, assertCanReassign, isManager
    <2>2. target # None
      BY LifecycleAssumption
    <2> QED
      BY <1>1, <2>1, <2>2, BeginInv DEF assign
  <1>2. ASSUME NEW c \in Conversations, unassign(u, c)
        PROVE  LifecycleInv'
    <2>1. conv[c].assigned # None => u \in Managers \cup {conv[c].assigned}
      BY <1>2 DEF unassign, isManager
    <2>2. conv[c].state \in {"AGUARDANDO_HUMANO", "HUMANO_ATENDENDO", "ENCERRADA"}
      BY <1>2 DEF unassign, LifecycleInv, UntouchedUntilHandoff, TypeOK, Row, States, Open
    <2>3. ReleasedState(conv[c].state) \in {"AGUARDANDO_HUMANO", "ENCERRADA"}
      BY <2>2 DEF ReleasedState
    <2> QED
      BY <1>2, <2>1, <2>3, BeginInv DEF unassign
  <1>3. ASSUME NEW c \in Conversations, NEW target \in States, changeState(u, c, target)
        PROVE  LifecycleInv'
    <2>1. target \in {"AGUARDANDO_HUMANO", "ENCERRADA"}
      BY <1>3 DEF changeState, ALLOWED_TRANSITIONS, TypeOK, Row, States, Open
    <2> QED
      BY <1>3, <2>1, BeginInv DEF changeState
  <1>4. CASE Rollback(u)
    <2>1. RequestsAreSound'
      BY <1>4 DEF Rollback, TypeOK, LifecycleInv, RequestsAreSound
    <2>2. IntakesAreSound'
      BY <1>4 DEF Rollback, LifecycleInv, IntakesAreSound
    <2>3. \A c \in Conversations : ConversationGood(conv[c], replies[c], c \in handled)'
      BY <1>4, ConversationsGood DEF Rollback
    <2> QED
      BY <2>1, <2>2, <2>3, LifecycleInvFromParts
  <1> QED
    BY <1>1, <1>2, <1>3, <1>4, CommitInv DEF Agent

(* Steps of an inbound call that do not touch a conversation. *)
LEMMA SearchInv ==
    ASSUME TypeOK, LifecycleInv, NEW p \in Intakes,
           UNCHANGED <<conv, replies, handled, request>>,
           \A q \in Intakes \ {p} : intake'[q] = intake[q],
           intake'[p].phase # "acknowledge"
    PROVE  LifecycleInv'
  <1>1. \A c \in Conversations : ConversationGood(conv[c], replies[c], c \in handled)'
    BY ConversationsGood
  <1>2. RequestsAreSound'
    BY DEF LifecycleInv, RequestsAreSound
  <1>3. IntakesAreSound'
    BY DEF LifecycleInv, IntakesAreSound
  <1> QED
    BY <1>1, <1>2, <1>3, LifecycleInvFromParts

LEMMA LoseRaceInv ==
    ASSUME TypeOK, LifecycleInv, NEW p \in Intakes, NEW kind \in RaceKinds,
           intake[p] \in Intake, LoseRace(p, kind)
    PROVE  LifecycleInv'
  <1>1. Retried(intake[p], kind).phase = "received"
    BY Zenon DEF Retried, Intake
  <1>2. /\ intake'[p] \in {NoIntake, Retried(intake[p], kind)}
        /\ \A q \in Intakes \ {p} : intake'[q] = intake[q]
    BY DEF LoseRace, TypeOK
  <1>3. intake'[p].phase # "acknowledge"
    BY <1>1, <1>2 DEF NoIntake
  <1> QED
    BY <1>2, <1>3, SearchInv DEF LoseRace

LEMMA StoreInv ==
    ASSUME TypeOK, LifecycleInv, NEW p \in Intakes, NEW c \in Conversations,
           NEW row \in Row, intake[p] \in Intake, Store(p, c, row),
           ConversationGood(row, replies[c], c \in handled)
    PROVE  LifecycleInv'
  <1>1. ASSUME NEW d \in Conversations
        PROVE  ConversationGood(conv'[d], replies'[d], d \in handled')
    <2>1. conv'[d] = IF d = c THEN row ELSE conv[d]
      BY DEF Store, TypeOK
    <2> QED
      BY <2>1, ConversationsGood DEF Store
  <1>2. RequestsAreSound'
    BY DEF Store, LifecycleInv, RequestsAreSound
  <1>3. IntakesAreSound'
    <2>1. \A q \in Intakes \ {p} : intake'[q] = intake[q]
      BY DEF Store, TypeOK
    <2>2. CASE isPendingFirstContact(row)
      <3>1. intake'[p] = [intake[p] EXCEPT !.phase = "acknowledge", !.conv = c]
        BY <2>2 DEF Store, TypeOK
      <3>2. intake'[p].conv = c
        BY <3>1, Zenon DEF Intake
      <3> QED
        BY <2>1, <3>2 DEF LifecycleInv, IntakesAreSound
    <2>3. CASE ~isPendingFirstContact(row)
      <3>1. intake'[p] = NoIntake
        BY <2>3 DEF Store, TypeOK
      <3> QED
        BY <2>1, <3>1 DEF LifecycleInv, IntakesAreSound, NoIntake
    <2> QED
      BY <2>2, <2>3
  <1> QED
    BY <1>1, <1>2, <1>3, LifecycleInvFromParts

LEMMA acknowledgeInv ==
    ASSUME TypeOK, LifecycleInv, NEW p \in Intakes, acknowledge(p)
    PROVE  LifecycleInv'
  <1> DEFINE c == intake[p].conv
  <1>0. c \in Conversations
    BY DEF acknowledge, LifecycleInv, IntakesAreSound
  <1>1. conv[c].state = "AI_ATENDENDO" /\ replies[c] = {}
    BY <1>0 DEF acknowledge, isPendingFirstContact, LifecycleInv, UntouchedUntilHandoff
  <1>2. ASSUME NEW d \in Conversations
        PROVE  ConversationGood(conv'[d], replies'[d], d \in handled')
    <2>1. CASE d = c
      <3>1. conv'[d] = [conv[c] EXCEPT !.state = "AGUARDANDO_HUMANO"]
        BY <2>1 DEF acknowledge, TypeOK
      <3>2. conv[c] \in Row
        BY <1>0 DEF TypeOK
      <3>3. conv'[d].state = "AGUARDANDO_HUMANO"
        BY <3>1, <3>2, Zenon DEF Row
      <3>4. replies'[d] = {intake[p].msg}
        BY <1>1, <2>1 DEF acknowledge, TypeOK
      <3> QED
        BY <3>3, <3>4 DEF ConversationGood
    <2>2. CASE d # c
      <3>1. conv'[d] = conv[d] /\ replies'[d] = replies[d] /\ handled' = handled
        BY <2>2 DEF acknowledge, TypeOK
      <3> QED
        BY <3>1, ConversationsGood
    <2> QED
      BY <2>1, <2>2
  <1>3. RequestsAreSound'
    BY DEF acknowledge, LifecycleInv, RequestsAreSound
  <1>4. IntakesAreSound'
    BY DEF acknowledge, TypeOK, LifecycleInv, IntakesAreSound, NoIntake
  <1> QED
    BY <1>2, <1>3, <1>4, LifecycleInvFromParts

LEMMA InboundInv ==
    ASSUME TypeOK, LifecycleInv, NEW p \in Intakes, Inbound(p)
    PROVE  LifecycleInv'
  <1>0. intake[p] \in Intake \cup {NoIntake}
    BY DEF TypeOK
  <1>1. ASSUME NEW i \in Inbounds, Receive(p, i)
        PROVE  LifecycleInv'
    BY <1>1, SearchInv DEF Receive, TypeOK
  <1>2. CASE resolveConversation(p)
    <2>1. CASE intake' = [intake EXCEPT ![p] = NoIntake]
      BY <1>2, <2>1, SearchInv DEF resolveConversation, TypeOK, NoIntake
    <2>2. ASSUME NEW found \in Conversations \cup {None},
                 intake' = [intake EXCEPT ![p].phase = "resolved", ![p].conv = found]
          PROVE  LifecycleInv'
      <3>1. intake'[p] = [intake[p] EXCEPT !.phase = "resolved", !.conv = found]
        BY <2>2, Zenon DEF TypeOK
      <3>2. intake[p] \in Intake
        BY <1>0, <1>2 DEF resolveConversation, NoIntake
      <3>3. intake'[p].phase = "resolved"
        BY <3>1, <3>2, Zenon DEF Intake
      <3>4. \A q \in Intakes \ {p} : intake'[q] = intake[q]
        BY <2>2 DEF TypeOK
      <3> QED
        BY <1>2, <3>3, <3>4, SearchInv DEF resolveConversation
    <2> QED
      BY <1>2, <2>1, <2>2 DEF resolveConversation
  <1>3. CASE createMessage(p)
    <2>1. intake[p] \in Intake /\ intake[p].conv \in Conversations
      BY <1>0, <1>3 DEF createMessage, NoIntake, Intake
    <2>2. conv[intake[p].conv] \in Row
      BY <2>1 DEF TypeOK
    <2> QED
      BY <1>3, <2>1, <2>2, LoseRaceInv, StoreInv, ConversationsGood
         DEF createMessage, RaceKinds
  <1>4. CASE createConversation(p)
    <2>1. intake[p] \in Intake
      BY <1>0, <1>4 DEF createConversation, NoIntake
    <2>2. [state |-> "AI_ATENDENDO", assigned |-> None] \in Row
      BY DEF Row, States, Open
    <2>3. ASSUME NEW c \in Conversations, conv[c].state = "ABSENT"
          PROVE  ConversationGood([state |-> "AI_ATENDENDO", assigned |-> None],
                                  replies[c], c \in handled)
      BY <2>3, ConversationsGood DEF ConversationGood
    <2> QED
      BY <1>4, <2>1, <2>2, <2>3, LoseRaceInv, StoreInv
         DEF createConversation, RaceKinds
  <1>5. CASE Abandon(p)
    BY <1>5, SearchInv DEF Abandon, TypeOK, NoIntake
  <1> QED
    BY <1>1, <1>2, <1>3, <1>4, <1>5, acknowledgeInv DEF Inbound

LEMMA NextInv ==
    ASSUME TypeOK, LifecycleInv, [Next]_vars
    PROVE  LifecycleInv'
  <1>1. CASE UNCHANGED vars
    <2>1. \A c \in Conversations : ConversationGood(conv[c], replies[c], c \in handled)'
      BY <1>1, ConversationsGood DEF vars
    <2>2. RequestsAreSound' /\ IntakesAreSound'
      BY <1>1 DEF vars, LifecycleInv, RequestsAreSound, IntakesAreSound
    <2> QED
      BY <2>1, <2>2, LifecycleInvFromParts
  <1> QED
    BY <1>1, AgentInv, InboundInv DEF Next

(***************************************************************************)
(* Conversations, replies, requests and inbound calls always fit together. *)
(***************************************************************************)
THEOREM LifecycleCorrect == Spec => []LifecycleInv
  <1>1. Init => TypeOK /\ LifecycleInv
    BY InitType, InitInv
  <1>2. TypeOK /\ LifecycleInv /\ [Next]_vars => (TypeOK /\ LifecycleInv)'
    BY NextType, NextInv
  <1> QED
    BY <1>1, <1>2, PTL DEF Spec

(***************************************************************************)
(* First contact: never two automatic replies in one conversation.         *)
(***************************************************************************)
THEOREM RepliesOnce == Spec => []AtMostOneReply
  BY LifecycleCorrect, PTL DEF LifecycleInv

(***************************************************************************)
(* A conversation handed to the team by the first contact has its reply.   *)
(***************************************************************************)
THEOREM HandoffIsAnswered == Spec => []HandoffHasReply
  BY LifecycleCorrect, PTL DEF LifecycleInv

(***************************************************************************)
(* A conversation in its entry state has no assignee, no reply and no      *)
(* trace of a person.                                                      *)
(***************************************************************************)
THEOREM EntryStateStaysUntouched == Spec => []EntryStateIsUntouched
  <1>1. LifecycleInv => EntryStateIsUntouched
    BY DEF LifecycleInv, UntouchedUntilHandoff, EntryStateIsUntouched
  <1> QED
    BY <1>1, LifecycleCorrect, PTL

(***************************************************************************)
(* A conversation a human attends is assigned to someone.                  *)
(***************************************************************************)
THEOREM AttendedStaysAssigned == Spec => []AttendedIsAssigned
  BY LifecycleCorrect, PTL DEF LifecycleInv

(***************************************************************************)
(* A human always wins: no automatic reply after a person's change.        *)
(***************************************************************************)
THEOREM NoReplyAfterAHuman == Spec => HumanAlwaysWins
  <1>1. ASSUME TypeOK, LifecycleInv, [Next]_vars
        PROVE  \A c \in Conversations : replies'[c] # replies[c] => c \notin handled
    <2> SUFFICES ASSUME NEW c \in Conversations, replies'[c] # replies[c]
                 PROVE  c \notin handled
      OBVIOUS
    <2>1. PICK p \in Intakes : acknowledge(p)
      BY <1>1 DEF Next, vars, Agent, assign, unassign, changeState, Begin, Commit, Rollback,
         Inbound, Receive, resolveConversation, createMessage, createConversation, LoseRace,
         Store, Abandon
    <2>2. c = intake[p].conv
      BY <2>1, <1>1 DEF acknowledge, TypeOK
    <2>3. conv[c].state = "AI_ATENDENDO"
      BY <2>1, <2>2 DEF acknowledge, isPendingFirstContact
    <2> QED
      BY <1>1, <2>3 DEF LifecycleInv, UntouchedUntilHandoff
  <1> QED
    BY <1>1, LifecycleTypeCorrect, LifecycleCorrect, PTL DEF Spec, HumanAlwaysWins

(***************************************************************************)
(* An agent is taken off a conversation by a manager or by themselves,     *)
(* although the permission was checked on a row read earlier.              *)
(***************************************************************************)
THEOREM AssigneesAreRespected == Spec => AssignmentRespected
  <1>1. ASSUME TypeOK, LifecycleInv, [Next]_vars
        PROVE  \A c \in Conversations, u \in Users :
                  conv[c].assigned = u /\ conv'[c].assigned # u =>
                      \E actor \in Managers \cup {u} :
                          request[actor].conv = c /\ request'[actor] = NoRequest
    <2> SUFFICES ASSUME NEW c \in Conversations, NEW u \in Users,
                        conv[c].assigned = u, conv'[c].assigned # u
                 PROVE  \E actor \in Managers \cup {u} :
                            request[actor].conv = c /\ request'[actor] = NoRequest
      OBVIOUS
    <2>0. u # None /\ conv[c] \in Row
      BY <1>1, LifecycleAssumption DEF TypeOK
    <2>1. ASSUME NEW p \in Intakes, Inbound(p)
          PROVE  FALSE
      <3>1. ASSUME NEW d \in Conversations, NEW row, Store(p, d, row),
                   d = c => row.assigned = u
            PROVE  FALSE
        BY <1>1, <3>1 DEF Store, TypeOK
      <3>2. CASE createMessage(p)
        <4>1. intake[p].conv \in Conversations
          BY <1>1, <3>2 DEF createMessage, TypeOK, Intake, NoIntake
        <4> QED
          BY <3>1, <3>2, <4>1 DEF createMessage, LoseRace
      <3>3. CASE createConversation(p)
        <4>1. conv[c].state # "ABSENT"
          BY <1>1, <2>0 DEF LifecycleInv, UntouchedUntilHandoff
        <4> QED
          BY <3>1, <3>3, <4>1 DEF createConversation, LoseRace
      <3>4. CASE acknowledge(p)
        <4>1. CASE c = intake[p].conv
          BY <2>0, <3>4, <4>1 DEF acknowledge, isPendingFirstContact
        <4>2. CASE c # intake[p].conv
          BY <1>1, <3>4, <4>2 DEF acknowledge, TypeOK
        <4> QED
          BY <4>1, <4>2
      <3> QED
        BY <2>1, <3>2, <3>3, <3>4 DEF Inbound, Receive, resolveConversation, Abandon
    <2>2. PICK v \in Users : Commit(v)
      BY <1>1, <2>1 DEF Next, vars, Agent, assign, unassign, changeState, Begin, Rollback
    <2> DEFINE r == request[v]
    <2>3. r \in Request /\ r # NoRequest
      BY <1>1, <2>2 DEF Commit, TypeOK
    <2>4. c = r.conv /\ conv'[c] = Written(r)
      BY <1>1, <2>2 DEF Commit, TypeOK
    <2>5. r.op # "changeState" /\ r.seen = u
      BY <2>2, <2>4 DEF Commit, StillMatches, Written
    <2>6. v \in Managers \cup {u}
      BY <1>1, <2>0, <2>3, <2>5 DEF LifecycleInv, RequestsAreSound
    <2>7. request'[v] = NoRequest
      BY <1>1, <2>2 DEF Commit, TypeOK
    <2> QED
      BY <2>4, <2>6, <2>7
  <1> QED
    BY <1>1, LifecycleTypeCorrect, LifecycleCorrect, PTL DEF Spec, AssignmentRespected
=============================================================================
