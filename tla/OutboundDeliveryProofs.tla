------------------------ MODULE OutboundDeliveryProofs ------------------------
(***************************************************************************)
(* TLAPS proofs about OutboundDelivery, for any number of messages,        *)
(* workers, provider ids and attempts.                                     *)
(***************************************************************************)
EXTENDS OutboundDelivery, FiniteSetTheorems, TLAPS

(* Typing of the operators the actions are built from. *)

LEMMA RowOperatorsType ==
    ASSUME NEW r \in Row
    PROVE  /\ GiveUp(r) \in Row
           /\ hasAttemptsLeft(r.attempts) => TakeLease(r) \in Row
           /\ hasAttemptsLeft(r.attempts) => Claimed(TakeLease(r)) \in Job
           /\ \A status \in Statuses, code \in Codes : Settled(r, status, code) \in Row
  <1> DEFINE numbers == 0..MaxAttempts
  <1>0. 0 \in numbers
    BY DeliveryAssumption
  <1>1. GiveUp(r) \in Row
    <2>1. (IF r.lease = 0 THEN "ATTEMPTS_EXHAUSTED" ELSE "LEASE_EXPIRED") \in Codes
      BY DEF Codes
    <2> HIDE DEF numbers
    <2>2. "FAILED" \in Statuses
      BY DEF Statuses
    <2> QED
      BY <1>0, <2>1, <2>2, Zenon DEF GiveUp, Row, numbers
  <1>2. ASSUME hasAttemptsLeft(r.attempts)
        PROVE  TakeLease(r) \in Row /\ Claimed(TakeLease(r)) \in Job
    <2>1. r.attempts + 1 \in numbers
      BY <1>2, DeliveryAssumption DEF Row, hasAttemptsLeft
    <2>2. TakeLease(r) \in Row
      BY <2>1, Zenon DEF TakeLease, Row
    <2>3. Claimed(TakeLease(r)) \in Job
      BY <2>2 DEF Claimed, Job, Row, Phases
    <2> QED
      BY <2>2, <2>3
  <1>3. ASSUME NEW status \in Statuses, NEW code \in Codes
        PROVE  Settled(r, status, code) \in Row
    BY <1>0, <1>3, Zenon DEF Settled, Row
  <1> QED
    BY <1>1, <1>2, <1>3

(* What a claim leaves in the row and hands to the worker. *)
LEMMA TakeLeaseEffect ==
    ASSUME NEW r \in Row
    PROVE  /\ TakeLease(r).status = r.status
           /\ TakeLease(r).attempts = r.attempts + 1
           /\ TakeLease(r).lease = r.attempts + 1
           /\ TakeLease(r).expires = "future"
           /\ TakeLease(r).externalId = r.externalId
  BY Zenon DEF TakeLease, Row

LEMMA NoRowType == NoRow \in Row /\ Idle \in Job
  BY DeliveryAssumption DEF NoRow, Row, Idle, Job, Statuses, Codes, Phases

LEMMA InitType == Init => TypeOK
  BY NoRowType DEF Init, TypeOK

LEMMA CreateType ==
    ASSUME TypeOK, NEW m \in Messages, Create(m)
    PROVE  TypeOK'
  <1>1. [row[m] EXCEPT !.status = "PENDING", !.next = "due"] \in Row
    BY Zenon DEF TypeOK, Row, Statuses
  <1>2. [row[m] EXCEPT !.status = "SENT"] \in Row
    BY Zenon DEF TypeOK, Row, Statuses
  <1> QED
    BY <1>1, <1>2 DEF TypeOK, Create

LEMMA ClaimType ==
    ASSUME TypeOK, NEW w \in Workers, NEW batch \in SUBSET Due, Claim(w, batch)
    PROVE  TypeOK'
  <1>1. row' \in [Messages -> Row]
    BY RowOperatorsType DEF TypeOK, Claim, Due
  <1>2. job' \in [Workers -> [Messages -> Job]]
    BY RowOperatorsType, NoRowType, DeliveryAssumption DEF TypeOK, Claim, Due
  <1> QED
    BY <1>1, <1>2 DEF TypeOK, Claim

LEMMA BecomesType ==
    ASSUME TypeOK, NEW w \in Workers, NEW m \in Messages, NEW phase \in Phases,
           Becomes(w, m, phase)
    PROVE  job' \in [Workers -> [Messages -> Job]]
  <1>0. job[w][m] \in Job
    BY DEF TypeOK
  <1>1. [job[w][m] EXCEPT !.phase = phase] \in Job
    BY <1>0, Zenon DEF Job
  <1>2. job' = [job EXCEPT ![w] = [job[w] EXCEPT ![m] = [job[w][m] EXCEPT !.phase = phase]]]
    BY Zenon DEF Becomes, TypeOK
  <1> QED
    BY <1>1, <1>2 DEF TypeOK

LEMMA FinalizeType ==
    ASSUME TypeOK, NEW w \in Workers, NEW m \in Messages, NEW r \in Row,
           Finalize(w, m, r)
    PROVE  TypeOK'
  BY NoRowType DEF TypeOK, Finalize

LEMMA DeliverType ==
    ASSUME TypeOK, NEW w \in Workers, NEW m \in Messages, Deliver(w, m)
    PROVE  TypeOK'
  <1>0. row[m] \in Row /\ job[w][m] \in Job
    BY DEF TypeOK
  <1>a. /\ Idle \in Job
        /\ {"accepted", "conflict", "temporary", "permanent", "sending"} \subseteq Phases
    BY NoRowType DEF Phases
  <1>b. \A status \in {"SENT", "FAILED"}, code \in {"NONE", "FAILURE", "EXTERNAL_ID_CONFLICT"} :
            Settled(row[m], status, code) \in Row
    BY <1>0, RowOperatorsType DEF Statuses, Codes
  <1>1. CASE RefuseToSend(w, m)
    BY <1>1, <1>a, BecomesType DEF RefuseToSend, TypeOK
  <1>2. CASE Send(w, m)
    <2>1. job[w][m].attempt \in 0..MaxAttempts
      BY <1>0 DEF Job
    <2> QED
      BY <1>2, <1>a, <2>1, BecomesType DEF Send, TypeOK
  <1>3. CASE ReceiveAcceptance(w, m)
    <2>1. CASE Becomes(w, m, "permanent")
      BY <1>3, <2>1, <1>a, BecomesType DEF ReceiveAcceptance, TypeOK
    <2>2. ASSUME NEW a \in accepted,
                 job' = [job EXCEPT ![w][m].phase = "accepted", ![w][m].id = a.id]
          PROVE  TypeOK'
      <3>1. a.id \in Ids
        BY DEF TypeOK, Accepts
      <3>2. [job[w][m] EXCEPT !.phase = "accepted", !.id = a.id] \in Job
        BY <1>0, <1>a, <3>1, Zenon DEF Job
      <3>3. job' = [job EXCEPT ![w] = [job[w] EXCEPT ![m] =
                      [job[w][m] EXCEPT !.phase = "accepted", !.id = a.id]]]
        BY <2>2, Zenon DEF TypeOK
      <3> QED
        BY <1>3, <3>2, <3>3 DEF ReceiveAcceptance, TypeOK
    <2> QED
      BY <1>3, <2>1, <2>2 DEF ReceiveAcceptance
  <1>4. CASE ReceiveRefusal(w, m)
    BY <1>4, <1>a, BecomesType DEF ReceiveRefusal, TypeOK
  <1>5. CASE SendTimeout(w, m)
    BY <1>5, <1>a, BecomesType DEF SendTimeout, TypeOK
  <1>6. CASE markSent(w, m)
    <2>1. [Settled(row[m], "SENT", "NONE") EXCEPT !.externalId = job[w][m].id] \in Row
      <3>1. job[w][m].id \in Ids \cup {NoId}
        BY <1>0 DEF Job
      <3> QED
        BY <1>b, <3>1, Zenon DEF Row
    <2> QED
      BY <1>6, <2>1, FinalizeType DEF markSent
  <1>7. CASE markSentMisses(w, m)
    BY <1>7, <1>a, BecomesType DEF markSentMisses, TypeOK
  <1>8. CASE markSentWithoutId(w, m)
    BY <1>8, <1>b, FinalizeType DEF markSentWithoutId
  <1>9. CASE markRetry(w, m)
    <2>1. [row[m] EXCEPT !.next = "later", !.lease = 0,
                         !.expires = "null", !.code = "FAILURE"] \in Row
      <3>1. 0 \in 0..MaxAttempts /\ "FAILURE" \in Codes
        BY DeliveryAssumption DEF Codes
      <3> QED
        BY <1>0, <3>1, Zenon DEF Row
    <2> QED
      BY <1>9, <2>1, FinalizeType DEF markRetry
  <1>10. CASE markFailed(w, m)
    BY <1>10, <1>b, FinalizeType DEF markFailed
  <1>11. CASE FinalizeError(w, m)
    BY <1>11, <1>a DEF FinalizeError, TypeOK
  <1> QED
    BY <1>1, <1>2, <1>3, <1>4, <1>5, <1>6, <1>7, <1>8, <1>9, <1>10, <1>11 DEF Deliver

LEMMA TimeType ==
    ASSUME TypeOK, NEW m \in Messages, LeaseExpires(m) \/ BackoffElapses(m)
    PROVE  TypeOK'
  <1>1. row[m] \in Row
    BY DEF TypeOK
  <1>2. [row[m] EXCEPT !.expires = "past"] \in Row /\ [row[m] EXCEPT !.next = "due"] \in Row
    BY <1>1, Zenon DEF Row
  <1>3. CASE LeaseExpires(m)
    <2>1. row' = [row EXCEPT ![m] = [row[m] EXCEPT !.expires = "past"]]
      BY <1>3, Zenon DEF LeaseExpires, TypeOK
    <2> QED
      BY <1>2, <1>3, <2>1 DEF LeaseExpires, TypeOK
  <1>4. CASE BackoffElapses(m)
    <2>1. row' = [row EXCEPT ![m] = [row[m] EXCEPT !.next = "due"]]
      BY <1>4, Zenon DEF BackoffElapses, TypeOK
    <2> QED
      BY <1>2, <1>4, <2>1 DEF BackoffElapses, TypeOK
  <1> QED
    BY <1>3, <1>4

LEMMA ProviderType ==
    ASSUME TypeOK, Provider
    PROVE  TypeOK'
  <1> PICK m \in Messages, attempt \in 1..MaxAttempts :
              \/ ProviderRefuses(m, attempt)
              \/ \E id \in Ids : ProviderAccepts(m, attempt, id)
    BY DEF Provider
  <1>1. CASE ProviderRefuses(m, attempt)
    BY <1>1 DEF ProviderRefuses, TypeOK
  <1>2. ASSUME NEW id \in Ids, ProviderAccepts(m, attempt, id)
        PROVE  TypeOK'
    <2>1. [msg |-> m, attempt |-> attempt, id |-> id] \in Accepts
      BY DEF Accepts
    <2> QED
      BY <1>2, <2>1 DEF ProviderAccepts, TypeOK
  <1> QED
    BY <1>1, <1>2

LEMMA ApplyStatusType ==
    ASSUME TypeOK, NEW id \in Ids, NEW status \in MetaStatuses, applyStatus(id, status)
    PROVE  TypeOK'
  <1>1. META_STATUS_TARGET[status] \in Statuses
    BY DEF META_STATUS_TARGET, MetaStatuses, Statuses
  <1>2. ASSUME NEW m \in Messages
        PROVE  [row[m] EXCEPT !.status = META_STATUS_TARGET[status],
                              !.code = IF status = "failed" THEN "WA_FAILED" ELSE @] \in Row
    <2>1. row[m] \in Row
      BY DEF TypeOK
    <2>2. (IF status = "failed" THEN "WA_FAILED" ELSE row[m].code) \in Codes
      BY <2>1 DEF Row, Codes
    <2> QED
      BY <1>1, <2>1, <2>2, Zenon DEF Row
  <1> QED
    BY <1>2 DEF applyStatus, TypeOK

LEMMA NextType == TypeOK /\ [Next]_vars => TypeOK'
  <1> SUFFICES ASSUME TypeOK, [Next]_vars
               PROVE  TypeOK'
    OBVIOUS
  <1>1. ASSUME NEW w \in Workers, Crash(w)
        PROVE  TypeOK'
    BY <1>1, NoRowType DEF Crash, TypeOK
  <1>2. CASE UNCHANGED vars
    BY <1>2 DEF vars, TypeOK
  <1> QED
    BY <1>1, <1>2, CreateType, TimeType, ClaimType, DeliverType, ProviderType,
       ApplyStatusType DEF Next

(***************************************************************************)
(* Every variable keeps its type: no attempt is ever counted beyond        *)
(* OUTBOUND_MAX_ATTEMPTS.                                                  *)
(***************************************************************************)
THEOREM TypeCorrect == Spec => []TypeOK
  BY InitType, NextType, PTL DEF Spec
-----------------------------------------------------------------------------
(***************************************************************************)
(* The inductive invariant.  Its row conjuncts speak of one row and the    *)
(* acceptances; RowGood collects them for a row r of message m, so that a  *)
(* step is checked on the rows it writes.                                  *)
(***************************************************************************)

RowGood(r, m, acc) ==
    /\ r.lease = 0 <=> r.expires = "null"
    /\ r.next # "null" \/ r.lease # 0 => r.status = "PENDING"
    /\ r.lease \in {0, r.attempts}
    /\ r.status = "ABSENT" => r = NoRow
    /\ r.status \in {"ABSENT", "PENDING"} => r.externalId = NoId
    /\ m \notin Manual /\ r.status \in {"SENT", "DELIVERED", "READ"} =>
          \E a \in acc :
              /\ a.msg = m
              /\ a.attempt = r.attempts
              /\ \/ r.externalId = a.id
                 \/ r.externalId = NoId /\ r.code = "EXTERNAL_ID_CONFLICT"
    /\ r.status = "PENDING" /\ ~hasAttemptsLeft(r.attempts) => r.lease # 0

LEMMA RowsGood ==
    DeliveryInv => \A m \in Messages : RowGood(row[m], m, accepted)
  BY DEF DeliveryInv, OnlyPendingIsQueued, RowsAreCoherent, SentWasAccepted,
         LastAttemptIsLeased, RowGood

LEMMA DeliveryInvFromRows ==
    ASSUME \A m \in Messages : RowGood(row[m], m, accepted)',
           JobsAreCoherent', CallsAreBudgeted'
    PROVE  DeliveryInv'
  BY DEF DeliveryInv, OnlyPendingIsQueued, RowsAreCoherent, SentWasAccepted,
         LastAttemptIsLeased, RowGood

LEMMA RowGoodMonotone ==
    ASSUME NEW r, NEW m, NEW acc, NEW more, acc \subseteq more, RowGood(r, m, acc)
    PROVE  RowGood(r, m, more)
  BY DEF RowGood

(* A step that starts no delivery and only moves the others on, keeping what *)
(* they were claimed with, keeps deliveries coherent.                        *)
LEMMA JobsMoveOn ==
    ASSUME JobsAreCoherent,
           TypeOK, TypeOK',
           \A m \in Messages : row[m].attempts <= row'[m].attempts,
           \A m \in Messages : \A w \in Workers :
               job'[w][m].phase # "idle" =>
                   /\ job[w][m].phase # "idle"
                   /\ job'[w][m].lease = job[w][m].lease
                   /\ job'[w][m].attempt = job[w][m].attempt
                   /\ job'[w][m].phase \in {"accepted", "conflict"} =>
                        [msg |-> m, attempt |-> job'[w][m].attempt, id |-> job'[w][m].id]
                            \in accepted'
    PROVE  JobsAreCoherent'
  <1> SUFFICES ASSUME NEW m \in Messages, NEW w \in Workers, job'[w][m].phase # "idle"
               PROVE  /\ job'[w][m].lease = job'[w][m].attempt
                      /\ job'[w][m].attempt \in 1..row'[m].attempts
                      /\ \A v \in Workers \ {w} :
                            job'[v][m].phase # "idle" => job'[v][m].attempt # job'[w][m].attempt
                      /\ job'[w][m].phase \in {"accepted", "conflict"} =>
                            [msg |-> m, attempt |-> job'[w][m].attempt, id |-> job'[w][m].id]
                                \in accepted'
    BY DEF JobsAreCoherent
  <1>1. /\ row[m] \in Row /\ row'[m] \in Row
        /\ row[m].attempts \in Nat /\ row'[m].attempts \in Nat
        /\ row[m].attempts <= row'[m].attempts
    BY DeliveryAssumption DEF TypeOK, Row
  <1>2. /\ job[w][m].phase # "idle"
        /\ job'[w][m].lease = job[w][m].lease
        /\ job'[w][m].attempt = job[w][m].attempt
    OBVIOUS
  <1>3. /\ job[w][m].attempt \in 1..row[m].attempts
        /\ job[w][m].lease = job[w][m].attempt
    BY <1>2 DEF JobsAreCoherent
  <1>4. job'[w][m].attempt \in 1..row'[m].attempts
    BY <1>1, <1>2, <1>3
  <1>5. ASSUME NEW v \in Workers \ {w}, job'[v][m].phase # "idle"
        PROVE  job'[v][m].attempt # job'[w][m].attempt
    <2>1. job[v][m].phase # "idle" /\ job'[v][m].attempt = job[v][m].attempt
      BY <1>5
    <2>2. job[v][m].attempt # job[w][m].attempt
      BY <1>2, <2>1 DEF JobsAreCoherent
    <2> QED
      BY <1>2, <2>1, <2>2
  <1> QED
    BY <1>2, <1>3, <1>4, <1>5

LEMMA UnsentFinite ==
    ASSUME NEW m \in Messages
    PROVE  IsFiniteSet(Unsent(m)) /\ Cardinality(Unsent(m)) \in Nat
  BY DeliveryAssumption, FS_Subset, FS_CardinalityType DEF Unsent

(* A step that claims nothing, calls nothing and uncounts nothing stays within *)
(* the budget of every message.                                                *)
LEMMA BudgetKept ==
    ASSUME TypeOK, TypeOK', CallsAreBudgeted,
           NEW m \in Messages,
           Unsent(m)' \subseteq Unsent(m),
           calls'[m] = calls[m],
           row[m].attempts <= row'[m].attempts
    PROVE  (calls[m] + Cardinality(Unsent(m)) <= row[m].attempts)'
  <1>1. /\ Cardinality(Unsent(m)) \in Nat /\ Cardinality(Unsent(m)') \in Nat
        /\ Cardinality(Unsent(m)') <= Cardinality(Unsent(m))
    BY UnsentFinite, FS_Subset, FS_CardinalityType
  <1>2. calls[m] + Cardinality(Unsent(m)) <= row[m].attempts
    BY DEF CallsAreBudgeted
  <1>3. /\ calls[m] \in Nat
        /\ row[m] \in Row /\ row'[m] \in Row
    BY DEF TypeOK
  <1>4. row[m].attempts \in Nat /\ row'[m].attempts \in Nat
    BY <1>3, DeliveryAssumption DEF Row
  <1> QED
    BY <1>1, <1>2, <1>3, <1>4

LEMMA InitInv == Init => DeliveryInv
  <1> SUFFICES ASSUME Init
               PROVE  DeliveryInv
    OBVIOUS
  <1>1. \A m \in Messages : row[m] = NoRow /\ calls[m] = 0
    BY DEF Init
  <1>2. \A m \in Messages, w \in Workers : job[w][m].phase = "idle"
    BY DEF Init, Idle
  <1>3. \A m \in Messages : RowGood(row[m], m, accepted)
    BY <1>1, DeliveryAssumption DEF RowGood, NoRow, hasAttemptsLeft
  <1>4. JobsAreCoherent
    BY <1>2 DEF JobsAreCoherent
  <1>5. CallsAreBudgeted
    <2> SUFFICES ASSUME NEW m \in Messages
                 PROVE  calls[m] + Cardinality(Unsent(m)) <= row[m].attempts
      BY DEF CallsAreBudgeted
    <2>1. Unsent(m) = {}
      BY <1>2 DEF Unsent
    <2> QED
      BY <1>1, <2>1, FS_EmptySet DEF NoRow
  <1> QED
    BY <1>3, <1>4, <1>5 DEF DeliveryInv, OnlyPendingIsQueued, RowsAreCoherent,
       SentWasAccepted, LastAttemptIsLeased, RowGood

LEMMA CreateInv ==
    ASSUME TypeOK, TypeOK', DeliveryInv, NEW m \in Messages, Create(m)
    PROVE  DeliveryInv'
  <1>1. row[m] = NoRow
    BY DEF Create, DeliveryInv, RowsAreCoherent
  <1>2. /\ row'[m] = IF m \in Manual THEN [NoRow EXCEPT !.status = "SENT"]
                     ELSE [NoRow EXCEPT !.status = "PENDING", !.next = "due"]
        /\ \A n \in Messages \ {m} : row'[n] = row[n]
    BY <1>1 DEF Create, TypeOK, requiresExternalDelivery
  <1>3. row'[m].attempts = row[m].attempts
    <2>1. /\ [NoRow EXCEPT !.status = "SENT"].attempts = 0
          /\ [NoRow EXCEPT !.status = "PENDING", !.next = "due"].attempts = 0
          /\ NoRow.attempts = 0
      BY DEF NoRow
    <2> QED
      BY <1>1, <1>2, <2>1
  <1>4. RowGood(row'[m], m, accepted')
    BY <1>2, DeliveryAssumption DEF RowGood, NoRow, hasAttemptsLeft
  <1>5. \A n \in Messages : RowGood(row[n], n, accepted)'
    BY <1>2, <1>4, RowsGood DEF Create
  <1>6. ASSUME NEW n \in Messages
        PROVE  row[n].attempts <= row'[n].attempts
    <2>1. row'[n].attempts = row[n].attempts
      BY <1>2, <1>3
    <2>2. row[n].attempts \in Nat
      BY DeliveryAssumption DEF TypeOK, Row
    <2> QED
      BY <2>1, <2>2
  <1>7. JobsAreCoherent'
    BY <1>6, JobsMoveOn DEF Create, DeliveryInv, JobsAreCoherent
  <1>8. CallsAreBudgeted'
    BY <1>6, BudgetKept DEF Create, DeliveryInv, CallsAreBudgeted, Unsent
  <1> QED
    BY <1>5, <1>7, <1>8, DeliveryInvFromRows

(* What the two kinds of delivery step do to job. *)
LEMMA BecomesEffect ==
    ASSUME TypeOK, NEW w \in Workers, NEW m \in Messages, NEW phase, Becomes(w, m, phase)
    PROVE  /\ job'[w][m].phase = phase
           /\ job'[w][m].attempt = job[w][m].attempt
           /\ job'[w][m].lease = job[w][m].lease
           /\ job'[w][m].id = job[w][m].id
           /\ \A v \in Workers, n \in Messages :
                  v # w \/ n # m => job'[v][n] = job[v][n]
  <1>1. job[w][m] \in Job
    BY DEF TypeOK
  <1>2. job'[w][m] = [job[w][m] EXCEPT !.phase = phase]
    BY DEF Becomes, TypeOK
  <1>3. \A v \in Workers, n \in Messages : v # w \/ n # m => job'[v][n] = job[v][n]
    BY DEF Becomes, TypeOK
  <1> QED
    BY <1>1, <1>2, <1>3 DEF Job

LEMMA EndsEffect ==
    ASSUME TypeOK, NEW w \in Workers, NEW m \in Messages,
           job' = [job EXCEPT ![w][m] = Idle]
    PROVE  /\ job'[w][m].phase = "idle"
           /\ \A v \in Workers, n \in Messages :
                  v # w \/ n # m => job'[v][n] = job[v][n]
  BY DEF TypeOK, Idle

LEMMA ClaimInv ==
    ASSUME TypeOK, TypeOK', DeliveryInv,
           NEW w \in Workers, NEW batch \in SUBSET Due, Claim(w, batch)
    PROVE  DeliveryInv'
  <1>1. \A m \in Messages :
            row'[m] = IF m \in Exhausted THEN GiveUp(row[m])
                      ELSE IF m \in batch THEN TakeLease(row[m])
                      ELSE row[m]
    BY DEF Claim
  <1>2. \A m \in Messages : row[m] \in Row /\ row[m].attempts \in 0..MaxAttempts
    BY DEF TypeOK, Row
  <1>3. ASSUME NEW m \in batch
        PROVE  /\ m \in Messages /\ m \notin Exhausted
               /\ row[m].status = "PENDING"
               /\ row'[m] = TakeLease(row[m])
               /\ row'[m].attempts = row[m].attempts + 1
               /\ row'[m].lease = row[m].attempts + 1
    <2>1. m \in Messages /\ m \notin Exhausted /\ row[m].status = "PENDING"
      BY DeliveryAssumption DEF Due, Exhausted
    <2> QED
      BY <1>1, <1>2, <2>1, TakeLeaseEffect
  <1>4. ASSUME NEW m \in Messages, m \notin batch
        PROVE  row'[m].attempts = row[m].attempts
    BY <1>1, <1>2, <1>4 DEF GiveUp, Row
  <1>5. ASSUME NEW m \in Messages
        PROVE  RowGood(row'[m], m, accepted)
    <2>0. RowGood(row[m], m, accepted)
      BY RowsGood
    <2>1. CASE m \in Exhausted
      <3>1. row'[m] = GiveUp(row[m])
        BY <1>1, <2>1
      <3>2. /\ row'[m].status = "FAILED" /\ row'[m].next = "null"
            /\ row'[m].lease = 0 /\ row'[m].expires = "null"
        BY <1>2, <3>1 DEF GiveUp, Row
      <3> QED
        BY <3>2 DEF RowGood
    <2>2. CASE m \in batch
      <3>1. /\ row'[m].status = "PENDING" /\ row'[m].expires = "future"
            /\ row'[m].lease = row'[m].attempts /\ row'[m].lease # 0
            /\ row'[m].externalId = row[m].externalId
        BY <1>2, <1>3, <2>2, TakeLeaseEffect, DeliveryAssumption
      <3> QED
        BY <1>3, <2>0, <2>2, <3>1 DEF RowGood
    <2>3. CASE m \notin Exhausted /\ m \notin batch
      BY <1>1, <2>0, <2>3
    <2> QED
      BY <2>1, <2>2, <2>3
  <1>6. \A m \in Messages : RowGood(row[m], m, accepted)'
    BY <1>5 DEF Claim
  <1>7. /\ \A m \in batch : job'[w][m] = Claimed(TakeLease(row[m]))
        /\ \A m \in Messages \ batch : job'[w][m].phase = "idle"
        /\ \A v \in Workers \ {w} : \A m \in Messages : job'[v][m] = job[v][m]
        /\ \A m \in Messages : job[w][m].phase = "idle"
    <2>1. \A m \in batch : m \in Messages
      BY <1>3
    <2> QED
      BY <2>1 DEF Claim, TypeOK, Idle
  <1>8. \A m \in batch : /\ job'[w][m].phase = "claimed"
                          /\ job'[w][m].attempt = row[m].attempts + 1
                          /\ job'[w][m].lease = row[m].attempts + 1
    <2> SUFFICES ASSUME NEW m \in batch
                 PROVE  /\ job'[w][m].phase = "claimed"
                        /\ job'[w][m].attempt = row[m].attempts + 1
                        /\ job'[w][m].lease = row[m].attempts + 1
      OBVIOUS
    <2>1. job'[w][m] = [phase |-> "claimed", attempt |-> TakeLease(row[m]).attempts,
                        lease |-> TakeLease(row[m]).lease, id |-> NoId]
      BY <1>7 DEF Claimed
    <2> QED
      BY <1>2, <1>3, <2>1, TakeLeaseEffect
  <1>9. JobsAreCoherent'
    <2> SUFFICES ASSUME NEW m \in Messages, NEW v \in Workers, job'[v][m].phase # "idle"
                 PROVE  /\ job'[v][m].lease = job'[v][m].attempt
                        /\ job'[v][m].attempt \in 1..row'[m].attempts
                        /\ \A u \in Workers \ {v} :
                              job'[u][m].phase # "idle" =>
                                  job'[u][m].attempt # job'[v][m].attempt
                        /\ job'[v][m].phase \in {"accepted", "conflict"} =>
                              [msg |-> m, attempt |-> job'[v][m].attempt,
                               id |-> job'[v][m].id] \in accepted'
      BY DEF JobsAreCoherent
    <2>1. \A u \in Workers \ {w} : job'[u][m].phase # "idle" =>
              /\ job'[u][m] = job[u][m]
              /\ job[u][m].attempt \in 1..row[m].attempts
      BY <1>7 DEF DeliveryInv, JobsAreCoherent
    <2>2. row[m].attempts \in Nat
      BY <1>2, DeliveryAssumption
    <2>3. CASE m \in batch
      <3>1. row'[m].attempts = row[m].attempts + 1
        BY <1>3, <2>3
      <3>2. CASE v = w
        BY <1>8, <2>1, <2>2, <2>3, <3>1, <3>2
      <3>3. CASE v # w
        <4>1. job[v][m].phase # "idle" /\ job'[v][m] = job[v][m]
          BY <1>7, <3>3
        <4>2. \A u \in Workers \ {v, w} : job'[u][m] = job[u][m]
          BY <1>7
        <4>3. job'[w][m].attempt # job[v][m].attempt
          BY <1>8, <2>1, <2>2, <2>3, <3>3
        <4>4. /\ job[v][m].lease = job[v][m].attempt
              /\ \A u \in Workers \ {v} : job[u][m].phase # "idle" =>
                    job[u][m].attempt # job[v][m].attempt
              /\ job[v][m].phase \in {"accepted", "conflict"} =>
                    [msg |-> m, attempt |-> job[v][m].attempt, id |-> job[v][m].id]
                        \in accepted
          BY <4>1 DEF DeliveryInv, JobsAreCoherent
        <4>5. job[v][m].attempt \in 1..row'[m].attempts
          BY <2>1, <2>2, <3>1, <3>3
        <4>6. accepted' = accepted
          BY DEF Claim
        <4> QED
          BY <4>1, <4>2, <4>3, <4>4, <4>5, <4>6
      <3> QED
        BY <3>2, <3>3
    <2>4. CASE m \notin batch
      <3>1. v # w /\ row'[m].attempts = row[m].attempts /\ accepted' = accepted
        BY <1>4, <1>7, <2>4 DEF Claim
      <3>2. \A u \in Workers : job'[u][m].phase # "idle" =>
                u # w /\ job'[u][m] = job[u][m]
        BY <1>7, <2>4
      <3>3. job[v][m].phase # "idle"
        BY <3>2
      <3> QED
        BY <3>1, <3>2, <3>3 DEF DeliveryInv, JobsAreCoherent
    <2> QED
      BY <2>3, <2>4
  <1>10. ASSUME NEW m \in Messages
         PROVE  (calls[m] + Cardinality(Unsent(m)) <= row[m].attempts)'
    <2>1. calls'[m] = calls[m] /\ row[m].attempts \in Nat /\ calls[m] \in Nat
      BY <1>2, DeliveryAssumption DEF Claim, TypeOK
    <2>2. calls[m] + Cardinality(Unsent(m)) <= row[m].attempts
      BY DEF DeliveryInv, CallsAreBudgeted
    <2>3. CASE m \in batch
      <3>1. Unsent(m)' = Unsent(m) \cup {w} /\ w \notin Unsent(m)
        BY <1>7, <1>8, <2>3 DEF Unsent
      <3>2. Cardinality(Unsent(m)') = Cardinality(Unsent(m)) + 1
        BY <3>1, UnsentFinite, FS_AddElement
      <3> QED
        BY <1>3, <2>1, <2>2, <2>3, <3>2, UnsentFinite
    <2>4. CASE m \notin batch
      <3>1. Unsent(m)' = Unsent(m)
        BY <1>7, <2>4 DEF Unsent
      <3> QED
        BY <1>4, <2>1, <2>2, <2>4, <3>1
    <2> QED
      BY <2>3, <2>4
  <1>11. CallsAreBudgeted'
    BY <1>10 DEF CallsAreBudgeted
  <1> QED
    BY <1>6, <1>9, <1>11, DeliveryInvFromRows

(* Steps that write no row and make no call: the worker only learns something. *)
LEMMA WorkerLearns ==
    ASSUME TypeOK, TypeOK', DeliveryInv, NEW w \in Workers, NEW m \in Messages,
           NEW phase \in Phases \ {"idle", "claimed", "accepted"},
           job[w][m].phase # "idle",
           phase = "conflict" => job[w][m].phase = "accepted",
           Becomes(w, m, phase),
           UNCHANGED <<row, calls, accepted>>
    PROVE  DeliveryInv'
  <1>1. \A n \in Messages : RowGood(row[n], n, accepted)'
    BY RowsGood
  <1>2. \A n \in Messages : row[n].attempts \in Nat /\ row[n].attempts <= row'[n].attempts
    BY DeliveryAssumption DEF TypeOK, Row
  <1>3. ASSUME NEW n \in Messages, NEW v \in Workers, job'[v][n].phase # "idle"
        PROVE  /\ job[v][n].phase # "idle"
               /\ job'[v][n].lease = job[v][n].lease
               /\ job'[v][n].attempt = job[v][n].attempt
               /\ job'[v][n].phase \in {"accepted", "conflict"} =>
                    [msg |-> n, attempt |-> job'[v][n].attempt, id |-> job'[v][n].id]
                        \in accepted'
    <2>1. job[v][n].phase \in {"accepted", "conflict"} =>
              [msg |-> n, attempt |-> job[v][n].attempt, id |-> job[v][n].id] \in accepted
      BY DEF DeliveryInv, JobsAreCoherent
    <2>2. CASE v = w /\ n = m
      BY <2>1, <2>2, BecomesEffect
    <2>3. CASE v # w \/ n # m
      <3>1. job'[v][n] = job[v][n]
        BY <2>3, BecomesEffect
      <3> QED
        BY <1>3, <2>1, <3>1
    <2> QED
      BY <2>2, <2>3
  <1>4. JobsAreCoherent'
    BY <1>2, <1>3, JobsMoveOn DEF DeliveryInv
  <1>5. ASSUME NEW n \in Messages
        PROVE  Unsent(n)' \subseteq Unsent(n)
    BY BecomesEffect DEF Unsent
  <1>6. CallsAreBudgeted'
    BY <1>2, <1>5, BudgetKept DEF DeliveryInv, CallsAreBudgeted
  <1> QED
    BY <1>1, <1>4, <1>6, DeliveryInvFromRows

LEMMA SendInv ==
    ASSUME TypeOK, TypeOK', DeliveryInv, NEW w \in Workers, NEW m \in Messages, Send(w, m)
    PROVE  DeliveryInv'
  <1>0. /\ job[w][m].phase = "claimed"
        /\ Becomes(w, m, "sending")
        /\ calls' = [calls EXCEPT ![m] = @ + 1]
        /\ UNCHANGED <<row, accepted>>
    BY DEF Send
  <1>1. \A n \in Messages : RowGood(row[n], n, accepted)'
    BY <1>0, RowsGood
  <1>2. \A n \in Messages : row[n].attempts \in Nat /\ row[n].attempts <= row'[n].attempts
    BY <1>0, DeliveryAssumption DEF TypeOK, Row
  <1>3. ASSUME NEW n \in Messages, NEW v \in Workers, job'[v][n].phase # "idle"
        PROVE  /\ job[v][n].phase # "idle"
               /\ job'[v][n].lease = job[v][n].lease
               /\ job'[v][n].attempt = job[v][n].attempt
               /\ job'[v][n].phase \in {"accepted", "conflict"} =>
                    [msg |-> n, attempt |-> job'[v][n].attempt, id |-> job'[v][n].id]
                        \in accepted'
    <2>1. CASE v = w /\ n = m
      BY <1>0, <2>1, BecomesEffect
    <2>2. CASE v # w \/ n # m
      <3>1. job'[v][n] = job[v][n]
        BY <1>0, <2>2, BecomesEffect
      <3> QED
        BY <1>0, <1>3, <3>1 DEF DeliveryInv, JobsAreCoherent
    <2> QED
      BY <2>1, <2>2
  <1>4. JobsAreCoherent'
    BY <1>2, <1>3, JobsMoveOn DEF DeliveryInv
  <1>5. ASSUME NEW n \in Messages, n # m
        PROVE  (calls[n] + Cardinality(Unsent(n)) <= row[n].attempts)'
    <2>1. Unsent(n)' \subseteq Unsent(n)
      BY <1>0, <1>5, BecomesEffect DEF Unsent
    <2>2. calls'[n] = calls[n]
      BY <1>0, <1>5 DEF TypeOK
    <2> QED
      BY <1>2, <2>1, <2>2, BudgetKept DEF DeliveryInv
  <1>6. (calls[m] + Cardinality(Unsent(m)) <= row[m].attempts)'
    <2>1. Unsent(m)' = Unsent(m) \ {w} /\ w \in Unsent(m)
      BY <1>0, BecomesEffect DEF Unsent
    <2>2. Cardinality(Unsent(m)') = Cardinality(Unsent(m)) - 1
      BY <2>1, UnsentFinite, FS_RemoveElement
    <2>3. calls'[m] = calls[m] + 1 /\ calls[m] \in Nat
      BY <1>0 DEF TypeOK
    <2>4. calls[m] + Cardinality(Unsent(m)) <= row[m].attempts
      BY DEF DeliveryInv, CallsAreBudgeted
    <2> QED
      BY <1>0, <1>2, <2>2, <2>3, <2>4, UnsentFinite
  <1>7. CallsAreBudgeted'
    BY <1>5, <1>6 DEF CallsAreBudgeted
  <1> QED
    BY <1>1, <1>4, <1>7, DeliveryInvFromRows

LEMMA ReceiveAcceptanceInv ==
    ASSUME TypeOK, TypeOK', DeliveryInv, NEW w \in Workers, NEW m \in Messages,
           ReceiveAcceptance(w, m)
    PROVE  DeliveryInv'
  <1>0. job[w][m].phase = "sending" /\ UNCHANGED <<row, calls, accepted>>
    BY DEF ReceiveAcceptance
  <1>1. CASE Becomes(w, m, "permanent")
    BY <1>0, <1>1, WorkerLearns DEF Phases
  <1>2. ASSUME NEW a \in accepted, a.msg = m, a.attempt = job[w][m].attempt,
               job' = [job EXCEPT ![w][m].phase = "accepted", ![w][m].id = a.id]
        PROVE  DeliveryInv'
    <2>1. job'[w][m] = [job[w][m] EXCEPT !.phase = "accepted", !.id = a.id]
      BY <1>2, Zenon DEF TypeOK
    <2>2. \A v \in Workers, n \in Messages : v # w \/ n # m => job'[v][n] = job[v][n]
      BY <1>2 DEF TypeOK
    <2>3. job[w][m] \in Job
      BY DEF TypeOK
    <2>4. /\ job'[w][m].phase = "accepted" /\ job'[w][m].id = a.id
          /\ job'[w][m].attempt = job[w][m].attempt
          /\ job'[w][m].lease = job[w][m].lease
      BY <2>1, <2>3, Zenon DEF Job
    <2>5. [msg |-> m, attempt |-> job[w][m].attempt, id |-> a.id] = a
      BY <1>2 DEF TypeOK, Accepts
    <2>6. \A n \in Messages : RowGood(row[n], n, accepted)'
      BY <1>0, RowsGood
    <2>7. \A n \in Messages : row[n].attempts \in Nat /\ row[n].attempts <= row'[n].attempts
      BY <1>0, DeliveryAssumption DEF TypeOK, Row
    <2>8. ASSUME NEW n \in Messages, NEW v \in Workers, job'[v][n].phase # "idle"
          PROVE  /\ job[v][n].phase # "idle"
                 /\ job'[v][n].lease = job[v][n].lease
                 /\ job'[v][n].attempt = job[v][n].attempt
                 /\ job'[v][n].phase \in {"accepted", "conflict"} =>
                      [msg |-> n, attempt |-> job'[v][n].attempt, id |-> job'[v][n].id]
                          \in accepted'
      <3>1. CASE v = w /\ n = m
        BY <1>0, <2>4, <2>5, <3>1
      <3>2. CASE v # w \/ n # m
        <4>1. job'[v][n] = job[v][n]
          BY <2>2, <3>2
        <4> QED
          BY <1>0, <2>8, <4>1 DEF DeliveryInv, JobsAreCoherent
      <3> QED
        BY <3>1, <3>2
    <2>9. JobsAreCoherent'
      BY <2>7, <2>8, JobsMoveOn DEF DeliveryInv
    <2>10. ASSUME NEW n \in Messages
           PROVE  Unsent(n)' \subseteq Unsent(n)
      BY <2>2, <2>4 DEF Unsent
    <2>11. CallsAreBudgeted'
      BY <1>0, <2>7, <2>10, BudgetKept DEF DeliveryInv, CallsAreBudgeted
    <2> QED
      BY <2>6, <2>9, <2>11, DeliveryInvFromRows
  <1> QED
    BY <1>1, <1>2 DEF ReceiveAcceptance

(* The end of a delivery, whatever row it leaves behind if it owns the lease. *)
LEMMA EndsInv ==
    ASSUME TypeOK, TypeOK', DeliveryInv, NEW w \in Workers, NEW m \in Messages, NEW r,
           \/ row' = row
           \/ /\ row' = [row EXCEPT ![m] = r]
              /\ RowGood(r, m, accepted)
              /\ r.attempts = row[m].attempts,
           job' = [job EXCEPT ![w][m] = Idle],
           UNCHANGED <<calls, accepted>>
    PROVE  DeliveryInv'
  <1>1. \A n \in Messages : RowGood(row[n], n, accepted)'
    BY RowsGood DEF TypeOK
  <1>2. \A n \in Messages : row'[n].attempts = row[n].attempts
    BY DEF TypeOK
  <1>3. \A n \in Messages : row[n].attempts \in Nat
    BY DeliveryAssumption DEF TypeOK, Row
  <1>4. \A n \in Messages : row[n].attempts <= row'[n].attempts
    BY <1>2, <1>3
  <1>5. ASSUME NEW n \in Messages, NEW v \in Workers, job'[v][n].phase # "idle"
        PROVE  job[v][n].phase # "idle" /\ job'[v][n] = job[v][n]
    <2>1. CASE v = w /\ n = m
      BY <1>5, <2>1, EndsEffect
    <2>2. CASE v # w \/ n # m
      <3>1. job'[v][n] = job[v][n]
        BY <2>2, EndsEffect
      <3> QED
        BY <1>5, <3>1
    <2> QED
      BY <2>1, <2>2
  <1>6. JobsAreCoherent'
    <2>1. ASSUME NEW n \in Messages, NEW v \in Workers, job'[v][n].phase # "idle",
                 job'[v][n].phase \in {"accepted", "conflict"}
          PROVE  [msg |-> n, attempt |-> job'[v][n].attempt, id |-> job'[v][n].id]
                     \in accepted'
      <3>1. job[v][n].phase \in {"accepted", "conflict"} /\ job'[v][n] = job[v][n]
        BY <1>5, <2>1
      <3>2. [msg |-> n, attempt |-> job[v][n].attempt, id |-> job[v][n].id] \in accepted
        BY <3>1 DEF DeliveryInv, JobsAreCoherent
      <3> QED
        BY <3>1, <3>2
    <2> QED
      BY <1>4, <1>5, <2>1, JobsMoveOn DEF DeliveryInv
  <1>7. ASSUME NEW n \in Messages
        PROVE  Unsent(n)' \subseteq Unsent(n)
    BY <1>5 DEF Unsent
  <1>8. CallsAreBudgeted'
    BY <1>4, <1>7, BudgetKept DEF DeliveryInv, CallsAreBudgeted
  <1> QED
    BY <1>1, <1>6, <1>8, DeliveryInvFromRows

(* A delivery that still owns the lease is the message's last attempt. *)
LEMMA OwnerIsLastAttempt ==
    ASSUME TypeOK, DeliveryInv, NEW w \in Workers, NEW m \in Messages,
           job[w][m].phase # "idle", OwnsLease(w, m)
    PROVE  /\ row[m].status = "PENDING"
           /\ row[m].attempts = job[w][m].attempt
           /\ row[m].externalId = NoId
  <1>0. row[m] \in Row /\ row[m].attempts \in Nat
    BY DeliveryAssumption DEF TypeOK, Row
  <1>1. /\ job[w][m].lease = job[w][m].attempt
        /\ job[w][m].attempt \in 1..row[m].attempts
    BY DEF DeliveryInv, JobsAreCoherent
  <1>2. row[m].lease # 0 /\ row[m].lease = job[w][m].attempt
    BY <1>0, <1>1 DEF OwnsLease
  <1> QED
    BY <1>2 DEF OwnsLease, DeliveryInv, RowsAreCoherent

(* The fields of a settled row. *)
LEMMA SettledEffect ==
    ASSUME NEW r \in Row, NEW status, NEW code
    PROVE  /\ Settled(r, status, code).status = status
           /\ Settled(r, status, code).code = code
           /\ Settled(r, status, code).next = "null"
           /\ Settled(r, status, code).lease = 0
           /\ Settled(r, status, code).expires = "null"
           /\ Settled(r, status, code).attempts = r.attempts
           /\ Settled(r, status, code).externalId = r.externalId
  BY Zenon DEF Settled, Row

LEMMA markSentInv ==
    ASSUME TypeOK, TypeOK', DeliveryInv, NEW w \in Workers, NEW m \in Messages, markSent(w, m)
    PROVE  DeliveryInv'
  <1> DEFINE s == Settled(row[m], "SENT", "NONE")
             r == [s EXCEPT !.externalId = job[w][m].id]
  <1>1. row[m] \in Row /\ s \in Row
    BY RowOperatorsType DEF TypeOK, Statuses, Codes
  <1>2. /\ r.status = "SENT" /\ r.next = "null" /\ r.lease = 0 /\ r.expires = "null"
        /\ r.attempts = row[m].attempts /\ r.externalId = job[w][m].id
    <2>1. /\ s.status = "SENT" /\ s.next = "null" /\ s.lease = 0 /\ s.expires = "null"
          /\ s.attempts = row[m].attempts
      BY <1>1, SettledEffect
    <2> HIDE DEF s
    <2> QED
      BY <1>1, <2>1, Zenon DEF Row
  <1>3. row[m].attempts = job[w][m].attempt
    BY OwnerIsLastAttempt DEF markSent
  <1>4. [msg |-> m, attempt |-> job[w][m].attempt, id |-> job[w][m].id] \in accepted
    BY DEF markSent, DeliveryInv, JobsAreCoherent
  <1>5. RowGood(r, m, accepted)
    <2> DEFINE a == [msg |-> m, attempt |-> job[w][m].attempt, id |-> job[w][m].id]
    <2>1. a \in accepted /\ a.msg = m /\ a.attempt = r.attempts /\ r.externalId = a.id
      BY <1>2, <1>3, <1>4
    <2> HIDE DEF a, r
    <2> QED
      BY <1>2, <2>1 DEF RowGood
  <1>6. /\ row' = [row EXCEPT ![m] = r]
        /\ job' = [job EXCEPT ![w][m] = Idle]
        /\ UNCHANGED <<calls, accepted>>
    BY DEF markSent, Finalize
  <1> HIDE DEF r
  <1> QED
    BY <1>2, <1>5, <1>6, EndsInv

LEMMA markSentWithoutIdInv ==
    ASSUME TypeOK, TypeOK', DeliveryInv, NEW w \in Workers, NEW m \in Messages,
           markSentWithoutId(w, m)
    PROVE  DeliveryInv'
  <1> DEFINE r == Settled(row[m], "SENT", "EXTERNAL_ID_CONFLICT")
  <1>0. /\ row' = IF OwnsLease(w, m) THEN [row EXCEPT ![m] = r] ELSE row
        /\ job' = [job EXCEPT ![w][m] = Idle]
        /\ UNCHANGED <<calls, accepted>>
    BY DEF markSentWithoutId, Finalize
  <1>1. CASE OwnsLease(w, m)
    <2>1. row[m].attempts = job[w][m].attempt /\ row[m].externalId = NoId
      BY <1>1, OwnerIsLastAttempt DEF markSentWithoutId
    <2>2. /\ r.status = "SENT" /\ r.next = "null" /\ r.lease = 0 /\ r.expires = "null"
          /\ r.attempts = row[m].attempts /\ r.externalId = row[m].externalId
          /\ r.code = "EXTERNAL_ID_CONFLICT"
      BY SettledEffect DEF TypeOK
    <2>3. RowGood(r, m, accepted)
      <3> DEFINE a == [msg |-> m, attempt |-> job[w][m].attempt, id |-> job[w][m].id]
      <3>1. a \in accepted
        BY DEF markSentWithoutId, DeliveryInv, JobsAreCoherent
      <3>2. a.msg = m /\ a.attempt = r.attempts
        BY <2>1, <2>2
      <3> HIDE DEF a, r
      <3> QED
        BY <2>1, <2>2, <3>1, <3>2 DEF RowGood
    <2> HIDE DEF r
    <2> QED
      BY <1>0, <1>1, <2>2, <2>3, EndsInv
  <1>2. CASE ~OwnsLease(w, m)
    BY <1>0, <1>2, EndsInv
  <1> QED
    BY <1>1, <1>2

LEMMA markRetryInv ==
    ASSUME TypeOK, TypeOK', DeliveryInv, NEW w \in Workers, NEW m \in Messages, markRetry(w, m)
    PROVE  DeliveryInv'
  <1> DEFINE r == [row[m] EXCEPT !.next = "later", !.lease = 0,
                                 !.expires = "null", !.code = "FAILURE"]
  <1>0. /\ row' = IF OwnsLease(w, m) THEN [row EXCEPT ![m] = r] ELSE row
        /\ job' = [job EXCEPT ![w][m] = Idle]
        /\ UNCHANGED <<calls, accepted>>
    BY DEF markRetry, Finalize
  <1>1. CASE OwnsLease(w, m)
    <2>1. /\ row[m].status = "PENDING" /\ row[m].externalId = NoId
          /\ hasAttemptsLeft(row[m].attempts)
      BY <1>1, OwnerIsLastAttempt DEF markRetry
    <2>2. row[m] \in Row
      BY DEF TypeOK
    <2>3. /\ r.status = row[m].status /\ r.lease = 0 /\ r.expires = "null"
          /\ r.attempts = row[m].attempts /\ r.externalId = row[m].externalId
      BY <2>2, Zenon DEF Row
    <2> HIDE DEF r
    <2>4. RowGood(r, m, accepted)
      BY <2>1, <2>3 DEF RowGood
    <2> QED
      BY <1>0, <1>1, <2>3, <2>4, EndsInv
  <1>2. CASE ~OwnsLease(w, m)
    BY <1>0, <1>2, EndsInv
  <1> QED
    BY <1>1, <1>2

LEMMA markFailedInv ==
    ASSUME TypeOK, TypeOK', DeliveryInv, NEW w \in Workers, NEW m \in Messages, markFailed(w, m)
    PROVE  DeliveryInv'
  <1> DEFINE r == Settled(row[m], "FAILED", "FAILURE")
  <1>0. /\ row' = IF OwnsLease(w, m) THEN [row EXCEPT ![m] = r] ELSE row
        /\ job' = [job EXCEPT ![w][m] = Idle]
        /\ UNCHANGED <<calls, accepted>>
    BY DEF markFailed, Finalize
  <1>1. /\ r.status = "FAILED" /\ r.next = "null" /\ r.lease = 0 /\ r.expires = "null"
        /\ r.attempts = row[m].attempts
    BY SettledEffect DEF TypeOK
  <1> HIDE DEF r
  <1>2. RowGood(r, m, accepted)
    BY <1>1 DEF RowGood
  <1> QED
    BY <1>0, <1>1, <1>2, EndsInv

LEMMA DeliverInv ==
    ASSUME TypeOK, TypeOK', DeliveryInv, NEW w \in Workers, NEW m \in Messages, Deliver(w, m)
    PROVE  DeliveryInv'
  <1>0. {"sending", "conflict", "temporary", "permanent"}
            \subseteq Phases \ {"idle", "claimed", "accepted"}
    BY DEF Phases
  <1>1. CASE RefuseToSend(w, m)
    BY <1>1, WorkerLearns DEF RefuseToSend, Phases
  <1>2. CASE ReceiveRefusal(w, m)
    BY <1>2, WorkerLearns DEF ReceiveRefusal, Phases
  <1>3. CASE SendTimeout(w, m)
    BY <1>3, WorkerLearns DEF SendTimeout, Phases
  <1>4. CASE markSentMisses(w, m)
    BY <1>4, WorkerLearns DEF markSentMisses, Phases
  <1>5. CASE FinalizeError(w, m)
    BY <1>5, EndsInv DEF FinalizeError
  <1> QED
    BY <1>1, <1>2, <1>3, <1>4, <1>5, SendInv, ReceiveAcceptanceInv, markSentInv,
       markSentWithoutIdInv, markRetryInv, markFailedInv DEF Deliver

LEMMA CrashInv ==
    ASSUME TypeOK, TypeOK', DeliveryInv, NEW w \in Workers, Crash(w)
    PROVE  DeliveryInv'
  <1>0. UNCHANGED <<row, calls, accepted>>
    BY DEF Crash
  <1>1. \A n \in Messages : RowGood(row[n], n, accepted)'
    BY <1>0, RowsGood
  <1>2. \A n \in Messages : row[n].attempts \in Nat /\ row[n].attempts <= row'[n].attempts
    BY <1>0, DeliveryAssumption DEF TypeOK, Row
  <1>3. ASSUME NEW n \in Messages, NEW v \in Workers, job'[v][n].phase # "idle"
        PROVE  job[v][n].phase # "idle" /\ job'[v][n] = job[v][n]
    <2>1. v # w
      BY <1>3 DEF Crash, TypeOK, Idle
    <2>2. job'[v] = job[v]
      BY <2>1 DEF Crash, TypeOK
    <2> QED
      BY <1>3, <2>2
  <1>4. ASSUME NEW n \in Messages, NEW v \in Workers, job'[v][n].phase # "idle",
               job'[v][n].phase \in {"accepted", "conflict"}
        PROVE  [msg |-> n, attempt |-> job'[v][n].attempt, id |-> job'[v][n].id]
                   \in accepted'
    <2>1. job[v][n].phase \in {"accepted", "conflict"} /\ job'[v][n] = job[v][n]
      BY <1>3, <1>4
    <2>2. [msg |-> n, attempt |-> job[v][n].attempt, id |-> job[v][n].id] \in accepted
      BY <2>1 DEF DeliveryInv, JobsAreCoherent
    <2> QED
      BY <1>0, <2>1, <2>2
  <1>5. JobsAreCoherent'
    BY <1>2, <1>3, <1>4, JobsMoveOn DEF DeliveryInv
  <1>6. ASSUME NEW n \in Messages
        PROVE  Unsent(n)' \subseteq Unsent(n)
    BY <1>3 DEF Unsent
  <1>7. CallsAreBudgeted'
    BY <1>0, <1>2, <1>6, BudgetKept DEF DeliveryInv, CallsAreBudgeted
  <1> QED
    BY <1>1, <1>5, <1>7, DeliveryInvFromRows

(* Steps of the environment: deliveries stay as they are, no attempt is counted. *)
LEMMA EnvironmentInv ==
    ASSUME TypeOK, TypeOK', DeliveryInv,
           \A m \in Messages : RowGood(row'[m], m, accepted'),
           \A m \in Messages : row'[m].attempts = row[m].attempts,
           UNCHANGED <<job, calls>>,
           accepted \subseteq accepted'
    PROVE  DeliveryInv'
  <1>1. \A m \in Messages : RowGood(row[m], m, accepted)'
    OBVIOUS
  <1>2. \A n \in Messages : row[n].attempts \in Nat
    BY DeliveryAssumption DEF TypeOK, Row
  <1>3. \A n \in Messages : row[n].attempts <= row'[n].attempts
    BY <1>2
  <1>4. ASSUME NEW n \in Messages, NEW v \in Workers, job'[v][n].phase # "idle",
               job'[v][n].phase \in {"accepted", "conflict"}
        PROVE  [msg |-> n, attempt |-> job'[v][n].attempt, id |-> job'[v][n].id]
                   \in accepted'
    BY <1>4 DEF DeliveryInv, JobsAreCoherent
  <1>5. JobsAreCoherent'
    BY <1>3, <1>4, JobsMoveOn DEF DeliveryInv
  <1>6. ASSUME NEW n \in Messages
        PROVE  Unsent(n)' \subseteq Unsent(n)
    BY DEF Unsent
  <1>7. CallsAreBudgeted'
    BY <1>3, <1>6, BudgetKept DEF DeliveryInv, CallsAreBudgeted
  <1> QED
    BY <1>1, <1>5, <1>7, DeliveryInvFromRows

LEMMA TimeInv ==
    ASSUME TypeOK, TypeOK', DeliveryInv, NEW m \in Messages,
           LeaseExpires(m) \/ BackoffElapses(m)
    PROVE  DeliveryInv'
  <1>0. /\ row[m] \in Row
        /\ UNCHANGED <<job, calls, accepted>>
        /\ \A n \in Messages \ {m} : row'[n] = row[n]
        /\ RowGood(row[m], m, accepted)
    BY RowsGood DEF LeaseExpires, BackoffElapses, TypeOK
  <1>1. CASE LeaseExpires(m)
    <2>1. row'[m] = [row[m] EXCEPT !.expires = "past"]
      BY <1>1 DEF LeaseExpires, TypeOK
    <2>2. /\ row'[m].status = row[m].status /\ row'[m].next = row[m].next
          /\ row'[m].attempts = row[m].attempts /\ row'[m].lease = row[m].lease
          /\ row'[m].externalId = row[m].externalId /\ row'[m].code = row[m].code
          /\ row'[m].expires = "past" /\ row[m].expires = "future"
      BY <1>0, <1>1, <2>1 DEF LeaseExpires, Row
    <2>3. row[m].lease # 0 /\ row[m].status = "PENDING"
      BY <1>0, <2>2 DEF RowGood
    <2>4. RowGood(row'[m], m, accepted)
      BY <1>0, <2>2, <2>3 DEF RowGood
    <2> QED
      BY <1>0, <2>2, <2>4, RowsGood, EnvironmentInv
  <1>2. CASE BackoffElapses(m)
    <2>1. row'[m] = [row[m] EXCEPT !.next = "due"]
      BY <1>2 DEF BackoffElapses, TypeOK
    <2>2. /\ row'[m].status = row[m].status /\ row'[m].expires = row[m].expires
          /\ row'[m].attempts = row[m].attempts /\ row'[m].lease = row[m].lease
          /\ row'[m].externalId = row[m].externalId /\ row'[m].code = row[m].code
          /\ row'[m].next = "due" /\ row[m].next = "later"
      BY <1>0, <1>2, <2>1 DEF BackoffElapses, Row
    <2>3. row[m].status = "PENDING"
      BY <1>0, <2>2 DEF RowGood
    <2>4. RowGood(row'[m], m, accepted)
      BY <1>0, <2>2, <2>3 DEF RowGood
    <2> QED
      BY <1>0, <2>2, <2>4, RowsGood, EnvironmentInv
  <1> QED
    BY <1>1, <1>2

LEMMA ProviderInv ==
    ASSUME TypeOK, TypeOK', DeliveryInv, Provider
    PROVE  DeliveryInv'
  <1>1. UNCHANGED <<row, job, calls>> /\ accepted \subseteq accepted'
    BY DEF Provider, ProviderAccepts, ProviderRefuses
  <1>2. \A m \in Messages : RowGood(row'[m], m, accepted')
    BY <1>1, RowsGood, RowGoodMonotone
  <1> QED
    BY <1>1, <1>2, EnvironmentInv

LEMMA applyStatusInv ==
    ASSUME TypeOK, TypeOK', DeliveryInv, NEW id \in Ids, NEW status \in MetaStatuses,
           applyStatus(id, status)
    PROVE  DeliveryInv'
  <1>1. UNCHANGED <<job, calls, accepted>>
    BY DEF applyStatus
  <1>2. ASSUME NEW m \in Messages
        PROVE  RowGood(row'[m], m, accepted') /\ row'[m].attempts = row[m].attempts
    <2>0. row[m] \in Row /\ RowGood(row[m], m, accepted)
      BY RowsGood DEF TypeOK
    <2>1. CASE row[m].externalId = id /\ row[m].status \in ADVANCES_FROM[status]
      <3> DEFINE target == META_STATUS_TARGET[status]
                 code == IF status = "failed" THEN "WA_FAILED" ELSE row[m].code
      <3>1. row'[m] = [row[m] EXCEPT !.status = target, !.code = code]
        BY <2>1 DEF applyStatus
      <3>2. row[m].status \in {"SENT", "DELIVERED"}
        BY <2>1 DEF ADVANCES_FROM, MetaStatuses
      <3>3. target \in {"SENT", "DELIVERED", "READ", "FAILED"}
        BY DEF META_STATUS_TARGET, MetaStatuses
      <3>4. row[m].externalId # NoId
        BY <2>1, DeliveryAssumption
      <3> HIDE DEF target, code
      <3>5. /\ row'[m].status = target /\ row'[m].next = row[m].next
            /\ row'[m].attempts = row[m].attempts /\ row'[m].lease = row[m].lease
            /\ row'[m].expires = row[m].expires
            /\ row'[m].externalId = row[m].externalId
        BY <2>0, <3>1, Zenon DEF Row
      <3>6. RowGood(row'[m], m, accepted)
        BY <2>0, <3>2, <3>3, <3>4, <3>5 DEF RowGood
      <3> QED
        BY <1>1, <3>5, <3>6
    <2>2. CASE ~(row[m].externalId = id /\ row[m].status \in ADVANCES_FROM[status])
      BY <1>1, <2>0, <2>2 DEF applyStatus
    <2> QED
      BY <2>1, <2>2
  <1> QED
    BY <1>1, <1>2, EnvironmentInv

LEMMA NextInv ==
    ASSUME TypeOK, DeliveryInv, [Next]_vars
    PROVE  DeliveryInv'
  <1>0. TypeOK'
    BY NextType
  <1>1. CASE UNCHANGED vars
    <2>1. \A m \in Messages : RowGood(row'[m], m, accepted') /\ row'[m].attempts = row[m].attempts
      BY <1>1, RowsGood DEF vars
    <2> QED
      BY <1>0, <1>1, <2>1, EnvironmentInv DEF vars
  <1> QED
    BY <1>0, <1>1, CreateInv, TimeInv, ClaimInv, DeliverInv, CrashInv, ProviderInv,
       applyStatusInv DEF Next

(***************************************************************************)
(* Rows, deliveries in flight, provider calls and acceptances always agree *)
(* with one another, whatever crashes, expired leases and late answers do. *)
(***************************************************************************)
THEOREM DeliveryCorrect == Spec => []DeliveryInv
  <1>1. Init => TypeOK /\ DeliveryInv
    BY InitType, InitInv
  <1>2. TypeOK /\ DeliveryInv /\ [Next]_vars => (TypeOK /\ DeliveryInv)'
    BY NextType, NextInv
  <1> QED
    BY <1>1, <1>2, PTL DEF Spec

(***************************************************************************)
(* The provider is never called for a message more often than the attempts *)
(* the claims counted on its row.                                          *)
(***************************************************************************)
THEOREM CallsStayWithinAttempts == Spec => []CallsWithinAttempts
  <1>1. TypeOK /\ DeliveryInv => CallsWithinAttempts
    <2> SUFFICES ASSUME TypeOK, DeliveryInv, NEW m \in Messages
                 PROVE  calls[m] <= row[m].attempts
      BY DEF CallsWithinAttempts
    <2>1. calls[m] + Cardinality(Unsent(m)) <= row[m].attempts
      BY DEF DeliveryInv, CallsAreBudgeted
    <2>2. calls[m] \in Nat /\ row[m].attempts \in Nat
      BY DeliveryAssumption DEF TypeOK, Row
    <2> QED
      BY <2>1, <2>2, UnsentFinite
  <1> QED
    BY <1>1, TypeCorrect, DeliveryCorrect, PTL

(***************************************************************************)
(* A message of an external channel that reads SENT, DELIVERED or READ was *)
(* accepted by the provider, on the last attempt counted.                  *)
(***************************************************************************)
THEOREM SentMeansAccepted == Spec => []SentWasAccepted
  BY DeliveryCorrect, PTL DEF DeliveryInv

(***************************************************************************)
(* A PENDING message without attempts left is leased by its last attempt.  *)
(***************************************************************************)
THEOREM LastAttemptKeepsItsLease == Spec => []LastAttemptIsLeased
  BY DeliveryCorrect, PTL DEF DeliveryInv

(***************************************************************************)
(* The CHECK constraints of the delivery columns never fire.               *)
(***************************************************************************)
THEOREM OnlyPendingStaysQueued == Spec => []OnlyPendingIsQueued
  BY DeliveryCorrect, PTL DEF DeliveryInv

(***************************************************************************)
(* No two deliveries of one message both hold its lease, so at most one of *)
(* them can write its outcome.                                             *)
(***************************************************************************)
THEOREM LeaseHolderIsUnique == Spec => []OneLeaseHolder
  <1>1. TypeOK /\ DeliveryInv => OneLeaseHolder
    <2> SUFFICES ASSUME TypeOK, DeliveryInv, NEW m \in Messages,
                        NEW w \in Workers, NEW v \in Workers,
                        job[w][m].phase # "idle", OwnsLease(w, m),
                        job[v][m].phase # "idle", OwnsLease(v, m)
                 PROVE  w = v
      BY DEF OneLeaseHolder
    <2>1. job[w][m].attempt = job[v][m].attempt
      BY OwnerIsLastAttempt
    <2> QED
      BY <2>1 DEF DeliveryInv, JobsAreCoherent
  <1> QED
    BY <1>1, TypeCorrect, DeliveryCorrect, PTL
-----------------------------------------------------------------------------
(***************************************************************************)
(* What a step can do to one row, by its cause.  The action properties and *)
(* the refinement only need this much of the actions.                      *)
(***************************************************************************)

SameIdentity(m) ==
    row'[m].attempts = row[m].attempts /\ row'[m].externalId = row[m].externalId

Created(m) ==
    /\ row[m].status = "ABSENT"
    /\ row'[m].status = IF m \in Manual THEN "SENT" ELSE "PENDING"
    /\ row'[m].lease = row[m].lease /\ SameIdentity(m)

TimePassed(m) ==
    row'[m].status = row[m].status /\ row'[m].lease = row[m].lease /\ SameIdentity(m)

GivenUp(m) ==
    /\ m \in Exhausted /\ row'[m].status = "FAILED" /\ SameIdentity(m)

Taken(m) ==
    /\ m \in Due /\ row'[m].status = "PENDING"
    /\ row'[m].attempts = row[m].attempts + 1
    /\ row'[m].externalId = row[m].externalId

\* By the delivery of w, which still owned the lease and ends with the step.
Finished(w, m) ==
    /\ job[w][m].phase # "idle" /\ OwnsLease(w, m) /\ job'[w][m].phase = "idle"
    /\ row'[m].attempts = row[m].attempts
    /\ \/ /\ job[w][m].phase \in {"accepted", "conflict"}
          /\ row'[m].status = "SENT"
          /\ \/ row'[m].externalId = row[m].externalId
             \/ row'[m].externalId = job[w][m].id /\ IdIsFree(m, job[w][m].id)
       \/ /\ job[w][m].phase \in {"temporary", "permanent"}
          /\ row'[m].status \in {"PENDING", "FAILED"}
          /\ row'[m].externalId = row[m].externalId

Confirmed(m) ==
    /\ \/ row[m].status = "SENT" /\ row'[m].status \in {"DELIVERED", "READ", "FAILED"}
       \/ row[m].status = "DELIVERED" /\ row'[m].status = "READ"
    /\ row[m].externalId # NoId
    /\ row'[m].lease = row[m].lease /\ SameIdentity(m)

RowStep(m) ==
    \/ Created(m) \/ TimePassed(m) \/ GivenUp(m) \/ Taken(m) \/ Confirmed(m)
    \/ \E w \in Workers : Finished(w, m)

LEMMA RowUnchanged ==
    ASSUME NEW m \in Messages, row'[m] = row[m]
    PROVE  TimePassed(m)
  BY DEF TimePassed, SameIdentity

LEMMA CreateEffect ==
    ASSUME TypeOK, NEW m \in Messages, Create(m)
    PROVE  Created(m) /\ \A n \in Messages \ {m} : row'[n] = row[n]
  <1>1. row[m] \in Row
    BY DEF TypeOK
  <1>2. row'[m] = IF m \in Manual THEN [row[m] EXCEPT !.status = "SENT"]
                  ELSE [row[m] EXCEPT !.status = "PENDING", !.next = "due"]
    BY DEF Create, TypeOK, requiresExternalDelivery
  <1>3. /\ row'[m].status = IF m \in Manual THEN "SENT" ELSE "PENDING"
        /\ row'[m].lease = row[m].lease
        /\ row'[m].attempts = row[m].attempts
        /\ row'[m].externalId = row[m].externalId
    BY <1>1, <1>2 DEF Row
  <1>4. \A n \in Messages \ {m} : row'[n] = row[n]
    BY DEF Create, TypeOK
  <1> QED
    BY <1>3, <1>4 DEF Create, Created, SameIdentity

LEMMA TimeEffect ==
    ASSUME TypeOK, NEW m \in Messages, LeaseExpires(m) \/ BackoffElapses(m)
    PROVE  \A n \in Messages : TimePassed(n)
  <1>1. row[m] \in Row
    BY DEF TypeOK
  <1>2. \/ row'[m] = [row[m] EXCEPT !.expires = "past"]
        \/ row'[m] = [row[m] EXCEPT !.next = "due"]
    BY DEF LeaseExpires, BackoffElapses, TypeOK
  <1>3. \A n \in Messages \ {m} : row'[n] = row[n]
    BY DEF LeaseExpires, BackoffElapses, TypeOK
  <1>4. TimePassed(m)
    BY <1>1, <1>2 DEF Row, TimePassed, SameIdentity
  <1> QED
    BY <1>3, <1>4, RowUnchanged

LEMMA ClaimEffect ==
    ASSUME TypeOK, NEW w \in Workers, NEW batch \in SUBSET Due, Claim(w, batch),
           NEW m \in Messages
    PROVE  /\ m \in Exhausted => GivenUp(m)
           /\ m \in batch => Taken(m) /\ m \notin Exhausted
           /\ m \notin Exhausted \cup batch => row'[m] = row[m]
  <1>1. row[m] \in Row
    BY DEF TypeOK
  <1>2. row'[m] = IF m \in Exhausted THEN GiveUp(row[m])
                  ELSE IF m \in batch THEN TakeLease(row[m])
                  ELSE row[m]
    BY DEF Claim
  <1>3. m \in batch => m \notin Exhausted /\ m \in Due
    BY DEF Due, Exhausted
  <1>4. ASSUME m \in Exhausted
        PROVE  GivenUp(m)
    <2>1. /\ row'[m].status = "FAILED" /\ row'[m].attempts = row[m].attempts
          /\ row'[m].externalId = row[m].externalId
      BY <1>1, <1>2, <1>4, Zenon DEF GiveUp, Row
    <2> QED
      BY <1>4, <2>1 DEF GivenUp, SameIdentity
  <1>5. ASSUME m \in batch
        PROVE  Taken(m)
    BY <1>1, <1>2, <1>3, <1>5, TakeLeaseEffect DEF Taken, Due
  <1> QED
    BY <1>2, <1>3, <1>4, <1>5

LEMMA FinishEffect ==
    ASSUME TypeOK, NEW w \in Workers, NEW m \in Messages,
           \/ markSent(w, m) \/ markSentWithoutId(w, m)
           \/ markRetry(w, m) \/ markFailed(w, m)
    PROVE  /\ Finished(w, m) \/ row' = row
           /\ \A n \in Messages \ {m} : row'[n] = row[n]
           /\ job' = [job EXCEPT ![w][m] = Idle]
           /\ UNCHANGED <<calls, wire, accepted>>
  <1>0. row[m] \in Row
    BY DEF TypeOK
  <1>1. ASSUME NEW r, Finalize(w, m, r)
        PROVE  /\ \A n \in Messages \ {m} : row'[n] = row[n]
               /\ job' = [job EXCEPT ![w][m] = Idle]
               /\ UNCHANGED <<calls, wire, accepted>>
               /\ row' = row \/ (OwnsLease(w, m) /\ row'[m] = r)
               /\ job'[w][m].phase = "idle"
    BY <1>1 DEF Finalize, TypeOK, Idle
  <1>2. CASE markSent(w, m)
    <2> DEFINE s == Settled(row[m], "SENT", "NONE")
               r == [s EXCEPT !.externalId = job[w][m].id]
    <2>1. s \in Row /\ s.status = "SENT" /\ s.attempts = row[m].attempts
      <3>1. s \in Row
        BY <1>0, RowOperatorsType DEF Statuses, Codes
      <3> QED
        BY <1>0, <3>1, SettledEffect
    <2>2. Finalize(w, m, r)
      BY <1>2 DEF markSent
    <2> HIDE DEF s
    <2>3. r.status = "SENT" /\ r.attempts = row[m].attempts /\ r.externalId = job[w][m].id
      BY <2>1, Zenon DEF Row
    <2> HIDE DEF r
    <2> QED
      BY <1>1, <1>2, <2>2, <2>3 DEF markSent, Finished
  <1>3. CASE markSentWithoutId(w, m)
    <2> DEFINE r == Settled(row[m], "SENT", "EXTERNAL_ID_CONFLICT")
    <2>1. /\ r.status = "SENT" /\ r.attempts = row[m].attempts
          /\ r.externalId = row[m].externalId
      BY <1>0, SettledEffect
    <2>2. Finalize(w, m, r)
      BY <1>3 DEF markSentWithoutId
    <2> HIDE DEF r
    <2> QED
      BY <1>1, <1>3, <2>1, <2>2 DEF markSentWithoutId, Finished
  <1>4. CASE markRetry(w, m)
    <2> DEFINE r == [row[m] EXCEPT !.next = "later", !.lease = 0,
                                   !.expires = "null", !.code = "FAILURE"]
    <2>1. /\ r.status = row[m].status /\ r.attempts = row[m].attempts
          /\ r.externalId = row[m].externalId
      BY <1>0, Zenon DEF Row
    <2>2. Finalize(w, m, r)
      BY <1>4 DEF markRetry
    <2> HIDE DEF r
    <2> QED
      BY <1>1, <1>4, <2>1, <2>2 DEF markRetry, Finished, OwnsLease
  <1>5. CASE markFailed(w, m)
    <2> DEFINE r == Settled(row[m], "FAILED", "FAILURE")
    <2>1. /\ r.status = "FAILED" /\ r.attempts = row[m].attempts
          /\ r.externalId = row[m].externalId
      BY <1>0, SettledEffect
    <2>2. Finalize(w, m, r)
      BY <1>5 DEF markFailed
    <2> HIDE DEF r
    <2> QED
      BY <1>1, <1>5, <2>1, <2>2 DEF markFailed, Finished
  <1> QED
    BY <1>2, <1>3, <1>4, <1>5

LEMMA ConfirmEffect ==
    ASSUME TypeOK, NEW id \in Ids, NEW status \in MetaStatuses, applyStatus(id, status),
           NEW m \in Messages
    PROVE  /\ row[m].externalId = id /\ row[m].status \in ADVANCES_FROM[status] => Confirmed(m)
           /\ ~(row[m].externalId = id /\ row[m].status \in ADVANCES_FROM[status])
                => row'[m] = row[m]
  <1>1. CASE row[m].externalId = id /\ row[m].status \in ADVANCES_FROM[status]
    <2> DEFINE target == META_STATUS_TARGET[status]
               code == IF status = "failed" THEN "WA_FAILED" ELSE row[m].code
    <2>1. row'[m] = [row[m] EXCEPT !.status = target, !.code = code]
      BY <1>1 DEF applyStatus
    <2>2. \/ row[m].status = "SENT" /\ target \in {"DELIVERED", "READ", "FAILED"}
          \/ row[m].status = "DELIVERED" /\ target = "READ"
      BY <1>1 DEF ADVANCES_FROM, META_STATUS_TARGET, MetaStatuses
    <2>3. row[m].externalId # NoId /\ row[m] \in Row
      BY <1>1, DeliveryAssumption DEF TypeOK
    <2> HIDE DEF target, code
    <2>4. /\ row'[m].status = target /\ row'[m].lease = row[m].lease
          /\ row'[m].attempts = row[m].attempts /\ row'[m].externalId = row[m].externalId
      BY <2>1, <2>3, Zenon DEF Row
    <2> QED
      BY <1>1, <2>2, <2>3, <2>4 DEF Confirmed, SameIdentity
  <1>2. CASE ~(row[m].externalId = id /\ row[m].status \in ADVANCES_FROM[status])
    BY <1>2 DEF applyStatus
  <1> QED
    BY <1>1, <1>2

LEMMA EveryRowStep ==
    ASSUME TypeOK, [Next]_vars, NEW m \in Messages
    PROVE  RowStep(m)
  <1> USE DEF RowStep
  <1>1. ASSUME NEW n \in Messages, Create(n)
        PROVE  RowStep(m)
    BY <1>1, CreateEffect, RowUnchanged
  <1>2. ASSUME NEW n \in Messages, LeaseExpires(n) \/ BackoffElapses(n)
        PROVE  RowStep(m)
    BY <1>2, TimeEffect
  <1>3. ASSUME NEW w \in Workers, NEW batch \in SUBSET Due, Claim(w, batch)
        PROVE  RowStep(m)
    BY <1>3, ClaimEffect, RowUnchanged
  <1>4. ASSUME NEW w \in Workers, NEW n \in Messages, Deliver(w, n)
        PROVE  RowStep(m)
    <2>1. CASE \/ markSent(w, n) \/ markSentWithoutId(w, n)
               \/ markRetry(w, n) \/ markFailed(w, n)
      BY <2>1, FinishEffect, RowUnchanged
    <2>2. CASE ~(\/ markSent(w, n) \/ markSentWithoutId(w, n)
                 \/ markRetry(w, n) \/ markFailed(w, n))
      <3>1. UNCHANGED row
        BY <1>4, <2>2 DEF Deliver, RefuseToSend, Send, ReceiveAcceptance, ReceiveRefusal,
                         SendTimeout, markSentMisses, FinalizeError
      <3> QED
        BY <3>1, RowUnchanged
    <2> QED
      BY <2>1, <2>2
  <1>5. ASSUME NEW id \in Ids, NEW status \in MetaStatuses, applyStatus(id, status)
        PROVE  RowStep(m)
    BY <1>5, ConfirmEffect, RowUnchanged
  <1>6. CASE UNCHANGED row
    BY <1>6, RowUnchanged
  <1> QED
    BY <1>1, <1>2, <1>3, <1>4, <1>5, <1>6
    DEF Next, vars, Crash, Provider, ProviderAccepts, ProviderRefuses
-----------------------------------------------------------------------------

(***************************************************************************)
(* A status only moves forward, whatever the workers and the callbacks do, *)
(* and FAILED never replaces DELIVERED or READ.                            *)
(***************************************************************************)
THEOREM StatusMovesForward == Spec => StatusForwardOnly
  <1>1. ASSUME TypeOK, [Next]_vars, NEW m \in Messages, row'[m].status # row[m].status
        PROVE  /\ Rank[row[m].status] < Rank[row'[m].status]
               /\ row'[m].status = "FAILED" => row[m].status \in {"PENDING", "SENT"}
    <2>1. \/ row[m].status = "ABSENT" /\ row'[m].status \in {"SENT", "PENDING"}
          \/ row[m].status = "PENDING" /\ row'[m].status \in {"SENT", "FAILED"}
          \/ row[m].status = "SENT" /\ row'[m].status \in {"DELIVERED", "READ", "FAILED"}
          \/ row[m].status = "DELIVERED" /\ row'[m].status = "READ"
      BY <1>1, EveryRowStep DEF RowStep, Created, TimePassed, GivenUp, Taken, Finished,
         Confirmed, Exhausted, Due, OwnsLease
    <2> QED
      BY <2>1 DEF Rank
  <1>2. TypeOK /\ [Next]_vars =>
          [\A m \in Messages :
             row'[m].status # row[m].status =>
                 /\ Rank[row[m].status] < Rank[row'[m].status]
                 /\ row'[m].status = "FAILED" => row[m].status \in {"PENDING", "SENT"}]_vars
    BY <1>1
  <1> QED
    BY <1>2, TypeCorrect, PTL DEF Spec, StatusForwardOnly

(***************************************************************************)
(* A lease that has not expired is given up only by the delivery that took *)
(* it, which ends in that step: no poll takes the message over, and none   *)
(* counts it as exhausted.                                                 *)
(***************************************************************************)
THEOREM LiveLeasesAreRespected == Spec => LiveLeaseIsRespected
  <1>1. ASSUME TypeOK, DeliveryInv, [Next]_vars, NEW m \in Messages,
               row[m].expires = "future", row'[m].lease # row[m].lease
        PROVE  \E w \in Workers : /\ job[w][m].phase # "idle" /\ job[w][m].lease = row[m].lease
                                  /\ job'[w][m].phase = "idle"
    <2>1. ~Unleased(row[m])
      BY <1>1 DEF Unleased, DeliveryInv, OnlyPendingIsQueued
    <2>2. \E w \in Workers : Finished(w, m)
      BY <1>1, <2>1, EveryRowStep DEF RowStep, Created, TimePassed, GivenUp, Taken,
         Confirmed, Exhausted, Due
    <2> QED
      BY <2>2 DEF Finished, OwnsLease
  <1>2. TypeOK /\ DeliveryInv /\ [Next]_vars =>
          [\A m \in Messages :
             row[m].expires = "future" /\ row'[m].lease # row[m].lease =>
                 \E w \in Workers :
                     /\ job[w][m].phase # "idle" /\ job[w][m].lease = row[m].lease
                     /\ job'[w][m].phase = "idle"]_vars
    BY <1>1
  <1> QED
    BY <1>2, TypeCorrect, DeliveryCorrect, PTL DEF Spec, LiveLeaseIsRespected

(***************************************************************************)
(* The holder of a live lease that knows of an acceptance leaves the       *)
(* message SENT, whoever else acts on it meanwhile.                        *)
(***************************************************************************)
THEOREM AcceptancesAreRecorded == Spec => AcceptanceIsRecorded
  <1>1. ASSUME TypeOK, DeliveryInv, [Next]_vars, NEW w \in Workers, NEW m \in Messages,
               job[w][m].phase \in {"accepted", "conflict"}, OwnsLease(w, m),
               row[m].expires = "future", row'[m].lease # row[m].lease
        PROVE  row'[m].status = "SENT"
    <2>1. ~Unleased(row[m])
      BY <1>1 DEF Unleased, DeliveryInv, OnlyPendingIsQueued
    <2>2. PICK v \in Workers : Finished(v, m)
      BY <1>1, <2>1, EveryRowStep DEF RowStep, Created, TimePassed, GivenUp, Taken,
         Confirmed, Exhausted, Due
    <2>3. job[w][m].attempt = job[v][m].attempt
      BY <1>1, <2>2, OwnerIsLastAttempt DEF Finished
    <2>4. v = w
      BY <1>1, <2>2, <2>3 DEF Finished, DeliveryInv, JobsAreCoherent
    <2> QED
      BY <1>1, <2>2, <2>4 DEF Finished
  <1>2. TypeOK /\ DeliveryInv /\ [Next]_vars =>
          [\A w \in Workers, m \in Messages :
             /\ job[w][m].phase \in {"accepted", "conflict"}
             /\ OwnsLease(w, m) /\ row[m].expires = "future"
             /\ row'[m].lease # row[m].lease
             => row'[m].status = "SENT"]_vars
    BY <1>1
  <1> QED
    BY <1>2, TypeCorrect, DeliveryCorrect, PTL DEF Spec, AcceptanceIsRecorded
-----------------------------------------------------------------------------
(***************************************************************************)
(* The refinement.  PromiseInv says that every copy of a message was a     *)
(* call of its own and that an id names one message.  It is preserved:     *)
(* a request is made for an attempt no other request was made for.         *)
(***************************************************************************)

LEMMA AttemptsGrow ==
    ASSUME TypeOK, TypeOK', [Next]_vars, NEW m \in Messages
    PROVE  /\ row[m].attempts \in Nat /\ row'[m].attempts \in Nat
           /\ row[m].attempts <= row'[m].attempts
  <1>1. row[m].attempts \in Nat /\ row'[m].attempts \in Nat
    BY DeliveryAssumption DEF TypeOK, Row
  <1>2. row'[m].attempts = row[m].attempts \/ row'[m].attempts = row[m].attempts + 1
    BY EveryRowStep DEF RowStep, Created, TimePassed, GivenUp, Taken, Finished, Confirmed,
       SameIdentity
  <1> QED
    BY <1>1, <1>2

LEMMA SetsOfAMessage ==
    ASSUME TypeOK, NEW m \in Messages
    PROVE  /\ Undecided(m) \subseteq Nat
           /\ IsFiniteSet(Undecided(m))
           /\ \A a \in Copies(m) : a \in accepted /\ a.msg = m /\ a.attempt \in Nat
  <1>1. 1..MaxAttempts \subseteq Nat /\ IsFiniteSet(1..MaxAttempts)
    BY DeliveryAssumption, FS_Interval
  <1>2. Undecided(m) \in SUBSET (1..MaxAttempts)
    BY DEF Undecided
  <1>3. IsFiniteSet(Undecided(m))
    BY <1>1, <1>2, FS_Subset
  <1>4. 0..MaxAttempts \subseteq Nat
    BY DeliveryAssumption
  <1> QED
    BY <1>1, <1>2, <1>3, <1>4 DEF Copies, TypeOK, Accepts

(* Where no request starts or ends, the bookkeeping of requests stays right. *)
LEMMA RequestsStay ==
    ASSUME TypeOK, TypeOK', [Next]_vars, RequestedOnce, CopiesAreCalled, NEW m \in Messages,
           Undecided(m)' = Undecided(m), Copies(m)' = Copies(m), calls'[m] = calls[m],
           \A w \in Unsent(m)' : w \in Unsent(m) /\ job'[w][m].attempt = job[w][m].attempt
    PROVE  /\ \A a \in Copies(m)' : a.attempt \notin Undecided(m)' /\ a.attempt <= row'[m].attempts
           /\ \A attempt \in Undecided(m)' : attempt <= row'[m].attempts
           /\ \A w \in Unsent(m)' :
                 /\ job'[w][m].attempt \notin Undecided(m)'
                 /\ \A a \in Copies(m)' : a.attempt # job'[w][m].attempt
           /\ IsFiniteSet(Copies(m)')
           /\ Cardinality(Undecided(m)') + Cardinality(Copies(m)') <= calls'[m]
  <1>1. /\ row[m].attempts \in Nat /\ row'[m].attempts \in Nat
        /\ row[m].attempts <= row'[m].attempts
    BY AttemptsGrow
  <1>2. ASSUME NEW a \in Copies(m)
        PROVE  a.attempt \notin Undecided(m) /\ a.attempt <= row'[m].attempts
    BY <1>1, SetsOfAMessage DEF RequestedOnce
  <1>3. ASSUME NEW attempt \in Undecided(m)
        PROVE  attempt <= row'[m].attempts
    <2>1. attempt \in Nat /\ attempt <= row[m].attempts
      BY SetsOfAMessage DEF RequestedOnce
    <2> QED
      BY <1>1, <2>1
  <1>4. ASSUME NEW w \in Unsent(m)'
        PROVE  /\ job'[w][m].attempt \notin Undecided(m)
               /\ \A a \in Copies(m) : a.attempt # job'[w][m].attempt
    BY DEF RequestedOnce
  <1> QED
    BY <1>2, <1>3, <1>4 DEF CopiesAreCalled

LEMMA RequestsKept ==
    ASSUME TypeOK, TypeOK', [Next]_vars, RequestedOnce, CopiesAreCalled,
           UNCHANGED <<calls, wire, accepted>>,
           \A w \in Workers, m \in Messages :
               job'[w][m].phase = "claimed" => job'[w][m] = job[w][m]
    PROVE  RequestedOnce' /\ CopiesAreCalled'
  <1>1. ASSUME NEW m \in Messages
        PROVE  /\ Undecided(m)' = Undecided(m) /\ Copies(m)' = Copies(m)
               /\ calls'[m] = calls[m]
               /\ \A w \in Unsent(m)' : w \in Unsent(m) /\ job'[w][m].attempt = job[w][m].attempt
    BY DEF Undecided, Copies, Unsent
  <1> QED
    BY <1>1, RequestsStay DEF RequestedOnce, CopiesAreCalled

(* A claim hands out an attempt that was not counted before. *)
LEMMA ClaimRequests ==
    ASSUME TypeOK, TypeOK', RequestedOnce, CopiesAreCalled,
           NEW w \in Workers, NEW batch \in SUBSET Due, Claim(w, batch)
    PROVE  RequestedOnce' /\ CopiesAreCalled'
  <1>0. [Next]_vars
    BY DEF Next
  <1>1. UNCHANGED <<calls, wire, accepted>>
    BY DEF Claim
  <1>2. ASSUME NEW m \in Messages
        PROVE  /\ Undecided(m)' = Undecided(m) /\ Copies(m)' = Copies(m)
               /\ calls'[m] = calls[m]
    BY <1>1 DEF Undecided, Copies
  <1>3. ASSUME NEW m \in Messages, NEW v \in Unsent(m)'
        PROVE  \/ v \in Unsent(m) /\ job'[v][m] = job[v][m]
               \/ job'[v][m].attempt = row[m].attempts + 1
    <2>1. CASE v # w
      BY <1>3, <2>1 DEF Claim, TypeOK, Unsent
    <2>2. CASE v = w
      <3>1. job'[w][m] = IF m \in batch THEN Claimed(TakeLease(row[m])) ELSE Idle
        BY DEF Claim, TypeOK
      <3>2. m \in batch
        BY <1>3, <2>2, <3>1 DEF Unsent, Idle
      <3>3. job'[w][m].attempt = TakeLease(row[m]).attempts
        BY <3>1, <3>2 DEF Claimed
      <3> QED
        BY <2>2, <3>3, TakeLeaseEffect DEF TypeOK
    <2> QED
      BY <2>1, <2>2
  <1>4. ASSUME NEW m \in Messages
        PROVE  /\ \A a \in Copies(m) : a.attempt < row[m].attempts + 1
               /\ \A attempt \in Undecided(m) : attempt < row[m].attempts + 1
               /\ row[m].attempts <= row'[m].attempts
               /\ row[m].attempts \in Nat /\ row'[m].attempts \in Nat
    BY <1>0, AttemptsGrow, SetsOfAMessage DEF RequestedOnce
  <1>5. RequestedOnce'
    <2> SUFFICES ASSUME NEW m \in Messages
                 PROVE  /\ \A a \in Copies(m) : a.attempt \notin Undecided(m)
                                                /\ a.attempt <= row'[m].attempts
                        /\ \A attempt \in Undecided(m) : attempt <= row'[m].attempts
                        /\ \A v \in Unsent(m)' :
                              /\ job'[v][m].attempt \notin Undecided(m)
                              /\ \A a \in Copies(m) : a.attempt # job'[v][m].attempt
      BY <1>2 DEF RequestedOnce
    <2>1. ASSUME NEW a \in Copies(m)
          PROVE  a.attempt \notin Undecided(m) /\ a.attempt <= row'[m].attempts
      BY <1>4, SetsOfAMessage DEF RequestedOnce
    <2>2. ASSUME NEW attempt \in Undecided(m)
          PROVE  attempt <= row'[m].attempts
      BY <1>4, SetsOfAMessage
    <2>3. ASSUME NEW v \in Unsent(m)'
          PROVE  /\ job'[v][m].attempt \notin Undecided(m)
                 /\ \A a \in Copies(m) : a.attempt # job'[v][m].attempt
      <3>1. CASE v \in Unsent(m) /\ job'[v][m] = job[v][m]
        BY <3>1 DEF RequestedOnce
      <3>2. CASE job'[v][m].attempt = row[m].attempts + 1
        BY <1>4, <3>2, SetsOfAMessage
      <3> QED
        BY <1>3, <3>1, <3>2
    <2> QED
      BY <2>1, <2>2, <2>3
  <1>6. CopiesAreCalled'
    BY <1>2 DEF CopiesAreCalled
  <1> QED
    BY <1>5, <1>6

(* A call is the first and only one for its attempt. *)
LEMMA SendRequests ==
    ASSUME TypeOK, TypeOK', DeliveryInv, RequestedOnce, CopiesAreCalled,
           NEW w \in Workers, NEW m \in Messages, Send(w, m)
    PROVE  RequestedOnce' /\ CopiesAreCalled'
  <1> DEFINE k == job[w][m].attempt
  <1>0. [Next]_vars
    BY DEF Next, Deliver
  <1>1. /\ w \in Unsent(m) /\ Becomes(w, m, "sending")
        /\ wire' = wire \cup {<<m, k>>}
        /\ calls' = [calls EXCEPT ![m] = @ + 1]
        /\ UNCHANGED <<row, accepted>>
    BY DEF Send, Unsent
  <1>2. \A n \in Messages : Copies(n)' = Copies(n)
    BY <1>1 DEF Copies
  <1>3. /\ k \in 1..MaxAttempts /\ k \in 1..row[m].attempts
        /\ k \notin Undecided(m) /\ \A a \in Copies(m) : a.attempt # k
    <2>1. k \in 1..row[m].attempts
      BY <1>1 DEF Unsent, DeliveryInv, JobsAreCoherent
    <2>2. row[m].attempts \in 0..MaxAttempts
      BY DEF TypeOK, Row
    <2>3. k \notin Undecided(m) /\ \A a \in Copies(m) : a.attempt # k
      BY <1>1 DEF RequestedOnce
    <2> HIDE DEF k
    <2> QED
      BY <2>1, <2>2, <2>3, DeliveryAssumption
  <1>4. \A v \in Workers, n \in Messages :
            v \in Unsent(n)' => /\ v \in Unsent(n) /\ job'[v][n] = job[v][n]
                                /\ v # w \/ n # m
    BY <1>1, BecomesEffect DEF Unsent
  <1> HIDE DEF k
  <1>5. Undecided(m)' = Undecided(m) \cup {k}
    BY <1>1, <1>3 DEF Undecided
  <1>6. ASSUME NEW n \in Messages, n # m
        PROVE  Undecided(n)' = Undecided(n) /\ calls'[n] = calls[n]
    BY <1>1, <1>6 DEF Undecided, TypeOK
  <1>7. \A n \in Messages : Unsent(n)' \subseteq Workers
    BY DEF Unsent
  <1>8. RequestedOnce'
    <2> SUFFICES ASSUME NEW n \in Messages
                 PROVE  /\ \A a \in Copies(n)' : a.attempt \notin Undecided(n)'
                                                 /\ a.attempt <= row'[n].attempts
                        /\ \A attempt \in Undecided(n)' : attempt <= row'[n].attempts
                        /\ \A v \in Unsent(n)' :
                              /\ job'[v][n].attempt \notin Undecided(n)'
                              /\ \A a \in Copies(n)' : a.attempt # job'[v][n].attempt
      BY DEF RequestedOnce
    <2>1. CASE n # m
      BY <1>0, <1>2, <1>4, <1>6, <1>7, <2>1, RequestsStay
    <2>2. CASE n = m
      <3>1. \A a \in Copies(m) : a.attempt \notin Undecided(m)' /\ a.attempt <= row'[m].attempts
        BY <1>1, <1>3, <1>5 DEF RequestedOnce
      <3>2. \A attempt \in Undecided(m)' : attempt <= row'[m].attempts
        BY <1>1, <1>3, <1>5 DEF RequestedOnce
      <3>3. ASSUME NEW v \in Unsent(m)'
            PROVE  /\ job'[v][m].attempt \notin Undecided(m)'
                   /\ \A a \in Copies(m) : a.attempt # job'[v][m].attempt
        <4>1. v \in Unsent(m) /\ job'[v][m] = job[v][m] /\ v # w
          BY <1>4, <1>7
        <4>2. job[v][m].attempt # k
          BY <1>1, <4>1 DEF Unsent, DeliveryInv, JobsAreCoherent, k
        <4> QED
          BY <1>5, <4>1, <4>2 DEF RequestedOnce
      <3> QED
        BY <1>2, <2>2, <3>1, <3>2, <3>3
    <2> QED
      BY <2>1, <2>2
  <1>9. CopiesAreCalled'
    <2> SUFFICES ASSUME NEW n \in Messages
                 PROVE  /\ IsFiniteSet(Copies(n)')
                        /\ Cardinality(Undecided(n)') + Cardinality(Copies(n)') <= calls'[n]
      BY DEF CopiesAreCalled
    <2>1. CASE n # m
      BY <1>2, <1>6, <2>1 DEF CopiesAreCalled
    <2>2. CASE n = m
      <3>1. Cardinality(Undecided(m)') = Cardinality(Undecided(m)) + 1
        BY <1>3, <1>5, SetsOfAMessage, FS_AddElement
      <3>2. /\ IsFiniteSet(Copies(m))
            /\ Cardinality(Undecided(m)) + Cardinality(Copies(m)) <= calls[m]
        BY DEF CopiesAreCalled
      <3>3. /\ Cardinality(Undecided(m)) \in Nat /\ Cardinality(Copies(m)) \in Nat
            /\ calls[m] \in Nat /\ calls'[m] = calls[m] + 1
        BY <1>1, <3>2, SetsOfAMessage, FS_CardinalityType DEF TypeOK
      <3> QED
        BY <1>2, <2>2, <3>1, <3>2, <3>3
    <2> QED
      BY <2>1, <2>2
  <1> QED
    BY <1>8, <1>9

(* The provider's decision ends a request; a copy takes its place at most. *)
LEMMA ProviderDecides ==
    ASSUME TypeOK, CopiesAreCalled, RequestedOnce,
           NEW m \in Messages, NEW k \in 1..MaxAttempts,
           \/ ProviderRefuses(m, k)
           \/ \E id \in Ids : ProviderAccepts(m, k, id)
    PROVE  /\ k \in Undecided(m)
           /\ Undecided(m)' = Undecided(m) \ {k}
           /\ \/ Copies(m)' = Copies(m)
              \/ \E x : /\ x \notin Copies(m) /\ x.attempt = k
                        /\ Copies(m)' = Copies(m) \cup {x}
           /\ \A n \in Messages \ {m} :
                 Undecided(n)' = Undecided(n) /\ Copies(n)' = Copies(n)
           /\ UNCHANGED <<row, job, calls>>
           /\ ProviderRefuses(m, k) => UNCHANGED accepted
  <1>1. k \in Undecided(m) /\ wire' = wire \ {<<m, k>>} /\ UNCHANGED <<row, job, calls>>
    BY DEF ProviderRefuses, ProviderAccepts, Undecided
  <1>2. /\ Undecided(m)' = Undecided(m) \ {k}
        /\ \A n \in Messages \ {m} : Undecided(n)' = Undecided(n)
    BY <1>1 DEF Undecided
  <1>3. CASE ProviderRefuses(m, k)
    BY <1>1, <1>2, <1>3 DEF ProviderRefuses, Copies
  <1>4. ASSUME NEW id \in Ids, ProviderAccepts(m, k, id)
        PROVE  /\ \E x : /\ x \notin Copies(m) /\ x.attempt = k
                         /\ Copies(m)' = Copies(m) \cup {x}
               /\ \A n \in Messages \ {m} : Copies(n)' = Copies(n)
    <2> DEFINE x == [msg |-> m, attempt |-> k, id |-> id]
    <2>1. accepted' = accepted \cup {x} /\ x.msg = m /\ x.attempt = k
      BY <1>4 DEF ProviderAccepts
    <2> HIDE DEF x
    <2>2. x \notin Copies(m)
      BY <1>1, <2>1 DEF RequestedOnce
    <2>3. Copies(m)' = Copies(m) \cup {x}
      BY <2>1 DEF Copies
    <2>4. \A n \in Messages \ {m} : Copies(n)' = Copies(n)
      BY <2>1 DEF Copies
    <2> QED
      BY <2>1, <2>2, <2>3, <2>4
  <1> QED
    BY <1>1, <1>2, <1>3, <1>4 DEF ProviderRefuses

(* In numbers: the budget of calls covers the copy. *)
LEMMA DecisionCounts ==
    ASSUME TypeOK, CopiesAreCalled, RequestedOnce,
           NEW m \in Messages, NEW k \in 1..MaxAttempts,
           \/ ProviderRefuses(m, k)
           \/ \E id \in Ids : ProviderAccepts(m, k, id)
    PROVE  /\ IsFiniteSet(Copies(m)')
           /\ Cardinality(Undecided(m)') + Cardinality(Copies(m)') <= calls[m]
           /\ \/ Copies(m)' = Copies(m)
              \/ /\ Cardinality(Copies(m)') = Cardinality(Copies(m)) + 1
                 /\ Cardinality(Copies(m)) < calls[m]
  <1>1. /\ k \in Undecided(m) /\ Undecided(m)' = Undecided(m) \ {k}
        /\ \/ Copies(m)' = Copies(m)
           \/ \E x : x \notin Copies(m) /\ Copies(m)' = Copies(m) \cup {x}
    BY ProviderDecides
  <1>2. /\ IsFiniteSet(Undecided(m)) /\ IsFiniteSet(Copies(m))
        /\ Cardinality(Undecided(m)) + Cardinality(Copies(m)) <= calls[m]
    BY SetsOfAMessage DEF CopiesAreCalled
  <1>3. /\ Cardinality(Undecided(m)) \in Nat /\ Cardinality(Copies(m)) \in Nat
        /\ calls[m] \in Nat
        /\ Cardinality(Undecided(m)') = Cardinality(Undecided(m)) - 1
        /\ Cardinality(Undecided(m)') \in Nat
    <2>1. Cardinality(Undecided(m)) \in Nat /\ Cardinality(Copies(m)) \in Nat /\ calls[m] \in Nat
      BY <1>2, FS_CardinalityType DEF TypeOK
    <2>2. /\ IsFiniteSet(Undecided(m) \ {k})
          /\ Cardinality(Undecided(m) \ {k}) = Cardinality(Undecided(m)) - 1
      BY <1>1, <1>2, FS_RemoveElement
    <2> QED
      BY <1>1, <2>1, <2>2, FS_CardinalityType
  <1>4. CASE Copies(m)' = Copies(m)
    BY <1>2, <1>3, <1>4
  <1>5. ASSUME NEW x, x \notin Copies(m), Copies(m)' = Copies(m) \cup {x}
        PROVE  /\ IsFiniteSet(Copies(m)')
               /\ Cardinality(Copies(m)') = Cardinality(Copies(m)) + 1
    BY <1>2, <1>5, FS_AddElement
  <1>6. CASE \E x : x \notin Copies(m) /\ Copies(m)' = Copies(m) \cup {x}
    BY <1>2, <1>3, <1>5, <1>6
  <1> QED
    BY <1>1, <1>4, <1>6

LEMMA ProviderRequests ==
    ASSUME TypeOK, TypeOK', DeliveryInv, RequestedOnce, CopiesAreCalled, Provider
    PROVE  RequestedOnce' /\ CopiesAreCalled'
  <1> PICK m \in Messages, k \in 1..MaxAttempts :
              \/ ProviderRefuses(m, k)
              \/ \E id \in Ids : ProviderAccepts(m, k, id)
    BY DEF Provider
  <1>0. [Next]_vars
    BY DEF Next
  <1>1. /\ k \in Undecided(m) /\ Undecided(m)' = Undecided(m) \ {k}
        /\ \/ Copies(m)' = Copies(m)
           \/ \E x : x.attempt = k /\ Copies(m)' = Copies(m) \cup {x}
        /\ \A n \in Messages \ {m} :
              Undecided(n)' = Undecided(n) /\ Copies(n)' = Copies(n)
        /\ UNCHANGED <<row, job, calls>>
    BY ProviderDecides
  <1>2. /\ IsFiniteSet(Copies(m)')
        /\ Cardinality(Undecided(m)') + Cardinality(Copies(m)') <= calls[m]
    BY DecisionCounts
  <1>3. \A n \in Messages : Unsent(n)' = Unsent(n)
    BY <1>1 DEF Unsent
  <1>4. ASSUME NEW n \in Messages, n # m
        PROVE  /\ \A a \in Copies(n)' : a.attempt \notin Undecided(n)' /\ a.attempt <= row'[n].attempts
               /\ \A attempt \in Undecided(n)' : attempt <= row'[n].attempts
               /\ \A w \in Unsent(n)' :
                     /\ job'[w][n].attempt \notin Undecided(n)'
                     /\ \A a \in Copies(n)' : a.attempt # job'[w][n].attempt
               /\ IsFiniteSet(Copies(n)')
               /\ Cardinality(Undecided(n)') + Cardinality(Copies(n)') <= calls'[n]
    <2>1. /\ Undecided(n)' = Undecided(n) /\ Copies(n)' = Copies(n)
          /\ calls'[n] = calls[n]
      BY <1>1, <1>4
    <2>2. \A w \in Unsent(n)' : w \in Unsent(n) /\ job'[w][n].attempt = job[w][n].attempt
      BY <1>1, <1>3
    <2> QED
      BY <1>0, <2>1, <2>2, RequestsStay
  <1>5. ASSUME NEW a \in Copies(m)'
        PROVE  a.attempt \notin Undecided(m)' /\ a.attempt <= row'[m].attempts
    <2>1. CASE a \in Copies(m)
      BY <1>1, <2>1 DEF RequestedOnce
    <2>2. CASE a.attempt = k
      BY <1>1, <2>2 DEF RequestedOnce
    <2> QED
      BY <1>1, <2>1, <2>2
  <1>6. \A attempt \in Undecided(m)' : attempt <= row'[m].attempts
    BY <1>1 DEF RequestedOnce
  <1>7. ASSUME NEW w \in Unsent(m)'
        PROVE  /\ job'[w][m].attempt \notin Undecided(m)'
               /\ \A a \in Copies(m)' : a.attempt # job'[w][m].attempt
    BY <1>1, <1>3 DEF RequestedOnce
  <1>8. RequestedOnce'
    <2> SUFFICES ASSUME NEW n \in Messages
                 PROVE  /\ \A a \in Copies(n)' : a.attempt \notin Undecided(n)'
                                                 /\ a.attempt <= row'[n].attempts
                        /\ \A attempt \in Undecided(n)' : attempt <= row'[n].attempts
                        /\ \A w \in Unsent(n)' :
                              /\ job'[w][n].attempt \notin Undecided(n)'
                              /\ \A a \in Copies(n)' : a.attempt # job'[w][n].attempt
      BY DEF RequestedOnce
    <2> QED
      BY <1>4, <1>5, <1>6, <1>7
  <1>9. CopiesAreCalled'
    BY <1>1, <1>2, <1>4 DEF CopiesAreCalled
  <1> QED
    BY <1>8, <1>9

(* Only a claim starts a delivery, and a claim takes served messages only. *)
LEMMA StartsByClaim ==
    ASSUME TypeOK, [Next]_vars, NEW w \in Workers, NEW m \in Messages,
           job'[w][m].phase # "idle"
    PROVE  job[w][m].phase # "idle" \/ m \in Served
  <1>1. ASSUME NEW v \in Workers, NEW batch \in SUBSET Due, Claim(v, batch)
        PROVE  job[w][m].phase # "idle" \/ m \in Served
    <2>1. CASE v # w
      BY <1>1, <2>1 DEF Claim, TypeOK
    <2>2. CASE v = w
      <3>1. job'[w][m] = IF m \in batch THEN Claimed(TakeLease(row[m])) ELSE Idle
        BY <1>1, <2>2 DEF Claim, TypeOK
      <3> QED
        BY <3>1 DEF Due, Idle
    <2> QED
      BY <2>1, <2>2
  <1>2. ASSUME NEW v \in Workers, NEW n \in Messages, Deliver(v, n)
        PROVE  job[w][m].phase # "idle"
    <2>1. CASE v = w /\ n = m
      BY <1>2, <2>1, FinishEffect, EndsEffect
      DEF Deliver, RefuseToSend, Send, ReceiveAcceptance, ReceiveRefusal, SendTimeout,
          markSentMisses, FinalizeError
    <2>2. CASE v # w \/ n # m
      <3>1. ASSUME NEW phase, Becomes(v, n, phase)
            PROVE  job'[w][m] = job[w][m]
        BY <2>2, <3>1, BecomesEffect
      <3>2. ASSUME job' = [job EXCEPT ![v][n] = Idle]
            PROVE  job'[w][m] = job[w][m]
        BY <2>2, <3>2, EndsEffect
      <3>3. ASSUME NEW a, job' = [job EXCEPT ![v][n].phase = "accepted", ![v][n].id = a.id]
            PROVE  job'[w][m] = job[w][m]
        BY <2>2, <3>3 DEF TypeOK
      <3>4. job'[w][m] = job[w][m]
        BY <1>2, <3>1, <3>2, <3>3, FinishEffect
        DEF Deliver, RefuseToSend, Send, ReceiveAcceptance, ReceiveRefusal, SendTimeout,
            markSentMisses, FinalizeError
      <3> QED
        BY <3>4
    <2> QED
      BY <2>1, <2>2
  <1>3. ASSUME NEW v \in Workers, Crash(v)
        PROVE  job[w][m].phase # "idle"
    BY <1>3 DEF Crash, TypeOK, Idle
  <1>4. CASE UNCHANGED job
    BY <1>4
  <1> QED
    BY <1>1, <1>2, <1>3, <1>4
    DEF Next, vars, Create, LeaseExpires, BackoffElapses, Provider, ProviderAccepts,
        ProviderRefuses, applyStatus

(* Deliveries that are claimed after a step that is no claim were so before it. *)
LEMMA ClaimedBefore ==
    ASSUME TypeOK, NEW w \in Workers, NEW m \in Messages, Deliver(w, m), ~Send(w, m)
    PROVE  /\ UNCHANGED <<calls, wire, accepted>>
           /\ \A v \in Workers, n \in Messages :
                 job'[v][n].phase = "claimed" => job'[v][n] = job[v][n]
  <1>1. ASSUME NEW phase \in {"temporary", "permanent", "conflict"}, Becomes(w, m, phase)
        PROVE  \A v \in Workers, n \in Messages :
                   job'[v][n].phase = "claimed" => job'[v][n] = job[v][n]
    BY <1>1, BecomesEffect
  <1>2. ASSUME job' = [job EXCEPT ![w][m] = Idle]
        PROVE  \A v \in Workers, n \in Messages :
                   job'[v][n].phase = "claimed" => job'[v][n] = job[v][n]
    <2>1. job'[w][m].phase = "idle"
      BY <1>2, EndsEffect
    <2>2. \A v \in Workers, n \in Messages : v # w \/ n # m => job'[v][n] = job[v][n]
      BY <1>2, EndsEffect
    <2> QED
      BY <2>1, <2>2
  <1>3. ASSUME NEW a, job' = [job EXCEPT ![w][m].phase = "accepted", ![w][m].id = a.id]
        PROVE  \A v \in Workers, n \in Messages :
                   job'[v][n].phase = "claimed" => job'[v][n] = job[v][n]
    <2>1. job'[w][m].phase = "accepted"
      <3>1. job[w][m] \in Job
        BY DEF TypeOK
      <3>2. job'[w][m] = [job[w][m] EXCEPT !.phase = "accepted", !.id = a.id]
        BY <1>3, Zenon DEF TypeOK
      <3> QED
        BY <3>1, <3>2, Zenon DEF Job
    <2>2. \A v \in Workers, n \in Messages : v # w \/ n # m => job'[v][n] = job[v][n]
      BY <1>3 DEF TypeOK
    <2> QED
      BY <2>1, <2>2
  <1> QED
    BY <1>1, <1>2, <1>3, FinishEffect
    DEF Deliver, RefuseToSend, ReceiveAcceptance, ReceiveRefusal, SendTimeout,
        markSentMisses, FinalizeError

LEMMA NextRequests ==
    ASSUME TypeOK, TypeOK', DeliveryInv, RequestedOnce, CopiesAreCalled, [Next]_vars
    PROVE  RequestedOnce' /\ CopiesAreCalled'
  <1>1. ASSUME NEW w \in Workers, NEW m \in Messages, Deliver(w, m)
        PROVE  RequestedOnce' /\ CopiesAreCalled'
    BY <1>1, SendRequests, ClaimedBefore, RequestsKept
  <1>2. ASSUME NEW w \in Workers, Crash(w)
        PROVE  RequestedOnce' /\ CopiesAreCalled'
    <2>1. \A v \in Workers, n \in Messages :
              job'[v][n].phase = "claimed" => job'[v][n] = job[v][n]
      BY <1>2 DEF Crash, TypeOK, Idle
    <2> QED
      BY <1>2, <2>1, RequestsKept DEF Crash
  <1>3. CASE UNCHANGED <<job, calls, wire, accepted>>
    BY <1>3, RequestsKept
  <1> QED
    BY <1>1, <1>2, <1>3, ClaimRequests, ProviderRequests
    DEF Next, vars, Create, LeaseExpires, BackoffElapses, applyStatus

LEMMA NextIds ==
    ASSUME TypeOK, TypeOK', DeliveryInv, IdsBelongToOne, [Next]_vars
    PROVE  IdsBelongToOne'
  <1>1. \A w \in Workers, m \in Messages : job'[w][m].phase # "idle" => m \in Served
    BY StartsByClaim DEF IdsBelongToOne
  <1>2. ASSUME NEW m \in Messages
        PROVE  \/ row'[m].externalId = row[m].externalId
               \/ \E w \in Workers : Finished(w, m) /\ row'[m].externalId = job[w][m].id
                                     /\ IdIsFree(m, job[w][m].id)
    BY EveryRowStep DEF RowStep, Created, TimePassed, GivenUp, Taken, Finished, Confirmed,
       SameIdentity
  <1>3. ASSUME NEW m \in Messages, row'[m].externalId # row[m].externalId
        PROVE  /\ m \in Served
               /\ \A n \in Messages \ {m} : /\ row'[n] = row[n]
                                            /\ row[n].externalId # row'[m].externalId
    <2>1. ~TimePassed(m) /\ row'[m] # row[m]
      BY <1>3 DEF TimePassed, SameIdentity
    <2>2. PICK w \in Workers : Finished(w, m) /\ row'[m].externalId = job[w][m].id
                               /\ IdIsFree(m, job[w][m].id)
      BY <1>2, <1>3
    <2>3. m \in Served
      BY <2>2 DEF Finished, IdsBelongToOne
    <2>4. \A n \in Messages \ {m} : row'[n] = row[n]
      <3>1. ASSUME NEW v \in Workers, NEW k \in Messages,
                   \/ markSent(v, k) \/ markSentWithoutId(v, k)
                   \/ markRetry(v, k) \/ markFailed(v, k)
            PROVE  \A n \in Messages \ {m} : row'[n] = row[n]
        BY <2>1, <3>1, FinishEffect
      <3>2. \E v \in Workers, k \in Messages :
                \/ markSent(v, k) \/ markSentWithoutId(v, k)
                \/ markRetry(v, k) \/ markFailed(v, k)
        <4>1. ASSUME NEW k \in Messages, Create(k)
              PROVE  FALSE
          BY <1>3, <2>1, <4>1, CreateEffect DEF Created, SameIdentity
        <4>2. ASSUME NEW k \in Messages, LeaseExpires(k) \/ BackoffElapses(k)
              PROVE  FALSE
          BY <2>1, <4>2, TimeEffect
        <4>3. ASSUME NEW v \in Workers, NEW batch \in SUBSET Due, Claim(v, batch)
              PROVE  FALSE
          BY <1>3, <2>1, <4>3, ClaimEffect DEF GivenUp, Taken, SameIdentity
        <4>4. ASSUME NEW id \in Ids, NEW status \in MetaStatuses, applyStatus(id, status)
              PROVE  FALSE
          BY <1>3, <2>1, <4>4, ConfirmEffect DEF Confirmed, SameIdentity
        <4>5. row' # row
          BY <2>1
        <4> QED
          BY <4>1, <4>2, <4>3, <4>4, <4>5
          DEF Next, vars, Crash, Provider, ProviderAccepts, ProviderRefuses, Deliver,
              RefuseToSend, Send, ReceiveAcceptance, ReceiveRefusal, SendTimeout,
              markSentMisses, FinalizeError
      <3> QED
        BY <3>1, <3>2
    <2> QED
      BY <2>2, <2>3, <2>4 DEF IdIsFree
  <1>4. ASSUME NEW m \in Messages, row'[m].externalId # NoId
        PROVE  /\ m \in Served
               /\ \A n \in Messages \ {m} : row'[n].externalId # row'[m].externalId
    <2>1. CASE row'[m].externalId # row[m].externalId
      BY <1>3, <2>1
    <2>2. CASE row'[m].externalId = row[m].externalId
      <3>1. m \in Served
        BY <1>4, <2>2 DEF IdsBelongToOne
      <3>2. ASSUME NEW n \in Messages \ {m}
            PROVE  row'[n].externalId # row'[m].externalId
        <4>1. CASE row'[n].externalId = row[n].externalId
          BY <1>4, <2>2, <4>1 DEF IdsBelongToOne
        <4>2. CASE row'[n].externalId # row[n].externalId
          BY <1>3, <2>2, <4>2
        <4> QED
          BY <4>1, <4>2
      <3> QED
        BY <3>1, <3>2
    <2> QED
      BY <2>1, <2>2
  <1> QED
    BY <1>1, <1>4 DEF IdsBelongToOne

LEMMA InitPromise == Init => PromiseInv
  <1> SUFFICES ASSUME Init
               PROVE  PromiseInv
    OBVIOUS
  <1>1. ASSUME NEW m \in Messages
        PROVE  /\ Copies(m) = {} /\ Undecided(m) = {} /\ Unsent(m) = {}
               /\ calls[m] = 0 /\ row[m].externalId = NoId
    BY DEF Init, Copies, Undecided, Unsent, Idle, NoRow
  <1>2. RequestedOnce
    BY <1>1 DEF RequestedOnce
  <1>3. CopiesAreCalled
    <2>1. IsFiniteSet({}) /\ Cardinality({}) = 0
      BY FS_EmptySet
    <2> QED
      BY <1>1, <2>1 DEF CopiesAreCalled
  <1>4. IdsBelongToOne
    BY <1>1 DEF IdsBelongToOne, Init, Idle
  <1> QED
    BY <1>2, <1>3, <1>4 DEF PromiseInv

(***************************************************************************)
(* Every copy a customer gets was a call of its own, made for an attempt   *)
(* that was counted first, and a provider id names one message.            *)
(***************************************************************************)
THEOREM PromiseCorrect == Spec => []PromiseInv
  <1>1. TypeOK /\ DeliveryInv /\ PromiseInv /\ [Next]_vars => PromiseInv'
    BY NextType, NextRequests, NextIds DEF PromiseInv
  <1> QED
    BY <1>1, InitPromise, TypeCorrect, DeliveryCorrect, PTL DEF Spec
-----------------------------------------------------------------------------
(* What a step of the engine looks like from the contract. *)

statusOf == [m \in Messages |-> row[m].status]
copiesOf == [m \in Messages |-> Cardinality(Copies(m))]

LEMMA Unnoticed ==
    ASSUME TypeOK, TypeOK', \A m \in Messages : row'[m].status = row[m].status,
           UNCHANGED <<calls, accepted>>
    PROVE  UNCHANGED Contract!contractVars
  <1>1. statusOf' = statusOf
    BY DEF statusOf
  <1>2. \A m \in Messages : Copies(m)' = Copies(m)
    BY DEF Copies
  <1>3. copiesOf' = copiesOf
    BY <1>2 DEF copiesOf
  <1> QED
    BY <1>1, <1>3 DEF Contract!contractVars, statusOf, copiesOf

LEMMA CopiesUnchanged ==
    ASSUME UNCHANGED accepted
    PROVE  copiesOf' = copiesOf
  <1>1. \A m \in Messages : Copies(m)' = Copies(m)
    BY DEF Copies
  <1> QED
    BY <1>1 DEF copiesOf

LEMMA InitContract == Init => Contract!Init
  <1> SUFFICES ASSUME Init
               PROVE  Contract!Init
    OBVIOUS
  <1>1. \A m \in Messages : Cardinality(Copies(m)) = 0
    <2>1. Cardinality({}) = 0
      BY FS_EmptySet
    <2>2. \A m \in Messages : Copies(m) = {}
      BY DEF Init, Copies
    <2> QED
      BY <2>1, <2>2
  <1> QED
    BY <1>1 DEF Init, Contract!Init, NoRow

LEMMA CreateContract ==
    ASSUME TypeOK, NEW m \in Messages, Create(m)
    PROVE  Contract!Create(m)
  <1>1. Created(m) /\ \A n \in Messages \ {m} : row'[n] = row[n]
    BY CreateEffect
  <1>2. UNCHANGED <<calls, accepted>>
    BY DEF Create
  <1>3. statusOf' = [statusOf EXCEPT ![m] = IF m \in Manual THEN "SENT" ELSE "PENDING"]
    BY <1>1 DEF statusOf, Created
  <1>4. statusOf[m] = "ABSENT"
    BY <1>1 DEF statusOf, Created
  <1> QED
    BY <1>2, <1>3, <1>4, CopiesUnchanged DEF Contract!Create, statusOf, copiesOf

LEMMA ClaimContract ==
    ASSUME TypeOK, TypeOK', NEW w \in Workers, NEW batch \in SUBSET Due, Claim(w, batch)
    PROVE  \/ \E failed \in SUBSET Messages : Contract!GiveUp(failed)
           \/ UNCHANGED Contract!contractVars
  <1>1. \A m \in Messages :
            /\ m \in Exhausted => row[m].status = "PENDING" /\ row'[m].status = "FAILED"
            /\ m \notin Exhausted => row'[m].status = row[m].status
    BY ClaimEffect DEF GivenUp, Taken, Exhausted, Due
  <1>2. UNCHANGED <<calls, accepted>>
    BY DEF Claim
  <1>3. CASE Exhausted = {}
    BY <1>1, <1>2, <1>3, Unnoticed
  <1>4. CASE Exhausted # {}
    <2>1. Exhausted \in SUBSET Messages
      BY DEF Exhausted
    <2>2. \A m \in Exhausted : statusOf[m] = "PENDING"
      BY <1>1, <2>1 DEF statusOf
    <2>3. statusOf' = [m \in Messages |-> IF m \in Exhausted THEN "FAILED" ELSE statusOf[m]]
      BY <1>1 DEF statusOf
    <2> QED
      BY <1>2, <1>4, <2>1, <2>2, <2>3, CopiesUnchanged DEF Contract!GiveUp, statusOf, copiesOf
  <1> QED
    BY <1>3, <1>4

LEMMA SendContract ==
    ASSUME TypeOK, DeliveryInv, PromiseInv, NEW w \in Workers, NEW m \in Messages, Send(w, m)
    PROVE  Contract!Call(m)
  <1>1. /\ w \in Unsent(m) /\ calls' = [calls EXCEPT ![m] = @ + 1]
        /\ UNCHANGED <<row, accepted>>
    BY DEF Send, Unsent
  <1>2. m \in Served
    BY DEF Send, PromiseInv, IdsBelongToOne
  <1>3. m \notin Manual
    BY <1>2, DeliveryAssumption
  <1>4. row[m].status # "ABSENT"
    <2>1. row[m].attempts # 0
      <3>1. job[w][m].attempt \in 1..row[m].attempts
        BY <1>1 DEF Unsent, DeliveryInv, JobsAreCoherent
      <3>2. row[m].attempts \in Nat
        BY DeliveryAssumption DEF TypeOK, Row
      <3> QED
        BY <3>1, <3>2
    <2> QED
      BY <2>1 DEF DeliveryInv, RowsAreCoherent, NoRow
  <1>5. calls[m] < MaxAttempts
    <2>1. calls[m] + Cardinality(Unsent(m)) <= row[m].attempts
      BY DEF DeliveryInv, CallsAreBudgeted
    <2>2. Cardinality(Unsent(m)) \in Nat /\ Cardinality(Unsent(m)) # 0
      BY <1>1, UnsentFinite, FS_EmptySet
    <2>3. calls[m] \in Nat /\ row[m].attempts \in 0..MaxAttempts
      BY DEF TypeOK, Row
    <2> QED
      BY <2>1, <2>2, <2>3, DeliveryAssumption
  <1>6. statusOf' = statusOf /\ copiesOf' = copiesOf /\ statusOf[m] # "ABSENT"
    BY <1>1, <1>4, CopiesUnchanged DEF statusOf
  <1> QED
    BY <1>1, <1>3, <1>5, <1>6 DEF Contract!Call, statusOf, copiesOf

LEMMA ProviderContract ==
    ASSUME TypeOK, TypeOK', PromiseInv, Provider
    PROVE  \/ \E m \in Messages : Contract!Deliver(m)
           \/ UNCHANGED Contract!contractVars
  <1> PICK m \in Messages, k \in 1..MaxAttempts :
              \/ ProviderRefuses(m, k)
              \/ \E id \in Ids : ProviderAccepts(m, k, id)
    BY DEF Provider
  <1>1. /\ UNCHANGED <<row, calls>>
        /\ \A n \in Messages \ {m} : Copies(n)' = Copies(n)
        /\ \/ Copies(m)' = Copies(m)
           \/ /\ Cardinality(Copies(m)') = Cardinality(Copies(m)) + 1
              /\ Cardinality(Copies(m)) < calls[m]
    BY ProviderDecides, DecisionCounts DEF PromiseInv
  <1>2. statusOf' = statusOf
    BY <1>1 DEF statusOf
  <1>3. CASE Copies(m)' = Copies(m)
    <2>1. copiesOf' = copiesOf
      BY <1>1, <1>3 DEF copiesOf
    <2> QED
      BY <1>1, <1>2, <2>1 DEF Contract!contractVars, statusOf, copiesOf
  <1>4. CASE /\ Cardinality(Copies(m)') = Cardinality(Copies(m)) + 1
             /\ Cardinality(Copies(m)) < calls[m]
    <2>1. copiesOf[m] < calls[m]
      BY <1>4 DEF copiesOf
    <2>2. copiesOf' = [copiesOf EXCEPT ![m] = @ + 1]
      BY <1>1, <1>4 DEF copiesOf
    <2>3. Contract!Deliver(m)
      BY <1>1, <1>2, <2>1, <2>2 DEF Contract!Deliver, statusOf, copiesOf
    <2> QED
      BY <2>3
  <1> QED
    BY <1>1, <1>3, <1>4

(* An acceptance is a copy. *)
LEMMA AcceptanceIsACopy ==
    ASSUME CopiesAreCalled, NEW m \in Messages, NEW a \in accepted, a.msg = m
    PROVE  Cardinality(Copies(m)) > 0
  <1>1. IsFiniteSet(Copies(m)) /\ Copies(m) # {}
    BY DEF Copies, CopiesAreCalled
  <1>2. Cardinality(Copies(m)) \in Nat /\ Cardinality(Copies(m)) # 0
    BY <1>1, FS_CardinalityType, FS_EmptySet
  <1> QED
    BY <1>2

LEMMA FinishContract ==
    ASSUME TypeOK, TypeOK', DeliveryInv, PromiseInv, NEW w \in Workers, NEW m \in Messages,
           \/ markSent(w, m) \/ markSentWithoutId(w, m)
           \/ markRetry(w, m) \/ markFailed(w, m)
    PROVE  \/ Contract!Settle(m)
           \/ Contract!GiveUp({m})
           \/ UNCHANGED Contract!contractVars
  <1>1. /\ Finished(w, m) \/ row' = row
        /\ \A n \in Messages \ {m} : row'[n] = row[n]
        /\ UNCHANGED <<calls, accepted>>
    BY FinishEffect
  <1>2. copiesOf' = copiesOf
    BY <1>1, CopiesUnchanged
  <1>3. CASE row'[m].status = row[m].status
    BY <1>1, <1>3, Unnoticed
  <1>4. CASE Finished(w, m) /\ row'[m].status # row[m].status
    <2>1. statusOf[m] = "PENDING" /\ row'[m].status \in {"SENT", "FAILED"}
      BY <1>4 DEF Finished, OwnsLease, statusOf
    <2>2. statusOf' = [statusOf EXCEPT ![m] = row'[m].status]
      BY <1>1 DEF statusOf
    <2>3. CASE row'[m].status = "SENT"
      <3> DEFINE a == [msg |-> m, attempt |-> job[w][m].attempt, id |-> job[w][m].id]
      <3>1. a \in accepted /\ a.msg = m
        BY <1>4, <2>3 DEF Finished, DeliveryInv, JobsAreCoherent
      <3> HIDE DEF a
      <3>2. copiesOf[m] > 0
        BY <3>1, AcceptanceIsACopy DEF PromiseInv, copiesOf
      <3> QED
        BY <1>1, <1>2, <2>1, <2>2, <2>3, <3>2 DEF Contract!Settle, statusOf, copiesOf
    <2>4. CASE row'[m].status = "FAILED"
      <3>1. statusOf' = [n \in Messages |-> IF n \in {m} THEN "FAILED" ELSE statusOf[n]]
        BY <1>1, <2>4 DEF statusOf
      <3> QED
        BY <1>1, <1>2, <2>1, <3>1 DEF Contract!GiveUp, statusOf, copiesOf
    <2> QED
      BY <2>1, <2>3, <2>4
  <1> QED
    BY <1>1, <1>3, <1>4

LEMMA ConfirmContract ==
    ASSUME TypeOK, TypeOK', DeliveryInv, PromiseInv,
           NEW id \in Ids, NEW status \in MetaStatuses, applyStatus(id, status)
    PROVE  \E m \in Messages, to \in {"DELIVERED", "READ", "FAILED"} : Contract!Confirm(m, to)
  <1>1. PICK m \in Messages : row[m].externalId = id /\ row[m].status \in ADVANCES_FROM[status]
    BY DEF applyStatus
  <1>2. Confirmed(m)
    BY <1>1, ConfirmEffect
  <1>3. m \in Served /\ \A n \in Messages \ {m} : row[n].externalId # id
    BY <1>1, <1>2 DEF Confirmed, PromiseInv, IdsBelongToOne
  <1>4. \A n \in Messages \ {m} : row'[n] = row[n]
    BY <1>3, ConfirmEffect
  <1>5. UNCHANGED <<calls, accepted>>
    BY DEF applyStatus
  <1> DEFINE to == row'[m].status
  <1>6. /\ to \in {"DELIVERED", "READ", "FAILED"}
        /\ \/ statusOf[m] = "SENT"
           \/ statusOf[m] = "DELIVERED" /\ to = "READ"
    BY <1>2 DEF Confirmed, statusOf
  <1>7. statusOf' = [statusOf EXCEPT ![m] = to]
    BY <1>4 DEF statusOf
  <1>8. copiesOf[m] > 0
    <2>1. m \in Messages \ Manual
      BY <1>3, DeliveryAssumption
    <2>2. \E a \in accepted : a.msg = m
      BY <1>2, <2>1 DEF Confirmed, DeliveryInv, SentWasAccepted
    <2> QED
      BY <2>2, AcceptanceIsACopy DEF PromiseInv, copiesOf
  <1>9. copiesOf' = copiesOf
    BY <1>5, CopiesUnchanged
  <1> HIDE DEF to
  <1> QED
    BY <1>5, <1>6, <1>7, <1>8, <1>9 DEF Contract!Confirm, statusOf, copiesOf

LEMMA NextContract ==
    ASSUME TypeOK, TypeOK', DeliveryInv, PromiseInv, [Next]_vars
    PROVE  Contract!Next \/ UNCHANGED Contract!contractVars
  <1> USE DEF Contract!Next
  <1>1. ASSUME NEW m \in Messages, Create(m)
        PROVE  Contract!Next
    BY <1>1, CreateContract
  <1>2. ASSUME NEW m \in Messages, LeaseExpires(m) \/ BackoffElapses(m)
        PROVE  UNCHANGED Contract!contractVars
    BY <1>2, TimeEffect, Unnoticed DEF TimePassed, LeaseExpires, BackoffElapses
  <1>3. ASSUME NEW w \in Workers, NEW batch \in SUBSET Due, Claim(w, batch)
        PROVE  Contract!Next \/ UNCHANGED Contract!contractVars
    BY <1>3, ClaimContract
  <1>4. ASSUME NEW w \in Workers, NEW m \in Messages, Deliver(w, m)
        PROVE  Contract!Next \/ UNCHANGED Contract!contractVars
    <2>1. CASE \/ markSent(w, m) \/ markSentWithoutId(w, m)
               \/ markRetry(w, m) \/ markFailed(w, m)
      <3>1. {m} \in SUBSET Messages
        OBVIOUS
      <3> QED
        BY <2>1, <3>1, FinishContract
    <2>2. CASE Send(w, m)
      BY <2>2, SendContract
    <2>3. CASE UNCHANGED <<row, calls, accepted>>
      BY <2>3, Unnoticed
    <2> QED
      BY <1>4, <2>1, <2>2, <2>3 DEF Deliver, RefuseToSend, ReceiveAcceptance,
         ReceiveRefusal, SendTimeout, markSentMisses, FinalizeError
  <1>5. ASSUME NEW id \in Ids, NEW status \in MetaStatuses, applyStatus(id, status)
        PROVE  Contract!Next
    BY <1>5, ConfirmContract
  <1>6. CASE UNCHANGED <<row, calls, accepted>>
    BY <1>6, Unnoticed
  <1> QED
    BY <1>1, <1>2, <1>3, <1>4, <1>5, <1>6, ProviderContract DEF Next, vars, Crash

(***************************************************************************)
(* The engine implements its contract: whatever workers, provider and      *)
(* callbacks do, a message goes through what DeliveryContract allows - at  *)
(* least once within a budget of calls, SENT only when there is a copy.    *)
(***************************************************************************)
THEOREM EngineImplementsContract == Spec => ImplementsContract
  <1>1. Init => Contract!Init
    BY InitContract
  <1>2. TypeOK /\ TypeOK' /\ DeliveryInv /\ PromiseInv /\ [Next]_vars
          => [Contract!Next]_(Contract!contractVars)
    BY NextContract
  <1> QED
    BY <1>1, <1>2, TypeCorrect, DeliveryCorrect, PromiseCorrect, PTL
    DEF Spec, ImplementsContract, Contract!Spec
=============================================================================
