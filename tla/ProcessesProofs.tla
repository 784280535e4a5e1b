----------------------------- MODULE ProcessesProofs -----------------------------
(***************************************************************************)
(* Proofs about processes that boot with what is written when they boot.   *)
(* WhatsAppChannel: whatever the settings, their limits keep two processes *)
(* from sending one message at the same time, unless one is late for its   *)
(* lease.  InboundEndpoint, for any processes, credentials, mistakes of    *)
(* the operator, bodies and concurrent requests.                           *)
(***************************************************************************)
EXTENDS MCProcesses, TLAPS

-----------------------------------------------------------------------------
(* The settings of a process *)

(* What a process boots with is in the order its limits need. *)
LEMMA LimitsAreOrdered ==
    ASSUME TypeOK, NEW i \in Up
    PROVE  /\ settings[i].http \in Nat \ {0} /\ settings[i].send \in Nat \ {0}
           /\ settings[i].lease \in Nat \ {0}
           /\ settings[i].send < settings[i].lease
           /\ settings[i].enabled => settings[i].http < settings[i].send
  <1>1. PICK e \in Environments : IsValid(e) /\ settings[i] = Settings(e)
    BY DEF Up, TypeOK, ProcessType
  <1>2. /\ settings[i].http = Http(e) /\ settings[i].send = Send(e) /\ settings[i].lease = Lease(e)
        /\ settings[i].enabled = e.enabled
    BY <1>1 DEF Settings
  <1>3. Http(e) \in Nat \ {0} /\ Send(e) \in Nat \ {0} /\ Lease(e) \in Nat \ {0}
    BY ChannelAssumption DEF Http, Send, Lease, Set, EnvironmentType
  <1>4. Send(e) < Lease(e) /\ (e.enabled => Http(e) < Send(e))
    BY <1>1 DEF IsValid, LeaseIsLonger, EnabledIsSound
  <1> QED
    BY <1>2, <1>3, <1>4

TenantLookup(s, tenant) == FirstOf(s, {n \in Places(s) : s[n].tenantId = tenant})
Lookup(s, phone) == FirstOf(s, {n \in Places(s) : s[n].phoneNumberId = phone})

LEMMA LookupOfSettings ==
    /\ \A i, phone : ByPhoneNumberId(i, phone) = Lookup(settings[i].accounts, phone)
    /\ \A i, tenant : ByTenant(i, tenant) = TenantLookup(settings[i].accounts, tenant)
  BY DEF ByPhoneNumberId, ByTenant, Lookup, TenantLookup

Distinct(s) ==
    /\ Len(s) \in Nat
    /\ \A n, k \in Places(s) :
         s[n].tenantId = s[k].tenantId \/ s[n].phoneNumberId = s[k].phoneNumberId => n = k

(* The two lookups of the resolver are inverse where no two accounts share a number or a *)
(* tenant.                                                                               *)
LEMMA LookupsAreInverse ==
    ASSUME NEW s, Distinct(s), NEW tenant, TenantLookup(s, tenant) # None
    PROVE  /\ Lookup(s, TenantLookup(s, tenant).phoneNumberId) = TenantLookup(s, tenant)
           /\ TenantLookup(s, tenant).tenantId = tenant
  <1> DEFINE account == TenantLookup(s, tenant)
             T == {n \in Places(s) : s[n].tenantId = tenant}
             P == {n \in Places(s) : s[n].phoneNumberId = account.phoneNumberId}
  <1>1. PICK n \in T : TRUE
    BY DEF FirstOf, TenantLookup
  <1>2. T = {n}
    BY <1>1 DEF Distinct
  <1>3. (CHOOSE k \in T : \A m \in T : k <= m) = n
    BY <1>1, <1>2 DEF Places, Distinct
  <1>4. account = s[n]
    BY <1>2, <1>3 DEF FirstOf, TenantLookup
  <1>5. P = {n}
    BY <1>1, <1>4 DEF Distinct
  <1>6. (CHOOSE k \in P : \A m \in P : k <= m) = n
    BY <1>1, <1>5 DEF Places, Distinct
  <1> QED
    BY <1>1, <1>4, <1>5, <1>6 DEF Lookup, FirstOf

(* The accounts of a process share neither. *)
LEMMA AccountsAreDistinct ==
    ASSUME TypeOK, NEW i \in Up
    PROVE  Distinct(settings[i].accounts)
  <1>1. PICK e \in Environments : IsValid(e) /\ settings[i] = Settings(e)
    BY DEF Up, TypeOK, ProcessType
  <1> DEFINE s == e.accounts
             t == [n \in Places(s) |-> [s[n] EXCEPT !.tenantId = Lower(@)]]
  <1>2. /\ Len(s) \in Nat
        /\ \A n \in 1..Len(s) : DOMAIN s[n] = {"tenantId", "phoneNumberId", "sound"}
    BY ChannelAssumption DEF EnvironmentType
  <1>3. settings[i].accounts = t
    BY <1>1 DEF Settings
  <1>4. Len(t) = Len(s)
    BY <1>2 DEF Places
  <1>5. \A n \in Places(s) : /\ t[n].tenantId = Lower(s[n].tenantId)
                             /\ t[n].phoneNumberId = s[n].phoneNumberId
    BY <1>2 DEF Places
  <1>6. \A n, k \in Places(s) : k < n => /\ Lower(s[n].tenantId) # Lower(s[k].tenantId)
                                         /\ s[n].phoneNumberId # s[k].phoneNumberId
    BY <1>1 DEF IsValid, AccountProblems
  <1>7. Places(t) = Places(s)
    BY <1>4 DEF Places
  <1> HIDE DEF t
  <1>8. ASSUME NEW n \in Places(s), NEW k \in Places(s),
               t[n].tenantId = t[k].tenantId \/ t[n].phoneNumberId = t[k].phoneNumberId
        PROVE  n = k
    <2>1. ~(k < n) /\ ~(n < k)
      BY <1>5, <1>6, <1>8
    <2> QED
      BY <1>2, <2>1 DEF Places
  <1> QED
    BY <1>2, <1>3, <1>4, <1>7, <1>8 DEF Distinct

-----------------------------------------------------------------------------
(* What the invariant says of one process *)

UnderWay(i) == InPhase(i, "claimed") \/ InPhase(i, "calling")

Hears(i) ==
    /\ UnderWay(i) => heard[flight[i].attempt] = "nothing"
    /\ InPhase(i, "done") /\ flight[i].kind = "temporary" => heard[flight[i].attempt] # "accepted"

ComesBack(i) ==
    InPhase(i, "calling") =>
        LET account == Lookup(settings[i].accounts, flight[i].from) IN
        account # None /\ account.tenantId = Tenant

OwnTimeout(i) == InPhase(i, "done") => flight[i].code # "TIMEOUT"

Sound(i) ==
    /\ ProcessType(i)
    /\ KeepsTime(i) /\ HasTheLast(i) /\ KeepsItsLease(i)
    /\ Hears(i) /\ ComesBack(i) /\ OwnTimeout(i)

Unheard == \A n \in Attempts : n > message.attempts => heard[n] = "nothing"

RowType ==
    /\ message \in [to : Recipients, status : Statuses, attempts : {0} \cup Attempts,
                    leaseEnds : Nat \cup {None}, due : Nat]
    /\ message.leaseEnds # None => message.status = "PENDING"
    /\ heard \in [Attempts -> {"nothing", "success", "accepted", "refused"}]

Rest ==
    /\ now \in 0..MaxTime /\ env \in Environments
    /\ DOMAIN settings = Processes /\ DOMAIN flight = Processes
    /\ edits \in 0..MaxEdits /\ stops \in 0..MaxStops

AllSound == \A i \in Processes : Sound(i)

(* The invariant, by process. *)
LEMMA ByProcess ==
    TypeOK /\ ChannelInv <=>
        AllSound /\ AttemptsDiffer /\ Unheard /\ QueuedIsNotAccepted /\ RowType /\ Rest
  BY LookupOfSettings
  DEF TypeOK, ChannelInv, AllSound, Sound, Hears, HeardInTime, UnderWay, ComesBack, AnswersComeBack,
      OwnTimeout, OwnTimeoutFirst, Unheard, RowType, Rest

LEMMA NextByProcess ==
    (TypeOK /\ ChannelInv)' <=>
        AllSound' /\ AttemptsDiffer' /\ Unheard' /\ QueuedIsNotAccepted' /\ RowType' /\ Rest'
  BY ByProcess, PTL

\* The delivery of i is in time for its lease.
Holds(i) ==
    \/ InPhase(i, "claimed") /\ now <= flight[i].since + settings[i].lease
    \/ InPhase(i, "calling") /\ ~Late(i)

(* What is in time for its lease has it. *)
LEMMA HolderHasTheLease ==
    ASSUME TypeOK, ChannelInv, NEW i \in Processes, Holds(i)
    PROVE  OwnsLease(i) /\ message.leaseEnds \in Nat /\ now \in Nat /\ now <= message.leaseEnds
  <1>1. now \in Nat
    BY ChannelAssumption DEF TypeOK
  <1>2. /\ i \in Up /\ flight[i].since \in Nat /\ KeepsTime(i) /\ KeepsItsLease(i)
    BY <1>1 DEF Holds, TypeOK, ProcessType, InPhase, ChannelInv
  <1>3. settings[i].http \in Nat /\ settings[i].lease \in Nat
    BY <1>2, LimitsAreOrdered
  <1>4. CASE InPhase(i, "claimed") /\ now <= flight[i].since + settings[i].lease
    <2>1. OwnsLease(i) /\ message.leaseEnds = flight[i].since + settings[i].lease
      BY <1>1, <1>2, <1>3, <1>4 DEF KeepsItsLease
    <2> QED
      BY <1>1, <1>2, <1>3, <1>4, <2>1
  <1>5. CASE InPhase(i, "calling") /\ ~Late(i)
    <2>1. OwnsLease(i) /\ CallEnds(i) <= message.leaseEnds /\ now <= CallEnds(i)
      BY <1>2, <1>5 DEF KeepsItsLease, KeepsTime
    <2>2. message.leaseEnds \in Nat
      BY <2>1 DEF OwnsLease, TypeOK
    <2> QED
      BY <1>1, <1>2, <1>3, <2>1, <2>2 DEF CallEnds
  <1> QED
    BY <1>4, <1>5 DEF Holds

(* While nobody has a lease that lasts, nobody is in time for one. *)
LEMMA NobodyHolds ==
    ASSUME TypeOK, ChannelInv, Unleased, NEW i \in Processes
    PROVE  ~Holds(i)
  <1> SUFFICES ASSUME Holds(i) PROVE FALSE
    OBVIOUS
  <1>1. /\ message.leaseEnds # None /\ message.leaseEnds < now
        /\ message.leaseEnds \in Nat /\ now \in Nat /\ now <= message.leaseEnds
    BY HolderHasTheLease DEF OwnsLease, Unleased
  <1> QED
    BY <1>1

Untouched ==
    /\ message'.status = message.status /\ message'.leaseEnds = message.leaseEnds
    /\ message'.attempts = message.attempts

(* A step leaves the row to the delivery of i: as it is while i is in time, and it takes   *)
(* the lease of its attempt from nobody else.                                            *)
LeavesTheRow(i) ==
    /\ Holds(i) => Untouched
    /\ ~InPhase(i, "idle") =>
         Untouched \/ message'.status # "PENDING" \/ message'.attempts # flight[i].attempt

(* A process that has no part in a step stays sound. *)
LEMMA OthersStaySound ==
    ASSUME NEW i \in Processes, Sound(i), RowType, message' \in [to : Recipients, status : Statuses,
                attempts : {0} \cup Attempts, leaseEnds : Nat \cup {None}, due : Nat],
           flight'[i] = flight[i], settings'[i] = settings[i], now' = now,
           message'.attempts >= message.attempts,
           UnderWay(i) => now \in Nat /\ flight[i].since \in Nat /\ settings[i].lease \in Nat,
           LeavesTheRow(i),
           ~InPhase(i, "idle") => heard'[flight[i].attempt] = heard[flight[i].attempt]
    PROVE  Sound(i)'
  <1>0. message.attempts \in Nat /\ message'.attempts \in Nat
    BY ChannelAssumption DEF RowType, Attempts
  <1>1. ProcessType(i)'
    BY <1>0, ChannelAssumption DEF Sound, ProcessType, InPhase, Up, UnderWay, RowType, Attempts
  <1>2. KeepsTime(i)' /\ HasTheLast(i)' /\ KeepsItsLease(i)'
    <2>1. KeepsTime(i)'
      BY DEF Sound, KeepsTime, CallEnds, InPhase
    <2>2. HasTheLast(i)'
      BY DEF Sound, HasTheLast, LeavesTheRow, Untouched, InPhase
    <2>3. KeepsItsLease(i)'
      <3>1. CASE InPhase(i, "claimed")
        <4>1. CASE now <= flight[i].since + settings[i].lease
          BY <3>1, <4>1
          DEF Sound, KeepsItsLease, OwnsLease, InPhase, Holds, LeavesTheRow, Untouched
        <4>2. CASE flight[i].since + settings[i].lease < now
          BY <3>1, <4>2 DEF KeepsItsLease, InPhase
        <4>3. now \in Nat /\ flight[i].since \in Nat /\ settings[i].lease \in Nat
          BY <3>1 DEF UnderWay
        <4> QED
          BY <4>1, <4>2, <4>3
      <3>2. CASE InPhase(i, "calling")
        BY <3>2
        DEF Sound, KeepsItsLease, OwnsLease, CallEnds, Late, InPhase, Holds, LeavesTheRow, Untouched
      <3>3. CASE ~UnderWay(i)
        BY <3>3 DEF KeepsItsLease, InPhase, UnderWay
      <3> QED
        BY <3>1, <3>2, <3>3 DEF UnderWay
    <2> QED
      BY <2>1, <2>2, <2>3
  <1>3. Hears(i)'
    BY DEF Sound, Hears, InPhase, UnderWay
  <1>4. ComesBack(i)'
    BY DEF Sound, ComesBack, InPhase
  <1>5. OwnTimeout(i)'
    BY DEF Sound, OwnTimeout, InPhase
  <1> QED
    BY <1>1, <1>2, <1>3, <1>4, <1>5 DEF Sound

(* What the invariant says of a process that calls, or is about to. *)
LEMMA UnderWayFields ==
    ASSUME TypeOK, ChannelInv, NEW i \in Processes, UnderWay(i)
    PROVE  /\ ~InPhase(i, "idle") /\ i \in Up /\ settings[i].enabled
           /\ now \in Nat /\ flight[i].since \in Nat /\ settings[i].lease \in Nat
           /\ heard[flight[i].attempt] = "nothing"
           /\ KeepsTime(i) /\ HasTheLast(i) /\ KeepsItsLease(i)
  <1>1. AllSound /\ Rest
    BY ByProcess
  <1>2. now \in Nat
    BY <1>1, ChannelAssumption DEF Rest
  <1>3. Sound(i) /\ ~InPhase(i, "idle")
    BY <1>1 DEF UnderWay, InPhase, AllSound
  <1>4. i \in Up
    BY <1>3 DEF Sound, ProcessType
  <1>5. settings[i].lease \in Nat
    BY <1>4, LimitsAreOrdered
  <1> QED
    BY <1>2, <1>3, <1>4, <1>5 DEF UnderWay, Sound, ProcessType, Hears

-----------------------------------------------------------------------------
(* The invariant holds in the beginning, and every step keeps it *)

LEMMA InitInv ==
    ASSUME Init
    PROVE  TypeOK /\ ChannelInv
  <1>1. \A i \in Processes : flight[i].phase = "idle" /\ settings[i] = None
    BY DEF Init, Idle
  <1>2. AllSound
    BY <1>1
    DEF AllSound, Sound, ProcessType, KeepsTime, HasTheLast, KeepsItsLease, Hears, ComesBack,
        OwnTimeout, UnderWay, InPhase
  <1>3. AttemptsDiffer
    BY <1>1 DEF AttemptsDiffer, InPhase
  <1>4. PICK to \in Recipients :
          message = [to |-> to, status |-> "PENDING", attempts |-> 0, leaseEnds |-> None, due |-> 0]
    BY DEF Init
  <1>5. RowType /\ Unheard /\ QueuedIsNotAccepted
    BY <1>4, ChannelAssumption DEF Init, RowType, Unheard, QueuedIsNotAccepted, Statuses, Attempts
  <1>6. Rest
    BY ChannelAssumption DEF Init, Rest
  <1> QED
    BY <1>2, <1>3, <1>5, <1>6, ByProcess

(* A step that leaves the deliveries and the message. *)
LEMMA EditKeeps ==
    ASSUME TypeOK, ChannelInv, NEW e \in Environments, Edit(e)
    PROVE  (TypeOK /\ ChannelInv)'
  <1>1. AllSound /\ AttemptsDiffer /\ Unheard /\ QueuedIsNotAccepted /\ RowType /\ Rest
    BY ByProcess
  <1>2. UNCHANGED <<now, settings, message, flight, heard, stops>>
    BY DEF Edit
  <1>3. \A i \in Processes : Sound(i)'
    <2> TAKE i \in Processes
    <2>1. message \in [to : Recipients, status : Statuses, attempts : {0} \cup Attempts,
                       leaseEnds : Nat \cup {None}, due : Nat]
      BY <1>1 DEF RowType
    <2>2. message.attempts \in Nat
      BY <2>1, ChannelAssumption DEF Attempts
    <2> QED
      BY <1>1, <1>2, <2>1, <2>2, OthersStaySound, UnderWayFields DEF AllSound, LeavesTheRow, Untouched
  <1>4. AttemptsDiffer' /\ Unheard' /\ QueuedIsNotAccepted' /\ RowType'
    BY <1>1, <1>2 DEF AttemptsDiffer, InPhase, Unheard, QueuedIsNotAccepted, RowType
  <1>5. Rest'
    BY <1>1, <1>2, ChannelAssumption DEF Rest, Edit
  <1> QED
    BY <1>3, <1>4, <1>5, NextByProcess DEF AllSound

LEMMA BootKeeps ==
    ASSUME TypeOK, ChannelInv, NEW i \in Processes, Boot(i)
    PROVE  (TypeOK /\ ChannelInv)'
  <1>1. AllSound /\ AttemptsDiffer /\ Unheard /\ QueuedIsNotAccepted /\ RowType /\ Rest
    BY ByProcess
  <1>2. UNCHANGED <<now, env, message, flight, heard, edits, stops>>
    BY DEF Boot
  <1>3. /\ settings'[i] = Settings(env) /\ IsValid(env) /\ env \in Environments
        /\ \A j \in Processes \ {i} : settings'[j] = settings[j]
        /\ DOMAIN settings' = Processes
    BY <1>1 DEF Boot, Rest
  <1>4. InPhase(i, "idle")
    BY <1>1 DEF Boot, AllSound, Sound, ProcessType, Up
  <1>5. \A j \in Processes \ {i} : Sound(j)'
    <2> TAKE j \in Processes \ {i}
    <2>1. message \in [to : Recipients, status : Statuses, attempts : {0} \cup Attempts,
                       leaseEnds : Nat \cup {None}, due : Nat]
      BY <1>1 DEF RowType
    <2>2. message.attempts \in Nat
      BY <2>1, ChannelAssumption DEF Attempts
    <2> QED
      BY <1>1, <1>2, <1>3, <2>1, <2>2, OthersStaySound, UnderWayFields DEF AllSound, LeavesTheRow, Untouched
  <1>6. Sound(i)'
    BY <1>2, <1>3, <1>4
    DEF Sound, ProcessType, KeepsTime, HasTheLast, KeepsItsLease, Hears, ComesBack, OwnTimeout,
        UnderWay, InPhase
  <1>7. AttemptsDiffer' /\ Unheard' /\ QueuedIsNotAccepted' /\ RowType'
    BY <1>1, <1>2 DEF AttemptsDiffer, InPhase, Unheard, QueuedIsNotAccepted, RowType
  <1>8. Rest'
    BY <1>1, <1>2, <1>3 DEF Rest
  <1> QED
    BY <1>5, <1>6, <1>7, <1>8, NextByProcess DEF AllSound

LEMMA StopKeeps ==
    ASSUME TypeOK, ChannelInv, NEW i \in Processes, Stop(i)
    PROVE  (TypeOK /\ ChannelInv)'
  <1>1. AllSound /\ AttemptsDiffer /\ Unheard /\ QueuedIsNotAccepted /\ RowType /\ Rest
    BY ByProcess
  <1>2. UNCHANGED <<now, env, message, heard, edits>>
    BY DEF Stop
  <1>3. /\ settings'[i] = None /\ flight'[i] = Idle
        /\ \A j \in Processes \ {i} : settings'[j] = settings[j] /\ flight'[j] = flight[j]
        /\ DOMAIN settings' = Processes /\ DOMAIN flight' = Processes
    BY <1>1 DEF Stop, Rest
  <1>4. flight'[i].phase = "idle"
    BY <1>3 DEF Idle
  <1>5. \A j \in Processes \ {i} : Sound(j)'
    <2> TAKE j \in Processes \ {i}
    <2>1. message \in [to : Recipients, status : Statuses, attempts : {0} \cup Attempts,
                       leaseEnds : Nat \cup {None}, due : Nat]
      BY <1>1 DEF RowType
    <2>2. message.attempts \in Nat
      BY <2>1, ChannelAssumption DEF Attempts
    <2> QED
      BY <1>1, <1>2, <1>3, <2>1, <2>2, OthersStaySound, UnderWayFields DEF AllSound, LeavesTheRow, Untouched
  <1>6. Sound(i)'
    BY <1>3, <1>4
    DEF Sound, ProcessType, KeepsTime, HasTheLast, KeepsItsLease, Hears, ComesBack, OwnTimeout,
        UnderWay, InPhase
  <1>7. AttemptsDiffer'
    BY <1>1, <1>3, <1>4 DEF AttemptsDiffer, InPhase
  <1>8. Unheard' /\ QueuedIsNotAccepted' /\ RowType'
    BY <1>1, <1>2 DEF Unheard, QueuedIsNotAccepted, RowType
  <1>9. Rest'
    BY <1>1, <1>2, <1>3, ChannelAssumption DEF Rest, Stop
  <1> QED
    BY <1>5, <1>6, <1>7, <1>8, <1>9, NextByProcess DEF AllSound

(* A step of one delivery: what is left to show of the others. *)
LEMMA DeliverySteps ==
    ASSUME TypeOK, ChannelInv, NEW i \in Processes, NEW x,
           flight' = [flight EXCEPT ![i] = x],
           UNCHANGED <<now, env, settings, edits, stops>>,
           RowType', message'.attempts >= message.attempts,
           Sound(i)',
           \A j \in Processes \ {i} :
              /\ LeavesTheRow(j)
              /\ ~InPhase(j, "idle") => heard'[flight[j].attempt] = heard[flight[j].attempt],
           x.phase = "idle" \/ (x.attempt = flight[i].attempt /\ ~InPhase(i, "idle"))
              \/ x.attempt > message.attempts,
           Unheard', QueuedIsNotAccepted'
    PROVE  (TypeOK /\ ChannelInv)'
  <1>1. AllSound /\ AttemptsDiffer /\ RowType /\ Rest
    BY ByProcess
  <1>2. /\ flight'[i] = x /\ \A j \in Processes \ {i} : flight'[j] = flight[j]
        /\ DOMAIN flight' = Processes
    BY <1>1 DEF Rest
  <1>3. message' \in [to : Recipients, status : Statuses, attempts : {0} \cup Attempts,
                      leaseEnds : Nat \cup {None}, due : Nat]
    BY DEF RowType
  <1>4. \A j \in Processes \ {i} : Sound(j)'
    BY <1>1, <1>2, <1>3, OthersStaySound, UnderWayFields DEF AllSound
  <1>5. AttemptsDiffer'
    <2>1. \A j \in Processes \ {i} :
            ~InPhase(j, "idle") => flight[j].attempt \in 1..message.attempts
      BY <1>1 DEF AllSound, Sound, ProcessType
    <2>2. message.attempts \in Nat
      BY <1>1, ChannelAssumption DEF RowType, Attempts
    <2>3. ASSUME NEW j \in Processes \ {i}, x.phase # "idle", ~InPhase(j, "idle")
          PROVE  x.attempt # flight[j].attempt
      <3>1. CASE x.attempt = flight[i].attempt /\ ~InPhase(i, "idle")
        BY <1>1, <2>3, <3>1 DEF AttemptsDiffer
      <3>2. CASE x.attempt > message.attempts
        BY <2>1, <2>2, <2>3, <3>2
      <3> QED
        BY <2>3, <3>1, <3>2
    <2>4. \A j, k \in Processes \ {i} : j # k /\ ~InPhase(j, "idle") /\ ~InPhase(k, "idle")
                                        => flight[j].attempt # flight[k].attempt
      BY <1>1 DEF AttemptsDiffer
    <2> QED
      BY <1>2, <2>3, <2>4 DEF AttemptsDiffer, InPhase
  <1>6. Rest'
    BY <1>1, <1>2 DEF Rest
  <1> QED
    BY <1>4, <1>5, <1>6, NextByProcess DEF AllSound

(* What is known of a process that is not idle. *)
LEMMA DeliveryFields ==
    ASSUME TypeOK, ChannelInv, NEW i \in Processes, ~InPhase(i, "idle")
    PROVE  /\ i \in Up /\ flight[i].attempt \in Attempts /\ message.attempts \in Nat
           /\ flight[i].attempt \in 1..message.attempts
           /\ \A j \in Processes \ {i} :
                ~InPhase(j, "idle") => flight[j].attempt # flight[i].attempt
  <1>1. AllSound /\ AttemptsDiffer /\ RowType
    BY ByProcess
  <1>2. i \in Up /\ flight[i].attempt \in 1..message.attempts
    BY <1>1 DEF AllSound, Sound, ProcessType
  <1>3. message.attempts \in {0} \cup Attempts
    BY <1>1 DEF RowType
  <1>4. flight[i].attempt \in Attempts /\ message.attempts \in Nat
    BY <1>2, <1>3, ChannelAssumption DEF Attempts
  <1> QED
    BY <1>1, <1>2, <1>4 DEF AttemptsDiffer

(* A delivery that ends before or after its call; the message is not written yet. *)
LEMMA EndKeeps ==
    ASSUME TypeOK, ChannelInv, NEW i \in Processes, UnderWay(i),
           NEW kind \in {"sent", "temporary", "permanent"}, NEW code, Ends(i, kind, code),
           UNCHANGED <<now, env, settings, message, edits, stops>>,
           code # "TIMEOUT",
           heard' \in [Attempts -> {"nothing", "success", "accepted", "refused"}],
           \A n \in Attempts : n # flight[i].attempt => heard'[n] = heard[n],
           kind = "temporary" => heard'[flight[i].attempt] # "accepted"
    PROVE  (TypeOK /\ ChannelInv)'
  <1> DEFINE x == [phase |-> "done", attempt |-> flight[i].attempt, kind |-> kind, code |-> code]
  <1>1. AllSound /\ RowType /\ Unheard /\ QueuedIsNotAccepted /\ Rest
    BY ByProcess
  <1>2. ~InPhase(i, "idle") /\ HasTheLast(i)
    BY <1>1 DEF UnderWay, InPhase, AllSound, Sound
  <1>3. flight' = [flight EXCEPT ![i] = x] /\ flight'[i] = x
    BY <1>1 DEF Ends, Rest
  <1>4. RowType'
    BY <1>1 DEF RowType
  <1>5. message.attempts \in Nat /\ flight[i].attempt \in 1..message.attempts
    BY <1>2, DeliveryFields
  <1>6. Sound(i)'
    <2>1. /\ flight'[i].phase = "done" /\ flight'[i].attempt = flight[i].attempt
          /\ flight'[i].kind = kind /\ flight'[i].code = code
      BY <1>3
    <2>2. i \in Up
      BY <1>2, DeliveryFields
    <2>3. settings[i] # None => \E e \in Environments : IsValid(e) /\ settings[i] = Settings(e)
      BY <1>1 DEF AllSound, Sound, ProcessType
    <2>4. ProcessType(i)'
      BY <1>5, <2>1, <2>2, <2>3 DEF ProcessType, InPhase, Up
    <2>5. /\ KeepsTime(i)' /\ KeepsItsLease(i)' /\ Hears(i)' /\ ComesBack(i)' /\ OwnTimeout(i)'
      BY <2>1 DEF KeepsTime, KeepsItsLease, Hears, ComesBack, OwnTimeout, UnderWay, InPhase
    <2>6. HasTheLast(i)'
      BY <1>2, <2>1 DEF HasTheLast
    <2> QED
      BY <2>4, <2>5, <2>6 DEF Sound
  <1>7. \A j \in Processes \ {i} :
          ~InPhase(j, "idle") => heard'[flight[j].attempt] = heard[flight[j].attempt]
    <2> SUFFICES ASSUME NEW j \in Processes \ {i}, ~InPhase(j, "idle")
                 PROVE  heard'[flight[j].attempt] = heard[flight[j].attempt]
      OBVIOUS
    <2>1. flight[j].attempt \in Attempts
      BY DeliveryFields
    <2>2. flight[j].attempt # flight[i].attempt
      BY <1>2, DeliveryFields
    <2> QED
      BY <2>1, <2>2
  <1>8. Unheard'
    BY <1>1, <1>5 DEF Unheard, Attempts
  <1>9. QueuedIsNotAccepted'
    <2>1. message.attempts > 0 => message.attempts \in Attempts
      BY <1>1 DEF RowType
    <2> QED
      BY <1>1, <1>2, <2>1 DEF QueuedIsNotAccepted, HasTheLast
  <1>10. x.attempt = flight[i].attempt /\ ~InPhase(i, "idle")
    BY <1>2
  <1> HIDE DEF x
  <1>11. message'.attempts >= message.attempts
    BY <1>5
  <1>12. \A j \in Processes \ {i} :
           /\ LeavesTheRow(j)
           /\ ~InPhase(j, "idle") => heard'[flight[j].attempt] = heard[flight[j].attempt]
    BY <1>7 DEF LeavesTheRow, Untouched
  <1>13. UNCHANGED <<now, env, settings, edits, stops>>
    OBVIOUS
  <1> QED
    BY <1>3, <1>4, <1>6, <1>8, <1>9, <1>10, <1>11, <1>12, <1>13, DeliverySteps

(* A process sends from the number at which it takes the answers to this tenant. *)
LEMMA NumberOfTheTenant ==
    ASSUME TypeOK, NEW i \in Up, ByTenant(i, Tenant) # None
    PROVE  /\ Lookup(settings[i].accounts, ByTenant(i, Tenant).phoneNumberId) = ByTenant(i, Tenant)
           /\ ByTenant(i, Tenant).tenantId = Tenant
  BY AccountsAreDistinct, LookupsAreInverse, LookupOfSettings

LEMMA CallKeeps ==
    ASSUME TypeOK, ChannelInv, NEW i \in Processes, Call(i)
    PROVE  (TypeOK /\ ChannelInv)'
  <1> DEFINE account == ByTenant(i, Tenant)
             x == [phase |-> "calling", attempt |-> flight[i].attempt,
                   since |-> now, claimed |-> flight[i].since, from |-> account.phoneNumberId]
  <1>1. AllSound /\ RowType /\ Unheard /\ QueuedIsNotAccepted /\ Rest
    BY ByProcess
  <1>2. InPhase(i, "claimed") /\ UNCHANGED <<now, env, settings, message, heard, edits, stops>>
    BY DEF Call
  <1>3. UnderWay(i)
    BY <1>2 DEF UnderWay
  <1>4. /\ ~InPhase(i, "idle") /\ i \in Up /\ settings[i].enabled
        /\ now \in Nat /\ flight[i].since \in Nat /\ flight[i].since <= now
        /\ heard[flight[i].attempt] = "nothing"
        /\ HasTheLast(i) /\ KeepsItsLease(i)
    <2>1. flight[i].since \in 0..now
      BY <1>1, <1>3 DEF AllSound, Sound, ProcessType, UnderWay
    <2> QED
      BY <1>3, <2>1, UnderWayFields
  <1>5. CASE \/ Ends(i, "permanent", "WA_NOT_CONFIGURED")
             \/ Ends(i, "permanent", "WA_INVALID_RECIPIENT")
    <2>1. heard' \in [Attempts -> {"nothing", "success", "accepted", "refused"}]
      BY <1>1, <1>2 DEF RowType
    <2>2. PICK code \in {"WA_NOT_CONFIGURED", "WA_INVALID_RECIPIENT"} : Ends(i, "permanent", code)
      BY <1>5
    <2>3. code # "TIMEOUT"
      OBVIOUS
    <2>4. \A n \in Attempts : n # flight[i].attempt => heard'[n] = heard[n]
      BY <1>2
    <2>5. UNCHANGED <<now, env, settings, message, edits, stops>>
      BY <1>2
    <2> QED
      BY <1>3, <2>1, <2>2, <2>3, <2>4, <2>5, EndKeeps
  <1>6. CASE account # None /\ flight' = [flight EXCEPT ![i] = x]
    <2>1. flight'[i] = x
      BY <1>1, <1>6 DEF Rest
    <2>2. message.attempts \in Nat /\ flight[i].attempt \in 1..message.attempts
      BY <1>4, DeliveryFields
    <2>3. /\ flight'[i].phase = "calling" /\ flight'[i].attempt = flight[i].attempt
          /\ flight'[i].since = now /\ flight'[i].claimed = flight[i].since
          /\ flight'[i].from = account.phoneNumberId
      BY <2>1
    <2>4. Lookup(settings[i].accounts, account.phoneNumberId) = account /\ account.tenantId = Tenant
      BY <1>4, <1>6, NumberOfTheTenant
    <2>5. ComesBack(i)'
      BY <1>2, <1>6, <2>3, <2>4 DEF ComesBack
    <2> HIDE DEF x, account
    <2>6. settings[i] # None => \E e \in Environments : IsValid(e) /\ settings[i] = Settings(e)
      BY <1>1 DEF AllSound, Sound, ProcessType
    <2>7. ProcessType(i)'
      BY <1>2, <1>4, <2>2, <2>3, <2>6 DEF ProcessType, InPhase, Up
    <2>8. KeepsTime(i)' /\ HasTheLast(i)' /\ KeepsItsLease(i)'
      <3>1. /\ settings[i].http \in Nat /\ settings[i].lease \in Nat
            /\ settings[i].http <= settings[i].lease
        BY <1>4, LimitsAreOrdered
      <3>2. now <= now + settings[i].http
        BY <1>4, <3>1
      <3>3. KeepsTime(i)'
        BY <1>2, <2>3, <3>2 DEF KeepsTime, InPhase, CallEnds
      <3>4. HasTheLast(i)'
        BY <1>2, <1>4, <2>3 DEF HasTheLast
      <3>5. ASSUME ~Late(i)' PROVE OwnsLease(i)' /\ CallEnds(i)' <= message'.leaseEnds
        <4>1. now = flight[i].since \/ now + settings[i].http <= flight[i].since + settings[i].lease
          BY <1>2, <1>4, <2>3, <3>1, <3>5 DEF Late, CallEnds
        <4>2. now + settings[i].http <= flight[i].since + settings[i].lease
          BY <1>4, <3>1, <4>1
        <4>3. ~(flight[i].since + settings[i].lease < now)
          BY <1>4, <3>1, <4>2
        <4>4. OwnsLease(i) /\ message.leaseEnds = flight[i].since + settings[i].lease
          BY <1>2, <1>4, <4>3 DEF KeepsItsLease
        <4> QED
          BY <1>2, <2>3, <4>2, <4>4 DEF OwnsLease, CallEnds
      <3>6. KeepsItsLease(i)'
        BY <2>3, <3>5 DEF KeepsItsLease, InPhase
      <3> QED
        BY <3>3, <3>4, <3>6
    <2>9. Hears(i)' /\ OwnTimeout(i)'
      BY <1>2, <1>4, <2>3 DEF Hears, OwnTimeout, InPhase
    <2>10. Sound(i)'
      BY <2>5, <2>7, <2>8, <2>9 DEF Sound
    <2>11. Unheard' /\ QueuedIsNotAccepted' /\ RowType'
      BY <1>1, <1>2 DEF Unheard, QueuedIsNotAccepted, RowType
    <2>12. x.attempt = flight[i].attempt /\ ~InPhase(i, "idle")
      BY <1>4 DEF x
    <2>13. message'.attempts >= message.attempts
      BY <1>2, <2>2
    <2>14. \A j \in Processes \ {i} :
             /\ LeavesTheRow(j)
             /\ ~InPhase(j, "idle") => heard'[flight[j].attempt] = heard[flight[j].attempt]
      BY <1>2 DEF LeavesTheRow, Untouched
    <2>15. UNCHANGED <<now, env, settings, edits, stops>>
      BY <1>2
    <2> QED
      BY <1>6, <2>10, <2>11, <2>12, <2>13, <2>14, <2>15, DeliverySteps
  <1> QED
    BY <1>5, <1>6 DEF Call

LEMMA AnswerKeeps ==
    ASSUME TypeOK, ChannelInv, NEW i \in Processes, NEW r \in Responses,
           Answer(i, r)
    PROVE  (TypeOK /\ ChannelInv)'
  <1> DEFINE h == IF r.status = 200 THEN "accepted" ELSE "refused"
  <1>1. AllSound /\ RowType /\ Rest
    BY ByProcess
  <1>2. /\ InPhase(i, "calling") /\ UNCHANGED <<now, env, settings, message, edits, stops>>
        /\ heard' = [heard EXCEPT ![flight[i].attempt] = h]
    BY DEF Answer
  <1>3. UnderWay(i)
    BY <1>2 DEF UnderWay
  <1>4. flight[i].attempt \in Attempts
    BY <1>3, UnderWayFields, DeliveryFields
  <1>5. /\ heard' \in [Attempts -> {"nothing", "success", "accepted", "refused"}]
        /\ heard'[flight[i].attempt] = h
        /\ \A n \in Attempts : n # flight[i].attempt => heard'[n] = heard[n]
    BY <1>1, <1>2, <1>4 DEF RowType
  <1>6. PICK kind \in {"sent", "temporary", "permanent"},
             code \in {None, "WA_INVALID_RESPONSE", "WA_CODE"} :
          /\ Ends(i, kind, code)
          /\ kind = "temporary" => r.status # 200
    <2>1. CASE r.status = 200 /\ r.id /\ Ends(i, "sent", None)
      BY <2>1
    <2>2. CASE r.status = 200 /\ ~r.id /\ Ends(i, Unusable, "WA_INVALID_RESPONSE")
      BY <2>2 DEF Unusable
    <2>3. CASE r.status # 200 /\ Ends(i, Classify(r), "WA_CODE")
      BY <2>3 DEF Classify
    <2> QED
      BY <2>1, <2>2, <2>3 DEF Answer
  <1>7. code # "TIMEOUT"
    BY ChannelAssumption
  <1>8. kind = "temporary" => heard'[flight[i].attempt] # "accepted"
    BY <1>5, <1>6
  <1> QED
    BY <1>2, <1>3, <1>5, <1>6, <1>7, <1>8, EndKeeps

LEMMA NoAnswerKeeps ==
    ASSUME TypeOK, ChannelInv, NEW i \in Processes, NoAnswer(i)
    PROVE  (TypeOK /\ ChannelInv)'
  <1>1. AllSound /\ RowType /\ Rest
    BY ByProcess
  <1>2. /\ InPhase(i, "calling") /\ UNCHANGED <<now, env, settings, message, edits, stops>>
        /\ \/ UNCHANGED heard
           \/ \E r \in Responses : heard' = [heard EXCEPT ![flight[i].attempt] = StatusAlone(r)]
    BY DEF NoAnswer
  <1>3. UnderWay(i)
    BY <1>2 DEF UnderWay
  <1>4. PICK cause \in Causes(i) : Ends(i, "temporary", cause)
    BY DEF NoAnswer
  <1>5. cause # "TIMEOUT"
    <2>1. /\ i \in Up /\ settings[i].enabled /\ now \in Nat /\ flight[i].since \in Nat
          /\ now <= CallEnds(i)
      BY <1>2, <1>3, UnderWayFields DEF KeepsTime
    <2>2. /\ settings[i].http \in Nat /\ settings[i].send \in Nat
          /\ settings[i].http < settings[i].send
      BY <2>1, LimitsAreOrdered
    <2>3. ~(now >= SendEnds(i))
      BY <2>1, <2>2 DEF CallEnds, SendEnds
    <2> QED
      BY <1>4, <2>3 DEF Causes
  <1>6. heard[flight[i].attempt] = "nothing"
    BY <1>3, UnderWayFields
  <1>7. heard' \in [Attempts -> {"nothing", "success", "accepted", "refused"}]
    BY <1>1, <1>2 DEF RowType, StatusAlone
  <1>8. UNCHANGED <<now, env, settings, message, edits, stops>>
    BY <1>2
  <1>9. /\ \A n \in Attempts : n # flight[i].attempt => heard'[n] = heard[n]
        /\ heard'[flight[i].attempt] # "accepted"
    <2>1. flight[i].attempt \in Attempts
      BY <1>3, UnderWayFields, DeliveryFields
    <2> QED
      BY <1>1, <1>2, <1>6, <2>1 DEF RowType, StatusAlone
  <1> QED
    BY <1>3, <1>4, <1>5, <1>7, <1>8, <1>9, EndKeeps

LEMMA ClaimKeeps ==
    ASSUME TypeOK, ChannelInv, NEW i \in Processes, Claim(i)
    PROVE  (TypeOK /\ ChannelInv)'
  <1>1. AllSound /\ RowType /\ Unheard /\ QueuedIsNotAccepted /\ Rest
    BY ByProcess
  <1>2. /\ i \in Up /\ InPhase(i, "idle") /\ message.status = "PENDING" /\ Unleased
        /\ UNCHANGED <<now, env, settings, heard, edits, stops>>
    BY DEF Claim
  <1>3. \A j \in Processes : ~Holds(j)
    BY <1>2, NobodyHolds
  <1>4. message.attempts \in Nat /\ now \in Nat
    BY <1>1, ChannelAssumption DEF RowType, Rest, Attempts
  <1>5. message = [to |-> message.to, status |-> message.status, attempts |-> message.attempts,
                   leaseEnds |-> message.leaseEnds, due |-> message.due]
    BY <1>1 DEF RowType
  <1>6. UNCHANGED <<now, env, settings, edits, stops>>
    BY <1>2
  <1>7. CASE message' = Settled("FAILED") /\ UNCHANGED flight
    <2>1. /\ message'.status = "FAILED" /\ message'.leaseEnds = None
          /\ message'.attempts = message.attempts
      BY <1>1, <1>7 DEF Settled, RowType
    <2>2. RowType'
      BY <1>1, <1>2, <1>7 DEF RowType, Settled, Statuses
    <2>3. Unheard' /\ QueuedIsNotAccepted'
      BY <1>1, <1>2, <2>1 DEF Unheard, QueuedIsNotAccepted
    <2>4. message' \in [to : Recipients, status : Statuses, attempts : {0} \cup Attempts,
                        leaseEnds : Nat \cup {None}, due : Nat]
      BY <2>2 DEF RowType
    <2>5. \A j \in Processes : Sound(j)'
      BY <1>1, <1>2, <1>3, <1>4, <1>7, <2>1, <2>4, OthersStaySound, UnderWayFields
      DEF AllSound, LeavesTheRow
    <2>6. AttemptsDiffer' /\ Rest'
      BY <1>1, <1>2, <1>7, ByProcess DEF AttemptsDiffer, Rest, InPhase
    <2> QED
      BY <2>2, <2>3, <2>5, <2>6, NextByProcess DEF AllSound
  <1>8. CASE /\ settings[i].enabled
             /\ message.attempts < OUTBOUND_MAX_ATTEMPTS /\ message.due <= now
             /\ message' = [message EXCEPT !.attempts = @ + 1,
                                           !.leaseEnds = now + settings[i].lease]
             /\ flight' = [flight EXCEPT ![i] =
                             [phase |-> "claimed", attempt |-> message.attempts + 1, since |-> now]]
    <2> DEFINE x == [phase |-> "claimed", attempt |-> message.attempts + 1, since |-> now]
    <2>1. settings[i].lease \in Nat
      BY <1>2, LimitsAreOrdered
    <2>2. /\ message'.status = "PENDING" /\ message'.leaseEnds = now + settings[i].lease
          /\ message'.attempts = message.attempts + 1
      BY <1>1, <1>2, <1>8 DEF RowType
    <2>3. message.attempts + 1 \in Attempts /\ now + settings[i].lease \in Nat
      BY <1>4, <1>8, <2>1, ChannelAssumption DEF Attempts
    <2>4. message' \in [to : Recipients, status : Statuses, attempts : {0} \cup Attempts,
                        leaseEnds : Nat \cup {None}, due : Nat]
      BY <1>1, <1>8, <2>3 DEF RowType
    <2>5. RowType'
      BY <1>1, <1>2, <2>2, <2>4 DEF RowType
    <2>6. message'.leaseEnds # None
      BY <2>2, <2>3, ChannelAssumption
    <2>7. Unheard'
      <3> SUFFICES ASSUME NEW n \in Attempts, n > message.attempts + 1 PROVE heard[n] = "nothing"
        BY <1>2, <2>2 DEF Unheard
      <3>1. n > message.attempts
        BY <1>4 DEF Attempts
      <3> QED
        BY <1>1, <3>1 DEF Unheard
    <2>8. QueuedIsNotAccepted'
      BY <2>6 DEF QueuedIsNotAccepted
    <2>9. flight' = [flight EXCEPT ![i] = x] /\ flight'[i] = x
      BY <1>1, <1>8 DEF Rest
    <2>10. /\ flight'[i].phase = "claimed" /\ flight'[i].attempt = message.attempts + 1
           /\ flight'[i].since = now
      BY <2>9
    <2>11. settings[i] # None => \E e \in Environments : IsValid(e) /\ settings[i] = Settings(e)
      BY <1>1 DEF AllSound, Sound, ProcessType
    <2>12. ProcessType(i)'
      BY <1>2, <1>4, <1>8, <2>2, <2>10, <2>11 DEF ProcessType, InPhase, Up
    <2>13. KeepsTime(i)' /\ HasTheLast(i)' /\ KeepsItsLease(i)'
      BY <1>2, <2>2, <2>6, <2>10 DEF KeepsTime, HasTheLast, KeepsItsLease, InPhase, OwnsLease
    <2>14. Hears(i)'
      <3>1. heard[message.attempts + 1] = "nothing"
        BY <1>1, <1>4, <2>3 DEF Unheard
      <3> QED
        BY <1>2, <2>10, <3>1 DEF Hears, UnderWay, InPhase
    <2>15. Sound(i)'
      BY <2>10, <2>12, <2>13, <2>14 DEF Sound, ComesBack, OwnTimeout, InPhase
    <2>16. x.attempt > message.attempts /\ message'.attempts >= message.attempts
      BY <1>4, <2>2
    <2> HIDE DEF x
    <2>17. \A j \in Processes \ {i} :
             /\ LeavesTheRow(j)
             /\ ~InPhase(j, "idle") => heard'[flight[j].attempt] = heard[flight[j].attempt]
      <3> TAKE j \in Processes \ {i}
      <3>1. ~InPhase(j, "idle") => flight[j].attempt # message.attempts + 1
        BY <1>4, DeliveryFields
      <3> QED
        BY <1>2, <1>3, <2>2, <3>1 DEF LeavesTheRow
    <2> QED
      BY <1>6, <2>5, <2>7, <2>8, <2>9, <2>15, <2>16, <2>17, DeliverySteps
  <1> QED
    BY <1>7, <1>8 DEF Claim

LEMMA RecordKeeps ==
    ASSUME TypeOK, ChannelInv, NEW i \in Processes, Record(i)
    PROVE  (TypeOK /\ ChannelInv)'
  <1>1. AllSound /\ RowType /\ Unheard /\ QueuedIsNotAccepted /\ Rest
    BY ByProcess
  <1>2. /\ InPhase(i, "done") /\ flight' = [flight EXCEPT ![i] = Idle]
        /\ UNCHANGED <<now, env, settings, heard, edits, stops>>
    BY DEF Record
  <1>3. ~InPhase(i, "idle")
    BY <1>2 DEF InPhase
  <1>4. message.attempts \in Nat /\ now \in Nat
    BY <1>1, ChannelAssumption DEF RowType, Rest, Attempts
  <1>5. message'.attempts = message.attempts /\ (message' = message \/ OwnsLease(i))
    BY <1>1 DEF Record, Settled, RowType
  <1>6. RowType'
    <2>1. CASE message' = message
      BY <1>1, <1>2, <2>1 DEF RowType
    <2>2. CASE message' = Settled("SENT") \/ message' = Settled("FAILED")
      BY <1>1, <1>2, <2>2 DEF RowType, Settled, Statuses
    <2>3. CASE message' = [message EXCEPT !.leaseEnds = None, !.due = now + 1]
      <3>1. now + 1 \in Nat
        BY <1>4
      <3>2. /\ message' \in [to : Recipients, status : Statuses, attempts : {0} \cup Attempts,
                            leaseEnds : Nat \cup {None}, due : Nat]
            /\ message'.leaseEnds = None
        BY <1>1, <2>3, <3>1 DEF RowType
      <3> QED
        BY <1>1, <1>2, <3>2 DEF RowType
    <2> QED
      BY <2>1, <2>2, <2>3 DEF Record
  <1>7. Unheard'
    BY <1>1, <1>2, <1>5 DEF Unheard
  <1>8. QueuedIsNotAccepted'
    <2>1. CASE message' = message
      BY <1>1, <1>2, <2>1 DEF QueuedIsNotAccepted
    <2>2. CASE message' = Settled("SENT") \/ message' = Settled("FAILED")
      BY <1>1, <2>2 DEF RowType, Settled, QueuedIsNotAccepted
    <2>3. CASE OwnsLease(i) /\ flight[i].kind = "temporary"
      <3>1. heard[message.attempts] # "accepted"
        BY <1>1, <1>2, <2>3 DEF AllSound, Sound, Hears, OwnsLease
      <3> QED
        BY <1>2, <1>5, <3>1 DEF QueuedIsNotAccepted
    <2> QED
      BY <2>1, <2>2, <2>3 DEF Record
  <1>9. flight'[i].phase = "idle"
    BY <1>1, <1>2 DEF Rest, Idle
  <1>10. Sound(i)'
    <2>1. settings[i] # None => \E e \in Environments : IsValid(e) /\ settings[i] = Settings(e)
      BY <1>1 DEF AllSound, Sound, ProcessType
    <2> QED
      BY <1>2, <1>9, <2>1
      DEF Sound, ProcessType, KeepsTime, HasTheLast, KeepsItsLease, Hears, ComesBack, OwnTimeout,
        UnderWay, InPhase
  <1>11. \A j \in Processes \ {i} :
           /\ LeavesTheRow(j)
           /\ ~InPhase(j, "idle") => heard'[flight[j].attempt] = heard[flight[j].attempt]
    <2> TAKE j \in Processes \ {i}
    <2>1. CASE OwnsLease(i)
      <3>1. ~InPhase(j, "idle") => message.attempts # flight[j].attempt
        BY <1>3, <2>1, DeliveryFields DEF OwnsLease
      <3>2. ~Holds(j)
        BY <3>1, HolderHasTheLease DEF OwnsLease, Holds, InPhase
      <3> QED
        BY <1>2, <1>5, <3>1, <3>2 DEF LeavesTheRow
    <2>2. CASE message' = message
      BY <1>2, <2>2 DEF LeavesTheRow, Untouched
    <2> QED
      BY <1>5, <2>1, <2>2
  <1>12. Idle.phase = "idle" /\ message'.attempts >= message.attempts
    BY <1>4, <1>5 DEF Idle
  <1>13. UNCHANGED <<now, env, settings, edits, stops>>
    BY <1>2
  <1> QED
    BY <1>2, <1>6, <1>7, <1>8, <1>10, <1>11, <1>12, <1>13, DeliverySteps

(* Time goes on only while no call, and none to come, has reached its limit. *)
LEMMA TickKeeps ==
    ASSUME TypeOK, ChannelInv, Tick
    PROVE  (TypeOK /\ ChannelInv)'
  <1>1. AllSound /\ AttemptsDiffer /\ RowType /\ Unheard /\ QueuedIsNotAccepted /\ Rest
    BY ByProcess
  <1>2. /\ now < MaxTime /\ \A i \in Processes : ~MustFire(i)
        /\ now' = now + 1 /\ UNCHANGED <<env, settings, message, flight, heard, edits, stops>>
    BY DEF Tick
  <1>3. now \in Nat /\ MaxTime \in Nat
    BY <1>1, ChannelAssumption DEF Rest
  <1>4. ASSUME NEW i \in Processes
        PROVE  Sound(i)'
    <2>1. Sound(i)
      BY <1>1 DEF AllSound
    <2>2. ProcessType(i)'
      BY <1>2, <1>3, <2>1 DEF Sound, ProcessType, InPhase, Up
    <2>3. Hears(i)' /\ ComesBack(i)' /\ OwnTimeout(i)'
      BY <1>2, <2>1 DEF Sound, Hears, ComesBack, OwnTimeout, UnderWay, InPhase
    <2>4. CASE UnderWay(i)
      <3>1. /\ i \in Up /\ flight[i].since \in Nat
        BY <2>4, UnderWayFields
      <3>2. settings[i].http \in Nat /\ settings[i].lease \in Nat
        BY <3>1, LimitsAreOrdered
      <3>4. InPhase(i, "calling") => now + 1 <= CallEnds(i)
        BY <1>2, <1>3, <3>1, <3>2 DEF MustFire, CallEnds
      <3>5. KeepsTime(i)'
        BY <1>2, <3>4 DEF KeepsTime, InPhase, CallEnds
      <3>6. HasTheLast(i)'
        BY <1>2, <2>1 DEF Sound, HasTheLast, InPhase
      <3>7. KeepsItsLease(i)'
        <4>1. flight[i].since + settings[i].lease < now
                => flight[i].since + settings[i].lease < now + 1
          BY <1>3, <3>1, <3>2
        <4> QED
          BY <1>2, <2>1, <4>1 DEF Sound, KeepsItsLease, InPhase, OwnsLease, CallEnds, Late
      <3> QED
        BY <2>2, <2>3, <3>5, <3>6, <3>7 DEF Sound
    <2>5. CASE ~UnderWay(i)
      BY <1>2, <2>1, <2>2, <2>3, <2>5
      DEF Sound, UnderWay, KeepsTime, HasTheLast, KeepsItsLease, InPhase
    <2> QED
      BY <2>4, <2>5
  <1>5. AttemptsDiffer' /\ Unheard' /\ QueuedIsNotAccepted' /\ RowType'
    BY <1>1, <1>2 DEF AttemptsDiffer, InPhase, Unheard, QueuedIsNotAccepted, RowType
  <1>6. Rest'
    BY <1>1, <1>2, <1>3 DEF Rest
  <1> QED
    BY <1>4, <1>5, <1>6, NextByProcess DEF AllSound

LEMMA NextInv ==
    ASSUME TypeOK, ChannelInv, [Next]_vars
    PROVE  (TypeOK /\ ChannelInv)'
  <1>1. CASE UNCHANGED vars
    <2>1. AllSound /\ AttemptsDiffer /\ Unheard /\ QueuedIsNotAccepted /\ RowType /\ Rest
      BY ByProcess
    <2>2. UNCHANGED <<now, env, settings, message, flight, heard, edits, stops>>
      BY <1>1 DEF vars
    <2>3. \A i \in Processes : Sound(i)'
      <3> TAKE i \in Processes
      <3>1. message \in [to : Recipients, status : Statuses, attempts : {0} \cup Attempts,
                         leaseEnds : Nat \cup {None}, due : Nat]
        BY <2>1 DEF RowType
      <3>2. message.attempts \in Nat
        BY <3>1, ChannelAssumption DEF Attempts
      <3> QED
        BY <2>1, <2>2, <3>1, <3>2, OthersStaySound, UnderWayFields DEF AllSound, LeavesTheRow, Untouched
    <2>4. AttemptsDiffer' /\ Unheard' /\ QueuedIsNotAccepted' /\ RowType' /\ Rest'
      BY <2>1, <2>2 DEF AttemptsDiffer, InPhase, Unheard, QueuedIsNotAccepted, RowType, Rest
    <2> QED
      BY <2>3, <2>4, NextByProcess DEF AllSound
  <1> QED
    BY <1>1, EditKeeps, BootKeeps, StopKeeps, ClaimKeeps, CallKeeps, AnswerKeeps, NoAnswerKeeps,
       RecordKeeps, TickKeeps DEF Next

-----------------------------------------------------------------------------
(* Every variable has its type, and the bookkeeping of row, deliveries and answers holds: *)
(* see ChannelInv.                                                                       *)
THEOREM InvariantCorrect == Spec => [](TypeOK /\ ChannelInv)
  <1>1. Init => TypeOK /\ ChannelInv
    BY InitInv
  <1>2. TypeOK /\ ChannelInv /\ [Next]_vars => (TypeOK /\ ChannelInv)'
    BY NextInv
  <1> QED
    BY <1>1, <1>2, PTL DEF Spec

(* The limits that env.validation.ts compares at boot, each process its own, keep two     *)
(* processes from sending one message at the same time, however many there are and       *)
(* however long one waits after its claim, unless one of them waited so long that its    *)
(* call could outlast its lease.                                                         *)
THEOREM CallsAreAlone == Spec => []OneCallAtATime
  <1>1. TypeOK /\ ChannelInv => OneCallAtATime
    <2> SUFFICES ASSUME TypeOK, ChannelInv, NEW i \in Processes, NEW j \in Processes,
                        InPhase(i, "calling"), InPhase(j, "calling"), ~Late(i), ~Late(j)
                 PROVE  i = j
      BY DEF OneCallAtATime
    <2>1. /\ ~InPhase(i, "idle") /\ ~InPhase(j, "idle")
          /\ flight[i].attempt = message.attempts /\ flight[j].attempt = message.attempts
      BY HolderHasTheLease DEF Holds, OwnsLease, InPhase
    <2> QED
      BY <2>1 DEF ChannelInv, AttemptsDiffer
  <1> QED
    BY <1>1, InvariantCorrect, PTL

(* A message leaves from a number whose answers reach its own tenant, by the two lookups  *)
(* of WhatsAppAccountResolver and the rules for the list of accounts.                    *)
THEOREM AnswersAlwaysComeBack == Spec => []AnswersComeBack
  <1>1. TypeOK /\ ChannelInv => AnswersComeBack
    BY DEF ChannelInv
  <1> QED
    BY <1>1, InvariantCorrect, PTL

(* A call that Meta does not answer ends by its own limit and never by the engine's.      *)
THEOREM OwnTimeoutsComeFirst == Spec => []OwnTimeoutFirst
  <1>1. TypeOK /\ ChannelInv => OwnTimeoutFirst
    BY DEF ChannelInv
  <1> QED
    BY <1>1, InvariantCorrect, PTL

(* What goes back into the queue has no acceptance that was read to its end; that a       *)
(* success whose body was lost goes back is SuccessIsNotRetried, which is false.         *)
THEOREM AcceptedIsNotQueued == Spec => []QueuedIsNotAccepted
  <1>1. TypeOK /\ ChannelInv => QueuedIsNotAccepted
    BY DEF ChannelInv
  <1> QED
    BY <1>1, InvariantCorrect, PTL

-----------------------------------------------------------------------------
(* What a process learns from an orderly list *)

(* An orderly list has at most one entry of each keyId: of two, the parser  *)
(* complains about the later.                                               *)
LEMMA KeysAreDistinct ==
    ASSUME Endpoint!EndpointAssumption, Endpoint!TypeOK, Endpoint!Problems = {},
           NEW n \in Endpoint!Entries, NEW k \in Endpoint!Entries, file[n].keyId = file[k].keyId
    PROVE  n = k
  <1>1. n \in Nat /\ k \in Nat
    BY DEF Endpoint!Entries, Endpoint!EndpointAssumption
  <1>2. ~(k < n) /\ ~(n < k)
    BY DEF Endpoint!Problems
  <1> QED
    BY <1>1, <1>2

(* So a process knows, by its keyId, each entry of the list. *)
LEMMA ByKeyIdOfEntry ==
    ASSUME Endpoint!EndpointAssumption, Endpoint!TypeOK, Endpoint!Problems = {},
           NEW n \in Endpoint!Entries
    PROVE  Endpoint!ByKeyId[file[n].keyId] = file[n]
  <1> DEFINE key == file[n].keyId
             at == {k \in Endpoint!Entries : file[k].keyId = key}
  <1>1. file[n] \in Credentials
    BY DEF Endpoint!Entries, Endpoint!TypeOK
  <1>2. key \in Endpoint!KeyIds
    BY <1>1 DEF Endpoint!KeyIds
  <1>3. at = {n}
    BY KeysAreDistinct
  <1>4. Endpoint!ByKeyId[key] = IF at = {} THEN None ELSE file[CHOOSE k \in at : \A j \in at : j <= k]
    BY <1>2 DEF Endpoint!ByKeyId
  <1>5. n \in Nat
    BY DEF Endpoint!Entries, Endpoint!EndpointAssumption
  <1>6. (CHOOSE k \in {n} : \A j \in {n} : j <= k) = n
    BY <1>5
  <1> HIDE DEF at
  <1> QED
    BY <1>3, <1>4, <1>6

(* And nothing else. *)
LEMMA ByKeyIdType ==
    ASSUME Endpoint!EndpointAssumption, Endpoint!TypeOK, Endpoint!Problems = {}
    PROVE  Endpoint!ByKeyId \in [Endpoint!KeyIds -> Credentials \cup {None}]
  <1> SUFFICES ASSUME NEW key \in Endpoint!KeyIds
               PROVE  Endpoint!ByKeyId[key] \in Credentials \cup {None}
    BY DEF Endpoint!ByKeyId
  <1> DEFINE at == {n \in Endpoint!Entries : file[n].keyId = key}
  <1>1. CASE at = {}
    BY <1>1 DEF Endpoint!ByKeyId
  <1>2. CASE at # {}
    <2>1. PICK n \in Endpoint!Entries : file[n].keyId = key
      BY <1>2
    <2>2. Endpoint!ByKeyId[key] = file[n]
      BY <2>1, ByKeyIdOfEntry
    <2> QED
      BY <2>2 DEF Endpoint!Entries, Endpoint!TypeOK
  <1> QED
    BY <1>1, <1>2

-----------------------------------------------------------------------------
(* Type correctness *)

LEMMA EndpointInitType ==
    ASSUME Endpoint!EndpointAssumption, Endpoint!Init
    PROVE  Endpoint!TypeOK
  <1> USE DEF Endpoint!Init
  <1>1. file \in [Lines -> Credentials \cup {None}]
    BY DEF Endpoint!EndpointAssumption
  <1>2. request \in [Slots -> Endpoint!RequestType] /\ \A s \in Slots : request[s] = Endpoint!Free
    BY DEF Endpoint!RequestType
  <1>3. hits \in [Processes -> 0..RateLimit] /\ rotations \in 0..MaxRotations /\ faults \in 0..MaxFaults
    BY DEF Endpoint!EndpointAssumption
  <1> QED
    BY <1>1, <1>2, <1>3 DEF Endpoint!TypeOK, Endpoint!EndpointAssumption

(* What is under way in a slot, by its phase. *)
LEMMA RequestFields ==
    ASSUME Endpoint!TypeOK, NEW s \in Slots, request[s] # Endpoint!Free
    PROVE  /\ request[s].body \in Bodies
           /\ request[s].instance \in Processes /\ request[s].instance \in Endpoint!Running
           /\ request[s].phase = "sent" => request[s].with \in Credentials
           /\ request[s].phase = "intake" => request[s].service \in Credentials
           /\ request[s].phase = "done" => request[s].status \in Endpoint!Statuses
  <1>1. request[s] \in Endpoint!RequestType
    BY DEF Endpoint!TypeOK
  <1> QED
    BY <1>1 DEF Endpoint!TypeOK, Endpoint!RequestType

LEMMA AuthenticateType ==
    ASSUME Endpoint!TypeOK, NEW i \in Endpoint!Running, NEW c \in Credentials
    PROVE  Endpoint!Authenticate(i, c) \in Credentials \cup {None}
  <1>1. registry[i] \in [Endpoint!KeyIds -> Credentials \cup {None}]
    BY DEF Endpoint!TypeOK, Endpoint!Running
  <1>2. c.keyId \in Endpoint!KeyIds
    BY DEF Endpoint!KeyIds
  <1> QED
    BY <1>1, <1>2 DEF Endpoint!Authenticate

LEMMA EndpointNextType ==
    ASSUME Endpoint!EndpointAssumption, Endpoint!TypeOK, [Endpoint!Next]_(Endpoint!vars)
    PROVE  Endpoint!TypeOK'
  <1> USE DEF Endpoint!EndpointAssumption
  <1>1. ASSUME NEW c \in Credentials, Endpoint!AddEntry(c)
        PROVE  Endpoint!TypeOK'
    BY <1>1 DEF Endpoint!AddEntry, Endpoint!TypeOK, Endpoint!Running
  <1>2. ASSUME NEW c \in Credentials, Endpoint!SwitchCaller(c)
        PROVE  Endpoint!TypeOK'
    BY <1>2 DEF Endpoint!SwitchCaller, Endpoint!TypeOK, Endpoint!Running
  <1>3. ASSUME NEW n \in Lines, Endpoint!RemoveEntry(n)
        PROVE  Endpoint!TypeOK'
    BY <1>3 DEF Endpoint!RemoveEntry, Endpoint!TypeOK, Endpoint!Running
  <1>4. ASSUME NEW i \in Processes, Endpoint!Boot(i)
        PROVE  Endpoint!TypeOK'
    <2>1. Endpoint!ByKeyId \in [Endpoint!KeyIds -> Credentials \cup {None}]
      BY <1>4, ByKeyIdType DEF Endpoint!Boot
    <2>2. registry' \in [Processes -> {None} \cup [Endpoint!KeyIds -> Credentials \cup {None}]]
      BY <1>4, <2>1 DEF Endpoint!Boot, Endpoint!TypeOK
    <2>3. \A s \in Slots : request[s] = Endpoint!Free \/ request[s].instance \in Endpoint!Running'
      BY <1>4 DEF Endpoint!Boot, Endpoint!TypeOK, Endpoint!Running
    <2> QED
      BY <1>4, <2>2, <2>3 DEF Endpoint!Boot, Endpoint!operator, Endpoint!TypeOK
  <1>5. ASSUME NEW i \in Processes, Endpoint!Stop(i)
        PROVE  Endpoint!TypeOK'
    <2>1. registry' \in [Processes -> {None} \cup [Endpoint!KeyIds -> Credentials \cup {None}]]
          /\ hits' \in [Processes -> 0..RateLimit]
      BY <1>5 DEF Endpoint!Stop, Endpoint!TypeOK
    <2>2. request' \in [Slots -> Endpoint!RequestType]
      BY <1>5 DEF Endpoint!Stop, Endpoint!TypeOK, Endpoint!RequestType
    <2>3. \A s \in Slots : request'[s] = Endpoint!Free \/ request'[s].instance \in Endpoint!Running'
      BY <1>5 DEF Endpoint!Stop, Endpoint!TypeOK, Endpoint!Running
    <2>4. faults' \in 0..MaxFaults
      BY <1>5 DEF Endpoint!Stop, Endpoint!Fault, Endpoint!TypeOK
    <2> QED
      BY <1>5, <2>1, <2>2, <2>3, <2>4 DEF Endpoint!Stop, Endpoint!operator, Endpoint!TypeOK
  <1>6. ASSUME NEW i \in Processes, Endpoint!NewWindow(i)
        PROVE  Endpoint!TypeOK'
    BY <1>6 DEF Endpoint!NewWindow, Endpoint!operator, Endpoint!TypeOK, Endpoint!Running
  <1>7. ASSUME NEW s \in Slots, NEW b \in Bodies, NEW i \in Processes, Endpoint!Send(s, b, i)
        PROVE  Endpoint!TypeOK'
    <2>1. [phase |-> "sent", body |-> b, instance |-> i, with |-> current] \in Endpoint!RequestType
      BY DEF Endpoint!TypeOK, Endpoint!RequestType
    <2>2. request' \in [Slots -> Endpoint!RequestType]
      BY <1>7, <2>1 DEF Endpoint!Send, Endpoint!TypeOK
    <2>3. \A q \in Slots : request'[q] = Endpoint!Free \/ request'[q].instance \in Endpoint!Running
      BY <1>7 DEF Endpoint!Send, Endpoint!TypeOK
    <2> QED
      BY <1>7, <2>2, <2>3 DEF Endpoint!Send, Endpoint!operator, Endpoint!TypeOK, Endpoint!Running
  <1>8. ASSUME NEW s \in Slots, NEW code \in Endpoint!Statuses,
               request[s] # Endpoint!Free, Endpoint!Answers(s, code)
        PROVE  /\ request' \in [Slots -> Endpoint!RequestType]
               /\ \A q \in Slots : request'[q] = Endpoint!Free \/ request'[q].instance \in Endpoint!Running
    <2>1. [phase |-> "done", body |-> request[s].body, instance |-> request[s].instance,
           status |-> code] \in Endpoint!RequestType
      BY <1>8, RequestFields DEF Endpoint!RequestType
    <2>2. request' \in [Slots -> Endpoint!RequestType]
      BY <1>8, <2>1 DEF Endpoint!Answers, Endpoint!TypeOK
    <2>3. \A q \in Slots : request'[q] = Endpoint!Free \/ request'[q].instance \in Endpoint!Running
      BY <1>8, RequestFields DEF Endpoint!Answers, Endpoint!TypeOK
    <2> QED
      BY <2>2, <2>3
  <1>9. ASSUME NEW s \in Slots, Endpoint!Admit(s)
        PROVE  Endpoint!TypeOK'
    <2> DEFINE r == request[s]
               i == r.instance
               service == Endpoint!Authenticate(i, r.with)
               admitted == [phase |-> "intake", body |-> r.body, instance |-> i,
                            service |-> service]
    <2>1. r # Endpoint!Free /\ r.phase = "sent"
      BY <1>9 DEF Endpoint!Admit
    <2>2. i \in Processes /\ i \in Endpoint!Running /\ r.body \in Bodies /\ r.with \in Credentials
      BY <2>1, RequestFields
    <2>3. service \in Credentials \cup {None}
      BY <2>2, AuthenticateType
    <2>4. hits' \in [Processes -> 0..RateLimit]
      <3>1. hits[i] < RateLimit => hits[i] + 1 \in 0..RateLimit
        BY <2>2 DEF Endpoint!TypeOK
      <3> QED
        BY <1>9, <2>2, <3>1 DEF Endpoint!Admit, Endpoint!IsLimited, Endpoint!TypeOK
    <2>5. /\ request' \in [Slots -> Endpoint!RequestType]
          /\ \A q \in Slots : request'[q] = Endpoint!Free \/ request'[q].instance \in Endpoint!Running
      <3>1. CASE Endpoint!Answers(s, 429)
        BY <1>8, <2>1, <3>1 DEF Endpoint!Statuses
      <3>2. CASE Endpoint!Answers(s, 401)
        BY <1>8, <2>1, <3>2 DEF Endpoint!Statuses
      <3>3. CASE Endpoint!Answers(s, 400)
        BY <1>8, <2>1, <3>3 DEF Endpoint!Statuses
      <3>4. CASE service # None /\ request' = [request EXCEPT ![s] = admitted]
        <4>1. admitted \in Endpoint!RequestType
          BY <2>2, <2>3, <3>4 DEF Endpoint!RequestType
        <4> QED
          BY <2>2, <3>4, <4>1 DEF Endpoint!TypeOK
      <3> QED
        BY <1>9, <3>1, <3>2, <3>3, <3>4 DEF Endpoint!Admit
    <2> QED
      BY <1>9, <2>4, <2>5 DEF Endpoint!Admit, Endpoint!operator, Endpoint!TypeOK, Endpoint!Running
  <1>10. ASSUME NEW s \in Slots, Endpoint!Receive(s)
         PROVE  Endpoint!TypeOK'
    <2>1. request[s] # Endpoint!Free
      BY <1>10 DEF Endpoint!Receive
    <2>2. request[s].body \in Bodies
      BY <2>1, RequestFields
    <2>3. \E code \in Endpoint!Statuses : Endpoint!Answers(s, code)
      BY <1>10 DEF Endpoint!Receive, Endpoint!Statuses, Endpoint!Status, Endpoint!UnknownError
    <2>4. /\ request' \in [Slots -> Endpoint!RequestType]
          /\ \A q \in Slots : request'[q] = Endpoint!Free \/ request'[q].instance \in Endpoint!Running
      BY <1>8, <2>1, <2>3
    <2>5. created' \in [Bodies -> Nat]
      BY <1>10, <2>2 DEF Endpoint!Receive, Endpoint!TypeOK
    <2>6. faults' \in 0..MaxFaults
      BY <1>10 DEF Endpoint!Receive, Endpoint!Fault, Endpoint!TypeOK
    <2> QED
      BY <1>10, <2>4, <2>5, <2>6 DEF Endpoint!Receive, Endpoint!operator, Endpoint!TypeOK,
                                     Endpoint!Running
  <1>11. ASSUME NEW s \in Slots, Endpoint!Hear(s)
         PROVE  Endpoint!TypeOK'
    <2>1. request' \in [Slots -> Endpoint!RequestType]
          /\ \A q \in Slots : request'[q] = Endpoint!Free \/ request'[q].instance \in Endpoint!Running
      BY <1>11 DEF Endpoint!Hear, Endpoint!TypeOK, Endpoint!RequestType
    <2>2. settled' \in [Bodies -> {None, 200, 201, 400, 409}]
      BY <1>11 DEF Endpoint!Hear, Endpoint!Settles, Endpoint!TypeOK
    <2>3. faults' \in 0..MaxFaults
      BY <1>11 DEF Endpoint!Hear, Endpoint!Fault, Endpoint!TypeOK
    <2> QED
      BY <1>11, <2>1, <2>2, <2>3 DEF Endpoint!Hear, Endpoint!operator, Endpoint!TypeOK,
                                     Endpoint!Running
  <1>12. CASE UNCHANGED Endpoint!vars
    BY <1>12 DEF Endpoint!vars, Endpoint!operator, Endpoint!TypeOK, Endpoint!Running
  <1> QED
    BY <1>1, <1>2, <1>3, <1>4, <1>5, <1>6, <1>7, <1>9, <1>10, <1>11, <1>12 DEF Endpoint!Next

-----------------------------------------------------------------------------
(* The invariant *)

LEMMA EndpointInitInv ==
    ASSUME Endpoint!EndpointAssumption, Endpoint!Init
    PROVE  Endpoint!EndpointInv
  <1> USE DEF Endpoint!Init
  <1>1. Endpoint!CallerIsListed
    <2>1. 1 \in Lines /\ First # None /\ file[1] = First
      BY DEF Endpoint!EndpointAssumption
    <2> QED
      BY <2>1 DEF Endpoint!CallerIsListed, Endpoint!Entries, Endpoint!OfTheCaller,
                  Endpoint!CallerTenant, Endpoint!CallerChannel
  <1>2. Endpoint!CallerIsNeverLockedOut
    BY DEF Endpoint!CallerIsNeverLockedOut, Endpoint!Running
  <1>3. Endpoint!RequestsAreTheCallers
    BY DEF Endpoint!RequestsAreTheCallers, Endpoint!Free
  <1>4. Endpoint!CreatedIsStored
    BY DEF Endpoint!CreatedIsStored
  <1>5. Endpoint!SettledIsStored
    <2>1. \A b \in Bodies : settled[b] \notin {200, 201}
      BY DEF Endpoint!EndpointAssumption, Endpoint!Statuses
    <2> QED
      BY <2>1 DEF Endpoint!SettledIsStored
  <1> QED
    BY <1>1, <1>2, <1>3, <1>4, <1>5 DEF Endpoint!EndpointInv

(* A step of the Endpoint!operator leaves alone what is stored, known and under way. *)
LEMMA EndpointNextInv ==
    ASSUME Endpoint!EndpointAssumption, Endpoint!TypeOK, Endpoint!EndpointInv, [Endpoint!Next]_(Endpoint!vars)
    PROVE  Endpoint!EndpointInv'
  <1> USE DEF Endpoint!EndpointInv
  <1>1. ASSUME NEW c \in Credentials, Endpoint!AddEntry(c)
        PROVE  Endpoint!EndpointInv'
    <2>1. Endpoint!CallerIsListed'
      <3>1. PICK n \in Endpoint!Entries : file[n] = current
        BY DEF Endpoint!CallerIsListed
      <3>2. file'[n] = current /\ n \in Endpoint!Entries'
        BY <1>1, <3>1 DEF Endpoint!AddEntry, Endpoint!Entries, Endpoint!TypeOK
      <3>3. current' = current
        BY <1>1 DEF Endpoint!AddEntry
      <3> QED
        BY <3>2, <3>3 DEF Endpoint!CallerIsListed, Endpoint!OfTheCaller
    <2>2. Endpoint!CallerIsNeverLockedOut' /\ Endpoint!RequestsAreTheCallers'
      BY <1>1 DEF Endpoint!AddEntry, Endpoint!CallerIsNeverLockedOut,
                  Endpoint!RequestsAreTheCallers, Endpoint!Authenticate,
                  Endpoint!Running, Endpoint!OfTheCaller, Endpoint!CallerRow
    <2> QED
      BY <1>1, <2>1, <2>2 DEF Endpoint!AddEntry, Endpoint!CreatedIsStored,
                              Endpoint!SettledIsStored, Endpoint!CallerRow
  <1>2. ASSUME NEW c \in Credentials, Endpoint!SwitchCaller(c)
        PROVE  Endpoint!EndpointInv'
    <2>1. Endpoint!CallerIsListed'
      BY <1>2 DEF Endpoint!SwitchCaller, Endpoint!CallerIsListed, Endpoint!Entries,
                  Endpoint!OfTheCaller
    <2>2. Endpoint!CallerIsNeverLockedOut' /\ Endpoint!RequestsAreTheCallers'
      BY <1>2 DEF Endpoint!SwitchCaller, Endpoint!CallerIsNeverLockedOut,
                  Endpoint!RequestsAreTheCallers, Endpoint!Authenticate,
                  Endpoint!Running, Endpoint!OfTheCaller, Endpoint!CallerRow
    <2> QED
      BY <1>2, <2>1, <2>2 DEF Endpoint!SwitchCaller, Endpoint!CreatedIsStored,
                              Endpoint!SettledIsStored, Endpoint!CallerRow
  <1>3. ASSUME NEW n \in Lines, Endpoint!RemoveEntry(n)
        PROVE  Endpoint!EndpointInv'
    <2>1. Endpoint!CallerIsListed'
      <3>1. PICK k \in Endpoint!Entries \ {n} : file[k] = current
        BY <1>3 DEF Endpoint!RemoveEntry
      <3>2. file'[k] = current /\ k \in Endpoint!Entries'
        BY <1>3, <3>1 DEF Endpoint!RemoveEntry, Endpoint!Entries, Endpoint!TypeOK
      <3>3. current' = current
        BY <1>3 DEF Endpoint!RemoveEntry
      <3> QED
        BY <3>2, <3>3 DEF Endpoint!CallerIsListed, Endpoint!OfTheCaller
    <2>2. Endpoint!CallerIsNeverLockedOut' /\ Endpoint!RequestsAreTheCallers'
      BY <1>3 DEF Endpoint!RemoveEntry, Endpoint!CallerIsNeverLockedOut,
                  Endpoint!RequestsAreTheCallers, Endpoint!Authenticate,
                  Endpoint!Running, Endpoint!OfTheCaller, Endpoint!CallerRow
    <2> QED
      BY <1>3, <2>1, <2>2 DEF Endpoint!RemoveEntry, Endpoint!CreatedIsStored,
                              Endpoint!SettledIsStored, Endpoint!CallerRow
  <1>4. ASSUME NEW i \in Processes, Endpoint!Boot(i)
        PROVE  Endpoint!EndpointInv'
    <2> USE DEF Endpoint!Boot, Endpoint!operator
    <2>1. PICK n \in Endpoint!Entries : file[n] = current
      BY DEF Endpoint!CallerIsListed
    <2>2. Endpoint!ByKeyId[current.keyId] = current /\ current # None
      BY <1>4, <2>1, ByKeyIdOfEntry DEF Endpoint!Entries
    <2>3. \A q \in Processes : registry'[q] = IF q = i THEN Endpoint!ByKeyId ELSE registry[q]
      BY <1>4 DEF Endpoint!TypeOK
    <2>4. Endpoint!CallerIsNeverLockedOut'
      BY <1>4, <2>2, <2>3 DEF Endpoint!CallerIsNeverLockedOut, Endpoint!Authenticate,
                              Endpoint!Running
    <2>5. Endpoint!RequestsAreTheCallers'
      <3> SUFFICES ASSUME NEW s \in Slots, request[s] # Endpoint!Free
                   PROVE  /\ request[s].phase = "sent" =>
                               /\ Endpoint!Authenticate(request[s].instance, request[s].with)' = request[s].with
                               /\ Endpoint!OfTheCaller(request[s].with)
                          /\ request[s].phase = "intake" => Endpoint!OfTheCaller(request[s].service)
                          /\ request[s].phase = "done" /\ request[s].status \in {200, 201} =>
                               Endpoint!CallerRow(request[s].body) \in stored
        BY <1>4 DEF Endpoint!RequestsAreTheCallers, Endpoint!Free, Endpoint!OfTheCaller,
                    Endpoint!CallerRow
      <3>1. request[s].instance \in Processes \ {i}
        BY <1>4, RequestFields DEF Endpoint!Running
      <3>2. registry'[request[s].instance] = registry[request[s].instance]
        BY <2>3, <3>1
      <3> QED
        BY <1>4, <3>2 DEF Endpoint!RequestsAreTheCallers, Endpoint!Authenticate
    <2> QED
      BY <1>4, <2>4, <2>5 DEF Endpoint!CallerIsListed, Endpoint!Entries, Endpoint!OfTheCaller,
                              Endpoint!CreatedIsStored, Endpoint!SettledIsStored, Endpoint!CallerRow
  <1>5. ASSUME NEW i \in Processes, Endpoint!Stop(i)
        PROVE  Endpoint!EndpointInv'
    <2> USE DEF Endpoint!Stop, Endpoint!operator
    <2>1. \A q \in Processes : registry'[q] = IF q = i THEN None ELSE registry[q]
      BY <1>5 DEF Endpoint!TypeOK
    <2>2. Endpoint!CallerIsNeverLockedOut'
      BY <1>5, <2>1 DEF Endpoint!CallerIsNeverLockedOut, Endpoint!Authenticate, Endpoint!Running
    <2>3. Endpoint!RequestsAreTheCallers'
      <3> SUFFICES ASSUME NEW s \in Slots, request'[s] # Endpoint!Free
                   PROVE  /\ request'[s].phase = "sent" =>
                               /\ Endpoint!Authenticate(request[s].instance, request[s].with)' = request'[s].with
                               /\ Endpoint!OfTheCaller(request'[s].with)
                          /\ request'[s].phase = "intake" => Endpoint!OfTheCaller(request'[s].service)
                          /\ request'[s].phase = "done" /\ request'[s].status \in {200, 201} =>
                               Endpoint!CallerRow(request'[s].body) \in stored
        BY <1>5 DEF Endpoint!RequestsAreTheCallers, Endpoint!Free, Endpoint!OfTheCaller,
                    Endpoint!CallerRow
      <3>1. request'[s] = request[s] /\ request[s] # Endpoint!Free /\ request[s].instance # i
        BY <1>5
      <3>2. registry'[request[s].instance] = registry[request[s].instance]
        BY <2>1, <3>1, RequestFields
      <3> QED
        BY <3>1, <3>2 DEF Endpoint!RequestsAreTheCallers, Endpoint!Authenticate
    <2> QED
      BY <1>5, <2>2, <2>3 DEF Endpoint!CallerIsListed, Endpoint!Entries, Endpoint!OfTheCaller,
                              Endpoint!CreatedIsStored, Endpoint!SettledIsStored, Endpoint!CallerRow
  <1>6. ASSUME NEW i \in Processes, Endpoint!NewWindow(i)
        PROVE  Endpoint!EndpointInv'
    BY <1>6 DEF Endpoint!NewWindow, Endpoint!operator, Endpoint!CallerIsListed,
                Endpoint!CallerIsNeverLockedOut, Endpoint!RequestsAreTheCallers,
                Endpoint!CreatedIsStored, Endpoint!SettledIsStored, Endpoint!Entries,
                Endpoint!Running, Endpoint!Authenticate, Endpoint!OfTheCaller, Endpoint!CallerRow
  \* What a step of a request leaves alone.
  <1>7. ASSUME UNCHANGED <<Endpoint!operator, registry>>
        PROVE  Endpoint!CallerIsListed' /\ Endpoint!CallerIsNeverLockedOut'
    BY <1>7 DEF Endpoint!operator, Endpoint!CallerIsListed, Endpoint!CallerIsNeverLockedOut,
                Endpoint!Entries, Endpoint!Running, Endpoint!Authenticate,
                Endpoint!OfTheCaller
  <1>8. ASSUME NEW s \in Slots, UNCHANGED registry, stored \subseteq stored',
               \A q \in Slots \ {s} : request'[q] = request[q],
               request'[s].phase = "sent" =>
                 /\ Endpoint!Authenticate(request'[s].instance, request'[s].with) = request'[s].with
                 /\ Endpoint!OfTheCaller(request'[s].with),
               request'[s].phase = "intake" => Endpoint!OfTheCaller(request'[s].service),
               request'[s].phase = "done" /\ request'[s].status \in {200, 201} =>
                 Endpoint!CallerRow(request'[s].body) \in stored'
        PROVE  Endpoint!RequestsAreTheCallers'
    BY <1>8 DEF Endpoint!RequestsAreTheCallers, Endpoint!Authenticate, Endpoint!OfTheCaller,
                Endpoint!CallerRow
  <1>9. ASSUME NEW s \in Slots, NEW b \in Bodies, NEW i \in Processes, Endpoint!Send(s, b, i)
        PROVE  Endpoint!EndpointInv'
    <2>1. request'[s] = [phase |-> "sent", body |-> b, instance |-> i, with |-> current]
          /\ \A q \in Slots \ {s} : request'[q] = request[q]
      BY <1>9 DEF Endpoint!Send, Endpoint!TypeOK
    <2>2. Endpoint!Authenticate(i, current) = current /\ Endpoint!OfTheCaller(current)
      BY <1>9 DEF Endpoint!Send, Endpoint!CallerIsNeverLockedOut, Endpoint!CallerIsListed
    <2>3. Endpoint!RequestsAreTheCallers'
      BY <1>8, <1>9, <2>1, <2>2 DEF Endpoint!Send
    <2> QED
      BY <1>7, <1>9, <2>3 DEF Endpoint!Send, Endpoint!CreatedIsStored, Endpoint!SettledIsStored,
                              Endpoint!CallerRow
  <1>10. ASSUME NEW s \in Slots, Endpoint!Admit(s)
         PROVE  Endpoint!EndpointInv'
    <2>1. request[s] # Endpoint!Free /\ request[s].phase = "sent"
      BY <1>10 DEF Endpoint!Admit
    <2>2. /\ Endpoint!Authenticate(request[s].instance, request[s].with) = request[s].with
          /\ Endpoint!OfTheCaller(request[s].with)
      BY <2>1 DEF Endpoint!RequestsAreTheCallers
    <2>3. \A q \in Slots \ {s} : request'[q] = request[q]
      BY <1>10 DEF Endpoint!Admit, Endpoint!Answers, Endpoint!TypeOK
    <2>4. \/ request'[s].phase = "done" /\ request'[s].status \in {400, 401, 429}
          \/ request'[s].phase = "intake" /\ request'[s].service = request[s].with
      BY <1>10, <2>2 DEF Endpoint!Admit, Endpoint!Answers, Endpoint!TypeOK
    <2>5. Endpoint!RequestsAreTheCallers'
      BY <1>8, <1>10, <2>2, <2>3, <2>4 DEF Endpoint!Admit
    <2> QED
      BY <1>7, <1>10, <2>5 DEF Endpoint!Admit, Endpoint!CreatedIsStored, Endpoint!SettledIsStored,
                               Endpoint!CallerRow
  <1>11. ASSUME NEW s \in Slots, Endpoint!Receive(s)
         PROVE  Endpoint!EndpointInv'
    <2> DEFINE r == request[s]
    <2>1. r # Endpoint!Free /\ r.phase = "intake"
      BY <1>11 DEF Endpoint!Receive
    <2>2. r.body \in Bodies
      BY <2>1, RequestFields
    <2>3. Endpoint!Row(r) = Endpoint!CallerRow(r.body)
      BY <2>1 DEF Endpoint!RequestsAreTheCallers, Endpoint!OfTheCaller, Endpoint!Row,
                  Endpoint!CallerRow
    <2>4. stored \subseteq stored'
      BY <1>11 DEF Endpoint!Receive
    <2>5. \A q \in Slots \ {s} : request'[q] = request[q]
      BY <1>11 DEF Endpoint!Receive, Endpoint!Answers, Endpoint!TypeOK
    <2>6. /\ request'[s].phase = "done" /\ request'[s].body = r.body
          /\ request'[s].status \in {200, 201} => Endpoint!Row(r) \in stored'
      BY <1>11 DEF Endpoint!Receive, Endpoint!Answers, Endpoint!UnknownError, Endpoint!TypeOK
    <2>7. Endpoint!RequestsAreTheCallers'
      <3>1. UNCHANGED registry
        BY <1>11 DEF Endpoint!Receive
      <3> QED
        BY <1>8, <2>3, <2>4, <2>5, <2>6, <3>1
    <2>8. Endpoint!CreatedIsStored'
      <3> SUFFICES ASSUME NEW b \in Bodies
                   PROVE  created'[b] = 0 \/ (created'[b] = 1 /\ Endpoint!CallerRow(b) \in stored')
        BY DEF Endpoint!CreatedIsStored, Endpoint!CallerRow
      <3>1. CASE b = r.body /\ Endpoint!Row(r) \notin stored
        <4>1. created[b] = 0
          BY <2>3, <3>1 DEF Endpoint!CreatedIsStored
        <4>2. created'[b] = created[b] \/ (created'[b] = created[b] + 1 /\ Endpoint!Row(r) \in stored')
          BY <1>11, <3>1 DEF Endpoint!Receive, Endpoint!TypeOK
        <4> QED
          BY <2>3, <3>1, <4>1, <4>2
      <3>2. CASE b # r.body \/ Endpoint!Row(r) \in stored
        <4>1. created'[b] = created[b]
          BY <1>11, <3>2 DEF Endpoint!Receive, Endpoint!Status, Endpoint!TypeOK
        <4> QED
          BY <2>4, <4>1 DEF Endpoint!CreatedIsStored
      <3> QED
        BY <3>1, <3>2
    <2>9. Endpoint!SettledIsStored'
      BY <1>11, <2>4 DEF Endpoint!Receive, Endpoint!SettledIsStored, Endpoint!CallerRow
    <2> QED
      BY <1>7, <1>11, <2>7, <2>8, <2>9 DEF Endpoint!Receive
  <1>12. ASSUME NEW s \in Slots, Endpoint!Hear(s)
         PROVE  Endpoint!EndpointInv'
    <2>1. request[s] # Endpoint!Free /\ request[s].phase = "done"
      BY <1>12 DEF Endpoint!Hear
    <2>2. request'[s] = Endpoint!Free /\ \A q \in Slots \ {s} : request'[q] = request[q]
      BY <1>12 DEF Endpoint!Hear, Endpoint!TypeOK
    <2>3. Endpoint!RequestsAreTheCallers'
      BY <1>8, <1>12, <2>2 DEF Endpoint!Hear, Endpoint!Free
    <2>4. \A b \in Bodies :
             \/ settled'[b] = settled[b]
             \/ b = request[s].body /\ settled'[b] = request[s].status
      BY <1>12 DEF Endpoint!Hear, Endpoint!TypeOK
    <2>5. Endpoint!SettledIsStored'
      <3>1. request[s].status \in {200, 201} => Endpoint!CallerRow(request[s].body) \in stored
        BY <2>1 DEF Endpoint!RequestsAreTheCallers
      <3> QED
        BY <1>12, <2>4, <3>1 DEF Endpoint!Hear, Endpoint!SettledIsStored, Endpoint!CallerRow
    <2> QED
      BY <1>7, <1>12, <2>3, <2>5 DEF Endpoint!Hear, Endpoint!CreatedIsStored, Endpoint!CallerRow
  <1>13. CASE UNCHANGED Endpoint!vars
    BY <1>13 DEF Endpoint!vars, Endpoint!operator, Endpoint!CallerIsListed,
                 Endpoint!CallerIsNeverLockedOut, Endpoint!RequestsAreTheCallers,
                 Endpoint!CreatedIsStored, Endpoint!SettledIsStored, Endpoint!Entries,
                 Endpoint!Running, Endpoint!Authenticate, Endpoint!OfTheCaller, Endpoint!CallerRow
  <1> QED
    BY <1>1, <1>2, <1>3, <1>4, <1>5, <1>6, <1>9, <1>10, <1>11, <1>12, <1>13 DEF Endpoint!Next

-----------------------------------------------------------------------------
(* The endpoint in the specification that the run checks *)

EndpointPart == part = "endpoint" => Endpoint!TypeOK /\ Endpoint!EndpointInv

\* Every variable of the endpoint has its type, a request lives in a process that runs, and
\* the invariant holds that the properties follow from.
THEOREM EndpointCorrect == ProcessesSpec => []EndpointPart
  <1>1. ProcessesInit => EndpointPart
    BY EndpointInitType, EndpointInitInv, ProcessesAssumption DEF ProcessesInit, EndpointPart
  <1>2. EndpointPart /\ [ProcessesNext]_allVars => EndpointPart'
    <2> SUFFICES ASSUME EndpointPart, [ProcessesNext]_allVars, part' = "endpoint"
                 PROVE  Endpoint!TypeOK' /\ Endpoint!EndpointInv'
      BY DEF EndpointPart
    <2>1. part = "endpoint" /\ [Endpoint!Next]_(Endpoint!vars)
      BY DEF ProcessesNext, allVars, endpoint, Endpoint!vars, Endpoint!operator
    <2> QED
      BY <2>1, EndpointNextType, EndpointNextInv, ProcessesAssumption DEF EndpointPart
  <1> QED
    BY <1>1, <1>2, PTL DEF ProcessesSpec

\* In whatever order keys are added, used and removed, mistakes are made and processes
\* boot and stop, each process that runs accepts the key the caller uses.
THEOREM CallerAlwaysGetsIn == ProcessesSpec => []CallerIsNeverLockedOut
  <1>1. EndpointPart => CallerIsNeverLockedOut
    BY DEF EndpointPart, Endpoint!EndpointInv, CallerIsNeverLockedOut
  <1> QED
    BY <1>1, EndpointCorrect, PTL

\* However many requests for a message run at the same time, in however many processes,
\* at most one of them is answered 201.
THEOREM OneRequestCreates == ProcessesSpec => []OneCreated
  <1>1. EndpointPart => OneCreated
    BY DEF EndpointPart, Endpoint!EndpointInv, Endpoint!CreatedIsStored, Endpoint!OneCreated,
           OneCreated
  <1> QED
    BY <1>1, EndpointCorrect, PTL

\* What a caller was told is taken is stored, under its tenant and its channel.
THEOREM NothingSettledIsLost == ProcessesSpec => [](part = "endpoint" => Endpoint!SettledIsStored)
  <1>1. EndpointPart => (part = "endpoint" => Endpoint!SettledIsStored)
    BY DEF EndpointPart, Endpoint!EndpointInv
  <1> QED
    BY <1>1, EndpointCorrect, PTL
=============================================================================
