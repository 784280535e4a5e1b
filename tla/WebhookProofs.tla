------------------------------ MODULE WebhookProofs ------------------------------
(***************************************************************************)
(* TLAPS proofs about the webhook, for any notifications, events that      *)
(* fail, crashes and requests at the same time, with the parser's part in  *)
(* it.                                                                     *)
(***************************************************************************)
EXTENDS MCServices, WellFoundedInduction, TLAPS

-----------------------------------------------------------------------------
(* Induction over the natural numbers.  A set takes the place of a predicate *)

Below == OpToRel(<, Nat)

(* The order of the natural numbers is well founded. *)
LEMMA BelowIsWellFounded == IsWellFoundedOn(Below, Nat)
  BY NatLessThanWellFounded DEF Below

(* It is the relation <. *)
LEMMA BelowIs == \A m, n \in Nat : <<m, n>> \in Below <=> m < n
  BY DEF Below, OpToRel

(* A set with 0, and with the successor of each of its numbers, has them all. *)
LEMMA Induction ==
    ASSUME NEW S, 0 \in S, \A n \in Nat : n \in S => n + 1 \in S
    PROVE  Nat \subseteq S
  <1> DEFINE T == Nat \ S
  <1> SUFFICES ASSUME T # {} PROVE FALSE
    OBVIOUS
  <1>1. PICK m \in T : \A n \in T : <<n, m>> \notin Below
    BY BelowIsWellFounded, WFMin
  <1>2. m # 0 /\ m - 1 \in Nat
    OBVIOUS
  <1>3. <<m - 1, m>> \in Below
    BY <1>2, BelowIs
  <1>4. m - 1 \in S
    BY <1>1, <1>2, <1>3
  <1> QED
    BY <1>2, <1>4

-----------------------------------------------------------------------------
(* FlattenSeq, by which the parser lists its events *)

(* f[i] is the first i sequences of s, one after the other. *)
Flattens(s, n, f) ==
    f = [i \in 1..n |-> IF i = 1 THEN s[i] ELSE f[i-1] \o s[i]]

(* The recursive function inside FlattenSeq exists. *)
LEMMA FlattensExists ==
    ASSUME NEW S, NEW s \in Seq(Seq(S))
    PROVE  \A n \in Nat : n <= Len(s) => \E f : Flattens(s, n, f)
  <1> DEFINE N == {n \in Nat : n <= Len(s) => \E f : Flattens(s, n, f)}
  <1>1. 0 \in N
    <2>1. Flattens(s, 0, [i \in 1..0 |-> <<>>])
      BY DEF Flattens
    <2> QED
      BY <2>1
  <1>2. ASSUME NEW n \in Nat, n \in N
        PROVE  n + 1 \in N
    <2> SUFFICES ASSUME n + 1 <= Len(s)
                 PROVE  \E f : Flattens(s, n + 1, f)
      OBVIOUS
    <2>1. Len(s) \in Nat /\ n <= Len(s)
      OBVIOUS
    <2>2. PICK f : Flattens(s, n, f)
      BY <1>2, <2>1
    <2> DEFINE g == [i \in 1..(n + 1) |->
                        IF i \in 1..n THEN f[i]
                        ELSE IF i = 1 THEN s[i] ELSE f[i-1] \o s[i]]
    <2>3. ASSUME NEW i \in 1..(n + 1)
          PROVE  g[i] = IF i = 1 THEN s[i] ELSE g[i-1] \o s[i]
      <3>1. CASE i = 1
        BY <3>1, <2>2 DEF Flattens
      <3>2. CASE i # 1
        <4>1. i - 1 \in 1..n /\ i - 1 \in 1..(n + 1)
          BY <3>2
        <4>2. g[i-1] = f[i-1]
          BY <4>1
        <4>3. i \in 1..n => f[i] = f[i-1] \o s[i]
          BY <3>2, <2>2 DEF Flattens
        <4> QED
          BY <3>2, <4>2, <4>3
      <3> QED
        BY <3>1, <3>2
    <2>4. Flattens(s, n + 1, g)
      BY <2>3 DEF Flattens
    <2> QED
      BY <2>4
  <1> HIDE DEF N
  <1>3. Nat \subseteq N
    BY <1>1, <1>2, Induction
  <1> QED
    BY <1>3 DEF N

(* A concatenation has the elements of both sequences. *)
LEMMA ConcatElements ==
    ASSUME NEW S, NEW a \in Seq(S), NEW b \in Seq(S)
    PROVE  /\ a \o b \in Seq(S)
           /\ Parser!ToSet(a) \subseteq Parser!ToSet(a \o b)
           /\ Parser!ToSet(b) \subseteq Parser!ToSet(a \o b)
  <1>1. ASSUME NEW j \in DOMAIN a
        PROVE  j \in DOMAIN (a \o b) /\ (a \o b)[j] = a[j]
    OBVIOUS
  <1>2. ASSUME NEW j \in DOMAIN b
        PROVE  Len(a) + j \in DOMAIN (a \o b) /\ (a \o b)[Len(a) + j] = b[j]
    OBVIOUS
  <1>3. Parser!ToSet(a) \subseteq Parser!ToSet(a \o b)
    BY <1>1, Zenon DEF Parser!ToSet
  <1>4. Parser!ToSet(b) \subseteq Parser!ToSet(a \o b)
    BY <1>2, Zenon DEF Parser!ToSet
  <1> QED
    BY <1>3, <1>4

(* Each prefix is a sequence, with the elements of what it is made of. *)
LEMMA FlattensElements ==
    ASSUME NEW S, NEW s \in Seq(Seq(S)), NEW f, Flattens(s, Len(s), f)
    PROVE  \A n \in 1..Len(s) :
               /\ f[n] \in Seq(S)
               /\ \A i \in 1..n : Parser!ToSet(s[i]) \subseteq Parser!ToSet(f[n])
  <1> DEFINE P(n) == /\ f[n] \in Seq(S)
                     /\ \A i \in 1..n : Parser!ToSet(s[i]) \subseteq Parser!ToSet(f[n])
             N == {n \in Nat : n \in 1..Len(s) => P(n)}
  <1>1. 0 \in N
    OBVIOUS
  <1>2. ASSUME NEW n \in Nat, n \in N
        PROVE  n + 1 \in N
    <2> SUFFICES ASSUME n + 1 \in 1..Len(s)
                 PROVE  P(n + 1)
      OBVIOUS
    <2>1. s[n+1] \in Seq(S)
      OBVIOUS
    <2>2. f[n+1] = IF n = 0 THEN s[n+1] ELSE f[n] \o s[n+1]
      <3>1. f[n+1] = IF n + 1 = 1 THEN s[n+1] ELSE f[(n+1)-1] \o s[n+1]
        BY DEF Flattens
      <3>2. (n + 1) - 1 = n /\ (n + 1 = 1 <=> n = 0)
        OBVIOUS
      <3> QED
        BY <3>1, <3>2
    <2>3. CASE n = 0
      <3>1. 1..(n+1) = {n+1} /\ f[n+1] = s[n+1]
        BY <2>2, <2>3
      <3> QED
        BY <2>1, <3>1
    <2>4. CASE n # 0
      <3>1. f[n+1] = f[n] \o s[n+1] /\ P(n)
        <4>1. n \in 1..Len(s)
          BY <2>4
        <4> QED
          BY <1>2, <2>2, <2>4, <4>1
      <3> HIDE DEF N
      <3>2. f[n+1] \in Seq(S) /\ Parser!ToSet(f[n]) \subseteq Parser!ToSet(f[n+1]) /\ Parser!ToSet(s[n+1]) \subseteq Parser!ToSet(f[n+1])
        BY <2>1, <3>1, ConcatElements
      <3>3. 1..(n+1) = (1..n) \cup {n+1}
        OBVIOUS
      <3> QED
        BY <3>1, <3>2, <3>3
    <2> QED
      BY <2>3, <2>4
  <1> HIDE DEF N
  <1>3. Nat \subseteq N
    BY <1>1, <1>2, Induction
  <1>4. \A n \in 1..Len(s) : n \in Nat
    OBVIOUS
  <1>5. \A n \in 1..Len(s) : P(n)
    BY <1>3, <1>4 DEF N
  <1> QED
    BY <1>5

(* Flattening a sequence of sequences gives a sequence with the elements of each. *)
LEMMA FlattenSeqProperties ==
    ASSUME NEW S, NEW s \in Seq(Seq(S))
    PROVE  /\ Parser!FlattenSeq(s) \in Seq(S)
           /\ \A i \in DOMAIN s : Parser!ToSet(s[i]) \subseteq Parser!ToSet(Parser!FlattenSeq(s))
  <1>1. CASE Len(s) = 0
    <2>1. s = <<>>
      BY <1>1
    <2> QED
      BY <1>1, <2>1 DEF Parser!FlattenSeq
  <1>2. CASE Len(s) # 0
    <2> DEFINE f == CHOOSE f : Flattens(s, Len(s), f)
    <2>1. Len(s) \in 1..Len(s) /\ DOMAIN s = 1..Len(s) /\ Len(s) \in Nat
      BY <1>2
    <2>2. Flattens(s, Len(s), f)
      BY <2>1, FlattensExists
    <2>3. Parser!FlattenSeq(s) = f[Len(s)]
      BY <1>2 DEF Parser!FlattenSeq, Flattens
    <2> HIDE DEF f
    <2> QED
      BY <2>1, <2>2, <2>3, FlattensElements
  <1> QED
    BY <1>1, <1>2

-----------------------------------------------------------------------------
(* The parser *)

\* What an event of n may be.
AccountsOf(n) == {n[i].account : i \in DOMAIN n}
MessageIdsOf(n) == UNION {{x.id : x \in Parser!ToSet(n[i].messages)} : i \in DOMAIN n}
StatusIdsOf(n) == UNION {{x.id : x \in Parser!ToSet(n[i].statuses)} : i \in DOMAIN n}
EventSet(n) ==
    [kind : {"text"}, account : AccountsOf(n), id : MessageIdsOf(n)]
    \cup [kind : {"status"}, account : AccountsOf(n), id : StatusIdsOf(n), status : Parser!Statuses]

TextEvent(change, x) == [kind |-> "text", account |-> change.account, id |-> x.id]

(* A notification is a sequence of changes, each with two sequences. *)
LEMMA NotificationType ==
    ASSUME NEW n \in Notifications
    PROVE  /\ n \in Seq(Parser!ToSet(n))
           /\ \A i \in DOMAIN n : /\ n[i].messages \in Seq(Parser!ToSet(n[i].messages))
                                  /\ n[i].statuses \in Seq(Parser!ToSet(n[i].statuses))
  BY ServicesAssumption DEF ServicesAssumption, Parser!ParserAssumption, Parser!IsSeq

(* The events of a change are a sequence, with that of each of its messages. *)
LEMMA ParsedIs ==
    ASSUME NEW n \in Notifications, NEW i \in DOMAIN n
    PROVE  /\ Parser!Parsed(n[i]) \in Seq(EventSet(n))
           /\ \A j \in DOMAIN n[i].messages :
                n[i].field = "messages" =>
                  Parser!ToSet(Parser!parseMessage(n[i], n[i].messages[j]))
                      \subseteq Parser!ToSet(Parser!Parsed(n[i]))
  <1> DEFINE c == n[i]
             texts == [j \in DOMAIN c.messages |-> Parser!parseMessage(c, c.messages[j])]
             news == [j \in DOMAIN c.statuses |-> Parser!parseStatus(c, c.statuses[j])]
             S == EventSet(n)
  <1>1. c.messages \in Seq(Parser!ToSet(c.messages)) /\ c.statuses \in Seq(Parser!ToSet(c.statuses))
    BY NotificationType
  <1>2. ASSUME NEW j \in DOMAIN c.messages
        PROVE  Parser!parseMessage(c, c.messages[j]) \in Seq(S)
    <2>1. c.messages[j] \in Parser!ToSet(c.messages)
      BY DEF Parser!ToSet
    <2>2. TextEvent(c, c.messages[j]) \in S
      <3>1. c.messages[j].id \in MessageIdsOf(n) /\ c.account \in AccountsOf(n)
        BY <2>1 DEF MessageIdsOf, AccountsOf
      <3> QED
        BY <3>1 DEF EventSet, TextEvent
    <2>3. Parser!parseMessage(c, c.messages[j]) \in {<<TextEvent(c, c.messages[j])>>, <<>>}
      BY DEF Parser!parseMessage, TextEvent
    <2>4. \A e \in S : <<e>> \in Seq(S) /\ <<>> \in Seq(S)
      OBVIOUS
    <2> QED
      BY <2>2, <2>3, <2>4, Zenon
  <1>3. ASSUME NEW j \in DOMAIN c.statuses
        PROVE  Parser!parseStatus(c, c.statuses[j]) \in Seq(S)
    <2> DEFINE x == c.statuses[j]
               e == [kind |-> "status", account |-> c.account, id |-> x.id, status |-> x.status]
    <2>1. x \in Parser!ToSet(c.statuses)
      BY DEF Parser!ToSet
    <2>2. x.status \in Parser!Statuses => e \in S
      <3>1. x.id \in StatusIdsOf(n) /\ c.account \in AccountsOf(n)
        BY <2>1 DEF StatusIdsOf, AccountsOf
      <3> QED
        BY <3>1 DEF EventSet
    <2>3. Parser!parseStatus(c, x) = IF x.status \in Parser!Statuses THEN <<e>> ELSE <<>>
      BY DEF Parser!parseStatus
    <2> HIDE DEF e, x
    <2> QED
      BY <2>2, <2>3 DEF x
  <1> HIDE DEF S
  <1>4. texts \in Seq(Seq(S)) /\ news \in Seq(Seq(S))
    <2>1. /\ Len(c.messages) \in Nat /\ DOMAIN c.messages = 1..Len(c.messages)
          /\ Len(c.statuses) \in Nat /\ DOMAIN c.statuses = 1..Len(c.statuses)
      BY <1>1
    <2>2. /\ texts \in [1..Len(c.messages) -> Seq(S)]
          /\ news \in [1..Len(c.statuses) -> Seq(S)]
      BY <1>2, <1>3, <2>1, Zenon
    <2>3. \A m \in Nat : \A T : \A f \in [1..m -> T] : f \in Seq(T)
      OBVIOUS
    <2> QED
      BY <2>1, <2>2, <2>3, Zenon
  <1>5. /\ Parser!FlattenSeq(texts) \in Seq(S) /\ Parser!FlattenSeq(news) \in Seq(S)
        /\ \A j \in DOMAIN texts : Parser!ToSet(texts[j]) \subseteq Parser!ToSet(Parser!FlattenSeq(texts))
    BY <1>4, FlattenSeqProperties
  <1>6. Parser!Parsed(c) = IF c.field # "messages" THEN <<>>
                           ELSE Parser!FlattenSeq(texts) \o Parser!FlattenSeq(news)
    BY DEF Parser!Parsed
  <1>7. Parser!Parsed(c) \in Seq(S)
    BY <1>5, <1>6
  <1>8. c.field = "messages" =>
           Parser!ToSet(Parser!FlattenSeq(texts)) \subseteq Parser!ToSet(Parser!Parsed(c))
    BY <1>5, <1>6, ConcatElements
  <1> QED
    BY <1>5, <1>7, <1>8 DEF S

(* The events of a notification are a sequence, with those of each change. *)
LEMMA EventsAre ==
    ASSUME NEW n \in Notifications
    PROVE  /\ ParsedEvents[n] \in Seq(EventSet(n))
           /\ \A i \in DOMAIN n : Parser!ToSet(Parser!Parsed(n[i]))
                                      \subseteq Parser!ToSet(ParsedEvents[n])
  <1> DEFINE s == [i \in DOMAIN n |-> Parser!Parsed(n[i])]
  <1>1. s \in Seq(Seq(EventSet(n)))
    BY NotificationType, ParsedIs
  <1>2. ParsedEvents[n] = Parser!FlattenSeq(s)
    BY DEF ParsedEvents, Parser!EventsOf
  <1> QED
    BY <1>1, <1>2, FlattenSeqProperties

(* Each text of a customer is an event. *)
LEMMA TextsAreEvents ==
    ASSUME NEW n \in Notifications, NEW id \in Webhook!CustomerTexts(n)
    PROVE  \E k \in DOMAIN ParsedEvents[n] :
               /\ ParsedEvents[n][k].kind = "text"
               /\ ParsedEvents[n][k].id = id
               /\ ParsedEvents[n][k].account \in Configured
  <1>1. PICK i \in DOMAIN n :
           /\ n[i].field = "messages" /\ n[i].account \in Configured
           /\ \E y \in Parser!ToSet(n[i].messages) :
                  y.author = "customer" /\ y.type = "text" /\ y.id = id
    BY DEF Webhook!CustomerTexts, Webhook!ToSet, Parser!ToSet
  <1>2. PICK j \in DOMAIN n[i].messages :
           LET y == n[i].messages[j] IN y.author = "customer" /\ y.type = "text" /\ y.id = id
    BY <1>1 DEF Parser!ToSet
  <1> DEFINE y == n[i].messages[j]
             e == TextEvent(n[i], y)
  <1>3. y.waId # None \/ y.bsuid # None
    BY <1>2, ServicesAssumption
    DEF ServicesAssumption, Parser!ParserAssumption, Parser!CustomersAreIdentified, Parser!ToSet
  <1>4. ~Parser!IsEcho(n[i], y)
    BY <1>2, ServicesAssumption
    DEF ServicesAssumption, Parser!ParserAssumption, Parser!CustomersAreIdentified, Parser!ToSet,
        Parser!IsEcho
  <1>5. Parser!parseMessage(n[i], y) = <<e>>
    BY <1>2, <1>3, <1>4 DEF Parser!parseMessage, TextEvent
  <1>6. e \in Parser!ToSet(Parser!parseMessage(n[i], y))
    <2>1. 1 \in DOMAIN <<e>> /\ <<e>>[1] = e
      OBVIOUS
    <2> HIDE DEF e
    <2> QED
      BY <1>5, <2>1 DEF Parser!ToSet
  <1>7. e \in Parser!ToSet(ParsedEvents[n])
    BY <1>1, <1>6, ParsedIs, EventsAre
  <1>8. PICK k \in DOMAIN ParsedEvents[n] : ParsedEvents[n][k] = e
    BY <1>7 DEF Parser!ToSet
  <1>9. e.kind = "text" /\ e.id = id /\ e.account \in Configured
    BY <1>1, <1>2 DEF TextEvent
  <1> QED
    BY <1>8, <1>9

-----------------------------------------------------------------------------
(* What is acknowledged is stored *)

\* The k-th event of n is a text that has to be stored.
Owes(n, k) ==
    LET e == ParsedEvents[n][k] IN
    e.kind = "text" /\ e.account \in Configured /\ e.id \notin Refused

IsKept(n, k) == ParsedEvents[n][k].id \in kept

\* A request that nothing failed in has stored the texts it is past.
HandledIsKept(x) ==
    /\ x \in [notification : Notifications, at : Nat, failures : Nat]
    /\ x.failures = 0 =>
         \A k \in DOMAIN ParsedEvents[x.notification] :
            k < x.at /\ Owes(x.notification, k) => IsKept(x.notification, k)

DeliveredIsKept ==
    \A r \in Deliveries : delivered[r] # Webhook!NoRequest => HandledIsKept(delivered[r])

AcknowledgedIsKept ==
    \A n \in Notifications \ owed : \A k \in DOMAIN ParsedEvents[n] : Owes(n, k) => IsKept(n, k)

WebhookInvariant ==
    /\ DOMAIN delivered = Deliveries
    /\ DeliveredIsKept
    /\ AcknowledgedIsKept

(* The invariant holds before anything is delivered. *)
LEMMA WebhookInit ==
    ASSUME Webhook!Init
    PROVE  WebhookInvariant
  BY DEF Webhook!Init, WebhookInvariant, DeliveredIsKept, AcknowledgedIsKept

(* A step that only adds to what is stored, and acknowledges nothing, keeps it. *)
LEMMA KeptGrows ==
    ASSUME WebhookInvariant, kept \subseteq kept', owed' = owed,
           NEW r \in Deliveries, NEW x, delivered' = [delivered EXCEPT ![r] = x],
           x # Webhook!NoRequest => HandledIsKept(x)'
    PROVE  WebhookInvariant'
  <1>1. DOMAIN delivered' = Deliveries
    BY DEF WebhookInvariant
  <1>2. \A n, k : IsKept(n, k) => IsKept(n, k)'
    BY DEF IsKept
  <1>3. AcknowledgedIsKept'
    BY <1>2 DEF WebhookInvariant, AcknowledgedIsKept
  <1>4. ASSUME NEW s \in Deliveries, delivered'[s] # Webhook!NoRequest
        PROVE  HandledIsKept(delivered[s])'
    <2>1. CASE s = r
      <3>1. delivered'[s] = x
        BY <2>1 DEF WebhookInvariant
      <3> QED
        BY <1>4, <3>1 DEF HandledIsKept
    <2>2. CASE s # r
      <3>1. delivered'[s] = delivered[s]
        BY <2>2 DEF WebhookInvariant
      <3>2. HandledIsKept(delivered[s])
        BY <1>4, <3>1 DEF WebhookInvariant, DeliveredIsKept
      <3> QED
        BY <1>2, <3>1, <3>2 DEF HandledIsKept
    <2> QED
      BY <2>1, <2>2
  <1>5. DeliveredIsKept'
    BY <1>4 DEF DeliveredIsKept
  <1> QED
    BY <1>1, <1>3, <1>5 DEF WebhookInvariant

(* No step of the webhook breaks it. *)
LEMMA WebhookNext ==
    ASSUME WebhookInvariant, [Webhook!Next]_(Webhook!vars)
    PROVE  WebhookInvariant'
  <1>1. ASSUME NEW r \in Deliveries, NEW n \in Notifications, Webhook!Deliver(r, n)
        PROVE  WebhookInvariant'
    <2> DEFINE x == [notification |-> n, at |-> 1, failures |-> 0]
    <2>1. \A k \in DOMAIN ParsedEvents[n] : ~(k < 1)
      BY EventsAre
    <2>2. delivered' = [delivered EXCEPT ![r] = x] /\ kept' = kept /\ owed' = owed
      BY <1>1 DEF Webhook!Deliver
    <2>3. HandledIsKept(x)'
      BY <2>1 DEF HandledIsKept
    <2> QED
      BY <2>2, <2>3, KeptGrows
  <1>2. ASSUME NEW r \in Deliveries, Webhook!Handle(r)
        PROVE  WebhookInvariant'
    <2>0. PICK x : x = delivered[r]
      OBVIOUS
    <2> DEFINE n == x.notification
    <2>1. x # Webhook!NoRequest /\ HandledIsKept(x)
      BY <1>2, <2>0 DEF Webhook!Handle, WebhookInvariant, DeliveredIsKept
    <2>2. PICK e : /\ Webhook!Handles(r, e)
                   /\ \/ Webhook!UnknownAccount(r, e) \/ Webhook!Reject(r, e) \/ Webhook!Fail(r, e)
                      \/ Webhook!handleText(r, e) \/ Webhook!handleStatus(r, e)
      BY <1>2 DEF Webhook!Handle
    <2>3. x.at \in DOMAIN ParsedEvents[n] /\ e = ParsedEvents[n][x.at]
      BY <2>0, <2>2 DEF Webhook!Handles
    <2>4. n \in Notifications /\ x.at \in Nat /\ x.failures \in Nat
          /\ \A k \in DOMAIN ParsedEvents[n] : k \in Nat
      BY <2>1, EventsAre DEF HandledIsKept
    <2>5. ASSUME Webhook!Done(r), kept \subseteq kept', owed' = owed,
                 Owes(n, x.at) => IsKept(n, x.at)'
          PROVE  WebhookInvariant'
      <3> DEFINE y == [x EXCEPT !.at = @ + 1]
      <3>1. delivered' = [delivered EXCEPT ![r] = y]
        BY <2>0, <2>5 DEF Webhook!Done
      <3>2. y.notification = n /\ y.at = x.at + 1 /\ y.failures = x.failures
        BY <2>1 DEF HandledIsKept
      <3>3. \A k \in DOMAIN ParsedEvents[n] : k < x.at + 1 => k < x.at \/ k = x.at
        BY <2>4
      <3>4. \A k : IsKept(n, k) => IsKept(n, k)'
        BY <2>5 DEF IsKept
      <3>5. y \in [notification : Notifications, at : Nat, failures : Nat]
        BY <2>1, <2>4 DEF HandledIsKept
      <3>6. HandledIsKept(y)'
        BY <3>5, <2>1, <2>4, <2>5, <3>2, <3>3, <3>4 DEF HandledIsKept
      <3> HIDE DEF y
      <3> QED
        BY <2>5, <3>1, <3>6, KeptGrows
    <2>6. ASSUME Webhook!Fails(r), kept \subseteq kept', owed' = owed
          PROVE  WebhookInvariant'
      <3> DEFINE y == Webhook!AfterFailure(x)
      <3>1. delivered' = [delivered EXCEPT ![r] = y]
        BY <2>0, <2>6 DEF Webhook!Fails
      <3>2. y.notification = n /\ y.at = x.at + 1 /\ y.failures = x.failures + 1
        BY <2>1 DEF HandledIsKept, Webhook!AfterFailure
      <3>3. y \in [notification : Notifications, at : Nat, failures : Nat]
        <4>1. x \in [notification : Notifications, at : Nat, failures : Nat]
          BY <2>1 DEF HandledIsKept
        <4>2. x.failures + 1 \in Nat /\ x.at + 1 \in Nat
          BY <2>4
        <4>3. \A a, b \in Nat : [x EXCEPT !.failures = a, !.at = b]
                                   \in [notification : Notifications, at : Nat, failures : Nat]
          BY <4>1
        <4> QED
          BY <4>2, <4>3 DEF Webhook!AfterFailure
      <3>4. HandledIsKept(y)'
        BY <2>4, <3>2, <3>3 DEF HandledIsKept
      <3> HIDE DEF y
      <3> QED
        BY <2>6, <3>1, <3>4, KeptGrows
    <2>7. CASE Webhook!UnknownAccount(r, e)
      BY <2>3, <2>5, <2>7 DEF Webhook!UnknownAccount, Owes
    <2>8. CASE Webhook!Reject(r, e)
      BY <2>3, <2>5, <2>8 DEF Webhook!Reject, Webhook!isDeterministic, Owes
    <2>9. CASE Webhook!Fail(r, e)
      BY <2>6, <2>9 DEF Webhook!Fail
    <2>10. CASE Webhook!handleText(r, e)
      <3>1. kept \subseteq kept' /\ IsKept(n, x.at)' /\ Webhook!Done(r) /\ owed' = owed
        BY <2>3, <2>10 DEF Webhook!handleText, IsKept
      <3> QED
        BY <2>5, <3>1
    <2>11. CASE Webhook!handleStatus(r, e)
      BY <2>3, <2>5, <2>11 DEF Webhook!handleStatus, Owes
    <2> QED
      BY <2>2, <2>7, <2>8, <2>9, <2>10, <2>11
  <1>3. ASSUME NEW r \in Deliveries, Webhook!Answer(r)
        PROVE  WebhookInvariant'
    <2> DEFINE n == delivered[r].notification
    <2>1. /\ delivered[r] # Webhook!NoRequest /\ kept' = kept
          /\ delivered' = [delivered EXCEPT ![r] = Webhook!NoRequest]
          /\ delivered[r].at > Len(ParsedEvents[n])
          /\ owed' = IF delivered[r].failures = 0 THEN owed \ {n} ELSE owed
      BY <1>3 DEF Webhook!Answer, Webhook!Acknowledges
    <2>2. /\ n \in Notifications /\ delivered[r].at \in Nat
          /\ delivered[r].failures = 0 =>
                \A k \in DOMAIN ParsedEvents[n] : k < delivered[r].at /\ Owes(n, k) => IsKept(n, k)
      BY <2>1 DEF WebhookInvariant, DeliveredIsKept, HandledIsKept
    <2>3. \A k \in DOMAIN ParsedEvents[n] : k < delivered[r].at
      BY <2>1, <2>2, EventsAre
    <2>4. delivered[r].failures = 0 =>
                \A k \in DOMAIN ParsedEvents[n] : Owes(n, k) => IsKept(n, k)
      BY <2>2, <2>3
    <2>5. \A m, k : IsKept(m, k)' <=> IsKept(m, k)
      BY <2>1 DEF IsKept
    <2>6. AcknowledgedIsKept'
      BY <2>1, <2>4, <2>5 DEF WebhookInvariant, AcknowledgedIsKept
    <2>7. DeliveredIsKept' /\ DOMAIN delivered' = Deliveries
      BY <2>1, <2>5 DEF WebhookInvariant, DeliveredIsKept, HandledIsKept
    <2> QED
      BY <2>6, <2>7 DEF WebhookInvariant
  <1>4. ASSUME NEW r \in Deliveries, Webhook!Crash(r)
        PROVE  WebhookInvariant'
    BY <1>4, KeptGrows DEF Webhook!Crash
  <1>5. ASSUME NEW w \in Outbound, Webhook!markSent(w)
        PROVE  WebhookInvariant'
    BY <1>5 DEF Webhook!markSent, WebhookInvariant, DeliveredIsKept, HandledIsKept, AcknowledgedIsKept, IsKept
  <1>6. CASE UNCHANGED Webhook!vars
    BY <1>6 DEF Webhook!vars, WebhookInvariant, DeliveredIsKept, HandledIsKept, AcknowledgedIsKept, IsKept
  <1> QED
    BY <1>1, <1>2, <1>3, <1>4, <1>5, <1>6 DEF Webhook!Next

(* What it says of events, it says of texts. *)
LEMMA KeptImpliesStored ==
    ASSUME WebhookInvariant
    PROVE  Webhook!AcknowledgedIsStored
  <1> SUFFICES ASSUME NEW n \in Notifications \ owed,
                      NEW id \in Webhook!CustomerTexts(n) \ Refused
               PROVE  id \in kept
    BY DEF Webhook!AcknowledgedIsStored
  <1>1. PICK k \in DOMAIN ParsedEvents[n] :
           /\ ParsedEvents[n][k].kind = "text" /\ ParsedEvents[n][k].id = id
           /\ ParsedEvents[n][k].account \in Configured
    BY TextsAreEvents
  <1> QED
    BY <1>1 DEF WebhookInvariant, AcknowledgedIsKept, Owes, IsKept

(* However often Meta delivers, whatever fails or crashes, and however many *)
(* requests handle one notification at the same time: it is answered 200    *)
(* only when each of its customers' texts is stored or was refused.         *)
THEOREM AcknowledgedTextsAreStored == Webhook!Spec => []Webhook!AcknowledgedIsStored
  <1>1. Webhook!Init => WebhookInvariant
    BY WebhookInit
  <1>2. WebhookInvariant /\ [Webhook!Next]_(Webhook!vars) => WebhookInvariant'
    BY WebhookNext
  <1>3. WebhookInvariant => Webhook!AcknowledgedIsStored
    BY KeptImpliesStored
  <1> QED
    BY <1>1, <1>2, <1>3, PTL DEF Webhook!Spec

(* The same in the specification that the run checks. *)
THEOREM AcknowledgedIsStoredByServices == ServicesSpec => []AcknowledgedIsStored
  <1> DEFINE Inv == part = "webhook" => WebhookInvariant
  <1>1. ServicesInit => Inv
    BY WebhookInit DEF ServicesInit
  <1>2. Inv /\ [ServicesNext]_allVars => Inv'
    <2> SUFFICES ASSUME Inv, [ServicesNext]_allVars, part' = "webhook"
                 PROVE  WebhookInvariant'
      OBVIOUS
    <2>1. part = "webhook" /\ [Webhook!Next]_(Webhook!vars)
      BY DEF ServicesNext, allVars, webhook, Webhook!vars
    <2> QED
      BY <2>1, WebhookNext
  <1>3. Inv => AcknowledgedIsStored
    BY KeptImpliesStored DEF AcknowledgedIsStored
  <1> HIDE DEF Inv
  <1> QED
    BY <1>1, <1>2, <1>3, PTL DEF ServicesSpec
=============================================================================
