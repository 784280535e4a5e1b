------------------------------- MODULE CrmProofs -------------------------------
(***************************************************************************)
(* TLAPS proofs about the CRM: the mirror of the next follow-up of a lead, *)
(* for any number of follow-ups, leads and concurrent requests; and the    *)
(* pages of MCPages, the calendar, its agenda, the drawer of a new lead,   *)
(* the board and the follow-ups, for any rows, pages, clocks, requests and *)
(* bounds.  The invariant of each page is about the variables of its part. *)
(***************************************************************************)
EXTENDS FollowUpMirror, MCPages, Sequences, SequenceTheorems, FiniteSetTheorems, TLAPS

-----------------------------------------------------------------------------
(* The mirror of the next follow-up *)

(* The type alone is not inductive: that a lead to recompute is a lead at all, *)
(* and not NULL, follows from what the request read and wrote.                 *)
Inv == TypeOK /\ FollowUpInv

(* A follow-up that was not created. *)
LEMMA NoRowFacts == NoRow \in Row /\ RowIsSound(NoRow) /\ NoRow.lead = None
  BY DEF NoRow, Row, Statuses, RowIsSound

(* A request that has no transaction. *)
LEMMA NoTxFacts == NoTx.phase = "idle"
  BY DEF NoTx

(* A transaction that is open has its type. *)
LEMMA ActiveType ==
    ASSUME TypeOK, NEW r \in Requests, Active(r)
    PROVE  tx[r] \in Tx
  BY DEF TypeOK, Active

(* One that has decided or written is open. *)
LEMMA PhaseIsActive ==
    ASSUME NEW r \in Requests, tx[r].phase \in {"decided", "written"}
    PROVE  Active(r)
  BY DEF Active

(* Nothing is under way at the start. *)
LEMMA InitInv == Init => Inv
  <1> SUFFICES ASSUME Init PROVE Inv
    OBVIOUS
  <1>1. \A r \in Requests : tx[r] = NoTx /\ ~Active(r)
    BY NoTxFacts DEF Init, Active
  <1>2. TypeOK
    BY NoRowFacts DEF Init, TypeOK, NoTx
  <1>3. FollowUpInv
    BY <1>1, NoRowFacts, NoTxFacts
       DEF Init, FollowUpInv, RequestsAreSound, WritesAreSound, OwnChangeIsSeen,
           LoneRequestIsExact
  <1> QED
    BY <1>2, <1>3 DEF Inv

(* The decision of any operation. *)
LEMMA BeginInv ==
    ASSUME Inv, NEW r \in Requests, NEW op \in Operations, NEW f \in FollowUps,
           NEW given \in Leads \cup {None}, NEW at \in Times \cup {None},
           Begin(r, op, f, given, at),
           op = "create" => /\ followUp[f] = NoRow /\ given \in Leads /\ at \in Times
                            /\ \A q \in Requests : Active(q) => tx[q].id # f,
           op # "create" => followUp[f].status # "ABSENT",
           op = "reschedule" => at \in Times
    PROVE  Inv'
  <1> DEFINE x == [op |-> op, id |-> f, seen |-> followUp[f].lead, lead |-> given,
                   at |-> at, phase |-> "decided", row |-> NoRow, todo |-> <<>>,
                   next |-> Unset, mirror |-> [l \in Leads |-> Unset],
                   alone |-> \A q \in Requests : ~Active(q)]
  <1>1. followUp[f] \in Row /\ RowIsSound(followUp[f])
    BY DEF Inv, TypeOK, FollowUpInv
  <1>2. x \in Tx
    <2>1. followUp[f].lead \in Leads \cup {None}
      BY <1>1 DEF Row
    <2>2. <<>> \in Seq(Leads)
      OBVIOUS
    <2> QED
      BY <2>1, <2>2, NoRowFacts DEF Tx
  <1>3. /\ x.op = op /\ x.id = f /\ x.seen = followUp[f].lead /\ x.lead = given /\ x.at = at
        /\ x.phase = "decided" /\ x.next = Unset
        /\ x.alone = \A q \in Requests : ~Active(q)
    OBVIOUS
  <1> HIDE DEF x
  <1>4. /\ ~Active(r)
        /\ tx' = [q \in Requests |->
                    IF q = r THEN x
                    ELSE IF Active(q) THEN [tx[q] EXCEPT !.alone = FALSE] ELSE tx[q]]
        /\ UNCHANGED <<followUp, nextActionAt>>
    BY DEF Begin, x
  <1>5. \A q \in Requests \ {r} : Active(q) =>
            /\ tx'[q] \in Tx /\ tx'[q].alone = FALSE
            /\ tx'[q].op = tx[q].op /\ tx'[q].id = tx[q].id /\ tx'[q].seen = tx[q].seen
            /\ tx'[q].lead = tx[q].lead /\ tx'[q].at = tx[q].at
            /\ tx'[q].phase = tx[q].phase /\ tx'[q].row = tx[q].row
            /\ tx'[q].todo = tx[q].todo /\ tx'[q].next = tx[q].next
            /\ tx'[q].mirror = tx[q].mirror
    <2> SUFFICES ASSUME NEW q \in Requests \ {r}, Active(q)
                 PROVE  /\ [tx[q] EXCEPT !.alone = FALSE] \in Tx
                        /\ tx'[q] = [tx[q] EXCEPT !.alone = FALSE]
      BY <1>4, ActiveType DEF Tx, Inv
    <2>1. tx[q] \in Tx
      BY ActiveType DEF Inv
    <2> QED
      BY <1>4, <2>1 DEF Tx
  <1>6. \A q \in Requests \ {r} : ~Active(q) => tx'[q] = tx[q] /\ tx'[q].phase = "idle"
    BY <1>4 DEF Active
  <1>7. tx'[r] = x
    BY <1>4
  <1>8. TypeOK'
    <2>1. \A q \in Requests : tx'[q] \in Tx \cup [phase : {"idle"}, alone : {TRUE}]
      BY <1>2, <1>5, <1>6, <1>7 DEF Inv, TypeOK
    <2> QED
      BY <1>4, <2>1 DEF Inv, TypeOK
  <1>9. \A q \in Requests \ {r} : Active(q)' <=> Active(q)
    BY <1>5, <1>6 DEF Active
  <1>10. (\A g \in FollowUps : RowIsSound(followUp[g]))'
    BY <1>4 DEF Inv, FollowUpInv
  <1>11. RequestsAreSound'
    <2>1. ASSUME NEW q \in Requests \ {r}, Active(q)'
          PROVE  /\ tx'[q].op = "create" =>
                       /\ followUp'[tx'[q].id] = NoRow
                       /\ tx'[q].lead \in Leads /\ tx'[q].at \in Times
                       /\ \A p \in Requests \ {q} : Active(p)' => tx'[p].id # tx'[q].id
                 /\ tx'[q].op # "create" => followUp'[tx'[q].id].status # "ABSENT"
                 /\ tx'[q].op = "update" => tx'[q].seen \in Leads
                 /\ tx'[q].op = "reschedule" => tx'[q].at \in Times
                 /\ tx'[q].phase = "decided" => tx'[q].next = Unset
      <3>1. Active(q)
        BY <1>9, <2>1
      <3>2. tx'[q].op = "create" => f # tx[q].id
        BY <1>5, <3>1, NoRowFacts DEF Inv, FollowUpInv, RequestsAreSound, NoRow
      <3> QED
        BY <1>3, <1>4, <1>5, <1>7, <1>9, <3>1, <3>2 DEF Inv, FollowUpInv, RequestsAreSound
    <2>2. /\ x.op = "create" =>
                /\ followUp'[x.id] = NoRow
                /\ x.lead \in Leads /\ x.at \in Times
                /\ \A p \in Requests \ {r} : Active(p)' => tx'[p].id # x.id
          /\ x.op # "create" => followUp'[x.id].status # "ABSENT"
          /\ x.op = "update" => x.seen \in Leads
          /\ x.op = "reschedule" => x.at \in Times
          /\ x.phase = "decided" => x.next = Unset
      BY <1>1, <1>3, <1>4, <1>5, <1>9 DEF RowIsSound
    <2> QED
      BY <1>7, <2>1, <2>2 DEF RequestsAreSound
  <1>12. WritesAreSound' /\ OwnChangeIsSeen'
    <2>1. \A q \in Requests : tx'[q].phase = "written" => q # r /\ Active(q)
      BY <1>3, <1>6, <1>7
    <2>2. WritesAreSound'
      BY <1>4, <1>5, <2>1 DEF Inv, FollowUpInv, WritesAreSound
    <2>3. OwnChangeIsSeen'
      BY <1>5, <2>1 DEF Inv, FollowUpInv, OwnChangeIsSeen
    <2> QED
      BY <2>2, <2>3
  <1>13. LoneRequestIsExact'
    <2>1. \A q \in Requests : Active(q)' /\ tx'[q].alone => q = r
      BY <1>5, <1>9
    <2>2. x.alone => \A q \in Requests \ {r} : ~Active(q)'
      BY <1>3, <1>9
    <2> QED
      BY <1>3, <1>4, <1>7, <2>1, <2>2 DEF LoneRequestIsExact
  <1> QED
    BY <1>8, <1>10, <1>11, <1>12, <1>13 DEF Inv, FollowUpInv

(* What a step of one request leaves alone in the others. *)
LEMMA OthersUnchanged ==
    ASSUME TypeOK, NEW r \in Requests, NEW y, tx' = [tx EXCEPT ![r] = y]
    PROVE  /\ tx'[r] = y
           /\ \A q \in Requests \ {r} : tx'[q] = tx[q] /\ (Active(q)' <=> Active(q))
  BY DEF TypeOK, Active

(* The write of an operation on the row as it is now. *)
LEMMA ChangedIsSound ==
    ASSUME NEW x \in Tx, NEW row \in Row, RowIsSound(row),
           x.op = "create" => row = NoRow /\ x.lead \in Leads /\ x.at \in Times,
           x.op # "create" => row.status # "ABSENT",
           x.op = "reschedule" => x.at \in Times
    PROVE  /\ Changed(x, row) \in Row
           /\ RowIsSound(Changed(x, row)) /\ Changed(x, row).status # "ABSENT"
           /\ row.status \in {"COMPLETED", "CANCELED"} =>
                 Changed(x, row).status \in {"COMPLETED", "CANCELED"}
           /\ x.op = "create" => Changed(x, row).lead = x.lead
           /\ x.op = "update" => Changed(x, row).lead = IF x.lead = None THEN row.lead ELSE x.lead
           /\ x.op \notin {"create", "update"} => Changed(x, row).lead = row.lead
  <1>1. x.op \in Operations /\ x.lead \in Leads \cup {None} /\ x.at \in Times \cup {None}
    BY DEF Tx
  <1>2. CASE x.op = "create"
    <2>1. Changed(x, row) = [NoRow EXCEPT !.status = "PENDING", !.lead = x.lead, !.at = x.at]
      BY <1>2 DEF Changed
    <2>2. Changed(x, row) = [status |-> "PENDING", lead |-> x.lead, at |-> x.at,
                             completedAt |-> FALSE, canceledAt |-> FALSE]
      BY <2>1 DEF NoRow
    <2> QED
      BY <1>2, <2>2, NoRowFacts DEF Row, Statuses, RowIsSound, NoRow
  <1>3. CASE x.op = "update"
    BY <1>1, <1>3, MirrorAssumption DEF Changed, Row, Statuses, RowIsSound
  <1>4. CASE x.op = "reschedule"
    BY <1>1, <1>4 DEF Changed, Rescheduled, Row, Statuses, RowIsSound
  <1>5. CASE x.op \in {"complete", "cancel"}
    BY <1>1, <1>5 DEF Changed, Settled, Row, Statuses, RowIsSound
  <1> QED
    BY <1>1, <1>2, <1>3, <1>4, <1>5 DEF Operations

(* Which leads are recomputed, and which of them last. *)
LEMMA ToRecomputeFacts ==
    ASSUME NEW x \in Tx, NEW row \in Row, row.lead \in Leads,
           x.op = "update" => x.seen \in Leads
    PROVE  /\ ToRecompute(x, row) \in Seq(Leads)
           /\ ToRecompute(x, row) # <<>>
           /\ ToRecompute(x, row)[Len(ToRecompute(x, row))] = row.lead
           /\ x.op = "update" /\ x.lead \notin {None, x.seen} =>
                 \E i \in 1..Len(ToRecompute(x, row)) : ToRecompute(x, row)[i] = x.seen
  BY DEF ToRecompute

LEMMA WriteInv ==
    ASSUME Inv, NEW r \in Requests, Write(r)
    PROVE  Inv'
  <1> DEFINE x == tx[r]
             row == Changed(x, followUp[x.id])
             todo == ToRecompute(x, row)
             y == [x EXCEPT !.phase = "written", !.row = row, !.todo = todo]
  <1>1. /\ x.phase = "decided" /\ Active(r)
        /\ \A q \in Requests : tx[q].phase = "written" => tx[q].id # x.id
        /\ tx' = [tx EXCEPT ![r] = y]
        /\ UNCHANGED <<followUp, nextActionAt>>
    BY DEF Write, Active
  <1>2. /\ x \in Tx /\ x.id \in FollowUps
        /\ followUp[x.id] \in Row /\ RowIsSound(followUp[x.id])
    <2>1. x \in Tx
      BY <1>1, ActiveType DEF Inv
    <2>2. x.id \in FollowUps
      BY <2>1 DEF Tx
    <2> QED
      BY <2>1, <2>2 DEF Inv, TypeOK, FollowUpInv
  <1>3. /\ x.op = "create" => /\ followUp[x.id] = NoRow /\ x.lead \in Leads /\ x.at \in Times
        /\ x.op # "create" => followUp[x.id].status # "ABSENT"
        /\ x.op = "update" => x.seen \in Leads
        /\ x.op = "reschedule" => x.at \in Times
        /\ x.next = Unset
    BY <1>1 DEF Inv, FollowUpInv, RequestsAreSound
  <1> HIDE DEF x
  <1>4. /\ row \in Row /\ RowIsSound(row) /\ row.status # "ABSENT"
        /\ followUp[x.id].status \in {"COMPLETED", "CANCELED"} =>
              row.status \in {"COMPLETED", "CANCELED"}
        /\ x.op = "create" => row.lead = x.lead
        /\ x.op = "update" => row.lead = IF x.lead = None THEN followUp[x.id].lead ELSE x.lead
        /\ x.op \notin {"create", "update"} => row.lead = followUp[x.id].lead
    BY <1>2, <1>3, ChangedIsSound
  <1>5. row.lead \in Leads
    BY <1>4 DEF RowIsSound
  <1> HIDE DEF row
  <1>6. /\ todo \in Seq(Leads) /\ todo # <<>> /\ todo[Len(todo)] = row.lead
        /\ x.op = "update" /\ x.lead \notin {None, x.seen} =>
              \E i \in 1..Len(todo) : todo[i] = x.seen
    BY <1>2, <1>3, <1>4, <1>5, ToRecomputeFacts
  <1> HIDE DEF todo
  <1>7. y \in Tx
    BY <1>2, <1>4, <1>6, Zenon DEF Tx
  <1>8. /\ y.phase = "written" /\ y.row = row /\ y.todo = todo
        /\ y.op = x.op /\ y.id = x.id /\ y.seen = x.seen /\ y.lead = x.lead /\ y.at = x.at
        /\ y.next = Unset /\ y.alone = x.alone
    BY <1>2, <1>3 DEF Tx
  <1> HIDE DEF y
  <1>9. /\ tx'[r] = y /\ Active(r)'
        /\ \A q \in Requests \ {r} : tx'[q] = tx[q] /\ (Active(q)' <=> Active(q))
    BY <1>1, <1>8, OthersUnchanged DEF Inv, Active
  <1>10. TypeOK'
    BY <1>1, <1>7 DEF Inv, TypeOK
  <1>11. (\A g \in FollowUps : RowIsSound(followUp[g]))'
    BY <1>1 DEF Inv, FollowUpInv
  <1>12. RequestsAreSound'
    BY <1>1, <1>8, <1>9 DEF Inv, FollowUpInv, RequestsAreSound, x
  <1>13. WritesAreSound'
    BY <1>1, <1>4, <1>8, <1>9 DEF Inv, FollowUpInv, WritesAreSound
  <1>14. OwnChangeIsSeen'
    BY <1>6, <1>8, <1>9 DEF Inv, FollowUpInv, OwnChangeIsSeen
  <1>15. LoneRequestIsExact'
    <2>1. ASSUME NEW q \in Requests \ {r}, Active(q)', tx'[q].alone
          PROVE  FALSE
      BY <1>1, <1>9, <2>1 DEF Inv, FollowUpInv, LoneRequestIsExact
    <2>2. ASSUME x.alone
          PROVE  /\ \A q \in Requests \ {r} : ~Active(q)
                 /\ x.seen = followUp[x.id].lead
                 /\ \A l \in {followUp[x.id].lead, row.lead} \ {None} :
                        \E i \in 1..Len(todo) : todo[i] = l
      <3>1. (\A q \in Requests \ {r} : ~Active(q)) /\ x.seen = followUp[x.id].lead
        BY <1>1, <2>2 DEF Inv, FollowUpInv, LoneRequestIsExact, x
      <3>2. \E i \in 1..Len(todo) : todo[i] = row.lead
        BY <1>6
      <3>3. \/ followUp[x.id].lead \in {None, row.lead}
            \/ \E i \in 1..Len(todo) : todo[i] = followUp[x.id].lead
        BY <1>3, <1>4, <1>6, <3>1, NoRowFacts
      <3> QED
        BY <3>1, <3>2, <3>3
    <2>3. ASSUME y.alone
          PROVE  /\ \A q \in Requests \ {r} : ~Active(q)'
                 /\ y.seen = followUp'[y.id].lead
                 /\ y.next = Unset
                 /\ \A l \in {followUp'[y.id].lead, y.row.lead} \ {None} :
                        \E i \in 1..Len(y.todo) : y.todo[i] = l
      BY <1>1, <1>8, <1>9, <2>2, <2>3
    <2>4. y.row = row /\ y.todo = todo /\ y.id = x.id /\ y.phase = "written" /\ tx'[r] = y
      BY <1>8, <1>9
    <2>5. ASSUME NEW q \in Requests, Active(q)', tx'[q].alone
          PROVE  q = r
      BY <2>1, <2>5
    <2>6. ASSUME tx'[r].alone
          PROVE  /\ \A p \in Requests \ {r} : ~Active(p)'
                 /\ tx'[r].seen = followUp'[tx'[r].id].lead
                 /\ tx'[r].next = Unset
                 /\ \A l \in {followUp'[tx'[r].id].lead, tx'[r].row.lead} \ {None} :
                        \E i \in 1..Len(tx'[r].todo) : tx'[r].todo[i] = l
      BY <1>9, <2>3, <2>6
    <2>7. ASSUME NEW q \in Requests, Active(q)', tx'[q].alone
          PROVE  /\ \A p \in Requests \ {q} : ~Active(p)'
                 /\ tx'[q].seen = followUp'[tx'[q].id].lead
                 /\ tx'[q].next = Unset
                 /\ \A l \in {followUp'[tx'[q].id].lead, tx'[q].row.lead} \ {None} :
                        \E i \in 1..Len(tx'[q].todo) : tx'[q].todo[i] = l
      <3>1. q = r
        BY <2>5, <2>7
      <3> QED
        BY <2>6, <2>7, <3>1
    <2> QED
      BY <2>7 DEF LoneRequestIsExact
  <1> QED
    BY <1>10, <1>11, <1>12, <1>13, <1>14, <1>15 DEF Inv, FollowUpInv

LEMMA VisibleIsSound ==
    ASSUME Inv, NEW r \in Requests, tx[r].phase = "written"
    PROVE  /\ tx[r] \in Tx /\ tx[r].id \in FollowUps
           /\ tx[r].row \in Row /\ RowIsSound(tx[r].row)
           /\ Visible(r)[tx[r].id] = tx[r].row
           /\ \A f \in FollowUps : Visible(r)[f] \in Row /\ RowIsSound(Visible(r)[f])
  <1>1. tx[r] \in Tx
    BY ActiveType, PhaseIsActive DEF Inv
  <1>2. tx[r].id \in FollowUps /\ tx[r].row \in Row
    BY <1>1 DEF Tx
  <1>3. RowIsSound(tx[r].row)
    BY DEF Inv, FollowUpInv, WritesAreSound
  <1> QED
    BY <1>1, <1>2, <1>3 DEF Visible, Inv, TypeOK, FollowUpInv

(* A date found for the lead of a pending follow-up covers it. *)
LEMMA NextCovers ==
    ASSUME NEW rows, \A f \in FollowUps : RowIsSound(rows[f]),
           NEW f \in FollowUps, rows[f].status = "PENDING",
           NEW at, IsNext(rows, rows[f].lead, at)
    PROVE  Covers(at, rows[f])
  <1>1. f \in PendingOf(rows, rows[f].lead)
    BY DEF PendingOf
  <1>2. PICK g \in PendingOf(rows, rows[f].lead) : at = rows[g].at
    BY <1>1 DEF IsNext
  <1>3. at \in Times
    BY <1>2 DEF PendingOf, RowIsSound
  <1> QED
    BY <1>1, <1>3, MirrorAssumption DEF IsNext, Covers

(* Whoever is exact is not unset. *)
LEMMA ExactIsSet ==
    ASSUME NEW rows, \A f \in FollowUps : RowIsSound(rows[f]), NEW l,
           IsNext(rows, l, Unset)
    PROVE  FALSE
  BY MirrorAssumption DEF IsNext, PendingOf, RowIsSound

LEMMA FindNextInv ==
    ASSUME Inv, NEW r \in Requests, FindNext(r)
    PROVE  Inv'
  <1> DEFINE x == tx[r]
  <1>1. PICK at \in Times \cup {None} :
            /\ IsNext(Visible(r), Head(x.todo), at)
            /\ tx' = [tx EXCEPT ![r].next = at]
    BY DEF FindNext
  <1> DEFINE y == [x EXCEPT !.next = at]
  <1>2. x.phase = "written" /\ x.todo # <<>> /\ Active(r)
    BY DEF FindNext, Active
  <1>3. x \in Tx
    BY <1>2, VisibleIsSound
  <1>4. tx' = [tx EXCEPT ![r] = y] /\ UNCHANGED <<followUp, nextActionAt>>
    BY <1>1, Zenon DEF FindNext, Inv, TypeOK
  <1>5. y \in Tx
    BY <1>3, Zenon DEF Tx
  <1>6. /\ y.phase = "written" /\ y.row = x.row /\ y.todo = x.todo /\ y.mirror = x.mirror
        /\ y.op = x.op /\ y.id = x.id /\ y.seen = x.seen /\ y.lead = x.lead /\ y.at = x.at
        /\ y.next = at /\ y.alone = x.alone
    BY <1>2, <1>3 DEF Tx
  <1> HIDE DEF y
  <1>7. /\ tx'[r] = y /\ Active(r)'
        /\ \A q \in Requests \ {r} : tx'[q] = tx[q] /\ (Active(q)' <=> Active(q))
    BY <1>4, <1>6, OthersUnchanged DEF Inv, Active
  <1>8. Visible(r)' = Visible(r)
    BY <1>4, <1>6, <1>7 DEF Visible
  <1>9. TypeOK'
    BY <1>4, <1>5 DEF Inv, TypeOK
  <1>10. (\A g \in FollowUps : RowIsSound(followUp[g]))'
    BY <1>4 DEF Inv, FollowUpInv
  <1>11. RequestsAreSound'
    BY <1>2, <1>4, <1>6, <1>7 DEF Inv, FollowUpInv, RequestsAreSound
  <1>12. WritesAreSound'
    BY <1>2, <1>4, <1>6, <1>7 DEF Inv, FollowUpInv, WritesAreSound
  <1>13. OwnChangeIsSeen'
    <2>1. ASSUME x.row.status = "PENDING", Head(x.todo) = x.row.lead
          PROVE  Covers(at, x.row)
      BY <1>1, <1>2, <2>1, VisibleIsSound, NextCovers
    <2> QED
      BY <1>2, <1>6, <1>7, <2>1 DEF Inv, FollowUpInv, OwnChangeIsSeen
  <1>14. LoneRequestIsExact'
    <2>1. ASSUME NEW q \in Requests \ {r}, Active(q)', tx'[q].alone
          PROVE  FALSE
      BY <1>2, <1>7, <2>1 DEF Inv, FollowUpInv, LoneRequestIsExact
    <2>2. ASSUME y.alone
          PROVE  /\ \A q \in Requests \ {r} : ~Active(q)'
                 /\ y.seen = followUp'[y.id].lead
                 /\ IsNext(Visible(r), Head(y.todo), y.next)
                 /\ \A l \in {followUp'[y.id].lead, y.row.lead} \ {None} :
                        \/ \E i \in 1..Len(y.todo) : y.todo[i] = l
                        \/ IsNext(Visible(r), l, y.mirror[l])
      <3>1. /\ \A q \in Requests \ {r} : ~Active(q)
            /\ x.seen = followUp[x.id].lead
            /\ \A l \in {followUp[x.id].lead, x.row.lead} \ {None} :
                   \/ \E i \in 1..Len(x.todo) : x.todo[i] = l
                   \/ IsNext(Visible(r), l, x.mirror[l])
        BY <1>2, <1>6, <2>2 DEF Inv, FollowUpInv, LoneRequestIsExact
      <3>2. IsNext(Visible(r), Head(y.todo), y.next)
        BY <1>1, <1>6, Zenon
      <3> QED
        BY <1>4, <1>6, <1>7, <3>1, <3>2
    <2> QED
      BY <1>7, <1>8, <2>1, <2>2 DEF LoneRequestIsExact
  <1> QED
    BY <1>9, <1>10, <1>11, <1>12, <1>13, <1>14 DEF Inv, FollowUpInv

LEMMA StoreNextInv ==
    ASSUME Inv, NEW r \in Requests, StoreNext(r)
    PROVE  Inv'
  <1> DEFINE x == tx[r]
             l0 == Head(x.todo)
             mirror == [x.mirror EXCEPT ![l0] = x.next]
             y == [x EXCEPT !.mirror = mirror, !.todo = Tail(x.todo), !.next = Unset]
  <1>1. x.phase = "written" /\ x.todo # <<>> /\ x.next # Unset /\ Active(r)
    BY DEF StoreNext, Active
  <1>2. x \in Tx
    BY <1>1, VisibleIsSound
  <1>3. /\ x.todo \in Seq(Leads) /\ x.mirror \in [Leads -> Times \cup {None, Unset}]
        /\ x.next \in Times \cup {None, Unset}
    BY <1>2 DEF Tx
  <1>4. l0 \in Leads /\ Tail(x.todo) \in Seq(Leads)
    BY <1>1, <1>3
  <1>5. tx' = [tx EXCEPT ![r] = y] /\ UNCHANGED <<followUp, nextActionAt>>
    <2>1. [x EXCEPT !.mirror[Head(x.todo)] = x.next, !.todo = Tail(x.todo), !.next = Unset] = y
      BY <1>2, Zenon DEF Tx
    <2> QED
      BY <2>1 DEF StoreNext
  <1>6. mirror \in [Leads -> Times \cup {None, Unset}]
    BY <1>3, <1>4
  <1>7. y \in Tx
    <2> HIDE DEF mirror
    <2> QED
      BY <1>2, <1>4, <1>6, Zenon DEF Tx
  <1>8. /\ y.phase = "written" /\ y.row = x.row /\ y.todo = Tail(x.todo) /\ y.mirror = mirror
        /\ y.op = x.op /\ y.id = x.id /\ y.seen = x.seen /\ y.lead = x.lead /\ y.at = x.at
        /\ y.next = Unset /\ y.alone = x.alone
    BY <1>1, <1>2 DEF Tx
  <1>9. mirror[l0] = x.next /\ \A l \in Leads \ {l0} : mirror[l] = x.mirror[l]
    BY <1>3, <1>4
  <1> HIDE DEF y, mirror
  <1>10. /\ tx'[r] = y /\ Active(r)'
         /\ \A q \in Requests \ {r} : tx'[q] = tx[q] /\ (Active(q)' <=> Active(q))
    BY <1>5, <1>8, OthersUnchanged DEF Inv, Active
  <1>11. Visible(r)' = Visible(r)
    BY <1>5, <1>8, <1>10 DEF Visible
  <1>12. TypeOK'
    BY <1>5, <1>7 DEF Inv, TypeOK
  <1>13. (\A g \in FollowUps : RowIsSound(followUp[g]))'
    BY <1>5 DEF Inv, FollowUpInv
  <1>14. RequestsAreSound'
    BY <1>1, <1>5, <1>8, <1>10 DEF Inv, FollowUpInv, RequestsAreSound
  <1>15. WritesAreSound'
    BY <1>1, <1>5, <1>8, <1>10 DEF Inv, FollowUpInv, WritesAreSound
  <1>16. OwnChangeIsSeen'
    <2>1. x.todo[Len(x.todo)] = x.row.lead
      BY <1>1 DEF Inv, FollowUpInv, OwnChangeIsSeen
    <2>2. ASSUME Tail(x.todo) # <<>>
          PROVE  Tail(x.todo)[Len(Tail(x.todo))] = x.row.lead
      BY <1>1, <1>3, <2>1, <2>2
    <2>3. ASSUME Tail(x.todo) = <<>>, x.row.status = "PENDING"
          PROVE  Covers(mirror[x.row.lead], x.row)
      <3>1. Len(x.todo) = 1
        <4> DEFINE rest == Tail(x.todo)
        <4>1. Len(rest) = Len(x.todo) - 1 /\ Len(x.todo) \in Nat
          BY <1>1, <1>3, HeadTailProperties
        <4>2. rest = <<>>
          BY <2>3
        <4> HIDE DEF rest
        <4> QED
          BY <4>1, <4>2
      <3>2. l0 = x.row.lead
        BY <1>1, <1>3, <2>1, <3>1
      <3> QED
        BY <1>1, <1>9, <2>3, <3>2 DEF Inv, FollowUpInv, OwnChangeIsSeen
    <2> DEFINE rest == Tail(x.todo)
    <2>4. y.todo = rest
      BY <1>8
    <2> HIDE DEF rest
    <2>5. /\ rest # <<>> => rest[Len(rest)] = x.row.lead
          /\ rest = <<>> /\ x.row.status = "PENDING" => Covers(mirror[x.row.lead], x.row)
      BY <2>2, <2>3 DEF rest
    <2>6. \A q \in Requests : tx'[q].phase = "written" /\ q # r =>
            tx'[q] = tx[q] /\ tx[q].phase = "written"
      BY <1>10
    <2> QED
      BY <1>8, <1>10, <2>4, <2>5, <2>6 DEF Inv, FollowUpInv, OwnChangeIsSeen
  <1>17. LoneRequestIsExact'
    <2>1. ASSUME NEW q \in Requests \ {r}, Active(q)', tx'[q].alone
          PROVE  FALSE
      BY <1>1, <1>10, <2>1 DEF Inv, FollowUpInv, LoneRequestIsExact
    <2>2. ASSUME x.alone, NEW l \in {followUp[x.id].lead, x.row.lead} \ {None}
          PROVE  \/ \E i \in 1..Len(Tail(x.todo)) : Tail(x.todo)[i] = l
                 \/ IsNext(Visible(r), l, mirror[l])
      <3>1. /\ IsNext(Visible(r), l0, x.next)
            /\ \/ \E i \in 1..Len(x.todo) : x.todo[i] = l
               \/ IsNext(Visible(r), l, x.mirror[l])
        BY <1>1, <2>2 DEF Inv, FollowUpInv, LoneRequestIsExact
      <3>2. CASE l = l0
        BY <1>9, <3>1, <3>2
      <3>3. CASE l # l0 /\ \E i \in 1..Len(x.todo) : x.todo[i] = l
        <4>1. PICK i \in 2..Len(x.todo) : x.todo[i] = l
          BY <1>3, <3>3
        <4>2. i - 1 \in 1..Len(Tail(x.todo)) /\ Tail(x.todo)[i - 1] = l
          BY <1>1, <1>3, <4>1
        <4> QED
          BY <4>2
      <3>4. CASE l # l0 /\ IsNext(Visible(r), l, x.mirror[l])
        <4>1. x.row \in Row /\ followUp[x.id] \in Row
          BY <1>1, VisibleIsSound DEF Inv, TypeOK
        <4>2. l \in Leads
          BY <2>2, <4>1 DEF Row
        <4> QED
          BY <1>9, <3>4, <4>2
      <3> QED
        BY <3>1, <3>2, <3>3, <3>4
    <2>3. ASSUME y.alone
          PROVE  /\ \A q \in Requests \ {r} : ~Active(q)'
                 /\ y.seen = followUp'[y.id].lead
                 /\ y.next = Unset
                 /\ \A l \in {followUp'[y.id].lead, y.row.lead} \ {None} :
                        \/ \E i \in 1..Len(y.todo) : y.todo[i] = l
                        \/ IsNext(Visible(r), l, y.mirror[l])
      <3> DEFINE rest == Tail(x.todo)
      <3>1. /\ \A q \in Requests \ {r} : ~Active(q)
            /\ x.seen = followUp[x.id].lead
        BY <1>1, <1>8, <2>3 DEF Inv, FollowUpInv, LoneRequestIsExact
      <3>2. \A l \in {followUp[x.id].lead, x.row.lead} \ {None} :
                \/ \E i \in 1..Len(rest) : rest[i] = l
                \/ IsNext(Visible(r), l, mirror[l])
        BY <1>8, <2>2, <2>3
      <3>3. y.todo = rest
        BY <1>8
      <3> HIDE DEF rest
      <3> QED
        BY <1>5, <1>8, <1>10, <3>1, <3>2, <3>3
    <2> QED
      BY <1>10, <1>11, <2>1, <2>3 DEF LoneRequestIsExact
  <1> QED
    BY <1>12, <1>13, <1>14, <1>15, <1>16, <1>17 DEF Inv, FollowUpInv

LEMMA CommitInv ==
    ASSUME Inv, NEW r \in Requests, Commit(r)
    PROVE  Inv'
  <1> DEFINE x == tx[r]
             written == [l \in Leads |-> IF x.mirror[l] = Unset THEN nextActionAt[l]
                                         ELSE x.mirror[l]]
  <1>1. /\ x.phase = "written" /\ x.todo = <<>> /\ Active(r)
        /\ followUp' = [followUp EXCEPT ![x.id] = x.row]
        /\ nextActionAt' = written
        /\ tx' = [tx EXCEPT ![r] = NoTx]
    BY DEF Commit, Active
  <1>2. x \in Tx /\ x.id \in FollowUps /\ x.row \in Row /\ RowIsSound(x.row)
    BY <1>1, VisibleIsSound
  <1>3. /\ x.row.status # "ABSENT"
        /\ followUp[x.id].status \in {"COMPLETED", "CANCELED"} =>
              x.row.status \in {"COMPLETED", "CANCELED"}
        /\ \A q \in Requests \ {r} : tx[q].phase = "written" => tx[q].id # x.id
    BY <1>1 DEF Inv, FollowUpInv, WritesAreSound
  <1>4. /\ tx'[r] = NoTx /\ ~Active(r)'
        /\ \A q \in Requests \ {r} : tx'[q] = tx[q] /\ (Active(q)' <=> Active(q))
    BY <1>1, OthersUnchanged, NoTxFacts DEF Inv, Active
  <1>5. /\ followUp'[x.id] = x.row
        /\ \A f \in FollowUps \ {x.id} : followUp'[f] = followUp[f]
    BY <1>1, <1>2 DEF Inv, TypeOK
  <1>6. \A q \in Requests \ {r} : Active(q) => tx[q] \in Tx /\ tx[q].id \in FollowUps
    BY ActiveType DEF Inv, Tx
  <1>7. TypeOK'
    <2>1. followUp' \in [FollowUps -> Row]
      BY <1>1, <1>2 DEF Inv, TypeOK
    <2>2. nextActionAt' \in [Leads -> Times \cup {None}]
      <3>1. \A l \in Leads : x.mirror[l] \in Times \cup {None, Unset}
        BY <1>2 DEF Tx
      <3>2. \A l \in Leads : nextActionAt[l] \in Times \cup {None}
        BY DEF Inv, TypeOK
      <3> QED
        BY <1>1, <3>1, <3>2
    <2>3. tx' \in [Requests -> Tx \cup [phase : {"idle"}, alone : {TRUE}]]
      BY <1>1 DEF Inv, TypeOK, NoTx
    <2> QED
      BY <2>1, <2>2, <2>3 DEF TypeOK
  <1>8. (\A g \in FollowUps : RowIsSound(followUp[g]))'
    BY <1>2, <1>5 DEF Inv, FollowUpInv
  <1>9. RequestsAreSound'
    <2> SUFFICES ASSUME NEW q \in Requests \ {r}, Active(q)
                 PROVE  /\ tx[q].op = "create" =>
                              /\ followUp'[tx[q].id] = NoRow
                              /\ tx[q].lead \in Leads /\ tx[q].at \in Times
                              /\ \A p \in Requests \ {q} : Active(p)' => tx'[p].id # tx[q].id
                        /\ tx[q].op # "create" => followUp'[tx[q].id].status # "ABSENT"
                        /\ tx[q].op = "update" => tx[q].seen \in Leads
                        /\ tx[q].op = "reschedule" => tx[q].at \in Times
                        /\ tx[q].phase = "decided" => tx[q].next = Unset
      BY <1>4 DEF RequestsAreSound
    <2> QED
      BY <1>1, <1>3, <1>4, <1>5, <1>6 DEF Inv, FollowUpInv, RequestsAreSound
  <1>10. WritesAreSound'
    <2>1. \A q \in Requests : tx'[q].phase = "written" =>
              q # r /\ tx'[q] = tx[q] /\ followUp'[tx[q].id] = followUp[tx[q].id]
      BY <1>3, <1>4, <1>5, <1>6, NoTxFacts, PhaseIsActive
    <2> QED
      BY <2>1 DEF Inv, FollowUpInv, WritesAreSound
  <1>11. OwnChangeIsSeen'
    <2>1. \A q \in Requests : tx'[q].phase = "written" => tx'[q] = tx[q]
      BY <1>4, NoTxFacts
    <2> QED
      BY <2>1 DEF Inv, FollowUpInv, OwnChangeIsSeen
  <1>12. LoneRequestIsExact'
    <2>1. ASSUME NEW q \in Requests, Active(q)', tx'[q].alone
          PROVE  FALSE
      BY <1>1, <1>4, <2>1 DEF Inv, FollowUpInv, LoneRequestIsExact
    <2> QED
      BY <2>1 DEF LoneRequestIsExact
  <1> QED
    BY <1>7, <1>8, <1>9, <1>10, <1>11, <1>12 DEF Inv, FollowUpInv

LEMMA RollbackInv ==
    ASSUME Inv, NEW r \in Requests, Rollback(r)
    PROVE  Inv'
  <1>1. /\ Active(r) /\ tx' = [tx EXCEPT ![r] = NoTx]
        /\ UNCHANGED <<followUp, nextActionAt>>
    BY DEF Rollback
  <1>2. /\ tx'[r] = NoTx /\ ~Active(r)'
        /\ \A q \in Requests \ {r} : tx'[q] = tx[q] /\ (Active(q)' <=> Active(q))
    BY <1>1, OthersUnchanged, NoTxFacts DEF Inv, Active
  <1>3. TypeOK'
    BY <1>1 DEF Inv, TypeOK, NoTx
  <1>4. (\A g \in FollowUps : RowIsSound(followUp[g]))'
    BY <1>1 DEF Inv, FollowUpInv
  <1>5. RequestsAreSound'
    BY <1>1, <1>2 DEF Inv, FollowUpInv, RequestsAreSound
  <1>6. \A q \in Requests : tx'[q].phase = "written" => q # r /\ tx'[q] = tx[q]
    BY <1>2, NoTxFacts
  <1>7. WritesAreSound'
    BY <1>1, <1>6 DEF Inv, FollowUpInv, WritesAreSound
  <1>8. OwnChangeIsSeen'
    BY <1>6 DEF Inv, FollowUpInv, OwnChangeIsSeen
  <1>9. LoneRequestIsExact'
    <2>1. ASSUME NEW q \in Requests, Active(q)', tx'[q].alone
          PROVE  FALSE
      BY <1>1, <1>2, <2>1 DEF Inv, FollowUpInv, LoneRequestIsExact
    <2> QED
      BY <2>1 DEF LoneRequestIsExact
  <1> QED
    BY <1>3, <1>4, <1>5, <1>7, <1>8, <1>9 DEF Inv, FollowUpInv

(* An edit of the lead, and a step that changes nothing, leave every request as it is. *)
LEMMA OtherStepInv ==
    ASSUME Inv, UNCHANGED <<followUp, tx>>, nextActionAt' \in [Leads -> Times \cup {None}]
    PROVE  Inv'
  <1>1. \A r \in Requests : Visible(r)' = Visible(r) /\ (Active(r)' <=> Active(r))
    BY DEF Visible, Active
  <1>2. TypeOK'
    BY DEF Inv, TypeOK
  <1>3. RequestsAreSound' /\ WritesAreSound' /\ OwnChangeIsSeen'
    BY <1>1 DEF Inv, FollowUpInv, RequestsAreSound, WritesAreSound, OwnChangeIsSeen
  <1>4. LoneRequestIsExact'
    <2> SUFFICES ASSUME NEW r \in Requests, Active(r), tx[r].alone
                 PROVE  /\ \A q \in Requests \ {r} : ~Active(q)
                        /\ tx[r].seen = followUp[tx[r].id].lead
                        /\ tx[r].phase = "written" =>
                              /\ tx[r].next # Unset =>
                                    IsNext(Visible(r), Head(tx[r].todo), tx[r].next)
                              /\ \A l \in {followUp[tx[r].id].lead, tx[r].row.lead} \ {None} :
                                    \/ \E i \in 1..Len(tx[r].todo) : tx[r].todo[i] = l
                                    \/ IsNext(Visible(r), l, tx[r].mirror[l])
      BY <1>1 DEF LoneRequestIsExact
    <2> QED
      BY DEF Inv, FollowUpInv, LoneRequestIsExact
  <1> QED
    BY <1>2, <1>3, <1>4 DEF Inv, FollowUpInv

LEMMA DecideInv ==
    ASSUME Inv, NEW r \in Requests, Decide(r)
    PROVE  Inv'
  <1> USE DEF Operations
  <1>1. ASSUME NEW f \in FollowUps, NEW given \in Leads, NEW at \in Times, create(r, f, given, at)
        PROVE  Inv'
    <2>1. followUp[f] = NoRow
      BY <1>1 DEF create, Inv, FollowUpInv, RowIsSound
    <2> QED
      BY <1>1, <2>1, BeginInv DEF create
  <1>2. ASSUME NEW f \in FollowUps, NEW given \in Leads \cup {None}, update(r, f, given)
        PROVE  Inv'
    BY <1>2, BeginInv DEF update
  <1>3. ASSUME NEW f \in FollowUps, NEW op \in {"complete", "cancel"}, settle(r, op, f)
        PROVE  Inv'
    BY <1>3, BeginInv DEF settle
  <1>4. ASSUME NEW f \in FollowUps, NEW at \in Times, reschedule(r, f, at)
        PROVE  Inv'
    BY <1>4, BeginInv DEF reschedule
  <1> QED
    BY <1>1, <1>2, <1>3, <1>4 DEF Decide

LEMMA StepInv == Inv /\ [Next]_vars => Inv'
  <1> SUFFICES ASSUME Inv, [Next]_vars PROVE Inv'
    OBVIOUS
  <1>1. ASSUME NEW r \in Requests,
               Decide(r) \/ Write(r) \/ FindNext(r) \/ StoreNext(r) \/ Commit(r) \/ Rollback(r)
        PROVE  Inv'
    BY <1>1, DecideInv, WriteInv, FindNextInv, StoreNextInv, CommitInv, RollbackInv
  <1>2. ASSUME NEW l \in Leads, NEW at \in Edits, updateLead(l, at)
        PROVE  Inv'
    <2>1. at \in Times \cup {None}
      BY MirrorAssumption
    <2> QED
      BY <1>2, <2>1, OtherStepInv DEF updateLead, Inv, TypeOK
  <1>3. CASE UNCHANGED vars
    BY <1>3, OtherStepInv DEF vars, Inv, TypeOK
  <1> QED
    BY <1>1, <1>2, <1>3 DEF Next

LEMMA InvAlways == Spec => []Inv
  BY InitInv, StepInv, PTL DEF Spec

\* FollowUpInv, with the types, is an invariant of every execution: what a request has
\* read, written and computed fits the committed follow-ups (followups.service.ts:98-302).
THEOREM MirrorInvariant == Spec => [](TypeOK /\ FollowUpInv)
  <1>1. Inv => TypeOK /\ FollowUpInv
    BY DEF Inv
  <1> QED
    BY <1>1, InvAlways, PTL

\* A follow-up carries the timestamp of its status and no other, whatever completions
\* and cancellations ran at the same time (complete and cancel, followups.service.ts:171-240).
THEOREM StampsAgreeAlways == Spec => []StampsAgree
  <1>1. Inv => StampsAgree
    BY DEF Inv, FollowUpInv, RowIsSound, StampsAgree
  <1> QED
    BY <1>1, InvAlways, PTL

LEMMA NeverPendingAgainStep ==
    ASSUME Inv, [Next]_vars, NEW f \in FollowUps,
           followUp[f].status \in {"COMPLETED", "CANCELED"}
    PROVE  followUp'[f].status \in {"COMPLETED", "CANCELED"}
  <1>1. CASE followUp' = followUp
    BY <1>1
  <1>2. ASSUME NEW r \in Requests, Commit(r)
        PROVE  followUp'[f].status \in {"COMPLETED", "CANCELED"}
    BY <1>2 DEF Commit, Inv, TypeOK, FollowUpInv, WritesAreSound
  <1> QED
    BY <1>1, <1>2 DEF Next, vars, Decide, create, update, settle, reschedule, Begin, Write,
                      FindNext, StoreNext, Rollback, updateLead

\* No move and no rescheduling decided before brings a completed or canceled follow-up
\* back (update writes no status, followups.service.ts:139-149 and 251-255).
THEOREM NeverPendingAgainAlways == Spec => NeverPendingAgain
  <1>1. Inv /\ [Next]_vars =>
          [\A f \in FollowUps :
              followUp[f].status \in {"COMPLETED", "CANCELED"} =>
                  followUp'[f].status \in {"COMPLETED", "CANCELED"}]_vars
    BY NeverPendingAgainStep
  <1> QED
    BY <1>1, InvAlways, PTL DEF Spec, NeverPendingAgain

LEMMA OwnChangeStep ==
    ASSUME Inv, NEW r \in Requests, Commit(r), tx[r].row.status = "PENDING"
    PROVE  /\ nextActionAt'[tx[r].row.lead] # None
           /\ nextActionAt'[tx[r].row.lead] <= tx[r].row.at
  <1>1. Covers(tx[r].mirror[tx[r].row.lead], tx[r].row)
    BY DEF Commit, Inv, FollowUpInv, OwnChangeIsSeen
  <1>2. tx[r].row.lead \in Leads
    BY DEF Commit, Inv, FollowUpInv, WritesAreSound, RowIsSound
  <1> QED
    BY <1>1, <1>2 DEF Commit, Covers

\* A commit that leaves a follow-up pending leaves its lead a next action that is not
\* later than it (the recomputation sees the transaction's own write,
\* followups.service.ts:292-301).
THEOREM OwnChangeIsMirroredAlways == Spec => OwnChangeIsMirrored
  <1>1. Inv /\ [Next]_vars =>
          [\A r \in Requests :
              Commit(r) /\ tx[r].row.status = "PENDING" =>
                  /\ nextActionAt'[tx[r].row.lead] # None
                  /\ nextActionAt'[tx[r].row.lead] <= tx[r].row.at]_vars
    BY OwnChangeStep
  <1> QED
    BY <1>1, InvAlways, PTL DEF Spec, OwnChangeIsMirrored

LEMMA LoneRequestStep ==
    ASSUME Inv, NEW r \in Requests, Commit(r), tx[r].alone,
           NEW l \in {followUp[tx[r].id].lead, tx[r].row.lead} \ {None}
    PROVE  IsNext(followUp', l, nextActionAt'[l])
  <1>1. tx[r].phase = "written" /\ tx[r].todo = <<>> /\ followUp' = Visible(r)
    BY DEF Commit, Visible
  <1>2. IsNext(Visible(r), l, tx[r].mirror[l])
    <2>1. Active(r)
      BY <1>1, PhaseIsActive
    <2>2. ~ \E i \in 1..Len(tx[r].todo) : tx[r].todo[i] = l
      BY <1>1
    <2> QED
      BY <1>1, <2>1, <2>2 DEF Inv, FollowUpInv, LoneRequestIsExact
  <1>3. tx[r].mirror[l] # Unset
    BY <1>1, <1>2, VisibleIsSound, ExactIsSet
  <1>4. l \in Leads
    <2>1. tx[r].row \in Row /\ followUp[tx[r].id] \in Row
      BY <1>1, VisibleIsSound DEF Inv, TypeOK
    <2> QED
      BY <2>1 DEF Row
  <1> QED
    BY <1>1, <1>2, <1>3, <1>4 DEF Commit

\* A request that ran beside no other repairs the mirror of the leads it concerns,
\* whatever was stored there before (the full recomputation, followups.service.ts:292-301).
THEOREM LoneRequestRepairsMirrorAlways == Spec => LoneRequestRepairsMirror
  <1>1. Inv /\ [Next]_vars =>
          [\A r \in Requests :
              Commit(r) /\ tx[r].alone =>
                  \A l \in {followUp[tx[r].id].lead, tx[r].row.lead} \ {None} :
                      IsNext(followUp', l, nextActionAt'[l])]_vars
    BY LoneRequestStep
  <1> QED
    BY <1>1, InvAlways, PTL DEF Spec, LoneRequestRepairsMirror

-----------------------------------------------------------------------------
(* The calendar *)

\* The cardinality of the modules of the pages is that of the library.
LEMMA SameInConcurrent == \A S : /\ Concurrent!Cardinality(S) = Cardinality(S)
                                 /\ Concurrent!IsFiniteSet(S) = IsFiniteSet(S)
  BY DEF Cardinality, Concurrent!Cardinality, IsFiniteSet, Concurrent!IsFiniteSet

LEMMA SameInSerial == \A S : /\ Serial!Cardinality(S) = Cardinality(S)
                             /\ Serial!IsFiniteSet(S) = IsFiniteSet(S)
  BY DEF Cardinality, Serial!Cardinality, IsFiniteSet, Serial!IsFiniteSet

LEMMA SameInQuick == \A S : /\ Quick!Cardinality(S) = Cardinality(S)
                            /\ Quick!IsFiniteSet(S) = IsFiniteSet(S)
  BY DEF Cardinality, Quick!Cardinality, IsFiniteSet, Quick!IsFiniteSet

LEMMA SameInBoard == \A S : /\ Board!Cardinality(S) = Cardinality(S)
                            /\ Board!IsFiniteSet(S) = IsFiniteSet(S)
  BY DEF Cardinality, Board!Cardinality, IsFiniteSet, Board!IsFiniteSet

\* An event that is not there has no trail; a create that is pending names such an event,
\* and one of its own; another request that has read its event will find it there.
RowsExistInv ==
    /\ \A e \in {meeting} : event[e] = Missing => audit[e] = <<>>
    /\ \A r \in Asks \cup {another} :
         Concurrent!Pending(r) /\ req[r].call.op = "create" =>
           /\ event[req[r].call.id] = Missing
           /\ \A q \in Asks \cup {another} :
                Concurrent!Pending(q) /\ req[q].call.op = "create" /\ req[q].call.id = req[r].call.id
                    => q = r
    /\ \A r \in Asks \cup {another} :
         req[r].phase = "read" =>
           /\ Concurrent!Admits(req[r].call, req[r].seen) /\ ~Concurrent!IsRepeat(req[r].call, req[r].seen)
           /\ req[r].call.op # "create" => event[req[r].call.id] # Missing

\* The calendar keeps its types, and its requests name events that are there.
RowsInv == Concurrent!TypeOK /\ RowsExistInv

\* With them, the trail of an event explains its status.
CalendarInv == RowsInv /\ Concurrent!TrailExplainsStatus

(* A request that is under way carries a call. *)
LEMMA RequestIsTyped ==
    ASSUME Concurrent!TypeOK, NEW r \in Asks \cup {another}
    PROVE  /\ Concurrent!Pending(r) => req[r].call \in Concurrent!Call
           /\ req[r].phase = "read" => req[r].seen \in Concurrent!Row \cup {Missing}
  BY DEF Concurrent!TypeOK, Concurrent!InRequest, Concurrent!Only, Concurrent!Answers,
     Concurrent!Pending

(* The fields a call may leave out. *)
LEMMA CallIsTyped ==
    ASSUME NEW c \in Concurrent!Call
    PROVE  /\ c.id \in {meeting} /\ c.op \in {"create", "update", "complete", "cancel"}
           /\ c.op = "create" => c.starts \in Instants /\ c.ends \in Instants \cup {Absent, Null}
           /\ c.op = "update" => c.starts \in Instants \cup {Absent, Null}
                /\ c.ends \in Instants \cup {Absent, Null}
  BY DEF Concurrent!Call

(* There is no event yet. *)
LEMMA RowsStart ==
    ASSUME Concurrent!Init
    PROVE  RowsInv
  <1>1. \A e \in {meeting} : event[e] = Missing /\ audit[e] = <<>>
    BY DEF Concurrent!Init
  <1>2. \A r \in Asks \cup {another} : req[r].phase = "unsent"
    BY DEF Concurrent!Init, Concurrent!Only
  <1>3. Concurrent!TypeOK
    <2>1. Concurrent!Only("unsent") \in {Concurrent!Only(p) : p \in Concurrent!Answers \cup {"unsent"}}
      OBVIOUS
    <2> QED
      BY <2>1 DEF Concurrent!Init, Concurrent!TypeOK
  <1> QED
    BY <1>1, <1>2, <1>3 DEF RowsInv, RowsExistInv, Concurrent!Pending

\* What a write leaves.
LEMMA WriteLeaves ==
    ASSUME RowsInv, NEW r \in Asks \cup {another}, Concurrent!WriteRow(r)
    PROVE  LET c == req[r].call
               seen == req[r].seen
               row == Concurrent!Written(c, seen, event[c.id])
               a == Concurrent!Entry(c, seen)
           IN  /\ c \in Concurrent!Call /\ seen \in Concurrent!Row \cup {Missing}
               /\ row \in Concurrent!Row /\ a \in Concurrent!AuditEntry
               /\ event' = [event EXCEPT ![c.id] = row]
               /\ audit' = [audit EXCEPT ![c.id] = Append(@, a)]
               /\ a.action = c.op
               /\ c.op = "create" => row.status = "SCHEDULED"
               /\ c.op = "update" => event[c.id] \in Concurrent!Row /\ row.status = event[c.id].status
               /\ c.op \in {"complete", "cancel"} => row.status = Concurrent!Target(c.op)
  <1> DEFINE c == req[r].call
             seen == req[r].seen
             current == event[c.id]
  <1>1. c \in Concurrent!Call /\ seen \in Concurrent!Row \cup {Missing} /\ req[r].phase = "read"
            /\ Concurrent!Pending(r)
    BY RequestIsTyped DEF Concurrent!WriteRow, Concurrent!Pending, RowsInv
  <1>2. Concurrent!Admits(c, seen) /\ ~Concurrent!IsRepeat(c, seen)
            /\ (c.op # "create" => current # Missing)
    BY <1>1 DEF RowsInv, RowsExistInv
  <1>3. current \in Concurrent!Row \cup {Missing}
    BY <1>1, CallIsTyped DEF RowsInv, Concurrent!TypeOK
  <1>4. event' = [event EXCEPT ![c.id] = Concurrent!Written(c, seen, current)]
        /\ audit' = [audit EXCEPT ![c.id] = Append(@, Concurrent!Entry(c, seen))]
    BY DEF Concurrent!WriteRow
  <1> HIDE DEF c, seen, current
  <1>5. c.op \in {"complete", "cancel"} => seen \in Concurrent!Row
    BY <1>1, <1>2 DEF Concurrent!Admits
  <1>6. c.op = "update" => seen \in Concurrent!Row
    BY <1>1, <1>2 DEF Concurrent!Admits
  <1>7. Concurrent!Entry(c, seen) \in Concurrent!AuditEntry /\ Concurrent!Entry(c, seen).action = c.op
    BY <1>1, <1>5, CallIsTyped DEF Concurrent!Entry, Concurrent!AuditEntry, Concurrent!Row
  <1>8. CASE c.op = "create"
    <2>1. Concurrent!Written(c, seen, current) = [status |-> "SCHEDULED", starts |-> c.starts,
                                   ends |-> IF c.ends = Absent THEN Null ELSE c.ends]
      BY <1>8 DEF Concurrent!Written
    <2> QED
      BY <1>1, <1>4, <1>7, <1>8, <2>1, CallIsTyped DEF Concurrent!Row, Concurrent!Statuses, c,
         seen, current
  <1>9. CASE c.op = "update"
    <2>1. Concurrent!Written(c, seen, current) =
             [current EXCEPT !.starts = IF c.starts = Absent THEN @ ELSE Concurrent!NextStarts(c, seen),
                             !.ends = IF c.ends = Absent THEN @ ELSE c.ends]
      BY <1>9 DEF Concurrent!Written
    <2>2. Concurrent!NextStarts(c, seen) \in Instants
      BY <1>1, <1>6, <1>9, CallIsTyped DEF Concurrent!NextStarts, Concurrent!Row
    <2>3. Concurrent!Written(c, seen, current) \in Concurrent!Row /\ current \in Concurrent!Row
              /\ Concurrent!Written(c, seen, current).status = current.status
      BY <1>1, <1>2, <1>3, <1>9, <2>1, <2>2, CallIsTyped DEF Concurrent!Row
    <2> QED
      BY <1>1, <1>4, <1>7, <1>9, <2>3 DEF c, seen, current
  <1>10. CASE c.op \in {"complete", "cancel"}
    <2>1. Concurrent!Written(c, seen, current) = [current EXCEPT !.status = Concurrent!Target(c.op)]
              /\ current \in Concurrent!Row
      BY <1>2, <1>3, <1>10 DEF Concurrent!Written
    <2>2. Concurrent!Written(c, seen, current) \in Concurrent!Row
              /\ Concurrent!Written(c, seen, current).status = Concurrent!Target(c.op)
      BY <2>1 DEF Concurrent!Row, Concurrent!Target, Concurrent!Statuses
    <2> QED
      BY <1>1, <1>4, <1>7, <1>10, <2>2 DEF c, seen, current
  <1> QED
    BY <1>1, <1>8, <1>9, <1>10, CallIsTyped

(* Every step keeps the types. *)
LEMMA RowTypes ==
    ASSUME RowsInv, [Concurrent!Next]_<<event, audit, req>>
    PROVE  Concurrent!TypeOK'
  <1>0. Concurrent!TypeOK
    BY DEF RowsInv
  <1>1. ASSUME NEW r \in Asks \cup {another}, NEW c \in Concurrent!Call, Concurrent!Receive(r, c)
        PROVE  Concurrent!TypeOK'
    BY <1>0, <1>1 DEF Concurrent!Receive, Concurrent!TypeOK, Concurrent!InRequest
  <1>2. ASSUME NEW r \in Asks \cup {another}, Concurrent!ReadRow(r)
        PROVE  Concurrent!TypeOK'
    <2>1. req[r].call \in Concurrent!Call /\ req[r].call.id \in {meeting}
      BY <1>0, <1>2, RequestIsTyped, CallIsTyped DEF Concurrent!ReadRow, Concurrent!Pending
    <2>2. event[req[r].call.id] \in Concurrent!Row \cup {Missing}
      BY <1>0, <2>1 DEF Concurrent!TypeOK
    <2>3. Concurrent!Only("ok") \in {Concurrent!Only(p) : p \in Concurrent!Answers \cup {"unsent"}}
          /\ Concurrent!Only("refused") \in {Concurrent!Only(p) : p \in Concurrent!Answers \cup {"unsent"}}
      BY DEF Concurrent!Answers
    <2>4. [phase |-> "read", call |-> req[r].call, seen |-> event[req[r].call.id]] \in Concurrent!InRequest
      BY <2>1, <2>2 DEF Concurrent!InRequest
    <2> QED
      BY <1>0, <1>2, <2>3, <2>4 DEF Concurrent!ReadRow, Concurrent!TypeOK
  <1>3. ASSUME NEW r \in Asks \cup {another}, Concurrent!WriteRow(r)
        PROVE  Concurrent!TypeOK'
    <2> DEFINE c == req[r].call
               row == Concurrent!Written(c, req[r].seen, event[c.id])
               a == Concurrent!Entry(c, req[r].seen)
    <2>1. /\ c \in Concurrent!Call /\ row \in Concurrent!Row /\ a \in Concurrent!AuditEntry
          /\ event' = [event EXCEPT ![c.id] = row]
          /\ audit' = [audit EXCEPT ![c.id] = Append(@, a)]
      BY <1>3, WriteLeaves
    <2>2. req' = [req EXCEPT ![r] = Concurrent!Only("ok")]
              /\ Concurrent!Only("ok") \in {Concurrent!Only(p) : p \in Concurrent!Answers \cup {"unsent"}}
      BY <1>3 DEF Concurrent!WriteRow, Concurrent!Answers
    <2> HIDE DEF c, row, a
    <2>3. c.id \in {meeting}
      BY <2>1, CallIsTyped
    <2>4. Append(audit[c.id], a) \in Seq(Concurrent!AuditEntry)
      BY <1>0, <2>1, <2>3 DEF Concurrent!TypeOK
    <2> QED
      BY <1>0, <2>1, <2>2, <2>3, <2>4 DEF Concurrent!TypeOK
  <1>4. ASSUME NEW r \in Asks \cup {another}, Concurrent!Abort(r)
        PROVE  Concurrent!TypeOK'
    <2>1. Concurrent!Only("failed") \in {Concurrent!Only(p) : p \in Concurrent!Answers \cup {"unsent"}}
      BY DEF Concurrent!Answers
    <2> QED
      BY <1>0, <1>4, <2>1 DEF Concurrent!Abort, Concurrent!TypeOK
  <1>5. CASE UNCHANGED Concurrent!vars
    BY <1>0, <1>5 DEF Concurrent!vars, Concurrent!TypeOK
  <1> QED
    BY <1>1, <1>2, <1>3, <1>4, <1>5 DEF Concurrent!Next, Concurrent!Serve, Concurrent!vars

(* Every step leaves the events its requests name. *)
LEMMA RowsStay ==
    ASSUME RowsInv, [Concurrent!Next]_<<event, audit, req>>
    PROVE  RowsExistInv'
  <1>0. Concurrent!TypeOK /\ RowsExistInv
    BY DEF RowsInv
  <1>1. ASSUME NEW r \in Asks \cup {another}, NEW c \in Concurrent!Call, Concurrent!Receive(r, c)
        PROVE  RowsExistInv'
    <2>1. /\ req'[r] = [phase |-> "sent", call |-> c] /\ UNCHANGED <<event, audit>>
          /\ \A q \in Asks \cup {another} : q # r => req'[q] = req[q]
      BY <1>0, <1>1 DEF Concurrent!Receive, Concurrent!TypeOK
    <2>2. c.op = "create" =>
             /\ event[c.id] = Missing
             /\ \A q \in Asks \cup {another} : Concurrent!Pending(q) => req[q].call.id # c.id
                  \/ req[q].call.op # "create"
      BY <1>1 DEF Concurrent!Receive
    <2> QED
      BY <1>0, <2>1, <2>2 DEF RowsExistInv, Concurrent!Pending
  <1>2. ASSUME NEW r \in Asks \cup {another}, Concurrent!ReadRow(r)
        PROVE  RowsExistInv'
    <2> DEFINE c == req[r].call
               row == event[c.id]
    <2>1. /\ UNCHANGED <<event, audit>> /\ Concurrent!Pending(r)
          /\ \A q \in Asks \cup {another} : q # r => req'[q] = req[q]
          /\ \/ req'[r].phase \notin {"sent", "read"}
             \/ /\ req'[r] = [phase |-> "read", call |-> c, seen |-> row]
                /\ Concurrent!Admits(c, row) /\ ~Concurrent!IsRepeat(c, row)
      BY <1>0, <1>2 DEF Concurrent!ReadRow, Concurrent!TypeOK, Concurrent!Only, Concurrent!Pending
    <2>2. Concurrent!Admits(c, row) /\ c.op # "create" => row # Missing
      <3>1. c.op \in {"create", "update", "complete", "cancel"}
        BY <1>0, <2>1, RequestIsTyped, CallIsTyped
      <3> QED
        BY <3>1 DEF Concurrent!Admits
    <2>3. \A q \in Asks \cup {another} : Concurrent!Pending(q)' => Concurrent!Pending(q)
              /\ req'[q].call = req[q].call
      BY <2>1 DEF Concurrent!Pending
    <2>4. \A q \in Asks \cup {another} : q # r => req'[q] = req[q]
      BY <2>1
    <2>5. req'[r].phase = "read" => req'[r].call = c /\ req'[r].seen = row /\ Concurrent!Admits(c, row)
              /\ ~Concurrent!IsRepeat(c, row)
      BY <2>1
    <2>6. \A e \in {meeting} : event'[e] = Missing => audit'[e] = <<>>
      BY <1>0, <2>1 DEF RowsExistInv
    <2>7. \A p \in Asks \cup {another} :
             Concurrent!Pending(p)' /\ req'[p].call.op = "create" =>
               /\ event'[req'[p].call.id] = Missing
               /\ \A q \in Asks \cup {another} :
                    Concurrent!Pending(q)' /\ req'[q].call.op = "create"
                        /\ req'[q].call.id = req'[p].call.id => q = p
      BY <1>0, <2>1, <2>3 DEF RowsExistInv
    <2>8. \A p \in Asks \cup {another} :
             req'[p].phase = "read" =>
               /\ Concurrent!Admits(req'[p].call, req'[p].seen)
                    /\ ~Concurrent!IsRepeat(req'[p].call, req'[p].seen)
               /\ req'[p].call.op # "create" => event'[req'[p].call.id] # Missing
      <3> HIDE DEF c, row
      <3> QED
        BY <1>0, <2>1, <2>2, <2>4, <2>5 DEF RowsExistInv, c, row
    <2> QED
      BY <2>6, <2>7, <2>8 DEF RowsExistInv, Concurrent!Pending
  <1>3. ASSUME NEW r \in Asks \cup {another}, Concurrent!WriteRow(r)
        PROVE  RowsExistInv'
    <2> DEFINE c == req[r].call
               row == Concurrent!Written(c, req[r].seen, event[c.id])
    <2>1. /\ c \in Concurrent!Call /\ row \in Concurrent!Row
          /\ event' = [event EXCEPT ![c.id] = row]
          /\ audit' = [audit EXCEPT ![c.id] = Append(@, Concurrent!Entry(c, req[r].seen))]
      BY <1>3, WriteLeaves
    <2>2. Concurrent!Pending(r) /\ req'[r].phase = "ok" /\ \A q \in Asks \cup {another} : q # r
              => req'[q] = req[q]
      BY <1>0, <1>3 DEF Concurrent!WriteRow, Concurrent!TypeOK, Concurrent!Only, Concurrent!Pending
    <2>3. c.op # "create" => event[c.id] # Missing
      BY <1>0, <1>3 DEF RowsExistInv, Concurrent!WriteRow
    <2> HIDE DEF row
    <2>4. c.id \in {meeting} /\ row # Missing
      BY <2>1, CallIsTyped, PagesAssumption DEF Concurrent!CalendarAssumption
    <2>5. \A e \in {meeting} :
             /\ e # c.id => event'[e] = event[e] /\ audit'[e] = audit[e]
             /\ event'[e] = Missing => e # c.id
      BY <1>0, <2>1, <2>4 DEF Concurrent!TypeOK
    <2>6. \A q \in Asks \cup {another} : Concurrent!Pending(q)' => q # r /\ Concurrent!Pending(q)
              /\ req'[q] = req[q]
      BY <2>2 DEF Concurrent!Pending
    <2>7. \A q \in Asks \cup {another} : Concurrent!Pending(q) /\ q # r /\ req[q].call.op = "create"
              => req[q].call.id # c.id
      BY <1>0, <2>2, <2>3 DEF RowsExistInv
    <2>8. \A q \in Asks \cup {another} : Concurrent!Pending(q) => req[q].call.id \in {meeting}
      BY <1>0, RequestIsTyped, CallIsTyped
    <2> HIDE DEF c
    <2>9. \A e \in {meeting} : event'[e] = Missing => audit'[e] = <<>>
      BY <1>0, <2>5 DEF RowsExistInv
    <2>10. \A p \in Asks \cup {another} :
             Concurrent!Pending(p)' /\ req'[p].call.op = "create" =>
               /\ event'[req'[p].call.id] = Missing
               /\ \A q \in Asks \cup {another} :
                    Concurrent!Pending(q)' /\ req'[q].call.op = "create"
                        /\ req'[q].call.id = req'[p].call.id => q = p
      BY <1>0, <2>5, <2>6, <2>7, <2>8 DEF RowsExistInv
    <2>11. \A p \in Asks \cup {another} :
             req'[p].phase = "read" =>
               /\ Concurrent!Admits(req'[p].call, req'[p].seen)
                    /\ ~Concurrent!IsRepeat(req'[p].call, req'[p].seen)
               /\ req'[p].call.op # "create" => event'[req'[p].call.id] # Missing
      BY <1>0, <2>2, <2>5, <2>8 DEF RowsExistInv, Concurrent!Pending
    <2> QED
      BY <2>9, <2>10, <2>11 DEF RowsExistInv, Concurrent!Pending
  <1>4. ASSUME NEW r \in Asks \cup {another}, Concurrent!Abort(r)
        PROVE  RowsExistInv'
    <2>1. /\ UNCHANGED <<event, audit>> /\ req'[r].phase = "failed"
          /\ \A q \in Asks \cup {another} : q # r => req'[q] = req[q]
      BY <1>0, <1>4 DEF Concurrent!Abort, Concurrent!TypeOK, Concurrent!Only
    <2> QED
      BY <1>0, <2>1 DEF RowsExistInv, Concurrent!Pending
  <1>5. CASE UNCHANGED Concurrent!vars
    BY <1>0, <1>5 DEF Concurrent!vars, RowsExistInv, Concurrent!Pending
  <1> QED
    BY <1>1, <1>2, <1>3, <1>4, <1>5 DEF Concurrent!Next, Concurrent!Serve, Concurrent!vars

\* An entry that is appended is the last one.
LEMMA OneMoreEntry ==
    ASSUME Concurrent!TypeOK, NEW e \in {meeting}, NEW a \in Concurrent!AuditEntry,
               audit'[e] = Append(audit[e], a)
    PROVE  LET n == Len(audit[e]) + 1 IN
           /\ n \in Nat
           /\ Concurrent!StatusEntries(e) \subseteq 1..(n - 1)
           /\ \A i \in Concurrent!StatusEntries(e) : audit'[e][i] = audit[e][i]
           /\ audit'[e][n] = a
           /\ Concurrent!StatusEntries(e)' = Concurrent!StatusEntries(e) \cup
                (IF a.action \in {"complete", "cancel"} THEN {n} ELSE {})
  <1>1. audit[e] \in Seq(Concurrent!AuditEntry)
    BY DEF Concurrent!TypeOK
  <1> DEFINE s == audit[e]
             t == audit'[e]
             n == Len(s) + 1
  <1>2. /\ Len(s) \in Nat /\ DOMAIN s = 1..Len(s) /\ DOMAIN t = 1..n
        /\ t[n] = a /\ \A i \in 1..Len(s) : t[i] = s[i]
    BY <1>1
  <1>3. Concurrent!StatusEntries(e) = {i \in DOMAIN s : s[i].action \in {"complete", "cancel"}}
        /\ Concurrent!StatusEntries(e)' = {i \in DOMAIN t : t[i].action \in {"complete", "cancel"}}
    BY DEF Concurrent!StatusEntries
  <1> HIDE DEF s, t
  <1> QED
    BY <1>2, <1>3 DEF s, t

(* No event, no trail. *)
LEMMA CalendarStarts ==
    ASSUME Concurrent!Init
    PROVE  CalendarInv
  <1>1. \A e \in {meeting} : event[e] = Missing
    BY DEF Concurrent!Init
  <1> QED
    BY <1>1, RowsStart DEF CalendarInv, Concurrent!TrailExplainsStatus

(* A write appends to the trail the entry that explains the status it sets. *)
LEMMA CalendarTrail ==
    ASSUME CalendarInv, [Concurrent!Next]_<<event, audit, req>>
    PROVE  Concurrent!TrailExplainsStatus'
  <1>0. Concurrent!TypeOK /\ RowsExistInv /\ Concurrent!TrailExplainsStatus
    BY DEF CalendarInv, RowsInv
  <1>1. CASE UNCHANGED <<event, audit>>
    BY <1>0, <1>1 DEF Concurrent!TrailExplainsStatus, Concurrent!StatusEntries
  <1>2. ASSUME NEW r \in Asks \cup {another}, Concurrent!WriteRow(r)
        PROVE  Concurrent!TrailExplainsStatus'
    <2> DEFINE c == req[r].call
               seen == req[r].seen
               row == Concurrent!Written(c, seen, event[c.id])
               a == Concurrent!Entry(c, seen)
               n == Len(audit[c.id]) + 1
    <2>1. /\ c \in Concurrent!Call /\ row \in Concurrent!Row /\ a \in Concurrent!AuditEntry
          /\ event' = [event EXCEPT ![c.id] = row]
          /\ audit' = [audit EXCEPT ![c.id] = Append(@, a)]
          /\ a.action = c.op
          /\ c.op = "create" => row.status = "SCHEDULED"
          /\ c.op = "update" => event[c.id] \in Concurrent!Row /\ row.status = event[c.id].status
          /\ c.op \in {"complete", "cancel"} => row.status = Concurrent!Target(c.op)
      BY <1>2, WriteLeaves DEF CalendarInv
    <2>2. c.id \in {meeting} /\ c.op \in {"create", "update", "complete", "cancel"}
      BY <2>1, CallIsTyped
    <2>3. c.op = "create" => audit[c.id] = <<>>
      BY <1>0, <1>2, <2>2 DEF RowsExistInv, Concurrent!WriteRow, Concurrent!Pending
    <2> HIDE DEF row, a, c
    <2>4. /\ event'[c.id] = row /\ audit'[c.id] = Append(audit[c.id], a)
          /\ \A e \in {meeting} : e # c.id => event'[e] = event[e] /\ audit'[e] = audit[e]
      BY <1>0, <2>1, <2>2 DEF Concurrent!TypeOK
    <2>5. PICK k \in {meeting} : k = c.id
      BY <2>2
    <2>6. /\ n \in Nat /\ Concurrent!StatusEntries(k) \subseteq 1..(n - 1)
          /\ \A i \in Concurrent!StatusEntries(k) : audit'[k][i] = audit[k][i]
          /\ audit'[k][n] = a
          /\ Concurrent!StatusEntries(k)' = Concurrent!StatusEntries(k) \cup
               (IF a.action \in {"complete", "cancel"} THEN {n} ELSE {})
      BY <1>0, <2>1, <2>4, <2>5, OneMoreEntry
    <2> HIDE DEF n
    <2> SUFFICES ASSUME NEW e \in {meeting}, event'[e] # Missing
                 PROVE  /\ Concurrent!StatusEntries(e)' = {} => event'[e].status = "SCHEDULED"
                        /\ \A i \in Concurrent!StatusEntries(e)' :
                             (\A j \in Concurrent!StatusEntries(e)' : j <= i)
                             => event'[e].status = Concurrent!Target(audit'[e][i].action)
      BY DEF Concurrent!TrailExplainsStatus
    <2>7. CASE e # k
      BY <1>0, <2>4, <2>5, <2>7 DEF Concurrent!TrailExplainsStatus, Concurrent!StatusEntries
    <2>8. CASE e = k /\ c.op \in {"create", "update"}
      <3>1. Concurrent!StatusEntries(k)' = Concurrent!StatusEntries(k)
                /\ \A i \in Concurrent!StatusEntries(k) : audit'[k][i] = audit[k][i]
        BY <2>1, <2>6, <2>8
      <3>2. CASE c.op = "create"
        <4>1. Concurrent!StatusEntries(k) = {}
          BY <2>3, <2>5, <3>2 DEF Concurrent!StatusEntries
        <4> QED
          BY <2>1, <2>4, <2>5, <2>8, <3>1, <3>2, <4>1
      <3>3. CASE c.op = "update"
        <4>1. event[k] # Missing /\ event'[k].status = event[k].status
          BY <2>1, <2>4, <2>5, <3>3, PagesAssumption DEF Concurrent!CalendarAssumption
        <4> QED
          BY <1>0, <2>8, <3>1, <4>1 DEF Concurrent!TrailExplainsStatus
      <3> QED
        BY <2>8, <3>2, <3>3
    <2>9. CASE e = k /\ c.op \in {"complete", "cancel"}
      <3>1. Concurrent!StatusEntries(k)' = Concurrent!StatusEntries(k) \cup {n}
                /\ n \in Concurrent!StatusEntries(k)'
        BY <2>1, <2>6, <2>9
      <3>2. \A i \in Concurrent!StatusEntries(k)' : (\A j \in Concurrent!StatusEntries(k)' : j <= i)
                => i = n
        BY <2>6, <3>1
      <3>3. event'[k].status = Concurrent!Target(audit'[k][n].action)
        BY <2>1, <2>4, <2>5, <2>6, <2>9
      <3> QED
        BY <2>9, <3>1, <3>2, <3>3
    <2> QED
      BY <2>2, <2>7, <2>8, <2>9
  <1>3. ASSUME NEW r \in Asks \cup {another}, Concurrent!ReadRow(r) \/ Concurrent!Abort(r)
                   \/ \E c \in Concurrent!Call : Concurrent!Receive(r, c)
        PROVE  UNCHANGED <<event, audit>>
    BY <1>3 DEF Concurrent!ReadRow, Concurrent!Abort, Concurrent!Receive
  <1> QED
    BY <1>1, <1>2, <1>3 DEF Concurrent!Next, Concurrent!Serve, Concurrent!vars

(* Every step of the calendar keeps its invariant. *)
LEMMA CalendarKeeps ==
    ASSUME CalendarInv, [Concurrent!Next]_<<event, audit, req>>
    PROVE  CalendarInv'
  BY RowTypes, RowsStay, CalendarTrail DEF CalendarInv, RowsInv

-----------------------------------------------------------------------------
\* One request is served at a time: what it read is what there is.
OneOpenInv ==
    /\ \A q, r \in Concurrent!OpenNow : q = r
    /\ \A r \in Concurrent!OpenNow : req[r].seen = event[req[r].call.id]

\* One transaction at a time reads what it writes over.
SerialInv == CalendarInv /\ OneOpenInv /\ Concurrent!IntervalHolds /\ Concurrent!StatusSetOnce

(* No transaction is open. *)
LEMMA SerialStarts ==
    ASSUME Concurrent!Init
    PROVE  SerialInv
  <1>1. Concurrent!OpenNow = {}
    BY DEF Concurrent!Init, Concurrent!Only, Concurrent!OpenNow
  <1>2. Concurrent!IntervalHolds /\ Concurrent!StatusSetOnce
    BY DEF Concurrent!Init, Concurrent!IntervalHolds, Concurrent!StatusSetOnce, Concurrent!StatusEntries
  <1> QED
    BY <1>1, <1>2, CalendarStarts DEF SerialInv, OneOpenInv

(* Fewer than one is none. *)
LEMMA NobodyIsOpen ==
    ASSUME OneOpenInv, Cardinality(Concurrent!OpenNow) < 1
    PROVE  Concurrent!OpenNow = {}
  <1>1. SUFFICES ASSUME NEW r \in Concurrent!OpenNow
                 PROVE  FALSE
    OBVIOUS
  <1>2. Concurrent!OpenNow = {r}
    BY DEF OneOpenInv
  <1>3. Cardinality({r}) = 1
    BY FS_Singleton
  <1> QED
    BY <1>2, <1>3

\* A step of the serial calendar: one of the concurrent one that reads only when no other
\* transaction is open.
SerialStep ==
    \/ \E r \in Asks \cup {another} :
         \/ Concurrent!ReadRow(r) /\ Concurrent!OpenNow = {}
         \/ Concurrent!WriteRow(r) \/ Concurrent!Abort(r)
         \/ \E c \in Concurrent!Call : Concurrent!Receive(r, c)
    \/ UNCHANGED <<event, audit, req>>

\* One connection admits one transaction.
LEMMA OneReads ==
    ASSUME OneOpenInv, NEW r \in Asks \cup {another}, Serial!ReadRow(r)
    PROVE  Concurrent!ReadRow(r) /\ Concurrent!OpenNow = {}
  <1>1. Serial!OpenNow = Concurrent!OpenNow
    BY DEF Serial!OpenNow, Concurrent!OpenNow
  <1>2. Cardinality(Concurrent!OpenNow) < 1
    BY <1>1, SameInSerial DEF Serial!ReadRow
  <1>3. Concurrent!OpenNow = {}
    BY <1>2, NobodyIsOpen
  <1>4. Concurrent!Cardinality(Concurrent!OpenNow) < Connections
    <2>1. Cardinality({}) = 0
      BY FS_EmptySet
    <2>2. Connections \in Nat \ {0}
      BY PagesAssumption DEF Concurrent!CalendarAssumption
    <2> QED
      BY <1>3, <2>1, <2>2, SameInConcurrent
  <1> QED
    BY <1>3, <1>4 DEF Serial!ReadRow, Concurrent!ReadRow, Serial!IsRepeat, Concurrent!IsRepeat,
       Serial!Admits,
       Concurrent!Admits, Serial!Target, Concurrent!Target, Serial!Only, Concurrent!Only, Serial!IntervalOk,
       Concurrent!IntervalOk, Serial!NextStarts, Concurrent!NextStarts, Serial!NextEnds, Concurrent!NextEnds

(* So every step of the serial calendar is one of the concurrent one. *)
LEMMA SerialSteps ==
    ASSUME OneOpenInv, [Serial!Next]_<<event, audit, req>>
    PROVE  SerialStep
  <1>1. ASSUME NEW r \in Asks \cup {another}, Serial!WriteRow(r)
        PROVE  Concurrent!WriteRow(r)
    BY <1>1 DEF Serial!WriteRow, Concurrent!WriteRow, Serial!Written, Concurrent!Written,
       Serial!NextStarts,
       Concurrent!NextStarts, Serial!Target, Concurrent!Target, Serial!Entry, Concurrent!Entry,
       Serial!Only, Concurrent!Only
  <1>2. ASSUME NEW r \in Asks \cup {another}, Serial!Abort(r)
        PROVE  Concurrent!Abort(r)
    BY <1>2 DEF Serial!Abort, Concurrent!Abort, Serial!Pending, Concurrent!Pending, Serial!Only,
       Concurrent!Only
  <1>3. Serial!Call = Concurrent!Call
    BY DEF Serial!Call, Concurrent!Call
  <1>4. ASSUME NEW r \in Asks \cup {another}, NEW c, Serial!Receive(r, c)
        PROVE  Concurrent!Receive(r, c)
    BY <1>4 DEF Serial!Receive, Concurrent!Receive, Serial!Pending, Concurrent!Pending,
       Serial!Only, Concurrent!Only
  <1> QED
    BY <1>1, <1>2, <1>3, <1>4, OneReads DEF Serial!Next, Serial!Serve, SerialStep

(* What the open transaction has read stays the row of now. *)
LEMMA SerialOpens ==
    ASSUME SerialInv, SerialStep
    PROVE  OneOpenInv'
  <1>0. Concurrent!TypeOK /\ OneOpenInv
    BY DEF SerialInv, CalendarInv, RowsInv
  <1>1. ASSUME NEW r \in Asks \cup {another}, Concurrent!ReadRow(r), Concurrent!OpenNow = {}
        PROVE  OneOpenInv'
    <2>1. Concurrent!OpenNow = {} /\ req[r].phase = "sent" /\ UNCHANGED event
      BY <1>1 DEF Concurrent!ReadRow
    <2>2. \A q \in Asks \cup {another} : q # r => req'[q] = req[q]
      BY <1>0, <1>1 DEF Concurrent!ReadRow, Concurrent!TypeOK
    <2>3. Concurrent!OpenNow' \subseteq {r}
      BY <2>1, <2>2 DEF Concurrent!OpenNow
    <2>4. req'[r].phase = "read" => req'[r].seen = event[req'[r].call.id]
      BY <1>0, <1>1 DEF Concurrent!ReadRow, Concurrent!TypeOK, Concurrent!Only
    <2> QED
      BY <2>1, <2>3, <2>4 DEF OneOpenInv, Concurrent!OpenNow
  <1>2. ASSUME NEW r \in Asks \cup {another}, Concurrent!WriteRow(r)
        PROVE  OneOpenInv'
    <2>1. r \in Concurrent!OpenNow /\ req'[r].phase = "ok" /\ \A q \in Asks \cup {another} : q # r
              => req'[q] = req[q]
      BY <1>0, <1>2 DEF Concurrent!WriteRow, Concurrent!TypeOK, Concurrent!Only, Concurrent!OpenNow
    <2>2. Concurrent!OpenNow' = {}
      BY <1>0, <2>1 DEF Concurrent!OpenNow, OneOpenInv
    <2> QED
      BY <2>2 DEF OneOpenInv
  <1>3. ASSUME NEW r \in Asks \cup {another}, Concurrent!Abort(r)
                   \/ \E c \in Concurrent!Call : Concurrent!Receive(r, c)
        PROVE  OneOpenInv'
    <2>1. UNCHANGED event /\ req'[r].phase \notin {"read"} /\ \A q \in Asks \cup {another} : q # r
              => req'[q] = req[q]
      BY <1>0, <1>3 DEF Concurrent!Abort, Concurrent!Receive, Concurrent!TypeOK, Concurrent!Only
    <2> QED
      BY <1>0, <2>1 DEF OneOpenInv, Concurrent!OpenNow
  <1>4. CASE UNCHANGED <<event, audit, req>>
    BY <1>0, <1>4 DEF OneOpenInv, Concurrent!OpenNow
  <1> QED
    BY <1>1, <1>2, <1>3, <1>4 DEF SerialStep

(* A write that is admitted leaves a proper interval, and sets the status once. *)
LEMMA SerialWrite ==
    ASSUME SerialInv, NEW r \in Asks \cup {another}, Concurrent!WriteRow(r)
    PROVE  Concurrent!IntervalHolds' /\ Concurrent!StatusSetOnce'
  <1>0. Concurrent!TypeOK /\ RowsExistInv /\ OneOpenInv /\ Concurrent!TrailExplainsStatus
            /\ Concurrent!IntervalHolds /\ Concurrent!StatusSetOnce
    BY DEF SerialInv, CalendarInv, RowsInv
  <1> DEFINE c == req[r].call
             seen == req[r].seen
             row == Concurrent!Written(c, seen, event[c.id])
             a == Concurrent!Entry(c, seen)
  <1>1. /\ c \in Concurrent!Call /\ row \in Concurrent!Row /\ a \in Concurrent!AuditEntry
        /\ event' = [event EXCEPT ![c.id] = row]
        /\ audit' = [audit EXCEPT ![c.id] = Append(@, a)]
        /\ a.action = c.op
    BY WriteLeaves DEF SerialInv, CalendarInv
  <1>2. /\ c.id \in {meeting} /\ c.op \in {"create", "update", "complete", "cancel"}
        /\ c.op = "create" => c.starts \in Instants /\ c.ends \in Instants \cup {Absent, Null}
        /\ c.op = "update" => c.starts \in Instants \cup {Absent, Null}
             /\ c.ends \in Instants \cup {Absent, Null}
    BY <1>1, CallIsTyped
  <1>3. seen = event[c.id] /\ Concurrent!Admits(c, seen) /\ ~Concurrent!IsRepeat(c, seen)
            /\ seen \in Concurrent!Row \cup {Missing}
    BY <1>0, <1>2 DEF Concurrent!WriteRow, OneOpenInv, Concurrent!OpenNow, RowsExistInv,
       Concurrent!TypeOK
  <1>4. PICK k \in {meeting} : k = c.id
    BY <1>2
  <1>5. /\ event'[k] = row /\ audit'[k] = Append(audit[k], a)
        /\ \A e \in {meeting} : e # k => event'[e] = event[e] /\ audit'[e] = audit[e]
    <2> HIDE DEF row, a, c
    <2> QED
      BY <1>0, <1>1, <1>4 DEF Concurrent!TypeOK
  <1>6. row = Concurrent!Written(c, seen, seen)
    BY <1>3
  <1>7. Concurrent!IntervalOk(row.starts, row.ends)
    <2> HIDE DEF row, a, c, seen
    <2>1. CASE c.op = "create"
      <3>1. row = [status |-> "SCHEDULED", starts |-> c.starts,
                ends |-> IF c.ends = Absent THEN Null ELSE c.ends]
        BY <1>6, <2>1 DEF Concurrent!Written
      <3>2. Concurrent!IntervalOk(c.starts, c.ends)
        BY <1>3, <2>1 DEF Concurrent!Admits
      <3> QED
        BY <1>2, <2>1, <3>1, <3>2, PagesAssumption DEF Concurrent!CalendarAssumption,
           Concurrent!IntervalOk
    <2>2. CASE c.op = "update"
      <3>1. seen \in Concurrent!Row
                /\ (c.starts # Absent \/ c.ends # Absent
                     => Concurrent!IntervalOk(Concurrent!NextStarts(c, seen), Concurrent!NextEnds(c, seen)))
        BY <1>3, <2>2 DEF Concurrent!Admits
      <3>2. row = [seen EXCEPT !.starts = IF c.starts = Absent THEN @ ELSE Concurrent!NextStarts(c, seen),
                               !.ends = IF c.ends = Absent THEN @ ELSE c.ends]
        BY <1>6, <2>2 DEF Concurrent!Written
      <3>3. row.starts = Concurrent!NextStarts(c, seen) /\ row.ends = Concurrent!NextEnds(c, seen)
        BY <1>2, <2>2, <3>1, <3>2, PagesAssumption DEF Concurrent!NextStarts, Concurrent!NextEnds,
           Concurrent!Row, Concurrent!CalendarAssumption
      <3>4. CASE c.starts = Absent /\ c.ends = Absent
        <4>1. Concurrent!NextStarts(c, seen) = seen.starts /\ Concurrent!NextEnds(c, seen) = seen.ends
          BY <3>4, PagesAssumption DEF Concurrent!NextStarts, Concurrent!NextEnds,
             Concurrent!CalendarAssumption
        <4>2. Concurrent!IntervalOk(seen.starts, seen.ends)
          BY <1>0, <1>3, <1>4, <3>1, PagesAssumption DEF Concurrent!IntervalHolds,
             Concurrent!CalendarAssumption
        <4> QED
          BY <3>3, <4>1, <4>2
      <3> QED
        BY <3>1, <3>3, <3>4
    <2>3. CASE c.op \in {"complete", "cancel"}
      <3>1. row = [seen EXCEPT !.status = Concurrent!Target(c.op)] /\ seen \in Concurrent!Row
        BY <1>3, <1>6, <2>3 DEF Concurrent!Written, Concurrent!Admits
      <3>2. row.starts = seen.starts /\ row.ends = seen.ends
        BY <3>1 DEF Concurrent!Row
      <3>3. Concurrent!IntervalOk(seen.starts, seen.ends)
        BY <1>0, <1>3, <1>4, <3>1, PagesAssumption DEF Concurrent!IntervalHolds,
           Concurrent!CalendarAssumption
      <3> QED
        BY <3>2, <3>3
    <2> QED
      BY <1>2, <2>1, <2>2, <2>3
  <1>8. Concurrent!IntervalHolds'
    BY <1>0, <1>5, <1>7 DEF Concurrent!IntervalHolds
  <1>9. Concurrent!StatusSetOnce'
    <2>1. /\ Len(audit[k]) + 1 \in Nat
          /\ Concurrent!StatusEntries(k)' = Concurrent!StatusEntries(k) \cup
               (IF a.action \in {"complete", "cancel"} THEN {Len(audit[k]) + 1} ELSE {})
      BY <1>0, <1>1, <1>5, OneMoreEntry
    <2>2. c.op \in {"complete", "cancel"} => Concurrent!StatusEntries(k) = {}
      <3> HIDE DEF row, a, c, seen
      <3>1. SUFFICES ASSUME c.op \in {"complete", "cancel"}, NEW i \in Concurrent!StatusEntries(k)
                     PROVE  FALSE
        OBVIOUS
      <3>2. seen \in Concurrent!Row /\ seen.status = "SCHEDULED"
        <4>1. seen # Missing /\ seen.status # Concurrent!Target(c.op)
          BY <1>3, <3>1 DEF Concurrent!Admits, Concurrent!IsRepeat
        <4> QED
          BY <1>3, <3>1, <4>1 DEF Concurrent!Admits, Concurrent!Target, Concurrent!Row,
             Concurrent!Statuses
      <3>3. \A j \in Concurrent!StatusEntries(k) : j = i
        BY <1>0 DEF Concurrent!StatusSetOnce
      <3>4. i \in Nat
        BY <1>0 DEF Concurrent!StatusEntries, Concurrent!TypeOK
      <3>5. seen.status = Concurrent!Target(audit[k][i].action)
        <4>1. event[k] = seen /\ seen # Missing
          BY <1>3, <1>4, <3>2, PagesAssumption DEF Concurrent!CalendarAssumption
        <4>2. \A j \in Concurrent!StatusEntries(k) : j <= i
          BY <3>3, <3>4
        <4>3. event[k].status = Concurrent!Target(audit[k][i].action)
          BY <1>0, <3>1, <4>1, <4>2 DEF Concurrent!TrailExplainsStatus
        <4> QED
          BY <4>1, <4>3
      <3> QED
        BY <3>2, <3>5 DEF Concurrent!Target
    <2>3. \A e \in {meeting} : e # k => Concurrent!StatusEntries(e)' = Concurrent!StatusEntries(e)
      BY <1>5 DEF Concurrent!StatusEntries
    <2>4. \A i, j \in Concurrent!StatusEntries(k)' : i = j
      <3>1. CASE a.action \in {"complete", "cancel"}
        BY <1>1, <2>1, <2>2, <3>1
      <3>2. CASE a.action \notin {"complete", "cancel"}
        BY <1>0, <2>1, <3>2 DEF Concurrent!StatusSetOnce
      <3> QED
        BY <3>1, <3>2
    <2> QED
      BY <1>0, <2>3, <2>4 DEF Concurrent!StatusSetOnce
  <1> QED
    BY <1>8, <1>9

(* Every step of the serial calendar keeps its invariant. *)
LEMMA SerialKeeps ==
    ASSUME SerialInv, SerialStep
    PROVE  SerialInv'
  <1>1. CalendarInv'
    <2>1. [Concurrent!Next]_<<event, audit, req>>
      BY DEF SerialStep, Concurrent!Next, Concurrent!Serve
    <2> QED
      BY <2>1, CalendarKeeps DEF SerialInv
  <1>2. OneOpenInv'
    BY SerialOpens
  <1>3. Concurrent!IntervalHolds' /\ Concurrent!StatusSetOnce'
    <2>1. CASE UNCHANGED <<event, audit>>
      BY <2>1 DEF SerialInv, Concurrent!IntervalHolds, Concurrent!StatusSetOnce,
         Concurrent!StatusEntries
    <2>2. ASSUME NEW r \in Asks \cup {another}, Concurrent!ReadRow(r) \/ Concurrent!Abort(r)
                     \/ \E c \in Concurrent!Call : Concurrent!Receive(r, c)
          PROVE  UNCHANGED <<event, audit>>
      BY <2>2 DEF Concurrent!ReadRow, Concurrent!Abort, Concurrent!Receive
    <2> QED
      BY <2>1, <2>2, SerialWrite DEF SerialStep
  <1> QED
    BY <1>1, <1>2, <1>3 DEF SerialInv

-----------------------------------------------------------------------------
(* The agenda *)

\* An event that is not there has no trail; a create that is pending names such an event,
\* and one of its own; another request that has read its event will find it there.
WeekExistInv ==
    /\ \A e \in Events : event[e] = Missing => audit[e] = <<>>
    /\ \A r \in Asks :
         Agenda!Calendar!Pending(r) /\ req[r].call.op = "create" =>
           /\ event[req[r].call.id] = Missing
           /\ \A q \in Asks :
                Agenda!Calendar!Pending(q) /\ req[q].call.op = "create" /\ req[q].call.id = req[r].call.id
                    => q = r
    /\ \A r \in Asks :
         req[r].phase = "read" =>
           /\ Agenda!Calendar!Admits(req[r].call, req[r].seen)
                /\ ~Agenda!Calendar!IsRepeat(req[r].call, req[r].seen)
           /\ req[r].call.op # "create" => event[req[r].call.id] # Missing

\* The calendar behind the agenda, in the same way.
WeekInv == Agenda!Calendar!TypeOK /\ WeekExistInv

(* A request that is under way carries a call. *)
LEMMA ClickIsTyped ==
    ASSUME Agenda!Calendar!TypeOK, NEW r \in Asks
    PROVE  /\ Agenda!Calendar!Pending(r) => req[r].call \in Agenda!Calendar!Call
           /\ req[r].phase = "read" => req[r].seen \in Agenda!Calendar!Row \cup {Missing}
  BY DEF Agenda!Calendar!TypeOK, Agenda!Calendar!InRequest, Agenda!Calendar!Only,
     Agenda!Calendar!Answers, Agenda!Calendar!Pending

(* The fields a call may leave out. *)
LEMMA BodyIsTyped ==
    ASSUME NEW c \in Agenda!Calendar!Call
    PROVE  /\ c.id \in Events /\ c.op \in {"create", "update", "complete", "cancel"}
           /\ c.op = "create" => c.starts \in Instants /\ c.ends \in Instants \cup {Absent, Null}
           /\ c.op = "update" => c.starts \in Instants \cup {Absent, Null}
                /\ c.ends \in Instants \cup {Absent, Null}
  BY DEF Agenda!Calendar!Call

(* There is no event yet. *)
LEMMA WeekStarts ==
    ASSUME Agenda!Calendar!Init
    PROVE  WeekInv
  <1>1. \A e \in Events : event[e] = Missing /\ audit[e] = <<>>
    BY DEF Agenda!Calendar!Init
  <1>2. \A r \in Asks : req[r].phase = "unsent"
    BY DEF Agenda!Calendar!Init, Agenda!Calendar!Only
  <1>3. Agenda!Calendar!TypeOK
    <2>1. Agenda!Calendar!Only("unsent") \in {Agenda!Calendar!Only(p) : p \in Agenda!Calendar!Answers
              \cup {"unsent"}}
      OBVIOUS
    <2> QED
      BY <2>1 DEF Agenda!Calendar!Init, Agenda!Calendar!TypeOK
  <1> QED
    BY <1>1, <1>2, <1>3 DEF WeekInv, WeekExistInv, Agenda!Calendar!Pending

\* What a write leaves.
LEMMA SaveLeaves ==
    ASSUME WeekInv, NEW r \in Asks, Agenda!Calendar!WriteRow(r)
    PROVE  LET c == req[r].call
               seen == req[r].seen
               row == Agenda!Calendar!Written(c, seen, event[c.id])
               a == Agenda!Calendar!Entry(c, seen)
           IN  /\ c \in Agenda!Calendar!Call /\ seen \in Agenda!Calendar!Row \cup {Missing}
               /\ row \in Agenda!Calendar!Row /\ a \in Agenda!Calendar!AuditEntry
               /\ event' = [event EXCEPT ![c.id] = row]
               /\ audit' = [audit EXCEPT ![c.id] = Append(@, a)]
               /\ a.action = c.op
               /\ c.op = "create" => row.status = "SCHEDULED"
               /\ c.op = "update" => event[c.id] \in Agenda!Calendar!Row /\ row.status = event[c.id].status
               /\ c.op \in {"complete", "cancel"} => row.status = Agenda!Calendar!Target(c.op)
  <1> DEFINE c == req[r].call
             seen == req[r].seen
             current == event[c.id]
  <1>1. c \in Agenda!Calendar!Call /\ seen \in Agenda!Calendar!Row \cup {Missing} /\ req[r].phase = "read"
            /\ Agenda!Calendar!Pending(r)
    BY ClickIsTyped DEF Agenda!Calendar!WriteRow, Agenda!Calendar!Pending, WeekInv
  <1>2. Agenda!Calendar!Admits(c, seen) /\ ~Agenda!Calendar!IsRepeat(c, seen)
            /\ (c.op # "create" => current # Missing)
    BY <1>1 DEF WeekInv, WeekExistInv
  <1>3. current \in Agenda!Calendar!Row \cup {Missing}
    BY <1>1, BodyIsTyped DEF WeekInv, Agenda!Calendar!TypeOK
  <1>4. event' = [event EXCEPT ![c.id] = Agenda!Calendar!Written(c, seen, current)]
        /\ audit' = [audit EXCEPT ![c.id] = Append(@, Agenda!Calendar!Entry(c, seen))]
    BY DEF Agenda!Calendar!WriteRow
  <1> HIDE DEF c, seen, current
  <1>5. c.op \in {"complete", "cancel"} => seen \in Agenda!Calendar!Row
    BY <1>1, <1>2 DEF Agenda!Calendar!Admits
  <1>6. c.op = "update" => seen \in Agenda!Calendar!Row
    BY <1>1, <1>2 DEF Agenda!Calendar!Admits
  <1>7. Agenda!Calendar!Entry(c, seen) \in Agenda!Calendar!AuditEntry
            /\ Agenda!Calendar!Entry(c, seen).action = c.op
    BY <1>1, <1>5, BodyIsTyped DEF Agenda!Calendar!Entry, Agenda!Calendar!AuditEntry,
       Agenda!Calendar!Row
  <1>8. CASE c.op = "create"
    <2>1. Agenda!Calendar!Written(c, seen, current) = [status |-> "SCHEDULED", starts |-> c.starts,
                                   ends |-> IF c.ends = Absent THEN Null ELSE c.ends]
      BY <1>8 DEF Agenda!Calendar!Written
    <2> QED
      BY <1>1, <1>4, <1>7, <1>8, <2>1, BodyIsTyped DEF Agenda!Calendar!Row,
         Agenda!Calendar!Statuses, c, seen, current
  <1>9. CASE c.op = "update"
    <2>1. Agenda!Calendar!Written(c, seen, current) =
             [current EXCEPT !.starts = IF c.starts = Absent THEN @
                                        ELSE Agenda!Calendar!NextStarts(c, seen),
                             !.ends = IF c.ends = Absent THEN @ ELSE c.ends]
      BY <1>9 DEF Agenda!Calendar!Written
    <2>2. Agenda!Calendar!NextStarts(c, seen) \in Instants
      BY <1>1, <1>6, <1>9, BodyIsTyped DEF Agenda!Calendar!NextStarts, Agenda!Calendar!Row
    <2>3. Agenda!Calendar!Written(c, seen, current) \in Agenda!Calendar!Row
              /\ current \in Agenda!Calendar!Row
                   /\ Agenda!Calendar!Written(c, seen, current).status = current.status
      BY <1>1, <1>2, <1>3, <1>9, <2>1, <2>2, BodyIsTyped DEF Agenda!Calendar!Row
    <2> QED
      BY <1>1, <1>4, <1>7, <1>9, <2>3 DEF c, seen, current
  <1>10. CASE c.op \in {"complete", "cancel"}
    <2>1. Agenda!Calendar!Written(c, seen, current)
                = [current EXCEPT !.status = Agenda!Calendar!Target(c.op)]
              /\ current \in Agenda!Calendar!Row
      BY <1>2, <1>3, <1>10 DEF Agenda!Calendar!Written
    <2>2. Agenda!Calendar!Written(c, seen, current) \in Agenda!Calendar!Row
              /\ Agenda!Calendar!Written(c, seen, current).status = Agenda!Calendar!Target(c.op)
      BY <2>1 DEF Agenda!Calendar!Row, Agenda!Calendar!Target, Agenda!Calendar!Statuses
    <2> QED
      BY <1>1, <1>4, <1>7, <1>10, <2>2 DEF c, seen, current
  <1> QED
    BY <1>1, <1>8, <1>9, <1>10, BodyIsTyped

(* Every step keeps the types. *)
LEMMA WeekTypes ==
    ASSUME WeekInv, [Agenda!Calendar!Next]_<<event, audit, req>>
    PROVE  Agenda!Calendar!TypeOK'
  <1>0. Agenda!Calendar!TypeOK
    BY DEF WeekInv
  <1>1. ASSUME NEW r \in Asks, NEW c \in Agenda!Calendar!Call, Agenda!Calendar!Receive(r, c)
        PROVE  Agenda!Calendar!TypeOK'
    BY <1>0, <1>1 DEF Agenda!Calendar!Receive, Agenda!Calendar!TypeOK, Agenda!Calendar!InRequest
  <1>2. ASSUME NEW r \in Asks, Agenda!Calendar!ReadRow(r)
        PROVE  Agenda!Calendar!TypeOK'
    <2>1. req[r].call \in Agenda!Calendar!Call /\ req[r].call.id \in Events
      BY <1>0, <1>2, ClickIsTyped, BodyIsTyped DEF Agenda!Calendar!ReadRow, Agenda!Calendar!Pending
    <2>2. event[req[r].call.id] \in Agenda!Calendar!Row \cup {Missing}
      BY <1>0, <2>1 DEF Agenda!Calendar!TypeOK
    <2>3. Agenda!Calendar!Only("ok") \in {Agenda!Calendar!Only(p) : p \in Agenda!Calendar!Answers
              \cup {"unsent"}}
          /\ Agenda!Calendar!Only("refused") \in {Agenda!Calendar!Only(p) : p \in Agenda!Calendar!Answers
               \cup {"unsent"}}
      BY DEF Agenda!Calendar!Answers
    <2>4. [phase |-> "read", call |-> req[r].call,
              seen |-> event[req[r].call.id]] \in Agenda!Calendar!InRequest
      BY <2>1, <2>2 DEF Agenda!Calendar!InRequest
    <2> QED
      BY <1>0, <1>2, <2>3, <2>4 DEF Agenda!Calendar!ReadRow, Agenda!Calendar!TypeOK
  <1>3. ASSUME NEW r \in Asks, Agenda!Calendar!WriteRow(r)
        PROVE  Agenda!Calendar!TypeOK'
    <2> DEFINE c == req[r].call
               row == Agenda!Calendar!Written(c, req[r].seen, event[c.id])
               a == Agenda!Calendar!Entry(c, req[r].seen)
    <2>1. /\ c \in Agenda!Calendar!Call /\ row \in Agenda!Calendar!Row /\ a \in Agenda!Calendar!AuditEntry
          /\ event' = [event EXCEPT ![c.id] = row]
          /\ audit' = [audit EXCEPT ![c.id] = Append(@, a)]
      BY <1>3, SaveLeaves
    <2>2. req' = [req EXCEPT ![r] = Agenda!Calendar!Only("ok")]
              /\ Agenda!Calendar!Only("ok") \in {Agenda!Calendar!Only(p) : p \in Agenda!Calendar!Answers
                   \cup {"unsent"}}
      BY <1>3 DEF Agenda!Calendar!WriteRow, Agenda!Calendar!Answers
    <2> HIDE DEF c, row, a
    <2>3. c.id \in Events
      BY <2>1, BodyIsTyped
    <2>4. Append(audit[c.id], a) \in Seq(Agenda!Calendar!AuditEntry)
      BY <1>0, <2>1, <2>3 DEF Agenda!Calendar!TypeOK
    <2> QED
      BY <1>0, <2>1, <2>2, <2>3, <2>4 DEF Agenda!Calendar!TypeOK
  <1>4. ASSUME NEW r \in Asks, Agenda!Calendar!Abort(r)
        PROVE  Agenda!Calendar!TypeOK'
    <2>1. Agenda!Calendar!Only("failed") \in {Agenda!Calendar!Only(p) : p \in Agenda!Calendar!Answers
              \cup {"unsent"}}
      BY DEF Agenda!Calendar!Answers
    <2> QED
      BY <1>0, <1>4, <2>1 DEF Agenda!Calendar!Abort, Agenda!Calendar!TypeOK
  <1>5. CASE UNCHANGED Agenda!Calendar!vars
    BY <1>0, <1>5 DEF Agenda!Calendar!vars, Agenda!Calendar!TypeOK
  <1> QED
    BY <1>1, <1>2, <1>3, <1>4, <1>5 DEF Agenda!Calendar!Next, Agenda!Calendar!Serve,
       Agenda!Calendar!vars

(* Every step leaves the events its requests name. *)
LEMMA WeekStays ==
    ASSUME WeekInv, [Agenda!Calendar!Next]_<<event, audit, req>>
    PROVE  WeekExistInv'
  <1>0. Agenda!Calendar!TypeOK /\ WeekExistInv
    BY DEF WeekInv
  <1>1. ASSUME NEW r \in Asks, NEW c \in Agenda!Calendar!Call, Agenda!Calendar!Receive(r, c)
        PROVE  WeekExistInv'
    <2>1. /\ req'[r] = [phase |-> "sent", call |-> c] /\ UNCHANGED <<event, audit>>
          /\ \A q \in Asks : q # r => req'[q] = req[q]
      BY <1>0, <1>1 DEF Agenda!Calendar!Receive, Agenda!Calendar!TypeOK
    <2>2. c.op = "create" =>
             /\ event[c.id] = Missing
             /\ \A q \in Asks : Agenda!Calendar!Pending(q) => req[q].call.id # c.id
                  \/ req[q].call.op # "create"
      BY <1>1 DEF Agenda!Calendar!Receive
    <2> QED
      BY <1>0, <2>1, <2>2 DEF WeekExistInv, Agenda!Calendar!Pending
  <1>2. ASSUME NEW r \in Asks, Agenda!Calendar!ReadRow(r)
        PROVE  WeekExistInv'
    <2> DEFINE c == req[r].call
               row == event[c.id]
    <2>1. /\ UNCHANGED <<event, audit>> /\ Agenda!Calendar!Pending(r)
          /\ \A q \in Asks : q # r => req'[q] = req[q]
          /\ \/ req'[r].phase \notin {"sent", "read"}
             \/ /\ req'[r] = [phase |-> "read", call |-> c, seen |-> row]
                /\ Agenda!Calendar!Admits(c, row) /\ ~Agenda!Calendar!IsRepeat(c, row)
      BY <1>0, <1>2 DEF Agenda!Calendar!ReadRow, Agenda!Calendar!TypeOK, Agenda!Calendar!Only,
         Agenda!Calendar!Pending
    <2>2. Agenda!Calendar!Admits(c, row) /\ c.op # "create" => row # Missing
      <3>1. c.op \in {"create", "update", "complete", "cancel"}
        BY <1>0, <2>1, ClickIsTyped, BodyIsTyped
      <3> QED
        BY <3>1 DEF Agenda!Calendar!Admits
    <2>3. \A q \in Asks : Agenda!Calendar!Pending(q)' => Agenda!Calendar!Pending(q)
              /\ req'[q].call = req[q].call
      BY <2>1 DEF Agenda!Calendar!Pending
    <2>4. \A q \in Asks : q # r => req'[q] = req[q]
      BY <2>1
    <2>5. req'[r].phase = "read" => req'[r].call = c /\ req'[r].seen = row
              /\ Agenda!Calendar!Admits(c, row) /\ ~Agenda!Calendar!IsRepeat(c, row)
      BY <2>1
    <2>6. \A e \in Events : event'[e] = Missing => audit'[e] = <<>>
      BY <1>0, <2>1 DEF WeekExistInv
    <2>7. \A p \in Asks :
             Agenda!Calendar!Pending(p)' /\ req'[p].call.op = "create" =>
               /\ event'[req'[p].call.id] = Missing
               /\ \A q \in Asks :
                    Agenda!Calendar!Pending(q)' /\ req'[q].call.op = "create"
                        /\ req'[q].call.id = req'[p].call.id => q = p
      BY <1>0, <2>1, <2>3 DEF WeekExistInv
    <2>8. \A p \in Asks :
             req'[p].phase = "read" =>
               /\ Agenda!Calendar!Admits(req'[p].call, req'[p].seen)
                    /\ ~Agenda!Calendar!IsRepeat(req'[p].call, req'[p].seen)
               /\ req'[p].call.op # "create" => event'[req'[p].call.id] # Missing
      <3> HIDE DEF c, row
      <3> QED
        BY <1>0, <2>1, <2>2, <2>4, <2>5 DEF WeekExistInv, c, row
    <2> QED
      BY <2>6, <2>7, <2>8 DEF WeekExistInv, Agenda!Calendar!Pending
  <1>3. ASSUME NEW r \in Asks, Agenda!Calendar!WriteRow(r)
        PROVE  WeekExistInv'
    <2> DEFINE c == req[r].call
               row == Agenda!Calendar!Written(c, req[r].seen, event[c.id])
    <2>1. /\ c \in Agenda!Calendar!Call /\ row \in Agenda!Calendar!Row
          /\ event' = [event EXCEPT ![c.id] = row]
          /\ audit' = [audit EXCEPT ![c.id] = Append(@, Agenda!Calendar!Entry(c, req[r].seen))]
      BY <1>3, SaveLeaves
    <2>2. Agenda!Calendar!Pending(r) /\ req'[r].phase = "ok" /\ \A q \in Asks : q # r => req'[q] = req[q]
      BY <1>0, <1>3 DEF Agenda!Calendar!WriteRow, Agenda!Calendar!TypeOK, Agenda!Calendar!Only,
         Agenda!Calendar!Pending
    <2>3. c.op # "create" => event[c.id] # Missing
      BY <1>0, <1>3 DEF WeekExistInv, Agenda!Calendar!WriteRow
    <2> HIDE DEF row
    <2>4. c.id \in Events /\ row # Missing
      BY <2>1, BodyIsTyped, PagesAssumption DEF Agenda!AgendaAssumption,
         Agenda!Calendar!CalendarAssumption
    <2>5. \A e \in Events :
             /\ e # c.id => event'[e] = event[e] /\ audit'[e] = audit[e]
             /\ event'[e] = Missing => e # c.id
      BY <1>0, <2>1, <2>4 DEF Agenda!Calendar!TypeOK
    <2>6. \A q \in Asks : Agenda!Calendar!Pending(q)' => q # r /\ Agenda!Calendar!Pending(q)
              /\ req'[q] = req[q]
      BY <2>2 DEF Agenda!Calendar!Pending
    <2>7. \A q \in Asks : Agenda!Calendar!Pending(q) /\ q # r /\ req[q].call.op = "create"
              => req[q].call.id # c.id
      BY <1>0, <2>2, <2>3 DEF WeekExistInv
    <2>8. \A q \in Asks : Agenda!Calendar!Pending(q) => req[q].call.id \in Events
      BY <1>0, ClickIsTyped, BodyIsTyped
    <2> HIDE DEF c
    <2>9. \A e \in Events : event'[e] = Missing => audit'[e] = <<>>
      BY <1>0, <2>5 DEF WeekExistInv
    <2>10. \A p \in Asks :
             Agenda!Calendar!Pending(p)' /\ req'[p].call.op = "create" =>
               /\ event'[req'[p].call.id] = Missing
               /\ \A q \in Asks :
                    Agenda!Calendar!Pending(q)' /\ req'[q].call.op = "create"
                        /\ req'[q].call.id = req'[p].call.id => q = p
      BY <1>0, <2>5, <2>6, <2>7, <2>8 DEF WeekExistInv
    <2>11. \A p \in Asks :
             req'[p].phase = "read" =>
               /\ Agenda!Calendar!Admits(req'[p].call, req'[p].seen)
                    /\ ~Agenda!Calendar!IsRepeat(req'[p].call, req'[p].seen)
               /\ req'[p].call.op # "create" => event'[req'[p].call.id] # Missing
      BY <1>0, <2>2, <2>5, <2>8 DEF WeekExistInv, Agenda!Calendar!Pending
    <2> QED
      BY <2>9, <2>10, <2>11 DEF WeekExistInv, Agenda!Calendar!Pending
  <1>4. ASSUME NEW r \in Asks, Agenda!Calendar!Abort(r)
        PROVE  WeekExistInv'
    <2>1. /\ UNCHANGED <<event, audit>> /\ req'[r].phase = "failed"
          /\ \A q \in Asks : q # r => req'[q] = req[q]
      BY <1>0, <1>4 DEF Agenda!Calendar!Abort, Agenda!Calendar!TypeOK, Agenda!Calendar!Only
    <2> QED
      BY <1>0, <2>1 DEF WeekExistInv, Agenda!Calendar!Pending
  <1>5. CASE UNCHANGED Agenda!Calendar!vars
    BY <1>0, <1>5 DEF Agenda!Calendar!vars, WeekExistInv, Agenda!Calendar!Pending
  <1> QED
    BY <1>1, <1>2, <1>3, <1>4, <1>5 DEF Agenda!Calendar!Next, Agenda!Calendar!Serve,
       Agenda!Calendar!vars

\* An entry that is appended is the last one.
LEMMA OneMoreInTheTrail ==
    ASSUME Agenda!Calendar!TypeOK, NEW e \in Events, NEW a \in Agenda!Calendar!AuditEntry,
               audit'[e] = Append(audit[e], a)
    PROVE  LET n == Len(audit[e]) + 1 IN
           /\ n \in Nat
           /\ Agenda!Calendar!StatusEntries(e) \subseteq 1..(n - 1)
           /\ \A i \in Agenda!Calendar!StatusEntries(e) : audit'[e][i] = audit[e][i]
           /\ audit'[e][n] = a
           /\ Agenda!Calendar!StatusEntries(e)' = Agenda!Calendar!StatusEntries(e) \cup
                (IF a.action \in {"complete", "cancel"} THEN {n} ELSE {})
  <1>1. audit[e] \in Seq(Agenda!Calendar!AuditEntry)
    BY DEF Agenda!Calendar!TypeOK
  <1> DEFINE s == audit[e]
             t == audit'[e]
             n == Len(s) + 1
  <1>2. /\ Len(s) \in Nat /\ DOMAIN s = 1..Len(s) /\ DOMAIN t = 1..n
        /\ t[n] = a /\ \A i \in 1..Len(s) : t[i] = s[i]
    BY <1>1
  <1>3. Agenda!Calendar!StatusEntries(e) = {i \in DOMAIN s : s[i].action \in {"complete", "cancel"}}
        /\ Agenda!Calendar!StatusEntries(e)' = {i \in DOMAIN t : t[i].action \in {"complete", "cancel"}}
    BY DEF Agenda!Calendar!StatusEntries
  <1> HIDE DEF s, t
  <1> QED
    BY <1>2, <1>3 DEF s, t

-----------------------------------------------------------------------------
\* What a request was made for tells how far it is.
ToastsInv ==
    \A r \in Asks :
        /\ task[r] = "none" <=> req[r].phase = "unsent"
        /\ task[r] = "done" => ~Agenda!Calendar!Pending(r)

\* Every change that the server made for this page has been answered, and was not lost.
SettledInTheAgenda == \A r \in Asks : req[r].phase = "ok" => task[r] = "done"

\* The list the page has, or is about to have, is the one of now, while nothing has changed
\* that the page does not know of.
IsOfNow(rows) == \E S \in Agenda!Pages : rows = [e \in S |-> event[e]]

\* The list that was read, and the one on the screen.
FreshInv ==
    /\ fetch.phase = "read" /\ SettledInTheAgenda => IsOfNow(fetch.rows)
    /\ state = "ready" /\ SettledInTheAgenda => IsOfNow(data)

\* The drawer of an event.
DrawerInv ==
    /\ drawerMode = "edit" => editing # Nothing
    /\ Agenda!FormIsOfItsEvent
    /\ Agenda!WaitsForASave

AgendaInv == Agenda!TypeOK /\ WeekExistInv /\ ToastsInv /\ FreshInv /\ DrawerInv

(* The first list is on its way. *)
LEMMA AgendaStarts ==
    ASSUME Agenda!Init
    PROVE  AgendaInv
  <1>1. Agenda!Calendar!Init
            \/ event \in [Events -> {Missing} \cup [status : {"SCHEDULED"}, starts : Week, ends : {Null}]]
    BY DEF Agenda!Init
  <1>2. event \in [Events -> Agenda!Calendar!Row \cup {Missing}]
    BY PagesAssumption DEF Agenda!Init, Agenda!AgendaAssumption, Agenda!Calendar!Row,
       Agenda!Calendar!Statuses
  <1>3. Agenda!Calendar!TypeOK
    <2>1. Agenda!Calendar!Only("unsent") \in {Agenda!Calendar!Only(p) : p \in Agenda!Calendar!Answers
              \cup {"unsent"}}
      OBVIOUS
    <2> QED
      BY <1>2, <2>1 DEF Agenda!Init, Agenda!Calendar!TypeOK
  <1>4. \A r \in Asks : req[r].phase = "unsent" /\ task[r] = "none"
    BY DEF Agenda!Init, Agenda!Calendar!Only
  <1>5. WeekExistInv
    BY <1>4 DEF Agenda!Init, WeekExistInv, Agenda!Calendar!Pending
  <1>6. Agenda!NoRows \in Agenda!Lists
    <2>1. Agenda!NoRows \in [{} -> Agenda!Calendar!Row]
      BY DEF Agenda!NoRows
    <2> QED
      BY <2>1 DEF Agenda!Lists
  <1>7. Agenda!TypeOK
    <2>1. Agenda!EMPTY \in [of : Events \cup {Nothing}, starts : Instants \cup {Null}, ends : Instants
              \cup {Null}]
      BY DEF Agenda!EMPTY
    <2>2. [phase |-> "sent", rows |-> Agenda!NoRows] \in [phase : {"none", "sent", "read"}, rows :
              Agenda!Lists]
      BY <1>6
    <2> QED
      BY <1>3, <1>6, <2>1, <2>2 DEF Agenda!Init, Agenda!TypeOK
  <1>8. ToastsInv
    BY <1>4 DEF ToastsInv, Agenda!Calendar!Pending
  <1>9. FreshInv
    BY DEF Agenda!Init, FreshInv
  <1>10. DrawerInv
    BY PagesAssumption DEF Agenda!AgendaAssumption, Agenda!Init, DrawerInv,
       Agenda!FormIsOfItsEvent, Agenda!WaitsForASave
  <1> QED
    BY <1>5, <1>7, <1>8, <1>9, <1>10 DEF AgendaInv

\* What the page asks of the server is a request of the calendar, and nothing else reaches it.
LEMMA PageIsAClient ==
    ASSUME Agenda!TypeOK, DrawerInv, Agenda!Next
    PROVE  [Agenda!Calendar!Next]_<<event, audit, req>>
  <1>1. ASSUME NEW r \in Asks, NEW op \in {"complete", "cancel"}, NEW e \in Events,
                   Agenda!RunAction(r, op, e)
        PROVE  Agenda!Calendar!Next
    <2>1. Agenda!Click(op, e) \in Agenda!Calendar!Call
      BY DEF Agenda!Click, Agenda!Calendar!Call
    <2> QED
      BY <1>1, <2>1 DEF Agenda!RunAction, Agenda!Calendar!Next
  <1>2. ASSUME NEW r \in Asks, Agenda!HandleSubmit(r)
        PROVE  Agenda!Calendar!Next
    <2>1. form.starts \in Instants /\ form.ends \in Instants \cup {Null}
      BY <1>2 DEF Agenda!HandleSubmit, Agenda!TypeOK
    <2>2. CASE drawerMode = "create"
      <3>1. PICK e \in Events : Agenda!Calendar!Receive(r, Agenda!Body("create", e))
        BY <1>2, <2>2 DEF Agenda!HandleSubmit
      <3>2. Agenda!Body("create", e) \in Agenda!Calendar!Call
        BY <2>1 DEF Agenda!Body, Agenda!Calendar!Call
      <3> QED
        BY <3>1, <3>2 DEF Agenda!Calendar!Next
    <2>3. CASE drawerMode # "create"
      <3>1. Agenda!Calendar!Receive(r, Agenda!Body("update", editing.id)) /\ editing.id \in Events
        BY <1>2, <2>3 DEF Agenda!HandleSubmit, Agenda!Typed, Agenda!TypeOK, DrawerInv
      <3>2. Agenda!Body("update", editing.id) \in Agenda!Calendar!Call
        BY <2>1, <3>1 DEF Agenda!Body, Agenda!Calendar!Call
      <3> QED
        BY <3>1, <3>2 DEF Agenda!Calendar!Next
    <2> QED
      BY <2>2, <2>3
  <1>3. ASSUME NEW r \in Asks, Agenda!ServerStep(r)
        PROVE  Agenda!Calendar!Next
    BY <1>3 DEF Agenda!ServerStep, Agenda!Calendar!Next
  <1>4. ASSUME NEW r \in Asks, Agenda!SaveSucceeds(r) \/ Agenda!SaveFails(r)
                   \/ \E ok \in BOOLEAN : Agenda!ActionEnds(r, ok)
        PROVE  UNCHANGED Agenda!server
    BY <1>4 DEF Agenda!SaveSucceeds, Agenda!SaveFails, Agenda!ActionEnds
  <1>5. ASSUME \/ Agenda!FetchReads \/ Agenda!FetchSucceeds \/ Agenda!FetchFails \/ Agenda!Retry
               \/ Agenda!OpenCreate \/ Agenda!CloseDrawer \/ Agenda!Type
               \/ \E e \in Events : Agenda!OpenEdit(e)
        PROVE  UNCHANGED Agenda!server
    BY <1>5 DEF Agenda!FetchReads, Agenda!FetchSucceeds, Agenda!FetchFails, Agenda!Retry,
       Agenda!OpenCreate, Agenda!CloseDrawer, Agenda!Type, Agenda!OpenEdit, Agenda!Open
  <1> QED
    BY <1>1, <1>2, <1>3, <1>4, <1>5 DEF Agenda!Next, Agenda!server

\* The form an opening, or a new drawer, starts with.
LEMMA FilledIsForm ==
    ASSUME NEW mode, NEW item, item = Nothing \/ item \in [id : Events, row : Agenda!Calendar!Row]
    PROVE  /\ Agenda!Filled(mode, item) \in [of : Events \cup {Nothing}, starts : Instants
                \cup {Null}, ends : Instants \cup {Null}]
           /\ mode = "edit" /\ item # Nothing => Agenda!Filled(mode, item).of = item.id
           /\ mode # "edit" => Agenda!Filled(mode, item).of = Nothing
  BY DEF Agenda!Filled, Agenda!EMPTY, Agenda!Calendar!Row

(* The server answers with rows of the calendar. *)
LEMMA PageIsAList ==
    ASSUME Agenda!TypeOK, NEW S \in Agenda!Pages
    PROVE  [e \in S |-> event[e]] \in Agenda!Lists
  <1>1. S \in SUBSET Events /\ \A e \in S : event[e] \in Agenda!Calendar!Row
    BY DEF Agenda!Pages, Agenda!InWeek, Agenda!TypeOK, Agenda!Calendar!TypeOK
  <1>2. [e \in S |-> event[e]] \in [S -> Agenda!Calendar!Row]
    BY <1>1
  <1> QED
    BY <1>1, <1>2 DEF Agenda!Lists

(* What is listed is an event with its row. *)
LEMMA ListedIsRow ==
    ASSUME Agenda!TypeOK, NEW e \in DOMAIN data
    PROVE  e \in Events /\ data[e] \in Agenda!Calendar!Row
  <1>1. PICK S \in SUBSET Events : data \in [S -> Agenda!Calendar!Row]
    BY DEF Agenda!TypeOK, Agenda!Lists
  <1> QED
    BY <1>1

\* An answer, or an error in its place.
LEMMA AnsweredTask ==
    ASSUME Agenda!TypeOK, ToastsInv, NEW r \in Asks, NEW ok \in BOOLEAN, Agenda!Answered(r, ok),
           task[r] \in {"create", "update", "complete", "cancel"}, UNCHANGED Agenda!server
    PROVE  /\ task' \in [Asks -> {"none", "create", "update", "complete", "cancel", "done", "lost"}]
           /\ \A q \in Asks : q # r => task'[q] = task[q]
           /\ ToastsInv'
           /\ SettledInTheAgenda' => SettledInTheAgenda \/ ok
  <1>1. /\ ok => req[r].phase = "ok"
        /\ task' = [task EXCEPT ![r] = IF ok
             \/ req[r].phase \in {"refused", "failed"} THEN "done" ELSE "lost"]
    BY DEF Agenda!Answered
  <1>2. /\ task' \in [Asks -> {"none", "create", "update", "complete", "cancel", "done", "lost"}]
        /\ \A q \in Asks : q # r => task'[q] = task[q]
        /\ task'[r] = IF ok \/ req[r].phase \in {"refused", "failed"} THEN "done" ELSE "lost"
    BY <1>1 DEF Agenda!TypeOK
  <1>3. UNCHANGED req
    BY DEF Agenda!server
  <1>4. ToastsInv'
    BY <1>1, <1>2, <1>3 DEF ToastsInv, Agenda!Calendar!Pending
  <1>5. SettledInTheAgenda' => SettledInTheAgenda \/ ok
    BY <1>1, <1>2, <1>3 DEF SettledInTheAgenda
  <1> QED
    BY <1>2, <1>4, <1>5

\* A request that is sent.
LEMMA SentTask ==
    ASSUME Agenda!TypeOK, ToastsInv, NEW r \in Asks, NEW c, Agenda!Calendar!Receive(r, c),
           NEW op \in {"create", "update", "complete", "cancel"}, task' = [task EXCEPT ![r] = op]
    PROVE  /\ task' \in [Asks -> {"none", "create", "update", "complete", "cancel", "done", "lost"}]
           /\ UNCHANGED event
           /\ \A q \in Asks : q # r => task'[q] = task[q]
           /\ task[r] = "none" /\ task'[r] = op
           /\ ToastsInv'
           /\ SettledInTheAgenda' => SettledInTheAgenda
  <1>1. /\ req[r].phase = "unsent" /\ req'[r].phase = "sent" /\ UNCHANGED event
        /\ \A q \in Asks : q # r => req'[q] = req[q]
    BY DEF Agenda!Calendar!Receive, Agenda!Calendar!Only, Agenda!TypeOK, Agenda!Calendar!TypeOK
  <1>2. /\ \A q \in Asks : q # r => task'[q] = task[q]
        /\ task' \in [Asks -> {"none", "create", "update", "complete", "cancel", "done", "lost"}]
        /\ task'[r] = op
    BY DEF Agenda!TypeOK
  <1>3. ToastsInv'
    BY <1>1, <1>2 DEF ToastsInv, Agenda!Calendar!Pending
  <1>4. SettledInTheAgenda' => SettledInTheAgenda
    BY <1>1, <1>2 DEF SettledInTheAgenda
  <1> QED
    BY <1>1, <1>2, <1>3, <1>4 DEF ToastsInv

(* A list of now stays one while the calendar stays. *)
LEMMA StillOfNow ==
    ASSUME UNCHANGED event, NEW rows
    PROVE  IsOfNow(rows)' = IsOfNow(rows)
  BY DEF IsOfNow, Agenda!Pages, Agenda!InWeek

\* A list that was read stays the one of now while nothing changes, or while all that changes
\* is still to be answered.
LEMMA FreshStays ==
    ASSUME FreshInv, SettledInTheAgenda' => SettledInTheAgenda /\ UNCHANGED event,
           \/ UNCHANGED <<data, state, fetch>>
           \/ state' # "ready" /\ fetch'.phase # "read"
    PROVE  FreshInv'
  <1>2. CASE UNCHANGED <<data, state, fetch>>
    <2>1. CASE SettledInTheAgenda'
      <3>1. PICK rows, kept : rows = fetch.rows /\ kept = data
        OBVIOUS
      <3>2. fetch'.rows = rows /\ data' = kept /\ fetch'.phase = fetch.phase /\ state' = state
        BY <1>2, <3>1
      <3>3. IsOfNow(rows)' = IsOfNow(rows) /\ IsOfNow(kept)' = IsOfNow(kept)
        BY <2>1, StillOfNow
      <3>4. IsOfNow(fetch.rows)' = IsOfNow(rows)' /\ IsOfNow(data)' = IsOfNow(kept)'
        BY <3>2 DEF IsOfNow
      <3> QED
        BY <2>1, <3>1, <3>2, <3>3, <3>4 DEF FreshInv
    <2>2. CASE ~SettledInTheAgenda'
      BY <2>2 DEF FreshInv
    <2> QED
      BY <2>1, <2>2
  <1>3. CASE state' # "ready" /\ fetch'.phase # "read"
    BY <1>3 DEF FreshInv
  <1> QED
    BY <1>2, <1>3

(* Every step of the agenda keeps its invariant. *)
LEMMA AgendaKeeps ==
    ASSUME AgendaInv, [Agenda!Next]_Agenda!vars
    PROVE  AgendaInv'
  <1>0. Agenda!TypeOK /\ WeekExistInv /\ ToastsInv /\ FreshInv /\ DrawerInv /\ WeekInv
    BY DEF AgendaInv, WeekInv, Agenda!TypeOK
  <1>a. CASE UNCHANGED Agenda!vars
    <2>1. UNCHANGED <<event, data, state, fetch>> /\ (SettledInTheAgenda' => SettledInTheAgenda)
      BY <1>a DEF Agenda!vars, Agenda!server, Agenda!list, SettledInTheAgenda
    <2>2. Agenda!TypeOK' /\ WeekExistInv' /\ ToastsInv'
      BY <1>0, <1>a DEF Agenda!vars, Agenda!server, Agenda!list, Agenda!drawer, Agenda!TypeOK,
         Agenda!Calendar!TypeOK, WeekExistInv, ToastsInv, Agenda!Calendar!Pending
    <2>3. FreshInv'
      BY <1>0, <2>1, FreshStays
    <2>4. DrawerInv'
      BY <1>0, <1>a DEF Agenda!vars, Agenda!server, Agenda!list, Agenda!drawer, DrawerInv,
         Agenda!FormIsOfItsEvent, Agenda!WaitsForASave
    <2> QED
      BY <2>2, <2>3, <2>4 DEF AgendaInv
  <1> SUFFICES ASSUME Agenda!Next
               PROVE  AgendaInv'
    BY <1>a
  <1>1. Agenda!Calendar!TypeOK' /\ WeekExistInv'
    BY <1>0, PageIsAClient, WeekTypes, WeekStays
  <1>2. CASE Agenda!FetchReads
    <2>1. PICK S \in Agenda!Pages : fetch' = [phase |-> "read", rows |-> [e \in S |-> event[e]]]
      BY <1>2 DEF Agenda!FetchReads
    <2>2. fetch' \in [phase : {"none", "sent", "read"}, rows : Agenda!Lists]
      BY <1>0, <2>1, PageIsAList
    <2>3. UNCHANGED <<Agenda!server, data, state, loads, busyId, Agenda!drawer, task>>
              /\ fetch.phase = "sent"
      BY <1>2 DEF Agenda!FetchReads
    <2>4. Agenda!TypeOK' /\ ToastsInv'
      BY <1>0, <1>1, <2>1, <2>2, <2>3 DEF Agenda!TypeOK, Agenda!server, Agenda!drawer, ToastsInv,
         Agenda!Calendar!Pending
    <2>5. Agenda!Pages' = Agenda!Pages
      BY <2>3 DEF Agenda!Pages, Agenda!InWeek, Agenda!server
    <2>6. FreshInv'
      <3>1. state' # "ready"
        BY <1>0, <2>3 DEF Agenda!TypeOK
      <3>2. fetch'.rows = [e \in S |-> event'[e]] /\ S \in Agenda!Pages'
        BY <2>1, <2>3, <2>5 DEF Agenda!server
      <3>3. IsOfNow(fetch.rows)'
        BY <3>2 DEF IsOfNow
      <3> QED
        BY <3>1, <3>3 DEF FreshInv
    <2> QED
      BY <1>0, <1>1, <2>3, <2>4, <2>6 DEF AgendaInv, DrawerInv, Agenda!FormIsOfItsEvent,
         Agenda!WaitsForASave, Agenda!drawer
  <1>3. CASE Agenda!FetchSucceeds
    <2>1. /\ fetch.phase = "read" /\ data' = fetch.rows /\ state' = "ready" /\ fetch' = Agenda!NoFetch
          /\ form' = Agenda!Filled(drawerMode, editing) /\ submitting' = Nothing
          /\ UNCHANGED <<Agenda!server, loads, busyId, drawerMode, editing, task>>
      BY <1>3 DEF Agenda!FetchSucceeds
    <2>2. Agenda!NoFetch \in [phase : {"none", "sent", "read"}, rows : Agenda!Lists]
              /\ Agenda!NoFetch.phase = "none"
      <3>1. Agenda!NoRows \in [{} -> Agenda!Calendar!Row]
        BY DEF Agenda!NoRows
      <3> QED
        BY <3>1 DEF Agenda!Lists, Agenda!NoFetch
    <2>3. Agenda!TypeOK' /\ ToastsInv'
      BY <1>0, <1>1, <2>1, <2>2, FilledIsForm DEF Agenda!TypeOK, Agenda!server, ToastsInv,
         Agenda!Calendar!Pending
    <2>4. FreshInv'
      <3>1. PICK rows : rows = fetch.rows
        OBVIOUS
      <3>2. data' = rows /\ fetch'.phase # "read" /\ (SettledInTheAgenda' => SettledInTheAgenda)
        BY <2>1, <2>2, <3>1 DEF Agenda!server, SettledInTheAgenda
      <3>3. IsOfNow(rows)' = IsOfNow(rows)
        BY <2>1, StillOfNow DEF Agenda!server
      <3>4. IsOfNow(data)' = IsOfNow(rows)'
        BY <3>2 DEF IsOfNow
      <3> QED
        BY <1>0, <2>1, <3>1, <3>2, <3>3, <3>4 DEF FreshInv
    <2>5. DrawerInv'
      BY <1>0, <2>1, FilledIsForm DEF DrawerInv, Agenda!FormIsOfItsEvent, Agenda!WaitsForASave,
         Agenda!TypeOK
    <2> QED
      BY <1>1, <2>3, <2>4, <2>5 DEF AgendaInv
  <1>4. CASE Agenda!FetchFails \/ Agenda!Retry
    <2>1. /\ UNCHANGED <<Agenda!server, data, busyId, Agenda!drawer, task>> /\ loads' \in {loads, loads + 1}
          /\ \/ state' = "error" /\ fetch' = Agenda!NoFetch
             \/ state' = "loading" /\ fetch' = [phase |-> "sent", rows |-> Agenda!NoRows]
      BY <1>4 DEF Agenda!FetchFails, Agenda!Retry, Agenda!Reload
    <2>2. Agenda!NoRows \in Agenda!Lists /\ Agenda!NoFetch = [phase |-> "none", rows |-> Agenda!NoRows]
      <3>1. Agenda!NoRows \in [{} -> Agenda!Calendar!Row]
        BY DEF Agenda!NoRows
      <3> QED
        BY <3>1 DEF Agenda!Lists, Agenda!NoFetch
    <2>3. Agenda!TypeOK' /\ ToastsInv'
      BY <1>0, <1>1, <2>1, <2>2 DEF Agenda!TypeOK, Agenda!server, Agenda!drawer, ToastsInv,
         Agenda!Calendar!Pending
    <2>4. FreshInv'
      BY <2>1, <2>2 DEF FreshInv
    <2>5. DrawerInv'
      BY <1>0, <2>1 DEF DrawerInv, Agenda!FormIsOfItsEvent, Agenda!WaitsForASave, Agenda!drawer
    <2> QED
      BY <1>1, <2>3, <2>4, <2>5 DEF AgendaInv
  <1>5. ASSUME NEW mode \in {"create", "edit"}, NEW item,
               Agenda!Open(mode, item), item = Nothing \/ item \in [id : Events, row : Agenda!Calendar!Row],
               mode = "edit" => item # Nothing
        PROVE  AgendaInv'
    <2>1. /\ state = "ready" /\ drawerMode' = mode /\ editing' = item /\ form' = Agenda!Filled(mode, item)
          /\ UNCHANGED <<Agenda!server, Agenda!list, busyId, submitting, task>>
      BY <1>5 DEF Agenda!Open, Agenda!MayClick
    <2>2. Agenda!TypeOK' /\ ToastsInv'
      BY <1>0, <1>1, <1>5, <2>1, FilledIsForm DEF Agenda!TypeOK, Agenda!server, Agenda!list,
         ToastsInv, Agenda!Calendar!Pending
    <2>3. FreshInv'
      <3>1. UNCHANGED <<event, data, state, fetch>> /\ (SettledInTheAgenda' => SettledInTheAgenda)
        BY <2>1 DEF Agenda!server, Agenda!list, SettledInTheAgenda
      <3> QED
        BY <1>0, <3>1, FreshStays
    <2>4. DrawerInv'
      BY <1>0, <1>5, <2>1, FilledIsForm DEF DrawerInv, Agenda!FormIsOfItsEvent, Agenda!WaitsForASave
    <2> QED
      BY <1>1, <2>2, <2>3, <2>4 DEF AgendaInv
  <1>6. CASE Agenda!OpenCreate
    BY <1>0, <1>5, <1>6 DEF Agenda!OpenCreate, Agenda!TypeOK
  <1>7. ASSUME NEW e \in Events, Agenda!OpenEdit(e)
        PROVE  AgendaInv'
    <2>1. [id |-> e, row |-> data[e]] \in [id : Events, row : Agenda!Calendar!Row]
      BY <1>0, <1>7, ListedIsRow DEF Agenda!OpenEdit, Agenda!Scheduled
    <2>2. [id |-> e, row |-> data[e]] # Nothing
      BY <2>1, PagesAssumption DEF Agenda!AgendaAssumption
    <2> QED
      BY <1>5, <1>7, <2>1, <2>2 DEF Agenda!OpenEdit
  <1>8. CASE Agenda!CloseDrawer \/ Agenda!Type
    <2>1. /\ UNCHANGED <<Agenda!server, Agenda!list, busyId, submitting, task>>
          /\ \/ drawerMode' = Nothing /\ editing' = Nothing /\ UNCHANGED form
             \/ /\ UNCHANGED <<drawerMode, editing>>
                /\ \E s \in Instants, t \in Instants \cup {Null} :
                     form' = [form EXCEPT !.starts = s, !.ends = t]
      BY <1>8 DEF Agenda!CloseDrawer, Agenda!Type
    <2>2. form' \in [of : Events \cup {Nothing}, starts : Instants \cup {Null}, ends : Instants
              \cup {Null}] /\ form'.of = form.of
      BY <1>0, <2>1 DEF Agenda!TypeOK
    <2>3. Agenda!TypeOK' /\ ToastsInv'
      BY <1>0, <1>1, <2>1, <2>2 DEF Agenda!TypeOK, Agenda!server, Agenda!list, ToastsInv,
         Agenda!Calendar!Pending
    <2>4. FreshInv'
      <3>1. UNCHANGED <<event, data, state, fetch>> /\ (SettledInTheAgenda' => SettledInTheAgenda)
        BY <2>1 DEF Agenda!server, Agenda!list, SettledInTheAgenda
      <3> QED
        BY <1>0, <3>1, FreshStays
    <2>5. DrawerInv'
      BY <1>0, <2>1, <2>2, PagesAssumption DEF Agenda!AgendaAssumption, DrawerInv,
         Agenda!FormIsOfItsEvent, Agenda!WaitsForASave, Agenda!list
    <2> QED
      BY <1>1, <2>3, <2>4, <2>5 DEF AgendaInv
  <1>9. ASSUME NEW r \in Asks, Agenda!ServerStep(r)
        PROVE  AgendaInv'
    <2>1. Agenda!Calendar!Serve(r) /\ UNCHANGED <<Agenda!list, busyId, Agenda!drawer, task>>
      BY <1>9 DEF Agenda!ServerStep
    <2>2. /\ \A q \in Asks : q # r => req'[q] = req[q]
          /\ Agenda!Calendar!Pending(r) /\ req'[r].phase \in {"read", "ok", "refused", "failed"}
          /\ UNCHANGED event \/ req'[r].phase = "ok"
      BY <1>0, <2>1 DEF Agenda!Calendar!Serve, Agenda!Calendar!ReadRow, Agenda!Calendar!WriteRow,
         Agenda!Calendar!Abort,
                        Agenda!Calendar!Only, Agenda!Calendar!Pending, Agenda!TypeOK, Agenda!Calendar!TypeOK
    <2>3. task[r] \notin {"none", "done"} /\ UNCHANGED task
      BY <1>0, <2>1, <2>2 DEF ToastsInv, Agenda!Calendar!Pending
    <2>4. Agenda!TypeOK' /\ ToastsInv'
      BY <1>0, <1>1, <2>1, <2>2, <2>3 DEF Agenda!TypeOK, Agenda!list, Agenda!drawer, ToastsInv,
         Agenda!Calendar!Pending
    <2>5. SettledInTheAgenda' => SettledInTheAgenda /\ UNCHANGED event
      BY <2>2, <2>3 DEF SettledInTheAgenda, Agenda!Calendar!Pending
    <2>6. FreshInv'
      BY <1>0, <2>1, <2>5, FreshStays DEF Agenda!list
    <2>7. DrawerInv'
      BY <1>0, <2>1 DEF DrawerInv, Agenda!FormIsOfItsEvent, Agenda!WaitsForASave, Agenda!list,
         Agenda!drawer
    <2> QED
      BY <1>1, <2>4, <2>6, <2>7 DEF AgendaInv
  <1>10. ASSUME NEW r \in Asks, NEW e \in Events, NEW op \in {"complete", "cancel"},
                    Agenda!RunAction(r, op, e)
         PROVE  AgendaInv'
    <2>1. /\ Agenda!Calendar!Receive(r, Agenda!Click(op, e)) /\ task' = [task EXCEPT ![r] = op]
               /\ busyId' = e
          /\ UNCHANGED <<Agenda!list, Agenda!drawer>>
      BY <1>10 DEF Agenda!RunAction
    <2>2. /\ task' \in [Asks -> {"none", "create", "update", "complete", "cancel", "done", "lost"}]
          /\ UNCHANGED event /\ \A q \in Asks : q # r => task'[q] = task[q]
          /\ task[r] = "none" /\ ToastsInv' /\ (SettledInTheAgenda' => SettledInTheAgenda)
      BY <1>0, <2>1, SentTask
    <2>3. Agenda!TypeOK'
      BY <1>0, <1>1, <2>1, <2>2 DEF Agenda!TypeOK, Agenda!list, Agenda!drawer
    <2>4. FreshInv'
      BY <1>0, <2>1, <2>2, FreshStays DEF Agenda!list
    <2>5. DrawerInv'
      BY <1>0, <2>1, <2>2 DEF DrawerInv, Agenda!FormIsOfItsEvent, Agenda!WaitsForASave,
         Agenda!list, Agenda!drawer, Agenda!TypeOK
    <2> QED
      BY <1>1, <2>2, <2>3, <2>4, <2>5 DEF AgendaInv
  <1>11. ASSUME NEW r \in Asks, Agenda!HandleSubmit(r)
         PROVE  AgendaInv'
    <2>1. PICK op \in {"create", "update"} :
            (\E c : Agenda!Calendar!Receive(r, c)) /\ task' = [task EXCEPT ![r] = op]
      BY <1>11 DEF Agenda!HandleSubmit
    <2>2. submitting' = r /\ UNCHANGED <<Agenda!list, busyId, drawerMode, editing, form>>
      BY <1>11 DEF Agenda!HandleSubmit
    <2>3. /\ task' \in [Asks -> {"none", "create", "update", "complete", "cancel", "done", "lost"}]
          /\ UNCHANGED event /\ task'[r] = op /\ ToastsInv' /\ (SettledInTheAgenda' => SettledInTheAgenda)
      BY <1>0, <2>1, SentTask
    <2>4. Agenda!TypeOK'
      BY <1>0, <1>1, <2>2, <2>3 DEF Agenda!TypeOK, Agenda!list
    <2>5. FreshInv'
      BY <1>0, <2>2, <2>3, FreshStays DEF Agenda!list
    <2>6. DrawerInv'
      BY <1>0, <2>2, <2>3 DEF DrawerInv, Agenda!FormIsOfItsEvent, Agenda!WaitsForASave, Agenda!list
    <2> QED
      BY <1>1, <2>3, <2>4, <2>5, <2>6 DEF AgendaInv
  <1>12. ASSUME NEW r \in Asks, NEW ok \in BOOLEAN, Agenda!ActionEnds(r, ok)
         PROVE  AgendaInv'
    <2>1. /\ task[r] \in {"complete", "cancel"} /\ Agenda!Answered(r, ok)
          /\ busyId' = Nothing /\ UNCHANGED <<Agenda!server, Agenda!drawer>>
          /\ \/ /\ ok /\ loads' = loads + 1 /\ state' = "loading" /\ UNCHANGED data
                /\ fetch' = [phase |-> "sent", rows |-> Agenda!NoRows]
             \/ ~ok /\ UNCHANGED Agenda!list
      BY <1>12 DEF Agenda!ActionEnds, Agenda!Reload
    <2>2. /\ task' \in [Asks -> {"none", "create", "update", "complete", "cancel", "done", "lost"}]
          /\ \A q \in Asks : q # r => task'[q] = task[q]
          /\ ToastsInv' /\ (SettledInTheAgenda' => SettledInTheAgenda \/ ok)
      BY <1>0, <2>1, AnsweredTask
    <2>3. [phase |-> "sent", rows |-> Agenda!NoRows] \in [phase : {"none", "sent", "read"}, rows :
              Agenda!Lists]
      <3>1. Agenda!NoRows \in [{} -> Agenda!Calendar!Row]
        BY DEF Agenda!NoRows
      <3> QED
        BY <3>1 DEF Agenda!Lists
    <2>4. Agenda!TypeOK'
      BY <1>0, <1>1, <2>1, <2>2, <2>3 DEF Agenda!TypeOK, Agenda!list, Agenda!drawer
    <2>5. FreshInv'
      <3>1. CASE ok
        BY <2>1, <3>1 DEF FreshInv
      <3>2. CASE ~ok
        BY <1>0, <2>1, <2>2, <3>2, FreshStays DEF Agenda!list, Agenda!server
      <3> QED
        BY <3>1, <3>2
    <2>6. DrawerInv'
      BY <1>0, <2>1, <2>2 DEF DrawerInv, Agenda!FormIsOfItsEvent, Agenda!WaitsForASave,
         Agenda!list, Agenda!drawer, Agenda!TypeOK
    <2> QED
      BY <1>1, <2>2, <2>4, <2>5, <2>6 DEF AgendaInv
  <1>13. ASSUME NEW r \in Asks, Agenda!SaveSucceeds(r)
         PROVE  AgendaInv'
    <2>1. /\ task[r] \in {"create", "update"} /\ Agenda!Answered(r, TRUE)
          /\ drawerMode' = Nothing /\ editing' \in {Nothing, editing} /\ submitting' = Nothing
          /\ UNCHANGED <<Agenda!server, busyId, form>>
          /\ loads' = loads + 1 /\ state' = "loading" /\ UNCHANGED data
          /\ fetch' = [phase |-> "sent", rows |-> Agenda!NoRows]
      BY <1>13 DEF Agenda!SaveSucceeds, Agenda!Reload
    <2>2. /\ task' \in [Asks -> {"none", "create", "update", "complete", "cancel", "done", "lost"}]
          /\ ToastsInv'
      BY <1>0, <2>1, AnsweredTask
    <2>3. [phase |-> "sent", rows |-> Agenda!NoRows] \in [phase : {"none", "sent", "read"}, rows :
              Agenda!Lists]
      <3>1. Agenda!NoRows \in [{} -> Agenda!Calendar!Row]
        BY DEF Agenda!NoRows
      <3> QED
        BY <3>1 DEF Agenda!Lists
    <2>4. Agenda!TypeOK'
      BY <1>0, <1>1, <2>1, <2>2, <2>3 DEF Agenda!TypeOK
    <2>5. FreshInv' /\ DrawerInv'
      BY <2>1, PagesAssumption DEF Agenda!AgendaAssumption, FreshInv, DrawerInv,
         Agenda!FormIsOfItsEvent, Agenda!WaitsForASave
    <2> QED
      BY <1>1, <2>2, <2>4, <2>5 DEF AgendaInv
  <1>14. ASSUME NEW r \in Asks, Agenda!SaveFails(r)
         PROVE  AgendaInv'
    <2>1. /\ task[r] \in {"create", "update"} /\ Agenda!Answered(r, FALSE)
          /\ submitting' = IF submitting = r THEN Nothing ELSE submitting
          /\ UNCHANGED <<Agenda!server, Agenda!list, busyId, drawerMode, editing, form>>
      BY <1>14 DEF Agenda!SaveFails
    <2>2. /\ task' \in [Asks -> {"none", "create", "update", "complete", "cancel", "done", "lost"}]
          /\ \A q \in Asks : q # r => task'[q] = task[q]
          /\ ToastsInv' /\ (SettledInTheAgenda' => SettledInTheAgenda)
      BY <1>0, <2>1, AnsweredTask
    <2>3. Agenda!TypeOK'
      BY <1>0, <1>1, <2>1, <2>2 DEF Agenda!TypeOK, Agenda!list
    <2>4. FreshInv'
      BY <1>0, <2>1, <2>2, FreshStays DEF Agenda!list, Agenda!server
    <2>5. DrawerInv'
      BY <1>0, <2>1, <2>2 DEF DrawerInv, Agenda!FormIsOfItsEvent, Agenda!WaitsForASave,
         Agenda!list, Agenda!TypeOK
    <2> QED
      BY <1>1, <2>2, <2>3, <2>4, <2>5 DEF AgendaInv
  <1> QED
    BY <1>2, <1>3, <1>4, <1>6, <1>7, <1>8, <1>9, <1>10, <1>11, <1>12, <1>13, <1>14 DEF Agenda!Next

(* At rest, the list is the one of now. *)
LEMMA AgendaIsFresh ==
    ASSUME AgendaInv
    PROVE  Agenda!QuietIsFresh
  BY DEF AgendaInv, FreshInv, ToastsInv, Agenda!QuietIsFresh, Agenda!Quiet, SettledInTheAgenda, IsOfNow

-----------------------------------------------------------------------------
(* The drawer of a new lead *)

\* A list of leads the server has, each of them once.
IsListing(rows) ==
    /\ rows \in Seq(Clients)
    /\ \A i \in DOMAIN rows : rows[i] \in stored
    /\ \A i, j \in DOMAIN rows : rows[i] = rows[j] => i = j

\* What is linked exists, and the lists are of leads there are.
QuickInv ==
    /\ Quick!TypeOK
    /\ Quick!LinkedExists
    /\ IsListing(leads) /\ IsListing(listing.rows)
    /\ \A p \in Asks : post[p].server = "created" => post[p].lead \in stored

(* The list before any answer. *)
LEMMA EmptyIsListing == IsListing(<<>>)
  BY DEF IsListing

(* Nothing is linked yet. *)
LEMMA QuickStarts ==
    ASSUME Quick!Init
    PROVE  QuickInv
  <1>1. stored \subseteq Clients /\ leads = <<>> /\ listing = Quick!NoListing /\ leadId = Nothing
            /\ links = {}
    BY DEF Quick!Init
  <1>2. Quick!NoPost \in [server : {"none", "sent", "created", "refused"},
                    client : {"none", "waiting", "done", "failed"},
                    from : 0..MaxOpenings, lead : Clients \cup {Nothing}]
    BY PagesAssumption DEF Quick!NoPost, Quick!QuickLeadAssumption
  <1>3. Quick!NoListing \in [phase : {"none", "sent", "read"}, rows : Seq(Clients)]
    BY DEF Quick!NoListing
  <1>4. Quick!TypeOK
    <2>1. <<>> \in Seq(Clients) /\ opening \in 0..MaxOpenings
      BY PagesAssumption DEF Quick!Init, Quick!QuickLeadAssumption
    <2>2. listing \in [phase : {"none", "sent", "read"}, rows : Seq(Clients)] /\ listing.phase = "none"
      BY <1>1, <1>3 DEF Quick!NoListing
    <2> QED
      BY <1>1, <1>2, <2>1, <2>2 DEF Quick!Init, Quick!TypeOK
  <1>5. \A p \in Asks : post[p].server = "none"
    BY DEF Quick!Init, Quick!NoPost
  <1> QED
    BY <1>1, <1>4, <1>5, EmptyIsListing DEF QuickInv, Quick!LinkedExists, Quick!NoListing

\* The server lists every lead it has once.
LEMMA ServerListing ==
    ASSUME stored \subseteq Clients
    PROVE  IsListing(Quick!SetToSeq(stored))
  <1> DEFINE n == Cardinality(stored)
             s == Quick!SetToSeq(stored)
  <1>1. IsFiniteSet(stored)
    <2>1. IsFiniteSet(Clients)
      BY PagesAssumption, SameInQuick DEF Quick!QuickLeadAssumption
    <2> QED
      BY <2>1, FS_Subset
  <1>2. n \in Nat /\ ExistsBijection(1..n, stored)
    BY <1>1, FS_CardinalityType
  <1>3. \E f \in [1..n -> stored] : Quick!IsInjective(f)
    BY <1>2 DEF ExistsBijection, Bijection, Injection, IsInjective, Quick!IsInjective
  <1>4. s \in [1..n -> stored] /\ Quick!IsInjective(s)
    <2>1. s = CHOOSE f \in [1..n -> stored] : Quick!IsInjective(f)
      BY SameInQuick DEF Quick!SetToSeq
    <2> HIDE DEF s
    <2> QED
      BY <1>3, <2>1
  <1> HIDE DEF s
  <1>5. s \in Seq(Clients) /\ DOMAIN s = 1..n
    BY <1>2, <1>4
  <1> QED
    BY <1>4, <1>5 DEF IsListing, Quick!IsInjective, s

\* A lead that was just created is in the list once.
LEMMA MergedListing ==
    ASSUME NEW current, IsListing(current), NEW l \in stored, stored \subseteq Clients
    PROVE  IsListing(Quick!mergeCreatedLead(current, l))
  <1>1. CASE l \in Quick!ToSet(current)
    BY <1>1 DEF Quick!mergeCreatedLead
  <1>2. CASE l \notin Quick!ToSet(current)
    <2> DEFINE s == <<l>> \o current
    <2>1. current \in Seq(Clients) /\ l \in Clients
      BY DEF IsListing
    <2>2. s \in Seq(Clients) /\ Len(s) = Len(current) + 1 /\ Len(current) \in Nat
              /\ DOMAIN current = 1..Len(current)
      BY <2>1
    <2>3. s[1] = l /\ \A i \in 2..Len(s) : s[i] = current[i - 1]
      BY <2>1
    <2>4. \A i \in DOMAIN current : current[i] # l
      BY <1>2 DEF Quick!ToSet
    <2> HIDE DEF s
    <2>5. DOMAIN s = 1..Len(s)
      BY <2>2
    <2>6. \A i \in DOMAIN s : i = 1 \/ (i \in 2..Len(s) /\ i - 1 \in DOMAIN current)
      BY <2>2, <2>5
    <2>7. \A i \in DOMAIN s : s[i] \in stored
      BY <2>3, <2>6 DEF IsListing
    <2>8. ASSUME NEW i \in DOMAIN s, NEW j \in DOMAIN s, s[i] = s[j]
          PROVE  i = j
      <3>1. CASE i = 1 \/ j = 1
        BY <2>3, <2>4, <2>6, <2>8, <3>1
      <3>2. CASE i # 1 /\ j # 1
        <4>1. current[i - 1] = current[j - 1] /\ i - 1 \in DOMAIN current /\ j - 1 \in DOMAIN current
          BY <2>3, <2>6, <2>8, <3>2
        <4>2. i - 1 = j - 1
          BY <4>1 DEF IsListing
        <4> QED
          BY <2>2, <2>5, <4>2
      <3> QED
        BY <3>1, <3>2
    <2>9. Quick!mergeCreatedLead(current, l) = s
      BY <1>2 DEF Quick!mergeCreatedLead, s
    <2>10. IsListing(s)
      BY <2>2, <2>7, <2>8 DEF IsListing
    <2> QED
      BY <2>9, <2>10
  <1> QED
    BY <1>1, <1>2

\* A list stays one while the server only gains leads.
LEMMA ListingStays ==
    ASSUME NEW rows, IsListing(rows), stored \subseteq stored'
    PROVE  IsListing(rows)'
  BY DEF IsListing

(* Every step of the drawer and its host keeps the invariant. *)
LEMMA QuickKeeps ==
    ASSUME QuickInv, [Quick!Next]_Quick!vars
    PROVE  QuickInv'
  <1> DEFINE Post == [server : {"none", "sent", "created", "refused"},
                      client : {"none", "waiting", "done", "failed"},
                      from : 0..MaxOpenings, lead : Clients \cup {Nothing}]
  <1>0. Quick!TypeOK /\ Quick!LinkedExists /\ IsListing(leads) /\ IsListing(listing.rows)
        /\ \A p \in Asks : post[p].server = "created" => post[p].lead \in stored
    BY DEF QuickInv
  <1>e. <<>> \in Seq(Clients) /\ IsListing(<<>>) /\ IsListing(<<>>)'
    BY EmptyIsListing DEF IsListing
  <1>1. CASE UNCHANGED Quick!vars
    <2>1. UNCHANGED <<stored, links, opening, open, leadId, leads, listing, quickLeadOpen, submitting,
              post>>
      BY <1>1 DEF Quick!vars, Quick!host, Quick!quick
    <2> QED
      BY <1>0, <2>1 DEF QuickInv, Quick!TypeOK, Quick!LinkedExists, IsListing
  <1>2. CASE Quick!OpenHost
    <2>1. /\ open' = TRUE /\ opening' = opening + 1 /\ opening < MaxOpenings
          /\ leadId' \in stored \cup {Nothing}
          /\ listing' = [phase |-> "sent", rows |-> <<>>]
          /\ quickLeadOpen' = FALSE /\ submitting' = FALSE
          /\ UNCHANGED <<stored, links, leads, post>>
      BY <1>2 DEF Quick!OpenHost
    <2>2. Quick!TypeOK'
      <3>1. opening' \in 0..MaxOpenings
        BY <1>0, <2>1, PagesAssumption DEF Quick!TypeOK, Quick!QuickLeadAssumption
      <3>2. leadId' \in Clients \cup {Nothing}
        BY <1>0, <2>1 DEF Quick!TypeOK
      <3>3. listing' \in [phase : {"none", "sent", "read"}, rows : Seq(Clients)]
        BY <1>e, <2>1
      <3> QED
        BY <1>0, <2>1, <3>1, <3>2, <3>3 DEF Quick!TypeOK
    <2>3. Quick!LinkedExists' /\ IsListing(leads)' /\ IsListing(listing.rows)'
      BY <1>0, <1>e, <2>1 DEF Quick!LinkedExists, IsListing
    <2> QED
      BY <1>0, <2>1, <2>2, <2>3 DEF QuickInv
  <1>3. ASSUME Quick!ShutHost, links' \subseteq links \cup {leadId}, UNCHANGED <<stored, post>>
        PROVE  QuickInv'
    <2>1. /\ open' = FALSE /\ listing' = Quick!NoListing /\ submitting' = FALSE
          /\ UNCHANGED <<opening, leadId, leads, quickLeadOpen, stored, post>>
      BY <1>3 DEF Quick!ShutHost
    <2>2. Quick!TypeOK'
      BY <1>0, <1>3, <1>e, <2>1 DEF Quick!TypeOK, Quick!NoListing
    <2>3. Quick!LinkedExists' /\ IsListing(leads)' /\ IsListing(listing.rows)'
      BY <1>0, <1>3, <1>e, <2>1 DEF Quick!LinkedExists, IsListing, Quick!NoListing
    <2> QED
      BY <1>0, <2>1, <2>2, <2>3 DEF QuickInv
  <1>4. CASE Quick!CloseHost \/ Quick!SaveHost
    BY <1>3, <1>4 DEF Quick!CloseHost, Quick!SaveHost
  <1>5. CASE Quick!ServerLists
    <2>1. /\ listing' = [phase |-> "read", rows |-> Quick!SetToSeq(stored)] /\ listing.phase = "sent"
          /\ UNCHANGED <<stored, links, opening, open, leadId, leads, quickLeadOpen, submitting, post>>
      BY <1>5 DEF Quick!ServerLists, Quick!quick
    <2>2. PICK rows : rows = Quick!SetToSeq(stored) /\ IsListing(rows)
      BY <1>0, ServerListing DEF Quick!TypeOK
    <2>3. listing' = [phase |-> "read", rows |-> rows] /\ rows \in Seq(Clients)
      BY <2>1, <2>2 DEF IsListing
    <2>4. Quick!TypeOK'
      BY <1>0, <2>1, <2>3 DEF Quick!TypeOK
    <2>5. Quick!LinkedExists' /\ IsListing(leads)' /\ IsListing(listing.rows)'
      BY <1>0, <2>1, <2>2, <2>3 DEF Quick!LinkedExists, IsListing
    <2> QED
      BY <1>0, <2>1, <2>4, <2>5 DEF QuickInv
  <1>6. CASE Quick!LeadsArrive
    <2>1. /\ leads' \in {<<>>, listing.rows} /\ listing' = Quick!NoListing
          /\ UNCHANGED <<stored, links, opening, open, leadId, quickLeadOpen, submitting, post>>
      BY <1>6 DEF Quick!LeadsArrive, Quick!quick
    <2>2. leads' \in Seq(Clients)
      BY <1>0, <1>e, <2>1 DEF Quick!TypeOK
    <2>3. Quick!TypeOK'
      BY <1>0, <1>e, <2>1, <2>2 DEF Quick!TypeOK, Quick!NoListing
    <2>4. IsListing(leads)' /\ IsListing(listing.rows)'
      BY <1>0, <1>e, <2>1 DEF IsListing, Quick!NoListing
    <2> QED
      BY <1>0, <2>1, <2>3, <2>4 DEF QuickInv, Quick!LinkedExists
  <1>7. CASE Quick!onLeadSelectChange
    <2>1. /\ UNCHANGED <<stored, links, opening, open, leads, listing, submitting, post>>
          /\ leadId' \in Quick!ToSet(leads) \cup {Nothing, leadId}
          /\ quickLeadOpen' \in {TRUE, quickLeadOpen}
      BY <1>7 DEF Quick!onLeadSelectChange
    <2>2. leadId' \in stored \cup {Nothing}
      BY <1>0, <2>1 DEF Quick!LinkedExists, IsListing, Quick!ToSet
    <2> QED
      BY <1>0, <2>1, <2>2 DEF QuickInv, Quick!TypeOK, Quick!LinkedExists, IsListing
  <1>8. CASE Quick!CloseQuick
    <2>1. /\ quickLeadOpen' = FALSE
          /\ UNCHANGED <<stored, links, opening, open, leadId, leads, listing, submitting, post>>
      BY <1>8 DEF Quick!CloseQuick, Quick!host
    <2> QED
      BY <1>0, <2>1 DEF QuickInv, Quick!TypeOK, Quick!LinkedExists, IsListing
  <1>9. ASSUME NEW p \in Asks, Quick!handleSubmit(p)
        PROVE  QuickInv'
    <2> DEFINE x == [server |-> "sent", client |-> "waiting", from |-> opening, lead |-> Nothing]
    <2>1. /\ post' = [post EXCEPT ![p] = x] /\ submitting' = TRUE
          /\ UNCHANGED <<stored, links, opening, open, leadId, leads, listing, quickLeadOpen>>
      BY <1>9 DEF Quick!handleSubmit, Quick!host
    <2>2. x \in Post /\ x.server = "sent"
      BY <1>0 DEF Quick!TypeOK
    <2> HIDE DEF x
    <2>3. post' \in [Asks -> Post] /\ \A q \in Asks : post'[q].server = "created"
              => post'[q].lead \in stored'
      BY <1>0, <2>1, <2>2 DEF Quick!TypeOK
    <2> QED
      BY <1>0, <2>1, <2>3 DEF QuickInv, Quick!TypeOK, Quick!LinkedExists, IsListing
  <1>10. ASSUME NEW p \in Asks, Quick!ServerCreates(p)
         PROVE  QuickInv'
    <2>1. PICK l \in Clients \ stored :
             /\ stored' = stored \cup {l}
             /\ post' = [post EXCEPT ![p].server = "created", ![p].lead = l]
      BY <1>10 DEF Quick!ServerCreates
    <2>2. UNCHANGED <<links, opening, open, leadId, leads, listing, quickLeadOpen, submitting>>
      BY <1>10 DEF Quick!ServerCreates, Quick!host, Quick!quick
    <2>3. post' \in [Asks -> Post] /\ \A q \in Asks : post'[q].server = "created"
              => post'[q].lead \in stored'
      <3>1. PICK x : x = post[p]
        OBVIOUS
      <3>2. post' = [post EXCEPT ![p] = [x EXCEPT !.server = "created", !.lead = l]] /\ x \in Post
        BY <1>0, <2>1, <3>1 DEF Quick!TypeOK
      <3>3. PICK y : y = [x EXCEPT !.server = "created", !.lead = l]
        OBVIOUS
      <3>4. y \in Post /\ y.lead = l
        BY <3>2, <3>3
      <3>5. post' = [post EXCEPT ![p] = y]
        BY <3>2, <3>3
      <3> HIDE DEF Post
      <3>6. post \in [Asks -> Post]
        BY <1>0 DEF Quick!TypeOK, Post
      <3>7. post' \in [Asks -> Post] /\ post'[p] = y /\ \A q \in Asks : q # p => post'[q] = post[q]
        BY <3>4, <3>5, <3>6
      <3> QED
        BY <1>0, <2>1, <3>4, <3>7
    <2>4. IsListing(leads)' /\ IsListing(listing.rows)' /\ Quick!LinkedExists'
      BY <1>0, <2>1, <2>2 DEF IsListing, Quick!LinkedExists
    <2>5. Quick!TypeOK'
      BY <1>0, <2>1, <2>2, <2>3 DEF Quick!TypeOK
    <2> QED
      BY <2>3, <2>4, <2>5 DEF QuickInv
  <1>11. ASSUME NEW p \in Asks, Quick!ServerRefuses(p)
         PROVE  QuickInv'
    <2>1. /\ post' = [post EXCEPT ![p].server = "refused"]
          /\ UNCHANGED <<stored, links, opening, open, leadId, leads, listing, quickLeadOpen, submitting>>
      BY <1>11 DEF Quick!ServerRefuses, Quick!host, Quick!quick
    <2>2. post' \in [Asks -> Post] /\ \A q \in Asks : post'[q].server = "created"
              => post'[q].lead \in stored'
      BY <1>0, <2>1 DEF Quick!TypeOK
    <2> QED
      BY <1>0, <2>1, <2>2 DEF QuickInv, Quick!TypeOK, Quick!LinkedExists, IsListing
  <1>12. ASSUME NEW p \in Asks, Quick!PostSucceeds(p)
         PROVE  QuickInv'
    <2>1. PICK l \in Quick!Answer(p) : leads' = Quick!mergeCreatedLead(leads, l) /\ leadId' = l
      BY <1>12 DEF Quick!PostSucceeds
    <2>2. /\ quickLeadOpen' = FALSE /\ post' = [post EXCEPT ![p].client = "done"]
          /\ UNCHANGED <<stored, links, opening, open, listing, submitting>>
      BY <1>12 DEF Quick!PostSucceeds
    <2>3. l \in stored /\ l \in Clients
      BY <1>0, <2>1 DEF Quick!Answer, Quick!TypeOK
    <2>4. PICK new : new = Quick!mergeCreatedLead(leads, l) /\ IsListing(new)
      BY <1>0, <2>3, MergedListing DEF Quick!TypeOK
    <2>5. leads' = new /\ new \in Seq(Clients)
      BY <2>1, <2>4 DEF IsListing
    <2>6. post' \in [Asks -> Post] /\ \A q \in Asks : post'[q].server = "created"
              => post'[q].lead \in stored'
      BY <1>0, <2>2 DEF Quick!TypeOK
    <2>7. IsListing(leads)' /\ IsListing(listing.rows)' /\ Quick!LinkedExists'
      BY <1>0, <2>1, <2>2, <2>3, <2>4, <2>5 DEF IsListing, Quick!LinkedExists
    <2>8. Quick!TypeOK'
      BY <1>0, <2>1, <2>2, <2>3, <2>5, <2>6 DEF Quick!TypeOK
    <2> QED
      BY <2>6, <2>7, <2>8 DEF QuickInv
  <1>13. ASSUME NEW p \in Asks, Quick!PostFails(p)
         PROVE  QuickInv'
    <2>1. /\ submitting' \in {FALSE, submitting} /\ post' = [post EXCEPT ![p].client = "failed"]
          /\ UNCHANGED <<stored, links, opening, open, leadId, leads, listing, quickLeadOpen>>
      BY <1>13 DEF Quick!PostFails, Quick!host
    <2>2. post' \in [Asks -> Post] /\ \A q \in Asks : post'[q].server = "created"
              => post'[q].lead \in stored'
      BY <1>0, <2>1 DEF Quick!TypeOK
    <2> QED
      BY <1>0, <2>1, <2>2 DEF QuickInv, Quick!TypeOK, Quick!LinkedExists, IsListing
  <1> QED
    BY <1>1, <1>2, <1>4, <1>5, <1>6, <1>7, <1>8, <1>9, <1>10, <1>11, <1>12, <1>13 DEF Quick!Next

(* No lead is in the select twice. *)
LEMMA QuickIsListed ==
    ASSUME QuickInv
    PROVE  Quick!ListedOnce
  BY DEF QuickInv, IsListing, Quick!ListedOnce

-----------------------------------------------------------------------------
(* The board of leads *)

\* A move is of a lead there is, to a stage there is; a creation has its form.
CallsInv ==
    \A c \in Asks :
        /\ call[c].kind = "move" => call[c].lead \in Board!Stored /\ call[c].to \in Board!Stages
        /\ call[c].kind = "create" => call[c].form \in Board!Forms

\* The cards are of leads there are.
CardsInv ==
    /\ \A i \in DOMAIN shown : shown[i].id \in Board!Stored
    /\ \A i \in DOMAIN fetch.rows : fetch.rows[i].id \in Board!Stored

\* Every write that the server made for this page has been answered.
Told == \A c \in Asks : Board!OfThisPage(c) => call[c].server # "done"

\* The cards the board has, or is about to have, are the leads of now, while nothing was
\* written that the page does not know of.
CardsAreFresh ==
    ~behind /\ Told =>
        /\ fetch.phase = "read" => fetch.rows = Board!Listing
        /\ state = "ready" => shown = Board!Listing

\* A creation that a drawer waits for is of the drawer on the screen, which is disabled.
MountedInv ==
    /\ \A c \in Asks : call[c].mounted => state = "ready" /\ submitting /\ call[c].kind = "create"
    /\ Board!WaitsForACreate

\* The board: its parts together.
BoardInv == Board!TypeOK /\ CallsInv /\ CardsInv /\ CardsAreFresh /\ Board!BusyCardIsFreed /\ MountedInv

-----------------------------------------------------------------------------
(* A call that was not made, and one that is over. *)
LEMMA BoardNoCallIsCall == Board!NoCall \in Board!Call /\ Board!Over \in Board!Call
                               /\ Board!NoCall.mounted = FALSE /\ Board!Over.mounted = FALSE
                           /\ Board!NoCall.kind = "none" /\ Board!Over.kind = "over"
                                /\ Board!NoCall.server = "none"
                           /\ Board!Over.server = "none" /\ Board!NoCall.waiting = FALSE
                                /\ Board!Over.waiting = FALSE
  <1>1. Board!NoCall \in Board!Call /\ Board!NoCall.mounted = FALSE /\ Board!NoCall.kind = "none"
            /\ Board!NoCall.server = "none" /\ Board!NoCall.waiting = FALSE
    BY PagesAssumption DEF Board!NoCall, Board!Call, Board!LeadBoardAssumption
  <1>2. Board!Over = [Board!NoCall EXCEPT !.kind = "over"]
    BY DEF Board!Over
  <1> QED
    BY <1>1, <1>2 DEF Board!Call

(* An empty form, and a listing that is asked for. *)
LEMMA EmptyIsForm == Board!EMPTY \in Board!Forms /\ Board!Asked.phase = "sent"
                         /\ Board!NoFetch.phase = "none" /\ Board!Asked # Board!NoFetch
                     /\ Board!Asked \in [phase : {"none", "sent", "read"}, rows : Seq(Board!Card)]
                     /\ Board!NoFetch \in [phase : {"none", "sent", "read"}, rows : Seq(Board!Card)]
                     /\ Board!Asked.rows = <<>> /\ Board!NoFetch.rows = <<>>
  BY PagesAssumption DEF Board!EMPTY, Board!Forms, Board!Stages, Board!LeadBoardAssumption,
     Board!Asked, Board!NoFetch

\* The cards a listing gives.
LEMMA ListingIsCards ==
    ASSUME Board!TypeOK
    PROVE  Board!Listing \in Seq(Board!Card)
               /\ \A i \in DOMAIN Board!Listing : Board!Listing[i].id \in Board!Stored
  <1> DEFINE k == IF Len(recent) < CardsOfABoard THEN Len(recent) ELSE CardsOfABoard
             rows == SubSeq(recent, 1, k)
  <1>1. recent \in Seq(Clients) /\ CardsOfABoard \in Nat
            /\ \A i \in DOMAIN recent : recent[i] \in Board!Stored
    BY PagesAssumption DEF Board!TypeOK, Board!ToSet, Board!LeadBoardAssumption
  <1>2. k \in 0 .. Len(recent) /\ k \in Nat /\ Len(recent) \in Nat /\ DOMAIN recent = 1 .. Len(recent)
    BY <1>1
  <1> HIDE DEF k
  <1>3. Len(rows) = k /\ \A i \in 1 .. k : rows[i] = recent[i]
    BY <1>1, <1>2
  <1> HIDE DEF rows
  <1>4. \A i \in 1 .. k : rows[i] \in Board!Stored
    BY <1>1, <1>2, <1>3
  <1>5. \A l \in Board!Stored : l \in Clients /\ lead[l].stage \in Board!Stages
    BY DEF Board!TypeOK, Board!Stored, Board!Row
  <1>6. \A i \in 1 .. k : [id |-> rows[i], stage |-> lead[rows[i]].stage] \in Board!Card
    BY <1>4, <1>5 DEF Board!Card
  <1>7. Board!Listing = [i \in 1 .. k |-> [id |-> rows[i], stage |-> lead[rows[i]].stage]]
    BY <1>3 DEF Board!Listing, rows, k
  <1>8. Board!Listing \in Seq(Board!Card)
    BY <1>2, <1>6, <1>7
  <1> QED
    BY <1>2, <1>4, <1>7, <1>8

\* The list of leads without one of them.
LEMMA Removed ==
    ASSUME NEW s \in Seq(Clients), Board!IsInjective(s), NEW i \in DOMAIN s
    PROVE  LET t == Board!RemoveAt(s, i) IN
           /\ t \in Seq(Clients) /\ Board!IsInjective(t)
           /\ Board!ToSet(t) = Board!ToSet(s) \ {s[i]}
  <1> DEFINE n == Len(s)
             t == Board!RemoveAt(s, i)
  <1>1. n \in Nat /\ i \in 1 .. n /\ DOMAIN s = 1 .. n
    OBVIOUS
  <1>2. /\ SubSeq(s, 1, i - 1) \in Seq(Clients) /\ Len(SubSeq(s, 1, i - 1)) = i - 1
        /\ \A j \in 1 .. (i - 1) : SubSeq(s, 1, i - 1)[j] = s[j]
    BY <1>1
  <1>3. /\ SubSeq(s, i + 1, n) \in Seq(Clients) /\ Len(SubSeq(s, i + 1, n)) = n - i
        /\ \A j \in 1 .. (n - i) : SubSeq(s, i + 1, n)[j] = s[i + j]
    BY <1>1
  <1> DEFINE a == SubSeq(s, 1, i - 1)
             b == SubSeq(s, i + 1, n)
  <1>4. t = a \o b
    BY DEF Board!RemoveAt
  <1> HIDE DEF t, n, a, b
  <1>b. a \in Seq(Clients) /\ b \in Seq(Clients) /\ Len(a) = i - 1 /\ Len(b) = n - i
    BY <1>2, <1>3 DEF a, b
  <1>5. t \in Seq(Clients) /\ Len(t) = n - 1
    <2>1. a \o b \in Seq(Clients) /\ Len(a \o b) = Len(a) + Len(b)
      BY <1>b
    <2>2. (i - 1) + (n - i) = n - 1
      BY <1>1
    <2> QED
      BY <1>4, <1>b, <2>1, <2>2
  <1>6. \A j \in 1 .. (n - 1) : t[j] = IF j < i THEN s[j] ELSE s[j + 1]
    <2>1. SUFFICES ASSUME NEW j \in 1 .. (n - 1)
                   PROVE  t[j] = IF j < i THEN s[j] ELSE s[j + 1]
      OBVIOUS
    <2>2. CASE j < i
      <3>1. t[j] = a[j]
        BY <1>1, <1>4, <1>b, <2>1, <2>2
      <3> QED
        BY <1>1, <1>2, <2>1, <2>2, <3>1 DEF a
    <2>3. CASE ~(j < i)
      <3>1. t[j] = b[j - (i - 1)] /\ j - (i - 1) \in 1 .. (n - i)
        BY <1>1, <1>4, <1>b, <2>1, <2>3
      <3>2. i + (j - (i - 1)) = j + 1
        BY <1>1, <2>1
      <3>3. b[j - (i - 1)] = s[i + (j - (i - 1))]
        BY <1>3, <3>1 DEF b
      <3> QED
        BY <2>3, <3>1, <3>2, <3>3
    <2> QED
      BY <2>2, <2>3
  <1>7. DOMAIN t = 1 .. (n - 1)
    BY <1>5, <1>1
  <1>c. \A p, q \in 1 .. n : s[p] = s[q] => p = q
    BY <1>1 DEF Board!IsInjective
  <1>8. Board!IsInjective(t)
    <2>1. SUFFICES ASSUME NEW p \in 1 .. (n - 1), NEW q \in 1 .. (n - 1), t[p] = t[q]
                   PROVE  p = q
      BY <1>7 DEF Board!IsInjective
    <2>2. p \in 1 .. n /\ q \in 1 .. n /\ p + 1 \in 1 .. n /\ q + 1 \in 1 .. n
      BY <1>1
    <2>3. (IF p < i THEN p ELSE p + 1) = (IF q < i THEN q ELSE q + 1)
      BY <1>6, <1>c, <2>1, <2>2
    <2> QED
      BY <1>1, <2>3
  <1>9. \A j \in 1 .. n : j # i => \E m \in 1 .. (n - 1) : t[m] = s[j]
    <2>1. SUFFICES ASSUME NEW j \in 1 .. n, j # i
                   PROVE  \E m \in 1 .. (n - 1) : t[m] = s[j]
      OBVIOUS
    <2>2. CASE j < i
      BY <1>1, <1>6, <2>1, <2>2
    <2>3. CASE j > i
      <3>1. j - 1 \in 1 .. (n - 1) /\ ~(j - 1 < i) /\ (j - 1) + 1 = j
        BY <1>1, <2>1, <2>3
      <3>2. t[j - 1] = s[j]
        BY <1>6, <3>1
      <3> QED
        BY <3>1, <3>2
    <2> QED
      BY <1>1, <2>1, <2>2, <2>3
  <1>10. \A m \in 1 .. (n - 1) : \E j \in 1 .. n : j # i /\ t[m] = s[j]
    <2>1. SUFFICES ASSUME NEW m \in 1 .. (n - 1)
                   PROVE  \E j \in 1 .. n : j # i /\ t[m] = s[j]
      OBVIOUS
    <2>2. CASE m < i
      BY <1>1, <1>6, <2>1, <2>2
    <2>3. CASE ~(m < i)
      <3>1. m + 1 \in 1 .. n /\ m + 1 # i
        BY <1>1, <2>1, <2>3
      <3> QED
        BY <1>6, <2>1, <2>3, <3>1
    <2> QED
      BY <2>2, <2>3
  <1>11. Board!ToSet(t) = Board!ToSet(s) \ {s[i]}
    <2>1. \A x \in Board!ToSet(t) : x \in Board!ToSet(s) /\ x # s[i]
      <3>1. SUFFICES ASSUME NEW m \in 1 .. (n - 1)
                     PROVE  t[m] \in Board!ToSet(s) /\ t[m] # s[i]
        BY <1>7 DEF Board!ToSet
      <3>2. PICK j \in 1 .. n : j # i /\ t[m] = s[j]
        BY <1>10
      <3> QED
        BY <1>1, <1>c, <3>2 DEF Board!ToSet
    <2>2. \A x \in Board!ToSet(s) \ {s[i]} : x \in Board!ToSet(t)
      <3>1. SUFFICES ASSUME NEW j \in 1 .. n, s[j] # s[i]
                     PROVE  s[j] \in Board!ToSet(t)
        BY <1>1 DEF Board!ToSet
      <3>2. PICK m \in 1 .. (n - 1) : t[m] = s[j]
        BY <1>9, <3>1
      <3> QED
        BY <1>7, <3>2 DEF Board!ToSet
    <2> QED
      BY <2>1, <2>2
  <1> QED
    BY <1>5, <1>8, <1>11 DEF t

\* A lead that is written comes first, and the others stay.
LEMMA WrittenLeads ==
    ASSUME Board!TypeOK, NEW l \in Clients
    PROVE  /\ Board!Written(l) \in Seq(Clients) /\ Board!IsInjective(Board!Written(l))
           /\ Board!ToSet(Board!Written(l)) = Board!Stored \cup {l}
  <1>1. recent \in Seq(Clients) /\ Board!IsInjective(recent) /\ Board!ToSet(recent) = Board!Stored
    BY DEF Board!TypeOK
  <1>2. PICK t : /\ t \in Seq(Clients) /\ Board!IsInjective(t) /\ Board!ToSet(t) = Board!Stored \ {l}
                 /\ Board!Written(l) = <<l>> \o t
    <2>1. CASE l \in Board!ToSet(recent)
      <3> DEFINE i == CHOOSE i \in DOMAIN recent : recent[i] = l
      <3>1. i \in DOMAIN recent /\ recent[i] = l
        BY <2>1 DEF Board!ToSet
      <3> HIDE DEF i
      <3>2. /\ Board!RemoveAt(recent, i) \in Seq(Clients) /\ Board!IsInjective(Board!RemoveAt(recent, i))
            /\ Board!ToSet(Board!RemoveAt(recent, i)) = Board!Stored \ {l}
        BY <1>1, <3>1, Removed
      <3>3. Board!Written(l) = <<l>> \o Board!RemoveAt(recent, i)
        BY <2>1 DEF Board!Written, i
      <3> QED
        BY <3>2, <3>3
    <2>2. CASE l \notin Board!ToSet(recent)
      BY <1>1, <2>2 DEF Board!Written
    <2> QED
      BY <2>1, <2>2
  <1>3. /\ <<l>> \o t \in Seq(Clients) /\ Len(<<l>> \o t) = Len(t) + 1 /\ Len(t) \in Nat
        /\ (<<l>> \o t)[1] = l /\ \A i \in 2 .. (Len(t) + 1) : (<<l>> \o t)[i] = t[i - 1]
        /\ DOMAIN t = 1 .. Len(t)
    BY <1>2
  <1> DEFINE s == <<l>> \o t
  <1>4. DOMAIN s = 1 .. (Len(t) + 1)
    BY <1>3
  <1> HIDE DEF s
  <1>5. \A i \in DOMAIN s : i = 1 \/ (i \in 2 .. (Len(t) + 1) /\ i - 1 \in DOMAIN t)
    BY <1>3, <1>4
  <1>6. \A j \in DOMAIN t : j + 1 \in DOMAIN s /\ s[j + 1] = t[j] /\ t[j] # l
    <2>1. SUFFICES ASSUME NEW j \in DOMAIN t
                   PROVE  j + 1 \in DOMAIN s /\ s[j + 1] = t[j] /\ t[j] # l
      OBVIOUS
    <2>2. j + 1 \in 2 .. (Len(t) + 1) /\ (j + 1) - 1 = j
      BY <1>3
    <2>3. t[j] \in Board!Stored \ {l}
      BY <1>2 DEF Board!ToSet
    <2> QED
      BY <1>3, <1>4, <2>2, <2>3 DEF s
  <1>7. s[1] = l /\ 1 \in DOMAIN s /\ \A i \in DOMAIN s : i # 1 => i - 1 \in DOMAIN t /\ s[i] = t[i - 1]
    BY <1>3, <1>4, <1>5 DEF s
  <1>8. Board!ToSet(s) = Board!Stored \cup {l}
    <2>1. \A x \in Board!ToSet(s) : x \in Board!Stored \cup {l}
      BY <1>2, <1>7 DEF Board!ToSet
    <2>2. \A x \in Board!Stored \ {l} : x \in Board!ToSet(s)
      BY <1>2, <1>6 DEF Board!ToSet
    <2>3. l \in Board!ToSet(s)
      BY <1>7 DEF Board!ToSet
    <2> QED
      BY <2>1, <2>2, <2>3
  <1>9. Board!IsInjective(s)
    <2>1. SUFFICES ASSUME NEW i \in DOMAIN s, NEW j \in DOMAIN s, s[i] = s[j]
                   PROVE  i = j
      BY DEF Board!IsInjective
    <2>2. CASE i = 1 \/ j = 1
      BY <1>6, <1>7, <2>1, <2>2
    <2>3. CASE i # 1 /\ j # 1
      <3>1. i - 1 = j - 1
        BY <1>2, <1>7, <2>1, <2>3 DEF Board!IsInjective
      <3> QED
        BY <1>3, <1>4, <3>1
    <2> QED
      BY <2>2, <2>3
  <1> QED
    BY <1>2, <1>3, <1>8, <1>9 DEF s

(* The first listing is on its way. *)
LEMMA BoardStarts ==
    ASSUME Board!Init
    PROVE  BoardInv
  <1>1. PICK S \in SUBSET Clients :
           /\ recent = Board!SetToSeq(S)
           /\ lead = [l \in Clients |-> IF l \in S THEN [stage |-> 1, cents |-> Nothing, typed |-> "empty"]
                                                ELSE Nothing]
    BY DEF Board!Init
  <1>2. [stage |-> 1, cents |-> Nothing, typed |-> "empty"] \in Board!Row /\ Nothing \notin Board!Row
    BY PagesAssumption DEF Board!Row, Board!Stages, Board!LeadBoardAssumption
  <1>3. lead \in [Clients -> {Nothing} \cup Board!Row] /\ Board!Stored = S
    BY <1>1, <1>2 DEF Board!Stored
  <1>4. recent \in Seq(Clients) /\ Board!ToSet(recent) = Board!Stored /\ Board!IsInjective(recent)
    <2> DEFINE n == Cardinality(S)
    <2>1. IsFiniteSet(S) /\ n \in Nat
      <3>1. IsFiniteSet(Clients)
        BY PagesAssumption, SameInBoard DEF Board!LeadBoardAssumption
      <3> QED
        BY <3>1, FS_Subset, FS_CardinalityType
    <2>2. ExistsBijection(1..n, S)
      BY <2>1, FS_CardinalityType
    <2>3. \E f \in [1..n -> S] : Board!IsInjective(f)
      BY <2>2 DEF ExistsBijection, Bijection, Injection, IsInjective, Board!IsInjective
    <2>4. recent \in [1..n -> S] /\ Board!IsInjective(recent)
      <3>1. recent = CHOOSE f \in [1..n -> S] : Board!IsInjective(f)
        BY <1>1, SameInBoard DEF Board!SetToSeq
      <3> HIDE DEF n
      <3> QED
        BY <2>3, <3>1
    <2> HIDE DEF n
    <2>5. recent \in Injection(1..n, S)
      BY <2>4 DEF Injection, IsInjective, Board!IsInjective
    <2>6. Cardinality(1..n) = n
      BY <2>1, FS_Interval
    <2>7. recent \in Surjection(1..n, S)
      <3>1. Cardinality(1..n) = Cardinality(S)
        BY <2>6 DEF n
      <3> QED
        BY <2>1, <2>5, <3>1, FS_Injection
    <2>8. Board!ToSet(recent) = S
      BY <2>4, <2>7 DEF Board!ToSet, Surjection
    <2>9. recent \in Seq(Clients)
      BY <2>1, <2>4
    <2> QED
      BY <1>3, <2>4, <2>8, <2>9
  <1>5. call = [c \in Asks |-> Board!NoCall] /\ shown = <<>> /\ fetch = Board!Asked /\ state = "loading"
    BY DEF Board!Init
  <1>6. Board!TypeOK
    <2>1. 0 \in 0 .. MaxOthers /\ 1 \in 1 .. MaxVisits
      BY PagesAssumption DEF Board!LeadBoardAssumption
    <2>2. shown \in Seq(Board!Card) /\ call \in [Asks -> Board!Call]
      BY <1>5, BoardNoCallIsCall
    <2> QED
      BY <1>3, <1>4, <1>5, <2>1, <2>2, EmptyIsForm DEF Board!Init, Board!TypeOK
  <1>7. CallsInv /\ CardsInv /\ MountedInv
    BY <1>5, BoardNoCallIsCall, EmptyIsForm DEF CallsInv, CardsInv, MountedInv, Board!WaitsForACreate
  <1>8. CardsAreFresh /\ Board!BusyCardIsFreed
    BY <1>5, EmptyIsForm DEF Board!Init, CardsAreFresh, Board!BusyCardIsFreed
  <1> QED
    BY <1>6, <1>7, <1>8 DEF BoardInv

-----------------------------------------------------------------------------
\* What a step may do to a call: begin a move or a creation, answer it, end it, take the
\* drawer that waits for it away; all the others stay.
Moved(card, d) == [Board!NoCall EXCEPT !.kind = "move", !.server = "sent", !.waiting = TRUE,
                                       !.lead = card.id, !.from = card.stage,
                                       !.to = card.stage + d, !.visit = visit]
Created == [Board!NoCall EXCEPT !.kind = "create", !.server = "sent", !.waiting = TRUE,
                                !.to = form.stage, !.form = form, !.visit = visit, !.mounted = TRUE]

(* What is sent is a move of the card, or a creation from the form. *)
LEMMA NewCalls ==
    ASSUME Board!TypeOK
    PROVE  /\ \A i \in DOMAIN shown, d \in {1, -1} :
                shown[i].stage + d \in Board!Stages =>
                  /\ shown[i] \in Board!Card /\ Moved(shown[i], d) \in Board!Call
                  /\ Moved(shown[i], d).kind = "move" /\ Moved(shown[i], d).lead = shown[i].id
                  /\ Moved(shown[i], d).to \in Board!Stages
                  /\ Moved(shown[i], d).server = "sent" /\ Moved(shown[i], d).waiting = TRUE
                  /\ Moved(shown[i], d).visit = visit /\ Moved(shown[i], d).mounted = FALSE
           /\ /\ Created \in Board!Call /\ Created.kind = "create" /\ Created.form = form
              /\ Created.server = "sent" /\ Created.waiting = TRUE
              /\ Created.visit = visit /\ Created.mounted = TRUE
  <1>1. visit \in 0 .. MaxVisits /\ form \in Board!Forms /\ form.stage \in 0 .. LastStage
    BY PagesAssumption DEF Board!TypeOK, Board!Forms, Board!Stages, Board!LeadBoardAssumption
  <1>2. ASSUME NEW i \in DOMAIN shown, NEW d \in {1, -1}, shown[i].stage + d \in Board!Stages
        PROVE  /\ shown[i] \in Board!Card /\ Moved(shown[i], d) \in Board!Call
               /\ Moved(shown[i], d).kind = "move" /\ Moved(shown[i], d).lead = shown[i].id
               /\ Moved(shown[i], d).to \in Board!Stages
               /\ Moved(shown[i], d).server = "sent" /\ Moved(shown[i], d).waiting = TRUE
               /\ Moved(shown[i], d).visit = visit /\ Moved(shown[i], d).mounted = FALSE
    <2>1. shown[i] \in Board!Card
      BY DEF Board!TypeOK
    <2>2. PICK l, s, t, v : l = shown[i].id /\ s = shown[i].stage /\ t = shown[i].stage + d /\ v = visit
      OBVIOUS
    <2>3. l \in Clients /\ s \in 0 .. LastStage /\ t \in 0 .. LastStage /\ v \in 0 .. MaxVisits
      BY <1>1, <1>2, <2>1, <2>2, PagesAssumption DEF Board!Card, Board!Stages, Board!LeadBoardAssumption
    <2>4. Moved(shown[i], d) = [Board!NoCall EXCEPT !.kind = "move", !.server = "sent", !.waiting = TRUE,
                                 !.lead = l, !.from = s, !.to = t, !.visit = v]
      BY <2>2 DEF Moved
    <2> QED
      BY <1>2, <2>1, <2>2, <2>3, <2>4, BoardNoCallIsCall DEF Board!Call
  <1>3. /\ Created \in Board!Call /\ Created.kind = "create" /\ Created.form = form
        /\ Created.server = "sent" /\ Created.waiting = TRUE
        /\ Created.visit = visit /\ Created.mounted = TRUE
    <2>1. PICK f, t, v : f = form /\ t = form.stage /\ v = visit
      OBVIOUS
    <2>2. Created = [Board!NoCall EXCEPT !.kind = "create", !.server = "sent", !.waiting = TRUE,
                          !.to = t, !.form = f, !.visit = v, !.mounted = TRUE]
      BY <2>1 DEF Created
    <2> QED
      BY <1>1, <2>1, <2>2, BoardNoCallIsCall DEF Board!Call
  <1> QED
    BY <1>2, <1>3

\* y is x, unless the drawer that waited for it is gone.
Kept(x, y) ==
    /\ y.kind = x.kind /\ y.server = x.server /\ y.waiting = x.waiting /\ y.visit = x.visit
    /\ y.lead = x.lead /\ y.to = x.to /\ y.form = x.form
    /\ y.mounted => x.mounted

(* A call that nothing happened to. *)
LEMMA KeptIsRefl == \A x : Kept(x, x)
  BY DEF Kept

(* A reload takes the drawers away and leaves the calls. *)
LEMMA UnmountedCalls ==
    ASSUME NEW f \in [Asks -> Board!Call]
    PROVE  /\ Board!Unmounted(f) \in [Asks -> Board!Call]
           /\ \A c \in Asks : Kept(f[c], Board!Unmounted(f)[c]) /\ Board!Unmounted(f)[c].mounted = FALSE
  <1>1. SUFFICES ASSUME NEW c \in Asks
                 PROVE  /\ [f[c] EXCEPT !.mounted = FALSE] \in Board!Call
                        /\ Kept(f[c], [f[c] EXCEPT !.mounted = FALSE])
                        /\ [f[c] EXCEPT !.mounted = FALSE].mounted = FALSE
    BY DEF Board!Unmounted
  <1>2. PICK x \in Board!Call : x = f[c]
    OBVIOUS
  <1>3. [x EXCEPT !.mounted = FALSE] \in Board!Call /\ [x EXCEPT !.mounted = FALSE].mounted = FALSE
    BY DEF Board!Call
  <1>4. Kept(x, [x EXCEPT !.mounted = FALSE])
    BY DEF Board!Call, Kept
  <1> QED
    BY <1>2, <1>3, <1>4

\* The steps of the page that neither call nor are answered.
LEMMA BoardPageSteps ==
    ASSUME BoardInv,
           \/ Board!ServerLists \/ Board!ListingArrives \/ Board!ListingFails \/ Board!Retry
           \/ Board!OpenDrawer \/ Board!CloseDrawer \/ Board!Typing
    PROVE  BoardInv'
  <1>0. Board!TypeOK /\ CallsInv /\ CardsInv /\ CardsAreFresh /\ Board!BusyCardIsFreed /\ MountedInv
    BY DEF BoardInv
  <1>1. /\ UNCHANGED <<lead, recent, contacts, others, visit, movingId, call>>
        /\ Board!Stored' = Board!Stored /\ Board!Listing' = Board!Listing /\ Told' = Told
    <2>1. UNCHANGED <<lead, recent, contacts, others, visit, movingId, call>>
      BY DEF Board!ServerLists, Board!ListingArrives, Board!ListingFails, Board!Retry,
         Board!OpenDrawer, Board!CloseDrawer, Board!Typing, Board!server, Board!drawer
    <2> QED
      BY <2>1 DEF Board!Stored, Board!Listing, Told, Board!OfThisPage, Board!InFlight
  <1>2. CallsInv' /\ Board!BusyCardIsFreed'
    BY <1>0, <1>1 DEF CallsInv, Board!BusyCardIsFreed, Board!OfThisPage, Board!InFlight
  <1>3. CASE Board!ServerLists
    <2>1. /\ fetch.phase = "sent" /\ fetch' = [phase |-> "read", rows |-> Board!Listing] /\ behind' = FALSE
          /\ UNCHANGED <<state, shown, drawerOpen, form, submitting>>
      BY <1>3 DEF Board!ServerLists, Board!drawer
    <2>2. PICK rows : rows = Board!Listing /\ rows \in Seq(Board!Card)
                   /\ \A i \in DOMAIN rows : rows[i].id \in Board!Stored
      BY <1>0, ListingIsCards
    <2>3. fetch' \in [phase : {"none", "sent", "read"}, rows : Seq(Board!Card)] /\ fetch' # Board!NoFetch
              /\ fetch'.rows = rows
          /\ fetch # Board!NoFetch
      BY <2>1, <2>2 DEF Board!NoFetch
    <2>4. Board!TypeOK'
      BY <1>0, <1>1, <2>1, <2>3 DEF Board!TypeOK
    <2>5. CardsInv' /\ MountedInv'
      BY <1>0, <1>1, <2>1, <2>2, <2>3 DEF CardsInv, MountedInv, Board!WaitsForACreate
    <2>6. CardsAreFresh'
      BY <1>0, <1>1, <2>1, <2>2, <2>3 DEF CardsAreFresh, Board!TypeOK
    <2> QED
      BY <1>2, <2>4, <2>5, <2>6 DEF BoardInv
  <1>4. CASE Board!ListingArrives
    <2>1. /\ fetch.phase = "read" /\ state' = "ready" /\ shown' = fetch.rows /\ fetch' = Board!NoFetch
          /\ form' = Board!EMPTY /\ submitting' = FALSE
          /\ UNCHANGED <<behind, drawerOpen>>
      BY <1>4 DEF Board!ListingArrives
    <2>2. state = "loading"
      BY <1>0, <2>1, EmptyIsForm DEF Board!TypeOK
    <2>3. Board!TypeOK'
      BY <1>0, <1>1, <2>1, EmptyIsForm DEF Board!TypeOK
    <2>4. CardsInv' /\ MountedInv'
      BY <1>0, <1>1, <2>1, <2>2, EmptyIsForm DEF CardsInv, MountedInv, Board!WaitsForACreate
    <2>5. CardsAreFresh'
      BY <1>0, <1>1, <2>1, EmptyIsForm DEF CardsAreFresh
    <2> QED
      BY <1>2, <2>3, <2>4, <2>5 DEF BoardInv
  <1>5. CASE Board!ListingFails \/ Board!Retry
    <2>1. /\ UNCHANGED <<behind, shown, drawerOpen, form, submitting>>
          /\ \/ state' = "error" /\ fetch' = Board!NoFetch /\ fetch # Board!NoFetch
             \/ state' = "loading" /\ fetch' = Board!Asked /\ state = "error"
      BY <1>5 DEF Board!ListingFails, Board!Retry, Board!reload, Board!drawer
    <2>2. state \in {"loading", "error"}
      BY <1>0, <2>1 DEF Board!TypeOK
    <2>3. Board!TypeOK'
      BY <1>0, <1>1, <2>1, EmptyIsForm DEF Board!TypeOK
    <2>4. CardsInv' /\ MountedInv'
      BY <1>0, <1>1, <2>1, <2>2, EmptyIsForm DEF CardsInv, MountedInv, Board!WaitsForACreate
    <2>5. CardsAreFresh'
      BY <2>1, EmptyIsForm DEF CardsAreFresh
    <2> QED
      BY <1>2, <2>3, <2>4, <2>5 DEF BoardInv
  <1>6. CASE Board!OpenDrawer \/ Board!CloseDrawer \/ Board!Typing
    <2>1. /\ UNCHANGED <<behind, state, shown, fetch, submitting>>
          /\ drawerOpen' \in BOOLEAN /\ form' \in Board!Forms
      BY <1>0, <1>6, EmptyIsForm DEF Board!OpenDrawer, Board!CloseDrawer, Board!Typing, Board!page,
         Board!TypeOK
    <2>2. Board!TypeOK'
      BY <1>0, <1>1, <2>1 DEF Board!TypeOK
    <2>3. CardsInv' /\ MountedInv'
      BY <1>0, <1>1, <2>1 DEF CardsInv, MountedInv, Board!WaitsForACreate
    <2>4. CardsAreFresh'
      BY <1>0, <1>1, <2>1 DEF CardsAreFresh
    <2> QED
      BY <1>2, <2>2, <2>3, <2>4 DEF BoardInv
  <1> QED
    BY <1>3, <1>4, <1>5, <1>6

(* Another visit starts over, whatever is still under way. *)
LEMMA RevisitStep ==
    ASSUME BoardInv, Board!Revisit
    PROVE  BoardInv'
  <1>0. Board!TypeOK /\ CallsInv /\ CardsInv
    BY DEF BoardInv
  <1>1. /\ visit < MaxVisits /\ visit' = visit + 1
        /\ state' = "loading" /\ shown' = <<>> /\ fetch' = Board!Asked
        /\ movingId' = Nothing /\ drawerOpen' = FALSE /\ form' = Board!EMPTY /\ submitting' = FALSE
        /\ call' = Board!Unmounted(call)
        /\ UNCHANGED <<lead, recent, contacts, behind, others>>
    BY DEF Board!Revisit, Board!server
  <1>2. /\ call' \in [Asks -> Board!Call]
        /\ \A c \in Asks : Kept(call[c], call'[c]) /\ call'[c].mounted = FALSE
    BY <1>0, <1>1, UnmountedCalls DEF Board!TypeOK
  <1>3. Board!Stored' = Board!Stored
    BY <1>1 DEF Board!Stored
  <1>4. Board!TypeOK'
    <2>1. visit' \in 1 .. MaxVisits
      BY <1>0, <1>1, PagesAssumption DEF Board!TypeOK, Board!LeadBoardAssumption
    <2>2. <<>> \in Seq(Board!Card)
      OBVIOUS
    <2> QED
      BY <1>0, <1>1, <1>2, <1>3, <2>1, <2>2, EmptyIsForm DEF Board!TypeOK
  <1>5. CallsInv'
    BY <1>0, <1>2, <1>3 DEF CallsInv, Kept
  <1>6. CardsInv' /\ CardsAreFresh' /\ Board!BusyCardIsFreed'
    BY <1>1, EmptyIsForm DEF CardsInv, CardsAreFresh, Board!BusyCardIsFreed
  <1>7. MountedInv'
    BY <1>2 DEF MountedInv, Board!WaitsForACreate
  <1> QED
    BY <1>4, <1>5, <1>6, <1>7 DEF BoardInv

\* A call that is sent.
LEMMA BoardSendSteps ==
    ASSUME BoardInv, NEW c \in Asks,
           \/ \E i \in DOMAIN shown, d \in {1, -1} : Board!handleMove(c, shown[i], d)
           \/ Board!handleSubmit(c)
    PROVE  BoardInv'
  <1>0. Board!TypeOK /\ CallsInv /\ CardsInv /\ CardsAreFresh /\ Board!BusyCardIsFreed /\ MountedInv
    BY DEF BoardInv
  <1>1. /\ UNCHANGED <<lead, recent, contacts, behind, others, visit, state, shown, fetch, drawerOpen,
             form>>
        /\ Board!Stored' = Board!Stored /\ Board!Listing' = Board!Listing /\ state = "ready"
             /\ call[c] = Board!NoCall
    <2>1. /\ UNCHANGED <<lead, recent, contacts, behind, others, visit, state, shown, fetch, drawerOpen,
               form>>
          /\ state = "ready" /\ call[c] = Board!NoCall
      BY DEF Board!handleMove, Board!handleSubmit, Board!server, Board!page, Board!drawer
    <2> QED
      BY <2>1 DEF Board!Stored, Board!Listing
  <1>2. CardsInv'
    BY <1>0, <1>1 DEF CardsInv
  <1>3. ASSUME NEW x \in Board!Call, call' = [call EXCEPT ![c] = x], x.server = "sent"
        PROVE  /\ call' \in [Asks -> Board!Call] /\ call'[c] = x /\ \A q \in Asks : q # c
                    => call'[q] = call[q]
               /\ CardsAreFresh'
    <2>1. call' \in [Asks -> Board!Call] /\ call'[c] = x /\ \A q \in Asks : q # c => call'[q] = call[q]
      BY <1>0, <1>3 DEF Board!TypeOK
    <2>2. Told' => Told
      BY <1>1, <1>3, <2>1, BoardNoCallIsCall DEF Told, Board!OfThisPage, Board!InFlight
    <2>3. CardsAreFresh'
      BY <1>0, <1>1, <2>2 DEF CardsAreFresh
    <2> QED
      BY <2>1, <2>3
  <1>4. CASE \E i \in DOMAIN shown, d \in {1, -1} : Board!handleMove(c, shown[i], d)
    <2>1. PICK i \in DOMAIN shown, d \in {1, -1} : Board!handleMove(c, shown[i], d)
      BY <1>4
    <2>2. /\ shown[i].stage + d \in Board!Stages /\ movingId' = shown[i].id /\ UNCHANGED submitting
          /\ call' = [call EXCEPT ![c] = Moved(shown[i], d)]
      BY <2>1 DEF Board!handleMove, Moved, Board!drawer
    <2>3. PICK x : /\ x = Moved(shown[i], d) /\ x \in Board!Call /\ shown[i] \in Board!Card
                   /\ x.kind = "move" /\ x.lead = shown[i].id /\ x.to \in Board!Stages
                   /\ x.server = "sent" /\ x.waiting = TRUE /\ x.visit = visit /\ x.mounted = FALSE
      BY <1>0, <2>2, NewCalls
    <2>4. shown[i].id \in Clients /\ shown[i].id \in Board!Stored
      BY <1>0, <2>3 DEF Board!Card, CardsInv
    <2>5. /\ call' \in [Asks -> Board!Call] /\ call'[c] = x /\ \A q \in Asks : q # c => call'[q] = call[q]
          /\ CardsAreFresh'
      BY <1>3, <2>2, <2>3
    <2>6. Board!TypeOK'
      BY <1>0, <1>1, <2>2, <2>4, <2>5 DEF Board!TypeOK
    <2>7. CallsInv'
      BY <1>0, <1>1, <2>3, <2>4, <2>5 DEF CallsInv
    <2>8. Board!BusyCardIsFreed'
      BY <1>1, <2>2, <2>3, <2>5 DEF Board!BusyCardIsFreed, Board!OfThisPage, Board!InFlight
    <2>9. MountedInv'
      BY <1>0, <1>1, <2>2, <2>3, <2>5 DEF MountedInv, Board!WaitsForACreate
    <2> QED
      BY <1>2, <2>5, <2>6, <2>7, <2>8, <2>9 DEF BoardInv
  <1>5. CASE Board!handleSubmit(c)
    <2>1. ~submitting /\ submitting' = TRUE /\ UNCHANGED movingId /\ call' = [call EXCEPT ![c] = Created]
      BY <1>5 DEF Board!handleSubmit, Created
    <2>2. PICK x : /\ x = Created /\ x \in Board!Call /\ x.kind = "create" /\ x.form = form
                   /\ x.server = "sent" /\ x.waiting = TRUE /\ x.visit = visit /\ x.mounted = TRUE
      BY <1>0, NewCalls
    <2>3. /\ call' \in [Asks -> Board!Call] /\ call'[c] = x /\ \A q \in Asks : q # c => call'[q] = call[q]
          /\ CardsAreFresh'
      BY <1>3, <2>1, <2>2
    <2>4. Board!TypeOK'
      BY <1>0, <1>1, <2>1, <2>3 DEF Board!TypeOK
    <2>5. CallsInv'
      BY <1>0, <1>1, <2>2, <2>3 DEF CallsInv, Board!TypeOK
    <2>6. Board!BusyCardIsFreed'
      BY <1>0, <1>1, <2>1, <2>3, BoardNoCallIsCall DEF Board!BusyCardIsFreed, Board!OfThisPage,
         Board!InFlight
    <2>7. MountedInv'
      BY <1>0, <1>1, <2>1, <2>2, <2>3 DEF MountedInv, Board!WaitsForACreate
    <2> QED
      BY <1>2, <2>3, <2>4, <2>5, <2>6, <2>7 DEF BoardInv
  <1> QED
    BY <1>4, <1>5

\* The server answers a call.
LEMMA ServedCalls ==
    ASSUME Board!TypeOK, NEW c \in Asks, NEW s \in {"done", "refused"},
           call' = [call EXCEPT ![c].server = s]
    PROVE  /\ call' \in [Asks -> Board!Call] /\ call'[c].server = s
           /\ \A q \in Asks : q # c => call'[q] = call[q]
           /\ call'[c].kind = call[c].kind /\ call'[c].waiting = call[c].waiting
           /\ call'[c].visit = call[c].visit /\ call'[c].lead = call[c].lead /\ call'[c].to = call[c].to
           /\ call'[c].form = call[c].form /\ call'[c].mounted = call[c].mounted
  <1>1. PICK x \in Board!Call : x = call[c]
    BY DEF Board!TypeOK
  <1>2. PICK y : y = [x EXCEPT !.server = s]
    OBVIOUS
  <1>3. /\ y \in Board!Call /\ y.server = s /\ y.kind = x.kind /\ y.waiting = x.waiting /\ y.visit = x.visit
        /\ y.lead = x.lead /\ y.to = x.to /\ y.form = x.form /\ y.mounted = x.mounted
    BY <1>2 DEF Board!Call
  <1>4. call' = [call EXCEPT ![c] = y] /\ call \in [Asks -> Board!Call]
    BY <1>1, <1>2 DEF Board!TypeOK
  <1>5. call' \in [Asks -> Board!Call] /\ call'[c] = y /\ \A q \in Asks : q # c => call'[q] = call[q]
    BY <1>3, <1>4
  <1> QED
    BY <1>1, <1>3, <1>5

(* The server moves a lead, creates one, or refuses. *)
LEMMA BoardServerSteps ==
    ASSUME BoardInv, NEW c \in Asks, Board!moveStage(c) \/ Board!create(c) \/ Board!ServerRefuses(c)
    PROVE  BoardInv'
  <1>0. Board!TypeOK /\ CallsInv /\ CardsInv /\ CardsAreFresh /\ Board!BusyCardIsFreed /\ MountedInv
    BY DEF BoardInv
  <1>1. UNCHANGED <<others, visit, state, shown, fetch, movingId, drawerOpen, form, submitting>>
    BY DEF Board!moveStage, Board!create, Board!ServerRefuses, Board!page, Board!drawer
  <1>2. PICK s \in {"done", "refused"} : call' = [call EXCEPT ![c].server = s] /\ call[c].server = "sent"
                                         /\ (s = "refused" => UNCHANGED <<lead, recent, contacts, behind>>)
                                         /\ (s = "done" => Board!Behind(c))
    BY DEF Board!moveStage, Board!create, Board!ServerRefuses, Board!server
  <1>3. /\ call' \in [Asks -> Board!Call] /\ call'[c].server = s
        /\ \A q \in Asks : q # c => call'[q] = call[q]
        /\ call'[c].kind = call[c].kind /\ call'[c].waiting = call[c].waiting
        /\ call'[c].visit = call[c].visit /\ call'[c].lead = call[c].lead /\ call'[c].to = call[c].to
        /\ call'[c].form = call[c].form /\ call'[c].mounted = call[c].mounted
    BY <1>0, <1>2, ServedCalls
  <1>4. Board!BusyCardIsFreed' /\ MountedInv'
    <2>1. \A q \in Asks : /\ call'[q].kind = call[q].kind /\ call'[q].waiting = call[q].waiting
                          /\ call'[q].visit = call[q].visit /\ call'[q].lead = call[q].lead
                          /\ call'[q].mounted = call[q].mounted
      BY <1>3
    <2> QED
      BY <1>0, <1>1, <2>1 DEF Board!BusyCardIsFreed, Board!OfThisPage, Board!InFlight, MountedInv,
         Board!WaitsForACreate
  <1>5. CardsAreFresh'
    <2>1. CASE s = "done"
      <3>1. ~behind' => Board!OfThisPage(c)' /\ ~Told'
        BY <1>1, <1>2, <1>3, <2>1 DEF Board!Behind, Board!OfThisPage, Board!InFlight, Told
      <3> QED
        BY <3>1 DEF CardsAreFresh
    <2>2. CASE s = "refused"
      <3>1. UNCHANGED <<lead, recent, contacts, behind>>
        BY <1>2, <2>2
      <3>2. Board!Listing' = Board!Listing
        BY <3>1 DEF Board!Listing
      <3>3. Told' => Told
        BY <1>1, <1>2, <1>3, <2>2 DEF Told, Board!OfThisPage, Board!InFlight
      <3> QED
        BY <1>0, <1>1, <3>1, <3>2, <3>3 DEF CardsAreFresh
    <2> QED
      BY <2>1, <2>2
  <1>6. SUFFICES /\ lead' \in [Clients -> {Nothing} \cup Board!Row] /\ behind' \in BOOLEAN
                 /\ recent' \in Seq(Clients) /\ Board!ToSet(recent') = Board!Stored'
                      /\ Board!IsInjective(recent')
                 /\ contacts' \subseteq Phones \cup {<<n, "e164">> : n \in Board!Numbers}
                 /\ Board!Stored \subseteq Board!Stored'
    <2>1. Board!TypeOK'
      BY <1>0, <1>1, <1>3, <1>6 DEF Board!TypeOK
    <2>2. CallsInv'
      BY <1>0, <1>3, <1>6 DEF CallsInv
    <2>3. CardsInv'
      BY <1>0, <1>1, <1>6 DEF CardsInv
    <2> QED
      BY <1>4, <1>5, <2>1, <2>2, <2>3 DEF BoardInv
  <1>7. behind' \in BOOLEAN
    BY <1>0, <1>2 DEF Board!Behind, Board!TypeOK
  <1>8. ASSUME NEW l \in Clients, NEW x \in Board!Row, lead' = [lead EXCEPT ![l] = x],
                   recent' = Board!Written(l)
        PROVE  /\ lead' \in [Clients -> {Nothing} \cup Board!Row]
               /\ recent' \in Seq(Clients) /\ Board!ToSet(recent') = Board!Stored'
                    /\ Board!IsInjective(recent')
               /\ Board!Stored \subseteq Board!Stored'
    <2>1. lead' \in [Clients -> {Nothing} \cup Board!Row] /\ lead'[l] = x /\ \A k \in Clients : k # l
              => lead'[k] = lead[k]
      BY <1>0, <1>8 DEF Board!TypeOK
    <2>2. Board!Stored' = Board!Stored \cup {l}
      BY <1>8, <2>1, PagesAssumption DEF Board!Stored, Board!LeadBoardAssumption
    <2>3. Board!Written(l) \in Seq(Clients) /\ Board!IsInjective(Board!Written(l))
              /\ Board!ToSet(Board!Written(l)) = Board!Stored \cup {l}
      BY <1>0, <1>8, WrittenLeads
    <2> QED
      BY <1>8, <2>1, <2>2, <2>3
  <1>9. CASE Board!moveStage(c)
    <2>1. PICK l, t : l = call[c].lead /\ t = call[c].to
      OBVIOUS
    <2>2. l \in Board!Stored /\ l \in Clients /\ t \in Board!Stages
      BY <1>0, <1>9, <2>1 DEF Board!moveStage, CallsInv, Board!Stored
    <2>3. PICK x : x = [lead[l] EXCEPT !.stage = t]
      OBVIOUS
    <2>4. x \in Board!Row
      <3>1. PICK y \in Board!Row : y = lead[l]
        BY <1>0, <2>2 DEF Board!Stored, Board!TypeOK
      <3>2. x = [y EXCEPT !.stage = t]
        BY <2>3, <3>1
      <3> QED
        BY <2>2, <3>2 DEF Board!Row
    <2>5. lead' = [lead EXCEPT ![l] = x] /\ recent' = Board!Written(l) /\ UNCHANGED contacts
      BY <1>9, <2>1, <2>3 DEF Board!moveStage
    <2> QED
      BY <1>0, <1>7, <1>8, <2>2, <2>4, <2>5 DEF Board!TypeOK
  <1>10. CASE Board!create(c)
    <2>1. PICK f : f = call[c].form /\ f \in Board!Forms
      BY <1>0, <1>10 DEF Board!create, CallsInv
    <2>2. PICK l \in Clients \ Board!Stored :
             /\ lead' = [lead EXCEPT ![l] = [stage |-> f.stage, cents |-> Board!amountCents(f.amount),
                  typed |-> f.amount]]
             /\ recent' = Board!Written(l)
      BY <1>10, <2>1 DEF Board!create
    <2>3. contacts' = contacts \cup ({f.phone} \ {Nothing})
      BY <1>10, <2>1 DEF Board!create
    <2>4. f.stage \in Board!Stages /\ f.amount \in Amounts /\ f.phone \in Phones
      BY <2>1 DEF Board!Forms
    <2>5. Board!amountCents(f.amount) \in {Nothing, 150, 150000}
      BY <2>4, PagesAssumption DEF Board!amountCents, Board!LeadBoardAssumption, Board!AmountForms
    <2>6. PICK x : x = [stage |-> f.stage, cents |-> Board!amountCents(f.amount), typed |-> f.amount]
      OBVIOUS
    <2>7. x \in Board!Row
      BY <2>4, <2>5, <2>6 DEF Board!Row
    <2>8. contacts' \subseteq Phones \cup {<<n, "e164">> : n \in Board!Numbers}
      BY <1>0, <2>3, <2>4 DEF Board!TypeOK
    <2> QED
      BY <1>7, <1>8, <2>2, <2>6, <2>7, <2>8
  <1>11. CASE Board!ServerRefuses(c)
    <2>1. UNCHANGED <<lead, recent, contacts, behind>>
      BY <1>11 DEF Board!ServerRefuses, Board!server
    <2> QED
      BY <1>0, <2>1 DEF Board!TypeOK, Board!Stored
  <1> QED
    BY <1>9, <1>10, <1>11

(* What others write the page does not know of. *)
LEMMA BoardOthersSteps ==
    ASSUME BoardInv,
           (\E l \in Clients : Board!OthersWrite(l))
               \/ (\E n \in Board!Numbers : Board!resolveOrCreateContact(n))
    PROVE  BoardInv'
  <1>0. Board!TypeOK /\ CallsInv /\ CardsInv /\ CardsAreFresh /\ Board!BusyCardIsFreed /\ MountedInv
    BY DEF BoardInv
  <1>1. /\ UNCHANGED <<visit, state, shown, fetch, movingId, drawerOpen, form, submitting, call>>
        /\ others' \in 0 .. MaxOthers
    <2>1. /\ UNCHANGED <<visit, state, shown, fetch, movingId, drawerOpen, form, submitting, call>>
          /\ others < MaxOthers /\ others' = others + 1
      BY DEF Board!OthersWrite, Board!resolveOrCreateContact, Board!page, Board!drawer
    <2> QED
      BY <1>0, <2>1, PagesAssumption DEF Board!TypeOK, Board!LeadBoardAssumption
  <1>2. Board!BusyCardIsFreed' /\ MountedInv'
    BY <1>0, <1>1 DEF Board!BusyCardIsFreed, Board!OfThisPage, Board!InFlight, MountedInv,
       Board!WaitsForACreate
  <1>3. ASSUME NEW l \in Clients, Board!OthersWrite(l)
        PROVE  BoardInv'
    <2>1. PICK s \in Board!Stages : lead' = [lead EXCEPT ![l].stage = s]
      BY <1>3 DEF Board!OthersWrite
    <2>2. l \in Board!Stored /\ recent' = Board!Written(l) /\ behind' = TRUE /\ UNCHANGED contacts
      BY <1>3 DEF Board!OthersWrite
    <2>3. PICK x : x = [lead[l] EXCEPT !.stage = s]
      OBVIOUS
    <2>4. x \in Board!Row
      <3>1. PICK y \in Board!Row : y = lead[l]
        BY <1>0, <2>2 DEF Board!Stored, Board!TypeOK
      <3>2. x = [y EXCEPT !.stage = s]
        BY <2>3, <3>1
      <3> QED
        BY <2>1, <3>2 DEF Board!Row
    <2>5. lead' \in [Clients -> {Nothing} \cup Board!Row] /\ lead'[l] = x /\ \A k \in Clients : k # l
              => lead'[k] = lead[k]
      BY <1>0, <2>1, <2>3, <2>4 DEF Board!TypeOK
    <2>6. Board!Stored' = Board!Stored \cup {l}
      BY <2>4, <2>5, PagesAssumption DEF Board!Stored, Board!LeadBoardAssumption
    <2>7. Board!Written(l) \in Seq(Clients) /\ Board!IsInjective(Board!Written(l))
              /\ Board!ToSet(Board!Written(l)) = Board!Stored \cup {l}
      BY <1>0, WrittenLeads
    <2>8. Board!TypeOK'
      BY <1>0, <1>1, <2>2, <2>5, <2>6, <2>7 DEF Board!TypeOK
    <2>9. CallsInv' /\ CardsInv' /\ CardsAreFresh'
      BY <1>0, <1>1, <2>2, <2>6 DEF CallsInv, CardsInv, CardsAreFresh
    <2> QED
      BY <1>2, <2>8, <2>9 DEF BoardInv
  <1>4. ASSUME NEW n \in Board!Numbers, Board!resolveOrCreateContact(n)
        PROVE  BoardInv'
    <2>1. contacts' = contacts \cup {<<n, "e164">>} /\ UNCHANGED <<lead, recent, behind>>
      BY <1>4 DEF Board!resolveOrCreateContact
    <2>2. Board!Stored' = Board!Stored /\ Board!Listing' = Board!Listing /\ Told' = Told
      BY <1>1, <2>1 DEF Board!Stored, Board!Listing, Told, Board!OfThisPage, Board!InFlight
    <2>3. Board!TypeOK'
      BY <1>0, <1>1, <2>1, <2>2 DEF Board!TypeOK
    <2>4. CallsInv' /\ CardsInv' /\ CardsAreFresh'
      BY <1>0, <1>1, <2>1, <2>2 DEF CallsInv, CardsInv, CardsAreFresh
    <2> QED
      BY <1>2, <2>3, <2>4 DEF BoardInv
  <1> QED
    BY <1>3, <1>4

\* The page hears how a call of its own ended.
LEMMA AnsweredCalls ==
    ASSUME Board!TypeOK, NEW c \in Asks, NEW f, f = [call EXCEPT ![c] = Board!Over]
    PROVE  /\ f \in [Asks -> Board!Call] /\ f[c] = Board!Over
           /\ \A q \in Asks : q # c => f[q] = call[q]
  BY BoardNoCallIsCall DEF Board!TypeOK

\* What a call that is over, or whose drawer is gone, leaves of the invariant.
LEMMA CallsEnd ==
    ASSUME Board!TypeOK, CallsInv, NEW c \in Asks, call' \in [Asks -> Board!Call],
               UNCHANGED <<lead, visit>>,
           Kept(Board!Over, call'[c]), \A q \in Asks : q # c => Kept(call[q], call'[q])
    PROVE  CallsInv' /\ (call[c].server # "done" \/ ~Board!OfThisPage(c) => (Told' => Told))
  <1>1. Board!Stored' = Board!Stored
    BY DEF Board!Stored
  <1>2. CallsInv'
    BY <1>1, BoardNoCallIsCall DEF CallsInv, Kept
  <1>3. ASSUME call[c].server # "done" \/ ~Board!OfThisPage(c), Told'
        PROVE  Told
    BY <1>3 DEF Told, Kept, Board!OfThisPage, Board!InFlight
  <1> QED
    BY <1>2, <1>3

(* An answer reloads the board, or leaves it as it was. *)
LEMMA BoardAnswerSteps ==
    ASSUME BoardInv, NEW c \in Asks, Board!MoveAnswers(c) \/ Board!CreateAnswers(c)
    PROVE  BoardInv'
  <1>0. Board!TypeOK /\ CallsInv /\ CardsInv /\ CardsAreFresh /\ Board!BusyCardIsFreed /\ MountedInv
    BY DEF BoardInv
  <1>1. /\ UNCHANGED <<lead, recent, contacts, behind, others, visit, form>>
        /\ Board!OfThisPage(c) /\ call[c].server \in {"done", "refused"}
             /\ call[c].kind \in {"move", "create"}
        /\ Board!Stored' = Board!Stored /\ Board!Listing' = Board!Listing
    <2>1. /\ UNCHANGED <<lead, recent, contacts, behind, others, visit, form>>
          /\ Board!OfThisPage(c) /\ call[c].server \in {"done", "refused"}
               /\ call[c].kind \in {"move", "create"}
      BY DEF Board!MoveAnswers, Board!CreateAnswers, Board!server, Board!drawer
    <2> QED
      BY <2>1 DEF Board!Stored, Board!Listing
  <1>2. PICK f : f = [call EXCEPT ![c] = Board!Over]
    OBVIOUS
  <1>3. f \in [Asks -> Board!Call] /\ f[c] = Board!Over /\ \A q \in Asks : q # c => f[q] = call[q]
    BY <1>0, <1>2, AnsweredCalls
  <1>4. CASE call[c].server = "done"
    <2>1. state' = "loading" /\ fetch' = Board!Asked /\ shown' = shown /\ call' = Board!Unmounted(f)
      BY <1>2, <1>4 DEF Board!MoveAnswers, Board!CreateAnswers, Board!EndOfMove, Board!reload
    <2>2. submitting' = submitting /\ movingId' \in {Nothing, movingId}
              /\ drawerOpen' \in {drawerOpen, FALSE}
          /\ (call[c].kind = "move" => movingId' = Nothing)
      BY <1>4 DEF Board!MoveAnswers, Board!CreateAnswers, Board!EndOfMove, Board!drawer
    <2>3. /\ call' \in [Asks -> Board!Call]
          /\ \A q \in Asks : Kept(f[q], call'[q]) /\ call'[q].mounted = FALSE
      BY <1>3, <2>1, UnmountedCalls
    <2>4. Kept(Board!Over, call'[c]) /\ \A q \in Asks : q # c => Kept(call[q], call'[q])
      BY <1>3, <2>3
    <2>5. Board!TypeOK'
      BY <1>0, <1>1, <2>1, <2>2, <2>3, EmptyIsForm DEF Board!TypeOK
    <2>6. CallsInv'
      BY <1>0, <1>1, <2>3, <2>4, CallsEnd
    <2>7. CardsInv' /\ CardsAreFresh'
      BY <1>0, <1>1, <2>1, EmptyIsForm DEF CardsInv, CardsAreFresh
    <2>8. Board!BusyCardIsFreed'
      BY <1>0, <1>1, <2>2, <2>4 DEF Board!BusyCardIsFreed, Kept, Board!OfThisPage, Board!InFlight
    <2>9. MountedInv'
      BY <2>3 DEF MountedInv, Board!WaitsForACreate
    <2> QED
      BY <2>5, <2>6, <2>7, <2>8, <2>9 DEF BoardInv
  <1>5. CASE call[c].server = "refused"
    <2>1. UNCHANGED <<state, fetch, shown, drawerOpen>> /\ call' = f
      BY <1>2, <1>5 DEF Board!MoveAnswers, Board!CreateAnswers, Board!EndOfMove, Board!page,
         Board!drawer
    <2>2. /\ movingId' \in {Nothing, movingId} /\ (call[c].kind = "move" => movingId' = Nothing)
          /\ (submitting' = submitting \/ submitting' = (submitting /\ ~call[c].mounted))
          /\ (call[c].kind = "move" => submitting' = submitting)
      BY <1>5 DEF Board!MoveAnswers, Board!CreateAnswers, Board!EndOfMove, Board!drawer
    <2>3. /\ call' \in [Asks -> Board!Call] /\ call'[c] = Board!Over /\ \A q \in Asks : q # c
               => call'[q] = call[q]
      BY <1>3, <2>1
    <2>4. Kept(Board!Over, call'[c]) /\ \A q \in Asks : q # c => Kept(call[q], call'[q])
      BY <2>3, KeptIsRefl
    <2>5. Board!TypeOK'
      BY <1>0, <1>1, <2>1, <2>2, <2>3 DEF Board!TypeOK
    <2>6. CallsInv' /\ (Told' => Told)
      BY <1>0, <1>1, <1>5, <2>3, <2>4, CallsEnd
    <2>7. CardsInv' /\ CardsAreFresh'
      BY <1>0, <1>1, <2>1, <2>6 DEF CardsInv, CardsAreFresh
    <2>8. Board!BusyCardIsFreed'
      BY <1>0, <1>1, <2>2, <2>3 DEF Board!BusyCardIsFreed, Board!OfThisPage, Board!InFlight
    <2>9. MountedInv'
      <3>1. \A q \in Asks : call'[q].mounted => call[q].mounted /\ call'[q] = call[q] /\ q # c
        BY <2>3, BoardNoCallIsCall
      <3>2. Board!WaitsForACreate'
        BY <1>0, <3>1 DEF MountedInv, Board!WaitsForACreate
      <3>3. ASSUME NEW q \in Asks, call'[q].mounted
            PROVE  submitting'
        <4>1. call[q].mounted /\ q # c
          BY <3>1, <3>3
        <4>2. ~call[c].mounted /\ submitting
          BY <1>0, <4>1 DEF MountedInv, Board!WaitsForACreate
        <4> QED
          BY <2>2, <4>2
      <3> QED
        BY <1>0, <2>1, <3>1, <3>2, <3>3 DEF MountedInv
    <2> QED
      BY <2>5, <2>6, <2>7, <2>8, <2>9 DEF BoardInv
  <1> QED
    BY <1>1, <1>4, <1>5

(* Every step of the board keeps its invariant. *)
LEMMA BoardKeeps ==
    ASSUME BoardInv, [Board!Next]_Board!vars
    PROVE  BoardInv'
  <1>1. CASE \/ Board!ServerLists \/ Board!ListingArrives \/ Board!ListingFails \/ Board!Retry
             \/ Board!OpenDrawer \/ Board!CloseDrawer \/ Board!Typing
    BY <1>1, BoardPageSteps
  <1>2. CASE Board!Revisit
    BY <1>2, RevisitStep
  <1>3. ASSUME NEW c \in Asks,
               \/ \E i \in DOMAIN shown, d \in {1, -1} : Board!handleMove(c, shown[i], d)
               \/ Board!handleSubmit(c)
        PROVE  BoardInv'
    BY <1>3, BoardSendSteps
  <1>4. ASSUME NEW c \in Asks, Board!moveStage(c) \/ Board!create(c) \/ Board!ServerRefuses(c)
        PROVE  BoardInv'
    BY <1>4, BoardServerSteps
  <1>5. ASSUME NEW c \in Asks, Board!MoveAnswers(c) \/ Board!CreateAnswers(c)
        PROVE  BoardInv'
    BY <1>5, BoardAnswerSteps
  <1>6. CASE (\E l \in Clients : Board!OthersWrite(l))
                 \/ (\E n \in Board!Numbers : Board!resolveOrCreateContact(n))
    BY <1>6, BoardOthersSteps
  <1>7. CASE UNCHANGED Board!vars
    <2>1. UNCHANGED <<lead, recent, contacts, behind, others, visit, state, shown, fetch, movingId,
                      drawerOpen, form, submitting, call>>
      BY <1>7 DEF Board!vars, Board!server, Board!page, Board!drawer
    <2>2. Board!Stored' = Board!Stored /\ Board!Listing' = Board!Listing /\ Told' = Told
      BY <2>1 DEF Board!Stored, Board!Listing, Told, Board!OfThisPage, Board!InFlight
    <2> QED
      BY <2>1, <2>2 DEF BoardInv, Board!TypeOK, CallsInv, CardsInv, CardsAreFresh,
         Board!BusyCardIsFreed,
                        MountedInv, Board!WaitsForACreate, Board!OfThisPage, Board!InFlight
  <1> QED
    BY <1>1, <1>2, <1>3, <1>4, <1>5, <1>6, <1>7 DEF Board!Next

(* At rest, the cards are the leads of now. *)
LEMMA BoardIsFresh ==
    ASSUME BoardInv
    PROVE  Board!QuietIsFresh
  BY DEF BoardInv, CardsAreFresh, Told, Board!QuietIsFresh

-----------------------------------------------------------------------------
(* The page of follow-ups *)

\* What awaits an answer is a call; an action is on a follow-up there is, and the rows of a
\* tab are of follow-ups there are.
IdsInv ==
    /\ \A c \in Asks : /\ call[c].kind \in {"none", "over"} => call[c].server = "none"
                       /\ call[c].kind \in Tasks!RowActions => call[c].id \in Tasks!Stored
    /\ \A t \in Tasks!Tabs : \A x \in shown[t] : x.id \in Tasks!Stored
    /\ \A t \in Tasks!Tabs : \A x \in fetch.rows[t] : x.id \in Tasks!Stored

\* The call a drawer waits for is a drawer's; requests are awaited or there are none.
SubmitInv ==
    /\ submitting # Nothing => call[submitting].kind \in {"create", "update"}
    /\ fetch.phase = "none" => fetch = Tasks!NoFetch

\* Every write that the server made for this page has been answered.
TasksTold == \A c \in Asks : call[c].server # "done"

\* The tabs that were read are what the server, as its rows now stand, answers at some moment
\* since the page asked.
FetchIsFresh ==
    ~behind /\ TasksTold /\ fetch.phase = "sent" =>
        \A t \in Tasks!Tabs \ fetch.left : \E n \in fetch.at .. now :
            fetch.rows[t] \in Tasks!Answers(t, n, fetch.at + ClockSkew)

\* The tabs on the screen, likewise.
ShownIsFresh ==
    ~behind /\ TasksTold /\ state = "ready" =>
        \E m \in Tasks!Times : \A t \in Tasks!Tabs : \E n \in m .. now :
            shown[t] \in Tasks!Answers(t, n, m + ClockSkew)

\* All that the page has read.
TabsAreFresh == (fetch.phase = "sent" => fetch.at <= now) /\ FetchIsFresh /\ ShownIsFresh

\* The page of follow-ups: its parts together.
TasksInv == Tasks!TypeOK /\ IdsInv /\ SubmitInv /\ TabsAreFresh /\ Tasks!BusyRowIsFreed

-----------------------------------------------------------------------------
\* The rows that are answered are of the follow-ups that are stored.
LEMMA ItemsAreRows ==
    ASSUME Tasks!TypeOK
    PROVE  /\ \A f \in Tasks!Stored : reminder[f] \in Tasks!Row /\ Tasks!Item(f) \in Tasks!ItemRow
                /\ Tasks!Item(f).id = f
           /\ Tasks!Stored \subseteq Reminders
           /\ \A t \in Tasks!Tabs : \A n, from : \A R \in Tasks!Answers(t, n, from) :
                R \subseteq Tasks!ItemRow /\ \A x \in R : x.id \in Tasks!Stored
  <1>1. \A f \in Tasks!Stored : reminder[f] \in Tasks!Row /\ Tasks!Item(f) \in Tasks!ItemRow
            /\ Tasks!Item(f).id = f
    <2>1. SUFFICES ASSUME NEW f \in Tasks!Stored
                   PROVE  reminder[f] \in Tasks!Row /\ Tasks!Item(f) \in Tasks!ItemRow
                              /\ Tasks!Item(f).id = f
      OBVIOUS
    <2>2. reminder[f] \in Tasks!Row /\ f \in Reminders
      BY DEF Tasks!Stored, Tasks!TypeOK
    <2> QED
      BY <2>2 DEF Tasks!Item, Tasks!Row, Tasks!ItemRow
  <1>2. Tasks!Completed \subseteq Tasks!Stored /\ Tasks!Pending \subseteq Tasks!Stored
            /\ Tasks!Stored \subseteq Reminders
    BY DEF Tasks!Completed, Tasks!Pending, Tasks!Stored
  <1>3. ASSUME NEW t \in Tasks!Tabs, NEW n, NEW from, NEW R \in Tasks!Answers(t, n, from)
        PROVE  R \subseteq Tasks!ItemRow /\ \A x \in R : x.id \in Tasks!Stored
    <2>1. PICK P \in Tasks!Pages(Tasks!followupTabParams(t, n, from)) : R = {Tasks!Item(f) : f \in P}
      BY <1>3 DEF Tasks!Answers
    <2>2. Tasks!followupTabParams(t, n, from) \subseteq Tasks!Stored
      BY <1>2 DEF Tasks!followupTabParams, Tasks!Tabs
    <2>3. P \subseteq Tasks!Stored
      BY <2>1, <2>2 DEF Tasks!Pages
    <2> QED
      BY <1>1, <2>1, <2>3
  <1> QED
    BY <1>1, <1>2, <1>3

(* What the server answers stays while the table does. *)
LEMMA RowsFollow ==
    ASSUME reminder' = reminder
    PROVE  /\ Tasks!Stored' = Tasks!Stored
           /\ \A t \in Tasks!Tabs : \A n, from : Tasks!Answers(t, n, from)' = Tasks!Answers(t, n, from)
  <1>1. Tasks!Stored' = Tasks!Stored /\ Tasks!Completed' = Tasks!Completed /\ Tasks!Pending' = Tasks!Pending
    BY DEF Tasks!Stored, Tasks!Completed, Tasks!Pending
  <1>2. \A f : Tasks!Item(f)' = Tasks!Item(f)
    BY DEF Tasks!Item
  <1>3. \A S : Tasks!Pages(S)' = Tasks!Pages(S)
    BY DEF Tasks!Pages
  <1>4. ASSUME NEW t \in Tasks!Tabs, NEW n, NEW from
        PROVE  Tasks!Answers(t, n, from)' = Tasks!Answers(t, n, from)
    <2>1. Tasks!followupTabParams(t, n, from)' = Tasks!followupTabParams(t, n, from)
      BY <1>1 DEF Tasks!followupTabParams, Tasks!Tabs
    <2> QED
      BY <1>2, <1>3, <2>1 DEF Tasks!Answers
  <1> QED
    BY <1>1, <1>4

(* A call that was not made, and one that is over. *)
LEMMA TasksNoCallIsCall == /\ Tasks!NoCall \in Tasks!Call /\ Tasks!Over \in Tasks!Call
                                /\ Tasks!NoCall.kind = "none" /\ Tasks!Over.kind = "over"
                           /\ Tasks!NoCall.server = "none" /\ Tasks!Over.server = "none"
  <1>1. Tasks!NoCall \in Tasks!Call /\ Tasks!NoCall.kind = "none" /\ Tasks!NoCall.server = "none"
    BY PagesAssumption DEF Tasks!NoCall, Tasks!Call, Tasks!Times, Tasks!FollowUpsViewAssumption
  <1>2. Tasks!Over = [Tasks!NoCall EXCEPT !.kind = "over"]
    BY DEF Tasks!Over
  <1> QED
    BY <1>1, <1>2 DEF Tasks!Call

\* What the page may await.
Fetches == [phase : {"none", "sent"}, at : Tasks!Times, left : SUBSET Tasks!Tabs, rows :
               [Tasks!Tabs -> SUBSET Tasks!ItemRow]]

(* Three tabs that are asked for, or none. *)
LEMMA AskedIsFetch ==
    ASSUME now \in Tasks!Times
    PROVE  /\ Tasks!NoTabs \in [Tasks!Tabs -> SUBSET Tasks!ItemRow]
                /\ \A t \in Tasks!Tabs : Tasks!NoTabs[t] = {}
           /\ Tasks!NoFetch \in Fetches /\ Tasks!NoFetch.phase = "none" /\ Tasks!NoFetch.rows = Tasks!NoTabs
           /\ Tasks!Asked \in Fetches /\ Tasks!Asked.phase = "sent" /\ Tasks!Asked.at = now
                /\ Tasks!Asked.left = Tasks!Tabs
           /\ Tasks!Asked.rows = Tasks!NoTabs /\ Tasks!Asked # Tasks!NoFetch
  <1>1. Tasks!NoTabs \in [Tasks!Tabs -> SUBSET Tasks!ItemRow] /\ \A t \in Tasks!Tabs : Tasks!NoTabs[t] = {}
    BY DEF Tasks!NoTabs
  <1>2. 0 \in Tasks!Times
    BY PagesAssumption DEF Tasks!Times, Tasks!FollowUpsViewAssumption
  <1> QED
    BY <1>1, <1>2 DEF Tasks!NoFetch, Tasks!Asked, Fetches

-----------------------------------------------------------------------------
(* The first tabs are on their way. *)
LEMMA TasksStart ==
    ASSUME Tasks!Init
    PROVE  TasksInv
  <1>1. PICK S \in SUBSET Reminders :
           /\ asked = S
           /\ reminder \in {g \in [Reminders -> {Nothing} \cup [status : {"PENDING"}, at : Tasks!Times]] :
                              \A f \in Reminders : (g[f] # Nothing) = (f \in S)}
    BY DEF Tasks!Init
  <1>2. reminder \in [Reminders -> {Nothing} \cup Tasks!Row] /\ Tasks!Stored = S
    BY <1>1 DEF Tasks!Stored, Tasks!Row, Tasks!Statuses
  <1>3. now = 0 /\ now \in Tasks!Times /\ 0 \in 0 .. MaxOthers
    BY PagesAssumption DEF Tasks!Init, Tasks!Times, Tasks!FollowUpsViewAssumption
  <1>4. /\ state = "loading" /\ shown = Tasks!NoTabs /\ fetch = Tasks!Asked /\ busyId = Nothing
        /\ reschedulingId = Nothing /\ drawer = Tasks!Closed /\ submitting = Nothing
             /\ call = [c \in Asks |-> Tasks!NoCall]
        /\ behind = FALSE /\ others = 0
    BY DEF Tasks!Init
  <1>5. Tasks!TypeOK
    BY <1>1, <1>2, <1>3, <1>4, AskedIsFetch, TasksNoCallIsCall DEF Tasks!TypeOK, Tasks!Closed, Fetches
  <1>6. IdsInv /\ SubmitInv
    BY <1>3, <1>4, AskedIsFetch, TasksNoCallIsCall DEF IdsInv, SubmitInv, Tasks!RowActions
  <1>7. TabsAreFresh /\ Tasks!BusyRowIsFreed
    BY <1>3, <1>4, AskedIsFetch DEF TabsAreFresh, FetchIsFresh, ShownIsFresh, Tasks!BusyRowIsFreed,
       Tasks!Tabs
  <1> QED
    BY <1>5, <1>6, <1>7 DEF TasksInv

-----------------------------------------------------------------------------
\* The steps of the page that neither call nor are answered, and time.
LEMMA TasksPageSteps ==
    ASSUME TasksInv,
           \/ Tasks!Tick \/ Tasks!ListsArrive \/ Tasks!ListsFail \/ Tasks!Retry \/ Tasks!OpenDrawer
                \/ Tasks!CloseDrawer
           \/ \E item \in Tasks!Rows : Tasks!StartReschedule(item) \/ Tasks!StopReschedule(item)
    PROVE  TasksInv'
  <1>0. Tasks!TypeOK /\ IdsInv /\ SubmitInv /\ TabsAreFresh /\ Tasks!BusyRowIsFreed
    BY DEF TasksInv
  <1>1. UNCHANGED <<reminder, others, busyId, call>>
    BY DEF Tasks!Tick, Tasks!ListsArrive, Tasks!ListsFail, Tasks!Retry, Tasks!OpenDrawer,
       Tasks!CloseDrawer, Tasks!StartReschedule, Tasks!StopReschedule,
           Tasks!clocks, Tasks!lists, Tasks!widgets
  <1>2. /\ Tasks!Stored' = Tasks!Stored
        /\ \A t \in Tasks!Tabs : \A n, from : Tasks!Answers(t, n, from)' = Tasks!Answers(t, n, from)
    BY <1>1, RowsFollow
  <1>3. Tasks!BusyRowIsFreed' /\ TasksTold' = TasksTold
    BY <1>0, <1>1 DEF Tasks!BusyRowIsFreed, Tasks!InFlight, TasksTold
  <1>t. now \in Tasks!Times /\ now \in Nat
    BY <1>0, PagesAssumption DEF Tasks!TypeOK, Tasks!Times, Tasks!FollowUpsViewAssumption
  <1>4. CASE Tasks!Tick
    <2>1. /\ now' = now + 1 /\ now < MaxTime
          /\ UNCHANGED <<behind, state, shown, fetch, asked, reschedulingId, drawer, submitting>>
      BY <1>4 DEF Tasks!Tick, Tasks!lists, Tasks!widgets
    <2>2. now' \in Tasks!Times /\ now' \in Nat
      BY <1>t, <2>1, PagesAssumption DEF Tasks!Times, Tasks!FollowUpsViewAssumption
    <2>3. Tasks!TypeOK'
      BY <1>0, <1>1, <1>2, <2>1, <2>2 DEF Tasks!TypeOK, Tasks!InFlight
    <2>4. IdsInv' /\ SubmitInv'
      BY <1>0, <1>1, <1>2, <2>1 DEF IdsInv, SubmitInv
    <2>5. fetch.at \in Nat /\ (fetch'.phase = "sent" => fetch'.at <= now')
      <3>1. fetch.at \in Nat
        BY <1>0, PagesAssumption DEF Tasks!TypeOK, Tasks!Times, Tasks!FollowUpsViewAssumption
      <3> QED
        BY <1>0, <1>t, <2>1, <3>1 DEF TabsAreFresh
    <2>6. FetchIsFresh'
      <3>1. fetch.at .. now \subseteq fetch.at .. now'
        BY <1>t, <2>1, <2>5
      <3> QED
        BY <1>0, <1>2, <1>3, <2>1, <3>1 DEF TabsAreFresh, FetchIsFresh
    <2>7. ShownIsFresh'
      <3>1. \A m \in Tasks!Times : m .. now \subseteq m .. now'
        BY <1>t, <2>1, PagesAssumption DEF Tasks!Times, Tasks!FollowUpsViewAssumption
      <3> QED
        BY <1>0, <1>2, <1>3, <2>1, <3>1 DEF TabsAreFresh, ShownIsFresh
    <2> QED
      BY <1>3, <2>3, <2>4, <2>5, <2>6, <2>7 DEF TasksInv, TabsAreFresh
  <1>5. CASE Tasks!ListsArrive
    <2>1. /\ fetch.phase = "sent" /\ fetch.left = {} /\ state' = "ready" /\ shown' = fetch.rows
          /\ fetch' = Tasks!NoFetch /\ submitting' = Nothing
          /\ UNCHANGED <<now, behind, asked, reschedulingId, drawer>>
      BY <1>5 DEF Tasks!ListsArrive, Tasks!clocks
    <2>2. Tasks!TypeOK'
      BY <1>0, <1>1, <1>2, <1>t, <2>1, AskedIsFetch DEF Tasks!TypeOK, Fetches
    <2>3. IdsInv' /\ SubmitInv'
      BY <1>0, <1>1, <1>2, <1>t, <2>1, AskedIsFetch DEF IdsInv, SubmitInv
    <2>4. FetchIsFresh' /\ (fetch'.phase = "sent" => fetch'.at <= now')
      BY <1>t, <2>1, AskedIsFetch DEF FetchIsFresh
    <2>5. ShownIsFresh'
      <3>1. SUFFICES ASSUME ~behind, TasksTold
                     PROVE  \E m \in Tasks!Times : \A t \in Tasks!Tabs : \E n \in m .. now :
                              fetch.rows[t] \in Tasks!Answers(t, n, m + ClockSkew)
        BY <1>2, <1>3, <2>1 DEF ShownIsFresh
      <3>2. fetch.at \in Tasks!Times
        BY <1>0 DEF Tasks!TypeOK
      <3>3. \A t \in Tasks!Tabs : \E n \in fetch.at .. now :
              fetch.rows[t] \in Tasks!Answers(t, n, fetch.at + ClockSkew)
        BY <1>0, <2>1, <3>1 DEF TabsAreFresh, FetchIsFresh
      <3> QED
        BY <3>2, <3>3
    <2> QED
      BY <1>3, <2>2, <2>3, <2>4, <2>5 DEF TasksInv, TabsAreFresh
  <1>6. CASE Tasks!ListsFail
    <2>1. /\ fetch # Tasks!NoFetch /\ state' = "error" /\ fetch' = Tasks!NoFetch
          /\ UNCHANGED <<now, behind, shown, asked, reschedulingId, drawer, submitting>>
      BY <1>6 DEF Tasks!ListsFail, Tasks!clocks, Tasks!widgets
    <2>2. Tasks!TypeOK'
      BY <1>0, <1>1, <1>2, <1>t, <2>1, AskedIsFetch DEF Tasks!TypeOK, Fetches, Tasks!InFlight
    <2>3. IdsInv' /\ SubmitInv'
      BY <1>0, <1>1, <1>2, <1>t, <2>1, AskedIsFetch DEF IdsInv, SubmitInv
    <2>4. TabsAreFresh'
      BY <1>t, <2>1, AskedIsFetch DEF FetchIsFresh, TabsAreFresh, ShownIsFresh
    <2> QED
      BY <1>3, <2>2, <2>3, <2>4 DEF TasksInv
  <1>7. CASE Tasks!Retry
    <2>1. /\ state' = "loading" /\ fetch' = Tasks!Asked /\ asked' = Tasks!Stored /\ behind' = FALSE
               /\ shown' = Tasks!NoTabs
          /\ UNCHANGED <<now, reschedulingId, drawer, submitting>>
      BY <1>7 DEF Tasks!Retry, Tasks!reload, Tasks!widgets
    <2>2. Tasks!TypeOK'
      BY <1>0, <1>1, <1>2, <1>t, <2>1, AskedIsFetch DEF Tasks!TypeOK, Fetches, Tasks!InFlight
    <2>3. IdsInv' /\ SubmitInv'
      BY <1>0, <1>1, <1>2, <1>t, <2>1, AskedIsFetch DEF IdsInv, SubmitInv
    <2>4. TabsAreFresh'
      BY <1>t, <2>1, AskedIsFetch DEF FetchIsFresh, TabsAreFresh, ShownIsFresh, Tasks!Tabs, Tasks!Times
    <2> QED
      BY <1>3, <2>2, <2>3, <2>4 DEF TasksInv
  <1>8. CASE Tasks!OpenDrawer \/ Tasks!CloseDrawer \/ \E item \in Tasks!Rows : Tasks!StartReschedule(item)
                 \/ Tasks!StopReschedule(item)
    <2>1. UNCHANGED <<now, behind, state, shown, fetch, asked, submitting>>
      BY <1>8 DEF Tasks!OpenDrawer, Tasks!CloseDrawer, Tasks!StartReschedule, Tasks!StopReschedule,
         Tasks!clocks, Tasks!lists
    <2>2. \A item \in Tasks!Rows : item \in Tasks!ItemRow
      BY <1>0 DEF Tasks!Rows, Tasks!TypeOK
    <2>3. /\ reschedulingId' \in Reminders \cup {Nothing}
          /\ drawer' \in [mode : {"closed", "create", "edit"}, id : Reminders \cup {Nothing}]
          /\ (drawer'.mode = "edit") = (drawer'.id # Nothing)
      BY <1>0, <1>8, <2>2, PagesAssumption DEF Tasks!OpenDrawer, Tasks!CloseDrawer,
         Tasks!StartReschedule, Tasks!StopReschedule, Tasks!Closed, Tasks!ItemRow,
             Tasks!TypeOK, Tasks!FollowUpsViewAssumption
    <2>4. Tasks!TypeOK'
      BY <1>0, <1>1, <1>2, <2>1, <2>3 DEF Tasks!TypeOK, Tasks!InFlight
    <2>5. IdsInv' /\ SubmitInv'
      BY <1>0, <1>1, <1>2, <2>1 DEF IdsInv, SubmitInv
    <2>6. TabsAreFresh'
      <3>1. ShownIsFresh'
        BY <1>0, <1>2, <1>3, <2>1 DEF TabsAreFresh, ShownIsFresh
      <3>2. FetchIsFresh'
        BY <1>0, <1>2, <1>3, <2>1 DEF TabsAreFresh, FetchIsFresh
      <3> QED
        BY <1>0, <2>1, <3>1, <3>2 DEF TabsAreFresh
    <2> QED
      BY <1>3, <2>4, <2>5, <2>6 DEF TasksInv
  <1> QED
    BY <1>4, <1>5, <1>6, <1>7, <1>8

\* The server answers the request of one tab.
LEMMA ListStep ==
    ASSUME TasksInv, NEW t \in Tasks!Tabs, Tasks!list(t)
    PROVE  TasksInv'
  <1>0. Tasks!TypeOK /\ IdsInv /\ SubmitInv /\ TabsAreFresh /\ Tasks!BusyRowIsFreed
    BY DEF TasksInv
  <1>1. /\ UNCHANGED <<reminder, now, behind, others, state, shown, asked, busyId, reschedulingId,
                       drawer, submitting, call>>
        /\ t \in fetch.left
    BY DEF Tasks!list, Tasks!clocks, Tasks!widgets
  <1>2. /\ Tasks!Stored' = Tasks!Stored
        /\ \A s \in Tasks!Tabs : \A n, from : Tasks!Answers(s, n, from)' = Tasks!Answers(s, n, from)
    BY <1>1, RowsFollow
  <1>3. Tasks!BusyRowIsFreed' /\ ShownIsFresh' /\ TasksTold' = TasksTold
    BY <1>0, <1>1, <1>2 DEF Tasks!BusyRowIsFreed, Tasks!InFlight, TabsAreFresh, ShownIsFresh, TasksTold
  <1>7. PICK R \in Tasks!Answers(t, now, fetch.at + ClockSkew) :
          fetch' = [fetch EXCEPT !.left = @ \ {t}, !.rows[t] = R]
    BY DEF Tasks!list
  <1>8. R \subseteq Tasks!ItemRow /\ \A x \in R : x.id \in Tasks!Stored
    BY <1>0, <1>7, ItemsAreRows
  <1>9. PICK g : g = fetch /\ g \in Fetches
    BY <1>0 DEF Tasks!TypeOK, Fetches
  <1>10. fetch' = [g EXCEPT !.left = @ \ {t}, !.rows[t] = R]
    BY <1>7, <1>9
  <1>11. /\ fetch' \in Fetches /\ fetch'.phase = g.phase /\ fetch'.at = g.at
              /\ fetch'.left = g.left \ {t}
         /\ fetch'.rows[t] = R /\ \A s \in Tasks!Tabs : s # t => fetch'.rows[s] = g.rows[s]
    BY <1>8, <1>9, <1>10 DEF Fetches
  <1>12. state = "loading" /\ fetch' # Tasks!NoFetch /\ fetch.phase = "sent"
    <2>1. fetch # Tasks!NoFetch
      BY <1>1 DEF Tasks!NoFetch
    <2>2. state = "loading"
      BY <1>0, <2>1 DEF Tasks!TypeOK
    <2>3. fetch.phase = "sent"
      BY <1>0, <2>1 DEF Tasks!TypeOK, SubmitInv
    <2> QED
      BY <2>2, <2>3, <1>9, <1>11 DEF Tasks!NoFetch
  <1>13. Tasks!TypeOK'
    BY <1>0, <1>1, <1>2, <1>11, <1>12 DEF Tasks!TypeOK, Fetches, Tasks!InFlight
  <1>14. IdsInv' /\ SubmitInv'
    BY <1>0, <1>1, <1>2, <1>8, <1>9, <1>11, <1>12 DEF IdsInv, SubmitInv
  <1>15. g.at <= now /\ now \in g.at .. now
    <2>1. now \in Nat /\ g.at \in Nat
      BY <1>0, <1>9, PagesAssumption DEF Fetches, Tasks!TypeOK, Tasks!Times, Tasks!FollowUpsViewAssumption
    <2> QED
      BY <1>0, <1>9, <1>12, <2>1 DEF TabsAreFresh
  <1>17. FetchIsFresh'
    <2>1. SUFFICES ASSUME ~behind, TasksTold, NEW s \in Tasks!Tabs, s \notin fetch'.left
                   PROVE  \E n \in g.at .. now : fetch'.rows[s] \in Tasks!Answers(s, n, g.at + ClockSkew)
      BY <1>1, <1>2, <1>3, <1>11 DEF FetchIsFresh
    <2>2. CASE s = t
      BY <1>7, <1>9, <1>11, <1>15, <2>2
    <2>3. CASE s # t
      BY <1>0, <1>9, <1>11, <1>12, <2>1, <2>3 DEF TabsAreFresh, FetchIsFresh
    <2> QED
      BY <2>2, <2>3
  <1> QED
    BY <1>1, <1>3, <1>9, <1>11, <1>13, <1>14, <1>15, <1>17 DEF TasksInv, TabsAreFresh

-----------------------------------------------------------------------------
\* A call that is sent.
LEMMA TasksSendSteps ==
    ASSUME TasksInv, NEW c \in Asks,
           \/ \E item \in Tasks!Rows : \/ \E kind \in {"complete", "cancel"} :
                                            Tasks!runAction(c, kind, item)
                                \/ Tasks!confirmReschedule(c, item)
           \/ Tasks!handleSubmit(c)
    PROVE  TasksInv'
  <1>0. Tasks!TypeOK /\ IdsInv /\ SubmitInv /\ TabsAreFresh /\ Tasks!BusyRowIsFreed
    BY DEF TasksInv
  <1>1. /\ UNCHANGED <<reminder, now, behind, others, state, shown, fetch, asked, reschedulingId, drawer>>
        /\ call[c] = Tasks!NoCall /\ call[c].server = "none" /\ call[c].kind = "none"
    BY TasksNoCallIsCall DEF Tasks!runAction, Tasks!confirmReschedule, Tasks!handleSubmit,
       Tasks!Send, Tasks!clocks, Tasks!lists
  <1>2. /\ Tasks!Stored' = Tasks!Stored
        /\ \A t \in Tasks!Tabs : \A n, from : Tasks!Answers(t, n, from)' = Tasks!Answers(t, n, from)
    BY <1>1, RowsFollow
  <1>3. ASSUME NEW k \in {"complete", "cancel", "reschedule", "create", "update"},
               NEW f \in Reminders \cup {Nothing}, NEW at \in Tasks!Times,
               call' = [call EXCEPT ![c] = [kind |-> k, id |-> f, at |-> at, server |-> "sent"]],
               k \in Tasks!RowActions => f \in Tasks!Stored /\ busyId' = f /\ submitting' = submitting,
               k \notin Tasks!RowActions => busyId' = busyId /\ submitting' = c
        PROVE  TasksInv'
    <2>1. PICK x : x = [kind |-> k, id |-> f, at |-> at, server |-> "sent"]
      OBVIOUS
    <2>2. x \in Tasks!Call /\ x.kind = k /\ x.id = f /\ x.server = "sent"
      BY <2>1 DEF Tasks!Call
    <2>3. call' \in [Asks -> Tasks!Call] /\ call'[c] = x /\ \A q \in Asks : q # c => call'[q] = call[q]
      BY <1>0, <1>3, <2>1, <2>2 DEF Tasks!TypeOK
    <2>4. Tasks!TypeOK'
      BY <1>0, <1>1, <1>2, <1>3, <2>2, <2>3, ItemsAreRows DEF Tasks!TypeOK, Tasks!InFlight
    <2>5. IdsInv'
      BY <1>0, <1>1, <1>2, <1>3, <2>2, <2>3 DEF IdsInv
    <2>6. SubmitInv'
      <3>1. submitting # Nothing => submitting \in Asks /\ submitting # c
        BY <1>0, <1>1 DEF Tasks!TypeOK, Tasks!InFlight
      <3> QED
        BY <1>0, <1>1, <1>3, <2>2, <2>3, <3>1 DEF SubmitInv, Tasks!RowActions
    <2>7. Tasks!BusyRowIsFreed'
      BY <1>0, <1>1, <1>3, <2>2, <2>3 DEF Tasks!BusyRowIsFreed, Tasks!InFlight
    <2>8. TabsAreFresh'
      <3>1. TasksTold' => TasksTold
        BY <1>1, <2>3 DEF TasksTold
      <3>2. ShownIsFresh'
        BY <1>0, <1>1, <1>2, <3>1 DEF TabsAreFresh, ShownIsFresh
      <3>3. FetchIsFresh'
        BY <1>0, <1>1, <1>2, <3>1 DEF TabsAreFresh, FetchIsFresh
      <3> QED
        BY <1>0, <1>1, <3>2, <3>3 DEF TabsAreFresh
    <2> QED
      BY <2>4, <2>5, <2>6, <2>7, <2>8 DEF TasksInv
  <1>4. \A item \in Tasks!Rows : item.id \in Tasks!Stored /\ item.id \in Reminders
    BY <1>0 DEF Tasks!Rows, IdsInv, Tasks!Stored
  <1>5. 0 \in Tasks!Times
    BY PagesAssumption DEF Tasks!Times, Tasks!FollowUpsViewAssumption
  <1>6. ASSUME NEW item \in Tasks!Rows, NEW kind \in {"complete", "cancel"}, Tasks!runAction(c, kind, item)
        PROVE  TasksInv'
    <2>1. /\ call' = [call EXCEPT ![c] = [kind |-> kind, id |-> item.id, at |-> 0, server |-> "sent"]]
          /\ busyId' = item.id /\ submitting' = submitting
      BY <1>6 DEF Tasks!runAction, Tasks!Send
    <2> QED
      BY <1>3, <1>4, <1>5, <2>1 DEF Tasks!RowActions
  <1>7. ASSUME NEW item \in Tasks!Rows, Tasks!confirmReschedule(c, item)
        PROVE  TasksInv'
    <2>1. PICK at \in Tasks!Times :
                   call' = [call EXCEPT ![c] = [kind |-> "reschedule", id |-> item.id, at |-> at,
                       server |-> "sent"]]
      BY <1>7 DEF Tasks!confirmReschedule, Tasks!Send
    <2>2. busyId' = item.id /\ submitting' = submitting
      BY <1>7 DEF Tasks!confirmReschedule
    <2> QED
      BY <1>3, <1>4, <2>1, <2>2 DEF Tasks!RowActions
  <1>8. CASE Tasks!handleSubmit(c)
    <2>1. busyId' = busyId /\ submitting' = c
      BY <1>8 DEF Tasks!handleSubmit
    <2>2. CASE drawer.mode = "create" /\ \E at \in Tasks!Times : Tasks!Send(c, "create", Nothing, at)
      <3>1. PICK at \in Tasks!Times :
                     call' = [call EXCEPT ![c] = [kind |-> "create", id |-> Nothing, at |-> at,
                         server |-> "sent"]]
        BY <2>2 DEF Tasks!Send
      <3> QED
        BY <1>3, <2>1, <3>1 DEF Tasks!RowActions
    <2>3. CASE drawer.mode = "edit" /\ Tasks!Send(c, "update", drawer.id, 0)
      <3>1. call' = [call EXCEPT ![c] = [kind |-> "update", id |-> drawer.id, at |-> 0, server |-> "sent"]]
        BY <2>3 DEF Tasks!Send
      <3>2. drawer.id \in Reminders \cup {Nothing}
        BY <1>0 DEF Tasks!TypeOK
      <3> QED
        BY <1>3, <1>5, <2>1, <3>1, <3>2 DEF Tasks!RowActions
    <2> QED
      BY <1>8, <2>2, <2>3 DEF Tasks!handleSubmit
  <1> QED
    BY <1>6, <1>7, <1>8

-----------------------------------------------------------------------------
\* A write leaves a row of what it is written to.
LEMMA TasksWritten ==
    ASSUME Tasks!TypeOK, NEW f \in Tasks!Stored,
           (\E kind \in {"complete", "cancel"} : Tasks!Settles(kind, f))
               \/ (\E at \in Tasks!Times : Tasks!Reschedules(f, at))
    PROVE  reminder' \in [Reminders -> {Nothing} \cup Tasks!Row] /\ Tasks!Stored' = Tasks!Stored
  <1>1. f \in Reminders /\ reminder \in [Reminders -> {Nothing} \cup Tasks!Row]
    BY DEF Tasks!Stored, Tasks!TypeOK
  <1>2. PICK x \in Tasks!Row : x = reminder[f]
    BY ItemsAreRows
  <1>3. PICK y : (\/ \E s \in Tasks!Statuses : y = [x EXCEPT !.status = s]
                  \/ \E at \in Tasks!Times : y = [x EXCEPT !.at = at])
                 /\ reminder' = [reminder EXCEPT ![f] = y]
    <2>1. CASE \E kind \in {"complete", "cancel"} : Tasks!Settles(kind, f)
      <3>1. PICK s \in Tasks!Statuses : reminder' = [reminder EXCEPT ![f].status = s]
        BY <2>1 DEF Tasks!Settles, Tasks!Statuses
      <3>2. reminder' = [reminder EXCEPT ![f] = [x EXCEPT !.status = s]]
        BY <1>2, <3>1
      <3> QED
        BY <3>2
    <2>2. CASE \E at \in Tasks!Times : Tasks!Reschedules(f, at)
      <3>1. PICK at \in Tasks!Times : reminder' = [reminder EXCEPT ![f].at = at]
        BY <2>2 DEF Tasks!Reschedules
      <3>2. reminder' = [reminder EXCEPT ![f] = [x EXCEPT !.at = at]]
        BY <1>2, <3>1
      <3> QED
        BY <3>2
    <2> QED
      BY <2>1, <2>2
  <1>4. y \in Tasks!Row
    BY <1>3 DEF Tasks!Row
  <1>5. /\ reminder' \in [Reminders -> {Nothing} \cup Tasks!Row] /\ reminder'[f] = y
        /\ \A g \in Reminders : g # f => reminder'[g] = reminder[g]
    BY <1>1, <1>3, <1>4
  <1>6. y # Nothing /\ x # Nothing
    BY <1>4, PagesAssumption DEF Tasks!FollowUpsViewAssumption
  <1> QED
    BY <1>1, <1>2, <1>5, <1>6 DEF Tasks!Stored

\* The server does what a call asks, or refuses it.
LEMMA TasksServerSteps ==
    ASSUME TasksInv, NEW c \in Asks, Tasks!ServerDoes(c) \/ Tasks!ServerRefuses(c)
    PROVE  TasksInv'
  <1>0. Tasks!TypeOK /\ IdsInv /\ SubmitInv /\ TabsAreFresh /\ Tasks!BusyRowIsFreed
    BY DEF TasksInv
  <1>1. /\ UNCHANGED <<now, behind, others, state, shown, fetch, asked, busyId, reschedulingId,
                       drawer, submitting>>
        /\ call[c].server = "sent"
    BY DEF Tasks!ServerDoes, Tasks!ServerRefuses, Tasks!clocks, Tasks!lists, Tasks!widgets
  <1>2. PICK s \in {"done", "refused"} : call' = [call EXCEPT ![c].server = s]
                                         /\ (s = "refused" => reminder' = reminder)
    BY DEF Tasks!ServerDoes, Tasks!ServerRefuses
  <1>3. PICK x \in Tasks!Call : x = call[c]
    BY <1>0 DEF Tasks!TypeOK
  <1>4. PICK y : y = [x EXCEPT !.server = s]
    OBVIOUS
  <1>5. y \in Tasks!Call /\ y.server = s /\ y.kind = x.kind /\ y.id = x.id
    BY <1>4 DEF Tasks!Call
  <1>6. call' \in [Asks -> Tasks!Call] /\ call'[c] = y /\ \A q \in Asks : q # c => call'[q] = call[q]
    <2>1. call' = [call EXCEPT ![c] = y] /\ call \in [Asks -> Tasks!Call]
      BY <1>0, <1>2, <1>3, <1>4 DEF Tasks!TypeOK
    <2> QED
      BY <1>5, <2>1
  <1>7. reminder' \in [Reminders -> {Nothing} \cup Tasks!Row] /\ Tasks!Stored \subseteq Tasks!Stored'
    <2>1. CASE reminder' = reminder
      BY <1>0, <2>1 DEF Tasks!TypeOK, Tasks!Stored
    <2>2. CASE Tasks!ServerDoes(c) /\ x.kind \in Tasks!RowActions
      <3>1. x.id \in Tasks!Stored /\ x.at \in Tasks!Times
        BY <1>0, <1>3, <2>2 DEF IdsInv, Tasks!Call
      <3>2. (\E kind \in {"complete", "cancel"} : Tasks!Settles(kind, x.id))
                \/ (\E at \in Tasks!Times : Tasks!Reschedules(x.id, at))
        BY <1>3, <2>2, <3>1 DEF Tasks!ServerDoes, Tasks!RowActions
      <3> QED
        BY <1>0, <3>1, <3>2, TasksWritten
    <2>3. CASE Tasks!ServerDoes(c) /\ x.kind = "create"
      <3>1. PICK f \in Reminders \ Tasks!Stored :
                     reminder' = [reminder EXCEPT ![f] = [status |-> "PENDING", at |-> x.at]]
        BY <1>3, <2>3 DEF Tasks!ServerDoes
      <3>2. PICK r \in Tasks!Row : r = [status |-> "PENDING", at |-> x.at]
        BY <1>3 DEF Tasks!Call, Tasks!Row, Tasks!Statuses
      <3>3. /\ reminder' \in [Reminders -> {Nothing} \cup Tasks!Row]
            /\ \A g \in Reminders : g # f => reminder'[g] = reminder[g]
        BY <1>0, <3>1, <3>2 DEF Tasks!TypeOK
      <3> QED
        BY <3>1, <3>3 DEF Tasks!Stored
    <2>4. CASE Tasks!ServerDoes(c) /\ x.kind = "update"
      <3>1. reminder' = reminder
        BY <1>3, <2>4 DEF Tasks!ServerDoes
      <3> QED
        BY <2>1, <3>1
    <2>5. CASE Tasks!ServerDoes(c) /\ x.kind \in {"none", "over"}
      <3>1. FALSE
        BY <1>0, <1>1, <1>3, <2>5 DEF IdsInv
      <3> QED
        BY <3>1
    <2>6. CASE Tasks!ServerRefuses(c)
      <3>1. reminder' = reminder
        BY <2>6 DEF Tasks!ServerRefuses
      <3> QED
        BY <2>1, <3>1
    <2>7. x.kind \in Tasks!RowActions \cup {"create", "update", "none", "over"}
      BY <1>3 DEF Tasks!Call, Tasks!RowActions
    <2> QED
      BY <2>2, <2>3, <2>4, <2>5, <2>6, <2>7
  <1>8. Tasks!TypeOK'
    BY <1>0, <1>1, <1>3, <1>5, <1>6, <1>7 DEF Tasks!TypeOK, Tasks!InFlight
  <1>9. IdsInv'
    BY <1>0, <1>1, <1>3, <1>5, <1>6, <1>7 DEF IdsInv
  <1>10. SubmitInv'
    BY <1>0, <1>1, <1>3, <1>5, <1>6 DEF SubmitInv, Tasks!TypeOK
  <1>11. Tasks!BusyRowIsFreed'
    BY <1>0, <1>1, <1>3, <1>5, <1>6 DEF Tasks!BusyRowIsFreed, Tasks!InFlight
  <1>12. TabsAreFresh'
    <2>1. CASE s = "done"
      <3>1. ~TasksTold'
        BY <1>5, <1>6, <2>1 DEF TasksTold
      <3> QED
        BY <1>0, <1>1, <3>1 DEF TabsAreFresh, ShownIsFresh, FetchIsFresh
    <2>2. CASE s = "refused"
      <3>1. TasksTold' => TasksTold
        BY <1>1, <1>6, <2>2 DEF TasksTold
      <3>2. /\ Tasks!Stored' = Tasks!Stored
            /\ \A t \in Tasks!Tabs : \A n, from : Tasks!Answers(t, n, from)' = Tasks!Answers(t, n, from)
        BY <1>2, <2>2, RowsFollow
      <3>3. ShownIsFresh'
        BY <1>0, <1>1, <3>1, <3>2 DEF TabsAreFresh, ShownIsFresh
      <3>4. FetchIsFresh'
        BY <1>0, <1>1, <3>1, <3>2 DEF TabsAreFresh, FetchIsFresh
      <3> QED
        BY <1>0, <1>1, <3>3, <3>4 DEF TabsAreFresh
    <2> QED
      BY <2>1, <2>2
  <1> QED
    BY <1>8, <1>9, <1>10, <1>11, <1>12 DEF TasksInv

(* What others write the page does not know of. *)
LEMMA TasksOthersSteps ==
    ASSUME TasksInv, NEW f \in Reminders, Tasks!OthersWrite(f)
    PROVE  TasksInv'
  <1>0. Tasks!TypeOK /\ IdsInv /\ SubmitInv /\ TabsAreFresh /\ Tasks!BusyRowIsFreed
    BY DEF TasksInv
  <1>1. /\ UNCHANGED <<now, state, shown, fetch, asked, busyId, reschedulingId, drawer, submitting, call>>
        /\ others < MaxOthers /\ others' = others + 1 /\ behind' = TRUE /\ f \in Tasks!Stored
    BY DEF Tasks!OthersWrite, Tasks!lists, Tasks!widgets
  <1>2. reminder' \in [Reminders -> {Nothing} \cup Tasks!Row] /\ Tasks!Stored' = Tasks!Stored
    BY <1>0, <1>1, TasksWritten DEF Tasks!OthersWrite
  <1>3. others' \in 0 .. MaxOthers
    BY <1>0, <1>1, PagesAssumption DEF Tasks!TypeOK, Tasks!FollowUpsViewAssumption
  <1>4. Tasks!TypeOK'
    BY <1>0, <1>1, <1>2, <1>3 DEF Tasks!TypeOK, Tasks!InFlight
  <1>5. IdsInv' /\ SubmitInv'
    BY <1>0, <1>1, <1>2 DEF IdsInv, SubmitInv
  <1>6. TabsAreFresh' /\ Tasks!BusyRowIsFreed'
    BY <1>0, <1>1 DEF TabsAreFresh, FetchIsFresh, ShownIsFresh, Tasks!BusyRowIsFreed, Tasks!InFlight
  <1> QED
    BY <1>4, <1>5, <1>6 DEF TasksInv

-----------------------------------------------------------------------------
\* The page hears how a call of its own ended.
LEMMA TasksAnswerSteps ==
    ASSUME TasksInv, NEW c \in Asks, Tasks!ActionAnswers(c) \/ Tasks!DrawerAnswers(c)
    PROVE  TasksInv'
  <1>0. Tasks!TypeOK /\ IdsInv /\ SubmitInv /\ TabsAreFresh /\ Tasks!BusyRowIsFreed
    BY DEF TasksInv
  <1>1. /\ UNCHANGED <<reminder, now, others>> /\ Tasks!Answered(c)
        /\ call[c].server \in {"done", "refused"} /\ call' = [call EXCEPT ![c] = Tasks!Over]
    BY DEF Tasks!ActionAnswers, Tasks!DrawerAnswers
  <1>2. /\ Tasks!Stored' = Tasks!Stored
        /\ \A t \in Tasks!Tabs : \A n, from : Tasks!Answers(t, n, from)' = Tasks!Answers(t, n, from)
    BY <1>1, RowsFollow
  <1>t. now \in Tasks!Times /\ now \in Nat
    BY <1>0, PagesAssumption DEF Tasks!TypeOK, Tasks!Times, Tasks!FollowUpsViewAssumption
  <1>3. call' \in [Asks -> Tasks!Call] /\ call'[c] = Tasks!Over /\ \A q \in Asks : q # c
            => call'[q] = call[q]
    BY <1>0, <1>1, TasksNoCallIsCall DEF Tasks!TypeOK
  <1>4. \/ /\ call[c].kind \in Tasks!RowActions /\ busyId' = Nothing
                /\ reschedulingId' \in {Nothing, reschedulingId}
           /\ drawer' = drawer /\ submitting' = submitting
        \/ /\ call[c].kind \in {"create", "update"} /\ drawer' \in {Tasks!Closed, drawer}
           /\ submitting' = (IF submitting = c THEN Nothing ELSE submitting)
           /\ busyId' = busyId /\ reschedulingId' = reschedulingId
    BY DEF Tasks!ActionAnswers, Tasks!DrawerAnswers, Tasks!Freed, Tasks!Submitted
  <1>5. /\ {busyId', reschedulingId'} \subseteq Reminders \cup {Nothing}
        /\ drawer' \in [mode : {"closed", "create", "edit"}, id : Reminders \cup {Nothing}]
        /\ (drawer'.mode = "edit") = (drawer'.id # Nothing)
    BY <1>0, <1>4 DEF Tasks!TypeOK, Tasks!Closed
  <1>6. submitting' # Nothing => submitting' = submitting /\ submitting \in Asks /\ submitting # c
    BY <1>0, <1>4 DEF Tasks!TypeOK, SubmitInv, Tasks!RowActions
  <1>7. Tasks!BusyRowIsFreed'
    BY <1>0, <1>3, <1>4 DEF Tasks!BusyRowIsFreed, Tasks!InFlight, Tasks!RowActions
  <1>8. call[c].server = "refused" => (TasksTold' => TasksTold)
    BY <1>3 DEF TasksTold
  <1>9. CASE call[c].server = "done"
    <2>1. state' = "loading" /\ fetch' = Tasks!Asked /\ asked' = Tasks!Stored /\ behind' = FALSE
              /\ shown' = Tasks!NoTabs
      BY <1>1, <1>9 DEF Tasks!Answered, Tasks!reload
    <2>a. fetch' \in Fetches /\ fetch' # Tasks!NoFetch /\ shown' \in [Tasks!Tabs -> SUBSET Tasks!ItemRow]
      BY <1>t, <2>1, AskedIsFetch
    <2>b. submitting' # Nothing => submitting' \in Asks /\ Tasks!InFlight(submitting)'
      BY <1>0, <1>3, <1>6 DEF Tasks!TypeOK, Tasks!InFlight
    <2>2. Tasks!TypeOK'
      BY <1>0, <1>1, <1>2, <1>3, <1>5, <2>1, <2>a, <2>b DEF Tasks!TypeOK, Fetches
    <2>3. IdsInv'
      BY <1>0, <1>1, <1>2, <1>t, <1>3, <2>1, AskedIsFetch, TasksNoCallIsCall DEF IdsInv,
         Tasks!RowActions
    <2>4. SubmitInv'
      BY <1>0, <1>t, <1>3, <1>6, <2>1, AskedIsFetch DEF SubmitInv
    <2>5. TabsAreFresh'
      BY <1>1, <1>t, <2>1, AskedIsFetch DEF FetchIsFresh, TabsAreFresh, ShownIsFresh, Tasks!Tabs,
         Tasks!Times
    <2> QED
      BY <1>7, <2>2, <2>3, <2>4, <2>5 DEF TasksInv
  <1>10. CASE call[c].server = "refused"
    <2>1. UNCHANGED <<state, shown, fetch, asked, behind>>
      BY <1>1, <1>10 DEF Tasks!Answered, Tasks!lists
    <2>2. Tasks!TypeOK'
      BY <1>0, <1>1, <1>2, <1>3, <1>5, <1>6, <2>1 DEF Tasks!TypeOK, Tasks!InFlight
    <2>3. IdsInv'
      BY <1>0, <1>1, <1>2, <1>3, <2>1, TasksNoCallIsCall DEF IdsInv, Tasks!RowActions
    <2>4. SubmitInv'
      BY <1>0, <1>3, <1>6, <2>1 DEF SubmitInv
    <2>5. ShownIsFresh'
      BY <1>0, <1>1, <1>2, <1>8, <1>10, <2>1 DEF TabsAreFresh, ShownIsFresh
    <2>6. FetchIsFresh'
      BY <1>0, <1>1, <1>2, <1>8, <1>10, <2>1 DEF TabsAreFresh, FetchIsFresh
    <2> QED
      BY <1>0, <1>1, <1>7, <2>1, <2>2, <2>3, <2>4, <2>5, <2>6 DEF TasksInv, TabsAreFresh
  <1> QED
    BY <1>1, <1>9, <1>10

(* Every step of the page keeps its invariant. *)
LEMMA TasksKeep ==
    ASSUME TasksInv, [Tasks!Next]_Tasks!vars
    PROVE  TasksInv'
  <1>1. CASE \/ Tasks!Tick \/ Tasks!ListsArrive \/ Tasks!ListsFail \/ Tasks!Retry \/ Tasks!OpenDrawer
                  \/ Tasks!CloseDrawer
             \/ \E item \in Tasks!Rows : Tasks!StartReschedule(item) \/ Tasks!StopReschedule(item)
    BY <1>1, TasksPageSteps
  <1>2. ASSUME NEW t \in Tasks!Tabs, Tasks!list(t)
        PROVE  TasksInv'
    BY <1>2, ListStep
  <1>3. ASSUME NEW c \in Asks,
               \/ \E item \in Tasks!Rows : \/ \E kind \in {"complete", "cancel"} :
                                                Tasks!runAction(c, kind, item)
                                    \/ Tasks!confirmReschedule(c, item)
               \/ Tasks!handleSubmit(c)
        PROVE  TasksInv'
    BY <1>3, TasksSendSteps
  <1>4. ASSUME NEW c \in Asks, Tasks!ServerDoes(c) \/ Tasks!ServerRefuses(c)
        PROVE  TasksInv'
    BY <1>4, TasksServerSteps
  <1>5. ASSUME NEW c \in Asks, Tasks!ActionAnswers(c) \/ Tasks!DrawerAnswers(c)
        PROVE  TasksInv'
    BY <1>5, TasksAnswerSteps
  <1>6. ASSUME NEW f \in Reminders, Tasks!OthersWrite(f)
        PROVE  TasksInv'
    BY <1>6, TasksOthersSteps
  <1>7. CASE UNCHANGED Tasks!vars
    <2>1. UNCHANGED <<reminder, now, behind, others, state, shown, fetch, asked, busyId, reschedulingId,
                      drawer, submitting, call>>
      BY <1>7 DEF Tasks!vars, Tasks!clocks, Tasks!lists, Tasks!widgets
    <2>2. /\ Tasks!Stored' = Tasks!Stored
          /\ \A t \in Tasks!Tabs : \A n, from : Tasks!Answers(t, n, from)' = Tasks!Answers(t, n, from)
      BY <2>1, RowsFollow
    <2>3. Tasks!TypeOK' /\ IdsInv' /\ SubmitInv' /\ Tasks!BusyRowIsFreed'
      BY <2>1, <2>2 DEF TasksInv, Tasks!TypeOK, IdsInv, SubmitInv, Tasks!BusyRowIsFreed, Tasks!InFlight
    <2>4. TasksTold' = TasksTold
      BY <2>1 DEF TasksTold
    <2>5. ShownIsFresh' /\ FetchIsFresh'
      BY <2>1, <2>2, <2>4 DEF TasksInv, TabsAreFresh, ShownIsFresh, FetchIsFresh
    <2> QED
      BY <2>1, <2>3, <2>5 DEF TasksInv, TabsAreFresh
  <1> QED
    BY <1>1, <1>2, <1>3, <1>4, <1>5, <1>6, <1>7 DEF Tasks!Next

(* At rest, the tabs are answers about the rows of now. *)
LEMMA TasksAreFresh ==
    ASSUME TasksInv
    PROVE  Tasks!QuietIsFresh
  BY DEF TasksInv, TabsAreFresh, ShownIsFresh, TasksTold, Tasks!QuietIsFresh, Tasks!InFlight

-----------------------------------------------------------------------------
(* The pages together *)

\* What holds of the part a behaviour is of.
PagesInv ==
    /\ part = "calendar" => CalendarInv
    /\ part = "serial" => SerialInv
    /\ part = "agenda" => AgendaInv
    /\ part = "quick" => QuickInv
    /\ part = "board" => BoardInv
    /\ part = "tasks" => TasksInv

(* Each part starts as it should. *)
LEMMA PagesStart ==
    ASSUME PagesInit
    PROVE  PagesInv
  <1>1. Serial!Init => Concurrent!Init
    BY DEF Serial!Init, Concurrent!Init, Serial!Only, Concurrent!Only
  <1> QED
    BY <1>1, CalendarStarts, SerialStarts, AgendaStarts, QuickStarts, BoardStarts, TasksStart
    DEF PagesInit, PagesInv

(* A step is of one part. *)
LEMMA PagesKeep ==
    ASSUME PagesInv, [PagesNext]_allVars
    PROVE  PagesInv'
  <1>1. UNCHANGED part
    BY DEF PagesNext, allVars
  <1>2. ASSUME part = "calendar"
        PROVE  CalendarInv'
    <2>1. [Concurrent!Next]_<<event, audit, req>>
      BY <1>2 DEF PagesNext, allVars, calendar
    <2> QED
      BY <1>2, <2>1, CalendarKeeps DEF PagesInv
  <1>3. ASSUME part = "serial"
        PROVE  SerialInv'
    <2>1. [Serial!Next]_<<event, audit, req>>
      BY <1>3 DEF PagesNext, allVars, calendar
    <2>2. SerialInv
      BY <1>3 DEF PagesInv
    <2>3. SerialStep
      BY <2>1, <2>2, SerialSteps DEF SerialInv
    <2> QED
      BY <2>2, <2>3, SerialKeeps
  <1>4. ASSUME part = "agenda"
        PROVE  AgendaInv'
    <2>1. [Agenda!Next]_Agenda!vars
      BY <1>4 DEF PagesNext, allVars, calendar, agenda, page, Agenda!vars, Agenda!server, Agenda!list,
         Agenda!drawer
    <2> QED
      BY <1>4, <2>1, AgendaKeeps DEF PagesInv
  <1>5. ASSUME part = "quick"
        PROVE  QuickInv'
    <2>1. [Quick!Next]_Quick!vars
      BY <1>5 DEF PagesNext, allVars, quick, page, Quick!vars, Quick!host, Quick!quick
    <2> QED
      BY <1>5, <2>1, QuickKeeps DEF PagesInv
  <1>6. ASSUME part = "board"
        PROVE  BoardInv'
    <2>1. [Board!Next]_Board!vars
      BY <1>6 DEF PagesNext, allVars, board, lists, page, Board!vars, Board!server, Board!page,
         Board!drawer
    <2> QED
      BY <1>6, <2>1, BoardKeeps DEF PagesInv
  <1>7. ASSUME part = "tasks"
        PROVE  TasksInv'
    <2>1. [Tasks!Next]_Tasks!vars
      BY <1>7 DEF PagesNext, allVars, tasks, lists, page, Tasks!vars, Tasks!clocks, Tasks!lists,
         Tasks!widgets
    <2> QED
      BY <1>7, <2>1, TasksKeep DEF PagesInv
  <1> QED
    BY <1>1, <1>2, <1>3, <1>4, <1>5, <1>6, <1>7 DEF PagesInv

(* In every state of every behaviour. *)
LEMMA PagesInvariant == PagesSpec => []PagesInv
  BY PagesStart, PagesKeep, PTL DEF PagesSpec

(* The serial calendar speaks of the same rows and trails as the concurrent one. *)
LEMMA SerialSpeaks ==
    ASSUME SerialInv
    PROVE  /\ Serial!TypeOK /\ Serial!TrailExplainsStatus
           /\ Serial!IntervalHolds /\ Serial!StatusSetOnce
  <1>0. /\ Concurrent!TypeOK /\ Concurrent!TrailExplainsStatus
        /\ Concurrent!IntervalHolds /\ Concurrent!StatusSetOnce
    BY DEF SerialInv, CalendarInv, RowsInv
  <1>1. /\ Serial!Row = Concurrent!Row /\ Serial!AuditEntry = Concurrent!AuditEntry
        /\ Serial!Call = Concurrent!Call /\ Serial!Answers = Concurrent!Answers
    BY DEF Serial!Row, Concurrent!Row, Serial!AuditEntry, Concurrent!AuditEntry, Serial!Call,
       Concurrent!Call,
       Serial!Answers, Concurrent!Answers, Serial!Statuses, Concurrent!Statuses
  <1>2. /\ \A p : Serial!Only(p) = Concurrent!Only(p)
        /\ \A op : Serial!Target(op) = Concurrent!Target(op)
        /\ \A starts, ends : Serial!IntervalOk(starts, ends) = Concurrent!IntervalOk(starts, ends)
        /\ \A e : Serial!StatusEntries(e) = Concurrent!StatusEntries(e)
    BY DEF Serial!Only, Concurrent!Only, Serial!Target, Concurrent!Target, Serial!IntervalOk,
       Concurrent!IntervalOk, Serial!StatusEntries, Concurrent!StatusEntries
  <1>3. Serial!InRequest = Concurrent!InRequest
    BY <1>1 DEF Serial!InRequest, Concurrent!InRequest
  <1>4. Serial!TypeOK
    <2>1. {Serial!Only(p) : p \in Serial!Answers \cup {"unsent"}}
            = {Concurrent!Only(p) : p \in Concurrent!Answers \cup {"unsent"}}
      BY <1>1, <1>2
    <2> QED
      BY <1>0, <1>1, <1>3, <2>1 DEF Serial!TypeOK, Concurrent!TypeOK
  <1>5. Serial!TrailExplainsStatus
    BY <1>0, <1>2 DEF Serial!TrailExplainsStatus, Concurrent!TrailExplainsStatus
  <1>6. Serial!IntervalHolds /\ Serial!StatusSetOnce
    BY <1>0, <1>2 DEF Serial!IntervalHolds, Concurrent!IntervalHolds, Serial!StatusSetOnce,
       Concurrent!StatusSetOnce
  <1> QED
    BY <1>4, <1>5, <1>6

\* Every variable of every page has its type; with it, a page shows its spinner exactly while
\* it awaits a listing, and the leads that are listed are the stored ones, each of them once.
THEOREM PagesTypesHold == PagesSpec => []PagesTypeOK
  <1>1. PagesInv => PagesTypeOK
    BY SerialSpeaks DEF PagesInv, PagesTypeOK, CalendarInv, RowsInv, AgendaInv, QuickInv, BoardInv,
       TasksInv
  <1> QED
    BY <1>1, PagesInvariant, PTL

\* CalendarEventsService: for any number of overlapping requests, on any pool of connections,
\* an event stands as its last complete or cancel entry left it.
THEOREM TrailsExplainStatuses == PagesSpec => []TrailExplainsStatus
  <1>1. PagesInv => TrailExplainsStatus
    BY SerialSpeaks DEF PagesInv, TrailExplainsStatus, CalendarInv
  <1> QED
    BY <1>1, PagesInvariant, PTL

\* CalendarEventsService, one request at a time: after any number of them no event ends before
\* it starts, and its trail has one change of its status at most.
THEOREM SerialRequestsStayExact == PagesSpec => []SerialRequestsAreExact
  <1>1. PagesInv => SerialRequestsAreExact
    BY SerialSpeaks DEF PagesInv, SerialRequestsAreExact
  <1> QED
    BY <1>1, PagesInvariant, PTL

\* AgendaView, LeadsBoard and FollowupsView: after any actions, saves, failures and listings, in
\* whatever order they overlapped and answered, a page at rest shows what the server has, when
\* nobody else wrote since it read.  This is for pages of any length, shorter than the rows or
\* not, and for a client's clock that differs from the server's by any amount: the tabs of
\* the follow-ups are what the server answers for the two clocks, no more.
THEOREM QuietListingsAreFresh == PagesSpec => []ListingsAreFresh
  <1>1. PagesInv => ListingsAreFresh
    BY AgendaIsFresh, BoardIsFresh, TasksAreFresh DEF PagesInv, ListingsAreFresh
  <1> QED
    BY <1>1, PagesInvariant, PTL

\* The drawer of an event, the board and its drawer, and the follow-ups: what is disabled has a
\* request under way that will free it, however many overlap.
THEOREM DisabledAreFreed == PagesSpec => []DisabledIsFreed
  <1>1. PagesInv => DisabledIsFreed
    BY DEF PagesInv, DisabledIsFreed, AgendaInv, DrawerInv, BoardInv, MountedInv, TasksInv
  <1> QED
    BY <1>1, PagesInvariant, PTL

\* CalendarEventDrawer and QuickLeadDrawer: whichever answer comes first, a form is of the event
\* a save would go to, and the lead it links exists and is in the select once.
THEOREM FormsFitTheServer == PagesSpec => []FormsAreCoherent
  <1>1. PagesInv => FormsAreCoherent
    BY QuickIsListed DEF PagesInv, FormsAreCoherent, AgendaInv, DrawerInv, QuickInv
  <1> QED
    BY <1>1, PagesInvariant, PTL
=============================================================================
