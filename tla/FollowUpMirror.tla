---------------------------- MODULE FollowUpMirror ----------------------------
(***************************************************************************)
(* The follow-ups of a tenant's leads, and Lead.nextActionAt, the copy of  *)
(* the earliest pending one that the CRM screens read.                     *)
(*                                                                         *)
(* A request is one READ COMMITTED transaction of several statements: read *)
(* the follow-up, write it, and then, for one or two leads, look for the   *)
(* next pending follow-up and store its date.  What it wrote is visible to *)
(* itself alone and locked until it commits.                               *)
(***************************************************************************)
EXTENDS Naturals, Sequences

CONSTANTS
    FollowUps, Leads,
    Requests,   \* transactions that may run at the same time
    Times,      \* dates a follow-up may be scheduled at
    Edits,      \* values an edit of the lead itself may give to nextActionAt
    None,       \* SQL's NULL
    Unset       \* not read or not written yet

ASSUME MirrorAssumption ==
    /\ Times \subseteq Nat
    /\ None \notin Leads \cup FollowUps \cup Times
    /\ Unset \notin Times \cup {None}
    /\ Edits \subseteq Times \cup {None}

VARIABLES
    followUp,      \* the follow_ups table, as committed
    nextActionAt,  \* leads.next_action_at, as committed
    tx             \* tx[r]: the transaction of request r

vars == <<followUp, nextActionAt, tx>>

-----------------------------------------------------------------------------
Statuses == {"ABSENT", "PENDING", "COMPLETED", "CANCELED"}
\* completedAt and canceledAt: whether the column is set.
Row == [status      : Statuses,
        lead        : Leads \cup {None},
        at          : Times \cup {None},
        completedAt : BOOLEAN,
        canceledAt  : BOOLEAN]
NoRow == [status |-> "ABSENT", lead |-> None, at |-> None,
          completedAt |-> FALSE, canceledAt |-> FALSE]

Operations == {"create", "update", "complete", "cancel", "reschedule"}
Tx == [op     : Operations,
       id     : FollowUps,
       seen   : Leads \cup {None},           \* existing.leadId
       lead   : Leads \cup {None},           \* dto.leadId
       at     : Times \cup {None},           \* dto.scheduledAt
       phase  : {"decided", "written"},
       row    : Row,                         \* the row it wrote, its lock
       todo   : Seq(Leads),                  \* leads still to recompute
       next   : Times \cup {None, Unset},    \* what it found for the first of them
       mirror : [Leads -> Times \cup {None, Unset}],  \* the leads it wrote, its locks
       alone  : BOOLEAN]  \* history: no other request has run beside it
NoTx == [phase |-> "idle", alone |-> TRUE]

Active(r) == tx[r].phase # "idle"

Init ==
    /\ followUp = [f \in FollowUps |-> NoRow]
    /\ nextActionAt = [l \in Leads |-> None]
    /\ tx = [r \in Requests |-> NoTx]

-----------------------------------------------------------------------------
(* What a request reads and decides *)

Begin(r, op, f, lead, at) ==
    LET alone == \A q \in Requests : ~Active(q) IN
    /\ ~Active(r)
    /\ tx' = [q \in Requests |->
                IF q = r
                THEN [op |-> op, id |-> f, seen |-> followUp[f].lead, lead |-> lead,
                      at |-> at, phase |-> "decided", row |-> NoRow, todo |-> <<>>,
                      next |-> Unset, mirror |-> [l \in Leads |-> Unset],
                      alone |-> alone]
                ELSE IF Active(q) THEN [tx[q] EXCEPT !.alone = FALSE] ELSE tx[q]]
    /\ UNCHANGED <<followUp, nextActionAt>>

\* The id is a new uuid: no other transaction has it.
create(r, f, lead, at) ==
    /\ followUp[f].status = "ABSENT"
    /\ \A q \in Requests : Active(q) => tx[q].id # f
    /\ Begin(r, "create", f, lead, at)

\* lead is None when the request does not move the follow-up.
update(r, f, lead) ==
    /\ followUp[f].status # "ABSENT"
    /\ Begin(r, "update", f, lead, None)

\* In the target status already: nothing to do. In the other one: refused.
settle(r, op, f) ==
    /\ followUp[f].status = "PENDING"
    /\ Begin(r, op, f, None, None)

reschedule(r, f, at) ==
    /\ followUp[f].status = "PENDING"
    /\ Begin(r, "reschedule", f, None, at)

-----------------------------------------------------------------------------
(* The write of the follow-up *)

\* Mutant: the other timestamp is not cleared.
SettledMutant(op, row) ==
    IF op = "complete"
    THEN [row EXCEPT !.status = "COMPLETED", !.completedAt = TRUE]
    ELSE [row EXCEPT !.status = "CANCELED", !.canceledAt = TRUE]

Settled(op, row) ==
    IF op = "complete"
    THEN [row EXCEPT !.status = "COMPLETED", !.completedAt = TRUE, !.canceledAt = FALSE]
    ELSE [row EXCEPT !.status = "CANCELED", !.completedAt = FALSE, !.canceledAt = TRUE]

\* Mutant: the status read is written back.
RescheduledMutant(row, at) == [row EXCEPT !.at = at, !.status = "PENDING"]
Rescheduled(row, at) == [row EXCEPT !.at = at]

\* An operation sets its own columns of the row as it is now, not as it was read.
Changed(x, row) ==
    CASE x.op = "create"     -> [row EXCEPT !.status = "PENDING", !.lead = x.lead, !.at = x.at]
      [] x.op = "update"     -> [row EXCEPT !.lead = IF x.lead = None THEN @ ELSE x.lead]
      [] x.op = "reschedule" -> Rescheduled(row, x.at)
      [] OTHER               -> Settled(x.op, row)

\* Mutant: a move forgets the lead it leaves.
ToRecomputeMutant(x, row) == <<row.lead>>

\* Mutant: the lead of the request's body, which most requests do not name.
ToRecomputeBodyMutant(x, row) ==
    IF x.op = "update" /\ x.lead \notin {None, x.seen} THEN <<x.seen, x.lead>> ELSE <<x.lead>>

\* A move concerns the lead it leaves, as read, and the one it goes to.
ToRecompute(x, row) ==
    IF x.op = "update" /\ x.lead \notin {None, x.seen}
    THEN <<x.seen, row.lead>>
    ELSE <<row.lead>>

\* Waits for a transaction that wrote the same follow-up.
Write(r) ==
    LET x == tx[r]
        row == Changed(x, followUp[x.id])
    IN
    /\ x.phase = "decided"
    /\ \A q \in Requests : tx[q].phase = "written" => tx[q].id # x.id
    /\ tx' = [tx EXCEPT ![r] = [x EXCEPT !.phase = "written", !.row = row,
                                         !.todo = ToRecompute(x, row)]]
    /\ UNCHANGED <<followUp, nextActionAt>>

-----------------------------------------------------------------------------
(* recomputeNextActionAt, once or twice, and the commit *)

\* Mutant: the recomputation runs outside the transaction.
VisibleMutant(r) == followUp

\* The committed rows, and the one the transaction wrote itself.
Visible(r) == [followUp EXCEPT ![tx[r].id] = tx[r].row]

PendingOf(rows, l) == {f \in FollowUps : rows[f].status = "PENDING" /\ rows[f].lead = l}

\* at is the date of the earliest pending follow-up of l, or None without one.
IsNext(rows, l, at) ==
    IF PendingOf(rows, l) = {}
    THEN at = None
    ELSE /\ \E f \in PendingOf(rows, l) : at = rows[f].at
         /\ \A f \in PendingOf(rows, l) : at <= rows[f].at

FindNext(r) ==
    /\ tx[r].phase = "written" /\ tx[r].todo # <<>> /\ tx[r].next = Unset
    /\ \E at \in Times \cup {None} :
         /\ IsNext(Visible(r), Head(tx[r].todo), at)
         /\ tx' = [tx EXCEPT ![r].next = at]
    /\ UNCHANGED <<followUp, nextActionAt>>

LeadIsFree(r, l) ==
    \A q \in Requests \ {r} : tx[q].phase = "written" => tx[q].mirror[l] = Unset

\* Waits for a transaction that wrote the same lead, and then overwrites it.
StoreNext(r) ==
    LET x == tx[r] IN
    /\ x.phase = "written" /\ x.todo # <<>> /\ x.next # Unset
    /\ LeadIsFree(r, Head(x.todo))
    /\ tx' = [tx EXCEPT ![r] = [x EXCEPT !.mirror[Head(x.todo)] = x.next,
                                         !.todo = Tail(x.todo), !.next = Unset]]
    /\ UNCHANGED <<followUp, nextActionAt>>

Commit(r) ==
    /\ tx[r].phase = "written" /\ tx[r].todo = <<>>
    /\ followUp' = [followUp EXCEPT ![tx[r].id] = tx[r].row]
    /\ nextActionAt' = [l \in Leads |-> IF tx[r].mirror[l] = Unset THEN nextActionAt[l]
                                        ELSE tx[r].mirror[l]]
    /\ tx' = [tx EXCEPT ![r] = NoTx]

\* An error, a time-out, a crash, or the victim of a deadlock over two leads.
Rollback(r) ==
    /\ Active(r)
    /\ tx' = [tx EXCEPT ![r] = NoTx]
    /\ UNCHANGED <<followUp, nextActionAt>>

\* LeadsService.update with nextActionAt in the body.
updateLead(l, at) ==
    /\ \A q \in Requests : tx[q].phase = "written" => tx[q].mirror[l] = Unset
    /\ nextActionAt' = [nextActionAt EXCEPT ![l] = at]
    /\ UNCHANGED <<followUp, tx>>

-----------------------------------------------------------------------------
Decide(r) ==
    \E f \in FollowUps :
        \/ \E lead \in Leads, at \in Times : create(r, f, lead, at)
        \/ \E lead \in Leads \cup {None} : update(r, f, lead)
        \/ \E op \in {"complete", "cancel"} : settle(r, op, f)
        \/ \E at \in Times : reschedule(r, f, at)

Next ==
    \/ \E r \in Requests :
         Decide(r) \/ Write(r) \/ FindNext(r) \/ StoreNext(r) \/ Commit(r) \/ Rollback(r)
    \/ \E l \in Leads : \E at \in Edits : updateLead(l, at)

Spec == Init /\ [][Next]_vars

-----------------------------------------------------------------------------
(* Properties *)

\* Every variable has its type.
TypeOK ==
    /\ followUp \in [FollowUps -> Row]
    /\ nextActionAt \in [Leads -> Times \cup {None}]
    /\ tx \in [Requests -> Tx \cup [phase : {"idle"}, alone : {TRUE}]]

\* A follow-up has the timestamp of its status and no other, even when a completion
\* and a cancellation were both decided while it was pending.
StampsAgree ==
    \A f \in FollowUps :
        /\ followUp[f].completedAt <=> followUp[f].status = "COMPLETED"
        /\ followUp[f].canceledAt <=> followUp[f].status = "CANCELED"

\* A follow-up that was completed or canceled never becomes pending again, not even
\* through a move or a rescheduling decided before.
NeverPendingAgain ==
    [][\A f \in FollowUps :
          followUp[f].status \in {"COMPLETED", "CANCELED"} =>
              followUp'[f].status \in {"COMPLETED", "CANCELED"}]_vars

\* A transaction that ran beside no other leaves the mirror exact for the lead the
\* follow-up was with and the one it is with, whatever earlier races and edits of
\* the lead made of it.
LoneRequestRepairsMirror ==
    [][\A r \in Requests :
          Commit(r) /\ tx[r].alone =>
              \A l \in {followUp[tx[r].id].lead, tx[r].row.lead} \ {None} :
                  IsNext(followUp', l, nextActionAt'[l])]_vars

\* No transaction hides its own change, whatever runs beside it: the lead of a
\* follow-up it leaves pending has a next action, and not a later one.
OwnChangeIsMirrored ==
    [][\A r \in Requests :
          Commit(r) /\ tx[r].row.status = "PENDING" =>
              /\ nextActionAt'[tx[r].row.lead] # None
              /\ nextActionAt'[tx[r].row.lead] <= tx[r].row.at]_vars

(* The inductive invariant behind them *)

RowIsSound(row) ==
    /\ row.status = "ABSENT" => row = NoRow
    /\ row.status # "ABSENT" => row.lead \in Leads /\ row.at \in Times
    /\ row.completedAt <=> row.status = "COMPLETED"
    /\ row.canceledAt <=> row.status = "CANCELED"

\* A follow-up being created is nobody else's; every other request has an existing one.
RequestsAreSound ==
    \A r \in Requests : Active(r) =>
        /\ tx[r].op = "create" =>
              /\ followUp[tx[r].id] = NoRow
              /\ tx[r].lead \in Leads /\ tx[r].at \in Times
              /\ \A q \in Requests \ {r} : Active(q) => tx[q].id # tx[r].id
        /\ tx[r].op # "create" => followUp[tx[r].id].status # "ABSENT"
        /\ tx[r].op = "update" => tx[r].seen \in Leads
        /\ tx[r].op = "reschedule" => tx[r].at \in Times
        /\ tx[r].phase = "decided" => tx[r].next = Unset

\* A written follow-up is locked, so what was written is still a change of the
\* committed row.
WritesAreSound ==
    \A r \in Requests : tx[r].phase = "written" =>
        /\ RowIsSound(tx[r].row) /\ tx[r].row.status # "ABSENT"
        /\ followUp[tx[r].id].status \in {"COMPLETED", "CANCELED"} =>
              tx[r].row.status \in {"COMPLETED", "CANCELED"}
        /\ \A q \in Requests \ {r} : tx[q].phase = "written" => tx[q].id # tx[r].id

Covers(at, row) == at \notin {None, Unset} /\ at <= row.at

\* The lead of the written follow-up is recomputed last, from a view that has it.
OwnChangeIsSeen ==
    \A r \in Requests : tx[r].phase = "written" =>
        LET x == tx[r] IN
        /\ x.todo = <<>> => x.next = Unset
        /\ x.todo # <<>> => x.todo[Len(x.todo)] = x.row.lead
        /\ x.row.status = "PENDING" =>
              /\ x.todo = <<>> => Covers(x.mirror[x.row.lead], x.row)
              /\ x.next # Unset /\ Head(x.todo) = x.row.lead => Covers(x.next, x.row)

\* Nothing changes under a request that runs alone, and what it computed is exact.
LoneRequestIsExact ==
    \A r \in Requests : Active(r) /\ tx[r].alone =>
        /\ \A q \in Requests \ {r} : ~Active(q)
        /\ tx[r].seen = followUp[tx[r].id].lead
        /\ tx[r].phase = "written" =>
              /\ tx[r].next # Unset => IsNext(Visible(r), Head(tx[r].todo), tx[r].next)
              /\ \A l \in {followUp[tx[r].id].lead, tx[r].row.lead} \ {None} :
                    \/ \E i \in 1..Len(tx[r].todo) : tx[r].todo[i] = l
                    \/ IsNext(Visible(r), l, tx[r].mirror[l])

\* Follow-ups, and what every request has read, written and computed, fit together.
FollowUpInv ==
    /\ \A f \in FollowUps : RowIsSound(followUp[f])
    /\ RequestsAreSound
    /\ WritesAreSound
    /\ OwnChangeIsSeen
    /\ LoneRequestIsExact

(* What the documentation says and the code does not keep *)

\* The mirror is exact whenever no transaction is running.
MirrorIsExact ==
    (\A r \in Requests : ~Active(r)) =>
        \A l \in Leads : IsNext(followUp, l, nextActionAt[l])

\* A canceled follow-up is not completed and a completed one is not canceled.
SettledIsFinal ==
    [][\A f \in FollowUps :
          followUp[f].status \in {"COMPLETED", "CANCELED"} =>
              followUp'[f].status = followUp[f].status]_vars
=============================================================================
