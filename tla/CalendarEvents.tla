--------------------------- MODULE CalendarEvents ---------------------------
(***************************************************************************)
(* The agenda of a tenant, as calendar-events.service.ts keeps it: create, *)
(* update, complete and cancel, each one interactive transaction at READ   *)
(* COMMITTED that first reads the row, decides from what it read, and then *)
(* updates the row and writes an audit entry.  Nothing locks the row       *)
(* between the read and the update, so other transactions commit in there. *)
(***************************************************************************)
EXTENDS Naturals, Sequences, FiniteSets

CONSTANTS Events,       \* identities an event can get
          Requests,     \* identities of the HTTP requests, each used once
          Times,        \* the instants an event can start or end at
          MaxOpen,      \* connections of the pool: transactions open at once
          Absent,       \* a field the request does not carry
          Null,         \* a field the request carries as null
          Missing       \* no row

VARIABLES event,        \* the calendar_events table
          audit,        \* the audit entries of each event, oldest first
          req           \* what has become of each request

vars == <<event, audit, req>>

Statuses == {"SCHEDULED", "COMPLETED", "CANCELED"}

Row == [status : Statuses, starts : Times, ends : Times \cup {Null}]

AuditEntry == [action : {"create", "update", "complete", "cancel"},
               before : Statuses \cup {Null}]

CalendarAssumption ==
    /\ Times \subseteq Nat
    /\ MaxOpen \in Nat \ {0}
    /\ Absent \notin Times /\ Null \notin Times /\ Absent # Null
    /\ Missing \notin Row

(* A body may leave a field out; PATCH also lets null through, because     *)
(* IsOptional skips the other validators for it.                           *)
Call == [op : {"create"}, id : Events,
         starts : Times, ends : Times \cup {Absent, Null}]
   \cup [op : {"update"}, id : Events,
         starts : Times \cup {Absent, Null}, ends : Times \cup {Absent, Null}]
   \cup [op : {"complete", "cancel"}, id : Events,
         starts : {Absent}, ends : {Absent}]

Only(phase) == [phase |-> phase]
Answers == {"ok", "refused", "failed"}

InRequest == [phase : {"sent"}, call : Call]
        \cup [phase : {"read"}, call : Call, seen : Row \cup {Missing}]

Pending(r) == req[r].phase \in {"sent", "read"}

-----------------------------------------------------------------------------
IntervalOk(starts, ends) == ends \in Times => ends >= starts

(* The fields an update ends up with: a given one, or the one it read.     *)
NextStarts(c, row) == IF c.starts \in Times THEN c.starts ELSE row.starts
\* Mutant: the end is compared only when it is given.
NextEndsMutant(c, row) == IF c.ends = Absent THEN Null ELSE c.ends

NextEnds(c, row) == IF c.ends = Absent THEN row.ends ELSE c.ends

\* Mutant: completing ignores a cancellation.
AdmitsMutant(c, row) ==
    CASE c.op = "create" -> IntervalOk(c.starts, c.ends)
      [] c.op = "update" -> row # Missing
      [] OTHER -> row # Missing

(* The checks a transaction makes on the row it read.                      *)
Admits(c, row) ==
    CASE c.op = "create" -> IntervalOk(c.starts, c.ends)
      [] c.op = "update" ->
           /\ row # Missing
           /\ c.starts # Absent \/ c.ends # Absent =>
                IntervalOk(NextStarts(c, row), NextEnds(c, row))
      [] c.op = "complete" -> row # Missing /\ row.status # "CANCELED"
      [] c.op = "cancel"   -> row # Missing /\ row.status # "COMPLETED"

Target(op) == IF op = "complete" THEN "COMPLETED" ELSE "CANCELED"

\* Mutant: a repeat is written again.
IsRepeatMutant(c, row) == FALSE

(* Completing what is completed, or cancelling what is cancelled, returns  *)
(* the row and writes nothing.                                             *)
IsRepeat(c, row) ==
    /\ c.op \in {"complete", "cancel"}
    /\ row # Missing /\ row.status = Target(c.op)

\* Mutant: an end that is left out is stored as it came.
WrittenMutant(c, seen, now) ==
    CASE c.op = "create" -> [status |-> "SCHEDULED", starts |-> c.starts, ends |-> c.ends]
      [] OTHER -> now

\* Mutant: an update writes back the whole row it read.
WrittenStaleMutant(c, seen, now) ==
    CASE c.op = "create" -> [status |-> "SCHEDULED", starts |-> c.starts, ends |-> Null]
      [] c.op = "update" -> seen
      [] OTHER -> [now EXCEPT !.status = Target(c.op)]

(* What the UPDATE or INSERT leaves: it sets the columns of its data only, *)
(* over whatever the row has become.                                       *)
Written(c, seen, now) ==
    CASE c.op = "create" ->
           [status |-> "SCHEDULED", starts |-> c.starts,
            ends |-> IF c.ends = Absent THEN Null ELSE c.ends]
      [] c.op = "update" ->
           [now EXCEPT !.starts = IF c.starts = Absent THEN @ ELSE NextStarts(c, seen),
                       !.ends = IF c.ends = Absent THEN @ ELSE c.ends]
      [] OTHER -> [now EXCEPT !.status = Target(c.op)]

Entry(c, seen) ==
    [action |-> c.op,
     before |-> IF c.op \in {"complete", "cancel"} THEN seen.status ELSE Null]

-----------------------------------------------------------------------------
Init ==
    /\ event = [e \in Events |-> Missing]
    /\ audit = [e \in Events |-> <<>>]
    /\ req = [r \in Requests |-> Only("unsent")]

(* A request arrives at the controller; a create names a fresh identity.   *)
Receive(r, c) ==
    /\ req[r] = Only("unsent")
    /\ c.op = "create" =>
         /\ event[c.id] = Missing
         /\ \A q \in Requests : Pending(q) => req[q].call.id # c.id
                                             \/ req[q].call.op # "create"
    /\ req' = [req EXCEPT ![r] = [phase |-> "sent", call |-> c]]
    /\ UNCHANGED <<event, audit>>

OpenNow == {r \in Requests : req[r].phase = "read"}

(* BEGIN and the read of the row, with every early return that follows it. *)
ReadRow(r) ==
    /\ req[r].phase = "sent"
    /\ Cardinality(OpenNow) < MaxOpen
    /\ LET c == req[r].call
           row == event[c.id]
       IN req' = [req EXCEPT ![r] =
                    IF IsRepeat(c, row) THEN Only("ok")
                    ELSE IF Admits(c, row)
                      THEN [phase |-> "read", call |-> c, seen |-> row]
                      ELSE Only("refused")]
    /\ UNCHANGED <<event, audit>>

(* The write, its audit entry and COMMIT.                                  *)
WriteRow(r) ==
    /\ req[r].phase = "read"
    /\ LET c == req[r].call IN
         /\ event' = [event EXCEPT ![c.id] = Written(c, req[r].seen, @)]
         /\ audit' = [audit EXCEPT ![c.id] = Append(@, Entry(c, req[r].seen))]
    /\ req' = [req EXCEPT ![r] = Only("ok")]

(* The lead or the owner is not the tenant's, the transaction times out or *)
(* the process stops: all it did is rolled back.                           *)
Abort(r) ==
    /\ Pending(r)
    /\ req' = [req EXCEPT ![r] = Only("failed")]
    /\ UNCHANGED <<event, audit>>

Serve(r) == ReadRow(r) \/ WriteRow(r) \/ Abort(r)

Next == \E r \in Requests : Serve(r) \/ \E c \in Call : Receive(r, c)

Spec == Init /\ [][Next]_vars

-----------------------------------------------------------------------------
TypeOK ==
    /\ event \in [Events -> Row \cup {Missing}]
    /\ req \in [Requests -> {Only(p) : p \in Answers \cup {"unsent"}} \cup InRequest]
    /\ audit \in [Events -> Seq(AuditEntry)]

(* Where the trail of an event has an entry that changed its status.       *)
StatusEntries(e) ==
    {i \in DOMAIN audit[e] : audit[e][i].action \in {"complete", "cancel"}}

(* The trail explains the row: an event stands as its last complete or     *)
(* cancel entry left it, and as SCHEDULED before there is one, however     *)
(* edits, completions and cancellations overlap.  An edit in flight writes *)
(* the columns it was given and never the status it read.                  *)
TrailExplainsStatus ==
    \A e \in Events : event[e] # Missing =>
      /\ StatusEntries(e) = {} => event[e].status = "SCHEDULED"
      /\ \A i \in StatusEntries(e) :
            (\A j \in StatusEntries(e) : j <= i)
            => event[e].status = Target(audit[e][i].action)

(* Completing twice, or cancelling twice, is one change and one entry.     *)
StatusSetOnce == \A e \in Events : \A i, j \in StatusEntries(e) : i = j

(* An event never ends before it starts: update says it validates the      *)
(* interval again whenever either end moves.                               *)
IntervalHolds ==
    \A e \in Events : event[e] # Missing => IntervalOk(event[e].starts, event[e].ends)

(* A completed event is never cancelled, nor a cancelled one completed.    *)
TerminalIsFinal ==
    [][\A e \in Events :
         event[e] # Missing /\ event[e].status # "SCHEDULED" =>
           event'[e] # Missing /\ event'[e].status = event[e].status]_vars
=============================================================================
