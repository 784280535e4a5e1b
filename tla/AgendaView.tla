----------------------------- MODULE AgendaView -----------------------------
(***************************************************************************)
(* The agenda page of one browser tab over CalendarEvents: the week's list *)
(* as useApiResource loads it, the buttons of its rows, and the drawer     *)
(* that creates and edits.  Every click sends a request that the server    *)
(* serves in its own time; its answer may arrive late or not at all.       *)
(*                                                                         *)
(* While the list loads, the page shows a spinner in place of everything   *)
(* else: the drawer unmounts and loses its state, but drawerMode and       *)
(* editing are the page's and survive.                                     *)
(***************************************************************************)
EXTENDS Naturals, Sequences, FiniteSets

CONSTANTS Events, Requests, Times, MaxOpen, Absent, Null, Missing,
          Week,         \* the instants of the current week
          PAGE_SIZE,    \* the most events a list request returns
          MaxLoads,     \* bound on the loads of the list
          None

VARIABLES event, audit, req,    \* the server: see CalendarEvents
          data,         \* the rows of the last list that arrived
          state,        \* "loading", "ready" or "error"
          fetch,        \* the list request in flight, and its answer once read
          loads,        \* how many were started
          busyId, drawerMode, editing,
          form,         \* the fields, and the event they were filled from
          submitting,   \* the save the mounted drawer waits for
          task          \* what each request was made for

server == <<event, audit, req>>
list == <<data, state, fetch, loads>>
drawer == <<drawerMode, editing, form, submitting>>
vars == <<event, audit, req, data, state, fetch, loads,
          busyId, drawerMode, editing, form, submitting, task>>

Calendar == INSTANCE CalendarEvents

AgendaAssumption ==
    /\ Calendar!CalendarAssumption
    /\ Week \subseteq Times
    /\ PAGE_SIZE \in Nat \ {0}
    /\ None \notin Events \cup [id : Events, row : Calendar!Row] \cup {"create", "edit"}

-----------------------------------------------------------------------------
(* What a list can hold: for some of the events, the row each had.         *)
Lists == UNION {[S -> Calendar!Row] : S \in SUBSET Events}

NoRows == [e \in {} |-> Missing]
NoFetch == [phase |-> "none", rows |-> NoRows]
EMPTY == [of |-> None, starts |-> Null, ends |-> Null]

InWeek == {e \in Events : event[e] # Missing /\ event[e].starts \in Week}

(* A page of the week's events, the earliest first.                        *)
Pages ==
    {S \in SUBSET InWeek :
       /\ Cardinality(S) = IF Cardinality(InWeek) < PAGE_SIZE
                           THEN Cardinality(InWeek) ELSE PAGE_SIZE
       /\ \A e \in S, f \in InWeek \ S : event[e].starts <= event[f].starts}

\* Mutant: the effect looks at the event alone.
FilledMutant(mode, item) ==
    IF item # None THEN [of |-> item.id, starts |-> item.row.starts, ends |-> item.row.ends]
    ELSE EMPTY

(* What the effect of the drawer puts into the form when it opens.         *)
Filled(mode, item) ==
    IF mode = "edit" /\ item # None
    THEN [of |-> item.id, starts |-> item.row.starts, ends |-> item.row.ends]
    ELSE EMPTY

(* The body of a save: an empty end is left out.                           *)
Body(op, id) ==
    [op |-> op, id |-> id, starts |-> form.starts,
     ends |-> IF form.ends = Null THEN Absent ELSE form.ends]

Click(op, id) == [op |-> op, id |-> id, starts |-> Absent, ends |-> Absent]

-----------------------------------------------------------------------------
Init ==
    /\ event \in [Events -> {Missing} \cup
                    [status : {"SCHEDULED"}, starts : Week, ends : {Null}]]
    /\ audit = [e \in Events |-> <<>>]
    /\ req = [r \in Requests |-> Calendar!Only("unsent")]
    /\ data = NoRows /\ state = "loading"
    /\ fetch = [phase |-> "sent", rows |-> NoRows] /\ loads = 1
    /\ busyId = None /\ drawerMode = None /\ editing = None
    /\ form = EMPTY /\ submitting = None
    /\ task = [r \in Requests |-> "none"]

(* reload, or the retry button: the load in flight is aborted, the spinner *)
(* replaces the page and the drawer unmounts.                              *)
Reload ==
    /\ loads < MaxLoads
    /\ loads' = loads + 1
    /\ state' = "loading"
    /\ fetch' = [phase |-> "sent", rows |-> NoRows]
    /\ UNCHANGED data

(* The server reads the list.                                              *)
FetchReads ==
    /\ fetch.phase = "sent"
    /\ \E S \in Pages :
         fetch' = [phase |-> "read", rows |-> [e \in S |-> event[e]]]
    /\ UNCHANGED <<server, data, state, loads, busyId, drawer, task>>

(* The list arrives: the page is back, with a drawer mounted anew, whose   *)
(* effect fills it if it is open.                                          *)
FetchSucceeds ==
    /\ fetch.phase = "read"
    /\ data' = fetch.rows /\ state' = "ready" /\ fetch' = NoFetch
    /\ form' = Filled(drawerMode, editing) /\ submitting' = None
    /\ UNCHANGED <<server, loads, busyId, drawerMode, editing, task>>

\* Mutant: the load is still active after its error.
FetchFailsMutant ==
    /\ fetch.phase # "none"
    /\ state' = "error"
    /\ UNCHANGED <<server, data, fetch, loads, busyId, drawer, task>>

FetchFails ==
    /\ fetch.phase # "none"
    /\ state' = "error" /\ fetch' = NoFetch
    /\ UNCHANGED <<server, data, loads, busyId, drawer, task>>

Retry ==
    /\ state = "error" /\ Reload
    /\ UNCHANGED <<server, busyId, drawer, task>>

-----------------------------------------------------------------------------
(* The scrim of an open drawer covers the rows.                            *)
MayClick == state = "ready" /\ drawerMode = None

Scheduled(e) == e \in DOMAIN data /\ data[e].status = "SCHEDULED" /\ busyId # e

(* Concluir and Cancelar: runAction.                                       *)
RunAction(r, op, e) ==
    /\ MayClick /\ Scheduled(e)
    /\ Calendar!Receive(r, Click(op, e))
    /\ task' = [task EXCEPT ![r] = op]
    /\ busyId' = e
    /\ UNCHANGED <<list, drawer>>

(* The answer of a request, or an error in its place at any time.          *)
Answered(r, ok) ==
    /\ ok => req[r].phase = "ok"
    /\ task' = [task EXCEPT ![r] = IF ok \/ req[r].phase \in {"refused", "failed"}
                                   THEN "done" ELSE "lost"]

\* Mutant: the list is not loaded again.
ActionEndsMutant(r, ok) ==
    /\ task[r] \in {"complete", "cancel"}
    /\ Answered(r, ok)
    /\ busyId' = None
    /\ UNCHANGED <<server, list, drawer>>

ActionEnds(r, ok) ==
    /\ task[r] \in {"complete", "cancel"}
    /\ Answered(r, ok)
    /\ IF ok THEN Reload ELSE UNCHANGED list
    /\ busyId' = None
    /\ UNCHANGED <<server, drawer>>

-----------------------------------------------------------------------------
Open(mode, item) ==
    /\ MayClick
    /\ drawerMode' = mode
    /\ editing' = item
    /\ form' = Filled(mode, item)
    /\ UNCHANGED <<server, list, busyId, submitting, task>>

OpenCreate == Open("create", editing)

OpenEdit(e) == Scheduled(e) /\ Open("edit", [id |-> e, row |-> data[e]])

(* Escape, the scrim and the close button work while a save is under way.  *)
CloseDrawer ==
    /\ state = "ready" /\ drawerMode # None
    /\ drawerMode' = None /\ editing' = None
    /\ UNCHANGED <<server, list, busyId, form, submitting, task>>

Typed == /\ state = "ready" /\ drawerMode # None /\ submitting = None

Type ==
    /\ Typed
    /\ \E s \in Times, t \in Times \cup {Null} :
         form' = [form EXCEPT !.starts = s, !.ends = t]
    /\ UNCHANGED <<server, list, busyId, drawerMode, editing, submitting, task>>

HandleSubmit(r) ==
    /\ Typed
    /\ form.starts # Null
    /\ Calendar!IntervalOk(form.starts, form.ends)
    /\ IF drawerMode = "create"
       THEN /\ \E e \in Events : Calendar!Receive(r, Body("create", e))
            /\ task' = [task EXCEPT ![r] = "create"]
       ELSE /\ Calendar!Receive(r, Body("update", editing.id))
            /\ task' = [task EXCEPT ![r] = "update"]
    /\ submitting' = r
    /\ UNCHANGED <<list, busyId, drawerMode, editing, form>>

(* onCreate and onUpdate close whatever drawer is open by then.            *)
SaveSucceeds(r) ==
    /\ task[r] \in {"create", "update"}
    /\ Answered(r, TRUE)
    /\ drawerMode' = None
    /\ editing' = IF task[r] = "update" THEN None ELSE editing
    /\ Reload
    /\ submitting' = None
    /\ UNCHANGED <<server, busyId, form>>

\* Mutant: only a success ends the waiting.
SaveFailsMutant(r) ==
    /\ task[r] \in {"create", "update"}
    /\ Answered(r, FALSE)
    /\ UNCHANGED <<server, list, busyId, drawer>>

(* The drawer stays open with the error.                                   *)
SaveFails(r) ==
    /\ task[r] \in {"create", "update"}
    /\ Answered(r, FALSE)
    /\ submitting' = IF submitting = r THEN None ELSE submitting
    /\ UNCHANGED <<server, list, busyId, drawerMode, editing, form>>

-----------------------------------------------------------------------------
ServerStep(r) ==
    /\ Calendar!Serve(r)
    /\ UNCHANGED <<list, busyId, drawer, task>>

Next ==
    \/ FetchReads \/ FetchSucceeds \/ FetchFails \/ Retry
    \/ OpenCreate \/ CloseDrawer \/ Type
    \/ \E e \in Events : OpenEdit(e)
    \/ \E r \in Requests :
         \/ ServerStep(r) \/ HandleSubmit(r) \/ SaveSucceeds(r) \/ SaveFails(r)
         \/ \E ok \in BOOLEAN : ActionEnds(r, ok)
         \/ \E e \in Events, op \in {"complete", "cancel"} : RunAction(r, op, e)

Spec == Init /\ [][Next]_vars

-----------------------------------------------------------------------------
TypeOK ==
    /\ Calendar!TypeOK
    /\ data \in Lists
    /\ state \in {"loading", "ready", "error"}
    /\ fetch \in [phase : {"none", "sent", "read"}, rows : Lists] /\ loads \in Nat
    /\ busyId \in Events \cup {None}
    /\ drawerMode \in {None, "create", "edit"}
    /\ editing = None \/ editing \in [id : Events, row : Calendar!Row]
    /\ form \in [of : Events \cup {None}, starts : Times \cup {Null}, ends : Times \cup {Null}]
    /\ submitting \in Requests \cup {None}
    /\ task \in [Requests -> {"none", "create", "update", "complete", "cancel", "done", "lost"}]
    /\ (state = "loading") = (fetch.phase # "none")

(* When nothing is under way, the page shows the week as the server has    *)
(* it: whatever the order in which actions, saves and loads overlapped,    *)
(* the last load began after the last change.  An answer that is lost is   *)
(* the exception: its action may have been made and nothing reloads.       *)
Quiet ==
    /\ state = "ready"
    /\ \A r \in Requests : task[r] \in {"none", "done"} /\ ~Calendar!Pending(r)

QuietIsFresh == Quiet => \E S \in Pages : data = [e \in S |-> event[e]]

(* The form that is shown was filled from the event a save would go to,    *)
(* across closing, reopening and late answers of earlier saves.            *)
FormIsOfItsEvent ==
    state = "ready" /\ drawerMode # None =>
      form.of = IF drawerMode = "edit" THEN editing.id ELSE None

(* A drawer that waits for its save waits for one that can still end.      *)
WaitsForASave ==
    submitting # None => task[submitting] \in {"create", "update"}

(* "A single request ... covers both tabs": every event of the week that   *)
(* the server has is on the page when nothing is under way.                *)
WholeWeekIsShown == Quiet => InWeek \subseteq DOMAIN data

(* A save the drawer takes as done has stored what its form shows.         *)
SavedAsShown ==
    [][\A r \in Requests :
         SaveSucceeds(r) /\ submitting = r /\ task[r] = "update" /\ drawerMode = "edit" =>
           /\ event[editing.id].starts = form.starts
           /\ event[editing.id].ends = form.ends]_vars
=============================================================================
