---------------------------- MODULE FollowUpsView ----------------------------
(***************************************************************************)
(* The page of follow-ups.  Its three tabs are three requests that leave   *)
(* together: "ativos" is what the server finds overdue, "agendados" what   *)
(* is pending from the client's now on, "concluidos" what is completed.    *)
(* Each row can be completed, canceled or rescheduled in place, and a      *)
(* drawer creates and edits.  Every success lists the three tabs again.    *)
(*                                                                         *)
(* The server's side of a request is one step here; FollowUpMirror has its *)
(* transaction.                                                            *)
(***************************************************************************)
EXTENDS Integers, FiniteSets

CONSTANTS
    FollowUps,      \* ids the server can give
    Calls,          \* the actions one user asks for, each used once
    MaxTime,        \* time is 0..MaxTime
    Skew,           \* how far the client's clock is ahead of the server's, or behind (< 0)
    PageSize,       \* rows of a tab that are asked for (50 in the code)
    MaxOthers,      \* bound on the writes of other users
    None

VARIABLES
    followUp,       \* the rows the server has, None for an id not given
    now,
    behind,         \* somebody else wrote since the page last asked
    others,         \* writes of other users so far
    state,          \* loading | ready | error
    shown,          \* the rows of each tab
    fetch,          \* the three requests the page waits for
    asked,          \* history: the follow-ups there were when it asked
    busyId,
    reschedulingId,
    drawer,         \* closed, or a new form, or the row it edits
    submitting,     \* the call the mounted drawer waits for
    call            \* what has become of each action

clocks == <<now, behind, others>>
lists == <<state, shown, fetch, asked>>
widgets == <<busyId, reschedulingId, drawer, submitting>>
vars == <<followUp, clocks, lists, widgets, call>>

-----------------------------------------------------------------------------
Tabs == {"ativos", "agendados", "concluidos"}
Times == 0 .. MaxTime
Statuses == {"PENDING", "COMPLETED", "CANCELED"}
Stored == {f \in FollowUps : followUp[f] # None}
Completed == {f \in Stored : followUp[f].status = "COMPLETED"}
Pending == {f \in Stored : followUp[f].status = "PENDING"}

Item(f) == [id |-> f, status |-> followUp[f].status, at |-> followUp[f].at]

(* The rows a request for the tab selects when the server reads at moment n. *)
followupTabParams(t, n, from) ==
    CASE t = "ativos" -> {f \in Pending : followUp[f].at < n}
      [] t = "agendados" -> {f \in Pending : followUp[f].at >= from}
      [] t = "concluidos" -> Completed

(* A page of them: the earliest dates, equal ones in any order.            *)
Pages(S) ==
    {P \in SUBSET S :
        /\ Cardinality(P) = IF Cardinality(S) < PageSize THEN Cardinality(S) ELSE PageSize
        /\ \A p \in P, q \in S \ P : followUp[p].at <= followUp[q].at}

(* What the server may answer.                                             *)
Answers(t, n, from) ==
    {{Item(f) : f \in P} : P \in Pages(followupTabParams(t, n, from))}

Row == [status : Statuses, at : Times]
ItemRow == [id : FollowUps, status : Statuses, at : Times]

FollowUpsViewAssumption ==
    /\ MaxTime \in Nat /\ Skew \in Int /\ MaxOthers \in Nat
    /\ PageSize \in Nat \ {0}
    /\ None \notin FollowUps \cup Row

NoTabs == [t \in Tabs |-> {}]
(* They leave at one moment, which the client's clock tells the server.    *)
NoFetch == [phase |-> "none", at |-> 0, left |-> {}, rows |-> NoTabs]
Asked == [phase |-> "sent", at |-> now, left |-> Tabs, rows |-> NoTabs]

NoCall == [kind |-> "none", id |-> None, at |-> 0, server |-> "none"]
Over == [NoCall EXCEPT !.kind = "over"]
Call == [kind : {"none", "complete", "cancel", "reschedule", "create", "update", "over"},
         id : FollowUps \cup {None}, at : Times,
         server : {"none", "sent", "done", "refused"}]
RowActions == {"complete", "cancel", "reschedule"}
InFlight(c) == call[c].server # "none"

Closed == [mode |-> "closed", id |-> None]

-----------------------------------------------------------------------------
Init ==
    /\ \E S \in SUBSET FollowUps :
         /\ Cardinality(S) <= 2
         /\ followUp \in {g \in [FollowUps -> {None} \cup [status : {"PENDING"}, at : Times]] :
                            \A f \in FollowUps : (g[f] # None) = (f \in S)}
         /\ asked = S
    /\ now = 0 /\ behind = FALSE /\ others = 0
    /\ state = "loading" /\ shown = NoTabs /\ fetch = Asked
    /\ busyId = None /\ reschedulingId = None
    /\ drawer = Closed /\ submitting = None
    /\ call = [c \in Calls |-> NoCall]

Tick ==
    /\ now < MaxTime /\ now' = now + 1
    /\ UNCHANGED <<followUp, behind, others, lists, widgets, call>>

\* Mutant: the answers to the requests before are taken for the new ones.
reloadMutant ==
    /\ state' = "loading" /\ asked' = Stored /\ behind' = FALSE
    /\ fetch' = IF fetch = NoFetch THEN Asked ELSE fetch
    /\ shown' = NoTabs

(* The requests before are aborted and three new ones leave; the rows are  *)
(* rendered no more.                                                       *)
reload ==
    /\ state' = "loading" /\ fetch' = Asked /\ asked' = Stored /\ behind' = FALSE
    /\ shown' = NoTabs

(* The server answers the request of one tab.                              *)
list(t) ==
    /\ t \in fetch.left
    /\ \E R \in Answers(t, now, fetch.at + Skew) :
         fetch' = [fetch EXCEPT !.left = @ \ {t}, !.rows[t] = R]
    /\ UNCHANGED <<followUp, clocks, state, shown, asked, widgets, call>>

(* All three have answered.  The page is rendered again, and mounts a new  *)
(* drawer, open if the old one was, that waits for nothing.               *)
ListsArrive ==
    /\ fetch.phase = "sent" /\ fetch.left = {}
    /\ state' = "ready" /\ shown' = fetch.rows /\ fetch' = NoFetch
    /\ submitting' = None
    /\ UNCHANGED <<followUp, clocks, asked, busyId, reschedulingId, drawer, call>>

(* One that fails is enough.                                               *)
ListsFail ==
    /\ fetch # NoFetch
    /\ state' = "error" /\ fetch' = NoFetch
    /\ UNCHANGED <<followUp, clocks, shown, asked, widgets, call>>

Retry ==
    /\ state = "error" /\ reload
    /\ UNCHANGED <<followUp, now, others, widgets, call>>

-----------------------------------------------------------------------------
(* The page is rendered and the drawer does not cover it.                  *)
InPage == state = "ready" /\ drawer.mode = "closed"

Rows == UNION {shown[t] : t \in Tabs}

(* The row is in a tab, which can be opened at any time, and its buttons   *)
(* are not disabled.                                                       *)
CanAct(item) == InPage /\ item \in Rows /\ busyId # item.id

Send(c, kind, f, at) ==
    /\ call[c] = NoCall
    /\ call' = [call EXCEPT ![c] = [kind |-> kind, id |-> f, at |-> at, server |-> "sent"]]

(* "Concluir" and "Cancelar" of a pending row.                             *)
runAction(c, kind, item) ==
    /\ CanAct(item) /\ item.status = "PENDING"
    /\ Send(c, kind, item.id, 0) /\ busyId' = item.id
    /\ UNCHANGED <<followUp, clocks, lists, reschedulingId, drawer, submitting>>

(* "Reagendar" opens the row's date for editing, in place of another's.    *)
StartReschedule(item) ==
    /\ CanAct(item) /\ item.status = "PENDING"
    /\ reschedulingId' = item.id
    /\ UNCHANGED <<followUp, clocks, lists, busyId, drawer, submitting, call>>

(* "OK" is there in whatever tab the row is by now.                        *)
confirmReschedule(c, item) ==
    /\ CanAct(item) /\ reschedulingId = item.id
    /\ \E at \in Times : Send(c, "reschedule", item.id, at)
    /\ busyId' = item.id
    /\ UNCHANGED <<followUp, clocks, lists, reschedulingId, drawer, submitting>>

StopReschedule(item) ==
    /\ CanAct(item) /\ reschedulingId = item.id
    /\ reschedulingId' = None
    /\ UNCHANGED <<followUp, clocks, lists, busyId, drawer, submitting, call>>

OpenDrawer ==
    /\ InPage
    /\ \/ drawer' = [mode |-> "create", id |-> None]
       \/ \E item \in Rows :
            /\ CanAct(item) /\ item.status = "PENDING"
            /\ drawer' = [mode |-> "edit", id |-> item.id]
    /\ UNCHANGED <<followUp, clocks, lists, busyId, reschedulingId, submitting, call>>

InDrawer == state = "ready" /\ drawer.mode # "closed"

(* Escape, the scrim and the cross work during a submit too.               *)
CloseDrawer ==
    /\ InDrawer /\ drawer' = Closed
    /\ UNCHANGED <<followUp, clocks, lists, busyId, reschedulingId, submitting, call>>

handleSubmit(c) ==
    /\ InDrawer /\ submitting = None
    /\ \/ drawer.mode = "create" /\ \E at \in Times : Send(c, "create", None, at)
       \/ drawer.mode = "edit" /\ Send(c, "update", drawer.id, 0)
    /\ submitting' = c
    /\ UNCHANGED <<followUp, clocks, lists, busyId, reschedulingId, drawer>>

-----------------------------------------------------------------------------
(* What the server makes of a row: a status it already has is a success, a *)
(* row that is settled otherwise is refused.                               *)
Settles(kind, f) ==
    LET target == IF kind = "complete" THEN "COMPLETED" ELSE "CANCELED" IN
    /\ followUp[f].status \in {"PENDING", target}
    /\ followUp' = [followUp EXCEPT ![f].status = target]

Reschedules(f, at) ==
    /\ followUp[f].status = "PENDING"
    /\ followUp' = [followUp EXCEPT ![f].at = at]

ServerDoes(c) ==
    /\ call[c].server = "sent"
    /\ CASE call[c].kind \in {"complete", "cancel"} -> Settles(call[c].kind, call[c].id)
         [] call[c].kind = "reschedule" -> Reschedules(call[c].id, call[c].at)
         [] call[c].kind = "create" ->
              \E f \in FollowUps \ Stored :
                followUp' = [followUp EXCEPT ![f] = [status |-> "PENDING", at |-> call[c].at]]
         [] call[c].kind = "update" -> UNCHANGED followUp
    /\ call' = [call EXCEPT ![c].server = "done"]
    /\ UNCHANGED <<clocks, lists, widgets>>

(* A conflict, or a failure before the server or inside it.                *)
ServerRefuses(c) ==
    /\ call[c].server = "sent"
    /\ call' = [call EXCEPT ![c].server = "refused"]
    /\ UNCHANGED <<followUp, clocks, lists, widgets>>

OthersWrite(f) ==
    /\ others < MaxOthers /\ others' = others + 1 /\ behind' = TRUE
    /\ f \in Stored
    /\ \/ \E kind \in {"complete", "cancel"} : Settles(kind, f)
       \/ \E at \in Times : Reschedules(f, at)
    /\ UNCHANGED <<now, lists, widgets, call>>

-----------------------------------------------------------------------------
Answered(c) ==
    IF call[c].server = "done" THEN reload ELSE UNCHANGED <<lists, behind>>

\* Mutant: the row is freed only by a success.
FreedMutant(c) == busyId' = IF call[c].server = "done" THEN None ELSE busyId

(* Whichever action ends frees the only row that is marked.                *)
Freed(c) == busyId' = None

\* Mutant: only a success enables the form again.
SubmittedMutant(c) ==
    IF submitting = c /\ call[c].server = "done" THEN None ELSE submitting

Submitted(c) == IF submitting = c THEN None ELSE submitting

(* The end of a reschedule closes the editor there is, of whatever row and *)
(* whether or not it succeeded.                                            *)
ActionAnswers(c) ==
    /\ call[c].kind \in RowActions /\ call[c].server \in {"done", "refused"}
    /\ Answered(c) /\ Freed(c)
    /\ reschedulingId' = IF call[c].kind = "reschedule" THEN None ELSE reschedulingId
    /\ call' = [call EXCEPT ![c] = Over]
    /\ UNCHANGED <<followUp, now, others, drawer, submitting>>

(* A success closes the drawer there is; the one that sent it, if it is    *)
(* still mounted, waits no more.                                           *)
DrawerAnswers(c) ==
    /\ call[c].kind \in {"create", "update"} /\ call[c].server \in {"done", "refused"}
    /\ Answered(c)
    /\ drawer' = IF call[c].server = "done" THEN Closed ELSE drawer
    /\ submitting' = Submitted(c)
    /\ call' = [call EXCEPT ![c] = Over]
    /\ UNCHANGED <<followUp, now, others, busyId, reschedulingId>>

Next ==
    \/ Tick \/ ListsArrive \/ ListsFail \/ Retry \/ OpenDrawer \/ CloseDrawer
    \/ \E t \in Tabs : list(t)
    \/ \E item \in Rows : StartReschedule(item) \/ StopReschedule(item)
    \/ \E c \in Calls :
         \/ \E item \in Rows :
              \/ \E kind \in {"complete", "cancel"} : runAction(c, kind, item)
              \/ confirmReschedule(c, item)
         \/ handleSubmit(c)
         \/ ServerDoes(c) \/ ServerRefuses(c)
         \/ ActionAnswers(c) \/ DrawerAnswers(c)
    \/ \E f \in FollowUps : OthersWrite(f)

Spec == Init /\ [][Next]_vars

-----------------------------------------------------------------------------
(* Every variable keeps to its values; requests are awaited exactly while  *)
(* the spinner shows, and the drawer waits for a call that is under way.   *)
TypeOK ==
    /\ followUp \in [FollowUps -> {None} \cup Row]
    /\ now \in Times /\ behind \in BOOLEAN /\ others \in 0 .. MaxOthers
    /\ state \in {"loading", "ready", "error"} /\ (state = "loading") = (fetch # NoFetch)
    /\ shown \in [Tabs -> SUBSET ItemRow]
    /\ fetch \in [phase : {"none", "sent"}, at : Times, left : SUBSET Tabs,
                  rows : [Tabs -> SUBSET ItemRow]]
    /\ asked \subseteq Stored
    /\ {busyId, reschedulingId} \subseteq FollowUps \cup {None}
    /\ drawer \in [mode : {"closed", "create", "edit"}, id : FollowUps \cup {None}]
    /\ (drawer.mode = "edit") = (drawer.id # None)
    /\ submitting # None => submitting \in Calls /\ InFlight(submitting)
    /\ call \in [Calls -> Call]

(* A page at rest shows the rows as they are: when none of its actions is   *)
(* awaited and nobody else wrote since it asked, each tab is what the       *)
(* server, as its rows now stand, answers to a request sent when the page   *)
(* asked and read at some moment since.  No answer that one of the page's   *)
(* own actions overtook is shown.  What a tab leaves out is what lies       *)
(* beyond its page and, if the clocks differ, between the two: rows due     *)
(* between the server's moment and the client's are in neither of "ativos"  *)
(* and "agendados" (see EveryPendingIsListed), or, behind it, in both.      *)
QuietIsFresh ==
    state = "ready" /\ ~behind /\ (\A c \in Calls : ~InFlight(c)) =>
        \E m \in Times : \A t \in Tabs : \E n \in m .. now :
            shown[t] \in Answers(t, n, m + Skew)

(* A row whose buttons are disabled has an action under way whose end will *)
(* enable them, however many actions overlap.                              *)
BusyRowIsFreed ==
    busyId # None =>
        \E c \in Calls : InFlight(c) /\ call[c].kind \in RowActions /\ call[c].id = busyId

(* Only canceled follow-ups are in no tab, the page says: one that was     *)
(* pending when the page asked, and still is, is in "ativos" or in         *)
(* "agendados".                                                            *)
EveryPendingIsListed ==
    state = "ready" =>
        \A f \in asked \cap Pending :
          f \in {item.id : item \in shown["ativos"] \cup shown["agendados"]}

(* "Concluidos = COMPLETED": what was completed through this page is found *)
(* there.                                                                  *)
CompletedIsListed ==
    state = "ready" /\ ~behind /\ (\A c \in Calls : ~InFlight(c)) =>
        \A f \in Completed : Item(f) \in shown["concluidos"]
=============================================================================
