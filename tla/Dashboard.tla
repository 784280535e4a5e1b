------------------------------ MODULE Dashboard ------------------------------
(***************************************************************************)
(* The first page: a summary of leads, follow-ups and events, asked for    *)
(* once when the page is opened.  The API reads it in one READ COMMITTED   *)
(* transaction whose queries are issued together and run one after another *)
(* on its connection, so each of them sees the database of a moment of its *)
(* own while others write to it.                                           *)
(*                                                                         *)
(* Left out: the recent activity, and the names and texts of the lists.    *)
(***************************************************************************)
EXTENDS Naturals, Sequences, FiniteSets, FiniteSetsExt

CONSTANTS
    Leads, FollowUps, Events,   \* ids the database can give
    LastStage,                  \* stages are 0..LastStage, 0 the top of the funnel
    DayLength, MonthLength,     \* in units of time
    MaxTime,                    \* time is 0..MaxTime
    MaxWrites,                  \* bound on the writes of other users
    MaxVisits,                  \* bound on the times the page is opened
    RowsOfACard,                \* "take" of the two lists (8 in the code)
    Amount,                     \* amountCents of each lead
    None

DashboardAssumption ==
    /\ LastStage \in Nat /\ MaxTime \in Nat /\ MaxWrites \in Nat /\ MaxVisits \in Nat
    /\ {DayLength, MonthLength, RowsOfACard} \subseteq Nat \ {0}
    /\ MonthLength % DayLength = 0
    /\ Amount \in [Leads -> Nat]

VARIABLES
    now,
    lead, followUp, event,  \* the tables: a row, or None for an id not given
    writes, visits,
    reading,   \* the transaction of the summary: when it began, its queries to come,
               \* and (history) whether nobody has written since
    partial,   \* what its queries have returned
    moments,   \* history: the leads of each stage at every moment since it began
    state,     \* of the page: closed | loading | ready | error
    data       \* the summary it shows

tables == <<lead, followUp, event>>
transaction == <<reading, partial, moments>>
page == <<state, data>>
vars == <<now, tables, writes, visits, transaction, page>>

-----------------------------------------------------------------------------
Times == 0 .. MaxTime
Stages == 0 .. LastStage
Day(t) == t \div DayLength
Month(t) == t \div MonthLength

(* wonAt is history: when the lead was last set to WON.                    *)
Lead == [status : {"OPEN", "WON", "LOST"}, stage : Stages, createdAt : Times,
         updatedAt : Times, wonAt : Times \cup {None}]
FollowUp == [status : {"PENDING", "COMPLETED"}, lead : Leads, scheduledAt : Times]
Event == [status : {"SCHEDULED", "CANCELED"}, type : {"MEETING", "CALL"}, startsAt : Times]

There(table) == {x \in DOMAIN table : table[x] # None}
Worth(S) == MapThenSumSet(LAMBDA l : Amount[l], S)
CountByStage == [s \in Stages |-> Cardinality({l \in There(lead) : lead[l].stage = s})]

Queries == <<"newLeads", "pipelineAgg", "scheduledMeetings", "monthlySalesAgg",
             "wonThisMonth", "createdThisMonth", "followUpRows", "agendaRows">>
Figures == {Queries[i] : i \in DOMAIN Queries}

\* Mutant: one query per stage.
FunnelQueriesMutant == {{s} : s \in Stages}

(* One grouped count: a single query for all the stages.                   *)
FunnelQueries == {Stages}

Nothing == [q \in Figures |-> IF q \in {"followUpRows", "agendaRows"} THEN {} ELSE 0]
NoSummary == [figures |-> Nothing, funnel |-> [s \in Stages |-> 0], at |-> 0]
NotReading == [at |-> 0, queries |-> <<>>, funnel |-> {}, quiet |-> TRUE]

Init ==
    /\ now = 0 /\ writes = 0 /\ visits = 0
    /\ lead = [l \in Leads |-> None]
    /\ followUp = [f \in FollowUps |-> None]
    /\ event = [e \in Events |-> None]
    /\ reading = NotReading /\ partial = NoSummary /\ moments = {}
    /\ state = "closed" /\ data = NoSummary

-----------------------------------------------------------------------------
(* What other users write: the operations that change a figure.  Follow-ups *)
(* and events that are edited, or end in another way, change none otherwise. *)

Tick == now < MaxTime /\ now' = now + 1
        /\ UNCHANGED <<tables, writes, visits, transaction, page>>

(* Every write of a lead sets its updatedAt.                               *)
Touched(l) == [lead EXCEPT ![l].updatedAt = now]

Commits ==
    /\ writes < MaxWrites
    /\ writes' = writes + 1
    /\ moments' = IF state # "loading" THEN moments ELSE moments \cup {CountByStage'}
    /\ reading' = IF state # "loading" THEN reading ELSE [reading EXCEPT !.quiet = FALSE]
    /\ UNCHANGED <<now, visits, partial, page>>

createLead(l) ==
    /\ lead[l] = None
    /\ \E s \in Stages :
          lead' = [lead EXCEPT ![l] = [status |-> "OPEN", stage |-> s, createdAt |-> now,
                                       updatedAt |-> now, wonAt |-> None]]
    /\ UNCHANGED <<followUp, event>>

updateStatus(l, status) ==
    /\ lead[l] # None
    /\ lead' = [Touched(l) EXCEPT
                  ![l].status = status,
                  ![l].wonAt = IF status # "WON" THEN None
                               ELSE IF lead[l].status = "WON" THEN @ ELSE now]
    /\ UNCHANGED <<followUp, event>>

moveStage(l, s) ==
    /\ lead[l] # None
    /\ lead' = [Touched(l) EXCEPT ![l].stage = s]
    /\ UNCHANGED <<followUp, event>>

(* Creating or completing a follow-up recomputes its lead's nextActionAt.  *)
createFollowUp(f, l, t) ==
    /\ followUp[f] = None /\ lead[l] # None
    /\ followUp' = [followUp EXCEPT ![f] = [status |-> "PENDING", lead |-> l, scheduledAt |-> t]]
    /\ lead' = Touched(l)
    /\ UNCHANGED event

completeFollowUp(f) ==
    /\ followUp[f] # None
    /\ followUp[f].status = "PENDING"
    /\ followUp' = [followUp EXCEPT ![f].status = "COMPLETED"]
    /\ lead' = Touched(followUp[f].lead)
    /\ UNCHANGED event

createEvent(e, type, t) ==
    /\ event[e] = None
    /\ event' = [event EXCEPT ![e] = [status |-> "SCHEDULED", type |-> type, startsAt |-> t]]
    /\ UNCHANGED <<lead, followUp>>

cancelEvent(e) ==
    /\ event[e] # None
    /\ event[e].status = "SCHEDULED"
    /\ event' = [event EXCEPT ![e].status = "CANCELED"]
    /\ UNCHANGED <<lead, followUp>>

OthersWrite ==
    /\ \/ \E l \in Leads :
            \/ createLead(l)
            \/ \E status \in {"OPEN", "WON", "LOST"} : updateStatus(l, status)
            \/ \E s \in Stages : moveStage(l, s)
       \/ \E f \in FollowUps, l \in Leads, t \in Times : createFollowUp(f, l, t)
       \/ \E f \in FollowUps : completeFollowUp(f)
       \/ \E e \in Events, type \in {"MEETING", "CALL"}, t \in Times : createEvent(e, type, t)
       \/ \E e \in Events : cancelEvent(e)
    /\ Commits

-----------------------------------------------------------------------------
(* The page asks *)

Asks ==
    /\ reading' = [at |-> now, queries |-> Queries, funnel |-> FunnelQueries,
                   quiet |-> TRUE]
    /\ partial' = [NoSummary EXCEPT !.at = now]
    /\ moments' = {CountByStage}
    /\ state' = "loading"
    /\ UNCHANGED <<now, tables, writes, data>>

OpenPage == state = "closed" /\ visits < MaxVisits /\ visits' = visits + 1 /\ Asks

Retry == state = "error" /\ visits < MaxVisits /\ visits' = visits + 1 /\ Asks

(* The page is left: an answer still to come is not waited for.            *)
ClosePage ==
    /\ state # "closed"
    /\ state' = "closed" /\ data' = NoSummary
    /\ reading' = NotReading /\ partial' = NoSummary /\ moments' = {}
    /\ UNCHANGED <<now, tables, writes, visits>>

-----------------------------------------------------------------------------
(* The transaction: what a query returns at this moment *)

InMonth(t) == t >= reading.at - (reading.at % MonthLength)
Today(t) == Day(t) = Day(reading.at)

\* Mutant: a follow-up that was completed is still on the card.
followUpRowsMutant == {f \in There(followUp) : Today(followUp[f].scheduledAt)}

followUpRows == {f \in There(followUp) : followUp[f].status = "PENDING"
                                           /\ Today(followUp[f].scheduledAt)}
agendaRows == {e \in There(event) : event[e].status = "SCHEDULED" /\ Today(event[e].startsAt)}

Won == {l \in There(lead) : lead[l].status = "WON" /\ InMonth(lead[l].updatedAt)}
NewLeads == {l \in There(lead) : InMonth(lead[l].createdAt)}

\* Mutant: no limit.
FirstRowsMutant(S, at) == {S}

(* The first rows in order of date, at most a card full of them.           *)
FirstRows(S, at) ==
    {P \in SUBSET S :
        /\ Cardinality(P) = IF Cardinality(S) < RowsOfACard THEN Cardinality(S) ELSE RowsOfACard
        /\ \A p \in P, q \in S \ P : at[p] <= at[q]}

Answers(q) ==
    CASE q = "newLeads" -> {Cardinality(NewLeads)}
      [] q = "pipelineAgg" -> {Worth({l \in There(lead) : lead[l].status = "OPEN"})}
      [] q = "scheduledMeetings" ->
           {Cardinality({e \in There(event) :
               event[e].status = "SCHEDULED" /\ event[e].type = "MEETING"
                 /\ event[e].startsAt >= reading.at})}
      [] q = "monthlySalesAgg" -> {Worth(Won)}
      [] q = "wonThisMonth" -> {Cardinality(Won)}
      [] q = "createdThisMonth" -> {Cardinality(NewLeads)}
      [] q = "followUpRows" -> FirstRows(followUpRows, [f \in followUpRows |-> followUp[f].scheduledAt])
      [] q = "agendaRows" -> FirstRows(agendaRows, [e \in agendaRows |-> event[e].startsAt])

RunQuery ==
    /\ reading.queries # <<>>
    /\ \E answer \in Answers(Head(reading.queries)) :
          partial' = [partial EXCEPT !.figures[Head(reading.queries)] = answer]
    /\ reading' = [reading EXCEPT !.queries = Tail(@)]
    /\ UNCHANGED <<now, tables, writes, visits, moments, page>>

(* It asks for the stages first, so its count of leads comes last.         *)
buildFunnel ==
    /\ reading.queries = <<>>
    /\ \E S \in reading.funnel :
          /\ partial' = [partial EXCEPT !.funnel =
                           [s \in Stages |-> IF s \in S THEN CountByStage[s] ELSE @[s]]]
          /\ reading' = [reading EXCEPT !.funnel = @ \ {S}]
    /\ UNCHANGED <<now, tables, writes, visits, moments, page>>

Leaves(s) ==
    /\ state' = s
    /\ reading' = NotReading /\ partial' = NoSummary /\ moments' = {}
    /\ UNCHANGED <<now, tables, writes, visits>>

(* All the queries have returned.                                          *)
Ready == state = "loading" /\ reading.queries = <<>> /\ reading.funnel = {}

Shows ==
    /\ Ready
    /\ data' = partial
    /\ Leaves("ready")

Fails == state = "loading" /\ UNCHANGED data /\ Leaves("error")

Next == \/ Tick \/ OthersWrite
        \/ OpenPage \/ Retry \/ ClosePage
        \/ RunQuery \/ buildFunnel \/ Shows \/ Fails

Spec == Init /\ [][Next]_vars

-----------------------------------------------------------------------------
(* What the page says *)

(* "You have n new leads, m pending follow-ups and k meetings today."      *)
summaryLine(summary) ==
    [leads |-> summary.figures["newLeads"],
     followUps |-> Cardinality(summary.figures["followUpRows"]),
     meetings |-> summary.figures["scheduledMeetings"]]

toMetrics(summary) ==
    [newLeads |-> summary.figures["newLeads"],
     pipelineValue |-> summary.figures["pipelineAgg"],
     scheduledMeetings |-> summary.figures["scheduledMeetings"],
     monthlySales |-> summary.figures["monthlySalesAgg"]]

-----------------------------------------------------------------------------
(* Properties *)

(* Every variable has its type.                                            *)
TypeOK ==
    /\ now \in Times
    /\ lead \in [Leads -> Lead \cup {None}]
    /\ followUp \in [FollowUps -> FollowUp \cup {None}]
    /\ event \in [Events -> Event \cup {None}]
    /\ state \in {"closed", "loading", "ready", "error"}
    /\ \A summary \in {data, partial} :
          /\ \A q \in {"followUpRows", "agendaRows"} :
                Cardinality(summary.figures[q]) <= RowsOfACard
          /\ summary.funnel \in [Stages -> Nat]

(* The funnel of a summary is the leads of each stage at one moment since  *)
(* it was asked for: a lead that is being moved is counted once, in the    *)
(* stage it leaves or in the one it enters.                                *)
FunnelIsOfOneMoment ==
    reading.funnel = {} /\ state = "loading" => partial.funnel \in moments

(* While nobody writes, the figures of a summary describe one database:    *)
(* the funnel has the leads that are there, each in its stage, and a card  *)
(* that is not full has what is still to be done today and nothing else.   *)
QuietSummaryIsExact ==
    Ready /\ reading.quiet =>
        /\ partial.funnel = CountByStage
        /\ LET card == partial.figures["followUpRows"] IN
           /\ \A f \in card : followUp[f].status = "PENDING"
           /\ Cardinality(card) < RowsOfACard =>
                \A f \in There(followUp) :
                    followUp[f].status = "PENDING" /\ Today(followUp[f].scheduledAt) => f \in card

(* The leads counted as won this month were won in it.                     *)
SaleIsOfItsMonth ==
    Ready /\ reading.quiet =>
        partial.figures["wonThisMonth"] <=
            Cardinality({l \in There(lead) : lead[l].wonAt # None /\ InMonth(lead[l].wonAt)})

(* An amount is not in the open opportunities and in the sales at once.    *)
AmountCountedOnce ==
    LET m == toMetrics(data) IN m.pipelineValue + m.monthlySales <= Worth(Leads)

(* The meetings the page counts for today are of today.                    *)
MeetingsAreToday ==
    Ready /\ reading.quiet =>
        summaryLine(partial).meetings <=
            Cardinality({e \in There(event) : event[e].type = "MEETING" /\ Today(event[e].startsAt)})
=============================================================================
