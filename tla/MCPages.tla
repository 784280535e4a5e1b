-------------------------------- MODULE MCPages --------------------------------
(* The pages a user works on while others do: the agenda, the drawer that registers a      *)
(* client on the way, the board of leads and the follow-ups; and the calendar behind the    *)
(* agenda, for concurrent requests and for one at a time.  A behaviour is of one of them,   *)
(* and `part' says which; the variables of the others are Nothing in it.                        *)
EXTENDS Naturals, FiniteSets, TLC

CONSTANTS
    Asks,           \* what the user asks for in a page, each used once
    another,        \* one more request of the calendar
    Nothing, Absent, Null, Missing,
    Events, Instants, Week, meeting,                \* AgendaView, CalendarEvents
    Clients, Phones, Amounts, LastStage,            \* QuickLead, LeadBoard
    Reminders, MaxTime, ClockSkew,                  \* FollowUpsView
    \* Rows of a list, and the bounds of the behaviours.
    RowsOfAWeek, CardsOfABoard, RowsOfATab,
    Connections, MaxLoads, MaxOpenings, MaxVisits, MaxOthers

VARIABLES
    part,
    event, audit, req,                                          \* the calendar, and its agenda
    data, loads, drawerMode, editing, task,                     \* the agenda
    stored, links, opening, open, leadId, leads, listing, quickLeadOpen, post,
    lead, recent, contacts, visit, movingId, drawerOpen,        \* the board
    reminder, now, asked, reschedulingId, drawer,               \* the follow-ups
    behind, others, shown, call,                                \* the board and the follow-ups
    state, fetch, form, busyId, submitting                      \* of whichever page has them

Concurrent ==
    INSTANCE CalendarEvents WITH
        Events <- {meeting}, Times <- Instants, Requests <- Asks \cup {another},
        MaxOpen <- Connections
Serial ==
    INSTANCE CalendarEvents WITH
        Events <- {meeting}, Times <- Instants, Requests <- Asks \cup {another}, MaxOpen <- 1
Agenda ==
    INSTANCE AgendaView WITH
        Requests <- Asks, Times <- Instants, MaxOpen <- Connections, PAGE_SIZE <- RowsOfAWeek,
        None <- Nothing
Quick == INSTANCE QuickLead WITH Leads <- Clients, Posts <- Asks, None <- Nothing
Board ==
    INSTANCE LeadBoard WITH
        Leads <- Clients, Calls <- Asks, PageSize <- CardsOfABoard, None <- Nothing
Tasks ==
    INSTANCE FollowUpsView WITH
        FollowUps <- Reminders, Calls <- Asks, Skew <- ClockSkew, PageSize <- RowsOfATab,
        None <- Nothing, followUp <- reminder

ASSUME PagesAssumption ==
    /\ Concurrent!CalendarAssumption /\ Serial!CalendarAssumption
    /\ Agenda!AgendaAssumption
    /\ Quick!QuickLeadAssumption /\ Board!LeadBoardAssumption
    /\ Tasks!FollowUpsViewAssumption

-----------------------------------------------------------------------------
calendar == <<event, audit, req>>
agenda == <<data, loads, drawerMode, editing, task>>
quick == <<stored, links, opening, open, leadId, leads, listing, quickLeadOpen, post>>
board == <<lead, recent, contacts, visit, movingId, drawerOpen>>
tasks == <<reminder, now, asked, reschedulingId, drawer>>
lists == <<behind, others, shown, call>>
page == <<state, fetch, form, busyId, submitting>>
allVars == <<part, calendar, agenda, quick, board, tasks, lists, page>>

NoCalendar == event = Nothing /\ audit = Nothing /\ req = Nothing
NoAgenda ==
    data = Nothing /\ loads = Nothing /\ drawerMode = Nothing /\ editing = Nothing /\ task = Nothing
NoQuick ==
    /\ stored = Nothing /\ links = Nothing /\ opening = Nothing /\ open = Nothing /\ leadId = Nothing
    /\ leads = Nothing /\ listing = Nothing /\ quickLeadOpen = Nothing /\ post = Nothing
NoBoard ==
    /\ lead = Nothing /\ recent = Nothing /\ contacts = Nothing /\ visit = Nothing
    /\ movingId = Nothing /\ drawerOpen = Nothing
NoTasks ==
    /\ reminder = Nothing /\ now = Nothing /\ asked = Nothing /\ reschedulingId = Nothing
    /\ drawer = Nothing
NoLists == behind = Nothing /\ others = Nothing /\ shown = Nothing /\ call = Nothing
NoPage == state = Nothing /\ fetch = Nothing /\ form = Nothing /\ busyId = Nothing

PagesInit ==
    \/ /\ \/ part = "calendar" /\ Concurrent!Init
          \/ part = "serial" /\ Serial!Init
       /\ NoAgenda /\ NoQuick /\ NoBoard /\ NoTasks /\ NoLists /\ NoPage /\ submitting = Nothing
    \/ part = "agenda" /\ Agenda!Init /\ NoQuick /\ NoBoard /\ NoTasks /\ NoLists
    \/ /\ part = "quick" /\ Quick!Init
       /\ NoCalendar /\ NoAgenda /\ NoBoard /\ NoTasks /\ NoLists /\ NoPage
    \/ /\ part = "board" /\ Board!Init
       /\ NoCalendar /\ NoAgenda /\ NoQuick /\ NoTasks /\ busyId = Nothing
    \/ /\ part = "tasks" /\ Tasks!Init
       /\ NoCalendar /\ NoAgenda /\ NoQuick /\ NoBoard /\ form = Nothing

PagesNext ==
    /\ UNCHANGED part
    /\ \/ part = "calendar" /\ Concurrent!Next /\ UNCHANGED <<agenda, quick, board, tasks, lists, page>>
       \/ part = "serial" /\ Serial!Next /\ UNCHANGED <<agenda, quick, board, tasks, lists, page>>
       \/ part = "agenda" /\ Agenda!Next /\ UNCHANGED <<quick, board, tasks, lists>>
       \/ /\ part = "quick" /\ Quick!Next
          /\ UNCHANGED <<calendar, agenda, board, tasks, lists, state, fetch, form, busyId>>
       \/ part = "board" /\ Board!Next /\ UNCHANGED <<calendar, agenda, quick, tasks, busyId>>
       \/ part = "tasks" /\ Tasks!Next /\ UNCHANGED <<calendar, agenda, quick, board, form>>

PagesSpec == PagesInit /\ [][PagesNext]_allVars

-----------------------------------------------------------------------------

\* Every variable has its type.
PagesTypeOK ==
    /\ part = "calendar" => Concurrent!TypeOK
    /\ part = "serial" => Serial!TypeOK
    /\ part = "agenda" => Agenda!TypeOK
    /\ part = "quick" => Quick!TypeOK
    /\ part = "board" => Board!TypeOK
    /\ part = "tasks" => Tasks!TypeOK

\* CalendarEventsService: an event stands as its last complete or cancel entry left it,
\* however edits, completions and cancellations overlap: an edit writes the columns it was
\* given and never the status it read.
TrailExplainsStatus ==
    /\ part = "calendar" => Concurrent!TrailExplainsStatus
    /\ part = "serial" => Serial!TrailExplainsStatus

\* The pages at rest show what the server has, when nobody else wrote since: the week of
\* AgendaView, the columns of LeadsBoard and the three tabs of FollowupsView, in whatever
\* order actions, saves and loads overlapped and their answers came.  A list is a page of
\* its rows (PAGE_SIZE events of the week, the leads last written, the earliest follow-ups
\* of a tab), and the tabs are of the moments at which the two clocks, which may
\* differ, were read: a follow-up beyond the page of its tab, or due between the clocks, is
\* not claimed to be shown.
ListingsAreFresh ==
    /\ part = "agenda" => Agenda!QuietIsFresh
    /\ part = "board" => Board!QuietIsFresh
    /\ part = "tasks" => Tasks!QuietIsFresh

\* What waits is freed: a card that is kept from moving, a row whose buttons are disabled
\* and a drawer that waits for its save or its creation have a request under way that
\* will free them, however many overlap.
DisabledIsFreed ==
    /\ part = "agenda" => Agenda!WaitsForASave
    /\ part = "board" => Board!BusyCardIsFreed /\ Board!WaitsForACreate
    /\ part = "tasks" => Tasks!BusyRowIsFreed

\* A form fits the server: CalendarEventDrawer's was filled from the event a save would go
\* to, the lead it links exists, and the select has a lead once, whichever of the list and
\* the answer to its creation comes first (QuickLeadDrawer).
FormsAreCoherent ==
    /\ part = "agenda" => Agenda!FormIsOfItsEvent
    /\ part = "quick" => Quick!LinkedExists /\ Quick!ListedOnce

\* CalendarEventsService, requests that do not overlap: an event never ends before it
\* starts, whichever end each of them moved, and completing twice, or cancelling twice, is
\* one change and one entry of the trail.
SerialRequestsAreExact == part = "serial" => Serial!IntervalHolds /\ Serial!StatusSetOnce

MCPhones == {Nothing, <<"n1", "e164">>}

\* The requests are alike, and so are the follow-ups.
Symmetry == Permutations(Asks) \cup Permutations(Reminders)
=============================================================================
