------------------------------ MODULE MCProcesses ------------------------------
(* Processes of the API that boot with what is written when they boot: those that send    *)
(* through Meta, with limits and accounts that are edited once, and those that let the     *)
(* callers of the other channels in, whose keys are rotated.  A behaviour is of the        *)
(* `channel' or of the `endpoint', and `part' says which; the other does nothing in it.    *)
EXTENDS WhatsAppChannel, InboundData, TLC

CONSTANTS
    OURS, p1, p2,                                           \* Environments
    Credentials, Lines, First, Bodies, Taken, Slots, RateLimit, MaxContent,
    MaxRotations, MaxFaults                                 \* InboundEndpoint

VARIABLES
    part,
    file, registry, hits, current, request, stored, created, settled, rotations, faults

Endpoint ==
    INSTANCE InboundEndpoint WITH
        Instances <- Processes, MaxEdits <- MaxRotations, edits <- rotations

ASSUME ProcessesAssumption == Endpoint!EndpointAssumption

-----------------------------------------------------------------------------
(* What the runs give the processes *)

\* One tenant's id in two spellings.
MCLower(tenant) == IF tenant = OURS THEN ours ELSE tenant

Account(tenant, phone) == [tenantId |-> tenant, phoneNumberId |-> phone, sound |-> TRUE]
Plain ==
    [enabled |-> TRUE, sound |-> TRUE, accounts |-> <<Account(OURS, p1), Account(theirs, p2)>>,
     http |-> None, send |-> None, lease |-> None]

\* Those a process boots with, and one mistake each.
MCEnvironments ==
    {Plain,
     [Plain EXCEPT !.lease = 3],
     [Plain EXCEPT !.http = 2, !.send = 3],
     [Plain EXCEPT !.enabled = FALSE, !.accounts = <<>>],
     [Plain EXCEPT !.accounts = <<Account(theirs, p1)>>],
     [Plain EXCEPT !.accounts = <<Account(theirs, p1), Account(ours, p1)>>],
     [Plain EXCEPT !.accounts = <<Account(ours, p1), Account(OURS, p2)>>],
     [Plain EXCEPT !.http = 2],
     [Plain EXCEPT !.http = 2, !.send = 3, !.lease = 1],
     [Plain EXCEPT !.sound = FALSE]}

MCResponses ==
    {[status |-> 200, id |-> TRUE, code |-> None], [status |-> 200, id |-> FALSE, code |-> None],
     [status |-> 400, id |-> FALSE, code |-> 131047], [status |-> 400, id |-> FALSE, code |-> 130429],
     [status |-> 429, id |-> FALSE, code |-> None]}

-----------------------------------------------------------------------------
endpoint == <<file, registry, hits, current, request, stored, created, settled, rotations, faults>>
allVars == <<part, vars, endpoint>>

\* No process sends.
NoChannel ==
    /\ now = None /\ env = None /\ settings = None /\ message = None
    /\ flight = [i \in Processes |-> Idle]
    /\ heard = None /\ edits = None /\ stops = None

\* No process lets anybody in.
NoEndpoint ==
    /\ file = None /\ registry = None /\ hits = None /\ current = None /\ request = None
    /\ stored = None /\ created = None /\ settled = None /\ rotations = None /\ faults = None

ProcessesInit ==
    \/ part = "channel" /\ Init /\ NoEndpoint
    \/ part = "endpoint" /\ Endpoint!Init /\ NoChannel

ProcessesNext ==
    \/ part = "channel" /\ Next /\ UNCHANGED <<part, endpoint>>
    \/ part = "endpoint" /\ Endpoint!Next /\ UNCHANGED <<part, vars>>

ProcessesSpec == ProcessesInit /\ [][ProcessesNext]_allVars

-----------------------------------------------------------------------------

\* While keys are rotated, entries added by mistake and processes deployed in any order,
\* each process that runs accepts the key the caller uses (inbound-credentials.ts:15).
CallerIsNeverLockedOut == part = "endpoint" => Endpoint!CallerIsNeverLockedOut

\* However often a message is sent, and however many requests for it run at the same
\* time, at most one is told that it created the message (the controller's 201 and 200).
OneCreated == part = "endpoint" => Endpoint!OneCreated

\* Processes are alike.
Symmetry == Permutations(Processes)
=============================================================================
