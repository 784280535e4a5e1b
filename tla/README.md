# Inovasix6 Comercial: a verification project

TLA+ models of the concurrent core of Inovasix6 Comercial, the TLC runs that
check them on small instances, and TLAPS proofs of the properties that matter
most for every instance.

Paths below are relative to `src/`; `modules/...` stands for
`apps/api/src/modules/...` and `web/...` for `apps/web/...`.

## 1. The system

A multi-tenant CRM: a NestJS API over PostgreSQL (Prisma, row level security)
and a Next.js front end. Customers write on external channels (WhatsApp);
agents answer from an inbox. All state the API keeps is in the database. Every
database access of a request runs in `PrismaService.runWithTenant`: one
interactive transaction at READ COMMITTED that sets the tenant, and that a
thrown error rolls back. Several API processes may run; nothing is coordinated
in memory. Concurrency is therefore between *transactions*, and between a
process and the outside world (the provider, crashes, time).

    customer -> WhatsApp webhook / inbound HTTP
                  -> ConversationIntake: ingest (tx), then first contact (tx)
                        contacts, conversations, messages
    agent    -> Conversations: assign / unassign / changeState
             -> Messages.send  --------+
    first contact's reply ------------ + -> messages(PENDING, queued)
                                            -> outbound worker: claim, send, finalize
                                                  -> WhatsApp Cloud API
    WhatsApp status callbacks ------------> messages(SENT -> DELIVERED -> READ)

### Inventory

| Component | State | Operations | What is hard | Correct when |
|---|---|---|---|---|
| Outbound delivery (`modules/delivery`) | delivery columns of `messages`; deliveries in flight in each process | claim, deliver, markSent, markRetry, markFailed | leases that expire under a live worker, crashes after the provider accepted, late answers, id conflicts, the last attempt | never more provider calls than attempts; SENT only after an acceptance; an acceptance is never retried by the lease's holder; everything leaves the queue |
| Outbound worker | cursor over tenants, timer, poll in flight | start, stop, poll | pages of tenants that cannot be served, errors in a cycle, a stop that gives up on a poll | every tenant is served in the end |
| WhatsApp adapter, configuration | the environment, what a process read of it | boot, send | three limits that must nest, processes with different settings, answers without an id | one call at a time; an answer comes back to the tenant that asked |
| Status callbacks (`modules/whatsapp/webhook`) | `messages.status` | apply | any order, repeated, early | a status only moves forward |
| WhatsApp webhook | none | process a batch | part of a batch fails, the process dies, and Meta delivers all of it again | what is acknowledged is stored; what can be stored is acknowledged in the end |
| Conversation ingress | `contacts`, `conversations`, `messages` | ingest | redelivery, lost races and their retries, threads of two contacts | one open conversation per contact and channel; one row per provider message |
| First contact | `conversations.state`, the reply | acknowledge | concurrent first messages, a person taking over, failure between the two transactions | at most one reply, none after a person; no handoff without a reply |
| Conversations | `state`, `assigned_user_id`, audit log | assign, unassign, changeState | reads that are stale when written | an assignee is only removed by a manager or themselves; state and assignee agree |
| Messages | `messages`, `last_message_at` | send | sending while closing; time order | no message in a closed conversation; `last_message_at` monotonic |
| Contacts | `contacts`, identities | findOrCreateByIdentity | two first messages at once | one contact per identity, no orphan |
| Authentication | `auth_sessions` | login, refresh, logout, logoutAll | reuse of a rotated token, concurrent refreshes | one successor per refresh token; reuse revokes |
| Follow-ups and leads | `follow_ups`, `leads.next_action_at` | create, update, complete, cancel, reschedule | the mirror is recomputed by read and write | `next_action_at` is the earliest pending follow-up |
| Calendar (`modules/calendar`) | `calendar_events`, audit trail | create, update, complete, cancel | each reads, decides and then writes by id | the trail explains the status; an interval ends after it starts |
| Inbound endpoint (`modules/conversations/inbound`) | credentials each process read at boot, rate limit | guard, receive | keys rotated while processes run, a caller that sends again | the caller is never locked out; one 201 per message |
| Dashboard | none | summary | ten queries of ten moments | a quiet summary is exact |
| Web session (`web/lib/auth`) | token in memory, refresh in flight | apiFetch, refresh, bootstrap, sign-in, sign-out | a shared refresh, replays, answers after a sign-out | a token is of the user on the screen; no effect twice; calls end |
| Pages (`web/components`) | lists, drawers, marks of what is busy | load, select, send, save, move | requests that overlap and answers in any order; a reload unmounts drawers | pages at rest show the server; what is disabled is freed |
| Demo (`web/lib/demo`) | a copy of the inbox per tab, localStorage | every inbox call | tabs that share storage, pages while messages arrive | the demo acts as the API does |
| Tenant isolation, users, placeholder modules | | | PostgreSQL's own, or not stateful | |

`PROJECT.json` lists every component with what is and is not modelled of it, and
under `hazards` every place where the code can go wrong in a way a test hardly
reaches, with the properties that would notice.

## 2. Modules

| Module | Content |
|---|---|
| `OutboundDelivery` | one tenant's outbound messages, the workers, the provider, the callbacks |
| `DeliveryContract` | the abstract promise: what a message goes through, without workers, leases, queue or clock |
| `OutboundWorker` | the polling loop around the engine: timer, cursor, stop and start, a cycle over a page of tenants |
| `WhatsAppChannel` | from the environment to a call of Meta's API: boot checks, limits, account, what an answer means |
| `WebhookParser` | what a notification of Meta comes down to: the texts of customers and the statuses of our messages, in order |
| `WebhookIntake` | notifications of Meta, their events one by one, the answer, redeliveries |
| `ConversationLifecycle` | the conversations of one contact on one external channel: the inbound path and the agents |
| `ContactIngress` | from a provider's message to a contact, a conversation and a stored message, beside the agents |
| `InboundEndpoint` | the way in for other channels: credentials and their rotation, the guard, the answers, the caller |
| `FollowUpMirror` | follow-ups, and the copy of the earliest pending one in their lead |
| `CalendarEvents` | events and their audit trail |
| `AuthSessions` | sessions, refresh rotation and the cookie jar of a browser |
| `Dashboard` | the summary, the writes that change it, and the page |
| `WebSession` | one tab: token, shared refresh, replay, sign-in, sign-out |
| `InboxView`, `AgendaView`, `QuickLead`, `LeadBoard`, `FollowUpsView` | the pages, over an API that answers late or not at all |
| `DemoInbox` | the inbox inside the page, with localStorage and several tabs |
| `InboundData` | notifications, credentials and bodies the instances use |
| `MC...` | the instances for TLC (section 3) |
| `OutboundDeliveryProofs`, `ConversationLifecycleProofs`, `ContactIngressProofs`, `AuthSessionsProofs` | theorems about the module in the name (section 4) |
| `ProcessesProofs` | theorems about `WhatsAppChannel` and `InboundEndpoint` |
| `WebhookProofs` | theorems about `WebhookIntake` over `WebhookParser` |
| `WebProofs` | theorems about `WebSession`, `InboxView`, `DemoInbox` and `Dashboard` |
| `CrmProofs` | theorems about `FollowUpMirror`, `CalendarEvents`, `AgendaView`, `QuickLead`, `LeadBoard` and `FollowUpsView` |

Definitions with `Mutant` (or a name said to be one in the comment) in front of
another are plausible bugs of that definition; `PROJECT.json` pairs each with a
property that must notice it. Nothing else uses them.

### OutboundDelivery

* `row[m]` is the delivery part of a message row. Times are abstracted to what
  the SQL asks of them: `next_attempt_at` is null, later or due; `lease_expires_at`
  is null, in the future or past; the actions `BackoffElapses` and `LeaseExpires`
  are the passing of time, and may come at any moment. In particular a lease may
  expire while its worker is still waiting for the provider: the configuration
  rule that the send timeout is below the lease is not relied on.
* A lease token is a fresh uuid. No two claims of a message can have the same
  attempt number, so the attempt number stands for the token.
* `job[w][m]` is one call of `deliver`, from the claim to the finalization:
  what the claim returned (attempt, token) and how far it got. A worker claims
  again only when all deliveries of its last poll have ended (`Promise.all`).
* `Claim` is the one transaction of `claim`: first the exhausted messages of
  *every* channel, then a batch of the due ones of the served channels. SKIP
  LOCKED makes the batch any part of what is due.
* Sending has no transaction. `wire` holds what the provider has not decided,
  `accepted` what it accepted: each element is a copy the customer gets. The
  provider may accept long after its caller gave up, and its ids are not assumed
  unique.
* Finalizing is a compare-and-set on the token (`OwnsLease`, `Finalize`). `markSent`
  has its second transaction (`markSentWithoutId`) as a step of its own, since other
  transactions may come between them. `FinalizeError` and `Crash` leave the lease
  to expire. A crash may come between any two steps.
* `applyStatus` is the conditional UPDATE of the callbacks. `accepted` never
  forgets, so callbacks repeat; nothing forces one, so they are lost; a callback
  that finds no row is a stutter.
* `calls`, `wire` and `accepted` are not stored by the code. They are the outside
  world, and the safety properties are about them.

`DeliveryContract` knows a status, a count of provider requests and a count of
copies. Its actions say: a request needs a created message and budget; a copy
needs a request; SENT needs a copy; FAILED needs a pending message; callbacks
move forward and need a copy. Note what it does *not* promise: a copy may arrive
more than once, and a FAILED message may have reached the customer (the timeout
of the last attempt). Both are documented in the dispatcher as at-least-once.

### ConversationLifecycle

* One contact, one external channel without thread ids, so that the partial unique
  index `conversations_open_per_contact_channel` ranges over all conversations.
* An agent's operation is two actions: the read with its guards (`assign`,
  `unassign`, `changeState`, which put what they decided in `request[u]`) and the
  write with the audit entry (`Commit`). READ COMMITTED without a row lock puts
  nothing between them, so every stale read is explored. `StillMatches` is the WHERE
  of the UPDATE: the assignee for assign and unassign, nothing for changeState. A
  failed operation (`Rollback`) leaves nothing behind.
* A call of the inbound path (`intake[p]`) receives a message, looks for a duplicate
  and an open conversation (`resolveConversation`), stores the message in what it
  found (`createMessage`) or in a new conversation (`createConversation`), and, if
  the row it ends with is a first contact, acknowledges it. A unique violation is a
  lost race (`LoseRace`), retried in a new transaction within the code's two bounds.
  `Receive` may deliver any message at any time, again or concurrently. `Abandon` is
  every way a call can die, among them the crash between the two transactions.
* `handled` is the set of conversations with a person's audit entry, `replies[c]`
  the set of inbound messages whose call created an automatic reply in `c`.

### FollowUpMirror

* A request (`tx[r]`) is one transaction: it reads the follow-up and decides
  (`create`, `update`, `settle` for complete and cancel, `reschedule`), writes it
  (`Write`), and for each lead concerned looks for the next pending follow-up
  (`FindNext`) and stores its date (`StoreNext`). Other transactions may come between
  any two of these statements.
* READ COMMITTED is modelled by what a statement sees (`Visible`: the committed rows
  and the transaction's own write) and by row locks: a second writer of a follow-up or
  a lead waits for the commit, then sets its own columns of the row as it is *then*.
  `followUp` and `nextActionAt` are committed state; `row` and `mirror` of a request
  are its own writes, published by `Commit`, dropped by `Rollback`.
* `updateLead` is the edit of a lead that sets `nextActionAt` itself. Two leads locked
  in opposite orders by two moves are a deadlock in PostgreSQL, which ends one
  of them: `Rollback`.
* Dates are a few numbers: only their order matters. Titles, owners, priorities and the
  audit entries are left out. `alone` is a history variable, used by properties only.

### ContactIngress and ConversationLifecycle

Both model `conversation-ingress.service.ts`. `ConversationLifecycle` has one contact
that is already there and follows the first contact and the agents to the end;
`ContactIngress` has several people, phones, channels and threads, creates contacts,
and follows times: `findOrCreateByIdentity` is a read of the identity, a read of the
phone and an INSERT that two unique indexes may refuse, run again up to three times;
`ingest` is its reads one by one, then the writes and the commit as one action, because
a unique index refuses an INSERT only for rows that are committed. A provider's time in
the future is clamped to the clock of the receipt (`SentAt`). An agent's message
(`send`) is its read and its write.

### The services

* `OutboundWorker`: `poll` is cut at its awaits. `timer` is the field, `armed` are the
  timers that exist: they differ when `start` is called while an old poll hangs.
* `WebhookParser` is a function from notifications to lists of events (`EventsOf`): what has
  another form is dropped, and so is what the business wrote itself, by the field of the
  change and by the number of the author. Who really wrote a message is part of the data
  and nothing the parser reads; `CustomersAreIdentified` is what it takes for granted of
  Meta (`modules/whatsapp/webhook/whatsapp-webhook.parser.ts:26-36`, `:189`).
* `WebhookIntake` takes that list as a constant (`Events`), so that it can be reasoned about
  for any parser: a request works through its events in order; a failing event is
  remembered, the rest are handled, and the answer is 503 unless every failure is one
  that a retry cannot fix. `owed` is Meta's memory of what it has to deliver again.
* `InboundEndpoint`: `file` is the list as the operator wrote it, `registry[i]` what a
  process read when it booted. A rotation is several edits, with a mistake or two,
  while processes boot at any moment.
* `WhatsAppChannel`: time counts in units of the three durations (HTTP timeout, send
  timeout, lease). A call may come up to `MaxDelay` after its claim, which is where the
  two clocks of the code part: with the 3 of the runs it may be in time for its lease or
  late for it (`Late`), whatever the settings. A call that ends without an answer may have
  seen the status of one (`StatusAlone`), since the body is read in the same `try`.
* `AuthSessions`: a refresh reads, decides, writes and commits as separate steps. A
  stored hash is represented by the token it was computed from.
* `CalendarEvents`: each request reads, then writes and commits; `MaxOpen` bounds how
  many overlap.
* `Dashboard`: the ten queries of a summary are ten steps; other users write in
  between. `moments` is history.

### The front end

A render with its event handlers is one step and an effect is a step of its own; a
request is sent, served, and answered or lost, in three steps at any later time. Two
details decide most of what can go wrong and are modelled as they are: a resource that
loads again keeps what it shows (`useApiResource`) while the *page* shows a spinner in
its place, which unmounts drawers; and a drawer that is closed with Escape still waits
for the answer of the request it sent.

### What is put beside what

The suites put components that share no state beside one another in one state
machine: a variable (`part`, `scene` or `crew`) says in the initial state whose
behaviour this is, and no other part moves. This composes nothing; it only lets one
run ask several questions. In `MCProcesses`, `MCWeb` and `MCPages` a variable keeps the name it
has in the module it is of, and those of the other parts have no value (`NoChannel`, `NoInbox`,
...); a few that every page has (`state`, `fetch`, `form`) are of whichever page it is. The bounds
and the sizes of lists are constants of these modules with the value in the cfg, and their
assumptions (`ProcessesAssumption`, `ServicesAssumption`, `WebAssumption`, `PagesAssumption`)
are the conjunction of those of the parts: the theorems about them hold for any values.
Components that do share state are composed in one module: `AgendaView` puts the page over an instance of
`CalendarEvents`, `LeadBoard` and `FollowUpsView` hold the service and the page, `OutboundDelivery` the queue, the
workers, the provider and the callbacks, `ConversationLifecycle` the inbound path and
the agents, `WebSession` the tab and the API's view of sessions.

## 3. Runs

| Run | Instance | Asks |
|---|---|---|
| `delivery_main` | one message with 2 workers, 2 ids and 5 attempts; and 2 messages in batches of 2 with 1 worker, 2 ids and 2 attempts | the engine's safety, and that it implements `DeliveryContract` |
| `conversations` | 2 conversations and 2 messages; agents: 2 agents and a manager, 1 inbound call at a time; race: 1 agent and a manager, 2 inbound calls | stale reads of agents among themselves and with the inbound path, and the races of the inbound path |
| `followups_main` | 2 follow-ups, 2 leads, 2 concurrent requests, 2 dates, lead edits to a date or null | what survives stale reads and lost updates of the mirror |
| `contact_ingress` | people: 4 events of two people, two channels, one phone, two threads; threads: 3 events of one person in two threads; talk: 1 event and an agent. 2 calls at a time, 2 contacts, 3 conversations | races for contacts, threads and times |
| `auth_sessions` | 2 tabs, 2 sessions of one user, 5 tokens | what survives concurrent refreshes and logouts |
| `processes` | 2 processes. channel: 1 message, 2 attempts, 9 units of time of which 3 may pass between a claim and its call, settings edited once; endpoint: 1 message, 2 requests, keys edited twice, 2 faults | nesting of limits, with mistakes among the settings and calls late for their lease; rotation of keys, a caller that sends again |
| `services` | five parts under their fairness: 3 messages (one MANUAL, one of a channel not served) and 2 workers; 4 tenants of which 2 cannot be served, pages of 2; 2 notifications in 2 requests, with one event refused and one that always fails; a caller of 3 bodies with one slot; a tab with 2 calls | everything ends: messages settle, tenants are served, what is sent again is accepted, calls return |
| `web` | inbox: 2 conversations, 3 loads; demo: 2 conversations, one of them still with the AI, 2 users, 1 tab; tab: 2 sessions, 2 calls; summary: 2 leads, 2 follow-ups, 1 event | stale answers, the demo against the API, a summary among writes |
| `pages` | 2 requests at a time (3 for the calendar), 2 events, 3 leads, 2 follow-ups of which a tab shows 1; the browser's clock is ahead by 1 | overlapping saves, moves and loads; drawers that wait |
| `followups_exact` | 2 follow-ups of 1 lead | a violation: section 5 |
| `auth_reuse` | 2 sessions, 2 tabs | a violation: section 5 |
| `conversations_closed` | as `conversations` | a violation: section 5 |

Deadlock is not an error in any of them: there may simply be nothing left to do, and
the models bound attempts, messages, loads and faults.

Why these bounds are enough to be interesting: messages of the engine meet only in
a batch and in the unique index on the provider's id, which takes two of them; a
lease is overtaken by a second worker, and the five attempts of the code make both
the retries and the exhausted case happen with both workers. Three people give two
rivals and somebody who may overrule them; two conversations are needed for the
index on open conversations (one closed, one opened after it); two inbound calls
and two messages give both a redelivery and two first messages. The two unique keys of a
contact need two channels that share a phone. Every race of the
follow-ups, of the calendar's and of a page's requests is between two of them; two
pages of tenants, the first not servable, make the cursor matter. What is not bounded
by data is bounded by the code (attempts, retries). `calls` of the engine is bounded by
the attempts (a theorem, not a constraint).

Symmetry is used over workers, provider ids, agents of one rank, conversations,
contacts, messages, requests, follow-ups and processes, in runs without liveness only.

Every run lists the properties that are worth a question of their own. The modules state
more, all true of the same instances, which TLC shows when they are added to the
cfg: `TypeOK` of every module, `OneLeaseHolder`, `OnlyPendingIsQueued`, `DeliveryInv`, `PromiseInv`
and `StatusForwardOnly` of the engine; `AttendedIsAssigned` and `LifecycleInv`; `StampsAgree` and
`FollowUpInv`; `StoredOnce`, `AnchorIsFinal` and `IngressInv`; `RevokedIsFinal` and `SessionsInv`;
`AnswersComeBack`, `OwnTimeoutFirst`, `QueuedIsNotAccepted` and `ChannelInv`; `SettledIsStored` and
`EndpointInv`; `TabInv`; `OnlyCustomersAreStored`,
`StatusIsFurthest`, `PageIsServedOnce` and `StoppedIsQuiet`; `OwnMessagesAreShown`,
`TypedTextIsNotLost`, `KeptOverReload`, `PagesFit` and `NewestFirst`.

### Fairness (`ServicesFairness`)

Each component states its own fairness next to its specification; `services` takes
them all, each for the behaviours of its part.

* Engine: time passes (weak fairness of `LeaseExpires` and `BackoffElapses`); a
  delivery goes on (every await in it is bounded, the send by `sendWithTimeout`); the
  worker loop polls for ever (`schedule` is called after every poll, also a failed one)
  and takes the oldest due messages first, so a message that is due again and again is
  claimed: strong fairness of a claim that contains it, and of the clean-up of
  exhausted messages. Nothing is assumed of the provider and nothing against crashes,
  id conflicts or failing finalizations: they cannot postpone the end for ever because
  each claim counts its attempt.
* Worker: what a poll has begun goes on, and timers fire; errors are bounded by
  `MaxFaults`, since a store that never answers serves nobody.
* Webhook: a request goes on; Meta delivers again what it is owed (strong fairness,
  since a request has to be free); crashes and transient errors are finite in number.
* Endpoint: the operator repairs a list that stops processes from booting, processes
  boot, windows of the rate limit pass, and a caller keeps sending what is not settled.
* Tab: the API answers or the browser gives up, and callbacks run. Nothing is assumed
  of the user.

## 4. Proofs

Eight modules hold proofs, for all values of the constants (any number of messages, workers,
people, contacts, conversations, sessions, processes, calls, notifications, follow-ups,
leads, events, tabs, requests, and any bounds of loads, writes and visits). Nothing is
assumed but what is named: the assumption about its constants that each module states
(`DeliveryAssumption`, `LifecycleAssumption`, `IngressAssumption`,
`ChannelAssumption`, `MirrorAssumption`, `SessionsAssumption`, and of the instances
`ProcessesAssumption`, `ServicesAssumption`, `WebAssumption`, `PagesAssumption`), which TLC
evaluates for every instance, and two hypotheses written in the theorem they belong to
(`MAX_RESOLVE_ATTEMPTS >= 3` and `Tabs = {t}`, below).

Each invariant was checked by TLC on the instances of section 3 before it was proved. The
argument is the same everywhere: the property is not inductive, because a step acts on
something that was read, decided or sent earlier; the invariant says what is still true of
it now.

* **OutboundDelivery**: `TypeOK` (`TypeCorrect`), and from it `DeliveryInv`
  (`DeliveryCorrect`), whose consequences are theorems of their own:
  `CallsWithinAttempts`, `SentWasAccepted`, `LastAttemptIsLeased`,
  `OnlyPendingIsQueued` and `OneLeaseHolder`.
  None of these is inductive alone. That the calls stay within the attempts needs
  that a claimed delivery not yet sent still *owns* one counted attempt
  (`CallsAreBudgeted`: calls plus unsent claims); that SENT means accepted needs that
  a delivery holding an answer has that acceptance, and that the row's token is the
  one of its *last* attempt (`RowsAreCoherent`, `JobsAreCoherent`); uniqueness of the
  lease's holder follows because two deliveries of a message never have the same
  attempt. `DeliveryInv` is the conjunction, and one lemma per action (with one step
  per conjunct it can disturb) shows it is preserved. The assumption that the set of
  workers is finite is needed to count unsent claims. From the same invariant follow the
  action properties `StatusForwardOnly`, `LiveLeaseIsRespected` and `AcceptanceIsRecorded`. The
  second says which delivery ends a live lease, the one of the row's own token, and that this
  delivery is over with the same step: a worker that gives up on a message whose last attempt
  another one is sending would break it.
* **The contract**: `EngineImplementsContract` is `Spec => ImplementsContract`, by the
  refinement mapping of `OutboundDelivery`: each action is a step of `DeliveryContract` or a
  stutter. Most stutter (claiming, leases, back-off, crashes). Two steps need more than
  `DeliveryInv`, and `PromiseInv` is that: an acceptance is of a request the engine made and
  counted (`CopiesAreCalled`, `RequestedOnce`), since the provider may answer long after
  everybody gave up; and a callback finds the row its provider's id was given to, of a message
  that has a copy (`IdsBelongToOne`).
* **ConversationLifecycle**: `TypeOK`, `LifecycleInv` and its consequences
  `AtMostOneReply`, `HandoffHasReply`, `EntryStateIsUntouched`, `AttendedIsAssigned`;
  and the action properties `HumanAlwaysWins` and `AssignmentRespected`. The
  strengthening is about what is in flight: `RequestsAreSound` says that whatever was
  decided on an old row is still safe to write (no request leads back to the entry
  state, only an assignment leads to a human attending, and whoever replaces an
  assignee was entitled to replace that one), and `UntouchedUntilHandoff` that the
  entry state is still untouched. That is why the compare-and-set on the assignee
  alone is enough for these properties, although it is not for those of section 5.
* **FollowUpMirror**: `TypeOK` and `FollowUpInv` together (the type of the leads still
  to recompute follows from what was read and written, so neither is inductive alone),
  and from them `StampsAgree`, `NeverPendingAgain`, `OwnChangeIsMirrored` and
  `LoneRequestRepairsMirror`. The strengthening says of a request in flight that the
  lock on its follow-up keeps its write a legal change of the committed row
  (`WritesAreSound`), that its own lead is recomputed last and from a view that has its
  own write (`OwnChangeIsSeen`), and that whatever it computed while alone is still
  exact (`LoneRequestIsExact`). So the mirror may be wrong after a race, but never
  hides the change of its last writer, and the next undisturbed request repairs it.
* **ContactIngress**: `IngressInv`, and from it `MessageOfItsContact`, `StoredOnce`,
  `LastIsNewestInbound`, `ContactRaceEndsWell`, and the action property `AnchorIsFinal`. What a
  call has read grows old before it writes: a contact found is still there, and a
  conversation found is still of that contact and channel, whoever wrote in between; what a
  call found *missing* may exist by now, and then the INSERT loses, so that the third attempt
  finds both the identity and the phone (`LosesLess`: each lost race is over a key that exists
  from then on). This is why three attempts are enough for any number of rivals;
  `ContactRacesEndWell` assumes `MAX_RESOLVE_ATTEMPTS >= 3`, and 3 is the constant of the code.
  `LastIsNewestInbound` is said of each conversation no agent has written into.
* **InboundEndpoint**: `EndpointInv`, and from it `CallerIsNeverLockedOut`, `OneCreated` and
  `SettledIsStored`. A process works with the list it read when it booted, perhaps many edits
  ago. The list always has the entry of the key in use (`CallerIsListed`), so that whoever
  boots learns it; a lemma shows that an orderly list has one entry of each keyId, so that
  what a process learned is that entry and no other; and a request that waits is
  authenticated by what its process knew when it was sent (`RequestsAreTheCallers`).
* **AuthSessions**: `SessionsInv`, and from it `EndedSessionIsNotRenewed`,
  `LogoutAllIsComplete`, `CookieIsCurrent`, and the action property `RevokedIsFinal`. The
  invariant says of every phase of a request what its old read still allows: a rotation
  decided before a logout writes into a row that is revoked by then, a refresh sent after
  the end of its session finds it ended, or with another token (`EndedIsRefused`), and a
  logout of all sessions covers those that were there before it was sent, also while they
  rotate (`CoversEarlier`). `CookieIsCurrent` needs in addition that a lone request has no
  rival that could rotate its token (`AloneIsAlone`, `IssuesCurrent`).
* **WhatsAppChannel**: `ChannelInv`, and from it `AnswersComeBack` (the two lookups of the
  resolver are each other's inverse in whatever list passes the rules: a lemma about the
  operators), `OwnTimeoutFirst` (no call is still waiting after its own limit, which is below
  the engine's), `QueuedIsNotAccepted` (no two deliveries are of one attempt, and only
  the one that made the last attempt puts the message back), and `OneCallAtATime`. The last
  asks nothing of the delays: whoever is about to call has the lease as long as it lasts, and
  a call that was not late for it has the lease until after it has ended (`KeepsItsLease`), so
  of two calls at once one was late. That calls never overlap, which is what the rule of the
  boot is for, is false (`SendsDoNotOverlap`, section 5). What a process `heard` of an attempt
  is nothing, the status alone, or a whole answer: `QueuedIsNotAccepted` is about a whole
  answer, and a status alone is sent again (`SuccessIsNotRetried`, section 5).
* **WebSession**: `TabInv`, and from it `TokenBelongsToUser` and `EffectAtMostOnce`. The
  invariant is about what is under way in each of the three states of the page: while it loads
  there is nothing but the bootstrap (`LoadsFirst`), under the login form nothing but the
  sign-in and its own token (`FormIsQuiet`), and under a session everything that can replace
  the token is of the user shown (`ShownIsTheirs`), until a request outlives its session
  (`straggler`), from when on nothing is promised, and `NoTraceAfterSignOut` of section 5 is
  what happens. A request that is replayed had no effect before (`CountsItsEffect`).

* **The webhook**: `AcknowledgedTextsAreStored`, and of the run's specification
  `AcknowledgedIsStoredByServices`. A request carries an index into the events of its
  notification and a count of failures, and several requests may handle one notification.
  `WebhookInvariant` says of an index that, while nothing has failed, every event before it
  that is owed is stored or refused; a 200 is sent when the index has passed the end. The
  events of a notification are a sequence that is flattened twice, and that flattening
  yields the elements of its parts and nothing else (`FlattenSeqProperties`) is an induction
  on the length. The induction theorems of the library are about predicates; here a *set* of
  numbers takes the place of the predicate (`Induction`), and it follows from the least
  element of its complement. Of Meta, only `CustomersAreIdentified` is assumed.
* **InboxView**: `InboxInv`, and from it `ShownBelong`. Every answer under way, and what is
  on the screen, is of *one* conversation, whichever was asked for and whenever it comes
  (`OfOneConversation`); the page compares the first message with the selection, and one
  message is enough because of that.
* **DemoInbox**: `DemoInv`, and from it `AttendedIsAssigned` in every copy, for any number of
  tabs. `MirrorsTheApi` is proved of a tab that is the only one (`Tabs = {t}`), as the run
  checks it: its copy and the stored one are what the user was told last (`OnlyTabInv`).
  With two tabs each writes its whole copy back, and it is false (section 5).
* **Dashboard**: `SummaryInv`, and from it `SummaryIsCoherent`: `FunnelIsOfOneMoment` of every
  summary, whoever writes beside it, and `QuietSummaryIsExact` of those nobody wrote beside. The
  queries run one by one and others write in between: while a summary is read, its funnel is
  one of those there have been since it was asked for, and what was read while nobody wrote
  is still so (`ReadingInv`). A card has the first rows by date: that a card which is not full
  has all of them is a lemma about cardinalities (`RowsOfTheCard`).
* **CalendarEvents**: `CalendarInv`, and from it `TrailExplainsStatus`, for any number of
  transactions at once. An update carries the row it read and may write long after somebody
  completed the event; it takes the status from the row *as it is* (`Written`), so the last
  entry of the trail explains it. That needs that an event a request has read is still there
  (`RowsExistInv`: nothing deletes, and a create is of an event of its own). One transaction
  at a time (`SerialRequestsAreExact`), what the open one has read *is* the row of now
  (`OneOpenInv`), so what it admitted still holds when it writes: the interval and the one
  change of status, which section 5 refutes for two. Each serial step is shown to be a step
  of the concurrent calendar (`SerialSteps`), from which it inherits the rest.
* **AgendaView, LeadBoard, FollowUpsView**: `AgendaInv`, `BoardInv`, `TasksInv`, and from them
  `ListingsAreFresh` and `DisabledIsFreed`. A page loads again after each of its own writes, and
  a listing that was served before another write of the same page may arrive after it. The
  invariants say what a listing, served or on the screen, is of: of now, as long as every
  write the server made for this page has been answered and nobody else wrote (`FreshInv`,
  `CardsAreFresh`, `TabsAreFresh`). An answer that succeeds starts another load, so whatever
  is at rest is fresh. The three tabs of the follow-ups are asked for at one moment
  of the browser's clock and read at three of the server's: the invariant keeps that each tab is
  a page the service may answer at *some* moment since, to a request of that one moment
  (`Answers`). Nothing is asked of the two clocks (`Skew` is any integer) or of the length of a
  page, so the property does not promise that a tab is complete: section 5 has that.
  What is disabled has a request of its own kind under way, and its answer frees it.
* **CalendarEventDrawer, QuickLead**: `DrawerInv` and `QuickInv`, and from them
  `FormsAreCoherent`. The lead a form links exists, and the select has it once: a lead that was
  created is merged into a list that may have been served before or after its creation.

`PagesTypesHold`, `TrailsExplainStatuses`, `SerialRequestsStayExact`, `QuietListingsAreFresh`,
`DisabledAreFreed` and `FormsFitTheServer` state these of the specification the run checks.

The type invariants are theorems too, alone or in one with the invariant above.

Only model-checked: liveness, which is out of the prover's reach (`EventuallySettled`,
`EveryTenantIsServed`, `InboundIsAccepted`, `CallsEnd`), and the properties of section 3 that no
run lists and that the proofs above do not name (`OutboundWorker` has no proofs). Every
invariant and every action property that a passing run checks is a theorem of section 4.

No module declares a recursive operator.

## 5. Where the code and its documentation disagree

Three disagreements have a run of their own:

1. `MirrorIsExact` (`followups_exact`): the next pending follow-up is always fully
   recomputed (`modules/followups/followups.service.ts:286-290`). The read of the
   recomputation takes no lock: of two concurrent requests on one lead, the second to
   write stores what it found before the first committed.
2. `ReuseRevokes` (`auth_reuse`): a reused refresh token revokes the session
   (`apps/api/docs/auth.md:20-22`). The update and the exception that refuses the
   request are in one transaction, which the exception rolls back
   (`modules/auth/auth.service.ts:148`).
3. `ClosedIsNotAssigned` (`conversations_closed`): a closed conversation cannot be assigned
   (`modules/conversations/conversations.service.ts:130`). The write compares only the
   assignee (`:139`): a close committed after the read is overwritten.

The modules state what else a text of the code promises and the code does not keep.
TLC refutes each of these definitions as an INVARIANT or PROPERTY of an instance
like those of section 3, with the change named; no listed run checks them (`IntervalHolds`
holds of one request at a time, and is checked so by `SerialRequestsAreExact`):

| Definition | Module | What happens |
|---|---|---|
| `StateAgreesWithAssignee` | `ConversationLifecycle` | closing keeps the assignee, and reopening leaves a conversation that waits for a human and has one (`conversations.service.ts:52-53`, `:236`) |
| `ClosedIsNeverReused` | `ConversationLifecycle` | the conversation found is not locked: a message is stored in one closed meanwhile (`conversation-ingress.service.ts:181`, `:270-272`) |
| `OnlyTheOwnerCloses` | `ConversationLifecycle` | changeState writes by id, also after a transfer (`conversations.service.ts:210-213`, `:236`) |
| `NeverDriftApart` | `ContactIngress` with an agent | send sets `lastMessageAt` without comparing (`messages.service.ts:75-77`, `:111`) |
| `ClosedTakesNoAnswer` | `ContactIngress` with an agent | a close after the read of send is not seen (`messages.service.ts:83`) |
| `NoRaceSurfaces` | `ContactIngress` with an agent | a second lost race of one kind is thrown with an attempt left (`conversation-ingress.service.ts:24-26`, `:196`) |
| `SettledIsFinal` | `FollowUpMirror` | a completion and a cancellation that both read PENDING both succeed (`followups.service.ts:170`, `:184`, `:206`) |
| `TerminalIsFinal`, `IntervalHolds` | `CalendarEvents`, two requests at once | a completion and a cancellation that both read SCHEDULED both succeed, and two updates that move one end each leave an end before its start (`calendar-events.service.ts:135`, `:164`, `:178`) |
| `RotatedTokenIsRefused` | `AuthSessions` | two refreshes with one cookie both pass the comparison and both rotate (`auth.service.ts:120-121`, `:147`, `:170`) |
| `NoTraceAfterSignOut` | `WebSession` | a refresh that is answered after a sign-out stores its token (`web/lib/auth/api.ts:84`, `auth-context.tsx:57`) |
| `ExpiredMeansGone` | `WebSession` | a refresh that cannot be sent is taken for a refused one (`:31`, `:91`) |
| `SignOutLasts` | `WebSession` | a sign-out with an expired token revokes nothing (`:189`) |
| `OnePollAtATime` | `OutboundWorker`, `Restarts <- 1` | start after a stop that gave up makes a second loop (`outbound-worker.service.ts:21-23`, `:100`) |
| `SendsDoNotOverlap` | `WhatsAppChannel` | the lease runs from the claim and the timeout from the send, and nothing bounds what lies between (`env.validation.ts:163-164`, `outbound-dispatcher.service.ts:153`) |
| `SuccessIsNotRetried` | `WhatsAppChannel` | a success without a usable id is not sent again, one whose body breaks off is (`whatsapp-cloud.adapter.ts:107-112`, `:119-121`) |
| `SentToThisConversation` | `InboxView` | a reload selects another conversation under the text in the composer (`InboxView.tsx:58`, `:486`) |
| `WholeWeekIsShown` | `AgendaView` | a week is one page of 100 (`AgendaView.tsx:81-84`, `:99`) |
| `SavedAsShown` | `AgendaView` | a field that is cleared is sent as "leave it" (`CalendarEventDrawer.tsx:187`) |
| `QuickIsUsable`, `SelectedInItsForm`, `CreatedIsListed` | `QuickLead` | the quick drawer stays disabled after a success; a late answer selects its lead in another form, or is overwritten by an older list (`QuickLeadDrawer.tsx:82`, `CalendarEventDrawer.tsx:99`, `:143`) |
| `MovesToTheStageBeside` | `LeadBoard` | a card moves relative to the stage it showed (`CrmBoard.tsx:65`) |
| `ResetWhenOpened` | `LeadBoard` | a listing unmounts the open drawer (`CrmBoard.tsx:78`) |
| `AmountAsTyped` | `LeadBoard` | 1.500 is stored as 1,50, and 1.500,00 as nothing (`NewLeadDrawer.tsx:63`) |
| `OneContactPerNumber` | `LeadBoard` | a phone is stored as typed (`leads.service.ts:104`) |
| `EveryPendingIsListed` | `FollowUpsView` | three reads at three moments, or two clocks, leave a follow-up out (`FollowupsView.tsx:84-85`) |
| `CompletedIsListed` | `FollowUpsView` | a tab is one page of 50, the oldest first (`FollowupsView.tsx:63`) |
| `KeptOverReload` | `DemoInbox`, two tabs | each tab writes its whole copy back (`web/lib/demo/api.ts:181`) |
| `SaleIsOfItsMonth` | `Dashboard` | the month of a sale is that of the last write of its lead (`dashboard.service.ts:77`) |
| `AmountCountedOnce` | `Dashboard` | two queries of one summary count one lead (`dashboard.service.ts:69`) |
| `MeetingsAreToday` | `Dashboard` | all coming meetings are written as those of today (`web/app/(app)/page.tsx:150`) |

## 6. Not modelled, and why

* Row level security and the isolation of tenants: PostgreSQL's own. Every module is one
  tenant's rows (`OutboundWorker` and `WhatsAppChannel` have several tenants, by name).
* Pure functions without state: signatures, hashing, JWT encoding, the formatting of
  dates and phones. Where what they return matters it is an input.
* Reads that change nothing (lists, users, the recent activity of the dashboard) except
  where a page shows them.
* The rest of the demo (its CRM and summary), the table of leads, the team, settings and
  knowledge pages, layout and wording: static, or like a page that is modelled.
* The placeholder modules of the API (ai, audit, files, integrations, knowledge,
  tenants) are empty.
* Waiting for locks that end in a deadlock: the victim is a rollback, which every model
  of a transaction allows.

## 7. Plan

Done: the modules of section 2 and the proofs of section 4. Next, in this order:

1. `OutboundWorker` composed with the engine: a claim there is a number here; with it, a
   theorem that a poll serves the tenants of its page at most once.
2. An abstract specification of the inbound path (each provider message is stored once,
   in a conversation of its contact), implemented by `WebhookIntake` over
   `ContactIngress`, as a theorem like `EngineImplementsContract`.
3. The rest of the demo (its CRM and summary) and of the settings pages.
