# Support desk API: verification project

TLA+ models of the support desk back end (`src/src`, Express on Node.js with
Prisma/MySQL, an in-process event bus, a BullMQ worker on Redis and Socket.IO),
TLC configurations that check them on small instances, and TLAPS proofs of their
safety properties for every size of instance.

Throughout, "the ticket service" is `src/src/services/ticket.service.js`, and so
on; paths are relative to the directory that holds `src/`.

## 1. The system

| Component | State it keeps | Operations | Talks to |
|---|---|---|---|
| Database (`prisma/schema.prisma`, migrations, `config/db.js`) | rows of User, Ticket, Comment, Tag, Notification; join tables; foreign keys (`RESTRICT` from Comment and the join tables to Ticket) | one statement per Prisma call, committed on its own: the code uses no transaction | everyone |
| Ticket endpoints (`routes`, `controllers`, `services` of tickets) | locals of a handler across its awaits: the looked-up row, the written row | list, get, create, patch, delete | database; emits `ticket.created`, `ticket.assigned`, `ticket.status_changed` |
| Comment endpoints (nested under a ticket) | locals across awaits: the new comment, the recipients | list, get, create, patch, delete | database; emits `ticket.commented` |
| SLA scan (`jobs/`, `worker.js`, `escalateOverdueTickets`) | the scheduler entry and retry counters in Redis; the loop's list of overdue tickets | schedule, take a job, query, mark, emit, throw and retry | database; emits `ticket.sla_breached` in the worker process |
| Event bus (`events/emitter.js`, `events/index.js`) | three listeners per event, registered at start-up | `emit` calls each listener synchronously up to its first await | listeners |
| Listeners (in-app, e-mail, realtime) | Notification rows, mails sent, socket pushes | one handler per event each, with their own I/O and catch | database, SMTP, sockets |
| Socket rooms (`config/socket.js`) | rooms `user:<id>` and `role:<role>` a socket is in | authenticate, disconnect, push | realtime listener |
| Authentication and users (`auth` routes and controller, `user.service.js`, `utils/`) | User rows; the token is state the client keeps | register, login, authenticate | database |
| Tags | Tag rows, unique name | list, get, create, patch, delete | database |
| Rate limiter | two counters per client and window, in memory | count, refuse, forget | |
| Pipeline (`app.js`, validate, authorize, error handler) | none | a fixed sequence of middleware, errors to one handler | |
| Seed script (`prisma/seed.js`) | the ids its inserts were given | clear seven tables, insert its rows | database |

How they interact: an API process runs many requests on one event loop. A
handler is undisturbed between two awaits; at an await every other request, and
the worker process, may act. They meet only in the database rows. Events are
emitted after the write they report has been committed, in the memory of the
process that made it.

### What is hard, and what being correct means

* **Tickets.** `updateTicket` reads the row, awaits the `UPDATE`, then announces
  the *difference* between what it read and what it wrote. Correct means that
  listeners end up knowing the ticket's status and agent, that nobody announces
  what somebody else did, that only staff with the ticket in scope change it
  and that no interleaving turns into a 500. (Numbers and texts that pass the
  validators and fit no column do end in one.)
* **Comments.** Three checks (ticket visible, comment on that ticket, may be
  modified) precede a write that names the comment id alone; after the insert
  the handler goes on to resolve recipients, and must answer 201 whatever
  happens there. Correct means no orphan, no unauthorized change, and an
  announcement for every comment.
* **SLA scan.** Query, then one update and one event per row, in a job that is
  retried when it throws, put back when it stalls, and scheduled again. Correct
  means at most one escalation per ticket, a mark that is always accounted for,
  and every overdue ticket noticed in the end.
* **Listeners and sockets.** Three files each list the recipients of five events;
  rows and mails go out after `emit` has returned, pushes before. Correct means
  that the failure of one channel, or of one mail, costs nobody else theirs, that
  the channels agree on whom an event is for although breaches are emitted in a
  process without sockets, and that a browser is pushed an event once.
* **Ticket list.** A page and its total are two statements, and the next page is
  another request; the sort key has no tie-break, and `createdAt` neither follows
  the ids nor is unique (the seed backdates two of its tickets to one moment). Correct
  means that a client who pages by `createdAt` until the meta says stop has seen
  everything that stayed in the list, once, but for the rows that tie and those behind
  one that left or joined; and that the meta is right when no write fell between the
  two statements.
* **Users, tags, limiter.** Registration and tag names are decided by a unique index
  alone; a token is believed until it expires; register and login share a counter
  whose window the first request opens. Correct means tokens only
  for who knew the password, tags changed by staff only, a bound on the attempts in
  *any* span of a window's length, and no 500 that a lost race made.
* **Seed script.** Some twenty statements without a transaction, while requests and
  the listeners they set off write the same tables. Correct means that it
  can be run over any database, and that an old token never names somebody else.
* **End to end.** The last event put on the bus about a ticket's status says what the
  status is and becomes a notification of its customer, the agent a ticket is assigned
  to was told, and a resolution is told in the end. In which order notifications are
  stored is left open by the code, and so by the models.

## 2. Modules

| Module | What it is |
|---|---|
| `Store` | the tables, their types and foreign keys, `scopeForViewer`, the errors a statement can end in and `errorHandler` |
| `Tickets` | ticket requests as processes over `Store`; all properties of the ticket endpoints |
| `Comments` | comment requests, composed with `Tickets` in one API process |
| `SlaScan` | scheduler, queue and worker, composed with `Tickets` over the same tables |
| `Notify` | the three listeners of the event bus, in the API and in the worker, and the rooms of sockets |
| `Escalation` | what the SLA scan promises: one notice per ticket, one event owed for it, emitted or lost; `SlaScan` implements it |
| `TicketList` | clients that page through `GET /tickets`, composed with `Tickets` |
| `Delivery` | `Tickets` composed with an instance of `Notify`: from a request to rows and mails |
| `RateLimiter` | the two limiters' counters and windows |
| `Accounts` | register and login behind both limiters, the User table, the tokens clients hold; extends `RateLimiter` |
| `Tags` | the tag endpoints behind limiter, authenticate, authorize and validate; extends `Accounts` |
| `Reseed` | the seed script, statement by statement, against `Tags` and a customer who files tickets; extends `Tags` |
| `MCTickets`, `MCComments`, `MCSlaScan`, `MCNotify`, `MCTicketList`, `MCDelivery`, `MCAccess`, `MCReseed` | small instances for TLC |
| `TicketsProofs` | theorems about `Tickets` |
| `CommentsProofs`, `SlaScanProofs`, `TicketListProofs` | theorems about the modules of those names; extend `TicketsProofs` |
| `NotifyProofs` | theorems about `Notify` |
| `DeliveryProofs` | theorems about `Delivery`; extends `TicketsProofs` and instantiates `NotifyProofs` |
| `AccessProofs` | theorems about `RateLimiter`, `Accounts` and `Tags` |
| `ReseedProofs` | theorems about `Reseed`; extends `AccessProofs` |

`Comments`, `SlaScan`, `TicketList` and `Delivery` extend `Tickets`, so one set of
variables stands for the database and each action of the other endpoints runs
unchanged beside them. `Notify` starts where they end: from a payload on the bus. No
listener writes anything a request reads, so `Delivery` joins the two in one step
only, `EmitAndRespond`: `Tickets!Emit` and `Notify!EmitAll` of the events the diff
calls for. A crash takes both sides at once. `Reseed` has the ticket tables as
far as foreign keys go (whose a ticket is, what refers to it); the ticket
endpoints are two single steps there, because between requests and script only the
rows matter. The in-app listener of a new ticket goes on afterwards, in the steps
`FindAgents`, `InsertNotifications` and `ListenerFails`: its rows may come long after the
ticket, when the script has already cleared their table.

### Correspondence with the code

Rows keep the columns on which some decision depends: a ticket its customer,
assignee, status and whether `slaBreachedAt` is set; a comment its ticket, its
author and whether its body is still the one first written. A table is a
function from the ids that exist to rows; ids come from a counter as
`AUTO_INCREMENT` hands them out and are never reused.

A request is a process whose place (`pc`, `cpc`) names the await it is at:

| Place | The handler is waiting for | Step | Code |
|---|---|---|---|
| `idle` | a request | `Receive` | route table, authenticate, validate, authorize |
| `lookup` | `getTicketById(id, req.user)` | `Lookup` | ticket controller 28-55 |
| `create` | `prisma.ticket.create` | `CreateRow` | ticket service 65-71 |
| `patch` | `prisma.ticket.update` | `PatchRow` | ticket controller 43-59, ticket service 81-94 |
| `emit` | the committed write's answer | `Emit` | ticket service 73-107 |
| `delete` | `prisma.ticket.delete` | `DeleteRow` | ticket controller 61-70 |

`call` is the request, `previous` the controller's `existing`, `updated` the row
the service got back. The comment places are `ticket`, `list`, `comment`,
`patch`, `delete`, `create`, `watchers` (the ticket lookup after the insert) and
`users` (the recipients lookup). A worker is `idle`, in its `query`, at the
`mark` update of the loop, or about to `emit`.

A write that is followed by events commits in one step and is answered in the
next, so anything may happen between commit and events. A delete, and an edit
of a comment, do nothing after their write and commit and answer in one step;
the case of a committed write whose answer is lost is a disjunct of `QueryFails`
and `CQueryFails`.

`Respond` and `CRespond` clear the request's locals. `asyncHandler` maps an error
through `errorHandler`: 403 and 404 for the `ApiError`s, 409 for P2002 and P2003,
404 for P2025, and 500 for everything else (P2000, a value out of range, a lost
connection, a TypeError). `TooBig` is a positive integer the validators let through
and no column holds, nor 64 bits: it may be the id of a ticket, comment or tag in a URL,
or the assignee of a PATCH, and Prisma answers it with `OutOfRange`.

In `Notify`, an event is a record of the payload's columns the listeners use, and
`EmitAll` is the synchronous part of the one or two `emit()`s of a handler: the pushes are done, and each await of
the two asynchronous listeners becomes a task, named by its step:

| Task | The listener is waiting for | Steps | Code |
|---|---|---|---|
| `findUsers` | `prisma.user.findMany` | `FindUsers`, `TaskFails` | in-app listener 13, 115 |
| `createRows` | `prisma.notification.create` or `createMany` | `Delivered`, `RowsRefused`, `TaskFails` | in-app listener 18, 45, 71, 86, 105, 116 |
| `sendMail` | one `mailer.sendMail`, one task for each recipient | `Delivered`, `TaskFails` | e-mail listener 12, 29, 50, 68, 88 |

`Process` says on which process's bus an event is: breaches on the worker's, where
`getIO()` is undefined. `Authenticate`, `Disconnect` and `Crash` change the rooms of
sockets. Ghosts: `identities` are the users a connection has presented a token of,
`failures` the tasks that ended in a catch, `lost` the events of which a crash took
tasks away.

A reader of `TicketList` is `idle`, in its two `queries` (answered in either
order), about to ask for the `next` page, or `done` because the meta said so. A
listing is any order of the matching rows that respects the sort key: rows that tie
come in another order each time, as MySQL leaves them. `createdAt` gives every ticket,
those to come included, the moment it is created; it is chosen at first from
`CreatedAts` and does not change. Its ghost `history` records what the client has been
shown, and which tickets `left` and `joined` the list it wants meanwhile.

In `Accounts` a request to `/auth` waits to `create` (after hashing), to `find`, to
`compare` (bcrypt), or to `sign` (a registration whose row is committed); `row` is
the user the handler holds, as its statement returned it. A token is a record of
its claims and of the e-mail it was given for, which is ghost. In `Tags`, `bearer` is the
token a request came with. `verifyPassword` compares through `HashOf`, under which
passwords that agree in bcrypt's 72 bytes are one. In `Reseed`, `step` is the
statement the script is at, in `Script`, `made` the ids it was given and `refused` which
of the creates it sent together were refused: the others may still commit before the
script ends. `telling` are the listeners of `ticket.created` at work, and the ghost
`meddled` says that a request or a listener wrote to a table the script had already
cleared.

Abstractions: subject, description and comment bodies are one Boolean `fits`
(the text fits its column, which is smaller than what the validators accept);
time is the action `Age` in `SlaScan`, by which a ticket's `createdAt` falls behind the
cutoff, and a clock in `RateLimiter`; in the modules about tickets users are
constants, because no endpoint removes one or changes a role, the viewer a token
names is taken as given, the general limiter is left out, and tags and watchers of
a ticket are constant join rows; e-mails and tag names are told apart as the
columns' collation does; `BullMQ`, `express-rate-limit`
and bcrypt are modelled from how the code uses them.

Two ghost variables of `Tickets` record history: `announced[id]` is what the
listeners were last told of a ticket's status and agent, and `disturbed` the
tickets about which one must expect wrong or missing announcements: those a
request wrote when the row was no longer the one it had read, or when another
announcement was outstanding, and those whose events a crash or a lost answer
took away. `SlaScan` counts `escalations` and keeps the `silenced` tickets, whose
event was lost with a crash or an answer; `Comments` keeps the comments `told`.

## 3. What is checked

| Run | Properties | What it shows |
|---|---|---|
| `tickets_writers` | `AnnouncementsKeepUp`, `OwnAnnouncementsOnly`, `ChangesAreAuthorized` | two requests assign, re-assign, un-assign, move, patch and delete one ticket, with a crash: on every undisturbed ticket the diff loses nothing and takes nobody else's change for its own |
| `tickets_lifecycle` | `TypeOK`, `InternalErrorsExplained`, `Answered` | every operation on up to three tickets, one with a comment, with texts and numbers no column holds, a crash and a failing call |
| `comments` | `CommentTypeOK`, `NoOrphanComments`, `EveryCommentTold`, `CommentChangesAuthorized`, `CommittedMeansCreated`, `CommentsAnswered` | two comment requests of every kind against the deletion of their ticket, with a crash and a failing call |
| `slascan` | `SlaTypeOK`, `EscalatedAtMostOnce`, `MarkedMeansAnnounced`, `OverdueIsNoticed`, `EscalationKeepsPromise` | one worker against requests that resolve and re-open one ticket and delete both, with retries, a stalled job, crashes and a failing call; an overdue ticket is marked (or stops being overdue) in the end; seen from outside all of this implements `Escalation`, fairness included |
| `notify` | `NotifyTypeOK`, `ChannelsIsolated`, `ChannelsAgree`, `PushedOnce` | any two events, of every kind, with a failing call, a crash of either process and a socket that authenticates as anybody, several times: no channel and no mail is hit by another's failure, everybody mailed or pushed an event finds a notification, nobody is pushed one twice |
| `ticket_list` | `ListTypeOK`, `WalkMissesNothing`, `WalkRepeatsNothing`, `PageAndTotalAgree` | an agent's and an admin's walk through the pages while tickets are created, assigned into and out of the agent's scope and closed, with a crash and a failing call, once for each of two ways the tickets' `createdAt` may lie: against the ids, and with a tie |
| `limits` | `AuthAttemptsBounded`, `LockedOutOnlyWhenSpent`, `TagsChangedByStaff` | one client over two windows with a restart: less than twice the limit in any span of a window (and once more per restart), nobody locked out who has not spent it; no chain of registrations, logins and expiring tokens lets anybody but the first staff change a tag |
| `access` | `AccessErrorsExplained` | two requests to `/auth` and two to `/tags` race, with a failing call: no 500 but from a failing database, an e-mail longer than its column or a tag id beyond 64 bits |
| `reseed` | `SeedTypeOK`, `TokensNameTheirHolder`, `SafeToRerun`, `TokensAreEarned` | the script against logins, registrations, tags, tickets and their listeners, over a used database and over one an aborted run left: foreign keys hold at every statement, a token names its holder or nobody, a login that straddles the script earns no wrong token, and the script ends with its own rows or was meddled with |
| `delivery` | `LastStatusReachesCustomer`, `AgentNotified`, `NoTransitionToldTwice`, `TicketsFeedNotify`, `ResolutionArrives` | two requests assign, move and open tickets while the listeners work, with a lost query or answer of either, or a crash: on undisturbed tickets the last event says what the row says and becomes a notification (or went down in a catch or a crash), once per transition; once the `UPDATE` has made a ticket resolved, the event of that very request is a notification in the end, or failed in the in-app listener, or the process died, or the answer of the `UPDATE` was lost and the client got a 500 and no event; `Tickets` keeps to what `Notify` assumes |

Two runs check what a comment says and the code does not do; TLC finds each one
violated:

| Run | Property | What happens |
|---|---|---|
| `tickets_spurious` | `OnlyGenuineAnnouncements` | a PATCH of the subject announces an assignment another request made between its read and its write |
| `tickets_long_subject` | `NoInternalError` | a subject of 192 to 200 characters passes validation and ends in a 500 |

Further places where the code does less than a comment or a page says, known from
the models and visible in what the properties above have to leave out, without a
run of their own:

* an id beyond 64 bits, or an assignee beyond the INT column, passes validation
  (`z.coerce.number().int().positive()` in the validators of tickets, comments and tags)
  and ends in a 500 as well (`TooBig` in `InternalErrorsExplained` and
  `AccessErrorsExplained`);
* two overlapping PATCHes can leave a status that listeners were never told of
  (`disturbed`), and an agent's PATCH commits after the ticket has left that agent's
  scope: `ChangesAreAuthorized` is about the scope at the lookup;
* a comment on a ticket deleted a moment ago gets a 409 about dependent records
  instead of the ticket's 404 (comment controller 4-7);
* one ticket deleted after the scan's query makes the scan drop the others it
  found, to be picked up by the retry or the next scan, as `OverdueIsNoticed` shows;
* the breach of an unassigned ticket is pushed to no admin, because the worker has no
  sockets (e-mail listener 82-83);
* the list's meta may promise a page that is no longer there, or miss one that has
  just come, when a write falls between the two statements (`still` in
  `PageAndTotalAgree`);
* rows that share their `createdAt` may fall between two pages or appear on both, like a
  row behind one that leaves, or is shown again when another joins in front (`Stayed`,
  `Alone`);
* an `UPDATE` whose answer is lost is announced to nobody, and a retry of the request
  finds no difference any more (the 500 in `ResolutionArrives`);
* a socket that authenticates again stays in its earlier rooms (`identities` in
  `ChannelsAgree` and `PushedOnce`);
* the seed script is not "safe to re-run as often as you like" (its line 11) while
  requests write to the tables it has cleared, or while the listener of a ticket filed
  earlier still has its notifications to insert (`meddled` in `SafeToRerun`).

### Bounds and why they suffice

* Two requests at a time on one ticket (`tickets_writers`): every hazard of the
  endpoints is between what one request read and what one other did since. The
  writers' bodies contain each kind of change: two agents, un-assigning, two
  statuses, no change. Proved without the bound (section 4).
* Three tickets, two seeded and one created (`tickets_lifecycle`); one of them has
  a comment and cannot be deleted. `MaxTickets` and `MaxComments` bound the ids
  handed out; a create is only received when it will find one (`RoomForTicket`,
  `RoomForComment`).
* One failing call (`MaxFaults`) and one crash (`MaxCrashes`, `MaxWorkerCrashes`):
  every request can meet either at every place.
* Two comment requests and the deleting ticket request: an insert, an edit or a
  removal between any two steps of a create.
* Two tickets and one already marked, one worker and up to three attempts for the scan, the values of
  `docker-compose.yml` (one worker service, concurrency 1) and
  `slaScan.queue.js` (`attempts: 3`). With a second
  worker `EscalatedAtMostOnce` does not hold: both may query before either marks.
* Two events (`notify`), because events meet only in what a crash or failure of
  one does to the other; their payloads have every kind of event, a comment
  with two recipients and with none, a breach with and without an agent, and a
  subject too long for a notification's message. One socket, because sockets do
  not meet at all; it may present the tokens of four users.

* One client walks (`ticket_list`), because readers do not meet; page sizes 1 and 2
  over three tickets and one more to be created give walks of up to four pages.
  Their `createdAt` is one of two: an old ticket under a low id and two backdated to one
  moment under higher ids, as the seed stores them; or three moments against the order
  of the ids, the new ticket in the millisecond of an old one.
* Limits of 2 and 4 and windows of 2 over three ticks (`limits`): spans of a window
  lie across two windows of the limiter, and either limiter is exhausted. The
  instances that are not about limits have windows of length 0, which are over
  before they can fill, and no clock. The ghost `admitted` remembers the requests
  let through within a window's length of the last of them.
* Two requests of either kind (`access`), since what they race for (an e-mail, a name,
  a tag) is taken by one other request. Clients keep the last token of an account, the
  one that expires last.
* One run of the script (`reseed`), over a database in which each table has a row, or
  over the parents an aborted run left; a second run would begin in such a state
  again. A customer and an agent, and one ticket, stand for the script's four of each.
* Four events (`delivery`), reserved two at a time before a request is received: two
  PATCHes that each assign and move, or PATCHes and a new ticket, whose subject no
  message has room for. One mishap (`MaxMishaps`): a failed call of a request at any of its
  places, or of a listener, or a crash; what two of them take away is what either does.
  `ResolutionArrives` is asked of the first two transitions of each request process.
* `TooBig` is one value: all that fits no column is refused alike.

Symmetry is used where requests are interchangeable and no liveness is checked.

### Fairness

`Fairness` and `CommentFairness` are weak fairness of a handler's next step: the
event loop resumes a handler whose await has settled, and every Prisma call
settles, by an answer or an error. Nobody is obliged to send a request, to fail or
to crash. `SlaFairness` adds that the API is started at some time
(`scheduleSlaScan`) and that a worker that is up takes due jobs; the worker is
restarted by `restart: unless-stopped`. `OverdueIsNoticed` needs no more: re-opening
and resolving tickets for ever, or a bounded number of failures, do not defeat it.
`EscalationKeepsPromise` derives the fairness of `Escalation`, that a debt is settled,
from the same assumptions. `DeliveryFairness` says that a handler whose write has
returned emits, and that the listeners' awaits settle.

## 4. What is proved

Every safety property that a passing run checks is also a theorem, for every set
of users, requests, calls, clients and events, every number of tickets, comments
and accounts, every page size, limit and window, and any number of faults and
crashes. Each is proved in the same way: a named inductive invariant holds at first and
is kept by every action (one lemma for each action, whose steps share lemmas for what
several actions have in common, such as answering a request), it was checked by
TLC on a small instance before, and the property follows from it, or, for an
action property, from it and one step.

| Module | Theorem | States |
|---|---|---|
| `TicketsProofs` | `TypeCorrect` | `TypeOK` |
| | `AnnouncementsCorrect` | `AnnouncementsKeepUp` |
| | `OwnAnnouncements` | `OwnAnnouncementsOnly` |
| | `ChangesAuthorized` | `ChangesAreAuthorized` |
| | `InternalErrors` | `InternalErrorsExplained` |
| `CommentsProofs` | `CommentTypeCorrect` | `CommentTypeOK` |
| | `NoOrphans` | `NoOrphanComments` |
| | `CommentsTold` | `EveryCommentTold` |
| | `CommentsAuthorized` | `CommentChangesAuthorized` |
| | `CreatedAnswered` | `CommittedMeansCreated` |
| `SlaScanProofs` | `SlaTypeCorrect` | `SlaTypeOK` |
| | `MarksAccounted` | `MarkedMeansAnnounced`, for any number of workers |
| | `AnnouncementsBesideScan` | `AnnouncementsKeepUp`, with the scan writing the same rows |
| | `EscalatedOnce` | `EscalatedAtMostOnce`, for one worker |
| | `EscalationRefined` | `Promise!SafeSpec`: the safety of `Escalation`, for one worker |
| `TicketListProofs` | `ListTypeCorrect` | `ListTypeOK` |
| | `PageMeetsTotal` | `PageAndTotalAgree` |
| | `NothingRepeated` | `WalkRepeatsNothing` |
| | `NothingMissed` | `WalkMissesNothing` |
| `NotifyProofs` | `NotifyTypeCorrect` | `NotifyTypeOK` |
| | `Isolation` | `ChannelsIsolated` |
| | `Agreement` | `ChannelsAgree` |
| | `NoDoublePush` | `PushedOnce` |
| `DeliveryProofs` | `CustomerTold` | `LastStatusReachesCustomer` |
| | `AgentTold` | `AgentNotified` |
| | `ToldOnce` | `NoTransitionToldTwice` |
| | `NotifyFed` | `TicketsFeedNotify` |
| | `ListenersIsolated` | `ChannelsIsolated` behind the ticket endpoints, from `NotifyFed` and `Isolation` |
| `AccessProofs` | `AccessTypeCorrect` | `AccessTypeOK` |
| | `TokensEarned` | `TokensAreEarned` |
| | `TagsByStaff` | `TagsChangedByStaff` |
| | `AccessErrors` | `AccessErrorsExplained` |
| | `AttemptsBounded` | `AuthAttemptsBounded` |
| | `LockedOutWhenSpent` | `LockedOutOnlyWhenSpent` |
| `ReseedProofs` | `SeedTypeCorrect` | `SeedTypeOK` |
| | `TokensNameHolder` | `TokensNameTheirHolder` |
| | `RerunIsSafe` | `SafeToRerun` |
| | `SeedTokensEarned` | `TokensAreEarned`, with the script beside the requests |

### Assumptions

The theorems assume what the modules name, and no more; TLC evaluates each assumption
in every run of its module.

* `UserAssumption`, `SeedAssumption`, `CallAssumption` (`Store`, `Tickets`): roles
  are disjoint, `Null` and `Strangers` are no users, the initial tables are well-typed
  and numbered from 1, comments refer to tickets, calls are well-typed, requests are
  finite in number, and `TooBig` is no number a column holds.
* `CommentCallAssumption`: a comment id comes with the calls whose route has one.
* `ScanAssumption`: attempts are positive, the workers are finite in number.
* `ListAssumption`: queries are well-typed and `createdAt` is a number, any number, for
  every ticket.
* `EventAssumption`: roles are disjoint, events are well-typed, a new ticket has no
  agent and an assignment has one. `DeliveryAssumption`: seeded tickets belong to
  customers. `NotifyFed` shows that the ticket endpoints meet the first.
* `LimiterAssumption`, `AccountsAssumption`, `TagsAssumption`: limits are positive,
  the initial accounts and tags are numbered from 1 and unique, as their indexes
  make them, and a valid body names a tag.
* `SeedScriptAssumption`: the script's users have different e-mails, among them its
  customer and its agent.

`EscalatedOnce` and `EscalationRefined` also have the hypothesis `OneWorker`, stated
in them: `docker-compose.yml` runs one worker service and `worker.js` leaves BullMQ's
concurrency at 1. Without it both are false (section 3).

### The inductive invariants

None of the properties is inductive alone, except the typing of some modules.

**Tickets**, `IInv`:

* `AllCarried`: what a request carries fits its place. A request waiting to patch
  or delete passed the role check, and the row it looked up was in its scope; a
  request waiting to emit is about an id that was handed out.
* `RoomLeft`: creates in flight have ids left; needed for the typing of new rows.
* `OnePending`: on an undisturbed ticket at most one announcement is outstanding.
* `PendingIsCurrent`: that announcement is of what the row says *now*, and, for a
  PATCH, listeners know what the row said *before* it, which is what the request
  had read. This is why announcing the difference is enough, and the ghost
  `disturbed` is what it takes to make it inductive: `PatchRowStep` is exactly
  the argument that a write outside `disturbed` met the row it had read with
  nothing outstanding.

**Comments**, `CInv`: `IInv`, and `AllCCarried`. What matters there is `Granted`: if the
comment a request is about to write still exists, it is on the ticket of the URL and
the viewer's to change. It survives everything others do, because no statement moves a
comment to another ticket or author and no id is given twice (`CommentsKept`); so a
write that names the id alone is authorized.

**SLA scan**, `SlaInv`: with what a worker holds at each place (`Held`) and that ids not
handed out have no history (`HandedOut`), the marks account for themselves. `OnceInv`
adds `ListsAreFresh`: the list of a worker holds no ticket that was ever noticed, but
the one just marked. This is where a second worker breaks it: its list was fresh when
it was read. `EscalationRefined` maps each step to a notice, an emission, a loss or a
stutter of `Escalation`, and uses `OnceInv` at the mark: the ticket had not been
noticed.

**Ticket list**, `LInv`, for each client: `Rank` is where a ticket stands in the wanted
list, `Taken` how many rows the pages so far took. `ShownFirst` says that what was
shown stands among the rows taken, `RestComes` that what was there from the start and
was not shown stands behind them. A walk by `createdAt` keeps both for each ticket that
is alone in its millisecond, as long as none joins (or, for the other theorem, leaves) in
front of it: its rank cannot change, because no `createdAt` does, and a page shows just
the ranks from `Taken` to `Taken + pageSize` (`SortedRank`). `Met` says that the tickets a
page can show are among those the properties compare it with. `HalvesAgree` joins the
two statements of a page: the half that was answered speaks of the set the other half
will see; `CeilOfPages` is the arithmetic of `Math.ceil`.

**Listeners**, `NInv`: every task, running or failed, is one its event asked for
(`TasksAskedFor`), sockets are in rooms of users they have spoken for (`RoomsEarned`)
and are pushed only what one of these is to have a row for (`PushesEarned`). The lists
of recipients enter by two lemmas, `PushIsRow` and `OnePushEach`: a push goes to somebody
who gets a row, and no user is in two of the rooms an event is pushed to.

**End to end**, `DInv`: `IInv`; `BusOK` (each event carries the columns of the row it is
about); `CustomersKept` (a ticket never changes its customer, in the row, in a handler
and on the bus); `SolePending` and `StatusKnown` (`OnePending` and `PendingIsCurrent`
again, for tickets that were deleted too); `LastStatus` and `LastAgent` (what
`Tickets` says the listeners were last told is what the last event says). `NotifyFed`
is a refinement: a step of `Tickets` that emits is an `EmitAll` of `Notify` with a
burst it allows, and every other one a step of the listeners or nothing.

**Accounts, tags, limiter**, `AccessInv`, `StaffInv` and `LimiterInv`:

* `AllACarried`, `AllTCarried`, `UsersFresh` and `TagsFresh` say what requests
  carry and that no id is given twice; `TokensHeld` that a token names the account it
  was signed for, or nobody. Unique e-mails and names, which the indexes give, are
  parts of the invariant that the others need, and no theorems of their own. From these
  follow earned tokens and explained errors. `StaffInv` follows the chain from the seeded staff over
  their rows to tokens and bearers: nobody else comes by a staff role.
* `LimiterInv` is about what the counter of one client, which is one number and one time,
  says of the requests the client was let through. `FewSince`: after the instant the
  window opened come at most `hits - 1` of them, since the first opened it; it holds
  on when the window is over, which is when the span that is asked about has just that
  length. `FewRecent`: the span reaches into the window before and, for
  each restart, into those of a process whose counters are forgotten. `AllSpent`: what an
  open window counts, up to the limit, was let through, so that refusals spend nothing.
  `Numbered` keeps two requests at one tick apart, and `BudgetNumbers` has the
  arithmetic.

**Seed script**, `SeedInv`: `AccessInv`, and for each statement what has been cleared
(`ChildrenCleared`), made (`MadeRecorded`, `MadeStand`, `ChildrenMade`) and left of the
ids. `Unmeddled` has the rest: the tables that requests write too hold just the script's
rows unless somebody meddled, a listener of an earlier ticket included. `UsersKept` is what statements of the script and of
requests have in common, and why all of `AccessInv` holds on beside the script.

### What is only model-checked

Liveness: `Answered`, `CommentsAnswered`, `OverdueIsNoticed`, `ResolutionArrives`, and
the fairness part of `EscalationKeepsPromise`. They rest on fairness and are out of the
prover's reach. The two properties that TLC refutes have no theorem either.

## 5. What is left

Nothing of the plan is left unmodelled or unproved. A second scan worker would need
another statement than `EscalatedAtMostOnce`, which it breaks; so would the tickets the
properties leave out by name (`disturbed`, `lost`), of which the code promises nothing.

Not modelled: configuration and start-up, which keep no state that changes; the
shape of responses and validation messages; headers, logging, body parsing and
unmatched routes; `findUserById`, which nothing calls; the sort keys `updatedAt` and
`subject` of the list, which behave as `status` does, a key with ties that
writes can change; a `page` so high that the rows to skip fit no integer; the general limiter in front of tickets and comments, where it
only refuses.
