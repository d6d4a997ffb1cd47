------------------------------ MODULE Tickets ------------------------------
(***************************************************************************)
(* The ticket endpoints: routes/ticket.routes.js, the ticket controller    *)
(* and the ticket service up to the events they put on the domain bus.     *)
(*                                                                         *)
(* An API process serves several requests at a time on one event loop: a   *)
(* handler runs undisturbed between two awaits and anything may happen at  *)
(* an await.  So a request is a process whose steps end at its awaits:     *)
(*    receive -> look the ticket up -> write the row -> emit and respond.  *)
(* What a request reads before an await is kept in its own state and used  *)
(* after it; that gap is what the properties below are about.              *)
(***************************************************************************)
EXTENDS Store

CONSTANTS
  Requests,     \* the requests one API process has in flight
  TicketCalls,  \* bound: the calls clients make (a subset of TicketCall)
  Undefined,    \* a field absent from a request body
  MaxCrashes    \* bound: crashes of the API process

VARIABLES
  pc,         \* where each request is
  call,       \* what each request asks for
  previous,   \* the row its lookup returned (controller's `existing`)
  updated,    \* the row its write returned (service's `ticket`)
  reply,      \* the HTTP status it ended with
  crashes,
  announced,  \* ghost: what listeners were last told of each ticket
  disturbed   \* ghost: tickets whose announcements may be incomplete

requestVars == <<pc, call, previous, updated, reply>>
ghosts == <<announced, disturbed>>
mishaps == <<crashes, faults>>
vars == <<tables, requestVars, mishaps, ghosts>>
-----------------------------------------------------------------------------
\* The body of a PATCH; its other fields (subject, description) are left
\* out, so a body with both fields absent stands for one that changes those.
Changes == [status : TicketStatus \cup {Undefined},
            assignedAgentId : User \cup Strangers \cup {Null, Undefined, TooBig}]
NoChanges == [status |-> Undefined, assignedAgentId |-> Undefined]

\* `fits`: every text of the body fits its column.  The validators accept more:
\* a subject of 200 characters for a VARCHAR(191), any description for a TEXT.
\* Nor do they bound the id of the URL or the assignee: both may be TooBig.
TicketCall == [op : {"create", "get", "patch", "delete"}, viewer : User,
               id : TicketIds \cup {Null, TooBig}, changes : Changes, fits : BOOLEAN]

ASSUME CallAssumption ==
  /\ TicketCalls \subseteq TicketCall
  /\ \A c \in TicketCalls : (c.op = "create") <=> (c.id = Null)
  /\ Null \notin Nat /\ Null \notin TicketCall /\ Null \notin Ticket
  /\ Undefined \notin {Null, TooBig}
  /\ Undefined \notin TicketStatus \cup User \cup Strangers
  /\ Requests # {} /\ IsFiniteSet(Requests) /\ MaxCrashes \in Nat

\* The columns whose changes are announced.
Facts(ticket) == [status |-> ticket.status,
                  assignedAgentId |-> ticket.assignedAgentId]
Fact == [status : TicketStatus \cup {Null}, assignedAgentId : User \cup {Null}]
Unheard == [status |-> Null, assignedAgentId |-> Null]

TypeOK ==
  /\ StoreTypeOK
  /\ pc \in [Requests -> {"idle", "lookup", "create", "patch", "delete", "emit"}]
  /\ call \in [Requests -> TicketCall \cup {Null}]
  /\ previous \in [Requests -> Ticket \cup {Null}]
  /\ updated \in [Requests -> Ticket \cup {Null}]
  /\ reply \in [Requests -> {200, 201, 204, 403, 404, 409, 500, Null}]
  /\ crashes \in 0..MaxCrashes
  /\ announced \in [TicketIds -> Fact]
  /\ disturbed \subseteq TicketIds

Nothing == [r \in Requests |-> Null]

Init ==
  /\ StoreInit
  /\ pc = [r \in Requests |-> "idle"]
  /\ call = Nothing /\ previous = Nothing /\ updated = Nothing /\ reply = Nothing
  /\ crashes = 0
  /\ announced = [id \in TicketIds |->
       IF id \in DOMAIN SeedTickets THEN Facts(SeedTickets[id]) ELSE Unheard]
  /\ disturbed = {}
-----------------------------------------------------------------------------
\* The response goes out and the request's local state is gone.
Respond(r, status) ==
  /\ pc' = [pc EXCEPT ![r] = "idle"]
  /\ reply' = [reply EXCEPT ![r] = status]
  /\ call' = [call EXCEPT ![r] = Null]
  /\ previous' = [previous EXCEPT ![r] = Null]
  /\ updated' = [updated EXCEPT ![r] = Null]

\* Mutant: the wrapper without its .catch(next), nobody ever responds.
UnhandledRejection(r, err) == UNCHANGED requestVars

\* A handler that throws or rejects is forwarded to the error handler.
asyncHandler(r, err) == Respond(r, errorHandler(err))

\* Mutant: PATCH and DELETE without the role check.
authorizeAnyone(op) == IF op = "create" THEN Customers ELSE User

\* The roles each route lets through.
authorize(op) == CASE op = "create" -> Customers
                   [] op = "get" -> User
                   [] OTHER -> Agents \cup Admins

\* Bound: every create in flight will find an id to take.
RoomForTicket ==
  nextTicketId + Cardinality({r \in Requests : pc[r] = "create"}) <= MaxTickets

\* A request arrives, authenticated and valid, and meets the role check; a
\* create goes straight to its insert, the rest look the ticket up first.
Receive(r) == \E c \in TicketCalls :
  /\ pc[r] = "idle"
  /\ c.op = "create" => RoomForTicket
  /\ \/ /\ c.viewer \notin authorize(c.op)
        /\ asyncHandler(r, "Forbidden")
     \/ /\ c.viewer \in authorize(c.op)
        /\ pc' = [pc EXCEPT ![r] = IF c.op = "create" THEN "create" ELSE "lookup"]
        /\ call' = [call EXCEPT ![r] = c]
        /\ reply' = [reply EXCEPT ![r] = Null]
        /\ UNCHANGED <<previous, updated>>
  /\ UNCHANGED <<tables, mishaps, ghosts>>

\* getTicketById(id, req.user) answers, or Prisma refuses the id.
Lookup(r) ==
  /\ pc[r] = "lookup"
  /\ LET c == call[r] IN
     \/ /\ c.id = TooBig
        /\ asyncHandler(r, "OutOfRange")
     \/ /\ c.id # TooBig /\ ~Visible(c.id, c.viewer)
        /\ asyncHandler(r, "NotFound")
     \/ /\ Visible(c.id, c.viewer) /\ c.op = "get"
        /\ Respond(r, 200)
     \/ /\ Visible(c.id, c.viewer) /\ c.op # "get"
        /\ pc' = [pc EXCEPT ![r] = c.op]
        /\ previous' = [previous EXCEPT ![r] = tickets[c.id]]
        /\ UNCHANGED <<call, updated, reply>>
  /\ UNCHANGED <<tables, mishaps, ghosts>>

\* The row createTicket inserts for a customer.
NewTicket(customer) == [customerId |-> customer, assignedAgentId |-> Null,
                        status |-> "open", breached |-> FALSE]

\* prisma.ticket.create commits and the database hands out the id, or a text is
\* too long for its column (P2000).
CreateRow(r) ==
  /\ pc[r] = "create"
  /\ \/ /\ ~call[r].fits
        /\ asyncHandler(r, "P2000")
        /\ UNCHANGED <<tickets, nextTicketId>>
     \/ /\ call[r].fits
        /\ tickets' = Insert(tickets, nextTicketId, NewTicket(call[r].viewer))
        /\ nextTicketId' = nextTicketId + 1
        /\ updated' = [updated EXCEPT ![r] = NewTicket(call[r].viewer)]
        /\ call' = [call EXCEPT ![r].id = nextTicketId]
        /\ pc' = [pc EXCEPT ![r] = "emit"]
        /\ UNCHANGED <<previous, reply>>
  /\ UNCHANGED <<comments, nextCommentId, mishaps, ghosts>>

\* Mutant: an absent field is written too, as undefined.
PatchedBlindly(ticket, changes) ==
  [ticket EXCEPT !.status = changes.status,
                 !.assignedAgentId = changes.assignedAgentId]

\* Mutant: re-opening a ticket gives it a fresh SLA.
PatchedAfresh(ticket, changes) ==
  [ticket EXCEPT
     !.status = IF changes.status = Undefined THEN @ ELSE changes.status,
     !.breached = @ /\ changes.status # "open",
     !.assignedAgentId =
        IF changes.assignedAgentId = Undefined THEN @ ELSE changes.assignedAgentId]

\* The row an UPDATE leaves: only the fields of the body change.
Patched(ticket, changes) ==
  [ticket EXCEPT
     !.status = IF changes.status = Undefined THEN @ ELSE changes.status,
     !.assignedAgentId =
        IF changes.assignedAgentId = Undefined THEN @ ELSE changes.assignedAgentId]

\* Some other request has committed a write and not yet announced it.
AnnouncementPending(id, others) ==
  \E q \in others : pc[q] = "emit" /\ call[q].id = id

\* What may make the UPDATE fail: a row that is gone, a number or a text that
\* does not fit its column, an assignee that is no user.
PatchErrors(c) ==
  LET here == c.id \in DOMAIN tickets
      assignee == c.changes.assignedAgentId
  IN       {e \in {"P2025"} : ~here}
      \cup {e \in {"OutOfRange"} : assignee = TooBig}
      \cup {e \in {"P2000"} : here /\ ~c.fits}
      \cup {e \in {"P2003"} : here /\ c.fits /\ assignee \in Strangers}

\* prisma.ticket.update commits or fails.  Its where-clause is the id alone.
PatchRow(r) ==
  /\ pc[r] = "patch"
  /\ LET id == call[r].id
     IN \/ /\ \E error \in PatchErrors(call[r]) : asyncHandler(r, error)
           /\ UNCHANGED <<tickets, disturbed>>
        \/ /\ PatchErrors(call[r]) = {}
           /\ tickets' = [tickets EXCEPT ![id] = Patched(@, call[r].changes)]
           /\ updated' = [updated EXCEPT ![r] = Patched(tickets[id], call[r].changes)]
           /\ pc' = [pc EXCEPT ![r] = "emit"]
           /\ disturbed' = IF \/ Facts(tickets[id]) # Facts(previous[r])
                              \/ AnnouncementPending(id, Requests \ {r})
                           THEN disturbed \cup {id} ELSE disturbed
           /\ UNCHANGED <<call, previous, reply>>
  /\ UNCHANGED <<nextTicketId, comments, nextCommentId, mishaps, announced>>

\* Mutants: a re-assignment does not count; re-saving the same agent counts.
firstAssigned(old, new) ==
  new.assignedAgentId # Null /\ old.assignedAgentId = Null
assignedAtAll(old, new) == new.assignedAgentId # Null

\* The two conditions of updateTicket, on what it read and what it wrote.
newlyAssigned(old, new) ==
  new.assignedAgentId # Null /\ new.assignedAgentId # old.assignedAgentId
statusChanged(old, new) == new.status # old.status

\* What listeners know of a ticket after updateTicket's events.
Told(known, old, new) ==
  [known EXCEPT
     !.status = IF statusChanged(old, new) THEN new.status ELSE @,
     !.assignedAgentId = IF newlyAssigned(old, new) THEN new.assignedAgentId ELSE @]

\* The handler resumes after its write: ticket.created, or the events the
\* difference calls for; emit() calls every listener at once, then it responds.
Emit(r) ==
  /\ pc[r] = "emit"
  /\ LET id == call[r].id IN
     \/ /\ call[r].op = "create"
        /\ announced' = [announced EXCEPT ![id] = Facts(updated[r])]
        /\ Respond(r, 201)
     \/ /\ call[r].op = "patch"
        /\ announced' = [announced EXCEPT ![id] = Told(@, previous[r], updated[r])]
        /\ Respond(r, 200)
  /\ UNCHANGED <<tables, mishaps, disturbed>>

\* The DELETE statement, when nothing refers to the row.
DeleteCommits(id) ==
  /\ id \in DOMAIN tickets /\ ~HasDependents(id)
  /\ tickets' = Delete(tickets, id)

\* prisma.ticket.delete commits or fails; no event follows a delete.
DeleteRow(r) ==
  /\ pc[r] = "delete"
  /\ LET id == call[r].id IN
     \/ /\ id \notin DOMAIN tickets
        /\ asyncHandler(r, "P2025")
        /\ UNCHANGED tickets
     \/ /\ id \in DOMAIN tickets /\ HasDependents(id)
        /\ asyncHandler(r, "P2003")
        /\ UNCHANGED tickets
     \/ /\ DeleteCommits(id)
        /\ Respond(r, 204)
  /\ UNCHANGED <<nextTicketId, comments, nextCommentId, mishaps, ghosts>>

\* A request's database call fails.  A write may have committed all the same,
\* its answer lost; the handler then never gets to the events of that write.
QueryFails(r) ==
  /\ pc[r] # "idle"
  /\ DatabaseFails
  /\ asyncHandler(r, "Unreachable")
  /\ \/ UNCHANGED tickets
     \/ pc[r] = "delete" /\ DeleteCommits(call[r].id)
  /\ disturbed' = IF pc[r] = "emit" THEN disturbed \cup {call[r].id} ELSE disturbed
  /\ UNCHANGED <<nextTicketId, comments, nextCommentId, crashes, announced>>

\* The API process dies and is restarted: every request in flight is gone, and
\* so are the events of writes that were committed and not yet announced.
Crash ==
  /\ crashes < MaxCrashes
  /\ crashes' = crashes + 1
  /\ pc' = [r \in Requests |-> "idle"]
  /\ call' = Nothing /\ previous' = Nothing /\ updated' = Nothing /\ reply' = Nothing
  /\ disturbed' = disturbed \cup
       {id \in TicketIds : AnnouncementPending(id, Requests)}
  /\ UNCHANGED <<tables, faults, announced>>

Step(r) == Lookup(r) \/ CreateRow(r) \/ PatchRow(r) \/ Emit(r) \/ DeleteRow(r)

Next == (\E r \in Requests : Receive(r) \/ Step(r) \/ QueryFails(r)) \/ Crash

\* A handler that awaits is resumed; nobody has to send a request, or crash.
Fairness == \A r \in Requests : WF_vars(Step(r))

Spec == Init /\ [][Next]_vars
FairSpec == Spec /\ Fairness
-----------------------------------------------------------------------------
(* Properties *)

\* Nobody still owes listeners the announcement of a write to the ticket.
Quiet(id) == ~AnnouncementPending(id, Requests)

\* What listeners know of a ticket is what its row says; un-assigning is not
\* an event, so an unassigned ticket agrees with any agent they were told.
ListenersKnow(id) ==
  /\ announced[id].status = tickets[id].status
  /\ tickets[id].assignedAgentId \in {Null, announced[id].assignedAgentId}

\* Announcing only differences loses nothing: unless a write met a row other
\* than the one its request had read, or a crash or a lost answer took its
\* events away, the
\* listeners of ticket.created, ticket.assigned and ticket.status_changed know
\* the ticket's status and agent as soon as no announcement is outstanding
\* (the diff in updateTicket).
AnnouncementsKeepUp ==
  \A id \in DOMAIN tickets \ disturbed : Quiet(id) => ListenersKnow(id)

\* The request about to emit announces an assignment or a transition only if
\* its own body asked for one.
AnnouncesOwnChanges(r) ==
  LET changes == call[r].changes
  IN /\ newlyAssigned(previous[r], updated[r]) => changes.assignedAgentId \in User
     /\ statusChanged(previous[r], updated[r]) => changes.status \in TicketStatus

PatchAboutToEmit(r) == pc[r] = "emit" /\ call[r].op = "patch"

\* On an undisturbed ticket a request never announces what some other request
\* did: re-saving the same agent or patching the subject emits nothing (the
\* diff in updateTicket).
OwnAnnouncementsOnly == \A r \in Requests :
  PatchAboutToEmit(r) /\ call[r].id \notin disturbed => AnnouncesOwnChanges(r)

\* Whoever changes or removes a ticket is an agent or an admin who had it in
\* scope when the request looked it up, whatever happens to the row between
\* the lookup and the write (authorize and getTicketById in the routes).
ChangesAreAuthorized ==
  [][\A id \in DOMAIN tickets :
       id \notin DOMAIN tickets' \/ Facts(tickets'[id]) # Facts(tickets[id]) =>
         \E r \in Requests :
           /\ pc[r] \in {"patch", "delete"} /\ call[r].id = id
           /\ call[r].viewer \notin Customers
           /\ scopeForViewer(call[r].viewer, previous[r])]_vars

\* Whether the database has room for what a call names and writes.
Storable(c) ==
  c.fits /\ c.id # TooBig /\ c.changes.assignedAgentId # TooBig

\* A 500 means that the database failed, or that the call passed the validators
\* with an id, an assignee or a text the database has no room for.  No
\* interleaving makes one: a row that vanishes between the lookup and the write,
\* a foreign key that is refused and an assignee that does not exist all get a
\* client error (PRISMA_ERROR_STATUS).
InternalErrorsExplained ==
  [][\A r \in Requests : reply'[r] = 500 =>
       reply[r] = 500 \/ faults' > faults \/ ~Storable(call[r])]_vars

\* Every request that was accepted leaves the handler, with a response unless
\* the process dies under it: no error path forgets to respond (asyncHandler).
Answered == \A r \in Requests : pc[r] # "idle" ~> pc[r] = "idle"
-----------------------------------------------------------------------------
(* What comments and documents say and the code does not do *)

\* "Only a genuine new assignment counts: ... not some other field changing
\* on an already-assigned ticket" (updateTicket), with no exception for a row
\* another request changes between this one's lookup and its write.
OnlyGenuineAnnouncements == \A r \in Requests :
  PatchAboutToEmit(r) => AnnouncesOwnChanges(r)

\* "An error nothing above recognised is a bug, not a client mistake" (error
\* handler), and what the validators accept is no client mistake: while the
\* database works, no request ends in a 500.
NoInternalError == \A r \in Requests : reply[r] = 500 => faults > 0
=============================================================================
