------------------------------ MODULE Delivery ------------------------------
(***************************************************************************)
(* From a request to the people it concerns: the ticket endpoints (Tickets) *)
(* put their events on the bus, and the in-app and e-mail listeners        *)
(* (Notify) make Notification rows and mails of them, while more requests  *)
(* are served and until the process dies.  The two modules meet in one     *)
(* step, the handler's after its write: there emit() runs the listeners up *)
(* to their first await before the response goes out.                      *)
(*                                                                         *)
(* No browser is connected here; pushes happen inside emit() and are       *)
(* Notify's own.                                                           *)
(***************************************************************************)
EXTENDS Tickets, SequencesExt

CONSTANTS
  Wordy,                      \* tickets whose subject no message has room for
  MaxEvents, MaxTaskFaults,   \* bounds
  MaxMishaps                  \* bound: failed calls, on either side, and crashes together

VARIABLES
  emitted, tasks, rows, mails, taskFaults, failures, lost,   \* those of Notify
  about   \* ghost: of each event, the request and the ticket as it was written

busVars == <<emitted, tasks, rows, mails, taskFaults, failures, lost, about>>
deliveryVars == <<vars, busVars>>

\* The payload of an event: the row the write returned.
Payload(name, id, ticket) ==
  [name |-> name, customerId |-> ticket.customerId,
   assignedAgentId |-> ticket.assignedAgentId, recipients |-> {},
   longSubject |-> id \in Wordy]

\* What Notify takes the ticket service to emit.
Payloads ==
  [name : {"created"}, customerId : Customers, assignedAgentId : {Null},
   recipients : {{}}, longSubject : BOOLEAN]
  \cup [name : {"assigned"}, customerId : Customers, assignedAgentId : User,
        recipients : {{}}, longSubject : BOOLEAN]
  \cup [name : {"status_changed"}, customerId : Customers,
        assignedAgentId : User \cup {Null}, recipients : {{}},
        longSubject : BOOLEAN]

\* Tickets belong to customers: only they may create one, and the seeded ones do.
ASSUME DeliveryAssumption ==
  /\ MaxEvents \in Nat /\ MaxTaskFaults \in Nat /\ MaxMishaps \in Nat /\ Null \notin TicketStatus
  /\ \A id \in DOMAIN SeedTickets : SeedTickets[id].customerId \in Customers

N == INSTANCE Notify WITH
  Sockets <- {}, rooms <- <<>>, received <- <<>>, identities <- <<>>,
  Events <- Payloads, faults <- taskFaults, MaxFaults <- MaxTaskFaults

DeliveryInit ==
  /\ Init
  /\ emitted = <<>> /\ tasks = {} /\ rows = {} /\ mails = {} /\ taskFaults = 0
  /\ failures = {} /\ lost = {} /\ about = <<>>
-----------------------------------------------------------------------------
EventIf(condition, name, r, ticket) ==
  IF condition THEN <<Payload(name, call[r].id, ticket)>> ELSE <<>>

\* Mutants: the payload of an assignment is the row as it was looked up; a ticket
\* is assigned or moved, not both; a status in the body is a transition.
StaleEventsOf(r) ==
  EventIf(call[r].op = "patch" /\ newlyAssigned(previous[r], updated[r]),
          "assigned", r, previous[r])
EitherEventOf(r) ==
  IF call[r].op = "patch" /\ newlyAssigned(previous[r], updated[r])
  THEN EventIf(TRUE, "assigned", r, updated[r])
  ELSE EventIf(call[r].op = "patch" /\ statusChanged(previous[r], updated[r]),
               "status_changed", r, updated[r])
EventsOfEverySave(r) ==
  EventIf(call[r].changes.status # Undefined, "status_changed", r, updated[r])

\* The events a handler emits once its write has returned.
EventsOf(r) ==
  IF call[r].op = "create" THEN EventIf(TRUE, "created", r, updated[r])
  ELSE EventIf(newlyAssigned(previous[r], updated[r]), "assigned", r, updated[r])
    \o EventIf(statusChanged(previous[r], updated[r]), "status_changed", r, updated[r])

\* The handler resumes, emits and responds.
EmitAndRespond(r) ==
  /\ Emit(r)
  /\ N!EmitAll(EventsOf(r))
  /\ about' = about \o [i \in DOMAIN EventsOf(r) |->
                          [request |-> r, id |-> call[r].id, ticket |-> updated[r]]]

\* Bound: every request in flight will find room for its events.
RoomForEvents ==
  Len(emitted) + 2 * Cardinality({r \in Requests : pc[r] # "idle"}) + 2 <= MaxEvents

MishapLeft == faults + taskFaults + crashes < MaxMishaps

\* What a handler does without emitting.
HandlerStep(r) ==
  /\ \/ RoomForEvents /\ Receive(r)
     \/ Lookup(r) \/ CreateRow(r) \/ PatchRow(r) \/ DeleteRow(r)
     \/ MishapLeft /\ QueryFails(r)
  /\ UNCHANGED busVars

\* A listener's await settles.
ListenerStep(t) == N!TaskStep(t) /\ UNCHANGED <<vars, about>>
ListenerFails(t) == MishapLeft /\ N!TaskFails(t) /\ UNCHANGED <<vars, about>>

\* The process dies, with its requests and its listeners.
ProcessDies == MishapLeft /\ Crash /\ N!Crash("api") /\ UNCHANGED about

DeliveryNext ==
  \/ \E r \in Requests : EmitAndRespond(r) \/ HandlerStep(r)
  \/ \E t \in tasks : ListenerStep(t) \/ ListenerFails(t)
  \/ ProcessDies

\* Handlers and listeners that await are resumed.
DeliveryFairness ==
  /\ \A r \in Requests : WF_deliveryVars(EmitAndRespond(r))
  /\ WF_deliveryVars(\E t \in tasks : ListenerStep(t))

DeliverySpec == DeliveryInit /\ [][DeliveryNext]_deliveryVars /\ DeliveryFairness
-----------------------------------------------------------------------------
(* Properties *)

StatusEvents == {"created", "status_changed"}

\* The events of these kinds about a ticket, and the last of them.
EventsAbout(id, names) ==
  {n \in DOMAIN emitted : about[n].id = id /\ emitted[n].name \in names}
IsLast(n, id, names) ==
  n \in EventsAbout(id, names) /\ \A m \in EventsAbout(id, names) : m <= n

\* The user finds a notification of the event, or will, or it went down in a
\* listener's catch or with the process.
Notified(n, user) ==
  \/ <<n, user>> \in rows
  \/ \E t \in tasks \cup failures :
       t.event = n /\ t.step \in {"findUsers", "createRows"}
  \/ n \in lost

\* The last event about the status of a ticket to be put on the bus says what the
\* status is now, and a notification of it is made for the customer the ticket
\* belongs to: from the diff in updateTicket to the insert of the in-app listener,
\* on every ticket no race, crash or lost answer disturbed.  Which row is stored
\* last is another matter: each is inserted when its own listener gets there.
LastStatusReachesCustomer == \A id \in DOMAIN tickets \ disturbed : Quiet(id) =>
  \/ /\ EventsAbout(id, StatusEvents) = {} /\ id \in DOMAIN SeedTickets
     /\ tickets[id].status = SeedTickets[id].status
  \/ \E n \in DOMAIN emitted :
       /\ IsLast(n, id, StatusEvents)
       /\ about[n].ticket.status = tickets[id].status
       /\ Notified(n, tickets[id].customerId)

\* Whoever a ticket is assigned to was notified of this assignment after anybody
\* else's, not the agent who lost it: the last ticket.assigned names the agent of
\* the row (updateTicket, notifyInApp).
AgentNotified == \A id \in DOMAIN tickets \ disturbed :
  Quiet(id) /\ tickets[id].assignedAgentId # Null =>
    \/ /\ EventsAbout(id, {"assigned"}) = {} /\ id \in DOMAIN SeedTickets
       /\ tickets[id].assignedAgentId = SeedTickets[id].assignedAgentId
    \/ \E n \in DOMAIN emitted :
         IsLast(n, id, {"assigned"}) /\ Notified(n, tickets[id].assignedAgentId)

\* A customer is never told twice in a row that a ticket of theirs is in one and
\* the same status, however often it is saved (the second condition of
\* updateTicket), unless the ticket was disturbed.
NoTransitionToldTwice == \A n \in DOMAIN emitted :
  LET id == about[n].id IN
  emitted[n].name \in StatusEvents /\ id \notin disturbed =>
    \A m \in EventsAbout(id, StatusEvents) :
      /\ m < n /\ about[m].ticket.status = about[n].ticket.status
      => \E k \in EventsAbout(id, StatusEvents) : m < k /\ k < n

\* The ticket endpoints keep to what Notify assumes of the bus: never an
\* assignment to nobody, a new ticket with an agent, or two events at once other
\* than the two of one PATCH.
TicketsFeedNotify == N!NotifyInit /\ [][N!NotifyNext]_(N!notifyVars)

\* A customer whose ticket is resolved finds out: once the UPDATE of a request has
\* answered with the transition, the event of that very request is a notification
\* in the end, or goes down in the listener's catch.  What may take it away is a
\* crash, or the loss of that answer, which ends the request with a 500 and no
\* event (updateTicket, QueryFails).  Bound: the first two transitions of each
\* process of Requests.
AboutToResolve(r) ==
  PatchAboutToEmit(r) /\ updated[r].status = "resolved"
    /\ statusChanged(previous[r], updated[r])
TransitionsBy(r) ==
  {n \in DOMAIN emitted : about[n].request = r /\ emitted[n].name = "status_changed"}
ResolutionArrives == \A r \in Requests, before \in {0, 1} :
  AboutToResolve(r) /\ Cardinality(TransitionsBy(r)) = before
  ~> \/ crashes > 0
     \/ reply[r] = 500 /\ Cardinality(TransitionsBy(r)) = before
     \/ \E n \in TransitionsBy(r) :
          /\ Cardinality({m \in TransitionsBy(r) : m < n}) = before
          /\ about[n].ticket.status = "resolved"
          /\ \/ <<n, about[n].ticket.customerId>> \in rows
             \/ \E t \in failures :
                  t.event = n /\ t.step \in {"findUsers", "createRows"}
=============================================================================
