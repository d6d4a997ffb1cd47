------------------------------- MODULE Store -------------------------------
(***************************************************************************)
(* The MySQL database as the services see it through Prisma: the rows of   *)
(* Ticket and Comment, the users they refer to, and the errors a query can *)
(* end in.  Every process of the system (API requests, SLA scan) reads and *)
(* writes these variables, one database call per step.                     *)
(*                                                                         *)
(* A row keeps only the columns some decision of the code depends on;      *)
(* subject, description, body and the timestamps are left out.  Ids come   *)
(* from AUTO_INCREMENT, so the table of a key is a function whose domain   *)
(* is the set of ids that exist now.                                       *)
(***************************************************************************)
EXTENDS Integers, FiniteSets, Functions

CONSTANTS
  Customers, Agents, Admins,    \* the User rows, by role
  Strangers,                    \* numbers that are no User's id
  TooBig,                       \* an integer that fits no column, nor 64 bits
  Null,                         \* SQL NULL, and a variable that holds nothing
  MaxTickets, MaxComments,      \* bounds: ids handed out in a behaviour
  MaxFaults,                    \* bound: database calls that fail
  SeedTickets, SeedComments,    \* the rows the system starts with
  TicketTag, TicketWatcher      \* join rows <<ticket, tag>>, <<ticket, user>>

VARIABLES tickets, nextTicketId, comments, nextCommentId, faults

tables == <<tickets, nextTicketId, comments, nextCommentId>>
-----------------------------------------------------------------------------
\* No request deletes a user or changes a role, so the users are constants.
User == Customers \cup Agents \cup Admins
TicketStatus == {"open", "in_progress", "resolved", "closed"}

TicketIds == 1..MaxTickets
CommentIds == 1..MaxComments

Ticket == [customerId : User, assignedAgentId : User \cup {Null},
           status : TicketStatus, breached : BOOLEAN]   \* slaBreachedAt set?
Comment == [ticketId : TicketIds, authorId : User,
            edited : BOOLEAN]       \* is body what its author first wrote?

\* A table holds rows under ids that were handed out, each below the counter.
IsTable(table, Ids, Row, next) ==
  /\ DOMAIN table \subseteq Ids
  /\ \A id \in DOMAIN table : table[id] \in Row /\ id < next

ASSUME UserAssumption ==
  /\ Customers \cap Agents = {} /\ Customers \cap Admins = {}
  /\ Agents \cap Admins = {}
  /\ Null \notin User /\ User \cap Strangers = {}
  /\ TooBig \notin User \cup Strangers \cup {Null} /\ TooBig \notin Nat

ASSUME SeedAssumption ==
  /\ MaxTickets \in Nat /\ MaxComments \in Nat /\ MaxFaults \in Nat
  /\ \E n \in 0..MaxTickets : SeedTickets \in [1..n -> Ticket]
  /\ \E n \in 0..MaxComments : SeedComments \in [1..n -> Comment]
  /\ \A c \in DOMAIN SeedComments :
       SeedComments[c].ticketId \in DOMAIN SeedTickets

StoreInit ==
  /\ tickets = SeedTickets /\ nextTicketId = Cardinality(DOMAIN SeedTickets) + 1
  /\ comments = SeedComments /\ nextCommentId = Cardinality(DOMAIN SeedComments) + 1
  /\ faults = 0

StoreTypeOK ==
  /\ nextTicketId \in 1..(MaxTickets + 1)
  /\ nextCommentId \in 1..(MaxComments + 1)
  /\ faults \in 0..MaxFaults
  /\ IsTable(tickets, TicketIds, Ticket, nextTicketId)
  /\ IsTable(comments, CommentIds, Comment, nextCommentId)
-----------------------------------------------------------------------------
\* The where-fragment that decides which tickets a viewer can see: a
\* customer's own, an agent's own queue and the unassigned one, all for admins.
scopeForViewer(viewer, ticket) ==
  \/ viewer \in Customers /\ ticket.customerId = viewer
  \/ viewer \in Agents /\ ticket.assignedAgentId \in {viewer, Null}
  \/ viewer \in Admins

\* Whether getTicketById(id, viewer) finds a row.
Visible(id, viewer) ==
  id \in DOMAIN tickets /\ scopeForViewer(viewer, tickets[id])

\* Mutant: comments go the way of their ticket instead of keeping it.
HasLinks(id) == \E link \in TicketTag \cup TicketWatcher : link[1] = id

\* Whether a RESTRICT foreign key still refers to the ticket.
HasDependents(id) ==
  \/ \E c \in DOMAIN comments : comments[c].ticketId = id
  \/ \E link \in TicketTag \cup TicketWatcher : link[1] = id

\* Statements that add or replace, and remove, one row of a table.
Insert(table, id, row) ==
  [x \in DOMAIN table \cup {id} |-> IF x = id THEN row ELSE table[x]]
Delete(table, id) == Restrict(table, DOMAIN table \ {id})

\* The connection drops, a pool times out: a call ends in an error Prisma does
\* not know as a request error.
DatabaseFails == faults < MaxFaults /\ faults' = faults + 1
-----------------------------------------------------------------------------
\* The HTTP status an error ends in: an ApiError carries its own, a known
\* Prisma error is looked up, and anything else is a 500.
PRISMA_ERROR_STATUS ==
  [code \in {"P2002", "P2003", "P2025"} |-> IF code = "P2025" THEN 404 ELSE 409]

\* Mutant: the handler before it knew Prisma's errors.
errorHandlerApiErrorsOnly(err) ==
  CASE err = "Forbidden" -> 403 [] err = "NotFound" -> 404 [] OTHER -> 500

errorHandler(err) ==
  CASE err = "Forbidden" -> 403
    [] err = "NotFound" -> 404
    [] err \in DOMAIN PRISMA_ERROR_STATUS -> PRISMA_ERROR_STATUS[err]
    [] OTHER -> 500
=============================================================================
