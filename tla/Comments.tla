------------------------------ MODULE Comments ------------------------------
(***************************************************************************)
(* The comment endpoints nested under a ticket (routes, controller and     *)
(* service), composed with the ticket endpoints of Tickets: both run in    *)
(* the same API process, against the same tables.                          *)
(*                                                                         *)
(* Every handler first confirms the ticket, then (for one comment) that it *)
(* is on that ticket and may be modified, then acts on the comment alone;  *)
(* createComment goes on, after its row is committed, to find out whom to  *)
(* tell.  Each of those is an await.                                       *)
(***************************************************************************)
EXTENDS Tickets

CONSTANTS
  CommentRequests,  \* the comment requests in flight
  CommentCalls      \* bound: the calls clients make (a subset of CommentCall)

VARIABLES
  cpc, ccall,    \* where each comment request is, and what it asks for
  written,       \* the comment a create got back from its insert
  recipients,    \* whom its event will name
  creply,        \* the HTTP status it ended with
  told           \* ghost: the comments ticket.commented was emitted for

commentVars == <<cpc, ccall, written, recipients, creply>>
allVars == <<vars, commentVars, told>>
-----------------------------------------------------------------------------
CommentCall == [op : {"list", "get", "create", "patch", "delete"}, viewer : User,
                ticketId : TicketIds \cup {TooBig},
                id : CommentIds \cup {Null, TooBig},
                fits : BOOLEAN]    \* the body fits its TEXT column

ASSUME CommentCallAssumption ==
  /\ CommentCalls \subseteq CommentCall
  /\ \A c \in CommentCalls : (c.id = Null) <=> (c.op \in {"list", "create"})
  /\ Null \notin CommentIds /\ Null \notin CommentCall /\ IsFiniteSet(CommentRequests)

CommentTypeOK ==
  /\ TypeOK
  /\ cpc \in [CommentRequests -> {"idle", "ticket", "list", "comment", "create",
                                  "patch", "delete", "watchers", "users"}]
  /\ ccall \in [CommentRequests -> CommentCall \cup {Null}]
  /\ written \in [CommentRequests -> CommentIds \cup {Null}]
  /\ recipients \in [CommentRequests -> SUBSET User]
  /\ creply \in [CommentRequests ->
                   {200, 201, 204, 403, 404, 409, 500, Null}]
  /\ told \subseteq CommentIds

AllNull == [r \in CommentRequests |-> Null]

CommentInit ==
  /\ Init
  /\ cpc = [r \in CommentRequests |-> "idle"]
  /\ ccall = AllNull /\ written = AllNull /\ creply = AllNull
  /\ recipients = [r \in CommentRequests |-> {}]
  /\ told = {}
-----------------------------------------------------------------------------
CRespond(r, status) ==
  /\ cpc' = [cpc EXCEPT ![r] = "idle"]
  /\ creply' = [creply EXCEPT ![r] = status]
  /\ ccall' = [ccall EXCEPT ![r] = Null]
  /\ written' = [written EXCEPT ![r] = Null]
  /\ recipients' = [recipients EXCEPT ![r] = {}]

\* Mutant: the wrapper without its .catch(next), nobody ever responds.
CUnhandled(r, err) == UNCHANGED commentVars

CFail(r, err) == CRespond(r, errorHandler(err))

CGoto(r, place) ==
  /\ cpc' = [cpc EXCEPT ![r] = place]
  /\ UNCHANGED <<ccall, written, recipients, creply>>

\* Bound: every create in flight will find an id to take.
RoomForComment ==
  nextCommentId + Cardinality({r \in CommentRequests :
    cpc[r] \in {"ticket", "create"} /\ ccall[r].op = "create"}) <= MaxComments

\* A request arrives: every logged-in role may use the comment routes.
CReceive(r) == \E c \in CommentCalls :
  /\ cpc[r] = "idle"
  /\ c.op = "create" => RoomForComment
  /\ cpc' = [cpc EXCEPT ![r] = "ticket"]
  /\ ccall' = [ccall EXCEPT ![r] = c]
  /\ creply' = [creply EXCEPT ![r] = Null]
  /\ UNCHANGED <<vars, written, recipients, told>>

findTicketOr404(r) ==
  /\ cpc[r] = "ticket"
  /\ LET c == ccall[r] IN
     \/ /\ c.ticketId = TooBig
        /\ CFail(r, "OutOfRange")
     \/ /\ c.ticketId # TooBig /\ ~Visible(c.ticketId, c.viewer)
        /\ CFail(r, "NotFound")
     \/ /\ Visible(c.ticketId, c.viewer)
        /\ CGoto(r, IF c.op \in {"list", "create"} THEN c.op ELSE "comment")
  /\ UNCHANGED <<vars, told>>

getCommentsByTicketId(r) ==
  /\ cpc[r] = "list"
  /\ CRespond(r, 200)
  /\ UNCHANGED <<vars, told>>

\* Mutant: the comment is looked up by its id alone.
OnAnyTicket(ticketId, id) == id \in DOMAIN comments

\* getCommentById: the where-clause holds both ids of the URL.
OnTicket(ticketId, id) ==
  id \in DOMAIN comments /\ comments[id].ticketId = ticketId

CanModify(id, viewer) == viewer = comments[id].authorId \/ viewer \in Admins

\* findCommentOr404 and, for PATCH and DELETE, assertCanModify.
findCommentOr404(r) ==
  /\ cpc[r] = "comment"
  /\ LET c == ccall[r] IN
     \/ /\ c.id = TooBig
        /\ CFail(r, "OutOfRange")
     \/ /\ c.id # TooBig /\ ~OnTicket(c.ticketId, c.id)
        /\ CFail(r, "NotFound")
     \/ /\ OnTicket(c.ticketId, c.id) /\ c.op = "get"
        /\ CRespond(r, 200)
     \/ /\ OnTicket(c.ticketId, c.id) /\ c.op # "get"
        /\ IF CanModify(c.id, c.viewer) THEN CGoto(r, c.op)
                                        ELSE CFail(r, "Forbidden")
  /\ UNCHANGED <<vars, told>>

\* The statements of the handlers, when the database accepts them.
UpdateCommits(r) == LET c == ccall[r] IN
  /\ cpc[r] = "patch" /\ c.id \in DOMAIN comments /\ c.fits
  /\ comments' = [comments EXCEPT ![c.id].edited = TRUE]
  /\ UNCHANGED nextCommentId
DeleteRowCommits(r) ==
  /\ cpc[r] = "delete" /\ ccall[r].id \in DOMAIN comments
  /\ comments' = Delete(comments, ccall[r].id)
  /\ UNCHANGED nextCommentId
InsertCommits(r) == LET c == ccall[r] IN
  /\ cpc[r] = "create" /\ c.fits /\ c.ticketId \in DOMAIN tickets
  /\ comments' = Insert(comments, nextCommentId,
       [ticketId |-> c.ticketId, authorId |-> c.viewer, edited |-> FALSE])
  /\ nextCommentId' = nextCommentId + 1

\* The statement is refused and the handler fails.
Refused(r, err) == CFail(r, err) /\ UNCHANGED <<comments, nextCommentId>>

\* prisma.comment.update commits, or finds the row gone or no room for the text.
EditRow(r) ==
  /\ cpc[r] = "patch"
  /\ \/ ccall[r].id \notin DOMAIN comments /\ Refused(r, "P2025")
     \/ ccall[r].id \in DOMAIN comments /\ ~ccall[r].fits /\ Refused(r, "P2000")
     \/ UpdateCommits(r) /\ CRespond(r, 200)
  /\ UNCHANGED <<tickets, nextTicketId, requestVars, mishaps, ghosts, told>>

\* prisma.comment.delete commits, or finds the row gone.
RemoveRow(r) ==
  /\ cpc[r] = "delete"
  /\ \/ ccall[r].id \notin DOMAIN comments /\ Refused(r, "P2025")
     \/ DeleteRowCommits(r) /\ CRespond(r, 204)
  /\ UNCHANGED <<tickets, nextTicketId, requestVars, mishaps, ghosts, told>>

\* prisma.comment.create commits, or has no room for the text, or the foreign
\* key finds no ticket.
InsertComment(r) ==
  /\ cpc[r] = "create"
  /\ LET c == ccall[r] IN
     \/ ~c.fits /\ Refused(r, "P2000")
     \/ c.fits /\ c.ticketId \notin DOMAIN tickets /\ Refused(r, "P2003")
     \/ /\ InsertCommits(r)
        /\ written' = [written EXCEPT ![r] = nextCommentId]
        /\ cpc' = [cpc EXCEPT ![r] = "watchers"]
        /\ UNCHANGED <<ccall, recipients, creply>>
  /\ UNCHANGED <<tickets, nextTicketId, requestVars, mishaps, ghosts, told>>

\* Mutant: no try/catch, the failure goes to the error handler.
Uncaught(r) == CFail(r, "TypeError")

\* createComment's catch: the comment stands, so the answer is still a 201.
Caught(r) == CRespond(r, 201)

\* Mutant: the assigned agent is told too, and there may be none.
RecipientsAndAgent(ticketId, authorId) ==
  ({tickets[ticketId].customerId, tickets[ticketId].assignedAgentId} \cup
   {u \in User : <<ticketId, u>> \in TicketWatcher}) \ {authorId}

\* The ticket's customer and its opted-in watchers, except the author.
Recipients(ticketId, authorId) ==
  ({tickets[ticketId].customerId} \cup
   {u \in User : <<ticketId, u>> \in TicketWatcher}) \ {authorId}

\* findUnique for the ticket answers.  On a ticket that is gone, reading
\* ticket.customerId throws; with nobody to look up, the event goes out at once.
ResolveWatchers(r) ==
  /\ cpc[r] = "watchers"
  /\ LET c == ccall[r] IN
     \/ /\ c.ticketId \notin DOMAIN tickets
        /\ Caught(r)
        /\ UNCHANGED told
     \/ /\ c.ticketId \in DOMAIN tickets /\ Recipients(c.ticketId, c.viewer) = {}
        /\ told' = told \cup {written[r]}
        /\ CRespond(r, 201)
     \/ /\ c.ticketId \in DOMAIN tickets /\ Recipients(c.ticketId, c.viewer) # {}
        /\ recipients' = [recipients EXCEPT ![r] = Recipients(c.ticketId, c.viewer)]
        /\ cpc' = [cpc EXCEPT ![r] = "users"]
        /\ UNCHANGED <<ccall, written, creply, told>>
  /\ UNCHANGED vars

\* user.findMany answers, ticket.commented is emitted, the response goes out.
EmitCommented(r) ==
  /\ cpc[r] = "users"
  /\ told' = told \cup {written[r]}
  /\ CRespond(r, 201)
  /\ UNCHANGED vars

\* A database call of the handler fails, inside the try block or outside it; a
\* write may have committed all the same, its answer lost.
CQueryFails(r) ==
  /\ cpc[r] # "idle"
  /\ DatabaseFails
  /\ IF cpc[r] \in {"watchers", "users"} THEN Caught(r) ELSE CFail(r, "Unreachable")
  /\ \/ UNCHANGED <<comments, nextCommentId>>
     \/ UpdateCommits(r) \/ DeleteRowCommits(r) \/ InsertCommits(r)
  /\ UNCHANGED <<tickets, nextTicketId, requestVars, crashes, ghosts, told>>

\* The process both routers run in dies.
CrashAll ==
  /\ Crash
  /\ cpc' = [r \in CommentRequests |-> "idle"]
  /\ ccall' = AllNull /\ written' = AllNull /\ creply' = AllNull
  /\ recipients' = [r \in CommentRequests |-> {}]
  /\ UNCHANGED told

CStep(r) ==
  \/ findTicketOr404(r) \/ getCommentsByTicketId(r) \/ findCommentOr404(r)
  \/ EditRow(r) \/ RemoveRow(r) \/ InsertComment(r)
  \/ ResolveWatchers(r) \/ EmitCommented(r)

TicketRequest(r) ==
  /\ Receive(r) \/ Step(r) \/ QueryFails(r)
  /\ UNCHANGED <<commentVars, told>>

CommentNext ==
  \/ \E r \in Requests : TicketRequest(r)
  \/ \E r \in CommentRequests : CReceive(r) \/ CStep(r) \/ CQueryFails(r)
  \/ CrashAll

CommentFairness ==
  /\ \A r \in Requests : WF_allVars(Step(r) /\ UNCHANGED <<commentVars, told>>)
  /\ \A r \in CommentRequests : WF_allVars(CStep(r))

CommentSpec == CommentInit /\ [][CommentNext]_allVars
CommentFairSpec == CommentSpec /\ CommentFairness
-----------------------------------------------------------------------------
(* Properties *)

\* A comment is always on a ticket that exists, although the handler's own
\* check is an await older than its insert (the RESTRICT foreign key).
NoOrphanComments ==
  \A c \in DOMAIN comments : comments[c].ticketId \in DOMAIN tickets

\* A comment that exists and whose author is no longer waiting has been
\* announced, if nothing failed: its ticket cannot vanish while createComment
\* resolves recipients, except together with the comment itself.
EveryCommentTold == \A c \in DOMAIN comments \ DOMAIN SeedComments :
  (\A r \in CommentRequests : written[r] # c) /\ crashes + faults = 0 => c \in told

\* A comment is changed or removed only by its author or an admin, through the
\* ticket it belongs to, and it never moves to another ticket or author.
CommentChangesAuthorized ==
  [][\A id \in DOMAIN comments :
       \/ id \in DOMAIN comments' /\ comments'[id] = comments[id]
       \/ /\ id \in DOMAIN comments' =>
               comments'[id] = [comments[id] EXCEPT !.edited = TRUE]
          /\ \E r \in CommentRequests :
               /\ ccall[r] # Null /\ ccall[r].id = id
               /\ ccall[r].ticketId = comments[id].ticketId
               /\ ccall[r].viewer \in Admins \cup {comments[id].authorId}]_allVars

\* Once it has its comment back from the insert, a create is answered with a 201 and nothing
\* else, whatever happens to the ticket or the database meanwhile (the
\* try/catch in createComment).
CommittedMeansCreated ==
  [][\A r \in CommentRequests : written[r] # Null /\ written'[r] = Null =>
       creply'[r] \in {201, Null}]_allVars

\* Every comment request is answered or dies with the process.
CommentsAnswered ==
  \A r \in CommentRequests : cpc[r] # "idle" ~> cpc[r] = "idle"
=============================================================================
