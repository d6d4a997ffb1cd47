------------------------------- MODULE Tags -------------------------------
(***************************************************************************)
(* The tag endpoints, the one resource every signed-in user reads and only *)
(* staff change, composed with Accounts: a request stands or falls by the  *)
(* token it carries.  PATCH and DELETE look the tag up and then write by   *)
(* id, an await later.                                                     *)
(***************************************************************************)
EXTENDS Accounts

CONSTANTS
  TooBig,               \* an integer that fits no column, nor 64 bits
  Names,                \* tag names, as the column's collation tells them apart
  TagRequests,          \* requests to /tags in flight
  TagCalls,             \* bound: what they ask (a subset of TagCall)
  InitialTags,          \* the tags a seeded database holds
  InitialLinks,         \* its TicketTag rows, <<ticket, tag>>
  MaxTags               \* bound: tag ids

VARIABLES
  tags, nextTagId,      \* the table, by id, and AUTO_INCREMENT
  ticketTags,           \* TicketTag, which no endpoint writes
  tpc, tcall, treply,   \* where each request is, its call, the status it got
  bearer                \* the token each request came with

tagVars == <<tags, nextTagId, ticketTags>>
tagRequestVars == <<tpc, tcall, treply, bearer>>
accessVars == <<allAccounts, tagVars, tagRequestVars>>
-----------------------------------------------------------------------------
TagIds == 1..MaxTags
\* The validator bounds no id.
TagCall == [op : {"list", "get", "create", "patch", "delete"}, client : Clients,
            id : TagIds \cup {Null, TooBig}, name : Names \cup {Null}, valid : BOOLEAN]

ASSUME TagsAssumption ==
  /\ TagCalls \subseteq TagCall /\ Null \notin TagCall \cup Token
  /\ TooBig # Null /\ TooBig \notin Nat
  /\ \A c \in TagCalls : c.valid /\ c.op \in {"create", "patch"} => c.name \in Names
  /\ \E n \in 0..MaxTags : InitialTags \in [1..n -> Names]
  /\ \A x, y \in DOMAIN InitialTags : InitialTags[x] = InitialTags[y] => x = y
  /\ \A link \in InitialLinks : link[2] \in DOMAIN InitialTags
  /\ MaxTags \in Nat /\ IsFiniteSet(TagRequests)

AccessTypeOK ==
  /\ AccountsTypeOK
  /\ DOMAIN tags \subseteq TagIds /\ \A id \in DOMAIN tags : tags[id] \in Names
  /\ nextTagId \in 1..(MaxTags + 1)
  /\ \A link \in ticketTags : link[2] \in DOMAIN tags
  /\ tpc \in [TagRequests -> {"idle", "list", "find", "create", "patch", "delete"}]
  /\ tcall \in [TagRequests -> TagCall \cup {Null}]
  /\ treply \in [TagRequests -> {200, 201, 204, 400, 401, 403, 404, 409, 429, 500, Null}]
  /\ bearer \in [TagRequests -> Token \cup {Null}]

NoTagCalls == [r \in TagRequests |-> Null]

TagsInit ==
  /\ tags = InitialTags /\ nextTagId = Cardinality(DOMAIN InitialTags) + 1
  /\ ticketTags = InitialLinks
  /\ tpc = [r \in TagRequests |-> "idle"]
  /\ tcall = NoTagCalls /\ treply = NoTagCalls /\ bearer = NoTagCalls

AccessInit == AccountsInit /\ TagsInit
-----------------------------------------------------------------------------
TRespond(r, status) ==
  /\ tpc' = [tpc EXCEPT ![r] = "idle"]
  /\ treply' = [treply EXCEPT ![r] = status]
  /\ tcall' = [tcall EXCEPT ![r] = Null]
  /\ bearer' = [bearer EXCEPT ![r] = Null]

\* Bound: every create in flight will find an id.
RoomForTags(n) ==
  nextTagId + n + Cardinality({r \in TagRequests : tcall[r] # Null /\ tcall[r].op = "create"})
    <= MaxTags + 1

\* verifyToken accepts the Authorization header.
Authenticated(token) == token # Null /\ token.expires > now

\* The roles each route lets through.
authorize(op) == IF op \in {"list", "get"} THEN Roles ELSE {"agent", "admin"}

\* Where a handler waits first.
FirstAwait(op) == IF op \in {"list", "create"} THEN op ELSE "find"

\* A request to /tags meets the general limiter, authenticate, authorize and
\* validate, in this order, and then its controller.
TReceive(r) == \E c \in TagCalls, token \in tokens \cup {Null} :
  /\ tpc[r] = "idle"
  /\ c.op = "create" => RoomForTags(1)
  /\ CountGeneral(c.client)
  /\ \/ ~PassesGeneral(c.client) /\ TRespond(r, 429)
     \/ /\ PassesGeneral(c.client)
        /\ \/ ~Authenticated(token) /\ TRespond(r, 401)
           \/ /\ Authenticated(token) /\ token.role \notin authorize(c.op)
              /\ TRespond(r, 403)
           \/ /\ Authenticated(token) /\ token.role \in authorize(c.op) /\ ~c.valid
              /\ TRespond(r, 400)
           \/ /\ Authenticated(token) /\ token.role \in authorize(c.op) /\ c.valid
              /\ tpc' = [tpc EXCEPT ![r] = FirstAwait(c.op)]
              /\ tcall' = [tcall EXCEPT ![r] = c]
              /\ bearer' = [bearer EXCEPT ![r] = token]
              /\ treply' = [treply EXCEPT ![r] = Null]
  /\ UNCHANGED <<now, authHits, accountVars, authVars, mishaps, admitted, tagVars>>

\* getAllTags answers.
getAllTags(r) ==
  /\ tpc[r] = "list"
  /\ TRespond(r, 200)
  /\ UNCHANGED <<allAccounts, tagVars>>

\* getTagById answers: the end of a GET, the check before a PATCH or DELETE.
getTagById(r) ==
  /\ tpc[r] = "find"
  /\ \/ tcall[r].id = TooBig /\ TRespond(r, StatusOf("OutOfRange"))
     \/ tcall[r].id \notin DOMAIN tags \cup {TooBig} /\ TRespond(r, 404)
     \/ tcall[r].id \in DOMAIN tags /\ tcall[r].op = "get" /\ TRespond(r, 200)
     \/ /\ tcall[r].id \in DOMAIN tags /\ tcall[r].op # "get"
        /\ tpc' = [tpc EXCEPT ![r] = tcall[r].op]
        /\ UNCHANGED <<tcall, treply, bearer>>
  /\ UNCHANGED <<allAccounts, tagVars>>

\* The unique index on Tag.name refuses the name for the row.
NameTaken(name, id) == \E x \in DOMAIN tags : x # id /\ tags[x] = name

InsertTag(name) ==
  /\ ~NameTaken(name, nextTagId)
  /\ tags' = [x \in DOMAIN tags \cup {nextTagId} |-> IF x = nextTagId THEN name ELSE tags[x]]
  /\ nextTagId' = nextTagId + 1
  /\ UNCHANGED ticketTags

UpdateTag(id, name) ==
  /\ id \in DOMAIN tags /\ ~NameTaken(name, id)
  /\ tags' = [tags EXCEPT ![id] = name]
  /\ UNCHANGED <<nextTagId, ticketTags>>

Linked(id) == \E link \in ticketTags : link[2] = id

DeleteTag(id) ==
  /\ id \in DOMAIN tags /\ ~Linked(id)
  /\ tags' = Restrict(tags, DOMAIN tags \ {id})
  /\ UNCHANGED <<nextTagId, ticketTags>>

\* The statement of a create, PATCH or DELETE commits ...
TagCommits(r) ==
  LET c == tcall[r] IN
  \/ tpc[r] = "create" /\ InsertTag(c.name)
  \/ tpc[r] = "patch" /\ UpdateTag(c.id, c.name)
  \/ tpc[r] = "delete" /\ DeleteTag(c.id)

\* ... or is refused.
TagRefused(r) ==
  LET c == tcall[r] IN
  CASE tpc[r] # "create" /\ c.id \notin DOMAIN tags -> "P2025"
    [] tpc[r] = "delete" /\ Linked(c.id) -> "P2003"
    [] tpc[r] = "create" /\ NameTaken(c.name, nextTagId) -> "P2002"
    [] tpc[r] = "patch" /\ NameTaken(c.name, c.id) -> "P2002"
    [] OTHER -> "none"

Success(op) == CASE op = "create" -> 201 [] op = "delete" -> 204 [] OTHER -> 200

\* createTag, updateTag and deleteTag do nothing after their write but answer.
WriteTag(r) ==
  /\ tpc[r] \in {"create", "patch", "delete"}
  /\ \/ TagRefused(r) # "none" /\ TRespond(r, StatusOf(TagRefused(r))) /\ UNCHANGED tagVars
     \/ TagCommits(r) /\ TRespond(r, Success(tcall[r].op))
  /\ UNCHANGED allAccounts

\* A statement fails, or commits and its answer is lost.
TagQueryFails(r) ==
  /\ tpc[r] # "idle"
  /\ DatabaseFails
  /\ TRespond(r, 500)
  /\ UNCHANGED tagVars \/ TagCommits(r)
  /\ UNCHANGED <<limiterVars, accountVars, authVars, restarts, admitted>>

AccessRestart ==
  /\ AuthRestart
  /\ tpc' = [r \in TagRequests |-> "idle"]
  /\ tcall' = NoTagCalls /\ treply' = NoTagCalls /\ bearer' = NoTagCalls
  /\ UNCHANGED tagVars

TagStep(r) == getAllTags(r) \/ getTagById(r) \/ WriteTag(r)

\* What a request to /auth and the clock do leaves the tags alone.
AccountsNext ==
  /\ \/ \E r \in AuthRequests : AReceive(r) \/ AuthStep(r) \/ AuthQueryFails(r)
     \/ AuthTick
  /\ UNCHANGED <<tagVars, tagRequestVars>>

AccessNext ==
  \/ AccountsNext
  \/ \E r \in TagRequests : TReceive(r) \/ TagStep(r) \/ TagQueryFails(r)
  \/ AccessRestart

AccessSpec == AccessInit /\ [][AccessNext]_accessVars
-----------------------------------------------------------------------------
(* Properties *)

\* The accounts that were staff from the start.
StaffEmails == {InitialUsers[id].email :
                  id \in {x \in DOMAIN InitialUsers : InitialUsers[x].role # "customer"}}

\* Tags only ever change in the name of somebody who has been staff from the
\* start: no chain of registrations, logins and tokens makes a customer one
\* (role in createCustomer and signToken, authenticate and authorize on the tag
\* routes).
TagsChangedByStaff ==
  [][tags' # tags => \E r \in TagRequests :
       tpc[r] # "idle" /\ tpc'[r] = "idle" /\ bearer[r].email \in StaffEmails]_accessVars

\* No interleaving of requests to /auth and /tags ends in a 500: a lost race for
\* a name or an e-mail, a tag deleted or linked between lookup and write are
\* client errors; only a failing database, an e-mail too long for its column and
\* an id no column has room for make one (PRISMA_ERROR_STATUS).
AccessErrorsExplained ==
  [][/\ \A r \in AuthRequests :
          areply'[r] = 500 => areply[r] = 500 \/ faults' > faults \/ ~acall[r].fits
     /\ \A r \in TagRequests :
          treply'[r] = 500 => \/ treply[r] = 500 \/ faults' > faults
                              \/ tcall[r].id = TooBig]_accessVars
=============================================================================
