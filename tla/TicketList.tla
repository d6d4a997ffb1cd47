---------------------------- MODULE TicketList ----------------------------
(***************************************************************************)
(* GET /tickets: a client walks through the pages of one query while the   *)
(* ticket endpoints of Tickets write the same table.                       *)
(*                                                                         *)
(* A page and its total are two statements, started together and answered  *)
(* in either order; each sees the table of its own moment, and the next    *)
(* page is a request of its own.  The client goes on for as long as the    *)
(* meta of the last answer says that there are more pages.                 *)
(***************************************************************************)
EXTENDS Tickets, SequencesExt

CONSTANTS
  Readers,      \* clients that walk through lists
  ListQueries,  \* bound: the queries they ask (a subset of ListQuery)
  CreatedAts    \* bound: when the tickets of a behaviour are created

VARIABLES
  createdAt,    \* the column createdAt of every ticket, those to come included
  walk,         \* what each client asks, and what was answered on this page
  history       \* ghost: what became of each client's walk so far

listVars == <<createdAt, walk, history>>
listAllVars == <<vars, listVars>>
-----------------------------------------------------------------------------
\* status stands for every key a PATCH can change; createdAt never changes.
ListQuery == [viewer : User, status : TicketStatus \cup {Undefined},
              sortBy : {"createdAt", "status"}, order : {"asc", "desc"},
              pageSize : 1..50]

ASSUME ListAssumption ==
  /\ ListQueries \subseteq ListQuery
  /\ CreatedAts \subseteq [TicketIds -> Int]
  /\ Null \notin ListQuery /\ Null \notin Seq(TicketIds)

Walk == [at : {"idle", "queries", "next", "done"}, query : ListQuery \cup {Null},
         page : Nat, found : Seq(TicketIds) \cup {Null}, total : Nat \cup {Null}]
NoWalk == [at |-> "idle", query |-> Null, page |-> 0, found |-> Null, total |-> Null]

\* started: the tickets wanted when the walk began; shown: the rows answered
\* since; left, joined: the tickets that left, and joined, the wanted ones
\* since; more: whether rows followed this page when it was read; still: the
\* wanted set kept still between the two answers of this page; steady: and of
\* every page so far.
History == [started : SUBSET TicketIds, shown : Seq(TicketIds),
            left : SUBSET TicketIds, joined : SUBSET TicketIds,
            more : BOOLEAN, still : BOOLEAN, steady : BOOLEAN]
NoHistory == [started |-> {}, shown |-> <<>>, left |-> {}, joined |-> {},
              more |-> FALSE, still |-> TRUE, steady |-> TRUE]

ListTypeOK ==
  /\ TypeOK
  /\ createdAt \in [TicketIds -> Int]
  /\ walk \in [Readers -> Walk]
  /\ history \in [Readers -> History]

\* createdAt follows no order of the ids: the seed backdates some rows to one
\* moment of the past, and of two POSTs the one that took its now() first may
\* be inserted last, or in the same millisecond.
ListInit ==
  /\ Init
  /\ createdAt \in CreatedAts
  /\ walk = [c \in Readers |-> NoWalk]
  /\ history = [c \in Readers |-> NoHistory]
-----------------------------------------------------------------------------
\* The `where` of both statements: the viewer's scope and the status filter.
Wanted(q, id) == /\ scopeForViewer(q.viewer, tickets[id])
                 /\ q.status \in {Undefined, tickets[id].status}
Matching(q) == {id \in DOMAIN tickets : Wanted(q, id)}

\* MySQL sorts an ENUM by the order its values are declared in.
StatusRank == [s \in TicketStatus |-> CASE s = "open" -> 1 [] s = "in_progress" -> 2
                                        [] s = "resolved" -> 3 [] s = "closed" -> 4]
SortKey(q, id) == IF q.sortBy = "status" THEN StatusRank[tickets[id].status]
                  ELSE createdAt[id]
Before(q, x, y) == IF q.order = "asc" THEN SortKey(q, x) < SortKey(q, y)
                                      ELSE SortKey(q, x) > SortKey(q, y)

\* The orders the database may list the matching rows in: rows that tie come
\* in any order, another one each time.
Listings(q) == {s \in SetToSeqs(Matching(q)) :
                  \A i, j \in DOMAIN s : i < j => ~Before(q, s[j], s[i])}

\* Mutants: pages counted from 0; a page taken for one row.
SkipOnePageMore(q, page) == page * q.pageSize
SkipByPage(q, page) == page - 1

\* How many rows a page leaves out at the start.
Skip(q, page) == (page - 1) * q.pageSize

\* The rows skip and take cut out of a listing.
PageOf(q, page, listing) ==
  SubSeq(listing, Skip(q, page) + 1,
         IF Skip(q, page) + q.pageSize < Len(listing)
         THEN Skip(q, page) + q.pageSize ELSE Len(listing))

\* Mutant: the count without the viewer's scope.
CountAnybodys(q) ==
  Cardinality({id \in DOMAIN tickets : q.status \in {Undefined, tickets[id].status}})

\* What prisma.ticket.count answers.
Count(q) == Cardinality(Matching(q))

\* Math.ceil(total / pageSize).
totalPages(q, total) == (total + q.pageSize - 1) \div q.pageSize
-----------------------------------------------------------------------------
\* A valid GET /tickets arrives and both statements are sent.
Ask(c, q, page) ==
  walk' = [walk EXCEPT ![c] = [at |-> "queries", query |-> q, page |-> page,
                               found |-> Null, total |-> Null]]

FirstPage(c) == \E q \in ListQueries :
  /\ walk[c].at = "idle"
  /\ Ask(c, q, 1)
  /\ history' = [history EXCEPT ![c] = [NoHistory EXCEPT !.started = Matching(q)]]
  /\ UNCHANGED <<vars, createdAt>>

NextPage(c) ==
  /\ walk[c].at = "next"
  /\ Ask(c, walk[c].query, walk[c].page + 1)
  /\ history' = [history EXCEPT ![c].still = TRUE]
  /\ UNCHANGED <<vars, createdAt>>

\* findMany answers.
FindPage(c) ==
  /\ walk[c].at = "queries" /\ walk[c].found = Null
  /\ \E listing \in Listings(walk[c].query) :
       LET rows == PageOf(walk[c].query, walk[c].page, listing)
       IN /\ walk' = [walk EXCEPT ![c].found = rows]
          /\ history' = [history EXCEPT
               ![c].shown = @ \o rows,
               ![c].more = Len(listing) > walk[c].page * walk[c].query.pageSize]
  /\ UNCHANGED <<vars, createdAt>>

\* count answers.
CountAll(c) ==
  /\ walk[c].at = "queries" /\ walk[c].total = Null
  /\ walk' = [walk EXCEPT ![c].total = Count(walk[c].query)]
  /\ UNCHANGED <<vars, createdAt, history>>

LastPage(c) == walk[c].page >= totalPages(walk[c].query, walk[c].total)
BothAnswered(c) == walk[c].found # Null /\ walk[c].total # Null

\* Promise.all resolves, the page goes out with its meta, and the client decides
\* from the meta whether to go on.
RespondPage(c) ==
  /\ walk[c].at = "queries" /\ BothAnswered(c)
  /\ walk' = [walk EXCEPT ![c].at = IF LastPage(c) THEN "done" ELSE "next"]
  /\ UNCHANGED <<vars, createdAt, history>>

\* Either statement fails, the client gets a 500 and gives up.
ListQueryFails(c) ==
  /\ walk[c].at = "queries" /\ ~BothAnswered(c)
  /\ DatabaseFails
  /\ walk' = [walk EXCEPT ![c] = NoWalk]
  /\ history' = [history EXCEPT ![c] = NoHistory]
  /\ UNCHANGED <<tables, requestVars, crashes, ghosts, createdAt>>
-----------------------------------------------------------------------------
Walking(c) == walk[c].at \in {"queries", "next"}
HalfAnswered(c) == walk[c].at = "queries" /\ (walk[c].found = Null) # (walk[c].total = Null)

\* What a write does to the tickets client c wants.
Observed(c) ==
  LET before == Matching(walk[c].query)
      after == Matching(walk[c].query)'
  IN IF ~Walking(c) \/ before = after THEN history[c]
     ELSE [history[c] EXCEPT !.left = @ \cup (before \ after),
                             !.joined = @ \cup (after \ before),
                             !.still = @ /\ ~HalfAnswered(c),
                             !.steady = @ /\ ~HalfAnswered(c)]

\* The ticket endpoints go on meanwhile.
Meanwhile == \E r \in Requests :
  /\ Receive(r) \/ Step(r) \/ QueryFails(r)
  /\ UNCHANGED <<createdAt, walk>>
  /\ history' = [c \in Readers |-> Observed(c)]

\* The process dies under everybody; clients in the middle of a page give up.
ListCrash ==
  /\ Crash
  /\ UNCHANGED createdAt
  /\ walk' = [c \in Readers |-> IF walk[c].at = "queries" THEN NoWalk ELSE walk[c]]
  /\ history' = [c \in Readers |-> IF walk[c].at = "queries" THEN NoHistory ELSE history[c]]

ReadStep(c) == NextPage(c) \/ FindPage(c) \/ CountAll(c) \/ RespondPage(c)

ListNext ==
  \/ \E c \in Readers : FirstPage(c) \/ ReadStep(c) \/ ListQueryFails(c)
  \/ Meanwhile
  \/ ListCrash

ListSpec == ListInit /\ [][ListNext]_listAllVars
-----------------------------------------------------------------------------
(* Properties *)

ByCreation(c) == walk[c].query # Null /\ walk[c].query.sortBy = "createdAt"

\* No other ticket the walk could have met was created in the same millisecond.
Alone(c, x) == \A y \in history[c].started \cup history[c].joined :
                 y # x => createdAt[y] # createdAt[x]
SomeBefore(c, ids, x) == \E y \in ids : Before(walk[c].query, y, x)

\* A ticket of the start that nothing moved up the list: it is still there, and
\* so are those that stood before it.
Stayed(c, x) == /\ x \in history[c].started \ history[c].left /\ Alone(c, x)
                /\ ~SomeBefore(c, history[c].left, x)

\* Sorted by createdAt, a client that stops where the meta tells it to has been
\* shown every ticket that was there when it began, whatever joined or left
\* meanwhile, except: a ticket that left itself, one that another stood before
\* and left, and one that shares its createdAt with another of the walk.
\* Provided also that no page and its total were read on two sides of a write
\* (skip and take in getAllTickets, totalPages in the controller).
WalkMissesNothing == \A c \in Readers :
  walk[c].at = "done" /\ ByCreation(c) /\ history[c].steady =>
    \A x \in history[c].started : Stayed(c, x) => x \in Range(history[c].shown)

\* Sorted by createdAt, no ticket is shown twice, whatever leaves or joins
\* meanwhile, except: a ticket that another joined before, and one that shares
\* its createdAt with another of the walk (skip in getAllTickets).
WalkRepeatsNothing == \A c \in Readers : ByCreation(c) =>
  \A i, j \in DOMAIN history[c].shown :
    LET x == history[c].shown[i]
    IN i # j /\ x = history[c].shown[j] =>
         ~Alone(c, x) \/ SomeBefore(c, history[c].joined, x)

\* Under every filter, scope and order, the meta says that there is a next page
\* exactly when rows follow the page, if no write came between the two
\* statements (one `where` for both, getAllTickets).
PageAndTotalAgree == \A c \in Readers :
  walk[c].at = "queries" /\ BothAnswered(c) /\ history[c].still =>
    (history[c].more <=> ~LastPage(c))
=============================================================================
