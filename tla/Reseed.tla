------------------------------- MODULE Reseed -------------------------------
(***************************************************************************)
(* prisma/seed.js run against a database the API is serving: it clears     *)
(* every table and inserts its rows again, statement by statement and      *)
(* without a transaction, between the statements of Accounts and Tags, of  *)
(* customers who file tickets and of the in-app listeners these set off.   *)
(*                                                                         *)
(* Tables are cleared children first; every foreign key is RESTRICT but    *)
(* that of a ticket's agent, which the customer's makes moot.  A statement *)
(* that is refused ends the script where it is.                            *)
(***************************************************************************)
EXTENDS Tags, SequencesExt

CONSTANTS
  ScriptUsers,             \* the User rows the script inserts
  ScriptTags,              \* the names of its tags
  Customer, Agent,         \* e-mails of the two users its other rows refer to
  MaxTickets, MaxSeeds     \* bounds: ticket ids, runs of the script

VARIABLES
  tickets, nextTicketId,   \* the customer of each ticket, by id
  comments, watchers,      \* sets of <<ticket, user>>
  notifications,           \* users that have one
  telling,                 \* listeners of ticket.created at work, see Listener
  step,                    \* what the script does next
  made,                    \* the ids the database gave its rows
  refused,                 \* e-mails or names it was refused of those sent together
  seeds,                   \* runs begun
  meddled                  \* ghost: somebody wrote to a table already cleared

childVars == <<tickets, nextTicketId, comments, watchers, notifications>>
scriptVars == <<step, made, refused, seeds>>
seedVars == <<accessVars, childVars, telling, scriptVars, meddled>>
-----------------------------------------------------------------------------
\* Mutant: parents first.
ParentsFirst == <<"user", "tag", "ticket", "comment", "ticketTag", "ticketWatcher",
                  "notification">>

\* The deleteMany calls, in the script's order, and the inserts that follow.
ClearOrder == <<"notification", "ticketWatcher", "ticketTag", "comment", "ticket",
                "tag", "user">>
InsertOrder == <<"users", "tags", "tickets", "links", "commentRows", "watcherRows",
                 "notificationRows">>
Script == ClearOrder \o InsertOrder

\* A table, or what the script remembers, with one more row.
With(table, key, value) ==
  [k \in DOMAIN table \cup {key} |-> IF k = key THEN value ELSE table[k]]

Running == step \in 1..Len(Script)
At(name) == Running /\ Script[step] = name
NothingMade == [users |-> <<>>, tags |-> <<>>, ticket |-> Null]

ASSUME SeedScriptAssumption ==
  /\ ScriptUsers \subseteq UserRow /\ ScriptTags \subseteq Names
  /\ \E u, v \in ScriptUsers : u.email = Customer /\ v.email = Agent
  /\ \A u, v \in ScriptUsers : u.email = v.email => u = v
  /\ IsFiniteSet(ScriptUsers) /\ IsFiniteSet(ScriptTags)
  /\ {1, 2} \subseteq DOMAIN InitialUsers /\ \A link \in InitialLinks : link[1] = 1
  /\ MaxTickets \in Nat \ {0} /\ MaxSeeds \in Nat /\ Null \notin 1..MaxTickets

\* One run of the in-app listener: its ticket, whose customer it tells, and the
\* agents it tells too, once it has found them.
Listener == [ticket : 1..MaxTickets, customer : UserIds,
             agents : (SUBSET UserIds) \cup {Null}]

SeedTypeOK ==
  /\ AccessTypeOK
  /\ telling \subseteq Listener
  /\ DOMAIN tickets \subseteq 1..MaxTickets
  /\ \A id \in DOMAIN tickets : tickets[id] \in DOMAIN users
  /\ comments \cup watchers \subseteq (DOMAIN tickets) \X (DOMAIN users)
  /\ \A link \in ticketTags : link[1] \in DOMAIN tickets
  /\ notifications \subseteq DOMAIN users
  /\ step \in 0..(Len(Script) + 2)

\* A database that was seeded and used, so that every table has a row and the rows
\* refer to each other, or one in which an aborted run left parents only.
SeedInit ==
  /\ AccessInit
  /\ tickets = [id \in {1} |-> 1] /\ nextTicketId = 2
  /\ \/ comments = {<<1, 2>>} /\ watchers = {<<1, 1>>} /\ notifications = {2}
     \/ comments = {} /\ watchers = {} /\ notifications = {}
  /\ telling = {}
  /\ step = 0 /\ made = NothingMade /\ refused = {} /\ seeds = 0
  /\ meddled = FALSE
-----------------------------------------------------------------------------
\* The script ends: every statement went through, or one did not.
Done == Len(Script) + 1
Aborted == Len(Script) + 2

NextStep == step' = step + 1
Abort == /\ step' = Aborted
         /\ UNCHANGED <<made, refused, seeds, users, nextUserId, tagVars, childVars>>

\* npx prisma db seed.  Bound: its rows will find ids.
StartSeed ==
  /\ ~Running /\ seeds < MaxSeeds
  /\ RoomForUsers(Cardinality(ScriptUsers)) /\ RoomForTags(Cardinality(ScriptTags))
  /\ nextTicketId <= MaxTickets
  /\ step' = 1 /\ seeds' = seeds + 1 /\ made' = NothingMade /\ refused' = {}
  /\ meddled' = FALSE
  /\ UNCHANGED <<accessVars, childVars, telling>>

\* Whether a row of another table still refers to a user, or to a ticket.
UserReferred == \/ DOMAIN tickets # {} \/ comments # {}
                \/ watchers # {} \/ notifications # {}
TicketReferred == comments # {} \/ watchers # {} \/ ticketTags # {}

\* Mutant: the User table is emptied with TRUNCATE, and its ids start again.
TruncateUsers == users' = <<>> /\ nextUserId' = 1

\* DELETE FROM User: AUTO_INCREMENT goes on where it was.
ClearUsers == users' = <<>> /\ UNCHANGED nextUserId

\* The next deleteMany, or its refusal by a foreign key.
ClearTable ==
  /\ step \in 1..Len(ClearOrder)
  /\ LET table == Script[step]
         keep(t) == table # t
     IN \/ /\ \/ table = "user" /\ UserReferred
              \/ table = "ticket" /\ TicketReferred
              \/ table = "tag" /\ ticketTags # {}
           /\ Abort
        \/ /\ table = "user" => ~UserReferred
           /\ table = "ticket" => ~TicketReferred
           /\ table = "tag" => ticketTags = {}
           /\ notifications' = IF keep("notification") THEN notifications ELSE {}
           /\ watchers' = IF keep("ticketWatcher") THEN watchers ELSE {}
           /\ ticketTags' = IF keep("ticketTag") THEN ticketTags ELSE {}
           /\ comments' = IF keep("comment") THEN comments ELSE {}
           /\ tickets' = IF keep("ticket") THEN tickets ELSE <<>>
           /\ tags' = IF keep("tag") THEN tags ELSE <<>>
           /\ IF keep("user") THEN UNCHANGED <<users, nextUserId>> ELSE ClearUsers
           /\ NextStep
           /\ UNCHANGED <<nextTicketId, nextTagId, made, refused, seeds>>

\* One of the user.create calls that were sent together, in any order: the last
\* answer lets the script go on.  A refusal ends it, but not before some of the
\* others may have been committed too.
InsertUsers ==
  /\ At("users")
  /\ \/ \E user \in {u \in ScriptUsers : u.email \notin DOMAIN made.users \cup refused} :
          \/ /\ EmailTaken(user.email)
             /\ refused' = refused \cup {user.email}
             /\ UNCHANGED <<step, made, seeds, users, nextUserId, tagVars, childVars>>
          \/ /\ InsertUser(user)
             /\ made' = [made EXCEPT !.users = With(@, user.email, nextUserId)]
             /\ IF Cardinality(DOMAIN made'.users) = Cardinality(ScriptUsers)
                THEN NextStep ELSE UNCHANGED step
             /\ UNCHANGED <<refused, seeds, tagVars, childVars>>
     \/ refused # {} /\ Abort

\* The same for the tag.create calls.
InsertTags ==
  /\ At("tags")
  /\ \/ \E name \in ScriptTags \ (DOMAIN made.tags \cup refused) :
          \/ /\ NameTaken(name, nextTagId)
             /\ refused' = refused \cup {name}
             /\ UNCHANGED <<step, made, seeds, users, nextUserId, tagVars, childVars>>
          \/ /\ InsertTag(name)
             /\ made' = [made EXCEPT !.tags = With(@, name, nextTagId)]
             /\ IF Cardinality(DOMAIN made'.tags) = Cardinality(ScriptTags)
                THEN NextStep ELSE UNCHANGED step
             /\ UNCHANGED <<users, nextUserId, refused, seeds, childVars>>
     \/ refused # {} /\ Abort

\* INSERT INTO Ticket, whose customer must exist.
InsertTicket(customerId) ==
  /\ customerId \in DOMAIN users
  /\ tickets' = With(tickets, nextTicketId, customerId)
  /\ nextTicketId' = nextTicketId + 1
  /\ UNCHANGED <<comments, watchers, notifications>>

\* Bound: one ticket stands for the four.  Its customer is there: nothing but the
\* script deletes users.
InsertTickets ==
  /\ At("tickets")
  /\ InsertTicket(made.users[Customer])
  /\ made' = [made EXCEPT !.ticket = nextTicketId]
  /\ NextStep
  /\ UNCHANGED <<users, nextUserId, tagVars, refused, seeds>>

\* The rows that refer to the ticket, and the notification: a ticket or a tag
\* somebody has deleted meanwhile makes a foreign key refuse them.
InsertChildren ==
  /\ step \in (Len(ClearOrder) + 4)..Len(Script)
  /\ LET madeTags == Range(made.tags)
         customer == made.users[Customer]
         agent == made.users[Agent]
         gone == \/ made.ticket \notin DOMAIN tickets /\ ~At("notificationRows")
                 \/ At("links") /\ ~(madeTags \subseteq DOMAIN tags)
     IN \/ gone /\ Abort
        \/ /\ ~gone
           /\ ticketTags' = ticketTags \cup
                IF At("links") THEN {made.ticket} \X madeTags ELSE {}
           /\ comments' = comments \cup
                IF At("commentRows") THEN {<<made.ticket, agent>>} ELSE {}
           /\ watchers' = watchers \cup
                IF At("watcherRows") THEN {<<made.ticket, customer>>} ELSE {}
           /\ notifications' = notifications \cup
                IF At("notificationRows") THEN {agent} ELSE {}
           /\ NextStep
           /\ UNCHANGED <<tickets, nextTicketId, users, nextUserId, tags, nextTagId,
                          made, refused, seeds>>

\* Connection lost, or the script killed, between any two statements.
ScriptFails == Running /\ DatabaseFails /\ Abort

ScriptStep == ClearTable \/ InsertUsers \/ InsertTags \/ InsertTickets \/ InsertChildren

\* What the script never touches.
Elsewhere == <<limiterVars, tokens, authVars, restarts, admitted, tagRequestVars,
               telling, meddled>>
-----------------------------------------------------------------------------
\* POST /tickets and DELETE /tickets/:id as single steps, by whoever has a token;
\* a token whose user is gone is refused by the foreign key, with a 409.  The
\* first ends by setting off the listener.
FileTicket == \E t \in tokens :
  /\ t.role = "customer" /\ nextTicketId < MaxTickets
  /\ InsertTicket(t.sub)
  /\ telling' = telling \cup {[ticket |-> nextTicketId, customer |-> t.sub, agents |-> Null]}
  /\ UNCHANGED accessVars

RemoveTicket == \E t \in tokens, id \in DOMAIN tickets :
  /\ t.role # "customer"
  /\ \A pair \in comments \cup watchers \cup ticketTags : pair[1] # id
  /\ tickets' = Restrict(tickets, DOMAIN tickets \ {id})
  /\ UNCHANGED <<accessVars, nextTicketId, comments, watchers, notifications, telling>>

\* The listener's findMany answers: the agents of this moment.
FindAgents == \E l \in telling :
  /\ l.agents = Null
  /\ telling' = (telling \ {l}) \cup
       {[l EXCEPT !.agents = {id \in DOMAIN users : users[id].role = "agent"}]}
  /\ UNCHANGED <<accessVars, childVars>>

\* Its createMany: a row for the customer and one for each of these agents, or
\* for nobody if one of them is gone, which the listener only logs.
Recipients(l) == {l.customer} \cup l.agents
InsertNotifications == \E l \in telling :
  /\ l.agents # Null
  /\ notifications' = notifications \cup
       IF Recipients(l) \subseteq DOMAIN users THEN Recipients(l) ELSE {}
  /\ telling' = telling \ {l}
  /\ UNCHANGED <<accessVars, tickets, nextTicketId, comments, watchers>>

\* Either query fails, and the listener only logs it.
ListenerFails == \E l \in telling :
  /\ DatabaseFails
  /\ telling' = telling \ {l}
  /\ UNCHANGED <<limiterVars, accountVars, authVars, restarts, admitted, tagVars,
                 tagRequestVars, childVars>>

\* A write to a table the script has cleared, while it runs or after it ended.
Meddles ==
  LET cleared == {ClearOrder[k] : k \in {n \in DOMAIN ClearOrder : n < step}}
  IN \/ "notification" \in cleared /\ notifications' # notifications
     \/ "user" \in cleared /\ users' # users
     \/ "tag" \in cleared /\ tags' # tags
     \/ "ticket" \in cleared /\ tickets' # tickets

\* Bound: requests leave the script the ids it is going to need.
IdsLeft ==
  Running =>
    /\ RoomForUsers(IF step > Len(ClearOrder) + 1 THEN 0
                    ELSE Cardinality(ScriptUsers) - Cardinality(DOMAIN made.users))
    /\ RoomForTags(IF step > Len(ClearOrder) + 2 THEN 0
                   ELSE Cardinality(ScriptTags) - Cardinality(DOMAIN made.tags))

ApiNext ==
  /\ \/ /\ AccessNext /\ UNCHANGED childVars
        /\ telling' = IF restarts' # restarts THEN {} ELSE telling
     \/ FileTicket \/ RemoveTicket
     \/ FindAgents \/ InsertNotifications \/ ListenerFails
  /\ meddled' = (meddled \/ Meddles)
  /\ UNCHANGED scriptVars /\ IdsLeft'

SeedNext ==
  \/ ApiNext
  \/ StartSeed
  \/ (ScriptStep /\ UNCHANGED <<faults, Elsewhere>>)
  \/ (ScriptFails /\ UNCHANGED Elsewhere)

SeedSpec == SeedInit /\ [][SeedNext]_seedVars
-----------------------------------------------------------------------------
(* Properties *)

\* A token names the account it was given for, or nobody: after the users have
\* been deleted and inserted again under the same e-mails, an old token never
\* speaks for somebody else (authenticate, which believes `sub` and `role`, and
\* deleteMany in the script, after which AUTO_INCREMENT goes on).
TokensNameTheirHolder == \A t \in tokens : t.sub \in DOMAIN users =>
  users[t.sub].email = t.email /\ users[t.sub].role = t.role

\* What the script leaves.
AsSeeded ==
  /\ Range(users) = ScriptUsers /\ Range(tags) = ScriptTags
  /\ \E id \in DOMAIN tickets :
       /\ DOMAIN tickets = {id} /\ users[tickets[id]].email = Customer
       /\ ticketTags = {id} \X (DOMAIN tags)
       /\ {<<c[1], users[c[2]].email>> : c \in comments} = {<<id, Agent>>}
       /\ {<<w[1], users[w[2]].email>> : w \in watchers} = {<<id, Customer>>}
  /\ {users[u].email : u \in notifications} = {Agent}

\* "safe to re-run": over any database, one that an aborted run left included,
\* the script ends with exactly its own rows, unless its connection fails or the
\* API writes to a table it has already cleared: by a request, or by the listener
\* of a ticket filed earlier, even before the script began (main of seed.js,
\* children first).
SafeToRerun ==
  /\ step = Aborted /\ faults = 0 => meddled
  /\ step = Done /\ ~meddled => AsSeeded
=============================================================================
