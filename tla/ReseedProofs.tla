---------------------------- MODULE ReseedProofs ----------------------------
(***************************************************************************)
(* Proofs about Reseed, for any database, any number of runs of the script *)
(* and any requests and listeners beside them: foreign keys hold at every  *)
(* statement, a token names its holder or nobody, and the script ends with *)
(* exactly its rows unless its connection fails or somebody, a listener    *)
(* included, writes to a table it has cleared.                             *)
(***************************************************************************)
EXTENDS Reseed, AccessProofs

(* The inductive invariant, in parts *)

\* Where the script is: 1 to 7 clear the tables in ClearOrder, 8 to 14 insert the
\* rows of InsertOrder, 15 is Done and 16 Aborted.
ScriptEmails == {u.email : u \in ScriptUsers}

\* What the script remembers of its inserts: nothing before the first, and the ids
\* of all its users, and all its tags, once it is past them.
MadeRecorded ==
  /\ made = [users |-> made.users, tags |-> made.tags, ticket |-> made.ticket]
  /\ DOMAIN made.users \subseteq ScriptEmails /\ DOMAIN made.tags \subseteq ScriptTags
  /\ step \in 1..7 => made = NothingMade
  /\ step \in 9..15 => DOMAIN made.users = ScriptEmails
  /\ step \in 10..15 => DOMAIN made.tags = ScriptTags

\* Nobody deletes its users while it runs.
MadeStand == step \in 8..15 => \A e \in DOMAIN made.users : made.users[e] \in DOMAIN users

\* The bound on ids: the script has one left for its ticket.
TicketIdsLeft ==
  /\ nextTicketId \in 1..(MaxTickets + 1)
  /\ step \in 1..10 => nextTicketId <= MaxTickets

\* The tables that only the script writes are empty once cleared ...
ChildrenCleared ==
  /\ step \in 3..13 => watchers = {}
  /\ step \in 4..11 => ticketTags = {}
  /\ step \in 5..12 => comments = {}

\* ... and hold its rows in the end, even if requests meddled with the others.
ChildrenMade ==
  /\ step \in 14..15 => watchers = {<<made.ticket, made.users[Customer]>>}
  /\ step \in 12..15 => ticketTags = {made.ticket} \X Range(made.tags)
  /\ step \in 13..15 => comments = {<<made.ticket, made.users[Agent]>>}

\* The tables the API writes too hold nothing but its rows, once cleared.
ParentsMade ==
  /\ step \in 2..14 => notifications = {}
  /\ step = 15 => notifications = {made.users[Agent]}
  /\ step \in 6..10 => DOMAIN tickets = {}
  /\ step \in 11..15 => /\ DOMAIN tickets = {made.ticket}
                        /\ tickets[made.ticket] = made.users[Customer]
  /\ step \in 7..15 => /\ DOMAIN tags = Range(made.tags)
                       /\ \A n \in DOMAIN made.tags : tags[made.tags[n]] = n
  /\ step \in 8..15 =>
       /\ DOMAIN users = Range(made.users)
       /\ \A e \in DOMAIN made.users :
            users[made.users[e]] \in ScriptUsers /\ users[made.users[e]].email = e

\* Only a failing connection or somebody who meddles makes the script abort, or a
\* row it sends be refused.
Unmeddled ==
  /\ meddled \in BOOLEAN
  /\ ~meddled => ParentsMade /\ refused = {}
  /\ step = 16 /\ faults = 0 => meddled

SeedInv == AccessInv /\ SeedTypeOK /\ IdsLeft /\ MadeRecorded /\ MadeStand /\ TicketIdsLeft
             /\ ChildrenCleared /\ ChildrenMade /\ Unmeddled
-----------------------------------------------------------------------------
\* What the script does at each number of step.
LEMMA ScriptLayout ==
  /\ Len(ClearOrder) = 7 /\ Len(Script) = 14 /\ Done = 15 /\ Aborted = 16
  /\ Running <=> step \in 1..14
  /\ Script[1] = "notification" /\ Script[2] = "ticketWatcher" /\ Script[3] = "ticketTag"
  /\ Script[4] = "comment" /\ Script[5] = "ticket" /\ Script[6] = "tag" /\ Script[7] = "user"
  /\ Script[8] = "users" /\ Script[9] = "tags" /\ Script[10] = "tickets"
  /\ Script[11] = "links" /\ Script[12] = "commentRows" /\ Script[13] = "watcherRows"
  /\ Script[14] = "notificationRows"
<1>1. Len(ClearOrder) = 7 /\ Len(Script) = 14
  BY DEF Script, ClearOrder, InsertOrder
<1>2. /\ Script[1] = "notification" /\ Script[2] = "ticketWatcher" /\ Script[3] = "ticketTag"
      /\ Script[4] = "comment" /\ Script[5] = "ticket" /\ Script[6] = "tag" /\ Script[7] = "user"
      /\ Script[8] = "users" /\ Script[9] = "tags" /\ Script[10] = "tickets"
      /\ Script[11] = "links" /\ Script[12] = "commentRows" /\ Script[13] = "watcherRows"
      /\ Script[14] = "notificationRows"
  BY DEF Script, ClearOrder, InsertOrder
<1>3. Done = 15 /\ Aborted = 16
  BY <1>1 DEF Done, Aborted
<1>4. Running <=> step \in 1..14
  BY <1>1 DEF Running
<1> QED BY <1>1, <1>2, <1>3, <1>4

\* Cardinalities of what has been inserted of a finite set.
LEMMA PartOf ==
  ASSUME NEW S, IsFiniteSet(S), NEW T \in SUBSET S, NEW n \in Nat, Cardinality(S) <= n
  PROVE  /\ IsFiniteSet(T) /\ Cardinality(T) \in Nat /\ Cardinality(T) <= n
         /\ Cardinality(T) = n => T = S
         /\ \A e \in S \ T : Cardinality(T \cup {e}) = Cardinality(T) + 1
<1>1. /\ IsFiniteSet(T) /\ Cardinality(T) <= Cardinality(S)
      /\ Cardinality(T) = Cardinality(S) => T = S
  BY FS_Subset
<1>2. Cardinality(T) \in Nat /\ Cardinality(S) \in Nat
  BY <1>1, FS_CardinalityType
<1>3. \A e \in S \ T : Cardinality(T \cup {e}) = Cardinality(T) + 1
  BY <1>1, FS_AddElement
<1> QED BY <1>1, <1>2, <1>3

\* The script's users have as many e-mails as they are at most.
LEMMA EmailsFinite ==
  /\ IsFiniteSet(ScriptEmails) /\ Cardinality(ScriptUsers) \in Nat
  /\ Cardinality(ScriptEmails) <= Cardinality(ScriptUsers)
<1>1. IsFiniteSet(ScriptUsers)
  BY SeedScriptAssumption
<1>2. PICK f : f = [u \in ScriptUsers |-> u.email]
  OBVIOUS
<1>3. f \in Surjection(ScriptUsers, ScriptEmails)
  BY <1>2 DEF ScriptEmails, Surjection
<1> QED BY <1>1, <1>3, FS_Surjection, FS_CardinalityType

\* Seeded databases satisfy every part.
LEMMA SeedInitInv == SeedInit => SeedInv
<1> SUFFICES ASSUME SeedInit PROVE SeedInv
  OBVIOUS
<1>1. AccessInv /\ AccessTypeOK
  BY AccessInitInv DEF SeedInit, AccessInv
<1>2. step = 0 /\ made = NothingMade /\ meddled = FALSE /\ ~Running /\ refused = {}
  BY ScriptLayout DEF SeedInit
<1>3. /\ DOMAIN tickets = {1} /\ tickets[1] = 1 /\ {1, 2} \subseteq DOMAIN users
      /\ \A link \in ticketTags : link[1] = 1
  BY SeedScriptAssumption DEF SeedInit, AccessInit, AccountsInit, TagsInit
<1>4. SeedTypeOK
  <2>1. comments \cup watchers \subseteq (DOMAIN tickets) \X (DOMAIN users)
        /\ notifications \subseteq DOMAIN users
    BY <1>3 DEF SeedInit
  <2>2. MaxTickets \in Nat \ {0} /\ telling \subseteq Listener
    BY SeedScriptAssumption DEF SeedInit
  <2> QED BY <1>1, <1>2, <1>3, <2>1, <2>2, ScriptLayout DEF SeedTypeOK
<1>5. MadeRecorded
  BY <1>2 DEF MadeRecorded, NothingMade
<1>6. MadeStand /\ ChildrenCleared /\ ChildrenMade /\ Unmeddled
  <2>1. MadeStand /\ ChildrenCleared /\ ChildrenMade /\ ParentsMade
    BY <1>2 DEF MadeStand, ChildrenCleared, ChildrenMade, ParentsMade
  <2>2. step # 16
    BY <1>2
  <2>3. meddled \in BOOLEAN
    BY <1>2, Zenon
  <2> QED BY <1>2, <2>1, <2>2, <2>3 DEF Unmeddled
<1>7. TicketIdsLeft /\ IdsLeft
  BY <1>2, SeedScriptAssumption DEF SeedInit, TicketIdsLeft, IdsLeft
<1> QED BY <1>1, <1>4, <1>5, <1>6, <1>7 DEF SeedInv

\* How many users and tags the script has still to insert.
UsersToCome == IF step > 8 THEN 0
               ELSE Cardinality(ScriptUsers) - Cardinality(DOMAIN made.users)
TagsToCome == IF step > 9 THEN 0
              ELSE Cardinality(ScriptTags) - Cardinality(DOMAIN made.tags)

LEMMA ToComeType ==
  ASSUME MadeRecorded, step \in Int
  PROVE  UsersToCome \in Nat /\ TagsToCome \in Nat
<1>1. Cardinality(DOMAIN made.users) \in Nat /\ Cardinality(ScriptUsers) \in Nat
      /\ Cardinality(DOMAIN made.users) <= Cardinality(ScriptUsers)
  BY EmailsFinite, PartOf DEF MadeRecorded
<1>2. IsFiniteSet(ScriptTags) /\ Cardinality(ScriptTags) \in Nat
  BY SeedScriptAssumption, FS_CardinalityType
<1>3. Cardinality(DOMAIN made.tags) \in Nat
      /\ Cardinality(DOMAIN made.tags) <= Cardinality(ScriptTags)
  BY <1>2, PartOf DEF MadeRecorded
<1> QED BY <1>1, <1>2, <1>3 DEF UsersToCome, TagsToCome

\* The bound on ids in these words.
LEMMA IdsLeftMeans ==
  IdsLeft <=> (Running =>
    /\ nextUserId + UsersToCome + Cardinality(Registering) <= MaxUsers + 1
    /\ nextTagId + TagsToCome + Cardinality(Tagging) <= MaxTags + 1)
BY ScriptLayout
DEF IdsLeft, RoomForUsers, RoomForTags, UsersToCome, TagsToCome, Registering, Tagging

LEMMA RequestCounts ==
  Cardinality(Registering) \in Nat /\ Cardinality(Tagging) \in Nat
<1>1. IsFiniteSet(Registering) /\ IsFiniteSet(Tagging)
  BY FS_Subset, AccountsAssumption, TagsAssumption DEF Registering, Tagging
<1> QED BY <1>1, FS_CardinalityType
-----------------------------------------------------------------------------
(* What requests do to the rows the script cares about *)

\* No request takes an account away or changes it (createCustomer).
LEMMA AccountsGrow ==
  ASSUME AccInv,
         \/ \E r \in AuthRequests : AReceive(r) \/ AuthStep(r) \/ AuthQueryFails(r)
         \/ AuthTick \/ AuthRestart
  PROVE  DOMAIN users \subseteq DOMAIN users' /\ faults \in Int /\ faults' \in Int
         /\ faults' >= faults
<1>1. faults \in Int
  BY DEF AccInv, AccountsTypeOK
<1>2. CASE UNCHANGED users
  <2>1. UNCHANGED faults \/ faults' = faults + 1
    BY DEF AReceive, AuthStep, createCustomer, findUserByEmail, SignOrRefuse, AuthQueryFails,
           DatabaseFails, AuthTick, AuthRestart, mishaps
  <2> QED BY <1>1, <1>2, <2>1
<1>3. ASSUME NEW r \in AuthRequests, createCustomer(r)
      PROVE  DOMAIN users \subseteq DOMAIN users' /\ UNCHANGED faults
  BY <1>3 DEF createCustomer, InsertUser, accountVars, mishaps
<1>4. UNCHANGED users \/ \E r \in AuthRequests : createCustomer(r)
  BY DEF AReceive, AuthStep, findUserByEmail, SignOrRefuse, AuthQueryFails, AuthTick,
         AuthRestart, accountVars
<1> QED BY <1>1, <1>2, <1>3, <1>4

LEMMA RowsKept ==
  ASSUME AccessInv, [AccessNext]_accessVars
  PROVE  /\ DOMAIN users \subseteq DOMAIN users' /\ UNCHANGED ticketTags
         /\ faults \in Int /\ faults' \in Int /\ faults' >= faults
<1>1. AccInv /\ faults \in Int
  BY DEF AccessInv, AccInv, AccountsTypeOK
<1>2. CASE AccountsNext
  BY <1>1, <1>2, AccountsGrow DEF AccountsNext, tagVars
<1>3. ASSUME NEW r \in TagRequests, TReceive(r) \/ TagStep(r) \/ TagQueryFails(r)
      PROVE  UNCHANGED <<users, ticketTags>> /\ (UNCHANGED faults \/ faults' = faults + 1)
  <2>1. UNCHANGED users /\ (UNCHANGED faults \/ faults' = faults + 1)
    BY <1>3 DEF TReceive, TagStep, getAllTags, getTagById, WriteTag, TagQueryFails,
                DatabaseFails, allAccounts, accountVars, mishaps
  <2>2. TagCommits(r) => UNCHANGED ticketTags
    BY DEF TagCommits, InsertTag, UpdateTag, DeleteTag
  <2>3. UNCHANGED ticketTags
    BY <1>3, <2>2 DEF TReceive, TagStep, getAllTags, getTagById, WriteTag, TagQueryFails,
                      tagVars
  <2> QED BY <2>1, <2>3
<1>4. CASE AccessRestart
  BY <1>1, <1>4, AccountsGrow DEF AccessRestart, tagVars
<1>5. CASE UNCHANGED accessVars
  BY <1>1, <1>5 DEF accessVars, allAccounts, accountVars, tagVars, mishaps
<1> QED BY <1>1, <1>2, <1>3, <1>4, <1>5 DEF AccessNext

\* What counts as meddling: a write to a parent table the script is past.
LEMMA MeddlingMeans ==
  ASSUME step \in Int, ~Meddles
  PROVE  /\ step > 5 => UNCHANGED tickets
         /\ step > 6 => UNCHANGED tags
         /\ step > 7 => UNCHANGED users
         /\ step > 1 => UNCHANGED notifications
<1> DEFINE cleared == {ClearOrder[k] : k \in {n \in DOMAIN ClearOrder : n < step}}
<1>1. DOMAIN ClearOrder = 1..7 /\ ClearOrder[5] = "ticket"
      /\ ClearOrder[6] = "tag" /\ ClearOrder[7] = "user" /\ ClearOrder[1] = "notification"
  BY DEF ClearOrder
<1>2. /\ step > 5 => "ticket" \in cleared
      /\ step > 6 => "tag" \in cleared
      /\ step > 7 => "user" \in cleared
      /\ step > 1 => "notification" \in cleared
  BY <1>1
<1> QED BY <1>2 DEF Meddles

\* What requests may do to the tickets, and listeners to the notifications.
LEMMA TicketsByRequests ==
  ASSUME SeedTypeOK, ApiNext
  PROVE  /\ [AccessNext]_accessVars \/ ListenerFails
         /\ UNCHANGED <<step, made, refused, comments, watchers>> /\ IdsLeft'
         /\ \/ UNCHANGED <<tickets, nextTicketId>>
            \/ /\ nextTicketId < MaxTickets /\ nextTicketId' = nextTicketId + 1
               /\ \E user \in DOMAIN users : tickets' = With(tickets, nextTicketId, user)
            \/ /\ UNCHANGED nextTicketId
               /\ \E id \in DOMAIN tickets :
                    /\ DOMAIN tickets' = DOMAIN tickets \ {id}
                    /\ \A x \in DOMAIN tickets \ {id} : tickets'[x] = tickets[x]
                    /\ \A pair \in comments \cup watchers \cup ticketTags : pair[1] # id
<1>1. UNCHANGED <<step, made, refused>> /\ IdsLeft'
  BY DEF ApiNext, scriptVars
<1>2. CASE AccessNext /\ UNCHANGED childVars
  BY <1>1, <1>2 DEF childVars
<1>3. CASE FileTicket
  BY <1>1, <1>3 DEF FileTicket, InsertTicket
<1>4. CASE RemoveTicket
  <2>1. PICK id \in DOMAIN tickets :
          /\ \A pair \in comments \cup watchers \cup ticketTags : pair[1] # id
          /\ tickets' = Restrict(tickets, DOMAIN tickets \ {id})
    BY <1>4 DEF RemoveTicket
  <2>2. /\ DOMAIN tickets' = DOMAIN tickets \ {id}
        /\ \A x \in DOMAIN tickets \ {id} : tickets'[x] = tickets[x]
    BY <2>1 DEF Restrict
  <2> QED BY <1>1, <1>4, <2>1, <2>2 DEF RemoveTicket
<1>5. CASE FindAgents \/ InsertNotifications \/ ListenerFails
  BY <1>1, <1>5 DEF FindAgents, InsertNotifications, ListenerFails, childVars
<1> QED BY <1>2, <1>3, <1>4, <1>5 DEF ApiNext

\* A listener is set off for a customer, finds agents, and is done (FileTicket,
\* FindAgents, InsertNotifications).
LEMMA ListenersTyped ==
  ASSUME SeedTypeOK, TicketIdsLeft, ApiNext
  PROVE  telling' \subseteq Listener
<1>1. /\ telling \subseteq Listener /\ tokens \subseteq Token /\ DOMAIN users \subseteq UserIds
  BY DEF SeedTypeOK, AccessTypeOK, AccountsTypeOK
<1>2. CASE AccessNext /\ telling' = IF restarts' # restarts THEN {} ELSE telling
  BY <1>1, <1>2
<1>3. CASE FileTicket
  <2>1. PICK t \in tokens :
          /\ nextTicketId < MaxTickets
          /\ telling' = telling \cup
               {[ticket |-> nextTicketId, customer |-> t.sub, agents |-> Null]}
    BY <1>3 DEF FileTicket
  <2>2. nextTicketId \in 1..MaxTickets /\ t.sub \in UserIds
    BY <1>1, <2>1, SeedScriptAssumption DEF TicketIdsLeft, Token
  <2> QED BY <1>1, <2>1, <2>2 DEF Listener
<1>4. CASE FindAgents
  <2>1. PICK l \in telling :
          telling' = (telling \ {l}) \cup
            {[l EXCEPT !.agents = {id \in DOMAIN users : users[id].role = "agent"}]}
    BY <1>4 DEF FindAgents
  <2>2. {id \in DOMAIN users : users[id].role = "agent"} \in SUBSET UserIds
    BY <1>1
  <2>3. [l EXCEPT !.agents = {id \in DOMAIN users : users[id].role = "agent"}] \in Listener
    BY <1>1, <2>1, <2>2 DEF Listener
  <2> QED BY <1>1, <2>1, <2>3
<1>5. CASE RemoveTicket
  BY <1>1, <1>5 DEF RemoveTicket
<1>6. CASE InsertNotifications \/ ListenerFails
  BY <1>1, <1>6 DEF InsertNotifications, ListenerFails
<1> QED BY <1>2, <1>3, <1>4, <1>5, <1>6 DEF ApiNext

\* The API keeps the accounts and tags right, and the notifications to users it
\* knows (InsertNotifications, Notification_userId_fkey).
LEMMA ApiAccounts ==
  ASSUME SeedTypeOK, AccessInv, ApiNext
  PROVE  /\ AccessInv' /\ DOMAIN users \subseteq DOMAIN users' /\ UNCHANGED ticketTags
         /\ faults \in Int /\ faults' \in Int /\ faults' >= faults
         /\ notifications' \subseteq DOMAIN users'
<1>1. /\ AccInv /\ AccountsTypeOK /\ faults \in 0..MaxFaults /\ MaxFaults \in Nat
      /\ notifications \subseteq DOMAIN users
  BY AccountsAssumption DEF AccessInv, AccInv, AccountsTypeOK, SeedTypeOK
<1>2. CASE ListenerFails
  <2>1. /\ UNCHANGED <<limiterVars, accountVars, authVars, restarts, admitted, tagVars>>
        /\ UNCHANGED tagRequestVars /\ UNCHANGED notifications
        /\ faults' = faults + 1 /\ faults < MaxFaults
    BY <1>2 DEF ListenerFails, DatabaseFails, childVars
  <2>2. faults' \in 0..MaxFaults
    BY <1>1, <2>1
  <2>3. AroundTypeOK'
    BY <1>1, <2>1, <2>2, AroundFrame DEF AccountsTypeOK
  <2>4. AccessInv'
    BY <1>1, <2>1, <2>3, AccountsFrame, TagsFrame
  <2>5. UNCHANGED <<users, ticketTags>>
    BY <2>1 DEF accountVars, tagVars
  <2> QED BY <1>1, <2>1, <2>4, <2>5
<1>3. CASE [AccessNext]_accessVars
  <2>1. /\ AccessInv' /\ DOMAIN users \subseteq DOMAIN users' /\ UNCHANGED ticketTags
        /\ faults \in Int /\ faults' \in Int /\ faults' >= faults
    BY <1>3, AccessNextInv, RowsKept
  <2>2. UNCHANGED notifications \/ InsertNotifications
    BY DEF ApiNext, FileTicket, InsertTicket, RemoveTicket, FindAgents, ListenerFails, childVars
  <2>3. CASE InsertNotifications
    <3>1. PICK to : notifications' = notifications \cup (IF to \subseteq DOMAIN users THEN to ELSE {})
      BY <2>3 DEF InsertNotifications
    <3> QED BY <1>1, <2>1, <3>1
  <2> QED BY <1>1, <2>1, <2>2, <2>3
<1> QED BY <1>2, <1>3, TicketsByRequests

\* Requests leave the script its rows, or have meddled (ApiNext).
LEMMA ApiStep == ASSUME SeedInv, ApiNext PROVE SeedInv'
<1>1. /\ SeedTypeOK /\ AccessInv /\ MadeRecorded /\ step \in 0..16
      /\ comments \cup watchers \subseteq (DOMAIN tickets) \X (DOMAIN users)
      /\ MaxTickets \in Nat
  BY ScriptLayout, SeedScriptAssumption DEF SeedInv, SeedTypeOK
<1>2. /\ UNCHANGED <<step, made, refused, comments, watchers>>
      /\ IdsLeft' /\ AccessInv'
      /\ DOMAIN users \subseteq DOMAIN users' /\ UNCHANGED ticketTags
      /\ faults \in Int /\ faults' \in Int /\ faults' >= faults
      /\ notifications' \subseteq DOMAIN users'
  BY <1>1, TicketsByRequests, ApiAccounts
<1>3. SeedTypeOK' /\ TicketIdsLeft'
  <2>1. AccessTypeOK' /\ step' \in 0..(Len(Script) + 2) /\ TicketIdsLeft
        /\ telling' \subseteq Listener
    BY <1>1, <1>2, ListenersTyped DEF AccessInv, SeedInv, SeedTypeOK
  <2>2. CASE UNCHANGED <<tickets, nextTicketId>>
    BY <1>1, <1>2, <2>1, <2>2 DEF SeedTypeOK, TicketIdsLeft
  <2>3. ASSUME nextTicketId < MaxTickets, nextTicketId' = nextTicketId + 1,
               NEW user \in DOMAIN users, tickets' = With(tickets, nextTicketId, user)
        PROVE  SeedTypeOK' /\ TicketIdsLeft'
    <3>1. PICK n : n = nextTicketId /\ n \in 1..MaxTickets
      BY <1>1, <2>1, <2>3 DEF TicketIdsLeft
    <3>2. /\ DOMAIN tickets' = DOMAIN tickets \cup {n}
          /\ \A x \in DOMAIN tickets' : tickets'[x] = IF x = n THEN user ELSE tickets[x]
      BY <2>3, <3>1 DEF With
    <3>3. TicketIdsLeft'
      BY <1>1, <1>2, <2>1, <2>3, <3>1 DEF TicketIdsLeft
    <3> QED BY <1>1, <1>2, <2>1, <2>3, <3>1, <3>2, <3>3 DEF SeedTypeOK
  <2>4. ASSUME UNCHANGED nextTicketId, NEW id \in DOMAIN tickets,
               DOMAIN tickets' = DOMAIN tickets \ {id},
               \A x \in DOMAIN tickets \ {id} : tickets'[x] = tickets[x],
               \A pair \in comments \cup watchers \cup ticketTags : pair[1] # id
        PROVE  SeedTypeOK' /\ TicketIdsLeft'
    <3>1. TicketIdsLeft'
      BY <1>2, <2>1, <2>4 DEF TicketIdsLeft
    <3>2. comments' \cup watchers' \subseteq (DOMAIN tickets') \X (DOMAIN users')
      <4> SUFFICES ASSUME NEW pair \in comments \cup watchers
                   PROVE  pair \in (DOMAIN tickets') \X (DOMAIN users')
        BY <1>2
      <4>1. pair[1] # id /\ pair \in (DOMAIN tickets) \X (DOMAIN users)
        BY <1>1, <2>4
      <4> QED BY <1>2, <2>4, <4>1
    <3> QED BY <1>1, <1>2, <2>1, <2>4, <3>1, <3>2 DEF SeedTypeOK
  <2> QED BY <1>1, <2>2, <2>3, <2>4, TicketsByRequests
<1>4. MadeRecorded' /\ MadeStand'
  BY <1>2 DEF SeedInv, MadeRecorded, MadeStand
<1>5. ChildrenCleared' /\ ChildrenMade'
  BY <1>2 DEF SeedInv, ChildrenCleared, ChildrenMade
<1>6. Unmeddled'
  <2>1. meddled' = (meddled \/ Meddles) /\ Unmeddled
    BY DEF ApiNext, SeedInv
  <2>2. meddled' \in BOOLEAN
    BY <2>1, Zenon DEF Unmeddled
  <2>3. ASSUME ~meddled' PROVE ParentsMade' /\ refused' = {}
    <3>1. ~meddled /\ ~Meddles
      BY <2>1, <2>3, Zenon
    <3>2. ParentsMade /\ refused = {}
      BY <2>1, <3>1, Zenon DEF Unmeddled
    <3>3. /\ step > 5 => UNCHANGED tickets
          /\ step > 6 => UNCHANGED tags
          /\ step > 7 => UNCHANGED users
          /\ step > 1 => UNCHANGED notifications
      BY <1>1, <3>1, MeddlingMeans
    <3> QED BY <1>1, <1>2, <3>2, <3>3 DEF ParentsMade
  <2>4. ASSUME step' = 16, faults' = 0 PROVE meddled'
    <3>1. faults = 0
      BY <1>1, <1>2, <2>4 DEF AccessInv, AccInv, AccountsTypeOK
    <3>2. meddled
      BY <1>2, <2>1, <2>4, <3>1 DEF Unmeddled
    <3> QED BY <2>1, <3>2, Zenon
  <2> QED BY <2>2, <2>3, <2>4, Zenon DEF Unmeddled
<1> QED BY <1>2, <1>3, <1>4, <1>5, <1>6 DEF SeedInv

\* Nothing happens.
LEMMA SeedStutter == ASSUME SeedInv, UNCHANGED seedVars PROVE SeedInv'
<1>1. /\ UNCHANGED accessVars /\ UNCHANGED <<tickets, nextTicketId, comments, watchers, notifications>>
      /\ UNCHANGED <<step, made, refused, meddled, telling>>
  BY DEF seedVars, childVars, scriptVars
<1>2. UNCHANGED <<users, nextUserId, apc, faults, tags, nextTagId, ticketTags, tcall>>
  BY <1>1 DEF accessVars, allAccounts, accountVars, authVars, mishaps, tagVars, tagRequestVars
<1>3. AccessInv'
  BY <1>1, AccessNextInv DEF SeedInv
<1>4. SeedTypeOK'
  BY <1>1, <1>2, <1>3 DEF SeedInv, SeedTypeOK, AccessInv
<1>5. IdsLeft' /\ MadeRecorded' /\ MadeStand' /\ TicketIdsLeft'
  BY <1>1, <1>2 DEF SeedInv, IdsLeft, RoomForUsers, RoomForTags, Running, MadeRecorded,
                    MadeStand, TicketIdsLeft
<1>6. ChildrenCleared' /\ ChildrenMade'
  BY <1>1, <1>2 DEF SeedInv, ChildrenCleared, ChildrenMade
<1>7. Unmeddled'
  <2>1. ParentsMade => ParentsMade'
    BY <1>1, <1>2 DEF ParentsMade
  <2>2. UNCHANGED <<meddled, step, faults, refused>> /\ Unmeddled
    BY <1>1, <1>2 DEF SeedInv
  <2> QED BY <2>1, <2>2 DEF Unmeddled
<1> QED BY <1>3, <1>4, <1>5, <1>6, <1>7 DEF SeedInv

\* The script is started, over whatever there is (main of seed.js).
LEMMA StartStep == ASSUME SeedInv, StartSeed PROVE SeedInv'
<1>1. /\ UNCHANGED accessVars /\ UNCHANGED <<tickets, nextTicketId, comments, watchers, notifications>>
      /\ step' = 1 /\ made' = NothingMade /\ nextTicketId <= MaxTickets
      /\ refused' = {} /\ UNCHANGED telling
  BY DEF StartSeed, childVars
<1>2. meddled' = FALSE
  BY DEF StartSeed
<1>3. UNCHANGED <<users, nextUserId, apc, tags, nextTagId, ticketTags, tcall>>
  BY <1>1 DEF accessVars, allAccounts, accountVars, authVars, tagVars, tagRequestVars
<1>4. AccessInv'
  BY <1>1, AccessNextInv DEF SeedInv
<1>5. SeedTypeOK'
  BY <1>1, <1>3, <1>4, ScriptLayout DEF SeedInv, SeedTypeOK, AccessInv
<1>6. MadeRecorded' /\ MadeStand' /\ TicketIdsLeft'
  BY <1>1 DEF SeedInv, MadeRecorded, NothingMade, MadeStand, TicketIdsLeft
<1>7. IdsLeft'
  <2>1. /\ nextUserId + Cardinality(ScriptUsers) + Cardinality(Registering) <= MaxUsers + 1
        /\ nextTagId + Cardinality(ScriptTags) + Cardinality(Tagging) <= MaxTags + 1
    BY DEF StartSeed, RoomForUsers, RoomForTags, Registering, Tagging
  <2>2. UNCHANGED <<Registering, Tagging>>
    BY <1>3 DEF Registering, Tagging
  <2>3. UsersToCome' = Cardinality(ScriptUsers) /\ TagsToCome' = Cardinality(ScriptTags)
    <3>1. DOMAIN made'.users = {} /\ DOMAIN made'.tags = {}
      BY <1>1 DEF NothingMade
    <3>2. Cardinality(ScriptUsers) \in Nat /\ Cardinality(ScriptTags) \in Nat
      BY SeedScriptAssumption, FS_CardinalityType
    <3> QED BY <1>1, <3>1, <3>2, FS_EmptySet DEF UsersToCome, TagsToCome
  <2>4. (nextUserId + UsersToCome + Cardinality(Registering) <= MaxUsers + 1)'
        /\ (nextTagId + TagsToCome + Cardinality(Tagging) <= MaxTags + 1)'
    BY <1>3, <2>1, <2>2, <2>3
  <2>5. (IdsLeft <=> (Running =>
          /\ nextUserId + UsersToCome + Cardinality(Registering) <= MaxUsers + 1
          /\ nextTagId + TagsToCome + Cardinality(Tagging) <= MaxTags + 1))'
    BY IdsLeftMeans, PTL
  <2> QED BY <2>4, <2>5
<1>8. ChildrenCleared' /\ ChildrenMade' /\ ParentsMade'
  BY <1>1 DEF ChildrenCleared, ChildrenMade, ParentsMade
<1>9. Unmeddled'
  <2>1. meddled' \in BOOLEAN
    BY <1>2, Zenon
  <2>2. step' # 16 /\ refused' = {}
    BY <1>1
  <2> QED BY <1>8, <2>1, <2>2 DEF Unmeddled
<1> QED BY <1>4, <1>5, <1>6, <1>7, <1>8, <1>9 DEF SeedInv

\* The script ends where it is, for a reason (Abort).
LEMMA AbortStep ==
  ASSUME SeedInv, Abort, UNCHANGED <<meddled, telling>>, AccessInv', faults' = 0 => meddled
  PROVE  SeedInv'
<1>1. /\ step' = 16 /\ UNCHANGED made /\ UNCHANGED <<users, nextUserId, tags, nextTagId, ticketTags>>
      /\ UNCHANGED <<tickets, nextTicketId, comments, watchers, notifications>>
      /\ UNCHANGED refused
  BY ScriptLayout DEF Abort, tagVars, childVars
<1>2. SeedTypeOK'
  BY <1>1, ScriptLayout DEF SeedInv, SeedTypeOK, AccessInv
<1>3. IdsLeft' /\ MadeStand' /\ TicketIdsLeft'
  <2>1. ~Running'
    BY <1>1, ScriptLayout DEF Running
  <2> QED BY <1>1, <2>1 DEF SeedInv, IdsLeft, MadeStand, TicketIdsLeft
<1>4. MadeRecorded'
  BY <1>1 DEF SeedInv, MadeRecorded
<1>5. ChildrenCleared' /\ ChildrenMade' /\ ParentsMade'
  BY <1>1 DEF ChildrenCleared, ChildrenMade, ParentsMade
<1>6. Unmeddled'
  <2>1. meddled' \in BOOLEAN
    BY Zenon DEF SeedInv, Unmeddled
  <2>2. faults' = 0 => meddled'
    OBVIOUS
  <2>3. ~meddled' => refused' = {}
    BY <1>1, Zenon DEF SeedInv, Unmeddled
  <2> QED BY <1>5, <2>1, <2>2, <2>3 DEF Unmeddled
<1> QED BY <1>2, <1>3, <1>4, <1>5, <1>6 DEF SeedInv

\* Its connection fails, or it is killed (ScriptFails).
LEMMA ScriptFailStep ==
  ASSUME SeedInv, ScriptFails, UNCHANGED Elsewhere PROVE SeedInv'
<1>1. /\ UNCHANGED <<users, nextUserId, tagVars, limiterVars, tokens, authVars, restarts, admitted>>
      /\ UNCHANGED tagRequestVars /\ faults' = faults + 1 /\ faults < MaxFaults /\ Abort
  BY DEF ScriptFails, DatabaseFails, Abort, Elsewhere
<1>2. AccessInv /\ AccInv /\ AccountsTypeOK /\ faults \in 0..MaxFaults /\ MaxFaults \in Nat
  BY AccountsAssumption DEF SeedInv, AccessInv, AccInv, AccountsTypeOK
<1>3. faults' \in 0..MaxFaults /\ faults' # 0
  BY <1>1, <1>2
<1>4. AccessInv'
  <2>1. AroundTypeOK'
    BY <1>1, <1>2, <1>3, AroundFrame DEF AccountsTypeOK
  <2>2. UNCHANGED <<accountVars, authVars>>
    BY <1>1 DEF accountVars
  <2> QED BY <1>1, <1>2, <2>1, <2>2, AccountsFrame, TagsFrame
<1>5. UNCHANGED <<meddled, telling>>
  BY DEF Elsewhere
<1> QED BY <1>1, <1>3, <1>4, <1>5, AbortStep
-----------------------------------------------------------------------------
(* The statements of the script *)

\* What no statement of the script touches (Elsewhere).
LEMMA ElsewhereKept ==
  ASSUME UNCHANGED <<faults, Elsewhere>>
  PROVE  /\ UNCHANGED <<limiterVars, tokens, authVars, restarts, admitted, faults, meddled>>
         /\ UNCHANGED tagRequestVars /\ UNCHANGED <<Registering, Tagging>>
         /\ UNCHANGED telling
BY DEF Elsewhere, authVars, tagRequestVars, Registering, Tagging

\* A statement keeps the accounts right if no id comes back.
LEMMA AccountsByScript ==
  ASSUME AccInv, UNCHANGED <<faults, Elsewhere>>, UsersKept, OneAccountPerEmail', ARoomLeft'
  PROVE  AccInv'
<1>1. /\ UNCHANGED <<limiterVars, tokens, authVars, restarts, admitted, faults>>
      /\ UNCHANGED <<apc, acall, areply, row>> /\ AccountsTypeOK
  BY ElsewhereKept DEF authVars, AccInv
<1>2. AroundTypeOK'
  BY <1>1, AroundFrame DEF AccountsTypeOK
<1>3. AccountsTypeOK'
  BY <1>1, <1>2, TokensFrame DEF AccountsTypeOK, AroundTypeOK
<1>4. AllACarried'
  BY <1>1, ACarriedFrame DEF AllACarried
<1>5. UsersFresh' /\ TokensHeld'
  BY <1>1, TokensFrame
<1> QED BY <1>2, <1>3, <1>4, <1>5 DEF AccInv, AroundTypeOK

\* The same for a statement that leaves the users alone.
LEMMA AccountsBesideScript ==
  ASSUME AccInv, UNCHANGED <<faults, Elsewhere>>, UNCHANGED <<users, nextUserId>>
  PROVE  AccInv'
<1>1. UsersKept
  BY AccountsAssumption DEF UsersKept, AccInv, AccountsTypeOK, UserIds
<1>2. OneAccountPerEmail' /\ ARoomLeft'
  BY ElsewhereKept DEF AccInv, OneAccountPerEmail, ARoomLeft
<1> QED BY <1>1, <1>2, AccountsByScript

\* A statement keeps the tags right if the tables are.
LEMMA TagsByScript ==
  ASSUME AccessInv, AccInv', UNCHANGED <<faults, Elsewhere>>, TagTablesOK', TRoomLeft'
  PROVE  AccessInv'
<1>1. UNCHANGED <<tpc, tcall, treply, bearer>>
  BY ElsewhereKept DEF tagRequestVars
<1>2. AccessTypeOK'
  BY <1>1 DEF AccessInv, AccessTypeOK, TagTablesOK, AccInv
<1>3. AllTCarried'
  BY <1>1 DEF AccessInv, AllTCarried, TCarried
<1> QED BY <1>2, <1>3 DEF AccessInv, TagTablesOK

\* A statement that leaves room for what is still to come, and takes from it what
\* it takes of the ids, keeps to the bounds (IdsLeft).
LEMMA RoomByScript ==
  ASSUME SeedInv, UNCHANGED <<faults, Elsewhere>>, Running,
         nextUserId' \in Int, nextTagId' \in Int, MadeRecorded', step' \in Int,
         nextUserId' + UsersToCome' <= nextUserId + UsersToCome,
         nextTagId' + TagsToCome' <= nextTagId + TagsToCome
  PROVE  IdsLeft' /\ ARoomLeft' /\ TRoomLeft'
<1>1. /\ nextUserId \in Int /\ nextTagId \in Int /\ MaxUsers \in Nat /\ MaxTags \in Nat
      /\ step \in Int /\ MadeRecorded
  BY ScriptLayout, AccountsAssumption, TagsAssumption
  DEF SeedInv, AccessInv, AccInv, AccountsTypeOK, AccessTypeOK, SeedTypeOK
<1>2. /\ nextUserId + UsersToCome + Cardinality(Registering) <= MaxUsers + 1
      /\ nextTagId + TagsToCome + Cardinality(Tagging) <= MaxTags + 1
  BY IdsLeftMeans DEF SeedInv
<1>3. UNCHANGED <<Registering, Tagging>>
  BY ElsewhereKept
<1>4. UsersToCome \in Nat /\ TagsToCome \in Nat
  BY <1>1, ToComeType
<1>5. UsersToCome' \in Nat /\ TagsToCome' \in Nat
  <2>1. (MadeRecorded /\ step \in Int => UsersToCome \in Nat /\ TagsToCome \in Nat)'
    BY ToComeType, PTL
  <2> QED BY <2>1
<1>6. Cardinality(Registering) \in Nat /\ Cardinality(Tagging) \in Nat
  BY RequestCounts
<1>7. /\ Cardinality(Registering') = Cardinality(Registering)
      /\ Cardinality(Tagging') = Cardinality(Tagging)
  BY <1>3
<1>8. /\ nextUserId' + UsersToCome' + Cardinality(Registering') <= MaxUsers + 1
      /\ nextUserId' + Cardinality(Registering') <= MaxUsers + 1
  <2>1. PICK i, j, k, l, m \in Int :
          /\ i = nextUserId /\ j = UsersToCome /\ k = nextUserId' /\ l = UsersToCome'
          /\ m = Cardinality(Registering)
    BY <1>1, <1>4, <1>5, <1>6
  <2>2. k + l <= i + j
    BY <2>1
  <2>3. i + j + m <= MaxUsers + 1
    BY <1>2, <2>1
  <2>4. l >= 0
    BY <1>5, <2>1
  <2>5. k + l + m <= MaxUsers + 1 /\ k + m <= MaxUsers + 1
    BY <1>1, <2>2, <2>3, <2>4
  <2> QED BY <1>7, <2>1, <2>5
<1>9. /\ nextTagId' + TagsToCome' + Cardinality(Tagging') <= MaxTags + 1
      /\ nextTagId' + Cardinality(Tagging') <= MaxTags + 1
  <2>1. PICK i, j, k, l, m \in Int :
          /\ i = nextTagId /\ j = TagsToCome /\ k = nextTagId' /\ l = TagsToCome'
          /\ m = Cardinality(Tagging)
    BY <1>1, <1>4, <1>5, <1>6
  <2>2. k + l <= i + j
    BY <2>1
  <2>3. i + j + m <= MaxTags + 1
    BY <1>2, <2>1
  <2>4. l >= 0
    BY <1>5, <2>1
  <2>5. k + l + m <= MaxTags + 1 /\ k + m <= MaxTags + 1
    BY <1>1, <2>2, <2>3, <2>4
  <2> QED BY <1>7, <2>1, <2>5
<1>10. IdsLeft'
  <2>1. (IdsLeft <=> (Running =>
          /\ nextUserId + UsersToCome + Cardinality(Registering) <= MaxUsers + 1
          /\ nextTagId + TagsToCome + Cardinality(Tagging) <= MaxTags + 1))'
    BY IdsLeftMeans, PTL
  <2> QED BY <1>8, <1>9, <2>1
<1> QED BY <1>8, <1>9, <1>10 DEF ARoomLeft, TRoomLeft

\* A refusal leaves what requests and clients have as it is.
LEMMA RefusedStep ==
  ASSUME SeedInv, Abort, UNCHANGED <<faults, Elsewhere>>, meddled
  PROVE  SeedInv'
<1>1. UNCHANGED accessVars
  BY DEF Abort, Elsewhere, accessVars, allAccounts, accountVars, mishaps
<1>2. AccessInv'
  BY <1>1, AccessNextInv DEF SeedInv
<1>3. UNCHANGED <<meddled, telling>>
  BY ElsewhereKept
<1> QED BY <1>2, <1>3, AbortStep

\* The script ends once a row it sent was refused.
LEMMA RefusedForReason ==
  ASSUME SeedInv, refused # {}, Abort, UNCHANGED <<faults, Elsewhere>>
  PROVE  SeedInv'
<1>1. meddled
  BY Zenon DEF SeedInv, Unmeddled
<1> QED BY <1>1, RefusedStep

\* A row is refused, because somebody has meddled.
LEMMA RowRefusedStep ==
  ASSUME SeedInv, UNCHANGED <<step, made, users, nextUserId, tagVars, childVars>>,
         UNCHANGED <<faults, Elsewhere>>, meddled
  PROVE  SeedInv'
<1>1. /\ UNCHANGED accessVars /\ UNCHANGED <<meddled, telling>>
      /\ UNCHANGED <<tickets, nextTicketId, comments, watchers, notifications>>
  BY DEF Elsewhere, accessVars, allAccounts, accountVars, mishaps, childVars
<1>2. UNCHANGED <<users, nextUserId, apc, faults, tags, nextTagId, ticketTags, tcall>>
  BY <1>1 DEF accessVars, allAccounts, accountVars, authVars, mishaps, tagVars, tagRequestVars
<1>3. AccessInv'
  BY <1>1, AccessNextInv DEF SeedInv
<1>4. SeedTypeOK'
  BY <1>1, <1>2, <1>3 DEF SeedInv, SeedTypeOK, AccessInv
<1>5. IdsLeft' /\ MadeRecorded' /\ MadeStand' /\ TicketIdsLeft'
  BY <1>1, <1>2 DEF SeedInv, IdsLeft, RoomForUsers, RoomForTags, Running, MadeRecorded,
                    MadeStand, TicketIdsLeft
<1>6. ChildrenCleared' /\ ChildrenMade'
  BY <1>1, <1>2 DEF SeedInv, ChildrenCleared, ChildrenMade
<1>7. Unmeddled'
  <2>1. meddled' \in BOOLEAN /\ meddled'
    BY <1>1, Zenon DEF SeedInv, Unmeddled
  <2> QED BY <2>1, Zenon DEF Unmeddled
<1> QED BY <1>3, <1>4, <1>5, <1>6, <1>7 DEF SeedInv

\* The next deleteMany: children first, so that nothing refers to what goes, unless
\* somebody files tickets behind the script's back (ClearTable).
LEMMA ClearStep ==
  ASSUME SeedInv, ClearTable, UNCHANGED <<faults, Elsewhere>> PROVE SeedInv'
<1>1. /\ step \in 1..7 /\ Running /\ SeedTypeOK /\ AccessInv /\ AccInv /\ MadeRecorded
      /\ made = NothingMade
      /\ ChildrenCleared /\ Unmeddled
  BY ScriptLayout DEF SeedInv, AccessInv, ClearTable, MadeRecorded
<1>2. /\ Script[step] = "notification" <=> step = 1
      /\ Script[step] = "ticketWatcher" <=> step = 2
      /\ Script[step] = "ticketTag" <=> step = 3
      /\ Script[step] = "comment" <=> step = 4
      /\ Script[step] = "ticket" <=> step = 5
      /\ Script[step] = "tag" <=> step = 6
      /\ Script[step] = "user" <=> step = 7
  BY <1>1, ScriptLayout
<1>3. CASE /\ \/ step = 7 /\ UserReferred
              \/ step = 5 /\ TicketReferred
              \/ step = 6 /\ ticketTags # {}
           /\ Abort
  <2>1. ASSUME ~meddled PROVE FALSE
    <3>1. ParentsMade
      BY <1>1, <2>1, Zenon DEF Unmeddled
    <3> QED BY <1>3, <3>1, <1>1 DEF ParentsMade, ChildrenCleared, UserReferred, TicketReferred
  <2> QED BY <1>3, <2>1, RefusedStep
<1>4. CASE /\ step = 7 => ~UserReferred
           /\ step = 5 => ~TicketReferred
           /\ step = 6 => ticketTags = {}
           /\ notifications' = IF step # 1 THEN notifications ELSE {}
           /\ watchers' = IF step # 2 THEN watchers ELSE {}
           /\ ticketTags' = IF step # 3 THEN ticketTags ELSE {}
           /\ comments' = IF step # 4 THEN comments ELSE {}
           /\ tickets' = IF step # 5 THEN tickets ELSE <<>>
           /\ tags' = IF step # 6 THEN tags ELSE <<>>
           /\ users' = IF step # 7 THEN users ELSE <<>>
           /\ step' = step + 1
           /\ UNCHANGED <<nextUserId, nextTicketId, nextTagId, made, refused>>
  <2>1. /\ step' \in 2..8 /\ DOMAIN tickets' = (IF step # 5 THEN DOMAIN tickets ELSE {})
        /\ DOMAIN tags' = (IF step # 6 THEN DOMAIN tags ELSE {})
        /\ DOMAIN users' = (IF step # 7 THEN DOMAIN users ELSE {})
    BY <1>1, <1>4
  <2>2. MadeRecorded'
    BY <1>1, <1>4, <2>1 DEF MadeRecorded
  <2>3. IdsLeft' /\ ARoomLeft' /\ TRoomLeft'
    <3>1. UsersToCome' = UsersToCome /\ TagsToCome' = TagsToCome
      BY <1>1, <1>4, <2>1 DEF UsersToCome, TagsToCome
    <3>2. UsersToCome \in Nat /\ TagsToCome \in Nat
      BY <1>1, ToComeType
    <3>3. nextUserId \in Int /\ nextTagId \in Int
      BY <1>1 DEF AccessInv, AccInv, AccountsTypeOK, AccessTypeOK
    <3> QED BY <1>1, <1>4, <2>1, <2>2, <3>1, <3>2, <3>3, RoomByScript
  <2>4. AccInv'
    <3>1. UsersKept /\ OneAccountPerEmail'
      BY <1>1, <1>4, <2>1, AccountsAssumption
      DEF UsersKept, AccInv, AccountsTypeOK, UserIds, OneAccountPerEmail
    <3> QED BY <1>1, <2>3, <3>1, AccountsByScript
  <2>5. AccessInv'
    <3>1. TagTablesOK'
      BY <1>1, <1>4, <2>1 DEF AccessInv, AccessTypeOK, TagTablesOK, TagsFresh, TagNamesUnique
    <3> QED BY <1>1, <2>3, <2>4, <3>1, TagsByScript
  <2>6. SeedTypeOK'
    <3>1. AccessTypeOK' /\ step' \in 0..(Len(Script) + 2) /\ UNCHANGED telling
      BY <2>1, <2>5, ScriptLayout, ElsewhereKept DEF AccessInv
    <3>2. CASE step \in {1, 2, 3, 4, 6}
      BY <1>1, <1>4, <2>1, <3>1, <3>2 DEF SeedTypeOK
    <3>3. CASE step = 5
      BY <1>1, <1>4, <2>1, <3>1, <3>3 DEF SeedTypeOK, TicketReferred
    <3>4. CASE step = 7
      BY <1>1, <1>4, <2>1, <3>1, <3>4 DEF SeedTypeOK, UserReferred, ChildrenCleared
    <3> QED BY <1>1, <3>2, <3>3, <3>4
  <2>7. MadeStand' /\ TicketIdsLeft' /\ ChildrenMade'
    BY <1>1, <1>4, <2>1 DEF SeedInv, MadeStand, NothingMade, TicketIdsLeft, ChildrenMade
  <2>8. ChildrenCleared'
    BY <1>1, <1>4 DEF ChildrenCleared
  <2>9. Unmeddled'
    <3>1. meddled' = meddled /\ meddled \in BOOLEAN /\ step' # 16 /\ refused' = refused
      BY <1>1, <1>4, <2>1, ElsewhereKept DEF Unmeddled
    <3>2. ASSUME ~meddled PROVE ParentsMade'
      <4>1. ParentsMade
        BY <1>1, <3>2, Zenon DEF Unmeddled
      <4> QED BY <1>1, <1>4, <2>1, <4>1 DEF ParentsMade, NothingMade, Range
    <3>3. ~meddled' => ParentsMade' /\ refused' = {}
      BY <1>1, <3>1, <3>2, Zenon DEF Unmeddled
    <3> QED BY <3>1, <3>3 DEF Unmeddled
  <2> QED BY <2>2, <2>3, <2>5, <2>6, <2>7, <2>8, <2>9 DEF SeedInv
<1> QED BY <1>2, <1>3, <1>4 DEF ClearTable, ClearUsers, NextStep

\* The names of the inserts, as numbers.
LEMMA InsertPlaces ==
  /\ At("users") <=> step = 8
  /\ At("tags") <=> step = 9
  /\ At("tickets") <=> step = 10
  /\ step \in 11..14 =>
       /\ At("links") <=> step = 11
       /\ At("commentRows") <=> step = 12
       /\ At("watcherRows") <=> step = 13
       /\ At("notificationRows") <=> step = 14
<1>1. \A name : At(name) <=> step \in 1..14 /\ Script[step] = name
  BY ScriptLayout DEF At
<1>2. step \in 1..14 => step \in {1, 2, 3, 4, 5, 6, 7} \/ step \in {8, 9, 10, 11, 12, 13, 14}
  OBVIOUS
<1>3. CASE step \in {1, 2, 3, 4, 5, 6, 7}
  BY <1>1, <1>3, ScriptLayout
<1>4. CASE step \in {8, 9, 10, 11, 12, 13, 14}
  BY <1>1, <1>4, ScriptLayout
<1>5. CASE step \notin 1..14
  BY <1>1, <1>5
<1> QED BY <1>2, <1>3, <1>4, <1>5

\* One of the script's users is inserted: its e-mail is nobody's, unless somebody
\* has registered it (InsertUsers).
LEMMA InsertUsersStep ==
  ASSUME SeedInv, InsertUsers, UNCHANGED <<faults, Elsewhere>> PROVE SeedInv'
<1>1. /\ step = 8 /\ Running /\ SeedTypeOK /\ AccessInv /\ AccInv /\ AccountsTypeOK /\ MadeRecorded
      /\ MadeStand /\ ChildrenCleared /\ Unmeddled
  BY InsertPlaces DEF SeedInv, AccessInv, AccInv, InsertUsers, At
<1>2. CASE refused # {} /\ Abort
  BY <1>1, <1>2, RefusedForReason
<1>3. ASSUME NEW user \in ScriptUsers, user.email \notin DOMAIN made.users,
             EmailTaken(user.email),
             UNCHANGED <<step, made, users, nextUserId, tagVars, childVars>>
      PROVE  SeedInv'
  <2>1. ASSUME ~meddled PROVE FALSE
    <3>1. ParentsMade
      BY <1>1, <2>1, Zenon DEF Unmeddled
    <3> QED BY <1>1, <1>3, <3>1 DEF ParentsMade, EmailTaken, Range
  <2> QED BY <1>3, <2>1, RowRefusedStep
<1>4. ASSUME NEW user \in ScriptUsers, user.email \notin DOMAIN made.users,
             InsertUser(user),
             made' = [made EXCEPT !.users = With(@, user.email, nextUserId)],
             IF Cardinality(DOMAIN made'.users) = Cardinality(ScriptUsers)
             THEN NextStep ELSE UNCHANGED step,
             UNCHANGED <<refused, seeds, tagVars, childVars>>
      PROVE  SeedInv'
  <2>1. PICK n, e : n = nextUserId /\ e = user.email
    OBVIOUS
  <2>2. /\ made' = [users |-> made'.users, tags |-> made'.tags, ticket |-> made'.ticket]
        /\ made'.users = With(made.users, e, n) /\ made'.tags = made.tags
    BY <1>1, <1>4, <2>1 DEF MadeRecorded
  <2>3. /\ DOMAIN made'.users = DOMAIN made.users \cup {e} /\ made'.users[e] = n
        /\ \A x \in DOMAIN made.users : made'.users[x] = made.users[x]
    BY <1>4, <2>1, <2>2 DEF With
  <2>4. /\ user \in UserRow /\ e \in ScriptEmails \ DOMAIN made.users
        /\ DOMAIN made'.users \subseteq ScriptEmails
    BY <1>1, <1>4, <2>1, <2>3, SeedScriptAssumption DEF ScriptEmails, MadeRecorded
  <2>5. /\ Cardinality(DOMAIN made.users) \in Nat /\ Cardinality(ScriptUsers) \in Nat
        /\ Cardinality(DOMAIN made'.users) = Cardinality(DOMAIN made.users) + 1
        /\ Cardinality(DOMAIN made'.users) <= Cardinality(ScriptUsers)
        /\ Cardinality(DOMAIN made'.users) = Cardinality(ScriptUsers)
             => DOMAIN made'.users = ScriptEmails
    BY <1>1, <2>3, <2>4, EmailsFinite, PartOf DEF MadeRecorded
  <2>6. \/ step' = 8
        \/ step' = 9 /\ Cardinality(DOMAIN made'.users) = Cardinality(ScriptUsers)
    BY <1>1, <1>4 DEF NextStep
  <2>7. /\ UsersToCome = Cardinality(ScriptUsers) - Cardinality(DOMAIN made.users)
        /\ UsersToCome' = UsersToCome - 1 /\ TagsToCome' = TagsToCome
    BY <1>1, <2>2, <2>5, <2>6 DEF UsersToCome, TagsToCome
  <2>8. n \in UserIds
    <3>1. nextUserId + UsersToCome + Cardinality(Registering) <= MaxUsers + 1
      BY <1>1, IdsLeftMeans DEF SeedInv
    <3>2. UsersToCome \in Int /\ UsersToCome >= 1
      BY <2>5, <2>7
    <3>3. Cardinality(Registering) \in Nat /\ MaxUsers \in Nat /\ n \in 1..(MaxUsers + 1)
      BY <1>1, <2>1, RequestCounts, AccountsAssumption DEF AccountsTypeOK
    <3> QED BY <2>1, <3>1, <3>2, <3>3 DEF UserIds
  <2>9. /\ UsersKept /\ OneAccountPerEmail' /\ nextUserId' = n + 1 /\ n \notin DOMAIN users
        /\ DOMAIN users' = DOMAIN users \cup {n} /\ users'[n] = user
        /\ \A id \in DOMAIN users : users'[id] = users[id]
    <3>1. \A id \in DOMAIN users : id # nextUserId => users'[id] = users[id]
      BY <1>4 DEF InsertUser
    <3> QED BY <1>1, <1>4, <2>1, <2>4, <2>8, <3>1, InsertUserEffect
  <2>10. MadeRecorded'
    <3>1. DOMAIN made'.tags \subseteq ScriptTags
      BY <1>1, <2>2 DEF MadeRecorded
    <3> QED BY <2>2, <2>4, <2>5, <2>6, <3>1 DEF MadeRecorded
  <2>11. UNCHANGED <<tags, nextTagId, ticketTags>> /\ TagTablesOK'
         /\ UNCHANGED <<tickets, nextTicketId, comments, watchers, notifications>>
    BY <1>1, <1>4, TagTablesFrame DEF childVars
  <2>12. IdsLeft' /\ ARoomLeft' /\ TRoomLeft'
    <3>1. nextUserId \in Int /\ nextTagId \in Int /\ UsersToCome \in Nat /\ TagsToCome \in Nat
      BY <1>1, ToComeType DEF AccessInv, AccountsTypeOK, AccessTypeOK
    <3>2. nextUserId' + UsersToCome' <= nextUserId + UsersToCome
      BY <2>1, <2>7, <2>9, <3>1
    <3>3. nextTagId' + TagsToCome' <= nextTagId + TagsToCome
      BY <2>7, <2>11, <3>1
    <3>4. nextUserId' \in Int /\ nextTagId' \in Int /\ step' \in Int
      BY <2>1, <2>6, <2>9, <2>11, <3>1
    <3> QED BY <1>1, <2>10, <3>2, <3>3, <3>4, RoomByScript
  <2>13. AccInv' /\ AccessInv'
    BY <1>1, <2>9, <2>11, <2>12, AccountsByScript, TagsByScript
  <2>14. SeedTypeOK'
    BY <1>1, <2>6, <2>9, <2>11, <2>13, ElsewhereKept, ScriptLayout DEF SeedTypeOK, AccessInv
  <2>15. MadeStand'
    BY <1>1, <2>3, <2>9 DEF MadeStand
  <2>16. TicketIdsLeft' /\ ChildrenCleared' /\ ChildrenMade'
    BY <1>1, <2>6, <2>11 DEF SeedInv, TicketIdsLeft, ChildrenCleared, ChildrenMade
  <2>17. Unmeddled'
    <3>1. meddled' = meddled /\ meddled \in BOOLEAN /\ step' # 16 /\ refused' = refused
      BY <1>1, <1>4, <2>6, ElsewhereKept DEF Unmeddled
    <3>2. ASSUME ~meddled PROVE ParentsMade'
      <4>1. ParentsMade
        BY <1>1, <3>2, Zenon DEF Unmeddled
      <4>2. DOMAIN tickets' = {} /\ notifications' = {} /\ DOMAIN tags' = Range(made'.tags)
            /\ \A x \in DOMAIN made'.tags : tags'[made'.tags[x]] = x
        BY <1>1, <2>2, <2>11, <4>1 DEF ParentsMade
      <4>3. DOMAIN users' = Range(made'.users)
        BY <1>1, <2>3, <2>9, <4>1 DEF ParentsMade, Range
      <4>4. \A x \in DOMAIN made'.users :
              users'[made'.users[x]] \in ScriptUsers /\ users'[made'.users[x]].email = x
        BY <1>1, <1>4, <2>1, <2>3, <2>9, <4>1 DEF ParentsMade, MadeStand
      <4> QED BY <2>6, <4>2, <4>3, <4>4 DEF ParentsMade
    <3>3. ~meddled' => ParentsMade' /\ refused' = {}
      BY <1>1, <3>1, <3>2, Zenon DEF Unmeddled
    <3> QED BY <3>1, <3>3 DEF Unmeddled
  <2> QED BY <2>10, <2>12, <2>13, <2>14, <2>15, <2>16, <2>17 DEF SeedInv
<1> QED BY <1>2, <1>3, <1>4 DEF InsertUsers

\* One of the script's tags is inserted: its name is nobody's, unless somebody has
\* made or renamed a tag (InsertTags).
LEMMA InsertTagsStep ==
  ASSUME SeedInv, InsertTags, UNCHANGED <<faults, Elsewhere>> PROVE SeedInv'
<1>1. /\ step = 9 /\ Running /\ SeedTypeOK /\ AccessInv /\ AccessTypeOK /\ MadeRecorded
      /\ AccInv /\ TagsFresh /\ TagNamesUnique /\ MadeStand /\ ChildrenCleared /\ Unmeddled
  BY InsertPlaces DEF SeedInv, AccessInv, InsertTags, At
<1>2. CASE refused # {} /\ Abort
  BY <1>1, <1>2, RefusedForReason
<1>3. ASSUME NEW name \in ScriptTags \ DOMAIN made.tags, NameTaken(name, nextTagId),
             UNCHANGED <<step, made, users, nextUserId, tagVars, childVars>>
      PROVE  SeedInv'
  <2>1. ASSUME ~meddled PROVE FALSE
    <3>1. ParentsMade
      BY <1>1, <2>1, Zenon DEF Unmeddled
    <3> QED BY <1>1, <1>3, <3>1 DEF ParentsMade, NameTaken, Range
  <2> QED BY <1>3, <2>1, RowRefusedStep
<1>4. ASSUME NEW name \in ScriptTags \ DOMAIN made.tags, InsertTag(name),
             made' = [made EXCEPT !.tags = With(@, name, nextTagId)],
             IF Cardinality(DOMAIN made'.tags) = Cardinality(ScriptTags)
             THEN NextStep ELSE UNCHANGED step,
             UNCHANGED <<users, nextUserId, refused, seeds, childVars>>
      PROVE  SeedInv'
  <2>1. PICK n : n = nextTagId
    OBVIOUS
  <2>2. /\ made' = [users |-> made'.users, tags |-> made'.tags, ticket |-> made'.ticket]
        /\ made'.tags = With(made.tags, name, n) /\ made'.users = made.users
    BY <1>1, <1>4, <2>1 DEF MadeRecorded
  <2>3. /\ DOMAIN made'.tags = DOMAIN made.tags \cup {name} /\ made'.tags[name] = n
        /\ \A x \in DOMAIN made.tags : made'.tags[x] = made.tags[x]
    BY <1>4, <2>1, <2>2 DEF With
  <2>4. /\ name \in Names /\ DOMAIN made'.tags \subseteq ScriptTags
    BY <1>1, <2>3, SeedScriptAssumption DEF MadeRecorded
  <2>5. /\ Cardinality(DOMAIN made.tags) \in Nat /\ Cardinality(ScriptTags) \in Nat
        /\ Cardinality(DOMAIN made'.tags) = Cardinality(DOMAIN made.tags) + 1
        /\ Cardinality(DOMAIN made'.tags) <= Cardinality(ScriptTags)
        /\ Cardinality(DOMAIN made'.tags) = Cardinality(ScriptTags)
             => DOMAIN made'.tags = ScriptTags
    <3>1. IsFiniteSet(ScriptTags) /\ Cardinality(ScriptTags) \in Nat
      BY SeedScriptAssumption, FS_CardinalityType
    <3> QED BY <1>1, <2>3, <2>4, <3>1, PartOf DEF MadeRecorded
  <2>6. \/ step' = 9
        \/ step' = 10 /\ Cardinality(DOMAIN made'.tags) = Cardinality(ScriptTags)
    BY <1>1, <1>4 DEF NextStep
  <2>7. /\ TagsToCome = Cardinality(ScriptTags) - Cardinality(DOMAIN made.tags)
        /\ TagsToCome' = TagsToCome - 1 /\ UsersToCome' = UsersToCome
    BY <1>1, <2>2, <2>5, <2>6 DEF UsersToCome, TagsToCome
  <2>8. n \in TagIds
    <3>1. nextTagId + TagsToCome + Cardinality(Tagging) <= MaxTags + 1
      BY <1>1, IdsLeftMeans DEF SeedInv
    <3>2. TagsToCome \in Int /\ TagsToCome >= 1
      BY <2>5, <2>7
    <3>3. Cardinality(Tagging) \in Nat /\ MaxTags \in Nat /\ n \in 1..(MaxTags + 1)
      BY <1>1, <2>1, RequestCounts, TagsAssumption DEF AccessTypeOK
    <3> QED BY <2>1, <3>1, <3>2, <3>3 DEF TagIds
  <2>9. /\ n \notin DOMAIN tags /\ nextTagId' = n + 1
        /\ DOMAIN tags' = DOMAIN tags \cup {n} /\ tags'[n] = name
        /\ \A x \in DOMAIN tags : tags'[x] = tags[x] /\ tags[x] # name
    <3>1. n \notin DOMAIN tags
      BY <1>1, <2>1 DEF TagsFresh, AccessTypeOK
    <3> QED BY <1>4, <2>1, <3>1 DEF InsertTag, NameTaken
  <2>10. TagTablesOK' /\ UNCHANGED ticketTags
    <3>1. UNCHANGED ticketTags /\ nextTagId \in Int /\ n \in 1..MaxTags /\ MaxTags \in Nat
      BY <1>1, <1>4, <2>8, TagsAssumption DEF InsertTag, AccessTypeOK, TagIds
    <3> QED BY <1>1, <2>1, <2>4, <2>8, <2>9, <3>1
        DEF TagTablesOK, TagsFresh, TagNamesUnique, AccessTypeOK, TagIds
  <2>11. MadeRecorded'
    <3>1. step' \in {9, 10}
      BY <2>6
    <3>2. DOMAIN made'.users = ScriptEmails
      BY <1>1, <2>2 DEF MadeRecorded
    <3> QED BY <2>2, <2>4, <2>5, <2>6, <3>1, <3>2 DEF MadeRecorded
  <2>12. UNCHANGED <<tickets, nextTicketId, comments, watchers, notifications>>
    BY <1>4 DEF childVars
  <2>13. IdsLeft' /\ ARoomLeft' /\ TRoomLeft'
    <3>1. nextUserId \in Int /\ nextTagId \in Int /\ UsersToCome \in Nat /\ TagsToCome \in Nat
      BY <1>1, ToComeType DEF AccInv, AccountsTypeOK, AccessTypeOK
    <3>2. nextUserId' + UsersToCome' <= nextUserId + UsersToCome
      BY <1>4, <2>7, <3>1
    <3>3. nextTagId' + TagsToCome' <= nextTagId + TagsToCome
      BY <2>1, <2>7, <2>9, <3>1
    <3>4. nextUserId' \in Int /\ nextTagId' \in Int /\ step' \in Int
      BY <1>4, <2>1, <2>6, <2>9, <3>1
    <3> QED BY <1>1, <2>11, <3>2, <3>3, <3>4, RoomByScript
  <2>14. AccInv' /\ AccessInv'
    BY <1>1, <1>4, <2>10, <2>13, AccountsBesideScript, TagsByScript
  <2>15. SeedTypeOK'
    BY <1>1, <1>4, <2>6, <2>10, <2>12, <2>14, ElsewhereKept, ScriptLayout
       DEF SeedTypeOK, AccessInv
  <2>16. MadeStand'
    BY <1>1, <1>4, <2>2 DEF MadeStand
  <2>17. TicketIdsLeft' /\ ChildrenCleared' /\ ChildrenMade'
    BY <1>1, <2>6, <2>10, <2>12 DEF SeedInv, TicketIdsLeft, ChildrenCleared, ChildrenMade
  <2>18. Unmeddled'
    <3>1. meddled' = meddled /\ meddled \in BOOLEAN /\ step' # 16 /\ refused' = refused
      BY <1>1, <1>4, <2>6, ElsewhereKept DEF Unmeddled
    <3>2. ASSUME ~meddled PROVE ParentsMade'
      <4>1. ParentsMade
        BY <1>1, <3>2, Zenon DEF Unmeddled
      <4>2. /\ DOMAIN tickets' = {} /\ notifications' = {} /\ DOMAIN users' = Range(made'.users)
            /\ \A e \in DOMAIN made'.users :
                 users'[made'.users[e]] \in ScriptUsers /\ users'[made'.users[e]].email = e
        BY <1>1, <1>4, <2>2, <2>12, <4>1 DEF ParentsMade
      <4>3. DOMAIN tags' = Range(made'.tags)
        BY <1>1, <2>3, <2>9, <4>1, <1>4 DEF ParentsMade, Range
      <4>4. \A x \in DOMAIN made.tags : made.tags[x] \in DOMAIN tags
        BY <1>1, <4>1 DEF ParentsMade, Range
      <4>5. \A x \in DOMAIN made'.tags : tags'[made'.tags[x]] = x
        BY <1>1, <2>3, <2>9, <4>1, <4>4 DEF ParentsMade
      <4> QED BY <2>6, <4>2, <4>3, <4>5 DEF ParentsMade
    <3>3. ~meddled' => ParentsMade' /\ refused' = {}
      BY <1>1, <3>1, <3>2, Zenon DEF Unmeddled
    <3> QED BY <3>1, <3>3 DEF Unmeddled
  <2> QED BY <2>11, <2>13, <2>14, <2>15, <2>16, <2>17, <2>18 DEF SeedInv
<1> QED BY <1>2, <1>3, <1>4 DEF InsertTags

\* Statements about the ticket tables keep accounts, tags and the bounds on ids.
LEMMA BesideScript ==
  ASSUME SeedInv, UNCHANGED <<faults, Elsewhere>>, step \in 10..14, step' \in 11..15,
         UNCHANGED <<users, nextUserId, tags, nextTagId>>,
         UNCHANGED <<made.users, made.tags>>, MadeRecorded',
         \A link \in ticketTags' : link[2] \in DOMAIN tags
  PROVE  AccessInv' /\ AccInv' /\ IdsLeft'
<1>1. /\ AccessInv /\ AccInv /\ Running /\ nextUserId \in Int /\ nextTagId \in Int
      /\ MadeRecorded
  BY ScriptLayout DEF SeedInv, AccessInv, AccInv, AccountsTypeOK, AccessTypeOK
<1>2. UsersToCome' = UsersToCome /\ TagsToCome' = TagsToCome
      /\ UsersToCome \in Nat /\ TagsToCome \in Nat
  BY <1>1, ToComeType DEF UsersToCome, TagsToCome
<1>3. IdsLeft' /\ ARoomLeft' /\ TRoomLeft'
  BY <1>1, <1>2, RoomByScript
<1>4. AccInv'
  BY <1>1, AccountsBesideScript
<1>5. TagTablesOK'
  BY <1>1 DEF AccessInv, AccessTypeOK, TagTablesOK, TagsFresh, TagNamesUnique
<1> QED BY <1>1, <1>3, <1>4, <1>5, TagsByScript

\* The customer and the agent the script's other rows are about are its users.
LEMMA ItsUsers ==
  ASSUME SeedInv, step \in 10..14
  PROVE  /\ {Customer, Agent} \subseteq DOMAIN made.users
         /\ made.users[Customer] \in DOMAIN users /\ made.users[Agent] \in DOMAIN users
<1>1. {Customer, Agent} \subseteq ScriptEmails
  BY SeedScriptAssumption DEF ScriptEmails
<1>2. DOMAIN made.users = ScriptEmails
  BY DEF SeedInv, MadeRecorded
<1> QED BY <1>1, <1>2 DEF SeedInv, MadeStand

\* The script's ticket is inserted (InsertTickets).
LEMMA InsertTicketsStep ==
  ASSUME SeedInv, InsertTickets, UNCHANGED <<faults, Elsewhere>> PROVE SeedInv'
<1>1. /\ step = 10 /\ SeedTypeOK /\ AccessInv /\ AccessTypeOK /\ MadeRecorded /\ MadeStand
      /\ ChildrenCleared /\ Unmeddled /\ MaxTickets \in Nat /\ TicketIdsLeft
  BY InsertPlaces, SeedScriptAssumption DEF SeedInv, AccessInv, InsertTickets
<1>2. PICK n, customer : n = nextTicketId /\ customer = made.users[Customer]
  OBVIOUS
<1>3. /\ n \in 1..MaxTickets /\ customer \in DOMAIN users
      /\ tickets' = With(tickets, n, customer) /\ nextTicketId' = n + 1
      /\ made' = [made EXCEPT !.ticket = n] /\ step' = 11
      /\ UNCHANGED <<users, nextUserId, tags, nextTagId, ticketTags>>
      /\ UNCHANGED <<comments, watchers, notifications, refused>>
  BY <1>1, <1>2 DEF InsertTickets, InsertTicket, NextStep, TicketIdsLeft, tagVars
<1>4. /\ made' = [users |-> made'.users, tags |-> made'.tags, ticket |-> made'.ticket]
      /\ made'.users = made.users /\ made'.tags = made.tags /\ made'.ticket = n
  BY <1>1, <1>3 DEF MadeRecorded
<1>5. /\ DOMAIN tickets' = DOMAIN tickets \cup {n}
      /\ \A x \in DOMAIN tickets' : tickets'[x] = IF x = n THEN customer ELSE tickets[x]
  BY <1>3 DEF With
<1>6. MadeRecorded' /\ MadeStand'
  BY <1>1, <1>3, <1>4 DEF MadeRecorded, MadeStand
<1>7. AccessInv' /\ AccInv' /\ IdsLeft'
  <2>1. \A link \in ticketTags' : link[2] \in DOMAIN tags
    BY <1>1, <1>3 DEF AccessTypeOK
  <2> QED BY <1>1, <1>3, <1>4, <1>6, <2>1, BesideScript
<1>8. SeedTypeOK'
  BY <1>1, <1>3, <1>5, <1>7, ElsewhereKept, ScriptLayout DEF SeedTypeOK, AccessInv
<1>9. TicketIdsLeft' /\ ChildrenCleared' /\ ChildrenMade'
  BY <1>1, <1>3 DEF TicketIdsLeft, ChildrenCleared, ChildrenMade
<1>10. Unmeddled'
  <2>1. meddled' = meddled /\ meddled \in BOOLEAN /\ step' # 16 /\ refused' = refused
    BY <1>1, <1>3, ElsewhereKept DEF Unmeddled
  <2>2. ASSUME ~meddled PROVE ParentsMade'
    <3>1. ParentsMade
      BY <1>1, <2>2, Zenon DEF Unmeddled
    <3>2. DOMAIN tickets' = {made'.ticket} /\ tickets'[made'.ticket] = made'.users[Customer]
      BY <1>1, <1>2, <1>4, <1>5, <3>1 DEF ParentsMade
    <3> QED BY <1>1, <1>3, <1>4, <3>1, <3>2 DEF ParentsMade
  <2>3. ~meddled' => ParentsMade' /\ refused' = {}
    BY <1>1, <2>1, <2>2, Zenon DEF Unmeddled
  <2> QED BY <2>1, <2>3 DEF Unmeddled
<1> QED BY <1>6, <1>7, <1>8, <1>9, <1>10 DEF SeedInv

\* The rows that refer to it are inserted, unless somebody has deleted it or a
\* tag (InsertChildren).
LEMMA InsertChildrenStep ==
  ASSUME SeedInv, InsertChildren, UNCHANGED <<faults, Elsewhere>> PROVE SeedInv'
<1>1. /\ step \in 11..14 /\ SeedTypeOK /\ AccessInv /\ AccessTypeOK /\ MadeRecorded /\ MadeStand
      /\ ChildrenCleared /\ ChildrenMade /\ Unmeddled /\ TicketIdsLeft
  BY ScriptLayout DEF SeedInv, AccessInv, InsertChildren
<1>2. PICK id, customer, agent, madeTags :
        /\ id = made.ticket /\ customer = made.users[Customer] /\ agent = made.users[Agent]
        /\ madeTags = Range(made.tags)
  OBVIOUS
<1>3. customer \in DOMAIN users /\ agent \in DOMAIN users
  BY <1>1, <1>2, ItsUsers
<1>4. CASE /\ \/ id \notin DOMAIN tickets /\ step # 14
              \/ step = 11 /\ ~(madeTags \subseteq DOMAIN tags)
           /\ Abort
  <2>1. ASSUME ~meddled PROVE FALSE
    <3>1. ParentsMade
      BY <1>1, <2>1, Zenon DEF Unmeddled
    <3> QED BY <1>1, <1>2, <1>4, <3>1 DEF ParentsMade
  <2> QED BY <1>4, <2>1, RefusedStep
<1>5. CASE /\ id \in DOMAIN tickets \/ step = 14
           /\ step = 11 => madeTags \subseteq DOMAIN tags
           /\ ticketTags' = ticketTags \cup IF step = 11 THEN {id} \X madeTags ELSE {}
           /\ comments' = comments \cup IF step = 12 THEN {<<id, agent>>} ELSE {}
           /\ watchers' = watchers \cup IF step = 13 THEN {<<id, customer>>} ELSE {}
           /\ notifications' = notifications \cup IF step = 14 THEN {agent} ELSE {}
           /\ step' = step + 1
           /\ UNCHANGED <<tickets, nextTicketId, users, nextUserId, tags, nextTagId, made>>
           /\ UNCHANGED refused
  <2>1. MadeRecorded' /\ MadeStand'
    BY <1>1, <1>5 DEF MadeRecorded, MadeStand
  <2>2. \A link \in ticketTags' : link[2] \in DOMAIN tags
    BY <1>1, <1>5 DEF AccessTypeOK
  <2>3. AccessInv' /\ AccInv' /\ IdsLeft'
    BY <1>1, <1>5, <2>1, <2>2, BesideScript
  <2>4. SeedTypeOK'
    <3>1. \A link \in ticketTags' : link[1] \in DOMAIN tickets'
      BY <1>1, <1>5 DEF SeedTypeOK
    <3>2. comments' \cup watchers' \subseteq (DOMAIN tickets') \X (DOMAIN users')
      BY <1>1, <1>3, <1>5 DEF SeedTypeOK
    <3>3. notifications' \subseteq DOMAIN users'
      BY <1>1, <1>3, <1>5 DEF SeedTypeOK
    <3>4. step' \in 0..(Len(Script) + 2)
      BY <1>1, <1>5, ScriptLayout
    <3> QED BY <1>1, <1>5, <2>3, <3>1, <3>2, <3>3, <3>4, ElsewhereKept
        DEF SeedTypeOK, AccessInv
  <2>5. TicketIdsLeft' /\ ChildrenCleared'
    BY <1>1, <1>5 DEF TicketIdsLeft, ChildrenCleared
  <2>6. ChildrenMade'
    BY <1>1, <1>2, <1>5 DEF ChildrenCleared, ChildrenMade
  <2>7. Unmeddled'
    <3>1. meddled' = meddled /\ meddled \in BOOLEAN /\ step' # 16 /\ refused' = refused
      BY <1>1, <1>5, ElsewhereKept DEF Unmeddled
    <3>2. ParentsMade => ParentsMade'
      BY <1>1, <1>2, <1>5 DEF ParentsMade
    <3>3. ~meddled' => ParentsMade' /\ refused' = {}
      BY <1>1, <3>1, <3>2, Zenon DEF Unmeddled
    <3> QED BY <3>1, <3>3 DEF Unmeddled
  <2> QED BY <2>1, <2>3, <2>4, <2>5, <2>6, <2>7 DEF SeedInv
<1>6. /\ At("links") <=> step = 11
      /\ At("commentRows") <=> step = 12
      /\ At("watcherRows") <=> step = 13
      /\ At("notificationRows") <=> step = 14
  BY <1>1, InsertPlaces
<1> QED BY <1>2, <1>4, <1>5, <1>6 DEF InsertChildren, NextStep

LEMMA SeedNextInv == ASSUME SeedInv, [SeedNext]_seedVars PROVE SeedInv'
BY ApiStep, StartStep, ClearStep, InsertUsersStep, InsertTagsStep, InsertTicketsStep,
   InsertChildrenStep, ScriptFailStep, SeedStutter DEF SeedNext, ScriptStep

LEMMA SeedInvariance == SeedSpec => []SeedInv
<1>1. SeedInv /\ [SeedNext]_seedVars => SeedInv'
  BY SeedNextInv
<1> QED BY <1>1, SeedInitInv, PTL DEF SeedSpec
-----------------------------------------------------------------------------
(* The theorems *)

\* Every foreign key holds at every statement of the script, whatever requests do
\* between two of them (the order of deleteMany and create in seed.js).
THEOREM SeedTypeCorrect == SeedSpec => []SeedTypeOK
<1>1. SeedInv => SeedTypeOK
  BY DEF SeedInv
<1> QED BY <1>1, SeedInvariance, PTL

\* An old token never speaks for somebody else, however often the users are
\* deleted and inserted again (deleteMany keeps AUTO_INCREMENT).
THEOREM TokensNameHolder == SeedSpec => []TokensNameTheirHolder
<1>1. SeedInv => TokensNameTheirHolder
  BY DEF SeedInv, AccessInv, AccInv, TokensHeld, TokensNameTheirHolder
<1> QED BY <1>1, SeedInvariance, PTL

\* When the script is done, with nobody meddling, its rows are all there is.
LEMMA DoneAsSeeded == ASSUME SeedInv, step = 15, ~meddled PROVE AsSeeded
<1>1. ParentsMade /\ ChildrenMade /\ MadeRecorded /\ MadeStand
  BY Zenon DEF SeedInv, Unmeddled
<1>2. /\ DOMAIN made.users = ScriptEmails /\ DOMAIN made.tags = ScriptTags
      /\ {Customer, Agent} \subseteq ScriptEmails
  BY <1>1, SeedScriptAssumption DEF MadeRecorded, ScriptEmails
<1>3. PICK id, customer, agent :
        /\ id = made.ticket /\ customer = made.users[Customer] /\ agent = made.users[Agent]
  OBVIOUS
<1>4. /\ DOMAIN tickets = {id} /\ tickets[id] = customer
      /\ ticketTags = {id} \X DOMAIN tags
      /\ comments = {<<id, agent>>} /\ watchers = {<<id, customer>>}
      /\ notifications = {agent}
  BY <1>1, <1>3 DEF ParentsMade, ChildrenMade
<1>5. users[customer].email = Customer /\ users[agent].email = Agent
  BY <1>1, <1>2, <1>3 DEF ParentsMade
<1>6. Range(users) = ScriptUsers
  <2>1. ASSUME NEW x \in DOMAIN users PROVE users[x] \in ScriptUsers
    BY <1>1, <2>1 DEF ParentsMade, Range
  <2>2. ASSUME NEW u \in ScriptUsers PROVE \E x \in DOMAIN users : users[x] = u
    <3>1. u.email \in DOMAIN made.users
      BY <1>2 DEF ScriptEmails
    <3>2. PICK x : x = made.users[u.email]
      OBVIOUS
    <3>3. x \in DOMAIN users /\ users[x] \in ScriptUsers /\ users[x].email = u.email
      BY <1>1, <3>1, <3>2 DEF ParentsMade, Range
    <3> QED BY <3>3, SeedScriptAssumption
  <2> QED BY <2>1, <2>2 DEF Range
<1>7. Range(tags) = ScriptTags
  <2>1. ASSUME NEW x \in DOMAIN tags PROVE tags[x] \in ScriptTags
    BY <1>1, <1>2, <2>1 DEF ParentsMade, Range
  <2>2. ASSUME NEW name \in ScriptTags PROVE \E x \in DOMAIN tags : tags[x] = name
    BY <1>1, <1>2 DEF ParentsMade, Range
  <2> QED BY <2>1, <2>2 DEF Range
<1>8. /\ {<<c[1], users[c[2]].email>> : c \in comments} = {<<id, Agent>>}
      /\ {<<w[1], users[w[2]].email>> : w \in watchers} = {<<id, Customer>>}
      /\ {users[u].email : u \in notifications} = {Agent}
  BY <1>4, <1>5
<1> QED BY <1>4, <1>5, <1>6, <1>7, <1>8 DEF AsSeeded

\* "safe to re-run": over any database the script ends with exactly its rows,
\* unless its connection fails or the API, by a request or a listener still at
\* work, writes to a table it has cleared (main of seed.js).
THEOREM RerunIsSafe == SeedSpec => []SafeToRerun
<1>1. SeedInv => SafeToRerun
  <2> SUFFICES ASSUME SeedInv PROVE SafeToRerun
    OBVIOUS
  <2>1. ASSUME step = Aborted, faults = 0 PROVE meddled
    BY <2>1, ScriptLayout DEF SeedInv, Unmeddled
  <2>2. ASSUME step = Done, ~meddled PROVE AsSeeded
    BY <2>2, ScriptLayout, DoneAsSeeded
  <2> QED BY <2>1, <2>2 DEF SafeToRerun
<1> QED BY <1>1, SeedInvariance, PTL

\* A login that straddles the script earns no token its account would not earn
\* (register, login, signToken).
THEOREM SeedTokensEarned == SeedSpec => TokensAreEarned
<1>1. SeedInv /\ [SeedNext]_seedVars
        => [\A t \in tokens' \ tokens : \E r \in AuthRequests :
              /\ apc[r] \in {"sign", "compare"} /\ apc'[r] = "idle"
              /\ acall[r].email = t.email
              /\ t.sub \in DOMAIN users =>
                   /\ users[t.sub].email = t.email /\ users[t.sub].role = t.role
                   /\ users[t.sub].hash = HashOf[acall[r].password]
              /\ acall[r].op = "register" => t.role = "customer"]_allAccounts
  <2> SUFFICES ASSUME SeedInv, [SeedNext]_seedVars, NEW t \in tokens' \ tokens
               PROVE  \E r \in AuthRequests : SignOrRefuse(r)
    BY TokenEarned DEF SeedInv, AccessInv
  <2>1. CASE ApiNext
    <3>1. [AccessNext]_accessVars \/ ListenerFails
      BY <2>1, TicketsByRequests DEF SeedInv
    <3>2. ~ListenerFails
      BY DEF ListenerFails, accountVars
    <3> QED BY <3>1, <3>2, TokensSigned
  <2>2. CASE StartSeed \/ UNCHANGED seedVars
    BY <2>2 DEF StartSeed, seedVars, accessVars, allAccounts, accountVars
  <2>3. CASE UNCHANGED Elsewhere
    BY <2>3 DEF Elsewhere
  <2> QED BY <2>1, <2>2, <2>3 DEF SeedNext
<1> QED BY <1>1, SeedInvariance, PTL DEF SeedSpec, TokensAreEarned
=============================================================================
