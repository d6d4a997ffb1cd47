------------------------------- MODULE Notify -------------------------------
(***************************************************************************)
(* What becomes of a domain event: the three listeners of the event bus    *)
(* (notification rows, mails, pushes to connected browsers), and the rooms *)
(* sockets join to be pushed to (config/socket.js).                        *)
(*                                                                         *)
(* emit() runs every listener up to its first await and returns; pushes    *)
(* happen there and then, rows and mails are tasks that go on afterwards,  *)
(* each by itself.  Every process has its own bus; only the API has        *)
(* sockets.  The services' side of an event is in Tickets, Comments and    *)
(* SlaScan; here an event is a payload that one of them puts on the bus.   *)
(***************************************************************************)
EXTENDS Integers, FiniteSets, Sequences

CONSTANTS
  Customers, Agents, Admins,   \* the User rows, by role
  Null,                        \* no agent assigned
  Sockets,                     \* the connections browsers can hold open
  Events,                      \* bound: the payloads emitted (a subset of Event)
  MaxEvents, MaxFaults, MaxCrashes   \* bounds

VARIABLES
  emitted,      \* the events put on the bus, in order
  tasks,        \* what listeners are still waiting for
  rows,         \* Notification rows: <<event, userId>>
  mails,        \* mails handed to the mail server: <<event, user>>
  rooms,        \* the rooms each socket is in
  received,     \* how often each socket was pushed each event
  faults, crashes,
  identities,   \* ghost: the users whose tokens a socket has presented
  failures,     \* ghost: tasks that ended in a listener's catch
  lost          \* ghost: events a crash caught with tasks outstanding

notifyVars == <<emitted, tasks, rows, mails, rooms, received, faults, crashes,
                identities, failures, lost>>
-----------------------------------------------------------------------------
User == Customers \cup Agents \cup Admins

\* A payload: the columns of the ticket that listeners use, the recipients the
\* comment service resolved, and whether the subject is too long for a message
\* that quotes it (both columns hold 191 characters).
Event == [name : {"created", "assigned", "commented", "status_changed", "sla_breached"},
          customerId : Customers, assignedAgentId : User \cup {Null},
          recipients : SUBSET User, longSubject : BOOLEAN]

ASSUME EventAssumption ==
  /\ Customers \cap Agents = {} /\ Customers \cap Admins = {}
  /\ Agents \cap Admins = {} /\ Null \notin User
  /\ Events \subseteq Event
  /\ \A e \in Events :
       /\ e.name = "created" => e.assignedAgentId = Null
       /\ e.name = "assigned" => e.assignedAgentId # Null
  /\ MaxEvents \in Nat /\ MaxFaults \in Nat /\ MaxCrashes \in Nat

\* The process whose bus an event is on: the scan runs in the worker.
Process(e) == IF e.name = "sla_breached" THEN "worker" ELSE "api"

Emitted == 1..Len(emitted)
Task == [event : 1..MaxEvents, step : {"findUsers", "createRows", "sendMail"},
         to : SUBSET User]
UserRoom(user) == <<"user", user>>
RoleRoom(role) == <<"role", role>>
Room == {UserRoom(user) : user \in User} \cup {RoleRoom(role) : role \in {"agent", "admin"}}

NotifyTypeOK ==
  /\ emitted \in Seq(Events) /\ Len(emitted) <= MaxEvents
  /\ tasks \subseteq Task /\ failures \subseteq Task
  /\ rows \subseteq Emitted \X User
  /\ mails \subseteq Emitted \X User
  /\ rooms \in [Sockets -> SUBSET Room]
  /\ received \in [Sockets -> [1..MaxEvents -> Nat]]
  /\ identities \in [Sockets -> SUBSET User]
  /\ faults \in 0..MaxFaults /\ crashes \in 0..MaxCrashes
  /\ lost \subseteq Emitted

NotifyInit ==
  /\ emitted = <<>> /\ tasks = {} /\ rows = {} /\ mails = {}
  /\ rooms = [s \in Sockets |-> {}]
  /\ received = [s \in Sockets |-> [n \in 1..MaxEvents |-> 0]]
  /\ faults = 0 /\ crashes = 0
  /\ identities = [s \in Sockets |-> {}] /\ failures = {} /\ lost = {}
-----------------------------------------------------------------------------
(* What each channel makes of an event *)

\* Mutant: nobody asks whether there is an agent.
AssigneeUnchecked(e) == {e.assignedAgentId}

\* The agent an event is for, if there is one.
Assignee(e) == {e.assignedAgentId} \ {Null}

\* A breach that is nobody's to fix yet.
UnassignedBreach(e) == e.name = "sla_breached" /\ Assignee(e) = {}

\* The users notifyInApp creates a row for.
RowsFor(e) ==
  CASE e.name = "created" -> {e.customerId} \cup Agents
    [] e.name = "commented" -> e.recipients
    [] e.name = "status_changed" -> {e.customerId}
    [] UnassignedBreach(e) -> Admins
    [] OTHER -> Assignee(e)

\* Whether it has to look them up first.
QueriesUsers(e) == e.name = "created" \/ UnassignedBreach(e)

\* The users notifyEmail sends a mail to.
MailsFor(e) ==
  CASE e.name \in {"created", "status_changed"} -> {e.customerId}
    [] e.name = "commented" -> e.recipients
    [] OTHER -> Assignee(e)

\* The rooms notifyRealtime pushes to, one push each.
PushesTo(e) ==
  CASE e.name = "created" -> {UserRoom(e.customerId), RoleRoom("agent")}
    [] e.name = "commented" -> {UserRoom(user) : user \in e.recipients}
    [] e.name = "status_changed" -> {UserRoom(e.customerId)}
    [] UnassignedBreach(e) -> {RoleRoom("agent")}
    [] OTHER -> {UserRoom(user) : user \in Assignee(e)}

\* The awaits the two asynchronous listeners are at when emit() returns; all
\* mails of an event are sent at once (Promise.all).
TasksOf(n, e) ==
  {[event |-> n, step |-> IF QueriesUsers(e) THEN "findUsers" ELSE "createRows",
    to |-> to] : to \in {RowsFor(e)} \ {{}}}
  \cup {[event |-> n, step |-> "sendMail", to |-> {user}] : user \in MailsFor(e)}

\* Mutant: sockets everywhere, in the worker too.
AnyProcessHasSockets(e) == TRUE

\* getIO() is undefined where initSocket() was never called.
HasSockets(e) == Process(e) = "api"

\* What one handler emits before its next await: a single event, or the two of a
\* PATCH that assigns and moves a ticket.
Bursts ==
  {<<e>> : e \in Events}
  \cup {pair \in Events \X Events :
         /\ pair[1].name = "assigned"
         /\ pair[2] = [pair[1] EXCEPT !.name = "status_changed"]}

\* emit(), for each event in turn: every listener runs up to its first await.
EmitAll(burst) ==
  LET before == Len(emitted)
      New(n) == n > before /\ n <= before + Len(burst)
      Pushes(s, n) == Cardinality(rooms[s] \cap PushesTo(burst[n - before]))
  IN
  /\ before + Len(burst) <= MaxEvents
  /\ emitted' = emitted \o burst
  /\ tasks' = tasks \cup UNION {TasksOf(before + i, burst[i]) : i \in DOMAIN burst}
  /\ received' = [s \in Sockets |-> [n \in 1..MaxEvents |->
       IF New(n) /\ HasSockets(burst[n - before]) THEN Pushes(s, n) ELSE received[s][n]]]
  /\ UNCHANGED <<rows, mails, rooms, faults, crashes, identities, failures, lost>>

\* What a task leaves behind when its call gets through.
RowsOf(t) == IF t.step = "createRows" THEN {t.event} \X t.to ELSE {}
MailsOf(t) == IF t.step = "sendMail" THEN {t.event} \X t.to ELSE {}

\* user.findMany answers, createMany goes out.
FindUsers(t) ==
  /\ t.step = "findUsers"
  /\ tasks' = (tasks \ {t}) \cup {[t EXCEPT !.step = "createRows"]}
  /\ UNCHANGED <<rows, mails, failures>>

\* Mutant: no catch in a listener.  The unhandled rejection ends the process,
\* with whatever its other listeners were doing.
Uncaught(t) ==
  /\ tasks' = {u \in tasks :
       Process(emitted[u.event]) # Process(emitted[t.event])}
  /\ failures' = failures \cup {t}

\* The catch of every listener: the failure is logged and goes no further.
Caught(t) == tasks' = tasks \ {t} /\ failures' = failures \cup {t}

\* The message quotes a subject its column has no room for: P2000, no row.
RowsRefused(t) ==
  /\ t.step = "createRows" /\ emitted[t.event].longSubject
  /\ Caught(t)
  /\ UNCHANGED <<rows, mails>>

\* The insert of all rows commits, or the mail is accepted.
Delivered(t) ==
  /\ t.step # "findUsers"
  /\ t.step = "createRows" => ~emitted[t.event].longSubject
  /\ tasks' = tasks \ {t}
  /\ rows' = rows \cup RowsOf(t) /\ mails' = mails \cup MailsOf(t)
  /\ UNCHANGED failures

TaskStep(t) ==
  /\ FindUsers(t) \/ RowsRefused(t) \/ Delivered(t)
  /\ UNCHANGED <<emitted, rooms, received, faults, crashes, identities, lost>>

\* The database or the mail server fails a listener; the call may have got
\* through all the same, its answer lost.
TaskFails(t) ==
  /\ faults < MaxFaults /\ faults' = faults + 1
  /\ Caught(t)
  /\ \/ UNCHANGED <<rows, mails>>
     \/ /\ ~emitted[t.event].longSubject
        /\ rows' = rows \cup RowsOf(t) /\ mails' = mails \cup MailsOf(t)
  /\ UNCHANGED <<emitted, rooms, received, crashes, identities, lost>>
-----------------------------------------------------------------------------
(* Sockets *)

\* Mutant: customers are let into the agents' room.
RoomsOfAnybody(user) ==
  {UserRoom(user), RoleRoom(IF user \in Admins THEN "admin" ELSE "agent")}

\* The rooms the token of a user lets a socket join.
RoomsOf(user) ==
  {UserRoom(user)}
  \cup {RoleRoom("agent") : a \in Agents \cap {user}}
  \cup {RoleRoom("admin") : a \in Admins \cap {user}}

\* A socket presents a valid token, its first or another one; it leaves no room.
Authenticate(s, user) ==
  /\ rooms' = [rooms EXCEPT ![s] = @ \cup RoomsOf(user)]
  /\ identities' = [identities EXCEPT ![s] = @ \cup {user}]
  /\ UNCHANGED <<emitted, tasks, rows, mails, received, faults, crashes,
                 failures, lost>>

\* These connections end.
Closed(S) ==
  /\ rooms' = [s \in Sockets |-> IF s \in S THEN {} ELSE rooms[s]]
  /\ identities' = [s \in Sockets |-> IF s \in S THEN {} ELSE identities[s]]
  /\ received' = [s \in Sockets |->
       IF s \in S THEN [n \in 1..MaxEvents |-> 0] ELSE received[s]]

\* A socket presents a token that does not verify, or its browser goes away.
Disconnect(s) ==
  /\ identities[s] # {}
  /\ Closed({s})
  /\ UNCHANGED <<emitted, tasks, rows, mails, faults, crashes, failures, lost>>

\* A process dies with what its listeners were doing, the API with its sockets.
Crash(process) ==
  LET hit == {t \in tasks : Process(emitted[t.event]) = process} IN
  /\ crashes < MaxCrashes /\ crashes' = crashes + 1
  /\ tasks' = tasks \ hit
  /\ lost' = lost \cup {t.event : t \in hit}
  /\ Closed(IF process = "api" THEN Sockets ELSE {})
  /\ UNCHANGED <<emitted, rows, mails, faults, failures>>

NotifyNext ==
  \/ \E burst \in Bursts : EmitAll(burst)
  \/ \E t \in tasks : TaskStep(t) \/ TaskFails(t)
  \/ \E s \in Sockets : Disconnect(s) \/ \E user \in User : Authenticate(s, user)
  \/ \E process \in {"api", "worker"} : Crash(process)

NotifySpec == NotifyInit /\ [][NotifyNext]_notifyVars
-----------------------------------------------------------------------------
(* Properties *)

\* The steps of the in-app listener.
InApp == {"findUsers", "createRows"}
InFlight(n, steps) == \E t \in tasks : t.event = n /\ t.step \in steps
Failed(n, steps) == \E t \in failures : t.event = n /\ t.step \in steps

\* A failing listener affects nobody else: while the process lives, rows are
\* missing only when the in-app listener itself failed or is not done, and a
\* mail only when that very mail failed or is under way, not when another
\* recipient's did (the try/catch of every listener, Promise.all).
ChannelsIsolated == \A n \in Emitted \ lost : LET e == emitted[n] IN
  /\ InFlight(n, InApp) \/ Failed(n, InApp) \/ {n} \X RowsFor(e) \subseteq rows
  /\ \A user \in MailsFor(e) :
       \/ <<n, user>> \in mails
       \/ [event |-> n, step |-> "sendMail", to |-> {user}] \in tasks \cup failures

\* The channels agree on whom an event is for: whoever was mailed, or saw it
\* pushed, finds a notification too once the in-app listener has done its work
\* (three files, each with its own list of recipients).
ChannelsAgree == \A n \in Emitted \ lost :
  \/ InFlight(n, InApp) \/ Failed(n, InApp)
  \/ /\ \A user \in User : <<n, user>> \in mails => <<n, user>> \in rows
     /\ \A s \in Sockets : received[s][n] > 0 =>
          \E user \in identities[s] : <<n, user>> \in rows

\* A connection that only ever spoke for one user is pushed an event once at
\* most, although some events go to two rooms.
PushedOnce == \A s \in Sockets, n \in 1..MaxEvents :
  Cardinality(identities[s]) <= 1 => received[s][n] <= 1
=============================================================================
