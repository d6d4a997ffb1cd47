---------------------------- MODULE NotifyProofs ----------------------------
(***************************************************************************)
(* Proofs about Notify, for any users, sockets and events: one channel's   *)
(* failure never costs another its deliveries, the channels agree on whom  *)
(* an event is for, and a connection is pushed an event once.              *)
(***************************************************************************)
EXTENDS Notify, FiniteSetTheorems, TLAPS

\* The inductive invariant, in parts.

\* A task, running or failed, is one that its event asked for.
AskedFor(t) ==
  /\ t.event \in Emitted
  /\ t.step \in InApp => t.to = RowsFor(emitted[t.event])
  /\ t.step = "sendMail" => \E user \in MailsFor(emitted[t.event]) : t.to = {user}

TasksAskedFor == \A t \in tasks \cup failures : AskedFor(t)

MailsAskedFor == \A n \in Emitted : \A user \in User :
  <<n, user>> \in mails => user \in MailsFor(emitted[n])

\* A socket is in rooms of users it has spoken for, and of no others.
RoomsEarned == \A s \in Sockets :
  /\ IsFiniteSet(rooms[s]) /\ IsFiniteSet(identities[s])
  /\ \A room \in rooms[s] : \E user \in identities[s] : room \in RoomsOf(user)

\* It is pushed only what one of those users is to have a row for.
PushesEarned == \A s \in Sockets : \A n \in 1..MaxEvents :
  received[s][n] > 0 =>
    n \in Emitted /\ \E user \in identities[s] : user \in RowsFor(emitted[n])

NInv == NotifyTypeOK /\ TasksAskedFor /\ MailsAskedFor /\ RoomsEarned /\ PushesEarned
          /\ ChannelsIsolated /\ PushedOnce
-----------------------------------------------------------------------------
(* Lemmas about the lists of recipients *)

\* Every list holds users, and whoever gets a mail gets a row (the recipients of
\* notifyInApp and notifyEmail).
LEMMA RecipientsAreUsers ==
  ASSUME NEW e \in Event
  PROVE  /\ RowsFor(e) \subseteq User /\ MailsFor(e) \subseteq RowsFor(e)
         /\ PushesTo(e) \subseteq Room
<1>1. /\ e.customerId \in User /\ e.recipients \subseteq User
      /\ Assignee(e) \subseteq User /\ Agents \subseteq User /\ Admins \subseteq User
  BY DEF Event, User, Assignee
<1>2. e.name \in {"created", "assigned", "commented", "status_changed", "sla_breached"}
  BY DEF Event
<1>3. RowsFor(e) \subseteq User /\ MailsFor(e) \subseteq RowsFor(e)
  BY <1>1, <1>2 DEF RowsFor, MailsFor, UnassignedBreach
<1>4. PushesTo(e) \subseteq Room
  BY <1>1, <1>2 DEF PushesTo, UnassignedBreach, Room
<1> QED BY <1>3, <1>4

\* A user's room is the room of no other user, and of no role.
LEMMA RoomsApart ==
  /\ \A u, v \in User : UserRoom(u) = UserRoom(v) => u = v
  /\ \A u \in User : UserRoom(u) # RoleRoom("agent") /\ UserRoom(u) # RoleRoom("admin")
  /\ RoleRoom("agent") # RoleRoom("admin")
BY DEF UserRoom, RoleRoom

\* What a socket of the API is pushed, its user is to have a row for
\* (notifyRealtime beside notifyInApp).
LEMMA PushIsRow ==
  ASSUME NEW e \in Event, HasSockets(e), NEW user \in User,
         NEW room \in RoomsOf(user), room \in PushesTo(e)
  PROVE  user \in RowsFor(e)
<1>1. e.name # "sla_breached" /\ ~UnassignedBreach(e)
  BY DEF HasSockets, Process, UnassignedBreach
<1>2. /\ e.customerId \in User /\ e.recipients \subseteq User /\ Assignee(e) \subseteq User
      /\ e.name \in {"created", "assigned", "commented", "status_changed", "sla_breached"}
  BY DEF Event, User, Assignee
<1>3. room = UserRoom(user) \/ (user \in Agents /\ room = RoleRoom("agent"))
        \/ (user \in Admins /\ room = RoleRoom("admin"))
  BY DEF RoomsOf
<1> QED BY <1>1, <1>2, <1>3, RoomsApart DEF PushesTo, RowsFor

\* The rooms of one user meet the pushes of an event in one room at most: a
\* customer is no agent (RoomsOf, notifyRealtime).
LEMMA OnePushEach ==
  ASSUME NEW e \in Event, HasSockets(e), NEW user \in User
  PROVE  \A r1, r2 \in RoomsOf(user) \cap PushesTo(e) : r1 = r2
<1>1. e.name # "sla_breached" /\ ~UnassignedBreach(e)
  BY DEF HasSockets, Process, UnassignedBreach
<1>2. /\ e.customerId \in Customers /\ e.customerId \in User /\ e.recipients \subseteq User
      /\ Assignee(e) \subseteq User /\ Customers \cap Agents = {}
      /\ e.name \in {"created", "assigned", "commented", "status_changed", "sla_breached"}
  BY EventAssumption DEF Event, User, Assignee
<1>3. \A room \in RoomsOf(user) :
        \/ room = UserRoom(user)
        \/ user \in Agents /\ room = RoleRoom("agent")
        \/ user \in Admins /\ room = RoleRoom("admin")
  BY DEF RoomsOf
<1>4. CASE e.name = "created"
  BY <1>2, <1>3, <1>4, RoomsApart DEF PushesTo
<1>5. CASE e.name # "created"
  <2>1. \A room \in PushesTo(e) : \E v \in User : room = UserRoom(v)
    BY <1>1, <1>2, <1>5 DEF PushesTo
  <2> QED BY <1>3, <2>1, RoomsApart
<1> QED BY <1>4, <1>5

\* The tasks an event starts are those it asks for, and none of them is missing
\* (TasksOf).
LEMMA TasksOfEvent ==
  ASSUME NEW n, NEW e \in Event
  PROVE  /\ \A t \in TasksOf(n, e) :
              /\ t \in [event : {n}, step : {"findUsers", "createRows", "sendMail"},
                        to : SUBSET User]
              /\ t.step \in InApp => t.to = RowsFor(e)
              /\ t.step = "sendMail" => \E user \in MailsFor(e) : t.to = {user}
         /\ RowsFor(e) # {} =>
              \E t \in TasksOf(n, e) : t.event = n /\ t.step \in InApp
         /\ \A user \in MailsFor(e) :
              [event |-> n, step |-> "sendMail", to |-> {user}] \in TasksOf(n, e)
<1> DEFINE first == [event |-> n,
                     step |-> IF QueriesUsers(e) THEN "findUsers" ELSE "createRows",
                     to |-> RowsFor(e)]
           mail(user) == [event |-> n, step |-> "sendMail", to |-> {user}]
<1>1. RowsFor(e) \subseteq User /\ MailsFor(e) \subseteq User
  BY RecipientsAreUsers
<1>2. /\ \A t \in TasksOf(n, e) : t = first \/ \E user \in MailsFor(e) : t = mail(user)
      /\ RowsFor(e) # {} => first \in TasksOf(n, e)
      /\ \A user \in MailsFor(e) : mail(user) \in TasksOf(n, e)
  BY DEF TasksOf
<1>3. first.step \in InApp /\ first.to = RowsFor(e) /\ first.event = n
  BY DEF InApp
<1>4. \A user \in User :
        mail(user).to = {user} /\ mail(user).step = "sendMail" /\ mail(user).step \notin InApp
  BY DEF InApp
<1>5. first \in [event : {n}, step : {"findUsers", "createRows", "sendMail"}, to : SUBSET User]
  BY <1>1
<1>6. \A user \in MailsFor(e) :
        mail(user) \in [event : {n}, step : {"findUsers", "createRows", "sendMail"},
                        to : SUBSET User]
  BY <1>1
<1> HIDE DEF first, mail
<1>7. \A t \in TasksOf(n, e) :
        /\ t \in [event : {n}, step : {"findUsers", "createRows", "sendMail"}, to : SUBSET User]
        /\ t.step \in InApp => t.to = RowsFor(e)
        /\ t.step = "sendMail" => \E user \in MailsFor(e) : t.to = {user}
  BY <1>1, <1>2, <1>3, <1>4, <1>5, <1>6 DEF InApp
<1> QED BY <1>2, <1>3, <1>7 DEF mail
-----------------------------------------------------------------------------
\* Nothing emitted yet: every part of NInv holds.
LEMMA NotifyInitInv == NotifyInit => NInv
<1> SUFFICES ASSUME NotifyInit PROVE NInv
  OBVIOUS
<1>1. NotifyTypeOK
  <2>1. emitted \in Seq(Events) /\ Len(emitted) = 0
    BY DEF NotifyInit
  <2> QED BY <2>1, EventAssumption DEF NotifyInit, NotifyTypeOK
<1>2. TasksAskedFor /\ MailsAskedFor
  BY DEF NotifyInit, TasksAskedFor, MailsAskedFor
<1>3. RoomsEarned /\ PushesEarned
  BY FS_EmptySet DEF NotifyInit, RoomsEarned, PushesEarned
<1>4. ChannelsIsolated /\ PushedOnce
  BY DEF NotifyInit, ChannelsIsolated, Emitted, PushedOnce
<1> QED BY <1>1, <1>2, <1>3, <1>4 DEF NInv
-----------------------------------------------------------------------------
\* What emit() does, with the new events under their numbers (EmitAll).
NewEvents == Emitted' \ Emitted

LEMMA EmitEffect ==
  ASSUME NotifyTypeOK, NEW burst \in Bursts, EmitAll(burst)
  PROVE  /\ emitted' \in Seq(Events) /\ Len(emitted') <= MaxEvents
         /\ Emitted \subseteq Emitted'
         /\ \A n \in Emitted : emitted'[n] = emitted[n]
         /\ \A t \in tasks' : t \in tasks \/ \E n \in NewEvents : t \in TasksOf(n, emitted'[n])
         /\ tasks \subseteq tasks'
         /\ \A n \in NewEvents : TasksOf(n, emitted'[n]) \subseteq tasks'
         /\ received' = [s \in Sockets |-> [n \in 1..MaxEvents |->
              IF n \in NewEvents /\ HasSockets(emitted'[n])
              THEN Cardinality(rooms[s] \cap PushesTo(emitted'[n])) ELSE received[s][n]]]
<1> DEFINE before == Len(emitted)
<1>1. /\ emitted \in Seq(Events) /\ before \in Nat /\ MaxEvents \in Nat
      /\ before + Len(burst) <= MaxEvents /\ emitted' = emitted \o burst
      /\ tasks' = tasks \cup UNION {TasksOf(before + i, burst[i]) : i \in DOMAIN burst}
  BY EventAssumption DEF NotifyTypeOK, EmitAll
<1>2. burst \in Seq(Events) /\ Len(burst) \in Nat /\ DOMAIN burst = 1..Len(burst)
  <2>1. CASE burst \in {<<e>> : e \in Events}
    <3>1. PICK e \in Events : burst = <<e>>
      BY <2>1
    <3> QED BY <3>1
  <2>2. CASE burst \in Events \X Events
    <3>1. PICK e \in Events, f \in Events : burst = <<e, f>>
      BY <2>2
    <3> QED BY <3>1
  <2>3. burst \in Seq(Events)
    BY <2>1, <2>2 DEF Bursts
  <2> QED BY <2>3
<1>3. /\ emitted' \in Seq(Events) /\ Len(emitted') = before + Len(burst)
      /\ \A n \in 1..before : emitted'[n] = emitted[n]
      /\ \A n \in (before + 1)..(before + Len(burst)) : emitted'[n] = burst[n - before]
  BY <1>1, <1>2
<1>4. NewEvents = (before + 1)..(before + Len(burst)) /\ Emitted = 1..before
  BY <1>1, <1>2, <1>3 DEF NewEvents, Emitted
<1>5. \A n \in NewEvents : n - before \in DOMAIN burst /\ before + (n - before) = n
  BY <1>1, <1>2, <1>4
<1>6. \A i \in DOMAIN burst :
        before + i \in NewEvents /\ emitted'[before + i] = burst[i]
  BY <1>1, <1>2, <1>3, <1>4
<1>7. /\ \A t \in tasks' : t \in tasks \/ \E n \in NewEvents : t \in TasksOf(n, emitted'[n])
      /\ tasks \subseteq tasks'
  <2> HIDE DEF before
  <2> QED BY <1>1, <1>6
<1>8. \A n \in NewEvents : TasksOf(n, emitted'[n]) \subseteq tasks'
  <2> SUFFICES ASSUME NEW n \in NewEvents PROVE TasksOf(n, emitted'[n]) \subseteq tasks'
    OBVIOUS
  <2>1. PICK i \in DOMAIN burst : n = before + i /\ emitted'[n] = burst[i]
    BY <1>5, <1>6
  <2> HIDE DEF before
  <2> QED BY <1>1, <2>1
<1>9. received' = [s \in Sockets |-> [n \in 1..MaxEvents |->
        IF n \in NewEvents /\ HasSockets(emitted'[n])
        THEN Cardinality(rooms[s] \cap PushesTo(emitted'[n])) ELSE received[s][n]]]
  <2>1. \A n \in 1..MaxEvents :
          n \in NewEvents <=> n > before /\ n <= before + Len(burst)
    BY <1>1, <1>2, <1>4
  <2>2. \A n \in NewEvents : emitted'[n] = burst[n - before]
    BY <1>3, <1>4
  <2>3. received' = [s \in Sockets |-> [n \in 1..MaxEvents |->
          IF (n > before /\ n <= before + Len(burst)) /\ HasSockets(burst[n - before])
          THEN Cardinality(rooms[s] \cap PushesTo(burst[n - before])) ELSE received[s][n]]]
    BY DEF EmitAll
  <2> HIDE DEF before
  <2>4. \A s \in Sockets : \A n \in 1..MaxEvents :
          (IF (n > before /\ n <= before + Len(burst)) /\ HasSockets(burst[n - before])
           THEN Cardinality(rooms[s] \cap PushesTo(burst[n - before])) ELSE received[s][n])
          = (IF n \in NewEvents /\ HasSockets(emitted'[n])
             THEN Cardinality(rooms[s] \cap PushesTo(emitted'[n])) ELSE received[s][n])
    BY <2>1, <2>2
  <2> QED BY <2>3, <2>4
<1>10. Len(emitted') <= MaxEvents /\ Emitted \subseteq Emitted'
  BY <1>1, <1>2, <1>3, <1>4 DEF Emitted
<1> QED BY <1>3, <1>4, <1>7, <1>8, <1>9, <1>10

\* What a socket is pushed of an event: nothing it has not earned, and once, if
\* it has spoken for one user only (notifyRealtime, config/socket.js).
LEMMA PushCount ==
  ASSUME NInv, NEW s \in Sockets, NEW e \in Event, HasSockets(e),
         NEW count, count = Cardinality(rooms[s] \cap PushesTo(e))
  PROVE  /\ count \in Nat
         /\ count > 0 => \E user \in identities[s] : user \in RowsFor(e)
         /\ Cardinality(identities[s]) <= 1 => count <= 1
<1> DEFINE met == rooms[s] \cap PushesTo(e)
<1>1. /\ IsFiniteSet(rooms[s]) /\ IsFiniteSet(identities[s])
      /\ \A room \in rooms[s] : \E user \in identities[s] : room \in RoomsOf(user)
      /\ identities[s] \subseteq User
  BY DEF NInv, RoomsEarned, NotifyTypeOK
<1>2. IsFiniteSet(met) /\ count = Cardinality(met) /\ count \in Nat
  BY <1>1, FS_Subset, FS_CardinalityType
<1>3. count > 0 => \E user \in identities[s] : user \in RowsFor(e)
  <2> SUFFICES ASSUME count > 0 PROVE \E user \in identities[s] : user \in RowsFor(e)
    OBVIOUS
  <2>1. PICK room : room \in met
    BY <1>2, FS_EmptySet
  <2>2. PICK user \in identities[s] : room \in RoomsOf(user)
    BY <1>1, <2>1
  <2> QED BY <1>1, <2>1, <2>2, PushIsRow
<1>4. Cardinality(identities[s]) <= 1 => count <= 1
  <2> SUFFICES ASSUME Cardinality(identities[s]) <= 1 PROVE count <= 1
    OBVIOUS
  <2>1. \A u, v \in identities[s] : u = v
    <3> SUFFICES ASSUME NEW u \in identities[s], NEW v \in identities[s], u # v PROVE FALSE
      OBVIOUS
    <3>1. IsFiniteSet({u, v}) /\ Cardinality({u, v}) = 2
      <4>1. Cardinality({u}) = 1 /\ IsFiniteSet({u})
        BY FS_Singleton
      <4>2. {u, v} = {u} \cup {v} /\ v \notin {u}
        OBVIOUS
      <4> QED BY <4>1, <4>2, FS_AddElement
    <3>2. {u, v} \subseteq identities[s]
      OBVIOUS
    <3>3. Cardinality({u, v}) <= Cardinality(identities[s])
      BY <1>1, <3>2, FS_Subset
    <3> QED BY <1>1, <3>1, <3>3, FS_CardinalityType
  <2>2. \A r1, r2 \in met : r1 = r2
    <3> SUFFICES ASSUME NEW r1 \in met, NEW r2 \in met PROVE r1 = r2
      OBVIOUS
    <3>1. PICK user \in identities[s] : r1 \in RoomsOf(user) /\ r2 \in RoomsOf(user)
      BY <1>1, <2>1
    <3> QED BY <1>1, <3>1, OnePushEach
  <2>3. CASE met = {}
    BY <1>2, <2>3, FS_EmptySet
  <2>4. ASSUME NEW room \in met PROVE count <= 1
    <3>1. met = {room}
      BY <2>2, <2>4
    <3>2. Cardinality({room}) = 1
      BY FS_Singleton
    <3> HIDE DEF met
    <3> QED BY <1>2, <3>1, <3>2
  <2> QED BY <2>3, <2>4
<1> QED BY <1>2, <1>3, <1>4

\* Events are put on the bus (EmitAll).
LEMMA EmitStep == ASSUME NInv, NEW burst \in Bursts, EmitAll(burst) PROVE NInv'
<1>1. /\ NotifyTypeOK
      /\ UNCHANGED <<rows, mails, rooms, faults, crashes, identities, failures, lost>>
  BY DEF NInv, EmitAll
<1>2. /\ emitted' \in Seq(Events) /\ Len(emitted') <= MaxEvents
      /\ Emitted \subseteq Emitted'
      /\ \A n \in Emitted : emitted'[n] = emitted[n]
      /\ \A t \in tasks' : t \in tasks \/ \E n \in NewEvents : t \in TasksOf(n, emitted'[n])
      /\ tasks \subseteq tasks'
      /\ \A n \in NewEvents : TasksOf(n, emitted'[n]) \subseteq tasks'
      /\ received' = [s \in Sockets |-> [n \in 1..MaxEvents |->
           IF n \in NewEvents /\ HasSockets(emitted'[n])
           THEN Cardinality(rooms[s] \cap PushesTo(emitted'[n])) ELSE received[s][n]]]
  BY <1>1, EmitEffect
<1>3. /\ \A n \in Emitted' : emitted'[n] \in Event /\ n \in 1..MaxEvents
      /\ NewEvents \subseteq Emitted' /\ NewEvents \cap Emitted = {}
  BY <1>1, <1>2, EventAssumption DEF Emitted, NewEvents
<1>4. \A s \in Sockets : \A n \in 1..MaxEvents :
        /\ n \notin NewEvents => received'[s][n] = received[s][n]
        /\ n \in NewEvents =>
             \/ HasSockets(emitted'[n]) /\
                received'[s][n] = Cardinality(rooms[s] \cap PushesTo(emitted'[n]))
             \/ received'[s][n] = received[s][n]
  BY <1>2
<1>5. \A s \in Sockets : \A n \in 1..MaxEvents :
        \/ received'[s][n] = received[s][n]
        \/ /\ n \in NewEvents /\ received'[s][n] \in Nat
           /\ received'[s][n] > 0 =>
                \E user \in identities[s] : user \in RowsFor(emitted'[n])
           /\ Cardinality(identities[s]) <= 1 => received'[s][n] <= 1
  BY <1>3, <1>4, PushCount
<1>6. NotifyTypeOK'
  <2>1. tasks' \subseteq Task
    <3>1. \A n \in NewEvents : TasksOf(n, emitted'[n]) \subseteq Task
      BY <1>3, TasksOfEvent DEF Task
    <3> QED BY <1>1, <1>2, <3>1 DEF NotifyTypeOK
  <2>2. received' \in [Sockets -> [1..MaxEvents -> Nat]]
    <3>1. \A s \in Sockets : \A n \in 1..MaxEvents : received'[s][n] \in Nat
      BY <1>1, <1>5 DEF NotifyTypeOK
    <3> QED BY <1>2, <3>1
  <2>3. rows' \subseteq Emitted' \X User /\ mails' \subseteq Emitted' \X User
        /\ lost' \subseteq Emitted'
    BY <1>1, <1>2 DEF NotifyTypeOK
  <2> QED BY <1>1, <1>2, <2>1, <2>2, <2>3 DEF NotifyTypeOK
<1>7. TasksAskedFor'
  <2> SUFFICES ASSUME NEW t \in tasks' \cup failures' PROVE AskedFor(t)'
    BY DEF TasksAskedFor, AskedFor
  <2>1. CASE t \in tasks \cup failures
    BY <1>2, <2>1 DEF NInv, TasksAskedFor, AskedFor
  <2>2. CASE t \notin tasks \cup failures
    <3>1. PICK n \in NewEvents : t \in TasksOf(n, emitted'[n])
      BY <1>1, <1>2, <2>2
    <3> QED BY <1>3, <3>1, TasksOfEvent DEF AskedFor
  <2> QED BY <2>1, <2>2
<1>8. MailsAskedFor'
  BY <1>1, <1>2 DEF NInv, MailsAskedFor, NotifyTypeOK
<1>9. RoomsEarned'
  BY <1>1 DEF NInv, RoomsEarned
<1>10. PushesEarned'
  <2> SUFFICES ASSUME NEW s \in Sockets, NEW n \in 1..MaxEvents, received'[s][n] > 0
               PROVE  /\ n \in Emitted'
                      /\ \E user \in identities'[s] : user \in RowsFor(emitted'[n])
    BY DEF PushesEarned
  <2>1. CASE received'[s][n] = received[s][n]
    BY <1>1, <1>2, <2>1 DEF NInv, PushesEarned
  <2>2. CASE received'[s][n] # received[s][n]
    BY <1>1, <1>3, <1>5, <2>2
  <2> QED BY <2>1, <2>2
<1>11. ChannelsIsolated'
  <2> SUFFICES ASSUME NEW n \in Emitted' \ lost'
               PROVE  /\ \/ InFlight(n, InApp)' \/ Failed(n, InApp)'
                         \/ {n} \X RowsFor(emitted'[n]) \subseteq rows'
                      /\ \A user \in MailsFor(emitted'[n]) :
                           \/ <<n, user>> \in mails'
                           \/ [event |-> n, step |-> "sendMail", to |-> {user}]
                                \in tasks' \cup failures'
    BY DEF ChannelsIsolated, InFlight, Failed
  <2>1. CASE n \in Emitted
    BY <1>1, <1>2, <2>1 DEF NInv, ChannelsIsolated, InFlight, Failed
  <2>2. CASE n \in NewEvents
    <3>1. RowsFor(emitted'[n]) # {} => InFlight(n, InApp)'
      BY <1>2, <1>3, <2>2, TasksOfEvent DEF InFlight
    <3> QED BY <1>2, <1>3, <2>2, <3>1, TasksOfEvent
  <2> QED BY <2>1, <2>2 DEF NewEvents
<1>12. PushedOnce'
  BY <1>1, <1>5 DEF NInv, PushedOnce
<1> QED BY <1>6, <1>7, <1>8, <1>9, <1>10, <1>11, <1>12 DEF NInv
-----------------------------------------------------------------------------
\* How a task may end: it went through, or the listener's catch has it, and even
\* then its call may have gone through (Delivered, Caught).
Ends(t) ==
  /\ t \in tasks /\ tasks' = tasks \ {t}
  /\ rows \subseteq rows' /\ rows' \subseteq rows \cup RowsOf(t)
  /\ mails \subseteq mails' /\ mails' \subseteq mails \cup MailsOf(t)
  /\ \/ failures' = failures \cup {t}
     \/ /\ UNCHANGED failures /\ t.step # "findUsers"
        /\ RowsOf(t) \subseteq rows' /\ MailsOf(t) \subseteq mails'

\* Or it goes on to its next await (FindUsers).
GoesOn(t) ==
  /\ t \in tasks /\ t.step = "findUsers"
  /\ tasks' = (tasks \ {t}) \cup {[t EXCEPT !.step = "createRows"]}
  /\ UNCHANGED <<rows, mails, failures>>

LEMMA TaskEffect ==
  ASSUME NotifyTypeOK, NEW t \in tasks, TaskStep(t) \/ TaskFails(t)
  PROVE  /\ Ends(t) \/ GoesOn(t)
         /\ UNCHANGED <<emitted, rooms, received, crashes, identities, lost>>
         /\ faults' \in 0..MaxFaults
<1>1. faults \in 0..MaxFaults /\ MaxFaults \in Nat
  BY EventAssumption DEF NotifyTypeOK
<1>2. CASE TaskFails(t)
  BY <1>1, <1>2 DEF TaskFails, Caught, Ends
<1>3. CASE TaskStep(t)
  BY <1>1, <1>3 DEF TaskStep, FindUsers, GoesOn, RowsRefused, Delivered, Caught, Ends
<1> QED BY <1>2, <1>3

\* A listener goes on, ends or fails, and no other notices (the try/catch of
\* every listener).
LEMMA TaskInv ==
  ASSUME NInv, NEW t \in tasks, TaskStep(t) \/ TaskFails(t)
  PROVE  NInv'
<1>1. /\ NotifyTypeOK
      /\ Ends(t) \/ GoesOn(t)
      /\ UNCHANGED <<emitted, rooms, received, crashes, identities, lost>>
      /\ faults' \in 0..MaxFaults /\ Emitted' = Emitted
      /\ \A n \in Emitted : emitted[n] \in Event
  BY TaskEffect, EventAssumption DEF NInv, Emitted, NotifyTypeOK
<1>2. /\ t \in Task /\ AskedFor(t) /\ t.to \subseteq User /\ t.event \in Emitted
  BY <1>1 DEF NInv, NotifyTypeOK, TasksAskedFor, AskedFor, Task
<1>3. \A user \in t.to : MailsOf(t) # {} => user \in MailsFor(emitted[t.event])
  BY <1>2 DEF MailsOf, AskedFor
<1>4. RowsOf(t) \subseteq Emitted \X User /\ MailsOf(t) \subseteq Emitted \X User
  BY <1>2 DEF RowsOf, MailsOf
<1>5. PICK u : u = [t EXCEPT !.step = "createRows"]
  OBVIOUS
<1>6. t.step = "findUsers" =>
        u \in Task /\ u.event = t.event /\ u.to = t.to /\ u.step = "createRows" /\ AskedFor(u)
  BY <1>2, <1>5 DEF Task, AskedFor, InApp
<1>7. NotifyTypeOK'
  <2>1. tasks' \subseteq Task /\ failures' \subseteq Task
    BY <1>1, <1>2, <1>5, <1>6 DEF NotifyTypeOK, Ends, GoesOn
  <2>2. rows' \subseteq Emitted \X User /\ mails' \subseteq Emitted \X User
    BY <1>1, <1>4 DEF NotifyTypeOK, Ends, GoesOn
  <2> HIDE DEF Emitted
  <2> QED BY <1>1, <2>1, <2>2 DEF NotifyTypeOK
<1>8. TasksAskedFor'
  <2>1. \A v \in tasks' \cup failures' :
          v \in tasks \cup failures \/ (v = u /\ t.step = "findUsers")
    BY <1>1, <1>5 DEF Ends, GoesOn
  <2>2. \A v \in tasks \cup failures : AskedFor(v)
    BY DEF NInv, TasksAskedFor
  <2> QED BY <1>1, <1>6, <2>1, <2>2 DEF TasksAskedFor, AskedFor
<1>9. MailsAskedFor'
  <2>1. \A n \in Emitted : \A user \in User :
          <<n, user>> \in MailsOf(t) => user \in MailsFor(emitted[n])
    BY <1>2, <1>3 DEF MailsOf
  <2>2. mails' \subseteq mails \cup MailsOf(t)
    BY <1>1 DEF Ends, GoesOn
  <2> QED BY <1>1, <2>1, <2>2 DEF NInv, MailsAskedFor
<1>10. RoomsEarned' /\ PushesEarned' /\ PushedOnce'
  BY <1>1 DEF NInv, RoomsEarned, PushesEarned, PushedOnce
<1>11. ChannelsIsolated'
  <2> SUFFICES ASSUME NEW n \in Emitted \ lost
               PROVE  /\ \/ InFlight(n, InApp)' \/ Failed(n, InApp)'
                         \/ {n} \X RowsFor(emitted[n]) \subseteq rows'
                      /\ \A user \in MailsFor(emitted[n]) :
                           \/ <<n, user>> \in mails'
                           \/ [event |-> n, step |-> "sendMail", to |-> {user}]
                                \in tasks' \cup failures'
    BY <1>1 DEF ChannelsIsolated, InFlight, Failed
  <2>1. /\ \/ InFlight(n, InApp) \/ Failed(n, InApp) \/ {n} \X RowsFor(emitted[n]) \subseteq rows
        /\ \A user \in MailsFor(emitted[n]) :
             \/ <<n, user>> \in mails
             \/ [event |-> n, step |-> "sendMail", to |-> {user}] \in tasks \cup failures
    BY DEF NInv, ChannelsIsolated
  <2>2. CASE GoesOn(t)
    <3>1. InFlight(n, InApp) => InFlight(n, InApp)'
      BY <1>5, <1>6, <2>2 DEF GoesOn, InFlight, InApp
    <3>2. Failed(n, InApp) => Failed(n, InApp)'
      BY <2>2 DEF GoesOn, Failed
    <3>3. \A user \in MailsFor(emitted[n]) :
            [event |-> n, step |-> "sendMail", to |-> {user}] # t
      BY <2>2 DEF GoesOn
    <3> QED BY <2>1, <2>2, <3>1, <3>2, <3>3 DEF GoesOn
  <2>3. CASE Ends(t)
    <3>1. \/ InFlight(n, InApp)' \/ Failed(n, InApp)'
          \/ {n} \X RowsFor(emitted[n]) \subseteq rows'
      <4>1. CASE \E v \in tasks : v.event = n /\ v.step \in InApp /\ v # t
        BY <2>3, <4>1 DEF Ends, InFlight
      <4>2. CASE Failed(n, InApp) \/ {n} \X RowsFor(emitted[n]) \subseteq rows
        BY <2>3, <4>2 DEF Ends, Failed
      <4>3. CASE t.event = n /\ t.step \in InApp
        <5>1. CASE failures' = failures \cup {t}
          BY <4>3, <5>1 DEF Failed
        <5>2. CASE t.step # "findUsers" /\ RowsOf(t) \subseteq rows'
          <6>1. RowsOf(t) = {n} \X RowsFor(emitted[n])
            BY <1>2, <4>3, <5>2 DEF RowsOf, AskedFor, InApp
          <6> QED BY <5>2, <6>1
        <5> QED BY <2>3, <5>1, <5>2 DEF Ends
      <4> QED BY <2>1, <4>1, <4>2, <4>3 DEF InFlight
    <3>2. ASSUME NEW user \in MailsFor(emitted[n])
          PROVE  \/ <<n, user>> \in mails'
                 \/ [event |-> n, step |-> "sendMail", to |-> {user}] \in tasks' \cup failures'
      <4> DEFINE mail == [event |-> n, step |-> "sendMail", to |-> {user}]
      <4>1. CASE mail = t
        <5>1. MailsOf(t) = {n} \X {user}
          BY <4>1 DEF MailsOf
        <5> HIDE DEF mail
        <5> QED BY <2>3, <4>1, <5>1 DEF Ends, mail
      <4>2. CASE mail # t
        <5>1. <<n, user>> \in mails \/ mail \in tasks \cup failures
          BY <2>1
        <5> HIDE DEF mail
        <5> QED BY <2>3, <4>2, <5>1 DEF Ends, mail
      <4> QED BY <4>1, <4>2
    <3> QED BY <3>1, <3>2
  <2> QED BY <1>1, <2>2, <2>3
<1> QED BY <1>7, <1>8, <1>9, <1>10, <1>11 DEF NInv
-----------------------------------------------------------------------------
\* Connections end, or none does: what is left has been earned still (Closed).
LEMMA ClosedKeeps ==
  ASSUME NInv, NEW S \in SUBSET Sockets, Closed(S), UNCHANGED emitted
  PROVE  /\ rooms' \in [Sockets -> SUBSET Room] /\ identities' \in [Sockets -> SUBSET User]
         /\ received' \in [Sockets -> [1..MaxEvents -> Nat]]
         /\ RoomsEarned' /\ PushesEarned' /\ PushedOnce'
<1>1. /\ rooms \in [Sockets -> SUBSET Room] /\ identities \in [Sockets -> SUBSET User]
      /\ received \in [Sockets -> [1..MaxEvents -> Nat]]
  BY DEF NInv, NotifyTypeOK
<1>2. /\ rooms' \in [Sockets -> SUBSET Room] /\ identities' \in [Sockets -> SUBSET User]
  BY <1>1 DEF Closed
<1>3. received' \in [Sockets -> [1..MaxEvents -> Nat]]
  BY <1>1 DEF Closed
<1>4. \A s \in Sockets :
        \/ /\ rooms'[s] = rooms[s] /\ identities'[s] = identities[s]
           /\ received'[s] = received[s]
        \/ /\ rooms'[s] = {} /\ identities'[s] = {}
           /\ \A n \in 1..MaxEvents : received'[s][n] = 0
  BY DEF Closed
<1>5. RoomsEarned'
  BY <1>4, FS_EmptySet DEF NInv, RoomsEarned
<1>6. PushesEarned'
  BY <1>4 DEF NInv, PushesEarned, Emitted
<1>7. PushedOnce'
  BY <1>4 DEF NInv, PushedOnce
<1> QED BY <1>2, <1>3, <1>5, <1>6, <1>7

\* A socket joins the rooms of one more user (Authenticate).
LEMMA AuthenticateStep ==
  ASSUME NInv, NEW s \in Sockets, NEW user \in User, Authenticate(s, user)
  PROVE  NInv'
<1>1. /\ NotifyTypeOK
      /\ rooms' = [rooms EXCEPT ![s] = @ \cup RoomsOf(user)]
      /\ identities' = [identities EXCEPT ![s] = @ \cup {user}]
      /\ UNCHANGED <<emitted, tasks, rows, mails, received, faults, crashes, failures, lost>>
  BY DEF NInv, Authenticate
<1>2. RoomsOf(user) \subseteq Room /\ IsFiniteSet(RoomsOf(user))
  <2>1. RoomsOf(user) \subseteq Room
    BY DEF RoomsOf, Room
  <2>2. RoomsOf(user) \subseteq {UserRoom(user)} \cup {RoleRoom("agent"), RoleRoom("admin")}
    BY DEF RoomsOf
  <2>3. IsFiniteSet({UserRoom(user)} \cup {RoleRoom("agent")} \cup {RoleRoom("admin")})
    BY FS_Singleton, FS_Union
  <2>4. RoomsOf(user) \subseteq
          {UserRoom(user)} \cup {RoleRoom("agent")} \cup {RoleRoom("admin")}
    BY <2>2
  <2> QED BY <2>1, <2>3, <2>4, FS_Subset
<1>3. NotifyTypeOK'
  BY <1>1, <1>2 DEF NotifyTypeOK, Emitted
<1>4. /\ rooms'[s] = rooms[s] \cup RoomsOf(user)
      /\ identities'[s] = identities[s] \cup {user}
      /\ \A t \in Sockets \ {s} : rooms'[t] = rooms[t] /\ identities'[t] = identities[t]
  BY <1>1 DEF NotifyTypeOK
<1>5. \A t \in Sockets : IsFiniteSet(identities[t]) /\ IsFiniteSet(rooms[t])
  BY DEF NInv, RoomsEarned
<1>6. IsFiniteSet(identities'[s]) /\ IsFiniteSet(rooms'[s])
  <2>1. IsFiniteSet(identities[s] \cup {user})
    BY <1>5, FS_AddElement
  <2>2. IsFiniteSet(rooms[s] \cup RoomsOf(user))
    BY <1>2, <1>5, FS_Union
  <2> QED BY <1>4, <2>1, <2>2
<1>7. RoomsEarned'
  <2> SUFFICES ASSUME NEW t \in Sockets
               PROVE  /\ IsFiniteSet(rooms'[t]) /\ IsFiniteSet(identities'[t])
                      /\ \A room \in rooms'[t] : \E u \in identities'[t] : room \in RoomsOf(u)
    BY DEF RoomsEarned, RoomsOf, UserRoom, RoleRoom
  <2> QED BY <1>4, <1>5, <1>6 DEF NInv, RoomsEarned
<1>8. PushesEarned'
  BY <1>1, <1>4 DEF NInv, PushesEarned, Emitted
<1>9. PushedOnce'
  <2> SUFFICES ASSUME NEW t \in Sockets, NEW n \in 1..MaxEvents,
                      Cardinality(identities'[t]) <= 1
               PROVE  received'[t][n] <= 1
    BY DEF PushedOnce
  <2>1. IsFiniteSet(identities'[t]) /\ identities[t] \subseteq identities'[t]
    BY <1>4, <1>5, <1>6
  <2>2. IsFiniteSet(identities[t]) /\ Cardinality(identities[t]) <= Cardinality(identities'[t])
    BY <2>1, FS_Subset
  <2>3. Cardinality(identities[t]) \in Nat /\ Cardinality(identities'[t]) \in Nat
    BY <2>1, <2>2, FS_CardinalityType
  <2>4. Cardinality(identities[t]) <= 1
    BY <2>2, <2>3
  <2> QED BY <1>1, <2>4 DEF NInv, PushedOnce
<1>10. TasksAskedFor' /\ MailsAskedFor' /\ ChannelsIsolated'
  BY <1>1 DEF NInv, TasksAskedFor, AskedFor, MailsAskedFor, ChannelsIsolated, Emitted,
              InFlight, Failed
<1> QED BY <1>3, <1>7, <1>8, <1>9, <1>10 DEF NInv

\* A connection ends (Disconnect).
LEMMA DisconnectStep ==
  ASSUME NInv, NEW s \in Sockets, Disconnect(s) PROVE NInv'
<1>1. /\ Closed({s}) /\ NotifyTypeOK /\ {s} \in SUBSET Sockets
      /\ UNCHANGED <<emitted, tasks, rows, mails, faults, crashes, failures, lost>>
  BY DEF NInv, Disconnect
<1>2. /\ rooms' \in [Sockets -> SUBSET Room] /\ identities' \in [Sockets -> SUBSET User]
      /\ received' \in [Sockets -> [1..MaxEvents -> Nat]]
      /\ RoomsEarned' /\ PushesEarned' /\ PushedOnce'
  BY <1>1, ClosedKeeps
<1>3. NotifyTypeOK'
  BY <1>1, <1>2 DEF NotifyTypeOK, Emitted
<1>4. TasksAskedFor' /\ MailsAskedFor' /\ ChannelsIsolated'
  BY <1>1 DEF NInv, TasksAskedFor, AskedFor, MailsAskedFor, ChannelsIsolated, Emitted,
              InFlight, Failed
<1> QED BY <1>2, <1>3, <1>4 DEF NInv

\* A process dies: its tasks are gone and their events are lost (Crash).
LEMMA ProcessCrashStep ==
  ASSUME NInv, NEW process \in {"api", "worker"}, Crash(process) PROVE NInv'
<1> DEFINE hit == {t \in tasks : Process(emitted[t.event]) = process}
<1>1. /\ NotifyTypeOK /\ crashes' \in 0..MaxCrashes
      /\ tasks' = tasks \ hit
      /\ lost' = lost \cup {t.event : t \in hit}
      /\ UNCHANGED <<emitted, rows, mails, faults, failures>>
      /\ Emitted' = Emitted
  BY EventAssumption DEF NInv, Crash, NotifyTypeOK, Emitted
<1>2. PICK S \in SUBSET Sockets : Closed(S)
  BY DEF Crash
<1>3. /\ rooms' \in [Sockets -> SUBSET Room] /\ identities' \in [Sockets -> SUBSET User]
      /\ received' \in [Sockets -> [1..MaxEvents -> Nat]]
      /\ RoomsEarned' /\ PushesEarned' /\ PushedOnce'
  BY <1>1, <1>2, ClosedKeeps
<1>4. \A t \in hit : t.event \in Emitted
  BY DEF NInv, TasksAskedFor, AskedFor
<1>5. NotifyTypeOK'
  <2> HIDE DEF Emitted
  <2>1. lost' \subseteq Emitted
    BY <1>1, <1>4 DEF NotifyTypeOK
  <2> QED BY <1>1, <1>3, <2>1 DEF NotifyTypeOK
<1>6. TasksAskedFor' /\ MailsAskedFor'
  BY <1>1 DEF NInv, TasksAskedFor, AskedFor, MailsAskedFor
<1>7. ChannelsIsolated'
  <2> SUFFICES ASSUME NEW n \in Emitted \ lost'
               PROVE  /\ \/ InFlight(n, InApp)' \/ Failed(n, InApp)'
                         \/ {n} \X RowsFor(emitted[n]) \subseteq rows'
                      /\ \A user \in MailsFor(emitted[n]) :
                           \/ <<n, user>> \in mails'
                           \/ [event |-> n, step |-> "sendMail", to |-> {user}]
                                \in tasks' \cup failures'
    BY <1>1 DEF ChannelsIsolated, InFlight, Failed
  <2>1. n \in Emitted \ lost /\ \A t \in tasks : t.event = n => t \in tasks'
    BY <1>1
  <2>2. /\ \/ InFlight(n, InApp) \/ Failed(n, InApp) \/ {n} \X RowsFor(emitted[n]) \subseteq rows
        /\ \A user \in MailsFor(emitted[n]) :
             \/ <<n, user>> \in mails
             \/ [event |-> n, step |-> "sendMail", to |-> {user}] \in tasks \cup failures
    BY <2>1 DEF NInv, ChannelsIsolated
  <2>3. InFlight(n, InApp) => InFlight(n, InApp)'
    BY <2>1 DEF InFlight
  <2>4. \A user \in User : LET mail == [event |-> n, step |-> "sendMail", to |-> {user}] IN
          mail \in tasks => mail \in tasks'
    BY <2>1
  <2>5. MailsFor(emitted[n]) \subseteq User
    BY RecipientsAreUsers, EventAssumption DEF NInv, NotifyTypeOK, Emitted
  <2> QED BY <1>1, <2>2, <2>3, <2>4, <2>5 DEF Failed
<1> QED BY <1>3, <1>5, <1>6, <1>7 DEF NInv

\* Every step preserves the inductive invariant.
LEMMA NotifyNextInv == ASSUME NInv, [NotifyNext]_notifyVars PROVE NInv'
<1>1. CASE UNCHANGED notifyVars
  BY <1>1 DEF notifyVars, NInv, NotifyTypeOK, TasksAskedFor, AskedFor, MailsAskedFor,
     RoomsEarned, PushesEarned, ChannelsIsolated, PushedOnce, Emitted, InFlight, Failed
<1>2. CASE NotifyNext
  BY <1>2, EmitStep, TaskInv, DisconnectStep, AuthenticateStep, ProcessCrashStep
  DEF NotifyNext
<1> QED BY <1>1, <1>2

LEMMA NotifyInvariance == NotifySpec => []NInv
BY NotifyInitInv, NotifyNextInv, PTL DEF NotifySpec

\* Every task, row, mail, room and push is of an event that was emitted and of
\* a user there is (the three listeners).
THEOREM NotifyTypeCorrect == NotifySpec => []NotifyTypeOK
<1>1. NInv => NotifyTypeOK
  BY DEF NInv
<1> QED BY <1>1, NotifyInvariance, PTL

\* In whatever order listeners go on and fail, none of them keeps another from
\* its rows or mails (the try/catch of every listener, Promise.all).
THEOREM Isolation == NotifySpec => []ChannelsIsolated
<1>1. NInv => ChannelsIsolated
  BY DEF NInv
<1> QED BY <1>1, NotifyInvariance, PTL

\* Whoever was mailed an event, or saw it pushed on a connection that spoke for
\* them, has a row of it as soon as the in-app listener is done.
THEOREM Agreement == NotifySpec => []ChannelsAgree
<1>1. NInv => ChannelsAgree
  <2> SUFFICES ASSUME NInv, NEW n \in Emitted \ lost,
                      ~InFlight(n, InApp), ~Failed(n, InApp)
               PROVE  /\ \A user \in User : <<n, user>> \in mails => <<n, user>> \in rows
                      /\ \A s \in Sockets : received[s][n] > 0 =>
                           \E user \in identities[s] : <<n, user>> \in rows
    BY DEF ChannelsAgree
  <2>1. {n} \X RowsFor(emitted[n]) \subseteq rows
    BY DEF NInv, ChannelsIsolated
  <2>2. emitted[n] \in Event /\ n \in 1..MaxEvents
    BY EventAssumption DEF NInv, NotifyTypeOK, Emitted
  <2>3. MailsFor(emitted[n]) \subseteq RowsFor(emitted[n])
    BY <2>2, RecipientsAreUsers
  <2>4. \A user \in User : <<n, user>> \in mails => <<n, user>> \in rows
    BY <2>1, <2>3 DEF NInv, MailsAskedFor
  <2>5. \A s \in Sockets : received[s][n] > 0 =>
          \E user \in identities[s] : <<n, user>> \in rows
    BY <2>1, <2>2 DEF NInv, PushesEarned
  <2> QED BY <2>4, <2>5
<1> QED BY <1>1, NotifyInvariance, PTL

\* A connection of one user sees an event once, although it is in several rooms
\* (notifyRealtime, config/socket.js).
THEOREM NoDoublePush == NotifySpec => []PushedOnce
<1>1. NInv => PushedOnce
  BY DEF NInv
<1> QED BY <1>1, NotifyInvariance, PTL
=============================================================================
