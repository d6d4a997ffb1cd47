--------------------------- MODULE TicketsProofs ---------------------------
(***************************************************************************)
(* Proofs about Tickets, for any number of requests, users and tickets:    *)
(* type correctness, and that announcing only the difference between what  *)
(* a request read and what it wrote is right on every ticket that no race, *)
(* crash or lost answer disturbed.                                         *)
(***************************************************************************)
EXTENDS Tickets, FiniteSetTheorems, TLAPS

\* The inductive invariant, in parts.

\* What a request carries at each place fits that place: it passed the role
\* check, what it read was in its scope, what it wrote has been handed an id.
Carried(r) ==
  LET c == call[r] IN
  /\ pc[r] # "idle" => c \in TicketCall
  /\ pc[r] = "create" => c.op = "create" /\ c.viewer \in Customers
  /\ pc[r] \in {"lookup", "patch", "delete"} =>
       /\ c.op # "create" /\ c.id \in TicketIds \cup {TooBig}
       /\ c.viewer \in authorize(c.op)
  /\ pc[r] \in {"patch", "delete"} =>
       /\ c.op = pc[r] /\ c.id \in TicketIds /\ previous[r] \in Ticket
       /\ scopeForViewer(c.viewer, previous[r])
  /\ pc[r] = "emit" =>
       /\ c.id \in TicketIds /\ c.id < nextTicketId /\ updated[r] \in Ticket
       /\ \/ c.op = "create"
          \/ c.op = "patch" /\ previous[r] \in Ticket

AllCarried == \A r \in Requests : Carried(r)

\* The bound on ids: every create in flight has an id left to take.
Creating == {r \in Requests : pc[r] = "create"}
RoomLeft == nextTicketId + Cardinality(Creating) <= MaxTickets + 1

Pending(r, id) == pc[r] = "emit" /\ call[r].id = id

\* Listeners know what the row said before the write of request r.
KnowBefore(r, id) ==
  /\ announced[id].status = previous[r].status
  /\ previous[r].assignedAgentId \in {Null, announced[id].assignedAgentId}

\* On an undisturbed ticket at most one announcement is outstanding, it is of
\* what the row says now, and listeners know what the row said before it.
OnePending == \A id \in DOMAIN tickets \ disturbed : \A r, q \in Requests :
  Pending(r, id) /\ Pending(q, id) => r = q

PendingIsCurrent == \A id \in DOMAIN tickets \ disturbed : \A r \in Requests :
  Pending(r, id) =>
    /\ Facts(updated[r]) = Facts(tickets[id])
    /\ call[r].op = "patch" => KnowBefore(r, id)

IInv == TypeOK /\ AllCarried /\ RoomLeft /\ OnePending /\ PendingIsCurrent
          /\ AnnouncementsKeepUp /\ OwnAnnouncementsOnly
-----------------------------------------------------------------------------
Places == {"idle", "lookup", "create", "patch", "delete", "emit"}
Replies == {200, 201, 204, 403, 404, 409, 500, Null}

\* Every error a handler can end in has one of the statuses of the API
\* (errorHandler).
LEMMA ErrorStatus ==
  \A err \in {"Forbidden", "NotFound", "P2025", "P2000", "P2003", "OutOfRange",
              "Unreachable"} :
    errorHandler(err) \in Replies
BY DEF errorHandler, PRISMA_ERROR_STATUS, Replies

\* What a response does to the request it answers and leaves of the others
\* (Respond).
LEMMA RespondEffect ==
  ASSUME TypeOK, NEW r \in Requests, NEW status \in Replies, Respond(r, status)
  PROVE  /\ pc' \in [Requests -> Places]
         /\ call' \in [Requests -> TicketCall \cup {Null}]
         /\ previous' \in [Requests -> Ticket \cup {Null}]
         /\ updated' \in [Requests -> Ticket \cup {Null}]
         /\ reply' \in [Requests -> Replies]
         /\ pc'[r] = "idle"
         /\ \A q \in Requests \ {r} :
              /\ pc'[q] = pc[q] /\ call'[q] = call[q]
              /\ previous'[q] = previous[q] /\ updated'[q] = updated[q]
BY DEF TypeOK, Respond, Places, Replies

\* A handler that fails responds (asyncHandler).
LEMMA FailEffect ==
  ASSUME NEW r \in Requests,
         NEW err \in {"Forbidden", "NotFound", "P2025", "P2000", "P2003", "OutOfRange",
                      "Unreachable"},
         asyncHandler(r, err)
  PROVE  \E status \in Replies : Respond(r, status)
BY ErrorStatus DEF asyncHandler

\* The seeded tables and the idle requests satisfy every part of IInv.
LEMMA InitInv == Init => IInv
<1> SUFFICES ASSUME Init PROVE IInv
  OBVIOUS
<1>1. PICK n \in 0..MaxTickets : SeedTickets \in [1..n -> Ticket]
  BY SeedAssumption
<1>2. PICK m \in 0..MaxComments : SeedComments \in [1..m -> Comment]
  BY SeedAssumption
<1>3. nextTicketId = n + 1 /\ nextCommentId = m + 1
  <2>1. Cardinality(1..n) = n /\ Cardinality(1..m) = m
    <3>1. n \in Nat /\ m \in Nat
      BY SeedAssumption
    <3>2. Cardinality(1..n) = n
      BY <3>1, FS_Interval
    <3>3. Cardinality(1..m) = m
      BY <3>1, FS_Interval
    <3> QED BY <3>2, <3>3
  <2> QED BY <2>1, <1>1, <1>2 DEF Init, StoreInit
<1>4. StoreTypeOK
  BY <1>1, <1>2, <1>3, SeedAssumption
  DEF Init, StoreInit, StoreTypeOK, IsTable, TicketIds, CommentIds
<1>5. TypeOK
  <2>1. \A id \in DOMAIN SeedTickets : Facts(SeedTickets[id]) \in Fact
    BY <1>1 DEF Facts, Fact, Ticket
  <2>2. announced \in [TicketIds -> Fact]
    BY <2>1 DEF Init, Unheard, Fact
  <2> QED BY <1>4, <2>2, CallAssumption DEF Init, TypeOK, Nothing
<1>6. AllCarried
  BY DEF Init, AllCarried, Carried
<1>7. RoomLeft
  <2>1. Creating = {}
    BY DEF Init, Creating
  <2> QED BY <2>1, <1>3, FS_EmptySet, SeedAssumption DEF RoomLeft
<1>8. OnePending /\ PendingIsCurrent /\ OwnAnnouncementsOnly
  BY DEF Init, OnePending, PendingIsCurrent, Pending, OwnAnnouncementsOnly,
         PatchAboutToEmit
<1>9. AnnouncementsKeepUp
  <2>1. DOMAIN tickets \subseteq TicketIds
    BY <1>1, SeedAssumption DEF Init, StoreInit, TicketIds
  <2> QED BY <2>1 DEF Init, StoreInit, AnnouncementsKeepUp, ListenersKnow, Facts
<1> QED BY <1>5, <1>6, <1>7, <1>8, <1>9 DEF IInv
-----------------------------------------------------------------------------
\* A request none of whose state changes keeps what it carries, for ids once
\* handed out stay handed out (Carried).
LEMMA CarriedFrame ==
  ASSUME NEW q \in Requests, Carried(q),
         pc'[q] = pc[q], call'[q] = call[q],
         previous'[q] = previous[q], updated'[q] = updated[q],
         nextTicketId \in Int, nextTicketId' \in Int, nextTicketId <= nextTicketId'
  PROVE  Carried(q)'
<1>1. pc'[q] = "emit" => call'[q].id \in TicketIds /\ call'[q].id < nextTicketId'
  <2>1. pc[q] = "emit" => call[q].id \in Int /\ call[q].id < nextTicketId
    BY DEF Carried, TicketIds
  <2> QED BY <2>1 DEF Carried
<1> QED BY <1>1 DEF Carried

\* When no more creates are in flight and no id was taken, there is still room
\* (RoomForTicket).
LEMMA RoomFrame ==
  ASSUME TypeOK, RoomLeft, Creating' \subseteq Creating, UNCHANGED nextTicketId
  PROVE  RoomLeft'
<1>1. IsFiniteSet(Creating)
  BY FS_Subset, CallAssumption DEF Creating
<1>2. /\ Cardinality(Creating') <= Cardinality(Creating)
      /\ IsFiniteSet(Creating')
  BY <1>1, FS_Subset
<1>3. Cardinality(Creating) \in Nat /\ Cardinality(Creating') \in Nat
  BY <1>1, <1>2, FS_CardinalityType
<1> QED BY <1>2, <1>3, SeedAssumption DEF RoomLeft, TypeOK, StoreTypeOK

\* A step that announces nothing, commits no write and loses no announcement
\* but those of disturbed tickets keeps what listeners know in order.
LEMMA QuietStep ==
  ASSUME IInv,
         \A q \in Requests : pc'[q] = "emit" =>
           /\ pc[q] = "emit" /\ call'[q] = call[q]
           /\ previous'[q] = previous[q] /\ updated'[q] = updated[q],
         \A q \in Requests : pc[q] = "emit" =>
           pc'[q] = "emit" \/ call[q].id \in disturbed',
         DOMAIN tickets' \subseteq DOMAIN tickets,
         \A id \in DOMAIN tickets' : tickets'[id] = tickets[id],
         UNCHANGED announced, disturbed \subseteq disturbed'
  PROVE  /\ OnePending' /\ PendingIsCurrent'
         /\ AnnouncementsKeepUp' /\ OwnAnnouncementsOnly'
<1>1. \A id : \A q \in Requests : Pending(q, id)' => Pending(q, id)
  BY DEF Pending
<1>2. OnePending'
  BY <1>1 DEF IInv, OnePending
<1>3. PendingIsCurrent'
  BY <1>1 DEF IInv, PendingIsCurrent, Pending, KnowBefore
<1>4. AnnouncementsKeepUp'
  <2> SUFFICES ASSUME NEW id \in DOMAIN tickets' \ disturbed', Quiet(id)'
               PROVE  ListenersKnow(id)'
    BY DEF AnnouncementsKeepUp
  <2>1. Quiet(id)
    BY DEF Quiet, AnnouncementPending
  <2>2. ListenersKnow(id)
    BY <2>1 DEF IInv, AnnouncementsKeepUp
  <2> QED BY <2>2 DEF ListenersKnow
<1>5. OwnAnnouncementsOnly'
  BY DEF IInv, OwnAnnouncementsOnly, PatchAboutToEmit, AnnouncesOwnChanges
<1> QED BY <1>2, <1>3, <1>4, <1>5

\* Answering request r keeps the types, what the others carry and the room for
\* new ids (Respond).
LEMMA AnswerFrame ==
  ASSUME IInv, NEW r \in Requests, NEW status \in Replies, Respond(r, status),
         StoreTypeOK', crashes' \in 0..MaxCrashes, UNCHANGED nextTicketId,
         announced' \in [TicketIds -> Fact], disturbed' \subseteq TicketIds
  PROVE  TypeOK' /\ AllCarried' /\ RoomLeft'
<1>1. TypeOK
  BY DEF IInv
<1>2. /\ pc' \in [Requests -> Places]
      /\ call' \in [Requests -> TicketCall \cup {Null}]
      /\ previous' \in [Requests -> Ticket \cup {Null}]
      /\ updated' \in [Requests -> Ticket \cup {Null}]
      /\ reply' \in [Requests -> Replies]
      /\ pc'[r] = "idle"
      /\ \A q \in Requests \ {r} :
           /\ pc'[q] = pc[q] /\ call'[q] = call[q]
           /\ previous'[q] = previous[q] /\ updated'[q] = updated[q]
  BY <1>1, RespondEffect
<1>3. TypeOK'
  BY <1>1, <1>2 DEF TypeOK, Places, Replies
<1>4. AllCarried'
  <2> SUFFICES ASSUME NEW q \in Requests PROVE Carried(q)'
    BY DEF AllCarried
  <2>1. CASE q = r
    BY <2>1, <1>2 DEF Carried
  <2>2. CASE q # r
    <3>1. Carried(q) /\ nextTicketId \in Int
      BY <1>1 DEF IInv, AllCarried, TypeOK, StoreTypeOK
    <3> QED BY <3>1, <2>2, <1>2, CarriedFrame
  <2> QED BY <2>1, <2>2
<1>5. RoomLeft'
  <2>1. Creating' \subseteq Creating
    BY <1>2 DEF Creating
  <2> QED BY <2>1, <1>1, RoomFrame DEF IInv
<1> QED BY <1>3, <1>4, <1>5

\* A step that answers request r and at most removes rows, adds to the disturbed
\* tickets and counts a failure keeps the invariant.
LEMMA AnswerStep ==
  ASSUME IInv, NEW r \in Requests, NEW status \in Replies, Respond(r, status),
         StoreTypeOK', crashes' \in 0..MaxCrashes,
         DOMAIN tickets' \subseteq DOMAIN tickets,
         \A id \in DOMAIN tickets' : tickets'[id] = tickets[id],
         UNCHANGED <<nextTicketId, announced>>,
         disturbed \subseteq disturbed', disturbed' \subseteq TicketIds,
         pc[r] = "emit" => call[r].id \in disturbed'
  PROVE  IInv'
<1>1. TypeOK' /\ AllCarried' /\ RoomLeft'
  BY AnswerFrame DEF IInv, TypeOK
<1>2. \A q \in Requests : pc'[q] = "emit" =>
        /\ pc[q] = "emit" /\ call'[q] = call[q]
        /\ previous'[q] = previous[q] /\ updated'[q] = updated[q]
  BY RespondEffect DEF IInv
<1>3. \A q \in Requests : pc[q] = "emit" =>
        pc'[q] = "emit" \/ call[q].id \in disturbed'
  BY RespondEffect DEF IInv
<1> QED BY <1>1, <1>2, <1>3, QuietStep DEF IInv
-----------------------------------------------------------------------------
\* A request that is accepted, or found its ticket, moves on with nothing
\* written or announced (Receive, Lookup).
LEMMA MoveStep ==
  ASSUME IInv, NEW r \in Requests, UNCHANGED <<tables, mishaps, ghosts>>,
         TypeOK', pc[r] # "emit", pc'[r] # "emit", Carried(r)', RoomLeft',
         \A q \in Requests \ {r} :
           /\ pc'[q] = pc[q] /\ call'[q] = call[q]
           /\ previous'[q] = previous[q] /\ updated'[q] = updated[q]
  PROVE  IInv'
<1>1. AllCarried'
  <2> SUFFICES ASSUME NEW q \in Requests \ {r} PROVE Carried(q)'
    BY DEF AllCarried
  <2>1. Carried(q) /\ nextTicketId \in Int /\ UNCHANGED nextTicketId
    BY DEF IInv, AllCarried, TypeOK, StoreTypeOK, tables
  <2> QED BY <2>1, CarriedFrame
<1>2. /\ OnePending' /\ PendingIsCurrent'
      /\ AnnouncementsKeepUp' /\ OwnAnnouncementsOnly'
  <2>1. UNCHANGED <<tickets, announced, disturbed>>
    BY DEF tables, ghosts
  <2>2. \A q \in Requests : pc'[q] = "emit" =>
          /\ pc[q] = "emit" /\ call'[q] = call[q]
          /\ previous'[q] = previous[q] /\ updated'[q] = updated[q]
    OBVIOUS
  <2>3. \A q \in Requests : pc[q] = "emit" =>
          pc'[q] = "emit" \/ call[q].id \in disturbed'
    OBVIOUS
  <2> QED BY <2>1, <2>2, <2>3, QuietStep
<1> QED BY <1>1, <1>2 DEF IInv

\* A request that arrives is refused, or accepted by a role its route lets
\* through (Receive).
LEMMA ReceiveStep == ASSUME IInv, NEW r \in Requests, Receive(r) PROVE IInv'
<1>1. PICK c \in TicketCalls :
        /\ pc[r] = "idle"
        /\ c.op = "create" => RoomForTicket
        /\ \/ /\ c.viewer \notin authorize(c.op)
              /\ asyncHandler(r, "Forbidden")
           \/ /\ c.viewer \in authorize(c.op)
              /\ pc' = [pc EXCEPT ![r] = IF c.op = "create" THEN "create" ELSE "lookup"]
              /\ call' = [call EXCEPT ![r] = c]
              /\ reply' = [reply EXCEPT ![r] = Null]
              /\ UNCHANGED <<previous, updated>>
        /\ UNCHANGED <<tables, mishaps, ghosts>>
  BY DEF Receive
<1>2. TypeOK
  BY DEF IInv
<1>3. CASE asyncHandler(r, "Forbidden")
  <2>1. PICK status \in Replies : Respond(r, status)
    BY <1>3, FailEffect
  <2>2. StoreTypeOK' /\ crashes' \in 0..MaxCrashes
    BY <1>1, <1>2 DEF TypeOK, StoreTypeOK, tables, mishaps, IsTable
  <2> QED BY <2>1, <2>2, <1>1, <1>2, AnswerStep DEF tables, ghosts, TypeOK
<1>4. CASE ~asyncHandler(r, "Forbidden")
  <2>1. c \in TicketCall
    BY CallAssumption
  <2>2. TypeOK'
    BY <1>1, <1>2, <1>4, <2>1
    DEF TypeOK, StoreTypeOK, tables, mishaps, ghosts, IsTable
  <2>3. Carried(r)'
    <3>1. pc'[r] = (IF c.op = "create" THEN "create" ELSE "lookup") /\ call'[r] = c
      BY <1>1, <1>2, <1>4 DEF TypeOK
    <3>2. c.op # "create" => c.id \in TicketIds \cup {TooBig}
      BY <2>1, CallAssumption DEF TicketCall
    <3>3. c.op = "create" => c.viewer \in Customers
      BY <1>1, <1>4 DEF authorize
    <3> QED BY <1>1, <1>4, <2>1, <3>1, <3>2, <3>3 DEF Carried
  <2>4. RoomLeft'
    <3>1. CASE c.op # "create"
      <4>1. Creating' \subseteq Creating
        BY <1>1, <1>2, <1>4, <3>1 DEF Creating, TypeOK
      <4> QED BY <4>1, <1>1, <1>2, RoomFrame DEF IInv, tables
    <3>2. CASE c.op = "create"
      <4>1. Creating' = Creating \cup {r}
        BY <1>1, <1>2, <1>4, <3>2 DEF Creating, TypeOK
      <4>2. IsFiniteSet(Creating) /\ r \notin Creating
        BY <1>1, FS_Subset, CallAssumption DEF Creating
      <4>3. /\ Cardinality(Creating') = Cardinality(Creating) + 1
            /\ Cardinality(Creating) \in Nat
        BY <4>1, <4>2, FS_AddElement, FS_CardinalityType
      <4>4. nextTicketId + Cardinality(Creating) <= MaxTickets
        BY <1>1, <3>2 DEF RoomForTicket, Creating
      <4> QED BY <4>3, <4>4, <1>1, <1>2, SeedAssumption
          DEF RoomLeft, tables, TypeOK, StoreTypeOK
    <3> QED BY <3>1, <3>2
  <2>5. pc[r] # "emit" /\ pc'[r] # "emit"
    BY <1>1, <1>2, <1>4 DEF TypeOK
  <2>6. \A q \in Requests \ {r} :
          /\ pc'[q] = pc[q] /\ call'[q] = call[q]
          /\ previous'[q] = previous[q] /\ updated'[q] = updated[q]
    BY <1>1, <1>2, <1>4 DEF TypeOK
  <2> QED BY <1>1, <2>2, <2>3, <2>4, <2>5, <2>6, MoveStep
<1> QED BY <1>3, <1>4

\* A lookup ends the request or hands it a row its viewer may see (Lookup).
LEMMA LookupStep == ASSUME IInv, NEW r \in Requests, Lookup(r) PROVE IInv'
<1> DEFINE c == call[r]
<1>1. /\ pc[r] = "lookup" /\ TypeOK /\ Carried(r)
      /\ UNCHANGED <<tables, mishaps, ghosts>>
  BY DEF Lookup, IInv, AllCarried
<1>2. CASE asyncHandler(r, "OutOfRange") \/ asyncHandler(r, "NotFound") \/ Respond(r, 200)
  <2>1. PICK status \in Replies : Respond(r, status)
    BY <1>2, FailEffect DEF Replies
  <2>2. StoreTypeOK' /\ crashes' \in 0..MaxCrashes
    BY <1>1 DEF TypeOK, StoreTypeOK, tables, mishaps, IsTable
  <2> QED BY <2>1, <2>2, <1>1, AnswerStep DEF tables, ghosts, TypeOK
<1>3. CASE ~(asyncHandler(r, "OutOfRange") \/ asyncHandler(r, "NotFound") \/ Respond(r, 200))
  <2>1. /\ Visible(c.id, c.viewer) /\ c.op # "get"
        /\ pc' = [pc EXCEPT ![r] = c.op]
        /\ previous' = [previous EXCEPT ![r] = tickets[c.id]]
        /\ UNCHANGED <<call, updated, reply>>
    BY <1>3 DEF Lookup
  <2>2. c.op \in {"patch", "delete"} /\ c \in TicketCall
    BY <1>1, <2>1 DEF Carried, TicketCall
  <2>3. /\ tickets[c.id] \in Ticket /\ scopeForViewer(c.viewer, tickets[c.id])
        /\ c.id \in TicketIds
    BY <1>1, <2>1 DEF Visible, TypeOK, StoreTypeOK, IsTable
  <2>4. TypeOK'
    BY <1>1, <2>1, <2>2, <2>3
    DEF TypeOK, StoreTypeOK, tables, mishaps, ghosts, IsTable
  <2>5. pc'[r] = c.op /\ previous'[r] = tickets[c.id] /\ call'[r] = c
    BY <1>1, <2>1 DEF TypeOK
  <2>6. Carried(r)'
    BY <1>1, <2>2, <2>3, <2>5 DEF Carried
  <2>7. RoomLeft'
    <3>1. Creating' \subseteq Creating
      BY <1>1, <2>1, <2>2 DEF Creating, TypeOK
    <3> QED BY <3>1, <1>1, RoomFrame DEF IInv, tables
  <2>8. \A q \in Requests \ {r} :
          /\ pc'[q] = pc[q] /\ call'[q] = call[q]
          /\ previous'[q] = previous[q] /\ updated'[q] = updated[q]
    BY <1>1, <2>1 DEF TypeOK
  <2> QED BY <1>1, <2>2, <2>4, <2>5, <2>6, <2>7, <2>8, MoveStep
<1> QED BY <1>2, <1>3

\* A delete announces nothing and leaves no announcement about a row it removed
\* for an invariant to speak of (DeleteRow).
LEMMA DeleteRowStep == ASSUME IInv, NEW r \in Requests, DeleteRow(r) PROVE IInv'
<1>1. /\ pc[r] = "delete" /\ TypeOK
      /\ UNCHANGED <<nextTicketId, comments, nextCommentId, mishaps, ghosts>>
  BY DEF DeleteRow, IInv
<1>2. PICK status \in Replies : Respond(r, status)
  BY FailEffect DEF DeleteRow, Replies
<1>3. /\ DOMAIN tickets' \subseteq DOMAIN tickets
      /\ \A id \in DOMAIN tickets' : tickets'[id] = tickets[id]
  BY DEF DeleteRow, DeleteCommits, Delete, Restrict
<1>4. StoreTypeOK' /\ crashes' \in 0..MaxCrashes
  BY <1>1, <1>3 DEF TypeOK, StoreTypeOK, mishaps, IsTable
<1> QED BY <1>1, <1>2, <1>3, <1>4, AnswerStep DEF ghosts, TypeOK

\* A failed call ends the request; if it swallowed a committed write's events,
\* its ticket is disturbed from now on (QueryFails).
LEMMA QueryFailsStep == ASSUME IInv, NEW r \in Requests, QueryFails(r) PROVE IInv'
<1>1. /\ TypeOK /\ Carried(r) /\ faults' = faults + 1 /\ faults < MaxFaults
      /\ UNCHANGED <<nextTicketId, comments, nextCommentId, crashes, announced>>
  BY DEF QueryFails, DatabaseFails, IInv, AllCarried
<1>2. PICK status \in Replies : Respond(r, status)
  BY FailEffect DEF QueryFails
<1>3. /\ DOMAIN tickets' \subseteq DOMAIN tickets
      /\ \A id \in DOMAIN tickets' : tickets'[id] = tickets[id]
  BY DEF QueryFails, DeleteCommits, Delete, Restrict
<1>4. StoreTypeOK'
  BY <1>1, <1>3, SeedAssumption DEF TypeOK, StoreTypeOK, IsTable
<1>5. /\ disturbed \subseteq disturbed' /\ disturbed' \subseteq TicketIds
      /\ pc[r] = "emit" => call[r].id \in disturbed'
  BY <1>1 DEF QueryFails, TypeOK, Carried
<1> QED BY <1>1, <1>2, <1>3, <1>4, <1>5, AnswerStep DEF TypeOK
-----------------------------------------------------------------------------
\* A new row takes an id nobody has heard of: its only outstanding
\* announcement is that of the request that made it (CreateRow).
LEMMA CreateRowStep == ASSUME IInv, NEW r \in Requests, CreateRow(r) PROVE IInv'
<1>0. PICK n, row : n = nextTicketId /\ row = NewTicket(call[r].viewer)
  OBVIOUS
<1>1. /\ pc[r] = "create" /\ TypeOK /\ Carried(r) /\ AllCarried
      /\ UNCHANGED <<comments, nextCommentId, mishaps, ghosts>>
  BY DEF CreateRow, IInv, AllCarried
<1>2. CASE asyncHandler(r, "P2000") /\ UNCHANGED <<tickets, nextTicketId>>
  <2>1. PICK status \in Replies : Respond(r, status)
    BY <1>2, FailEffect
  <2>2. StoreTypeOK' /\ crashes' \in 0..MaxCrashes
    BY <1>1, <1>2 DEF TypeOK, StoreTypeOK, mishaps, IsTable
  <2> QED BY <2>1, <2>2, <1>1, <1>2, AnswerStep DEF ghosts, TypeOK
<1>3. CASE ~(asyncHandler(r, "P2000") /\ UNCHANGED <<tickets, nextTicketId>>)
  <2>1. /\ tickets' = Insert(tickets, n, row)
        /\ nextTicketId' = n + 1
        /\ updated' = [updated EXCEPT ![r] = row]
        /\ call' = [call EXCEPT ![r].id = n]
        /\ pc' = [pc EXCEPT ![r] = "emit"]
        /\ UNCHANGED <<previous, reply>>
    BY <1>0, <1>3 DEF CreateRow
  <2>2. n \in TicketIds /\ n \notin DOMAIN tickets
    <3>1. IsFiniteSet(Creating) /\ r \in Creating
      BY <1>1, FS_Subset, CallAssumption DEF Creating
    <3>2. Cardinality(Creating) \in Nat /\ Cardinality(Creating) # 0
      BY <3>1, FS_CardinalityType, FS_EmptySet
    <3> QED BY <1>0, <3>2, <1>1, SeedAssumption
        DEF IInv, RoomLeft, TicketIds, TypeOK, StoreTypeOK, IsTable
  <2>3. row \in Ticket /\ call[r] \in TicketCall /\ call[r].op = "create"
    BY <1>0, <1>1 DEF Carried, NewTicket, Ticket, TicketStatus, User
  <2>4. call'[r] \in TicketCall /\ call'[r].id = n /\ call'[r].op = "create"
    BY <2>1, <2>2, <2>3, <1>1 DEF TicketCall, TypeOK
  <2>5. /\ pc'[r] = "emit" /\ updated'[r] = row
        /\ \A q \in Requests \ {r} :
             /\ pc'[q] = pc[q] /\ call'[q] = call[q]
             /\ previous'[q] = previous[q] /\ updated'[q] = updated[q]
    BY <2>1, <1>1 DEF TypeOK
  <2>6. /\ DOMAIN tickets' = DOMAIN tickets \cup {n} /\ tickets'[n] = row
        /\ \A id \in DOMAIN tickets : tickets'[id] = tickets[id]
    BY <2>1, <2>2 DEF Insert
  <2>7. TypeOK'
    <3>1. StoreTypeOK'
      BY <1>0, <1>1, <2>1, <2>2, <2>3, <2>6, SeedAssumption
      DEF TypeOK, StoreTypeOK, mishaps, IsTable, TicketIds
    <3>2. call' \in [Requests -> TicketCall \cup {Null}]
      BY <1>1, <2>1, <2>4 DEF TypeOK
    <3>3. /\ pc' \in [Requests -> Places]
          /\ updated' \in [Requests -> Ticket \cup {Null}]
      BY <1>1, <2>1, <2>3 DEF TypeOK, Places
    <3> QED BY <1>1, <2>1, <3>1, <3>2, <3>3
        DEF TypeOK, Places, mishaps, ghosts
  <2>8. AllCarried'
    <3> SUFFICES ASSUME NEW q \in Requests PROVE Carried(q)'
      BY DEF AllCarried
    <3>1. n \in Int /\ nextTicketId' = n + 1
      BY <1>0, <1>1, <2>1 DEF TypeOK, StoreTypeOK
    <3>2. CASE q = r
      BY <3>1, <3>2, <2>2, <2>3, <2>4, <2>5 DEF Carried
    <3>3. CASE q # r
      BY <1>0, <3>1, <3>3, <1>1, <2>5, CarriedFrame DEF AllCarried
    <3> QED BY <3>2, <3>3
  <2>9. RoomLeft'
    <3>1. IsFiniteSet(Creating) /\ r \in Creating
      BY <1>1, FS_Subset, CallAssumption DEF Creating
    <3>2. Creating' = Creating \ {r}
      BY <2>5 DEF Creating
    <3>3. /\ Cardinality(Creating') = Cardinality(Creating) - 1
          /\ Cardinality(Creating) \in Nat
      BY <3>1, <3>2, FS_RemoveElement, FS_CardinalityType
    <3> QED BY <1>0, <3>3, <1>1, <2>1, SeedAssumption
        DEF IInv, RoomLeft, TypeOK, StoreTypeOK
  <2>10. \A q \in Requests : ~Pending(q, n)
    BY <1>0, <1>1 DEF Pending, AllCarried, Carried, TicketIds, TypeOK, StoreTypeOK
  <2>11. \A q \in Requests, id \in DOMAIN tickets :
           Pending(q, id)' => q # r /\ Pending(q, id)
    BY <2>2, <2>4, <2>5 DEF Pending
  <2>12. \A q \in Requests : Pending(q, n)' => q = r
    BY <2>5, <2>10 DEF Pending
  <2>13. OnePending'
    <3> SUFFICES ASSUME NEW id \in DOMAIN tickets' \ disturbed',
                        NEW q \in Requests, NEW s \in Requests,
                        Pending(q, id)', Pending(s, id)'
                 PROVE  q = s
      BY DEF OnePending
    <3>1. CASE id = n
      BY <3>1, <2>12
    <3>2. CASE id # n
      <4>1. id \in DOMAIN tickets \ disturbed
        BY <3>2, <2>6, <1>1 DEF ghosts
      <4> QED BY <4>1, <2>11 DEF IInv, OnePending
    <3> QED BY <3>1, <3>2
  <2>14. PendingIsCurrent'
    <3> SUFFICES ASSUME NEW id \in DOMAIN tickets' \ disturbed',
                        NEW q \in Requests, Pending(q, id)'
                 PROVE  /\ Facts(updated'[q]) = Facts(tickets'[id])
                        /\ call'[q].op = "patch" => KnowBefore(q, id)'
      BY DEF PendingIsCurrent, Facts
    <3>1. CASE id = n
      BY <3>1, <2>4, <2>5, <2>6, <2>12
    <3>2. CASE id # n
      <4>1. id \in DOMAIN tickets \ disturbed
        BY <3>2, <2>6, <1>1 DEF ghosts
      <4>2. q # r /\ Pending(q, id)
        BY <4>1, <2>11
      <4>3. /\ Facts(updated[q]) = Facts(tickets[id])
            /\ call[q].op = "patch" => KnowBefore(q, id)
        BY <4>1, <4>2 DEF IInv, PendingIsCurrent
      <4> QED BY <4>1, <4>2, <4>3, <2>5, <2>6, <1>1 DEF KnowBefore, ghosts
    <3> QED BY <3>1, <3>2
  <2>15. AnnouncementsKeepUp'
    <3> SUFFICES ASSUME NEW id \in DOMAIN tickets' \ disturbed', Quiet(id)'
                 PROVE  ListenersKnow(id)'
      BY DEF AnnouncementsKeepUp
    <3>1. id # n
      BY <2>4, <2>5 DEF Quiet, AnnouncementPending
    <3>2. id \in DOMAIN tickets \ disturbed
      BY <3>1, <2>6, <1>1 DEF ghosts
    <3>3. Quiet(id)
      BY <1>1, <2>5 DEF Quiet, AnnouncementPending
    <3>4. ListenersKnow(id)
      BY <3>2, <3>3 DEF IInv, AnnouncementsKeepUp
    <3> QED BY <3>2, <3>4, <2>6, <1>1 DEF ListenersKnow, ghosts
  <2>16. OwnAnnouncementsOnly'
    <3> SUFFICES ASSUME NEW q \in Requests, PatchAboutToEmit(q)',
                        call'[q].id \notin disturbed'
                 PROVE  AnnouncesOwnChanges(q)'
      BY DEF OwnAnnouncementsOnly
    <3>1. q # r
      BY <2>4 DEF PatchAboutToEmit
    <3>2. PatchAboutToEmit(q) /\ call[q].id \notin disturbed
      BY <3>1, <2>5, <1>1 DEF PatchAboutToEmit, ghosts
    <3> QED BY <3>1, <3>2, <2>5
        DEF IInv, OwnAnnouncementsOnly, AnnouncesOwnChanges
  <2> QED BY <2>7, <2>8, <2>9, <2>13, <2>14, <2>15, <2>16 DEF IInv
<1> QED BY <1>2, <1>3

\* What lets an update commit: the row is there and has room for what the body
\* says, and its assignee exists (PatchErrors).
LEMMA Errorless ==
  ASSUME NEW c \in TicketCall, PatchErrors(c) = {}
  PROVE  /\ c.id \in DOMAIN tickets /\ c.fits /\ c.changes \in Changes
         /\ c.changes.assignedAgentId \notin Strangers \cup {TooBig}
<1>1. "P2025" \notin PatchErrors(c) /\ "OutOfRange" \notin PatchErrors(c)
  OBVIOUS
<1>2. c.id \in DOMAIN tickets /\ c.changes.assignedAgentId # TooBig
  BY <1>1 DEF PatchErrors
<1>3. "P2000" \notin PatchErrors(c) /\ "P2003" \notin PatchErrors(c)
  OBVIOUS
<1>4. c.fits /\ c.changes.assignedAgentId \notin Strangers
  BY <1>2, <1>3 DEF PatchErrors
<1> QED BY <1>2, <1>4 DEF TicketCall

\* An update that finds the row its request had read, with no other announcement
\* outstanding, leaves one announcement, of what the row says now; any other
\* update disturbs its ticket (PatchRow).
LEMMA PatchRowStep == ASSUME IInv, NEW r \in Requests, PatchRow(r) PROVE IInv'
<1>0. PICK n, row : n = call[r].id /\ row = Patched(tickets[n], call[r].changes)
  OBVIOUS
<1>1. /\ pc[r] = "patch" /\ TypeOK /\ Carried(r) /\ AllCarried
      /\ UNCHANGED <<nextTicketId, comments, nextCommentId, mishaps, announced>>
  BY DEF PatchRow, IInv, AllCarried
<1>2. CASE /\ \E error \in PatchErrors(call[r]) : asyncHandler(r, error)
           /\ UNCHANGED <<tickets, disturbed>>
  <2>1. PICK status \in Replies : Respond(r, status)
    BY <1>2, FailEffect DEF PatchErrors
  <2>2. StoreTypeOK' /\ crashes' \in 0..MaxCrashes
    BY <1>1, <1>2 DEF TypeOK, StoreTypeOK, mishaps, IsTable
  <2> QED BY <2>1, <2>2, <1>1, <1>2, AnswerStep DEF TypeOK
<1>3. CASE /\ PatchErrors(call[r]) = {}
           /\ tickets' = [tickets EXCEPT ![n] = row]
           /\ updated' = [updated EXCEPT ![r] = row]
           /\ pc' = [pc EXCEPT ![r] = "emit"]
           /\ disturbed' = IF \/ Facts(tickets[n]) # Facts(previous[r])
                              \/ AnnouncementPending(n, Requests \ {r})
                           THEN disturbed \cup {n} ELSE disturbed
           /\ UNCHANGED <<call, previous, reply>>
  <2>1. /\ call[r] \in TicketCall /\ call[r].op = "patch" /\ n \in TicketIds
        /\ previous[r] \in Ticket
    BY <1>0, <1>1 DEF Carried
  <2>2. /\ n \in DOMAIN tickets
        /\ call[r].changes \in Changes
        /\ call[r].changes.assignedAgentId \notin Strangers \cup {TooBig}
    BY <1>0, <1>3, <2>1, Errorless
  <2>3. tickets[n] \in Ticket /\ n < nextTicketId
    BY <1>1, <2>2 DEF TypeOK, StoreTypeOK, IsTable
  <2>4. row \in Ticket
    BY <1>0, <2>2, <2>3 DEF Patched, Ticket, Changes
  <2>5. /\ pc'[r] = "emit" /\ updated'[r] = row /\ call'[r] = call[r]
        /\ previous'[r] = previous[r]
        /\ \A q \in Requests \ {r} :
             /\ pc'[q] = pc[q] /\ call'[q] = call[q]
             /\ previous'[q] = previous[q] /\ updated'[q] = updated[q]
    BY <1>1, <1>3 DEF TypeOK
  <2>6. /\ DOMAIN tickets' = DOMAIN tickets /\ tickets'[n] = row
        /\ \A id \in DOMAIN tickets \ {n} : tickets'[id] = tickets[id]
    BY <1>3, <2>2
  <2>7. disturbed \subseteq disturbed' /\ disturbed' \subseteq TicketIds
    BY <1>1, <1>3, <2>1 DEF TypeOK
  <2>8. n \notin disturbed' =>
          /\ Facts(tickets[n]) = Facts(previous[r])
          /\ ~AnnouncementPending(n, Requests \ {r})
    BY <1>3
  <2>9. TypeOK'
    <3>1. StoreTypeOK'
      BY <1>1, <2>3, <2>4, <2>6 DEF TypeOK, StoreTypeOK, mishaps, IsTable
    <3>2. /\ pc' \in [Requests -> Places]
          /\ updated' \in [Requests -> Ticket \cup {Null}]
      BY <1>1, <1>3, <2>4 DEF TypeOK, Places
    <3> QED BY <1>1, <1>3, <2>7, <3>1, <3>2 DEF TypeOK, Places, mishaps
  <2>10. AllCarried'
    <3> SUFFICES ASSUME NEW q \in Requests PROVE Carried(q)'
      BY DEF AllCarried
    <3>1. CASE q = r
      BY <3>1, <1>0, <1>1, <2>1, <2>3, <2>4, <2>5 DEF Carried
    <3>2. CASE q # r
      BY <3>2, <1>1, <2>5, CarriedFrame DEF AllCarried, TypeOK, StoreTypeOK
    <3> QED BY <3>1, <3>2
  <2>11. RoomLeft'
    <3>1. Creating' \subseteq Creating
      BY <2>5 DEF Creating
    <3> QED BY <3>1, <1>1, RoomFrame DEF IInv
  <2>12. \A q \in Requests, id \in DOMAIN tickets \ {n} :
           Pending(q, id)' => q # r /\ Pending(q, id)
    BY <1>0, <2>5 DEF Pending
  <2>13. n \notin disturbed' => \A q \in Requests : Pending(q, n)' => q = r
    BY <2>5, <2>8 DEF Pending, AnnouncementPending
  <2>14. OnePending'
    <3> SUFFICES ASSUME NEW id \in DOMAIN tickets' \ disturbed',
                        NEW q \in Requests, NEW s \in Requests,
                        Pending(q, id)', Pending(s, id)'
                 PROVE  q = s
      BY DEF OnePending
    <3>1. CASE id = n
      BY <3>1, <2>13
    <3>2. CASE id # n
      BY <3>2, <2>6, <2>7, <2>12 DEF IInv, OnePending
    <3> QED BY <3>1, <3>2
  <2>15. PendingIsCurrent'
    <3> SUFFICES ASSUME NEW id \in DOMAIN tickets' \ disturbed',
                        NEW q \in Requests, Pending(q, id)'
                 PROVE  /\ Facts(updated'[q]) = Facts(tickets'[id])
                        /\ call'[q].op = "patch" => KnowBefore(q, id)'
      BY DEF PendingIsCurrent, Facts
    <3>1. CASE id = n
      <4>1. q = r /\ n \in DOMAIN tickets \ disturbed
        BY <3>1, <2>2, <2>7, <2>13
      <4>2. Quiet(n)
        BY <3>1, <1>1, <2>8 DEF Quiet, AnnouncementPending
      <4>3. ListenersKnow(n)
        BY <4>1, <4>2 DEF IInv, AnnouncementsKeepUp
      <4>4. KnowBefore(r, n)'
        BY <4>3, <3>1, <1>1, <2>5, <2>8 DEF KnowBefore, ListenersKnow, Facts
      <4> QED BY <4>1, <4>4, <3>1, <2>5, <2>6
    <3>2. CASE id # n
      <4>1. id \in DOMAIN tickets \ disturbed /\ q # r /\ Pending(q, id)
        BY <3>2, <2>6, <2>7, <2>12
      <4>2. /\ Facts(updated[q]) = Facts(tickets[id])
            /\ call[q].op = "patch" => KnowBefore(q, id)
        BY <4>1 DEF IInv, PendingIsCurrent
      <4> QED BY <4>1, <4>2, <3>2, <2>5, <2>6, <1>1 DEF KnowBefore
    <3> QED BY <3>1, <3>2
  <2>16. AnnouncementsKeepUp'
    <3> SUFFICES ASSUME NEW id \in DOMAIN tickets' \ disturbed', Quiet(id)'
                 PROVE  ListenersKnow(id)'
      BY DEF AnnouncementsKeepUp
    <3>1. id \in DOMAIN tickets \ disturbed /\ id # n
      BY <1>0, <2>5, <2>6, <2>7 DEF Quiet, AnnouncementPending
    <3>2. Quiet(id)
      BY <1>1, <2>5 DEF Quiet, AnnouncementPending
    <3>3. ListenersKnow(id)
      BY <3>1, <3>2 DEF IInv, AnnouncementsKeepUp
    <3> QED BY <3>1, <3>3, <2>6, <1>1 DEF ListenersKnow
  <2>17. OwnAnnouncementsOnly'
    <3> SUFFICES ASSUME NEW q \in Requests, PatchAboutToEmit(q)',
                        call'[q].id \notin disturbed'
                 PROVE  AnnouncesOwnChanges(q)'
      BY DEF OwnAnnouncementsOnly
    <3>1. CASE q = r
      <4>1. /\ tickets[n].status = previous[r].status
            /\ tickets[n].assignedAgentId = previous[r].assignedAgentId
        BY <3>1, <1>0, <2>5, <2>8 DEF Facts
      <4>2. /\ row.status # tickets[n].status =>
                 call[r].changes.status \in TicketStatus
            /\ row.assignedAgentId \notin {Null, tickets[n].assignedAgentId} =>
                 call[r].changes.assignedAgentId \in User
        BY <1>0, <2>2, <2>3 DEF Patched, Ticket, Changes
      <4> QED BY <3>1, <4>1, <4>2, <2>5
          DEF AnnouncesOwnChanges, newlyAssigned, statusChanged
    <3>2. CASE q # r
      <4>1. PatchAboutToEmit(q) /\ call[q].id \notin disturbed
        BY <3>2, <2>5, <2>7 DEF PatchAboutToEmit
      <4> QED BY <3>2, <4>1, <2>5
          DEF IInv, OwnAnnouncementsOnly, AnnouncesOwnChanges
    <3> QED BY <3>1, <3>2
  <2> QED BY <2>9, <2>10, <2>11, <2>14, <2>15, <2>16, <2>17 DEF IInv
<1> QED BY <1>0, <1>2, <1>3 DEF PatchRow

\* What listeners know after an update's events, column by column (Told).
LEMMA ToldEffect ==
  ASSUME NEW known \in Fact, NEW old \in Ticket, NEW new \in Ticket
  PROVE  /\ Told(known, old, new) \in Fact
         /\ Told(known, old, new).status =
              IF statusChanged(old, new) THEN new.status ELSE known.status
         /\ Told(known, old, new).assignedAgentId =
              IF newlyAssigned(old, new)
              THEN new.assignedAgentId ELSE known.assignedAgentId
BY DEF Told, Fact, Ticket

\* What a request announces on an undisturbed ticket is the difference between
\* what listeners knew and what the row says now (Emit).
LEMMA EmitStep == ASSUME IInv, NEW r \in Requests, Emit(r) PROVE IInv'
<1>0. PICK n : n = call[r].id
  OBVIOUS
<1>1. /\ pc[r] = "emit" /\ TypeOK /\ AllCarried
      /\ n \in TicketIds /\ updated[r] \in Ticket
      /\ UNCHANGED <<tables, mishaps, disturbed>>
  BY <1>0 DEF Emit, IInv, AllCarried, Carried
<1>2. PICK status \in Replies : Respond(r, status)
  BY DEF Emit, Replies
<1>3. /\ pc'[r] = "idle"
      /\ \A q \in Requests \ {r} :
           /\ pc'[q] = pc[q] /\ call'[q] = call[q]
           /\ previous'[q] = previous[q] /\ updated'[q] = updated[q]
  BY <1>1, <1>2, RespondEffect
<1>4. /\ announced[n] \in Fact
      /\ announced' = [announced EXCEPT ![n] =
           IF call[r].op = "create" THEN Facts(updated[r])
                                    ELSE Told(@, previous[r], updated[r])]
  BY <1>0, <1>1 DEF Emit, TypeOK
<1>5. /\ announced' \in [TicketIds -> Fact]
      /\ \A id \in TicketIds \ {n} : announced'[id] = announced[id]
  <2>1. Facts(updated[r]) \in Fact /\ Told(announced[n], previous[r], updated[r]) \in Fact
    BY <1>1, <1>4 DEF Facts, Fact, Told, Ticket
  <2> QED BY <1>1, <1>4, <2>1 DEF TypeOK
<1>6. TypeOK' /\ AllCarried' /\ RoomLeft'
  <2>1. StoreTypeOK' /\ crashes' \in 0..MaxCrashes
    BY <1>1 DEF TypeOK, StoreTypeOK, tables, mishaps, IsTable
  <2> QED BY <1>1, <1>2, <1>5, <2>1, AnswerFrame DEF tables, TypeOK
<1>7. \A q \in Requests : \A id :
        Pending(q, id)' => q # r /\ Pending(q, id)
  BY <1>3 DEF Pending
<1>8. OnePending'
  BY <1>1, <1>7 DEF IInv, OnePending, tables
<1>9. PendingIsCurrent'
  <2> SUFFICES ASSUME NEW id \in DOMAIN tickets' \ disturbed',
                      NEW q \in Requests, Pending(q, id)'
               PROVE  /\ Facts(updated'[q]) = Facts(tickets'[id])
                      /\ call'[q].op = "patch" => KnowBefore(q, id)'
    BY DEF PendingIsCurrent, Facts
  <2>1. id \in DOMAIN tickets \ disturbed /\ q # r /\ Pending(q, id)
    BY <1>1, <1>7 DEF tables
  <2>2. /\ Facts(updated[q]) = Facts(tickets[id])
        /\ call[q].op = "patch" => KnowBefore(q, id)
    BY <2>1 DEF IInv, PendingIsCurrent
  <2>3. id # n
    BY <1>0, <1>1, <2>1 DEF IInv, OnePending, Pending
  <2>4. announced'[id] = announced[id]
    BY <1>1, <1>5, <2>1, <2>3 DEF TypeOK, StoreTypeOK, IsTable
  <2> QED BY <1>1, <1>3, <2>1, <2>2, <2>4 DEF KnowBefore, tables
<1>10. AnnouncementsKeepUp'
  <2> SUFFICES ASSUME NEW id \in DOMAIN tickets' \ disturbed', Quiet(id)'
               PROVE  ListenersKnow(id)'
    BY DEF AnnouncementsKeepUp
  <2>1. id \in DOMAIN tickets \ disturbed /\ id \in TicketIds /\ UNCHANGED tickets
    BY <1>1 DEF tables, TypeOK, StoreTypeOK, IsTable
  <2>2. CASE id = n
    <3>1. Pending(r, n)
      BY <1>0, <1>1 DEF Pending
    <3>2. /\ Facts(updated[r]) = Facts(tickets[n])
          /\ call[r].op = "patch" => KnowBefore(r, n)
      BY <2>1, <2>2, <3>1 DEF IInv, PendingIsCurrent
    <3>3. /\ updated[r].status = tickets[n].status
          /\ updated[r].assignedAgentId = tickets[n].assignedAgentId
      BY <3>2 DEF Facts
    <3>4. call[r].op \in {"create", "patch"}
      BY DEF Emit
    <3>5. announced'[n] =
            IF call[r].op = "create" THEN Facts(updated[r])
                                     ELSE Told(announced[n], previous[r], updated[r])
      BY <1>1, <1>4 DEF TypeOK
    <3>6. CASE call[r].op = "create"
      BY <2>1, <2>2, <3>3, <3>5, <3>6 DEF ListenersKnow, Facts
    <3>7. CASE call[r].op = "patch"
      <4>1. announced'[n] = Told(announced[n], previous[r], updated[r])
        BY <3>5, <3>7
      <4>2. previous[r] \in Ticket
        BY <1>1, <3>7 DEF AllCarried, Carried
      <4>3. KnowBefore(r, n)
        BY <3>2, <3>7
      <4>4. announced'[n].status = updated[r].status
        BY <1>1, <1>4, <4>1, <4>2, <4>3, ToldEffect DEF KnowBefore, statusChanged
      <4>5. updated[r].assignedAgentId \in {Null, announced'[n].assignedAgentId}
        BY <1>1, <1>4, <4>1, <4>2, <4>3, ToldEffect DEF KnowBefore, newlyAssigned
      <4> QED BY <2>1, <2>2, <3>3, <4>4, <4>5 DEF ListenersKnow
    <3> QED BY <3>4, <3>6, <3>7
  <2>3. CASE id # n
    <3>1. Quiet(id)
      BY <1>0, <1>3, <2>3 DEF Quiet, AnnouncementPending
    <3>2. ListenersKnow(id)
      BY <2>1, <3>1 DEF IInv, AnnouncementsKeepUp
    <3> QED BY <1>5, <2>1, <2>3, <3>2 DEF ListenersKnow
  <2> QED BY <2>2, <2>3
<1>11. OwnAnnouncementsOnly'
  <2> SUFFICES ASSUME NEW q \in Requests, PatchAboutToEmit(q)',
                      call'[q].id \notin disturbed'
               PROVE  AnnouncesOwnChanges(q)'
    BY DEF OwnAnnouncementsOnly
  <2>1. q # r
    BY <1>3 DEF PatchAboutToEmit
  <2> QED BY <1>1, <1>3, <2>1
      DEF IInv, OwnAnnouncementsOnly, AnnouncesOwnChanges, PatchAboutToEmit
<1> QED BY <1>6, <1>8, <1>9, <1>10, <1>11 DEF IInv

\* A crash takes every request with it and disturbs each ticket whose
\* announcement it swallowed (Crash).
LEMMA CrashStep == ASSUME IInv, Crash PROVE IInv'
<1>1. /\ TypeOK /\ AllCarried /\ pc' = [q \in Requests |-> "idle"]
      /\ UNCHANGED <<tables, faults, announced>>
  BY DEF Crash, IInv
<1>2. TypeOK'
  BY <1>1, CallAssumption
  DEF Crash, TypeOK, StoreTypeOK, IsTable, tables, Nothing
<1>3. AllCarried'
  BY <1>1 DEF AllCarried, Carried
<1>4. RoomLeft'
  <2>1. Creating' \subseteq Creating
    BY <1>1 DEF Creating
  <2> QED BY <1>1, <2>1, RoomFrame DEF IInv, tables
<1>5. \A q \in Requests : pc[q] = "emit" => call[q].id \in disturbed'
  BY <1>1 DEF Crash, AllCarried, Carried, AnnouncementPending
<1>6. /\ OnePending' /\ PendingIsCurrent'
      /\ AnnouncementsKeepUp' /\ OwnAnnouncementsOnly'
  <2>1. disturbed \subseteq disturbed' /\ UNCHANGED <<tickets, announced>>
    BY <1>1 DEF Crash, tables
  <2>2. \A q \in Requests : pc'[q] # "emit"
    BY <1>1
  <2> QED BY <1>5, <2>1, <2>2, QuietStep
<1> QED BY <1>2, <1>3, <1>4, <1>6 DEF IInv

\* Nothing happens.
LEMMA StutterStep == ASSUME IInv, UNCHANGED vars PROVE IInv'
<1>1. /\ UNCHANGED <<pc, call, previous, updated, reply>>
      /\ UNCHANGED <<tickets, nextTicketId, comments, nextCommentId>>
      /\ UNCHANGED <<crashes, faults, announced, disturbed>>
  BY DEF vars, tables, requestVars, mishaps, ghosts
<1>2. TypeOK'
  BY <1>1 DEF IInv, TypeOK, StoreTypeOK, IsTable
<1>3. AllCarried' /\ RoomLeft'
  BY <1>1 DEF IInv, AllCarried, Carried, RoomLeft, Creating
<1>4. OnePending' /\ PendingIsCurrent'
  BY <1>1 DEF IInv, OnePending, PendingIsCurrent, Pending, KnowBefore
<1>5. AnnouncementsKeepUp'
  BY <1>1 DEF IInv, AnnouncementsKeepUp, Quiet, AnnouncementPending, ListenersKnow
<1>6. OwnAnnouncementsOnly'
  BY <1>1 DEF IInv, OwnAnnouncementsOnly, PatchAboutToEmit, AnnouncesOwnChanges
<1> QED BY <1>2, <1>3, <1>4, <1>5, <1>6 DEF IInv

\* Every step of the ticket endpoints preserves the inductive invariant.
LEMMA NextInv == ASSUME IInv, [Next]_vars PROVE IInv'
<1>1. ASSUME NEW r \in Requests, Receive(r) PROVE IInv'
  BY <1>1, ReceiveStep
<1>2. ASSUME NEW r \in Requests, Lookup(r) PROVE IInv'
  BY <1>2, LookupStep
<1>3. ASSUME NEW r \in Requests, CreateRow(r) PROVE IInv'
  BY <1>3, CreateRowStep
<1>4. ASSUME NEW r \in Requests, PatchRow(r) PROVE IInv'
  BY <1>4, PatchRowStep
<1>5. ASSUME NEW r \in Requests, Emit(r) PROVE IInv'
  BY <1>5, EmitStep
<1>6. ASSUME NEW r \in Requests, DeleteRow(r) PROVE IInv'
  BY <1>6, DeleteRowStep
<1>7. ASSUME NEW r \in Requests, QueryFails(r) PROVE IInv'
  BY <1>7, QueryFailsStep
<1>8. CASE Crash
  BY <1>8, CrashStep
<1>9. CASE UNCHANGED vars
  BY <1>9, StutterStep
<1> QED BY <1>1, <1>2, <1>3, <1>4, <1>5, <1>6, <1>7, <1>8, <1>9 DEF Next, Step
-----------------------------------------------------------------------------
\* Every reachable state satisfies the inductive invariant.
LEMMA Invariance == Spec => []IInv
BY InitInv, NextInv, PTL DEF Spec

\* Every variable of the ticket endpoints keeps to its type: no request carries
\* a value its place has no use for and no row an id that was not handed out.
THEOREM TypeCorrect == Spec => []TypeOK
<1>1. IInv => TypeOK
  BY DEF IInv
<1> QED BY <1>1, Invariance, PTL

\* However requests interleave, fail and crash, listeners know the status and
\* the agent of every undisturbed ticket once its announcements are out
\* (updateTicket).
THEOREM AnnouncementsCorrect == Spec => []AnnouncementsKeepUp
<1>1. IInv => AnnouncementsKeepUp
  BY DEF IInv
<1> QED BY <1>1, Invariance, PTL

\* No request announces another's assignment or transition of an undisturbed
\* ticket (updateTicket).
THEOREM OwnAnnouncements == Spec => []OwnAnnouncementsOnly
<1>1. IInv => OwnAnnouncementsOnly
  BY DEF IInv
<1> QED BY <1>1, Invariance, PTL
-----------------------------------------------------------------------------
\* The rows a step leaves as they were.
Untouched(id) == id \in DOMAIN tickets' /\ tickets'[id] = tickets[id]

\* Who changed or removed a ticket, as ChangesAreAuthorized demands.
Authorized(id) == \E r \in Requests :
  /\ pc[r] \in {"patch", "delete"} /\ call[r].id = id
  /\ call[r].viewer \notin Customers
  /\ scopeForViewer(call[r].viewer, previous[r])

\* A step touches no ticket but the one its request was let through to
\* (PatchRow, DeleteRow), and a new row touches none that was there (CreateRow).
LEMMA AuthorizedStep ==
  ASSUME IInv, [Next]_vars, NEW id \in DOMAIN tickets
  PROVE  Untouched(id) \/ Authorized(id)
<1>1. TypeOK /\ AllCarried
  BY DEF IInv
<1>2. ASSUME NEW r \in Requests, Receive(r) \/ Lookup(r) \/ Emit(r)
      PROVE  Untouched(id)
  BY <1>2 DEF Receive, Lookup, Emit, tables, Untouched
<1>3. ASSUME NEW r \in Requests, CreateRow(r) PROVE Untouched(id)
  <2>1. id # nextTicketId
    BY <1>1 DEF TypeOK, StoreTypeOK, IsTable, TicketIds
  <2> QED BY <1>3, <2>1 DEF CreateRow, Insert, Untouched
<1>4. ASSUME NEW r \in Requests, PatchRow(r) \/ DeleteRow(r) \/ QueryFails(r)
      PROVE  Untouched(id) \/ Authorized(id)
  <2>1. CASE call[r].id # id \/ UNCHANGED tickets
    BY <1>4, <2>1
    DEF PatchRow, DeleteRow, QueryFails, DeleteCommits, Delete, Restrict, Untouched
  <2>2. CASE call[r].id = id /\ ~UNCHANGED tickets
    <3>1. pc[r] \in {"patch", "delete"}
      BY <1>4, <2>2 DEF PatchRow, DeleteRow, QueryFails
    <3>2. /\ call[r].viewer \in authorize(call[r].op) /\ call[r].op = pc[r]
          /\ scopeForViewer(call[r].viewer, previous[r])
      BY <1>1, <3>1 DEF AllCarried, Carried
    <3>3. call[r].viewer \notin Customers
      BY <3>1, <3>2, UserAssumption DEF authorize
    <3> QED BY <2>2, <3>1, <3>2, <3>3 DEF Authorized
  <2> QED BY <2>1, <2>2
<1>5. CASE Crash \/ UNCHANGED vars
  BY <1>5 DEF Crash, vars, tables, Untouched
<1> QED BY <1>2, <1>3, <1>4, <1>5 DEF Next, Step

\* No interleaving lets a customer, or somebody who never had the ticket in
\* scope, change or remove it (authorize and getTicketById in the routes).
THEOREM ChangesAuthorized == Spec => ChangesAreAuthorized
<1>1. ASSUME IInv, [Next]_vars
      PROVE  \A id \in DOMAIN tickets :
               id \notin DOMAIN tickets' \/ Facts(tickets'[id]) # Facts(tickets[id]) =>
                 Authorized(id)
  BY <1>1, AuthorizedStep DEF Untouched
<1> QED BY <1>1, Invariance, PTL DEF Spec, ChangesAreAuthorized, Authorized

\* The statuses of the errors a handler meets while the database works and has
\* room for what it is sent (PRISMA_ERROR_STATUS).
LEMMA ClientErrors ==
  \A err \in {"Forbidden", "NotFound", "P2025", "P2003"} : errorHandler(err) # 500
BY DEF errorHandler, PRISMA_ERROR_STATUS

\* What a request answers with 500 had its query fail or carried a number or a
\* text with no room in its column (errorHandler).
LEMMA InternalErrorStep ==
  ASSUME IInv, [Next]_vars, NEW q \in Requests, reply'[q] = 500
  PROVE  reply[q] = 500 \/ faults' > faults \/ ~Storable(call[q])
<1>1. TypeOK /\ Null # 500
  BY CallAssumption DEF IInv
<1>2. ASSUME NEW r \in Requests, NEW err, asyncHandler(r, err)
      PROVE  \/ q # r /\ reply'[q] = reply[q]
             \/ q = r /\ errorHandler(err) = 500
  <2>1. reply \in [Requests -> Replies]
    BY <1>1 DEF TypeOK, Replies
  <2>2. reply' = [reply EXCEPT ![r] = errorHandler(err)]
    BY <1>2 DEF asyncHandler, Respond
  <2> QED BY <2>1, <2>2
<1>3. ASSUME NEW r \in Requests, NEW err \in {"Forbidden", "NotFound", "P2025", "P2003"},
             asyncHandler(r, err)
      PROVE  reply[q] = 500
  BY <1>2, <1>3, ClientErrors
<1>4. ASSUME NEW r \in Requests, Receive(r) PROVE reply[q] = 500
  BY <1>1, <1>3, <1>4 DEF Receive, TypeOK
<1>5. ASSUME NEW r \in Requests, Lookup(r) PROVE reply[q] = 500 \/ ~Storable(call[q])
  <2>1. CASE call[r].id = TooBig /\ asyncHandler(r, "OutOfRange")
    BY <1>2, <2>1 DEF Storable
  <2>2. CASE asyncHandler(r, "NotFound")
    BY <1>3, <2>2
  <2>3. CASE Respond(r, 200) \/ UNCHANGED reply
    BY <1>1, <2>3 DEF Respond, TypeOK
  <2> QED BY <1>5, <2>1, <2>2, <2>3 DEF Lookup
<1>6. ASSUME NEW r \in Requests, CreateRow(r) PROVE reply[q] = 500 \/ ~Storable(call[q])
  BY <1>1, <1>2, <1>6 DEF CreateRow, Storable
<1>7. ASSUME NEW r \in Requests, PatchRow(r) PROVE reply[q] = 500 \/ ~Storable(call[q])
  <2>1. CASE \/ asyncHandler(r, "P2000") /\ ~call[r].fits
             \/ /\ asyncHandler(r, "OutOfRange")
                /\ call[r].changes.assignedAgentId = TooBig
    BY <1>2, <2>1 DEF Storable
  <2>2. CASE asyncHandler(r, "P2025") \/ asyncHandler(r, "P2003")
    BY <1>3, <2>2
  <2>3. CASE UNCHANGED reply
    BY <2>3
  <2>4. CASE \E error \in PatchErrors(call[r]) : asyncHandler(r, error)
    <3>1. PICK error \in PatchErrors(call[r]) : asyncHandler(r, error)
      BY <2>4
    <3>2. \/ error \in {"P2025", "P2003"}
          \/ error = "P2000" /\ ~call[r].fits
          \/ error = "OutOfRange" /\ call[r].changes.assignedAgentId = TooBig
      BY <3>1 DEF PatchErrors
    <3> QED BY <2>1, <2>2, <3>1, <3>2
  <2> QED BY <1>7, <2>3, <2>4 DEF PatchRow
<1>8. ASSUME NEW r \in Requests, Emit(r) \/ DeleteRow(r) PROVE reply[q] = 500
  BY <1>1, <1>3, <1>8 DEF Emit, DeleteRow, Respond, TypeOK
<1>9. ASSUME NEW r \in Requests, QueryFails(r) PROVE faults' > faults
  BY <1>1, <1>9 DEF QueryFails, DatabaseFails, TypeOK, StoreTypeOK
<1>10. CASE Crash \/ UNCHANGED vars
  BY <1>1, <1>10 DEF Crash, Nothing, vars, requestVars
<1> QED BY <1>4, <1>5, <1>6, <1>7, <1>8, <1>9, <1>10 DEF Next, Step

\* No interleaving of requests ends one in a 500 by itself: it takes a failed
\* call, or an id, an assignee or a text the validators let through and the
\* database has no room for (errorHandler, updateTicketSchema).
THEOREM InternalErrors == Spec => InternalErrorsExplained
<1>1. ASSUME IInv, [Next]_vars
      PROVE  \A r \in Requests : reply'[r] = 500 =>
               reply[r] = 500 \/ faults' > faults \/ ~Storable(call[r])
  BY <1>1, InternalErrorStep
<1> QED BY <1>1, Invariance, PTL DEF Spec, InternalErrorsExplained
-----------------------------------------------------------------------------
(* For the modules composed with the ticket endpoints *)

\* What a step of the ticket endpoints does to the table: rows keep their mark
\* and their customer, a new row has the next id and no mark, and a row that
\* goes had no dependents (CreateRow, PatchRow, DeleteRow).
LEMMA TableStep ==
  ASSUME IInv, [Next]_vars
  PROVE  /\ UNCHANGED <<comments, nextCommentId>>
         /\ nextTicketId' \in TicketIds \cup {MaxTickets + 1}
         /\ nextTicketId <= nextTicketId'
         /\ \A id \in DOMAIN tickets' :
              \/ /\ id \in DOMAIN tickets
                 /\ tickets'[id].breached = tickets[id].breached
                 /\ tickets'[id].customerId = tickets[id].customerId
              \/ /\ id = nextTicketId /\ nextTicketId' = nextTicketId + 1
                 /\ ~tickets'[id].breached
         /\ \A id \in DOMAIN tickets \ DOMAIN tickets' : ~HasDependents(id)
<1> DEFINE Kept == \A id \in DOMAIN tickets' :
             /\ id \in DOMAIN tickets
             /\ tickets'[id].breached = tickets[id].breached
             /\ tickets'[id].customerId = tickets[id].customerId
           New == \A id \in DOMAIN tickets' :
             \/ id \in DOMAIN tickets /\ tickets'[id] = tickets[id]
             \/ /\ id = nextTicketId /\ nextTicketId' = nextTicketId + 1
                /\ ~tickets'[id].breached
           Freed == \A id \in DOMAIN tickets \ DOMAIN tickets' : ~HasDependents(id)
<1>1. /\ TypeOK /\ TypeOK' /\ nextTicketId \in Int
  BY NextInv DEF IInv, TypeOK, StoreTypeOK
<1>2. ASSUME NEW r \in Requests, Receive(r) \/ Lookup(r) \/ Emit(r)
      PROVE  UNCHANGED tables
  BY <1>2 DEF Receive, Lookup, Emit
<1>3. ASSUME NEW r \in Requests, CreateRow(r)
      PROVE  /\ UNCHANGED <<comments, nextCommentId>> /\ New
             /\ nextTicketId' \in {nextTicketId, nextTicketId + 1}
             /\ DOMAIN tickets \subseteq DOMAIN tickets'
  BY <1>3 DEF CreateRow, Insert, NewTicket
<1>4. ASSUME NEW r \in Requests, PatchRow(r)
      PROVE  /\ UNCHANGED <<nextTicketId, comments, nextCommentId>> /\ Kept
             /\ DOMAIN tickets \subseteq DOMAIN tickets'
  <2>1. CASE UNCHANGED tickets
    BY <1>4, <2>1 DEF PatchRow
  <2>2. PICK id : id = call[r].id
    OBVIOUS
  <2>3. CASE ~UNCHANGED tickets
    <3>1. tickets' = [tickets EXCEPT ![id] = Patched(tickets[id], call[r].changes)]
      BY <1>4, <2>2, <2>3 DEF PatchRow
    <3>2. \A x \in DOMAIN tickets : tickets[x] \in Ticket
      BY <1>1 DEF TypeOK, StoreTypeOK, IsTable
    <3> QED BY <1>4, <3>1, <3>2 DEF PatchRow, Patched, Ticket
  <2> QED BY <2>1, <2>3
<1>5. ASSUME NEW r \in Requests, DeleteRow(r) \/ QueryFails(r)
      PROVE  UNCHANGED <<nextTicketId, comments, nextCommentId>> /\ Kept /\ Freed
  BY <1>5 DEF DeleteRow, QueryFails, DeleteCommits, Delete, Restrict
<1>6. ASSUME Crash \/ UNCHANGED vars PROVE UNCHANGED tables
  BY <1>6 DEF Crash, vars
<1>7. nextTicketId' \in TicketIds \cup {MaxTickets + 1}
  BY <1>1, SeedAssumption DEF TypeOK, StoreTypeOK, TicketIds
<1> QED BY <1>1, <1>2, <1>3, <1>4, <1>5, <1>6, <1>7 DEF Next, Step, tables

\* What other processes do to the tables, a comment written, a mark set or a
\* failure counted, is nothing to the ticket endpoints as long as the columns
\* they announce stay as they are.
LEMMA OthersStep ==
  ASSUME IInv, StoreTypeOK', UNCHANGED <<nextTicketId, requestVars, crashes, ghosts>>,
         DOMAIN tickets' = DOMAIN tickets,
         \A id \in DOMAIN tickets : Facts(tickets'[id]) = Facts(tickets[id])
  PROVE  IInv'
<1>1. /\ UNCHANGED <<pc, call, previous, updated, reply, announced, disturbed>>
      /\ TypeOK
  BY DEF requestVars, ghosts, IInv
<1>2. TypeOK'
  BY <1>1 DEF TypeOK
<1>3. AllCarried' /\ RoomLeft'
  BY <1>1 DEF IInv, AllCarried, Carried, RoomLeft, Creating
<1>4. OnePending' /\ OwnAnnouncementsOnly'
  BY <1>1 DEF IInv, OnePending, Pending, OwnAnnouncementsOnly, PatchAboutToEmit,
              AnnouncesOwnChanges
<1>5. PendingIsCurrent'
  <2> SUFFICES ASSUME NEW id \in DOMAIN tickets' \ disturbed',
                      NEW q \in Requests, Pending(q, id)'
               PROVE  /\ Facts(updated'[q]) = Facts(tickets'[id])
                      /\ call'[q].op = "patch" => KnowBefore(q, id)'
    BY DEF PendingIsCurrent, Facts
  <2>1. id \in DOMAIN tickets \ disturbed /\ Pending(q, id)
    BY <1>1 DEF Pending
  <2>2. /\ Facts(updated[q]) = Facts(tickets[id])
        /\ call[q].op = "patch" => KnowBefore(q, id)
    BY <2>1 DEF IInv, PendingIsCurrent
  <2> QED BY <1>1, <2>1, <2>2 DEF KnowBefore
<1>6. AnnouncementsKeepUp'
  <2> SUFFICES ASSUME NEW id \in DOMAIN tickets' \ disturbed', Quiet(id)'
               PROVE  ListenersKnow(id)'
    BY DEF AnnouncementsKeepUp
  <2>1. id \in DOMAIN tickets \ disturbed /\ Quiet(id)
    BY <1>1 DEF Quiet, AnnouncementPending
  <2>2. ListenersKnow(id) /\ Facts(tickets'[id]) = Facts(tickets[id])
    BY <2>1 DEF IInv, AnnouncementsKeepUp
  <2> QED BY <1>1, <2>2 DEF ListenersKnow, Facts
<1> QED BY <1>2, <1>3, <1>4, <1>5, <1>6 DEF IInv
=============================================================================
