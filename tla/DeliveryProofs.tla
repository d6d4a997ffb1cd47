--------------------------- MODULE DeliveryProofs ---------------------------
(***************************************************************************)
(* Proofs about Delivery, for any users, tickets, requests and events: the *)
(* ticket endpoints keep to what Notify assumes of them, so that what      *)
(* NotifyProofs shows of the listeners holds behind these endpoints, and   *)
(* the last event about a ticket says what its row says and is notified.   *)
(***************************************************************************)
EXTENDS Delivery, TicketsProofs, SequenceTheorems

\* Notify as Delivery sees it, with its theorems.
P == INSTANCE NotifyProofs WITH
  Sockets <- {}, rooms <- <<>>, received <- <<>>, identities <- <<>>,
  Events <- Payloads, faults <- taskFaults, MaxFaults <- MaxTaskFaults

\* The inductive invariant, in parts.

\* An event carries the columns of the row it is about, of a ticket that has an id.
About == [request : Requests, id : TicketIds, ticket : Ticket]

BusOK ==
  /\ emitted \in Seq(Payloads) /\ about \in Seq(About) /\ Len(about) = Len(emitted)
  /\ \A n \in DOMAIN emitted :
       /\ emitted[n].customerId = about[n].ticket.customerId
       /\ emitted[n].assignedAgentId = about[n].ticket.assignedAgentId
       /\ about[n].id < nextTicketId

\* A ticket keeps its customer, in its row, in the hands of the request that wrote
\* it and in every event; a new ticket has no agent.
CustomersKept ==
  /\ \A id \in DOMAIN tickets : tickets[id].customerId \in Customers
  /\ \A r \in Requests : pc[r] = "emit" =>
       /\ updated[r].customerId \in Customers
       /\ call[r].op = "create" => updated[r].assignedAgentId = Null
       /\ call[r].id \in DOMAIN tickets =>
            tickets[call[r].id].customerId = updated[r].customerId
  /\ \A n \in DOMAIN about : about[n].id \in DOMAIN tickets =>
       tickets[about[n].id].customerId = about[n].ticket.customerId

\* On an undisturbed ticket, deleted or not, one announcement at most is
\* outstanding: its first, or one whose request had read the status last told.
SolePending == \A id \in TicketIds \ disturbed : \A r, q \in Requests :
  Pending(r, id) /\ Pending(q, id) => r = q

StatusKnown == \A id \in TicketIds \ disturbed : \A r \in Requests : Pending(r, id) =>
  /\ call[r].op = "create" => \A n \in DOMAIN about : about[n].id # id
  /\ call[r].op = "patch" => announced[id].status = previous[r].status

\* What listeners were last told is what the last event of the kind said.
SeedStatus(id) == IF id \in DOMAIN SeedTickets THEN SeedTickets[id].status ELSE Null
SeedAgent(id) == IF id \in DOMAIN SeedTickets THEN SeedTickets[id].assignedAgentId ELSE Null

LastStatus == \A id \in TicketIds :
  \/ EventsAbout(id, StatusEvents) = {} /\ announced[id].status = SeedStatus(id)
  \/ \E n \in DOMAIN emitted : IsLast(n, id, StatusEvents)
       /\ announced[id].status = about[n].ticket.status

LastAgent == \A id \in TicketIds \ disturbed :
  \/ /\ EventsAbout(id, {"assigned"}) = {}
     /\ announced[id].assignedAgentId \in {Null, SeedAgent(id)}
  \/ \E n \in DOMAIN emitted : IsLast(n, id, {"assigned"})
       /\ announced[id].assignedAgentId = about[n].ticket.assignedAgentId

DInv == IInv /\ BusOK /\ CustomersKept /\ SolePending /\ StatusKnown
          /\ LastStatus /\ LastAgent /\ NoTransitionToldTwice
-----------------------------------------------------------------------------
\* Nothing emitted, nothing outstanding: every part of DInv holds.
LEMMA DeliveryInitInv == DeliveryInit => DInv
<1> SUFFICES ASSUME DeliveryInit PROVE DInv
  OBVIOUS
<1>1. Init /\ emitted = <<>> /\ about = <<>> /\ IInv
  BY InitInv DEF DeliveryInit
<1>2. BusOK
  <2>1. <<>> \in Seq(Payloads) /\ <<>> \in Seq(About) /\ DOMAIN <<>> = {}
    OBVIOUS
  <2> QED BY <1>1, <2>1 DEF BusOK
<1>3. CustomersKept /\ SolePending /\ StatusKnown /\ NoTransitionToldTwice
  BY <1>1, DeliveryAssumption
  DEF Init, StoreInit, CustomersKept, SolePending, StatusKnown, Pending, NoTransitionToldTwice
<1>4. LastStatus /\ LastAgent
  BY <1>1 DEF Init, LastStatus, LastAgent, EventsAbout, SeedStatus, SeedAgent, Facts, Unheard
<1> QED BY <1>1, <1>2, <1>3, <1>4 DEF DInv
-----------------------------------------------------------------------------
\* Whether a request is about to announce an assignment, or a status.
Assigns(r) == call[r].op = "patch" /\ newlyAssigned(previous[r], updated[r])
Moves(r) == call[r].op = "patch" => statusChanged(previous[r], updated[r])

\* Concatenation makes a pair of two events.
LEMMA TwoInARow == ASSUME NEW a, NEW b PROVE <<a>> \o <<b>> = <<a, b>>
<1> DEFINE s == <<a>> \o <<b>>
           t == <<a, b>>
<1>1. <<a>> \in Seq({a, b}) /\ <<b>> \in Seq({a, b}) /\ <<a, b>> \in Seq({a, b})
  OBVIOUS
<1>2. /\ s \in Seq({a, b}) /\ Len(s) = 2 /\ s[1] = a /\ s[2] = b
      /\ t \in Seq({a, b}) /\ Len(t) = 2 /\ t[1] = a /\ t[2] = b
  BY <1>1
<1> HIDE DEF s, t
<1>3. \A i \in 1..2 : s[i] = t[i]
  BY <1>2
<1>4. s = t
  BY <1>2, <1>3, SeqEqual
<1> QED BY <1>4 DEF s, t

\* The events of a write: each carries the row written, one at most is an
\* assignment and one at most a status, and each is there exactly if the
\* difference calls for it (createTicket, updateTicket).
LEMMA EventsOfEffect ==
  ASSUME NEW r \in Requests, call[r].op \in {"create", "patch"}
  PROVE  /\ EventsOf(r) \in Seq({Payload(name, call[r].id, updated[r]) :
                              name \in {"created", "assigned", "status_changed"}})
         /\ Len(EventsOf(r)) \in 0..2
         /\ \A i \in 1..Len(EventsOf(r)) :
              /\ EventsOf(r)[i] = Payload(EventsOf(r)[i].name, call[r].id, updated[r])
              /\ EventsOf(r)[i].name = "created" => call[r].op = "create"
              /\ EventsOf(r)[i].name = "assigned" => Assigns(r)
              /\ EventsOf(r)[i].name \in StatusEvents => Moves(r)
         /\ Moves(r) => \E i \in 1..Len(EventsOf(r)) : EventsOf(r)[i].name \in StatusEvents
         /\ Assigns(r) => \E i \in 1..Len(EventsOf(r)) : EventsOf(r)[i].name = "assigned"
         /\ \A i, j \in 1..Len(EventsOf(r)) :
              EventsOf(r)[i].name \in StatusEvents /\ EventsOf(r)[j].name \in StatusEvents
              => i = j
         /\ \A i, j \in 1..Len(EventsOf(r)) :
              EventsOf(r)[i].name = "assigned" /\ EventsOf(r)[j].name = "assigned" => i = j
<1> DEFINE P1(name) == Payload(name, call[r].id, updated[r])
<1>1. \A name : P1(name).name = name
  BY DEF Payload
<1>2. CASE call[r].op = "create"
  <2>1. EventsOf(r) = <<P1("created")>> /\ Moves(r) /\ ~Assigns(r)
    BY <1>2 DEF EventsOf, EventIf, Moves, Assigns
  <2> HIDE DEF P1
  <2> QED BY <1>1, <1>2, <2>1 DEF StatusEvents, P1
<1>3. CASE call[r].op = "patch"
  <2>1. EventsOf(r) = (IF Assigns(r) THEN <<P1("assigned")>> ELSE <<>>)
                        \o (IF Moves(r) THEN <<P1("status_changed")>> ELSE <<>>)
    BY <1>3 DEF EventsOf, EventIf, Moves, Assigns
  <2>2. CASE Assigns(r) /\ Moves(r)
    <3>1. EventsOf(r) = <<P1("assigned")>> \o <<P1("status_changed")>>
      BY <2>1, <2>2
    <3>3. EventsOf(r) = <<P1("assigned"), P1("status_changed")>>
      BY <3>1, TwoInARow
    <3> HIDE DEF P1
    <3> QED BY <1>1, <1>3, <2>2, <3>3 DEF StatusEvents, P1
  <2>3. CASE Assigns(r) /\ ~Moves(r)
    <3>1. EventsOf(r) = <<P1("assigned")>>
      BY <2>1, <2>3
    <3> QED BY <1>1, <1>3, <2>3, <3>1 DEF StatusEvents
  <2>4. CASE ~Assigns(r) /\ Moves(r)
    <3>1. EventsOf(r) = <<P1("status_changed")>>
      BY <2>1, <2>4
    <3> QED BY <1>1, <1>3, <2>4, <3>1 DEF StatusEvents
  <2>5. CASE ~Assigns(r) /\ ~Moves(r)
    <3>1. EventsOf(r) = <<>>
      BY <2>1, <2>5
    <3> QED BY <1>3, <2>5, <3>1
  <2> QED BY <2>2, <2>3, <2>4, <2>5
<1> QED BY <1>2, <1>3

\* What a handler emits, Notify takes for the events of one handler (Bursts).
LEMMA EventsFit ==
  ASSUME IInv, CustomersKept, NEW r \in Requests, Emit(r)
  PROVE  /\ EventsOf(r) \in Seq(Payloads)
         /\ EventsOf(r) # <<>> => EventsOf(r) \in P!Bursts
<1>1. /\ pc[r] = "emit" /\ call[r].op \in {"create", "patch"} /\ updated[r] \in Ticket
      /\ call[r].id \in TicketIds
  BY DEF Emit, IInv, AllCarried, Carried
<1>2. /\ updated[r].customerId \in Customers
      /\ updated[r].assignedAgentId \in User \cup {Null}
      /\ call[r].op = "create" => updated[r].assignedAgentId = Null
  BY <1>1 DEF CustomersKept, Ticket
<1> DEFINE P1(name) == Payload(name, call[r].id, updated[r])
<1>3. /\ call[r].op = "create" => P1("created") \in Payloads
      /\ Assigns(r) => P1("assigned") \in Payloads
      /\ P1("status_changed") \in Payloads
      /\ P1("assigned").name = "assigned"
      /\ P1("status_changed") = [P1("assigned") EXCEPT !.name = "status_changed"]
  BY <1>2 DEF Payload, Payloads, Assigns, newlyAssigned
<1>4. CASE call[r].op = "create"
  <2>1. EventsOf(r) = <<P1("created")>>
    BY <1>4 DEF EventsOf, EventIf
  <2> HIDE DEF P1
  <2> QED BY <1>3, <1>4, <2>1 DEF P!Bursts
<1>5. CASE call[r].op = "patch"
  <2>1. EventsOf(r) = (IF Assigns(r) THEN <<P1("assigned")>> ELSE <<>>)
                        \o (IF Moves(r) THEN <<P1("status_changed")>> ELSE <<>>)
    BY <1>5 DEF EventsOf, EventIf, Moves, Assigns
  <2> HIDE DEF P1
  <2>2. CASE Assigns(r) /\ Moves(r)
    <3>1. EventsOf(r) = <<P1("assigned")>> \o <<P1("status_changed")>>
      BY <2>1, <2>2
    <3>2. EventsOf(r) = <<P1("assigned"), P1("status_changed")>>
      BY <3>1, TwoInARow
    <3> QED BY <1>3, <2>2, <3>2 DEF P!Bursts
  <2>3. CASE Assigns(r) /\ ~Moves(r)
    <3>1. EventsOf(r) = <<P1("assigned")>>
      BY <2>1, <2>3
    <3> QED BY <1>3, <2>3, <3>1 DEF P!Bursts
  <2>4. CASE ~Assigns(r) /\ Moves(r)
    <3>1. EventsOf(r) = <<P1("status_changed")>>
      BY <2>1, <2>4
    <3> QED BY <1>3, <3>1 DEF P!Bursts
  <2>5. CASE ~Assigns(r) /\ ~Moves(r)
    BY <2>1, <2>5
  <2> QED BY <2>2, <2>3, <2>4, <2>5
<1> QED BY <1>1, <1>4, <1>5
-----------------------------------------------------------------------------
\* Where the elements of two sequences are in their concatenation (EmitAll).
LEMMA ConcatParts ==
  ASSUME NEW S, NEW s \in Seq(S), NEW t \in Seq(S)
  PROVE  /\ s \o t \in Seq(S) /\ Len(s \o t) = Len(s) + Len(t)
         /\ DOMAIN (s \o t) = 1..(Len(s) + Len(t))
         /\ \A n \in 1..Len(s) : (s \o t)[n] = s[n]
         /\ \A n \in (Len(s) + 1)..(Len(s) + Len(t)) : (s \o t)[n] = t[n - Len(s)]
<1>1. /\ s \o t \in Seq(S) /\ Len(s \o t) = Len(s) + Len(t)
      /\ \A n \in 1..(Len(s) + Len(t)) :
           (s \o t)[n] = IF n <= Len(s) THEN s[n] ELSE t[n - Len(s)]
  BY ConcatProperties
<1>2. DOMAIN (s \o t) = 1..(Len(s) + Len(t))
  BY <1>1
<1>3. Len(s) \in Nat /\ Len(t) \in Nat
  OBVIOUS
<1>4. \A n \in 1..Len(s) : (s \o t)[n] = s[n]
  BY <1>1, <1>3
<1>5. \A n \in (Len(s) + 1)..(Len(s) + Len(t)) : (s \o t)[n] = t[n - Len(s)]
  BY <1>1, <1>3
<1> QED BY <1>1, <1>2, <1>4, <1>5

\* What emitting does, with the new events under their numbers, after all others
\* (EmitAndRespond).
NewEvents == DOMAIN emitted' \ DOMAIN emitted

LEMMA BusEffect ==
  ASSUME IInv, BusOK, CustomersKept, NEW r \in Requests, EmitAndRespond(r)
  PROVE  /\ emitted' \in Seq(Payloads) /\ about' \in Seq(About) /\ Len(about') = Len(emitted')
         /\ DOMAIN about = DOMAIN emitted /\ DOMAIN about' = DOMAIN emitted'
         /\ DOMAIN emitted \subseteq Int /\ DOMAIN emitted' \subseteq Int
         /\ DOMAIN emitted \subseteq DOMAIN emitted'
         /\ \A n \in DOMAIN emitted : emitted'[n] = emitted[n] /\ about'[n] = about[n]
         /\ \A n \in NewEvents :
              /\ n \in DOMAIN emitted' /\ \A m \in DOMAIN emitted : m < n
              /\ about'[n] = [request |-> r, id |-> call[r].id, ticket |-> updated[r]]
              /\ emitted'[n] = Payload(emitted'[n].name, call[r].id, updated[r])
              /\ emitted'[n].name = "assigned" => Assigns(r)
              /\ emitted'[n].name \in StatusEvents => Moves(r)
         /\ Moves(r) => \E n \in NewEvents : emitted'[n].name \in StatusEvents
         /\ Assigns(r) => \E n \in NewEvents : emitted'[n].name = "assigned"
         /\ \A n, m \in NewEvents :
              emitted'[n].name \in StatusEvents /\ emitted'[m].name \in StatusEvents => n = m
         /\ \A n, m \in NewEvents :
              emitted'[n].name = "assigned" /\ emitted'[m].name = "assigned" => n = m
<1>1. /\ Emit(r) /\ call[r].op \in {"create", "patch"}
      /\ call[r].id \in TicketIds /\ updated[r] \in Ticket
  BY DEF EmitAndRespond, Emit, IInv, AllCarried, Carried
<1>2. PICK s, k, L : /\ s = EventsOf(r) /\ k = Len(s) /\ L = Len(emitted)
  OBVIOUS
<1>3. PICK w : w = [request |-> r, id |-> call[r].id, ticket |-> updated[r]]
  OBVIOUS
<1>4. w \in About
  BY <1>1, <1>3 DEF About
<1>5. /\ s \in Seq(Payloads) /\ k \in Nat /\ DOMAIN s = 1..k
      /\ emitted \in Seq(Payloads) /\ about \in Seq(About)
      /\ L \in Nat /\ Len(about) = L /\ DOMAIN emitted = 1..L /\ DOMAIN about = 1..L
  BY <1>1, <1>2, EventsFit DEF BusOK
<1>6. emitted' = emitted \o s /\ about' = about \o [i \in DOMAIN s |-> w]
  BY <1>2, <1>3 DEF EmitAndRespond, N!EmitAll
<1>7. PICK t : /\ t \in Seq(About) /\ Len(t) = k /\ \A i \in 1..k : t[i] = w
               /\ about' = about \o t
  <2> DEFINE t == [i \in 1..k |-> w]
  <2>1. t \in Seq(About) /\ Len(t) = k /\ \A i \in 1..k : t[i] = w
    BY <1>4, <1>5
  <2>2. about' = about \o t
    BY <1>5, <1>6
  <2> HIDE DEF t
  <2> QED BY <2>1, <2>2
<1>8. /\ emitted' \in Seq(Payloads) /\ Len(emitted') = L + k
      /\ DOMAIN emitted' = 1..(L + k)
      /\ \A n \in 1..L : emitted'[n] = emitted[n]
      /\ \A n \in (L + 1)..(L + k) : emitted'[n] = s[n - L]
  <2>1. /\ emitted \in Seq(Payloads) /\ s \in Seq(Payloads) /\ emitted' = emitted \o s
        /\ Len(emitted) = L /\ Len(s) = k /\ L \in Nat /\ k \in Nat
    BY <1>2, <1>5, <1>6
  <2> QED BY <2>1, ConcatParts
<1>9. /\ about' \in Seq(About) /\ Len(about') = L + k
      /\ DOMAIN about' = 1..(L + k)
      /\ \A n \in 1..L : about'[n] = about[n]
      /\ \A n \in (L + 1)..(L + k) : about'[n] = w
  <2>1. /\ about' \in Seq(About) /\ Len(about') = L + k
        /\ DOMAIN about' = 1..(L + k)
        /\ \A n \in 1..L : about'[n] = about[n]
        /\ \A n \in (L + 1)..(L + k) : about'[n] = t[n - L]
    <3>1. /\ about \in Seq(About) /\ t \in Seq(About) /\ about' = about \o t
          /\ Len(about) = L /\ Len(t) = k /\ L \in Nat /\ k \in Nat
      BY <1>5, <1>7
    <3> QED BY <3>1, ConcatParts
  <2>2. \A n \in (L + 1)..(L + k) : n - L \in 1..k
    BY <1>5
  <2> QED BY <1>7, <2>1, <2>2
<1>10. NewEvents = (L + 1)..(L + k)
  BY <1>5, <1>8 DEF NewEvents
<1>11. /\ \A n \in NewEvents : n - L \in 1..k /\ emitted'[n] = s[n - L]
       /\ \A i \in 1..k : L + i \in NewEvents /\ emitted'[L + i] = s[i]
       /\ \A n, m \in NewEvents : n - L = m - L => n = m
  BY <1>5, <1>8, <1>10
<1>12. /\ \A i \in 1..k :
              /\ s[i] = Payload(s[i].name, call[r].id, updated[r])
              /\ s[i].name = "assigned" => Assigns(r)
              /\ s[i].name \in StatusEvents => Moves(r)
       /\ Moves(r) => \E i \in 1..k : s[i].name \in StatusEvents
       /\ Assigns(r) => \E i \in 1..k : s[i].name = "assigned"
       /\ \A i, j \in 1..k :
              s[i].name \in StatusEvents /\ s[j].name \in StatusEvents => i = j
       /\ \A i, j \in 1..k : s[i].name = "assigned" /\ s[j].name = "assigned" => i = j
  BY <1>1, <1>2, EventsOfEffect
<1>13. \A n \in NewEvents :
              /\ emitted'[n] = Payload(emitted'[n].name, call[r].id, updated[r])
              /\ emitted'[n].name = "assigned" => Assigns(r)
              /\ emitted'[n].name \in StatusEvents => Moves(r)
  BY <1>11, <1>12
<1>14. /\ Moves(r) => \E n \in NewEvents : emitted'[n].name \in StatusEvents
       /\ Assigns(r) => \E n \in NewEvents : emitted'[n].name = "assigned"
  BY <1>11, <1>12
<1>15. /\ \A n, m \in NewEvents :
              emitted'[n].name \in StatusEvents /\ emitted'[m].name \in StatusEvents => n = m
       /\ \A n, m \in NewEvents :
              emitted'[n].name = "assigned" /\ emitted'[m].name = "assigned" => n = m
  BY <1>11, <1>12
<1> QED BY <1>3, <1>5, <1>8, <1>9, <1>10, <1>13, <1>14, <1>15

\* What emitting does on the side of the tickets (Emit).
LEMMA EmitsAs ==
  ASSUME IInv, NEW r \in Requests, Emit(r)
  PROVE  /\ Pending(r, call[r].id) /\ call[r].op \in {"create", "patch"}
         /\ call[r].id \in TicketIds /\ call[r].id < nextTicketId /\ updated[r] \in Ticket
         /\ pc'[r] = "idle"
         /\ \A q \in Requests \ {r} :
              /\ pc'[q] = pc[q] /\ call'[q] = call[q]
              /\ previous'[q] = previous[q] /\ updated'[q] = updated[q]
         /\ UNCHANGED <<tickets, nextTicketId, disturbed>>
         /\ \A id \in TicketIds \ {call[r].id} : announced'[id] = announced[id]
         /\ announced'[call[r].id].status =
              IF Moves(r) THEN updated[r].status ELSE announced[call[r].id].status
         /\ announced'[call[r].id].assignedAgentId =
              IF call[r].op = "create" \/ Assigns(r)
              THEN updated[r].assignedAgentId ELSE announced[call[r].id].assignedAgentId
<1>0. PICK n : n = call[r].id
  OBVIOUS
<1>1. /\ pc[r] = "emit" /\ call[r].op \in {"create", "patch"} /\ TypeOK
      /\ n \in TicketIds /\ n < nextTicketId /\ updated[r] \in Ticket
      /\ call[r].op = "patch" => previous[r] \in Ticket
      /\ UNCHANGED <<tickets, nextTicketId, disturbed>>
  BY <1>0 DEF Emit, IInv, AllCarried, Carried, tables
<1>2. PICK status \in Replies : Respond(r, status)
  BY DEF Emit, Replies
<1>3. /\ pc'[r] = "idle"
      /\ \A q \in Requests \ {r} :
           /\ pc'[q] = pc[q] /\ call'[q] = call[q]
           /\ previous'[q] = previous[q] /\ updated'[q] = updated[q]
  BY <1>1, <1>2, RespondEffect
<1>4. announced' = [announced EXCEPT ![n] =
           IF call[r].op = "create" THEN Facts(updated[r])
                                    ELSE Told(@, previous[r], updated[r])]
  BY <1>0, <1>1 DEF Emit
<1>5. announced \in [TicketIds -> Fact]
  BY <1>1 DEF TypeOK
<1>6. /\ \A id \in TicketIds \ {n} : announced'[id] = announced[id]
      /\ announced'[n] = IF call[r].op = "create" THEN Facts(updated[r])
                           ELSE Told(announced[n], previous[r], updated[r])
  BY <1>1, <1>4, <1>5
<1>7. CASE call[r].op = "create"
  <2>1. Moves(r) /\ announced'[n] = Facts(updated[r])
    BY <1>6, <1>7 DEF Moves
  <2> QED BY <1>0, <1>1, <1>3, <1>6, <1>7, <2>1 DEF Pending, Facts
<1>8. CASE call[r].op = "patch"
  <2>1. announced'[n] = Told(announced[n], previous[r], updated[r])
    BY <1>6, <1>8
  <2>2. /\ announced'[n].status =
             IF statusChanged(previous[r], updated[r]) THEN updated[r].status
                                                       ELSE announced[n].status
        /\ announced'[n].assignedAgentId =
             IF newlyAssigned(previous[r], updated[r]) THEN updated[r].assignedAgentId
                                                       ELSE announced[n].assignedAgentId
    BY <1>1, <1>5, <1>8, <2>1, ToldEffect
  <2> QED BY <1>0, <1>1, <1>3, <1>6, <1>8, <2>2 DEF Pending, Moves, Assigns
<1> QED BY <1>1, <1>7, <1>8

\* The events about other tickets stay what they were, and so does the last of
\* them (EmitAndRespond).
LEMMA OtherTickets ==
  ASSUME IInv, BusOK, CustomersKept, NEW r \in Requests, EmitAndRespond(r),
         NEW id \in TicketIds \ {call[r].id}, NEW names
  PROVE  /\ EventsAbout(id, names)' = EventsAbout(id, names)
         /\ \A n \in EventsAbout(id, names) :
              n \in DOMAIN emitted /\ n \in DOMAIN emitted' /\ about'[n] = about[n]
<1>1. /\ DOMAIN emitted \subseteq DOMAIN emitted'
      /\ \A n \in DOMAIN emitted : emitted'[n] = emitted[n] /\ about'[n] = about[n]
  BY BusEffect
<1>2. PICK w : w = [request |-> r, id |-> call[r].id, ticket |-> updated[r]]
  OBVIOUS
<1>3. \A n \in NewEvents : about'[n] = w
  BY <1>2, BusEffect
<1>4. \A n \in NewEvents : about'[n].id = call[r].id
  BY <1>2, <1>3
<1> QED BY <1>1, <1>4 DEF EventsAbout, NewEvents

\* What requests and listeners know of the events goes on holding for the tickets
\* the emitted events are not about, and holds of the one they are about: the
\* last of them says what listeners were told (EmitAndRespond).
LEMMA EmitAndRespondStep ==
  ASSUME DInv, NEW r \in Requests, EmitAndRespond(r)
  PROVE  DInv'
<1>0. /\ IInv /\ BusOK /\ CustomersKept /\ SolePending /\ StatusKnown /\ LastStatus
      /\ LastAgent /\ NoTransitionToldTwice /\ Emit(r)
  BY DEF DInv, EmitAndRespond
<1>1. IInv'
  BY <1>0, EmitStep
<1>2. PICK i, row : i = call[r].id /\ row = updated[r]
  OBVIOUS
<1>3. /\ Pending(r, i) /\ call[r].op \in {"create", "patch"}
      /\ i \in TicketIds /\ i < nextTicketId /\ row \in Ticket
      /\ pc'[r] = "idle"
      /\ \A q \in Requests \ {r} :
           /\ pc'[q] = pc[q] /\ call'[q] = call[q]
           /\ previous'[q] = previous[q] /\ updated'[q] = updated[q]
      /\ UNCHANGED <<tickets, nextTicketId, disturbed>>
      /\ \A id \in TicketIds \ {i} : announced'[id] = announced[id]
      /\ announced'[i].status = IF Moves(r) THEN row.status ELSE announced[i].status
      /\ announced'[i].assignedAgentId =
           IF call[r].op = "create" \/ Assigns(r)
           THEN row.assignedAgentId ELSE announced[i].assignedAgentId
  BY <1>0, <1>2, EmitsAs
<1>4. /\ emitted' \in Seq(Payloads) /\ about' \in Seq(About) /\ Len(about') = Len(emitted')
      /\ DOMAIN about = DOMAIN emitted /\ DOMAIN about' = DOMAIN emitted'
      /\ DOMAIN emitted \subseteq Int /\ DOMAIN emitted' \subseteq Int
      /\ DOMAIN emitted \subseteq DOMAIN emitted'
      /\ \A n \in DOMAIN emitted : emitted'[n] = emitted[n] /\ about'[n] = about[n]
  BY <1>0, BusEffect
<1>5. \A n \in NewEvents :
        /\ n \in DOMAIN emitted' /\ \A m \in DOMAIN emitted : m < n
        /\ about'[n].id = i /\ about'[n].ticket = row
        /\ emitted'[n].customerId = row.customerId
        /\ emitted'[n].assignedAgentId = row.assignedAgentId
        /\ emitted'[n].name = "assigned" => Assigns(r)
        /\ emitted'[n].name \in StatusEvents => Moves(r)
  <2> SUFFICES ASSUME NEW n \in NewEvents
               PROVE  /\ n \in DOMAIN emitted' /\ \A m \in DOMAIN emitted : m < n
                      /\ about'[n].id = i /\ about'[n].ticket = row
                      /\ emitted'[n].customerId = row.customerId
                      /\ emitted'[n].assignedAgentId = row.assignedAgentId
                      /\ emitted'[n].name = "assigned" => Assigns(r)
                      /\ emitted'[n].name \in StatusEvents => Moves(r)
    OBVIOUS
  <2>1. PICK name : name = emitted'[n].name
    OBVIOUS
  <2>2. /\ n \in DOMAIN emitted' /\ \A m \in DOMAIN emitted : m < n
        /\ name = "assigned" => Assigns(r)
        /\ name \in StatusEvents => Moves(r)
    BY <1>0, <2>1, BusEffect
  <2>3. about'[n] = [request |-> r, id |-> i, ticket |-> row]
    BY <1>0, <1>2, BusEffect
  <2>4. emitted'[n] = Payload(name, i, row)
    BY <1>0, <1>2, <2>1, BusEffect
  <2>5. about'[n].id = i /\ about'[n].ticket = row
    BY <2>3
  <2>6. /\ emitted'[n].customerId = row.customerId
        /\ emitted'[n].assignedAgentId = row.assignedAgentId
    BY <2>4 DEF Payload
  <2> QED BY <2>1, <2>2, <2>5, <2>6
<1>6. /\ Moves(r) => \E n \in NewEvents : emitted'[n].name \in StatusEvents
      /\ Assigns(r) => \E n \in NewEvents : emitted'[n].name = "assigned"
      /\ \A n, m \in NewEvents :
           emitted'[n].name \in StatusEvents /\ emitted'[m].name \in StatusEvents => n = m
      /\ \A n, m \in NewEvents :
           emitted'[n].name = "assigned" /\ emitted'[m].name = "assigned" => n = m
  BY <1>0, BusEffect
<1>7. \A n \in DOMAIN emitted' : n \in DOMAIN emitted \/ n \in NewEvents
  BY DEF NewEvents
<1>8. BusOK'
  <2>1. \A n \in DOMAIN emitted' :
          /\ emitted'[n].customerId = about'[n].ticket.customerId
          /\ emitted'[n].assignedAgentId = about'[n].ticket.assignedAgentId
          /\ about'[n].id < nextTicketId'
    BY <1>0, <1>3, <1>4, <1>5, <1>7 DEF BusOK
  <2> QED BY <1>4, <2>1 DEF BusOK
<1>9. CustomersKept'
  <2>1. \A n \in DOMAIN about' : about'[n].id \in DOMAIN tickets =>
          tickets[about'[n].id].customerId = about'[n].ticket.customerId
    BY <1>0, <1>2, <1>3, <1>4, <1>5, <1>7 DEF CustomersKept, Pending
  <2>2. \A q \in Requests : pc'[q] = "emit" => q # r
    BY <1>3
  <2> QED BY <1>0, <1>3, <2>1, <2>2 DEF CustomersKept
<1>10. \A q \in Requests : \A id : Pending(q, id)' => q # r /\ Pending(q, id)
  BY <1>3 DEF Pending
<1>11. SolePending'
  BY <1>0, <1>3, <1>10 DEF SolePending
<1>12. StatusKnown'
  <2> SUFFICES ASSUME NEW id \in TicketIds \ disturbed, NEW q \in Requests, Pending(q, id)'
               PROVE  /\ call'[q].op = "create" => \A n \in DOMAIN about' : about'[n].id # id
                      /\ call'[q].op = "patch" => announced'[id].status = previous'[q].status
    BY <1>3 DEF StatusKnown
  <2>1. q # r /\ Pending(q, id) /\ id # i
    BY <1>0, <1>2, <1>3, <1>10 DEF SolePending
  <2>2. /\ call[q].op = "create" => \A n \in DOMAIN about : about[n].id # id
        /\ call[q].op = "patch" => announced[id].status = previous[q].status
    BY <1>0, <2>1 DEF StatusKnown
  <2> QED BY <1>3, <1>4, <1>5, <1>7, <2>1, <2>2
<1>13. ASSUME NEW id \in TicketIds \ {i}, NEW names
       PROVE  /\ EventsAbout(id, names)' = EventsAbout(id, names)
              /\ \A n \in EventsAbout(id, names) :
                   n \in DOMAIN emitted /\ n \in DOMAIN emitted' /\ about'[n] = about[n]
  BY <1>0, <1>2, OtherTickets
<1>14. ASSUME NEW names
       PROVE  \A n \in EventsAbout(i, names)' :
                \/ n \in EventsAbout(i, names)
                \/ n \in NewEvents /\ emitted'[n].name \in names
  BY <1>4, <1>7 DEF EventsAbout
<1>15. LastStatus'
  <2> SUFFICES ASSUME NEW id \in TicketIds
               PROVE  \/ /\ EventsAbout(id, StatusEvents)' = {}
                         /\ announced'[id].status = SeedStatus(id)
                      \/ \E n \in DOMAIN emitted' : IsLast(n, id, StatusEvents)'
                           /\ announced'[id].status = about'[n].ticket.status
    BY DEF LastStatus, SeedStatus
  <2>1. CASE id # i
    BY <1>0, <1>3, <1>13, <2>1 DEF LastStatus, IsLast
  <2>2. CASE id = i /\ Moves(r)
    <3>1. PICK n \in NewEvents : emitted'[n].name \in StatusEvents
      BY <1>6, <2>2
    <3>2. n \in EventsAbout(i, StatusEvents)'
      BY <1>5, <3>1 DEF EventsAbout, StatusEvents
    <3>3. \A m \in EventsAbout(i, StatusEvents)' : m <= n
      BY <1>4, <1>5, <1>6, <1>14, <3>1 DEF EventsAbout
    <3>4. announced'[i].status = about'[n].ticket.status
      BY <1>3, <1>5, <2>2, <3>1
    <3> QED BY <1>5, <2>2, <3>1, <3>2, <3>3, <3>4 DEF IsLast, StatusEvents
  <2>3. CASE id = i /\ ~Moves(r)
    <3>1. EventsAbout(i, StatusEvents)' = EventsAbout(i, StatusEvents)
      <4>1. EventsAbout(i, StatusEvents)' \subseteq EventsAbout(i, StatusEvents)
        BY <1>5, <1>14, <2>3
      <4>2. EventsAbout(i, StatusEvents) \subseteq EventsAbout(i, StatusEvents)'
        BY <1>4 DEF EventsAbout, StatusEvents
      <4> QED BY <4>1, <4>2
    <3>2. \A n \in EventsAbout(i, StatusEvents) : n \in DOMAIN emitted' /\ about'[n] = about[n]
      BY <1>4 DEF EventsAbout
    <3> QED BY <1>0, <1>3, <2>3, <3>1, <3>2 DEF LastStatus, IsLast
  <2> QED BY <2>1, <2>2, <2>3
<1>16. LastAgent'
  <2> SUFFICES ASSUME NEW id \in TicketIds \ disturbed
               PROVE  \/ /\ EventsAbout(id, {"assigned"})' = {}
                         /\ announced'[id].assignedAgentId \in {Null, SeedAgent(id)}
                      \/ \E n \in DOMAIN emitted' : IsLast(n, id, {"assigned"})'
                           /\ announced'[id].assignedAgentId = about'[n].ticket.assignedAgentId
    BY <1>3 DEF LastAgent, SeedAgent
  <2>1. CASE id # i
    BY <1>0, <1>3, <1>13, <2>1 DEF LastAgent, IsLast
  <2>2. CASE id = i /\ Assigns(r)
    <3>1. PICK n \in NewEvents : emitted'[n].name = "assigned"
      BY <1>6, <2>2
    <3>2. n \in EventsAbout(i, {"assigned"})'
      BY <1>5, <3>1 DEF EventsAbout
    <3>3. \A m \in EventsAbout(i, {"assigned"})' : m <= n
      <4>1. \A m \in EventsAbout(i, {"assigned"})' :
              \/ m \in DOMAIN emitted
              \/ m \in NewEvents /\ emitted'[m].name = "assigned"
        BY <1>14 DEF EventsAbout
      <4> QED BY <1>4, <1>5, <1>6, <3>1, <4>1
    <3>4. announced'[i].assignedAgentId = about'[n].ticket.assignedAgentId
      BY <1>3, <1>5, <2>2, <3>1
    <3> QED BY <1>5, <2>2, <3>1, <3>2, <3>3, <3>4 DEF IsLast
  <2>3. CASE id = i /\ ~Assigns(r)
    <3>1. EventsAbout(i, {"assigned"})' = EventsAbout(i, {"assigned"})
      <4>1. EventsAbout(i, {"assigned"})' \subseteq EventsAbout(i, {"assigned"})
        BY <1>5, <1>14, <2>3
      <4>2. EventsAbout(i, {"assigned"}) \subseteq EventsAbout(i, {"assigned"})'
        BY <1>4 DEF EventsAbout
      <4> QED BY <4>1, <4>2
    <3>2. CASE call[r].op = "create"
      <4>1. EventsAbout(i, {"assigned"}) = {}
        BY <1>0, <1>3, <1>4, <2>3, <3>2 DEF StatusKnown, EventsAbout
      <4>2. announced'[i].assignedAgentId = Null
        BY <1>0, <1>2, <1>3, <3>2 DEF CustomersKept, Pending
      <4> QED BY <2>3, <3>1, <4>1, <4>2
    <3>3. CASE call[r].op = "patch"
      <4>1. \A n \in EventsAbout(i, {"assigned"}) :
              n \in DOMAIN emitted' /\ about'[n] = about[n]
        BY <1>4 DEF EventsAbout
      <4>2. announced'[i].assignedAgentId = announced[i].assignedAgentId
        BY <1>3, <2>3, <3>3
      <4> QED BY <1>0, <2>3, <3>1, <4>1, <4>2 DEF LastAgent, IsLast
    <3> QED BY <1>3, <3>2, <3>3
  <2> QED BY <2>1, <2>2, <2>3
<1>17. NoTransitionToldTwice'
  <2> SUFFICES ASSUME NEW n \in DOMAIN emitted', emitted'[n].name \in StatusEvents,
                      NEW id, id = about'[n].id, id \notin disturbed,
                      NEW m \in EventsAbout(id, StatusEvents)', m < n,
                      about'[m].ticket.status = about'[n].ticket.status
               PROVE  \E k \in EventsAbout(id, StatusEvents)' : m < k /\ k < n
    BY <1>3 DEF NoTransitionToldTwice, EventsAbout, StatusEvents
  <2>2. m \in DOMAIN emitted' /\ about'[m].id = id /\ emitted'[m].name \in StatusEvents
    BY DEF EventsAbout, StatusEvents
  <2>3. EventsAbout(id, StatusEvents) \subseteq EventsAbout(id, StatusEvents)'
    BY <1>4 DEF EventsAbout, StatusEvents
  <2>4. CASE n \in DOMAIN emitted
    <3>1. m \in DOMAIN emitted
      BY <1>4, <1>5, <1>7, <2>2, <2>4
    <3>2. /\ emitted[n].name \in StatusEvents /\ about[n].id = id
          /\ m \in EventsAbout(id, StatusEvents)
          /\ about[m].ticket.status = about[n].ticket.status
      BY <1>4, <2>2, <2>4, <3>1 DEF EventsAbout, StatusEvents
    <3>3. \E k \in EventsAbout(id, StatusEvents) : m < k /\ k < n
      BY <1>0, <2>4, <3>2 DEF NoTransitionToldTwice
    <3> QED BY <2>3, <3>3
  <2>5. CASE n \in NewEvents
    <3>1. id = i /\ Moves(r) /\ about'[n].ticket = row
      BY <1>5, <2>5
    <3>2. m \in DOMAIN emitted
      BY <1>4, <1>6, <1>7, <2>2, <2>5
    <3>3. m \in EventsAbout(i, StatusEvents) /\ about[m].ticket.status = row.status
      BY <1>4, <2>2, <3>1, <3>2 DEF EventsAbout, StatusEvents
    <3>4. PICK k \in DOMAIN emitted : /\ IsLast(k, i, StatusEvents)
                                      /\ announced[i].status = about[k].ticket.status
      BY <1>0, <1>3, <3>3 DEF LastStatus
    <3>5. k \in EventsAbout(i, StatusEvents) /\ m <= k /\ k < n
      BY <1>5, <2>5, <3>3, <3>4 DEF IsLast
    <3>6. m # k
      <4>1. i \in TicketIds \ disturbed /\ Pending(r, i)
        BY <1>3, <3>1
      <4>2. call[r].op = "patch"
        BY <1>0, <1>3, <1>4, <3>2, <3>3, <4>1 DEF StatusKnown, EventsAbout
      <4>3. announced[i].status # row.status
        BY <1>0, <1>2, <3>1, <4>1, <4>2 DEF StatusKnown, Moves, statusChanged
      <4> QED BY <3>3, <3>4, <4>3
    <3>7. m < k
      BY <1>4, <3>2, <3>5, <3>6
    <3> QED BY <2>3, <3>1, <3>5, <3>7
  <2> QED BY <1>7, <2>4, <2>5
<1> QED BY <1>1, <1>8, <1>9, <1>11, <1>12, <1>15, <1>16, <1>17 DEF DInv
-----------------------------------------------------------------------------
\* Steps that emit nothing and tell nobody leave what is known of the events.
LEMMA BusFrame ==
  ASSUME DInv, UNCHANGED <<emitted, about, announced>>, disturbed \subseteq disturbed',
         nextTicketId \in Int, nextTicketId' \in Int, nextTicketId <= nextTicketId'
  PROVE  BusOK' /\ LastStatus' /\ LastAgent' /\ NoTransitionToldTwice'
<1>1. BusOK'
  <2>1. \A n \in DOMAIN emitted : about[n].id \in Int /\ about[n].id < nextTicketId
    <3>1. DOMAIN emitted = DOMAIN about /\ \A n \in DOMAIN about : about[n] \in About
      BY DEF DInv, BusOK
    <3>2. \A n \in DOMAIN about : about[n].id \in Int
      BY <3>1 DEF About, TicketIds
    <3> QED BY <3>1, <3>2 DEF DInv, BusOK
  <2>2. \A n \in DOMAIN emitted : about[n].id < nextTicketId'
    BY <2>1
  <2> QED BY <2>2 DEF DInv, BusOK
<1>2. LastStatus' /\ LastAgent'
  BY DEF DInv, LastStatus, LastAgent, EventsAbout, IsLast, SeedStatus, SeedAgent
<1>3. NoTransitionToldTwice'
  BY DEF DInv, NoTransitionToldTwice, EventsAbout
<1> QED BY <1>1, <1>2, <1>3

\* Handlers that await leave the bus alone; what they write they hold in hand,
\* and no two of them on a ticket that stays undisturbed (HandlerStep).
LEMMA HandlerEffect ==
  ASSUME IInv, NEW r \in Requests, HandlerStep(r)
  PROVE  /\ [Next]_vars /\ UNCHANGED <<emitted, about, announced>>
         /\ disturbed \subseteq disturbed'
         /\ \A q \in Requests \ {r} :
              /\ pc'[q] = pc[q] /\ call'[q] = call[q]
              /\ previous'[q] = previous[q] /\ updated'[q] = updated[q]
         /\ \/ pc'[r] # "emit" /\ DOMAIN tickets' \subseteq DOMAIN tickets
            \/ /\ pc'[r] = "emit" /\ call'[r].op = "create"
               /\ call'[r].id = nextTicketId /\ nextTicketId \in TicketIds
               /\ DOMAIN tickets' = DOMAIN tickets \cup {nextTicketId}
               /\ tickets'[nextTicketId] = updated'[r]
               /\ updated'[r].customerId \in Customers
               /\ updated'[r].assignedAgentId = Null
            \/ /\ pc'[r] = "emit" /\ call'[r].op = "patch"
               /\ DOMAIN tickets' = DOMAIN tickets /\ call'[r].id \in DOMAIN tickets
               /\ tickets'[call'[r].id] = updated'[r]
               /\ call'[r].id \notin disturbed' =>
                    /\ Facts(tickets[call'[r].id]) = Facts(previous'[r])
                    /\ \A q \in Requests \ {r} : ~Pending(q, call'[r].id)
                    /\ ~Pending(r, call'[r].id)
<1>1. TypeOK /\ Carried(r)
  BY DEF IInv, AllCarried
<1>2. ASSUME NEW status \in Replies, Respond(r, status)
      PROVE  /\ pc'[r] # "emit"
             /\ \A q \in Requests \ {r} :
                  /\ pc'[q] = pc[q] /\ call'[q] = call[q]
                  /\ previous'[q] = previous[q] /\ updated'[q] = updated[q]
  BY <1>1, <1>2, RespondEffect
<1>3. ASSUME NEW err \in {"Forbidden", "NotFound", "P2025", "P2000", "P2003", "OutOfRange",
                          "Unreachable"},
             asyncHandler(r, err)
      PROVE  /\ pc'[r] # "emit"
             /\ \A q \in Requests \ {r} :
                  /\ pc'[q] = pc[q] /\ call'[q] = call[q]
                  /\ previous'[q] = previous[q] /\ updated'[q] = updated[q]
  BY <1>2, <1>3, FailEffect
<1>4. [Next]_vars /\ UNCHANGED busVars
  BY DEF HandlerStep, Next, Step
<1>5. UNCHANGED <<emitted, about>>
  BY <1>4 DEF busVars
<1>6. CASE Receive(r)
  <2>1. UNCHANGED <<tickets, announced, disturbed>>
    BY <1>6 DEF Receive, tables, ghosts
  <2>2. CASE asyncHandler(r, "Forbidden")
    BY <1>3, <1>4, <1>5, <2>1, <2>2
  <2>3. CASE ~asyncHandler(r, "Forbidden")
    <3>1. PICK c \in TicketCalls :
            /\ pc' = [pc EXCEPT ![r] = IF c.op = "create" THEN "create" ELSE "lookup"]
            /\ call' = [call EXCEPT ![r] = c]
            /\ UNCHANGED <<previous, updated>>
      BY <1>6, <2>3 DEF Receive
    <3> QED BY <1>1, <1>4, <1>5, <2>1, <3>1 DEF TypeOK
  <2> QED BY <2>2, <2>3
<1>7. CASE Lookup(r)
  <2>1. UNCHANGED <<tickets, announced, disturbed>>
    BY <1>7 DEF Lookup, tables, ghosts
  <2>2. CASE \/ asyncHandler(r, "OutOfRange") \/ asyncHandler(r, "NotFound")
             \/ Respond(r, 200)
    BY <1>2, <1>3, <1>4, <1>5, <2>1, <2>2 DEF Replies
  <2>3. CASE ~(\/ asyncHandler(r, "OutOfRange") \/ asyncHandler(r, "NotFound")
               \/ Respond(r, 200))
    <3>1. /\ pc[r] = "lookup" /\ call[r].op # "get"
          /\ pc' = [pc EXCEPT ![r] = call[r].op]
          /\ \E row : previous' = [previous EXCEPT ![r] = row]
          /\ UNCHANGED <<call, updated, reply>>
      BY <1>7, <2>3 DEF Lookup
    <3>2. call[r].op # "emit"
      BY <1>1, <3>1 DEF Carried, TicketCall
    <3> QED BY <1>1, <1>4, <1>5, <2>1, <3>1, <3>2 DEF TypeOK
  <2> QED BY <2>2, <2>3
<1>8. CASE CreateRow(r)
  <2>1. UNCHANGED <<announced, disturbed>>
    BY <1>8 DEF CreateRow, ghosts
  <2>2. CASE asyncHandler(r, "P2000") /\ UNCHANGED tickets
    BY <1>3, <1>4, <1>5, <2>1, <2>2
  <2>3. CASE ~(asyncHandler(r, "P2000") /\ UNCHANGED tickets)
    <3>1. PICK row : row = NewTicket(call[r].viewer)
      OBVIOUS
    <3>2. /\ pc[r] = "create" /\ tickets' = Insert(tickets, nextTicketId, row)
          /\ updated' = [updated EXCEPT ![r] = row]
          /\ call' = [call EXCEPT ![r].id = nextTicketId]
          /\ pc' = [pc EXCEPT ![r] = "emit"]
          /\ UNCHANGED <<previous, reply>>
      BY <1>8, <2>3, <3>1 DEF CreateRow
    <3>3. call[r] \in TicketCall /\ call[r].op = "create" /\ call[r].viewer \in Customers
      BY <1>1, <3>2 DEF Carried
    <3>4. row.customerId \in Customers /\ row.assignedAgentId = Null
      BY <3>1, <3>3 DEF NewTicket
    <3>5. call'[r].id = nextTicketId /\ call'[r].op = "create"
      BY <1>1, <3>2, <3>3 DEF TicketCall, TypeOK
    <3>6. /\ DOMAIN tickets' = DOMAIN tickets \cup {nextTicketId}
          /\ tickets'[nextTicketId] = row
      BY <3>2 DEF Insert
    <3>7. /\ pc'[r] = "emit" /\ updated'[r] = row
          /\ \A q \in Requests \ {r} :
               /\ pc'[q] = pc[q] /\ call'[q] = call[q]
               /\ previous'[q] = previous[q] /\ updated'[q] = updated[q]
      BY <1>1, <3>2 DEF TypeOK
    <3>8. nextTicketId \in TicketIds
      <4>1. IInv'
        BY <1>8, CreateRowStep
      <4> QED BY <3>5, <3>7, <4>1 DEF IInv, AllCarried, Carried
    <3> QED BY <1>4, <1>5, <2>1, <3>4, <3>5, <3>6, <3>7, <3>8
  <2> QED BY <2>2, <2>3
<1>9. CASE PatchRow(r)
  <2>1. PICK n, row : n = call[r].id /\ row = Patched(tickets[n], call[r].changes)
    OBVIOUS
  <2>2. CASE /\ \E error \in PatchErrors(call[r]) : asyncHandler(r, error)
             /\ UNCHANGED <<tickets, disturbed>>
    <3>1. PICK error \in PatchErrors(call[r]) : asyncHandler(r, error)
      BY <2>2
    <3>2. error \in {"P2025", "OutOfRange", "P2000", "P2003"}
      BY <3>1 DEF PatchErrors
    <3>3. UNCHANGED announced
      BY <1>9 DEF PatchRow
    <3> QED BY <1>3, <1>4, <1>5, <2>2, <3>1, <3>2, <3>3
  <2>3. CASE ~(/\ \E error \in PatchErrors(call[r]) : asyncHandler(r, error)
               /\ UNCHANGED <<tickets, disturbed>>)
    <3>1. /\ pc[r] = "patch" /\ PatchErrors(call[r]) = {}
          /\ tickets' = [tickets EXCEPT ![n] = row]
          /\ updated' = [updated EXCEPT ![r] = row]
          /\ pc' = [pc EXCEPT ![r] = "emit"]
          /\ disturbed' = IF \/ Facts(tickets[n]) # Facts(previous[r])
                             \/ AnnouncementPending(n, Requests \ {r})
                          THEN disturbed \cup {n} ELSE disturbed
          /\ UNCHANGED <<call, previous, reply, announced>>
      BY <1>9, <2>1, <2>3 DEF PatchRow
    <3>2. call[r].op = "patch" /\ n \in DOMAIN tickets
      BY <1>1, <2>1, <3>1, Errorless DEF Carried
    <3>3. /\ pc'[r] = "emit" /\ updated'[r] = row
          /\ \A q \in Requests \ {r} :
               /\ pc'[q] = pc[q] /\ call'[q] = call[q]
               /\ previous'[q] = previous[q] /\ updated'[q] = updated[q]
      BY <1>1, <3>1 DEF TypeOK
    <3>4. DOMAIN tickets' = DOMAIN tickets /\ tickets'[n] = row /\ disturbed \subseteq disturbed'
      BY <3>1, <3>2
    <3>5. n \notin disturbed' =>
            /\ Facts(tickets[n]) = Facts(previous[r])
            /\ \A q \in Requests \ {r} : ~Pending(q, n)
            /\ ~Pending(r, n)
      BY <3>1 DEF AnnouncementPending, Pending
    <3> QED BY <1>4, <1>5, <2>1, <3>1, <3>2, <3>3, <3>4, <3>5
  <2> QED BY <2>2, <2>3
<1>10. CASE DeleteRow(r)
  <2>1. UNCHANGED <<announced, disturbed>> /\ DOMAIN tickets' \subseteq DOMAIN tickets
    BY <1>10 DEF DeleteRow, ghosts, DeleteCommits, Delete, Restrict
  <2>2. asyncHandler(r, "P2025") \/ asyncHandler(r, "P2003") \/ Respond(r, 204)
    BY <1>10 DEF DeleteRow
  <2> QED BY <1>2, <1>3, <1>4, <1>5, <2>1, <2>2 DEF Replies
<1>11. CASE QueryFails(r)
  <2>1. /\ UNCHANGED announced /\ disturbed \subseteq disturbed'
        /\ DOMAIN tickets' \subseteq DOMAIN tickets /\ asyncHandler(r, "Unreachable")
    BY <1>11 DEF QueryFails, DeleteCommits, Delete, Restrict
  <2> QED BY <1>3, <1>4, <1>5, <2>1
<1> QED BY <1>6, <1>7, <1>8, <1>9, <1>10, <1>11 DEF HandlerStep

\* A write takes a row its request had read as it is now, with nothing outstanding,
\* or disturbs the ticket; a new row is one no event is about yet (CreateRow,
\* PatchRow).
LEMMA HandlerStepInv == ASSUME DInv, NEW r \in Requests, HandlerStep(r) PROVE DInv'
<1>0. /\ IInv /\ BusOK /\ CustomersKept /\ SolePending /\ StatusKnown /\ TypeOK /\ AllCarried
      /\ AnnouncementsKeepUp
  BY DEF DInv, IInv
<1> DEFINE Still == pc'[r] # "emit" /\ DOMAIN tickets' \subseteq DOMAIN tickets
           Created == /\ pc'[r] = "emit" /\ call'[r].op = "create"
                      /\ call'[r].id = nextTicketId
                      /\ tickets'[nextTicketId] = updated'[r]
                      /\ updated'[r].customerId \in Customers
                      /\ updated'[r].assignedAgentId = Null
           Wrote == /\ pc'[r] = "emit" /\ call'[r].op = "patch"
                    /\ DOMAIN tickets' = DOMAIN tickets /\ call'[r].id \in DOMAIN tickets
                    /\ tickets'[call'[r].id] = updated'[r]
                    /\ call'[r].id \notin disturbed' =>
                         /\ Facts(tickets[call'[r].id]) = Facts(previous'[r])
                         /\ \A q \in Requests \ {r} : ~Pending(q, call'[r].id)
                         /\ ~Pending(r, call'[r].id)
<1>1. /\ [Next]_vars /\ UNCHANGED <<emitted, about, announced>>
      /\ disturbed \subseteq disturbed'
      /\ \A q \in Requests \ {r} :
           /\ pc'[q] = pc[q] /\ call'[q] = call[q]
           /\ previous'[q] = previous[q] /\ updated'[q] = updated[q]
      /\ Still \/ Created \/ Wrote
  BY <1>0, HandlerEffect
<1>2. IInv' /\ TypeOK'
  BY <1>0, <1>1, NextInv DEF IInv
<1>3. nextTicketId \in Int /\ nextTicketId' \in Int /\ nextTicketId <= nextTicketId'
  BY <1>0, <1>1, <1>2, TableStep DEF TypeOK, StoreTypeOK
<1>4. BusOK' /\ LastStatus' /\ LastAgent' /\ NoTransitionToldTwice'
  BY <1>1, <1>3, BusFrame
<1>5. /\ \A id \in DOMAIN tickets : id \in TicketIds /\ id < nextTicketId
      /\ \A q \in Requests : pc[q] = "emit" => call[q].id < nextTicketId
      /\ \A n \in DOMAIN about : about[n].id < nextTicketId
      /\ ~(nextTicketId < nextTicketId)
  <2>1. \A id \in DOMAIN tickets : id \in TicketIds /\ id < nextTicketId
    BY <1>0 DEF TypeOK, StoreTypeOK, IsTable
  <2>2. \A q \in Requests : pc[q] = "emit" => call[q].id < nextTicketId
    BY <1>0 DEF AllCarried, Carried
  <2>3. \A n \in DOMAIN about : about[n].id < nextTicketId
    <3>1. DOMAIN about = DOMAIN emitted
      BY <1>0 DEF BusOK
    <3> QED BY <1>0, <3>1 DEF BusOK
  <2>4. ~(nextTicketId < nextTicketId)
    BY <1>3
  <2> QED BY <2>1, <2>2, <2>3, <2>4
<1>6. \A id \in DOMAIN tickets' :
        \/ id \in DOMAIN tickets /\ tickets'[id].customerId = tickets[id].customerId
        \/ id = nextTicketId /\ Created
  <2> SUFFICES ASSUME NEW id \in DOMAIN tickets'
               PROVE  \/ id \in DOMAIN tickets /\ tickets'[id].customerId = tickets[id].customerId
                      \/ id = nextTicketId /\ Created
    OBVIOUS
  <2>1. \/ id \in DOMAIN tickets /\ tickets'[id].customerId = tickets[id].customerId
        \/ id = nextTicketId
    BY <1>0, <1>1, TableStep
  <2>2. CASE id = nextTicketId /\ ~Created
    <3>1. DOMAIN tickets' \subseteq DOMAIN tickets
      BY <1>1, <2>2
    <3> QED BY <1>5, <2>2, <3>1
  <2> QED BY <2>1, <2>2
<1>7. \A id \in DOMAIN tickets' : tickets'[id].customerId \in Customers
  BY <1>0, <1>6 DEF CustomersKept
<1>8. CustomersKept'
  <2>1. ASSUME NEW q \in Requests, pc'[q] = "emit"
        PROVE  /\ updated'[q].customerId \in Customers
               /\ call'[q].op = "create" => updated'[q].assignedAgentId = Null
               /\ call'[q].id \in DOMAIN tickets' =>
                    tickets'[call'[q].id].customerId = updated'[q].customerId
    <3>1. CASE q = r
      <4>1. CASE Created
        BY <3>1, <4>1
      <4>2. CASE Wrote
        BY <1>7, <3>1, <4>2
      <4> QED BY <1>1, <2>1, <3>1, <4>1, <4>2
    <3>2. CASE q # r
      <4>1. pc[q] = "emit" /\ call'[q] = call[q] /\ updated'[q] = updated[q]
        BY <1>1, <2>1, <3>2
      <4>2. call[q].id # nextTicketId
        BY <1>5, <4>1
      <4> QED BY <1>0, <1>6, <4>1, <4>2 DEF CustomersKept
    <3> QED BY <3>1, <3>2
  <2>2. \A n \in DOMAIN about : about[n].id \in DOMAIN tickets' =>
          tickets'[about[n].id].customerId = about[n].ticket.customerId
    BY <1>0, <1>5, <1>6 DEF CustomersKept
  <2> QED BY <1>1, <1>7, <2>1, <2>2 DEF CustomersKept
<1>9. \A q \in Requests \ {r} : \A id : Pending(q, id)' => Pending(q, id) /\ id < nextTicketId
  BY <1>1, <1>5 DEF Pending
<1>10. \A q \in Requests \ {r} : \A id \in TicketIds \ disturbed' :
         ~(Pending(r, id)' /\ Pending(q, id)')
  <2> SUFFICES ASSUME NEW q \in Requests \ {r}, NEW id \in TicketIds \ disturbed',
                      Pending(r, id)', Pending(q, id)'
               PROVE  FALSE
    OBVIOUS
  <2>1. pc'[r] = "emit" /\ id = call'[r].id /\ Pending(q, id) /\ id < nextTicketId
    BY <1>9 DEF Pending
  <2>2. CASE Created
    BY <1>5, <2>1, <2>2
  <2>3. CASE Wrote
    BY <2>1, <2>3
  <2> QED BY <1>1, <2>1, <2>2, <2>3
<1>11. SolePending'
  <2> SUFFICES ASSUME NEW id \in TicketIds \ disturbed', NEW q \in Requests, NEW s \in Requests,
                      Pending(q, id)', Pending(s, id)'
               PROVE  q = s
    BY DEF SolePending
  <2>1. CASE q # r /\ s # r
    BY <1>0, <1>1, <1>9, <2>1 DEF SolePending
  <2> QED BY <1>10, <2>1
<1>12. StatusKnown'
  <2> SUFFICES ASSUME NEW id \in TicketIds \ disturbed', NEW q \in Requests, Pending(q, id)'
               PROVE  /\ call'[q].op = "create" => \A n \in DOMAIN about' : about'[n].id # id
                      /\ call'[q].op = "patch" => announced'[id].status = previous'[q].status
    BY DEF StatusKnown
  <2>1. CASE q # r
    <3>1. Pending(q, id) /\ call'[q] = call[q] /\ previous'[q] = previous[q]
      BY <1>1, <1>9, <2>1
    <3> QED BY <1>0, <1>1, <3>1 DEF StatusKnown
  <2>2. CASE q = r
    <3>1. pc'[r] = "emit" /\ id = call'[r].id
      BY <2>2 DEF Pending
    <3>2. CASE Created
      BY <1>1, <1>5, <2>2, <3>1, <3>2
    <3>3. CASE Wrote
      <4>1. /\ id \in DOMAIN tickets \ disturbed /\ Facts(tickets[id]) = Facts(previous'[r])
            /\ \A s \in Requests : ~Pending(s, id)
        BY <1>1, <3>1, <3>3
      <4>2. Quiet(id)
        BY <4>1 DEF Quiet, AnnouncementPending, Pending
      <4>3. announced[id].status = tickets[id].status
        BY <1>0, <4>1, <4>2 DEF AnnouncementsKeepUp, ListenersKnow
      <4>4. tickets[id].status = previous'[r].status
        BY <4>1 DEF Facts
      <4> QED BY <1>1, <2>2, <3>3, <4>3, <4>4
    <3> QED BY <1>1, <3>1, <3>2, <3>3
  <2> QED BY <2>1, <2>2
<1> QED BY <1>2, <1>4, <1>8, <1>11, <1>12 DEF DInv

\* A crash takes every request with it and keeps the rows and events.
LEMMA DiesInv == ASSUME DInv, ProcessDies PROVE DInv'
<1>1. /\ IInv /\ TypeOK /\ Crash /\ pc' = [q \in Requests |-> "idle"]
      /\ UNCHANGED <<tickets, nextTicketId, announced, emitted, about>>
      /\ disturbed \subseteq disturbed'
  BY DEF DInv, IInv, ProcessDies, Crash, N!Crash, tables
<1>2. IInv'
  BY <1>1, CrashStep
<1>3. BusOK' /\ LastStatus' /\ LastAgent' /\ NoTransitionToldTwice'
  BY <1>1, BusFrame DEF TypeOK, StoreTypeOK
<1>4. \A q \in Requests : pc'[q] # "emit"
  BY <1>1
<1>5. CustomersKept' /\ SolePending' /\ StatusKnown'
  BY <1>1, <1>4 DEF DInv, CustomersKept, SolePending, StatusKnown, Pending
<1> QED BY <1>2, <1>3, <1>5 DEF DInv

\* What listeners do is nothing to requests, rows and the list of events.
LEMMA ListenerInv ==
  ASSUME DInv, UNCHANGED <<vars, emitted, about>>
  PROVE  DInv'
<1>1. /\ UNCHANGED <<pc, call, previous, updated, tickets, nextTicketId, announced, disturbed>>
      /\ UNCHANGED <<emitted, about, vars>> /\ IInv /\ TypeOK
  BY DEF DInv, IInv, vars, tables, requestVars, ghosts
<1>2. IInv'
  BY <1>1, StutterStep
<1>3. BusOK' /\ LastStatus' /\ LastAgent' /\ NoTransitionToldTwice'
  BY <1>1, BusFrame DEF TypeOK, StoreTypeOK
<1>4. CustomersKept' /\ SolePending' /\ StatusKnown'
  BY <1>1 DEF DInv, CustomersKept, SolePending, StatusKnown, Pending
<1> QED BY <1>2, <1>3, <1>4 DEF DInv

\* Every step preserves the inductive invariant.
LEMMA DeliveryStepInv == ASSUME DInv, [DeliveryNext]_deliveryVars PROVE DInv'
<1>1. ASSUME NEW r \in Requests, EmitAndRespond(r) PROVE DInv'
  BY <1>1, EmitAndRespondStep
<1>2. ASSUME NEW r \in Requests, HandlerStep(r) PROVE DInv'
  BY <1>2, HandlerStepInv
<1>3. ASSUME NEW t \in tasks, ListenerStep(t) \/ ListenerFails(t) PROVE DInv'
  BY <1>3, ListenerInv DEF ListenerStep, ListenerFails, N!TaskStep, N!TaskFails
<1>4. ASSUME UNCHANGED deliveryVars PROVE DInv'
  BY <1>4, ListenerInv DEF deliveryVars, busVars
<1> QED BY <1>1, <1>2, <1>3, <1>4, DiesInv DEF DeliveryNext

LEMMA DeliveryInvariance == DeliverySpec => []DInv
<1> QED BY DeliveryInitInv, DeliveryStepInv, PTL DEF DeliverySpec

\* No ticket is announced in one status twice in a row, for any requests and
\* tickets, deleted or not (the second condition of updateTicket).
THEOREM ToldOnce == DeliverySpec => []NoTransitionToldTwice
<1>1. DInv => NoTransitionToldTwice
  BY DEF DInv
<1> QED BY <1>1, DeliveryInvariance, PTL
-----------------------------------------------------------------------------
\* Delivery meets the assumption of Notify: its events are the three of the
\* ticket service.
LEMMA PayloadsAreEvents == P!EventAssumption
<1>1. Payloads \subseteq P!Event
  BY DEF Payloads, P!Event, P!User, User
<1>2. \A e \in Payloads : /\ e.name = "created" => e.assignedAgentId = Null
                          /\ e.name = "assigned" => e.assignedAgentId # Null
  BY UserAssumption DEF Payloads
<1> QED BY <1>1, <1>2, UserAssumption, DeliveryAssumption, CallAssumption
    DEF P!EventAssumption, P!User, User

\* Seen from Notify, a handler's burst is emit(), and everything a handler does
\* otherwise is nothing (EmitAndRespond, HandlerStep).
LEMMA FeedStep ==
  ASSUME DInv, [DeliveryNext]_deliveryVars
  PROVE  [N!NotifyNext]_(N!notifyVars)
<1>1. ASSUME NEW r \in Requests, EmitAndRespond(r)
      PROVE  [N!NotifyNext]_(N!notifyVars)
  <2>1. /\ N!EmitAll(EventsOf(r)) /\ EventsOf(r) \in Seq(Payloads)
        /\ EventsOf(r) # <<>> => EventsOf(r) \in P!Bursts
    BY <1>1, EventsFit DEF DInv, EmitAndRespond
  <2>2. CASE EventsOf(r) # <<>>
    <3>1. EventsOf(r) \in N!Bursts
      BY <2>1, <2>2 DEF P!Bursts, N!Bursts
    <3> QED BY <2>1, <3>1 DEF N!NotifyNext
  <2>3. CASE EventsOf(r) = <<>>
    <3>1. /\ emitted' = emitted \o <<>>
          /\ tasks' = tasks \cup UNION {N!TasksOf(Len(emitted) + i, <<>>[i]) : i \in DOMAIN <<>>}
          /\ UNCHANGED <<rows, mails, taskFaults, crashes, failures, lost>>
      BY <2>1, <2>3 DEF N!EmitAll
    <3>2. emitted' = emitted
      BY <3>1 DEF DInv, BusOK
    <3>3. tasks' = tasks
      <4>1. DOMAIN <<>> = {}
        OBVIOUS
      <4> QED BY <3>1, <4>1
    <3> QED BY <3>1, <3>2, <3>3 DEF N!notifyVars
  <2> QED BY <2>2, <2>3
<1>2. ASSUME NEW r \in Requests, HandlerStep(r) PROVE [N!NotifyNext]_(N!notifyVars)
  <2>1. UNCHANGED busVars /\ UNCHANGED crashes
    BY <1>2 DEF HandlerStep, Receive, Lookup, CreateRow, PatchRow, DeleteRow, QueryFails,
                mishaps
  <2> QED BY <2>1 DEF busVars, N!notifyVars
<1>3. ASSUME NEW t \in tasks, ListenerStep(t) \/ ListenerFails(t)
      PROVE  [N!NotifyNext]_(N!notifyVars)
  BY <1>3 DEF ListenerStep, ListenerFails, N!NotifyNext
<1>4. ASSUME ProcessDies PROVE [N!NotifyNext]_(N!notifyVars)
  BY <1>4 DEF ProcessDies, N!NotifyNext
<1>5. ASSUME UNCHANGED deliveryVars PROVE [N!NotifyNext]_(N!notifyVars)
  BY <1>5 DEF deliveryVars, busVars, vars, mishaps, N!notifyVars
<1> QED BY <1>1, <1>2, <1>3, <1>4, <1>5 DEF DeliveryNext

\* Nothing is on the bus at first.
LEMMA FeedInit == DeliveryInit => N!NotifyInit
<1> SUFFICES ASSUME DeliveryInit PROVE N!NotifyInit
  OBVIOUS
<1>1. /\ emitted = <<>> /\ tasks = {} /\ rows = {} /\ mails = {}
      /\ taskFaults = 0 /\ crashes = 0 /\ failures = {} /\ lost = {}
  BY DEF DeliveryInit, Init
<1>2. \A f : <<>> = [s \in {} |-> f]
  OBVIOUS
<1> QED BY <1>1, <1>2 DEF N!NotifyInit

\* The ticket endpoints keep to what Notify assumes of the bus, for any requests
\* and bodies: never an assignment to nobody, a new ticket with an agent, or two
\* events at once other than the two of one PATCH (createTicket, updateTicket).
THEOREM NotifyFed == DeliverySpec => TicketsFeedNotify
<1>1. DInv /\ [DeliveryNext]_deliveryVars => [N!NotifyNext]_(N!notifyVars)
  BY FeedStep
<1> QED BY <1>1, FeedInit, DeliveryInvariance, PTL DEF DeliverySpec, TicketsFeedNotify
-----------------------------------------------------------------------------
\* The two instances of Notify, with and without its theorems, are one.
LEMMA SameListeners ==
  /\ N!NotifyInit => P!NotifyInit
  /\ [N!NotifyNext]_(N!notifyVars) => [P!NotifyNext]_(P!notifyVars)
<1>1. N!NotifyInit => P!NotifyInit
  BY DEF N!NotifyInit, P!NotifyInit
<1>2. N!Bursts = P!Bursts /\ N!User = P!User
  BY DEF N!Bursts, P!Bursts, N!User, P!User
<1>3. ASSUME NEW e
      PROVE  /\ N!Process(e) = P!Process(e) /\ N!HasSockets(e) = P!HasSockets(e)
             /\ N!RowsFor(e) = P!RowsFor(e) /\ N!MailsFor(e) = P!MailsFor(e)
             /\ N!QueriesUsers(e) = P!QueriesUsers(e)
  BY DEF N!Process, P!Process, N!HasSockets, P!HasSockets, N!RowsFor, P!RowsFor,
         N!MailsFor, P!MailsFor, N!UnassignedBreach, P!UnassignedBreach,
         N!Assignee, P!Assignee, N!QueriesUsers, P!QueriesUsers
<1>4. ASSUME NEW n, NEW e PROVE N!TasksOf(n, e) = P!TasksOf(n, e)
  BY <1>3 DEF N!TasksOf, P!TasksOf
<1>5. ASSUME NEW burst, N!EmitAll(burst) PROVE P!EmitAll(burst)
  <2>1. \A f, g : [s \in {} |-> f] = [s \in {} |-> g]
    OBVIOUS
  <2> QED BY <1>4, <1>5, <2>1 DEF N!EmitAll, P!EmitAll
<1>6. ASSUME NEW t
      PROVE  /\ N!TaskStep(t) => P!TaskStep(t)
             /\ N!TaskFails(t) => P!TaskFails(t)
  BY DEF N!TaskStep, P!TaskStep, N!TaskFails, P!TaskFails, N!FindUsers, P!FindUsers,
         N!RowsRefused, P!RowsRefused, N!Delivered, P!Delivered, N!Caught, P!Caught,
         N!RowsOf, P!RowsOf, N!MailsOf, P!MailsOf
<1>7. ASSUME NEW process, N!Crash(process) PROVE P!Crash(process)
  BY <1>3, <1>7 DEF N!Crash, P!Crash, N!Closed, P!Closed
<1>8. ASSUME N!NotifyNext PROVE P!NotifyNext
  BY <1>2, <1>5, <1>6, <1>7, <1>8 DEF N!NotifyNext, P!NotifyNext
<1>9. UNCHANGED N!notifyVars => UNCHANGED P!notifyVars
  BY DEF N!notifyVars, P!notifyVars
<1> QED BY <1>1, <1>8, <1>9

\* What NotifyProofs shows of the listeners holds behind the ticket endpoints:
\* unless the process dies, whoever is to have a row for an event has it, or it
\* is under way, or the in-app listener failed (ChannelsIsolated).
THEOREM ListenersIsolated == DeliverySpec => []P!ChannelsIsolated
<1>1. DInv /\ [DeliveryNext]_deliveryVars => [P!NotifyNext]_(P!notifyVars)
  BY FeedStep, SameListeners
<1>2. DeliveryInit => P!NotifyInit
  BY FeedInit, SameListeners
<1>3. DeliverySpec => P!NotifySpec
  BY <1>1, <1>2, DeliveryInvariance, PTL DEF DeliverySpec, P!NotifySpec
<1> QED BY <1>3, PayloadsAreEvents, P!Isolation, PTL

LEMMA RowsReach ==
  ASSUME DInv, P!ChannelsIsolated, NEW n \in DOMAIN emitted,
         NEW user \in P!RowsFor(emitted[n])
  PROVE  Notified(n, user)
<1>1. n \in P!Emitted
  BY DEF DInv, BusOK, P!Emitted
<1>2. \/ n \in lost
      \/ \E t \in tasks \cup failures : t.event = n /\ t.step \in P!InApp
      \/ {n} \X P!RowsFor(emitted[n]) \subseteq rows
  BY <1>1 DEF P!ChannelsIsolated, P!InFlight, P!Failed
<1>3. <<n, user>> \in {n} \X P!RowsFor(emitted[n])
  OBVIOUS
<1> QED BY <1>2, <1>3 DEF Notified, P!InApp

\* The last ticket.assigned names the agent of the row, and that agent is notified
\* (updateTicket, notifyInApp).
THEOREM AgentTold == DeliverySpec => []AgentNotified
<1>1. DInv /\ P!ChannelsIsolated => AgentNotified
  <2> SUFFICES ASSUME DInv, P!ChannelsIsolated, NEW id \in DOMAIN tickets \ disturbed,
                      Quiet(id), tickets[id].assignedAgentId # Null
               PROVE  \/ /\ EventsAbout(id, {"assigned"}) = {} /\ id \in DOMAIN SeedTickets
                         /\ tickets[id].assignedAgentId = SeedTickets[id].assignedAgentId
                      \/ \E n \in DOMAIN emitted : /\ IsLast(n, id, {"assigned"})
                           /\ Notified(n, tickets[id].assignedAgentId)
    BY DEF AgentNotified
  <2>1. /\ id \in TicketIds \ disturbed
        /\ tickets[id].assignedAgentId = announced[id].assignedAgentId
    BY DEF DInv, IInv, TypeOK, StoreTypeOK, IsTable, AnnouncementsKeepUp, ListenersKnow
  <2>2. CASE /\ EventsAbout(id, {"assigned"}) = {}
             /\ announced[id].assignedAgentId \in {Null, SeedAgent(id)}
    BY <2>1, <2>2 DEF SeedAgent
  <2>3. CASE \E n \in DOMAIN emitted : IsLast(n, id, {"assigned"})
               /\ announced[id].assignedAgentId = about[n].ticket.assignedAgentId
    <3>1. PICK n \in DOMAIN emitted : IsLast(n, id, {"assigned"})
            /\ announced[id].assignedAgentId = about[n].ticket.assignedAgentId
      BY <2>3
    <3>2. /\ emitted[n].name = "assigned"
          /\ emitted[n].assignedAgentId = tickets[id].assignedAgentId
      BY <2>1, <3>1 DEF IsLast, EventsAbout, DInv, BusOK
    <3>3. tickets[id].assignedAgentId \in P!RowsFor(emitted[n])
      BY <3>2 DEF P!RowsFor, P!Assignee, P!UnassignedBreach
    <3> QED BY <3>1, <3>3, RowsReach
  <2> QED BY <2>1, <2>2, <2>3 DEF DInv, LastAgent
<1> QED BY <1>1, DeliveryInvariance, ListenersIsolated, PTL

\* The last event about the status of an undisturbed ticket to be put on the bus
\* says what the status is now, and a notification of it is made for the customer
\* of the row, or went down on the way; the order in which rows are stored is not
\* spoken of (updateTicket, notifyInApp).
THEOREM CustomerTold == DeliverySpec => []LastStatusReachesCustomer
<1>1. DInv /\ P!ChannelsIsolated => LastStatusReachesCustomer
  <2> SUFFICES ASSUME DInv, P!ChannelsIsolated, NEW id \in DOMAIN tickets \ disturbed,
                      Quiet(id)
               PROVE  \/ /\ EventsAbout(id, StatusEvents) = {} /\ id \in DOMAIN SeedTickets
                         /\ tickets[id].status = SeedTickets[id].status
                      \/ \E n \in DOMAIN emitted :
                           /\ IsLast(n, id, StatusEvents)
                           /\ about[n].ticket.status = tickets[id].status
                           /\ Notified(n, tickets[id].customerId)
    BY DEF LastStatusReachesCustomer
  <2>1. /\ id \in TicketIds /\ tickets[id] \in Ticket
        /\ announced[id].status = tickets[id].status
    BY DEF DInv, IInv, TypeOK, StoreTypeOK, IsTable, AnnouncementsKeepUp, ListenersKnow
  <2>2. tickets[id].status # Null
    BY <2>1, DeliveryAssumption DEF Ticket
  <2>3. CASE /\ EventsAbout(id, StatusEvents) = {}
             /\ announced[id].status = SeedStatus(id)
    BY <2>1, <2>2, <2>3 DEF SeedStatus
  <2>4. CASE \E n \in DOMAIN emitted : IsLast(n, id, StatusEvents)
               /\ announced[id].status = about[n].ticket.status
    <3>1. PICK n \in DOMAIN emitted : IsLast(n, id, StatusEvents)
            /\ announced[id].status = about[n].ticket.status
      BY <2>4
    <3>2. about[n].id = id /\ emitted[n].name \in StatusEvents /\ n \in DOMAIN about
      BY <3>1 DEF IsLast, EventsAbout, DInv, BusOK
    <3>3. emitted[n].customerId = tickets[id].customerId
      BY <3>2 DEF DInv, BusOK, CustomersKept
    <3>4. tickets[id].customerId \in P!RowsFor(emitted[n])
      <4>1. CASE emitted[n].name = "created"
        BY <3>3, <4>1 DEF P!RowsFor, P!UnassignedBreach, P!Assignee
      <4>2. CASE emitted[n].name = "status_changed"
        BY <3>3, <4>2 DEF P!RowsFor, P!UnassignedBreach, P!Assignee
      <4> QED BY <3>2, <4>1, <4>2 DEF StatusEvents
    <3> QED BY <2>1, <3>1, <3>4, RowsReach
  <2> QED BY <2>1, <2>3, <2>4 DEF DInv, LastStatus
<1> QED BY <1>1, DeliveryInvariance, ListenersIsolated, PTL
=============================================================================
