---------------------------- MODULE MCTicketList ----------------------------
(* Small instances of TicketList for TLC. *)
EXTENDS TicketList

CONSTANTS c1, a1, a2, m1, r1, d1

MCCustomers == {c1}
MCAgents == {a1, a2}
MCAdmins == {m1}

Row(agent, st) == [customerId |-> c1, assignedAgentId |-> agent,
                   status |-> st, breached |-> FALSE]
\* Three rows of which agent a1 sees two; two of them tie on their status.
SeedThree == <<Row(Null, "open"), Row(a2, "resolved"), Row(a1, "open")>>
NoRows == <<>>
NoLinks == {}

Body(st, agent) == [status |-> st, assignedAgentId |-> agent]
Patch(id, body) == [op |-> "patch", viewer |-> m1, id |-> id, changes |-> body,
                    fits |-> TRUE]

\* Tickets are created, enter and leave the agent's scope and the filter.
MCWrites ==
  {[op |-> "create", viewer |-> c1, id |-> Null, changes |-> NoChanges, fits |-> TRUE],
   Patch(2, Body(Undefined, a1)), Patch(3, Body("closed", a2))}

\* As the seed does it, rows backdated under the higher ids: two of them to one
\* moment, or to two, with a new ticket in the same millisecond as an old one.
MCCreatedAts == {<<2, 1, 1, 3>>, <<3, 1, 2, 3>>}

\* The agent's list, filtered and not, page by page and row by row, and the
\* admin's, sorted by status.
MCQueries ==
  [viewer : {a1}, status : {Undefined}, sortBy : {"createdAt"},
   order : {"asc", "desc"}, pageSize : {1, 2}]
  \cup [viewer : {a1}, status : {"open"}, sortBy : {"createdAt"},
        order : {"desc"}, pageSize : {1}]
  \cup [viewer : {m1}, status : {Undefined}, sortBy : {"status"},
        order : {"asc"}, pageSize : {2}]
=============================================================================
