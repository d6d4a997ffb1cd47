----------------------------- MODULE MCTickets -----------------------------
(* Small instances of Tickets for TLC. *)
EXTENDS Tickets, TLC

CONSTANTS c1, a1, a2, m1, nobody, r1, r2

MCCustomers == {c1}
MCAgents == {a1, a2}
MCAdmins == {m1}
MCStrangers == {nobody}

Row(agent, st) == [customerId |-> c1, assignedAgentId |-> agent,
                   status |-> st, breached |-> FALSE]

\* One ticket in the unassigned queue.
SeedOne == <<Row(Null, "open")>>
\* The second one has a comment and cannot be deleted.
SeedTwo == <<Row(Null, "open"), Row(a1, "open")>>
CommentOnTwo == <<[ticketId |-> 2, authorId |-> c1, edited |-> FALSE]>>
NoSeedComments == <<>>
NoLinks == {}

Body(st, agent) == [status |-> st, assignedAgentId |-> agent]

Calls(ops, viewers, ids, bodies) ==
       [op : ops \cap {"get", "delete"}, viewer : viewers, id : ids,
        changes : {NoChanges}, fits : {TRUE}]
  \cup [op : ops \cap {"patch"}, viewer : viewers, id : ids, changes : bodies,
        fits : {TRUE}]
  \cup [op : ops \cap {"create"}, viewer : viewers, id : {Null},
        changes : {NoChanges}, fits : {TRUE}]

\* A new ticket and a PATCH with a subject that is too long for its column.
LongSubjects ==
  {[op |-> "create", viewer |-> c1, id |-> Null, changes |-> NoChanges, fits |-> FALSE],
   [op |-> "patch", viewer |-> m1, id |-> 1, changes |-> NoChanges, fits |-> FALSE]}

\* Ids and an assignee that no column has room for.
HugeNumbers == Calls({"get", "patch"}, {m1}, {TooBig}, {NoChanges})
               \cup Calls({"patch"}, {m1}, {1}, {Body(Undefined, TooBig)})

\* Every operation: the first ticket is patched, the second one has a comment and
\* cannot be deleted, the third one is created, patched and deleted.
LifecycleCalls ==
  LongSubjects \cup HugeNumbers
  \cup Calls({"create"}, {c1, m1}, {}, {}) \cup Calls({"get"}, {c1}, {1, 3}, {})
  \cup Calls({"delete"}, {m1}, {2, 3}, {})
  \cup Calls({"patch"}, {m1}, {1}, {Body("resolved", a1), NoChanges})
  \cup Calls({"patch"}, {m1}, {3}, {Body("resolved", a1), Body(Undefined, nobody)})

\* What agents and an admin can do to one ticket at once: assign, re-assign,
\* un-assign, move the status, patch something else, delete; a customer tries.
WriterBodies == {Body(Undefined, a1), Body(Undefined, a2), Body(Undefined, Null),
                 Body("resolved", Undefined), Body("open", Undefined), NoChanges}
WriterCalls == Calls({"patch", "delete"}, {a1, m1}, {1}, WriterBodies)
               \cup Calls({"patch", "delete"}, {c1}, {1}, {NoChanges})

RequestSymmetry == Permutations({r1, r2})
=============================================================================
