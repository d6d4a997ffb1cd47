----------------------------- MODULE MCSlaScan -----------------------------
(* Small instances of SlaScan for TLC. *)
EXTENDS SlaScan, TLC

CONSTANTS c1, a1, m1, r1, w1

MCCustomers == {c1}
MCAgents == {a1}
MCAdmins == {m1}
NoLinks == {}
NoSeedComments == <<>>

Row(agent) == [customerId |-> c1, assignedAgentId |-> agent,
               status |-> "open", breached |-> FALSE]
Marked == [Row(a1) EXCEPT !.breached = TRUE]
\* Two tickets to escalate, and one that an earlier worker has seen to.
SeedThree == <<Row(Null), Row(a1), Marked>>

Body(st) == [status |-> st, assignedAgentId |-> Undefined]

\* While the scan runs, a ticket is resolved and re-opened, and it can be
\* deleted.
MCTicketCalls ==
       [op : {"patch"}, viewer : {m1}, id : {1},
        changes : {Body("resolved"), Body("open")}, fits : {TRUE}]
  \cup [op : {"delete"}, viewer : {m1}, id : {1}, changes : {NoChanges},
        fits : {TRUE}]
=============================================================================
