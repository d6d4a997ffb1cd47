----------------------------- MODULE MCComments -----------------------------
(* Small instances of Comments for TLC. *)
EXTENDS Comments

CONSTANTS c1, c2, a1, m1, r1, q1, q2

MCCustomers == {c1, c2}
MCAgents == {a1}
MCAdmins == {m1}

Row(customer) == [customerId |-> customer, assignedAgentId |-> Null,
                  status |-> "open", breached |-> FALSE]
SeedTwo == <<Row(c1), Row(c2)>>
\* Watched tickets cannot be deleted; nobody watches the first one.
MCWatchers == {<<2, c1>>}
CommentOnTwo == <<[ticketId |-> 2, authorId |-> c2, edited |-> FALSE]>>
NoLinks == {}

DeleteCalls == [op : {"delete"}, viewer : {m1}, id : {1},
                changes : {NoChanges}, fits : {TRUE}]

LongBody(op, id) == [op |-> op, viewer |-> c1, ticketId |-> 1, id |-> id,
                     fits |-> FALSE]

On(op, viewers, id) == [op : {op}, viewer : viewers, ticketId : {1}, id : {id},
                        fits : {TRUE}]

\* Writing on ticket 1, while somebody deletes it; every other operation on
\* the comment it gets, and on the seeded one through the wrong ticket.
MCCommentCalls ==
       On("create", {c1, a1}, Null)
  \cup [op : {"list"}, viewer : {c2}, ticketId : {2}, id : {Null}, fits : {TRUE}]
  \cup On("get", {m1}, 2) \cup On("patch", {m1}, 1)
  \cup On("patch", {c1}, 2) \cup On("delete", {m1}, 2)
  \cup {LongBody("create", Null), LongBody("patch", 2)}
  \cup On("get", {c1}, TooBig)
  \cup [op : {"list"}, viewer : {c2}, ticketId : {TooBig}, id : {Null}, fits : {TRUE}]
=============================================================================
