----------------------------- MODULE MCDelivery -----------------------------
(* A small instance of Delivery for TLC. *)
EXTENDS Delivery

CONSTANTS c1, a1, a2, m1, nobody, r1, r2

MCCustomers == {c1}
MCAgents == {a1, a2}
MCAdmins == {m1}
MCStrangers == {nobody}

\* One ticket in the unassigned queue; the next one has a subject no message has
\* room for.
SeedOne == <<[customerId |-> c1, assignedAgentId |-> Null, status |-> "open",
              breached |-> FALSE]>>
Empty == <<>>
NoLinks == {}
MCWordy == {2}

Body(st, agent) == [status |-> st, assignedAgentId |-> agent]
Patch(id, body) ==
  [op |-> "patch", viewer |-> m1, id |-> id, changes |-> body, fits |-> TRUE]

\* An admin resolves the first ticket and gives it to one agent, or re-opens it
\* and gives it to the other; the customer opens a second one.
MCCalls ==
  {Patch(1, Body("resolved", a1)), Patch(1, Body("open", a2))}
  \cup {[op |-> "create", viewer |-> c1, id |-> Null, changes |-> NoChanges,
         fits |-> TRUE]}
=============================================================================
