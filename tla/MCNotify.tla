------------------------------ MODULE MCNotify ------------------------------
(* Small instances of Notify for TLC. *)
EXTENDS Notify

CONSTANTS c1, c2, a1, m1, s1

MCCustomers == {c1, c2}
MCAgents == {a1}
MCAdmins == {m1}

Payload(name, agent, to, long) ==
  [name |-> name, customerId |-> c1, assignedAgentId |-> agent,
   recipients |-> to, longSubject |-> long]

\* One event of each kind, a comment with two recipients, and a subject that is
\* too long for a message.
MCEvents ==
  {Payload("created", Null, {}, long) : long \in BOOLEAN}
  \cup {Payload("assigned", a1, {}, FALSE), Payload("commented", a1, {c1, c2}, FALSE),
        Payload("commented", a1, {}, FALSE), Payload("status_changed", a1, {}, FALSE)}
  \cup {Payload("sla_breached", agent, {}, FALSE) : agent \in {Null, a1}}
=============================================================================
