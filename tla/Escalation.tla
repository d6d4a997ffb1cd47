----------------------------- MODULE Escalation -----------------------------
(***************************************************************************)
(* What the SLA scan promises, without queue, workers, retries or tables:  *)
(* a ticket is noticed at most once, whoever notices it owes listeners one *)
(* ticket.sla_breached, and that debt is settled in the end: the event is  *)
(* emitted, or a failure takes it away for good.                           *)
(***************************************************************************)
EXTENDS Naturals

CONSTANT TicketIds

VARIABLES
  noticed,   \* the tickets ever found overdue and marked
  owed,      \* those whose event is still to come
  told,      \* the events emitted for each ticket
  lost       \* those whose event will never come

escalationVars == <<noticed, owed, told, lost>>

Init ==
  /\ noticed = {} /\ owed = {} /\ lost = {}
  /\ told = [id \in TicketIds |-> 0]

Notice(id) ==
  /\ id \notin noticed
  /\ noticed' = noticed \cup {id}
  /\ owed' = owed \cup {id}
  /\ UNCHANGED <<told, lost>>

Tell(id) ==
  /\ id \in owed
  /\ owed' = owed \ {id}
  /\ told' = [told EXCEPT ![id] = @ + 1]
  /\ UNCHANGED <<noticed, lost>>

Lose(id) ==
  /\ id \in owed
  /\ owed' = owed \ {id}
  /\ lost' = lost \cup {id}
  /\ UNCHANGED <<noticed, told>>

Settle(id) == Tell(id) \/ Lose(id)

Next == \E id \in TicketIds : Notice(id) \/ Settle(id)

SafeSpec == Init /\ [][Next]_escalationVars
Spec == SafeSpec /\ \A id \in TicketIds : WF_escalationVars(Settle(id))
=============================================================================
