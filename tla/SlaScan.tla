------------------------------ MODULE SlaScan ------------------------------
(***************************************************************************)
(* The SLA scan: a repeatable BullMQ job that a worker process, apart from *)
(* the API, takes from Redis and that runs escalateOverdueTickets over the *)
(* tables the ticket requests of Tickets keep changing.                    *)
(*                                                                         *)
(* BullMQ is external and modelled from how jobs/slaScan.queue.js and      *)
(* worker.js use it: the job scheduler always keeps one scan pending once  *)
(* the API has registered it, a job that throws is retried until its third *)
(* attempt, and the job of a worker that dies is put back or given up.     *)
(***************************************************************************)
EXTENDS Tickets

CONSTANTS
  Workers,           \* worker processes on the queue, one job each at a time
  Attempts,          \* opts.attempts of the scheduled job
  MaxWorkerCrashes   \* bound: crashes of worker processes

ASSUME ScanAssumption ==
  Attempts \in Nat \ {0} /\ MaxWorkerCrashes \in Nat /\ IsFiniteSet(Workers)

VARIABLES
  scheduled,      \* the job scheduler exists, so a scan is always pending
  retries,        \* retries[k]: jobs waiting to run again after k attempts
  wpc, attempt,   \* where each worker is, and the attempt it is making
  overdue,        \* the ids its query found and its loop has yet to reach
  breachedRow,    \* the row its last update returned, with its id
  aged,           \* the tickets created before the cutoff
  workerCrashes,
  escalations,    \* ghost: ticket.sla_breached events per ticket
  silenced        \* ghost: tickets whose event a failure took away

queueVars == <<scheduled, retries>>
scanVars == <<wpc, attempt, overdue, breachedRow>>
scanGhosts == <<escalations, silenced>>
workerVars == <<queueVars, scanVars, aged, workerCrashes, scanGhosts>>
systemVars == <<vars, workerVars>>
-----------------------------------------------------------------------------
SlaTypeOK ==
  /\ TypeOK
  /\ scheduled \in BOOLEAN
  /\ retries \in [0..(Attempts - 1) -> Nat]
  /\ wpc \in [Workers -> {"idle", "query", "mark", "emit"}]
  /\ attempt \in [Workers -> 0..Attempts]
  /\ overdue \in [Workers -> SUBSET TicketIds]
  /\ breachedRow \in [Workers -> TicketIds \cup {Null}]
  /\ aged \subseteq TicketIds
  /\ workerCrashes \in 0..MaxWorkerCrashes
  /\ escalations \in [TicketIds -> Nat]
  /\ silenced \subseteq TicketIds

SlaInit ==
  /\ Init
  /\ scheduled = FALSE /\ retries = [k \in 0..(Attempts - 1) |-> 0]
  /\ wpc = [w \in Workers |-> "idle"] /\ attempt = [w \in Workers |-> 0]
  /\ overdue = [w \in Workers |-> {}]
  /\ breachedRow = [w \in Workers |-> Null]
  /\ aged = {} /\ workerCrashes = 0
  /\ escalations = [id \in TicketIds |-> 0] /\ silenced = {}
-----------------------------------------------------------------------------
\* A ticket's createdAt falls behind the cutoff, SLA_BREACH_HOURS ago.
Age(id) ==
  /\ id \in DOMAIN tickets \ aged
  /\ aged' = aged \cup {id}
  /\ UNCHANGED <<vars, queueVars, scanVars, workerCrashes, scanGhosts>>

\* server.js starts up: the scheduler is inserted, or was already there.
scheduleSlaScan ==
  /\ scheduled' = TRUE
  /\ UNCHANGED <<vars, retries, scanVars, aged, workerCrashes, scanGhosts>>

\* A worker takes the pending scan (the scheduler enqueues the next one) or a
\* job that waits for its retry.
TakeJob(w) ==
  /\ wpc[w] = "idle"
  /\ \/ /\ scheduled
        /\ attempt' = [attempt EXCEPT ![w] = 1]
        /\ UNCHANGED retries
     \/ \E k \in DOMAIN retries :
          /\ retries[k] > 0
          /\ retries' = [retries EXCEPT ![k] = @ - 1]
          /\ attempt' = [attempt EXCEPT ![w] = k + 1]
  /\ wpc' = [wpc EXCEPT ![w] = "query"]
  /\ UNCHANGED <<vars, scheduled, overdue, breachedRow, aged, workerCrashes, scanGhosts>>

\* The loop goes on with what is left of its list, or the job is complete.
ContinueWith(w, rest) ==
  /\ wpc' = [wpc EXCEPT ![w] = IF rest = {} THEN "idle" ELSE "mark"]
  /\ attempt' = [attempt EXCEPT ![w] = IF rest = {} THEN 0 ELSE @]
  /\ overdue' = [overdue EXCEPT ![w] = rest]
  /\ breachedRow' = [breachedRow EXCEPT ![w] = Null]

\* processSlaScan rejects: the rest of the list is dropped, and the job waits
\* to be tried again unless this was its last attempt.
JobThrows(w) ==
  /\ ContinueWith(w, {})
  /\ retries' = IF attempt[w] < Attempts
                THEN [retries EXCEPT ![attempt[w]] = @ + 1] ELSE retries

\* Mutants: the query without slaBreachedAt: null; with createdAt compared the
\* wrong way round.
OverdueAgain == {id \in DOMAIN tickets \cap aged : tickets[id].status = "open"}
NotYetOverdue == {id \in DOMAIN tickets \ aged :
                    tickets[id].status = "open" /\ ~tickets[id].breached}

\* The where-clause of findMany: open, older than the cutoff, not escalated.
Overdue == {id \in DOMAIN tickets \cap aged :
              tickets[id].status = "open" /\ ~tickets[id].breached}

\* prisma.ticket.findMany answers.
QueryOverdue(w) ==
  /\ wpc[w] = "query"
  /\ ContinueWith(w, Overdue)
  /\ UNCHANGED <<vars, queueVars, aged, workerCrashes, scanGhosts>>

\* prisma.ticket.update on one id of the list commits: its where-clause is the
\* id alone.  On a row that is gone the whole job throws.
MarkBreached(w) == \E id \in overdue[w] :
  /\ wpc[w] = "mark"
  /\ \/ /\ id \notin DOMAIN tickets
        /\ JobThrows(w)
        /\ UNCHANGED tickets
     \/ /\ id \in DOMAIN tickets
        /\ tickets' = [tickets EXCEPT ![id].breached = TRUE]
        /\ wpc' = [wpc EXCEPT ![w] = "emit"]
        /\ breachedRow' = [breachedRow EXCEPT ![w] = id]
        /\ UNCHANGED <<attempt, overdue, retries>>
  /\ UNCHANGED <<nextTicketId, comments, nextCommentId, requestVars, mishaps,
                 ghosts, scheduled, aged, workerCrashes, scanGhosts>>

\* The loop resumes: ticket.sla_breached goes out, then the next id.
EmitBreached(w) ==
  /\ wpc[w] = "emit"
  /\ escalations' = [escalations EXCEPT ![breachedRow[w]] = @ + 1]
  /\ ContinueWith(w, overdue[w] \ {breachedRow[w]})
  /\ UNCHANGED <<vars, queueVars, aged, workerCrashes, silenced>>

\* The tickets whose event dies with what worker w is doing.
Silenced(w) == IF wpc[w] = "emit" THEN silenced \cup {breachedRow[w]} ELSE silenced

\* A database call of the scan fails; the update may have committed first.
ScanQueryFails(w) ==
  /\ wpc[w] # "idle"
  /\ DatabaseFails
  /\ JobThrows(w)
  /\ silenced' = Silenced(w)
  /\ UNCHANGED <<tables, requestVars, crashes, ghosts, scheduled, aged,
                 workerCrashes, escalations>>

\* A worker dies with a job in hand.  The job stalls: BullMQ hands it out again,
\* the attempt uncounted, or fails it for having stalled too often.
WorkerCrash(w) ==
  /\ wpc[w] # "idle" /\ workerCrashes < MaxWorkerCrashes
  /\ workerCrashes' = workerCrashes + 1
  /\ silenced' = Silenced(w)
  /\ ContinueWith(w, {})
  /\ \/ retries' = [retries EXCEPT ![attempt[w] - 1] = @ + 1]
     \/ UNCHANGED retries
  /\ UNCHANGED <<vars, scheduled, aged, escalations>>

ScanStep(w) == TakeJob(w) \/ QueryOverdue(w) \/ MarkBreached(w) \/ EmitBreached(w)

ApiStep(r) == Step(r) /\ UNCHANGED workerVars

SlaNext ==
  \/ \E r \in Requests : (Receive(r) \/ QueryFails(r)) /\ UNCHANGED workerVars
  \/ \E r \in Requests : ApiStep(r)
  \/ Crash /\ UNCHANGED workerVars
  \/ \E id \in TicketIds : Age(id)
  \/ scheduleSlaScan
  \/ \E w \in Workers : ScanStep(w) \/ ScanQueryFails(w) \/ WorkerCrash(w)

\* The API is up at some time, a worker that is up takes the jobs that are due,
\* and handlers and loops that await are resumed.
SlaFairness ==
  /\ WF_systemVars(scheduleSlaScan)
  /\ \A r \in Requests : WF_systemVars(ApiStep(r))
  /\ \A w \in Workers : WF_systemVars(ScanStep(w))

SlaSpec == SlaInit /\ [][SlaNext]_systemVars
SlaFairSpec == SlaSpec /\ SlaFairness
-----------------------------------------------------------------------------
(* Properties *)

\* Some worker has marked the ticket and not yet emitted.
EscalationPending(id) == \E w \in Workers : breachedRow[w] = id

\* No ticket is escalated twice: a scan never picks up a ticket an earlier one
\* marked, across retries of a job, stalled jobs, crashes and whatever requests
\* do to the ticket (the slaBreachedAt: null of the query, and the one worker).
EscalatedAtMostOnce == \A id \in TicketIds : escalations[id] <= 1

\* The row was marked already when the system started.
MarkedBefore(id) == id \in DOMAIN SeedTickets /\ SeedTickets[id].breached

\* A ticket is marked exactly when its event was emitted, is about to be, or
\* was taken away by a failure between the update and the emit, unless it always
\* was; nothing else, no PATCH above all, sets or clears the mark.
MarkedMeansAnnounced == \A id \in DOMAIN tickets :
  tickets[id].breached <=>
    \/ MarkedBefore(id)
    \/ escalations[id] > 0 \/ EscalationPending(id) \/ id \in silenced

\* The ticket is past the threshold, still open, and nobody has been told.
PastThreshold(id) ==
  id \in DOMAIN tickets \cap aged /\ tickets[id].status = "open" /\ ~tickets[id].breached

\* A ticket that stays open past the threshold is marked sooner or later: jobs
\* that throw, stall or give up do not stop the schedule.
OverdueIsNoticed == \A id \in TicketIds : PastThreshold(id) ~> ~PastThreshold(id)
-----------------------------------------------------------------------------
(* The promise of Escalation, kept by one worker on the queue *)

\* The tickets whose event is about to be emitted.
Owed == {id \in TicketIds : EscalationPending(id)}
Noticed == {id \in TicketIds : escalations[id] > 0} \cup Owed \cup silenced

Promise == INSTANCE Escalation WITH
  noticed <- Noticed, owed <- Owed, told <- escalations, lost <- silenced

\* Seen from outside, all of this (queries, retries, stalled jobs, crashes,
\* lost answers, requests that re-open or delete the ticket) is only the
\* promise of Escalation: a ticket noticed is never noticed again, and its one
\* event is emitted or lost in the end (escalateOverdueTickets).
EscalationKeepsPromise == Promise!Spec
=============================================================================
