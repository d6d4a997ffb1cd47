--------------------------- MODULE SlaScanProofs ---------------------------
(***************************************************************************)
(* Proofs about SlaScan, for any number of requests, tickets and attempts: *)
(* the queue and its workers keep to their types beside the ticket         *)
(* endpoints, a mark stands for exactly one announcement, made, owed or    *)
(* lost, and with the one worker the system runs the scan implements the   *)
(* promise of Escalation.                                                  *)
(***************************************************************************)
EXTENDS SlaScan, TicketsProofs

\* The inductive invariant, in parts.

\* What a worker holds at each place: a job in hand is at one of its attempts,
\* a row is held between its update and its event only.
Held(w) ==
  /\ wpc[w] # "idle" => attempt[w] \in 1..Attempts
  /\ wpc[w] = "emit" <=> breachedRow[w] # Null

\* Ids no ticket has had yet have no history.
HandedOut == \A id \in TicketIds :
  \/ EscalationPending(id) \/ escalations[id] > 0 \/ id \in silenced
  \/ id \in DOMAIN SeedTickets \/ \E w \in Workers : id \in overdue[w]
  => id < nextTicketId

SlaInv == IInv /\ SlaTypeOK /\ (\A w \in Workers : Held(w)) /\ HandedOut
            /\ MarkedMeansAnnounced

\* docker-compose.yml runs one worker, and worker.js gives it one job at a time.
OneWorker == \A v, w \in Workers : v = w

\* A list holds no ticket that was ever noticed, but the one just marked; a
\* row that is held has not been announced.
ListsAreFresh == \A w \in Workers :
  /\ \A id \in overdue[w] : id \in Noticed => id = breachedRow[w]
  /\ breachedRow[w] # Null =>
       escalations[breachedRow[w]] = 0 /\ breachedRow[w] \notin silenced

OnceInv == SlaInv /\ EscalatedAtMostOnce /\ ListsAreFresh
-----------------------------------------------------------------------------
\* The idle queue and its workers satisfy every part of SlaInv.
LEMMA SlaInitInv == SlaInit => SlaInv
<1> SUFFICES ASSUME SlaInit PROVE SlaInv
  OBVIOUS
<1>1. IInv /\ TypeOK /\ Init
  BY InitInv DEF SlaInit, IInv
<1>2. SlaTypeOK
  <2>1. Attempts \in Nat /\ MaxWorkerCrashes \in Nat
    BY ScanAssumption
  <2>2. /\ retries \in [0..(Attempts - 1) -> Nat] /\ attempt \in [Workers -> 0..Attempts]
        /\ overdue \in [Workers -> SUBSET TicketIds]
        /\ escalations \in [TicketIds -> Nat]
    BY <2>1 DEF SlaInit
  <2>3. scheduled \in BOOLEAN
    BY DEF SlaInit
  <2> QED BY <1>1, <2>1, <2>2, <2>3 DEF SlaInit, SlaTypeOK
<1>3. \A id \in DOMAIN SeedTickets : id \in TicketIds /\ id < nextTicketId
  BY <1>1 DEF Init, StoreInit, TypeOK, StoreTypeOK, IsTable
<1>4. \A w \in Workers : Held(w)
  BY DEF SlaInit, Held
<1>5. \A id \in TicketIds :
        /\ ~EscalationPending(id) /\ ~(escalations[id] > 0) /\ id \notin silenced
        /\ \A w \in Workers : id \notin overdue[w]
  BY CallAssumption DEF SlaInit, EscalationPending, TicketIds
<1>6. HandedOut
  BY <1>3, <1>5 DEF HandedOut
<1>7. MarkedMeansAnnounced
  BY <1>1, <1>3, <1>5 DEF MarkedMeansAnnounced, MarkedBefore, Init, StoreInit
<1> QED BY <1>1, <1>2, <1>4, <1>6, <1>7 DEF SlaInv
-----------------------------------------------------------------------------
\* A worker whose loop goes on, or ends, holds what its new place allows
\* (ContinueWith).
LEMMA ContinueEffect ==
  ASSUME SlaInv, NEW w \in Workers, wpc[w] # "idle", NEW rest \in SUBSET TicketIds,
         ContinueWith(w, rest)
  PROVE  /\ wpc' \in [Workers -> {"idle", "query", "mark", "emit"}]
         /\ attempt' \in [Workers -> 0..Attempts]
         /\ overdue' \in [Workers -> SUBSET TicketIds]
         /\ breachedRow' \in [Workers -> TicketIds \cup {Null}]
         /\ \A v \in Workers : Held(v)'
         /\ overdue'[w] = rest /\ breachedRow'[w] = Null
         /\ \A v \in Workers \ {w} :
              overdue'[v] = overdue[v] /\ breachedRow'[v] = breachedRow[v]
<1>1. ScanAssumption /\ SlaTypeOK /\ \A v \in Workers : Held(v)
  BY ScanAssumption DEF SlaInv
<1>2. /\ wpc' \in [Workers -> {"idle", "query", "mark", "emit"}]
      /\ attempt' \in [Workers -> 0..Attempts]
      /\ overdue' \in [Workers -> SUBSET TicketIds]
      /\ breachedRow' \in [Workers -> TicketIds \cup {Null}]
  BY <1>1 DEF ContinueWith, SlaTypeOK, ScanAssumption
<1>3. \A v \in Workers : Held(v)'
  BY <1>1 DEF ContinueWith, SlaTypeOK, Held
<1> QED BY <1>1, <1>2, <1>3 DEF ContinueWith, SlaTypeOK

\* A job that throws is queued again or given up, and its worker is free
\* (JobThrows).
LEMMA ThrowEffect ==
  ASSUME SlaInv, NEW w \in Workers, wpc[w] # "idle", JobThrows(w)
  PROVE  ContinueWith(w, {}) /\ retries' \in [0..(Attempts - 1) -> Nat]
<1>1. SlaTypeOK /\ attempt[w] \in 1..Attempts /\ Attempts \in Nat
  BY ScanAssumption DEF SlaInv, Held
<1> QED BY <1>1 DEF JobThrows, SlaTypeOK
-----------------------------------------------------------------------------
\* What a step of worker w means for the events of tickets: nothing, or a row
\* taken from its list and marked, the event of the row it holds emitted, or
\* that event lost.
QuietScan == UNCHANGED <<tickets, breachedRow, escalations, silenced>>

Marks(w, id) ==
  /\ id \in overdue[w] /\ id \in DOMAIN tickets /\ breachedRow[w] = Null
  /\ tickets' = [tickets EXCEPT ![id].breached = TRUE]
  /\ breachedRow' = [breachedRow EXCEPT ![w] = id]
  /\ UNCHANGED <<escalations, silenced>>

Releases(w, id) ==
  /\ id \in TicketIds /\ breachedRow[w] = id
  /\ breachedRow' = [breachedRow EXCEPT ![w] = Null]
  /\ UNCHANGED tickets

Tells(w, id) ==
  /\ Releases(w, id) /\ UNCHANGED silenced
  /\ escalations' = [escalations EXCEPT ![id] = @ + 1]

Loses(w, id) ==
  /\ Releases(w, id) /\ UNCHANGED escalations
  /\ silenced' = silenced \cup {id}

\* All a step of worker w does, as far as the invariants are concerned.
ScanEffect(w) ==
  /\ IInv' /\ SlaTypeOK' /\ \A v \in Workers : Held(v)'
  /\ UNCHANGED nextTicketId
  /\ \A v \in Workers : overdue'[v] \subseteq overdue[v] \cup Overdue
  /\ \/ QuietScan
     \/ \E id : Marks(w, id) /\ UNCHANGED overdue
     \/ \E id : (Tells(w, id) \/ Loses(w, id)) /\ id \notin overdue'[w]

Scanning(w) == ScanStep(w) \/ ScanQueryFails(w) \/ WorkerCrash(w)

\* Taking a job touches no ticket (TakeJob).
LEMMA TakeJobEffect ==
  ASSUME SlaInv, NEW w \in Workers, TakeJob(w)
  PROVE  ScanEffect(w)
<1>1. /\ SlaTypeOK /\ Held(w) /\ \A v \in Workers : Held(v)
      /\ Attempts \in Nat \ {0} /\ UNCHANGED vars /\ wpc[w] = "idle"
      /\ UNCHANGED <<scheduled, overdue, breachedRow, aged, workerCrashes, scanGhosts>>
  BY ScanAssumption DEF SlaInv, TakeJob
<1>2. IInv' /\ TypeOK'
  BY <1>1, StutterStep DEF SlaInv, IInv
<1>3. /\ retries' \in [0..(Attempts - 1) -> Nat]
      /\ \E n \in 1..Attempts : attempt' = [attempt EXCEPT ![w] = n]
      /\ wpc' = [wpc EXCEPT ![w] = "query"]
  <2>1. CASE scheduled /\ attempt' = [attempt EXCEPT ![w] = 1] /\ UNCHANGED retries
    <3>1. 1 \in 1..Attempts /\ retries' \in [0..(Attempts - 1) -> Nat]
      BY <1>1, <2>1 DEF SlaTypeOK
    <3> QED BY <2>1, <3>1 DEF TakeJob
  <2>2. CASE \E k \in DOMAIN retries :
               /\ retries[k] > 0
               /\ retries' = [retries EXCEPT ![k] = @ - 1]
               /\ attempt' = [attempt EXCEPT ![w] = k + 1]
    <3>1. PICK k \in 0..(Attempts - 1) :
            /\ retries[k] > 0
            /\ retries' = [retries EXCEPT ![k] = @ - 1]
            /\ attempt' = [attempt EXCEPT ![w] = k + 1]
      BY <1>1, <2>2 DEF SlaTypeOK
    <3>2. k + 1 \in 1..Attempts
      BY <1>1
    <3>3. retries' \in [0..(Attempts - 1) -> Nat]
      BY <1>1, <3>1 DEF SlaTypeOK
    <3> QED BY <3>1, <3>2, <3>3 DEF TakeJob
  <2> QED BY <2>1, <2>2 DEF TakeJob
<1>4. \A v \in Workers : Held(v)'
  BY <1>1, <1>3 DEF SlaTypeOK, Held
<1>5. SlaTypeOK'
  <2>1. scheduled' \in BOOLEAN
    BY <1>1 DEF SlaTypeOK
  <2> QED BY <1>1, <1>2, <1>3, <2>1 DEF SlaTypeOK, scanGhosts
<1>6. QuietScan /\ UNCHANGED <<nextTicketId, overdue>>
  BY <1>1 DEF QuietScan, vars, tables, scanGhosts
<1> QED BY <1>2, <1>4, <1>5, <1>6 DEF ScanEffect

\* The query hands the worker tickets that carry no mark (QueryOverdue).
LEMMA QueryEffect ==
  ASSUME SlaInv, NEW w \in Workers, QueryOverdue(w)
  PROVE  ScanEffect(w)
<1>1. /\ SlaTypeOK /\ Held(w) /\ UNCHANGED vars /\ wpc[w] = "query"
      /\ UNCHANGED <<scheduled, retries, aged, workerCrashes, escalations, silenced>>
      /\ ContinueWith(w, Overdue)
  BY DEF SlaInv, QueryOverdue, queueVars, scanGhosts
<1>2. IInv' /\ TypeOK'
  BY <1>1, StutterStep DEF SlaInv, IInv
<1>3. Overdue \in SUBSET TicketIds
  BY <1>1 DEF SlaTypeOK, Overdue
<1>4. SlaTypeOK' /\ \A v \in Workers : Held(v)'
  <2>1. scheduled' \in BOOLEAN
    BY <1>1 DEF SlaTypeOK
  <2> QED BY <1>1, <1>2, <1>3, <2>1, ContinueEffect DEF SlaTypeOK
<1>5. QuietScan /\ UNCHANGED nextTicketId
  <2>1. breachedRow[w] = Null
    BY <1>1 DEF Held
  <2>2. breachedRow' = breachedRow
    BY <1>1, <2>1 DEF ContinueWith, SlaTypeOK
  <2> QED BY <1>1, <2>2 DEF QuietScan, vars, tables
<1> QED BY <1>1, <1>2, <1>3, <1>4, <1>5, ContinueEffect DEF ScanEffect

\* The update marks a row of the list, or ends the job on one that is gone
\* (MarkBreached).
LEMMA MarkEffect ==
  ASSUME SlaInv, NEW w \in Workers, MarkBreached(w)
  PROVE  ScanEffect(w)
<1>1. PICK id \in overdue[w] :
        /\ wpc[w] = "mark"
        /\ \/ /\ id \notin DOMAIN tickets
              /\ JobThrows(w)
              /\ UNCHANGED tickets
           \/ /\ id \in DOMAIN tickets
              /\ tickets' = [tickets EXCEPT ![id].breached = TRUE]
              /\ wpc' = [wpc EXCEPT ![w] = "emit"]
              /\ breachedRow' = [breachedRow EXCEPT ![w] = id]
              /\ UNCHANGED <<attempt, overdue, retries>>
        /\ UNCHANGED <<nextTicketId, comments, nextCommentId, requestVars, mishaps,
                       ghosts, scheduled, aged, workerCrashes, scanGhosts>>
  BY DEF MarkBreached
<1>2. /\ SlaTypeOK /\ TypeOK /\ Held(w) /\ \A v \in Workers : Held(v)
      /\ breachedRow[w] = Null /\ id \in TicketIds /\ id # Null
  BY <1>1, CallAssumption DEF SlaInv, SlaTypeOK, Held, TicketIds
<1>3. scheduled' \in BOOLEAN
  BY <1>1, <1>2 DEF SlaTypeOK
<1>4. CASE UNCHANGED tickets /\ JobThrows(w)
  <2>1. IInv' /\ TypeOK'
    <3>1. UNCHANGED vars
      BY <1>1, <1>4 DEF vars, tables
    <3> QED BY <3>1, StutterStep DEF SlaInv, IInv
  <2>2. ContinueWith(w, {}) /\ retries' \in [0..(Attempts - 1) -> Nat]
    BY <1>1, <1>4, ThrowEffect
  <2>3. SlaTypeOK' /\ \A v \in Workers : Held(v)'
    BY <1>1, <1>2, <1>3, <2>1, <2>2, ContinueEffect DEF SlaTypeOK, scanGhosts
  <2>4. QuietScan
    <3>1. breachedRow' = breachedRow
      BY <1>2, <2>2 DEF ContinueWith, SlaTypeOK
    <3> QED BY <1>1, <1>4, <3>1 DEF QuietScan, scanGhosts
  <2> QED BY <1>1, <2>1, <2>2, <2>3, <2>4, ContinueEffect DEF ScanEffect
<1>5. CASE /\ id \in DOMAIN tickets
           /\ tickets' = [tickets EXCEPT ![id].breached = TRUE]
           /\ wpc' = [wpc EXCEPT ![w] = "emit"]
           /\ breachedRow' = [breachedRow EXCEPT ![w] = id]
           /\ UNCHANGED <<attempt, overdue, retries>>
  <2>1. \A x \in DOMAIN tickets :
          tickets'[x] \in Ticket /\ Facts(tickets'[x]) = Facts(tickets[x])
    <3>1. \A x \in DOMAIN tickets : tickets[x] \in Ticket
      BY <1>2 DEF TypeOK, StoreTypeOK, IsTable
    <3> QED BY <1>5, <3>1 DEF Ticket, Facts
  <2>2. IInv' /\ TypeOK'
    <3>1. faults' \in 0..MaxFaults /\ UNCHANGED crashes
      BY <1>1, <1>2 DEF mishaps, TypeOK, StoreTypeOK
    <3>2. StoreTypeOK'
      <4>1. IsTable(tickets, TicketIds, Ticket, nextTicketId)'
        BY <1>1, <1>2, <1>5, <2>1 DEF TypeOK, StoreTypeOK, IsTable
      <4>2. IsTable(comments, CommentIds, Comment, nextCommentId)'
        BY <1>1, <1>2 DEF TypeOK, StoreTypeOK, IsTable
      <4> QED BY <1>1, <1>2, <3>1, <4>1, <4>2 DEF TypeOK, StoreTypeOK
    <3> QED BY <1>1, <1>5, <2>1, <3>1, <3>2, OthersStep DEF SlaInv, IInv, TypeOK
  <2>3. SlaTypeOK'
    BY <1>1, <1>2, <1>3, <1>5, <2>2 DEF SlaTypeOK, scanGhosts
  <2>4. \A v \in Workers : Held(v)'
    BY <1>1, <1>2, <1>5 DEF Held, SlaTypeOK
  <2>5. Marks(w, id) /\ UNCHANGED overdue
    BY <1>1, <1>2, <1>5 DEF Marks, scanGhosts
  <2> QED BY <1>1, <2>2, <2>3, <2>4, <2>5 DEF ScanEffect
<1> QED BY <1>1, <1>4, <1>5

\* The loop emits the event of the row it holds (EmitBreached).
LEMMA EmitEffect ==
  ASSUME SlaInv, NEW w \in Workers, EmitBreached(w)
  PROVE  ScanEffect(w)
<1>0. PICK id : id = breachedRow[w]
  OBVIOUS
<1>1. /\ SlaTypeOK /\ wpc[w] = "emit" /\ UNCHANGED vars
      /\ UNCHANGED <<scheduled, retries, aged, workerCrashes, silenced>>
      /\ escalations' = [escalations EXCEPT ![id] = @ + 1]
      /\ ContinueWith(w, overdue[w] \ {id})
  BY <1>0 DEF SlaInv, EmitBreached, queueVars
<1>2. id \in TicketIds /\ overdue[w] \ {id} \in SUBSET TicketIds
  BY <1>0, <1>1 DEF SlaInv, SlaTypeOK, Held
<1>3. IInv' /\ TypeOK'
  BY <1>1, StutterStep DEF SlaInv, IInv
<1>4. SlaTypeOK' /\ \A v \in Workers : Held(v)'
  <2>1. scheduled' \in BOOLEAN
    BY <1>1 DEF SlaTypeOK
  <2>2. escalations' \in [TicketIds -> Nat]
    BY <1>1, <1>2 DEF SlaTypeOK
  <2>3. /\ wpc' \in [Workers -> {"idle", "query", "mark", "emit"}]
        /\ attempt' \in [Workers -> 0..Attempts]
        /\ overdue' \in [Workers -> SUBSET TicketIds]
        /\ breachedRow' \in [Workers -> TicketIds \cup {Null}]
        /\ \A v \in Workers : Held(v)'
    BY <1>1, <1>2, ContinueEffect
  <2> QED BY <1>1, <1>3, <2>1, <2>2, <2>3 DEF SlaTypeOK
<1>5. Tells(w, id) /\ UNCHANGED nextTicketId
  BY <1>0, <1>1, <1>2 DEF Tells, Releases, ContinueWith, vars, tables
<1> QED BY <1>1, <1>2, <1>3, <1>4, <1>5, ContinueEffect DEF ScanEffect

\* A failure or a crash drops the list, and the event of the row the worker held
\* (ScanQueryFails, WorkerCrash).
LEMMA DropEffect ==
  ASSUME SlaInv, NEW w \in Workers, wpc[w] # "idle", ContinueWith(w, {}),
         retries' \in [0..(Attempts - 1) -> Nat], silenced' = Silenced(w),
         UNCHANGED <<tables, requestVars, crashes, ghosts, scheduled, aged, escalations>>,
         faults' \in 0..MaxFaults, workerCrashes' \in 0..MaxWorkerCrashes
  PROVE  ScanEffect(w)
<1>1. SlaTypeOK /\ TypeOK /\ Held(w)
  BY DEF SlaInv, SlaTypeOK
<1>2. /\ wpc' \in [Workers -> {"idle", "query", "mark", "emit"}]
      /\ attempt' \in [Workers -> 0..Attempts]
      /\ overdue' \in [Workers -> SUBSET TicketIds]
      /\ breachedRow' \in [Workers -> TicketIds \cup {Null}]
      /\ \A v \in Workers : Held(v)'
      /\ overdue'[w] = {} /\ breachedRow'[w] = Null
      /\ \A v \in Workers \ {w} : overdue'[v] = overdue[v]
  BY ContinueEffect
<1>3. IInv' /\ TypeOK'
  <2>1. UNCHANGED <<tickets, nextTicketId, comments, nextCommentId>>
    BY DEF tables
  <2>2. StoreTypeOK'
    BY <1>1, <2>1 DEF TypeOK, StoreTypeOK, IsTable
  <2> QED BY <2>1, <2>2, OthersStep DEF SlaInv, IInv, TypeOK
<1>4. SlaTypeOK'
  <2>1. scheduled' \in BOOLEAN
    BY <1>1 DEF SlaTypeOK
  <2>2. silenced' \subseteq TicketIds
    BY <1>1 DEF Silenced, SlaTypeOK, Held
  <2> QED BY <1>1, <1>2, <1>3, <2>1, <2>2 DEF SlaTypeOK
<1>5. /\ breachedRow' = [breachedRow EXCEPT ![w] = Null]
      /\ UNCHANGED <<tickets, nextTicketId>>
  BY DEF ContinueWith, tables
<1>6. CASE wpc[w] = "emit"
  <2>1. breachedRow[w] \in TicketIds
    BY <1>1, <1>6 DEF SlaTypeOK, Held
  <2>2. Loses(w, breachedRow[w])
    BY <1>5, <1>6, <2>1 DEF Loses, Releases, Silenced
  <2> QED BY <1>2, <1>3, <1>4, <1>5, <2>2 DEF ScanEffect
<1>7. CASE wpc[w] # "emit"
  <2>1. breachedRow[w] = Null
    BY <1>1, <1>7 DEF Held
  <2>2. breachedRow' = breachedRow
    BY <1>1, <1>5, <2>1 DEF SlaTypeOK
  <2>3. QuietScan
    BY <1>5, <1>7, <2>2 DEF QuietScan, Silenced
  <2> QED BY <1>2, <1>3, <1>4, <1>5, <2>3 DEF ScanEffect
<1> QED BY <1>6, <1>7

\* Whatever worker w does has one of the effects above.
LEMMA ScanningEffect ==
  ASSUME SlaInv, NEW w \in Workers, Scanning(w)
  PROVE  ScanEffect(w)
<1>1. /\ SlaTypeOK /\ TypeOK /\ faults \in 0..MaxFaults
      /\ MaxFaults \in Nat /\ MaxWorkerCrashes \in Nat
  BY SeedAssumption, ScanAssumption DEF SlaInv, SlaTypeOK, TypeOK, StoreTypeOK
<1>2. CASE ScanQueryFails(w)
  <2>1. /\ wpc[w] # "idle" /\ JobThrows(w) /\ silenced' = Silenced(w)
        /\ UNCHANGED <<tables, requestVars, crashes, ghosts, scheduled, aged,
                       workerCrashes, escalations>>
        /\ faults' \in 0..MaxFaults
    BY <1>1, <1>2 DEF ScanQueryFails, DatabaseFails
  <2>2. workerCrashes' \in 0..MaxWorkerCrashes
    BY <1>1, <2>1 DEF SlaTypeOK
  <2> QED BY <2>1, <2>2, ThrowEffect, DropEffect
<1>3. CASE WorkerCrash(w)
  <2>1. /\ wpc[w] # "idle" /\ ContinueWith(w, {}) /\ silenced' = Silenced(w)
        /\ UNCHANGED <<vars, scheduled, aged, escalations>>
        /\ workerCrashes' \in 0..MaxWorkerCrashes
    BY <1>1, <1>3 DEF WorkerCrash, SlaTypeOK
  <2>2. UNCHANGED <<tables, requestVars, crashes, faults, ghosts>>
    BY <2>1 DEF vars, mishaps
  <2>3. retries' \in [0..(Attempts - 1) -> Nat]
    <3>1. attempt[w] - 1 \in 0..(Attempts - 1) /\ retries \in [0..(Attempts - 1) -> Nat]
      BY <1>1, <2>1, ScanAssumption DEF SlaInv, Held, SlaTypeOK
    <3> QED BY <1>3, <3>1 DEF WorkerCrash
  <2> QED BY <1>1, <2>1, <2>2, <2>3, DropEffect
<1> QED BY <1>2, <1>3, TakeJobEffect, QueryEffect, MarkEffect, EmitEffect
    DEF Scanning, ScanStep
-----------------------------------------------------------------------------
\* Whether a ticket has been noticed: the set of the refinement, by element.
Noted(id) == escalations[id] > 0 \/ EscalationPending(id) \/ id \in silenced

LEMMA NotedIsNoticed == \A id \in TicketIds : Noted(id) <=> id \in Noticed
BY DEF Noted, Noticed, Owed

\* Ids of rows, of lists and of events stay below the counter, and a mark goes
\* with a notice, when worker w takes a step.
LEMMA ScanStepInv ==
  ASSUME SlaInv, NEW w \in Workers, ScanEffect(w)
  PROVE  SlaInv'
<1>1. /\ SlaTypeOK /\ TypeOK /\ HandedOut /\ MarkedMeansAnnounced
      /\ DOMAIN tickets \subseteq TicketIds /\ Null \notin TicketIds
      /\ \A id \in DOMAIN tickets : id < nextTicketId /\ tickets[id] \in Ticket
  BY CallAssumption DEF SlaInv, SlaTypeOK, TypeOK, StoreTypeOK, IsTable, TicketIds
<1>2. \A v \in Workers : \A id \in overdue'[v] :
        id \in overdue[v] \/ id \in DOMAIN tickets
  BY DEF ScanEffect, Overdue
<1>3. CASE QuietScan
  <2>1. \A id \in TicketIds : Noted(id)' <=> Noted(id)
    BY <1>3 DEF QuietScan, Noted, EscalationPending
  <2>2. HandedOut'
    BY <1>1, <1>2, <2>1 DEF HandedOut, Noted, ScanEffect
  <2>3. MarkedMeansAnnounced'
    BY <1>1, <1>3, <2>1 DEF MarkedMeansAnnounced, MarkedBefore, Noted, QuietScan
  <2> QED BY <2>2, <2>3 DEF SlaInv, ScanEffect
<1>4. ASSUME NEW id, Marks(w, id) PROVE SlaInv'
  <2>0. id \in TicketIds
    BY <1>1, <1>4 DEF Marks
  <2>1. \A x \in TicketIds : Noted(x)' <=> Noted(x) \/ x = id
    BY <1>1, <1>4, <2>0 DEF Marks, Noted, EscalationPending, SlaTypeOK
  <2>2. HandedOut'
    BY <1>1, <1>2, <1>4, <2>1 DEF HandedOut, Noted, ScanEffect, Marks
  <2>3. MarkedMeansAnnounced'
    <3>1. /\ DOMAIN tickets' = DOMAIN tickets /\ tickets'[id].breached
          /\ \A x \in DOMAIN tickets \ {id} : tickets'[x] = tickets[x]
      BY <1>1, <1>4 DEF Marks, Ticket
    <3> QED BY <1>1, <2>1, <3>1 DEF MarkedMeansAnnounced, MarkedBefore, Noted
  <2> QED BY <2>2, <2>3 DEF SlaInv, ScanEffect
<1>5. ASSUME NEW id, Tells(w, id) \/ Loses(w, id) PROVE SlaInv'
  <2>1. \A x \in TicketIds : Noted(x)' <=> Noted(x)
    <3>1. /\ id \in TicketIds /\ breachedRow[w] = id /\ UNCHANGED tickets
          /\ \A x \in TicketIds \ {id} : EscalationPending(x)' <=> EscalationPending(x)
      BY <1>1, <1>5 DEF Tells, Loses, Releases, EscalationPending, SlaTypeOK
    <3>2. Noted(id) /\ Noted(id)'
      BY <1>1, <1>5, <3>1 DEF Tells, Loses, Noted, EscalationPending, SlaTypeOK
    <3>3. \A x \in TicketIds \ {id} :
            /\ escalations'[x] = escalations[x]
            /\ x \in silenced' <=> x \in silenced
      BY <1>1, <1>5 DEF Tells, Loses, SlaTypeOK
    <3> QED BY <3>1, <3>2, <3>3 DEF Noted
  <2>2. HandedOut'
    BY <1>1, <1>2, <2>1 DEF HandedOut, Noted, ScanEffect
  <2>3. MarkedMeansAnnounced'
    BY <1>1, <1>5, <2>1 DEF MarkedMeansAnnounced, MarkedBefore, Noted, Tells, Loses,
                            Releases
  <2> QED BY <2>2, <2>3 DEF SlaInv, ScanEffect
<1> QED BY <1>3, <1>4, <1>5 DEF ScanEffect

\* What requests do to the tickets neither makes nor clears a mark, and a new
\* ticket has no history (Patched, NewTicket).
LEMMA TicketStepInv ==
  ASSUME SlaInv, [Next]_vars, UNCHANGED workerVars
  PROVE  SlaInv'
<1>1. /\ SlaTypeOK /\ HandedOut /\ MarkedMeansAnnounced /\ TypeOK'
      /\ UNCHANGED <<scheduled, retries, wpc, attempt, overdue, breachedRow, aged,
                     workerCrashes, escalations, silenced>>
      /\ nextTicketId \in Int /\ nextTicketId' \in Int
  BY NextInv DEF SlaInv, SlaTypeOK, IInv, TypeOK, StoreTypeOK, workerVars, queueVars, scanVars, scanGhosts
<1>2. SlaTypeOK'
  <2>1. scheduled' \in BOOLEAN
    BY <1>1 DEF SlaTypeOK
  <2> QED BY <1>1, <2>1 DEF SlaTypeOK
<1>3. \A w \in Workers : Held(w)'
  BY <1>1 DEF SlaInv, Held
<1>4. /\ nextTicketId <= nextTicketId'
      /\ \A id \in DOMAIN tickets' :
           \/ /\ id \in DOMAIN tickets
              /\ tickets'[id].breached = tickets[id].breached
           \/ /\ id = nextTicketId /\ nextTicketId' = nextTicketId + 1
              /\ ~tickets'[id].breached
  BY TableStep DEF SlaInv
<1>5. HandedOut'
  BY <1>1, <1>4 DEF HandedOut, EscalationPending, TicketIds
<1>6. MarkedMeansAnnounced'
  <2> SUFFICES ASSUME NEW id \in DOMAIN tickets'
               PROVE  tickets'[id].breached <=> MarkedBefore(id) \/ Noted(id)
    BY <1>1 DEF MarkedMeansAnnounced, MarkedBefore, Noted, EscalationPending
  <2>1. CASE id \in DOMAIN tickets /\ tickets'[id].breached = tickets[id].breached
    BY <1>1, <2>1 DEF MarkedMeansAnnounced, Noted
  <2>2. CASE id = nextTicketId /\ ~tickets'[id].breached
    <3>1. id \in TicketIds
      BY <1>1 DEF TypeOK, StoreTypeOK, IsTable
    <3>2. ~Noted(id) /\ id \notin DOMAIN SeedTickets
      BY <1>1, <2>2, <3>1 DEF HandedOut, Noted
    <3> QED BY <2>2, <3>2 DEF MarkedBefore
  <2> QED BY <1>4, <2>1, <2>2
<1> QED BY <1>2, <1>3, <1>5, <1>6, NextInv DEF SlaInv

\* The clock and the scheduler touch neither tickets nor workers (Age,
\* scheduleSlaScan).
LEMMA ClockStepInv ==
  ASSUME SlaInv, (\E id \in TicketIds : Age(id)) \/ scheduleSlaScan
  PROVE  SlaInv' /\ UNCHANGED <<vars, wpc, overdue, breachedRow, scanGhosts>>
<1>1. /\ UNCHANGED <<vars, retries, wpc, attempt, overdue, breachedRow, workerCrashes,
                     escalations, silenced>>
      /\ scheduled' \in {scheduled, TRUE}
      /\ SlaTypeOK
  BY DEF Age, scheduleSlaScan, SlaInv, scanVars, scanGhosts, queueVars
<1>2. aged' \subseteq TicketIds
  BY <1>1 DEF SlaTypeOK, Age, scheduleSlaScan
<1>3. IInv' /\ TypeOK' /\ UNCHANGED <<tickets, nextTicketId>>
  BY <1>1, StutterStep DEF SlaInv, IInv, vars, tables
<1>4. SlaTypeOK'
  <2>1. scheduled' \in BOOLEAN
    BY <1>1 DEF SlaTypeOK
  <2> QED BY <1>1, <1>2, <1>3, <2>1 DEF SlaTypeOK
<1>5. (\A w \in Workers : Held(w)') /\ HandedOut' /\ MarkedMeansAnnounced'
  BY <1>1, <1>3 DEF SlaInv, Held, HandedOut, MarkedMeansAnnounced, MarkedBefore,
                    EscalationPending
<1> QED BY <1>1, <1>3, <1>4, <1>5 DEF SlaInv, scanGhosts

\* A step of the whole system is one of a worker, of the clock, or of the ticket
\* endpoints.
LEMMA SlaSteps ==
  ASSUME [SlaNext]_systemVars
  PROVE  \/ \E w \in Workers : Scanning(w)
         \/ (\E id \in TicketIds : Age(id)) \/ scheduleSlaScan
         \/ [Next]_vars /\ UNCHANGED workerVars
<1>1. CASE UNCHANGED systemVars
  BY <1>1 DEF systemVars
<1>2. CASE SlaNext
  BY <1>2 DEF SlaNext, Scanning, ApiStep, Next
<1> QED BY <1>1, <1>2

\* Every step preserves the inductive invariant.
LEMMA SlaNextInv == ASSUME SlaInv, [SlaNext]_systemVars PROVE SlaInv'
BY SlaSteps, ScanningEffect, ScanStepInv, ClockStepInv, TicketStepInv

LEMMA SlaInvariance == SlaSpec => []SlaInv
BY SlaInitInv, SlaNextInv, PTL DEF SlaSpec

\* The queue, the workers and their lists keep to their types beside any number
\* of ticket requests: no job waits for an attempt it does not have, no worker
\* emits the event of a row it does not hold.
THEOREM SlaTypeCorrect == SlaSpec => []SlaTypeOK
<1>1. SlaInv => SlaTypeOK
  BY DEF SlaInv
<1> QED BY <1>1, SlaInvariance, PTL

\* However many workers scan, requests write and failures strike, a ticket is
\* marked exactly when its event went out, is owed or was lost, or it came
\* marked (escalateOverdueTickets, updateTicket).
THEOREM MarksAccounted == SlaSpec => []MarkedMeansAnnounced
<1>1. SlaInv => MarkedMeansAnnounced
  BY DEF SlaInv
<1> QED BY <1>1, SlaInvariance, PTL

\* The scan does not disturb what listeners know of status and agent: the
\* announcements of the ticket endpoints stay right beside it.
THEOREM AnnouncementsBesideScan == SlaSpec => [](AnnouncementsKeepUp /\ OwnAnnouncementsOnly)
<1>1. SlaInv => AnnouncementsKeepUp /\ OwnAnnouncementsOnly
  BY DEF SlaInv, IInv
<1> QED BY <1>1, SlaInvariance, PTL
-----------------------------------------------------------------------------
\* With one worker, no list is older than a mark of somebody else.
LEMMA OnceStep ==
  ASSUME OnceInv, OneWorker, [SlaNext]_systemVars
  PROVE  OnceInv'
<1>1. /\ SlaInv /\ SlaInv' /\ SlaTypeOK /\ MarkedMeansAnnounced
      /\ EscalatedAtMostOnce /\ ListsAreFresh /\ Null \notin TicketIds
  BY SlaNextInv, CallAssumption DEF OnceInv, SlaInv, TicketIds
<1>2. \A id \in TicketIds : Noted(id) <=> id \in Noticed
  BY NotedIsNoticed
<1>3. ASSUME UNCHANGED <<overdue, breachedRow, escalations, silenced>>
      PROVE  OnceInv'
  BY <1>1, <1>3
  DEF OnceInv, EscalatedAtMostOnce, ListsAreFresh, Noticed, Owed, EscalationPending
<1>4. ASSUME NEW w \in Workers, Scanning(w) PROVE OnceInv'
  <2>1. ScanEffect(w) /\ \A v \in Workers : v = w
    BY <1>1, <1>4, ScanningEffect DEF OneWorker
  <2>2. \A id \in Overdue : id \in TicketIds /\ ~Noted(id)
    BY <1>1 DEF Overdue, MarkedMeansAnnounced, Noted, SlaTypeOK
  <2>3. \A id \in overdue[w] : Noted(id) => id = breachedRow[w]
    BY <1>1, <1>2 DEF ListsAreFresh, SlaTypeOK
  <2>4. SUFFICES
          /\ \A id \in TicketIds : escalations'[id] <= 1
          /\ \A id \in overdue'[w] : Noted(id)' => id = breachedRow'[w]
          /\ breachedRow'[w] # Null =>
               escalations'[breachedRow'[w]] = 0 /\ breachedRow'[w] \notin silenced'
    <3>1. \A id \in overdue'[w] : id \in Noticed' => Noted(id)'
      BY DEF Noted, Noticed, Owed, EscalationPending
    <3> QED BY <1>1, <2>1, <3>1 DEF OnceInv, EscalatedAtMostOnce, ListsAreFresh
  <2>5. CASE QuietScan
    <3>1. \A id : Noted(id)' <=> Noted(id)
      BY <2>5 DEF QuietScan, Noted, EscalationPending
    <3> QED BY <1>1, <2>1, <2>2, <2>3, <2>5, <3>1
        DEF QuietScan, ScanEffect, EscalatedAtMostOnce, ListsAreFresh
  <2>6. ASSUME NEW id, Marks(w, id), UNCHANGED overdue
        PROVE  /\ \A x \in TicketIds : escalations'[x] <= 1
               /\ \A x \in overdue'[w] : Noted(x)' => x = breachedRow'[w]
               /\ breachedRow'[w] # Null =>
                    escalations'[breachedRow'[w]] = 0 /\ breachedRow'[w] \notin silenced'
    <3>1. id \in overdue[w] /\ breachedRow[w] = Null /\ breachedRow'[w] = id
          /\ id \in TicketIds /\ UNCHANGED <<escalations, silenced>>
      BY <1>1, <2>6 DEF Marks, SlaTypeOK
    <3>2. ~Noted(id)
      BY <1>1, <2>3, <3>1
    <3>3. escalations[id] = 0 /\ id \notin silenced
      BY <1>1, <3>1, <3>2 DEF Noted, SlaTypeOK
    <3>4. \A x \in overdue[w] : Noted(x)' => x = id
      BY <1>1, <2>1, <2>3, <3>1 DEF Noted, EscalationPending, SlaTypeOK
    <3> QED BY <1>1, <2>6, <3>1, <3>3, <3>4 DEF EscalatedAtMostOnce
  <2>7. ASSUME NEW id, Tells(w, id) \/ Loses(w, id), id \notin overdue'[w]
        PROVE  /\ \A x \in TicketIds : escalations'[x] <= 1
               /\ \A x \in overdue'[w] : Noted(x)' => x = breachedRow'[w]
               /\ breachedRow'[w] # Null =>
                    escalations'[breachedRow'[w]] = 0 /\ breachedRow'[w] \notin silenced'
    <3>1. id \in TicketIds /\ breachedRow[w] = id /\ breachedRow'[w] = Null
      BY <1>1, <2>7 DEF Tells, Loses, Releases, SlaTypeOK
    <3>2. \A x \in TicketIds \ {id} :
            /\ escalations'[x] = escalations[x]
            /\ x \in silenced' <=> x \in silenced
      BY <1>1, <2>7 DEF Tells, Loses, SlaTypeOK
    <3>3. escalations[id] = 0 /\ escalations'[id] <= 1
      BY <1>1, <2>7, <3>1 DEF ListsAreFresh, Tells, Loses, SlaTypeOK
    <3>4. \A x \in overdue'[w] : ~Noted(x)'
      <4> SUFFICES ASSUME NEW x \in overdue'[w] PROVE ~Noted(x)'
        OBVIOUS
      <4>1. x # id /\ x \in TicketIds /\ ~Noted(x)
        BY <1>1, <2>1, <2>2, <2>3, <2>7, <3>1 DEF ScanEffect, SlaTypeOK
      <4>2. ~EscalationPending(x)'
        BY <2>1, <3>1, <4>1, CallAssumption DEF EscalationPending, TicketIds
      <4> QED BY <3>2, <4>1, <4>2 DEF Noted
    <3> QED BY <1>1, <3>1, <3>2, <3>3, <3>4 DEF EscalatedAtMostOnce
  <2> QED BY <2>1, <2>5, <2>6, <2>7 DEF ScanEffect
<1>5. CASE (\E id \in TicketIds : Age(id)) \/ scheduleSlaScan
  BY <1>1, <1>3, <1>5, ClockStepInv DEF scanGhosts
<1>6. CASE [Next]_vars /\ UNCHANGED workerVars
  BY <1>3, <1>6 DEF workerVars, scanVars, scanGhosts
<1> QED BY <1>4, <1>5, <1>6, SlaSteps

LEMMA OnceInit == SlaInit => OnceInv
<1> SUFFICES ASSUME SlaInit PROVE OnceInv
  OBVIOUS
<1>1. SlaInv
  BY SlaInitInv
<1> QED BY <1>1 DEF SlaInit, OnceInv, EscalatedAtMostOnce, ListsAreFresh

\* One worker escalates no ticket twice, across any number of scans, retries,
\* stalled jobs, crashes and requests (escalateOverdueTickets).
THEOREM EscalatedOnce ==
  ASSUME OneWorker
  PROVE  SlaSpec => []EscalatedAtMostOnce
<1>1. OnceInv => EscalatedAtMostOnce
  BY DEF OnceInv
<1>2. OnceInv /\ [SlaNext]_systemVars => OnceInv'
  BY OnceStep
<1> QED BY <1>1, <1>2, OnceInit, PTL DEF SlaSpec
-----------------------------------------------------------------------------
(* The refinement: every step of the system is one of Escalation, or none *)

\* A step that leaves the worker its row and adds no event is none of Escalation.
LEMMA PromiseStutter ==
  ASSUME UNCHANGED <<breachedRow, escalations, silenced>>
  PROVE  UNCHANGED Promise!escalationVars
BY DEF Promise!escalationVars, Noticed, Owed, EscalationPending

\* Marking a row of a fresh list notices its ticket, emitting tells it, and a
\* failure in between loses it.
LEMMA PromiseScan ==
  ASSUME OnceInv, OneWorker, NEW w \in Workers, Scanning(w)
  PROVE  [Promise!Next]_(Promise!escalationVars)
<1>1. /\ SlaInv /\ SlaTypeOK /\ ListsAreFresh /\ Null \notin TicketIds
      /\ \A v \in Workers : v = w
      /\ ScanEffect(w)
  BY ScanningEffect, CallAssumption DEF OnceInv, SlaInv, OneWorker, TicketIds
<1>2. CASE QuietScan
  BY <1>2, PromiseStutter DEF QuietScan
<1>3. ASSUME NEW id, Marks(w, id) PROVE Promise!Next
  <2>1. /\ id \in TicketIds /\ id \in overdue[w] /\ breachedRow[w] = Null
        /\ breachedRow'[w] = id /\ UNCHANGED <<escalations, silenced>>
    BY <1>1, <1>3 DEF Marks, SlaTypeOK
  <2>2. id \notin Noticed
    BY <1>1, <2>1 DEF ListsAreFresh
  <2>3. Owed = {} /\ Owed' = {id}
    BY <1>1, <2>1 DEF Owed, EscalationPending
  <2>4. Noticed' = Noticed \cup {id}
    BY <2>1, <2>3 DEF Noticed
  <2>5. Promise!Notice(id)
    BY <2>1, <2>2, <2>3, <2>4 DEF Promise!Notice
  <2> QED BY <2>1, <2>5 DEF Promise!Next
<1>4. ASSUME NEW id, Tells(w, id) \/ Loses(w, id) PROVE Promise!Next
  <2>1. id \in TicketIds /\ breachedRow[w] = id /\ breachedRow'[w] = Null
    BY <1>1, <1>4 DEF Tells, Loses, Releases, SlaTypeOK
  <2>2. Owed = {id} /\ Owed' = {}
    BY <1>1, <2>1 DEF Owed, EscalationPending
  <2>3. CASE Tells(w, id)
    <3>1. {x \in TicketIds : escalations'[x] > 0}
            = {x \in TicketIds : escalations[x] > 0} \cup {id}
      BY <1>1, <2>1, <2>3 DEF Tells, SlaTypeOK
    <3>2. Noticed' = Noticed
      BY <2>2, <2>3, <3>1 DEF Noticed, Tells
    <3>3. Promise!Tell(id)
      BY <2>2, <2>3, <3>2 DEF Promise!Tell, Tells
    <3> QED BY <2>1, <3>3 DEF Promise!Next, Promise!Settle
  <2>4. CASE Loses(w, id)
    <3>1. Noticed' = Noticed
      BY <2>2, <2>4 DEF Noticed, Loses
    <3>2. Promise!Lose(id)
      BY <2>2, <2>4, <3>1 DEF Promise!Lose, Loses
    <3> QED BY <2>1, <3>2 DEF Promise!Next, Promise!Settle
  <2> QED BY <1>4, <2>3, <2>4
<1> QED BY <1>1, <1>2, <1>3, <1>4 DEF ScanEffect

LEMMA PromiseStep ==
  ASSUME OnceInv, OneWorker, [SlaNext]_systemVars
  PROVE  [Promise!Next]_(Promise!escalationVars)
<1>1. CASE (\E id \in TicketIds : Age(id)) \/ scheduleSlaScan
  BY <1>1, ClockStepInv, PromiseStutter DEF OnceInv, scanGhosts
<1>2. CASE [Next]_vars /\ UNCHANGED workerVars
  BY <1>2, PromiseStutter DEF workerVars, scanVars, scanGhosts
<1> QED BY <1>1, <1>2, SlaSteps, PromiseScan

LEMMA PromiseInit == SlaInit => Promise!Init
BY CallAssumption DEF SlaInit, Promise!Init, Noticed, Owed, EscalationPending, TicketIds

\* The scan, seen from outside, does nothing but what Escalation allows: a ticket
\* is noticed once at most, and its one event is told or lost, not both.
THEOREM EscalationRefined ==
  ASSUME OneWorker
  PROVE  SlaSpec => Promise!SafeSpec
<1>1. OnceInv /\ [SlaNext]_systemVars => OnceInv'
  BY OnceStep
<1>2. OnceInv /\ [SlaNext]_systemVars => [Promise!Next]_(Promise!escalationVars)
  BY PromiseStep
<1> QED BY <1>1, <1>2, OnceInit, PromiseInit, PTL DEF SlaSpec, Promise!SafeSpec
=============================================================================
