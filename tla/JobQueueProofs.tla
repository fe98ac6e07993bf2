--------------------------- MODULE JobQueueProofs ---------------------------
(***************************************************************************)
(* Proofs about JobQueue for every number of jobs, workers, slots and      *)
(* requests and every retry limit.                                         *)
(*                                                                         *)
(* The invariant of interest, BilledOnDelivery, is not inductive: a step   *)
(* that writes from a snapshot is safe only because of what the snapshot   *)
(* was when it was taken.  IInv adds that: tasks and requests refer to     *)
(* existing rows, a retry request read a count below the ceiling, an       *)
(* existing row has a hold, and a marker seen in a snapshot is the marker  *)
(* of a released hold, which stays released.                               *)
(***************************************************************************)
EXTENDS JobQueue, TLAPS

\* A busy slot or request works on a row that exists; a retry request passed
\* the ceiling check.
References ==
  /\ \A s \in Slots : task[s].pc # "idle" =>
       task[s].job \in Jobs /\ status[task[s].job] # "absent"
  /\ \A c \in Calls : call[c].op # "idle" =>
       call[c].job \in Jobs /\ status[call[c].job] # "absent"
  /\ \A c \in Calls : call[c].op = "retry" => call[c].retries < MaxRetries

\* A row and its hold are created together.
HoldWithRow ==
  \A j \in Jobs : /\ status[j] = "absent" <=> hold[j] = "none"
                  /\ status[j] = "absent" => result[j] = NoSlot

\* Snapshots of the marker are sound as well.
SeenMarkerSound ==
  /\ \A s \in Slots : task[s].pc # "idle" /\ task[s].marker =>
       hold[task[s].job] = "released"
  /\ \A c \in Calls : call[c].op # "idle" /\ call[c].marker =>
       hold[call[c].job] = "released"

IInv ==
  /\ TypeOK
  /\ References
  /\ HoldWithRow
  /\ BilledOnDelivery
  /\ MarkerSound
  /\ SeenMarkerSound

-----------------------------------------------------------------------------
\* The records the slots and the requests are set to have their types.
LEMMA TaskForms ==
  /\ IdleTask \in TaskType
  /\ \A j \in Jobs, n \in 0..MaxRetries, m \in BOOLEAN :
       \A p \in {"claimed", "scoring", "failing"} :
         [pc |-> p, job |-> j, retries |-> n, marker |-> m] \in TaskType
  BY JobQueueAssumption DEF TaskType, IdleTask

LEMMA CallForms ==
  /\ IdleCall \in CallType
  /\ \A o \in {"cancel", "retry", "reconcile"}, j \in Jobs, st \in Statuses,
       n \in 0..MaxRetries, m \in BOOLEAN :
       [op |-> o, job |-> j, status |-> st, retries |-> n, marker |-> m]
         \in CallType
  BY JobQueueAssumption DEF CallType, IdleCall, Statuses

LEMMA TaskFields ==
  \A t \in TaskType : /\ t.job \in Jobs \cup {NoJob}
                      /\ t.retries \in 0..MaxRetries
                      /\ t.marker \in BOOLEAN
  BY DEF TaskType

LEMMA CallFields ==
  \A t \in CallType : /\ t.job \in Jobs \cup {NoJob}
                      /\ t.retries \in 0..MaxRetries
                      /\ t.marker \in BOOLEAN
  BY DEF CallType

LEMMA StatusForms ==
  {"absent", "queued", "processing", "retrying", "completed", "cancelled",
   "dead_letter"} \subseteq Statuses
  BY DEF Statuses, Cacheable, Live

\* The initial state satisfies the inductive invariant.
LEMMA InitIInv == Init => IInv
  <1> SUFFICES ASSUME Init PROVE IInv
    OBVIOUS
  <1>1. TypeOK
    BY JobQueueAssumption, TaskForms, CallForms, StatusForms DEF Init, TypeOK
  <1>2. References /\ SeenMarkerSound
    BY DEF Init, References, SeenMarkerSound, IdleTask, IdleCall
  <1>3. HoldWithRow /\ BilledOnDelivery /\ MarkerSound
    BY DEF Init, HoldWithRow, BilledOnDelivery, MarkerSound
  <1> QED
    BY <1>1, <1>2, <1>3 DEF IInv

\* The columns of the rows alone.
RowsOK ==
  /\ status \in [Jobs -> Statuses]
  /\ owner \in [Jobs -> Workers \cup {NoWorker}]
  /\ leased \in [Jobs -> BOOLEAN]
  /\ due \in [Jobs -> BOOLEAN]
  /\ retries \in [Jobs -> 0..MaxRetries]
  /\ archived \in [Jobs -> BOOLEAN]
  /\ hold \in [Jobs -> {"none", "pending", "consumed", "released"}]
  /\ marker \in [Jobs -> BOOLEAN]
  /\ result \in [Jobs -> Slots \cup {NoSlot}]
  /\ dlq \in [Jobs -> {"none", "pending", "reprocessed"}]

LocalsOK == task \in [Slots -> TaskType] /\ call \in [Calls -> CallType]

LEMMA TypeParts == TypeOK <=> RowsOK /\ LocalsOK
  BY DEF TypeOK, RowsOK, LocalsOK

\* A step of a slot that leaves the requests alone.
LEMMA TaskStep ==
  ASSUME LocalsOK, NEW s \in Slots, NEW t \in TaskType,
         task' = [task EXCEPT ![s] = t], call' = call
  PROVE LocalsOK'
  BY DEF LocalsOK

LEMMA CallStep ==
  ASSUME LocalsOK, NEW c \in Calls, NEW t \in CallType,
         call' = [call EXCEPT ![c] = t], task' = task
  PROVE LocalsOK'
  BY DEF LocalsOK

\* Every step preserves the types of the rows: the counts written back from
\* snapshots stay below the ceiling because their readers checked it.
LEMMA RowsStep == RowsOK /\ LocalsOK /\ References /\ [Next]_vars => RowsOK'
  <1> SUFFICES ASSUME RowsOK, LocalsOK, References, [Next]_vars PROVE RowsOK'
    OBVIOUS
  <1>a. \A s \in Slots : task[s].retries \in 0..MaxRetries /\ task[s].marker \in BOOLEAN
    BY TaskFields DEF LocalsOK
  <1>b. \A c \in Calls : call[c].retries \in 0..MaxRetries /\ call[c].marker \in BOOLEAN
    BY CallFields DEF LocalsOK
  <1>1. ASSUME NEW s \in Slots, NEW j \in Jobs, Claim(s, j) PROVE RowsOK'
    BY <1>1, JobQueueAssumption, StatusForms DEF Claim, holdVars, RowsOK
  <1>2. ASSUME NEW s \in Slots, Start(s) PROVE RowsOK'
    BY <1>2 DEF Start, holdVars, jobVars, RowsOK
  <1>3. ASSUME NEW s \in Slots, Heartbeat(s) PROVE RowsOK'
    BY <1>3 DEF Heartbeat, holdVars, RowsOK
  <1>4. ASSUME NEW s \in Slots, Commit(s) PROVE RowsOK'
    BY <1>4, <1>a, StatusForms DEF Commit, ConsumeHold, holdVars, RowsOK
  <1>5. ASSUME NEW s \in Slots, Fail(s) PROVE RowsOK'
    BY <1>5 DEF Fail, holdVars, jobVars, RowsOK
  <1>6. ASSUME NEW s \in Slots, RetryLater(s) PROVE RowsOK'
    <2>1. task[s].retries + 1 \in 0..MaxRetries
      BY <1>6, <1>a, JobQueueAssumption DEF RetryLater
    <2> QED
      BY <1>6, <2>1, StatusForms DEF RetryLater, holdVars, RowsOK
  <1>7. ASSUME NEW s \in Slots, GiveUp(s) PROVE RowsOK'
    BY <1>7, <1>a, StatusForms DEF GiveUp, DeadLetter, ReleaseHold, RowsOK
  <1>8. ASSUME NEW s \in Slots, Abandon(s) PROVE RowsOK'
    BY <1>8 DEF Abandon, jobVars, holdVars, RowsOK
  <1>9. ASSUME NEW c \in Calls, NEW j \in Jobs,
               CancelRead(c, j) \/ RetryRead(c, j) \/ ReconcileRead(c, j)
        PROVE RowsOK'
    BY <1>9
       DEF CancelRead, RetryRead, ReconcileRead, Read, jobVars, holdVars, RowsOK
  <1>10. ASSUME NEW c \in Calls, CancelWrite(c) PROVE RowsOK'
    BY <1>10, <1>b, StatusForms DEF CancelWrite, ReleaseHold, RowsOK
  <1>11. ASSUME NEW c \in Calls, RetryWrite(c) PROVE RowsOK'
    BY <1>11, <1>b, JobQueueAssumption, StatusForms
       DEF RetryWrite, holdVars, References, RowsOK
  <1>12. ASSUME NEW c \in Calls, ReconcileWrite(c) PROVE RowsOK'
    BY <1>12 DEF ReconcileWrite, jobVars, holdVars, RowsOK
  <1>13. ASSUME NEW j \in Jobs, Insert(j),
                dlq' \in [Jobs -> {"none", "pending", "reprocessed"}]
         PROVE RowsOK'
    BY <1>13, StatusForms DEF Insert, HasHash, RowsOK
  <1>14. ASSUME NEW j \in Jobs, Enqueue(j) PROVE RowsOK'
    BY <1>13, <1>14 DEF Enqueue, RowsOK
  <1>15. ASSUME NEW d \in Jobs, RetryDeadLetter(d) PROVE RowsOK'
    <2>1. dlq' \in [Jobs -> {"none", "pending", "reprocessed"}]
      BY <1>15 DEF RetryDeadLetter, RowsOK
    <2>2. CASE UNCHANGED <<jobVars, holdVars, result, task, call>>
      BY <2>1, <2>2 DEF jobVars, holdVars, RowsOK
    <2> QED
      BY <1>13, <1>15, <2>1, <2>2 DEF RetryDeadLetter
  <1>16. ASSUME NEW j \in Jobs, LeaseLapses(j) \/ BackoffElapses(j) PROVE RowsOK'
    BY <1>16 DEF LeaseLapses, BackoffElapses, holdVars, RowsOK
  <1>17. ASSUME NEW j \in Jobs, RecoverStale(j) PROVE RowsOK'
    <2>1. CASE DeadLetter(j, marker[j]) /\ UNCHANGED <<owner, due, retries, leased, result>>
      BY <2>1, StatusForms DEF DeadLetter, ReleaseHold, RowsOK
    <2>2. CASE /\ retries[j] < MaxRetries
               /\ status' = [status EXCEPT ![j] = "retrying"]
               /\ retries' = [retries EXCEPT ![j] = @ + 1]
               /\ due' = [due EXCEPT ![j] = FALSE]
               /\ owner' = [owner EXCEPT ![j] = NoWorker]
               /\ UNCHANGED <<archived, holdVars, dlq, leased, result>>
      BY <2>2, JobQueueAssumption, StatusForms DEF holdVars, RowsOK
    <2> QED
      BY <1>17, <2>1, <2>2 DEF RecoverStale
  <1>18. CASE UNCHANGED vars
    BY <1>18 DEF vars, jobVars, holdVars, RowsOK
  <1> QED
    BY <1>1, <1>2, <1>3, <1>4, <1>5, <1>6, <1>7, <1>8, <1>9, <1>10, <1>11,
       <1>12, <1>14, <1>15, <1>16, <1>17, <1>18
       DEF Next, SlotNext, CallNext, JobNext

\* ... and the types of what slots and requests keep.
LEMMA LocalsStep == RowsOK /\ LocalsOK /\ References /\ [Next]_vars => LocalsOK'
  <1> SUFFICES ASSUME RowsOK, LocalsOK, References, [Next]_vars PROVE LocalsOK'
    OBVIOUS
  <1>a. ASSUME NEW s \in Slots, Finish(s), call' = call PROVE LocalsOK'
    BY <1>a, TaskForms, TaskStep DEF Finish
  <1>b. ASSUME NEW c \in Calls, Reply(c), task' = task PROVE LocalsOK'
    BY <1>b, CallForms, CallStep DEF Reply
  <1>c. ASSUME NEW s \in Slots, NEW j \in Jobs, NEW p \in {"claimed", "scoring", "failing"},
               NEW n \in 0..MaxRetries, NEW m \in BOOLEAN, call' = call,
               task' = [task EXCEPT ![s] = [pc |-> p, job |-> j, retries |-> n, marker |-> m]]
        PROVE LocalsOK'
    BY <1>c, TaskForms, TaskStep
  <1>d. 0 \in 0..MaxRetries
    BY JobQueueAssumption
  <1>e. \A j \in Jobs : /\ status[j] \in Statuses
                        /\ retries[j] \in 0..MaxRetries
                        /\ marker[j] \in BOOLEAN
    BY DEF RowsOK
  <1>1. ASSUME NEW s \in Slots, NEW j \in Jobs, Claim(s, j) PROVE LocalsOK'
    BY <1>1, <1>c, <1>d DEF Claim
  <1>2. ASSUME NEW s \in Slots, Start(s) PROVE LocalsOK'
    <2>1. task[s].job \in Jobs /\ marker[task[s].job] \in BOOLEAN
      BY <1>2, <1>e DEF Start, References
    <2> QED
      BY <1>2, <1>a, <1>c, <1>d, <2>1 DEF Start
  <1>3. ASSUME NEW s \in Slots, Fail(s) PROVE LocalsOK'
    <2>1. /\ task[s].job \in Jobs
          /\ retries[task[s].job] \in 0..MaxRetries
          /\ marker[task[s].job] \in BOOLEAN
      BY <1>3, <1>e DEF Fail, References
    <2> QED
      BY <1>3, <1>a, <1>c, <2>1 DEF Fail
  <1>4. ASSUME NEW s \in Slots,
               Commit(s) \/ RetryLater(s) \/ GiveUp(s) \/ Abandon(s)
        PROVE LocalsOK'
    BY <1>4, <1>a DEF Commit, RetryLater, GiveUp, Abandon
  <1>5. ASSUME NEW c \in Calls, NEW j \in Jobs, NEW op \in {"cancel", "retry", "reconcile"},
               Read(c, op, j)
        PROVE LocalsOK'
    <2> DEFINE r == [op |-> op, job |-> j, status |-> status[j],
                     retries |-> retries[j], marker |-> marker[j]]
    <2>1. r \in CallType
      BY <1>e, CallForms
    <2>2. call' = [call EXCEPT ![c] = r] /\ task' = task
      BY <1>5 DEF Read
    <2> HIDE DEF r
    <2> QED
      BY <2>1, <2>2, CallStep
  <1>6. ASSUME NEW c \in Calls, NEW j \in Jobs,
               CancelRead(c, j) \/ RetryRead(c, j) \/ ReconcileRead(c, j)
        PROVE LocalsOK'
    BY <1>5, <1>6 DEF CancelRead, RetryRead, ReconcileRead
  <1>7. ASSUME NEW c \in Calls, CancelWrite(c) \/ RetryWrite(c) \/ ReconcileWrite(c)
        PROVE LocalsOK'
    BY <1>7, <1>b DEF CancelWrite, RetryWrite, ReconcileWrite
  <1>8. ASSUME task' = task, call' = call PROVE LocalsOK'
    BY <1>8 DEF LocalsOK
  <1>9. ASSUME NEW s \in Slots, Heartbeat(s) PROVE LocalsOK'
    BY <1>8, <1>9 DEF Heartbeat
  <1>10. ASSUME NEW j \in Jobs, JobNext(j) PROVE LocalsOK'
    BY <1>8, <1>10 DEF JobNext, Enqueue, Insert, RetryDeadLetter, LeaseLapses,
                       BackoffElapses, RecoverStale
  <1>11. CASE UNCHANGED vars
    BY <1>8, <1>11 DEF vars
  <1> QED
    BY <1>1, <1>2, <1>3, <1>4, <1>6, <1>7, <1>9, <1>10, <1>11
       DEF Next, SlotNext, CallNext

LEMMA TypeStep == TypeOK /\ References /\ [Next]_vars => TypeOK'
  <1>1. TypeOK' <=> RowsOK' /\ LocalsOK'
    BY DEF TypeOK, RowsOK, LocalsOK
  <1> QED
    BY <1>1, TypeParts, RowsStep, LocalsStep

-----------------------------------------------------------------------------
(* What a step can do to the rows, the holds, the markers and the results.  *)

SamePresence == \A k \in Jobs : status'[k] = "absent" <=> status[k] = "absent"

Opens(j) == Insert(j)

Delivers(s) == Commit(s) /\ OwnsLease(s)

\* Some failure, cancellation or reconciliation tries to release j's hold.
Releases(j, m) ==
  /\ status[j] # "absent"
  /\ m \in BOOLEAN
  /\ m => hold[j] = "released"
  /\ ReleaseHold(j, m)
  /\ result' = result
  /\ SamePresence

KeepsMoney == UNCHANGED <<hold, marker, result>> /\ SamePresence

\* Every step opens a hold, delivers a result, releases a hold or does nothing
\* to the money; nothing else in the code writes it.
LEMMA MoneySteps ==
  ASSUME IInv, [Next]_vars
  PROVE \/ \E j \in Jobs : Opens(j)
        \/ \E s \in Slots : Delivers(s)
        \/ \E j \in Jobs, m \in BOOLEAN : Releases(j, m)
        \/ KeepsMoney
  <1> DEFINE Goal == \/ \E j \in Jobs : Opens(j)
                     \/ \E s \in Slots : Delivers(s)
                     \/ \E j \in Jobs, m \in BOOLEAN : Releases(j, m)
                     \/ KeepsMoney
  <1> USE DEF SamePresence
  <1>a. RowsOK /\ References /\ MarkerSound /\ SeenMarkerSound
    BY TypeParts DEF IInv
  <1>b. ASSUME UNCHANGED <<hold, marker, result, status>> PROVE Goal
    BY <1>b DEF KeepsMoney
  <1>c. ASSUME NEW j \in Jobs, NEW v, v # "absent", status[j] # "absent",
               status' = [status EXCEPT ![j] = v],
               UNCHANGED <<hold, marker, result>>
        PROVE Goal
    BY <1>a, <1>c DEF KeepsMoney, RowsOK
  <1>d. ASSUME NEW j \in Jobs, NEW m \in BOOLEAN, m => hold[j] = "released",
               status[j] # "absent", DeadLetter(j, m), result' = result
        PROVE Goal
    BY <1>a, <1>d DEF Releases, DeadLetter, RowsOK
  <1>1. ASSUME NEW s \in Slots, NEW j \in Jobs, Claim(s, j) PROVE Goal
    BY <1>1, <1>c DEF Claim, holdVars
  <1>2. ASSUME NEW s \in Slots, Start(s) \/ Heartbeat(s) \/ Fail(s) \/ Abandon(s)
        PROVE Goal
    BY <1>2, <1>b DEF Start, Heartbeat, Fail, Abandon, jobVars, holdVars
  <1>3. ASSUME NEW s \in Slots, Commit(s) PROVE Goal
    <2>1. CASE OwnsLease(s)
      BY <1>3, <2>1 DEF Delivers
    <2>2. CASE ~OwnsLease(s)
      BY <1>3, <1>b, <2>2 DEF Commit, holdVars
    <2> QED
      BY <2>1, <2>2
  <1>4. ASSUME NEW s \in Slots, RetryLater(s) PROVE Goal
    BY <1>4, <1>a, <1>c DEF RetryLater, holdVars, References
  <1>5. ASSUME NEW s \in Slots, GiveUp(s) PROVE Goal
    <2>1. task[s].marker \in BOOLEAN
      BY TaskFields DEF IInv, TypeOK
    <2>2. /\ task[s].job \in Jobs /\ status[task[s].job] # "absent"
          /\ task[s].marker => hold[task[s].job] = "released"
      BY <1>5, <1>a DEF GiveUp, References, SeenMarkerSound
    <2> QED
      BY <1>5, <1>d, <2>1, <2>2 DEF GiveUp
  <1>6. ASSUME NEW c \in Calls, NEW j \in Jobs,
               CancelRead(c, j) \/ RetryRead(c, j) \/ ReconcileRead(c, j)
        PROVE Goal
    BY <1>6, <1>b
       DEF CancelRead, RetryRead, ReconcileRead, Read, jobVars, holdVars
  <1>7. ASSUME NEW c \in Calls, CancelWrite(c) PROVE Goal
    <2> DEFINE j == call[c].job
    <2>1. call[c].marker \in BOOLEAN
      BY CallFields DEF IInv, TypeOK
    <2>2. /\ j \in Jobs /\ status[j] # "absent"
          /\ call[c].marker => hold[j] = "released"
      BY <1>7, <1>a DEF CancelWrite, References, SeenMarkerSound
    <2>3. SamePresence
      BY <1>7, <1>a, <2>2 DEF CancelWrite, RowsOK
    <2> QED
      BY <1>7, <2>1, <2>2, <2>3 DEF CancelWrite, Releases
  <1>8. ASSUME NEW c \in Calls, RetryWrite(c) PROVE Goal
    BY <1>8, <1>a, <1>c DEF RetryWrite, holdVars, References
  <1>9. ASSUME NEW c \in Calls, ReconcileWrite(c) PROVE Goal
    <2> DEFINE j == call[c].job
    <2>1. j \in Jobs /\ status[j] # "absent"
      BY <1>9, <1>a DEF ReconcileWrite, References
    <2>2. CASE UNCHANGED holdVars
      BY <1>9, <1>b, <2>2 DEF ReconcileWrite, jobVars, holdVars
    <2>3. CASE /\ Pending(j)
               /\ hold' = [hold EXCEPT ![j] = "released"]
               /\ marker' = [marker EXCEPT ![j] = TRUE]
      BY <1>9, <2>1, <2>3 DEF ReconcileWrite, jobVars, Releases, ReleaseHold
    <2> QED
      BY <1>9, <2>2, <2>3 DEF ReconcileWrite
  <1>10. ASSUME NEW d \in Jobs, Enqueue(d) \/ RetryDeadLetter(d) PROVE Goal
    BY <1>10, <1>b DEF Enqueue, RetryDeadLetter, Opens, jobVars, holdVars
  <1>11. ASSUME NEW j \in Jobs, LeaseLapses(j) \/ BackoffElapses(j) PROVE Goal
    BY <1>11, <1>b DEF LeaseLapses, BackoffElapses, holdVars
  <1>12. ASSUME NEW j \in Jobs, RecoverStale(j) PROVE Goal
    <2>1. /\ status[j] # "absent"
          /\ marker[j] \in BOOLEAN
          /\ marker[j] => hold[j] = "released"
      BY <1>12, <1>a DEF RecoverStale, Stale, MarkerSound, RowsOK
    <2>2. CASE DeadLetter(j, marker[j])
      BY <1>12, <1>d, <2>1, <2>2 DEF RecoverStale
    <2>3. CASE ~DeadLetter(j, marker[j])
      BY <1>12, <1>c, <2>1, <2>3 DEF RecoverStale, holdVars
    <2> QED
      BY <2>2, <2>3
  <1>13. CASE UNCHANGED vars
    BY <1>13, <1>b DEF vars, jobVars, holdVars
  <1> QED
    BY <1>1, <1>2, <1>3, <1>4, <1>5, <1>6, <1>7, <1>8, <1>9, <1>10, <1>11,
       <1>12, <1>13 DEF Next, SlotNext, CallNext, JobNext

\* Money only moves forward: rows stay, released holds stay released.
LEMMA MoneyPersists ==
  ASSUME IInv, [Next]_vars, NEW j \in Jobs
  PROVE /\ status[j] # "absent" => status'[j] # "absent"
        /\ hold[j] = "released" => hold'[j] = "released"
  <1>a. RowsOK /\ References
    BY TypeParts DEF IInv
  <1>1. ASSUME NEW k \in Jobs, Opens(k)
        PROVE /\ status[j] # "absent" => status'[j] # "absent"
              /\ hold[j] = "released" => hold'[j] = "released"
    BY <1>1, <1>a DEF Opens, Insert, IInv, HoldWithRow, RowsOK
  <1>2. ASSUME NEW s \in Slots, Delivers(s)
        PROVE /\ status[j] # "absent" => status'[j] # "absent"
              /\ hold[j] = "released" => hold'[j] = "released"
    BY <1>2, <1>a DEF Delivers, Commit, ConsumeHold, Pending, References, RowsOK
  <1>3. ASSUME NEW k \in Jobs, NEW m \in BOOLEAN, Releases(k, m)
        PROVE /\ status[j] # "absent" => status'[j] # "absent"
              /\ hold[j] = "released" => hold'[j] = "released"
    BY <1>3, <1>a DEF Releases, ReleaseHold, SamePresence, RowsOK
  <1>4. CASE KeepsMoney
    BY <1>4 DEF KeepsMoney, SamePresence
  <1> QED
    BY <1>1, <1>2, <1>3, <1>4, MoneySteps

\* What a slot holds after a step is sound for the rows before it.
LEMMA TasksRefer ==
  ASSUME IInv, [Next]_vars, NEW s \in Slots, task'[s].pc # "idle"
  PROVE /\ task'[s].job \in Jobs
        /\ status[task'[s].job] # "absent"
        /\ task'[s].marker => hold[task'[s].job] = "released"
  <1> DEFINE Sound(t) == /\ t.job \in Jobs
                         /\ status[t.job] # "absent"
                         /\ t.marker => hold[t.job] = "released"
             Goal == Sound(task'[s])
  <1>a. task \in [Slots -> TaskType] /\ References /\ MarkerSound /\ SeenMarkerSound
    BY DEF IInv, TypeOK
  <1>b. ASSUME task'[s] = task[s] PROVE Goal
    BY <1>a, <1>b DEF References, SeenMarkerSound
  <1>c. ASSUME NEW r \in Slots, Finish(r) PROVE Goal
    BY <1>a, <1>b, <1>c DEF Finish, IdleTask
  <1>d. ASSUME NEW r \in Slots, NEW j \in Jobs, NEW p, NEW n, NEW m,
               status[j] # "absent", m => hold[j] = "released",
               task' = [task EXCEPT ![r] = [pc |-> p, job |-> j, retries |-> n, marker |-> m]]
        PROVE Goal
    BY <1>a, <1>b, <1>d
  <1>e. ASSUME NEW r \in Slots, task[r].pc # "idle"
        PROVE LET j == task[r].job IN
              j \in Jobs /\ status[j] # "absent" /\ (marker[j] => hold[j] = "released")
    BY <1>a, <1>e DEF References, MarkerSound
  <1> HIDE DEF Goal
  <1>1. ASSUME NEW r \in Slots, NEW j \in Jobs, Claim(r, j) PROVE Goal
    BY <1>1, <1>d DEF Claim
  <1>2. ASSUME NEW r \in Slots, Start(r) \/ Fail(r) PROVE Goal
    <2> DEFINE j == task[r].job
    <2>1. j \in Jobs /\ status[j] # "absent" /\ (marker[j] => hold[j] = "released")
      BY <1>2, <1>e DEF Start, Fail
    <2> QED
      BY <1>2, <1>c, <1>d, <2>1 DEF Start, Fail
  <1>3. ASSUME NEW r \in Slots,
               Commit(r) \/ RetryLater(r) \/ GiveUp(r) \/ Abandon(r)
        PROVE Goal
    BY <1>3, <1>c DEF Commit, RetryLater, GiveUp, Abandon
  <1>4. ASSUME task' = task PROVE Goal
    BY <1>b, <1>4
  <1>5. ASSUME NEW r \in Slots, Heartbeat(r) PROVE Goal
    BY <1>4, <1>5 DEF Heartbeat
  <1>6. ASSUME NEW c \in Calls, CallNext(c) PROVE Goal
    BY <1>4, <1>6 DEF CallNext, CancelRead, RetryRead, ReconcileRead, Read,
                      CancelWrite, RetryWrite, ReconcileWrite
  <1>7. ASSUME NEW j \in Jobs, JobNext(j) PROVE Goal
    BY <1>4, <1>7 DEF JobNext, Enqueue, Insert, RetryDeadLetter, LeaseLapses,
                      BackoffElapses, RecoverStale
  <1>8. ASSUME UNCHANGED vars PROVE Goal
    BY <1>4, <1>8 DEF vars
  <1>9. Goal
    BY <1>1, <1>2, <1>3, <1>5, <1>6, <1>7, <1>8 DEF Next, SlotNext
  <1> QED
    BY <1>9 DEF Goal

\* ... and so is what a request holds.
LEMMA CallsRefer ==
  ASSUME IInv, [Next]_vars, NEW c \in Calls, call'[c].op # "idle"
  PROVE /\ call'[c].job \in Jobs
        /\ status[call'[c].job] # "absent"
        /\ call'[c].marker => hold[call'[c].job] = "released"
        /\ call'[c].op = "retry" => call'[c].retries < MaxRetries
  <1> DEFINE Sound(t) == /\ t.job \in Jobs
                         /\ status[t.job] # "absent"
                         /\ t.marker => hold[t.job] = "released"
                         /\ t.op = "retry" => t.retries < MaxRetries
             Goal == Sound(call'[c])
  <1>a. call \in [Calls -> CallType] /\ References /\ MarkerSound /\ SeenMarkerSound
    BY DEF IInv, TypeOK
  <1>b. ASSUME call'[c] = call[c] PROVE Goal
    BY <1>a, <1>b DEF References, SeenMarkerSound
  <1>c. ASSUME NEW d \in Calls, Reply(d) PROVE Goal
    BY <1>a, <1>b, <1>c DEF Reply, IdleCall
  <1> HIDE DEF Goal
  <1>1. ASSUME NEW d \in Calls, NEW j \in Jobs, NEW op, Read(d, op, j),
               status[j] # "absent", op = "retry" => retries[j] < MaxRetries
        PROVE Goal
    <2>1. CASE c = d
      BY <1>a, <1>1, <2>1 DEF Read, MarkerSound, Goal
    <2>2. CASE c # d
      BY <1>a, <1>b, <1>1, <2>2 DEF Read
    <2> QED
      BY <2>1, <2>2
  <1>2. ASSUME NEW d \in Calls, NEW j \in Jobs,
               CancelRead(d, j) \/ RetryRead(d, j) \/ ReconcileRead(d, j)
        PROVE Goal
    <2>1. CASE CancelRead(d, j)
      BY <1>1, <2>1 DEF CancelRead, CanCancel
    <2>2. CASE RetryRead(d, j)
      BY <1>1, <2>2 DEF RetryRead, CanRetry
    <2>3. CASE ReconcileRead(d, j)
      BY <1>1, <2>3 DEF ReconcileRead, Abandoned, Pending, IInv, HoldWithRow
    <2> QED
      BY <1>2, <2>1, <2>2, <2>3
  <1>3. ASSUME NEW d \in Calls, CancelWrite(d) \/ RetryWrite(d) \/ ReconcileWrite(d)
        PROVE Goal
    BY <1>3, <1>c DEF CancelWrite, RetryWrite, ReconcileWrite
  <1>4. ASSUME call' = call PROVE Goal
    BY <1>b, <1>4
  <1>5. ASSUME NEW s \in Slots, SlotNext(s) PROVE Goal
    BY <1>4, <1>5 DEF SlotNext, Claim, Start, Heartbeat, Commit, Fail, RetryLater,
                      GiveUp, Abandon
  <1>6. ASSUME NEW j \in Jobs, JobNext(j) PROVE Goal
    BY <1>4, <1>6 DEF JobNext, Enqueue, Insert, RetryDeadLetter, LeaseLapses,
                      BackoffElapses, RecoverStale
  <1>7. ASSUME UNCHANGED vars PROVE Goal
    BY <1>4, <1>7 DEF vars
  <1>8. Goal
    BY <1>2, <1>3, <1>5, <1>6, <1>7 DEF Next, CallNext
  <1> QED
    BY <1>8 DEF Goal

LEMMA ReferencesStep == IInv /\ [Next]_vars => References' /\ SeenMarkerSound'
  <1> SUFFICES ASSUME IInv, [Next]_vars PROVE References' /\ SeenMarkerSound'
    OBVIOUS
  <1>1. ASSUME NEW s \in Slots, task'[s].pc # "idle"
        PROVE /\ task'[s].job \in Jobs /\ status'[task'[s].job] # "absent"
              /\ task'[s].marker => hold'[task'[s].job] = "released"
    BY <1>1, TasksRefer, MoneyPersists
  <1>2. ASSUME NEW c \in Calls, call'[c].op # "idle"
        PROVE /\ call'[c].job \in Jobs /\ status'[call'[c].job] # "absent"
              /\ call'[c].marker => hold'[call'[c].job] = "released"
              /\ call'[c].op = "retry" => call'[c].retries < MaxRetries
    BY <1>2, CallsRefer, MoneyPersists
  <1> QED
    BY <1>1, <1>2 DEF References, SeenMarkerSound

\* The money invariants, one case for each thing a step can do to the money.
LEMMA MoneyStep ==
  IInv /\ [Next]_vars => HoldWithRow' /\ BilledOnDelivery' /\ MarkerSound'
  <1> DEFINE Goal == HoldWithRow' /\ BilledOnDelivery' /\ MarkerSound'
  <1> SUFFICES ASSUME IInv, [Next]_vars PROVE Goal
    OBVIOUS
  <1>a. RowsOK /\ References /\ HoldWithRow /\ BilledOnDelivery /\ MarkerSound
    BY TypeParts DEF IInv
  <1> USE DEF HoldWithRow, BilledOnDelivery, MarkerSound
  <1>1. ASSUME NEW j \in Jobs, Opens(j) PROVE Goal
    BY <1>1, <1>a DEF Opens, Insert, RowsOK
  <1>2. ASSUME NEW s \in Slots, Delivers(s) PROVE Goal
    <2> DEFINE j == task[s].job
    <2>1. j \in Jobs /\ status[j] = "processing" /\ s # NoSlot
      BY <1>2, <1>a, JobQueueAssumption DEF Delivers, Commit, OwnsLease, References
    <2>2. /\ status' = [status EXCEPT ![j] = "completed"]
          /\ hold' = [hold EXCEPT ![j] = IF hold[j] = "pending" THEN "consumed" ELSE hold[j]]
      BY <1>2 DEF Delivers, Commit, ConsumeHold, Pending
    <2>3. CASE HasResult(j)
      <3>1. UNCHANGED <<result, marker>>
        BY <1>2, <2>3 DEF Delivers, Commit
      <3> QED
        BY <1>a, <2>1, <2>2, <2>3, <3>1 DEF HasResult, RowsOK
    <2>4. CASE ~HasResult(j)
      <3>1. /\ result' = [result EXCEPT ![j] = s]
            /\ marker' = [marker EXCEPT ![j] = task[s].marker]
        BY <1>2, <2>4 DEF Delivers, Commit
      <3>2. task[s].marker => hold[j] = "released"
        BY <1>2 DEF Delivers, Commit, IInv, SeenMarkerSound
      <3> QED
        BY <1>a, <2>1, <2>2, <2>4, <3>1, <3>2 DEF HasResult, RowsOK
    <2> QED
      BY <2>3, <2>4
  <1>3. ASSUME NEW j \in Jobs, NEW m \in BOOLEAN, Releases(j, m) PROVE Goal
    BY <1>3, <1>a DEF Releases, ReleaseHold, Pending, SamePresence, RowsOK
  <1>4. CASE KeepsMoney
    BY <1>4, <1>a DEF KeepsMoney, SamePresence
  <1> QED
    BY <1>1, <1>2, <1>3, <1>4, MoneySteps

LEMMA IInvStep == IInv /\ [Next]_vars => IInv'
  <1> SUFFICES ASSUME IInv, [Next]_vars PROVE IInv'
    OBVIOUS
  <1>1. TypeOK'
    BY TypeStep DEF IInv
  <1> QED
    BY <1>1, ReferencesStep, MoneyStep DEF IInv

\* The inductive invariant holds in every reachable state.
THEOREM Inductive == Spec => []IInv
  BY InitIInv, IInvStep, PTL DEF Spec

\* Every column and local keeps to its type; retry_count keeps to max_retries.
THEOREM TypeCorrect == Spec => []TypeOK
  <1>1. IInv => TypeOK
    BY DEF IInv
  <1> QED
    BY Inductive, <1>1, PTL

\* No tenant is charged without a result and no stored result leaves its hold
\* open, for any number of jobs, workers, requests and retries.
THEOREM BilledOnDeliveryHolds == Spec => []BilledOnDelivery
  <1>1. IInv => BilledOnDelivery
    BY DEF IInv
  <1> QED
    BY Inductive, <1>1, PTL

\* The quota_released marker is never set on a hold that was not released,
\* although it is only ever written back from stale copies.
THEOREM MarkerSoundHolds == Spec => []MarkerSound
  <1>1. IInv => MarkerSound
    BY DEF IInv
  <1> QED
    BY Inductive, <1>1, PTL

LEMMA ResultKept ==
  ASSUME IInv, [Next]_vars, NEW j \in Jobs, result[j] # NoSlot
  PROVE result'[j] = result[j]
  <1>a. RowsOK
    BY TypeParts DEF IInv
  <1>1. ASSUME NEW s \in Slots, Delivers(s) PROVE result'[j] = result[j]
    BY <1>1, <1>a DEF Delivers, Commit, HasResult, RowsOK
  <1> QED
    BY <1>1, MoneySteps DEF Opens, Insert, Releases, KeepsMoney

\* A stored result is never replaced, by any attempt of any worker.
THEOREM ResultImmutableHolds == Spec => ResultImmutable
  <1> DEFINE Step == \A j \in Jobs : result[j] # NoSlot => result'[j] = result[j]
  <1>1. IInv /\ [Next]_vars => [Step]_result
    BY ResultKept
  <1> QED
    BY Inductive, <1>1, PTL DEF Spec, ResultImmutable

\* Dead rows stay out of the way of new submissions and leave a dead letter.
THEOREM TerminalParkedHolds == Spec => []TerminalParked
  <1>1. Init => TerminalParked
    BY DEF Init, TerminalParked
  <1>2. IInv /\ TerminalParked /\ [Next]_vars => TerminalParked'
    <2> SUFFICES ASSUME IInv, TerminalParked, [Next]_vars PROVE TerminalParked'
      OBVIOUS
    <2>a. RowsOK /\ References
      BY TypeParts DEF IInv
    <2> USE DEF TerminalParked
    <2>b. ASSUME UNCHANGED <<status, archived, dlq>> PROVE TerminalParked'
      BY <2>b
    <2>c. ASSUME NEW j \in Jobs, UNCHANGED <<archived, dlq>>,
                 NEW v, v \notin {"failed", "cancelled", "dead_letter"},
                 status' = [status EXCEPT ![j] = v]
          PROVE TerminalParked'
      BY <2>a, <2>c DEF RowsOK
    <2>d. ASSUME NEW j \in Jobs, NEW m, DeadLetter(j, m) PROVE TerminalParked'
      BY <2>a, <2>d DEF DeadLetter, RowsOK
    <2>e. ASSUME NEW j \in Jobs, Insert(j),
                 \A k \in Jobs : dlq[k] # "none" => dlq'[k] # "none"
          PROVE TerminalParked'
      BY <2>a, <2>e DEF Insert, RowsOK
    <2>1. ASSUME NEW s \in Slots, NEW j \in Jobs, Claim(s, j) PROVE TerminalParked'
      BY <2>1, <2>c DEF Claim
    <2>2. ASSUME NEW s \in Slots, Start(s) \/ Heartbeat(s) \/ Fail(s) \/ Abandon(s)
          PROVE TerminalParked'
      BY <2>2, <2>b DEF Start, Heartbeat, Fail, Abandon, jobVars
    <2>3. ASSUME NEW s \in Slots, Commit(s) PROVE TerminalParked'
      <3>1. task[s].job \in Jobs
        BY <2>3, <2>a DEF Commit, References
      <3> QED
        BY <2>3, <2>b, <2>c, <3>1 DEF Commit
    <2>4. ASSUME NEW s \in Slots, RetryLater(s) PROVE TerminalParked'
      BY <2>4, <2>a, <2>c DEF RetryLater, References
    <2>5. ASSUME NEW s \in Slots, GiveUp(s) PROVE TerminalParked'
      BY <2>5, <2>a, <2>d DEF GiveUp, References
    <2>6. ASSUME NEW c \in Calls, NEW j \in Jobs,
                 CancelRead(c, j) \/ RetryRead(c, j) \/ ReconcileRead(c, j)
          PROVE TerminalParked'
      BY <2>6, <2>b DEF CancelRead, RetryRead, ReconcileRead, Read, jobVars
    <2>7. ASSUME NEW c \in Calls, CancelWrite(c) PROVE TerminalParked'
      <3> DEFINE j == call[c].job
      <3>1. j \in Jobs
        BY <2>7, <2>a DEF CancelWrite, References
      <3>2. /\ dlq' = dlq
            /\ archived' = [archived EXCEPT ![j] = TRUE]
            /\ \/ status' = [status EXCEPT ![j] = "cancelled"]
               \/ status' = [status EXCEPT ![j] = status[j]]
        BY <2>7 DEF CancelWrite
      <3> QED
        BY <2>a, <3>1, <3>2 DEF RowsOK
    <2>8. ASSUME NEW c \in Calls, RetryWrite(c) PROVE TerminalParked'
      BY <2>8, <2>a, <2>c DEF RetryWrite, References
    <2>9. ASSUME NEW c \in Calls, ReconcileWrite(c) PROVE TerminalParked'
      BY <2>9, <2>b DEF ReconcileWrite, jobVars
    <2>10. ASSUME NEW j \in Jobs, Enqueue(j) PROVE TerminalParked'
      BY <2>10, <2>e DEF Enqueue
    <2>11. ASSUME NEW d \in Jobs, RetryDeadLetter(d) PROVE TerminalParked'
      <3>1. \A k \in Jobs : dlq[k] # "none" => dlq'[k] # "none"
        BY <2>11, <2>a DEF RetryDeadLetter, RowsOK
      <3>2. CASE UNCHANGED <<jobVars, holdVars, result, task, call>>
        BY <3>1, <3>2 DEF jobVars
      <3> QED
        BY <2>11, <2>e, <3>1, <3>2 DEF RetryDeadLetter
    <2>12. ASSUME NEW j \in Jobs, LeaseLapses(j) \/ BackoffElapses(j)
           PROVE TerminalParked'
      BY <2>12, <2>b DEF LeaseLapses, BackoffElapses
    <2>13. ASSUME NEW j \in Jobs, RecoverStale(j) PROVE TerminalParked'
      BY <2>13, <2>c, <2>d DEF RecoverStale
    <2>14. CASE UNCHANGED vars
      BY <2>14, <2>b DEF vars, jobVars
    <2> QED
      BY <2>1, <2>2, <2>3, <2>4, <2>5, <2>6, <2>7, <2>8, <2>9, <2>10, <2>11,
         <2>12, <2>13, <2>14 DEF Next, SlotNext, CallNext, JobNext
  <1> QED
    BY Inductive, <1>1, <1>2, PTL DEF Spec

-----------------------------------------------------------------------------
(* The canonical fingerprint of a row.                                      *)

\* A submission finds nothing to archive: a row that still has the fingerprint
\* of the input is one enqueue_job answers with instead.
LEMMA InsertArchivesNothing ==
  ASSUME RowsOK, TerminalParked, NEW j \in Jobs, Insert(j)
  PROVE archived' = archived
  <1>1. \A k \in Jobs : ~HasHash(k, InputOf[j])
    <2> SUFFICES ASSUME NEW k \in Jobs, HasHash(k, InputOf[j]) PROVE FALSE
      OBVIOUS
    <2>1. status[k] \in Cacheable
      BY DEF HasHash, TerminalParked, RowsOK, Statuses
    <2> QED
      BY <2>1 DEF Insert, Duplicate
  <1>2. archived' = [k \in Jobs |-> archived[k] \/ HasHash(k, InputOf[j])]
    BY DEF Insert
  <1>3. \A k \in Jobs : archived[k] \in BOOLEAN
    BY DEF RowsOK
  <1>4. archived' = [k \in Jobs |-> archived[k]]
    BY <1>1, <1>2, <1>3
  <1> QED
    BY <1>4 DEF RowsOK

\* The three kinds of step, as far as the fingerprints are concerned.
Parks(j) ==
  /\ archived' = [archived EXCEPT ![j] = TRUE]
  /\ status'[j] \in {"cancelled", "dead_letter"}

LEMMA ArchiveSteps ==
  ASSUME IInv, TerminalParked, [Next]_vars
  PROVE \/ archived' = archived
        \/ \E j \in Jobs : Parks(j)
        \/ \E c \in Calls : CancelWrite(c)
  <1> DEFINE Goal == \/ archived' = archived
                     \/ \E j \in Jobs : Parks(j)
                     \/ \E c \in Calls : CancelWrite(c)
  <1>a. RowsOK /\ References
    BY TypeParts DEF IInv
  <1>b. ASSUME NEW j \in Jobs, NEW m, DeadLetter(j, m) PROVE Goal
    BY <1>a, <1>b DEF DeadLetter, Parks, RowsOK
  <1>1. ASSUME NEW s \in Slots, SlotNext(s) PROVE Goal
    <2>1. CASE GiveUp(s)
      BY <2>1, <1>a, <1>b DEF GiveUp, References
    <2>2. CASE ~GiveUp(s)
      BY <1>1, <2>2 DEF SlotNext, Claim, Start, Heartbeat, Commit, Fail, RetryLater,
                        Abandon, jobVars
    <2> QED
      BY <2>1, <2>2
  <1>2. ASSUME NEW c \in Calls, CallNext(c) PROVE Goal
    BY <1>2 DEF CallNext, CancelRead, RetryRead, ReconcileRead, Read, RetryWrite,
                ReconcileWrite, jobVars
  <1>3. ASSUME NEW j \in Jobs, JobNext(j) PROVE Goal
    <2>1. CASE Enqueue(j)
      BY <1>a, <2>1, InsertArchivesNothing DEF Enqueue
    <2>2. CASE RetryDeadLetter(j)
      BY <1>a, <2>2, InsertArchivesNothing DEF RetryDeadLetter, jobVars
    <2>3. CASE LeaseLapses(j) \/ BackoffElapses(j)
      BY <2>3 DEF LeaseLapses, BackoffElapses
    <2>4. CASE RecoverStale(j)
      BY <1>b, <2>4 DEF RecoverStale
    <2> QED
      BY <1>3, <2>1, <2>2, <2>3, <2>4 DEF JobNext
  <1>4. CASE UNCHANGED vars
    BY <1>4 DEF vars, jobVars
  <1> QED
    BY <1>1, <1>2, <1>3, <1>4 DEF Next

\* A cancellation that read its job as cancelled already read it archived.
CancelledSeenArchived ==
  \A c \in Calls : call[c].op = "cancel" /\ call[c].status = "cancelled"
                     => archived[call[c].job]

\* The step of a cancellation parks its job, or finds it archived.
LEMMA CancelParks ==
  ASSUME IInv, CancelledSeenArchived, NEW c \in Calls, CancelWrite(c)
  PROVE (\E j \in Jobs : Parks(j)) \/ archived' = archived
  <1> DEFINE j == call[c].job
  <1>1. j \in Jobs /\ RowsOK
    BY TypeParts DEF IInv, References, CancelWrite
  <1>2. archived' = [archived EXCEPT ![j] = TRUE]
    BY DEF CancelWrite
  <1>3. CASE call[c].status = "cancelled"
    BY <1>1, <1>2, <1>3 DEF CancelledSeenArchived, CancelWrite, RowsOK
  <1>4. CASE call[c].status # "cancelled"
    <2>1. status'[j] = "cancelled"
      BY <1>1, <1>4 DEF CancelWrite, RowsOK
    <2> QED
      BY <1>1, <1>2, <2>1 DEF Parks
  <1> QED
    BY <1>3, <1>4

LEMMA ArchiveKept ==
  ASSUME IInv, TerminalParked, CancelledSeenArchived, [Next]_vars, NEW j \in Jobs
  PROVE /\ archived[j] => archived'[j]
        /\ archived'[j] # archived[j] =>
             archived'[j] /\ status'[j] \in {"cancelled", "dead_letter"}
  BY ArchiveSteps, CancelParks, TypeParts DEF IInv, RowsOK, Parks

LEMMA CancelSeenStep ==
  IInv /\ TerminalParked /\ CancelledSeenArchived /\ [Next]_vars
    => CancelledSeenArchived'
  <1> SUFFICES ASSUME IInv, TerminalParked, CancelledSeenArchived, [Next]_vars,
                      NEW c \in Calls, call'[c].op = "cancel", call'[c].status = "cancelled"
               PROVE archived'[call'[c].job]
    BY DEF CancelledSeenArchived
  <1>1. call'[c].job \in Jobs /\ call \in [Calls -> CallType]
    BY CallsRefer DEF IInv, TypeOK
  <1>2. CASE call'[c] = call[c]
    BY <1>1, <1>2, ArchiveKept DEF CancelledSeenArchived
  <1>3. ASSUME NEW d \in Calls, NEW j \in Jobs, CancelRead(d, j) PROVE archived'[call'[c].job]
    <2>1. CASE c = d
      BY <1>1, <1>3, <2>1, ArchiveKept DEF CancelRead, Read, TerminalParked
    <2>2. CASE c # d
      BY <1>1, <1>2, <1>3, <2>2 DEF CancelRead, Read
    <2> QED
      BY <2>1, <2>2
  <1>4. ASSUME NEW d \in Calls, NEW j \in Jobs, RetryRead(d, j) \/ ReconcileRead(d, j)
        PROVE archived'[call'[c].job]
    BY <1>1, <1>2, <1>4 DEF RetryRead, ReconcileRead, Read
  <1>5. ASSUME NEW d \in Calls, Reply(d) PROVE archived'[call'[c].job]
    BY <1>1, <1>2, <1>5 DEF Reply, IdleCall
  <1>6. CASE call' = call
    BY <1>2, <1>6
  <1> QED
    BY <1>3, <1>4, <1>5, <1>6
       DEF Next, vars, SlotNext, Claim, Start, Heartbeat, Commit, Fail, RetryLater, GiveUp,
           Abandon, CallNext, CancelWrite, RetryWrite, ReconcileWrite, JobNext, Enqueue,
           Insert, RetryDeadLetter, LeaseLapses, BackoffElapses, RecoverStale

\* A row gives its fingerprint up only when it is cancelled or dead-lettered, and
\* for good; the late write of a stale cancellation included.
THEOREM GivenUpOnce == Spec => FingerprintGivenUp
  <1> DEFINE Step == \A j \in Jobs : archived'[j] # archived[j] =>
                       archived'[j] /\ status'[j] \in {"cancelled", "dead_letter"}
  <1>1. Init => CancelledSeenArchived
    BY DEF Init, CancelledSeenArchived, IdleCall
  <1>2. IInv /\ TerminalParked /\ CancelledSeenArchived /\ [Next]_vars => [Step]_vars
    BY ArchiveKept
  <1> QED
    BY Inductive, TerminalParkedHolds, <1>1, <1>2, CancelSeenStep, PTL
       DEF Spec, FingerprintGivenUp

-----------------------------------------------------------------------------
(* Completed jobs.                                                          *)

\* A status becomes "completed" in no other step than a delivery.
LEMMA CompletedSteps ==
  ASSUME IInv, [Next]_vars, NEW j \in Jobs, status'[j] = "completed"
  PROVE status[j] = "completed" \/ result'[j] # NoSlot
  <1> DEFINE Goal == status[j] = "completed" \/ result'[j] # NoSlot
  <1>a. RowsOK /\ References
    BY TypeParts DEF IInv
  <1>b. ASSUME NEW k \in Jobs, NEW v, v # "completed", status' = [status EXCEPT ![k] = v]
        PROVE Goal
    BY <1>a, <1>b DEF RowsOK
  <1>1. ASSUME NEW s \in Slots, Commit(s) PROVE Goal
    <2>1. task[s].job \in Jobs /\ s # NoSlot
      BY <1>1, <1>a, JobQueueAssumption DEF Commit, References
    <2> QED
      BY <1>1, <1>a, <2>1 DEF Commit, HasResult, RowsOK
  <1>2. ASSUME NEW s \in Slots, SlotNext(s) PROVE Goal
    BY <1>1, <1>2, <1>b, <1>a DEF SlotNext, Claim, Start, Heartbeat, Fail, RetryLater,
                      GiveUp, DeadLetter, Abandon, jobVars, References
  <1>3. ASSUME NEW c \in Calls, CallNext(c) PROVE Goal
    <2>1. CASE CancelWrite(c)
      BY <1>a, <2>1 DEF CancelWrite, References, RowsOK
    <2>2. CASE RetryWrite(c)
      BY <1>a, <1>b, <2>2 DEF RetryWrite, References
    <2>3. CASE ReconcileWrite(c)
      BY <2>3 DEF ReconcileWrite, jobVars
    <2>4. ASSUME NEW k \in Jobs, CancelRead(c, k) \/ RetryRead(c, k) \/ ReconcileRead(c, k)
          PROVE Goal
      BY <2>4 DEF CancelRead, RetryRead, ReconcileRead, Read, jobVars
    <2> QED
      BY <1>3, <2>1, <2>2, <2>3, <2>4 DEF CallNext
  <1>4. ASSUME NEW k \in Jobs, JobNext(k) PROVE Goal
    BY <1>4, <1>b DEF JobNext, Enqueue, Insert, RetryDeadLetter, LeaseLapses,
                      BackoffElapses, RecoverStale, DeadLetter, jobVars
  <1>5. CASE UNCHANGED vars
    BY <1>5 DEF vars, jobVars
  <1> QED
    BY <1>2, <1>3, <1>4, <1>5 DEF Next

\* A completed job has its result and its hold is settled, though not always by
\* a charge (CompletedIsCharged fails): of the documented promise this remains.
THEOREM CompletedSettled == Spec => []CompletedIsSettled
  <1>1. Init => CompletedIsSettled
    BY DEF Init, CompletedIsSettled
  <1>2. IInv /\ IInv' /\ CompletedIsSettled /\ [Next]_vars => CompletedIsSettled'
    <2> SUFFICES ASSUME IInv, IInv', CompletedIsSettled, [Next]_vars,
                        NEW j \in Jobs, status'[j] = "completed"
                 PROVE result'[j] # NoSlot /\ hold'[j] \in {"consumed", "released"}
      BY DEF CompletedIsSettled
    <2>1. result[j] # NoSlot => result'[j] = result[j]
      BY ResultKept
    <2>2. result'[j] # NoSlot
      BY <2>1, CompletedSteps DEF CompletedIsSettled
    <2> QED
      BY <2>2 DEF IInv, BilledOnDelivery
  <1> QED
    BY Inductive, <1>1, <1>2, PTL DEF Spec

-----------------------------------------------------------------------------
(* The refinement: the queue implements JobBilling.                         *)

LEMMA BillingInit == Init => Billing!Init
  BY ZenonT(60) DEF Init, Billing!Init

\* What a step does to the money is a step of the contract or nothing.
LEMMA BillingStep == IInv /\ [Next]_vars => [Billing!Next]_(Billing!vars)
  <1> DEFINE delivered == [j \in Jobs |-> result[j] # NoSlot]
             Goal == [Billing!Next]_(Billing!vars)
  <1> SUFFICES ASSUME IInv, [Next]_vars PROVE Goal
    OBVIOUS
  <1>a. RowsOK /\ References /\ HoldWithRow /\ BilledOnDelivery
    BY TypeParts DEF IInv
  <1>b. ASSUME UNCHANGED <<hold, result>> PROVE Goal
    BY <1>b DEF Billing!vars
  <1>c. ASSUME NEW j \in Jobs, Billing!Charge(j) \/ Billing!DeliverFree(j) PROVE Goal
    BY <1>c DEF Billing!Next
  <1>d. \A j \in Jobs : status[j] # "absent" /\ result[j] = NoSlot
                           => hold[j] \in {"pending", "released"}
    BY <1>a DEF HoldWithRow, BilledOnDelivery, RowsOK
  <1>1. ASSUME NEW j \in Jobs, Opens(j) PROVE Goal
    <2>1. hold[j] = "none" /\ hold' = [hold EXCEPT ![j] = "pending"] /\ result' = result
      BY <1>1, <1>a DEF Opens, Insert, HoldWithRow
    <2>2. Billing!Open(j)
      BY <2>1 DEF Billing!Open
    <2> QED
      BY <2>2 DEF Billing!Next
  <1>2. ASSUME NEW s \in Slots, Delivers(s) PROVE Goal
    <2>0. PICK j \in Jobs : j = task[s].job /\ status[j] # "absent"
      BY <1>2, <1>a DEF Delivers, Commit, References
    <2>1. s # NoSlot
      BY JobQueueAssumption
    <2>2. hold' = [hold EXCEPT ![j] = IF hold[j] = "pending" THEN "consumed" ELSE hold[j]]
      BY <1>2, <2>0 DEF Delivers, Commit, ConsumeHold, Pending
    <2>3. CASE HasResult(j)
      <3>1. result' = result
        BY <1>2, <2>0, <2>3 DEF Delivers, Commit
      <3>2. hold' = hold
        BY <1>a, <2>2, <2>3 DEF HasResult, BilledOnDelivery, RowsOK
      <3> QED
        BY <1>b, <3>1, <3>2
    <2>4. CASE ~HasResult(j)
      <3>1. result' = [result EXCEPT ![j] = s]
        BY <1>2, <2>0, <2>4 DEF Delivers, Commit
      <3>2. delivered' = [delivered EXCEPT ![j] = TRUE] /\ ~delivered[j]
        BY <1>a, <2>1, <2>4, <3>1 DEF HasResult, RowsOK
      <3>3. CASE hold[j] = "pending"
        <4>1. Billing!Charge(j)
          BY <2>2, <3>2, <3>3 DEF Billing!Charge
        <4> QED
          BY <1>c, <4>1
      <3>4. CASE hold[j] = "released"
        <4>1. hold' = hold
          BY <1>a, <2>2, <3>4 DEF RowsOK
        <4>2. Billing!DeliverFree(j)
          BY <3>2, <3>4, <4>1 DEF Billing!DeliverFree
        <4> QED
          BY <1>c, <4>2
      <3>5. hold[j] \in {"pending", "released"}
        BY <1>d, <2>0, <2>4 DEF HasResult
      <3> QED
        BY <3>3, <3>4, <3>5
    <2> QED
      BY <2>3, <2>4
  <1>3. ASSUME NEW j \in Jobs, NEW m \in BOOLEAN, Releases(j, m) PROVE Goal
    <2>1. CASE hold' = hold
      BY <1>3, <1>b, <2>1 DEF Releases
    <2>2. CASE hold' # hold
      <3>1. /\ hold[j] = "pending" /\ hold' = [hold EXCEPT ![j] = "released"]
            /\ result' = result
        BY <1>3, <2>2 DEF Releases, ReleaseHold, Pending
      <3>2. result[j] = NoSlot
        BY <1>a, <3>1 DEF BilledOnDelivery
      <3>3. Billing!Refund(j)
        BY <3>1, <3>2 DEF Billing!Refund
      <3> QED
        BY <3>3 DEF Billing!Next
    <2> QED
      BY <2>1, <2>2
  <1>4. CASE KeepsMoney
    BY <1>b, <1>4 DEF KeepsMoney
  <1> QED
    BY <1>1, <1>2, <1>3, <1>4, MoneySteps

\* The queue implements the billing contract.
THEOREM ImplementsBilling == Spec => BillingContract
  BY Inductive, BillingInit, BillingStep, PTL
     DEF Spec, BillingContract, Billing!Spec

-----------------------------------------------------------------------------
(* What the contract promises therefore holds of the queue. *)

Contract == INSTANCE JobBillingProofs
              WITH account <- hold,
                   delivered <- [j \in Jobs |-> result[j] # NoSlot]

\* The two instances of the contract are the same specification.
LEMMA SameContract == BillingContract => Contract!Spec
  <1>1. Billing!Init => Contract!Init
    BY DEF Billing!Init, Contract!Init
  <1>2. [Billing!Next]_(Billing!vars) => [Contract!Next]_(Contract!vars)
    BY DEF Billing!Next, Contract!Next, Billing!vars, Contract!vars,
           Billing!Open, Contract!Open, Billing!Charge, Contract!Charge,
           Billing!Refund, Contract!Refund, Billing!DeliverFree, Contract!DeliverFree
  <1> QED
    BY <1>1, <1>2, PTL DEF BillingContract, Billing!Spec, Contract!Spec

\* No cancel, retry, recovery or late worker takes back the charge, the refund
\* or the result of a job, or charges for one that was refunded.
THEOREM NeverTakenBack == Spec => Contract!NothingTakenBack
  BY ImplementsBilling, SameContract, Contract!Kept, PTL

=============================================================================
