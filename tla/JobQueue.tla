------------------------------ MODULE JobQueue ------------------------------
(***************************************************************************)
(* The PostgreSQL-backed analysis queue of ARIA: services/queue_manager.py *)
(* (enqueue, claim, lease, retry, recovery, dead letters), the completion  *)
(* of a job in services/queue_analysis_service.py, the quota hold of a job *)
(* (routes/analyze_helpers.py and services/reliability/                    *)
(* quota_reservation.py) and the cancel and retry endpoints of             *)
(* routes/queue_api.py.                                                    *)
(*                                                                         *)
(* A database transaction is one step when its row locks make it one.  The *)
(* handlers that read a row WITHOUT a lock and write it back later are two *)
(* steps with a snapshot between them: the failure path of a worker, the   *)
(* cancel and retry endpoints, and the hold reconciler.                    *)
(***************************************************************************)
EXTENDS Naturals

CONSTANTS
  Inputs,      \* what is analysed: the canonical input fingerprints
  Jobs,        \* job ids
  InputOf,     \* InputOf[j]: the input job j is submitted for
  Workers,     \* worker ids (QueueManager.worker_id)
  Slots,       \* concurrent job tasks of all the workers
  WorkerOf,    \* WorkerOf[s]: the worker slot s belongs to
  Calls,       \* concurrent API requests and reconciler passes
  MaxRetries,  \* AnalysisJob.max_retries
  NoWorker, NoSlot, NoJob

ASSUME JobQueueAssumption ==
  /\ InputOf \in [Jobs -> Inputs]
  /\ WorkerOf \in [Slots -> Workers]
  /\ MaxRetries \in Nat
  /\ NoWorker \notin Workers
  /\ NoSlot \notin Slots
  /\ NoJob \notin Jobs

VARIABLES
  status,    \* analysis_jobs.status, "absent" before the row exists
  owner,     \* analysis_jobs.worker_id
  leased,    \* leased_until (and worker_heartbeat + timeout) is in the future
  due,       \* next_retry_at is null or past
  retries,   \* analysis_jobs.retry_count
  archived,  \* input_hash has been replaced by a terminal fingerprint
  hold,      \* quota_reservations.status of the job's hold
  marker,    \* job_config["quota_released"]
  result,    \* the slot whose transaction inserted the analysis_results row
  dlq,       \* dead_letter_jobs.status of the job's row
  task,      \* what each slot is doing, with what it last read of its job
  call       \* what each request is doing, with what it read of its job

jobVars  == <<status, owner, leased, due, retries, archived>>
holdVars == <<hold, marker>>
vars == <<jobVars, holdVars, result, dlq, task, call>>

Live      == {"queued", "processing", "retrying"}
Cacheable == Live \cup {"completed"}
Statuses  == Cacheable \cup {"absent", "failed", "cancelled", "dead_letter"}

\* What a slot and a request keep in local variables.
TaskType == [pc : {"idle", "claimed", "scoring", "failing"},
             job : Jobs \cup {NoJob}, retries : 0..MaxRetries, marker : BOOLEAN]
CallType == [op : {"idle", "cancel", "retry", "reconcile"},
             job : Jobs \cup {NoJob}, status : Statuses,
             retries : 0..MaxRetries, marker : BOOLEAN]

IdleTask == [pc |-> "idle", job |-> NoJob, retries |-> 0, marker |-> FALSE]
IdleCall == [op |-> "idle", job |-> NoJob, status |-> "absent", retries |-> 0,
             marker |-> FALSE]

\* Every variable holds a value of the column or local it stands for; in
\* particular retry_count never exceeds max_retries, although three unlocked
\* writers set it.
TypeOK ==
  /\ status \in [Jobs -> Statuses]
  /\ owner \in [Jobs -> Workers \cup {NoWorker}]
  /\ leased \in [Jobs -> BOOLEAN]
  /\ due \in [Jobs -> BOOLEAN]
  /\ retries \in [Jobs -> 0..MaxRetries]
  /\ archived \in [Jobs -> BOOLEAN]
  /\ hold \in [Jobs -> {"none", "pending", "consumed", "released"}]
  /\ marker \in [Jobs -> BOOLEAN]
  /\ result \in [Jobs -> Slots \cup {NoSlot}]
  /\ dlq \in [Jobs -> {"none", "pending", "reprocessed"}]
  /\ task \in [Slots -> TaskType]
  /\ call \in [Calls -> CallType]

Init ==
  /\ status = [j \in Jobs |-> "absent"]
  /\ owner = [j \in Jobs |-> NoWorker]
  /\ leased = [j \in Jobs |-> FALSE]
  /\ due = [j \in Jobs |-> TRUE]
  /\ retries = [j \in Jobs |-> 0]
  /\ archived = [j \in Jobs |-> FALSE]
  /\ hold = [j \in Jobs |-> "none"]
  /\ marker = [j \in Jobs |-> FALSE]
  /\ result = [j \in Jobs |-> NoSlot]
  /\ dlq = [j \in Jobs |-> "none"]
  /\ task = [s \in Slots |-> IdleTask]
  /\ call = [c \in Calls |-> IdleCall]

-----------------------------------------------------------------------------
(* Submission *)

\* Row k still carries the canonical fingerprint of input i.
HasHash(k, i) == status[k] # "absent" /\ InputOf[k] = i /\ ~archived[k]

\* Mutant: only a finished analysis counts as one.
DuplicateFinished(i) == \E k \in Jobs : HasHash(k, i) /\ status[k] = "completed"

\* The row enqueue_job answers with instead of inserting another.
Duplicate(i) == \E k \in Jobs : HasHash(k, i) /\ status[k] \in Cacheable

\* The inserting half of enqueue_job, in one transaction with its hold.  A
\* terminal row in the way of the unique fingerprint is archived first.
Insert(j) ==
  /\ status[j] = "absent"
  /\ ~Duplicate(InputOf[j])
  /\ status' = [status EXCEPT ![j] = "queued"]
  /\ hold' = [hold EXCEPT ![j] = "pending"]
  /\ archived' = [k \in Jobs |-> archived[k] \/ HasHash(k, InputOf[j])]
  /\ UNCHANGED <<owner, leased, due, retries, marker, result, task, call>>

Enqueue(j) == Insert(j) /\ UNCHANGED dlq

\* retry_dead_letter_job: a pending dead letter becomes a new job, or is tied
\* to the job that already runs its input.
RetryDeadLetter(d) ==
  /\ dlq[d] = "pending"
  /\ dlq' = [dlq EXCEPT ![d] = "reprocessed"]
  /\ \/ Duplicate(InputOf[d]) /\ UNCHANGED <<jobVars, holdVars, result, task, call>>
     \/ \E j \in Jobs : InputOf[j] = InputOf[d] /\ Insert(j)

-----------------------------------------------------------------------------
(* The quota hold of a job *)

\* Mutant: the status test of the locked reservation is dropped.
AnyHold(j) == hold[j] # "none"

Pending(j) == hold[j] = "pending"

\* Mutant: the marker is set although nothing was released.
ReleaseHoldMarksAlways(j, m) ==
  /\ marker' = [marker EXCEPT ![j] = TRUE]
  /\ \/ ~m /\ Pending(j) /\ hold' = [hold EXCEPT ![j] = "released"]
     \/ UNCHANGED hold

\* release_job_analysis_quota for a job whose config was read with marker m,
\* followed by the write-back of that config.  Nothing is released when m says
\* it was, when the hold is settled, or when the tenant's counter is below the
\* quantity of the hold (either branch then: the counter is not modelled here).
ReleaseHold(j, m) ==
  \/ /\ ~m /\ Pending(j)
     /\ hold' = [hold EXCEPT ![j] = "released"]
     /\ marker' = [marker EXCEPT ![j] = TRUE]
  \/ /\ UNCHANGED hold
     /\ marker' = [marker EXCEPT ![j] = m]

\* Mutant: completion forgets the hold.
ForgetHold(j) == UNCHANGED hold

\* consume_job_analysis_quota: only a pending hold is charged.
ConsumeHold(j) ==
  hold' = [hold EXCEPT ![j] = IF Pending(j) THEN "consumed" ELSE @]

\* Mutant: the dead job keeps its canonical fingerprint.
DeadLetterKeepsHash(j, m) ==
  /\ status' = [status EXCEPT ![j] = "dead_letter"]
  /\ dlq' = [dlq EXCEPT ![j] = IF @ = "none" THEN "pending" ELSE @]
  /\ UNCHANGED archived
  /\ ReleaseHold(j, m)

\* failed -> release -> move_to_dead_letter -> archive, in one transaction.
DeadLetter(j, m) ==
  /\ status' = [status EXCEPT ![j] = "dead_letter"]
  /\ archived' = [archived EXCEPT ![j] = TRUE]
  /\ dlq' = [dlq EXCEPT ![j] = IF @ = "none" THEN "pending" ELSE @]
  /\ ReleaseHold(j, m)

-----------------------------------------------------------------------------
(* A worker's slot *)

\* get_next_job under FOR UPDATE SKIP LOCKED.  Any due job may be the one:
\* the priority order passes over rows other transactions have locked.
Claim(s, j) ==
  /\ task[s].pc = "idle"
  /\ status[j] \in {"queued", "retrying"} /\ due[j]
  /\ status' = [status EXCEPT ![j] = "processing"]
  /\ owner' = [owner EXCEPT ![j] = WorkerOf[s]]
  /\ leased' = [leased EXCEPT ![j] = TRUE]
  /\ task' = [task EXCEPT ![s] = [pc |-> "claimed", job |-> j, retries |-> 0,
                                     marker |-> FALSE]]
  /\ UNCHANGED <<due, retries, archived, holdVars, result, dlq, call>>

\* _owns_lease, and the ownership test of complete_queue_job.
OwnsLease(s) ==
  LET j == task[s].job IN
  status[j] = "processing" /\ owner[j] = WorkerOf[s] /\ leased[j]

Finish(s) == task' = [task EXCEPT ![s] = IdleTask]

\* _process_job_body up to the scoring: both lease checks, then
\* complete_queue_job reads the job's config, which it later writes back.
Start(s) ==
  LET j == task[s].job IN
  /\ task[s].pc = "claimed"
  /\ IF OwnsLease(s)
       THEN task' = [task EXCEPT ![s] = [pc |-> "scoring", job |-> j,
                                          retries |-> 0, marker |-> marker[j]]]
       ELSE Finish(s)
  /\ UNCHANGED <<jobVars, holdVars, result, dlq, call>>

\* The heartbeat task of a running job renews even a lapsed lease.
Heartbeat(s) ==
  LET j == task[s].job IN
  /\ task[s].pc # "idle"
  /\ status[j] = "processing" /\ owner[j] = WorkerOf[s] /\ ~leased[j]
  /\ leased' = [leased EXCEPT ![j] = TRUE]
  /\ UNCHANGED <<status, owner, due, retries, archived, holdVars, result, dlq,
                 task, call>>

\* Mutant: completion does not look for an existing result.
NeverHasResult(j) == FALSE

HasResult(j) == result[j] # NoSlot

\* The transaction that ends complete_queue_job, under the job's row lock: it
\* yields if the lease is lost, settles a result that exists, or stores one.
Commit(s) ==
  LET j == task[s].job IN
  /\ task[s].pc = "scoring"
  /\ Finish(s)
  /\ IF OwnsLease(s)
       THEN /\ status' = [status EXCEPT ![j] = "completed"]
            /\ ConsumeHold(j)
            /\ IF HasResult(j)
                 THEN UNCHANGED <<result, marker>>
                 ELSE /\ result' = [result EXCEPT ![j] = s]
                      /\ marker' = [marker EXCEPT ![j] = task[s].marker]
       ELSE UNCHANGED <<status, holdVars, result>>
  /\ UNCHANGED <<owner, leased, due, retries, archived, dlq, call>>

\* An exception: the failure path reloads the job and checks the lease.
Fail(s) ==
  LET j == task[s].job IN
  /\ task[s].pc \in {"claimed", "scoring"}
  /\ IF OwnsLease(s)
       THEN task' = [task EXCEPT ![s] = [pc |-> "failing", job |-> j,
                                          retries |-> retries[j],
                                          marker |-> marker[j]]]
       ELSE Finish(s)
  /\ UNCHANGED <<jobVars, holdVars, result, dlq, call>>

\* ... and then writes the job it read, with no lock and no condition.
RetryLater(s) ==
  LET j == task[s].job IN
  /\ task[s].pc = "failing" /\ task[s].retries < MaxRetries
  /\ status' = [status EXCEPT ![j] = "retrying"]
  /\ retries' = [retries EXCEPT ![j] = task[s].retries + 1]
  /\ due' = [due EXCEPT ![j] = FALSE]
  /\ Finish(s)
  /\ UNCHANGED <<owner, leased, archived, holdVars, result, dlq, call>>

\* A permanent failure may give up at any retry count.
GiveUp(s) ==
  /\ task[s].pc = "failing"
  /\ DeadLetter(task[s].job, task[s].marker)
  /\ Finish(s)
  /\ UNCHANGED <<owner, leased, due, retries, result, call>>

\* The process dies, shutdown cancels the task, or the failure path itself
\* fails on the database: nothing is written and nothing is left running.
Abandon(s) ==
  /\ task[s].pc # "idle"
  /\ Finish(s)
  /\ UNCHANGED <<jobVars, holdVars, result, dlq, call>>

-----------------------------------------------------------------------------
(* Time and the recovery pass of the scheduler *)

\* No heartbeat reached the row for stale_job_timeout_seconds.
LeaseLapses(j) ==
  /\ status[j] = "processing" /\ leased[j]
  /\ leased' = [leased EXCEPT ![j] = FALSE]
  /\ UNCHANGED <<status, owner, due, retries, archived, holdVars, result, dlq,
                 task, call>>

BackoffElapses(j) ==
  /\ ~due[j]
  /\ due' = [due EXCEPT ![j] = TRUE]
  /\ UNCHANGED <<status, owner, leased, retries, archived, holdVars, result,
                 dlq, task, call>>

\* Mutant: only jobs that may still be retried are picked up.
StaleAndRetryable(j) ==
  status[j] = "processing" /\ ~leased[j] /\ retries[j] < MaxRetries

Stale(j) == status[j] = "processing" /\ ~leased[j]

\* recover_stale_jobs: a conditional UPDATE per job, so atomic.
RecoverStale(j) ==
  /\ Stale(j)
  /\ \/ /\ retries[j] < MaxRetries
        /\ status' = [status EXCEPT ![j] = "retrying"]
        /\ retries' = [retries EXCEPT ![j] = @ + 1]
        /\ due' = [due EXCEPT ![j] = FALSE]
        /\ owner' = [owner EXCEPT ![j] = NoWorker]
        /\ UNCHANGED <<archived, holdVars, dlq>>
     \/ /\ retries[j] = MaxRetries
        /\ DeadLetter(j, marker[j])
        /\ UNCHANGED <<owner, due, retries>>
  /\ UNCHANGED <<leased, result, task, call>>

-----------------------------------------------------------------------------
(* Requests: read without a lock, decide, write *)

Read(c, op, j) ==
  /\ call[c].op = "idle"
  /\ call' = [call EXCEPT ![c] = [op |-> op, job |-> j, status |-> status[j],
                                  retries |-> retries[j], marker |-> marker[j]]]
  /\ UNCHANGED <<jobVars, holdVars, result, dlq, task>>

Reply(c) == call' = [call EXCEPT ![c] = IdleCall]

CanCancel(st) == st \notin {"absent", "completed", "failed"}

CancelRead(c, j) == CanCancel(status[j]) /\ Read(c, "cancel", j)

\* cancel_job: an unchanged column is not written, so a job read as cancelled
\* keeps the status it has by now.
CancelWrite(c) ==
  LET j == call[c].job IN
  /\ call[c].op = "cancel"
  /\ status' = [status EXCEPT ![j] = IF call[c].status = "cancelled" THEN @
                                     ELSE "cancelled"]
  /\ archived' = [archived EXCEPT ![j] = TRUE]
  /\ ReleaseHold(j, call[c].marker)
  /\ Reply(c)
  /\ UNCHANGED <<owner, leased, due, retries, result, dlq, task>>

\* Mutant: off by one at the retry ceiling.
CanRetryAtCeiling(st, n) == st \in {"failed", "cancelled"} /\ n <= MaxRetries

CanRetry(st, n) == st \in {"failed", "cancelled"} /\ n < MaxRetries

RetryRead(c, j) == CanRetry(status[j], retries[j]) /\ Read(c, "retry", j)

\* retry_job: neither the fingerprint nor the hold comes back.
RetryWrite(c) ==
  LET j == call[c].job IN
  /\ call[c].op = "retry"
  /\ status' = [status EXCEPT ![j] = "queued"]
  /\ retries' = [retries EXCEPT ![j] = call[c].retries + 1]
  /\ owner' = [owner EXCEPT ![j] = NoWorker]
  /\ leased' = [leased EXCEPT ![j] = FALSE]
  /\ due' = [due EXCEPT ![j] = TRUE]
  /\ Reply(c)
  /\ UNCHANGED <<archived, holdVars, result, dlq, task>>

\* What reconcile_expired_quota_reservations may release, once expired.
Abandoned(j) ==
  Pending(j) /\ status[j] \notin Cacheable /\ ~HasResult(j)

ReconcileRead(c, j) == Abandoned(j) /\ Read(c, "reconcile", j)

\* The hold is released and the marker set, or neither if the counter is low.
ReconcileWrite(c) ==
  LET j == call[c].job IN
  /\ call[c].op = "reconcile"
  /\ \/ /\ Pending(j)
        /\ hold' = [hold EXCEPT ![j] = "released"]
        /\ marker' = [marker EXCEPT ![j] = TRUE]
     \/ UNCHANGED holdVars
  /\ Reply(c)
  /\ UNCHANGED <<jobVars, result, dlq, task>>

-----------------------------------------------------------------------------

SlotNext(s) ==
  \/ \E j \in Jobs : Claim(s, j)
  \/ Start(s) \/ Heartbeat(s) \/ Commit(s)
  \/ Fail(s) \/ RetryLater(s) \/ GiveUp(s) \/ Abandon(s)

CallNext(c) ==
  \/ \E j \in Jobs : CancelRead(c, j) \/ RetryRead(c, j) \/ ReconcileRead(c, j)
  \/ CancelWrite(c) \/ RetryWrite(c) \/ ReconcileWrite(c)

JobNext(j) ==
  \/ Enqueue(j) \/ RetryDeadLetter(j)
  \/ LeaseLapses(j) \/ BackoffElapses(j) \/ RecoverStale(j)

Next ==
  \/ \E s \in Slots : SlotNext(s)
  \/ \E c \in Calls : CallNext(c)
  \/ \E j \in Jobs : JobNext(j)

Spec == Init /\ [][Next]_vars

\* Nobody who could renew j's lease is left.
Orphaned(j) ==
  \A s \in Slots : ~(task[s].job = j /\ WorkerOf[s] = owner[j])

\* Idle slots poll, running tasks finish or raise (every provider call has a
\* timeout), clocks advance and the scheduler's five-minute recovery pass keeps
\* running.  Heartbeats may stop, tasks may die, requests owe nothing.
Fairness ==
  /\ WF_vars(\E s \in Slots, j \in Jobs : Claim(s, j))
  /\ \A s \in Slots : /\ WF_vars(Start(s))
                      /\ WF_vars(Commit(s) \/ Fail(s))
                      /\ WF_vars(RetryLater(s) \/ GiveUp(s))
  /\ \A j \in Jobs : /\ WF_vars(Orphaned(j) /\ LeaseLapses(j))
                     /\ WF_vars(BackoffElapses(j))
                     /\ WF_vars(RecoverStale(j))

FairSpec == Spec /\ Fairness

-----------------------------------------------------------------------------
(* Properties *)

\* Money follows delivery: a hold is charged only if the job's result exists,
\* and a stored result never leaves its hold open to a later release or charge.
\* The completion, the failure paths, cancel and the reconciler all write it.
BilledOnDelivery ==
  \A j \in Jobs : /\ hold[j] = "consumed" => result[j] # NoSlot
                  /\ result[j] # NoSlot => hold[j] \in {"consumed", "released"}

\* The queue implements the billing contract: one hold per job, settled once
\* and for good, whatever cancel, retry, recovery and lost leases interleave.
Billing == INSTANCE JobBilling
             WITH account <- hold,
                  delivered <- [j \in Jobs |-> result[j] # NoSlot]
BillingContract == Billing!Spec

\* "Immutable: Once written, never updated": no rerun of a job whose result is
\* stored (a completed job cancelled by a late request and retried, or an old
\* attempt that outlived its lease) replaces the result.
ResultImmutable ==
  [][\A j \in Jobs : result[j] # NoSlot => result'[j] = result[j]]_result

\* The quota_released marker of a job is set only if its hold is released,
\* although every writer of the config writes back a stale copy of it.
MarkerSound == \A j \in Jobs : marker[j] => hold[j] = "released"

\* A dead job never blocks a new submission of its input and never vanishes:
\* cancelled and dead-lettered rows have given up the canonical fingerprint,
\* and a dead letter row stands for every dead-lettered job.
TerminalParked ==
  \A j \in Jobs :
    /\ status[j] \in {"failed", "cancelled", "dead_letter"} => archived[j]
    /\ status[j] = "dead_letter" => dlq[j] # "none"

\* A job gives its canonical fingerprint up in the step that cancels or
\* dead-letters it, and never takes it back: no submission, replayed dead letter
\* or late cancellation displaces a row whose analysis still counts, so a second
\* row of an input is only ever inserted after the first was ended.
FingerprintGivenUp ==
  [][\A j \in Jobs : archived'[j] # archived[j] =>
       archived'[j] /\ status'[j] \in {"cancelled", "dead_letter"}]_vars

\* What is left of "a completed job is charged": it has its result, and its hold
\* is settled one way or the other.
CompletedIsSettled ==
  \A j \in Jobs : status[j] = "completed" =>
    result[j] # NoSlot /\ hold[j] \in {"consumed", "released"}

\* A submitted job is not stuck: from every live status it reaches completed,
\* cancelled or dead_letter, however its attempts crash and lapse.
JobsSettle == \A j \in Jobs : status[j] \in Live ~> status[j] \notin Live

-----------------------------------------------------------------------------
(* What the repository says and the code does not keep *)

\* docs/reliability-config.md: "Successful completion marks the hold consumed".
CompletedIsCharged ==
  \A j \in Jobs : status[j] = "completed" => hold[j] = "consumed"

=============================================================================
