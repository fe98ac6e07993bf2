# ARIA: a verification project

TLA+ models of the parts of ARIA whose correctness depends on concurrency,
failure and time, the TLC configurations that check them on small instances and
TLAPS proofs of their main properties for every instance. ARIA is a recruiting
platform: a FastAPI backend on PostgreSQL (`app/backend`), a queue worker, a voice
agent and a speech service, and a React frontend. Paths below are relative to the
repository, mostly to `app/backend`.

## 1. The system

| Part | State it keeps | Operations | Interacts with |
|---|---|---|---|
| Analysis job queue (`services/queue_manager.py`, `services/queue_analysis_service.py`, `routes/queue_api.py`) | `analysis_jobs`, `analysis_results`, `dead_letter_jobs`, `analysis_artifacts` | enqueue, claim, heartbeat, complete, fail, retry, recover, cancel, dead-letter, purge | quota ledger (one hold per job), enrichment, scheduler |
| Tenant quota ledger (`services/reliability/quota_reservation.py`, `routes/analyze_helpers.py`, `routes/subscription.py`, `routes/analyze.py`) | `tenants.analyses_count_this_month`, `tenants.usage_reset_at`, `quota_reservations` | reserve, consume, release, reconcile, monthly reset | every analysis route, the queue |
| Request idempotency (`middleware/idempotency.py`, `services/request_idempotency.py`) | `idempotency_keys` | acquire, complete, fail | every mutating route, voice scheduling |
| Narrative, enrichment and decisions (`services/background_enrichment.py`, `services/hybrid_pipeline.py`, `services/decision_service.py`, `services/reliability/stale.py`, `routes/analyze.py`) | `screening_results`, `screening_decisions`, enrichment jobs | upsert, decide, override, narrative, interview kit | routes, queue |
| Voice scheduling (`services/voice_call_scheduler.py`, `services/reliability/voice_attempt.py`, `services/voice_schedule_idempotency.py`, `routes/voice.py`, `routes/interviews.py`) | `voice_screening_sessions`, scheduler jobs | schedule, dispatch, retry, reconcile, complete | idempotency, voice agent |
| Billing (`services/billing/*`, `routes/admin.py`, `routes/admin_platform.py`) | `billing_events`, subscription columns of `tenants`, `invoices`, `dunning_records` | provider events, dunning, invoicing, suspension | scheduler, auth |
| Candidate identity, requisitions, outcomes | `candidates`, requisition status, outcome records | find or create, lifecycle transitions | screening |
| Scheduler and worker (`services/scheduler.py`, `worker.py`) | in-memory jobs, heartbeat row | recovery pass, reconciler, voice retries | queue, ledger, voice |
| Circuit breaker, LLM permits, rate limit, shared cache | Redis or process memory | admit, release, count | all LLM callers |
| Erasure and retention, outbound webhooks, auth, scoring, parsing, guardrails, voice agent, speech service, frontend, migrations | | | see section 12 |

What makes the core hard:

* Most handlers read a row without a lock, decide, and write later. The SQLAlchemy
  session writes back only the columns whose value changed, but it writes them
  unconditionally. Row locks and conditional updates exist only in places: claim,
  the final transaction of a completion, recovery, the counter.
* A worker may die, or outlive its lease and come back.
* Requests are retried by clients while the first one still runs.
* Holds, leases, keys and backoffs run out while their owner is still at work.
* Results of minutes of work (a narrative, a phone call) come back to a row that may
  have moved on. The row carries a generation, and conditional updates name it.
* Payment providers and the voice agent deliver at least once and in any order.

## 2. Modules

| Module | What it is |
|---|---|
| `JobBilling` | Abstract specification: what queue and ledger promise a tenant about a job's money |
| `CallAttempts` | Abstract specification: what a screening call promises candidate and recruiter |
| `JobQueue` | The queue, its workers, its endpoints and the holds of its jobs |
| `QuotaLedger` | The tenant's counter and holds over all analysis routes and several months |
| `RequestIdempotency` | The idempotency middleware on one key |
| `ScreeningResults` | One screening row: analyses, decisions, narrative and interview kit |
| `VoiceCalls` | Screening calls: scheduling, dispatch, retries, reconciliation, completion |
| `Billing` | One tenant's subscription: provider events, invoices, dunning, suspension |
| `MC...` | Constants for TLC, one for each of the last six |
| `...Proofs` | Theorems and proofs, one for each of the eight above |

`JobQueue` and `QuotaLedger` meet at a job's hold. `JobQueue` has every writer of the hold
and no counter: where the code's conditional decrement may refuse, it allows both results.
`QuotaLedger` has the counter and reduces a job to reserve, run, complete, fail and be
retried. `JobQueue` therefore covers every behaviour the counter can cause, and
`QuotaLedger` every amount. Both implement `JobBilling`, so what follows from the contract
is proved once and holds of both.

`JobQueue` and `ScreeningResults` meet at the end of an analysis: what is one commit in
`JobQueue` is the upsert, the decision and the enrichment jobs in `ScreeningResults`.
`VoiceCalls` has the second user of the idempotency keys (`schedule_once`).

In three modules a history variable (`tainted`, `crossed`) records that a write
computed from an unlocked read went over another one. What is promised ends there;
the exact promise up to there is what the invariants state.

## 3. From the code to `JobQueue`

State: `status`, `owner`, `retries` are columns of `analysis_jobs`; `leased` says
that neither `leased_until` nor the heartbeat has timed out; `due` that
`next_retry_at` is past; `archived` that `archive_terminal_fingerprint` has replaced
`input_hash`; `hold` is `quota_reservations.status`; `marker` is
`job_config["quota_released"]`; `result` the owner of the `analysis_results` row;
`dlq` the dead letter. `task` is what a worker's slot is doing with the values it
last read, `call` the same for a cancel request, a retry request or a pass of the
reconciler.

Grain of the steps: a transaction is one action where its lock or its conditional
update makes it atomic (`get_next_job`, the end of `complete_queue_job`, each job of
`recover_stale_jobs`). The others are a read and a write with a snapshot between
them: `Start`/`Commit` (the config a completion writes back), `Fail` followed by
`RetryLater` or `GiveUp`, `CancelRead`/`CancelWrite`, `RetryRead`/`RetryWrite`,
`ReconcileRead`/`ReconcileWrite`. `Abandon` is a crash, a cancelled task, or a
failure path that itself fails on the database. `LeaseLapses` may happen at any
time, also to a healthy worker. `Heartbeat` renews a lapsed lease, as the code does.

Left out: priority order, progress and metrics columns, artifacts, and user-visible
errors. Enrichment jobs, a second kind of job on the same table with no hold, are in
`ScreeningResults`. The
worker's loop is reduced to independent slots.

## 4. From the code to `QuotaLedger`

`count` and `stamp` are the tenant's columns, `hold` and `overdue` the hold of each
operation, `snap` the tenant row each request read. An operation is one analysis
request or job; its kind selects the route. `single` and `batch` end by consuming or
by raising; `stream` and `batch_stream` release in a `finally` block; `late_batch`
(the multipart batch) persists first and reserves afterwards; `job` is the queue.
`Reserve` is the transaction of hold, conditional increment and monthly reset, with
the reset decided on the row read before (`ReadTenant`). `Refund` is
`release_quota_reservation`: the conditional decrement decides whether the hold is
released. `JobRetried` is the retry endpoint: the job runs again on the hold it has.

Two parties give a hold back on what they read earlier. A pass of the reconciler locks
the overdue reservations and reads the job of each without a lock (`ReconcileRead`, the
hold is then in `found`), and releases later (`ReconcileWrite`); whoever else settles the
hold waits for the pass (`Unlocked`), the retry endpoint touches no reservation and does
not wait. A second cancellation of a cancelled job whose hold is open is a read
(`CancelRead`, `cancelling`) and a release (`CancelWrite`) as well.

Two history variables: `taken`, the month in which a hold was counted, and `rerun`, the
jobs retried on a hold that was released, or that such a party was about to release.

`LastMonth` bounds time. Plans without a limit are left out, as every reservation
succeeds there. The administrators' reset and adjust operations are not modelled.

## 5. From the code to `RequestIdempotency`

One row of `idempotency_keys` and the requests that carry its key. `Insert` is
atomic because of the primary key. `Refuse`, `Replay` and `FindStale` are the
branches after a lost insert in the order of the code. `TakeOver` is the update that
follows `FindStale`; it writes a column only when the value differs from the one
read (`Assign`). `CloseRead` and `CloseWrite` are the owner test and the write of
`complete_idempotency` and `fail_idempotency`. `Vanish` is a handler that raises and
a process that dies. A request is assumed to take less than the 24 hours of a key.
`events` is a history variable that records what has happened to the key.

## 6. From the code to `ScreeningResults`

`row` is one `screening_results` row: `gen` is `analysis_generation`, `by` the analysis
that wrote it last, `report` the JSON in `analysis_result` (`of`: whose findings, `fit`
and `det`: whose `fit_score` and `deterministic_score`, `proj`: which decision it
projects, `shown`: whose narrative is merged in), `det` the column `deterministic_score`,
`current` is `current_decision_id`, `notes` is `narrative_json`. `Input[a]` is the resume
and the job description of an analysis; a score is named by the analysis that computed it.
`Zero` is a score of 0 that no analysis has computed; an analysis is taken to score above
0. `decisions` is the append-only ledger in order, `jobs` the enrichment jobs, `work` what
a request or a queue worker that analyses is at, `task` what an enrichment worker is at,
`form` the row a recruiter's override has loaded.

| Route | Path through the actions |
|---|---|
| queue | `ReadRow`, `Save` (upsert and decision, one commit), `Refresh` (generation and decision read back), `Spawn` |
| direct | `ReadRow`, `Save` (upsert of the report `{}`), `Refresh`, `Spawn`, `Apply` (pipeline result) |
| stream | as direct up to `Refresh`, then `EarlySave` or `EarlySaveFails`, `Spawn`, and `FinalSave`, `FinalSaveFallback` (the pipeline has raised) or `Abandon` |

`Apply` and `FinalSave` straight after `Refresh` are a result from the scoring cache: then no
narrative is queued.

An analysis of the same resume and job description as the one in the row keeps the
earlier scores: `Preserves` is `_should_preserve_analysis_scores`, `Restored` is
`_restore_preserved_scores`, in the upsert with the row read before, in the saves at the
end of a direct or streamed analysis with the row itself (`Kept`), which keeps whatever
is there. `Column` is the part of `_populate_denormalized_columns` that matters: a report
without a score leaves the column. A decision that is not given a score computes it from
the component scores, and from none it is 0 (`OrZero`). An override computes both scores
anew from the component scores of the decision it overrides.

A narrative job goes `Lease`, `Mark` (status processing), `ReadReport`,
`WriteNarrative` (a conditional update on generation and decision; the merged report
was read before), `AnnounceKit`, `EnqueueKit`, `Finish`; a kit job `Lease`, `MergeKit`,
`Finish`. `LeaseLost` puts a job back while its worker goes on, `Crash` with it gone.
`CancelNarrative`, `WriteStatusOnly`, `AnnounceKitFails` and `MergeKitFails` are the error
paths. `tainted` is set when an upsert or an override writes over a row that is not the
one it read, when two analyses share a generation, or when a handler binds its
narrative to a generation that is not its own.

## 7. From the code to `VoiceCalls`

`row` has the columns of `voice_screening_sessions` that decide what happens next:
`gen` is `result_generation`, `event` the claimed completion event, `timed` that
`scheduled_at` is set, `retries` is `retry_count`, `outcome` the generation whose
assessment the row shows. `jobs` are the in-memory jobs of the scheduler leader, `stage`
the thread of one job: `Fire` claims the row, `Prepare` commits the dialling
parameters and looks once more whether the attempt is current, `Dial` is the request to
the agent (which may have reached the phone although it failed), `RecordVerdict` writes
what came of it. `DispatchFails` is the database failing under any of these: a claim that
raises loses the job; afterwards, a last look that raises, or a verdict whose write raises
or is swallowed (`voice_call_scheduler.py:326`, `388`, `399`, `408-418`), leaves the row
ringing, and the thread is `lost` as after a crash.

`Load` and a `Write...` are a recruiter's or a candidate's request: cancel (single, bulk,
interview page), consent denial, reschedule, retry, and the list endpoint that heals a
status left behind. `Create` and `CreateKeyed` are the schedule endpoint without and
with an operation id. `Reload`, `Arm` and `ArmFails` are what follows in the same
request. `Patch`, `ClaimCompletion`, `FinishCompletion`, `WriteAssessment` are the
agent's calls. `RetryScan` to `RetryAgain` are `process_voice_retries`, which commits
once per row; `ReconcileScan` to `ReconcileCommit` are
`reconcile_scheduled_voice_calls`, which commits once at the end. `RetryFails` and
`ReconcileAborts` end a pass in its middle: the first has committed what it did, the second
has removed and registered jobs and commits none of its marks. A row whose tenant has no
`VoiceTenantConfig` is passed over by the retries (`Configured`), and `max_retries` is at
least 1, because the code reads 0 as 3. `Colocated` says that
the API process is also the scheduler leader; otherwise a request cannot register or
cancel a job and the reconciliation has to. `crossed[s]` is set when an unlocked write
goes over a row that is not the one it read.

## 8. From the code to `Billing`

`tenant` has `subscription_status`, whether provider ids are stored, `suspended_at` with
who set it, and whether its users have been made inactive (`barred`). `events[e]` is
`billing_events.result`, "none" without a row. A delivery is `Deliver` (claim by the
unique constraint, or duplicate), then one of `Unmatched`, `Checkout`, `CheckoutRefused`,
`Receive`, `Pursue`, `Update`. `Commit` is the end of `process_webhook_event`: outcome,
tenant, invoice and dunning record together. `CheckoutRefused` is a checkout without a
known plan: the provider ids it has stored on the tenant are committed with its error.
`ClaimFails` is a claim whose insert fails on the database and that finds no row: it is
answered as a duplicate. In `Pursue` an exception of `initiate_dunning` is swallowed, and
`past_due` is committed without a record. `LookUp` is the query for the active dunning
record, a step of its own because a failed payment reads it long before it commits; a
payment with a new invoice locks the tenant before it looks, so there the read is part of
the commit. Events of Stripe, Razorpay and the manual provider with the same effect share
a kind. `Raise`, `NoteRead`, `NoteWrite` are the rollback and the second transaction that
records the error. `PassRead` and `RetryPaid`/`RetryRefused` are one record's turn in
`process_due_retries`; a pass over several records is a set of passes that have read
before. `DeskRead` and `DeskWrite` are the three endpoints of platform staff. `refused`,
`applied`, `reopened` and `crossed` are history variables.

Invoices are kept under `InvoiceKey`: Stripe's payments and payments by hand have an id of
their own, Razorpay's charges give the id of their subscription
(`webhook_processor.py:486`, `548`), and `create_invoice_from_payment` returns the invoice it
finds under it (`invoice_service.py:101`). The second charge of a subscription is applied
without an invoice.

When a record's retries are used up, `create_admin_notification` commits
(`notification_service.py:46`) in the middle of the handler (`dunning_service.py:113`) or of
the pass (line 249). Outcome, tenant and record have been set by then, so this is the commit
of `Pursue` and `RetryRefused`, and what follows changes nothing more. A pass over several
records commits in parts because of it, which a set of passes covers. When the notification
fails, the transaction is rolled back and the event is left as it was, as with `Crash` and
`PassDies`.

`suspend_tenant` makes the tenant's users inactive and `reactivate_tenant` leaves them so:
`barred`, once true, stays true. `PUT /tenants/{id}` (`admin.py:742`), with which an
administrator writes any subscription status, is left out.

## 9. Runs

| Run | Question | Instance |
|---|---|---|
| `job_queue_races` | One job under every interleaving | 1 job, 2 workers with a slot each, 2 requests, 1 retry |
| `job_queue_settle` | Duplicates, resubmission, backoff, dead letters: who owns the fingerprint, does every job settle? | 2 jobs of one input, 1 slot, 1 automatic retry each, 1 request, fairness |
| `quota_months` | Types, exact counter, jobs charged right and by the contract, holds settled once and in the end | late batch, batch stream, job; limit 3 of 4 asked for; 2 months, fairness |
| `idempotent_requests` | Once, the answer is kept, and is never another request's | 4 requests, 2 bodies |
| `screening_results` | Do the parts of a row belong together, and is the ledger in order? | 2 analyses, of the same input or of different ones, by any route, 2 workers, 1 override or 1 fault |
| `screening_live` | Are narratives settled, do kits arrive? | 2 analyses, of the same input or not, 1 worker, 1 fault, fairness |
| `voice_calls` | Is the generation the token of one dial and one completion, and does a row follow `CallAttempts`? | 1 session, 2 concurrent requests, 1 retry, 1 crash, failed registration or database error |
| `voice_live` | Does every call move on? | 2 failed calls, id of one a prefix of the other's, 1 retry, 1 cancellation or 1 fault and 1 late completion, fairness |
| `billing` | Effects once, dunning neither early nor open for ever | 4 feeds of 3 events, 2 servers, 1 pass, 4 deliveries, 1 desk request, 1 fault, fairness |

Two slots, servers or requests are enough for every pairwise race, and a third party is
present in each (recovery, reconciler, pass, lapse). One retry gives both sides of the
retry ceiling, two for dunning, whose count starts at the first failure. Two months give a
hold that is counted in one and settled in the next; the limit is below what is asked for,
so refusals occur. Four requests give two owners, a late one and one with another body.
Four deliveries of three events give a redelivery of each. The feeds are a failure, its
repetition and a payment; a first purchase and what may overtake it; two charges of one
Razorpay subscription and a failure; a tenant who pays by hand. The exact constants are in
the `.cfg` files.

`job_queue_settle` has the automatic retry and its backoff, recovery that requeues, and the
retry request. Two attempts of one job at once need a second slot and are in
`job_queue_races`; one job with two slots and two automatic retries settles too (82,704
states). In the runs of `ScreeningResults` three analyses are declared, two with the same
resume and job description, and any two are run; all three with one worker and nothing that
disturbs them satisfy the same invariants (2.6 million states).

The runs of `ScreeningResults` and the safety run of `VoiceCalls` stop at a state that
is tainted or crossed, since nothing is stated beyond it; an override and a fault in one
behaviour are left to the proofs, which hold for any number of both. `voice_calls` follows two
attempts of a call, by request or by the retry pass, up to an escalation, and after a fault
those of requests other than a retry (`Followed`). `voice_live` starts
from two calls that have failed, and `TwoRows` lets the dispatchers of the new attempts
claim and fail but not dial: the first life of a call is in `voice_calls`, the run is
about the passes. Its only request is a cancellation, because nothing obliges a client
to carry a reschedule through to its arming.

Deadlock checking is off: all the systems stop once their requests are used up.

### Properties

* `BilledOnDelivery`, `BillingContract`: a charge has a result, a result leaves no
  hold open, a hold is settled once. `BillingContract` is the refinement of
  `JobBilling`: in `JobQueue` with `account <- hold` and `delivered <- result exists`, in
  `QuotaLedger`, for its jobs, with `delivered <- the job's units are delivered`. There it
  says that neither a turn of the month nor a hold that runs out separates a charge from
  its result.
* `ResultImmutable`: no rerun replaces a stored result.
* `MarkerSound`: no stale write-back sets the marker of a hold that was not released.
* `TerminalParked`: dead jobs give up their fingerprint and leave a dead letter.
  `FingerprintGivenUp`: only they do, once, in the step in which they end, so nothing
  displaces a job whose analysis still counts.
* `JobsSettle`: every live job reaches a terminal status.
* `ExactWithinMonth`: the counter equals what is held or paid for. Across the turn of
  a month it does not: a hold of last month is taken from this month's counter.
* `JobsChargedIffDelivered`: a finished job is charged only if it delivered, and one
  that delivered is charged, also when its hold ran out of time under it. The exception
  is a job retried on a hold that had been released, or that a pass of the reconciler or a
  second cancellation had found open and was about to release; `free_completion` shows how
  the queue gets there.
* `SettledHolds`: a late consume, a second release and the reconciler leave a settled
  hold alone. `HoldsSettle`: the hold of a dead request is given back.
* `AtMostOnce`, `SuccessKept`: what an undisturbed key guarantees. `AnsweredAlike`: what
  any key does, lapsed, expired or owned twice: an answer was produced by a handler that
  ran for the same body.
* `NarrativeOfAnalysis`, `ReportOfOneAnalysis`, `ProjectionCurrent`: what is shown
  together belongs together, whatever old jobs and workers without a lease write.
  Findings, narrative and kit are of the analysis in the row; the scores are of that
  analysis or of one of the same resume and job description, whose scores the code keeps
  on purpose; the row projects the decision it names. A score of 0 that nobody computed is
  outside (section "Where the code differs"), and an override ends what is said of the
  report. `LedgerInOrder`: decisions follow the generations, and no two routes decide for
  the same analysis. `NarrativeSettles`: pending does not last, also when a worker dies.
  `KitArrives`: without faults an announced kit arrives.
* `OneDialPerAttempt`, `AssessmentOfAttempt`: the generation is a token.
  `AttemptsAsPromised` is the refinement of `CallAttempts`: a row goes through numbered
  attempts, each placed and heard at most once, only the latest one is heard and
  reported, and a completed or escalated call begins no other. A row on which unlocked
  writes have crossed maps to a lost call, of which nothing is promised, so the
  contract covers every other row for good. `RingingIsServed`: a ringing row has the
  dispatcher that claimed it, at work or let down by a crash or by the database; a request,
  a pass or a late verdict leaves no claim behind. `EndedStaysEnded`: no late writer revives
  a call. `ScheduledMovesOn`, `FailedMovesOn`: no call is forgotten.
* `AppliedOnce`: what an event does to status, invoices and dunning has been done once for
  its success and once more for every failure note that has written an error over one. The
  provider ids are outside: a refused checkout stores them and has not been applied.
  `PaymentsInvoiced`: the invoices are those the applied payments are filed under. That is
  one for each payment of Stripe or by hand, and one for all charges of a Razorpay
  subscription. `NoEarlySuspension`: overlapping failures, redeliveries and stale
  counts never shorten a tenant's time to pay. `SuspendedIsLocked`: a status of suspended
  comes with `suspended_at`; the converse does not hold. `SettledStays`: a settled record is
  never active again, though a stale failure may still turn resolved into exhausted.
  `DunningEnds`: every record is settled.

### Where the code differs from what the repository says

Each of these runs checks one property that a document states; TLC shows a behaviour
of the code that breaks it.

| Run | Statement | What happens |
|---|---|---|
| `free_completion` | a completion consumes the hold | cancel, retry: the job completes on a released hold |
| `voice_redial` | the generation is the token of an attempt | a row is armed again at a generation that was dialled |
| `screening_race` | a stale narrative cannot attach to a newer decision | the upsert does not send a status it believes unchanged |

The same modules show the following, which have no run of their own.

*Queue.* After cancel, retry and resubmit two live jobs hold one input, since the retry
does not restore the `input_hash` that the cancel replaced. A cancel request that read
the status before the completion cancels a completed job (`queue_api.py:643`). Two retry
requests that write the same `retry_count` give a job one attempt more than
`max_retries` + 1.

*Quota.* A job that is retried after a pass of the reconciler or a second cancellation has
found its hold open, and before that one releases it (`quota_reservation.py:172-185`,
`queue_api.py:651-671`), completes without a charge. Two requests that read the tenant
before the turn of a month both reset the counter (`subscription.py:113`), and the plan's
limit for the month is exceeded. A batch is charged for its failed items too, and one left
before its end for none. The reconciler also takes the hold of a direct request that is
still running.

*Idempotency.* Two take-overs of a failed key both own it
(`request_idempotency.py:127`). A handler slower than the 30 second lease is executed
again by its client's retry. An expired key refuses another body, because the
fingerprint is compared before the expiry.

*Screening.* A stream whose early save succeeded records no decision
(`analyze.py:1217-1226`), although docs/ai-governance/architecture.md:18 wants every
analysis in the ledger. A direct analysis of a known candidate with another resume or job
description is recorded as `INITIAL_ANALYSIS`, because the row it upserts first has the
report `{}`, and keeps that report when the pipeline raises. An override during a narrative discards it and the
status stays `processing`. After a lost lease the narrative is written again while the
finished kit job is not, so the kit may be gone. The upsert does not reset the kit's status.
A result from the scoring cache queues no narrative, and the status stays `pending`.

*Kept scores.* The upsert keeps them for an unchanged candidate and job, but the early
save of a stream writes the new ones over them, so a rerun by that route keeps nothing,
although the docstring of `_should_preserve_analysis_scores` says "keep prior analysis
scores" (`analyze_helpers.py:332`). The saves at the end of an analysis compare the row
with itself: an override during a running analysis of another input projects the old
decision into its report, and the final save keeps the old scores. The column
`deterministic_score` survives the report `{}` and is restored from there even if it is of
another input. A decision without a score is given 0: when the pipeline of a stream raises
over a row with no scores, the fallback is decided with 0, and later analyses of the same
input keep that 0. A `fit_score` of 0 in turn counts as missing when a narrative is merged
(`hybrid_pipeline.py:2637`): the report is replaced by the job's own result and loses its
projection.

*Voice.* A keyed schedule request is answered 503 the first time, always: it arms before
its row is visible. Sent with the header as well, it meets its own key and gets 409.
`cancel_pending_retries` matches job names by prefix, so cancelling session 1 loses the
jobs of session 12. Rows without `scheduled_at` are never reconciled. A crash, or a
failing database after the claim, leaves rows ringing for ever. The completion callback
overwrites a cancellation that came in between. A request on a process that does not lead
registers its job in a scheduler that does not run.

*Billing.* The second charge of a Razorpay subscription has no invoice. A checkout without
a known plan is an error that has stored the provider ids. Users made inactive by a
suspension stay so after the reactivation (`admin.py:417`, `437-454`). A tenant suspended
by dunning that pays stays locked: the payment sets the status and leaves `suspended_at`,
which `get_current_user` tests (`middleware/auth.py:231`), although the message at line
254 says that updating the payment method restores access; only reactivation by staff
helps. `initiate_dunning` exhausts a record without suspending, leaving that to "caller or
process_due_retries" (`dunning_service.py:103`), and neither does: the tenant is past due
for ever and keeps its features. A failure note written late turns a success into an
error, although `_claim_billing_event` calls success terminal, and the event is applied
again. An event whose tenant is not known yet is acknowledged and never comes back. Two
failures at once open two records, and a payment resolves one. A pass that has read before
a payment suspends the tenant that has paid.

## 10. Fairness

`JobQueue`: slots poll in a loop, and every provider call has a timeout, so a started
task commits or fails and a failing task writes or dies; clocks advance; the
scheduler runs the recovery pass every five minutes. Hence weak fairness of claiming,
starting, ending, failing, of the lapse of a lease nobody can renew, of backoff and
recovery. There is none for heartbeats or requests, and `Abandon` may happen any
number of times: retries are bounded, so jobs still settle.
`QuotaLedger`: holds run out, the reconciler runs and ends its passes; requests owe nothing.
`ScreeningResults`: a worker's loop leases queued work and goes on with what it runs
(`worker_loop`); analyses, recruiters and faults owe nothing.
`VoiceCalls`: the scheduler fires its jobs, its threads end (the request to the agent has
a timeout), and its two periodic passes run and are carried through
(`start_voice_scheduler`), unless the database fails, which is a fault and bounded;
requests, the agent, the clock and crashes owe nothing.
`Billing`: the scheduler starts the dunning pass every hour (`start_scheduler`), and a
pass ends because the provider's client has a timeout; providers and staff owe nothing.

## 11. Proofs

All theorems hold for every value of the constants under the assumptions named in
the modules (`JobQueueAssumption`, `QuotaAssumption`, `IdempotencyAssumption`,
`VoiceAssumption`, `BillingAssumption`, and that of `ScreeningResults`). Each proof has an
invariant `IInv`, true initially, kept by every action, that implies the properties;
they are not inductive alone. All the safety properties of the passing runs are proved,
the three refinements included.

`JobQueueProofs`: the strengthening says what the copies kept by slots and requests
may contain: a copied marker is never ahead of the hold, a copied retry count has room
below the maximum, a row that a task or a request refers to exists. The refinement maps
each action to a step of `JobBilling` or a stutter. `GivenUpOnce` needs one more fact, that
a cancellation that has read its job as cancelled has read it archived
(`CancelledSeenArchived`). `CompletedSettled` is what remains of the documented sentence that
`free_completion` refutes: a completed job has its result and a settled hold, though not
always a charged one.

`JobBillingProofs`: of any system that follows the contract, a charged job has its result,
and neither a charge nor a result is taken back. `JobQueueProofs` and `QuotaLedgerProofs`
show that their system follows it (`ImplementsBilling`) and inherit what the contract
gives (`NeverTakenBack`, and `ChargedWithResult` in the ledger; the queue's own
`BilledOnDelivery` says more than the contract).

`QuotaLedgerProofs`: exactness needs that in the first month nobody has seen another
month (`FirstMonth`), that a request reserves once (`NoHoldYet`), and lemmas on the
cardinality of the held units (`UnitsAdd`, `UnitsRemove`); jobs need what a job has in
each phase (`JobHolds`), from which the billing contract follows step by step as well: a hold
that a pass or a cancellation is about to release is that of a job that is over, or that is in
`rerun`.

`RequestIdempotencyProofs`: `Quiet` says that on an undisturbed key the owner is the only
request ever let in, so no unlocked read is followed by a write. `Alike` needs no such
condition: a row keeps the body it was inserted with, only requests with that body are let
in, and every answer stored or received is of one of them that has run.

`ScreeningResultsProofs`: `Lineage` says that until the history is tainted a generation
has one owner, the analysis in the row, and all that works for the row's generation
(handlers, jobs, tasks, what they have read) is its own. `BoundInQueue` adds that in a
generation of the queue every narrative is bound to a decision and that the report it has
read projects that decision, which is why writing the whole report back is safe.
`KitFollows` ties the kit to the narrative. `ScoresKept` says that the scores in the
report, and in the copies into which narratives will be merged, are of the row's input,
which `ReportOfOneAnalysis` needs. It rests on the ledger, because the 0 of an analysis
without scores enters the report by a decision that must not have been made before.
`LedgerInOrder` rests on `Lineage` and on one fact more (`Undecided`): while an analysis
of a route that decides at its end is running for the row's generation, only overrides
have been decided in it.

`VoiceCallsProofs`: `Attempt(s)` holds on every row until a write has crossed another one.
It says that generations beyond the row's are unused, that the row's generation is not
dialled while it is scheduled, that a generation is dialled and completed at most once,
and that a ringing row has a dispatcher. Every writer either names the generation, or
takes the next one. For the refinement, every step of an uncrossed row is one of five
moves (`Moves`: nothing the contract sees, the next attempt, a dial, a completion heard,
an assessment or a completed status), each a step of `CallAttempts`; that needs `Placed`,
that what was heard or completed had been dialled. The types are a second invariant,
`Types`: they hold of the out-of-date copies too, whatever has crossed.

`CallAttemptsProofs`: of any system that follows `CallAttempts`, only a placed attempt is
completed, a report is of the latest attempt and was heard before, and no step takes an
attempt, a dial, a completion or an end back. `VoiceCallsProofs` inherits both
(`VoiceReportsHeard`, `VoiceNothingUndone`) through the mapping.

`BillingProofs`: `Exclusive` says that a handler holding an event's row holds it alone and
that the event has not been applied; `Counted` that every count of a dunning record, in
the table or read by a handler or a pass, is behind the payments that have failed. From it
follows that nobody is locked early, however stale what is written back. `Exclusive` also
gives `EffectsFollowOutcomes`, which holds where `AppliedOnce` ends: an effect is
committed only by the step that turns its event into a success, so it is repeated only
after a failure note has reopened the event.

Checked by TLC only: `JobsSettle`, `HoldsSettle`, `NarrativeSettles`, `KitArrives`,
`ScheduledMovesOn`, `FailedMovesOn` and `DunningEnds`, because liveness under fairness is
outside what the proof system handles; and the statements that fail.

## 12. Not modelled

* Scoring, parsing, guardrails, recruiter agents: transformations of text and floating
  point numbers with little control.
* Candidate matching and merging, requisitions, outcomes, adverse action, sessions and
  sign-in: one transaction per request over many columns. Erasure is correct only
  with respect to the whole schema.
* The voice agent's conversation and the speech service depend on media and LLM
  content; the agent's reports are inputs of `VoiceCalls`.
* Circuit breaker, LLM permits, rate limit and cache delay or refuse; the modules let every
  such call fail or take any time. (The breaker never increments `half_open_calls`, so
  `half_open_max_calls` bounds nothing, and the one named `llm` sees no failure, because
  the providers return `None` instead of raising: what the modules assume of calls is
  what it leaves.) Outbound webhooks are best effort.
* In the modelled components: artifacts and their purge, the worker loop's slots and
  drain, storage quota, unlimited plans and the administrators' quota operations, voice
  strategy jobs, rescoring, scorecards, transcripts and business hours, plan contents,
  trials, and the forms in which administrators write any subscription status.
* Frontend, migrations, deployment and operations scripts are not runtime behaviour of
  the core.

Two hazards of the modelled code are out of the models' sight: the order in which
transactions lock jobs and reservations, since a transaction is one step, and idle slots
of the worker loop, since nothing is stated about delays.
