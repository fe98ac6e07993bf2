----------------------------- MODULE VoiceCalls -----------------------------
(***************************************************************************)
(* The life of an outbound screening call: the row of                      *)
(* voice_screening_sessions, the APScheduler jobs of the process that      *)
(* leads the voice scheduler, the dispatcher threads those jobs start, the *)
(* retry and reconciliation passes, the recruiters' requests and the       *)
(* callbacks of the voice agent.                                           *)
(*                                                                         *)
(* Three kinds of writer meet on one row.  Conditional updates name the    *)
(* generation and the status they expect; locked ones hold the row between *)
(* read and write; the others (cancel, reschedule, retry, the passes and   *)
(* the end of the completion callback) write what they computed from an    *)
(* unlocked read, and SQLAlchemy sends the columns that differ from it.    *)
(***************************************************************************)
EXTENDS Naturals, FiniteSets

CONSTANTS
    Sessions,      \* voice_screening_sessions rows
    Users,         \* requests of recruiters and candidates in flight
    PrefixOf,      \* pairs <<s, t>>: the decimal id of s begins that of t
    Colocated,     \* the API process is also the scheduler leader
    Configured,    \* rows whose tenant has a VoiceTenantConfig
    MaxOps,        \* bound on user requests
    MaxRetries,    \* VoiceTenantConfig.max_retries, where 0 stands for 3
    MaxFaults      \* bound on crashes, failed registrations and database errors

ASSUME VoiceAssumption ==
    /\ PrefixOf \subseteq Sessions \X Sessions
    /\ Colocated \in BOOLEAN
    /\ Configured \subseteq Sessions
    /\ MaxOps \in Nat /\ MaxRetries \in Nat \ {0} /\ MaxFaults \in Nat

VARIABLES
    row,           \* row[s]: the session row
    jobs,          \* <<s, g>>: job voice_call_{s}_{g} of the leader's scheduler
    stage,         \* stage[s][g]: the dispatcher thread of that job
    dialled,       \* dialled[s][g]: dispatches that reached the voice agent
    accepted,      \* accepted[s][g]: completions claimed
    finishing,     \* finishing[s][g]: the completion callback of that attempt
    request,       \* request[u]: the user request in flight
    retrier,       \* process_voice_retries
    reconciler,    \* reconcile_scheduled_voice_calls
    missed,        \* missed[s]: scheduled_at is past the grace period
    keyed,         \* sessions of a keyed request answered 503
    ops, faults,   \* user requests and faults so far
    crossed        \* history: a write went over another one it had not read

vars == <<row, jobs, stage, dialled, accepted, finishing, request, retrier,
          reconciler, missed, keyed, ops, faults, crossed>>

MaxGen == 2 + MaxOps + MaxRetries
Gens == 1..MaxGen
TerminalUnescalated == {"completed", "cancelled", "ended", "voicemail"}
Terminal == {"completed", "cancelled", "ended", "escalated", "voicemail"}
Retryable == {"failed", "no_answer", "pending"}
CompletionRejected == {"cancelled", "ended", "escalated", "voicemail"}
Statuses == Terminal \union Retryable
            \union {"absent", "scheduled", "ringing", "in_progress"}
Row == [status : Statuses, gen : Nat, event : Nat, timed : BOOLEAN,
        retries : Nat, outcome : Nat]
Ops == {"cancel", "deny", "reschedule", "retry", "list"}
Verdicts == {"in_progress", "failed", "pending"}
\* "lost": the thread has ended without settling the call it had claimed
Stages == {"idle", "claimed", "checked", "lost"} \union Verdicts

NoRow == [status |-> "absent", gen |-> 1, event |-> 0, timed |-> FALSE,
          retries |-> 0, outcome |-> 0]
Idle == [pc |-> "idle"]
NoPass == [on |-> FALSE]

MayPatchAnything(from, to) == TRUE
(* can_transition_voice_status *)
MayPatch(from, to) ==
    \/ from = to
    \/ to \in (CASE from = "scheduled"   -> {"ringing", "in_progress", "cancelled",
                                             "failed", "pending"}
                 [] from = "ringing"     -> {"in_progress", "cancelled", "failed",
                                             "pending"}
                 [] from = "in_progress" -> {"completed", "cancelled", "failed"}
                 [] from \in Retryable   -> {"scheduled", "cancelled", "escalated"}
                 [] from = "voicemail"   -> {"cancelled"}
                 [] OTHER                -> {})

InvalidateSameToken(r, status) == [r EXCEPT !.status = status, !.event = 0]
(* invalidate_voice_attempt: a new token, the completion claim dropped *)
Invalidate(r, status) ==
    [status |-> status, gen |-> r.gen + 1, event |-> 0, timed |-> r.timed,
     retries |-> r.retries, outcome |-> r.outcome]
RenewSameToken(r, timed, retries) ==
    [status |-> "scheduled", gen |-> r.gen, event |-> 0, timed |-> timed,
     retries |-> retries, outcome |-> 0]
(* the same for another call: what the old attempt produced is cleared *)
Renew(r, timed, retries) ==
    [status |-> "scheduled", gen |-> r.gen + 1, event |-> 0, timed |-> timed,
     retries |-> retries, outcome |-> 0]

Scheduled(r, timed) ==
    [status |-> "scheduled", gen |-> r.gen, event |-> r.event, timed |-> timed,
     retries |-> r.retries, outcome |-> r.outcome]
CompleteMisspelt(r, status) ==
    [r EXCEPT !.status = IF status = "completed" THEN "complete" ELSE status]
WithStatus(r, status) == [r EXCEPT !.status = status]

FlushForgotten(now, seen, new) == now
(* A unit of work flushes the columns that differ from what it had loaded. *)
Flush(now, seen, new) ==
    LET Column(f) == IF new[f] # seen[f] THEN new[f] ELSE now[f]
    IN  [status |-> Column("status"), gen |-> Column("gen"),
         event |-> Column("event"), timed |-> Column("timed"),
         retries |-> Column("retries"), outcome |-> Column("outcome")]

(* Write new over s having read seen; the write has crossed another one    *)
(* when the row is no longer what was read.                                *)
UnlockedWrite(s, seen, new) ==
    /\ row' = [row EXCEPT ![s] = Flush(row[s], seen, new)]
    /\ crossed' = [crossed EXCEPT ![s] = @ \/ row[s] # seen]

UpdateIfScheduled(s, g, expected, new) ==
    row' = IF row[s].gen = g /\ row[s].status = "scheduled"
             THEN [row EXCEPT ![s] = WithStatus(row[s], new)] ELSE row

(* _conditional_voice_update: generation and status are part of the WHERE *)
Update(s, g, expected, new) ==
    row' = IF row[s].gen = g /\ row[s].status \in expected
             THEN [row EXCEPT ![s] = WithStatus(row[s], new)] ELSE row

(* What cancel_pending_retries removes: every job whose name contains      *)
(* "voice_call_" and the id, those of longer ids with that prefix included *)
JobsNamed(s) == {j \in jobs : j[1] = s \/ <<s, j[1]>> \in PrefixOf}

Init ==
    /\ row = [s \in Sessions |-> NoRow]
    /\ jobs = {}
    /\ stage = [s \in Sessions |-> [g \in Gens |-> "idle"]]
    /\ dialled = [s \in Sessions |-> [g \in Gens |-> 0]]
    /\ accepted = [s \in Sessions |-> [g \in Gens |-> 0]]
    /\ finishing = [s \in Sessions |-> [g \in Gens |-> "no"]]
    /\ request = [u \in Users |-> Idle]
    /\ retrier = NoPass
    /\ reconciler = NoPass
    /\ missed = [s \in Sessions |-> FALSE]
    /\ keyed = {}
    /\ ops = 0 /\ faults = 0
    /\ crossed = [s \in Sessions |-> FALSE]
-----------------------------------------------------------------------------
(* Requests *)

Begin(u, r) == /\ request[u] = Idle
               /\ ops < MaxOps
               /\ ops' = ops + 1
               /\ request' = [request EXCEPT ![u] = r]

Arming(s, g, key) == [pc |-> "arm", s |-> s, gen |-> g, key |-> key]

(* POST /schedule without an operation id: the row is committed, then armed *)
Create(u, s, timed) ==
    /\ row[s].status = "absent"
    /\ Begin(u, Arming(s, 1, FALSE))
    /\ row' = [row EXCEPT ![s] = Scheduled(row[s], timed)]
    /\ UNCHANGED <<jobs, stage, dialled, accepted, finishing, retrier,
                   reconciler, missed, keyed, faults, crossed>>

(* POST /schedule with one: schedule_once arms while the row is only       *)
(* flushed.  The arming session cannot see it, the request answers 503 and *)
(* commits the row with the failed lease.                                  *)
CreateKeyed(u, s, timed) ==
    /\ row[s].status = "absent"
    /\ request[u] = Idle /\ ops < MaxOps /\ ops' = ops + 1
    /\ row' = [row EXCEPT ![s] = Scheduled(row[s], timed)]
    /\ keyed' = keyed \union {s}
    /\ UNCHANGED <<jobs, stage, dialled, accepted, finishing, request, retrier,
                   reconciler, missed, faults, crossed>>

(* The client repeats the keyed request: the session of the failed lease   *)
(* is armed at the generation it has now, whatever has become of it.       *)
RepeatKeyed(u, s) ==
    /\ s \in keyed
    /\ Begin(u, Arming(s, row[s].gen, TRUE))
    /\ keyed' = keyed \ {s}
    /\ UNCHANGED <<row, jobs, stage, dialled, accepted, finishing, retrier,
                   reconciler, missed, faults, crossed>>

(* The status test of each handler; "list" heals a finished call whose     *)
(* status was left behind (a claimed completion has set its duration).     *)
Allowed(op, r) ==
    CASE op \in {"cancel", "deny"} -> r.status \notin Terminal \union {"absent"}
      [] op = "reschedule" -> r.status \in {"scheduled", "no_answer", "failed", "cancelled"}
      [] op = "retry" -> r.status = "failed"
      [] op = "list" -> r.status = "in_progress" /\ r.event # 0

(* The other requests load the row and test it without a lock *)
Load(u, op, s) ==
    /\ Allowed(op, row[s])
    /\ Begin(u, [pc |-> "write", op |-> op, s |-> s, seen |-> row[s]])
    /\ UNCHANGED <<row, jobs, stage, dialled, accepted, finishing, retrier,
                   reconciler, missed, keyed, faults, crossed>>

(* cancel_voice_session, bulk_cancel_sessions, cancel_interview_session and *)
(* the denial in record_candidate_consent, which leaves the jobs alone      *)
WriteCancel(u) ==
    LET r == request[u] IN
    /\ r.pc = "write" /\ r.op \in {"cancel", "deny"}
    /\ jobs' = IF Colocated /\ r.op = "cancel" THEN jobs \ JobsNamed(r.s) ELSE jobs
    /\ UnlockedWrite(r.s, r.seen, Invalidate(r.seen, "cancelled"))
    /\ request' = [request EXCEPT ![u] = Idle]
    /\ UNCHANGED <<stage, dialled, accepted, finishing, retrier, reconciler,
                   missed, keyed, ops, faults>>

(* reschedule_voice_session up to its commit *)
WriteReschedule(u, timed) ==
    LET r == request[u] IN
    /\ r.pc = "write" /\ r.op = "reschedule"
    /\ jobs' = IF Colocated THEN jobs \ JobsNamed(r.s) ELSE jobs
    /\ UnlockedWrite(r.s, r.seen,
                     Renew(r.seen, timed, r.seen.retries))
    /\ missed' = [missed EXCEPT ![r.s] = FALSE]
    /\ request' = [request EXCEPT ![u] = [pc |-> "reload", s |-> r.s]]
    /\ UNCHANGED <<stage, dialled, accepted, finishing, retrier, reconciler,
                   keyed, ops, faults>>

(* retry_interview_session of a quick session up to its commit *)
WriteRetry(u) ==
    LET r == request[u] IN
    /\ r.pc = "write" /\ r.op = "retry"
    /\ UnlockedWrite(r.s, r.seen,
                     Renew(r.seen, r.seen.timed, r.seen.retries + 1))
    /\ request' = [request EXCEPT ![u] = [pc |-> "reload", s |-> r.s]]
    /\ UNCHANGED <<jobs, stage, dialled, accepted, finishing, retrier,
                   reconciler, missed, keyed, ops, faults>>

(* list_voice_sessions, the healing of stale rows *)
WriteHealed(u) ==
    LET r == request[u] IN
    /\ r.pc = "write" /\ r.op = "list"
    /\ UnlockedWrite(r.s, r.seen, WithStatus(r.seen, "completed"))
    /\ request' = [request EXCEPT ![u] = Idle]
    /\ UNCHANGED <<jobs, stage, dialled, accepted, finishing, retrier,
                   reconciler, missed, keyed, ops, faults>>

(* The commit has expired the object: session.result_generation, read for  *)
(* the call below, is the one the row has by then.                         *)
Reload(u) ==
    LET r == request[u] IN
    /\ r.pc = "reload"
    /\ request' = [request EXCEPT ![u] = Arming(r.s, row[r.s].gen, FALSE)]
    /\ UNCHANGED <<row, jobs, stage, dialled, accepted, finishing, retrier,
                   reconciler, missed, keyed, ops, faults, crossed>>

(* schedule_voice_call: the row is locked at the generation, its status is *)
(* not looked at; the job goes to the scheduler of this process.           *)
ArmLocked(s, g) ==
    /\ row[s].gen = g
    /\ row' = [row EXCEPT ![s] = Scheduled(row[s], TRUE)]
    /\ missed' = [missed EXCEPT ![s] = FALSE]
    /\ crossed' = [crossed EXCEPT ![s] = @ \/ row[s].status # "scheduled"]

Arm(u) ==
    LET r == request[u] IN
    /\ r.pc = "arm"
    /\ ArmLocked(r.s, r.gen)
    /\ jobs' = IF Colocated THEN jobs \union {<<r.s, r.gen>>} ELSE jobs
    /\ request' = [request EXCEPT ![u] = Idle]
    /\ UNCHANGED <<stage, dialled, accepted, finishing, retrier, reconciler,
                   keyed, ops, faults>>

(* The generation is gone, or add_job fails after the commit: the keyed    *)
(* request keeps its failed lease.                                         *)
ArmFails(u) ==
    LET r == request[u] IN
    /\ r.pc = "arm"
    /\ \/ row[r.s].gen # r.gen /\ UNCHANGED <<row, missed, faults, crossed>>
       \/ /\ faults < MaxFaults
          /\ faults' = faults + 1
          /\ ArmLocked(r.s, r.gen)
    /\ keyed' = IF r.key THEN keyed \union {r.s} ELSE keyed
    /\ request' = [request EXCEPT ![u] = Idle]
    /\ UNCHANGED <<jobs, stage, dialled, accepted, finishing, retrier,
                   reconciler, ops>>
-----------------------------------------------------------------------------
(* execute_scheduled_call *)

Step(s, g, from, to) == /\ stage[s][g] = from
                        /\ stage' = [stage EXCEPT ![s][g] = to]

(* The date trigger fires once.  The job claims scheduled -> ringing.      *)
Fire(s, g) ==
    /\ <<s, g>> \in jobs
    /\ jobs' = jobs \ {<<s, g>>}
    /\ IF /\ stage[s][g] \in {"idle", "lost"}
          /\ row[s].gen = g /\ row[s].status = "scheduled"
         THEN /\ row' = [row EXCEPT ![s] = WithStatus(row[s], "ringing")]
              /\ stage' = [stage EXCEPT ![s][g] = "claimed"]
         ELSE UNCHANGED <<row, stage>>
    /\ UNCHANGED <<dialled, accepted, finishing, request, retrier, reconciler,
                   missed, keyed, ops, faults, crossed>>

(* A job more than misfire_grace_time late is dropped unexecuted. *)
Misfire(s, g) ==
    /\ <<s, g>> \in jobs /\ missed[s]
    /\ jobs' = jobs \ {<<s, g>>}
    /\ UNCHANGED <<row, stage, dialled, accepted, finishing, request, retrier,
                   reconciler, missed, keyed, ops, faults, crossed>>

(* The context is read back, which may fail, and _dispatch_attempt_is_current *)
(* looks at the attempt once more before the provider is called.              *)
Prepare(s, g) ==
    /\ IF row[s].gen = g /\ row[s].status = "ringing"
         THEN \/ Step(s, g, "claimed", "checked") /\ UNCHANGED row
              \/ /\ Step(s, g, "claimed", "idle")
                 /\ Update(s, g, {"ringing"}, "failed")
         ELSE Step(s, g, "claimed", "idle") /\ UNCHANGED row
    /\ UNCHANGED <<jobs, dialled, accepted, finishing, request, retrier,
                   reconciler, missed, keyed, ops, faults, crossed>>

(* The provider request.  A success has reached the agent, which places    *)
(* the call and reports on it; a refused connection has not, any other     *)
(* error may or may not have.                                              *)
Dial(s, g, reached, verdict) ==
    /\ verdict = "in_progress" => reached
    /\ verdict = "pending" => ~reached
    /\ Step(s, g, "checked", verdict)
    /\ dialled' = [dialled EXCEPT ![s][g] = IF reached THEN @ + 1 ELSE @]
    /\ UNCHANGED <<row, jobs, accepted, finishing, request, retrier,
                   reconciler, missed, keyed, ops, faults, crossed>>

RecordVerdict(s, g) ==
    /\ stage[s][g] \in Verdicts
    /\ Update(s, g, {"ringing"}, stage[s][g])
    /\ stage' = [stage EXCEPT ![s][g] = "idle"]
    /\ UNCHANGED <<jobs, dialled, accepted, finishing, request, retrier,
                   reconciler, missed, keyed, ops, faults, crossed>>

(* The database fails under the job.  The claim raises, and the job is     *)
(* gone with the row as it was; or one of the later statements does: the   *)
(* last look before the provider call, which no handler covers, or the     *)
(* write of a failure, whose own error is raised or swallowed.             *)
DispatchFails(s, g) ==
    /\ faults < MaxFaults
    /\ faults' = faults + 1
    /\ \/ <<s, g>> \in jobs /\ jobs' = jobs \ {<<s, g>>} /\ UNCHANGED stage
       \/ /\ stage[s][g] \notin {"idle", "lost"}
          /\ stage' = [stage EXCEPT ![s][g] = "lost"]
          /\ UNCHANGED jobs
    /\ UNCHANGED <<row, dialled, accepted, finishing, request, retrier,
                   reconciler, missed, keyed, ops, crossed>>
-----------------------------------------------------------------------------
(* The voice agent calls back for an attempt it was handed, when and as    *)
(* often as the network lets it; also when its own call has failed.        *)

(* PATCH /sessions/{id}: update_voice_session *)
Patch(s, g, status) ==
    /\ dialled[s][g] > 0
    /\ row[s].gen = g
    /\ row[s].status \notin CompletionRejected
    /\ MayPatch(row[s].status, status)
    /\ row' = [row EXCEPT ![s] = WithStatus(row[s], status)]
    /\ UNCHANGED <<jobs, stage, dialled, accepted, finishing, request, retrier,
                   reconciler, missed, keyed, ops, faults, crossed>>

(* claim_voice_completion and the commit that follows; the event of an     *)
(* attempt is named after its generation.                                  *)
ClaimCompletion(s, g) ==
    /\ dialled[s][g] > 0
    /\ finishing[s][g] = "no"
    /\ row[s].gen = g
    /\ row[s].status \notin CompletionRejected
    /\ row[s].event = 0
    /\ row' = [row EXCEPT ![s] = [row[s] EXCEPT !.event = g]]
    /\ accepted' = [accepted EXCEPT ![s][g] = @ + 1]
    /\ finishing' = [finishing EXCEPT ![s][g] = "claimed"]
    /\ UNCHANGED <<jobs, stage, dialled, request, retrier, reconciler, missed,
                   keyed, ops, faults, crossed>>

(* on_interview_complete after that commit: status by primary key alone *)
FinishCompletion(s, g) ==
    /\ finishing[s][g] = "claimed"
    /\ finishing' = [finishing EXCEPT ![s][g] = "ended"]
    /\ row' = [row EXCEPT ![s] = WithStatus(row[s], "completed")]
    /\ crossed' = [crossed EXCEPT ![s] =
                      @ \/ row[s].gen # g \/ row[s].status \in CompletionRejected]
    /\ UNCHANGED <<jobs, stage, dialled, accepted, request, retrier, reconciler,
                   missed, keyed, ops, faults>>

(* process_completed_call: the generation is looked at again, under the    *)
(* lock, after the provider has answered.                                  *)
WriteAssessment(s, g) ==
    /\ finishing[s][g] = "ended"
    /\ finishing' = [finishing EXCEPT ![s][g] = "no"]
    /\ row' = IF row[s].gen = g
                THEN [row EXCEPT ![s] = WithStatus([row[s] EXCEPT !.outcome = g],
                                                   "completed")]
                ELSE row
    /\ UNCHANGED <<jobs, stage, dialled, accepted, request, retrier, reconciler,
                   missed, keyed, ops, faults, crossed>>
-----------------------------------------------------------------------------
(* process_voice_retries.  The rows found whose interval has passed are    *)
(* held while the pass runs; the commit for one of them expires the        *)
(* others, which are loaded again but not selected again.  A row whose     *)
(* tenant has no configuration is passed over.                             *)

RetryScan(found) ==
    /\ ~retrier.on
    /\ found # {} /\ found \subseteq Configured
    /\ \A s \in found : row[s].status \in Retryable
    /\ retrier' = [on |-> TRUE, todo |-> found, held |-> found,
                   picked |-> [s \in found |-> row[s]],
                   seen |-> [s \in found |-> row[s]]]
    /\ UNCHANGED <<row, jobs, stage, dialled, accepted, finishing, request,
                   reconciler, missed, keyed, ops, faults, crossed>>

RetryLoad(s) ==
    /\ retrier.on /\ s \in retrier.todo \ retrier.held
    /\ retrier' = [retrier EXCEPT !.held = @ \union {s}, !.seen[s] = row[s]]
    /\ UNCHANGED <<row, jobs, stage, dialled, accepted, finishing, request,
                   reconciler, missed, keyed, ops, faults, crossed>>

AtHand(s) == retrier.on /\ s \in retrier.todo \intersect retrier.held

RetryNext(s, held) ==
    retrier' = IF retrier.todo = {s} THEN NoPass
               ELSE [retrier EXCEPT !.todo = @ \ {s}, !.held = held]

RetryWrite(s, new) ==
    /\ row' = [row EXCEPT ![s] = Flush(row[s], retrier.seen[s], new)]
    /\ crossed' = [crossed EXCEPT ![s] =
                      @ \/ row[s] # retrier.seen[s] \/ row[s].status \notin Retryable]
    /\ RetryNext(s, {})

(* Exhausted retries escalate before the interval is looked at. *)
RetryEscalate(s) ==
    /\ AtHand(s)
    /\ retrier.seen[s].retries >= MaxRetries
    /\ RetryWrite(s, Invalidate(retrier.seen[s], "escalated"))
    /\ UNCHANGED <<jobs, stage, dialled, accepted, finishing, request,
                   reconciler, missed, keyed, ops, faults>>

(* A row updated since the scan has not waited its interval. *)
RetrySkip(s) ==
    /\ AtHand(s)
    /\ retrier.seen[s].retries < MaxRetries
    /\ retrier.seen[s] # retrier.picked[s]
    /\ RetryNext(s, retrier.held)
    /\ UNCHANGED <<row, jobs, stage, dialled, accepted, finishing, request,
                   reconciler, missed, keyed, ops, faults, crossed>>

RetryAgain(s) ==
    LET seen == retrier.seen[s] IN
    /\ AtHand(s)
    /\ seen.retries < MaxRetries /\ seen = retrier.picked[s]
    /\ RetryWrite(s, Renew(seen, TRUE, seen.retries + 1))
    /\ missed' = [missed EXCEPT ![s] = FALSE]
    /\ \/ jobs' = jobs \union {<<s, seen.gen + 1>>} /\ UNCHANGED faults
       \/ /\ faults < MaxFaults
          /\ faults' = faults + 1
          /\ UNCHANGED jobs
    /\ UNCHANGED <<stage, dialled, accepted, finishing, request, reconciler,
                   keyed, ops>>

(* An error of the database ends the pass; its commits so far stay. *)
RetryFails ==
    /\ retrier.on
    /\ faults < MaxFaults
    /\ faults' = faults + 1
    /\ retrier' = NoPass
    /\ UNCHANGED <<row, jobs, stage, dialled, accepted, finishing, request,
                   reconciler, missed, keyed, ops, crossed>>
-----------------------------------------------------------------------------
(* reconcile_scheduled_voice_calls *)

PendingInTime == {s \in Sessions : row[s].status = "scheduled" /\ row[s].timed
                                  /\ ~missed[s]}
Pending == {s \in Sessions : row[s].status = "scheduled" /\ row[s].timed}

(* A scan that would find every pending row registered and no job of an    *)
(* older generation changes nothing and is left out.                       *)
Amiss == \/ \E s \in Pending : <<s, row[s].gen>> \notin jobs
         \/ \E j \in jobs : j[1] \in Pending /\ j[2] # row[j[1]].gen

ReconcileScan ==
    /\ ~reconciler.on
    /\ Amiss
    /\ reconciler' = [on |-> TRUE, found |-> Pending,
                      known |-> {j \in jobs : j[1] \in Pending},
                      seen |-> [s \in Pending |-> row[s]],
                      past |-> {s \in Pending : missed[s]}, late |-> {}]
    /\ UNCHANGED <<row, jobs, stage, dialled, accepted, finishing, request,
                   retrier, missed, keyed, ops, faults, crossed>>

(* Jobs of the row under another generation than the one it was read with *)
StaleJobs(s) == {j \in reconciler.known : j[1] = s /\ j[2] # reconciler.seen[s].gen}

(* One row of the scan: jobs of other generations go, the missing job is   *)
(* registered, a call missed by more than the grace period is marked.      *)
ReconcileRow(s) ==
    LET seen == reconciler.seen[s]
        known == <<s, seen.gen>> \in reconciler.known
        late == IF ~known /\ s \in reconciler.past THEN {s} ELSE {}
        left == reconciler.found \ {s}
        marked == reconciler.late \union late
    IN
    /\ reconciler.on /\ s \in reconciler.found
    /\ StaleJobs(s) \subseteq jobs
    /\ jobs' = (jobs \ StaleJobs(s))
                 \union (IF known \/ late # {} THEN {} ELSE {<<s, seen.gen>>})
    /\ reconciler' = IF left = {} /\ marked = {} THEN NoPass
                     ELSE [on |-> TRUE, found |-> left, known |-> reconciler.known,
                           seen |-> reconciler.seen, past |-> reconciler.past,
                           late |-> marked]
    /\ UNCHANGED <<row, stage, dialled, accepted, finishing, request, retrier,
                   missed, keyed, ops, faults, crossed>>

(* A stale job that is gone by the time it is removed, or a registration   *)
(* that fails, ends the pass: what it has marked so far is not committed.  *)
ReconcileAborts(s) ==
    /\ reconciler.on /\ s \in reconciler.found
    /\ \E removed \in SUBSET StaleJobs(s) : jobs' = jobs \ removed
    /\ \/ ~(StaleJobs(s) \subseteq jobs) /\ UNCHANGED faults
       \/ faults < MaxFaults /\ faults' = faults + 1
    /\ reconciler' = NoPass
    /\ UNCHANGED <<row, stage, dialled, accepted, finishing, request, retrier,
                   missed, keyed, ops, crossed>>

(* The marked rows fail in one commit at the end of the scan. *)
ReconcileCommit ==
    /\ reconciler.on /\ reconciler.found = {}
    /\ row' = [s \in Sessions |->
                 IF s \in reconciler.late THEN WithStatus(row[s], "failed") ELSE row[s]]
    /\ crossed' = [s \in Sessions |->
                     crossed[s] \/ (s \in reconciler.late /\ row[s] # reconciler.seen[s])]
    /\ reconciler' = NoPass
    /\ UNCHANGED <<jobs, stage, dialled, accepted, finishing, request, retrier,
                   missed, keyed, ops, faults>>
-----------------------------------------------------------------------------
(* Time passes the grace period of a scheduled time *)
Late(s) ==
    /\ row[s].status = "scheduled" /\ row[s].timed
    /\ ~missed[s]
    /\ missed' = [missed EXCEPT ![s] = TRUE]
    /\ UNCHANGED <<row, jobs, stage, dialled, accepted, finishing, request,
                   retrier, reconciler, keyed, ops, faults, crossed>>

(* The backend goes down: what lives in memory is lost, rows and calls     *)
(* already handed to the agent stay.                                       *)
Crash ==
    /\ faults < MaxFaults
    /\ faults' = faults + 1
    /\ jobs' = {}
    /\ finishing' = [s \in Sessions |-> [g \in Gens |-> "no"]]
    /\ stage' = [s \in Sessions |->
                   [g \in Gens |-> IF stage[s][g] = "idle" THEN "idle" ELSE "lost"]]
    /\ request' = [u \in Users |-> Idle]
    /\ retrier' = NoPass /\ reconciler' = NoPass
    /\ UNCHANGED <<row, dialled, accepted, missed, keyed, ops, crossed>>
-----------------------------------------------------------------------------
UserStep(u) ==
    \/ \E s \in Sessions :
          \/ \E timed \in BOOLEAN : Create(u, s, timed) \/ CreateKeyed(u, s, timed)
          \/ RepeatKeyed(u, s)
          \/ \E op \in Ops : Load(u, op, s)
    \/ WriteCancel(u) \/ WriteRetry(u) \/ WriteHealed(u)
    \/ \E timed \in BOOLEAN : WriteReschedule(u, timed)
    \/ Reload(u) \/ Arm(u) \/ ArmFails(u)

DispatchStep(s, g) ==
    \/ Fire(s, g) \/ Misfire(s, g) \/ Prepare(s, g)
    \/ \E reached \in BOOLEAN, verdict \in Verdicts : Dial(s, g, reached, verdict)
    \/ RecordVerdict(s, g) \/ DispatchFails(s, g)

AgentStep(s, g) ==
    \/ \E status \in {"in_progress", "failed", "completed"} : Patch(s, g, status)
    \/ ClaimCompletion(s, g) \/ FinishCompletion(s, g) \/ WriteAssessment(s, g)

RetryStep ==
    \/ \E found \in SUBSET Sessions : RetryScan(found)
    \/ \E s \in Sessions :
          RetryLoad(s) \/ RetryEscalate(s) \/ RetrySkip(s) \/ RetryAgain(s)
    \/ RetryFails

ReconcileStep ==
    \/ ReconcileScan \/ ReconcileCommit
    \/ \E s \in Sessions : ReconcileRow(s) \/ ReconcileAborts(s)

Next ==
    \/ \E u \in Users : UserStep(u)
    \/ \E s \in Sessions, g \in Gens : DispatchStep(s, g) \/ AgentStep(s, g)
    \/ RetryStep \/ ReconcileStep
    \/ \E s \in Sessions : Late(s)
    \/ Crash

Spec == Init /\ [][Next]_vars

(* The scheduler keeps running its jobs and its two periodic passes, and a *)
(* pass in progress is carried through.  Requests, callbacks of the agent, *)
(* the clock and crashes are under no obligation.                          *)
Fairness ==
    /\ \A s \in Sessions, g \in Gens :
         /\ WF_vars(Fire(s, g)) /\ WF_vars(Prepare(s, g))
         /\ WF_vars(\E reached \in BOOLEAN, v \in Verdicts : Dial(s, g, reached, v))
         /\ WF_vars(RecordVerdict(s, g))
    /\ \A s \in Sessions :
         /\ WF_vars(\E found \in SUBSET Sessions : s \in found /\ RetryScan(found))
         /\ WF_vars(RetryLoad(s) \/ RetryEscalate(s) \/ RetrySkip(s) \/ RetryAgain(s))
         /\ WF_vars(ReconcileRow(s) \/ ReconcileAborts(s))
    /\ WF_vars(ReconcileScan) /\ WF_vars(ReconcileCommit)

FairSpec == Spec /\ Fairness
-----------------------------------------------------------------------------
TypeOK ==
    /\ row \in [Sessions -> Row]
    /\ jobs \subseteq Sessions \X Nat
    /\ stage \in [Sessions -> [Gens -> Stages]]
    /\ dialled \in [Sessions -> [Gens -> Nat]]
    /\ accepted \in [Sessions -> [Gens -> Nat]]
    /\ finishing \in [Sessions -> [Gens -> {"no", "claimed", "ended"}]]
    /\ missed \in [Sessions -> BOOLEAN]
    /\ keyed \subseteq Sessions
    /\ ops \in 0..MaxOps /\ faults \in 0..MaxFaults
    /\ crossed \in [Sessions -> BOOLEAN]
    /\ \A u \in Users : request[u].pc \in {"idle", "write", "reload", "arm"}
    /\ retrier.on \in BOOLEAN /\ reconciler.on \in BOOLEAN

(* The generation is the token of one attempt: it is dialled once, as long *)
(* as no unlocked write has crossed another one on that row.               *)
OneDialPerAttempt ==
    \A s \in Sessions : crossed[s] \/ \A g \in Gens : dialled[s][g] <= 1

(* The token alone would be enough: no generation is ever dialled twice.   *)
(* The code does not give this (see the README).                           *)
DialledOnce ==
    \A s \in Sessions, g \in Gens : dialled[s][g] <= 1

(* Under the same condition one completion is claimed for an attempt,      *)
(* however often and however late the agent calls back.                    *)
OneCompletionPerAttempt ==
    \A s \in Sessions : crossed[s] \/ \A g \in Gens : accepted[s][g] <= 1

(* An assessment in the row is that of the attempt the row is at, and the  *)
(* row is completed: an attempt begun anew never shows the old outcome.    *)
AssessmentOfAttempt ==
    \A s \in Sessions :
      crossed[s] \/ row[s].outcome = 0
      \/ (row[s].outcome = row[s].gen /\ row[s].status = "completed")

(* A row that rings has a dispatcher working on it, or one that the process *)
(* or the database let down after its claim: nothing else leaves a claim    *)
(* behind, neither a cancellation, retry, reschedule or callback in between *)
(* nor a verdict that comes too late.                                       *)
RingingIsServed ==
    \A s \in Sessions :
      row[s].status = "ringing" /\ row[s].gen \in Gens /\ ~crossed[s]
        => stage[s][row[s].gen] # "idle"

(* completed and escalated are left by nothing, cancelled only by an       *)
(* explicit reschedule that takes a new generation.                        *)
EndedStaysEnded ==
    [][\A s \in Sessions :
         row[s].status \in {"completed", "escalated", "cancelled"}
         /\ row'[s].status # row[s].status /\ ~crossed'[s]
           => /\ row[s].status = "cancelled"
              /\ row'[s].status = "scheduled" /\ row'[s].gen = row[s].gen + 1]_vars

(* A call with a time does not stay scheduled: jobs lost with a crash, by a *)
(* failed registration or to the cancellation of a session whose id is a    *)
(* prefix are found again by the reconciliation.                            *)
ScheduledMovesOn ==
    \A s \in Sessions : row[s].status = "scheduled" /\ row[s].timed
                        ~> row[s].status # "scheduled"

(* A failed attempt is tried again or escalated in the end, if its tenant   *)
(* has a configuration.                                                     *)
FailedMovesOn ==
    \A s \in Configured : row[s].status \in Retryable ~> row[s].status \notin Retryable

(* Every call goes through its attempts as CallAttempts says, until an      *)
(* unlocked write crosses another one on its row.                           *)
Phase(status) ==
    IF status \in {"completed", "escalated", "cancelled"} THEN status ELSE "open"
CallOf(s) == [phase |-> Phase(row[s].status), attempt |-> row[s].gen,
              placed |-> dialled[s], heard |-> accepted[s], report |-> row[s].outcome]
NoCalls == [g \in Gens |-> 0]
LostCall == [phase |-> "lost", attempt |-> 0, placed |-> NoCalls, heard |-> NoCalls,
             report |-> 0]
Promise == INSTANCE CallAttempts WITH
    Calls <- Sessions, Attempts <- Gens,
    call <- [s \in Sessions |-> IF crossed[s] THEN LostCall ELSE CallOf(s)]
AttemptsAsPromised == Promise!Spec
=============================================================================
