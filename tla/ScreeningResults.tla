-------------------------- MODULE ScreeningResults --------------------------
(***************************************************************************)
(* One row of screening_results (a candidate in a requisition), written by *)
(* the analyses of that candidate, by the enrichment jobs each analysis    *)
(* starts (narrative, then interview kit) and by recruiters who override   *)
(* the decision; and the ledger of decisions the row is a projection of.   *)
(*                                                                         *)
(* analysis_generation is the token of an analysis: later writers name the *)
(* generation they work for and are discarded when the row has moved on.   *)
(* The upsert that starts a generation reads the row without a lock and    *)
(* reads the generation back after its commit.                             *)
(***************************************************************************)
EXTENDS Naturals, Sequences

CONSTANTS
    Analyses,      \* analyses of the candidate: uploads, batch items, reruns
    Input,         \* Input[a]: the resume and the job description a is run with
    Workers,       \* slots of the queue workers for enrichment jobs
    None,          \* no analysis
    Zero,          \* as a score: 0, which a decision has when nothing was scored
    MaxOverrides,  \* bound on overrides submitted
    MaxFaults      \* bound on crashes, lost leases and failed writes

ASSUME ScreeningAssumption ==
    /\ None \notin Analyses /\ Zero \notin Analyses /\ Zero # None
    /\ MaxOverrides \in Nat /\ MaxFaults \in Nat

VARIABLES
    row,           \* the screening_results row
    decisions,     \* screening_decisions of the row, by id
    jobs,          \* analysis_jobs of types llm_narrative and interview_kit
    work,          \* work[a]: the handler of analysis a
    task,          \* task[w]: the enrichment job worker w runs
    form,          \* the row an override request has loaded, or Absent
    overrides, faults,
    tainted        \* history: an upsert went over a write it had not read or
                   \* took another generation for its own, or a narrative
                   \* could not be stored

vars == <<row, decisions, jobs, work, task, form, overrides, faults, tainted>>

Routes == {"queue", "direct", "stream"}
Kinds == {"narrative", "kit"}
Owners == Analyses \union {None}

(* Whose score it is.  An analysis is taken to score above 0. *)
Scores == Owners \union {Zero}

(* analysis_result: the analysis it holds; whose fit_score (and with it     *)
(* overall_score and final_recommendation) and deterministic_score; the    *)
(* decision it projects; the analysis whose narrative is merged into it.    *)
Reports == [of : Owners, fit : Scores, det : Scores, proj : Nat, shown : Owners]
Blank == [of |-> None, fit |-> None, det |-> None, proj |-> 0, shown |-> None]
FreshNull(a) == [of |-> a, fit |-> a, det |-> a, proj |-> None, shown |-> None]
Fresh(a) == [of |-> a, fit |-> a, det |-> a, proj |-> 0, shown |-> None]
(* _fallback_result: a result without scores, recommended as "Pending" *)
Fallback(a) == [of |-> a, fit |-> None, det |-> None, proj |-> 0, shown |-> None]
Empty(report) == report.of = None /\ report.fit = None /\ report.det = None

(* narrative_json: whose narrative, whose interview kit *)
Notes == [narr : Owners, kit : Owners]

(* det is the column deterministic_score; the columns resume_text and      *)
(* jd_text hold Input[by].                                                 *)
Rows == [gen : Nat, by : Owners, report : Reports, det : Scores, current : Nat,
         notes : Notes,
         nstatus : {"pending", "processing", "ready", "failed"},
         kstatus : {"none", "pending", "processing", "ready"}]
Absent == [gen |-> 0, by |-> None, report |-> Blank, det |-> None, current |-> 0,
           notes |-> [narr |-> None, kit |-> None],
           nstatus |-> "pending", kstatus |-> "none"]

Decisions == [kind : {"INITIAL_ANALYSIS", "REANALYSIS", "HUMAN_OVERRIDE"},
              gen : Nat, of : Owners,
              fit : Scores, det : Scores,  \* its scores
              parts : Owners]              \* whose component scores it has, if any
Jobs == [kind : Kinds, gen : Nat, of : Owners, dec : Nat,
         status : {"queued", "processing", "completed"},
         holder : Workers \union {None}]

Handlers == [pc : {"new", "read", "saved", "fresh", "parsed", "queued", "done", "failed", "gone"},
             route : Routes, gen : Nat, dec : Nat, seen : Rows]
Tasks == [pc : {"idle", "mark", "think", "write", "post", "chain", "finish"},
          kind : Kinds, gen : Nat, of : Owners, dec : Nat, seen : Reports]

(* A handler that has not started or has ended remembers nothing *)
NotRunning(pc, route) == [pc |-> pc, route |-> route, gen |-> 0, dec |-> 0, seen |-> Absent]
Idle == [pc |-> "idle", kind |-> "kit", gen |-> 0, of |-> None, dec |-> 0, seen |-> Blank]

Init ==
    /\ row = Absent
    /\ decisions = <<>>
    /\ jobs = {}
    /\ work = [a \in Analyses |-> NotRunning("new", "queue")]
    /\ task = [w \in Workers |-> Idle]
    /\ form = Absent
    /\ overrides = 0 /\ faults = 0
    /\ tainted = FALSE

Fault == faults < MaxFaults /\ faults' = faults + 1

(* The decision the operation "kind:id:generation" has written already *)
Recorded(kind, gen) ==
    \E i \in DOMAIN decisions : decisions[i].kind = kind /\ decisions[i].gen = gen

(* A write that leaves the generation alone *)
Rewritten(report, det, notes, nstatus, kstatus) ==
    [gen |-> row.gen, by |-> row.by, report |-> report, det |-> det,
     current |-> row.current, notes |-> notes, nstatus |-> nstatus, kstatus |-> kstatus]
WithStatus(nstatus) == Rewritten(row.report, row.det, row.notes, nstatus, row.kstatus)
WithKitStatus(kstatus) == Rewritten(row.report, row.det, row.notes, row.nstatus, kstatus)

(* _populate_denormalized_columns: {} leaves the column as it is *)
Column(report, det) == IF Empty(report) THEN det ELSE report.det
WithReport(report) ==
    Rewritten(report, Column(report, row.det), row.notes, row.nstatus, row.kstatus)

(* _should_preserve_analysis_scores: r has a score and was run with the    *)
(* resume and job description of a.                                        *)
AnyInput(r, a) == r.gen # 0 /\ r.det # None
Preserves(r, a) == r.gen # 0 /\ r.det # None /\ Input[r.by] = Input[a]
(* _restore_preserved_scores: the scores of the earlier report go into the *)
(* new one, and the column where both have no deterministic score.         *)
Restored(new, r) ==
    [of |-> new.of, proj |-> 0, shown |-> None,
     fit |-> IF r.report.fit # None THEN r.report.fit ELSE new.fit,
     det |-> CASE r.report.det # None -> r.report.det
               [] r.report.det = None /\ new.det # None -> new.det
               [] OTHER -> r.det]
(* The saves at the end of an analysis compare the row with itself *)
Kept(new) == IF row.det # None THEN Restored(new, row) ELSE new

(* create_screening_decision on a locked row: a repeated operation returns *)
(* what it wrote and projects nothing.  A score it is not given is         *)
(* computed from the component scores, and from none it is 0.              *)
OrZero(score) == IF score = None THEN Zero ELSE score
Decision(kind, gen, a, fit, det, parts) ==
    [kind |-> kind, gen |-> gen, of |-> a, fit |-> fit, det |-> det, parts |-> parts]
Project(r, i, d) ==
    [gen |-> r.gen, by |-> r.by, current |-> i, notes |-> r.notes, det |-> d.det,
     report |-> [of |-> r.report.of, fit |-> d.fit, det |-> d.det, proj |-> i,
                 shown |-> r.report.shown],
     nstatus |-> r.nstatus, kstatus |-> r.kstatus]
Append1(r, d) ==
    /\ decisions' = Append(decisions, d)
    /\ row' = Project(r, Len(decisions) + 1, d)
Decide(r, kind, a, parts) ==
    IF Recorded(kind, r.gen)
      THEN row' = r /\ UNCHANGED decisions
      ELSE Append1(r, Decision(kind, r.gen, a, OrZero(r.report.fit),
                               OrZero(r.report.det), parts))

EnqueueOncePerGeneration(kind, gen, a, dec) ==
    jobs' = IF row.gen # gen \/ \E j \in jobs : j.gen = gen
              THEN jobs
              ELSE jobs \union {[kind |-> kind, gen |-> gen, of |-> a, dec |-> dec,
                                 status |-> "queued", holder |-> None]}
(* enqueue_enrichment_job: one job of a kind for a generation *)
Enqueue(kind, gen, a, dec) ==
    jobs' = IF row.gen # gen \/ \E j \in jobs : j.kind = kind /\ j.gen = gen
              THEN jobs
              ELSE jobs \union {[kind |-> kind, gen |-> gen, of |-> a, dec |-> dec,
                                 status |-> "queued", holder |-> None]}
-----------------------------------------------------------------------------
(* Analyses *)

At(a, pc) == work[a].pc = pc
To(a, pc) == work' = [work EXCEPT ![a] = [pc |-> pc, route |-> work[a].route,
                          gen |-> work[a].gen, dec |-> work[a].dec, seen |-> Absent]]
End(a, pc) == work' = [work EXCEPT ![a] = NotRunning(pc, work[a].route)]

(* execute_screening: the row is looked up without a lock *)
ReadRow(a, route) ==
    /\ At(a, "new")
    /\ work' = [work EXCEPT ![a] = [pc |-> "read", route |-> route, gen |-> 0,
                                    dec |-> 0, seen |-> row]]
    /\ UNCHANGED <<row, decisions, jobs, task, form, overrides, faults, tainted>>

(* _upsert_screening_result: the columns that differ from what was read    *)
(* are sent.  Only the queue has the result by now, the other routes store *)
(* {} and compute afterwards; the scores of an earlier analysis of the     *)
(* same resume and job description go into either.                         *)
Upserted(a) ==
    LET seen == work[a].seen
        result == IF work[a].route = "queue" THEN Fresh(a) ELSE Blank
        report == IF Preserves(seen, a) THEN Restored(result, seen) ELSE result
    IN  [gen |-> seen.gen + 1, by |-> a, current |-> row.current, notes |-> row.notes,
         report |-> report, det |-> Column(report, row.det),
         nstatus |-> IF seen.nstatus = "pending" THEN row.nstatus ELSE "pending",
         kstatus |-> row.kstatus]

(* What has a score is decided in the same transaction *)
Save(a) ==
    /\ At(a, "read")
    /\ ~ (work[a].seen.gen = 0 /\ row.gen > 0)
    /\ LET seen == work[a].seen
           kind == IF seen.gen = 0 THEN "INITIAL_ANALYSIS" ELSE "REANALYSIS"
       IN  /\ IF Empty(Upserted(a).report)
                THEN row' = Upserted(a) /\ UNCHANGED decisions
                ELSE Decide(Upserted(a), kind, a, Upserted(a).report.of)
           /\ work' = [work EXCEPT ![a] = [pc |-> "saved", route |-> work[a].route,
                                           gen |-> seen.gen + 1, dec |-> 0, seen |-> Absent]]
           /\ tainted' = (tainted \/ row # seen)
    /\ UNCHANGED <<jobs, task, form, overrides, faults>>

(* Two first analyses insert: the unique constraint refuses the second, the *)
(* queue runs it again and a request fails.                                 *)
SaveRefused(a) ==
    /\ At(a, "read")
    /\ work[a].seen.gen = 0 /\ row.gen > 0
    /\ End(a, IF work[a].route = "queue" THEN "new" ELSE "failed")
    /\ UNCHANGED <<row, decisions, jobs, task, form, overrides, faults, tainted>>

(* The attributes expire with the commit: generation and decision are those *)
(* of the row when the handler looks again.                                 *)
Refresh(a) ==
    /\ At(a, "saved")
    /\ work' = [work EXCEPT ![a] = [pc |-> "fresh", route |-> work[a].route, seen |-> Absent,
                                    gen |-> row.gen, dec |-> row.current]]
    /\ tainted' = (tainted \/ row.gen # work[a].gen)
    /\ UNCHANGED <<row, decisions, jobs, task, form, overrides, faults>>

(* Streaming, at the "parsing" event: the scores are stored, over those an  *)
(* earlier analysis had left, and a client that has gone ends the stream    *)
(* before its narrative is queued.                                          *)
EarlySave(a) ==
    /\ At(a, "fresh") /\ work[a].route = "stream"
    /\ row' = IF row.gen = work[a].gen THEN WithReport(Fresh(a)) ELSE row
    /\ (To(a, "parsed") \/ End(a, "gone"))
    /\ UNCHANGED <<decisions, jobs, task, form, overrides, faults, tainted>>

EarlySaveFails(a) ==
    /\ At(a, "fresh") /\ work[a].route = "stream"
    /\ Fault
    /\ (To(a, "parsed") \/ End(a, "gone"))
    /\ UNCHANGED <<row, decisions, jobs, task, form, overrides, tainted>>

(* The narrative is queued: by the queue after its commit and bound to the *)
(* decision, by the routes from within the pipeline and bound to none.     *)
Spawn(a) ==
    /\ \/ At(a, "fresh") /\ work[a].route # "stream"
       \/ At(a, "parsed")
    /\ IF work[a].route = "queue"
         THEN Enqueue("narrative", work[a].gen, a, work[a].dec) /\ End(a, "done")
         ELSE Enqueue("narrative", work[a].gen, a, 0) /\ To(a, "queued")
    /\ UNCHANGED <<row, decisions, task, form, overrides, faults, tainted>>

(* Apply and FinalSave come at once when the result was cached: then no    *)
(* narrative is queued.                                                    *)
StoreResult(a) ==
    Decide(WithReport(Kept(Fresh(a))),
           IF Empty(row.report) THEN "INITIAL_ANALYSIS" ELSE "REANALYSIS", a, a)
ApplySuperseded(a) ==
    /\ At(a, "fresh") \/ At(a, "queued")
    /\ work[a].route = "direct"
    /\ StoreResult(a) /\ End(a, "done")
    /\ UNCHANGED <<jobs, task, form, overrides, faults, tainted>>
(* apply_screening_pipeline_result; a superseded analysis is answered 409 *)
Apply(a) ==
    /\ At(a, "fresh") \/ At(a, "queued")
    /\ work[a].route = "direct"
    /\ IF row.gen = work[a].gen
         THEN StoreResult(a) /\ End(a, "done")
         ELSE UNCHANGED <<row, decisions>> /\ End(a, "failed")
    /\ UNCHANGED <<jobs, task, form, overrides, faults, tainted>>

(* The final save of a stream decides only where nothing had been stored *)
Final(a, result, parts) ==
    IF row.gen = work[a].gen
      THEN /\ IF Empty(row.report)
                THEN Decide(WithReport(Kept(result)), "INITIAL_ANALYSIS", a, parts)
                ELSE row' = WithReport(Kept(result)) /\ UNCHANGED decisions
           /\ End(a, "done")
      ELSE UNCHANGED <<row, decisions>> /\ End(a, "failed")
FinalSave(a) ==
    /\ At(a, "fresh") \/ At(a, "queued")
    /\ work[a].route = "stream"
    /\ Final(a, Fresh(a), a)
    /\ UNCHANGED <<jobs, task, form, overrides, faults, tainted>>

(* The pipeline of a stream raises: a fallback is saved as its result *)
FinalSaveFallback(a) ==
    /\ At(a, "fresh") \/ At(a, "parsed") \/ At(a, "queued")
    /\ work[a].route = "stream"
    /\ Fault
    /\ Final(a, Fallback(a), None)
    /\ UNCHANGED <<jobs, task, form, overrides, tainted>>

(* The process dies, the pipeline of another route raises or the client leaves *)
Abandon(a) ==
    /\ work[a].pc \in {"saved", "fresh", "parsed", "queued"}
    /\ Fault
    /\ End(a, "failed")
    /\ UNCHANGED <<row, decisions, jobs, task, form, overrides, tainted>>
-----------------------------------------------------------------------------
(* Recruiters *)

(* The route loads the row to see whether the recruiter may use it; the    *)
(* decision the recruiter expects is compared with that copy, and a        *)
(* mismatch is answered 409.                                               *)
LoadOverride ==
    /\ form = Absent /\ row.current # 0 /\ overrides < MaxOverrides
    /\ form' = row
    /\ overrides' = overrides + 1
    /\ UNCHANGED <<row, decisions, jobs, work, task, faults, tainted>>

(* create_human_override locks the row but works on the copy: the report   *)
(* it projects into is the one loaded before.  Its scores are computed     *)
(* anew from the component scores of the decision it overrides.            *)
WriteOverride ==
    /\ form # Absent
    /\ LET old == decisions[form.current]
           score == OrZero(old.parts)
       IN  Append1(WithReport(form.report),
                   Decision("HUMAN_OVERRIDE", form.gen, old.of, score, score, old.parts))
    /\ form' = Absent
    /\ tainted' = (tainted \/ row # form)
    /\ UNCHANGED <<jobs, work, task, overrides, faults>>
-----------------------------------------------------------------------------
(* Enrichment jobs *)

Holds(w, pc) == task[w].pc = pc
Goto(w, pc, seen) ==
    task' = [task EXCEPT ![w] = [pc |-> pc, kind |-> task[w].kind, gen |-> task[w].gen,
                                 of |-> task[w].of, dec |-> task[w].dec, seen |-> seen]]
AnyGeneration(w) == TRUE
Current(w) == row.gen = task[w].gen

SetStatus(j, status, holder) ==
    jobs' = (jobs \ {j}) \union
            {[kind |-> j.kind, gen |-> j.gen, of |-> j.of, dec |-> j.dec,
              status |-> status, holder |-> holder]}

(* A job is leased and complete_enrichment_job marks the row processing *)
Lease(w, j) ==
    /\ Holds(w, "idle") /\ j.status = "queued"
    /\ SetStatus(j, "processing", w)
    /\ task' = [task EXCEPT ![w] = [pc |-> "mark", kind |-> j.kind, gen |-> j.gen,
                                    of |-> j.of, dec |-> j.dec, seen |-> Blank]]
    /\ UNCHANGED <<row, decisions, work, form, overrides, faults, tainted>>

Mark(w) ==
    /\ Holds(w, "mark")
    /\ row' = CASE ~ Current(w)               -> row
                [] task[w].kind = "narrative" -> WithStatus("processing")
                [] OTHER                      -> WithKitStatus("processing")
    /\ Goto(w, "think", Blank)
    /\ UNCHANGED <<decisions, jobs, work, form, overrides, faults, tainted>>

(* The model has answered, or the deterministic narrative stands in for it: *)
(* the report the narrative is merged into is read without a lock.          *)
ReadReport(w) ==
    /\ Holds(w, "think") /\ task[w].kind = "narrative"
    /\ IF Current(w) THEN Goto(w, "write", row.report) ELSE Goto(w, "post", Blank)
    /\ UNCHANGED <<row, decisions, jobs, work, form, overrides, faults, tainted>>

AttachToAnyGeneration(w) == task[w].dec \in {0, row.current}
AttachToAnyDecision(w) == Current(w)
AttachToDecisionOnly(w) == Current(w) /\ task[w].dec = row.current
(* apply_narrative_if_generation: generation and decision are in the WHERE *)
Attachable(w) == Current(w) /\ task[w].dec \in {0, row.current}
(* A report whose fit_score is missing or 0 is replaced by the job's own *)
Merged(w) ==
    LET seen == task[w].seen
        base == IF seen.fit \in {None, Zero} THEN Fresh(task[w].of) ELSE seen
    IN  [of |-> base.of, fit |-> base.fit, det |-> base.det, proj |-> base.proj,
         shown |-> task[w].of]
WriteNarrative(w) ==
    /\ Holds(w, "write")
    /\ row' = IF Attachable(w)
                THEN Rewritten(Merged(w), IF row.det = None THEN Merged(w).det ELSE row.det,
                               [narr |-> task[w].of, kit |-> None], "ready", row.kstatus)
                ELSE row
    /\ Goto(w, "post", Blank)
    /\ UNCHANGED <<decisions, jobs, work, form, overrides, faults, tainted>>

(* Both attempts to store it fail and the status alone is written *)
WriteStatusOnly(w) ==
    /\ Holds(w, "write")
    /\ Fault
    /\ row' = IF Current(w) THEN WithStatus("ready") ELSE row
    /\ tainted' = TRUE
    /\ Goto(w, "finish", Blank)
    /\ UNCHANGED <<decisions, jobs, work, form, overrides>>

(* A worker that shuts down cancels the call; the job counts as completed *)
CancelNarrative(w) ==
    /\ Holds(w, "think") /\ task[w].kind = "narrative"
    /\ Fault
    /\ row' = IF Current(w) THEN WithStatus("failed") ELSE row
    /\ Goto(w, "finish", Blank)
    /\ UNCHANGED <<decisions, jobs, work, form, overrides, tainted>>

(* schedule_post_narrative_enrichment: also after a discarded narrative *)
AnnounceKit(w) ==
    /\ Holds(w, "post")
    /\ IF Current(w)
         THEN row' = WithKitStatus("pending") /\ Goto(w, "chain", Blank)
         ELSE UNCHANGED row /\ Goto(w, "finish", Blank)
    /\ UNCHANGED <<decisions, jobs, work, form, overrides, faults, tainted>>

AnnounceKitFails(w) ==
    /\ Holds(w, "post")
    /\ Fault
    /\ Goto(w, "finish", Blank)
    /\ UNCHANGED <<row, decisions, jobs, work, form, overrides, tainted>>

EnqueueKit(w) ==
    /\ Holds(w, "chain")
    /\ Enqueue("kit", task[w].gen, task[w].of, 0)
    /\ Goto(w, "finish", Blank)
    /\ UNCHANGED <<row, decisions, work, form, overrides, faults, tainted>>

(* _merge_interview_kit holds the row between read and write; a database   *)
(* error is logged and nothing is merged.                                  *)
MergeKit(w) ==
    /\ Holds(w, "think") /\ task[w].kind = "kit"
    /\ row' = IF Current(w)
                THEN Rewritten([row.report EXCEPT !.shown = row.notes.narr], row.det,
                               [narr |-> row.notes.narr, kit |-> task[w].of],
                               row.nstatus, "ready")
                ELSE row
    /\ Goto(w, "finish", Blank)
    /\ UNCHANGED <<decisions, jobs, work, form, overrides, faults, tainted>>

MergeKitFails(w) ==
    /\ Holds(w, "think") /\ task[w].kind = "kit"
    /\ Fault
    /\ Goto(w, "finish", Blank)
    /\ UNCHANGED <<row, decisions, jobs, work, form, overrides, tainted>>

(* The job is completed by the worker that still holds its lease *)
HeldBy(j, w) == /\ j.status = "processing" /\ j.holder = w
                /\ j.kind = task[w].kind /\ j.gen = task[w].gen
Finish(w) ==
    /\ Holds(w, "finish")
    /\ \/ \E j \in jobs : HeldBy(j, w) /\ SetStatus(j, "completed", None)
       \/ ~ (\E j \in jobs : HeldBy(j, w)) /\ UNCHANGED jobs
    /\ task' = [task EXCEPT ![w] = Idle]
    /\ UNCHANGED <<row, decisions, work, form, overrides, faults, tainted>>

(* The lease lapses and the job is queued again while its worker goes on *)
LeaseLost(j) ==
    /\ j.status = "processing"
    /\ Fault
    /\ SetStatus(j, "queued", None)
    /\ UNCHANGED <<row, decisions, work, task, form, overrides, tainted>>

(* The worker dies; its job is recovered when the lease has lapsed *)
Crash(w) ==
    /\ task[w].pc # "idle"
    /\ Fault
    /\ \/ \E j \in jobs : HeldBy(j, w) /\ SetStatus(j, "queued", None)
       \/ ~ (\E j \in jobs : HeldBy(j, w)) /\ UNCHANGED jobs
    /\ task' = [task EXCEPT ![w] = Idle]
    /\ UNCHANGED <<row, decisions, work, form, overrides, tainted>>
-----------------------------------------------------------------------------
Analyse(a) ==
    \/ \E route \in Routes : ReadRow(a, route)
    \/ Save(a) \/ SaveRefused(a) \/ Refresh(a)
    \/ EarlySave(a) \/ EarlySaveFails(a)
    \/ Spawn(a) \/ Apply(a) \/ FinalSave(a) \/ FinalSaveFallback(a) \/ Abandon(a)

Enrich(w) ==
    \/ Mark(w) \/ ReadReport(w) \/ WriteNarrative(w)
    \/ AnnounceKit(w) \/ EnqueueKit(w) \/ MergeKit(w) \/ Finish(w)

Disturb(w) ==
    \/ WriteStatusOnly(w) \/ CancelNarrative(w) \/ AnnounceKitFails(w)
    \/ MergeKitFails(w) \/ Crash(w)

Next ==
    \/ \E a \in Analyses : Analyse(a)
    \/ LoadOverride \/ WriteOverride
    \/ \E w \in Workers : Enrich(w) \/ Disturb(w)
    \/ \E w \in Workers, j \in jobs : Lease(w, j)
    \/ \E j \in jobs : LeaseLost(j)

(* A worker loop goes on with what it runs and takes queued work; nothing  *)
(* is assumed of requests, recruiters or faults.                           *)
Fairness ==
    \A w \in Workers : WF_vars(Enrich(w)) /\ WF_vars(\E j \in jobs : Lease(w, j))

Spec == Init /\ [][Next]_vars /\ Fairness
-----------------------------------------------------------------------------
TypeOK ==
    /\ row \in Rows
    /\ decisions \in Seq(Decisions)
    /\ jobs \subseteq Jobs
    /\ work \in [Analyses -> Handlers]
    /\ task \in [Workers -> Tasks]
    /\ form \in Rows /\ overrides \in Nat /\ faults \in Nat
    /\ tainted \in BOOLEAN

(* A narrative that is shown as ready belongs to the analysis whose scores *)
(* are in the row, however late jobs of earlier generations, repeated jobs *)
(* and workers without their lease come in.                                *)
NarrativeOfAnalysis ==
    ~ tainted /\ row.nstatus = "ready" => row.notes.narr = row.by

(* The parts of a report belong together: the findings, the narrative      *)
(* merged into them and the interview kit are of the analysis in the row,  *)
(* and its scores are of that analysis or of one of the same resume and    *)
(* job description, whose scores have been kept.  (An override may have    *)
(* the narrative discarded and the kit of the new analysis join the old    *)
(* one's.  A score of 0 that nobody has computed is kept as well, with     *)
(* whatever stands beside it.)                                             *)
ReportOfOneAnalysis ==
    ~ tainted /\ (\A i \in DOMAIN decisions : decisions[i].kind # "HUMAN_OVERRIDE") =>
        /\ row.report.of \in {None, row.by} /\ row.report.shown \in {None, row.by}
        /\ row.notes.kit \in {None, row.notes.narr}
        /\ row.report.fit \notin {None, Zero} =>
              /\ row.report.det \in Analyses
              /\ {Input[row.report.fit], Input[row.report.det]} = {Input[row.by]}

(* What find_projection_mismatches looks for: a row the queue has written  *)
(* names a decision of the same analysis and generation, and projects it   *)
(* whoever has rewritten the report since.  (A score of 0 counts as        *)
(* missing when a narrative is merged, and the report is replaced.)        *)
ProjectionCurrent ==
    ~ tainted /\ row.by # None /\ work[row.by].route = "queue" =>
        /\ row.report.of = row.by
        /\ row.current \in DOMAIN decisions
        /\ LET d == decisions[row.current]
           IN  /\ d.gen = row.gen /\ d.of = row.by
               /\ d.fit # Zero => row.report.proj = row.current /\ row.report.fit = d.fit

(* The ledger follows the generations, and an analysis decides once in its  *)
(* own: no route repeats the decision of another route, and none decides    *)
(* for a generation that has been superseded.  (An override may come before *)
(* the decision of a reanalysis that is still running.)                     *)
LedgerInOrder ==
    ~ tainted =>
      \A i, j \in DOMAIN decisions :
        i < j => /\ decisions[i].gen <= decisions[j].gen
                 /\ "HUMAN_OVERRIDE" \notin {decisions[i].kind, decisions[j].kind} =>
                      decisions[i].gen < decisions[j].gen

(* docs/ai-governance/runbook.md: a stale narrative cannot attach to a     *)
(* newer decision.                                                         *)
NarrativeOfDecision ==
    row.nstatus = "ready" /\ row.current # 0 /\ decisions[row.current].gen = row.gen
        => decisions[row.current].of = row.notes.narr

(* A queued narrative of the row's generation is settled, unless the       *)
(* candidate is analysed again or a recruiter overrides the decision.      *)
NarrativeSettles ==
    \A g \in 1..2 :
        (row.gen = g /\ overrides = 0 /\ \E j \in jobs :
             j.kind = "narrative" /\ j.gen = g /\ j.status = "queued")
        ~> (row.nstatus \in {"ready", "failed"} \/ row.gen # g \/ overrides > 0)

(* Without faults an interview kit that is announced arrives, unless the   *)
(* candidate is analysed again.                                            *)
KitArrives ==
    \A g \in 1..2 :
        (row.gen = g /\ faults = 0 /\ \E w \in Workers : task[w].pc = "chain"
                                                        /\ task[w].gen = g)
        ~> (row.kstatus = "ready" \/ row.gen # g \/ faults > 0)
=============================================================================
