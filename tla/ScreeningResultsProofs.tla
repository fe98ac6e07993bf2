----------------------- MODULE ScreeningResultsProofs -----------------------
(* Proofs about ScreeningResults, for any analyses, workers and bounds. *)
EXTENDS ScreeningResults, TLAPS

Running == {"saved", "fresh", "parsed", "queued"}
ByQueue == row.by \in Analyses /\ work[row.by].route = "queue"
NoOverride == \A i \in DOMAIN decisions : decisions[i].kind # "HUMAN_OVERRIDE"

(* References to decisions point into the ledger. *)
Pointers ==
    /\ row.current <= Len(decisions) /\ form.current <= Len(decisions)
    /\ form # Absent => form.current # 0
    /\ \A a \in Analyses : work[a].dec <= Len(decisions)
    /\ \A j \in jobs : j.dec <= Len(decisions)
    /\ \A w \in Workers : task[w].dec <= Len(decisions)

(* An analysis that has not saved is not the one in the row. *)
NotYet == \A a \in Analyses : work[a].pc \in {"new", "read"} => row.by # a

(* What a stage of a handler or a job says of its route or kind *)
Stages ==
    /\ \A a \in Analyses : work[a].pc \in {"parsed", "queued"} => work[a].route # "queue"
    /\ \A w \in Workers : task[w].pc \in {"write", "post", "chain"} => task[w].kind = "narrative"

(* Until the history is tainted a generation has one owner: the analysis   *)
(* in the row.  Everything that works for the row's generation is its own. *)
Lineage ==
    /\ row.report.of \in {None, row.by}
    /\ \A i \in DOMAIN decisions : decisions[i].gen <= row.gen
    /\ \A a \in Analyses : work[a].pc \in Running =>
          work[a].gen <= row.gen /\ (work[a].gen = row.gen => row.by = a)
    /\ \A j \in jobs : j.gen <= row.gen /\ (j.gen = row.gen => j.of = row.by /\ j.of # None)
    /\ \A w \in Workers : task[w].pc # "idle" =>
          /\ task[w].gen <= row.gen
          /\ task[w].gen = row.gen => task[w].of = row.by /\ task[w].of # None
          /\ task[w].gen = row.gen /\ task[w].pc = "write" =>
                task[w].seen.of \in {None, row.by}

(* In a generation of the queue every narrative is bound to a decision and *)
(* what it has read of the report projects that decision.                  *)
Shows(report) ==
    /\ report.of = row.by
    /\ decisions[row.current].fit # Zero =>
          report.proj = row.current /\ report.fit = decisions[row.current].fit
BoundInQueue ==
    /\ Shows(row.report)
    /\ row.current \in DOMAIN decisions /\ decisions[row.current].fit # None
    /\ decisions[row.current].gen = row.gen /\ decisions[row.current].of = row.by
    /\ work[row.by].pc = "fresh" /\ work[row.by].gen = row.gen => work[row.by].dec # 0
    /\ \A j \in jobs : j.kind = "narrative" /\ j.gen = row.gen => j.dec # 0
    /\ \A w \in Workers :
          task[w].pc # "idle" /\ task[w].kind = "narrative" /\ task[w].gen = row.gen =>
             /\ task[w].dec # 0
             /\ task[w].pc = "write" /\ task[w].dec = row.current => Shows(task[w].seen)

(* A bound narrative belongs to a generation of the queue, and to its      *)
(* current decision while nobody overrides.                                *)
BoundToCurrent ==
    /\ \A a \in Analyses :
          work[a].pc = "fresh" /\ work[a].route = "queue" /\ work[a].gen = row.gen
             /\ NoOverride => work[a].dec = row.current
    /\ \A j \in jobs : j.gen = row.gen /\ j.dec # 0 =>
          ByQueue /\ (NoOverride => j.dec = row.current)
    /\ \A w \in Workers : task[w].pc # "idle" /\ task[w].gen = row.gen /\ task[w].dec # 0 =>
          ByQueue /\ (NoOverride => task[w].dec = row.current)

(* A kit is worked on only after its narrative has been attached. *)
Attached == row.notes.narr = row.by
KitFollows ==
    /\ row.report.shown \in {None, row.by}
    /\ row.notes.kit \in {None, row.notes.narr}
    /\ \A j \in jobs : j.kind = "kit" /\ j.gen = row.gen => Attached
    /\ \A w \in Workers : task[w].pc # "idle" /\ task[w].gen = row.gen
                          /\ (task[w].kind = "kit" \/ task[w].pc \in {"post", "chain"})
                          => Attached

IInv ==
    /\ TypeOK
    /\ Pointers
    /\ NotYet
    /\ Stages
    /\ ~ tainted => /\ Lineage
                    /\ row.nstatus = "ready" => row.notes.narr = row.by
                    /\ ByQueue => BoundInQueue
                    /\ BoundToCurrent
                    /\ NoOverride => KitFollows
-----------------------------------------------------------------------------
LEMMA Typed ==
    /\ Absent \in Rows /\ Blank \in Reports /\ Idle \in Tasks
    /\ \A pc \in {"new", "read", "saved", "fresh", "parsed", "queued", "done", "failed", "gone"} :
          \A route \in Routes : NotRunning(pc, route) \in Handlers
    /\ \A a \in Analyses : Fresh(a) \in Reports /\ Fallback(a) \in Reports
  <1>1. None \in Owners /\ Owners \subseteq Scores /\ Analyses \subseteq Owners
    BY DEF Owners, Scores
  <1>2. Blank \in Reports
    BY <1>1 DEF Blank, Reports
  <1>3. Absent \in Rows
    BY <1>1, <1>2 DEF Absent, Rows, Notes
  <1>4. Idle \in Tasks
    BY <1>1, <1>2 DEF Idle, Tasks, Kinds
  <1>5. \A a \in Analyses : Fresh(a) \in Reports /\ Fallback(a) \in Reports
    BY <1>1 DEF Fresh, Fallback, Reports
  <1> QED
    BY <1>2, <1>3, <1>4, <1>5 DEF NotRunning, Handlers

LEMMA RowTyped ==
    ASSUME TypeOK
    PROVE  /\ row.gen \in Nat /\ row.by \in Owners /\ row.report \in Reports
           /\ row.det \in Scores /\ row.current \in Nat /\ row.notes \in Notes
           /\ row.nstatus \in {"pending", "processing", "ready", "failed"}
           /\ row.kstatus \in {"none", "pending", "processing", "ready"}
  BY DEF TypeOK, Rows

LEMMA NumbersTyped ==
    ASSUME TypeOK
    PROVE  /\ \A a \in Analyses : work[a].gen \in Nat /\ work[a].dec \in Nat
           /\ \A j \in jobs : j.gen \in Nat /\ j.dec \in Nat
           /\ \A w \in Workers : task[w].gen \in Nat /\ task[w].dec \in Nat
           /\ \A i \in DOMAIN decisions : decisions[i].gen \in Nat
           /\ form.current \in Nat /\ Len(decisions) \in Nat
  <1>1. \A a \in Analyses : work[a].gen \in Nat /\ work[a].dec \in Nat
    BY DEF TypeOK, Handlers
  <1>2. \A j \in jobs : j.gen \in Nat /\ j.dec \in Nat
    BY DEF TypeOK, Jobs
  <1>3. \A w \in Workers : task[w].gen \in Nat /\ task[w].dec \in Nat
    BY DEF TypeOK, Tasks
  <1>4. \A i \in DOMAIN decisions : decisions[i].gen \in Nat
    <2>1. \A i \in DOMAIN decisions : decisions[i] \in Decisions
      BY DEF TypeOK
    <2> QED
      BY <2>1 DEF Decisions
  <1> QED
    BY <1>1, <1>2, <1>3, <1>4 DEF TypeOK, Rows

LEMMA RewrittenTyped ==
    ASSUME TypeOK, NEW r \in Reports, NEW s \in Scores, NEW n \in Notes,
           NEW ns \in {"pending", "processing", "ready", "failed"},
           NEW ks \in {"none", "pending", "processing", "ready"}
    PROVE  Rewritten(r, s, n, ns, ks) \in Rows
  BY RowTyped DEF Rewritten, Rows

LEMMA ReportTyped ==
    ASSUME NEW r \in Reports, NEW s \in Scores
    PROVE  Column(r, s) \in Scores
  BY DEF Column, Reports

LEMMA WithReportTyped ==
    ASSUME TypeOK, NEW r \in Reports
    PROVE  WithReport(r) \in Rows
  BY RowTyped, RewrittenTyped, ReportTyped DEF WithReport

(* Restoring scores leaves the rest of a report. *)
LEMMA RestoredTyped ==
    ASSUME NEW new \in Reports, NEW r \in Rows
    PROVE  /\ Restored(new, r) \in Reports
           /\ Restored(new, r).of = new.of /\ Restored(new, r).shown = None
  <1>1. /\ r.report \in Reports /\ r.det \in Scores /\ new.of \in Owners
        /\ new.fit \in Scores /\ new.det \in Scores
    BY DEF Rows, Reports
  <1>2. r.report.fit \in Scores /\ r.report.det \in Scores
    BY <1>1 DEF Reports
  <1>3. Restored(new, r).det \in Scores
    BY <1>1, <1>2 DEF Restored
  <1>4. Restored(new, r).fit \in Scores
    BY <1>1, <1>2 DEF Restored
  <1>5. None \in Owners
    BY DEF Owners
  <1> QED
    BY <1>1, <1>3, <1>4, <1>5 DEF Restored, Reports

LEMMA KeptTyped ==
    ASSUME TypeOK, NEW new \in Reports, new.shown = None
    PROVE  Kept(new) \in Reports /\ Kept(new).of = new.of /\ Kept(new).shown = None
  BY RestoredTyped DEF TypeOK, Kept

LEMMA Appended ==
    ASSUME TypeOK, NEW d \in Decisions
    PROVE  /\ Append(decisions, d) \in Seq(Decisions)
           /\ Len(Append(decisions, d)) = Len(decisions) + 1 /\ Len(decisions) \in Nat
           /\ DOMAIN Append(decisions, d) = 1..(Len(decisions) + 1)
           /\ DOMAIN decisions = 1..Len(decisions)
           /\ \A i \in DOMAIN decisions : Append(decisions, d)[i] = decisions[i]
           /\ Append(decisions, d)[Len(decisions) + 1] = d
  BY DEF TypeOK

Made(r, kind, a, parts) ==
    Decision(kind, r.gen, a, OrZero(r.report.fit), OrZero(r.report.det), parts)

LEMMA Decided ==
    ASSUME TypeOK, NEW r \in Rows, NEW kind \in {"INITIAL_ANALYSIS", "REANALYSIS"},
           NEW a \in Analyses, NEW parts \in Owners
    PROVE  LET d == Made(r, kind, a, parts)
           IN  /\ d \in Decisions /\ d.kind = kind /\ d.gen = r.gen /\ d.of = a
               /\ d.fit # None /\ d.fit = OrZero(r.report.fit)
               /\ d.det # None /\ d.det = OrZero(r.report.det)
               /\ Project(r, Len(decisions) + 1, d) \in Rows
  <1> DEFINE d == Made(r, kind, a, parts)
  <1>1. Len(decisions) + 1 \in Nat
    BY DEF TypeOK
  <1>2. r.report \in Reports /\ r.report.fit \in Scores /\ r.report.det \in Scores
    BY DEF Rows, Reports
  <1>3. \A s \in Scores : OrZero(s) \in Scores /\ OrZero(s) # None
    BY ScreeningAssumption DEF OrZero, Scores
  <1>4. r.gen \in Nat /\ a \in Owners
    BY DEF Rows, Owners
  <1>5. /\ d \in Decisions /\ d.kind = kind /\ d.gen = r.gen /\ d.of = a
        /\ d.fit = OrZero(r.report.fit) /\ d.det = OrZero(r.report.det)
    BY <1>2, <1>3, <1>4 DEF Made, Decision, Decisions
  <1>6. Project(r, Len(decisions) + 1, d) \in Rows
    <2>1. d.fit \in Scores /\ d.det \in Scores
      BY <1>2, <1>3, <1>5
    <2> QED
      BY <1>1, <1>2, <2>1 DEF Rows, Reports, Project
  <1> QED
    BY <1>2, <1>3, <1>5, <1>6

LEMMA InitInv == Init => IInv
  <1> SUFFICES ASSUME Init PROVE IInv
    OBVIOUS
  <1>1. TypeOK
    <2>1. work \in [Analyses -> Handlers]
      BY Typed DEF Init, Routes
    <2>2. jobs \subseteq Jobs /\ decisions \in Seq(Decisions)
      BY DEF Init
    <2> QED
      BY Typed, <2>1, <2>2 DEF Init, TypeOK
  <1>2. Pointers /\ NotYet /\ Stages
    BY ScreeningAssumption DEF Init, Pointers, NotYet, Stages, Absent, Idle, NotRunning
  <1>3. Lineage /\ row.nstatus # "ready"
    BY DEF Init, Lineage, Absent, Blank, Idle, NotRunning, Running
  <1>4. ~ ByQueue /\ BoundToCurrent
    BY ScreeningAssumption DEF Init, ByQueue, BoundToCurrent, Absent, Idle, NotRunning
  <1>5. KitFollows
    BY DEF Init, KitFollows, Absent, Blank, Idle
  <1> QED
    BY <1>1, <1>2, <1>3, <1>4, <1>5 DEF IInv

LEMMA ReadRowKeeps ==
    ASSUME IInv, NEW a \in Analyses, NEW route \in Routes, ReadRow(a, route)
    PROVE  IInv'
  <1>1. TypeOK'
    BY DEF IInv, TypeOK, Handlers, ReadRow, At
  <1>2. Pointers' /\ NotYet' /\ Stages'
    BY DEF IInv, TypeOK, Pointers, NotYet, Stages, ReadRow, At, Routes
  <1>3. row.by # a
    BY DEF IInv, NotYet, ReadRow, At
  <1>4. ~ tainted => Lineage'
    BY DEF IInv, TypeOK, Lineage, ReadRow, At, Running
  <1>5. ByQueue' <=> ByQueue
    BY <1>3 DEF IInv, TypeOK, ByQueue, ReadRow
  <1>6. ~ tainted /\ ByQueue => BoundInQueue'
    BY <1>3 DEF IInv, TypeOK, BoundInQueue, Shows, ByQueue, ReadRow
  <1>7. ~ tainted => BoundToCurrent'
    BY <1>5 DEF IInv, TypeOK, BoundToCurrent, NoOverride, ReadRow
  <1>8. ~ tainted /\ NoOverride' => KitFollows'
    BY DEF IInv, KitFollows, Attached, NoOverride, ReadRow
  <1> QED
    BY <1>1, <1>2, <1>4, <1>5, <1>6, <1>7, <1>8 DEF IInv, ReadRow
LEMMA SaveRefusedKeeps ==
    ASSUME IInv, NEW a \in Analyses, SaveRefused(a)
    PROVE  IInv'
  <1>1. TypeOK'
    BY Typed DEF IInv, TypeOK, Handlers, Tasks, SaveRefused, At, End
  <1>2. Pointers' /\ NotYet' /\ Stages'
    BY DEF IInv, TypeOK, Pointers, NotYet, Stages, SaveRefused, At, End, NotRunning
  <1>3. ~ tainted' => ~ tainted /\ Lineage' /\ (row'.nstatus = "ready" => row'.notes.narr = row'.by)
    BY DEF IInv, TypeOK, Lineage, Running, SaveRefused, At, End, NotRunning
  <1>4. ByQueue' <=> ByQueue
    BY DEF IInv, TypeOK, ByQueue, SaveRefused, At, End, NotRunning
  <1>5. ~ tainted' /\ ByQueue => BoundInQueue'
    BY DEF IInv, TypeOK, BoundInQueue, Shows, ByQueue, SaveRefused, At, End, NotRunning
  <1>6. ~ tainted' => BoundToCurrent'
    BY <1>4 DEF IInv, TypeOK, BoundToCurrent, NoOverride, SaveRefused, At, End, NotRunning
  <1>7. ~ tainted' /\ NoOverride' => KitFollows'
    BY DEF IInv, TypeOK, KitFollows, Attached, NoOverride, SaveRefused, At, End, NotRunning
  <1> QED
    BY <1>1, <1>2, <1>3, <1>4, <1>5, <1>6, <1>7 DEF IInv

LEMMA EarlySaveFailsKeeps ==
    ASSUME IInv, NEW a \in Analyses, EarlySaveFails(a)
    PROVE  IInv'
  <1>0. \A b \in Analyses : work'[b].route = work[b].route
    <2>1. CASE To(a, "parsed")
      BY <2>1 DEF IInv, TypeOK, Handlers, To
    <2>2. CASE End(a, "gone")
      BY <2>2 DEF IInv, TypeOK, Handlers, End, NotRunning
    <2> QED
      BY <2>1, <2>2 DEF EarlySaveFails
  <1>1. TypeOK'
    <2>1. work' \in [Analyses -> Handlers]
      <3>1. CASE To(a, "parsed")
        BY <3>1, Typed DEF IInv, TypeOK, Handlers, To
      <3>2. CASE End(a, "gone")
        BY <3>2, Typed DEF IInv, TypeOK, Handlers, End
      <3> QED
        BY <3>1, <3>2 DEF EarlySaveFails
    <2> QED
      BY <2>1 DEF IInv, TypeOK, EarlySaveFails, Fault
  <1>2. Pointers' /\ NotYet' /\ Stages'
    BY DEF IInv, TypeOK, Pointers, NotYet, Stages, EarlySaveFails, Fault, At, To, End, NotRunning
  <1>3. ~ tainted' => ~ tainted /\ Lineage' /\ (row'.nstatus = "ready" => row'.notes.narr = row'.by)
    BY DEF IInv, TypeOK, Lineage, Running, EarlySaveFails, Fault, At, To, End, NotRunning
  <1>4. ByQueue' <=> ByQueue
    BY <1>0 DEF IInv, TypeOK, ByQueue, EarlySaveFails
  <1>5. ~ tainted' /\ ByQueue => BoundInQueue'
    BY DEF IInv, TypeOK, BoundInQueue, Shows, ByQueue, EarlySaveFails, Fault, At, To, End, NotRunning
  <1>6. ~ tainted' => BoundToCurrent'
    BY <1>4 DEF IInv, TypeOK, BoundToCurrent, NoOverride, EarlySaveFails, Fault, At, To, End, NotRunning
  <1>7. ~ tainted' /\ NoOverride' => KitFollows'
    BY DEF IInv, TypeOK, KitFollows, Attached, NoOverride, EarlySaveFails, Fault, At, To, End, NotRunning
  <1> QED
    BY <1>1, <1>2, <1>3, <1>4, <1>5, <1>6, <1>7 DEF IInv

LEMMA AbandonKeeps ==
    ASSUME IInv, NEW a \in Analyses, Abandon(a)
    PROVE  IInv'
  <1>1. TypeOK'
    BY Typed DEF IInv, TypeOK, Handlers, Tasks, Abandon, Fault, End
  <1>2. Pointers' /\ NotYet' /\ Stages'
    BY DEF IInv, TypeOK, Pointers, NotYet, Stages, Abandon, Fault, End, NotRunning
  <1>3. ~ tainted' => ~ tainted /\ Lineage' /\ (row'.nstatus = "ready" => row'.notes.narr = row'.by)
    BY DEF IInv, TypeOK, Lineage, Running, Abandon, Fault, End, NotRunning
  <1>4. ByQueue' <=> ByQueue
    BY DEF IInv, TypeOK, ByQueue, Abandon, Fault, End, NotRunning
  <1>5. ~ tainted' /\ ByQueue => BoundInQueue'
    BY DEF IInv, TypeOK, BoundInQueue, Shows, ByQueue, Abandon, Fault, End, NotRunning
  <1>6. ~ tainted' => BoundToCurrent'
    BY <1>4 DEF IInv, TypeOK, BoundToCurrent, NoOverride, Abandon, Fault, End, NotRunning
  <1>7. ~ tainted' /\ NoOverride' => KitFollows'
    BY DEF IInv, TypeOK, KitFollows, Attached, NoOverride, Abandon, Fault, End, NotRunning
  <1> QED
    BY <1>1, <1>2, <1>3, <1>4, <1>5, <1>6, <1>7 DEF IInv

LEMMA EndedKeeps ==
    ASSUME IInv, NEW a \in Analyses, End(a, "failed"), faults' \in Nat,
           UNCHANGED <<row, decisions, jobs, task, form, overrides, tainted>>
    PROVE  IInv'
  <1>1. TypeOK'
    BY Typed DEF IInv, TypeOK, Handlers, End
  <1>2. Pointers' /\ NotYet' /\ Stages'
    BY DEF IInv, TypeOK, Pointers, NotYet, Stages, End, NotRunning
  <1>3. ~ tainted => Lineage'
    BY DEF IInv, TypeOK, Lineage, Running, End, NotRunning
  <1>4. ByQueue' <=> ByQueue
    BY DEF IInv, TypeOK, ByQueue, End, NotRunning
  <1>5. ~ tainted /\ ByQueue => BoundInQueue'
    BY DEF IInv, TypeOK, BoundInQueue, Shows, ByQueue, End, NotRunning
  <1>6. ~ tainted => BoundToCurrent'
    BY <1>4 DEF IInv, TypeOK, BoundToCurrent, NoOverride, End, NotRunning
  <1>7. NoOverride' <=> NoOverride
    BY DEF NoOverride
  <1>8. KitFollows' <=> KitFollows
    BY DEF KitFollows, Attached
  <1> QED
    BY <1>1, <1>2, <1>3, <1>4, <1>5, <1>6, <1>7, <1>8 DEF IInv

LEMMA RefreshKeeps ==
    ASSUME IInv, NEW a \in Analyses, Refresh(a)
    PROVE  IInv'
  <1>1. TypeOK'
    <2>1. work' \in [Analyses -> Handlers]
      BY Typed, RowTyped DEF IInv, TypeOK, Handlers, Refresh
    <2>2. tainted' \in BOOLEAN
      BY DEF Refresh
    <2> QED
      BY <2>1, <2>2 DEF IInv, TypeOK, Refresh
  <1>2. Pointers' /\ NotYet' /\ Stages'
    BY DEF IInv, TypeOK, Pointers, NotYet, Stages, Refresh, At
  <1>3. ~ tainted' => ~ tainted /\ Lineage' /\ (row'.nstatus = "ready" => row'.notes.narr = row'.by)
    BY DEF IInv, TypeOK, Lineage, Running, Refresh, At
  <1>4. ByQueue' <=> ByQueue
    BY DEF IInv, TypeOK, ByQueue, Refresh, At
  <1>5. ~ tainted' /\ ByQueue => BoundInQueue'
    BY DEF IInv, TypeOK, BoundInQueue, Shows, ByQueue, Refresh, At
  <1>6. ~ tainted' => BoundToCurrent'
    BY <1>4 DEF IInv, TypeOK, BoundToCurrent, NoOverride, Refresh, At
  <1>7. ~ tainted' /\ NoOverride' => KitFollows'
    BY DEF IInv, TypeOK, KitFollows, Attached, NoOverride, Refresh, At
  <1> QED
    BY <1>1, <1>2, <1>3, <1>4, <1>5, <1>6, <1>7 DEF IInv

LEMMA LoadOverrideKeeps ==
    ASSUME IInv, LoadOverride
    PROVE  IInv'
  <1>1. TypeOK'
    BY Typed DEF IInv, TypeOK, Handlers, Tasks, LoadOverride
  <1>2. Pointers' /\ NotYet' /\ Stages'
    BY DEF IInv, TypeOK, Pointers, NotYet, Stages, LoadOverride
  <1>3. ~ tainted' => ~ tainted /\ Lineage' /\ (row'.nstatus = "ready" => row'.notes.narr = row'.by)
    BY DEF IInv, TypeOK, Lineage, Running, LoadOverride
  <1>4. ByQueue' <=> ByQueue
    BY DEF IInv, TypeOK, ByQueue, LoadOverride
  <1>5. ~ tainted' /\ ByQueue => BoundInQueue'
    BY DEF IInv, TypeOK, BoundInQueue, Shows, ByQueue, LoadOverride
  <1>6. ~ tainted' => BoundToCurrent'
    BY <1>4 DEF IInv, TypeOK, BoundToCurrent, NoOverride, LoadOverride
  <1>7. ~ tainted' /\ NoOverride' => KitFollows'
    BY DEF IInv, TypeOK, KitFollows, Attached, NoOverride, LoadOverride
  <1> QED
    BY <1>1, <1>2, <1>3, <1>4, <1>5, <1>6, <1>7 DEF IInv

LEMMA CancelNarrativeKeeps ==
    ASSUME IInv, NEW w \in Workers, CancelNarrative(w)
    PROVE  IInv'
  <1>1. TypeOK'
    <2>1. row' \in Rows
      BY RowTyped, RewrittenTyped DEF IInv, TypeOK, CancelNarrative, WithStatus
    <2>2. task' \in [Workers -> Tasks]
      BY Typed DEF IInv, TypeOK, Tasks, CancelNarrative, Goto
    <2> QED
      BY <2>1, <2>2 DEF IInv, TypeOK, CancelNarrative, Fault
  <1>2. Pointers' /\ NotYet' /\ Stages'
    BY DEF IInv, TypeOK, Pointers, NotYet, Stages, CancelNarrative, Fault, Holds, Goto, WithStatus, Rewritten
  <1>3. ~ tainted' => ~ tainted /\ Lineage' /\ (row'.nstatus = "ready" => row'.notes.narr = row'.by)
    BY DEF IInv, TypeOK, Lineage, Running, CancelNarrative, Fault, Holds, Goto, WithStatus, Rewritten
  <1>4. ByQueue' <=> ByQueue
    BY DEF IInv, TypeOK, ByQueue, CancelNarrative, Fault, Holds, Goto, WithStatus, Rewritten
  <1>5. ~ tainted' /\ ByQueue => BoundInQueue'
    BY DEF IInv, TypeOK, BoundInQueue, Shows, ByQueue, CancelNarrative, Fault, Holds, Goto, WithStatus, Rewritten
  <1>6. ~ tainted' => BoundToCurrent'
    BY <1>4 DEF IInv, TypeOK, BoundToCurrent, NoOverride, CancelNarrative, Fault, Holds, Goto, WithStatus, Rewritten
  <1>7. ~ tainted' /\ NoOverride' => KitFollows'
    BY DEF IInv, TypeOK, KitFollows, Attached, NoOverride, CancelNarrative, Fault, Holds, Goto, WithStatus, Rewritten
  <1> QED
    BY <1>1, <1>2, <1>3, <1>4, <1>5, <1>6, <1>7 DEF IInv

LEMMA ReadReportKeeps ==
    ASSUME IInv, NEW w \in Workers, ReadReport(w)
    PROVE  IInv'
  <1>1. TypeOK'
    <2>1. task' \in [Workers -> Tasks]
      <3>1. CASE Goto(w, "write", row.report)
        BY <3>1, RowTyped DEF IInv, TypeOK, Tasks, Goto
      <3>2. CASE Goto(w, "post", Blank)
        BY <3>2, Typed DEF IInv, TypeOK, Tasks, Goto
      <3> QED
        BY <3>1, <3>2 DEF ReadReport
    <2> QED
      BY <2>1 DEF IInv, TypeOK, ReadReport
  <1>2. Pointers' /\ NotYet' /\ Stages'
    BY DEF IInv, TypeOK, Pointers, NotYet, Stages, ReadReport, Holds, Goto, Current
  <1>3. ~ tainted' => ~ tainted /\ Lineage' /\ (row'.nstatus = "ready" => row'.notes.narr = row'.by)
    BY DEF IInv, TypeOK, Lineage, Running, ReadReport, Holds, Goto, Current
  <1>4. ByQueue' <=> ByQueue
    BY DEF IInv, TypeOK, ByQueue, ReadReport, Holds, Goto, Current
  <1>5. ~ tainted' /\ ByQueue => BoundInQueue'
    BY DEF IInv, TypeOK, BoundInQueue, Shows, ByQueue, ReadReport, Holds, Goto, Current
  <1>6. ~ tainted' => BoundToCurrent'
    BY <1>4 DEF IInv, TypeOK, BoundToCurrent, NoOverride, ReadReport, Holds, Goto, Current
  <1>7. ~ tainted' /\ NoOverride' => KitFollows'
    BY DEF IInv, TypeOK, KitFollows, Attached, NoOverride, ReadReport, Holds, Goto, Current
  <1> QED
    BY <1>1, <1>2, <1>3, <1>4, <1>5, <1>6, <1>7 DEF IInv

LEMMA LeaseKeeps ==
    ASSUME IInv, NEW w \in Workers, NEW j \in jobs, Lease(w, j)
    PROVE  IInv'
  <1>0. \A k \in jobs' : \E i \in jobs :
           k.kind = i.kind /\ k.gen = i.gen /\ k.of = i.of /\ k.dec = i.dec
    BY DEF IInv, TypeOK, Lease, SetStatus
  <1>1. TypeOK'
    <2>1. task' \in [Workers -> Tasks]
      BY Typed DEF IInv, TypeOK, Tasks, Jobs, Lease
    <2>2. jobs' \subseteq Jobs
      BY DEF IInv, TypeOK, Jobs, Lease, SetStatus
    <2> QED
      BY <2>1, <2>2 DEF IInv, TypeOK, Lease
  <1>2. Pointers' /\ NotYet' /\ Stages'
    BY <1>0 DEF IInv, TypeOK, Pointers, NotYet, Stages, Lease, Holds
  <1>3. ~ tainted' => ~ tainted /\ Lineage' /\ (row'.nstatus = "ready" => row'.notes.narr = row'.by)
    BY <1>0 DEF IInv, TypeOK, Lineage, Running, Lease, Holds
  <1>4. ByQueue' <=> ByQueue
    BY <1>0 DEF IInv, TypeOK, ByQueue, Lease, Holds
  <1>5. ~ tainted' /\ ByQueue => BoundInQueue'
    BY <1>0 DEF IInv, TypeOK, BoundInQueue, Shows, ByQueue, Lease, Holds
  <1>6. ~ tainted' => BoundToCurrent'
    BY <1>0 DEF IInv, TypeOK, BoundToCurrent, ByQueue, NoOverride, Lease, Holds
  <1>7. ~ tainted' /\ NoOverride' => KitFollows'
    BY <1>0 DEF IInv, TypeOK, KitFollows, Attached, NoOverride, Lease, Holds
  <1> QED
    BY <1>1, <1>2, <1>3, <1>4, <1>5, <1>6, <1>7 DEF IInv

LEMMA LeaseLostKeeps ==
    ASSUME IInv, NEW j \in jobs, LeaseLost(j)
    PROVE  IInv'
  <1>0. \A k \in jobs' : \E i \in jobs :
           k.kind = i.kind /\ k.gen = i.gen /\ k.of = i.of /\ k.dec = i.dec
    BY DEF IInv, TypeOK, LeaseLost, SetStatus
  <1>1. TypeOK'
    <2>1. jobs' \subseteq Jobs
      BY DEF IInv, TypeOK, Jobs, LeaseLost, SetStatus
    <2> QED
      BY <2>1 DEF IInv, TypeOK, LeaseLost, Fault
  <1>2. Pointers' /\ NotYet' /\ Stages'
    BY <1>0 DEF IInv, TypeOK, Pointers, NotYet, Stages, LeaseLost
  <1>3. ~ tainted' => ~ tainted /\ Lineage' /\ (row'.nstatus = "ready" => row'.notes.narr = row'.by)
    BY <1>0 DEF IInv, TypeOK, Lineage, Running, LeaseLost
  <1>4. ByQueue' <=> ByQueue
    BY <1>0 DEF IInv, TypeOK, ByQueue, LeaseLost
  <1>5. ~ tainted' /\ ByQueue => BoundInQueue'
    BY <1>0 DEF IInv, TypeOK, BoundInQueue, Shows, ByQueue, LeaseLost
  <1>6. ~ tainted' => BoundToCurrent'
    BY <1>0 DEF IInv, TypeOK, BoundToCurrent, ByQueue, NoOverride, LeaseLost
  <1>7. ~ tainted' /\ NoOverride' => KitFollows'
    BY <1>0 DEF IInv, TypeOK, KitFollows, Attached, NoOverride, LeaseLost
  <1> QED
    BY <1>1, <1>2, <1>3, <1>4, <1>5, <1>6, <1>7 DEF IInv

LEMMA FinishKeeps ==
    ASSUME IInv, NEW w \in Workers, Finish(w)
    PROVE  IInv'
  <1>0. \A k \in jobs' : \E i \in jobs :
           k.kind = i.kind /\ k.gen = i.gen /\ k.of = i.of /\ k.dec = i.dec
    BY DEF IInv, TypeOK, Finish, SetStatus
  <1>1. TypeOK'
    <2>1. task' \in [Workers -> Tasks]
      BY Typed DEF IInv, TypeOK, Finish
    <2>2. jobs' \subseteq Jobs
      BY DEF IInv, TypeOK, Jobs, Finish, SetStatus
    <2> QED
      BY <2>1, <2>2 DEF IInv, TypeOK, Finish
  <1>2. Pointers' /\ NotYet' /\ Stages'
    BY <1>0 DEF IInv, TypeOK, Pointers, NotYet, Stages, Finish, Idle
  <1>3. ~ tainted' => ~ tainted /\ Lineage' /\ (row'.nstatus = "ready" => row'.notes.narr = row'.by)
    BY <1>0 DEF IInv, TypeOK, Lineage, Running, Finish, Idle
  <1>4. ByQueue' <=> ByQueue
    BY <1>0 DEF IInv, TypeOK, ByQueue, Finish, Idle
  <1>5. ~ tainted' /\ ByQueue => BoundInQueue'
    BY <1>0 DEF IInv, TypeOK, BoundInQueue, Shows, ByQueue, Finish, Idle
  <1>6. ~ tainted' => BoundToCurrent'
    BY <1>0 DEF IInv, TypeOK, BoundToCurrent, ByQueue, NoOverride, Finish, Idle
  <1>7. ~ tainted' /\ NoOverride' => KitFollows'
    BY <1>0 DEF IInv, TypeOK, KitFollows, Attached, NoOverride, Finish, Idle
  <1> QED
    BY <1>1, <1>2, <1>3, <1>4, <1>5, <1>6, <1>7 DEF IInv

LEMMA CrashKeeps ==
    ASSUME IInv, NEW w \in Workers, Crash(w)
    PROVE  IInv'
  <1>0. \A k \in jobs' : \E i \in jobs :
           k.kind = i.kind /\ k.gen = i.gen /\ k.of = i.of /\ k.dec = i.dec
    BY DEF IInv, TypeOK, Crash, SetStatus
  <1>1. TypeOK'
    <2>1. task' \in [Workers -> Tasks]
      BY Typed DEF IInv, TypeOK, Crash
    <2>2. jobs' \subseteq Jobs
      BY DEF IInv, TypeOK, Jobs, Crash, SetStatus
    <2> QED
      BY <2>1, <2>2 DEF IInv, TypeOK, Crash, Fault
  <1>2. Pointers' /\ NotYet' /\ Stages'
    BY <1>0 DEF IInv, TypeOK, Pointers, NotYet, Stages, Crash, Idle
  <1>3. ~ tainted' => ~ tainted /\ Lineage' /\ (row'.nstatus = "ready" => row'.notes.narr = row'.by)
    BY <1>0 DEF IInv, TypeOK, Lineage, Running, Crash, Idle
  <1>4. ByQueue' <=> ByQueue
    BY <1>0 DEF IInv, TypeOK, ByQueue, Crash, Idle
  <1>5. ~ tainted' /\ ByQueue => BoundInQueue'
    BY <1>0 DEF IInv, TypeOK, BoundInQueue, Shows, ByQueue, Crash, Idle
  <1>6. ~ tainted' => BoundToCurrent'
    BY <1>0 DEF IInv, TypeOK, BoundToCurrent, ByQueue, NoOverride, Crash, Idle
  <1>7. ~ tainted' /\ NoOverride' => KitFollows'
    BY <1>0 DEF IInv, TypeOK, KitFollows, Attached, NoOverride, Crash, Idle
  <1> QED
    BY <1>1, <1>2, <1>3, <1>4, <1>5, <1>6, <1>7 DEF IInv

LEMMA AnnounceKitFailsKeeps ==
    ASSUME IInv, NEW w \in Workers, AnnounceKitFails(w)
    PROVE  IInv'
  <1>1. TypeOK'
    <2>1. task' \in [Workers -> Tasks]
      BY Typed, RowTyped DEF IInv, TypeOK, Tasks, AnnounceKitFails, Goto
    <2> QED
      BY <2>1 DEF IInv, TypeOK, AnnounceKitFails, Fault
  <1>2. Pointers' /\ NotYet' /\ Stages'
    BY DEF IInv, TypeOK, Pointers, NotYet, Stages, AnnounceKitFails, Fault, Holds, Goto
  <1>3. ~ tainted' => ~ tainted /\ Lineage' /\ (row'.nstatus = "ready" => row'.notes.narr = row'.by)
    BY DEF IInv, TypeOK, Lineage, Running, AnnounceKitFails, Fault, Holds, Goto
  <1>4. ByQueue' <=> ByQueue
    BY DEF IInv, TypeOK, ByQueue, AnnounceKitFails, Fault, Holds, Goto
  <1>5. ~ tainted' /\ ByQueue => BoundInQueue'
    BY DEF IInv, TypeOK, BoundInQueue, Shows, ByQueue, AnnounceKitFails, Fault, Holds, Goto
  <1>6. ~ tainted' => BoundToCurrent'
    BY <1>4 DEF IInv, TypeOK, BoundToCurrent, NoOverride, AnnounceKitFails, Fault, Holds, Goto
  <1>7. ~ tainted' /\ NoOverride' => KitFollows'
    BY DEF IInv, TypeOK, KitFollows, Attached, NoOverride, AnnounceKitFails, Fault, Holds, Goto
  <1> QED
    BY <1>1, <1>2, <1>3, <1>4, <1>5, <1>6, <1>7 DEF IInv

LEMMA MergeKitFailsKeeps ==
    ASSUME IInv, NEW w \in Workers, MergeKitFails(w)
    PROVE  IInv'
  <1>1. TypeOK'
    <2>1. task' \in [Workers -> Tasks]
      BY Typed, RowTyped DEF IInv, TypeOK, Tasks, MergeKitFails, Goto
    <2> QED
      BY <2>1 DEF IInv, TypeOK, MergeKitFails, Fault
  <1>2. Pointers' /\ NotYet' /\ Stages'
    BY DEF IInv, TypeOK, Pointers, NotYet, Stages, MergeKitFails, Fault, Holds, Goto
  <1>3. ~ tainted' => ~ tainted /\ Lineage' /\ (row'.nstatus = "ready" => row'.notes.narr = row'.by)
    BY DEF IInv, TypeOK, Lineage, Running, MergeKitFails, Fault, Holds, Goto
  <1>4. ByQueue' <=> ByQueue
    BY DEF IInv, TypeOK, ByQueue, MergeKitFails, Fault, Holds, Goto
  <1>5. ~ tainted' /\ ByQueue => BoundInQueue'
    BY DEF IInv, TypeOK, BoundInQueue, Shows, ByQueue, MergeKitFails, Fault, Holds, Goto
  <1>6. ~ tainted' => BoundToCurrent'
    BY <1>4 DEF IInv, TypeOK, BoundToCurrent, NoOverride, MergeKitFails, Fault, Holds, Goto
  <1>7. ~ tainted' /\ NoOverride' => KitFollows'
    BY DEF IInv, TypeOK, KitFollows, Attached, NoOverride, MergeKitFails, Fault, Holds, Goto
  <1> QED
    BY <1>1, <1>2, <1>3, <1>4, <1>5, <1>6, <1>7 DEF IInv

LEMMA MarkKeeps ==
    ASSUME IInv, NEW w \in Workers, Mark(w)
    PROVE  IInv'
  <1>1. TypeOK'
    <2>1. row' \in Rows
      BY RowTyped, RewrittenTyped DEF IInv, TypeOK, Mark, WithStatus, WithKitStatus
    <2>2. task' \in [Workers -> Tasks]
      BY Typed, RowTyped DEF IInv, TypeOK, Tasks, Mark, Goto
    <2> QED
      BY <2>1, <2>2 DEF IInv, TypeOK, Mark
  <1>2. Pointers' /\ NotYet' /\ Stages'
    BY DEF IInv, TypeOK, Pointers, NotYet, Stages, Mark, Holds, Goto, Current, WithStatus, WithKitStatus, Rewritten
  <1>3. ~ tainted' => ~ tainted /\ Lineage' /\ (row'.nstatus = "ready" => row'.notes.narr = row'.by)
    BY DEF IInv, TypeOK, Lineage, Running, Mark, Holds, Goto, Current, WithStatus, WithKitStatus, Rewritten
  <1>4. ByQueue' <=> ByQueue
    BY DEF IInv, TypeOK, ByQueue, Mark, Holds, Goto, Current, WithStatus, WithKitStatus, Rewritten
  <1>5. ~ tainted' /\ ByQueue => BoundInQueue'
    BY DEF IInv, TypeOK, BoundInQueue, Shows, ByQueue, Mark, Holds, Goto, Current, WithStatus, WithKitStatus, Rewritten
  <1>6. ~ tainted' => BoundToCurrent'
    BY <1>4 DEF IInv, TypeOK, BoundToCurrent, NoOverride, Mark, Holds, Goto, Current, WithStatus, WithKitStatus, Rewritten
  <1>7. ~ tainted' /\ NoOverride' => KitFollows'
    BY DEF IInv, TypeOK, KitFollows, Attached, NoOverride, Mark, Holds, Goto, Current, WithStatus, WithKitStatus, Rewritten
  <1> QED
    BY <1>1, <1>2, <1>3, <1>4, <1>5, <1>6, <1>7 DEF IInv

LEMMA WriteStatusOnlyKeeps ==
    ASSUME IInv, NEW w \in Workers, WriteStatusOnly(w)
    PROVE  IInv'
  <1>1. TypeOK'
    <2>1. row' \in Rows
      BY RowTyped, RewrittenTyped DEF IInv, TypeOK, WriteStatusOnly, WithStatus
    <2>2. task' \in [Workers -> Tasks]
      BY Typed, RowTyped DEF IInv, TypeOK, Tasks, WriteStatusOnly, Goto
    <2>3. tainted' \in BOOLEAN
      BY DEF WriteStatusOnly
    <2> QED
      BY <2>1, <2>2, <2>3 DEF IInv, TypeOK, WriteStatusOnly, Fault
  <1>2. Pointers' /\ NotYet' /\ Stages'
    BY DEF IInv, TypeOK, Pointers, NotYet, Stages, WriteStatusOnly, Fault, Holds, Goto, Current, WithStatus, Rewritten
  <1>3. ~ tainted' => ~ tainted /\ Lineage' /\ (row'.nstatus = "ready" => row'.notes.narr = row'.by)
    BY DEF IInv, TypeOK, Lineage, Running, WriteStatusOnly, Fault, Holds, Goto, Current, WithStatus, Rewritten
  <1>4. ByQueue' <=> ByQueue
    BY DEF IInv, TypeOK, ByQueue, WriteStatusOnly, Fault, Holds, Goto, Current, WithStatus, Rewritten
  <1>5. ~ tainted' /\ ByQueue => BoundInQueue'
    BY DEF IInv, TypeOK, BoundInQueue, Shows, ByQueue, WriteStatusOnly, Fault, Holds, Goto, Current, WithStatus, Rewritten
  <1>6. ~ tainted' => BoundToCurrent'
    BY <1>4 DEF IInv, TypeOK, BoundToCurrent, NoOverride, WriteStatusOnly, Fault, Holds, Goto, Current, WithStatus, Rewritten
  <1>7. ~ tainted' /\ NoOverride' => KitFollows'
    BY DEF IInv, TypeOK, KitFollows, Attached, NoOverride, WriteStatusOnly, Fault, Holds, Goto, Current, WithStatus, Rewritten
  <1> QED
    BY <1>1, <1>2, <1>3, <1>4, <1>5, <1>6, <1>7 DEF IInv

LEMMA AnnounceKitKeeps ==
    ASSUME IInv, NEW w \in Workers, AnnounceKit(w)
    PROVE  IInv'
  <1>1. TypeOK'
    <2>1. row' \in Rows
      BY RowTyped, RewrittenTyped DEF IInv, TypeOK, AnnounceKit, WithKitStatus
    <2>2. task' \in [Workers -> Tasks]
      BY Typed, RowTyped DEF IInv, TypeOK, Tasks, AnnounceKit, Goto
    <2> QED
      BY <2>1, <2>2 DEF IInv, TypeOK, AnnounceKit
  <1>2. Pointers' /\ NotYet' /\ Stages'
    BY SMTT(30) DEF IInv, TypeOK, Pointers, NotYet, Stages, AnnounceKit, Holds, Goto, Current, WithKitStatus, Rewritten
  <1>3. ~ tainted' => ~ tainted /\ Lineage' /\ (row'.nstatus = "ready" => row'.notes.narr = row'.by)
    BY DEF IInv, TypeOK, Lineage, Running, AnnounceKit, Holds, Goto, Current, WithKitStatus, Rewritten
  <1>4. ByQueue' <=> ByQueue
    BY DEF IInv, TypeOK, ByQueue, AnnounceKit, Holds, Goto, Current, WithKitStatus, Rewritten
  <1>5. ~ tainted' /\ ByQueue => BoundInQueue'
    BY SMTT(30) DEF IInv, TypeOK, BoundInQueue, Shows, ByQueue, AnnounceKit, Holds, Goto, Current, WithKitStatus, Rewritten
  <1>6. ~ tainted' => BoundToCurrent'
    BY <1>4 DEF IInv, TypeOK, BoundToCurrent, NoOverride, AnnounceKit, Holds, Goto, Current, WithKitStatus, Rewritten
  <1>7. ~ tainted' /\ NoOverride' => KitFollows'
    BY DEF IInv, TypeOK, KitFollows, Attached, NoOverride, AnnounceKit, Holds, Goto, Current, WithKitStatus, Rewritten
  <1> QED
    BY <1>1, <1>2, <1>3, <1>4, <1>5, <1>6, <1>7 DEF IInv

LEMMA MergeKitKeeps ==
    ASSUME IInv, NEW w \in Workers, MergeKit(w)
    PROVE  IInv'
  <1>1. TypeOK'
    <2>1. row' \in Rows
      BY RowTyped, RewrittenTyped DEF IInv, TypeOK, Reports, Notes, Tasks, MergeKit
    <2>2. task' \in [Workers -> Tasks]
      BY Typed, RowTyped DEF IInv, TypeOK, Tasks, MergeKit, Goto
    <2> QED
      BY <2>1, <2>2 DEF IInv, TypeOK, MergeKit
  <1>2. Pointers' /\ NotYet' /\ Stages'
    BY DEF IInv, TypeOK, Pointers, NotYet, Stages, MergeKit, Holds, Goto, Current, Rewritten
  <1>3. ~ tainted' => ~ tainted /\ Lineage' /\ (row'.nstatus = "ready" => row'.notes.narr = row'.by)
    BY DEF IInv, TypeOK, Lineage, Running, MergeKit, Holds, Goto, Current, Rewritten
  <1>4. ByQueue' <=> ByQueue
    BY DEF IInv, TypeOK, ByQueue, MergeKit, Holds, Goto, Current, Rewritten
  <1>5. ~ tainted' /\ ByQueue => BoundInQueue'
    BY DEF IInv, TypeOK, BoundInQueue, Shows, ByQueue, MergeKit, Holds, Goto, Current, Rewritten
  <1>6. ~ tainted' => BoundToCurrent'
    BY <1>4 DEF IInv, TypeOK, BoundToCurrent, NoOverride, MergeKit, Holds, Goto, Current, Rewritten
  <1>7. ~ tainted' /\ NoOverride' => KitFollows'
    BY DEF IInv, TypeOK, Lineage, KitFollows, Attached, NoOverride, MergeKit, Holds, Goto, Current, Rewritten
  <1> QED
    BY <1>1, <1>2, <1>3, <1>4, <1>5, <1>6, <1>7 DEF IInv

LEMMA WriteNarrativeKeeps ==
    ASSUME IInv, NEW w \in Workers, WriteNarrative(w)
    PROVE  IInv'
  <1>0. ~ tainted /\ Current(w) => /\ task[w].of = row.by /\ row.by # None
                                 /\ Merged(w).of \in {None, row.by}
    BY DEF IInv, Lineage, WriteNarrative, Holds, Current, Merged, Fresh
  <1>m. /\ Merged(w) \in Reports /\ Merged(w).shown = task[w].of
        /\ \/ Merged(w).fit = task[w].seen.fit /\ Merged(w).of = task[w].seen.of
              /\ Merged(w).proj = task[w].seen.proj
           \/ task[w].seen.fit \in {None, Zero}
    <2>1. task[w].seen \in Reports /\ task[w].of \in Owners
      BY DEF IInv, TypeOK, Tasks
    <2>2. Fresh(task[w].of) \in Reports
      BY <2>1 DEF Fresh, Reports, Scores, Owners
    <2> QED
      BY <2>1, <2>2 DEF Merged, Reports
  <1>w. /\ \A v \in Workers : v # w => task'[v] = task[v]
        /\ task'[w].pc = "post" /\ task'[w].kind = task[w].kind /\ task'[w].gen = task[w].gen
        /\ task'[w].of = task[w].of /\ task'[w].dec = task[w].dec
    BY DEF IInv, TypeOK, WriteNarrative, Goto
  <1>r. /\ row'.by = row.by /\ row'.gen = row.gen /\ row'.current = row.current
        /\ ~ Attachable(w) => row' = row
        /\ Attachable(w) => /\ row'.report = Merged(w) /\ row'.notes.kit = None
                            /\ row'.notes.narr = task[w].of
    BY DEF IInv, TypeOK, Rows, WriteNarrative, Rewritten
  <1>1. TypeOK'
    <2>1. row' \in Rows
      <3>1. Merged(w).det \in Scores
        BY <1>m DEF Reports
      <3>2. [narr |-> task[w].of, kit |-> None] \in Notes
        BY DEF IInv, TypeOK, Tasks, Notes, Owners
      <3> QED
        BY <1>m, <3>1, <3>2, RowTyped, RewrittenTyped DEF IInv, TypeOK, WriteNarrative
    <2>2. task' \in [Workers -> Tasks]
      BY Typed, RowTyped DEF IInv, TypeOK, Tasks, WriteNarrative, Goto
    <2> QED
      BY <2>1, <2>2 DEF IInv, TypeOK, WriteNarrative
  <1>2. Pointers' /\ NotYet' /\ Stages'
    BY DEF IInv, TypeOK, Pointers, NotYet, Stages, WriteNarrative, Holds, Goto, Current, Attachable, Merged, Rewritten
  <1>3. ~ tainted' => ~ tainted /\ Lineage' /\ (row'.nstatus = "ready" => row'.notes.narr = row'.by)
    <2> SUFFICES ASSUME ~ tainted
                 PROVE  Lineage' /\ (row'.nstatus = "ready" => row'.notes.narr = row'.by)
      BY DEF WriteNarrative
    <2>1. Lineage /\ (row.nstatus = "ready" => row.notes.narr = row.by)
      BY DEF IInv
    <2>2. row'.report.of \in {None, row'.by} /\ (row'.nstatus = "ready" => row'.notes.narr = row'.by)
      BY <1>0, <1>r, <2>1 DEF Lineage, Attachable
    <2>3. UNCHANGED <<work, jobs, decisions>> /\ task[w].pc = "write"
      BY DEF WriteNarrative, Holds
    <2>4. \A v \in Workers : task'[v].pc # "idle" =>
             /\ task'[v].gen <= row'.gen
             /\ task'[v].gen = row'.gen => task'[v].of = row'.by /\ task'[v].of # None
             /\ task'[v].gen = row'.gen /\ task'[v].pc = "write" =>
                   task'[v].seen.of \in {None, row'.by}
      BY <1>r, <1>w, <2>1, <2>3 DEF Lineage
    <2> QED
      BY <1>r, <2>1, <2>2, <2>3, <2>4 DEF Lineage
  <1>4. ByQueue' <=> ByQueue
    BY DEF IInv, TypeOK, ByQueue, WriteNarrative, Holds, Goto, Current, Attachable, Merged, Rewritten
  <1>5. ~ tainted' /\ ByQueue => BoundInQueue'
    <2> SUFFICES ASSUME ~ tainted, ByQueue PROVE BoundInQueue'
      BY DEF WriteNarrative
    <2>1. BoundInQueue
      BY DEF IInv
    <2>2. Attachable(w) => Shows(Merged(w))
      <3> SUFFICES ASSUME Attachable(w) PROVE Shows(Merged(w))
        OBVIOUS
      <3>1. Shows(task[w].seen) /\ decisions[row.current].fit # None
        BY <2>1 DEF BoundInQueue, IInv, Stages, WriteNarrative, Holds, Attachable, Current
      <3>2. task[w].of = row.by
        BY <1>0 DEF Attachable
      <3> QED
        BY <1>m, <3>1, <3>2 DEF Shows, Merged, Fresh
    <2>3. Shows(row.report)'
      BY <1>r, <2>1, <2>2 DEF BoundInQueue, Shows, WriteNarrative
    <2>4. UNCHANGED <<work, jobs, decisions>> /\ task[w].pc = "write"
      BY DEF WriteNarrative, Holds
    <2>5. ASSUME NEW v \in Workers, task'[v].pc # "idle", task'[v].kind = "narrative",
                 task'[v].gen = row'.gen
          PROVE  /\ task'[v].dec # 0
                 /\ task'[v].pc = "write" /\ task'[v].dec = row'.current =>
                       Shows(task[v].seen)'
      <3>1. CASE v = w
        BY <1>r, <1>w, <2>1, <2>4, <2>5, <3>1 DEF BoundInQueue
      <3>2. CASE v # w
        BY <1>r, <1>w, <2>1, <2>4, <2>5, <3>2 DEF BoundInQueue, Shows
      <3> QED
        BY <3>1, <3>2
    <2> QED
      BY <1>r, <2>1, <2>3, <2>4, <2>5 DEF BoundInQueue, Shows
  <1>6. ~ tainted' => BoundToCurrent'
    BY <1>4 DEF IInv, TypeOK, BoundToCurrent, NoOverride, WriteNarrative, Holds, Goto, Current, Attachable, Merged, Rewritten
  <1>7. ~ tainted' /\ NoOverride' => KitFollows'
    <2> SUFFICES ASSUME ~ tainted, NoOverride PROVE KitFollows'
      BY DEF WriteNarrative, NoOverride
    <2>1. KitFollows
      BY DEF IInv
    <2>2. Attachable(w) => Attached' /\ Merged(w).shown = row.by
      BY <1>0, <1>r DEF Attached, Attachable, Merged
    <2>3. Attached => Attached'
      BY <1>r, <2>2 DEF Attached
    <2>4. /\ row'.report.shown \in {None, row'.by}
          /\ row'.notes.kit \in {None, row'.notes.narr}
      BY <1>0, <1>r, <2>1, <2>2 DEF KitFollows, Attachable
    <2>5. task[w].gen = row.gen => Attached'
      BY <2>2 DEF IInv, BoundToCurrent, WriteNarrative, Holds, Attachable, Current
    <2> QED
      BY <1>r, <1>w, <2>1, <2>3, <2>4, <2>5 DEF KitFollows, WriteNarrative, Holds
  <1> QED
    BY <1>1, <1>2, <1>3, <1>4, <1>5, <1>6, <1>7 DEF IInv

LEMMA EnqueueKitKeeps ==
    ASSUME IInv, NEW w \in Workers, EnqueueKit(w)
    PROVE  IInv'
  <1>0. \A k \in jobs' : k \in jobs \/ k = [kind |-> "kit", gen |-> task[w].gen, of |-> task[w].of, dec |-> 0,
                                 status |-> "queued", holder |-> None]
    BY DEF EnqueueKit, Enqueue
  <1>1. TypeOK'
    <2>1. task' \in [Workers -> Tasks]
      BY Typed, RowTyped DEF IInv, TypeOK, Tasks, EnqueueKit, Goto
    <2>2. jobs' \subseteq Jobs
      BY <1>0 DEF IInv, TypeOK, Jobs, Tasks, Kinds
    <2> QED
      BY <2>1, <2>2 DEF IInv, TypeOK, EnqueueKit
  <1>2. Pointers' /\ NotYet' /\ Stages'
    BY <1>0 DEF IInv, TypeOK, Pointers, NotYet, Stages, EnqueueKit, Holds, Goto
  <1>3. ~ tainted' => ~ tainted /\ Lineage' /\ (row'.nstatus = "ready" => row'.notes.narr = row'.by)
    BY <1>0 DEF IInv, TypeOK, Lineage, Running, EnqueueKit, Holds, Goto
  <1>4. ByQueue' <=> ByQueue
    BY <1>0 DEF IInv, TypeOK, ByQueue, EnqueueKit, Holds, Goto
  <1>5. ~ tainted' /\ ByQueue => BoundInQueue'
    BY <1>0 DEF IInv, TypeOK, BoundInQueue, Shows, ByQueue, EnqueueKit, Holds, Goto
  <1>6. ~ tainted' => BoundToCurrent'
    BY <1>0 DEF IInv, TypeOK, BoundToCurrent, ByQueue, NoOverride, EnqueueKit, Holds, Goto
  <1>7. ~ tainted' /\ NoOverride' => KitFollows'
    BY <1>0 DEF IInv, TypeOK, KitFollows, Attached, NoOverride, EnqueueKit, Holds, Goto
  <1> QED
    BY <1>1, <1>2, <1>3, <1>4, <1>5, <1>6, <1>7 DEF IInv

LEMMA EarlySaveKeeps ==
    ASSUME IInv, NEW a \in Analyses, EarlySave(a)
    PROVE  IInv'
  <1>0. /\ \A b \in Analyses : work'[b].route = work[b].route /\ (b # a => work'[b] = work[b])
        /\ work'[a].pc \in {"parsed", "gone"}
        /\ work'[a].pc = "parsed" => work'[a].gen = work[a].gen
        /\ work'[a].dec \in {0, work[a].dec}
    <2>1. CASE To(a, "parsed")
      BY <2>1 DEF IInv, TypeOK, Handlers, To, EarlySave
    <2>2. CASE End(a, "gone")
      BY <2>2 DEF IInv, TypeOK, Handlers, End, NotRunning, EarlySave
    <2> QED
      BY <2>1, <2>2 DEF EarlySave
  <1>b. ~ tainted /\ row.gen = work[a].gen => row.by = a
    BY DEF IInv, Lineage, EarlySave, At, Running
  <1>1. TypeOK'
    <2>1. row' \in Rows
      BY Typed, WithReportTyped DEF IInv, TypeOK, EarlySave
    <2>2. work' \in [Analyses -> Handlers]
      
        <3>1. CASE To(a, "parsed")
          BY <3>1, Typed DEF IInv, TypeOK, Handlers, To
        <3>2. CASE End(a, "gone")
          BY <3>2, Typed DEF IInv, TypeOK, Handlers, End
        <3> QED
          BY <3>1, <3>2 DEF EarlySave
    <2> QED
      BY <2>1, <2>2 DEF IInv, TypeOK, EarlySave
  <1>2. Pointers' /\ NotYet' /\ Stages'
    BY <1>0 DEF IInv, TypeOK, Pointers, NotYet, Stages, EarlySave, WithReport, Rewritten
  <1>3. ~ tainted' => ~ tainted /\ Lineage' /\ (row'.nstatus = "ready" => row'.notes.narr = row'.by)
    BY <1>0, <1>b DEF IInv, TypeOK, Lineage, Running, EarlySave, At, WithReport, Rewritten, Fresh
  <1>4. ByQueue' <=> ByQueue
    BY <1>0 DEF IInv, TypeOK, ByQueue, EarlySave, WithReport, Rewritten
  <1>5. ~ tainted' /\ ByQueue => BoundInQueue'
    BY <1>0, <1>b DEF IInv, TypeOK, BoundInQueue, Shows, ByQueue, EarlySave, WithReport, Rewritten, Fresh
  <1>6. ~ tainted' => BoundToCurrent'
    BY <1>0, <1>4 DEF IInv, TypeOK, BoundToCurrent, NoOverride, EarlySave, WithReport, Rewritten
  <1>7. ~ tainted' /\ NoOverride' => KitFollows'
    BY <1>b DEF IInv, TypeOK, KitFollows, Attached, NoOverride, EarlySave, WithReport, Rewritten, Fresh
  <1> QED
    BY <1>1, <1>2, <1>3, <1>4, <1>5, <1>6, <1>7 DEF IInv

LEMMA SpawnKeeps ==
    ASSUME IInv, NEW a \in Analyses, Spawn(a)
    PROVE  IInv'
  <1>0. \A k \in jobs' : k \in jobs \/
          k = [kind |-> "narrative", gen |-> work[a].gen, of |-> a,
               dec |-> IF work[a].route = "queue" THEN work[a].dec ELSE 0,
               status |-> "queued", holder |-> None]
    BY DEF Spawn, Enqueue
  <1>a. /\ work[a].pc \in Running /\ a # None
        /\ work[a].route = "queue" => work[a].pc = "fresh"
    BY ScreeningAssumption DEF IInv, Stages, Spawn, At, Running
  <1>w. /\ \A b \in Analyses : work'[b].route = work[b].route /\ (b # a => work'[b] = work[b])
        /\ work'[a].pc \in {"queued", "done"}
        /\ work'[a].pc = "queued" => work'[a].gen = work[a].gen /\ work[a].route # "queue"
        /\ work'[a].dec \in {0, work[a].dec}
    <2>1. CASE work[a].route = "queue"
      BY <2>1 DEF IInv, TypeOK, Handlers, Spawn, End, NotRunning
    <2>2. CASE work[a].route # "queue"
      BY <2>2 DEF IInv, TypeOK, Handlers, Spawn, To
    <2> QED
      BY <2>1, <2>2
  <1>1. TypeOK'
    <2>1. work' \in [Analyses -> Handlers]
      
        <3>1. CASE work[a].route = "queue"
          <4>1. End(a, "done") /\ NotRunning("done", work[a].route) \in Handlers
            BY <3>1, Typed DEF IInv, TypeOK, Handlers, Spawn
          <4> QED
            BY <4>1 DEF IInv, TypeOK, End
        <3>2. CASE work[a].route # "queue"
          BY SMTT(30), <3>2, Typed DEF IInv, TypeOK, Handlers, Spawn, To
        <3> QED
          BY <3>1, <3>2
    <2>2. jobs' \subseteq Jobs
      BY <1>0 DEF IInv, TypeOK, Jobs, Handlers, Owners, Kinds
    <2> QED
      BY <2>1, <2>2 DEF IInv, TypeOK, Spawn
  <1>2. Pointers' /\ NotYet' /\ Stages'
    <2>1. Pointers'
      <3>1. \A k \in jobs' : k.dec <= Len(decisions)
        BY <1>0 DEF IInv, TypeOK, Handlers, Pointers
      <3>2. \A b \in Analyses : work'[b].dec <= Len(decisions)
        BY <1>w DEF IInv, TypeOK, Handlers, Pointers
      <3> QED
        BY <3>1, <3>2 DEF IInv, Pointers, Spawn
    <2>2. NotYet' /\ Stages'
      BY <1>w DEF IInv, NotYet, Stages, Spawn
    <2> QED
      BY <2>1, <2>2
  <1>3. ~ tainted' => ~ tainted /\ Lineage' /\ (row'.nstatus = "ready" => row'.notes.narr = row'.by)
    BY <1>0, <1>a, <1>w DEF IInv, TypeOK, Lineage, Running, Spawn
  <1>4. ByQueue' <=> ByQueue
    BY <1>w DEF IInv, ByQueue, Spawn
  <1>5. ~ tainted' /\ ByQueue => BoundInQueue'
    BY <1>0, <1>a, <1>w DEF IInv, Lineage, BoundInQueue, Shows, ByQueue, Spawn
  <1>6. ~ tainted' => BoundToCurrent'
    BY <1>0, <1>4, <1>a, <1>w DEF IInv, Lineage, BoundToCurrent, ByQueue, NoOverride, Spawn
  <1>7. ~ tainted' /\ NoOverride' => KitFollows'
    BY <1>0 DEF IInv, TypeOK, KitFollows, Attached, NoOverride, Spawn
  <1> QED
    BY <1>1, <1>2, <1>3, <1>4, <1>5, <1>6, <1>7 DEF IInv


(* What an upsert sends: the columns of its analysis, and kept scores. *)
LEMMA UpsertTyped ==
    ASSUME TypeOK, NEW a \in Analyses
    PROVE  /\ Upserted(a) \in Rows /\ Upserted(a).report.of \in {None, a}
           /\ Upserted(a).report.of \in Owners /\ Upserted(a).report.shown = None
           /\ work[a].route = "queue" => Upserted(a).report.of = a
  <1> DEFINE new == IF work[a].route = "queue" THEN Fresh(a) ELSE Blank
  <1>1. work[a].seen \in Rows /\ work[a].seen.gen + 1 \in Nat
    BY SMTT(30) DEF TypeOK, Handlers, Rows
  <1>2. /\ new \in Reports /\ new.shown = None /\ new.of \in {None, a}
        /\ work[a].route = "queue" => new.of = a
    BY Typed DEF Blank, Fresh
  <1>3. Upserted(a).report = IF Preserves(work[a].seen, a)
                               THEN Restored(new, work[a].seen) ELSE new
    BY DEF Upserted
  <1>4. /\ Upserted(a).report \in Reports /\ Upserted(a).report.of = new.of
        /\ Upserted(a).report.shown = None
    BY <1>1, <1>2, <1>3, RestoredTyped
  <1>5. a \in Owners /\ None \in Owners
    BY DEF Owners
  <1>6. Upserted(a).det = Column(Upserted(a).report, row.det)
    BY DEF Upserted
  <1>7. /\ Upserted(a).gen = work[a].seen.gen + 1 /\ Upserted(a).by = a
        /\ Upserted(a).current = row.current /\ Upserted(a).notes = row.notes
        /\ Upserted(a).kstatus = row.kstatus
        /\ Upserted(a).nstatus \in {"pending", row.nstatus}
    BY DEF Upserted
  <1>8. Upserted(a) = [gen |-> Upserted(a).gen, by |-> Upserted(a).by,
                       current |-> Upserted(a).current, notes |-> Upserted(a).notes,
                       report |-> Upserted(a).report, det |-> Upserted(a).det,
                       nstatus |-> Upserted(a).nstatus, kstatus |-> Upserted(a).kstatus]
    BY DEF Upserted
  <1>9. Upserted(a) \in Rows
    BY <1>1, <1>4, <1>5, <1>6, <1>7, <1>8, RowTyped, ReportTyped DEF Rows
  <1> QED
    BY <1>2, <1>4, <1>5, <1>9

LEMMA SaveKeeps ==
    ASSUME IInv, NEW a \in Analyses, Save(a)
    PROVE  IInv'
  <1> DEFINE kind == IF work[a].seen.gen = 0 THEN "INITIAL_ANALYSIS" ELSE "REANALYSIS"
             gen == work[a].seen.gen + 1
             d == Made(Upserted(a), kind, a, Upserted(a).report.of)
  <1>t. TypeOK /\ work[a] \in Handlers /\ work[a].seen \in Rows /\ gen \in Nat
    BY SMTT(30) DEF IInv, TypeOK, Handlers, Rows
  <1>u. /\ Upserted(a) \in Rows /\ Upserted(a).gen = gen /\ Upserted(a).by = a
        /\ Upserted(a).current = row.current /\ Upserted(a).notes = row.notes
        /\ Upserted(a).report.of \in {None, a} /\ Upserted(a).report.shown = None
        /\ work[a].route = "queue" => Upserted(a).report.of = a
        /\ Upserted(a).nstatus = IF work[a].seen.nstatus = "pending" THEN row.nstatus ELSE "pending"
    <2>1. /\ Upserted(a).gen = gen /\ Upserted(a).by = a
          /\ Upserted(a).current = row.current /\ Upserted(a).notes = row.notes
          /\ Upserted(a).nstatus = IF work[a].seen.nstatus = "pending" THEN row.nstatus ELSE "pending"
      BY DEF Upserted
    <2> QED
      BY <1>t, <2>1, UpsertTyped
  <1>p. /\ Project(Upserted(a), Len(decisions) + 1, d) \in Rows
        /\ d \in Decisions /\ d.gen = gen /\ d.of = a /\ d.kind = kind /\ d.fit # None
    BY <1>t, <1>u, UpsertTyped, Decided
  <1>d. \/ /\ decisions' = decisions /\ row' = Upserted(a)
           /\ work[a].route # "queue" \/ Recorded(kind, gen)
        \/ decisions' = Append(decisions, d) /\ row' = Project(Upserted(a), Len(decisions) + 1, d)
    <2>1. Empty(Upserted(a).report) => work[a].route # "queue"
      BY <1>u, ScreeningAssumption DEF Empty
    <2> QED
      BY <1>u, <2>1 DEF Save, Decide, Append1, Made
  <1>w. /\ work' = [work EXCEPT ![a] = [pc |-> "saved", route |-> work[a].route,
                                        gen |-> gen, dec |-> 0, seen |-> Absent]]
        /\ work'[a].pc = "saved" /\ work'[a].gen = gen /\ work'[a].dec = 0
        /\ \A b \in Analyses : work'[b].route = work[b].route /\ (b # a => work'[b] = work[b])
    BY <1>t DEF TypeOK, Handlers, Save
  <1>r. /\ row' \in Rows /\ row'.gen = gen /\ row'.by = a /\ row'.notes = row.notes
        /\ row'.report.of \in {None, a} /\ row'.report.shown = None
        /\ work[a].route = "queue" => row'.report.of = a
        /\ row'.nstatus = IF work[a].seen.nstatus = "pending" THEN row.nstatus ELSE "pending"
    BY <1>d, <1>p, <1>u DEF Project
  <1>s. /\ \A i \in DOMAIN decisions : i \in DOMAIN decisions' /\ decisions'[i] = decisions[i]
        /\ \A i \in DOMAIN decisions' : i \in DOMAIN decisions \/ decisions'[i] = d
        /\ Len(decisions) <= Len(decisions') /\ row'.current <= Len(decisions')
        /\ decisions' \in Seq(Decisions)
    <2>1. CASE decisions' = decisions /\ row' = Upserted(a)
      BY <2>1, <1>t, <1>u DEF IInv, TypeOK, Pointers
    <2>2. CASE decisions' = Append(decisions, d) /\ row' = Project(Upserted(a), Len(decisions) + 1, d)
      BY <2>2, <1>t, <1>p, Appended DEF Project
    <2> QED
      BY <1>d, <2>1, <2>2
  <1>1. TypeOK'
    <2>1. work' \in [Analyses -> Handlers]
      BY <1>t, <1>w, Typed DEF TypeOK, Handlers
    <2>2. tainted' \in BOOLEAN
      BY DEF Save
    <2> QED
      BY <1>t, <1>r, <1>s, <2>1, <2>2 DEF TypeOK, Save
  <1>2. Pointers' /\ NotYet' /\ Stages'
    <2>1. Len(decisions) \in Nat /\ Len(decisions') \in Nat
      BY <1>s, <1>t DEF TypeOK
    <2>2. /\ \A b \in Analyses : work'[b].dec <= Len(decisions')
          /\ \A j \in jobs : j.dec <= Len(decisions')
          /\ \A v \in Workers : task[v].dec <= Len(decisions')
          /\ form.current <= Len(decisions')
      BY <1>s, <1>t, <1>w, <2>1, NumbersTyped DEF IInv, Pointers
    <2>3. Pointers'
      BY <1>s, <2>2 DEF IInv, Pointers, Save
    <2> QED
      BY <1>r, <1>w, <2>3 DEF IInv, NotYet, Stages, Save
  <1>3. ~ tainted' => ~ tainted /\ row = work[a].seen /\ gen = row.gen + 1 /\ row.gen \in Nat
    BY <1>t, RowTyped DEF Save
  <1>4. ~ tainted' => /\ \A b \in Analyses : work[b].pc \in Running => work[b].gen < gen
                      /\ \A j \in jobs : j.gen < gen
                      /\ \A v \in Workers : task[v].pc # "idle" => task[v].gen < gen
                      /\ \A i \in DOMAIN decisions : decisions[i].gen < gen
    BY <1>3, <1>t, NumbersTyped DEF IInv, Lineage
  <1>5. ~ tainted' => Lineage' /\ row'.nstatus # "ready"
    <2>1. ~ tainted' => /\ \A i \in DOMAIN decisions' : decisions'[i].gen <= row'.gen
                        /\ \A b \in Analyses : work'[b].pc \in Running =>
                              work'[b].gen <= row'.gen /\ (work'[b].gen = row'.gen => b = a)
      BY SMTT(30), <1>3, <1>4, <1>p, <1>r, <1>s, <1>w, <1>t, NumbersTyped
    <2> QED
      BY <1>3, <1>4, <1>r, <2>1, <1>t, NumbersTyped DEF Lineage, Save
  <1>6. ~ tainted' /\ ByQueue' => BoundInQueue'
    <2> SUFFICES ASSUME ~ tainted', ByQueue' PROVE BoundInQueue'
      OBVIOUS
    <2>1. work[a].route = "queue"
      BY <1>r, <1>w DEF ByQueue
    <2>2. ~ Recorded(kind, gen)
      BY <1>t, <1>4, NumbersTyped DEF Recorded
    <2>3. decisions' = Append(decisions, d) /\ row' = Project(Upserted(a), Len(decisions) + 1, d)
      BY <1>d, <2>1, <2>2
    <2>4. /\ row'.report.proj = row'.current /\ row'.current \in DOMAIN decisions'
          /\ row'.report.fit = d.fit /\ decisions'[row'.current] = d
      BY <2>3, <1>p, <1>t, Appended DEF Project
    <2>5. row'.report.of = row'.by
      BY <1>r, <2>1
    <2>6. /\ \A j \in jobs : j.gen # row'.gen
          /\ \A v \in Workers : task[v].pc # "idle" => task[v].gen # row'.gen
      BY <1>t, <1>4, <1>r, NumbersTyped
    <2>7. work'[row'.by].pc # "fresh" /\ UNCHANGED <<jobs, task>>
      BY <1>r, <1>w DEF Save
    <2>8. Shows(row.report)'
      BY <2>4, <2>5 DEF Shows
    <2> QED
      BY <2>4, <2>6, <2>7, <2>8, <1>p, <1>r DEF BoundInQueue
  <1>7. ~ tainted' => BoundToCurrent'
    BY <1>t, <1>4, <1>r, <1>w, NumbersTyped DEF BoundToCurrent, Save, Running
  <1>8. ~ tainted' /\ NoOverride' => KitFollows'
    <2>1. NoOverride' => NoOverride
      BY <1>s DEF NoOverride
    <2> QED
      BY <1>3, <1>4, <1>r, <2>1 DEF IInv, KitFollows, Save
  <1> QED
    BY <1>1, <1>2, <1>5, <1>6, <1>7, <1>8 DEF IInv

(* The ways a direct analysis or a stream stores its result: new. *)
StoresResult(a, new, k, parts) ==
    /\ work[a].pc \in Running /\ work[a].route # "queue" /\ row.gen = work[a].gen
    /\ End(a, "done")
    /\ \/ Decide(WithReport(Kept(new)), k, a, parts)
       \/ row' = WithReport(Kept(new)) /\ UNCHANGED decisions

LEMMA Stored ==
    ASSUME IInv, NEW a \in Analyses, NEW k \in {"INITIAL_ANALYSIS", "REANALYSIS"},
           NEW new \in Reports, new.of = a, new.shown = None, NEW parts \in Owners,
           StoresResult(a, new, k, parts), faults' \in Nat,
           UNCHANGED <<jobs, task, form, overrides, tainted>>
    PROVE  IInv'
  <1> DEFINE r == WithReport(Kept(new))
             d == Made(r, k, a, parts)
  <1>t. TypeOK /\ row.gen \in Nat
    BY RowTyped DEF IInv
  <1>u. /\ r \in Rows /\ r.gen = row.gen /\ r.by = row.by /\ r.current = row.current
        /\ r.notes = row.notes /\ r.nstatus = row.nstatus
        /\ r.report.of = a /\ r.report.shown = None
    <2>1. Kept(new) \in Reports /\ Kept(new).of = a /\ Kept(new).shown = None
      BY <1>t, KeptTyped
    <2>2. r \in Rows
      BY <1>t, <2>1, WithReportTyped
    <2> QED
      BY <2>1, <2>2 DEF WithReport, Rewritten
  <1>p. Project(r, Len(decisions) + 1, d) \in Rows /\ d \in Decisions /\ d.gen = row.gen /\ d.kind = k
    BY <1>t, <1>u, Decided
  <1>d. \/ decisions' = decisions /\ row' = r
        \/ decisions' = Append(decisions, d) /\ row' = Project(r, Len(decisions) + 1, d)
    BY <1>u DEF StoresResult, Decide, Append1, Made
  <1>w. /\ work'[a].pc = "done" /\ work'[a].dec = 0
        /\ \A b \in Analyses : work'[b].route = work[b].route /\ (b # a => work'[b] = work[b])
        /\ work' \in [Analyses -> Handlers]
    <2>1. NotRunning("done", work[a].route) \in Handlers
      BY Typed DEF IInv, TypeOK, Handlers
    <2>2. work' \in [Analyses -> Handlers]
      BY <2>1 DEF IInv, TypeOK, End, StoresResult
    <2> QED
      BY <2>2 DEF IInv, TypeOK, End, NotRunning, StoresResult
  <1>r. /\ row' \in Rows /\ row'.gen = row.gen /\ row'.by = row.by /\ row'.notes = row.notes
        /\ row'.report.of = a /\ row'.report.shown = None /\ row'.nstatus = row.nstatus
    BY <1>d, <1>p, <1>u DEF Project
  <1>s. /\ \A i \in DOMAIN decisions : i \in DOMAIN decisions' /\ decisions'[i] = decisions[i]
        /\ \A i \in DOMAIN decisions' : i \in DOMAIN decisions \/ decisions'[i] = d
        /\ Len(decisions) <= Len(decisions') /\ row'.current <= Len(decisions')
        /\ decisions' \in Seq(Decisions)
    <2>1. CASE decisions' = decisions /\ row' = r
      BY <2>1, <1>t, <1>u DEF IInv, TypeOK, Pointers
    <2>2. CASE decisions' = Append(decisions, d) /\ row' = Project(r, Len(decisions) + 1, d)
      BY <2>2, <1>t, <1>p, Appended DEF Project
    <2> QED
      BY <1>d, <2>1, <2>2
  <1>1. TypeOK'
    BY <1>t, <1>r, <1>s, <1>w DEF TypeOK
  <1>2. Pointers' /\ NotYet' /\ Stages'
    <2>1. Len(decisions) \in Nat /\ Len(decisions') \in Nat
      BY <1>s, <1>t DEF TypeOK
    <2>2. /\ \A b \in Analyses : work'[b].dec <= Len(decisions')
          /\ \A j \in jobs : j.dec <= Len(decisions')
          /\ \A v \in Workers : task[v].dec <= Len(decisions')
          /\ form.current <= Len(decisions')
      BY <1>s, <1>t, <1>w, <2>1, NumbersTyped DEF IInv, Pointers
    <2>3. Pointers'
      BY <1>s, <2>2 DEF IInv, Pointers
    <2> QED
      BY <1>r, <1>w, <2>3 DEF IInv, NotYet, Stages
  <1>3. ~ tainted => row.by = a /\ ~ ByQueue /\ ~ ByQueue'
    BY <1>r, <1>w DEF IInv, Lineage, StoresResult, ByQueue
  <1>4. ~ tainted => Lineage' /\ (row'.nstatus = "ready" => row'.notes.narr = row'.by)
    BY <1>3, <1>p, <1>r, <1>s, <1>w, <1>t DEF IInv, Lineage, Running
  <1>5. ~ tainted => BoundToCurrent'
    BY <1>3, <1>r, <1>w DEF IInv, Lineage, BoundToCurrent, Running
  <1>6. ~ tainted /\ NoOverride' => KitFollows'
    <2>1. NoOverride' => NoOverride
      BY <1>s DEF NoOverride
    <2>2. ~ tainted /\ Attached => Attached'
      BY <1>3, <1>r DEF Attached
    <2> QED
      BY <1>r, <2>1, <2>2 DEF IInv, KitFollows
  <1> QED
    BY <1>1, <1>2, <1>3, <1>4, <1>5, <1>6 DEF IInv

LEMMA Results ==
    ASSUME NEW a \in Analyses
    PROVE  /\ Fresh(a) \in Reports /\ Fresh(a).of = a /\ Fresh(a).shown = None
           /\ Fallback(a) \in Reports /\ Fallback(a).of = a /\ Fallback(a).shown = None
           /\ a \in Owners /\ None \in Owners
  BY Typed DEF Fresh, Fallback, Owners

(* An end of an analysis stores its result or finds itself superseded. *)
LEMMA ApplyStores ==
    ASSUME IInv, NEW a \in Analyses, Apply(a)
    PROVE  \/ row.gen # work[a].gen /\ End(a, "failed") /\ UNCHANGED <<row, decisions>>
           \/ StoresResult(a, Fresh(a), "INITIAL_ANALYSIS", a) /\ Empty(row.report)
           \/ /\ StoresResult(a, Fresh(a), "REANALYSIS", a) /\ ~ Empty(row.report)
              /\ Decide(WithReport(Kept(Fresh(a))), "REANALYSIS", a, a)
  <1>1. work[a].pc \in Running /\ work[a].route # "queue"
    BY DEF Apply, At, Running
  <1>2. CASE row.gen = work[a].gen
    <2>1. StoreResult(a) /\ End(a, "done")
      BY <1>2 DEF Apply
    <2> QED
      BY <1>1, <1>2, <2>1 DEF StoreResult, StoresResult
  <1>3. CASE row.gen # work[a].gen
    BY <1>3 DEF Apply
  <1> QED
    BY <1>2, <1>3

LEMMA FinalStores ==
    ASSUME IInv, NEW a \in Analyses, NEW new, NEW parts, Final(a, new, parts),
           work[a].route = "stream", work[a].pc \in Running
    PROVE  \/ row.gen # work[a].gen /\ End(a, "failed") /\ UNCHANGED <<row, decisions>>
           \/ /\ StoresResult(a, new, "INITIAL_ANALYSIS", parts) /\ Empty(row.report)
              /\ Decide(WithReport(Kept(new)), "INITIAL_ANALYSIS", a, parts)
           \/ /\ StoresResult(a, new, "INITIAL_ANALYSIS", parts) /\ ~ Empty(row.report)
              /\ UNCHANGED decisions
  BY DEF Final, StoresResult

LEMMA ApplyKeeps ==
    ASSUME IInv, NEW a \in Analyses, Apply(a)
    PROVE  IInv'
  <1>1. UNCHANGED <<jobs, task, form, overrides, faults, tainted>> /\ faults' \in Nat
    BY DEF IInv, TypeOK, Apply
  <1>2. CASE row.gen # work[a].gen /\ End(a, "failed") /\ UNCHANGED <<row, decisions>>
    BY <1>1, <1>2, EndedKeeps
  <1>3. CASE StoresResult(a, Fresh(a), "INITIAL_ANALYSIS", a)
    BY <1>1, <1>3, Results, Stored
  <1>4. CASE StoresResult(a, Fresh(a), "REANALYSIS", a)
    BY <1>1, <1>4, Results, Stored
  <1> QED
    BY <1>2, <1>3, <1>4, ApplyStores

LEMMA FinalKeeps ==
    ASSUME IInv, NEW a \in Analyses, FinalSave(a) \/ FinalSaveFallback(a)
    PROVE  IInv'
  <1>1. /\ UNCHANGED <<jobs, task, form, overrides, tainted>> /\ faults' \in Nat
        /\ work[a].route = "stream" /\ work[a].pc \in Running
    BY DEF IInv, TypeOK, FinalSave, FinalSaveFallback, Fault, At, Running
  <1>2. Final(a, Fresh(a), a) \/ Final(a, Fallback(a), None)
    BY DEF FinalSave, FinalSaveFallback
  <1>3. CASE row.gen # work[a].gen /\ End(a, "failed") /\ UNCHANGED <<row, decisions>>
    BY <1>1, <1>3, EndedKeeps
  <1>4. CASE StoresResult(a, Fresh(a), "INITIAL_ANALYSIS", a)
    BY <1>1, <1>4, Results, Stored
  <1>5. CASE StoresResult(a, Fallback(a), "INITIAL_ANALYSIS", None)
    BY <1>1, <1>5, Results, Stored
  <1> QED
    BY <1>1, <1>2, <1>3, <1>4, <1>5, FinalStores

LEMMA WriteOverrideKeeps ==
    ASSUME IInv, WriteOverride
    PROVE  IInv'
  <1> DEFINE r == WithReport(form.report)
             old == decisions[form.current]
             d == Decision("HUMAN_OVERRIDE", form.gen, old.of, OrZero(old.parts),
                           OrZero(old.parts), old.parts)
  <1>t. TypeOK /\ row.gen \in Nat /\ form.report \in Reports /\ form.gen \in Nat
    BY RowTyped DEF IInv, TypeOK, Rows
  <1>u. /\ r \in Rows /\ r.gen = row.gen /\ r.by = row.by /\ r.notes = row.notes
        /\ r.nstatus = row.nstatus /\ r.report = form.report
    <2>1. r \in Rows
      BY <1>t, WithReportTyped
    <2> QED
      BY <2>1 DEF WithReport, Rewritten
  <1>f. form.current \in DOMAIN decisions
    BY <1>t, NumbersTyped DEF IInv, Pointers, WriteOverride, TypeOK
  <1>p. /\ Project(r, Len(decisions) + 1, d) \in Rows /\ d \in Decisions
        /\ d.gen = form.gen /\ d.of = old.of /\ d.kind = "HUMAN_OVERRIDE" /\ d.fit # None
    <2>1. old \in Decisions
      BY <1>t, <1>f DEF TypeOK
    <2>2. old.parts \in Owners /\ old.of \in Owners
      BY <2>1 DEF Decisions
    <2>3. OrZero(old.parts) \in Scores /\ OrZero(old.parts) # None
      BY <2>2, ScreeningAssumption DEF OrZero, Scores
    <2>4. d \in Decisions
      BY <1>t, <2>2, <2>3 DEF Decision, Decisions
    <2>5. Project(r, Len(decisions) + 1, d) \in Rows
      BY <1>t, <1>u, <2>3, NumbersTyped DEF Decision, Project, Rows, Reports
    <2> QED
      BY <2>3, <2>4, <2>5 DEF Decision
  <1>d. decisions' = Append(decisions, d) /\ row' = Project(r, Len(decisions) + 1, d)
    BY DEF WriteOverride, Append1
  <1>r. /\ row' \in Rows /\ row'.gen = row.gen /\ row'.by = row.by /\ row'.notes = row.notes
        /\ row'.nstatus = row.nstatus /\ row'.current = Len(decisions) + 1
        /\ row'.report.of = form.report.of /\ row'.report.proj = row'.current
        /\ row'.report.fit = d.fit
    BY <1>d, <1>p, <1>u DEF Project
  <1>s. /\ \A i \in DOMAIN decisions : i \in DOMAIN decisions' /\ decisions'[i] = decisions[i]
        /\ \A i \in DOMAIN decisions' : i \in DOMAIN decisions \/ decisions'[i] = d
        /\ Len(decisions') = Len(decisions) + 1 /\ Len(decisions) \in Nat
        /\ Len(decisions) + 1 \in DOMAIN decisions' /\ decisions'[Len(decisions) + 1] = d
        /\ decisions' \in Seq(Decisions)
    <2>1. d \in Decisions /\ TypeOK
      BY <1>p, <1>t
    <2>2. /\ Append(decisions, d) \in Seq(Decisions)
          /\ Len(Append(decisions, d)) = Len(decisions) + 1 /\ Len(decisions) \in Nat
          /\ DOMAIN Append(decisions, d) = 1..(Len(decisions) + 1)
          /\ DOMAIN decisions = 1..Len(decisions)
          /\ \A i \in DOMAIN decisions : Append(decisions, d)[i] = decisions[i]
          /\ Append(decisions, d)[Len(decisions) + 1] = d
      BY <2>1, Appended
    <2> HIDE DEF d
    <2> QED
      BY <1>d, <2>2
  <1>1. TypeOK'
    <2>1. form' \in Rows
      BY Typed DEF WriteOverride
    <2>2. tainted' \in BOOLEAN
      BY DEF WriteOverride
    <2> QED
      BY <1>t, <1>r, <1>s, <2>1, <2>2 DEF TypeOK, WriteOverride
  <1>2. Pointers' /\ NotYet' /\ Stages'
    <2>1. form' = Absent /\ Absent.current = 0
      BY DEF WriteOverride, Absent
    <2>2. Pointers'
      BY <1>r, <1>s, <1>t, <2>1, NumbersTyped DEF IInv, Pointers, WriteOverride
    <2> QED
      BY <1>r, <2>2 DEF IInv, NotYet, Stages, WriteOverride
  <1>3. ~ tainted' => ~ tainted /\ row = form
    BY DEF WriteOverride
  <1>4. ByQueue' <=> ByQueue
    BY <1>r DEF ByQueue, WriteOverride
  <1>5. ~ tainted' => Lineage' /\ (row'.nstatus = "ready" => row'.notes.narr = row'.by)
    <2> SUFFICES ASSUME ~ tainted'
                 PROVE  Lineage' /\ (row'.nstatus = "ready" => row'.notes.narr = row'.by)
      OBVIOUS
    <2>1. row = form /\ Lineage /\ (row.nstatus = "ready" => row.notes.narr = row.by)
      BY <1>3 DEF IInv
    <2>2. UNCHANGED <<jobs, work, task>>
      BY DEF WriteOverride
    <2>3. \A i \in DOMAIN decisions' : decisions'[i].gen <= row'.gen
      <3>1. d.gen = row.gen /\ row'.gen = row.gen /\ row.gen <= row.gen
        BY <1>p, <1>r, <1>t, <2>1
      <3>2. \A i \in DOMAIN decisions : decisions[i].gen <= row.gen
        BY <2>1 DEF Lineage
      <3> HIDE DEF d
      <3> QED
        BY <1>s, <3>1, <3>2
    <2>4. row'.report.of \in {None, row'.by}
      BY <1>r, <2>1 DEF Lineage
    <2>5. \A w \in Workers : task'[w].pc # "idle" =>
             /\ task'[w].gen <= row'.gen
             /\ task'[w].gen = row'.gen => task'[w].of = row'.by /\ task'[w].of # None
             /\ task'[w].gen = row'.gen /\ task'[w].pc = "write" =>
                   task'[w].seen.of \in {None, row'.by}
      BY <1>r, <2>1, <2>2 DEF Lineage
    <2>6. /\ \A a \in Analyses : work'[a].pc \in Running =>
                work'[a].gen <= row'.gen /\ (work'[a].gen = row'.gen => row'.by = a)
          /\ \A j \in jobs' : j.gen <= row'.gen /\ (j.gen = row'.gen => j.of = row'.by /\ j.of # None)
      BY <1>r, <2>1, <2>2 DEF Lineage
    <2>7. row'.nstatus = "ready" => row'.notes.narr = row'.by
      BY <1>r, <2>1
    <2> QED
      BY <2>3, <2>4, <2>5, <2>6, <2>7 DEF Lineage
  <1>6. ~ tainted' /\ ByQueue => BoundInQueue'
    <2> SUFFICES ASSUME ~ tainted', ByQueue PROVE BoundInQueue'
      OBVIOUS
    <2>1. BoundInQueue /\ row = form
      BY <1>3 DEF IInv
    <2>2. \A v \in Workers : task[v].dec # row'.current
      BY <1>r, <1>s, <1>t, NumbersTyped DEF IInv, Pointers
    <2>3. d.gen = row.gen /\ d.of = row.by /\ decisions'[row'.current] = d
      BY <1>p, <1>r, <1>s, <2>1 DEF BoundInQueue
    <2>4. Shows(row.report)'
      BY <1>r, <2>1, <2>3 DEF BoundInQueue, Shows
    <2> QED
      BY <1>p, <1>r, <1>s, <2>1, <2>2, <2>3, <2>4 DEF BoundInQueue, WriteOverride
  <1>7. ~ NoOverride'
    BY <1>p, <1>s DEF NoOverride
  <1>8. ~ tainted' => BoundToCurrent'
    BY <1>3, <1>4, <1>7, <1>r DEF IInv, BoundToCurrent, WriteOverride
  <1> QED
    BY <1>1, <1>2, <1>4, <1>5, <1>6, <1>7, <1>8 DEF IInv

LEMMA AnalyseKeeps ==
    ASSUME IInv, NEW a \in Analyses, Analyse(a)
    PROVE  IInv'
  <1>0. CASE \E route \in Routes : ReadRow(a, route)
    BY <1>0, ReadRowKeeps
  <1>1. CASE Save(a)
    BY <1>1, SaveKeeps
  <1>2. CASE SaveRefused(a)
    BY <1>2, SaveRefusedKeeps
  <1>3. CASE Refresh(a)
    BY <1>3, RefreshKeeps
  <1>4. CASE EarlySave(a)
    BY <1>4, EarlySaveKeeps
  <1>5. CASE EarlySaveFails(a)
    BY <1>5, EarlySaveFailsKeeps
  <1>6. CASE Spawn(a)
    BY <1>6, SpawnKeeps
  <1>7. CASE Apply(a)
    BY <1>7, ApplyKeeps
  <1>8. CASE FinalSave(a) \/ FinalSaveFallback(a)
    BY <1>8, FinalKeeps
  <1>9. CASE Abandon(a)
    BY <1>9, AbandonKeeps
  <1> QED
    BY <1>0, <1>1, <1>2, <1>3, <1>4, <1>5, <1>6, <1>7, <1>8, <1>9 DEF Analyse

LEMMA EnrichKeeps ==
    ASSUME IInv, NEW w \in Workers, Enrich(w) \/ Disturb(w)
    PROVE  IInv'
  <1>1. CASE Mark(w)
    BY <1>1, MarkKeeps
  <1>2. CASE ReadReport(w)
    BY <1>2, ReadReportKeeps
  <1>3. CASE WriteNarrative(w)
    BY <1>3, WriteNarrativeKeeps
  <1>4. CASE AnnounceKit(w)
    BY <1>4, AnnounceKitKeeps
  <1>5. CASE EnqueueKit(w)
    BY <1>5, EnqueueKitKeeps
  <1>6. CASE MergeKit(w)
    BY <1>6, MergeKitKeeps
  <1>7. CASE Finish(w)
    BY <1>7, FinishKeeps
  <1>8. CASE WriteStatusOnly(w)
    BY <1>8, WriteStatusOnlyKeeps
  <1>9. CASE CancelNarrative(w)
    BY <1>9, CancelNarrativeKeeps
  <1>10. CASE AnnounceKitFails(w)
    BY <1>10, AnnounceKitFailsKeeps
  <1>11. CASE MergeKitFails(w)
    BY <1>11, MergeKitFailsKeeps
  <1>12. CASE Crash(w)
    BY <1>12, CrashKeeps
  <1> QED
    BY <1>1, <1>2, <1>3, <1>4, <1>5, <1>6, <1>7, <1>8, <1>9, <1>10, <1>11, <1>12 DEF Enrich, Disturb

LEMMA StutterKeeps ==
    ASSUME IInv, UNCHANGED vars
    PROVE  IInv'
  <1>1. TypeOK' /\ Pointers' /\ NotYet' /\ Stages'
    BY DEF IInv, vars, TypeOK, Pointers, NotYet, Stages
  <1>2. Lineage' <=> Lineage
    BY DEF vars, Lineage
  <1>3. (ByQueue' <=> ByQueue) /\ (BoundInQueue' <=> BoundInQueue)
    BY DEF vars, ByQueue, BoundInQueue, Shows
  <1>4. (NoOverride' <=> NoOverride) /\ (BoundToCurrent' <=> BoundToCurrent)
    BY DEF vars, NoOverride, BoundToCurrent, ByQueue
  <1>5. KitFollows' <=> KitFollows
    BY DEF vars, KitFollows, Attached
  <1> QED
    BY <1>1, <1>2, <1>3, <1>4, <1>5 DEF IInv, vars

(* The invariant the theorems below rest on. *)
THEOREM Inductive == Spec => []IInv
  <1>1. IInv /\ [Next]_vars => IInv'
    <2> SUFFICES ASSUME IInv, [Next]_vars PROVE IInv'
      OBVIOUS
    <2>1. CASE \E a \in Analyses : Analyse(a)
      BY <2>1, AnalyseKeeps
    <2>2. CASE LoadOverride
      BY <2>2, LoadOverrideKeeps
    <2>3. CASE WriteOverride
      BY <2>3, WriteOverrideKeeps
    <2>4. CASE \E w \in Workers : Enrich(w) \/ Disturb(w)
      BY <2>4, EnrichKeeps
    <2>5. CASE \E w \in Workers, j \in jobs : Lease(w, j)
      BY <2>5, LeaseKeeps
    <2>6. CASE \E j \in jobs : LeaseLost(j)
      BY <2>6, LeaseLostKeeps
    <2>7. CASE UNCHANGED vars
      BY <2>7, StutterKeeps
    <2> QED
      BY <2>1, <2>2, <2>3, <2>4, <2>5, <2>6, <2>7 DEF Next
  <1> QED
    BY InitInv, <1>1, PTL DEF Spec

(* The variables keep their types. *)
THEOREM Typing == Spec => []TypeOK
  <1>1. IInv => TypeOK
    BY DEF IInv
  <1> QED
    BY Inductive, <1>1, PTL

(* With any number of analyses, workers, overrides and faults a narrative  *)
(* shown as ready is of the analysis in the row, as long as every upsert   *)
(* was of the row it had read and every narrative could be stored.         *)
THEOREM NarrativeBelongs == Spec => []NarrativeOfAnalysis
  <1>1. IInv => NarrativeOfAnalysis
    BY DEF IInv, NarrativeOfAnalysis
  <1> QED
    BY Inductive, <1>1, PTL

(* The decision a row of the queue names is the last one of its analysis.  *)
THEOREM ProjectionFollows == Spec => []ProjectionCurrent
  <1>1. IInv => ProjectionCurrent
    BY RowTyped DEF IInv, BoundInQueue, Shows, ByQueue, Owners, ProjectionCurrent
  <1> QED
    BY Inductive, <1>1, PTL
-----------------------------------------------------------------------------
(* The ledger.  An analysis of a route that computes after its upsert finds *)
(* no decision of its generation but those of recruiters, or a report with  *)
(* the scores it has kept and the reanalysis decided over them.             *)
InOrder ==
    \A i, j \in DOMAIN decisions :
        i < j => /\ decisions[i].gen <= decisions[j].gen
                 /\ "HUMAN_OVERRIDE" \notin {decisions[i].kind, decisions[j].kind} =>
                      decisions[i].gen < decisions[j].gen
OverridesOnly(gen) ==
    \A i \in DOMAIN decisions :
        decisions[i].gen = gen => decisions[i].kind = "HUMAN_OVERRIDE"
Undecided ==
    \A a \in Analyses :
        work[a].pc \in Running /\ work[a].route # "queue" /\ work[a].gen = row.gen
            => \/ OverridesOnly(row.gen)
               \/ ~ Empty(row.report) /\ Recorded("REANALYSIS", row.gen)
Ledger == ~ tainted => InOrder /\ Undecided

(* A decision of the latest generation may be appended when it is an       *)
(* override or the first that is not one.                                  *)
LEMMA AppendInOrder ==
    ASSUME TypeOK, InOrder, NEW d \in Decisions, decisions' = Append(decisions, d),
           \A i \in DOMAIN decisions : decisions[i].gen <= d.gen,
           d.kind = "HUMAN_OVERRIDE" \/ OverridesOnly(d.gen)
    PROVE  InOrder'
  <1>1. SUFFICES ASSUME NEW i \in DOMAIN decisions', NEW j \in DOMAIN decisions', i < j
                 PROVE  /\ decisions'[i].gen <= decisions'[j].gen
                        /\ "HUMAN_OVERRIDE" \notin {decisions'[i].kind, decisions'[j].kind} =>
                             decisions'[i].gen < decisions'[j].gen
    BY DEF InOrder
  <1>2. i \in DOMAIN decisions /\ decisions'[i] = decisions[i]
    BY <1>1, Appended
  <1>3. (j \in DOMAIN decisions /\ decisions'[j] = decisions[j]) \/ decisions'[j] = d
    BY Appended
  <1>4. decisions[i].gen \in Nat /\ d.gen \in Nat
    BY <1>2, NumbersTyped DEF Decisions
  <1>5. CASE decisions'[j] = d
    <2>1. decisions[i].gen <= d.gen
      BY <1>2
    <2>2. d.kind = "HUMAN_OVERRIDE" \/ decisions[i].gen # d.gen
             \/ decisions[i].kind = "HUMAN_OVERRIDE"
      BY <1>2 DEF OverridesOnly
    <2> QED
      BY <1>2, <1>4, <1>5, <2>1, <2>2
  <1>6. CASE j \in DOMAIN decisions /\ decisions'[j] = decisions[j]
    BY <1>1, <1>2, <1>6 DEF InOrder
  <1> QED
    BY <1>3, <1>5, <1>6

(* Steps that write no decision and start no generation. *)
LEMMA QuietLedger ==
    ASSUME Ledger, UNCHANGED decisions, row'.gen = row.gen, ~ tainted' => ~ tainted,
           ~ tainted' /\ Empty(row'.report) => Empty(row.report),
           \A a \in Analyses : ~ tainted' /\ work'[a].pc \in Running =>
              /\ work[a].pc \in Running
              /\ work'[a].route = work[a].route /\ work'[a].gen = work[a].gen
    PROVE  Ledger'
  <1> SUFFICES ASSUME ~ tainted' PROVE InOrder' /\ Undecided'
    BY DEF Ledger
  <1>1. InOrder /\ Undecided
    BY DEF Ledger
  <1>2. InOrder'
    BY <1>1 DEF InOrder
  <1>3. OverridesOnly(row.gen)' <=> OverridesOnly(row.gen)
    BY DEF OverridesOnly
  <1>4. Recorded("REANALYSIS", row.gen)' <=> Recorded("REANALYSIS", row.gen)
    BY DEF Recorded
  <1>5. Empty(row.report)' => Empty(row.report)
    BY DEF Empty
  <1> QED
    BY <1>1, <1>2, <1>3, <1>4, <1>5 DEF Undecided

LEMMA SaveLedger ==
    ASSUME IInv, Ledger, NEW a \in Analyses, Save(a)
    PROVE  Ledger'
  <1> SUFFICES ASSUME ~ tainted' PROVE InOrder' /\ Undecided'
    BY DEF Ledger
  <1> DEFINE gen == work[a].seen.gen + 1
             kind == IF work[a].seen.gen = 0 THEN "INITIAL_ANALYSIS" ELSE "REANALYSIS"
             d == Made(Upserted(a), kind, a, Upserted(a).report.of)
  <1>1. /\ TypeOK /\ ~ tainted /\ row = work[a].seen /\ row.gen \in Nat
        /\ gen = row.gen + 1 /\ gen \in Nat
    <2>1. TypeOK
      BY DEF IInv
    <2>2. ~ tainted /\ row = work[a].seen
      BY DEF Save
    <2> QED
      BY <2>1, <2>2, RowTyped
  <1>2. InOrder /\ Lineage
    BY <1>1 DEF IInv, Ledger
  <1>3. \A i \in DOMAIN decisions : decisions[i].gen < gen
    BY <1>1, <1>2, NumbersTyped DEF Lineage
  <1>4. \A b \in Analyses : work[b].pc \in Running => work[b].gen < gen
    BY <1>1, <1>2, NumbersTyped DEF Lineage
  <1>5. Upserted(a).gen = gen
    BY DEF Upserted
  <1>6. ~ Recorded(kind, gen)
    BY <1>1, <1>3, NumbersTyped DEF Recorded
  <1>7. row'.gen = gen
    BY <1>5 DEF Save, Decide, Append1, Project
  <1>8. \A b \in Analyses : b # a => work'[b] = work[b]
    BY <1>1 DEF TypeOK, Save
  <1>9. work'[a].route = work[a].route
    BY <1>1 DEF TypeOK, Save
  <1>10. CASE ~ Empty(Upserted(a).report)
    <2>1. decisions' = Append(decisions, d) /\ row' = Project(Upserted(a), Len(decisions) + 1, d)
      BY <1>5, <1>6, <1>10 DEF Save, Decide, Append1, Made
    <2>2. /\ d \in Decisions /\ OverridesOnly(d.gen) /\ d.gen = gen /\ d.kind = kind
          /\ d.fit # None
      <3>1. d \in Decisions /\ d.gen = gen /\ d.kind = kind /\ d.fit # None
        BY <1>1, <1>5, UpsertTyped, Decided DEF Save
      <3> QED
        BY <1>1, <1>3, <3>1, NumbersTyped DEF OverridesOnly
    <2>3. \A i \in DOMAIN decisions : decisions[i].gen <= d.gen
      BY <1>1, <1>3, <2>2, NumbersTyped
    <2>4. InOrder'
      BY <1>1, <1>2, <2>1, <2>2, <2>3, AppendInOrder
    <2>5. ~ Empty(row.report)'
      BY <2>1, <2>2 DEF Project, Empty
    <2>6. work[a].route # "queue" => Recorded("REANALYSIS", row.gen)'
      <3>1. work[a].route # "queue" => kind = "REANALYSIS"
        BY <1>10 DEF Upserted, Preserves, Empty, Blank
      <3>2. Len(decisions) + 1 \in DOMAIN decisions' /\ decisions'[Len(decisions) + 1] = d
        BY <1>1, <2>1, <2>2, Appended
      <3> QED
        BY <1>7, <2>2, <3>1, <3>2 DEF Recorded
    <2>7. \A b \in Analyses : work'[b].pc \in Running /\ work'[b].route # "queue"
                                 /\ work'[b].gen = row'.gen => work[a].route # "queue"
      BY <1>1, <1>4, <1>7, <1>8, <1>9, NumbersTyped
    <2> QED
      BY <2>4, <2>5, <2>6, <2>7 DEF Undecided
  <1>11. CASE Empty(Upserted(a).report)
    <2>1. UNCHANGED decisions
      BY <1>11 DEF Save
    <2>2. OverridesOnly(row.gen)'
      BY <1>1, <1>3, <1>7, <2>1, NumbersTyped DEF OverridesOnly
    <2> QED
      BY <1>2, <2>1, <2>2 DEF InOrder, Undecided
  <1> QED
    BY <1>10, <1>11

LEMMA StoredLedger ==
    ASSUME IInv, Ledger, NEW a \in Analyses, NEW k \in {"INITIAL_ANALYSIS", "REANALYSIS"},
           NEW new \in Reports, new.shown = None, NEW parts \in Owners,
           StoresResult(a, new, k, parts), UNCHANGED tainted,
           \/ UNCHANGED decisions
           \/ /\ Decide(WithReport(Kept(new)), k, a, parts)
              /\ ~ tainted => OverridesOnly(row.gen) \/ Recorded(k, row.gen)
    PROVE  Ledger'
  <1> SUFFICES ASSUME ~ tainted' PROVE InOrder' /\ Undecided'
    BY DEF Ledger
  <1> DEFINE r == WithReport(Kept(new))
             d == Made(r, k, a, parts)
  <1>1. TypeOK /\ row.gen \in Nat /\ InOrder /\ Undecided /\ Lineage
    BY RowTyped DEF IInv, Ledger
  <1>2. r.gen = row.gen /\ r \in Rows
    <2>1. r \in Rows
      BY <1>1, KeptTyped, WithReportTyped
    <2> QED
      BY <2>1 DEF WithReport, Rewritten
  <1>3. row'.gen = row.gen
    BY <1>2 DEF StoresResult, Decide, Append1, Project
  <1>4. row.by = a
    BY <1>1 DEF Lineage, StoresResult
  <1>5. work'[a].pc = "done" /\ \A b \in Analyses : b # a => work'[b] = work[b]
    BY <1>1 DEF TypeOK, End, NotRunning, StoresResult
  <1>6. \A b \in Analyses : work'[b].pc \in Running => work'[b].gen # row'.gen
    BY <1>1, <1>3, <1>4, <1>5 DEF Lineage, Running
  <1>7. CASE UNCHANGED decisions
    BY <1>1, <1>6, <1>7 DEF InOrder, Undecided
  <1>8. CASE decisions' = Append(decisions, d) /\ OverridesOnly(row.gen)
    <2>1. d \in Decisions /\ d.gen = row.gen
      BY <1>1, <1>2, Decided
    <2>2. \A i \in DOMAIN decisions : decisions[i].gen <= d.gen
      BY <1>1, <2>1 DEF Lineage
    <2>3. InOrder'
      BY <1>1, <1>8, <2>1, <2>2, AppendInOrder
    <2> QED
      BY <1>6, <2>3 DEF Undecided
  <1> QED
    BY <1>2, <1>7, <1>8 DEF Decide, Append1, Made

(* What a direct analysis or a stream decides at its end has not been      *)
(* decided in its generation.                                              *)
LEMMA EndsLedger ==
    ASSUME IInv, Ledger, NEW a \in Analyses,
           Apply(a) \/ FinalSave(a) \/ FinalSaveFallback(a)
    PROVE  Ledger'
  <1>1. TypeOK /\ UNCHANGED tainted /\ work[a].pc \in Running /\ work[a].route # "queue"
    BY DEF IInv, Apply, FinalSave, FinalSaveFallback, At, Running
  <1>2. ~ tainted /\ row.gen = work[a].gen /\ Empty(row.report) => OverridesOnly(row.gen)
    BY <1>1 DEF Ledger, Undecided
  <1>3. ~ tainted /\ row.gen = work[a].gen
           => OverridesOnly(row.gen) \/ Recorded("REANALYSIS", row.gen)
    BY <1>1 DEF Ledger, Undecided
  <1>4. CASE row.gen # work[a].gen /\ End(a, "failed") /\ UNCHANGED <<row, decisions>>
    BY <1>1, <1>4, QuietLedger DEF End, NotRunning, TypeOK, Running
  <1>5. ASSUME NEW new \in Reports, new.shown = None, NEW parts \in Owners,
               StoresResult(a, new, "INITIAL_ANALYSIS", parts),
               Empty(row.report) \/ UNCHANGED decisions
        PROVE  Ledger'
    <2>1. CASE UNCHANGED decisions
      BY <1>1, <1>5, <2>1, StoredLedger
    <2>2. CASE ~ UNCHANGED decisions
      <3>1. Decide(WithReport(Kept(new)), "INITIAL_ANALYSIS", a, parts)
        BY <1>5, <2>2 DEF StoresResult
      <3>2. ~ tainted => OverridesOnly(row.gen)
        BY <1>2, <1>5, <2>2 DEF StoresResult
      <3> QED
        BY <1>1, <1>5, <3>1, <3>2, StoredLedger
    <2> QED
      BY <2>1, <2>2
  <1>6. CASE /\ StoresResult(a, Fresh(a), "REANALYSIS", a)
             /\ Decide(WithReport(Kept(Fresh(a))), "REANALYSIS", a, a)
    <2>1. row.gen = work[a].gen
      BY <1>6 DEF StoresResult
    <2> QED
      BY <1>1, <1>3, <1>6, <2>1, Results, StoredLedger
  <1>7. CASE Apply(a)
    BY <1>4, <1>5, <1>6, <1>7, ApplyStores, Results
  <1>8. CASE FinalSave(a) \/ FinalSaveFallback(a)
    <2>1. work[a].route = "stream" /\ (Final(a, Fresh(a), a) \/ Final(a, Fallback(a), None))
      BY <1>8 DEF FinalSave, FinalSaveFallback
    <2> QED
      BY <1>1, <1>4, <1>5, <2>1, FinalStores, Results
  <1> QED
    BY <1>7, <1>8

LEMMA OverrideLedger ==
    ASSUME IInv, Ledger, WriteOverride
    PROVE  Ledger'
  <1> SUFFICES ASSUME ~ tainted' PROVE InOrder' /\ Undecided'
    BY DEF Ledger
  <1> DEFINE old == decisions[form.current]
             d == Decision("HUMAN_OVERRIDE", form.gen, old.of, OrZero(old.parts),
                           OrZero(old.parts), old.parts)
  <1>1. /\ TypeOK /\ row = form /\ row.gen \in Nat /\ InOrder /\ Undecided /\ Lineage
    BY RowTyped DEF IInv, Ledger, WriteOverride
  <1>2. d \in Decisions
    <2>1. form.current \in DOMAIN decisions
      BY <1>1, NumbersTyped DEF IInv, Pointers, WriteOverride, TypeOK
    <2>2. old \in Decisions
      BY <1>1, <2>1 DEF TypeOK
    <2>3. old.parts \in Owners /\ old.of \in Owners
      BY <2>2 DEF Decisions
    <2>4. OrZero(old.parts) \in Scores
      BY <2>3 DEF OrZero, Scores
    <2> QED
      BY <1>1, <2>3, <2>4 DEF Decision, Decisions
  <1>3. decisions' = Append(decisions, d) /\ UNCHANGED work
    BY DEF WriteOverride, Append1
  <1>4. row'.gen = row.gen /\ ~ Empty(row'.report)
    <2>1. row' = Project(WithReport(form.report), Len(decisions) + 1, d)
      BY DEF WriteOverride, Append1
    <2>2. d.fit # None
      BY ScreeningAssumption DEF Decision, OrZero
    <2> QED
      BY <2>1, <2>2 DEF Project, WithReport, Rewritten, Empty
  <1>k. d.kind = "HUMAN_OVERRIDE"
    BY DEF Decision
  <1>5. InOrder'
    <2>1. d.gen = row.gen
      BY <1>1 DEF Decision
    <2> QED
      BY <1>1, <1>2, <1>3, <1>k, <2>1, AppendInOrder DEF Lineage
  <1>6. OverridesOnly(row.gen) => OverridesOnly(row.gen)'
    <2>1. \A i \in DOMAIN decisions' :
             (i \in DOMAIN decisions /\ decisions'[i] = decisions[i]) \/ decisions'[i] = d
      BY <1>1, <1>2, <1>3, Appended
    <2> QED
      BY <1>4, <1>k, <2>1 DEF OverridesOnly
  <1>7. Recorded("REANALYSIS", row.gen) => Recorded("REANALYSIS", row.gen)'
    <2>1. \A i \in DOMAIN decisions : i \in DOMAIN decisions' /\ decisions'[i] = decisions[i]
      BY <1>1, <1>2, <1>3, Appended
    <2> QED
      BY <1>4, <2>1 DEF Recorded
  <1> QED
    BY <1>1, <1>3, <1>4, <1>5, <1>6, <1>7 DEF Undecided

LEMMA AnalyseLedger ==
    ASSUME IInv, Ledger, NEW a \in Analyses, Analyse(a)
    PROVE  Ledger'
  <1>t. TypeOK
    BY DEF IInv
  <1>1. CASE \E route \in Routes : ReadRow(a, route)
    BY <1>1, <1>t, QuietLedger DEF ReadRow, TypeOK, Running
  <1>2. CASE Save(a)
    BY <1>2, SaveLedger
  <1>3. CASE SaveRefused(a)
    BY <1>3, <1>t, QuietLedger DEF SaveRefused, End, NotRunning, TypeOK, Running
  <1>4. CASE Refresh(a)
    BY <1>4, <1>t, QuietLedger DEF Refresh, At, TypeOK, Running
  <1>5. CASE EarlySave(a)
    <2>1. row'.gen = row.gen /\ (Empty(row'.report) => Empty(row.report))
      BY <1>5, ScreeningAssumption DEF EarlySave, WithReport, Rewritten, Fresh, Empty
    <2> QED
      BY <1>5, <1>t, <2>1, QuietLedger DEF EarlySave, At, To, End, NotRunning, TypeOK, Running
  <1>6. CASE EarlySaveFails(a)
    BY <1>6, <1>t, QuietLedger DEF EarlySaveFails, At, To, End, NotRunning, TypeOK, Running
  <1>7. CASE Spawn(a)
    BY <1>7, <1>t, QuietLedger DEF Spawn, At, To, End, NotRunning, TypeOK, Running
  <1>8. CASE Apply(a) \/ FinalSave(a) \/ FinalSaveFallback(a)
    BY <1>8, EndsLedger
  <1>10. CASE Abandon(a)
    BY <1>10, <1>t, QuietLedger DEF Abandon, End, NotRunning, TypeOK, Running
  <1> QED
    BY <1>1, <1>2, <1>3, <1>4, <1>5, <1>6, <1>7, <1>8, <1>10 DEF Analyse

(* A narrative is merged into the report it has read, or into the report of *)
(* its own analysis where that has no score.                                *)
LEMMA MergedScores ==
    ASSUME IInv, NEW w \in Workers, WriteNarrative(w), ~ tainted, Current(w)
    PROVE  /\ task[w].of = row.by /\ row.by \in Analyses
           /\ \/ Merged(w).fit = row.by /\ Merged(w).det = row.by
              \/ /\ Merged(w).fit = task[w].seen.fit /\ Merged(w).det = task[w].seen.det
                 /\ task[w].seen.fit \notin {None, Zero}
           /\ Merged(w).fit # None
  <1>1. task[w].of = row.by /\ task[w].of # None
    BY DEF IInv, Lineage, WriteNarrative, Holds, Current
  <1>2. row.by \in Analyses
    BY <1>1, RowTyped DEF IInv, Owners
  <1> QED
    BY <1>1, <1>2 DEF Merged, Fresh

LEMMA EnrichLedger ==
    ASSUME IInv, Ledger, NEW w \in Workers, Enrich(w) \/ Disturb(w)
    PROVE  Ledger'
  <1>1. UNCHANGED <<decisions, work>> /\ (~ tainted' => ~ tainted)
    BY DEF Enrich, Disturb, Mark, ReadReport, WriteNarrative, AnnounceKit, EnqueueKit,
           MergeKit, Finish, WriteStatusOnly, CancelNarrative, AnnounceKitFails,
           MergeKitFails, Crash
  <1>2. row'.gen = row.gen
    <2>1. CASE Enrich(w)
      BY <2>1 DEF Enrich, Mark, ReadReport, WriteNarrative, AnnounceKit, EnqueueKit,
                  MergeKit, Finish, WithStatus, WithKitStatus, Rewritten
    <2>2. CASE Disturb(w)
      BY <2>2 DEF Disturb, WriteStatusOnly, CancelNarrative, AnnounceKitFails,
                  MergeKitFails, Crash, WithStatus, Rewritten
    <2> QED
      BY <2>1, <2>2
  <1>3. ~ tainted' /\ Empty(row'.report) => Empty(row.report)
    <2>1. CASE WriteNarrative(w)
      BY <1>1, <2>1, MergedScores DEF WriteNarrative, Rewritten, Attachable, Empty
    <2>2. CASE MergeKit(w)
      BY <2>2 DEF IInv, TypeOK, Rows, Reports, MergeKit, Rewritten, Empty
    <2>3. CASE ~ WriteNarrative(w) /\ ~ MergeKit(w)
      <3>1. row'.report = row.report
        BY <2>3 DEF Enrich, Disturb, Mark, ReadReport, AnnounceKit, EnqueueKit, Finish,
                    WriteStatusOnly, CancelNarrative, AnnounceKitFails, MergeKitFails, Crash,
                    WithStatus, WithKitStatus, Rewritten
      <3> QED
        BY <3>1 DEF Empty
    <2> QED
      BY <2>1, <2>2, <2>3
  <1> QED
    BY <1>1, <1>2, <1>3, QuietLedger

LEMMA LedgerInductive == Spec => []Ledger
  <1>1. Init => Ledger
    BY DEF Init, Ledger, InOrder, Undecided, OverridesOnly
  <1>2. IInv /\ Ledger /\ [Next]_vars => Ledger'
    <2> SUFFICES ASSUME IInv, Ledger, [Next]_vars PROVE Ledger'
      OBVIOUS
    <2>1. CASE \E a \in Analyses : Analyse(a)
      BY <2>1, AnalyseLedger
    <2>2. CASE LoadOverride
      BY <2>2, QuietLedger DEF LoadOverride
    <2>3. CASE WriteOverride
      BY <2>3, OverrideLedger
    <2>4. CASE \E w \in Workers : Enrich(w) \/ Disturb(w)
      BY <2>4, EnrichLedger
    <2>5. CASE \E w \in Workers, j \in jobs : Lease(w, j)
      BY <2>5, QuietLedger DEF Lease
    <2>6. CASE \E j \in jobs : LeaseLost(j)
      BY <2>6, QuietLedger DEF LeaseLost
    <2>7. CASE UNCHANGED vars
      BY <2>7, QuietLedger DEF vars
    <2> QED
      BY <2>1, <2>2, <2>3, <2>4, <2>5, <2>6, <2>7 DEF Next
  <1> QED
    BY Inductive, <1>1, <1>2, PTL DEF Spec

(* However analyses of the three routes, their enrichment and overrides    *)
(* interleave, the ledger follows the generations of the row and each      *)
(* analysis is decided at most once, while every upsert is of the row it   *)
(* had read (execute_screening, apply_screening_pipeline_result and the    *)
(* final save of a stream share one row and one ledger).                   *)
THEOREM LedgerFollows == Spec => []LedgerInOrder
  <1>1. Ledger => LedgerInOrder
    BY DEF Ledger, InOrder, LedgerInOrder
  <1> QED
    BY LedgerInductive, <1>1, PTL
-----------------------------------------------------------------------------
(* The scores.  A score that stands for one somebody computed is of the    *)
(* input of the analysis in the row, in the report and in the copies that  *)
(* narratives of its generation are going to merge into.                   *)
Matches(report) ==
    report.fit \notin {None, Zero} =>
        /\ report.det \in Analyses
        /\ {Input[report.fit], Input[report.det]} = {Input[row.by]}
RowScores ==
    /\ ~ Empty(row.report) => row.report.fit # None /\ row.report.det # None /\ row.det # None
    /\ NoOverride => Matches(row.report)
SeenScores ==
    \A w \in Workers : task[w].pc = "write" /\ task[w].gen = row.gen =>
        /\ task[w].seen.fit # None => task[w].seen.det # None
        /\ NoOverride => Matches(task[w].seen)
ScoresKept == ~ tainted => RowScores /\ SeenScores

LEMMA SeenKept ==
    ASSUME SeenScores, row'.gen = row.gen, row'.by = row.by, NoOverride' => NoOverride,
           \A w \in Workers : task'[w].pc = "write" => task'[w] = task[w]
    PROVE  SeenScores'
  BY DEF SeenScores, Matches

(* Steps that write no decision, no score and no narrative. *)
LEMMA QuietScores ==
    ASSUME ScoresKept, UNCHANGED decisions, row'.gen = row.gen, row'.by = row.by,
           row'.report.of = row.report.of, row'.report.fit = row.report.fit,
           row'.report.det = row.report.det, row'.det = row.det, ~ tainted' => ~ tainted,
           \A w \in Workers : task'[w].pc = "write" => task'[w] = task[w]
    PROVE  ScoresKept'
  <1> SUFFICES ASSUME ~ tainted' PROVE RowScores' /\ SeenScores'
    BY DEF ScoresKept
  <1>1. RowScores /\ SeenScores
    BY DEF ScoresKept
  <1>2. NoOverride' <=> NoOverride
    BY DEF NoOverride
  <1>3. RowScores'
    BY <1>1, <1>2 DEF RowScores, Matches, Empty
  <1> QED
    BY <1>1, <1>2, <1>3, SeenKept

(* What the scores of the row make of a result that has both or none.      *)
LEMMA RestoredScores ==
    ASSUME RowScores, NoOverride, NEW a \in Analyses, Input[row.by] = Input[a], NEW new,
           (new.fit = a /\ new.det = a) \/ (new.fit = None /\ new.det = None)
    PROVE  LET s == Restored(new, row)
           IN  s.fit \notin {None, Zero} => s.det \in Analyses /\ {Input[s.fit], Input[s.det]} = {Input[a]}
  <1> DEFINE s == Restored(new, row)
  <1> SUFFICES ASSUME s.fit \notin {None, Zero}
               PROVE  s.det \in Analyses /\ {Input[s.fit], Input[s.det]} = {Input[a]}
    OBVIOUS
  <1>1. CASE row.report.fit # None
    <2>1. s.fit = row.report.fit /\ row.report.det # None
      BY <1>1 DEF Restored, RowScores, Empty
    <2>2. s.det = row.report.det
      BY <2>1 DEF Restored
    <2> QED
      BY <2>1, <2>2 DEF RowScores, Matches
  <1>2. CASE row.report.fit = None
    <2>1. s.fit = a /\ new.det = a
      BY <1>2 DEF Restored
    <2>2. row.report.det = None /\ a # None
      BY <1>2, ScreeningAssumption DEF RowScores, Empty
    <2>3. s.det = a
      BY <2>1, <2>2 DEF Restored
    <2> QED
      BY <2>1, <2>3
  <1> QED
    BY <1>1, <1>2

(* Deciding projects the scores of a report, or 0 where it has none. *)
LEMMA DecidedScores ==
    ASSUME TypeOK, NEW r \in Rows, NEW kind \in {"INITIAL_ANALYSIS", "REANALYSIS"},
           NEW a \in Analyses, NEW parts \in Owners,
           Decide(r, kind, a, parts), ~ Recorded(kind, r.gen)
    PROVE  /\ row'.gen = r.gen /\ row'.by = r.by
           /\ row'.report.fit = OrZero(r.report.fit) /\ row'.report.fit # None
           /\ row'.report.det = OrZero(r.report.det) /\ row'.report.det # None
           /\ row'.det # None
           /\ NoOverride' => NoOverride
  <1> DEFINE d == Made(r, kind, a, parts)
  <1>1. /\ d \in Decisions /\ d.fit # None /\ d.fit = OrZero(r.report.fit)
        /\ d.det # None /\ d.det = OrZero(r.report.det)
    BY Decided
  <1>2. decisions' = Append(decisions, d) /\ row' = Project(r, Len(decisions) + 1, d)
    BY DEF Decide, Append1, Made
  <1>3. NoOverride' => NoOverride
    BY <1>1, <1>2, Appended DEF NoOverride
  <1> QED
    BY <1>1, <1>2, <1>3 DEF Project

LEMMA SaveScores ==
    ASSUME IInv, ScoresKept, NEW a \in Analyses, Save(a)
    PROVE  ScoresKept'
  <1> SUFFICES ASSUME ~ tainted' PROVE RowScores' /\ SeenScores'
    BY DEF ScoresKept
  <1> DEFINE u == Upserted(a)
             kind == IF work[a].seen.gen = 0 THEN "INITIAL_ANALYSIS" ELSE "REANALYSIS"
             new == IF work[a].route = "queue" THEN Fresh(a) ELSE Blank
  <1>1. /\ TypeOK /\ ~ tainted /\ row = work[a].seen /\ row.gen \in Nat
        /\ u.gen = row.gen + 1 /\ u.by = a
    <2>1. TypeOK /\ ~ tainted /\ row = work[a].seen
      BY DEF IInv, Save
    <2>2. u.gen = work[a].seen.gen + 1 /\ u.by = a
      BY DEF Upserted
    <2> QED
      BY <2>1, <2>2, RowTyped
  <1>2. RowScores /\ Lineage
    BY <1>1 DEF IInv, ScoresKept
  <1>3. \A i \in DOMAIN decisions : decisions[i].gen # u.gen
    BY <1>1, <1>2, NumbersTyped DEF Lineage
  <1>4. \A w \in Workers : task[w].pc = "write" => task[w].gen # u.gen
    <2>1. \A w \in Workers : task[w].pc = "write" => task[w].gen <= row.gen
      BY <1>2 DEF Lineage
    <2>2. \A w \in Workers : task[w].gen \in Nat
      BY <1>1, NumbersTyped
    <2> QED
      BY <1>1, <2>1, <2>2
  <1>5. /\ (new.fit = a /\ new.det = a) \/ (new.fit = None /\ new.det = None)
        /\ u.report = IF Preserves(row, a) THEN Restored(new, row) ELSE new
    <2>1. u.report = IF Preserves(work[a].seen, a) THEN Restored(new, work[a].seen) ELSE new
      BY DEF Upserted
    <2>2. (new.fit = a /\ new.det = a) \/ (new.fit = None /\ new.det = None)
      BY DEF Fresh, Blank
    <2> QED
      BY <1>1, <2>1, <2>2
  <1>6. NoOverride /\ u.report.fit \notin {None, Zero} =>
           u.report.det \in Analyses /\ {Input[u.report.fit], Input[u.report.det]} = {Input[a]}
    <2>1. CASE Preserves(row, a)
      BY <1>2, <1>5, <2>1, RestoredScores DEF Preserves
    <2>2. CASE ~ Preserves(row, a)
      BY <1>5, <2>2
    <2> QED
      BY <2>1, <2>2
  <1>7. CASE Empty(u.report)
    <2>1. row' = u /\ UNCHANGED <<decisions, task>>
      BY <1>7 DEF Save
    <2>2. RowScores'
      BY <1>7, <2>1 DEF RowScores, Matches, Empty
    <2>3. SeenScores'
      BY <1>4, <2>1 DEF SeenScores
    <2> QED
      BY <2>2, <2>3
  <1>8. CASE ~ Empty(u.report)
    <2>1. Decide(u, kind, a, u.report.of) /\ UNCHANGED task
      BY <1>8 DEF Save
    <2>2. /\ row'.gen = u.gen /\ row'.by = a /\ (NoOverride' => NoOverride)
          /\ row'.report.fit = OrZero(u.report.fit) /\ row'.report.fit # None
          /\ row'.report.det = OrZero(u.report.det) /\ row'.report.det # None
          /\ row'.det # None
      <3>1. ~ Recorded(kind, u.gen)
        BY <1>3 DEF Recorded
      <3> QED
        BY <1>1, <2>1, <3>1, UpsertTyped, DecidedScores
    <2>3. NoOverride' => Matches(row.report)'
      BY <1>6, <2>2, ScreeningAssumption DEF Matches, OrZero
    <2>4. RowScores'
      BY <2>2, <2>3 DEF RowScores
    <2>5. SeenScores'
      BY <1>4, <2>1, <2>2 DEF SeenScores
    <2> QED
      BY <2>4, <2>5
  <1> QED
    BY <1>7, <1>8

(* The scores the row has are kept under a result that ends an analysis. *)
LEMMA StoredScores ==
    ASSUME IInv, ScoresKept, NEW a \in Analyses, NEW new \in Reports, new.of = a, new.shown = None,
           (new.fit = a /\ new.det = a) \/ (new.fit = None /\ new.det = None),
           NEW k \in {"INITIAL_ANALYSIS", "REANALYSIS"}, NEW parts \in Owners,
           StoresResult(a, new, k, parts), UNCHANGED <<task, tainted>>,
           ~ tainted => \/ new.fit = a
                        \/ ~ Empty(row.report)
                        \/ /\ Decide(WithReport(Kept(new)), k, a, parts)
                           /\ ~ Recorded(k, row.gen)
    PROVE  ScoresKept'
  <1> SUFFICES ASSUME ~ tainted' PROVE RowScores' /\ SeenScores'
    BY DEF ScoresKept
  <1> DEFINE s == Kept(new)
             r == WithReport(s)
  <1>1. TypeOK /\ ~ tainted /\ RowScores /\ SeenScores /\ row.by = a /\ a # None
    BY ScreeningAssumption DEF IInv, ScoresKept, Lineage, StoresResult
  <1>2. /\ s \in Reports /\ s.of = a /\ r \in Rows /\ r.gen = row.gen /\ r.by = row.by
        /\ r.report = s /\ r.det = s.det
    <2>1. s \in Reports /\ s.of = a /\ ~ Empty(s)
      BY <1>1, KeptTyped DEF Empty
    <2>2. r \in Rows
      BY <1>1, <2>1, WithReportTyped
    <2> QED
      BY <2>1, <2>2 DEF WithReport, Rewritten, Column
  <1>3. NoOverride /\ s.fit \notin {None, Zero} =>
           s.det \in Analyses /\ {Input[s.fit], Input[s.det]} = {Input[a]}
    <2>1. CASE row.det # None
      BY <1>1, <2>1, RestoredScores DEF Kept
    <2>2. CASE row.det = None
      BY <2>2 DEF Kept
    <2> QED
      BY <2>1, <2>2
  <1>4. new.fit = a \/ ~ Empty(row.report) => s.fit # None /\ s.det # None
    <2>1. CASE ~ Empty(row.report)
      BY <1>1, <2>1 DEF RowScores, Kept, Restored
    <2>2. CASE Empty(row.report) /\ new.fit = a
      BY <1>1, <2>2 DEF Kept, Restored, Empty
    <2> QED
      BY <2>1, <2>2
  <1>5. CASE row' = r /\ UNCHANGED decisions /\ (new.fit = a \/ ~ Empty(row.report))
    <2>1. NoOverride' <=> NoOverride
      BY <1>5 DEF NoOverride
    <2>2. RowScores'
      BY <1>1, <1>2, <1>3, <1>4, <1>5, <2>1 DEF RowScores, Matches
    <2> QED
      BY <1>1, <1>2, <1>5, <2>1, <2>2, SeenKept
  <1>6. CASE Decide(r, k, a, parts) /\ ~ Recorded(k, row.gen)
    <2>1. /\ row'.gen = row.gen /\ row'.by = row.by /\ (NoOverride' => NoOverride)
          /\ row'.report.fit = OrZero(s.fit) /\ row'.report.fit # None
          /\ row'.report.det = OrZero(s.det) /\ row'.report.det # None
          /\ row'.det # None
      BY <1>1, <1>2, <1>6, DecidedScores
    <2>2. NoOverride' => Matches(row.report)'
      BY <1>1, <1>3, <2>1, ScreeningAssumption DEF Matches, OrZero
    <2>3. RowScores'
      BY <2>1, <2>2 DEF RowScores
    <2> QED
      BY <1>1, <2>1, <2>3, SeenKept
  <1> QED
    BY <1>1, <1>2, <1>5, <1>6 DEF StoresResult, Decide

LEMMA EndsScores ==
    ASSUME IInv, Ledger, ScoresKept, NEW a \in Analyses,
           Apply(a) \/ FinalSave(a) \/ FinalSaveFallback(a)
    PROVE  ScoresKept'
  <1>1. TypeOK /\ UNCHANGED <<task, tainted>> /\ work[a].pc \in Running /\ work[a].route # "queue"
    BY DEF IInv, Apply, FinalSave, FinalSaveFallback, At, Running
  <1>2. CASE UNCHANGED <<row, decisions>>
    BY <1>1, <1>2, QuietScores
  <1>3. Fresh(a).fit = a /\ Fresh(a).det = a /\ Fallback(a).fit = None /\ Fallback(a).det = None
    BY DEF Fresh, Fallback
  <1>4. ASSUME NEW k \in {"INITIAL_ANALYSIS", "REANALYSIS"}, StoresResult(a, Fresh(a), k, a)
        PROVE  ScoresKept'
    <2>1. Fresh(a) \in Reports /\ Fresh(a).of = a /\ Fresh(a).shown = None /\ a \in Owners
      BY Results
    <2> QED
      BY <1>1, <1>3, <1>4, <2>1, StoredScores
  <1>5. CASE StoresResult(a, Fallback(a), "INITIAL_ANALYSIS", None) /\ ~ Empty(row.report)
    BY <1>1, <1>3, <1>5, Results, StoredScores
  <1>6. CASE /\ StoresResult(a, Fallback(a), "INITIAL_ANALYSIS", None) /\ Empty(row.report)
             /\ Decide(WithReport(Kept(Fallback(a))), "INITIAL_ANALYSIS", a, None)
    <2>1. ~ tainted => ~ Recorded("INITIAL_ANALYSIS", row.gen)
      BY <1>1, <1>6 DEF Ledger, Undecided, OverridesOnly, Recorded, StoresResult
    <2> QED
      BY <1>1, <1>3, <1>6, <2>1, Results, StoredScores
  <1>7. CASE Apply(a)
    BY <1>2, <1>4, <1>7, ApplyStores
  <1>8. CASE FinalSave(a) \/ FinalSaveFallback(a)
    <2>1. work[a].route = "stream" /\ (Final(a, Fresh(a), a) \/ Final(a, Fallback(a), None))
      BY <1>8 DEF FinalSave, FinalSaveFallback
    <2> QED
      BY <1>1, <1>2, <1>4, <1>5, <1>6, <2>1, FinalStores
  <1> QED
    BY <1>7, <1>8

LEMMA EarlySaveScores ==
    ASSUME IInv, ScoresKept, NEW a \in Analyses, EarlySave(a)
    PROVE  ScoresKept'
  <1> SUFFICES ASSUME ~ tainted' PROVE RowScores' /\ SeenScores'
    BY DEF ScoresKept
  <1>1. ~ tainted /\ RowScores /\ SeenScores /\ UNCHANGED <<decisions, task>>
    BY DEF ScoresKept, EarlySave
  <1>2. NoOverride' <=> NoOverride
    BY <1>1 DEF NoOverride
  <1>3. CASE row.gen = work[a].gen
    <2>1. row.by = a /\ a # None
      BY <1>1, <1>3, ScreeningAssumption DEF IInv, Lineage, EarlySave, At, Running
    <2>2. /\ row'.gen = row.gen /\ row'.by = row.by /\ row'.report = Fresh(a)
          /\ row'.det = a
      BY <1>3, <2>1 DEF EarlySave, WithReport, Rewritten, Column, Empty, Fresh
    <2>3. RowScores'
      BY <2>1, <2>2 DEF RowScores, Matches, Fresh
    <2> QED
      BY <1>1, <1>2, <2>2, <2>3, SeenKept
  <1>4. CASE row.gen # work[a].gen
    <2>1. UNCHANGED row
      BY <1>4 DEF EarlySave
    <2> QED
      BY <1>1, <1>2, <2>1, SeenKept DEF RowScores, Matches
  <1> QED
    BY <1>3, <1>4

LEMMA AnalyseScores ==
    ASSUME IInv, Ledger, ScoresKept, NEW a \in Analyses, Analyse(a)
    PROVE  ScoresKept'
  <1>1. CASE Save(a)
    BY <1>1, SaveScores
  <1>2. CASE Apply(a) \/ FinalSave(a) \/ FinalSaveFallback(a)
    BY <1>2, EndsScores
  <1>3. CASE EarlySave(a)
    BY <1>3, EarlySaveScores
  <1>4. CASE \/ \E route \in Routes : ReadRow(a, route)
             \/ SaveRefused(a) \/ Refresh(a) \/ EarlySaveFails(a) \/ Spawn(a) \/ Abandon(a)
    <2>1. UNCHANGED <<row, decisions, task>>
      BY <1>4 DEF ReadRow, SaveRefused, Refresh, EarlySaveFails, Spawn, Abandon
    <2>2. ~ tainted' => ~ tainted
      BY <1>4 DEF ReadRow, SaveRefused, Refresh, EarlySaveFails, Spawn, Abandon
    <2> QED
      BY <2>1, <2>2, QuietScores
  <1> QED
    BY <1>1, <1>2, <1>3, <1>4 DEF Analyse

LEMMA OverrideScores ==
    ASSUME IInv, ScoresKept, WriteOverride
    PROVE  ScoresKept'
  <1> SUFFICES ASSUME ~ tainted' PROVE RowScores' /\ SeenScores'
    BY DEF ScoresKept
  <1> DEFINE old == decisions[form.current]
             d == Decision("HUMAN_OVERRIDE", form.gen, old.of, OrZero(old.parts),
                           OrZero(old.parts), old.parts)
  <1>1. ~ tainted /\ SeenScores /\ TypeOK /\ UNCHANGED task
    BY DEF IInv, ScoresKept, WriteOverride
  <1>2. decisions' = Append(decisions, d) /\ row' = Project(WithReport(form.report), Len(decisions) + 1, d)
    BY DEF WriteOverride, Append1
  <1>3. OrZero(old.parts) # None
    BY ScreeningAssumption DEF OrZero
  <1>4. /\ row'.gen = row.gen /\ row'.by = row.by /\ row'.det # None
        /\ row'.report.fit # None /\ row'.report.det # None
    BY <1>2, <1>3 DEF Project, WithReport, Rewritten, Decision
  <1>5. ~ NoOverride'
    <2>1. /\ Append(decisions, d)[Len(decisions) + 1] = d
          /\ Len(decisions) + 1 \in DOMAIN Append(decisions, d)
      BY <1>1 DEF TypeOK
    <2> QED
      BY <1>2, <2>1 DEF NoOverride, Decision
  <1> QED
    BY <1>1, <1>4, <1>5, SeenKept DEF RowScores

LEMMA WriteNarrativeScores ==
    ASSUME IInv, ScoresKept, NEW w \in Workers, WriteNarrative(w)
    PROVE  ScoresKept'
  <1> SUFFICES ASSUME ~ tainted' PROVE RowScores' /\ SeenScores'
    BY DEF ScoresKept
  <1>1. ~ tainted /\ RowScores /\ SeenScores /\ UNCHANGED decisions /\ TypeOK
    BY DEF IInv, ScoresKept, WriteNarrative
  <1>2. NoOverride' <=> NoOverride
    BY <1>1 DEF NoOverride
  <1>3. \A v \in Workers : task'[v].pc = "write" => task'[v] = task[v]
    BY <1>1 DEF TypeOK, WriteNarrative, Goto
  <1>4. CASE Attachable(w)
    <2>1. /\ row'.gen = row.gen /\ row'.by = row.by /\ row'.report = Merged(w)
          /\ row'.det = IF row.det = None THEN Merged(w).det ELSE row.det
      BY <1>4 DEF WriteNarrative, Rewritten
    <2>2. /\ row.by \in Analyses /\ Merged(w).fit # None
          /\ \/ Merged(w).fit = row.by /\ Merged(w).det = row.by
             \/ /\ Merged(w).fit = task[w].seen.fit /\ Merged(w).det = task[w].seen.det
                /\ task[w].seen.fit \notin {None, Zero}
      BY <1>1, <1>4, MergedScores DEF Attachable
    <2>3. /\ task[w].seen.fit # None => task[w].seen.det # None
          /\ NoOverride => Matches(task[w].seen)
      BY <1>1, <1>4 DEF SeenScores, WriteNarrative, Holds, Attachable, Current
    <2>4. Merged(w).det # None
      BY <2>2, <2>3, ScreeningAssumption
    <2>5. NoOverride' => Matches(row.report)'
      BY <1>2, <2>1, <2>2, <2>3 DEF Matches
    <2>6. RowScores'
      BY <2>1, <2>2, <2>4, <2>5 DEF RowScores
    <2> QED
      BY <1>1, <1>2, <1>3, <2>1, <2>6, SeenKept
  <1>5. CASE ~ Attachable(w)
    <2>1. UNCHANGED row
      BY <1>5 DEF WriteNarrative
    <2> QED
      BY <1>1, <1>2, <1>3, <2>1, SeenKept DEF RowScores, Matches
  <1> QED
    BY <1>4, <1>5

LEMMA ReadReportScores ==
    ASSUME IInv, ScoresKept, NEW w \in Workers, ReadReport(w)
    PROVE  ScoresKept'
  <1> SUFFICES ASSUME ~ tainted' PROVE RowScores' /\ SeenScores'
    BY DEF ScoresKept
  <1>1. ~ tainted /\ RowScores /\ SeenScores /\ UNCHANGED <<row, decisions>> /\ TypeOK
    BY DEF IInv, ScoresKept, ReadReport
  <1>2. NoOverride' <=> NoOverride
    BY <1>1 DEF NoOverride
  <1>3. \A v \in Workers : v # w => task'[v] = task[v]
    BY <1>1 DEF TypeOK, ReadReport, Goto
  <1>4. task'[w].pc = "write" => task'[w].seen = row.report
    BY <1>1 DEF TypeOK, ReadReport, Goto
  <1>5. row.report.fit # None => row.report.det # None
    BY <1>1 DEF RowScores, Empty
  <1>6. RowScores'
    BY <1>1, <1>2 DEF RowScores, Matches
  <1>7. SeenScores'
    BY <1>1, <1>2, <1>3, <1>4, <1>5 DEF RowScores, SeenScores, Matches
  <1> QED
    BY <1>6, <1>7

LEMMA EnrichScores ==
    ASSUME IInv, ScoresKept, NEW w \in Workers, Enrich(w) \/ Disturb(w)
    PROVE  ScoresKept'
  <1>t. TypeOK
    BY DEF IInv
  <1>1. CASE WriteNarrative(w)
    BY <1>1, WriteNarrativeScores
  <1>2. CASE ReadReport(w)
    BY <1>2, ReadReportScores
  <1>3. CASE MergeKit(w)
    <2>1. /\ row'.gen = row.gen /\ row'.by = row.by /\ row'.det = row.det
          /\ row'.report.of = row.report.of /\ row'.report.fit = row.report.fit
          /\ row'.report.det = row.report.det
      BY <1>3, <1>t DEF TypeOK, Rows, Reports, MergeKit, Rewritten
    <2>2. \A v \in Workers : task'[v].pc = "write" => task'[v] = task[v]
      BY <1>3, <1>t DEF TypeOK, MergeKit, Goto
    <2> QED
      BY <1>3, <2>1, <2>2, QuietScores DEF MergeKit
  <1>4. CASE \/ Mark(w) \/ AnnounceKit(w) \/ EnqueueKit(w) \/ Finish(w) \/ Disturb(w)
    <2>1. /\ row'.gen = row.gen /\ row'.by = row.by /\ row'.det = row.det
          /\ row'.report = row.report /\ UNCHANGED decisions /\ (~ tainted' => ~ tainted)
      BY <1>4 DEF Disturb, Mark, AnnounceKit, EnqueueKit, Finish, WriteStatusOnly,
                  CancelNarrative, AnnounceKitFails, MergeKitFails, Crash,
                  WithStatus, WithKitStatus, Rewritten
    <2>2. \A v \in Workers : task'[v].pc = "write" => task'[v] = task[v]
      BY <1>4, <1>t DEF Disturb, Mark, AnnounceKit, EnqueueKit, Finish, WriteStatusOnly,
                  CancelNarrative, AnnounceKitFails, MergeKitFails, Crash,
                  TypeOK, Goto, Idle
    <2> QED
      BY <2>1, <2>2, QuietScores
  <1> QED
    BY <1>1, <1>2, <1>3, <1>4 DEF Enrich

LEMMA ScoresInductive == Spec => []ScoresKept
  <1>1. Init => ScoresKept
    BY DEF Init, ScoresKept, RowScores, SeenScores, Matches, Empty, Absent, Blank, Idle
  <1>2. IInv /\ Ledger /\ ScoresKept /\ [Next]_vars => ScoresKept'
    <2> SUFFICES ASSUME IInv, Ledger, ScoresKept, [Next]_vars PROVE ScoresKept'
      OBVIOUS
    <2>1. CASE \E a \in Analyses : Analyse(a)
      BY <2>1, AnalyseScores
    <2>2. CASE LoadOverride
      BY <2>2, QuietScores DEF LoadOverride
    <2>3. CASE WriteOverride
      BY <2>3, OverrideScores
    <2>4. CASE \E w \in Workers : Enrich(w) \/ Disturb(w)
      BY <2>4, EnrichScores
    <2>5. CASE \E w \in Workers, j \in jobs : Lease(w, j)
      BY <2>5, QuietScores DEF Lease, IInv, TypeOK
    <2>6. CASE \E j \in jobs : LeaseLost(j)
      BY <2>6, QuietScores DEF LeaseLost
    <2>7. CASE UNCHANGED vars
      BY <2>7, QuietScores DEF vars
    <2> QED
      BY <2>1, <2>2, <2>3, <2>4, <2>5, <2>6, <2>7 DEF Next
  <1> QED
    BY Inductive, LedgerInductive, <1>1, <1>2, PTL DEF Spec

(* Until a recruiter overrides, and while every upsert was of the row it   *)
(* had read, the report is of the analysis in the row and so are the       *)
(* narrative and the kit beside it; its scores are of that analysis or are *)
(* those kept from one of the same resume and job description              *)
(* (_upsert_screening_result and the saves that end an analysis restore    *)
(* them, a narrative is merged into a copy read before).                   *)
THEOREM ReportOfOne == Spec => []ReportOfOneAnalysis
  <1>1. IInv /\ ScoresKept => ReportOfOneAnalysis
    BY DEF IInv, Lineage, KitFollows, NoOverride, ScoresKept, RowScores, Matches,
           ReportOfOneAnalysis
  <1> QED
    BY Inductive, ScoresInductive, <1>1, PTL
=============================================================================
