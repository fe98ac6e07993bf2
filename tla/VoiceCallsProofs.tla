-------------------------- MODULE VoiceCallsProofs --------------------------
(***************************************************************************)
(* Proofs about VoiceCalls for any sessions, users, prefix relation and    *)
(* bounds.  The argument is local to one row: as long as no unlocked write *)
(* has crossed another one there, a generation above the row's is unused,  *)
(* the row's own generation is undialled while the row waits for a call or *)
(* has been given up, and whatever leaves "scheduled" either dials once or *)
(* takes a new generation.                                                 *)
(***************************************************************************)
EXTENDS VoiceCalls, TLAPS

Shape == /\ row = [s \in Sessions |-> row[s]]
         /\ request = [u \in Users |-> request[u]]
         /\ crossed \in [Sessions -> BOOLEAN]
         /\ stage \in [Sessions -> [Gens -> Stages]]
         /\ dialled \in [Sessions -> [Gens -> Nat]]
         /\ accepted \in [Sessions -> [Gens -> Nat]]
         /\ finishing \in [Sessions -> [Gens -> {"no", "claimed", "ended"}]]

(* What a handler was allowed to begin on what it read, it still holds. *)
RequestsHold ==
    \A u \in Users : request[u].pc = "write" => Allowed(request[u].op, request[u].seen)

(* A pass of the reconciliation marks only rows it read as scheduled. *)
PassHolds ==
    reconciler.on =>
      \A s \in reconciler.found \union reconciler.late :
        reconciler.seen[s].status = "scheduled"

(* Generations above the row's have never been used on row s. *)
Unused(s) == \A g \in Gens : g > row[s].gen =>
                 stage[s][g] = "idle" /\ dialled[s][g] = 0 /\ accepted[s][g] = 0

(* Nor has the row's own while it waits for its call or is given up. *)
Waiting(s) == \A g \in Gens :
                 g = row[s].gen
                 /\ row[s].status \in {"absent", "scheduled", "cancelled", "escalated"} =>
                   stage[s][g] = "idle" /\ dialled[s][g] = 0 /\ accepted[s][g] = 0

Once(s) == \A g \in Gens :
              /\ dialled[s][g] <= 1 /\ accepted[s][g] <= 1
              /\ stage[s][g] \in {"claimed", "checked"} => dialled[s][g] = 0
              /\ g = row[s].gen /\ row[s].event = 0 => accepted[s][g] = 0
              /\ finishing[s][g] # "no" => accepted[s][g] > 0

Assessed(s) == \/ row[s].outcome = 0
               \/ row[s].outcome = row[s].gen /\ row[s].status = "completed"

(* A call in progress or completed has reached a phone. *)
Placed(s) == /\ \A g \in Gens :
                   accepted[s][g] > 0 \/ stage[s][g] = "in_progress" => dialled[s][g] > 0
             /\ row[s].status \in {"in_progress", "completed"} =>
                  row[s].gen \in Gens /\ dialled[s][row[s].gen] > 0

Served(s) == \A g \in Gens :
                row[s].status = "ringing" /\ g = row[s].gen => stage[s][g] # "idle"

Attempt(s) == /\ row[s] \in Row
              /\ Unused(s) /\ Waiting(s) /\ Once(s) /\ Assessed(s) /\ Placed(s) /\ Served(s)

Rows == \A s \in Sessions : crossed[s] \/ Attempt(s)

IInv == Shape /\ RequestsHold /\ PassHolds /\ Rows

(* The steps of one call, as CallAttempts has them. *)
SameCalls(s) == dialled'[s] = dialled[s] /\ accepted'[s] = accepted[s]
SameRow(s) == row'[s].gen = row[s].gen /\ row'[s].outcome = row[s].outcome

Stays(s) == /\ SameCalls(s) /\ SameRow(s)
            /\ Phase(row'[s].status) = Phase(row[s].status)
            /\ Phase(row[s].status) # "open" => row'[s].status = row[s].status

Renews(s) == /\ SameCalls(s)
             /\ row'[s].gen = row[s].gen + 1 /\ row'[s].outcome = 0
             /\ row[s].status \notin {"completed", "escalated"}
             /\ row'[s].status \in {"scheduled", "cancelled", "escalated"}
             /\ row[s].status = "cancelled" => row'[s].status = "scheduled"

Places(s) == /\ row'[s] = row[s] /\ accepted'[s] = accepted[s]
             /\ \E g \in Gens :
                  /\ dialled[s][g] = 0
                  /\ g < row[s].gen \/ (g = row[s].gen /\ Phase(row[s].status) = "open")
                  /\ dialled'[s] = [dialled[s] EXCEPT ![g] = 1]

Hears(s) == /\ SameRow(s) /\ row'[s].status = row[s].status /\ dialled'[s] = dialled[s]
            /\ Phase(row[s].status) \in {"open", "completed"}
            /\ \E g \in Gens :
                 /\ g = row[s].gen /\ dialled[s][g] > 0 /\ accepted[s][g] = 0
                 /\ accepted'[s] = [accepted[s] EXCEPT ![g] = 1]

Completes(s) == /\ SameCalls(s) /\ row'[s].gen = row[s].gen
                /\ Phase(row[s].status) \in {"open", "completed"}
                /\ row'[s].status = "completed"
                /\ \E g \in Gens :
                     /\ g = row[s].gen /\ dialled[s][g] > 0
                     /\ \/ row'[s].outcome = row[s].outcome
                        \/ row'[s].outcome = g /\ accepted[s][g] > 0

Moves(s) == Stays(s) \/ Renews(s) \/ Places(s) \/ Hears(s) \/ Completes(s)

(* What every step does to a row it does not cross. *)
Good == \A s \in Sessions : ~crossed'[s] => Attempt(s)' /\ Moves(s)
-----------------------------------------------------------------------------
(* A flush over what was read is the new row. *)
LEMMA FlushSame ==
    ASSUME NEW r, NEW new \in Row
    PROVE  Flush(r, r, new) = new
<1>1. new = [status |-> new.status, gen |-> new.gen, event |-> new.event,
             timed |-> new.timed, retries |-> new.retries, outcome |-> new.outcome]
  BY DEF Row
<1>2. Flush(r, r, new) = [status |-> new.status, gen |-> new.gen, event |-> new.event,
             timed |-> new.timed, retries |-> new.retries, outcome |-> new.outcome]
  BY DEF Flush
<1> QED
  BY <1>1, <1>2

LEMMA InvalidateRow ==
    ASSUME NEW r \in Row, NEW st \in Statuses
    PROVE  /\ Invalidate(r, st) \in Row
           /\ Invalidate(r, st).gen = r.gen + 1
           /\ Invalidate(r, st).status = st
           /\ Invalidate(r, st).outcome = r.outcome
BY DEF Invalidate, Row

LEMMA RenewRow ==
    ASSUME NEW r \in Row, NEW timed \in BOOLEAN, NEW n \in Nat
    PROVE  /\ Renew(r, timed, n) \in Row
           /\ Renew(r, timed, n).gen = r.gen + 1
           /\ Renew(r, timed, n).status = "scheduled"
           /\ Renew(r, timed, n).outcome = 0
<1>1. "scheduled" \in Statuses
  BY DEF Statuses
<1> QED
  BY <1>1 DEF Renew, Row

LEMMA ScheduledRow ==
    ASSUME NEW r \in Row, NEW timed \in BOOLEAN
    PROVE  /\ Scheduled(r, timed) \in Row
           /\ Scheduled(r, timed).gen = r.gen
           /\ Scheduled(r, timed).status = "scheduled"
           /\ Scheduled(r, timed).event = r.event
           /\ Scheduled(r, timed).outcome = r.outcome
<1>1. "scheduled" \in Statuses
  BY DEF Statuses
<1> QED
  BY <1>1 DEF Scheduled, Row

LEMMA StatusRow ==
    ASSUME NEW r \in Row, NEW st \in Statuses
    PROVE  /\ WithStatus(r, st) \in Row
           /\ WithStatus(r, st).gen = r.gen
           /\ WithStatus(r, st).event = r.event
           /\ WithStatus(r, st).status = st
           /\ WithStatus(r, st).outcome = r.outcome
BY DEF WithStatus, Row

LEMMA GenNat == ASSUME NEW s \in Sessions, Attempt(s) PROVE row[s].gen \in Nat
BY DEF Attempt, Row

(* A row left alone, whatever happens to the others. *)
LEMMA Frame ==
    ASSUME NEW s \in Sessions, Attempt(s),
           row'[s] = row[s], stage'[s] = stage[s], dialled'[s] = dialled[s],
           accepted'[s] = accepted[s], finishing'[s] = finishing[s]
    PROVE  Attempt(s)' /\ Moves(s)
BY DEF Attempt, Unused, Waiting, Once, Assessed, Placed, Served, Moves, Stays, SameCalls, SameRow, Phase

(* A fresh generation, when the outcome of the old one is gone. *)
LEMMA NewGeneration ==
    ASSUME NEW s \in Sessions, Shape, Attempt(s),
           row'[s] \in Row, row'[s].gen = row[s].gen + 1,
           row'[s].status \in {"scheduled", "cancelled", "escalated"},
           row'[s].outcome = 0,
           stage'[s] = stage[s], dialled'[s] = dialled[s],
           accepted'[s] = accepted[s], finishing'[s] = finishing[s]
    PROVE  Attempt(s)'
<1>1. row[s].gen \in Nat
  BY GenNat
<1>2. Unused(s)'
  BY <1>1 DEF Attempt, Unused, Gens
<1>3. Waiting(s)'
  BY <1>1 DEF Attempt, Unused, Waiting, Gens
<1>4. Once(s)'
  BY <1>1 DEF Attempt, Unused, Once, Gens
<1> QED
  BY <1>2, <1>3, <1>4 DEF Attempt, Assessed, Placed, Served

(* A write that keeps the generation and moves the status among those of   *)
(* an attempt under way. *)
LEMMA SameGeneration ==
    ASSUME NEW s \in Sessions, Shape, Attempt(s),
           row'[s] \in Row, row'[s].gen = row[s].gen,
           row'[s].event = row[s].event, row'[s].outcome = row[s].outcome,
           \/ row'[s].status = row[s].status
           \/ /\ row'[s].status \in {"in_progress", "failed", "pending", "completed"}
              /\ row[s].status = "completed" => row'[s].status = "completed"
              /\ row'[s].status \in {"in_progress", "completed"} =>
                   row[s].gen \in Gens /\ dialled[s][row[s].gen] > 0,
           stage'[s] = stage[s], dialled'[s] = dialled[s],
           accepted'[s] = accepted[s],
           \A g \in Gens : finishing'[s][g] # "no" => finishing[s][g] # "no"
    PROVE  Attempt(s)'
<1>1. Unused(s)'
  BY DEF Attempt, Unused
<1>2. Waiting(s)'
  BY DEF Attempt, Waiting
<1>3. Once(s)'
  BY DEF Attempt, Once
<1>4. Assessed(s)'
  BY DEF Attempt, Assessed
<1>5. Served(s)'
  BY DEF Attempt, Served
<1>6. Placed(s)'
  BY DEF Attempt, Placed
<1> QED
  BY <1>1, <1>2, <1>3, <1>4, <1>5, <1>6 DEF Attempt

(* One row written, the others and their threads left alone. *)
LEMMA OneRow ==
    ASSUME Shape, Rows, NEW s \in Sessions, NEW new,
           row' = [row EXCEPT ![s] = new],
           \A t \in Sessions \ {s} :
             /\ stage'[t] = stage[t] /\ dialled'[t] = dialled[t]
             /\ accepted'[t] = accepted[t] /\ finishing'[t] = finishing[t]
             /\ crossed'[t] = crossed[t],
           crossed[s] => crossed'[s],
           (~crossed'[s] /\ Attempt(s) /\ row'[s] = new) => Attempt(s)' /\ Moves(s)
    PROVE  Good
<1> SUFFICES ASSUME NEW t \in Sessions, ~crossed'[t] PROVE Attempt(t)' /\ Moves(t)
  BY DEF Good
<1>1. CASE t = s
  BY <1>1 DEF Rows, Shape
<1>2. CASE t # s
  <2>1. row'[t] = row[t] /\ Attempt(t)
    BY <1>2 DEF Rows, Shape
  <2> QED
    BY <1>2, <2>1, Frame
<1> QED
  BY <1>1, <1>2

(* No row written, one session's threads moved. *)
LEMMA NoRowWritten ==
    ASSUME Shape, Rows, row' = row, crossed' = crossed,
           UNCHANGED <<stage, dialled, accepted, finishing>>
    PROVE  Good
BY Frame DEF Good, Rows

(* The same when one session's threads have moved. *)
LEMMA ThreadsOfOne ==
    ASSUME Shape, Rows, NEW s \in Sessions, row' = row, crossed' = crossed,
           \A t \in Sessions \ {s} :
             /\ stage'[t] = stage[t] /\ dialled'[t] = dialled[t]
             /\ accepted'[t] = accepted[t] /\ finishing'[t] = finishing[t],
           Attempt(s) => Attempt(s)' /\ Moves(s)
    PROVE  Good
<1> SUFFICES ASSUME NEW t \in Sessions, ~crossed'[t] PROVE Attempt(t)' /\ Moves(t)
  BY DEF Good
<1>1. Attempt(t)
  BY DEF Rows
<1> QED
  BY <1>1, Frame

(* An unlocked write of a new generation. *)
LEMMA UncrossedWrite ==
    ASSUME IInv, NEW s \in Sessions, NEW seen, NEW new,
           row' = [row EXCEPT ![s] = Flush(row[s], seen, new)],
           \A t \in Sessions \ {s} : crossed'[t] = crossed[t],
           crossed[s] \/ row[s] # seen => crossed'[s],
           row[s] = seen /\ Attempt(s) /\ ~crossed'[s] =>
             /\ new \in Row /\ new.gen = seen.gen + 1
             /\ new.status \in {"scheduled", "cancelled", "escalated"} /\ new.outcome = 0
             /\ seen.status \in {"completed", "escalated", "cancelled"} =>
                  seen.status = "cancelled" /\ new.status = "scheduled",
           UNCHANGED <<stage, dialled, accepted, finishing>>
    PROVE  Good
<1>1. ASSUME ~crossed'[s], Attempt(s), row'[s] = Flush(row[s], seen, new)
      PROVE  Attempt(s)' /\ Moves(s)
  <2>1. row[s] = seen
    BY <1>1
  <2>2. row'[s] = new
    BY <1>1, <2>1, FlushSame
  <2>3. Attempt(s)'
    BY <1>1, <2>1, <2>2, NewGeneration DEF IInv
  <2> QED
    BY <1>1, <2>1, <2>2, <2>3 DEF Moves, Renews, SameCalls
<1> QED
  BY <1>1, OneRow DEF IInv
-----------------------------------------------------------------------------
(* The steps, one row at a time *)

(* A function over the sessions is not changed at what is not one. *)
LEMMA NoSession ==
    ASSUME Shape, NEW s, s \notin Sessions, NEW x, NEW y
    PROVE  [row EXCEPT ![s] = x] = row /\ [crossed EXCEPT ![s] = y] = crossed
BY DEF Shape

LEMMA UnlockedGood ==
    ASSUME IInv, NEW s, NEW seen, NEW new, UnlockedWrite(s, seen, new),
           row[s] = seen /\ Attempt(s) /\ s \in Sessions =>
             /\ new \in Row /\ new.gen = seen.gen + 1
             /\ new.status \in {"scheduled", "cancelled", "escalated"} /\ new.outcome = 0
             /\ seen.status \in {"completed", "escalated", "cancelled"} =>
                  seen.status = "cancelled" /\ new.status = "scheduled",
           UNCHANGED <<stage, dialled, accepted, finishing>>
    PROVE  Good
<1>1. CASE s \in Sessions
  <2>1. /\ row' = [row EXCEPT ![s] = Flush(row[s], seen, new)]
        /\ \A t \in Sessions \ {s} : crossed'[t] = crossed[t]
        /\ crossed[s] \/ row[s] # seen => crossed'[s]
    BY <1>1 DEF UnlockedWrite, IInv, Shape
  <2> QED
    BY <1>1, <2>1, UncrossedWrite
<1>2. CASE s \notin Sessions
  <2>1. row' = row /\ crossed' = crossed
    BY <1>2, NoSession DEF UnlockedWrite, IInv
  <2> QED
    BY <2>1, NoRowWritten DEF IInv
<1> QED
  BY <1>1, <1>2

(* Arming touches the status only of a row that is scheduled already. *)
LEMMA ArmGood ==
    ASSUME IInv, NEW u \in Users, NEW s, s = request[u].s, Arm(u) \/ ArmFails(u)
    PROVE  Good
<1>1. UNCHANGED <<stage, dialled, accepted, finishing>>
  BY DEF Arm, ArmFails
<1>2. CASE UNCHANGED <<row, crossed>>
  BY <1>1, <1>2, NoRowWritten DEF IInv
<1>3. CASE ArmLocked(s, request[u].gen)
  <2>1. CASE s \in Sessions
    <3>1. ASSUME ~crossed'[s], Attempt(s), row'[s] = Scheduled(row[s], TRUE)
          PROVE  Attempt(s)' /\ Moves(s)
      <4>1. row[s].status = "scheduled"
        BY <1>3, <2>1, <3>1 DEF ArmLocked, IInv, Shape
      <4>2. /\ row'[s] \in Row /\ row'[s].gen = row[s].gen
            /\ row'[s].event = row[s].event /\ row'[s].outcome = row[s].outcome
            /\ row'[s].status = "scheduled"
        <5>1. row[s] \in Row /\ TRUE \in BOOLEAN
          BY <3>1 DEF Attempt
        <5>2. LET new == Scheduled(row[s], TRUE) IN
              /\ new \in Row /\ new.gen = row[s].gen
              /\ new.event = row[s].event /\ new.outcome = row[s].outcome
              /\ new.status = "scheduled"
          BY <5>1, ScheduledRow
        <5> QED
          BY <3>1, <5>2
      <4>3. Unused(s)' /\ Waiting(s)' /\ Once(s)'
        BY ZenonT(60), <1>1, <3>1, <4>1, <4>2 DEF Attempt, Unused, Waiting, Once
      <4>4. Assessed(s)' /\ Placed(s)' /\ Served(s)'
        BY <1>1, <3>1, <4>1, <4>2 DEF Attempt, Assessed, Placed, Served
      <4> QED
        BY <1>1, <4>1, <4>2, <4>3, <4>4 DEF Attempt, Moves, Stays, SameCalls, SameRow, Phase
    <3>2. /\ row' = [row EXCEPT ![s] = Scheduled(row[s], TRUE)]
          /\ \A t \in Sessions \ {s} : crossed'[t] = crossed[t]
          /\ crossed[s] => crossed'[s]
      BY <1>3, <2>1 DEF ArmLocked, IInv, Shape
    <3> QED
      BY <1>1, <2>1, <3>1, <3>2, OneRow DEF IInv
  <2>2. CASE s \notin Sessions
    <3>1. row' = row /\ crossed' = crossed
      BY <1>3, <2>2, NoSession DEF ArmLocked, IInv
    <3> QED
      BY <1>1, <3>1, NoRowWritten DEF IInv
  <2> QED
    BY <2>1, <2>2
<1> QED
  BY <1>2, <1>3 DEF Arm, ArmFails

LEMMA UserGood ==
    ASSUME IInv, NEW u \in Users, NEW r, r = request[u], UserStep(u)
    PROVE  Good
<1>1. CASE \E s \in Sessions, timed \in BOOLEAN : Create(u, s, timed) \/ CreateKeyed(u, s, timed)
  <2>1. PICK s \in Sessions, timed \in BOOLEAN :
          Create(u, s, timed) \/ CreateKeyed(u, s, timed)
    BY <1>1
  <2>2. /\ row[s].status = "absent"
        /\ row' = [row EXCEPT ![s] = Scheduled(row[s], timed)]
        /\ UNCHANGED <<stage, dialled, accepted, finishing, crossed>>
    BY <2>1 DEF Create, CreateKeyed
  <2>3. ASSUME Attempt(s), row'[s] = Scheduled(row[s], timed)
        PROVE  Attempt(s)' /\ Moves(s)
    <3>1. /\ row'[s] \in Row /\ row'[s].gen = row[s].gen
          /\ row'[s].event = row[s].event /\ row'[s].outcome = row[s].outcome
          /\ row'[s].status = "scheduled"
      BY <2>3, ScheduledRow DEF Attempt
    <3>2. Unused(s)' /\ Waiting(s)' /\ Once(s)'
      BY <2>2, <2>3, <3>1 DEF Attempt, Unused, Waiting, Once
    <3>3. Assessed(s)' /\ Placed(s)' /\ Served(s)'
      BY <2>2, <2>3, <3>1 DEF Attempt, Assessed, Placed, Served
    <3> QED
      BY <2>2, <3>1, <3>2, <3>3 DEF Attempt, Moves, Stays, SameCalls, SameRow, Phase
  <2> QED
    BY <2>2, <2>3, OneRow DEF IInv
<1>2. CASE \E s \in Sessions : RepeatKeyed(u, s) \/ \E op \in Ops : Load(u, op, s)
  BY <1>2, NoRowWritten DEF RepeatKeyed, Load, IInv
<1>3. CASE WriteCancel(u)
  <2>1. /\ r.pc = "write" /\ Allowed(r.op, r.seen) /\ r.op \in {"cancel", "deny"}
        /\ UnlockedWrite(r.s, r.seen, Invalidate(r.seen, "cancelled"))
        /\ UNCHANGED <<stage, dialled, accepted, finishing>>
    BY <1>3 DEF WriteCancel, IInv, RequestsHold
  <2>2. r.seen.status \notin Terminal \union {"absent"}
    BY <2>1 DEF Allowed
  <2>3. ASSUME row[r.s] = r.seen, Attempt(r.s), r.s \in Sessions
        PROVE  LET new == Invalidate(r.seen, "cancelled") IN
               /\ new \in Row /\ new.gen = r.seen.gen + 1
               /\ new.status \in {"scheduled", "cancelled", "escalated"} /\ new.outcome = 0
               /\ r.seen.status \in {"completed", "escalated", "cancelled"} =>
                    r.seen.status = "cancelled" /\ new.status = "scheduled"
    <3>1. r.seen \in Row /\ "cancelled" \in Statuses /\ r.seen.outcome = 0
      BY <2>2, <2>3 DEF Attempt, Assessed, Terminal, Statuses
    <3> QED
      BY <2>2, <3>1, InvalidateRow DEF Terminal
  <2> QED
    BY <2>1, <2>3, UnlockedGood
<1>4. CASE \E timed \in BOOLEAN : WriteReschedule(u, timed)
  <2>1. PICK timed \in BOOLEAN : WriteReschedule(u, timed)
    BY <1>4
  <2>2. /\ r.pc = "write" /\ Allowed(r.op, r.seen) /\ r.op = "reschedule"
        /\ UnlockedWrite(r.s, r.seen, Renew(r.seen, timed, r.seen.retries))
        /\ UNCHANGED <<stage, dialled, accepted, finishing>>
    BY <2>1 DEF WriteReschedule, IInv, RequestsHold
  <2>3. r.seen.status \notin {"completed", "escalated"}
    BY <2>2 DEF Allowed
  <2>4. ASSUME row[r.s] = r.seen, Attempt(r.s), r.s \in Sessions
        PROVE  LET new == Renew(r.seen, timed, r.seen.retries) IN
               /\ new \in Row /\ new.gen = r.seen.gen + 1
               /\ new.status \in {"scheduled", "cancelled", "escalated"} /\ new.outcome = 0
               /\ r.seen.status \in {"completed", "escalated", "cancelled"} =>
                    r.seen.status = "cancelled" /\ new.status = "scheduled"
    <3>1. r.seen \in Row /\ r.seen.retries \in Nat
      BY <2>4 DEF Attempt, Row
    <3> QED
      BY <2>3, <3>1, RenewRow
  <2> QED
    BY <2>2, <2>4, UnlockedGood
<1>5. CASE WriteRetry(u)
  <2>1. /\ r.pc = "write" /\ Allowed(r.op, r.seen) /\ r.op = "retry"
        /\ UnlockedWrite(r.s, r.seen, Renew(r.seen, r.seen.timed, r.seen.retries + 1))
        /\ UNCHANGED <<stage, dialled, accepted, finishing>>
    BY <1>5 DEF WriteRetry, IInv, RequestsHold
  <2>2. r.seen.status = "failed"
    BY <2>1 DEF Allowed
  <2>3. ASSUME row[r.s] = r.seen, Attempt(r.s), r.s \in Sessions
        PROVE  LET new == Renew(r.seen, r.seen.timed, r.seen.retries + 1) IN
               /\ new \in Row /\ new.gen = r.seen.gen + 1
               /\ new.status \in {"scheduled", "cancelled", "escalated"} /\ new.outcome = 0
               /\ r.seen.status \in {"completed", "escalated", "cancelled"} =>
                    r.seen.status = "cancelled" /\ new.status = "scheduled"
    <3>1. r.seen \in Row /\ r.seen.timed \in BOOLEAN /\ r.seen.retries + 1 \in Nat
      BY <2>3 DEF Attempt, Row
    <3> QED
      BY <2>2, <3>1, RenewRow
  <2> QED
    BY <2>1, <2>3, UnlockedGood
<1>6. CASE WriteHealed(u)
  <2>1. /\ r.pc = "write" /\ Allowed(r.op, r.seen) /\ r.op = "list"
        /\ UnlockedWrite(r.s, r.seen, WithStatus(r.seen, "completed"))
        /\ UNCHANGED <<stage, dialled, accepted, finishing>>
    BY <1>6 DEF WriteHealed, IInv, RequestsHold
  <2>2. r.seen.status = "in_progress"
    BY <2>1 DEF Allowed
  <2>3. CASE r.s \in Sessions
    <3>1. ASSUME ~crossed'[r.s], Attempt(r.s),
                 row'[r.s] = Flush(row[r.s], r.seen, WithStatus(r.seen, "completed"))
          PROVE  Attempt(r.s)' /\ Moves(r.s)
      <4>1. row[r.s] = r.seen /\ r.seen \in Row /\ "completed" \in Statuses
        BY <2>1, <2>3, <3>1 DEF UnlockedWrite, Attempt, IInv, Shape, Statuses, Terminal
      <4>2. WithStatus(r.seen, "completed") \in Row
        BY <4>1, StatusRow
      <4>3. row'[r.s] = WithStatus(r.seen, "completed")
        BY <3>1, <4>1, <4>2, FlushSame
      <4>4. /\ row'[r.s] \in Row /\ row'[r.s].gen = row[r.s].gen
            /\ row'[r.s].event = row[r.s].event /\ row'[r.s].outcome = row[r.s].outcome
            /\ row'[r.s].status = "completed"
        BY <4>1, <4>3, StatusRow
      <4>5. Attempt(r.s)'
        BY <2>1, <2>2, <2>3, <3>1, <4>1, <4>4, SameGeneration DEF IInv, Attempt, Placed
      <4> QED
        BY <2>1, <2>2, <3>1, <4>1, <4>4, <4>5
        DEF Attempt, Placed, Moves, Completes, SameCalls, Phase
    <3>2. /\ row' = [row EXCEPT ![r.s] = Flush(row[r.s], r.seen, WithStatus(r.seen, "completed"))]
          /\ \A t \in Sessions \ {r.s} : crossed'[t] = crossed[t]
          /\ crossed[r.s] => crossed'[r.s]
      BY <2>1, <2>3 DEF UnlockedWrite, IInv, Shape
    <3> QED
      BY <2>1, <2>3, <3>1, <3>2, OneRow DEF IInv
  <2>4. CASE r.s \notin Sessions
    <3>1. row' = row /\ crossed' = crossed
      BY <2>1, <2>4, NoSession DEF UnlockedWrite, IInv
    <3> QED
      BY <2>1, <3>1, NoRowWritten DEF IInv
  <2> QED
    BY <2>3, <2>4
<1>7. CASE Reload(u)
  BY <1>7, NoRowWritten DEF Reload, IInv
<1>8. CASE Arm(u) \/ ArmFails(u)
  BY <1>8, ArmGood
<1> QED
  BY <1>1, <1>2, <1>3, <1>4, <1>5, <1>6, <1>7, <1>8 DEF UserStep

(* A dispatcher thread: claim, last look, provider request, verdict. *)
LEMMA DispatchGood ==
    ASSUME IInv, NEW s \in Sessions, NEW g \in Gens, DispatchStep(s, g)
    PROVE  Good
<1>1. CASE Fire(s, g)
  <2>1. CASE UNCHANGED <<row, stage>>
    BY <1>1, <2>1, NoRowWritten DEF Fire, IInv
  <2>2. CASE /\ row[s].gen = g /\ row[s].status = "scheduled"
             /\ row' = [row EXCEPT ![s] = WithStatus(row[s], "ringing")]
             /\ stage' = [stage EXCEPT ![s][g] = "claimed"]
    <3>1. ASSUME Attempt(s), row'[s] = WithStatus(row[s], "ringing")
          PROVE  Attempt(s)' /\ Moves(s)
      <4>1. row[s] \in Row /\ "ringing" \in Statuses
        BY <3>1 DEF Attempt, Statuses
      <4>2. /\ row'[s] \in Row /\ row'[s].gen = row[s].gen
            /\ row'[s].event = row[s].event /\ row'[s].outcome = row[s].outcome
            /\ row'[s].status = "ringing"
        BY <3>1, <4>1, StatusRow
      <4>3. /\ UNCHANGED <<dialled, accepted, finishing>>
            /\ \A h \in Gens : stage'[s][h] = IF h = g THEN "claimed" ELSE stage[s][h]
        BY <1>1, <2>2 DEF Fire, IInv, Shape
      <4>4. Unused(s)' /\ Waiting(s)'
        BY <2>2, <3>1, <4>2, <4>3 DEF Attempt, Unused, Waiting, Gens
      <4>5. Once(s)'
        BY <2>2, <3>1, <4>2, <4>3 DEF Attempt, Waiting, Once
      <4>6. Assessed(s)' /\ Placed(s)' /\ Served(s)'
        BY <2>2, <3>1, <4>2, <4>3 DEF Attempt, Assessed, Placed, Served
      <4> QED
        BY <2>2, <4>2, <4>3, <4>4, <4>5, <4>6 DEF Attempt, Moves, Stays, SameCalls, SameRow, Phase
    <3>2. /\ \A t \in Sessions \ {s} : stage'[t] = stage[t]
          /\ UNCHANGED <<dialled, accepted, finishing, crossed>>
      BY <1>1, <2>2 DEF Fire, IInv, Shape
    <3> QED
      BY <2>2, <3>1, <3>2, OneRow DEF IInv
  <2> QED
    BY <1>1, <2>1, <2>2 DEF Fire
<1>2. CASE Misfire(s, g)
  BY <1>2, NoRowWritten DEF Misfire, IInv
<1>3. CASE \E to \in {"idle", "checked"} :
             /\ Step(s, g, "claimed", to)
             /\ to = "idle" => row[s].gen # g \/ row[s].status # "ringing"
             /\ UNCHANGED <<row, dialled, accepted, finishing, crossed>>
  <2>1. PICK to \in {"idle", "checked"} :
             /\ Step(s, g, "claimed", to)
             /\ to = "idle" => row[s].gen # g \/ row[s].status # "ringing"
             /\ UNCHANGED <<row, dialled, accepted, finishing, crossed>>
    BY <1>3
  <2>2. \A h \in Gens : stage'[s][h] = IF h = g THEN to ELSE stage[s][h]
    BY <2>1 DEF Step, IInv, Shape
  <2>3. ASSUME Attempt(s) PROVE Attempt(s)' /\ Moves(s)
    <3>1. Unused(s)' /\ Waiting(s)'
      BY <2>1, <2>2, <2>3 DEF Attempt, Unused, Waiting, Step
    <3>2. Once(s)'
      BY <2>1, <2>2, <2>3 DEF Attempt, Once, Step
    <3>3. Assessed(s)' /\ Placed(s)' /\ Served(s)'
      BY <2>1, <2>2, <2>3 DEF Attempt, Assessed, Placed, Served, Step
    <3> QED
      BY <2>1, <2>3, <3>1, <3>2, <3>3 DEF Attempt, Moves, Stays, SameCalls, SameRow, Phase
  <2>4. \A t \in Sessions \ {s} : stage'[t] = stage[t]
    BY <2>1 DEF Step, IInv, Shape
  <2> QED
    BY <2>1, <2>3, <2>4, ThreadsOfOne DEF IInv
<1>4. CASE \E to \in Verdicts :
             /\ Update(s, g, {"ringing"}, to)
             /\ stage[s][g] # "idle"
             /\ to = "in_progress" => stage[s][g] = "in_progress"
             /\ stage' = [stage EXCEPT ![s][g] = "idle"]
             /\ UNCHANGED <<dialled, accepted, finishing, crossed>>
  <2>1. PICK to \in Verdicts :
             /\ Update(s, g, {"ringing"}, to)
             /\ stage[s][g] # "idle"
             /\ to = "in_progress" => stage[s][g] = "in_progress"
             /\ stage' = [stage EXCEPT ![s][g] = "idle"]
             /\ UNCHANGED <<dialled, accepted, finishing, crossed>>
    BY <1>4
  <2>2. /\ \A h \in Gens : stage'[s][h] = IF h = g THEN "idle" ELSE stage[s][h]
        /\ \A t \in Sessions \ {s} : stage'[t] = stage[t]
    BY <2>1 DEF IInv, Shape
  <2>3. CASE row[s].gen = g /\ row[s].status = "ringing"
    <3>1. row' = [row EXCEPT ![s] = WithStatus(row[s], to)]
      BY <2>1, <2>3 DEF Update
    <3>2. ASSUME Attempt(s), row'[s] = WithStatus(row[s], to)
          PROVE  Attempt(s)' /\ Moves(s)
      <4>1. row[s] \in Row /\ to \in Statuses /\ to \in {"in_progress", "failed", "pending"}
        BY <2>1, <3>2 DEF Attempt, Statuses, Verdicts, Retryable
      <4>2. /\ row'[s] \in Row /\ row'[s].gen = row[s].gen
            /\ row'[s].event = row[s].event /\ row'[s].outcome = row[s].outcome
            /\ row'[s].status = to
        BY <3>2, <4>1, StatusRow
      <4>3. Unused(s)' /\ Waiting(s)'
        BY <2>1, <2>2, <2>3, <3>2, <4>1, <4>2 DEF Attempt, Unused, Waiting
      <4>4. Once(s)'
        BY <2>1, <2>2, <3>2, <4>2 DEF Attempt, Once
      <4>5. Assessed(s)' /\ Placed(s)' /\ Served(s)'
        BY <2>1, <2>2, <2>3, <3>2, <4>1, <4>2 DEF Attempt, Assessed, Placed, Served
      <4> QED
        BY <2>1, <2>3, <4>1, <4>2, <4>3, <4>4, <4>5 DEF Attempt, Moves, Stays, SameCalls, SameRow, Phase
    <3> QED
      BY <2>1, <2>2, <3>1, <3>2, OneRow DEF IInv
  <2>4. CASE ~(row[s].gen = g /\ row[s].status = "ringing")
    <3>1. row' = row
      BY <2>1, <2>4 DEF Update
    <3>2. ASSUME Attempt(s) PROVE Attempt(s)' /\ Moves(s)
      <4>1. Unused(s)' /\ Waiting(s)'
        BY <2>1, <2>2, <3>1, <3>2 DEF Attempt, Unused, Waiting
      <4>2. Once(s)'
        BY <2>1, <2>2, <3>1, <3>2 DEF Attempt, Once
      <4>3. Assessed(s)' /\ Placed(s)' /\ Served(s)'
        BY <2>1, <2>2, <2>4, <3>1, <3>2 DEF Attempt, Assessed, Placed, Served
      <4> QED
        BY <2>1, <3>1, <3>2, <4>1, <4>2, <4>3 DEF Attempt, Moves, Stays, SameCalls, SameRow, Phase
    <3> QED
      BY <2>1, <2>2, <3>1, <3>2, ThreadsOfOne DEF IInv
  <2> QED
    BY <2>3, <2>4
<1>5. CASE \E reached \in BOOLEAN, verdict \in Verdicts : Dial(s, g, reached, verdict)
  <2>1. PICK reached \in BOOLEAN, verdict \in Verdicts : Dial(s, g, reached, verdict)
    BY <1>5
  <2>2. /\ \A h \in Gens : stage'[s][h] = IF h = g THEN verdict ELSE stage[s][h]
        /\ \A h \in Gens : dialled'[s][h] =
              IF h = g /\ reached THEN dialled[s][h] + 1 ELSE dialled[s][h]
        /\ \A t \in Sessions \ {s} : stage'[t] = stage[t] /\ dialled'[t] = dialled[t]
        /\ stage[s][g] = "checked" /\ verdict \in {"in_progress", "failed", "pending"}
        /\ UNCHANGED <<row, accepted, finishing, crossed>>
    BY <2>1 DEF Dial, Step, IInv, Shape, Verdicts
  <2>3. ASSUME Attempt(s) PROVE Attempt(s)' /\ Moves(s)
    <3>0. /\ verdict = "in_progress" => reached
          /\ reached => dialled'[s] = [dialled[s] EXCEPT ![g] = dialled[s][g] + 1]
          /\ ~reached => dialled'[s] = dialled[s]
      BY <2>1 DEF Dial, IInv, Shape
    <3>1. Unused(s)' /\ Waiting(s)'
      BY <2>2, <2>3 DEF Attempt, Unused, Waiting
    <3>2. Once(s)'
      BY <2>2, <2>3 DEF Attempt, Once
    <3>3. Assessed(s)' /\ Placed(s)' /\ Served(s)'
      <4>1. \A h \in Gens : dialled'[s][h] >= dialled[s][h] /\ dialled[s][h] \in Nat
        <5>1. \A h \in Gens : dialled[s][h] \in Nat
          BY DEF IInv, Shape
        <5> QED
          BY <2>2, <5>1
      <4>2. stage'[s][g] = "in_progress" => dialled'[s][g] > 0
        BY <2>2, <3>0, <4>1
      <4>3. Placed(s)'
        BY <2>2, <2>3, <4>1, <4>2 DEF Attempt, Placed
      <4> QED
        BY <2>2, <2>3, <4>3 DEF Attempt, Assessed, Served
    <3>4. Moves(s)
      <4>1. dialled[s][g] = 0
        BY <2>2, <2>3 DEF Attempt, Once
      <4>2. g \in Nat /\ row[s].gen \in Nat /\ g <= row[s].gen
        BY <2>2, <2>3 DEF Attempt, Unused, Row, Gens
      <4>3. g = row[s].gen => Phase(row[s].status) = "open"
        BY <2>2, <2>3, <4>1 DEF Attempt, Waiting, Placed, Phase
      <4>4. CASE reached
        <5>1. dialled'[s] = [dialled[s] EXCEPT ![g] = 1]
          BY <3>0, <4>1, <4>4
        <5>2. g < row[s].gen \/ (g = row[s].gen /\ Phase(row[s].status) = "open")
          BY <4>2, <4>3
        <5> QED
          BY <2>2, <4>1, <5>1, <5>2 DEF Moves, Places
      <4>5. CASE ~reached
        BY <2>2, <3>0, <4>5 DEF Moves, Stays, SameCalls, SameRow
      <4> QED
        BY <4>4, <4>5
    <3> QED
      BY <2>2, <2>3, <3>1, <3>2, <3>3, <3>4 DEF Attempt
  <2> QED
    BY <2>2, <2>3, ThreadsOfOne DEF IInv
<1>6. Prepare(s, g) \/ RecordVerdict(s, g) => Good
  <2>1. ASSUME Prepare(s, g) PROVE Good
    <3>1. /\ stage[s][g] = "claimed"
          /\ UNCHANGED <<dialled, accepted, finishing, crossed>>
      BY <2>1 DEF Prepare, Step
    <3>2. \/ Step(s, g, "claimed", "checked") /\ UNCHANGED row
          \/ /\ Step(s, g, "claimed", "idle") /\ UNCHANGED row
             /\ row[s].gen # g \/ row[s].status # "ringing"
          \/ Step(s, g, "claimed", "idle") /\ Update(s, g, {"ringing"}, "failed")
      BY <2>1 DEF Prepare
    <3>3. CASE Step(s, g, "claimed", "idle") /\ Update(s, g, {"ringing"}, "failed")
      BY <1>4, <3>1, <3>3 DEF Step, Verdicts
    <3>4. CASE ~(Step(s, g, "claimed", "idle") /\ Update(s, g, {"ringing"}, "failed"))
      BY <1>3, <3>1, <3>2, <3>4
    <3> QED
      BY <3>3, <3>4
  <2>2. ASSUME RecordVerdict(s, g) PROVE Good
    BY <1>4, <2>2 DEF RecordVerdict, Verdicts
  <2> QED
    BY <2>1, <2>2
<1>7. CASE DispatchFails(s, g)
  <2>1. UNCHANGED <<row, dialled, accepted, finishing, crossed>>
    BY <1>7 DEF DispatchFails
  <2>2. CASE UNCHANGED stage
    BY <2>1, <2>2, NoRowWritten DEF IInv
  <2>3. CASE stage[s][g] # "idle" /\ stage' = [stage EXCEPT ![s][g] = "lost"]
    <3>1. /\ \A h \in Gens : stage'[s][h] = IF h = g THEN "lost" ELSE stage[s][h]
          /\ \A t \in Sessions \ {s} : stage'[t] = stage[t]
      BY <2>3 DEF IInv, Shape
    <3>2. ASSUME Attempt(s) PROVE Attempt(s)' /\ Moves(s)
      <4>1. Unused(s)' /\ Waiting(s)'
        BY <2>1, <2>3, <3>1, <3>2 DEF Attempt, Unused, Waiting
      <4>2. Once(s)'
        BY <2>1, <3>1, <3>2 DEF Attempt, Once
      <4>3. Assessed(s)' /\ Placed(s)' /\ Served(s)'
        BY <2>1, <3>1, <3>2 DEF Attempt, Assessed, Placed, Served
      <4> QED
        BY <2>1, <3>2, <4>1, <4>2, <4>3
        DEF Attempt, Moves, Stays, SameCalls, SameRow, Phase
    <3> QED
      BY <2>1, <3>1, <3>2, ThreadsOfOne DEF IInv
  <2> QED
    BY <1>7, <2>2, <2>3 DEF DispatchFails
<1> QED
  BY <1>1, <1>2, <1>5, <1>6, <1>7 DEF DispatchStep

(* A callback of the agent, for an attempt that was dialled. *)
LEMMA AgentGood ==
    ASSUME IInv, NEW s \in Sessions, NEW g \in Gens, AgentStep(s, g)
    PROVE  Good
<1>1. CASE \E status \in {"in_progress", "failed", "completed"} : Patch(s, g, status)
  <2>1. PICK status \in {"in_progress", "failed", "completed"} : Patch(s, g, status)
    BY <1>1
  <2>2. /\ row' = [row EXCEPT ![s] = WithStatus(row[s], status)]
        /\ UNCHANGED <<stage, dialled, accepted, finishing, crossed>>
        /\ row[s].status \notin CompletionRejected /\ MayPatch(row[s].status, status)
        /\ row[s].gen = g /\ dialled[s][g] > 0
    BY <2>1 DEF Patch
  <2>3. row[s].status = "completed" => status = "completed"
    BY <2>2 DEF MayPatch, Retryable
  <2>4. ASSUME Attempt(s), row'[s] = WithStatus(row[s], status)
        PROVE  Attempt(s)' /\ Moves(s)
    <3>1. row[s] \in Row /\ status \in Statuses
      BY <2>4 DEF Attempt, Statuses, Terminal, Retryable
    <3>2. /\ row'[s] \in Row /\ row'[s].gen = row[s].gen
          /\ row'[s].event = row[s].event /\ row'[s].outcome = row[s].outcome
          /\ row'[s].status = status
      BY <2>4, <3>1, StatusRow
    <3>3. Attempt(s)'
      BY <2>1, <2>2, <2>3, <2>4, <3>2, SameGeneration DEF IInv
    <3> QED
      BY <2>1, <2>2, <2>3, <3>2, <3>3
      DEF Moves, Stays, SameCalls, SameRow, Phase, Completes, CompletionRejected
  <2> QED
    BY <2>2, <2>4, OneRow DEF IInv
<1>2. CASE ClaimCompletion(s, g)
  <2>1. /\ row' = [row EXCEPT ![s] = [row[s] EXCEPT !.event = g]]
        /\ UNCHANGED <<stage, dialled, crossed>>
        /\ row[s].gen = g /\ row[s].event = 0 /\ dialled[s][g] > 0
        /\ \A h \in Gens : accepted'[s][h] =
              IF h = g THEN accepted[s][h] + 1 ELSE accepted[s][h]
        /\ \A h \in Gens : finishing'[s][h] =
              IF h = g THEN "claimed" ELSE finishing[s][h]
        /\ \A t \in Sessions \ {s} :
              accepted'[t] = accepted[t] /\ finishing'[t] = finishing[t]
    BY <1>2 DEF ClaimCompletion, IInv, Shape
  <2>2. ASSUME Attempt(s), row'[s] = [row[s] EXCEPT !.event = g]
        PROVE  Attempt(s)' /\ Moves(s)
    <3>1. g \in Nat /\ g > 0
      BY DEF Gens
    <3>2. /\ row'[s] \in Row /\ row'[s].gen = row[s].gen
          /\ row'[s].event = g /\ row'[s].outcome = row[s].outcome
          /\ row'[s].status = row[s].status
      BY <2>2, <3>1 DEF Attempt, Row
    <3>8. /\ row[s].status \notin CompletionRejected
          /\ accepted'[s] = [accepted[s] EXCEPT ![g] = accepted[s][g] + 1]
      BY <1>2 DEF ClaimCompletion, IInv, Shape
    <3>3. Unused(s)' /\ Waiting(s)'
      BY <2>1, <2>2, <3>2 DEF Attempt, Unused, Waiting
    <3>4. \A h \in Gens : accepted[s][h] \in Nat
      BY DEF IInv, Shape
    <3>5. Once(s)'
      BY <2>1, <2>2, <3>1, <3>2, <3>4 DEF Attempt, Once
    <3>6. Assessed(s)' /\ Placed(s)' /\ Served(s)'
      BY <2>1, <2>2, <3>2 DEF Attempt, Assessed, Placed, Served
    <3>7. Hears(s)
      <4>1. accepted[s][g] = 0
        BY <2>1, <2>2 DEF Attempt, Once
      <4>2. accepted'[s] = [accepted[s] EXCEPT ![g] = 1]
        BY <3>8, <4>1
      <4>3. Phase(row[s].status) \in {"open", "completed"}
        BY <3>8 DEF Phase, CompletionRejected
      <4> QED
        BY <2>1, <3>2, <4>1, <4>2, <4>3 DEF Hears, SameRow
    <3> QED
      BY <2>1, <2>2, <3>2, <3>3, <3>5, <3>6, <3>7 DEF Attempt, Moves
  <2> QED
    BY <2>1, <2>2, OneRow DEF IInv
<1>3. CASE FinishCompletion(s, g)
  <2>1. /\ row' = [row EXCEPT ![s] = WithStatus(row[s], "completed")]
        /\ UNCHANGED <<stage, dialled, accepted, faults>>
        /\ finishing[s][g] = "claimed"
        /\ \A h \in Gens : finishing'[s][h] = IF h = g THEN "ended" ELSE finishing[s][h]
        /\ \A t \in Sessions \ {s} :
              finishing'[t] = finishing[t] /\ crossed'[t] = crossed[t]
        /\ crossed[s] => crossed'[s]
        /\ ~crossed'[s] => row[s].gen = g /\ row[s].status \notin CompletionRejected
    BY <1>3 DEF FinishCompletion, IInv, Shape
  <2>2. ASSUME ~crossed'[s], Attempt(s), row'[s] = WithStatus(row[s], "completed")
        PROVE  Attempt(s)' /\ Moves(s)
    <3>1. row[s] \in Row /\ "completed" \in Statuses
      BY <2>2 DEF Attempt, Statuses, Terminal
    <3>2. /\ row'[s] \in Row /\ row'[s].gen = row[s].gen
          /\ row'[s].event = row[s].event /\ row'[s].outcome = row[s].outcome
          /\ row'[s].status = "completed"
      BY <2>2, <3>1, StatusRow
    <3>2a. row[s].gen = g /\ accepted[s][g] > 0 /\ dialled[s][g] > 0
      BY <2>1, <2>2 DEF Attempt, Once, Placed
    <3>3. Attempt(s)'
      BY <2>1, <2>2, <3>2, <3>2a, SameGeneration DEF IInv
    <3> QED
      BY <2>1, <2>2, <3>2, <3>2a, <3>3
      DEF Moves, Completes, SameCalls, Phase, CompletionRejected
  <2> QED
    BY <2>1, <2>2, OneRow DEF IInv
<1>4. CASE WriteAssessment(s, g)
  <2>1. /\ UNCHANGED <<stage, dialled, accepted, crossed>>
        /\ finishing[s][g] = "ended"
        /\ \A h \in Gens : finishing'[s][h] = IF h = g THEN "no" ELSE finishing[s][h]
        /\ \A t \in Sessions \ {s} : finishing'[t] = finishing[t]
    BY <1>4 DEF WriteAssessment, IInv, Shape
  <2>2. CASE row[s].gen = g
    <3>1. row' = [row EXCEPT ![s] = WithStatus([row[s] EXCEPT !.outcome = g], "completed")]
      BY <1>4, <2>2 DEF WriteAssessment
    <3>2. ASSUME Attempt(s),
                 row'[s] = WithStatus([row[s] EXCEPT !.outcome = g], "completed")
          PROVE  Attempt(s)' /\ Moves(s)
      <4>a. PICK mid : mid = [row[s] EXCEPT !.outcome = g]
        OBVIOUS
      <4>1. /\ "completed" \in Statuses /\ g \in Nat
            /\ mid \in Row /\ mid.gen = row[s].gen
            /\ mid.event = row[s].event /\ mid.outcome = g
        BY <3>2, <4>a DEF Attempt, Row, Statuses, Terminal, Gens
      <4>2. /\ row'[s] \in Row /\ row'[s].gen = row[s].gen
            /\ row'[s].event = row[s].event /\ row'[s].outcome = g
            /\ row'[s].status = "completed"
        <5>1. row'[s] = WithStatus(mid, "completed")
          BY <3>2, <4>a
        <5> QED
          BY <4>1, <5>1, StatusRow
      <4>3. row[s].status \notin {"absent", "scheduled", "cancelled", "escalated"}
        BY <2>1, <2>2, <3>2 DEF Attempt, Once, Waiting
      <4>4. Unused(s)' /\ Waiting(s)'
        BY <2>1, <3>2, <4>2 DEF Attempt, Unused, Waiting
      <4>5. Once(s)'
        BY <2>1, <3>2, <4>2 DEF Attempt, Once
      <4>3a. accepted[s][g] > 0 /\ dialled[s][g] > 0
        BY <2>1, <3>2 DEF Attempt, Once, Placed
      <4>6. Assessed(s)' /\ Placed(s)' /\ Served(s)'
        BY <2>1, <2>2, <3>2, <4>2, <4>3a DEF Attempt, Assessed, Placed, Served
      <4> QED
        BY <2>1, <2>2, <4>2, <4>3, <4>3a, <4>4, <4>5, <4>6
        DEF Attempt, Moves, Completes, SameCalls, Phase
    <3> QED
      BY <2>1, <3>1, <3>2, OneRow DEF IInv
  <2>3. CASE row[s].gen # g
    <3>1. row' = row
      BY <1>4, <2>3 DEF WriteAssessment
    <3>2. ASSUME Attempt(s) PROVE Attempt(s)' /\ Moves(s)
      <4>1. Once(s)'
        BY <2>1, <3>1, <3>2 DEF Attempt, Once
      <4> QED
        BY <2>1, <3>1, <3>2, <4>1 DEF Attempt, Unused, Waiting, Assessed, Placed, Served, Moves, Stays, SameCalls, SameRow, Phase
    <3> QED
      BY <2>1, <3>1, <3>2, ThreadsOfOne DEF IInv
  <2> QED
    BY <2>2, <2>3
<1> QED
  BY <1>1, <1>2, <1>3, <1>4 DEF AgentStep

(* The retry pass writes only over a row it holds. *)
LEMMA RetryGood ==
    ASSUME IInv, RetryStep
    PROVE  Good
<1>1. CASE \E found \in SUBSET Sessions : RetryScan(found)
  BY <1>1, NoRowWritten DEF RetryScan, IInv
<1>2. CASE \E s \in Sessions : RetryLoad(s) \/ RetrySkip(s)
  BY <1>2, NoRowWritten DEF RetryLoad, RetrySkip, IInv
<1>3. CASE \E s \in Sessions : RetryEscalate(s) \/ RetryAgain(s)
  <2>1. PICK s \in Sessions : RetryEscalate(s) \/ RetryAgain(s)
    BY <1>3
  <2>2. PICK seen : seen = retrier.seen[s]
    OBVIOUS
  <2>3. PICK new : /\ row' = [row EXCEPT ![s] = Flush(row[s], seen, new)]
                   /\ \/ new = Invalidate(seen, "escalated")
                      \/ new = Renew(seen, TRUE, seen.retries + 1)
    <3>1. CASE RetryEscalate(s)
      <4>1. row' = [row EXCEPT ![s] = Flush(row[s], seen, Invalidate(seen, "escalated"))]
        BY <2>2, <3>1 DEF RetryEscalate, RetryWrite
      <4> QED
        BY <4>1
    <3>2. CASE RetryAgain(s)
      <4>1. row' = [row EXCEPT ![s] = Flush(row[s], seen, Renew(seen, TRUE, seen.retries + 1))]
        BY <2>2, <3>2 DEF RetryAgain, RetryWrite
      <4> QED
        BY <4>1
    <3> QED
      BY <2>1, <3>1, <3>2
  <2>4. UNCHANGED <<stage, dialled, accepted, finishing>>
    BY <2>1 DEF RetryEscalate, RetryAgain
  <2>5. /\ \A t \in Sessions \ {s} : crossed'[t] = crossed[t]
        /\ crossed[s] \/ row[s] # seen \/ row[s].status \notin Retryable => crossed'[s]
    <3>1. crossed' = [crossed EXCEPT ![s] =
                        @ \/ row[s] # retrier.seen[s] \/ row[s].status \notin Retryable]
      <4>1. RetryEscalate(s) => crossed' = [crossed EXCEPT ![s] =
                        @ \/ row[s] # retrier.seen[s] \/ row[s].status \notin Retryable]
        BY DEF RetryEscalate, RetryWrite
      <4>2. RetryAgain(s) => crossed' = [crossed EXCEPT ![s] =
                        @ \/ row[s] # retrier.seen[s] \/ row[s].status \notin Retryable]
        BY DEF RetryAgain, RetryWrite
      <4> QED
        BY <2>1, <4>1, <4>2
    <3> QED
      BY <2>2, <3>1 DEF IInv, Shape
  <2>6. ASSUME row[s] = seen, Attempt(s), ~crossed'[s]
        PROVE  /\ new \in Row /\ new.gen = seen.gen + 1
               /\ new.status \in {"scheduled", "cancelled", "escalated"} /\ new.outcome = 0
               /\ seen.status \in {"completed", "escalated", "cancelled"} =>
                    seen.status = "cancelled" /\ new.status = "scheduled"
    <3>1. seen.status \in {"failed", "no_answer", "pending"}
      BY <2>5, <2>6 DEF Retryable
    <3>2. seen \in Row /\ seen.outcome = 0
      BY <2>6, <3>1 DEF Attempt, Assessed
    <3>3. /\ seen.retries + 1 \in Nat /\ TRUE \in BOOLEAN
          /\ "escalated" \in Statuses
      BY <3>2 DEF Row, Statuses, Terminal
    <3>4. CASE new = Invalidate(seen, "escalated")
      BY <3>1, <3>2, <3>3, <3>4, InvalidateRow
    <3>5. CASE new = Renew(seen, TRUE, seen.retries + 1)
      BY <3>1, <3>2, <3>3, <3>5, RenewRow
    <3> QED
      BY <2>3, <3>4, <3>5
  <2> QED
    BY <2>3, <2>4, <2>5, <2>6, UncrossedWrite
<1>4. CASE RetryFails
  BY <1>4, NoRowWritten DEF RetryFails, IInv
<1> QED
  BY <1>1, <1>2, <1>3, <1>4 DEF RetryStep

(* The reconciliation fails rows it read as scheduled; a crash only empties *)
(* what lives in memory. *)
LEMMA ReconcileGood ==
    ASSUME IInv, ReconcileStep
    PROVE  Good
<1>1. CASE \/ ReconcileScan
           \/ \E s \in Sessions : ReconcileRow(s) \/ ReconcileAborts(s)
  BY <1>1, NoRowWritten DEF ReconcileScan, ReconcileRow, ReconcileAborts, IInv
<1>2. CASE ReconcileCommit
  <2> SUFFICES ASSUME NEW s \in Sessions, ~crossed'[s] PROVE Attempt(s)' /\ Moves(s)
    BY DEF Good
  <2>1. /\ row'[s] = IF s \in reconciler.late THEN WithStatus(row[s], "failed") ELSE row[s]
        /\ crossed'[s] = (crossed[s] \/ (s \in reconciler.late /\ row[s] # reconciler.seen[s]))
        /\ UNCHANGED <<stage, dialled, accepted, finishing>>
        /\ reconciler.on
    BY <1>2 DEF ReconcileCommit
  <2>2. Attempt(s)
    BY <2>1 DEF IInv, Rows
  <2>3. CASE s \in reconciler.late
    <3>1. row[s].status = "scheduled"
      BY <2>1, <2>3 DEF IInv, PassHolds
    <3>2. row[s] \in Row /\ "failed" \in Statuses
      BY <2>2 DEF Attempt, Statuses, Retryable
    <3>3. /\ row'[s] \in Row /\ row'[s].gen = row[s].gen
          /\ row'[s].event = row[s].event /\ row'[s].outcome = row[s].outcome
          /\ row'[s].status = "failed"
      BY <2>1, <2>3, <3>2, StatusRow
    <3>4. Attempt(s)'
      BY <2>1, <2>2, <3>1, <3>3, SameGeneration DEF IInv
    <3> QED
      BY <2>1, <3>1, <3>3, <3>4 DEF Moves, Stays, SameCalls, SameRow, Phase
  <2>4. CASE s \notin reconciler.late
    BY <2>1, <2>2, <2>4, Frame
  <2> QED
    BY <2>3, <2>4
<1> QED
  BY <1>1, <1>2 DEF ReconcileStep

LEMMA CrashGood ==
    ASSUME IInv, Crash
    PROVE  Good
<1> SUFFICES ASSUME NEW s \in Sessions, ~crossed'[s] PROVE Attempt(s)' /\ Moves(s)
  BY DEF Good
<1>1. /\ UNCHANGED <<row, dialled, accepted, crossed>>
      /\ \A g \in Gens : /\ stage'[s][g] = IF stage[s][g] = "idle" THEN "idle" ELSE "lost"
                         /\ finishing'[s][g] = "no"
  BY DEF Crash
<1>2. Attempt(s)
  BY <1>1 DEF IInv, Rows
<1>3. Once(s)'
  BY <1>1, <1>2 DEF Attempt, Once
<1> QED
  BY <1>1, <1>2, <1>3 DEF Attempt, Unused, Waiting, Assessed, Placed, Served, Moves, Stays, SameCalls, SameRow, Phase

LEMMA StepGood ==
    ASSUME IInv, [Next]_vars
    PROVE  Good
<1>1. CASE UNCHANGED vars
  BY <1>1, NoRowWritten DEF vars, IInv
<1>2. CASE \E u \in Users : UserStep(u)
  <2>1. PICK u \in Users : UserStep(u)
    BY <1>2
  <2>2. PICK r : r = request[u]
    OBVIOUS
  <2> QED
    BY <2>1, <2>2, UserGood
<1>3. CASE \E s \in Sessions : Late(s)
  BY <1>3, NoRowWritten DEF Late, IInv
<1> QED
  BY <1>1, <1>2, <1>3, DispatchGood, AgentGood, RetryGood, ReconcileGood, CrashGood DEF Next
-----------------------------------------------------------------------------
(* The other parts of the invariant *)

(* A row is only ever replaced at its session, or all of them at once. *)
LEMMA RowsWritten ==
    ASSUME [Next]_vars
    PROVE  \/ row' = row
           \/ \E s, new : row' = [row EXCEPT ![s] = new]
           \/ ReconcileCommit
<1>1. ASSUME NEW u \in Users, UserStep(u)
      PROVE  row' = row \/ \E s, new : row' = [row EXCEPT ![s] = new]
  <2>1. ASSUME NEW s \in Sessions, NEW timed \in BOOLEAN,
               Create(u, s, timed) \/ CreateKeyed(u, s, timed)
        PROVE  row' = [row EXCEPT ![s] = Scheduled(row[s], timed)]
    BY <2>1 DEF Create, CreateKeyed
  <2>2. WriteCancel(u) => \E s, new : row' = [row EXCEPT ![s] = new]
    BY DEF WriteCancel, UnlockedWrite
  <2>3. ASSUME NEW timed \in BOOLEAN, WriteReschedule(u, timed)
        PROVE  \E s, new : row' = [row EXCEPT ![s] = new]
    BY <2>3 DEF WriteReschedule, UnlockedWrite
  <2>4. WriteRetry(u) => \E s, new : row' = [row EXCEPT ![s] = new]
    BY ZenonT(60) DEF WriteRetry, UnlockedWrite
  <2>5. WriteHealed(u) => \E s, new : row' = [row EXCEPT ![s] = new]
    BY ZenonT(60) DEF WriteHealed, UnlockedWrite
  <2>6. Arm(u) \/ ArmFails(u) => row' = row \/ \E s, new : row' = [row EXCEPT ![s] = new]
    BY DEF Arm, ArmFails, ArmLocked
  <2> QED
    BY <1>1, <2>1, <2>2, <2>3, <2>4, <2>5, <2>6 DEF UserStep, RepeatKeyed, Load, Reload
<1>2. ASSUME NEW s \in Sessions, NEW g \in Gens, DispatchStep(s, g)
      PROVE  row' = row \/ \E t, new : row' = [row EXCEPT ![t] = new]
  <2>1. Fire(s, g) \/ Misfire(s, g) => row' = row \/ \E t, new : row' = [row EXCEPT ![t] = new]
    BY DEF Fire, Misfire
  <2>2. Prepare(s, g) => row' = row \/ \E t, new : row' = [row EXCEPT ![t] = new]
    BY DEF Prepare, Update
  <2>3. RecordVerdict(s, g) => row' = row \/ \E t, new : row' = [row EXCEPT ![t] = new]
    BY DEF RecordVerdict, Update
  <2> QED
    BY <1>2, <2>1, <2>2, <2>3 DEF DispatchStep, Dial, DispatchFails
<1>3. ASSUME NEW s \in Sessions, NEW g \in Gens, AgentStep(s, g)
      PROVE  row' = row \/ \E t, new : row' = [row EXCEPT ![t] = new]
  <2>1. ASSUME NEW status, Patch(s, g, status)
        PROVE  row' = [row EXCEPT ![s] = WithStatus(row[s], status)]
    BY <2>1 DEF Patch
  <2>2. ClaimCompletion(s, g) => \E t, new : row' = [row EXCEPT ![t] = new]
    BY DEF ClaimCompletion
  <2>3. FinishCompletion(s, g) => \E t, new : row' = [row EXCEPT ![t] = new]
    BY DEF FinishCompletion
  <2>4. WriteAssessment(s, g) => row' = row \/ \E t, new : row' = [row EXCEPT ![t] = new]
    BY DEF WriteAssessment
  <2> QED
    BY <1>3, <2>1, <2>2, <2>3, <2>4 DEF AgentStep
<1>4. ASSUME RetryStep
      PROVE  row' = row \/ \E t, new : row' = [row EXCEPT ![t] = new]
  <2>1. ASSUME NEW s \in Sessions, RetryEscalate(s) \/ RetryAgain(s)
        PROVE  \E t, new : row' = [row EXCEPT ![t] = new]
    BY <2>1 DEF RetryEscalate, RetryAgain, RetryWrite
  <2> QED
    BY <1>4, <2>1 DEF RetryStep, RetryScan, RetryLoad, RetrySkip, RetryFails
<1>5. ReconcileStep => row' = row \/ ReconcileCommit
  BY DEF ReconcileStep, ReconcileScan, ReconcileRow, ReconcileAborts
<1>6. Crash \/ UNCHANGED vars \/ (\E s \in Sessions : Late(s)) => row' = row
  BY DEF Crash, vars, Late
<1> QED
  BY <1>1, <1>2, <1>3, <1>4, <1>5, <1>6 DEF Next

LEMMA BooleanUpdate ==
    ASSUME NEW f \in [Sessions -> BOOLEAN], NEW s, NEW x \in BOOLEAN
    PROVE  [f EXCEPT ![s] = x] \in [Sessions -> BOOLEAN]
OBVIOUS

(* And the history of crossings likewise. *)
LEMMA CrossedWritten ==
    ASSUME [Next]_vars, crossed \in [Sessions -> BOOLEAN]
    PROVE  crossed' \in [Sessions -> BOOLEAN]
<1>1. ASSUME NEW u \in Users, UserStep(u) PROVE crossed' \in [Sessions -> BOOLEAN]
  <2>1. ASSUME NEW s, NEW seen, NEW new, UnlockedWrite(s, seen, new)
        PROVE  crossed' \in [Sessions -> BOOLEAN]
    BY <2>1, BooleanUpdate DEF UnlockedWrite
  <2>2. ASSUME NEW s, NEW g, ArmLocked(s, g)
        PROVE  crossed' \in [Sessions -> BOOLEAN]
    BY <2>2, BooleanUpdate DEF ArmLocked
  <2> QED
    BY <1>1, <2>1, <2>2 DEF UserStep, Create, CreateKeyed, RepeatKeyed, Load, WriteCancel,
       WriteReschedule, WriteRetry, WriteHealed, Reload, Arm, ArmFails
<1>2. ASSUME NEW s \in Sessions, NEW g \in Gens, DispatchStep(s, g) \/ AgentStep(s, g)
      PROVE  crossed' \in [Sessions -> BOOLEAN]
  <2>1. CASE FinishCompletion(s, g)
    BY <2>1, BooleanUpdate DEF FinishCompletion
  <2> QED
    BY <1>2, <2>1 DEF DispatchStep, Fire, Misfire, Prepare, Dial, RecordVerdict,
                DispatchFails, AgentStep, Patch, ClaimCompletion, WriteAssessment
<1>3. ASSUME RetryStep PROVE crossed' \in [Sessions -> BOOLEAN]
  <2>1. ASSUME NEW s \in Sessions, RetryEscalate(s) \/ RetryAgain(s)
        PROVE  crossed' \in [Sessions -> BOOLEAN]
    BY <2>1, BooleanUpdate DEF RetryEscalate, RetryAgain, RetryWrite
  <2> QED
    BY <1>3, <2>1 DEF RetryStep, RetryScan, RetryLoad, RetrySkip, RetryFails
<1>4. ReconcileStep => crossed' \in [Sessions -> BOOLEAN]
  BY DEF ReconcileStep, ReconcileScan, ReconcileRow, ReconcileAborts, ReconcileCommit
<1> QED
  BY <1>1, <1>2, <1>3, <1>4 DEF Next, Crash, Late, vars

LEMMA NestedUpdate ==
    ASSUME NEW S, NEW f \in [Sessions -> [Gens -> S]], NEW s \in Sessions,
           NEW g \in Gens, NEW x \in S
    PROVE  [f EXCEPT ![s][g] = x] \in [Sessions -> [Gens -> S]]
OBVIOUS

LEMMA ShapeStep ==
    ASSUME Shape, [Next]_vars
    PROVE  Shape'
<1>1. row' = [s \in Sessions |-> row'[s]]
  <2>1. ReconcileCommit => row' = [s \in Sessions |-> row'[s]]
    BY DEF ReconcileCommit
  <2> QED
    BY <2>1, RowsWritten DEF Shape
<1>2. request' = [u \in Users |-> request'[u]]
  <2>1. CASE \E u \in Users : UserStep(u)
    BY ZenonT(60), <2>1 DEF UserStep, Create, CreateKeyed, RepeatKeyed, Load, WriteCancel, Begin,
                WriteReschedule, WriteRetry, WriteHealed, Reload, Arm, ArmFails, Shape
  <2>2. CASE \E s \in Sessions, g \in Gens : DispatchStep(s, g) \/ AgentStep(s, g)
    BY <2>2 DEF DispatchStep, Fire, Misfire, Prepare, Dial, RecordVerdict, DispatchFails, AgentStep,
                Patch, ClaimCompletion, FinishCompletion, WriteAssessment, Shape
  <2>3. CASE RetryStep \/ ReconcileStep
    BY <2>3 DEF RetryStep, ReconcileStep, RetryScan, RetryLoad, RetryEscalate, RetrySkip,
                RetryAgain, RetryFails, ReconcileScan, ReconcileRow, ReconcileAborts, ReconcileCommit, Shape
  <2>4. CASE Crash \/ UNCHANGED vars \/ \E s \in Sessions : Late(s)
    BY <2>4 DEF Crash, vars, Late, Shape
  <2> QED
    BY <2>1, <2>2, <2>3, <2>4 DEF Next
<1>3. crossed' \in [Sessions -> BOOLEAN]
  BY CrossedWritten DEF Shape
<1>4. /\ stage' \in [Sessions -> [Gens -> Stages]]
      /\ dialled' \in [Sessions -> [Gens -> Nat]]
      /\ accepted' \in [Sessions -> [Gens -> Nat]]
      /\ finishing' \in [Sessions -> [Gens -> {"no", "claimed", "ended"}]]
  <2>1. CASE \E u \in Users : UserStep(u)
    BY ZenonT(60), <2>1 DEF UserStep, Create, CreateKeyed, RepeatKeyed, Load, WriteCancel,
                WriteReschedule, WriteRetry, WriteHealed, Reload, Arm, ArmFails, Shape
  <2>2. CASE \E s \in Sessions, g \in Gens : DispatchStep(s, g)
    <3>1. PICK s \in Sessions, g \in Gens : DispatchStep(s, g)
      BY <2>2
    <3>2. UNCHANGED <<accepted, finishing>>
      BY <3>1 DEF DispatchStep, Fire, Misfire, Prepare, Dial, RecordVerdict, DispatchFails
    <3>3. dialled' \in [Sessions -> [Gens -> Nat]]
      <4>1. ASSUME NEW reached \in BOOLEAN, NEW verdict \in Verdicts,
                   Dial(s, g, reached, verdict)
            PROVE  dialled' \in [Sessions -> [Gens -> Nat]]
        <5>1. (IF reached THEN dialled[s][g] + 1 ELSE dialled[s][g]) \in Nat
          BY DEF Shape
        <5> QED
          BY <4>1, <5>1, NestedUpdate DEF Dial, Shape
      <4>2. Fire(s, g) \/ Misfire(s, g) \/ RecordVerdict(s, g) => dialled' = dialled
        BY DEF Fire, Misfire, RecordVerdict
      <4>3. Prepare(s, g) => dialled' = dialled
        BY DEF Prepare
      <4>4. DispatchFails(s, g) => dialled' = dialled
        BY DEF DispatchFails
      <4> QED
        BY <3>1, <4>1, <4>2, <4>3, <4>4 DEF DispatchStep, Shape
    <3>4. /\ {"idle", "claimed", "checked", "lost"} \subseteq Stages /\ Verdicts \subseteq Stages
      BY DEF Stages
    <3>a. stage \in [Sessions -> [Gens -> Stages]]
      BY DEF Shape
    <3>b. ASSUME NEW x \in Stages
          PROVE  [stage EXCEPT ![s][g] = x] \in [Sessions -> [Gens -> Stages]]
      BY <3>a, NestedUpdate
    <3>5. stage' \in [Sessions -> [Gens -> Stages]]
      <4>1. CASE Fire(s, g) \/ Misfire(s, g)
        <5>1. stage' = stage \/ stage' = [stage EXCEPT ![s][g] = "claimed"]
          BY <4>1 DEF Fire, Misfire
        <5> QED
          BY <3>4, <3>a, <3>b, <5>1
      <4>2. CASE Prepare(s, g)
        <5>1. \/ stage' = [stage EXCEPT ![s][g] = "checked"]
              \/ stage' = [stage EXCEPT ![s][g] = "idle"]
          BY <4>2 DEF Prepare, Step
        <5> QED
          BY <3>4, <3>a, <3>b, <5>1
      <4>3. ASSUME NEW reached \in BOOLEAN, NEW verdict \in Verdicts,
                   Dial(s, g, reached, verdict)
            PROVE  stage' \in [Sessions -> [Gens -> Stages]]
        BY <3>4, <4>3, NestedUpdate DEF Dial, Step, Shape
      <4>4. CASE RecordVerdict(s, g)
        BY <3>4, <4>4, NestedUpdate DEF RecordVerdict, Shape
      <4>5. CASE DispatchFails(s, g)
        <5>1. stage' = stage \/ stage' = [stage EXCEPT ![s][g] = "lost"]
          BY <4>5 DEF DispatchFails
        <5> QED
          BY <3>4, <3>a, <3>b, <5>1
      <4> QED
        BY <3>1, <4>1, <4>2, <4>3, <4>4, <4>5 DEF DispatchStep
    <3> QED
      BY <3>2, <3>3, <3>5 DEF Shape
  <2>3. CASE \E s \in Sessions, g \in Gens : AgentStep(s, g)
    <3>1. PICK s \in Sessions, g \in Gens : AgentStep(s, g)
      BY <2>3
    <3>2. (\E status \in {"in_progress", "failed", "completed"} : Patch(s, g, status)) =>
            UNCHANGED <<stage, dialled, accepted, finishing>>
      BY DEF Patch
    <3>3. CASE ClaimCompletion(s, g)
      <4>1. accepted[s][g] + 1 \in Nat
        BY DEF Shape
      <4> QED
        BY <3>3, <4>1, NestedUpdate DEF ClaimCompletion, Shape
    <3>4. CASE FinishCompletion(s, g)
      BY <3>4, NestedUpdate DEF FinishCompletion, Shape
    <3>5. CASE WriteAssessment(s, g)
      BY <3>5, NestedUpdate DEF WriteAssessment, Shape
    <3> QED
      BY <3>1, <3>2, <3>3, <3>4, <3>5 DEF AgentStep, Shape
  <2>4. CASE RetryStep \/ ReconcileStep
    BY <2>4 DEF RetryStep, ReconcileStep, RetryScan, RetryLoad, RetryEscalate, RetrySkip,
                RetryAgain, RetryFails, ReconcileScan, ReconcileRow, ReconcileAborts, ReconcileCommit, Shape
  <2>5. CASE Crash
    BY <2>5 DEF Crash, Shape, Stages
  <2>6. CASE UNCHANGED vars \/ \E s \in Sessions : Late(s)
    BY <2>6 DEF vars, Late, Shape
  <2> QED
    BY <2>1, <2>2, <2>3, <2>4, <2>5, <2>6 DEF Next
<1> QED
  BY <1>1, <1>2, <1>3, <1>4 DEF Shape

LEMMA RequestsStep ==
    ASSUME Shape, RequestsHold, [Next]_vars
    PROVE  RequestsHold'
<1> SUFFICES ASSUME NEW v \in Users, request'[v].pc = "write"
             PROVE  Allowed(request'[v].op, request'[v].seen)
  BY DEF RequestsHold, Allowed, Terminal
<1>1. CASE request'[v] = request[v]
  BY <1>1 DEF RequestsHold
<1>2. CASE \E op \in Ops, s \in Sessions : Load(v, op, s)
  BY <1>2 DEF Load, Begin, Shape
<1>3. CASE request'[v] = Idle \/ request'[v].pc \in {"reload", "arm"}
  BY <1>3 DEF Idle
<1>4. \/ request'[v] = request[v]
      \/ \E op \in Ops, s \in Sessions : Load(v, op, s)
      \/ request'[v] = Idle \/ request'[v].pc \in {"reload", "arm"}
  <2>1. CASE \E u \in Users : UserStep(u)
    <3>1. PICK u \in Users : UserStep(u)
      BY <2>1
    <3>2. CASE u # v
      BY ZenonT(60), <3>1, <3>2 DEF UserStep, Create, CreateKeyed, RepeatKeyed, Load, WriteCancel, Begin,
                WriteReschedule, WriteRetry, WriteHealed, Reload, Arm, ArmFails, Shape
    <3>3. CASE u = v
      BY SMTT(30), <3>1, <3>3 DEF UserStep, Create, CreateKeyed, RepeatKeyed, WriteCancel, Begin, Arming,
                WriteReschedule, WriteRetry, WriteHealed, Reload, Arm, ArmFails, Shape
    <3> QED
      BY <3>2, <3>3
  <2>2. CASE \E s \in Sessions, g \in Gens : DispatchStep(s, g) \/ AgentStep(s, g)
    BY <2>2 DEF DispatchStep, Fire, Misfire, Prepare, Dial, RecordVerdict, DispatchFails, AgentStep,
                Patch, ClaimCompletion, FinishCompletion, WriteAssessment
  <2>3. CASE RetryStep \/ ReconcileStep
    BY <2>3 DEF RetryStep, ReconcileStep, RetryScan, RetryLoad, RetryEscalate, RetrySkip,
                RetryAgain, RetryFails, ReconcileScan, ReconcileRow, ReconcileAborts, ReconcileCommit
  <2>4. CASE Crash \/ UNCHANGED vars \/ \E s \in Sessions : Late(s)
    BY <2>4 DEF Crash, vars, Late
  <2> QED
    BY <2>1, <2>2, <2>3, <2>4 DEF Next
<1> QED
  BY <1>1, <1>2, <1>3, <1>4

LEMMA PassStep ==
    ASSUME PassHolds, [Next]_vars
    PROVE  PassHolds'
<1>1. CASE reconciler' = reconciler \/ reconciler' = NoPass
  BY <1>1 DEF PassHolds, NoPass
<1>2. CASE ReconcileScan
  BY <1>2 DEF ReconcileScan, PassHolds, Pending
<1>3. CASE \E s \in Sessions : ReconcileRow(s)
  <2>1. CASE reconciler' # NoPass
    <3>1. /\ reconciler.on /\ reconciler'.seen = reconciler.seen
          /\ reconciler'.found \union reconciler'.late
               \subseteq reconciler.found \union reconciler.late
      BY <1>3, <2>1 DEF ReconcileRow
    <3> QED
      BY <3>1 DEF PassHolds
  <2> QED
    BY <1>1, <2>1
<1>4. \/ reconciler' = reconciler \/ reconciler' = NoPass
      \/ ReconcileScan \/ \E s \in Sessions : ReconcileRow(s)
  <2>1. CASE \E u \in Users : UserStep(u)
    BY ZenonT(60), <2>1 DEF UserStep, Create, CreateKeyed, RepeatKeyed, Load, WriteCancel,
                WriteReschedule, WriteRetry, WriteHealed, Reload, Arm, ArmFails
  <2>2. CASE \E s \in Sessions, g \in Gens : DispatchStep(s, g) \/ AgentStep(s, g)
    BY <2>2 DEF DispatchStep, Fire, Misfire, Prepare, Dial, RecordVerdict, DispatchFails, AgentStep,
                Patch, ClaimCompletion, FinishCompletion, WriteAssessment
  <2>3. CASE RetryStep
    BY <2>3 DEF RetryStep, RetryScan, RetryLoad, RetryEscalate, RetrySkip, RetryAgain, RetryFails
  <2>4. CASE ReconcileStep
    BY <2>4 DEF ReconcileStep, ReconcileAborts, ReconcileCommit
  <2>5. CASE Crash \/ UNCHANGED vars \/ \E s \in Sessions : Late(s)
    BY <2>5 DEF Crash, vars, Late
  <2> QED
    BY <2>1, <2>2, <2>3, <2>4, <2>5 DEF Next
<1> QED
  BY <1>1, <1>2, <1>3, <1>4

LEMMA InitIInv == Init => IInv
<1> SUFFICES ASSUME Init PROVE IInv
  OBVIOUS
<1>1. Shape
  BY DEF Init, Shape, Stages
<1>2. RequestsHold /\ PassHolds
  BY DEF Init, RequestsHold, PassHolds, Idle, NoPass
<1>3. ASSUME NEW s \in Sessions PROVE Attempt(s)
  <2>1. /\ row[s] = NoRow
        /\ \A g \in Gens : /\ stage[s][g] = "idle" /\ dialled[s][g] = 0
                            /\ accepted[s][g] = 0 /\ finishing[s][g] = "no"
    BY DEF Init
  <2>2. /\ row[s] \in Row /\ row[s].outcome = 0 /\ row[s].status = "absent"
    BY <2>1 DEF NoRow, Row, Statuses
  <2> QED
    BY <2>1, <2>2 DEF Attempt, Unused, Waiting, Once, Assessed, Placed, Served
<1> QED
  BY <1>1, <1>2, <1>3 DEF IInv, Rows

LEMMA NextIInv == IInv /\ [Next]_vars => IInv'
<1> SUFFICES ASSUME IInv, [Next]_vars PROVE IInv'
  OBVIOUS
<1>1. Shape' /\ RequestsHold' /\ PassHolds'
  BY ShapeStep, RequestsStep, PassStep DEF IInv
<1>2. Good
  BY StepGood
<1>3. Rows'
  <2> SUFFICES ASSUME NEW s \in Sessions, ~crossed'[s] PROVE Attempt(s)'
    BY DEF Rows
  <2> QED
    BY <1>2 DEF Good
<1> QED
  BY <1>1, <1>3 DEF IInv

(* The inductive invariant holds in every behaviour of the voice calls. *)
THEOREM VoiceInvariant == Spec => []IInv
BY InitIInv, NextIInv, PTL DEF Spec

(* result_generation is the token of one attempt: however schedulers,      *)
(* passes, users and crashes interleave, a generation is dialled at most   *)
(* once on a row whose unlocked writers have not crossed.                  *)
THEOREM VoiceDialsOnce == Spec => []OneDialPerAttempt
<1>1. IInv => OneDialPerAttempt
  BY DEF IInv, Rows, Attempt, Once, OneDialPerAttempt
<1> QED
  BY <1>1, VoiceInvariant, PTL

(* claim_voice_completion accepts one completion for a generation. *)
THEOREM VoiceCompletesOnce == Spec => []OneCompletionPerAttempt
<1>1. IInv => OneCompletionPerAttempt
  BY DEF IInv, Rows, Attempt, Once, OneCompletionPerAttempt
<1> QED
  BY <1>1, VoiceInvariant, PTL

(* The assessment in a row belongs to its current generation. *)
THEOREM VoiceAssessmentCurrent == Spec => []AssessmentOfAttempt
<1>1. IInv => AssessmentOfAttempt
  BY DEF IInv, Rows, Attempt, Assessed, AssessmentOfAttempt
<1> QED
  BY <1>1, VoiceInvariant, PTL

(* A ringing row has the dispatcher that claimed it, or that dispatcher was *)
(* stopped by a crash or a failing database.                                *)
THEOREM VoiceRingingServed == Spec => []RingingIsServed
<1>1. IInv => RingingIsServed
  BY DEF IInv, Rows, Attempt, Served, RingingIsServed
<1> QED
  BY <1>1, VoiceInvariant, PTL

(* An ended call is left only by a reschedule with a fresh generation. *)
THEOREM VoiceEndedStays == Spec => EndedStaysEnded
<1>1. IInv /\ [Next]_vars =>
        [\A s \in Sessions :
           row[s].status \in {"completed", "escalated", "cancelled"}
           /\ row'[s].status # row[s].status /\ ~crossed'[s]
             => /\ row[s].status = "cancelled"
                /\ row'[s].status = "scheduled" /\ row'[s].gen = row[s].gen + 1]_vars
  BY StepGood DEF Good, Moves, Stays, Renews, Places, Hears, Completes, Phase
<1> QED
  BY <1>1, VoiceInvariant, PTL DEF Spec, EndedStaysEnded
-----------------------------------------------------------------------------
(* VoiceCalls implements CallAttempts *)

(* What has crossed stays crossed. *)
LEMMA CrossedStays ==
    ASSUME IInv, [Next]_vars, NEW s \in Sessions, crossed[s]
    PROVE  crossed'[s]
<1>0. crossed \in [Sessions -> BOOLEAN]
  BY DEF IInv, Shape
<1>1. ASSUME NEW u \in Users, UserStep(u) PROVE crossed'[s]
  <2>1. ASSUME NEW t, NEW seen, NEW new, UnlockedWrite(t, seen, new) PROVE crossed'[s]
    BY <1>0, <2>1 DEF UnlockedWrite
  <2>2. ASSUME NEW t, NEW g, ArmLocked(t, g) PROVE crossed'[s]
    BY <1>0, <2>2 DEF ArmLocked
  <2> QED
    BY <1>1, <2>1, <2>2 DEF UserStep, Create, CreateKeyed, RepeatKeyed, Load, WriteCancel,
       WriteReschedule, WriteRetry, WriteHealed, Reload, Arm, ArmFails
<1>2. ASSUME NEW t \in Sessions, NEW g \in Gens, DispatchStep(t, g) \/ AgentStep(t, g)
      PROVE  crossed'[s]
  <2>1. CASE FinishCompletion(t, g)
    BY <1>0, <2>1 DEF FinishCompletion
  <2> QED
    BY <1>2, <2>1 DEF DispatchStep, Fire, Misfire, Prepare, Dial, RecordVerdict,
                DispatchFails, AgentStep, Patch, ClaimCompletion, WriteAssessment
<1>3. ASSUME RetryStep PROVE crossed'[s]
  <2>1. ASSUME NEW t \in Sessions, RetryEscalate(t) \/ RetryAgain(t) PROVE crossed'[s]
    BY <1>0, <2>1 DEF RetryEscalate, RetryAgain, RetryWrite
  <2> QED
    BY <1>3, <2>1 DEF RetryStep, RetryScan, RetryLoad, RetrySkip, RetryFails
<1>4. ReconcileStep => crossed'[s]
  BY DEF ReconcileStep, ReconcileScan, ReconcileRow, ReconcileAborts, ReconcileCommit
<1> QED
  BY <1>1, <1>2, <1>3, <1>4 DEF Next, Crash, Late, vars

(* What a move of a call is in CallAttempts. *)
LEMMA MovePromised ==
    ASSUME IInv, IInv', NEW s \in Sessions, ~crossed[s], ~crossed'[s], Attempt(s), Moves(s)
    PROVE  Promise!Step(s) \/ CallOf(s)' = CallOf(s)
<1> DEFINE call == [t \in Sessions |-> IF crossed[t] THEN LostCall ELSE CallOf(t)]
<1>1. /\ call[s] = CallOf(s) /\ call'[s] = CallOf(s)'
      /\ CallOf(s) = [phase |-> Phase(row[s].status), attempt |-> row[s].gen,
                      placed |-> dialled[s], heard |-> accepted[s],
                      report |-> row[s].outcome]
      /\ CallOf(s)' = [phase |-> Phase(row'[s].status), attempt |-> row'[s].gen,
                       placed |-> dialled'[s], heard |-> accepted'[s],
                       report |-> row'[s].outcome]
  BY DEF CallOf
<1>2. CASE Stays(s)
  BY <1>1, <1>2 DEF Stays, SameCalls, SameRow
<1>3. CASE Renews(s)
  <2>1. row[s].outcome = 0
    BY <1>3 DEF Renews, Attempt, Assessed
  <2>2. Phase(row'[s].status) \in Promise!Renewed(Phase(row[s].status))
    BY <1>3 DEF Renews, Phase, Promise!Renewed
  <2>3. CallOf(s)' = Promise!Moved(s, Phase(row'[s].status), CallOf(s).attempt + 1,
                                      CallOf(s).report)
    BY <1>1, <1>3, <2>1 DEF Renews, SameCalls, Promise!Moved
  <2>4. CallOf(s).phase = Phase(row[s].status)
    BY <1>1
  <2>5. Promise!Renew(s)
    BY ZenonT(60), <1>1, <2>2, <2>3, <2>4 DEF Promise!Renew
  <2> QED
    BY <2>5 DEF Promise!Step
<1>4. CASE Places(s)
  <2>1. PICK g \in Gens :
          /\ dialled[s][g] = 0
          /\ g < row[s].gen \/ (g = row[s].gen /\ Phase(row[s].status) = "open")
          /\ dialled'[s] = [dialled[s] EXCEPT ![g] = 1]
    BY <1>4 DEF Places
  <2>2. CallOf(s)' = [CallOf(s) EXCEPT !.placed[g] = 1]
    BY <1>1, <1>4, <2>1 DEF Places
  <2>3. Phase(row[s].status) # "lost"
    BY DEF Phase
  <2>4. Promise!Place(s, g)
    BY <1>1, <2>1, <2>2, <2>3 DEF Promise!Place
  <2> QED
    BY <2>4 DEF Promise!Step
<1>5. CASE Hears(s)
  <2>1. PICK g \in Gens :
          /\ g = row[s].gen /\ dialled[s][g] > 0 /\ accepted[s][g] = 0
          /\ accepted'[s] = [accepted[s] EXCEPT ![g] = 1]
    BY <1>5 DEF Hears
  <2>2. CallOf(s)' = [CallOf(s) EXCEPT !.heard[g] = 1]
    BY <1>1, <1>5, <2>1 DEF Hears, SameRow
  <2>3. dialled[s][g] = 1
    BY <2>1 DEF Attempt, Once, IInv, Shape
  <2>4. Promise!Hear(s, g)
    BY <1>1, <1>5, <2>1, <2>2, <2>3 DEF Promise!Hear, Promise!Latest, Hears
  <2> QED
    BY <2>4 DEF Promise!Step
<1>6. CASE Completes(s)
  <2>1. PICK g \in Gens :
          /\ g = row[s].gen /\ dialled[s][g] > 0
          /\ \/ row'[s].outcome = row[s].outcome
             \/ row'[s].outcome = g /\ accepted[s][g] > 0
    BY <1>6 DEF Completes
  <2>2. /\ dialled[s][g] = 1
        /\ accepted[s][g] > 0 => accepted[s][g] = 1
    BY <2>1 DEF Attempt, Once, IInv, Shape
  <2>3. Promise!Latest(s, g) /\ Phase(row'[s].status) = "completed"
    BY <1>1, <1>6, <2>1 DEF Promise!Latest, Completes, Phase
  <2>4. CASE row'[s].outcome = row[s].outcome
    <3>1. CallOf(s)' = Promise!Moved(s, "completed", g, CallOf(s).report)
      BY <1>1, <1>6, <2>1, <2>3, <2>4 DEF Completes, SameCalls, Promise!Moved
    <3>2. CallOf(s).placed[g] = 1
      BY <1>1, <2>2
    <3>3. Promise!Complete(s, g)
      BY ZenonT(60), <1>1, <2>3, <3>1, <3>2 DEF Promise!Complete
    <3> QED
      BY <3>3 DEF Promise!Step
  <2>5. CASE row'[s].outcome = g /\ accepted[s][g] > 0
    <3>1. CallOf(s)' = Promise!Moved(s, "completed", g, g)
      BY <1>1, <1>6, <2>1, <2>3, <2>5 DEF Completes, SameCalls, Promise!Moved
    <3>2. CallOf(s).heard[g] = 1
      BY <1>1, <2>2, <2>5
    <3>3. Promise!Report(s, g)
      BY ZenonT(60), <1>1, <2>3, <3>1, <3>2 DEF Promise!Report
    <3> QED
      BY <3>3 DEF Promise!Step
  <2> QED
    BY <2>1, <2>4, <2>5
<1> QED
  BY <1>2, <1>3, <1>4, <1>5, <1>6 DEF Moves

(* Every call goes through its attempts as promised, for any number of      *)
(* calls, users and faults, as long as no unlocked write has crossed        *)
(* another one on its row.                                                  *)
THEOREM VoiceKeepsPromise == Spec => AttemptsAsPromised
<1> DEFINE call == [s \in Sessions |-> IF crossed[s] THEN LostCall ELSE CallOf(s)]
<1>1. Init => Promise!Init
  BY DEF Init, Promise!Init, Promise!New, Promise!None, CallOf, NoRow, Phase
<1>2. IInv /\ IInv' /\ [Next]_vars => [Promise!Next]_call
  <2> SUFFICES ASSUME IInv, IInv', [Next]_vars, NEW s \in Sessions
               PROVE  Promise!Step(s) \/ call'[s] = call[s]
    BY DEF Promise!Next
  <2>1. CASE crossed'[s]
    BY <2>1 DEF Promise!Step, Promise!Lose, Promise!Lost, Promise!None, LostCall, NoCalls
  <2>2. CASE ~crossed'[s]
    <3>1. ~crossed[s] /\ Attempt(s)
      BY <2>2, CrossedStays DEF IInv, Rows
    <3>2. Moves(s)
      BY <2>2, StepGood DEF Good
    <3>3. Promise!Step(s) \/ CallOf(s)' = CallOf(s)
      BY <2>2, <3>1, <3>2, MovePromised
    <3>4. call[s] = CallOf(s) /\ call'[s] = CallOf(s)'
      BY <2>2, <3>1
    <3> QED
      BY <3>3, <3>4
  <2> QED
    BY <2>1, <2>2
<1> QED
  BY <1>1, <1>2, VoiceInvariant, PTL DEF Spec, AttemptsAsPromised, Promise!Spec
-----------------------------------------------------------------------------
(* What the promise brings *)

Kept == INSTANCE CallAttemptsProofs WITH
    Calls <- Sessions, Attempts <- Gens,
    call <- [s \in Sessions |-> IF crossed[s] THEN LostCall ELSE CallOf(s)]

(* The two instances of the promise are the same specification. *)
LEMMA SamePromise == AttemptsAsPromised => Kept!Spec
<1>1. Promise!Init => Kept!Init
  BY DEF Promise!Init, Kept!Init, Promise!New, Kept!New, Promise!None, Kept!None
<1>2. Promise!Next => Kept!Next
  BY DEF Promise!Next, Kept!Next, Promise!Step, Kept!Step, Promise!Renew, Kept!Renew,
         Promise!Renewed, Kept!Renewed, Promise!Moved, Kept!Moved, Promise!Lose, Kept!Lose,
         Promise!Lost, Kept!Lost, Promise!None, Kept!None, Promise!Place, Kept!Place,
         Promise!Hear, Kept!Hear, Promise!Report, Kept!Report, Promise!Complete,
         Kept!Complete, Promise!Latest, Kept!Latest
<1> QED
  BY <1>1, <1>2, PTL DEF AttemptsAsPromised, Promise!Spec, Kept!Spec

(* A row that shows a finished call, or an assessment, has a provider        *)
(* request, or a claimed completion, of its own generation behind it.        *)
THEOREM VoiceReportsHeard == Spec => []Kept!ReportedWasHeard
BY VoiceKeepsPromise, SamePromise, Kept!Reported, PTL

(* Generations only grow, an ended row keeps its generation unless it was     *)
(* cancelled, and no completion is accepted for a generation given up.        *)
THEOREM VoiceNothingUndone == Spec => Kept!NothingUndone
BY VoiceKeepsPromise, SamePromise, Kept!Undone, PTL
-----------------------------------------------------------------------------
(* What is remembered of a row has its type, also when it is long out of   *)
(* date: types do not depend on what has crossed what.                     *)
RequestTyped(r) ==
    \/ r.pc = "idle"
    \/ r.pc = "write" /\ r.s \in Sessions /\ r.seen \in Row
    \/ r.pc = "reload" /\ r.s \in Sessions
    \/ r.pc = "arm" /\ r.s \in Sessions /\ r.gen \in Nat

RetryPasses(F) == [on : {TRUE}, todo : SUBSET F, held : SUBSET F,
                   picked : [F -> Row], seen : [F -> Row]]
ReconcilePasses(F) == [on : {TRUE}, found : SUBSET F, known : SUBSET (Sessions \X Nat),
                       seen : [F -> Row], past : SUBSET F, late : SUBSET F]
RequestsTyped == \A u \in Users : RequestTyped(request[u])
RetrierTyped ==
    retrier = NoPass \/ \E F \in SUBSET Sessions : retrier \in RetryPasses(F)
ReconcilerTyped ==
    reconciler = NoPass \/ \E F \in SUBSET Sessions : reconciler \in ReconcilePasses(F)
TableTyped == /\ row \in [Sessions -> Row]
              /\ jobs \subseteq Sessions \X Nat
              /\ missed \in [Sessions -> BOOLEAN]
              /\ keyed \subseteq Sessions
              /\ ops \in 0..MaxOps /\ faults \in 0..MaxFaults
Types == TableTyped /\ RequestsTyped /\ RetrierTyped /\ ReconcilerTyped

LEMMA FlushRow ==
    ASSUME NEW now \in Row, NEW seen \in Row, NEW new \in Row
    PROVE  Flush(now, seen, new) \in Row
BY DEF Flush, Row

LEMMA RowPut ==
    ASSUME TableTyped, NEW s \in Sessions, NEW r \in Row
    PROVE  [row EXCEPT ![s] = r] \in [Sessions -> Row]
BY DEF TableTyped

LEMMA UnlockedTyped ==
    ASSUME TableTyped, NEW s \in Sessions, NEW seen \in Row, NEW new \in Row,
           UnlockedWrite(s, seen, new)
    PROVE  row' \in [Sessions -> Row]
<1>1. row[s] \in Row
  BY DEF TableTyped
<1> QED
  BY <1>1, FlushRow, RowPut DEF UnlockedWrite

LEMMA UpdateTyped ==
    ASSUME TableTyped, NEW s \in Sessions, NEW g, NEW expected, NEW new \in Statuses,
           Update(s, g, expected, new)
    PROVE  row' \in [Sessions -> Row]
<1>1. row[s] \in Row
  BY DEF TableTyped
<1> QED
  BY <1>1, StatusRow, RowPut DEF Update, TableTyped

LEMMA ArmTyped ==
    ASSUME TableTyped, NEW s \in Sessions, NEW g, ArmLocked(s, g)
    PROVE  row' \in [Sessions -> Row] /\ missed' \in [Sessions -> BOOLEAN]
<1>1. row[s] \in Row /\ missed \in [Sessions -> BOOLEAN]
  BY DEF TableTyped
<1>2. missed' = [missed EXCEPT ![s] = FALSE]
      /\ row' = [row EXCEPT ![s] = Scheduled(row[s], TRUE)]
  BY DEF ArmLocked
<1> QED
  BY <1>1, <1>2, ScheduledRow, RowPut

(* The request of u becomes r, the others stay. *)
LEMMA RequestPut ==
    ASSUME Shape, RequestsTyped, NEW u \in Users, NEW r, RequestTyped(r),
           request' = [request EXCEPT ![u] = r]
    PROVE  RequestsTyped'
<1> SUFFICES ASSUME NEW v \in Users PROVE RequestTyped(request'[v])
  BY DEF RequestsTyped
<1>1. request'[v] = IF v = u THEN r ELSE request[v]
  BY DEF Shape
<1> QED
  BY <1>1 DEF RequestsTyped

LEMMA RequestPlain ==
    /\ RequestTyped(Idle)
    /\ \A s \in Sessions : RequestTyped([pc |-> "reload", s |-> s])
    /\ \A s \in Sessions, g \in Nat, k \in BOOLEAN : RequestTyped(Arming(s, g, k))
    /\ \A s \in Sessions, op \in Ops, r \in Row :
          RequestTyped([pc |-> "write", op |-> op, s |-> s, seen |-> r])
BY DEF RequestTyped, Idle, Arming

LEMMA RequestRead ==
    ASSUME RequestsTyped, NEW u \in Users
    PROVE  /\ request[u].pc = "write" => request[u].s \in Sessions /\ request[u].seen \in Row
           /\ request[u].pc = "reload" => request[u].s \in Sessions
           /\ request[u].pc = "arm" => request[u].s \in Sessions /\ request[u].gen \in Nat
BY DEF RequestsTyped, RequestTyped

LEMMA StatusNames ==
    /\ {"absent", "scheduled", "ringing", "cancelled", "escalated", "failed",
        "completed", "in_progress", "pending"} \subseteq Statuses
    /\ Verdicts \subseteq Statuses
BY DEF Statuses, Terminal, Retryable, Verdicts

LEMMA UserTyped ==
    ASSUME Shape, Types, NEW u \in Users, UserStep(u)
    PROVE  Types'
<1> USE DEF Types
<1>1. ASSUME NEW s \in Sessions, NEW timed \in BOOLEAN,
             Create(u, s, timed) \/ CreateKeyed(u, s, timed)
      PROVE  Types'
  <2>1. row[s] \in Row /\ [row EXCEPT ![s] = Scheduled(row[s], timed)] \in [Sessions -> Row]
    BY ScheduledRow, RowPut DEF TableTyped
  <2>2. RequestsTyped'
    <3>1. RequestTyped(Arming(s, 1, FALSE))
      BY RequestPlain
    <3>2. CASE Create(u, s, timed)
      BY <3>1, <3>2, RequestPut DEF Create, Begin
    <3>3. CASE CreateKeyed(u, s, timed)
      BY <3>3 DEF CreateKeyed, RequestsTyped
    <3> QED
      BY <1>1, <3>2, <3>3
  <2>3. /\ UNCHANGED <<jobs, missed, faults>>
        /\ row' = [row EXCEPT ![s] = Scheduled(row[s], timed)]
        /\ keyed' = keyed \/ keyed' = keyed \union {s}
        /\ ops < MaxOps /\ ops' = ops + 1
    BY <1>1 DEF Create, CreateKeyed, Begin
  <2>4. ops' \in 0..MaxOps
    BY <2>3, VoiceAssumption DEF TableTyped
  <2>5. TableTyped'
    BY <2>1, <2>3, <2>4 DEF TableTyped
  <2> QED
    BY <1>1, <2>2, <2>5 DEF Create, CreateKeyed, RetrierTyped, ReconcilerTyped
<1>2. ASSUME NEW s \in Sessions, RepeatKeyed(u, s) PROVE Types'
  <2>1. row[s].gen \in Nat
    BY DEF TableTyped, Row
  <2>2. RequestsTyped'
    BY <1>2, <2>1, RequestPut, RequestPlain DEF RepeatKeyed, Begin
  <2>3. TableTyped'
    BY <1>2, VoiceAssumption DEF RepeatKeyed, Begin, TableTyped
  <2> QED
    BY <1>2, <2>2, <2>3 DEF RepeatKeyed, RetrierTyped, ReconcilerTyped
<1>3. ASSUME NEW op \in Ops, NEW s \in Sessions, Load(u, op, s) PROVE Types'
  <2>1. row[s] \in Row
    BY DEF TableTyped
  <2>2. RequestsTyped'
    BY <1>3, <2>1, RequestPut, RequestPlain DEF Load, Begin
  <2>3. TableTyped'
    BY <1>3, VoiceAssumption DEF Load, Begin, TableTyped
  <2> QED
    BY <1>3, <2>2, <2>3 DEF Load, RetrierTyped, ReconcilerTyped
<1>4. CASE WriteCancel(u)
  <2>1. request[u].s \in Sessions /\ request[u].seen \in Row
    BY <1>4, RequestRead DEF WriteCancel
  <2>2. row' \in [Sessions -> Row]
    BY <1>4, <2>1, InvalidateRow, StatusNames, UnlockedTyped DEF WriteCancel
  <2>3. RequestsTyped'
    BY <1>4, RequestPut, RequestPlain DEF WriteCancel
  <2>4. TableTyped'
    BY <1>4, <2>2 DEF WriteCancel, TableTyped
  <2> QED
    BY <1>4, <2>3, <2>4 DEF WriteCancel, RetrierTyped, ReconcilerTyped
<1>5. ASSUME NEW timed \in BOOLEAN, WriteReschedule(u, timed) PROVE Types'
  <2>1. request[u].s \in Sessions /\ request[u].seen \in Row
    BY <1>5, RequestRead DEF WriteReschedule
  <2>2. request[u].seen.retries \in Nat
    BY <2>1 DEF Row
  <2>3. Renew(request[u].seen, timed, request[u].seen.retries) \in Row
    BY <2>1, <2>2, RenewRow
  <2>4. row' \in [Sessions -> Row]
    BY <1>5, <2>1, <2>3, UnlockedTyped DEF WriteReschedule
  <2>5. RequestsTyped'
    BY <1>5, <2>1, RequestPut, RequestPlain DEF WriteReschedule
  <2>6. TableTyped'
    BY <1>5, <2>1, <2>4 DEF WriteReschedule, TableTyped
  <2> QED
    BY <1>5, <2>5, <2>6 DEF WriteReschedule, RetrierTyped, ReconcilerTyped
<1>6. CASE WriteRetry(u)
  <2>1. request[u].s \in Sessions /\ request[u].seen \in Row
    BY <1>6, RequestRead DEF WriteRetry
  <2>2. request[u].seen.retries + 1 \in Nat /\ request[u].seen.timed \in BOOLEAN
    BY <2>1 DEF Row
  <2>3. Renew(request[u].seen, request[u].seen.timed, request[u].seen.retries + 1) \in Row
    BY <2>1, <2>2, RenewRow
  <2>4. row' \in [Sessions -> Row]
    BY <1>6, <2>1, <2>3, UnlockedTyped DEF WriteRetry
  <2>5. RequestsTyped'
    BY <1>6, <2>1, RequestPut, RequestPlain DEF WriteRetry
  <2>6. TableTyped'
    BY <1>6, <2>4 DEF WriteRetry, TableTyped
  <2> QED
    BY <1>6, <2>5, <2>6 DEF WriteRetry, RetrierTyped, ReconcilerTyped
<1>7. CASE WriteHealed(u)
  <2>1. request[u].s \in Sessions /\ request[u].seen \in Row
    BY <1>7, RequestRead DEF WriteHealed
  <2>2. WithStatus(request[u].seen, "completed") \in Row
    BY <2>1, StatusRow, StatusNames
  <2>3. row' \in [Sessions -> Row]
    BY <1>7, <2>1, <2>2, UnlockedTyped DEF WriteHealed
  <2>4. RequestsTyped'
    BY <1>7, RequestPut, RequestPlain DEF WriteHealed
  <2>5. TableTyped'
    BY <1>7, <2>3 DEF WriteHealed, TableTyped
  <2> QED
    BY <1>7, <2>4, <2>5 DEF WriteHealed, RetrierTyped, ReconcilerTyped
<1>8. CASE Reload(u)
  <2>1. request[u].s \in Sessions
    BY <1>8, RequestRead DEF Reload
  <2>2. row[request[u].s].gen \in Nat
    BY <2>1 DEF TableTyped, Row
  <2>3. RequestsTyped'
    BY <1>8, <2>1, <2>2, RequestPut, RequestPlain DEF Reload
  <2> QED
    BY <1>8, <2>3 DEF Reload, TableTyped, RetrierTyped, ReconcilerTyped
<1>9. CASE Arm(u)
  <2>1. request[u].s \in Sessions /\ request[u].gen \in Nat
    BY <1>9, RequestRead DEF Arm
  <2>2. row' \in [Sessions -> Row] /\ missed' \in [Sessions -> BOOLEAN]
    BY <1>9, <2>1, ArmTyped DEF Arm
  <2>3. RequestsTyped'
    BY <1>9, RequestPut, RequestPlain DEF Arm
  <2>4. TableTyped'
    BY <1>9, <2>1, <2>2 DEF Arm, TableTyped
  <2> QED
    BY <1>9, <2>3, <2>4 DEF Arm, RetrierTyped, ReconcilerTyped
<1>10. CASE ArmFails(u)
  <2>1. request[u].s \in Sessions
    BY <1>10, RequestRead DEF ArmFails
  <2>2. row' \in [Sessions -> Row] /\ missed' \in [Sessions -> BOOLEAN]
        /\ faults' \in 0..MaxFaults
    BY <1>10, <2>1, ArmTyped, VoiceAssumption DEF ArmFails, TableTyped
  <2>3. RequestsTyped'
    BY <1>10, RequestPut, RequestPlain DEF ArmFails
  <2>4. TableTyped'
    BY <1>10, <2>1, <2>2 DEF ArmFails, TableTyped
  <2> QED
    BY <1>10, <2>3, <2>4 DEF ArmFails, RetrierTyped, ReconcilerTyped
<1> QED
  BY <1>1, <1>2, <1>3, <1>4, <1>5, <1>6, <1>7, <1>8, <1>9, <1>10 DEF UserStep

LEMMA CallTyped ==
    ASSUME Shape, Types, NEW s \in Sessions, NEW g \in Gens,
           DispatchStep(s, g) \/ AgentStep(s, g)
    PROVE  Types'
<1>1. UNCHANGED <<request, retrier, reconciler, missed, keyed, ops>>
  BY DEF DispatchStep, Fire, Misfire, Prepare, Dial, RecordVerdict, DispatchFails, AgentStep, Patch,
         ClaimCompletion, FinishCompletion, WriteAssessment
<1>5. faults' \in 0..MaxFaults
  <2>1. faults' = faults \/ (faults < MaxFaults /\ faults' = faults + 1)
    BY DEF DispatchStep, Fire, Misfire, Prepare, Dial, RecordVerdict, DispatchFails, AgentStep,
           Patch, ClaimCompletion, FinishCompletion, WriteAssessment
  <2> QED
    BY <2>1, VoiceAssumption DEF Types, TableTyped
<1>2. jobs' \subseteq Sessions \X Nat
  BY DEF DispatchStep, Fire, Misfire, Prepare, Dial, RecordVerdict, DispatchFails, AgentStep, Patch,
         ClaimCompletion, FinishCompletion, WriteAssessment, Types, TableTyped
<1>3. row[s] \in Row /\ row \in [Sessions -> Row] /\ TableTyped
  BY DEF Types, TableTyped
<1>4. row' \in [Sessions -> Row]
  <2>1. CASE Fire(s, g)
    <3>1. WithStatus(row[s], "ringing") \in Row
      BY <1>3, StatusRow, StatusNames
    <3>2. row' = row \/ row' = [row EXCEPT ![s] = WithStatus(row[s], "ringing")]
      BY <2>1 DEF Fire
    <3> QED
      BY <1>3, <3>1, <3>2, RowPut
  <2>2. CASE Prepare(s, g)
    BY <2>2, <1>3, UpdateTyped, StatusNames DEF Prepare
  <2>3. CASE RecordVerdict(s, g)
    BY <2>3, <1>3, UpdateTyped, StatusNames DEF RecordVerdict
  <2>4. ASSUME NEW status \in {"in_progress", "failed", "completed"}, Patch(s, g, status)
        PROVE  row' \in [Sessions -> Row]
    BY <2>4, <1>3, StatusRow, StatusNames, RowPut DEF Patch
  <2>5. CASE ClaimCompletion(s, g)
    <3>1. g \in Nat
      BY DEF Gens
    <3>2. [row[s] EXCEPT !.event = g] \in Row
      BY <1>3, <3>1 DEF Row
    <3> QED
      BY <2>5, <1>3, <3>2, RowPut DEF ClaimCompletion
  <2>6. CASE FinishCompletion(s, g)
    BY <2>6, <1>3, StatusRow, StatusNames, RowPut DEF FinishCompletion
  <2>7. CASE WriteAssessment(s, g)
    <3>1. [row[s] EXCEPT !.outcome = g] \in Row
      BY <1>3 DEF Row, Gens
    <3> QED
      BY <2>7, <1>3, <3>1, StatusRow, StatusNames, RowPut DEF WriteAssessment
  <2>9. CASE DispatchFails(s, g)
    BY <2>9, <1>3 DEF DispatchFails
  <2>8. CASE Misfire(s, g) \/ \E reached \in BOOLEAN, v \in Verdicts : Dial(s, g, reached, v)
    BY <2>8, <1>3 DEF Misfire, Dial
  <2> QED
    BY <2>1, <2>2, <2>3, <2>4, <2>5, <2>6, <2>7, <2>8, <2>9 DEF DispatchStep, AgentStep
<1> QED
  BY <1>1, <1>2, <1>4, <1>5
  DEF Types, TableTyped, RequestsTyped, RetrierTyped, ReconcilerTyped

LEMMA RetryTyped ==
    ASSUME Types, RetryStep
    PROVE  Types'
<1>1. UNCHANGED <<request, reconciler, keyed, ops>>
  BY DEF RetryStep, RetryScan, RetryLoad, RetryEscalate, RetrySkip, RetryAgain, RetryFails
<1>2. TableTyped /\ RetrierTyped /\ row \in [Sessions -> Row]
  BY DEF Types, TableTyped
<1>3. ASSUME NEW s \in Sessions, NEW held \in SUBSET retrier.held, AtHand(s), RetryNext(s, held)
      PROVE  RetrierTyped'
  <2>1. PICK F \in SUBSET Sessions : retrier \in RetryPasses(F)
    BY <1>2, <1>3 DEF RetrierTyped, AtHand, NoPass
  <2>2. [retrier EXCEPT !.todo = @ \ {s}, !.held = held] \in RetryPasses(F)
    BY <2>1 DEF RetryPasses
  <2> QED
    BY <1>3, <2>2 DEF RetryNext, RetrierTyped
<1>4. ASSUME NEW s \in Sessions, AtHand(s) PROVE retrier.seen[s] \in Row
  <2>1. PICK F \in SUBSET Sessions : retrier \in RetryPasses(F)
    BY <1>2, <1>4 DEF RetrierTyped, AtHand, NoPass
  <2> QED
    BY <1>4, <2>1 DEF RetryPasses, AtHand
<1>5. ASSUME NEW found \in SUBSET Sessions, RetryScan(found) PROVE Types'
  <2>1. retrier' \in RetryPasses(found)
    BY <1>2, <1>5 DEF RetryScan, RetryPasses
  <2> QED
    BY <1>1, <1>5, <2>1 DEF RetryScan, Types, TableTyped, RequestsTyped, RetrierTyped, ReconcilerTyped
<1>6. ASSUME NEW s \in Sessions, RetryLoad(s) PROVE Types'
  <2>1. PICK F \in SUBSET Sessions : retrier \in RetryPasses(F)
    BY <1>2, <1>6 DEF RetrierTyped, RetryLoad, NoPass
  <2>2. s \in F /\ row[s] \in Row
    BY <1>2, <1>6, <2>1 DEF RetryLoad, RetryPasses
  <2>3. retrier' \in RetryPasses(F)
    BY <1>6, <2>1, <2>2 DEF RetryLoad, RetryPasses
  <2> QED
    BY <1>1, <1>6, <2>3 DEF RetryLoad, Types, TableTyped, RequestsTyped, RetrierTyped, ReconcilerTyped
<1>7. ASSUME NEW s \in Sessions, NEW new \in Row, AtHand(s), RetryWrite(s, new)
      PROVE  row' \in [Sessions -> Row] /\ RetrierTyped'
  <2>1. retrier.seen[s] \in Row /\ row[s] \in Row
    BY <1>2, <1>4, <1>7
  <2> QED
    BY <1>2, <1>3, <1>7, <2>1, FlushRow, RowPut DEF RetryWrite
<1>8. ASSUME NEW s \in Sessions, RetryEscalate(s) PROVE Types'
  <2>1. AtHand(s) /\ retrier.seen[s] \in Row
    BY <1>4, <1>8 DEF RetryEscalate
  <2>2. Invalidate(retrier.seen[s], "escalated") \in Row
    BY <2>1, InvalidateRow, StatusNames
  <2>3. row' \in [Sessions -> Row] /\ RetrierTyped'
    BY <1>7, <1>8, <2>1, <2>2 DEF RetryEscalate
  <2> QED
    BY <1>1, <1>8, <2>3 DEF RetryEscalate, Types, TableTyped, RequestsTyped, ReconcilerTyped
<1>9. ASSUME NEW s \in Sessions, RetrySkip(s) PROVE Types'
  BY <1>1, <1>3, <1>9 DEF RetrySkip, Types, TableTyped, RequestsTyped, ReconcilerTyped
<1>10. ASSUME NEW s \in Sessions, RetryAgain(s) PROVE Types'
  <2>1. AtHand(s) /\ retrier.seen[s] \in Row
    BY <1>4, <1>10 DEF RetryAgain
  <2>2. retrier.seen[s].retries + 1 \in Nat /\ retrier.seen[s].gen + 1 \in Nat
    BY <2>1 DEF Row
  <2>3. Renew(retrier.seen[s], TRUE, retrier.seen[s].retries + 1) \in Row
    BY <2>1, <2>2, RenewRow
  <2>4. row' \in [Sessions -> Row] /\ RetrierTyped'
    BY <1>7, <1>10, <2>1, <2>3 DEF RetryAgain
  <2>5. jobs' \subseteq Sessions \X Nat /\ faults' \in 0..MaxFaults
    BY <1>2, <1>10, <2>2, VoiceAssumption DEF RetryAgain, TableTyped
  <2>6. missed' \in [Sessions -> BOOLEAN]
    BY <1>2, <1>10 DEF RetryAgain, TableTyped
  <2> QED
    BY <1>1, <2>4, <2>5, <2>6 DEF Types, TableTyped, RequestsTyped, ReconcilerTyped
<1>11. CASE RetryFails
  <2>1. TableTyped'
    BY <1>2, <1>11, VoiceAssumption DEF RetryFails, TableTyped
  <2> QED
    BY <1>1, <1>11, <2>1 DEF RetryFails, Types, RequestsTyped, RetrierTyped, ReconcilerTyped
<1> QED
  BY <1>5, <1>6, <1>8, <1>9, <1>10, <1>11 DEF RetryStep

LEMMA ReconcileTyped ==
    ASSUME Types, ReconcileStep
    PROVE  Types'
<1>1. UNCHANGED <<request, retrier, missed, keyed, ops>>
  BY DEF ReconcileStep, ReconcileScan, ReconcileRow, ReconcileAborts, ReconcileCommit
<1>2. TableTyped /\ ReconcilerTyped /\ row \in [Sessions -> Row]
  BY DEF Types, TableTyped
<1>3. CASE ReconcileScan
  <2>1. reconciler' \in ReconcilePasses(Pending)
    BY <1>2, <1>3 DEF ReconcileScan, ReconcilePasses, Pending, TableTyped
  <2>2. Pending \subseteq Sessions
    BY DEF Pending
  <2> QED
    BY <1>1, <1>3, <2>1, <2>2 DEF ReconcileScan, Types, TableTyped, RequestsTyped, RetrierTyped, ReconcilerTyped
<1>4. ASSUME NEW s \in Sessions, ReconcileRow(s) PROVE Types'
  <2>1. PICK F \in SUBSET Sessions : reconciler \in ReconcilePasses(F)
    BY <1>2, <1>4 DEF ReconcilerTyped, ReconcileRow, NoPass
  <2>2. s \in F /\ reconciler.seen[s] \in Row
    BY <1>4, <2>1 DEF ReconcileRow, ReconcilePasses
  <2>3. reconciler.seen[s].gen \in Nat
    BY <2>2 DEF Row
  <2>4. jobs' \subseteq Sessions \X Nat
    BY <1>2, <1>4, <2>3 DEF ReconcileRow, StaleJobs, TableTyped
  <2>5. reconciler' = NoPass \/ reconciler' \in ReconcilePasses(F)
    BY <1>4, <2>1, <2>2 DEF ReconcileRow, ReconcilePasses
  <2>6. row' = row /\ faults' = faults
    BY <1>4 DEF ReconcileRow
  <2> QED
    BY <1>1, <2>4, <2>5, <2>6 DEF Types, TableTyped, RequestsTyped, RetrierTyped, ReconcilerTyped
<1>5. CASE ReconcileCommit
  <2>1. ASSUME NEW s \in Sessions PROVE WithStatus(row[s], "failed") \in Row /\ row[s] \in Row
    BY <1>2, StatusRow, StatusNames
  <2>2. row' \in [Sessions -> Row]
    BY <1>5, <2>1 DEF ReconcileCommit
  <2> QED
    BY <1>1, <1>5, <2>2 DEF ReconcileCommit, Types, TableTyped, RequestsTyped, RetrierTyped, ReconcilerTyped
<1>6. ASSUME NEW s \in Sessions, ReconcileAborts(s) PROVE Types'
  <2>1. TableTyped'
    BY <1>2, <1>6, VoiceAssumption DEF ReconcileAborts, TableTyped
  <2> QED
    BY <1>1, <1>6, <2>1 DEF ReconcileAborts, Types, RequestsTyped, RetrierTyped, ReconcilerTyped
<1> QED
  BY <1>3, <1>4, <1>5, <1>6 DEF ReconcileStep

LEMMA InitTyped == Init => Types
<1> SUFFICES ASSUME Init PROVE Types
  OBVIOUS
<1>1. NoRow \in Row
  BY DEF NoRow, Row, Statuses
<1>2. TableTyped
  BY <1>1, VoiceAssumption DEF Init, TableTyped
<1>3. RequestsTyped
  BY RequestPlain DEF Init, RequestsTyped
<1> QED
  BY <1>2, <1>3 DEF Init, Types, RetrierTyped, ReconcilerTyped

LEMMA NextTyped == Shape /\ Types /\ [Next]_vars => Types'
<1> SUFFICES ASSUME Shape, Types, [Next]_vars PROVE Types'
  OBVIOUS
<1>1. CASE UNCHANGED vars
  BY <1>1 DEF vars, Types, TableTyped, RequestsTyped, RetrierTyped, ReconcilerTyped
<1>2. CASE Crash
  <2>1. RequestsTyped'
    BY <1>2, RequestPlain DEF Crash, RequestsTyped
  <2>2. TableTyped'
    BY <1>2, VoiceAssumption DEF Crash, Types, TableTyped
  <2> QED
    BY <1>2, <2>1, <2>2 DEF Crash, Types, RetrierTyped, ReconcilerTyped
<1>3. ASSUME NEW s \in Sessions, Late(s) PROVE Types'
  BY <1>3 DEF Late, Types, TableTyped, RequestsTyped, RetrierTyped, ReconcilerTyped
<1> QED
  BY <1>1, <1>2, <1>3, UserTyped, CallTyped, RetryTyped, ReconcileTyped DEF Next

(* Every variable keeps its type, crossed or not, for any bounds. *)
THEOREM VoiceTypes == Spec => []TypeOK
<1>1. Shape /\ Types => TypeOK
  <2> SUFFICES ASSUME Shape, Types PROVE TypeOK
    OBVIOUS
  <2>1. \A u \in Users : request[u].pc \in {"idle", "write", "reload", "arm"}
    BY DEF Types, RequestsTyped, RequestTyped
  <2>2. retrier.on \in BOOLEAN
    <3>1. \A F : retrier \in RetryPasses(F) => retrier.on = TRUE
      BY DEF RetryPasses
    <3>2. retrier = NoPass => retrier.on = FALSE
      BY DEF NoPass
    <3> QED
      BY <3>1, <3>2 DEF Types, RetrierTyped
  <2>3. reconciler.on \in BOOLEAN
    <3>1. \A F : reconciler \in ReconcilePasses(F) => reconciler.on = TRUE
      BY DEF ReconcilePasses
    <3>2. reconciler = NoPass => reconciler.on = FALSE
      BY DEF NoPass
    <3> QED
      BY <3>1, <3>2 DEF Types, ReconcilerTyped
  <2> QED
    BY <2>1, <2>2, <2>3 DEF TypeOK, Shape, Types, TableTyped
<1>2. IInv => Shape
  BY DEF IInv
<1> QED
  BY <1>1, <1>2, VoiceInvariant, InitTyped, NextTyped, PTL DEF Spec
=============================================================================
