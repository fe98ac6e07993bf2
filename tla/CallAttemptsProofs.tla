------------------------- MODULE CallAttemptsProofs -------------------------
(***************************************************************************)
(* What follows from the promise of CallAttempts alone.  VoiceCallsProofs  *)
(* instantiates this module: the calls of the code inherit it.             *)
(***************************************************************************)
EXTENDS CallAttempts, TLAPS

Phases == {"open", "cancelled", "completed", "escalated", "lost"}
Records == [phase : Phases, attempt : Nat, placed : [Attempts -> {0, 1}],
            heard : [Attempts -> {0, 1}], report : Nat]

(* A lost call is at attempt 0 and has nothing to report. *)
IInv == /\ \A c \in Calls : call[c] \in Records
        /\ \A c \in Calls : call[c].phase = "lost" => call[c] = Lost
        /\ ReportedWasHeard

(* One call's part of the step and of the invariant. *)
Sound(r) ==
    /\ r.phase = "completed" => r.attempt \in Attempts /\ r.placed[r.attempt] = 1
    /\ \A g \in Attempts : r.heard[g] <= r.placed[g]
    /\ r.report # 0 => /\ r.phase = "completed" /\ r.report = r.attempt
                       /\ r.heard[r.attempt] = 1

Kept(r, new) ==
    new.phase # "lost" =>
      /\ new.attempt >= r.attempt
      /\ r.phase \in {"completed", "escalated"} =>
           new.phase = r.phase /\ new.attempt = r.attempt
      /\ \A g \in Attempts :
           /\ new.placed[g] >= r.placed[g] /\ new.heard[g] >= r.heard[g]
           /\ g < r.attempt => new.heard[g] = r.heard[g]

LEMMA LostSound == Lost \in Records /\ Sound(Lost)
BY DEF Lost, None, Records, Phases, Sound

LEMMA StepSound ==
    ASSUME NEW c \in Calls, NEW r, NEW new, r = call[c], new = call'[c],
           r \in Records, r.phase = "lost" => r = Lost, Sound(r),
           Step(c) \/ new = r
    PROVE  /\ new \in Records
           /\ new.phase = "lost" => new = Lost
           /\ Sound(new) /\ Kept(r, new)
<1> USE DEF Records, Phases
<1>0. /\ r.phase \in Phases /\ r.attempt \in Nat /\ r.report \in Nat
      /\ \A g \in Attempts : r.placed[g] \in {0, 1} /\ r.heard[g] \in {0, 1}
  OBVIOUS
<1>1. CASE Renew(c)
  <2>1. PICK phase \in Renewed(r.phase) : new = Moved(c, phase, r.attempt + 1, r.report)
    BY <1>1 DEF Renew
  <2>2. /\ r.phase \in {"open", "cancelled"}
        /\ phase \in {"open", "cancelled", "escalated"}
    BY <1>0 DEF Renewed
  <2>3. new = [phase |-> phase, attempt |-> r.attempt + 1, placed |-> r.placed,
               heard |-> r.heard, report |-> r.report]
    BY <2>1 DEF Moved
  <2> QED
    BY <1>0, <2>2, <2>3 DEF Sound, Kept
<1>2. CASE Lose(c)
  BY <1>2, LostSound DEF Lose, Kept, Lost
<1>3. ASSUME NEW g \in Attempts, Place(c, g) PROVE
           /\ new \in Records /\ new.phase # "lost" /\ Sound(new) /\ Kept(r, new)
  <2>1. new = [r EXCEPT !.placed[g] = 1] /\ r.phase # "lost"
    BY <1>3 DEF Place
  <2>2. /\ new \in Records /\ new.phase = r.phase /\ new.attempt = r.attempt
        /\ new.heard = r.heard /\ new.report = r.report
        /\ \A h \in Attempts : new.placed[h] = IF h = g THEN 1 ELSE r.placed[h]
    BY <2>1
  <2> QED
    BY <1>0, <2>1, <2>2 DEF Sound, Kept
<1>4. ASSUME NEW g \in Attempts, Hear(c, g) PROVE
           /\ new \in Records /\ new.phase # "lost" /\ Sound(new) /\ Kept(r, new)
  <2>1. /\ new = [r EXCEPT !.heard[g] = 1] /\ r.phase # "lost" /\ g = r.attempt
        /\ r.placed[g] = 1
    BY <1>4 DEF Hear, Latest
  <2>2. /\ new \in Records /\ new.phase = r.phase /\ new.attempt = r.attempt
        /\ new.placed = r.placed /\ new.report = r.report
        /\ \A h \in Attempts : new.heard[h] = IF h = g THEN 1 ELSE r.heard[h]
    BY <2>1
  <2> QED
    BY <1>0, <2>1, <2>2 DEF Sound, Kept
<1>5. ASSUME NEW g \in Attempts, Report(c, g) \/ Complete(c, g) PROVE
           /\ new \in Records /\ new.phase # "lost" /\ Sound(new) /\ Kept(r, new)
  <2>1. /\ g = r.attempt /\ r.phase \in {"open", "completed"}
        /\ \/ new = Moved(c, "completed", g, g) /\ r.heard[g] = 1
           \/ new = Moved(c, "completed", g, r.report) /\ r.placed[g] = 1
    BY <1>5 DEF Report, Complete, Latest
  <2>2. r.placed[g] = 1
    BY <1>0, <2>1 DEF Sound
  <2>3. \E report \in Nat :
          /\ report \in {0, g} /\ (report # 0 => r.heard[g] = 1)
          /\ new = [phase |-> "completed", attempt |-> g, placed |-> r.placed,
                    heard |-> r.heard, report |-> report]
    BY <1>0, <2>1 DEF Moved, Sound
  <2> QED
    BY <1>0, <2>1, <2>2, <2>3 DEF Sound, Kept
<1>6. CASE new = r
  BY <1>0, <1>6 DEF Kept
<1> QED
  BY <1>1, <1>2, <1>3, <1>4, <1>5, <1>6 DEF Step

-----------------------------------------------------------------------------
(* The theorems *)

LEMMA NextSound ==
    ASSUME IInv, [Next]_call
    PROVE  /\ IInv'
           /\ \A c \in Calls : Kept(call[c], call'[c])
<1> SUFFICES ASSUME NEW c \in Calls
             PROVE  /\ call'[c] \in Records
                    /\ call'[c].phase = "lost" => call'[c] = Lost
                    /\ Sound(call'[c]) /\ Kept(call[c], call'[c])
  BY DEF IInv, ReportedWasHeard, Sound
<1>1. /\ call[c] \in Records
      /\ call[c].phase = "lost" => call[c] = Lost
      /\ Sound(call[c])
  BY DEF IInv, ReportedWasHeard, Sound
<1>2. Step(c) \/ call'[c] = call[c]
  BY DEF Next
<1> QED
  BY <1>1, <1>2, StepSound

(* The invariant the other theorems rest on. *)
THEOREM Inductive == Spec => []IInv
<1>1. Init => IInv
  BY DEF Init, New, None, IInv, Records, Phases, ReportedWasHeard
<1> QED
  BY <1>1, NextSound, PTL DEF Spec

(* Under the promise a completed call was placed and a report is of the    *)
(* latest attempt, which was heard.                                        *)
THEOREM Reported == Spec => []ReportedWasHeard
<1>1. IInv => ReportedWasHeard
  BY DEF IInv
<1> QED
  BY <1>1, Inductive, PTL

(* Under the promise nothing is undone, and nothing heard of an attempt    *)
(* that was given up.                                                      *)
THEOREM Undone == Spec => NothingUndone
<1> DEFINE Good == \A c \in Calls : Kept(call[c], call'[c])
<1>1. IInv /\ [Next]_call => [Good]_call
  BY NextSound
<1>2. Spec => [][Good]_call
  BY <1>1, Inductive, PTL DEF Spec
<1>3. [Good]_call =>
        [\A c \in Calls :
           call'[c].phase # "lost" =>
             /\ call'[c].attempt >= call[c].attempt
             /\ call[c].phase \in {"completed", "escalated"} =>
                  call'[c].phase = call[c].phase /\ call'[c].attempt = call[c].attempt
             /\ \A g \in Attempts :
                  /\ call'[c].placed[g] >= call[c].placed[g]
                  /\ call'[c].heard[g] >= call[c].heard[g]
                  /\ g < call[c].attempt => call'[c].heard[g] = call[c].heard[g]]_call
  BY DEF Kept
<1> QED
  BY <1>2, <1>3, PTL DEF NothingUndone
=============================================================================
