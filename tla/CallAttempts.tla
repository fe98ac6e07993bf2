---------------------------- MODULE CallAttempts ----------------------------
(***************************************************************************)
(* What a screening call promises the candidate and the recruiter, with no *)
(* scheduler, pass or callback in sight.  A call goes through numbered     *)
(* attempts.  An attempt is placed at most once and heard at most once,    *)
(* only the latest one is heard and reported, and a call that was          *)
(* completed or escalated begins no other attempt.                         *)
(*                                                                         *)
(* The promise is not unconditional: a call may be lost, and of a lost     *)
(* call nothing is said.  VoiceCalls implements this module with the calls *)
(* lost on which unlocked writes have crossed.                             *)
(***************************************************************************)
EXTENDS Naturals

CONSTANTS
    Calls,
    Attempts       \* the numbers an attempt that is placed can have

VARIABLE call

None == [g \in Attempts |-> 0]
New  == [phase |-> "open", attempt |-> 1, placed |-> None, heard |-> None, report |-> 0]
Lost == [phase |-> "lost", attempt |-> 0, placed |-> None, heard |-> None, report |-> 0]

Init == call = [c \in Calls |-> New]

(* The same call, its attempts as they are. *)
Moved(c, phase, attempt, report) ==
    [phase |-> phase, attempt |-> attempt, placed |-> call[c].placed,
     heard |-> call[c].heard, report |-> report]

(* What an open call, and a cancelled one, is when the next attempt begins. *)
Renewed(phase) == CASE phase = "open"      -> {"open", "cancelled", "escalated"}
                    [] phase = "cancelled" -> {"open"}
                    [] OTHER               -> {}

Renew(c) ==
    \E phase \in Renewed(call[c].phase) :
       call'[c] = Moved(c, phase, call[c].attempt + 1, call[c].report)

(* A dispatcher may be late: it can still place an attempt given up since. *)
Place(c, g) ==
    /\ call[c].phase # "lost" /\ call[c].placed[g] = 0
    /\ g < call[c].attempt \/ (g = call[c].attempt /\ call[c].phase = "open")
    /\ call'[c] = [call[c] EXCEPT !.placed[g] = 1]

(* The two steps below are of the latest attempt. *)
Latest(c, g) == call[c].phase \in {"open", "completed"} /\ g = call[c].attempt

Hear(c, g) ==
    /\ Latest(c, g)
    /\ call[c].placed[g] = 1 /\ call[c].heard[g] = 0
    /\ call'[c] = [call[c] EXCEPT !.heard[g] = 1]

Report(c, g) ==
    /\ Latest(c, g)
    /\ call[c].heard[g] = 1
    /\ call'[c] = Moved(c, "completed", g, g)

Complete(c, g) ==
    /\ Latest(c, g)
    /\ call[c].placed[g] = 1
    /\ call'[c] = Moved(c, "completed", g, call[c].report)

Lose(c) == call'[c] = Lost

Step(c) ==
    \/ Renew(c) \/ Lose(c)
    \/ \E g \in Attempts : Place(c, g) \/ Hear(c, g) \/ Report(c, g) \/ Complete(c, g)

(* One commit may settle several calls. *)
Next == \A c \in Calls : Step(c) \/ call'[c] = call[c]

Spec == Init /\ [][Next]_call
-----------------------------------------------------------------------------
(* What follows from it *)

(* Only a call that was placed is completed, only an attempt that was      *)
(* placed is heard, and what is reported is the latest one, heard before.  *)
ReportedWasHeard ==
    \A c \in Calls :
      /\ call[c].phase = "completed" =>
           call[c].attempt \in Attempts /\ call[c].placed[call[c].attempt] = 1
      /\ \A g \in Attempts : call[c].heard[g] <= call[c].placed[g]
      /\ call[c].report # 0 =>
           /\ call[c].phase = "completed" /\ call[c].report = call[c].attempt
           /\ call[c].heard[call[c].attempt] = 1

(* Of a call that is not lost, no step takes an attempt, a placement, a    *)
(* completion or an end back, and nothing is heard of an attempt that has  *)
(* been given up.                                                          *)
NothingUndone ==
    [][\A c \in Calls :
         call'[c].phase # "lost" =>
           /\ call'[c].attempt >= call[c].attempt
           /\ call[c].phase \in {"completed", "escalated"} =>
                call'[c].phase = call[c].phase /\ call'[c].attempt = call[c].attempt
           /\ \A g \in Attempts :
                /\ call'[c].placed[g] >= call[c].placed[g]
                /\ call'[c].heard[g] >= call[c].heard[g]
                /\ g < call[c].attempt => call'[c].heard[g] = call[c].heard[g]]_call
=============================================================================
