---------------------------- MODULE MCVoiceCalls ----------------------------
(* Bounded instances of VoiceCalls. *)
EXTENDS VoiceCalls, TLC

CONSTANTS s1, s2, u1, u2

NoPrefix == {}
IdPrefix == {<<s1, s2>>}
(* Beyond a crossing the safety properties promise nothing: stop there.    *)
(* Two attempts of a call are followed, by request or by the retry pass,   *)
(* and after a fault those of requests other than a retry.                 *)
Followed == \A s \in Sessions :
    /\ ~crossed[s]
    /\ row[s].gen <= 2 \/ row[s].status = "escalated"
    /\ faults = 0 \/ (~retrier.on /\ row[s].retries = 0)

(* Both calls have been made once and have failed; the dispatchers and     *)
(* their jobs are gone.                                                    *)
Failed == [status |-> "failed", gen |-> 1, event |-> 0, timed |-> TRUE,
           retries |-> 0, outcome |-> 0]
PairInit ==
    /\ row = [s \in Sessions |-> Failed]
    /\ jobs = {}
    /\ stage = [s \in Sessions |-> [g \in Gens |-> "idle"]]
    /\ dialled = [s \in Sessions |-> [g \in Gens |-> IF g = 1 THEN 1 ELSE 0]]
    /\ accepted = [s \in Sessions |-> [g \in Gens |-> 0]]
    /\ finishing = [s \in Sessions |-> [g \in Gens |-> "no"]]
    /\ request = [u \in Users |-> Idle]
    /\ retrier = NoPass /\ reconciler = NoPass
    /\ missed = [s \in Sessions |-> FALSE]
    /\ keyed = {} /\ ops = 0 /\ faults = 0
    /\ crossed = [s \in Sessions |-> FALSE]
PairSpec == PairInit /\ [][Next]_vars /\ Fairness
(* The passes over two rows: the next attempts are claimed but not dialled. *)
(* One thing disturbs them: a cancellation, or a fault and a late           *)
(* completion of one of the failed calls.                                   *)
TwoRows ==
    LET late == Cardinality({s \in Sessions : accepted[s][1] > 0}) IN
    /\ \A s \in Sessions, g \in Gens : g > 1 => stage[s][g] \in {"idle", "claimed", "lost"}
    /\ \A u \in Users : request[u].pc = "write" => request[u].op = "cancel"
    /\ ops + faults <= 1 /\ ops + late <= 1
Symmetry == Permutations(Users)
=============================================================================
