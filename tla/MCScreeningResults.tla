------------------------- MODULE MCScreeningResults -------------------------
EXTENDS ScreeningResults, FiniteSets, TLC
CONSTANTS a1, a2, a3, i1, i2, w1, w2
(* Two analyses of the three are run: of one input, or of different ones. *)
MCAnalyses == {a1, a2, a3}
MCInput == a1 :> i1 @@ a2 :> i1 @@ a3 :> i2
MCWorkers == {w1, w2}
Symmetry == Permutations({a1, a2}) \union Permutations(MCWorkers)
TwoOfThem == Cardinality({a \in Analyses : work[a].pc # "new"}) <= 2
(* Nothing is stated of a row once a write has gone over one it had not    *)
(* read.                                                                   *)
Untainted == ~ tainted /\ TwoOfThem
OneDisturbance == Untainted /\ overrides + faults <= 1
=============================================================================
