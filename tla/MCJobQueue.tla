----------------------------- MODULE MCJobQueue -----------------------------
EXTENDS JobQueue
CONSTANTS j1, j2, s1, s2, w1, w2, i1
OneInput == [j \in Jobs |-> i1]
OneWorker == [s \in Slots |-> w1]
TwoWorkers == [s \in Slots |-> IF s = s1 THEN w1 ELSE w2]
=============================================================================
