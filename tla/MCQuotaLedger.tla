--------------------------- MODULE MCQuotaLedger ---------------------------
EXTENDS QuotaLedger
CONSTANTS o1, o2, o3, o4
Late == [o \in Ops |-> CASE o = o1 -> "late_batch" [] o = o2 -> "batch_stream"
                         [] OTHER -> "job"]
Direct == [o \in Ops |-> CASE o = o1 -> "single" [] o = o2 -> "batch"
                           [] o = o3 -> "job" [] OTHER -> "stream"]
Quantities == [o \in Ops |-> IF o = o2 THEN 2 ELSE 1]
=============================================================================
