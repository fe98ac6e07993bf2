------------------------ MODULE MCRequestIdempotency ------------------------
EXTENDS RequestIdempotency
CONSTANTS r1, r2, r3, r4, b1, b2
TwoBodies == [r \in Requests |-> IF r = r3 THEN b2 ELSE b1]
OneBody == [r \in Requests |-> b1]
=============================================================================
