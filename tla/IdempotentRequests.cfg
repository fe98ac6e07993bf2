SPECIFICATION Spec
CONSTANTS
  r1 = r1  r2 = r2  r3 = r3  r4 = r4  b1 = b1  b2 = b2
  Requests = {r1, r2, r3, r4}
  BodyOf <- TwoBodies
  NoRequest = NoRequest
INVARIANTS TypeOK AtMostOnce SuccessKept AnsweredAlike
CHECK_DEADLOCK FALSE
