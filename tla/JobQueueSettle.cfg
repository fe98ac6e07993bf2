SPECIFICATION FairSpec
CONSTANTS
  i1 = i1  j1 = j1  j2 = j2
  s1 = s1  s2 = s2  w1 = w1  w2 = w2
  NoWorker = NoWorker  NoSlot = NoSlot  NoJob = NoJob
  Inputs = {i1}
  Jobs = {j1, j2}
  InputOf <- OneInput
  Workers = {w1, w2}
  Slots = {s1}
  WorkerOf <- OneWorker
  Calls = {c1}
  MaxRetries = 1
PROPERTIES FingerprintGivenUp JobsSettle
CHECK_DEADLOCK FALSE
