SPECIFICATION FairSpec
CONSTANTS
  o1 = o1  o2 = o2  o3 = o3  o4 = o4
  Ops = {o1, o2, o3}
  KindOf <- Late
  Quantity <- Quantities
  Limit = 3
  LastMonth = 1
INVARIANTS TypeOK JobsChargedIffDelivered ExactWithinMonth
PROPERTIES SettledHolds BillingContract HoldsSettle
CHECK_DEADLOCK FALSE
