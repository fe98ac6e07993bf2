-------------------------- MODULE JobBillingProofs --------------------------
(***************************************************************************)
(* What follows from the billing contract alone.  Whatever implements      *)
(* JobBilling inherits it: the queue (JobQueueProofs) and the ledger       *)
(* (QuotaLedgerProofs) instantiate this module.                            *)
(***************************************************************************)
EXTENDS JobBilling, TLAPS

IInv ==
  /\ account \in [Jobs -> {"none", "pending", "consumed", "released"}]
  /\ delivered \in [Jobs -> BOOLEAN]
  /\ PaidIsDelivered

THEOREM Inductive == Spec => []IInv
  <1>1. Init => IInv
    BY DEF Init, IInv, PaidIsDelivered
  <1>2. IInv /\ [Next]_vars => IInv'
    <2> SUFFICES ASSUME IInv, [Next]_vars PROVE IInv'
      OBVIOUS
    <2>1. ASSUME NEW j \in Jobs, Open(j) \/ Charge(j) \/ Refund(j) \/ DeliverFree(j)
          PROVE IInv'
      BY <2>1 DEF IInv, PaidIsDelivered, Open, Charge, Refund, DeliverFree
    <2>2. CASE UNCHANGED vars
      BY <2>2 DEF vars, IInv, PaidIsDelivered
    <2> QED
      BY <2>1, <2>2 DEF Next
  <1> QED
    BY <1>1, <1>2, PTL DEF Spec

\* Under the contract a charge always stands for a delivery.
THEOREM Paid == Spec => []PaidIsDelivered
  <1>1. IInv => PaidIsDelivered
    BY DEF IInv
  <1> QED
    BY <1>1, Inductive, PTL

\* Under the contract nothing is taken back.
THEOREM Kept == Spec => NothingTakenBack
  <1> DEFINE Frozen ==
        \A j \in Jobs :
          /\ account[j] \in {"consumed", "released"} => account'[j] = account[j]
          /\ delivered[j] => delivered'[j]
  <1>1. IInv /\ [Next]_vars => [Frozen]_vars
    BY DEF IInv, Next, Open, Charge, Refund, DeliverFree
  <1> QED
    BY <1>1, Inductive, PTL DEF Spec, NothingTakenBack

=============================================================================
