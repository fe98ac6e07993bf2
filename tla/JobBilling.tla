----------------------------- MODULE JobBilling -----------------------------
(***************************************************************************)
(* What the analysis queue promises a tenant about money, with no queue in *)
(* sight: every job opens one quota hold; the hold is settled exactly once *)
(* and forever, either charged together with the delivery of the job's one *)
(* result or refunded; a refunded job may still be delivered, free of      *)
(* charge, but is never charged again.                                     *)
(***************************************************************************)

CONSTANT Jobs

VARIABLES
  account,    \* account[j]: the state of the hold that pays for job j
  delivered   \* delivered[j]: the tenant has the result of job j

vars == <<account, delivered>>

Init ==
  /\ account = [j \in Jobs |-> "none"]
  /\ delivered = [j \in Jobs |-> FALSE]

Open(j) ==
  /\ account[j] = "none"
  /\ account' = [account EXCEPT ![j] = "pending"]
  /\ UNCHANGED delivered

Charge(j) ==
  /\ account[j] = "pending" /\ ~delivered[j]
  /\ account' = [account EXCEPT ![j] = "consumed"]
  /\ delivered' = [delivered EXCEPT ![j] = TRUE]

Refund(j) ==
  /\ account[j] = "pending" /\ ~delivered[j]
  /\ account' = [account EXCEPT ![j] = "released"]
  /\ UNCHANGED delivered

DeliverFree(j) ==
  /\ account[j] = "released" /\ ~delivered[j]
  /\ delivered' = [delivered EXCEPT ![j] = TRUE]
  /\ UNCHANGED account

Next == \E j \in Jobs : Open(j) \/ Charge(j) \/ Refund(j) \/ DeliverFree(j)

Spec == Init /\ [][Next]_vars

-----------------------------------------------------------------------------
(* Properties *)

\* A charge stands for a result the tenant has, and a result for a hold that
\* nobody can charge or refund any more.
PaidIsDelivered ==
  \A j \in Jobs : /\ account[j] = "consumed" => delivered[j]
                  /\ delivered[j] => account[j] \in {"consumed", "released"}

\* No step takes back a charge, a refund or a delivery, or charges for a job
\* that was refunded.
NothingTakenBack ==
  [][\A j \in Jobs :
       /\ account[j] \in {"consumed", "released"} => account'[j] = account[j]
       /\ delivered[j] => delivered'[j]]_vars

=============================================================================
