---------------------------- MODULE QuotaLedger ----------------------------
(***************************************************************************)
(* One tenant's monthly analysis quota: the usage counter on the tenant    *)
(* row, the holds of quota_reservations, the routes that take and settle   *)
(* them (routes/analyze.py with routes/analyze_helpers.py, the queue's     *)
(* enqueue_job), the lazy monthly reset of routes/subscription.py and the  *)
(* reconciler of services/reliability/quota_reservation.py.                *)
(*                                                                         *)
(* Every route reads the tenant row without a lock and decides from that   *)
(* copy whether the month has changed; the write that follows, with the    *)
(* hold and the conditional increment, is one transaction.  The reconciler  *)
(* and a second cancellation read the job without a lock as well and settle *)
(* its hold later; the job may have been retried in between.                *)
(***************************************************************************)
EXTENDS Integers, FiniteSets

CONSTANTS
  Ops,        \* operation ids: each analysis request or job takes one hold
  KindOf,     \* KindOf[o]: the route that runs operation o
  Quantity,   \* Quantity[o]: analyses operation o pays for
  Limit,      \* analyses_per_month of the tenant's plan, when it has one
  LastMonth   \* bound: months the model runs through

Kinds   == {"single", "batch", "stream", "batch_stream", "late_batch", "job"}
Batches == {"batch", "batch_stream", "late_batch"}
Streams == {"stream", "batch_stream"}

ASSUME QuotaAssumption ==
  /\ IsFiniteSet(Ops)
  /\ KindOf \in [Ops -> Kinds]
  /\ Quantity \in [Ops -> Nat \ {0}]
  /\ Limit \in Nat
  /\ LastMonth \in Nat

NoMonth == -1
Months  == 0..LastMonth
Stamps  == Months \cup {NoMonth}

VARIABLES
  month,      \* the calendar month
  count,      \* tenants.analyses_count_this_month
  stamp,      \* the month of tenants.usage_reset_at
  hold,       \* quota_reservations.status of each operation
  overdue,    \* quota_reservations.expires_at is past
  pc,         \* where each operation's request is
  snap,       \* the tenant row each request read
  delivered,  \* screening results each operation has committed
  taken,      \* history: the month each hold was counted in
  found,      \* holds a reconciler pass has locked and is about to release
  cancelling, \* jobs a second cancellation has read and is about to release
  rerun       \* history: the jobs that were retried when their hold was
              \* released, or about to be by a pass or a cancellation

tenant == <<count, stamp>>
settling == <<found, cancelling>>
vars == <<month, tenant, hold, overdue, pc, snap, delivered, taken, settling, rerun>>

\* Every variable keeps to its type; the counter stays between 0 and Limit.
TypeOK ==
  /\ month \in Months
  /\ count \in 0..Limit
  /\ stamp \in Stamps
  /\ hold \in [Ops -> {"none", "pending", "consumed", "released"}]
  /\ overdue \in [Ops -> BOOLEAN]
  /\ pc \in [Ops -> {"new", "worked", "read", "running", "ended"}]
  /\ snap \in [Ops -> [count : 0..Limit, stamp : Stamps]]
  /\ delivered \in [Ops -> Nat]
  /\ \A o \in Ops : delivered[o] <= Quantity[o]
  /\ taken \in [Ops -> Stamps]
  /\ found \subseteq Ops
  /\ cancelling \subseteq Ops
  /\ rerun \subseteq Ops

Init ==
  /\ month = 0 /\ count = 0 /\ stamp = NoMonth
  /\ hold = [o \in Ops |-> "none"]
  /\ overdue = [o \in Ops |-> FALSE]
  /\ pc = [o \in Ops |-> "new"]
  /\ snap = [o \in Ops |-> [count |-> 0, stamp |-> NoMonth]]
  /\ delivered = [o \in Ops |-> 0]
  /\ taken = [o \in Ops |-> NoMonth]
  /\ found = {} /\ cancelling = {} /\ rerun = {}

Goto(o, label) == pc' = [pc EXCEPT ![o] = label]

-----------------------------------------------------------------------------
(* Taking a hold *)

\* The multipart batch route works first and reserves what it delivered.
WorkFirst(o) ==
  /\ KindOf[o] = "late_batch" /\ pc[o] = "new"
  /\ delivered' = [delivered EXCEPT ![o] = Quantity[o]]
  /\ Goto(o, "worked")
  /\ UNCHANGED <<month, tenant, hold, overdue, snap, taken, settling, rerun>>

ReadTenant(o) ==
  /\ pc[o] = IF KindOf[o] = "late_batch" THEN "worked" ELSE "new"
  /\ snap' = [snap EXCEPT ![o] = [count |-> count, stamp |-> stamp]]
  /\ Goto(o, "read")
  /\ UNCHANGED <<month, tenant, hold, overdue, delivered, taken, settling, rerun>>

\* _ensure_monthly_reset on the copy o read.  Only changed columns are written,
\* so a copy that read a zero counter leaves the row's counter as it is.
NewMonth(o) == snap[o].stamp \notin {NoMonth, month}
CountAfterReset(o) == IF NewMonth(o) /\ snap[o].count # 0 THEN 0 ELSE count
StampAfterReset(o) == IF snap[o].stamp # month THEN month ELSE stamp

\* Mutant: one analysis too many passes the conditional UPDATE.
FitsOneMore(n) == n <= Limit + 1

Fits(n) == n <= Limit

\* reserve_analysis_quota: hold, conditional increment and reset in one
\* transaction; over the limit the transaction rolls back, the reset with it.
Reserve(o) ==
  /\ pc[o] = "read"
  /\ IF Fits(CountAfterReset(o) + Quantity[o])
       THEN /\ count' = CountAfterReset(o) + Quantity[o]
            /\ stamp' = StampAfterReset(o)
            /\ hold' = [hold EXCEPT ![o] = "pending"]
            /\ taken' = [taken EXCEPT ![o] = month]
            /\ Goto(o, "running")
       ELSE /\ Goto(o, "ended")
            /\ UNCHANGED <<tenant, hold, taken>>
  /\ UNCHANGED <<month, overdue, snap, delivered, settling, rerun>>

-----------------------------------------------------------------------------
(* Settling it *)

\* Mutant: a hold is marked released although the counter was not decremented.
RefundMarksFirst(o) ==
  IF hold[o] = "pending"
    THEN /\ hold' = [hold EXCEPT ![o] = "released"]
         /\ UNCHANGED count
    ELSE UNCHANGED <<count, hold>>

\* release_quota_reservation: the conditional decrement decides.
Refund(o) ==
  IF hold[o] = "pending" /\ count >= Quantity[o]
    THEN /\ count' = count - Quantity[o]
         /\ hold' = [hold EXCEPT ![o] = "released"]
    ELSE UNCHANGED <<count, hold>>

\* Mutant: the status test of the locked reservation is dropped.
ChargeAny(o) == hold' = [hold EXCEPT ![o] = "consumed"]

\* Mutant: completion forgets the hold.
ForgetCharge(o) == UNCHANGED hold

\* consume_direct_analysis_quota and consume_job_analysis_quota.
Charge(o) == hold' = [hold EXCEPT ![o] = IF @ = "pending" THEN "consumed" ELSE @]

\* A direct route commits one more screening result.
Deliver(o) ==
  /\ pc[o] = "running" /\ KindOf[o] \notin {"late_batch", "job"}
  /\ delivered[o] < Quantity[o]
  /\ delivered' = [delivered EXCEPT ![o] = @ + 1]
  /\ UNCHANGED <<month, tenant, hold, overdue, pc, snap, taken, settling, rerun>>

\* Whoever settles a hold locks its row first, and waits for a reconciler pass
\* that has it.
Unlocked(o) == o \notin found

\* A batch reaches its end with any number of failed items.
WorkDone(o) == KindOf[o] \in Batches \/ delivered[o] = Quantity[o]

\* A direct route reaches its end.
Consume(o) ==
  /\ pc[o] = "running" /\ KindOf[o] # "job"
  /\ WorkDone(o) /\ Unlocked(o)
  /\ Charge(o)
  /\ Goto(o, "ended")
  /\ UNCHANGED <<month, tenant, overdue, snap, delivered, taken, settling, rerun>>

\* A job commits its result and its hold together.
JobCompletes(o) ==
  /\ pc[o] = "running" /\ KindOf[o] = "job" /\ Unlocked(o)
  /\ delivered' = [delivered EXCEPT ![o] = Quantity[o]]
  /\ Charge(o)
  /\ Goto(o, "ended")
  /\ UNCHANGED <<month, tenant, overdue, snap, taken, settling, rerun>>

\* The streams release in a finally block, a failed or cancelled job in its
\* terminal transaction.
FailsAndReleases(o) ==
  /\ pc[o] = "running" /\ KindOf[o] \in Streams \cup {"job"} /\ Unlocked(o)
  /\ Refund(o)
  /\ Goto(o, "ended")
  /\ UNCHANGED <<month, stamp, overdue, snap, delivered, taken, settling, rerun>>

\* retry_job on a job that ended without a result, most often a cancelled one:
\* it runs again on the hold it has, be it released or about to be, and takes no
\* lock that a reconciler pass or a second cancellation would wait for.
JobRetried(o) ==
  /\ pc[o] = "ended" /\ KindOf[o] = "job"
  /\ hold[o] # "none" /\ delivered[o] = 0
  /\ rerun' = rerun \cup {p \in {o} : hold[p] = "released" \/ p \in found \cup cancelling}
  /\ Goto(o, "running")
  /\ UNCHANGED <<month, tenant, hold, overdue, snap, delivered, taken, settling>>

\* cancel_job once more on a job that is cancelled and whose hold is open, since
\* the counter was too low to give it back: an unlocked read ...
CancelRead(o) ==
  /\ pc[o] = "ended" /\ KindOf[o] = "job"
  /\ hold[o] = "pending" /\ delivered[o] = 0
  /\ cancelling' = cancelling \cup {o}
  /\ UNCHANGED <<month, tenant, hold, overdue, pc, snap, delivered, taken, found, rerun>>

\* ... and a release; the status it read is not written again, so that a job
\* retried in between runs on.
CancelWrite(o) ==
  /\ o \in cancelling /\ Unlocked(o)
  /\ Refund(o)
  /\ cancelling' = cancelling \ {o}
  /\ UNCHANGED <<month, stamp, overdue, pc, snap, delivered, taken, found, rerun>>

\* Any direct request can die with its process; the routes that are no streams
\* also end like this when they raise.
Dies(o) ==
  /\ pc[o] \in {"worked", "read", "running"} /\ KindOf[o] # "job"
  /\ Goto(o, "ended")
  /\ UNCHANGED <<month, tenant, hold, overdue, snap, delivered, taken, settling, rerun>>

-----------------------------------------------------------------------------
(* Time and the reconciler *)

TtlPasses(o) ==
  /\ hold[o] = "pending" /\ ~overdue[o]
  /\ overdue' = [overdue EXCEPT ![o] = TRUE]
  /\ UNCHANGED <<month, tenant, hold, pc, snap, delivered, taken, settling, rerun>>

\* Mutant: the clock alone decides.
TimedOut(o) == TRUE

\* Mutant: holds without a job row are passed over.
JobHoldOnly(o) == KindOf[o] = "job" /\ pc[o] = "ended" /\ delivered[o] = 0

\* Nothing tells the reconciler whether a direct request still runs.
LooksAbandoned(o) ==
  KindOf[o] = "job" => pc[o] = "ended" /\ delivered[o] = 0

\* reconcile_expired_quota_reservations locks the reservations that ran out and
\* reads the job of each, which it does not lock ...
ReconcileRead(o) ==
  /\ hold[o] = "pending" /\ overdue[o] /\ Unlocked(o)
  /\ LooksAbandoned(o)
  /\ found' = found \cup {o}
  /\ UNCHANGED <<month, tenant, hold, overdue, pc, snap, delivered, taken, cancelling, rerun>>

\* ... and then releases the hold, whatever the job does by now.  (A pass that
\* rolls back has changed nothing: it is one that did not take place.)
ReconcileWrite(o) ==
  /\ o \in found
  /\ Refund(o)
  /\ found' = found \ {o}
  /\ UNCHANGED <<month, stamp, overdue, pc, snap, delivered, taken, cancelling, rerun>>

MonthTurns ==
  /\ month < LastMonth
  /\ month' = month + 1
  /\ UNCHANGED <<tenant, hold, overdue, pc, snap, delivered, taken, settling, rerun>>

-----------------------------------------------------------------------------

OpNext(o) ==
  \/ WorkFirst(o) \/ ReadTenant(o) \/ Reserve(o)
  \/ Deliver(o) \/ Consume(o) \/ JobCompletes(o)
  \/ FailsAndReleases(o) \/ JobRetried(o) \/ Dies(o)
  \/ CancelRead(o) \/ CancelWrite(o)
  \/ TtlPasses(o) \/ ReconcileRead(o) \/ ReconcileWrite(o)

Next == MonthTurns \/ \E o \in Ops : OpNext(o)

Spec == Init /\ [][Next]_vars

\* Holds run out and the scheduler keeps running the reconciler.
Fairness ==
  \A o \in Ops : /\ WF_vars(TtlPasses(o))
                 /\ WF_vars(ReconcileRead(o))
                 /\ WF_vars(ReconcileWrite(o))

FairSpec == Spec /\ Fairness

-----------------------------------------------------------------------------
(* Properties *)

\* The analyses the tenant holds or has paid for in month m.
Units(o) == {o} \X (1..Quantity[o])
Counts(o, m) == hold[o] \in {"pending", "consumed"} /\ taken[o] = m
HeldUnits(m) == UNION {Units(o) : o \in {p \in Ops : Counts(p, m)}}
Used(m) == Cardinality(HeldUnits(m))

\* Until the first month turns, the counter is exactly what the holds add up
\* to: no increment is lost, none is given back twice, whatever requests,
\* failures and reconciliations interleave.
ExactWithinMonth == month = 0 => count = Used(0)

\* A settled hold stays as it was settled: a late consume after a release, a
\* second release and the reconciler all leave it alone.
SettledHolds ==
  [][\A o \in Ops : hold[o] \in {"consumed", "released"} => hold'[o] = hold[o]]_hold

\* The ledger keeps, for the holds of its jobs, the same contract as the queue
\* does (JobQueue): one hold per job, settled once, charged together with the
\* delivery or refunded; through months, resets and a counter that may be too
\* low to give anything back.
JobOps == {o \in Ops : KindOf[o] = "job"}
Billing == INSTANCE JobBilling
             WITH Jobs <- JobOps,
                  account <- [o \in JobOps |-> hold[o]],
                  delivered <- [o \in JobOps |-> delivered[o] = Quantity[o]]
BillingContract == Billing!Spec

\* A job that is over is charged only if it delivered, and one that delivered
\* is charged, also when its hold ran out of time while it was still running.
\* The exception is a job that was retried after its hold had been given back, or
\* between the moment a reconciler pass or a second cancellation found it over
\* and the moment that one gives its hold back.
JobsChargedIffDelivered ==
  \A o \in Ops : KindOf[o] = "job" /\ pc[o] = "ended" =>
    /\ hold[o] = "consumed" => delivered[o] = Quantity[o]
    /\ delivered[o] = Quantity[o] => hold[o] = "consumed" \/ o \in rerun

\* No hold is left open by a request that is gone, within a month.
HoldsSettle ==
  \A o \in Ops : hold[o] = "pending" /\ pc[o] = "ended" ~> hold[o] # "pending" \/ month # 0

=============================================================================
