------------------------- MODULE QuotaLedgerProofs -------------------------
(***************************************************************************)
(* Proofs about QuotaLedger for every set of operations, every mix of      *)
(* routes, every plan limit and any number of months.                      *)
(*                                                                         *)
(* Exactness before the first month turns is inductive once it is known    *)
(* that nobody can have seen another month than the first, so that no      *)
(* request resets the counter, and that a hold is taken only once.         *)
(***************************************************************************)
EXTENDS QuotaLedger, FiniteSetTheorems, TLAPS

\* In the first month the row and every copy of it carry no older month, and
\* every open or consumed hold was taken in this month.
FirstMonth ==
  month = 0 =>
    /\ stamp \in {NoMonth, 0}
    /\ \A o \in Ops : /\ snap[o].stamp \in {NoMonth, 0}
                      /\ hold[o] # "none" => taken[o] = 0

\* A request that has not reserved yet has no hold.
NoHoldYet == \A o \in Ops : pc[o] \in {"new", "worked", "read"} => hold[o] = "none"

\* A job has nothing before it reserves.  While it runs it has no result and an
\* open hold, or a released one if it was retried; afterwards it has both a
\* result and a charge or neither, unless it was retried on a hold that was, or
\* was about to be, given back.  Whoever is about to give back the hold of a job
\* that is not over saw it over, so it was retried since.
Uncharged(o) == hold[o] = "released" /\ o \in rerun

JobHolds ==
  \A o \in Ops : KindOf[o] = "job" =>
    /\ pc[o] # "ended" => delivered[o] = 0 /\ (o \in found \cup cancelling => o \in rerun)
    /\ pc[o] = "running" => hold[o] = "pending" \/ Uncharged(o)
    /\ pc[o] = "ended" =>
         \/ hold[o] = "consumed" /\ delivered[o] = Quantity[o]
         \/ hold[o] # "consumed" /\ delivered[o] = 0
         \/ Uncharged(o) /\ delivered[o] = Quantity[o]

IInv ==
  /\ TypeOK
  /\ FirstMonth
  /\ NoHoldYet
  /\ JobHolds
  /\ ExactWithinMonth

-----------------------------------------------------------------------------
LEMMA UnitsCount ==
  ASSUME NEW o \in Ops
  PROVE IsFiniteSet(Units(o)) /\ Cardinality(Units(o)) = Quantity[o]
  <1>1. Quantity[o] \in Nat \ {0}
    BY QuotaAssumption
  <1>2. /\ IsFiniteSet(1..Quantity[o])
        /\ Cardinality(1..Quantity[o]) = Quantity[o]
    BY SMTT(30), <1>1, FS_Interval
  <1>3. IsFiniteSet({o}) /\ Cardinality({o}) = 1
    BY FS_Singleton
  <1>4. LET product == {o} \X (1..Quantity[o]) IN
        /\ IsFiniteSet(product)
        /\ Cardinality(product) = Cardinality({o}) * Cardinality(1..Quantity[o])
    BY <1>2, <1>3, FS_Product, Zenon
  <1> QED
    BY <1>1, <1>2, <1>3, <1>4 DEF Units

\* The units of a set of operations and of one more, or one less.
UnitsOf(S) == UNION {Units(o) : o \in S}

LEMMA UnitsAdd ==
  ASSUME NEW S, NEW o \in Ops, S \subseteq Ops, o \notin S, IsFiniteSet(UnitsOf(S))
  PROVE /\ IsFiniteSet(UnitsOf(S \cup {o}))
        /\ Cardinality(UnitsOf(S \cup {o})) = Cardinality(UnitsOf(S)) + Quantity[o]
  <1>1. UnitsOf(S \cup {o}) = UnitsOf(S) \cup Units(o)
    BY DEF UnitsOf
  <1>2. UnitsOf(S) \cap Units(o) = {}
    BY DEF UnitsOf, Units
  <1>3. IsFiniteSet(Units(o)) /\ Cardinality(Units(o)) = Quantity[o]
    BY UnitsCount
  <1>4. Cardinality({}) = 0 /\ Cardinality(UnitsOf(S)) \in Nat /\ Quantity[o] \in Nat
    BY FS_EmptySet, FS_CardinalityType, QuotaAssumption
  <1>5. Cardinality(UnitsOf(S) \cup Units(o))
          = Cardinality(UnitsOf(S)) + Cardinality(Units(o)) - Cardinality(UnitsOf(S) \cap Units(o))
    BY <1>3, FS_Union
  <1>6. IsFiniteSet(UnitsOf(S) \cup Units(o))
    BY <1>3, FS_Union
  <1>7. Cardinality(UnitsOf(S) \cap Units(o)) = 0
    BY <1>2, <1>4
  <1>8. Cardinality(UnitsOf(S) \cup Units(o)) = Cardinality(UnitsOf(S)) + Quantity[o]
    BY <1>3, <1>4, <1>5, <1>7
  <1> QED
    BY <1>1, <1>6, <1>8

LEMMA UnitsRemove ==
  ASSUME NEW S, NEW o \in S, S \subseteq Ops, IsFiniteSet(UnitsOf(S))
  PROVE /\ IsFiniteSet(UnitsOf(S \ {o}))
        /\ Cardinality(UnitsOf(S \ {o})) = Cardinality(UnitsOf(S)) - Quantity[o]
  <1>1. UnitsOf(S \ {o}) \subseteq UnitsOf(S)
    BY DEF UnitsOf
  <1>2. IsFiniteSet(UnitsOf(S \ {o}))
    BY <1>1, FS_Subset
  <1>3. (S \ {o}) \cup {o} = S
    OBVIOUS
  <1>4. Cardinality(UnitsOf(S)) = Cardinality(UnitsOf(S \ {o})) + Quantity[o]
    BY <1>2, <1>3, UnitsAdd
  <1>5. Cardinality(UnitsOf(S \ {o})) \in Nat /\ Quantity[o] \in Nat
    BY <1>2, FS_CardinalityType, QuotaAssumption
  <1> QED
    BY <1>2, <1>4, <1>5

-----------------------------------------------------------------------------
\* The operations whose hold counts in the first month.
Charged == {p \in Ops : Counts(p, 0)}

LEMMA UsedIsUnits == HeldUnits(0) = UnitsOf(Charged)
  BY DEF HeldUnits, UnitsOf, Charged

LEMMA UnitsFinite ==
  ASSUME NEW S, S \subseteq Ops
  PROVE IsFiniteSet(UnitsOf(S))
  <1>1. IsFiniteSet(S)
    BY FS_Subset, QuotaAssumption
  <1> DEFINE T == {Units(o) : o \in S}
             f == [o \in S |-> Units(o)]
  <1>2. f \in Surjection(S, T)
    BY DEF Surjection
  <1>2a. IsFiniteSet(T)
    BY <1>1, <1>2, FS_Surjection
  <1>3. \A U \in T : IsFiniteSet(U)
    BY UnitsCount
  <1>4. IsFiniteSet(UNION T)
    BY <1>2a, <1>3, FS_UNION
  <1> QED
    BY <1>4 DEF UnitsOf

-----------------------------------------------------------------------------
(* The steps *)

\* CountAfterReset stays in the counter's range.
LEMMA ResetCount ==
  ASSUME TypeOK, NEW o \in Ops
  PROVE /\ CountAfterReset(o) \in 0..Limit
        /\ StampAfterReset(o) \in Stamps
  BY QuotaAssumption DEF TypeOK, CountAfterReset, StampAfterReset, Stamps

LEMMA RefundType ==
  ASSUME TypeOK, NEW o \in Ops, Refund(o)
  PROVE /\ count' \in 0..Limit
        /\ hold' \in [Ops -> {"none", "pending", "consumed", "released"}]
  <1>1. Quantity[o] \in Nat \ {0} /\ Limit \in Nat
    BY QuotaAssumption
  <1> QED
    BY <1>1 DEF TypeOK, Refund

LEMMA TypeStep ==
  ASSUME TypeOK, [Next]_vars
  PROVE TypeOK'
  <1> USE DEF TypeOK, Goto, tenant, settling
  <1>1. CASE MonthTurns
    BY <1>1, QuotaAssumption DEF MonthTurns, Months, Stamps
  <1>2. ASSUME NEW o \in Ops, OpNext(o) PROVE TypeOK'
    <2>0. Quantity[o] \in Nat \ {0} /\ Limit \in Nat
      BY QuotaAssumption
    <2>1. CASE WorkFirst(o)
      BY <2>0, <2>1 DEF WorkFirst
    <2>2. CASE ReadTenant(o)
      BY <2>2 DEF ReadTenant
    <2>3. CASE Reserve(o)
      <3>1. CountAfterReset(o) \in 0..Limit /\ StampAfterReset(o) \in Stamps
        BY ResetCount
      <3>2. CASE Fits(CountAfterReset(o) + Quantity[o])
        <4>1. count' \in 0..Limit
          BY <2>0, <2>3, <3>1, <3>2 DEF Reserve, Fits
        <4>2. stamp' \in Stamps
          BY <2>3, <3>1, <3>2 DEF Reserve
        <4>3. taken' \in [Ops -> Stamps]
          BY <2>3, <3>2 DEF Reserve, Stamps
        <4>4. /\ hold' \in [Ops -> {"none", "pending", "consumed", "released"}]
              /\ pc' \in [Ops -> {"new", "worked", "read", "running", "ended"}]
          BY <2>3, <3>2 DEF Reserve
        <4>5. UNCHANGED <<month, overdue, snap, delivered, settling, rerun>>
          BY <2>3 DEF Reserve
        <4> QED
          BY <4>1, <4>2, <4>3, <4>4, <4>5
      <3>3. CASE ~Fits(CountAfterReset(o) + Quantity[o])
        BY <2>3, <3>3 DEF Reserve
      <3> QED
        BY <3>2, <3>3
    <2>4. CASE Deliver(o)
      BY <2>0, <2>4 DEF Deliver
    <2>5. CASE Consume(o)
      BY <2>5 DEF Consume, Charge
    <2>6. CASE JobCompletes(o)
      BY <2>0, <2>6 DEF JobCompletes, Charge
    <2>7. CASE FailsAndReleases(o)
      BY <2>7, RefundType DEF FailsAndReleases
    <2>8. CASE Dies(o)
      BY <2>8 DEF Dies
    <2>9. CASE TtlPasses(o)
      BY <2>9 DEF TtlPasses
    <2>10. CASE ReconcileRead(o) \/ CancelRead(o)
      BY <2>10 DEF ReconcileRead, CancelRead
    <2>11. CASE ReconcileWrite(o) \/ CancelWrite(o)
      BY <2>11, RefundType DEF ReconcileWrite, CancelWrite
    <2>12. CASE JobRetried(o)
      BY <2>12 DEF JobRetried
    <2> QED
      BY <1>2, <2>1, <2>2, <2>3, <2>4, <2>5, <2>6, <2>7, <2>8, <2>9, <2>10, <2>11, <2>12
         DEF OpNext
  <1>3. CASE UNCHANGED vars
    BY <1>3 DEF vars
  <1> QED
    BY <1>1, <1>2, <1>3 DEF Next

LEMMA NoHoldStep ==
  ASSUME IInv, [Next]_vars
  PROVE NoHoldYet'
  <1> USE DEF IInv, TypeOK, NoHoldYet, Goto, tenant, settling
  <1>1. CASE MonthTurns
    BY <1>1 DEF MonthTurns
  <1>2. ASSUME NEW o \in Ops, OpNext(o) PROVE NoHoldYet'
    BY <1>2 DEF OpNext, WorkFirst, ReadTenant, Reserve, Deliver, Consume, Charge,
                JobCompletes, FailsAndReleases, Refund, JobRetried, Dies,
                TtlPasses, CancelRead, CancelWrite, ReconcileRead, ReconcileWrite
  <1>3. CASE UNCHANGED vars
    BY <1>3 DEF vars
  <1> QED
    BY <1>1, <1>2, <1>3 DEF Next

LEMMA FirstMonthStep ==
  ASSUME IInv, [Next]_vars
  PROVE FirstMonth'
  <1> USE DEF IInv, TypeOK, FirstMonth, NoHoldYet, Goto, tenant, settling, Stamps, Months, NoMonth
  <1>1. CASE MonthTurns
    <2>1. month' # 0
      BY <1>1, QuotaAssumption DEF MonthTurns
    <2> QED
      BY <2>1
  <1>2. ASSUME NEW o \in Ops, OpNext(o) PROVE FirstMonth'
    BY <1>2 DEF OpNext, WorkFirst, ReadTenant, Reserve, StampAfterReset, Deliver,
                Consume, Charge, JobCompletes, FailsAndReleases, Refund, JobRetried,
                Dies, TtlPasses, CancelRead, CancelWrite, ReconcileRead, ReconcileWrite
  <1>3. CASE UNCHANGED vars
    BY <1>3 DEF vars
  <1> QED
    BY <1>1, <1>2, <1>3 DEF Next

LEMMA JobHoldsStep ==
  ASSUME IInv, [Next]_vars
  PROVE JobHolds'
  <1> USE DEF IInv, TypeOK, JobHolds, Uncharged, NoHoldYet, Goto, tenant, settling
  <1>1. CASE MonthTurns
    BY <1>1 DEF MonthTurns
  <1>2. ASSUME NEW o \in Ops, OpNext(o) PROVE JobHolds'
    <2>0. Quantity[o] \in Nat \ {0}
      BY QuotaAssumption
    <2>1. CASE WorkFirst(o) \/ ReadTenant(o) \/ Reserve(o)
      BY <2>1 DEF WorkFirst, ReadTenant, Reserve
    <2>2. CASE Deliver(o) \/ Consume(o)
      BY <2>2 DEF Deliver, Consume, Charge
    <2>3. CASE JobCompletes(o)
      <3>1. delivered'[o] = Quantity[o] /\ pc'[o] = "ended"
        BY <2>3 DEF JobCompletes
      <3>2. hold'[o] = "consumed" \/ (hold'[o] = "released" /\ o \in rerun')
        BY <2>3 DEF JobCompletes, Charge
      <3>3. \A p \in Ops \ {o} :
              hold'[p] = hold[p] /\ delivered'[p] = delivered[p] /\ pc'[p] = pc[p]
        BY <2>3 DEF JobCompletes, Charge
      <3>4. rerun' = rerun /\ found' = found /\ cancelling' = cancelling
        BY <2>3 DEF JobCompletes
      <3> QED
        BY <3>1, <3>2, <3>3, <3>4
    <2>4. CASE FailsAndReleases(o)
      BY <2>4 DEF FailsAndReleases, Refund
    <2>5. CASE Dies(o) \/ TtlPasses(o)
      BY <2>5 DEF Dies, TtlPasses
    <2>6. CASE ReconcileRead(o) \/ CancelRead(o)
      BY <2>0, <2>6 DEF ReconcileRead, CancelRead, LooksAbandoned
    <2>7. CASE ReconcileWrite(o) \/ CancelWrite(o)
      <3>1. \/ hold' = hold
            \/ hold[o] = "pending" /\ hold' = [hold EXCEPT ![o] = "released"]
        BY <2>7 DEF ReconcileWrite, CancelWrite, Refund
      <3>2. /\ o \in found \cup cancelling
            /\ found' \subseteq found /\ cancelling' \subseteq cancelling
            /\ UNCHANGED <<pc, delivered, rerun>>
        BY <2>7 DEF ReconcileWrite, CancelWrite
      <3> QED
        BY <2>0, <3>1, <3>2
    <2>8. CASE JobRetried(o)
      <3>1. delivered' = delivered /\ hold' = hold /\ pc'[o] = "running"
        BY <2>8 DEF JobRetried
      <3>2. hold[o] = "pending" \/ (hold[o] = "released" /\ o \in rerun')
        BY <2>0, <2>8 DEF JobRetried
      <3>3. \A p \in Ops \ {o} : pc'[p] = pc[p] /\ (p \in rerun => p \in rerun')
        BY <2>8 DEF JobRetried
      <3>4. delivered[o] = 0
        BY <2>8 DEF JobRetried
      <3>5. found' = found /\ cancelling' = cancelling
        BY <2>8 DEF JobRetried
      <3>6. o \in found \cup cancelling => o \in rerun'
        BY <2>8 DEF JobRetried
      <3> QED
        BY <3>1, <3>2, <3>3, <3>4, <3>5, <3>6
    <2> QED
      BY <1>2, <2>1, <2>2, <2>3, <2>4, <2>5, <2>6, <2>7, <2>8 DEF OpNext
  <1>3. CASE UNCHANGED vars
    BY <1>3 DEF vars
  <1> QED
    BY <1>1, <1>2, <1>3 DEF Next

\* What a refund does to the operations that count in the first month.
LEMMA RefundExact ==
  ASSUME IInv, month = 0, NEW o \in Ops, Refund(o), taken' = taken
  PROVE count' = Used(0)'
  <1> USE DEF IInv, TypeOK
  <1>1. Charged \subseteq Ops /\ IsFiniteSet(UnitsOf(Charged))
    BY UnitsFinite DEF Charged
  <1>2. count = Cardinality(UnitsOf(Charged))
    BY UsedIsUnits DEF ExactWithinMonth, Used
  <1>3. HeldUnits(0)' = UnitsOf(Charged')
    BY DEF HeldUnits, UnitsOf, Charged
  <1>4. CASE hold[o] = "pending" /\ count >= Quantity[o]
    <2>1. o \in Charged
      BY <1>4 DEF Charged, Counts, FirstMonth
    <2>2. Charged' = Charged \ {o}
      BY <1>4 DEF Refund, Charged, Counts
    <2>3. Cardinality(UnitsOf(Charged \ {o})) = Cardinality(UnitsOf(Charged)) - Quantity[o]
      BY <1>1, <2>1, UnitsRemove
    <2> QED
      BY <1>2, <1>3, <1>4, <2>2, <2>3 DEF Refund, Used
  <1>5. CASE ~(hold[o] = "pending" /\ count >= Quantity[o])
    <2>1. Charged' = Charged /\ count' = count
      BY <1>5 DEF Refund, Charged, Counts
    <2> QED
      BY <1>2, <1>3, <2>1 DEF Used
  <1> QED
    BY <1>4, <1>5

LEMMA ExactStep ==
  ASSUME IInv, [Next]_vars
  PROVE ExactWithinMonth'
  <1> SUFFICES ASSUME month' = 0 PROVE count' = Used(0)'
    BY DEF ExactWithinMonth
  <1> USE DEF IInv, TypeOK, Goto, tenant, settling
  <1>1. Charged \subseteq Ops /\ IsFiniteSet(UnitsOf(Charged))
    BY UnitsFinite DEF Charged
  <1>2. month = 0 => count = Cardinality(UnitsOf(Charged))
    BY UsedIsUnits DEF ExactWithinMonth, Used
  <1>3. HeldUnits(0)' = UnitsOf(Charged')
    BY DEF HeldUnits, UnitsOf, Charged
  <1>4. ASSUME month = 0, Charged' = Charged, count' = count PROVE count' = Used(0)'
    BY <1>2, <1>3, <1>4 DEF Used
  <1>5. CASE MonthTurns
    BY <1>5, QuotaAssumption DEF MonthTurns, Months
  <1>6. ASSUME NEW o \in Ops, OpNext(o) PROVE count' = Used(0)'
    <2>0. month = 0
      BY <1>6 DEF OpNext, WorkFirst, ReadTenant, Reserve, Deliver, Consume,
                  JobCompletes, FailsAndReleases, JobRetried, Dies, TtlPasses,
                  CancelRead, CancelWrite, ReconcileRead, ReconcileWrite
    <2>1. CASE \/ WorkFirst(o) \/ ReadTenant(o) \/ Deliver(o) \/ JobRetried(o) \/ Dies(o)
               \/ TtlPasses(o) \/ CancelRead(o) \/ ReconcileRead(o)
      <3>1. Charged' = Charged /\ count' = count
        BY <2>1 DEF WorkFirst, ReadTenant, Deliver, JobRetried, Dies, TtlPasses,
                    CancelRead, ReconcileRead, Charged, Counts
      <3> QED
        BY <1>4, <2>0, <3>1
    <2>2. CASE Reserve(o)
      <3>1. CASE Fits(CountAfterReset(o) + Quantity[o])
        <4>1. snap[o].stamp \in {NoMonth, 0}
          BY <2>0 DEF FirstMonth
        <4>2. CountAfterReset(o) = count
          BY <2>0, <4>1 DEF CountAfterReset, NewMonth
        <4>3. o \notin Charged
          BY <2>2 DEF Reserve, NoHoldYet, Charged, Counts
        <4>4. Charged' = Charged \cup {o}
          BY <2>0, <2>2, <3>1 DEF Reserve, Charged, Counts
        <4>5. Cardinality(UnitsOf(Charged \cup {o})) = Cardinality(UnitsOf(Charged)) + Quantity[o]
          BY <1>1, <4>3, UnitsAdd
        <4>6. count' = count + Quantity[o]
          BY <2>2, <3>1, <4>2 DEF Reserve
        <4> QED
          BY <1>2, <1>3, <2>0, <4>4, <4>5, <4>6 DEF Used
      <3>2. CASE ~Fits(CountAfterReset(o) + Quantity[o])
        <4>1. Charged' = Charged /\ count' = count
          BY <2>2, <3>2 DEF Reserve, Charged, Counts
        <4> QED
          BY <1>4, <2>0, <4>1
      <3> QED
        BY <3>1, <3>2
    <2>3. CASE Consume(o) \/ JobCompletes(o)
      <3>1. Charged' = Charged /\ count' = count
        BY <2>3 DEF Consume, JobCompletes, Charge, Charged, Counts
      <3> QED
        BY <1>4, <2>0, <3>1
    <2>4. CASE FailsAndReleases(o) \/ CancelWrite(o) \/ ReconcileWrite(o)
      BY <2>0, <2>4, RefundExact DEF FailsAndReleases, CancelWrite, ReconcileWrite
    <2> QED
      BY <1>6, <2>1, <2>2, <2>3, <2>4 DEF OpNext
  <1>7. ASSUME UNCHANGED vars PROVE count' = Used(0)'
    <2>1. Charged' = Charged /\ count' = count /\ month = 0
      BY <1>7 DEF vars, Charged, Counts
    <2> QED
      BY <1>4, <2>1
  <1> QED
    BY <1>5, <1>6, <1>7 DEF Next

-----------------------------------------------------------------------------
(* The theorems *)

LEMMA Initially ==
  ASSUME Init
  PROVE IInv
  <1>1. TypeOK
    BY QuotaAssumption DEF Init, TypeOK, Months, Stamps, NoMonth
  <1>2. FirstMonth /\ NoHoldYet
    BY DEF Init, FirstMonth, NoHoldYet
  <1>3. JobHolds
    BY DEF Init, JobHolds
  <1>4. UnitsOf(Charged) = {}
    BY DEF Init, UnitsOf, Charged, Counts
  <1>5. Used(0) = 0
    BY <1>4, UsedIsUnits, FS_EmptySet DEF Used
  <1>6. ExactWithinMonth
    BY <1>5 DEF Init, ExactWithinMonth
  <1> QED
    BY <1>1, <1>2, <1>3, <1>6 DEF IInv

\* The invariant the other theorems rest on: types, what anybody can have seen
\* of the first month, holds taken once, jobs charged with their result.
THEOREM Inductive == Spec => []IInv
  <1>1. Init => IInv
    BY Initially
  <1>2. IInv /\ [Next]_vars => IInv'
    BY TypeStep, FirstMonthStep, NoHoldStep, JobHoldsStep, ExactStep DEF IInv
  <1> QED
    BY <1>1, <1>2, PTL DEF Spec

\* The counter never leaves 0..Limit: the conditional increment of a
\* reservation and the conditional decrement of a release see to both ends.
THEOREM TypeCorrect == Spec => []TypeOK
  <1>1. IInv => TypeOK
    BY DEF IInv
  <1> QED
    BY <1>1, Inductive, PTL

\* Until a month turns, reserve, consume, release and reconcile keep the tenant's
\* counter equal to the analyses held or paid for.
THEOREM Exact == Spec => []ExactWithinMonth
  <1>1. IInv => ExactWithinMonth
    BY DEF IInv
  <1> QED
    BY <1>1, Inductive, PTL

\* complete_queue_job, the failure path, cancellations and the reconciler, which
\* all read the job before they settle its hold, together charge a job only when
\* it delivered, and always when it was not retried across a release of its hold.
THEOREM JobsCharged == Spec => []JobsChargedIffDelivered
  <1>1. IInv => JobsChargedIffDelivered
    <2> SUFFICES ASSUME IInv, NEW o \in Ops, KindOf[o] = "job", pc[o] = "ended"
                 PROVE /\ hold[o] = "consumed" => delivered[o] = Quantity[o]
                       /\ delivered[o] = Quantity[o] => hold[o] = "consumed" \/ o \in rerun
      BY DEF JobsChargedIffDelivered
    <2>1. Quantity[o] \in Nat \ {0}
      BY QuotaAssumption
    <2> QED
      BY <2>1 DEF IInv, JobHolds, Uncharged
  <1> QED
    BY <1>1, Inductive, PTL

\* No interleaving of consume, release and reconciler settles a hold twice.
THEOREM Settled == Spec => SettledHolds
  <1> DEFINE Frozen == \A o \in Ops : hold[o] \in {"consumed", "released"} => hold'[o] = hold[o]
  <1>1. IInv /\ [Next]_vars => [Frozen]_hold
    <2> SUFFICES ASSUME IInv, [Next]_vars PROVE [Frozen]_hold
      OBVIOUS
    <2> USE DEF IInv, TypeOK, NoHoldYet, Goto, tenant, settling
    <2>1. CASE MonthTurns
      BY <2>1 DEF MonthTurns
    <2>2. ASSUME NEW o \in Ops, OpNext(o) PROVE [Frozen]_hold
      BY <2>2 DEF OpNext, WorkFirst, ReadTenant, Reserve, Deliver, Consume, Charge,
                  JobCompletes, FailsAndReleases, Refund, JobRetried, Dies,
                TtlPasses, CancelRead, CancelWrite, ReconcileRead, ReconcileWrite
    <2>3. CASE UNCHANGED vars
      BY <2>3 DEF vars
    <2> QED
      BY <2>1, <2>2, <2>3 DEF Next
  <1> QED
    BY <1>1, Inductive, PTL DEF Spec, SettledHolds

-----------------------------------------------------------------------------
(* The refinement: the holds of the jobs keep the contract JobBilling.      *)

LEMMA BillingInit == Init => Billing!Init
  <1> SUFFICES ASSUME Init PROVE Billing!Init
    OBVIOUS
  <1>1. \A o \in JobOps : delivered[o] # Quantity[o] /\ hold[o] = "none"
    BY QuotaAssumption DEF Init, JobOps
  <1> QED
    BY <1>1 DEF Billing!Init

\* A hold that is open, or was given back, is one of a job without a result
\* until that job completes.
LEMMA Unfinished ==
  ASSUME IInv, NEW o \in JobOps, pc[o] = "running" \/ hold[o] = "pending"
  PROVE delivered[o] # Quantity[o]
  <1>1. o \in Ops /\ KindOf[o] = "job" /\ Quantity[o] # 0
    BY QuotaAssumption DEF JobOps
  <1>2. delivered[o] = 0
    BY <1>1 DEF IInv, JobHolds, NoHoldYet, TypeOK, Uncharged
  <1> QED
    BY <1>1, <1>2

\* What a step does to the hold and the result of a job is a step of the
\* contract or nothing.
LEMMA BillingStep == IInv /\ [Next]_vars => [Billing!Next]_(Billing!vars)
  <1> DEFINE account == [o \in JobOps |-> hold[o]]
             done == [o \in JobOps |-> delivered[o] = Quantity[o]]
             Goal == [Billing!Next]_(Billing!vars)
  <1> SUFFICES ASSUME IInv, [Next]_vars PROVE Goal
    OBVIOUS
  <1>a. ASSUME account' = account, done' = done PROVE Goal
    BY <1>a DEF Billing!vars
  <1>b. ASSUME UNCHANGED <<hold, delivered>> PROVE Goal
    BY <1>a, <1>b
  <1>c. TypeOK /\ NoHoldYet /\ JobHolds
    BY DEF IInv
  <1>d. ASSUME NEW o \in Ops, Refund(o), delivered' = delivered PROVE Goal
    <2>1. CASE o \in JobOps /\ hold' # hold
      <3>1. hold[o] = "pending" /\ hold' = [hold EXCEPT ![o] = "released"]
        BY <1>d, <2>1 DEF Refund
      <3>2. account' = [account EXCEPT ![o] = "released"] /\ done' = done
        BY <1>c, <1>d, <3>1 DEF TypeOK, JobOps
      <3>3. account[o] = "pending" /\ ~done[o]
        BY <2>1, <3>1, Unfinished
      <3>4. Billing!Refund(o)
        BY <3>2, <3>3 DEF Billing!Refund
      <3> QED
        BY <2>1, <3>4 DEF Billing!Next
    <2>2. CASE o \notin JobOps
      <3>1. account' = account
        BY <1>c, <1>d, <2>2 DEF Refund, TypeOK, JobOps
      <3> QED
        BY <1>a, <1>d, <3>1
    <2>3. CASE hold' = hold
      BY <1>b, <1>d, <2>3
    <2> QED
      BY <2>1, <2>2, <2>3
  <1>1. CASE MonthTurns
    BY <1>1, <1>b DEF MonthTurns
  <1>2. ASSUME NEW o \in Ops, OpNext(o) PROVE Goal
    <2>1. CASE WorkFirst(o)
      <3>1. hold' = hold /\ o \notin JobOps
        BY <2>1 DEF WorkFirst, JobOps
      <3>2. done' = done
        BY <2>1, <1>c, <3>1 DEF WorkFirst, TypeOK, JobOps
      <3> QED
        BY <1>a, <3>1, <3>2
    <2>2. CASE \/ ReadTenant(o) \/ Dies(o) \/ TtlPasses(o) \/ JobRetried(o)
               \/ CancelRead(o) \/ ReconcileRead(o)
      BY <1>b, <2>2 DEF ReadTenant, Dies, TtlPasses, JobRetried, CancelRead, ReconcileRead
    <2>3. CASE Reserve(o)
      <3>1. delivered' = delivered /\ hold[o] = "none"
        BY <1>c, <2>3 DEF Reserve, NoHoldYet
      <3>2. CASE o \in JobOps /\ hold' # hold
        <4>1. hold' = [hold EXCEPT ![o] = "pending"]
          BY <2>3, <3>2 DEF Reserve
        <4>2. account' = [account EXCEPT ![o] = "pending"] /\ done' = done
          BY <1>c, <3>1, <4>1 DEF TypeOK, JobOps
        <4>3. Billing!Open(o)
          BY <3>1, <3>2, <4>2 DEF Billing!Open
        <4> QED
          BY <3>2, <4>3 DEF Billing!Next
      <3>3. CASE o \notin JobOps
        <4>1. account' = account
          BY <1>c, <2>3, <3>3 DEF Reserve, TypeOK, JobOps
        <4> QED
          BY <1>a, <3>1, <4>1
      <3>4. CASE hold' = hold
        BY <1>b, <3>1, <3>4
      <3> QED
        BY <3>2, <3>3, <3>4
    <2>4. CASE Deliver(o) \/ Consume(o)
      <3>1. o \notin JobOps
        BY <2>4 DEF Deliver, Consume, JobOps
      <3>2. account' = account /\ done' = done
        BY <1>c, <2>4, <3>1 DEF Deliver, Consume, Charge, TypeOK, JobOps
      <3> QED
        BY <1>a, <3>2
    <2>5. CASE JobCompletes(o)
      <3>1. o \in JobOps /\ delivered' = [delivered EXCEPT ![o] = Quantity[o]]
        BY <2>5 DEF JobCompletes, JobOps
      <3>2. done' = [done EXCEPT ![o] = TRUE]
        BY <1>c, <3>1 DEF TypeOK, JobOps
      <3>3. ~done[o]
        BY <2>5, <3>1, Unfinished DEF JobCompletes
      <3>4. CASE hold[o] = "pending"
        <4>1. account' = [account EXCEPT ![o] = "consumed"]
          BY <1>c, <2>5, <3>1, <3>4 DEF JobCompletes, Charge, TypeOK, JobOps
        <4>2. Billing!Charge(o)
          BY <3>1, <3>2, <3>3, <3>4, <4>1 DEF Billing!Charge
        <4> QED
          BY <3>1, <4>2 DEF Billing!Next
      <3>5. CASE hold[o] = "released"
        <4>1. account' = account
          BY <1>c, <2>5, <3>1, <3>5 DEF JobCompletes, Charge, TypeOK, JobOps
        <4>2. Billing!DeliverFree(o)
          BY <3>1, <3>2, <3>3, <3>5, <4>1 DEF Billing!DeliverFree
        <4> QED
          BY <3>1, <4>2 DEF Billing!Next
      <3>6. hold[o] \in {"pending", "released"}
        BY <1>c, <2>5 DEF JobCompletes, JobHolds, Uncharged
      <3> QED
        BY <3>4, <3>5, <3>6
    <2>6. CASE FailsAndReleases(o) \/ CancelWrite(o) \/ ReconcileWrite(o)
      BY <1>d, <2>6 DEF FailsAndReleases, CancelWrite, ReconcileWrite
    <2> QED
      BY <1>2, <2>1, <2>2, <2>3, <2>4, <2>5, <2>6 DEF OpNext
  <1>3. CASE UNCHANGED vars
    BY <1>3, <1>b DEF vars
  <1> QED
    BY <1>1, <1>2, <1>3 DEF Next

\* The ledger implements, for the jobs among its operations, the contract that
\* the queue implements as well.
THEOREM ImplementsBilling == Spec => BillingContract
  BY Inductive, BillingInit, BillingStep, PTL
     DEF Spec, BillingContract, Billing!Spec

-----------------------------------------------------------------------------
(* What the contract promises therefore holds of the ledger. *)

Contract == INSTANCE JobBillingProofs
              WITH Jobs <- JobOps,
                   account <- [o \in JobOps |-> hold[o]],
                   delivered <- [o \in JobOps |-> delivered[o] = Quantity[o]]

\* The two instances of the contract are the same specification.
LEMMA SameContract == BillingContract => Contract!Spec
  <1>1. Billing!Init => Contract!Init
    BY DEF Billing!Init, Contract!Init
  <1>2. [Billing!Next]_(Billing!vars) => [Contract!Next]_(Contract!vars)
    BY DEF Billing!Next, Contract!Next, Billing!vars, Contract!vars,
           Billing!Open, Contract!Open, Billing!Charge, Contract!Charge,
           Billing!Refund, Contract!Refund, Billing!DeliverFree, Contract!DeliverFree
  <1> QED
    BY <1>1, <1>2, PTL DEF BillingContract, Billing!Spec, Contract!Spec

\* At no moment of a job, whether it runs, was retried or is over, is its hold
\* charged without its result or left open beside it.
THEOREM ChargedWithResult == Spec => []Contract!PaidIsDelivered
  BY ImplementsBilling, SameContract, Contract!Paid, PTL

\* No reset, refund, reconciliation or retry takes back the charge, the refund
\* or the result of a job, or charges for one that was refunded.
THEOREM NeverTakenBack == Spec => Contract!NothingTakenBack
  BY ImplementsBilling, SameContract, Contract!Kept, PTL

=============================================================================
