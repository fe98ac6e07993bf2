--------------------------- MODULE BillingProofs ---------------------------
(***************************************************************************)
(* Billing.tla for any events, handlers, passes and bounds: an event takes *)
(* effect once, payments and invoices go together, dunning locks nobody    *)
(* out early, a tenant shown as suspended is locked, and a settled dunning *)
(* record stays settled.                                                   *)
(***************************************************************************)
EXTENDS Billing, TLAPS

(* A handler that holds the row of an event holds it alone, and the event  *)
(* has not been applied.                                                   *)
Exclusive ==
    \A g, h \in Handlers :
      /\ work[h].pc # "idle" => work[h].event \in Events
      /\ work[h].pc \in Holding => events[work[h].event] # "success"
      /\ work[g].pc \in Holding /\ work[h].pc \in Holding
           /\ work[g].event = work[h].event => g = h

(* Every count that may be written back is one behind the failures seen.   *)
Counted ==
    /\ \A i \in DOMAIN dunning : dunning[i].count < refused
    /\ \A h \in Handlers : work[h].pc = "looked" /\ work[h].record # 0
                             => work[h].count < refused
    /\ \A p \in Passes : pass[p].on => pass[p].count < refused

IInv == /\ TypeOK
        /\ Exclusive
        /\ AppliedOnce
        /\ PaymentsInvoiced
        /\ NeverReopened => Counted
        /\ NoEarlySuspension
        /\ SuspendedIsLocked

-----------------------------------------------------------------------------
(* What the writes of a dunning record do.                                 *)
LEMMA DunningTyped ==
    ASSUME dunning \in Seq(Records)
    PROVE  \A j \in DOMAIN dunning : j \in Nat /\ dunning[j].count \in Nat
  <1>1. \A j \in DOMAIN dunning : j \in Nat /\ dunning[j] \in Records
    OBVIOUS
  <1> QED BY <1>1 DEF Records

LEMMA ResolvedTyped ==
    ASSUME dunning \in Seq(Records), NEW i
    PROVE  /\ Resolved(i) \in Seq(Records)
           /\ DOMAIN Resolved(i) = DOMAIN dunning
           /\ \A j \in DOMAIN dunning :
                /\ Resolved(i)[j].count = dunning[j].count
                /\ dunning[j].status # "active" => Resolved(i)[j].status # "active"
  <1> DEFINE r == Resolved(i)
  <1>1. /\ DOMAIN r = DOMAIN dunning
        /\ \A j \in DOMAIN dunning :
             r[j] = IF j = i THEN [status |-> "resolved", count |-> dunning[i].count]
                    ELSE dunning[j]
    BY DEF Resolved
  <1>2. DOMAIN dunning = 1..Len(dunning) /\ \A j \in DOMAIN dunning : dunning[j] \in Records
    OBVIOUS
  <1>3. \A j \in DOMAIN dunning : r[j] \in Records
    BY <1>1, <1>2 DEF Records
  <1>4. r \in Seq(Records)
    <2>1. r = [j \in 1..Len(dunning) |-> r[j]]
      BY <1>1, <1>2 DEF Resolved
    <2> QED BY <2>1, <1>2, <1>3
  <1> QED BY <1>1, <1>4

LEMMA PunishedTyped ==
    ASSUME dunning \in Seq(Records), NEW i, NEW n \in Nat
    PROVE  /\ Punished(i, n) \in Seq(Records)
           /\ DOMAIN Punished(i, n) = DOMAIN dunning
           /\ \A j \in DOMAIN dunning :
                /\ Punished(i, n)[j].count \in {dunning[j].count, n + 1}
                /\ dunning[j].status # "active" => Punished(i, n)[j].status # "active"
  <1> DEFINE r == Punished(i, n)
  <1>1. /\ DOMAIN r = DOMAIN dunning
        /\ \A j \in DOMAIN dunning :
             r[j] = IF j = i
                    THEN [status |-> IF UsedUp(n) THEN "exhausted" ELSE dunning[i].status,
                          count |-> n + 1]
                    ELSE dunning[j]
    BY DEF Punished
  <1>2. DOMAIN dunning = 1..Len(dunning) /\ \A j \in DOMAIN dunning : dunning[j] \in Records
    OBVIOUS
  <1>3. \A j \in DOMAIN dunning : r[j] \in Records
    BY <1>1, <1>2 DEF Records
  <1>4. r \in Seq(Records)
    <2>1. r = [j \in 1..Len(dunning) |-> r[j]]
      BY <1>1, <1>2 DEF Punished
    <2> QED BY <2>1, <1>2, <1>3
  <1> QED BY <1>1, <1>4

LEMMA OpenedTyped ==
    ASSUME dunning \in Seq(Records)
    PROVE  /\ Opened \in Seq(Records)
           /\ \A j \in DOMAIN dunning : Opened[j] = dunning[j]
           /\ \A j \in DOMAIN Opened : j \in DOMAIN dunning \/ Opened[j].count = 0
  <1> DEFINE z == [status |-> "active", count |-> 0]
  <1>1. z \in Records /\ z.count = 0
    BY DEF Records
  <1>2. Opened = Append(dunning, z)
    BY DEF Opened
  <1> HIDE DEF z
  <1>3. Append(dunning, z) \in Seq(Records)
    BY <1>1
  <1>4. \A j \in DOMAIN dunning : Append(dunning, z)[j] = dunning[j]
    OBVIOUS
  <1>5. \A j \in DOMAIN Append(dunning, z) : j \in DOMAIN dunning \/ Append(dunning, z)[j] = z
    OBVIOUS
  <1> QED BY <1>1, <1>2, <1>3, <1>4, <1>5

LEMMA WorkTyped ==
    ASSUME NEW pc \in {"idle", "claimed", "unmatched", "looked", "failing", "noting"},
           NEW e \in Events \union {NoEvent}, NEW s \in Statuses, NEW i \in Nat,
           NEW n \in Nat, NEW r \in Results
    PROVE  [pc |-> pc, event |-> e, status |-> s, record |-> i, count |-> n,
            result |-> r] \in Work
  BY DEF Work

(* A handler that lets go leaves the others as exclusive as they were.      *)
LEMMA ExclusiveKept ==
    ASSUME Exclusive, NEW h \in Handlers,
           \A g \in Handlers : g # h => work'[g] = work[g],
           \A g \in Handlers : g # h /\ work[g].pc \in Holding
             => events'[work[g].event] = events[work[g].event],
           work'[h].pc \notin Holding,
           work'[h].pc # "idle" => work'[h].event \in Events
    PROVE  Exclusive'
  BY DEF Exclusive

(* The invoices agree with the payments as long as neither changes.        *)
LEMMA InvoicedKept ==
    ASSUME PaymentsInvoiced, UNCHANGED <<kind, invoices>>,
           \A e \in Events : kind[e] \in Payments => applied'[e] = applied[e]
    PROVE  PaymentsInvoiced'
  <1> DEFINE Paid == {x \in Events : kind[x] \in Payments /\ applied[x] > 0}
  <1>1. Paid' = Paid
    OBVIOUS
  <1>2. \A x : InvoiceKey(x)' = InvoiceKey(x)
    BY DEF InvoiceKey
  <1>3. invoices = {InvoiceKey(x) : x \in Paid}
    BY DEF PaymentsInvoiced
  <1> HIDE DEF Paid
  <1>4. invoices' = {InvoiceKey(x)' : x \in Paid'}
    BY <1>1, <1>2, <1>3
  <1> QED BY <1>4 DEF PaymentsInvoiced, Paid

LEMMA AppliedKept ==
    ASSUME AppliedOnce, UNCHANGED <<applied, reopened>>,
           \A f \in Events : events'[f] = "success" <=> events[f] = "success"
    PROVE  AppliedOnce'
  BY DEF AppliedOnce

-----------------------------------------------------------------------------
(* Taking a delivery and giving it up.                                     *)
LEMMA DeliverStep ==
    ASSUME BillingAssumption, IInv, NEW h \in Handlers, Deliver(h)
    PROVE  IInv'
  <1> USE DEF IInv, TypeOK
  <1>1. PICK e \in Events :
          ~ InFlight(e) /\ (Duplicate(h, e) \/ ClaimFails(h, e) \/ Claim(h, e))
    BY DEF Deliver
  <1>2. deliveries' \in 0..MaxDeliveries /\ faults' \in 0..MaxFaults
    BY <1>1 DEF Deliver, Duplicate, ClaimFails, Claim, BillingAssumption
  <1>3. UNCHANGED <<kind, tenant, events, invoices, dunning, pass, desk, applied,
                    refused, reopened, crossed, interventions>>
    BY DEF Deliver
  <1>4. AppliedOnce' /\ PaymentsInvoiced' /\ NoEarlySuspension' /\ SuspendedIsLocked'
    BY <1>3, InvoicedKept DEF AppliedOnce, NoEarlySuspension, NeverReopened, SuspendedIsLocked
  <1>5. CASE Duplicate(h, e) \/ ClaimFails(h, e)
    <2>1. work' = work
      BY <1>5 DEF Duplicate, ClaimFails
    <2>2. TypeOK' /\ Exclusive' /\ (NeverReopened => Counted)'
      BY <1>2, <1>3, <2>1 DEF Exclusive, Counted, NeverReopened
    <2> QED BY <1>4, <2>2
  <1>6. CASE Claim(h, e)
    <2>1. PICK x \in Work : /\ work' = [work EXCEPT ![h] = x]
                            /\ x.event = e /\ x.pc \in {"claimed", "unmatched"}
      <3> DEFINE x == [pc |-> IF Matched(e) THEN "claimed" ELSE "unmatched", event |-> e,
                       status |-> tenant.status, record |-> 0, count |-> 0, result |-> "none"]
      <3>1. work' = [work EXCEPT ![h] = x]
        BY <1>6 DEF Claim
      <3>2. tenant.status \in Statuses /\ "none" \in Results
        BY DEF Tenants, Results
      <3>3. (IF Matched(e) THEN "claimed" ELSE "unmatched") \in {"claimed", "unmatched"}
        OBVIOUS
      <3>4. x \in Work
        BY <3>2, <3>3, WorkTyped
      <3>5. x.event = e /\ x.pc \in {"claimed", "unmatched"}
        BY <3>3
      <3> QED BY <3>1, <3>4, <3>5
    <2>2. work' \in [Handlers -> Work] /\ work'[h] = x
            /\ \A g \in Handlers : g # h => work'[g] = work[g]
      BY <2>1
    <2>3. TypeOK'
      BY <1>2, <1>3, <2>2
    <2>4. events[e] # "success"
      BY <1>6 DEF Claim, Done
    <2>5. \A g \in Handlers : ~ (work[g].pc \in Holding /\ work[g].event = e)
      BY <1>1 DEF InFlight
    <2>6. Exclusive'
      BY <1>3, <2>1, <2>2, <2>4, <2>5 DEF Exclusive
    <2>7. (NeverReopened => Counted)'
      BY <1>3, <2>1, <2>2 DEF Counted, NeverReopened
    <2> QED BY <1>4, <2>3, <2>6, <2>7
  <1> QED BY <1>1, <1>5, <1>6

LEMMA UnmatchedStep ==
    ASSUME IInv, NEW h \in Handlers, Unmatched(h)
    PROVE  IInv'
  <1> USE DEF IInv, TypeOK
  <1> DEFINE e == work[h].event
  <1>1. e \in Events /\ events[e] # "success" /\ work[h].pc = "unmatched"
    BY DEF Unmatched, Exclusive, Holding
  <1>2. work' = [work EXCEPT ![h] = Idle] /\ events' = [events EXCEPT ![e] = "error"]
    BY DEF Unmatched
  <1>3. UNCHANGED <<kind, tenant, invoices, dunning, pass, desk, applied, refused,
                    reopened, crossed, deliveries, interventions, faults>>
    BY DEF Unmatched
  <1>4. Idle \in Work /\ Idle.pc = "idle"
    BY DEF Idle, Work, Updates, Statuses, Results
  <1>5. work' \in [Handlers -> Work] /\ work'[h].pc = "idle"
          /\ \A g \in Handlers : g # h => work'[g] = work[g]
    BY <1>2, <1>4
  <1>6. events' \in [Events -> Results]
          /\ \A f \in Events : events'[f] = "success" <=> events[f] = "success"
    BY <1>1, <1>2 DEF Results
  <1>7. TypeOK'
    BY <1>3, <1>5, <1>6
  <1>8. Exclusive'
    <2>1. \A g \in Handlers : g # h /\ work[g].pc \in Holding
            => events'[work[g].event] = events[work[g].event]
      <3> TAKE g \in Handlers
      <3> HAVE g # h /\ work[g].pc \in Holding
      <3>1. work[g].event # e /\ work[g].event \in Events
        BY <1>1 DEF Exclusive, Holding
      <3> QED BY <3>1, <1>1, <1>2
    <2>2. work'[h].pc \notin Holding
      BY <1>5 DEF Holding
    <2> QED BY <1>5, <2>1, <2>2, ExclusiveKept
  <1>9. AppliedOnce' /\ PaymentsInvoiced' /\ NoEarlySuspension' /\ SuspendedIsLocked'
    <2>1. AppliedOnce'
      BY <1>3, <1>6, AppliedKept
    <2>2. PaymentsInvoiced'
      BY <1>3, InvoicedKept
    <2>3. NoEarlySuspension' /\ SuspendedIsLocked'
      BY <1>3, <1>6 DEF NoEarlySuspension, NeverReopened, SuspendedIsLocked
    <2> QED BY <2>1, <2>2, <2>3
  <1>10. (NeverReopened => Counted)'
    BY <1>3, <1>5 DEF Counted, NeverReopened
  <1> QED BY <1>7, <1>8, <1>9, <1>10

LEMMA CheckoutRefusedStep ==
    ASSUME IInv, NEW h \in Handlers, CheckoutRefused(h)
    PROVE  IInv'
  <1> USE DEF IInv, TypeOK
  <1> DEFINE e == work[h].event
  <1>1. e \in Events /\ events[e] # "success" /\ work[h].pc = "claimed"
    BY DEF CheckoutRefused, Exclusive, Holding
  <1>2. work' = [work EXCEPT ![h] = Idle] /\ events' = [events EXCEPT ![e] = "error"]
    BY DEF CheckoutRefused
  <1>3. UNCHANGED <<kind, invoices, dunning, pass, desk, applied, refused,
                    reopened, crossed, deliveries, interventions, faults>>
    BY DEF CheckoutRefused
  <1>4. Idle \in Work /\ Idle.pc = "idle"
    BY DEF Idle, Work, Updates, Statuses, Results
  <1>5. work' \in [Handlers -> Work] /\ work'[h].pc = "idle"
          /\ \A g \in Handlers : g # h => work'[g] = work[g]
    BY <1>2, <1>4
  <1>6. events' \in [Events -> Results]
          /\ \A f \in Events : events'[f] = "success" <=> events[f] = "success"
    BY <1>1, <1>2 DEF Results
  <1>11. tenant' \in Tenants /\ tenant'.status = tenant.status /\ tenant'.lock = tenant.lock
    BY DEF CheckoutRefused, Tenants
  <1>7. TypeOK'
    BY <1>3, <1>5, <1>6, <1>11
  <1>8. Exclusive'
    <2>1. \A g \in Handlers : g # h /\ work[g].pc \in Holding
            => events'[work[g].event] = events[work[g].event]
      <3> TAKE g \in Handlers
      <3> HAVE g # h /\ work[g].pc \in Holding
      <3>1. work[g].event # e /\ work[g].event \in Events
        BY <1>1 DEF Exclusive, Holding
      <3> QED BY <3>1, <1>1, <1>2
    <2>2. work'[h].pc \notin Holding
      BY <1>5 DEF Holding
    <2> QED BY <1>5, <2>1, <2>2, ExclusiveKept
  <1>9. AppliedOnce' /\ PaymentsInvoiced' /\ NoEarlySuspension' /\ SuspendedIsLocked'
    <2>1. AppliedOnce'
      BY <1>3, <1>6, AppliedKept
    <2>2. PaymentsInvoiced'
      BY <1>3, InvoicedKept
    <2>3. NoEarlySuspension' /\ SuspendedIsLocked'
      BY <1>3, <1>6, <1>11 DEF NoEarlySuspension, NeverReopened, SuspendedIsLocked
    <2> QED BY <2>1, <2>2, <2>3
  <1>10. (NeverReopened => Counted)'
    BY <1>3, <1>5 DEF Counted, NeverReopened
  <1> QED BY <1>7, <1>8, <1>9, <1>10

LEMMA CrashStep ==
    ASSUME BillingAssumption, IInv, NEW h \in Handlers, Crash(h)
    PROVE  IInv'
  <1> USE DEF IInv, TypeOK
  <1>1. work' = [work EXCEPT ![h] = Idle] /\ faults' \in 0..MaxFaults
    BY DEF Crash, BillingAssumption
  <1>2. UNCHANGED <<kind, tenant, events, invoices, dunning, pass, desk, applied,
                    refused, reopened, crossed, deliveries, interventions>>
    BY DEF Crash
  <1>3. Idle \in Work /\ Idle.pc = "idle"
    BY DEF Idle, Work, Updates, Statuses, Results
  <1>4. work' \in [Handlers -> Work] /\ work'[h].pc = "idle"
          /\ \A g \in Handlers : g # h => work'[g] = work[g]
    BY <1>1, <1>3
  <1>5. TypeOK'
    BY <1>1, <1>2, <1>4
  <1>6. Exclusive'
    BY <1>2, <1>4, ExclusiveKept DEF Holding
  <1>7. AppliedOnce' /\ PaymentsInvoiced' /\ NoEarlySuspension' /\ SuspendedIsLocked'
    BY <1>2, InvoicedKept DEF AppliedOnce, NoEarlySuspension, NeverReopened, SuspendedIsLocked
  <1>8. (NeverReopened => Counted)'
    BY <1>2, <1>4 DEF Counted, NeverReopened
  <1> QED BY <1>5, <1>6, <1>7, <1>8

LEMMA RaiseStep ==
    ASSUME BillingAssumption, IInv, NEW h \in Handlers, Raise(h)
    PROVE  IInv'
  <1> USE DEF IInv, TypeOK
  <1>1. faults' \in 0..MaxFaults
    BY DEF Raise, BillingAssumption
  <1>2. UNCHANGED <<kind, tenant, events, invoices, dunning, pass, desk, applied,
                    refused, reopened, crossed, deliveries, interventions>>
    BY DEF Raise
  <1>3. PICK x \in Work : /\ work' = [work EXCEPT ![h] = x]
                          /\ x.pc = "failing" /\ x.event = work[h].event
    <2> DEFINE x == [pc |-> "failing", event |-> work[h].event, status |-> "active",
                     record |-> 0, count |-> 0, result |-> "none"]
    <2>1. work' = [work EXCEPT ![h] = x]
      BY DEF Raise
    <2>2. work[h].event \in Events /\ "none" \in Results /\ "active" \in Statuses
      BY DEF Exclusive, Raise, Results, Statuses, Updates
    <2>3. x \in Work
      BY <2>2, WorkTyped
    <2> QED BY <2>1, <2>3
  <1>4. work' \in [Handlers -> Work] /\ work'[h] = x
          /\ \A g \in Handlers : g # h => work'[g] = work[g]
    BY <1>3
  <1>5. TypeOK'
    BY <1>1, <1>2, <1>4
  <1>6. work[h].event \in Events
    BY DEF Exclusive, Raise
  <1>7. Exclusive'
    BY <1>2, <1>3, <1>4, <1>6, ExclusiveKept DEF Holding
  <1>8. AppliedOnce' /\ PaymentsInvoiced' /\ NoEarlySuspension' /\ SuspendedIsLocked'
    BY <1>2, InvoicedKept DEF AppliedOnce, NoEarlySuspension, NeverReopened, SuspendedIsLocked
  <1>9. (NeverReopened => Counted)'
    BY <1>2, <1>3, <1>4 DEF Counted, NeverReopened
  <1> QED BY <1>5, <1>7, <1>8, <1>9

LEMMA NoteReadStep ==
    ASSUME IInv, NEW h \in Handlers, NoteRead(h)
    PROVE  IInv'
  <1> USE DEF IInv, TypeOK
  <1>1. UNCHANGED <<kind, tenant, events, invoices, dunning, pass, desk, applied,
                    refused, reopened, crossed, deliveries, interventions, faults>>
    BY DEF NoteRead
  <1>2. work[h].event \in Events
    BY DEF Exclusive, NoteRead
  <1>3. PICK x \in Work : /\ work' = [work EXCEPT ![h] = x]
                          /\ x.pc = "noting" /\ x.event = work[h].event
    <2> DEFINE x == [pc |-> "noting", event |-> work[h].event, status |-> "active",
                     record |-> 0, count |-> 0, result |-> events[work[h].event]]
    <2>1. work' = [work EXCEPT ![h] = x]
      BY DEF NoteRead
    <2>2. /\ work[h].event \in Events /\ events[work[h].event] \in Results
          /\ "active" \in Statuses
      BY DEF Exclusive, NoteRead, Results, Statuses, Updates
    <2>3. x \in Work
      BY <2>2, WorkTyped
    <2> QED BY <2>1, <2>3
  <1>4. work' \in [Handlers -> Work] /\ work'[h] = x
          /\ \A g \in Handlers : g # h => work'[g] = work[g]
    BY <1>3
  <1>5. TypeOK'
    BY <1>1, <1>4
  <1>6. Exclusive'
    BY <1>1, <1>2, <1>3, <1>4, ExclusiveKept DEF Holding
  <1>7. AppliedOnce' /\ PaymentsInvoiced' /\ NoEarlySuspension' /\ SuspendedIsLocked'
    BY <1>1, InvoicedKept DEF AppliedOnce, NoEarlySuspension, NeverReopened, SuspendedIsLocked
  <1>8. (NeverReopened => Counted)'
    BY <1>1, <1>3, <1>4 DEF Counted, NeverReopened
  <1> QED BY <1>5, <1>6, <1>7, <1>8


LEMMA LookUpStep ==
    ASSUME IInv, NEW h \in Handlers, LookUp(h)
    PROVE  IInv'
  <1> USE DEF IInv, TypeOK
  <1>1. UNCHANGED <<kind, tenant, events, invoices, dunning, pass, desk, applied,
                    refused, reopened, crossed, deliveries, interventions, faults>>
    BY DEF LookUp
  <1>2. PICK i \in Found :
          work' = [work EXCEPT ![h] =
            [pc |-> "looked", event |-> work[h].event, status |-> work[h].status,
             record |-> i, count |-> Count(i), result |-> "none"]]
    BY DEF LookUp
  <1>3. work[h].pc = "claimed" /\ work[h].event \in Events
    BY DEF LookUp, Exclusive
  <1> DEFINE x == [pc |-> "looked", event |-> work[h].event, status |-> work[h].status,
                   record |-> i, count |-> Count(i), result |-> "none"]
  <1>4. i = 0 \/ (i \in DOMAIN dunning /\ Count(i) = dunning[i].count)
    BY DEF Found, Active, Count
  <1>5. i \in Nat /\ Count(i) \in Nat
    <2>1. \A j \in DOMAIN dunning : j \in Nat /\ dunning[j].count \in Nat
      BY DunningTyped
    <2> QED BY <2>1, <1>4 DEF Count
  <1>6. work[h].status \in Statuses /\ "none" \in Results
    BY DEF Work, Results
  <1>7. x \in Work
    BY <1>3, <1>5, <1>6, WorkTyped
  <1>8. /\ x.pc = "looked" /\ x.event = work[h].event
        /\ x.record = i /\ x.count = Count(i)
    OBVIOUS
  <1>9. work' = [work EXCEPT ![h] = x]
    BY <1>2
  <1> HIDE DEF x
  <1>10. work' \in [Handlers -> Work] /\ work'[h] = x
           /\ \A g \in Handlers : g # h => work'[g] = work[g]
    BY <1>7, <1>9
  <1>11. TypeOK'
    BY <1>1, <1>10
  <1>12. Exclusive'
    <2>1. \A g \in Handlers : work'[g].event = work[g].event
            /\ (work'[g].pc \in Holding <=> work[g].pc \in Holding)
            /\ (work'[g].pc = "idle" <=> work[g].pc = "idle")
      BY <1>3, <1>8, <1>10 DEF Holding
    <2> QED BY <1>1, <2>1 DEF Exclusive
  <1>13. AppliedOnce' /\ PaymentsInvoiced' /\ NoEarlySuspension' /\ SuspendedIsLocked'
    BY <1>1, InvoicedKept DEF AppliedOnce, NoEarlySuspension, NeverReopened, SuspendedIsLocked
  <1>14. (NeverReopened => Counted)'
    <2>1. ASSUME NeverReopened
          PROVE  i # 0 => Count(i) < refused
      BY <1>4, <2>1 DEF Counted, NeverReopened
    <2> QED BY <1>1, <1>8, <1>10, <2>1 DEF Counted, NeverReopened
  <1> QED BY <1>11, <1>12, <1>13, <1>14

LEMMA NoteWriteStep ==
    ASSUME IInv, NEW h \in Handlers, NoteWrite(h)
    PROVE  IInv'
  <1> USE DEF IInv, TypeOK
  <1> DEFINE e == work[h].event
  <1>1. /\ e \in Events /\ ~ InFlight(e)
        /\ events' = [events EXCEPT ![e] = Noted(h)]
        /\ reopened' = IF events[e] = "success" /\ Noted(h) = "error"
                       THEN [reopened EXCEPT ![e] = @ + 1] ELSE reopened
        /\ work' = [work EXCEPT ![h] = Idle]
    BY DEF NoteWrite, Exclusive
  <1>2. UNCHANGED <<kind, tenant, invoices, dunning, pass, desk, applied, refused,
                    crossed, deliveries, interventions, faults>>
    BY DEF NoteWrite
  <1>3. Idle \in Work /\ Idle.pc = "idle"
    BY DEF Idle, Work, Updates, Statuses, Results
  <1>4. work' \in [Handlers -> Work] /\ work'[h].pc = "idle"
          /\ \A g \in Handlers : g # h => work'[g] = work[g]
    BY <1>1, <1>3
  <1>5. Noted(h) \in {events[e], "error"} /\ Noted(h) \in Results
    BY <1>1 DEF Noted, Assign, Results
  <1>6. /\ events' \in [Events -> Results]
        /\ events'[e] = Noted(h) /\ \A f \in Events : f # e => events'[f] = events[f]
    BY <1>1, <1>5
  <1>7. /\ reopened' \in [Events -> Nat]
        /\ reopened'[e] = reopened[e] +
             (IF events[e] = "success" /\ Noted(h) = "error" THEN 1 ELSE 0)
        /\ \A f \in Events : f # e => reopened'[f] = reopened[f]
    BY <1>1
  <1>8. TypeOK'
    BY <1>2, <1>4, <1>6, <1>7
  <1>9. Exclusive'
    <2>1. \A g \in Handlers : ~ (work[g].pc \in Holding /\ work[g].event = e)
      BY <1>1 DEF InFlight
    <2>2. "idle" \notin Holding
      BY DEF Holding
    <2>3. \A g \in Handlers : work[g].pc \in Holding
            => events'[work[g].event] = events[work[g].event]
      <3> TAKE g \in Handlers
      <3> HAVE work[g].pc \in Holding
      <3>1. work[g].event \in Events /\ work[g].event # e
        BY <2>1, <2>2 DEF Exclusive
      <3> QED BY <3>1, <1>6
    <2> QED BY <1>4, <2>2, <2>3, ExclusiveKept
  <1>10. AppliedOnce'
    <2>2. events[e] # "success" => events'[e] # "success"
      BY <1>5, <1>6
    <2>3. events[e] = "success" /\ events'[e] # "success" => Noted(h) = "error"
      BY <1>5, <1>6
    <2>4. events[e] = "success" /\ Noted(h) = "error" => events'[e] # "success"
      BY <1>6
    <2>5. applied[e] = reopened[e] + (IF events[e] = "success" THEN 1 ELSE 0)
            /\ reopened[e] \in Nat /\ applied'[e] = applied[e]
      BY <1>1, <1>2 DEF AppliedOnce
    <2>6. applied'[e] = reopened'[e] + (IF events'[e] = "success" THEN 1 ELSE 0)
      BY <2>2, <2>3, <2>4, <2>5, <1>7
    <2>7. \A f \in Events : f # e =>
            applied'[f] = reopened'[f] + (IF events'[f] = "success" THEN 1 ELSE 0)
      BY <1>2, <1>6, <1>7 DEF AppliedOnce
    <2> QED BY <2>6, <2>7 DEF AppliedOnce
  <1>11. NeverReopened' => NeverReopened
    BY <1>7 DEF NeverReopened
  <1>12. PaymentsInvoiced' /\ NoEarlySuspension' /\ SuspendedIsLocked'
    BY <1>2, <1>11, InvoicedKept DEF NoEarlySuspension, NeverReopened, SuspendedIsLocked
  <1>13. (NeverReopened => Counted)'
    BY <1>2, <1>4, <1>11 DEF Counted, NeverReopened
  <1> QED BY <1>8, <1>9, <1>10, <1>12, <1>13

-----------------------------------------------------------------------------
(* The commit of a delivery, whatever it does beside.                      *)
LEMMA CommitStep ==
    ASSUME IInv, NEW h \in Handlers, NEW STATE s, NEW STATE k,
           s \in Updates, k \in BOOLEAN, work[h].pc \in Holding, Commit(h, s, k)
    PROVE  /\ work[h].event \in Events
           /\ NeverReopened => applied[work[h].event] = 0
           /\ UNCHANGED <<kind, pass, desk, reopened, crossed, deliveries,
                          interventions>>
           /\ tenant' \in Tenants /\ tenant'.lock = tenant.lock
           /\ events' \in [Events -> Results]
           /\ applied' \in [Events -> Nat]
           /\ applied'[work[h].event] = applied[work[h].event] + 1
           /\ \A f \in Events : f # work[h].event => applied'[f] = applied[f]
           /\ work' \in [Handlers -> Work] /\ work'[h].pc = "idle"
           /\ \A g \in Handlers : g # h => work'[g] = work[g]
           /\ Exclusive' /\ AppliedOnce' /\ SuspendedIsLocked'
  <1> USE DEF IInv, TypeOK
  <1> DEFINE e == work[h].event
  <1>1. e \in Events /\ events[e] # "success"
    BY DEF Exclusive, Holding
  <1>2. /\ tenant' = [tenant EXCEPT !.status = Assign(@, work[h].status, s),
                                    !.known = k]
        /\ events' = [events EXCEPT ![e] = "success"]
        /\ applied' = [applied EXCEPT ![e] = @ + 1]
        /\ work' = [work EXCEPT ![h] = Idle]
        /\ UNCHANGED <<kind, pass, desk, reopened, crossed, deliveries,
                       interventions>>
    BY DEF Commit, Outcome
  <1>3. applied[e] = reopened[e] /\ reopened[e] \in Nat
          /\ (NeverReopened => applied[e] = 0)
    BY <1>1 DEF AppliedOnce, NeverReopened
  <1>4. Assign(tenant.status, work[h].status, s) \in Updates \union {tenant.status}
    BY DEF Assign
  <1>5. tenant \in Tenants /\ tenant.status \in Statuses
    BY DEF Tenants
  <1>6. tenant' \in Tenants /\ tenant'.lock = tenant.lock
    BY <1>2, <1>4, <1>5 DEF Tenants, Statuses
  <1>7. tenant'.status = "suspended" => tenant.status = "suspended"
    BY <1>2, <1>4 DEF Updates
  <1>8. Idle \in Work /\ Idle.pc = "idle"
    BY DEF Idle, Work, Updates, Statuses, Results
  <1>9. work' \in [Handlers -> Work] /\ work'[h].pc = "idle"
          /\ \A g \in Handlers : g # h => work'[g] = work[g]
    BY <1>2, <1>8
  <1>10. /\ events' \in [Events -> Results] /\ events'[e] = "success"
         /\ \A f \in Events : f # e => events'[f] = events[f]
    BY <1>1, <1>2 DEF Results
  <1>11. /\ applied' \in [Events -> Nat] /\ applied'[e] = applied[e] + 1
         /\ \A f \in Events : f # e => applied'[f] = applied[f]
    BY <1>1, <1>2
  <1>12. Exclusive'
    <2>1. \A g \in Handlers : g # h /\ work[g].pc \in Holding
            => events'[work[g].event] = events[work[g].event]
      <3> TAKE g \in Handlers
      <3> HAVE g # h /\ work[g].pc \in Holding
      <3>1. work[g].event # e /\ work[g].event \in Events
        BY DEF Exclusive, Holding
      <3> QED BY <3>1, <1>10
    <2> QED BY <1>9, <2>1, ExclusiveKept DEF Holding
  <1>13. AppliedOnce'
    <2>1. applied'[e] = reopened'[e] + 1
      BY <1>2, <1>3, <1>11
    <2>2. \A f \in Events : f # e =>
            applied'[f] = reopened'[f] + (IF events'[f] = "success" THEN 1 ELSE 0)
      BY <1>2, <1>10, <1>11 DEF AppliedOnce
    <2> QED BY <2>1, <2>2, <1>10 DEF AppliedOnce
  <1>14. SuspendedIsLocked'
    BY <1>2, <1>6, <1>7 DEF SuspendedIsLocked
  <1> QED BY <1>1, <1>2, <1>3, <1>6, <1>9, <1>10, <1>11, <1>12, <1>13, <1>14

LEMMA CheckoutStep ==
    ASSUME IInv, NEW h \in Handlers, Checkout(h)
    PROVE  IInv'
  <1> USE DEF IInv
  <1> DEFINE e == work[h].event
  <1>1. work[h].pc \in Holding /\ kind[e] \notin Payments /\ Commit(h, "active", TRUE)
        /\ UNCHANGED <<invoices, dunning, refused, faults>>
    BY DEF Checkout, Holding, Payments
  <1>2. "active" \in Updates /\ TRUE \in BOOLEAN
    BY DEF Updates
  <1>3. /\ e \in Events
        /\ UNCHANGED <<kind, pass, desk, reopened, crossed, deliveries,
                       interventions>>
        /\ tenant' \in Tenants /\ tenant'.lock = tenant.lock
        /\ events' \in [Events -> Results]
        /\ applied' \in [Events -> Nat]
        /\ \A f \in Events : f # e => applied'[f] = applied[f]
        /\ work' \in [Handlers -> Work] /\ work'[h].pc = "idle"
        /\ \A g \in Handlers : g # h => work'[g] = work[g]
        /\ Exclusive' /\ AppliedOnce' /\ SuspendedIsLocked'
    BY <1>1, <1>2, CommitStep
  <1>4. TypeOK'
    BY <1>1, <1>3 DEF TypeOK
  <1>5. PaymentsInvoiced'
    BY <1>1, <1>3, InvoicedKept
  <1>6. NoEarlySuspension'
    BY <1>1, <1>3 DEF NoEarlySuspension, NeverReopened
  <1>7. (NeverReopened => Counted)'
    BY <1>1, <1>3 DEF Counted, NeverReopened
  <1> QED BY <1>3, <1>4, <1>5, <1>6, <1>7

LEMMA UpdateStep ==
    ASSUME IInv, NEW h \in Handlers, Update(h)
    PROVE  IInv'
  <1> USE DEF IInv
  <1> DEFINE e == work[h].event
  <1>1. work[h].pc \in Holding /\ kind[e] \in Updates /\ Commit(h, kind[e], tenant.known)
        /\ UNCHANGED <<invoices, dunning, refused, faults>>
    BY DEF Update, Holding
  <1>2. kind[e] \notin Payments /\ tenant.known \in BOOLEAN
    BY <1>1 DEF Updates, Payments, TypeOK, Tenants
  <1>3. /\ e \in Events
        /\ UNCHANGED <<kind, pass, desk, reopened, crossed, deliveries,
                       interventions>>
        /\ tenant' \in Tenants /\ tenant'.lock = tenant.lock
        /\ events' \in [Events -> Results]
        /\ applied' \in [Events -> Nat]
        /\ \A f \in Events : f # e => applied'[f] = applied[f]
        /\ work' \in [Handlers -> Work] /\ work'[h].pc = "idle"
        /\ \A g \in Handlers : g # h => work'[g] = work[g]
        /\ Exclusive' /\ AppliedOnce' /\ SuspendedIsLocked'
    BY <1>1, <1>2, CommitStep
  <1>4. TypeOK'
    BY <1>1, <1>3 DEF TypeOK
  <1>5. PaymentsInvoiced'
    BY <1>1, <1>2, <1>3, InvoicedKept
  <1>6. NoEarlySuspension'
    BY <1>1, <1>3 DEF NoEarlySuspension, NeverReopened
  <1>7. (NeverReopened => Counted)'
    BY <1>1, <1>3 DEF Counted, NeverReopened
  <1> QED BY <1>3, <1>4, <1>5, <1>6, <1>7

LEMMA ReceiveStep ==
    ASSUME IInv, NEW h \in Handlers, Receive(h)
    PROVE  IInv'
  <1> USE DEF IInv
  <1> DEFINE e == work[h].event
  <1>1. /\ work[h].pc \in Holding /\ kind[e] \in Payments
        /\ invoices' = invoices \union {InvoiceKey(e)}
        /\ UNCHANGED <<refused, faults>>
        /\ Commit(h, "active", tenant.known)
    BY DEF Receive, Holding, Invoiced
  <1>2. "active" \in Updates /\ tenant.known \in BOOLEAN
    BY DEF Updates, TypeOK, Tenants
  <1>3. /\ e \in Events
        /\ UNCHANGED <<kind, pass, desk, reopened, crossed, deliveries,
                       interventions>>
        /\ tenant' \in Tenants /\ tenant'.lock = tenant.lock
        /\ events' \in [Events -> Results]
        /\ applied' \in [Events -> Nat]
        /\ applied'[e] = applied[e] + 1
        /\ \A f \in Events : f # e => applied'[f] = applied[f]
        /\ work' \in [Handlers -> Work] /\ work'[h].pc = "idle"
        /\ \A g \in Handlers : g # h => work'[g] = work[g]
        /\ Exclusive' /\ AppliedOnce' /\ SuspendedIsLocked'
    BY <1>1, <1>2, CommitStep
  <1>4. \E i : dunning' = dunning \/ dunning' = Resolved(i)
    BY DEF Receive, Resolve
  <1>5. /\ dunning' \in Seq(Records) /\ DOMAIN dunning' = DOMAIN dunning
        /\ \A j \in DOMAIN dunning : dunning'[j].count = dunning[j].count
    BY <1>4, ResolvedTyped DEF TypeOK
  <1>6. TypeOK'
    <2>1. invoices' \subseteq Events \union {Subscription}
      BY <1>1, <1>3 DEF TypeOK, InvoiceKey
    <2> QED BY <1>1, <1>3, <1>5, <2>1 DEF TypeOK
  <1>7. PaymentsInvoiced'
    <2> DEFINE Paid == {x \in Events : kind[x] \in Payments /\ applied[x] > 0}
    <2>1. applied'[e] > 0
      BY <1>3 DEF TypeOK
    <2>2. Paid' = Paid \union {e}
      BY <1>1, <1>3, <2>1
    <2>3. \A x : InvoiceKey(x)' = InvoiceKey(x)
      BY <1>3 DEF InvoiceKey
    <2>4. invoices = {InvoiceKey(x) : x \in Paid}
      BY DEF PaymentsInvoiced
    <2>5. invoices' = {InvoiceKey(x) : x \in Paid \union {e}}
      BY <1>1, <2>4
    <2> HIDE DEF Paid
    <2>6. invoices' = {InvoiceKey(x)' : x \in Paid'}
      BY <2>2, <2>3, <2>5
    <2> QED BY <2>6 DEF PaymentsInvoiced, Paid
  <1>8. NoEarlySuspension'
    BY <1>1, <1>3 DEF NoEarlySuspension, NeverReopened
  <1>9. (NeverReopened => Counted)'
    BY <1>1, <1>3, <1>5 DEF Counted, NeverReopened
  <1> QED BY <1>3, <1>6, <1>7, <1>8, <1>9

LEMMA PursueStep ==
    ASSUME IInv, NEW h \in Handlers, Pursue(h)
    PROVE  IInv'
  <1> USE DEF IInv
  <1> DEFINE e == work[h].event
  <1>1. /\ work[h].pc = "looked" /\ work[h].pc \in Holding /\ kind[e] \in Failures
        /\ dunning' \in {dunning, IF work[h].record = 0 THEN Opened
                                  ELSE Punished(work[h].record, work[h].count)}
        /\ faults' \in {faults, faults + 1} /\ (faults' = faults \/ faults < MaxFaults)
        /\ refused' = IF applied[e] = 0 THEN refused + 1 ELSE refused
        /\ invoices' = invoices
        /\ Commit(h, "past_due", tenant.known)
    BY DEF Pursue, Holding
  <1>2. /\ "past_due" \in Updates /\ tenant.known \in BOOLEAN
        /\ kind[e] \notin Payments /\ refused \in Nat /\ work[h].count \in Nat
    BY <1>1 DEF Updates, Payments, Failures, TypeOK, Tenants, Work
  <1>3. /\ e \in Events
        /\ NeverReopened => applied[e] = 0
        /\ UNCHANGED <<kind, pass, desk, reopened, crossed, deliveries,
                       interventions>>
        /\ tenant' \in Tenants /\ tenant'.lock = tenant.lock
        /\ events' \in [Events -> Results]
        /\ applied' \in [Events -> Nat]
        /\ \A f \in Events : f # e => applied'[f] = applied[f]
        /\ work' \in [Handlers -> Work] /\ work'[h].pc = "idle"
        /\ \A g \in Handlers : g # h => work'[g] = work[g]
        /\ Exclusive' /\ AppliedOnce' /\ SuspendedIsLocked'
    BY <1>1, <1>2, CommitStep
  <1>4. dunning' \in Seq(Records) /\ faults' \in 0..MaxFaults
    BY <1>1, <1>2, BillingAssumption, OpenedTyped, PunishedTyped
       DEF TypeOK, BillingAssumption
  <1>5. refused' \in Nat /\ refused' >= refused /\ (NeverReopened => refused' = refused + 1)
    BY <1>1, <1>2, <1>3
  <1>6. TypeOK'
    BY <1>1, <1>3, <1>4, <1>5 DEF TypeOK
  <1>7. PaymentsInvoiced'
    BY <1>1, <1>2, <1>3, InvoicedKept
  <1>8. MaxRetries \in Nat
    BY BillingAssumption DEF BillingAssumption
  <1>9. NoEarlySuspension'
    BY <1>2, <1>3, <1>5, <1>8 DEF NoEarlySuspension, NeverReopened
  <1>10. ASSUME NeverReopened
         PROVE  \A j \in DOMAIN dunning' : dunning'[j].count < refused'
    <2>1. \A j \in DOMAIN dunning : dunning[j].count < refused /\ dunning[j].count \in Nat
      BY <1>10, DunningTyped DEF Counted, NeverReopened, TypeOK
    <2>4. CASE dunning' = dunning
      BY <2>1, <2>4, <1>2, <1>5, <1>10
    <2>2. CASE dunning' # dunning /\ work[h].record = 0
      <3>1. dunning' = Opened
        BY <1>1, <2>2
      <3>2. /\ \A j \in DOMAIN dunning : Opened[j] = dunning[j]
            /\ \A j \in DOMAIN Opened : j \in DOMAIN dunning \/ Opened[j].count = 0
        BY OpenedTyped DEF TypeOK
      <3>3. \A j \in DOMAIN Opened : Opened[j].count < refused + 1
        <4> TAKE j \in DOMAIN Opened
        <4>1. CASE j \in DOMAIN dunning
          BY <4>1, <3>2, <2>1, <1>2
        <4>2. CASE j \notin DOMAIN dunning
          BY <4>2, <3>2, <1>2
        <4> QED BY <4>1, <4>2
      <3> QED BY <3>1, <3>3, <1>5, <1>10
    <2>3. CASE dunning' # dunning /\ work[h].record # 0
      <3>1. dunning' = Punished(work[h].record, work[h].count)
        BY <1>1, <2>3
      <3>2. work[h].count < refused
        BY <1>1, <1>10, <2>3 DEF Counted, NeverReopened
      <3>3. /\ DOMAIN dunning' = DOMAIN dunning
            /\ \A j \in DOMAIN dunning :
                 dunning'[j].count \in {dunning[j].count, work[h].count + 1}
        BY <3>1, <1>2, PunishedTyped DEF TypeOK
      <3> QED BY <3>2, <3>3, <2>1, <1>2, <1>5, <1>10
    <2> QED BY <2>2, <2>3, <2>4
  <1>11. (NeverReopened => Counted)'
    <2>1. ASSUME NeverReopened
          PROVE  /\ \A g \in Handlers : work'[g].pc = "looked" /\ work'[g].record # 0
                                          => work'[g].count < refused'
                 /\ \A p \in Passes : pass'[p].on => pass'[p].count < refused'
      <3>1. /\ \A g \in Handlers : work[g].count \in Nat
            /\ \A p \in Passes : pass[p].count \in Nat
        BY DEF TypeOK, Work, PassWork
      <3>2. /\ \A g \in Handlers : work[g].pc = "looked" /\ work[g].record # 0
                                     => work[g].count < refused
            /\ \A p \in Passes : pass[p].on => pass[p].count < refused
        BY <2>1 DEF Counted, NeverReopened
      <3>3. \A g \in Handlers : work'[g].pc = "looked" => work'[g] = work[g]
        BY <1>3
      <3> QED BY <3>1, <3>2, <3>3, <1>2, <1>3, <1>5
    <2> QED BY <1>3, <1>10, <2>1 DEF Counted, NeverReopened
  <1> QED BY <1>3, <1>6, <1>7, <1>9, <1>11

-----------------------------------------------------------------------------
(* The dunning pass.                                                       *)
LEMMA PassReadStep ==
    ASSUME IInv, NEW p \in Passes, PassRead(p)
    PROVE  IInv'
  <1> USE DEF IInv
  <1>1. UNCHANGED <<kind, tenant, events, invoices, dunning, work, desk, applied,
                    refused, reopened, crossed, deliveries, interventions, faults>>
    BY DEF PassRead
  <1>2. PICK i \in Active :
          pass' = [pass EXCEPT ![p] =
            [on |-> TRUE, record |-> i, count |-> dunning[i].count,
             status |-> tenant.status, known |-> tenant.known]]
    BY DEF PassRead
  <1> DEFINE x == [on |-> TRUE, record |-> i, count |-> dunning[i].count,
                   status |-> tenant.status, known |-> tenant.known]
  <1>3. i \in DOMAIN dunning
    BY DEF Active
  <1>4. i \in Nat /\ dunning[i].count \in Nat
    BY <1>3, DunningTyped DEF TypeOK
  <1>5. x \in PassWork /\ x.count = dunning[i].count
    BY <1>4 DEF PassWork, TypeOK, Tenants
  <1>6. pass' = [pass EXCEPT ![p] = x]
    BY <1>2
  <1> HIDE DEF x
  <1>7. /\ pass' \in [Passes -> PassWork] /\ pass'[p] = x
        /\ \A q \in Passes : q # p => pass'[q] = pass[q]
    BY <1>5, <1>6 DEF TypeOK
  <1>8. TypeOK'
    BY <1>1, <1>7 DEF TypeOK
  <1>9. Exclusive' /\ AppliedOnce' /\ PaymentsInvoiced' /\ NoEarlySuspension'
          /\ SuspendedIsLocked'
    BY <1>1, InvoicedKept DEF Exclusive, AppliedOnce, NoEarlySuspension, NeverReopened,
                SuspendedIsLocked
  <1>10. (NeverReopened => Counted)'
    BY <1>1, <1>3, <1>5, <1>7 DEF Counted, NeverReopened
  <1> QED BY <1>8, <1>9, <1>10

(* A pass that lets go of its record.                                      *)
LEMMA PassFree ==
    ASSUME TypeOK, NEW p \in Passes, pass' = [pass EXCEPT ![p] = IdlePass]
    PROVE  /\ pass' \in [Passes -> PassWork] /\ pass'[p].on = FALSE
           /\ \A q \in Passes : q # p => pass'[q] = pass[q]
  <1>1. IdlePass \in PassWork /\ IdlePass.on = FALSE
    BY DEF IdlePass, PassWork, Statuses, Updates
  <1> QED BY <1>1 DEF TypeOK

LEMMA PassDiesStep ==
    ASSUME BillingAssumption, IInv, NEW p \in Passes, PassDies(p)
    PROVE  IInv'
  <1> USE DEF IInv
  <1>1. UNCHANGED <<kind, tenant, events, invoices, dunning, work, desk, applied,
                    refused, reopened, crossed, deliveries, interventions>>
    BY DEF PassDies
  <1>2. faults' \in 0..MaxFaults
    BY DEF PassDies, BillingAssumption, TypeOK
  <1>3. /\ pass' \in [Passes -> PassWork] /\ pass'[p].on = FALSE
        /\ \A q \in Passes : q # p => pass'[q] = pass[q]
    BY PassFree DEF PassDies
  <1>4. TypeOK'
    BY <1>1, <1>2, <1>3 DEF TypeOK
  <1>5. Exclusive' /\ AppliedOnce' /\ PaymentsInvoiced' /\ NoEarlySuspension'
          /\ SuspendedIsLocked'
    BY <1>1, InvoicedKept DEF Exclusive, AppliedOnce, NoEarlySuspension, NeverReopened,
                SuspendedIsLocked
  <1>6. (NeverReopened => Counted)'
    BY <1>1, <1>3 DEF Counted, NeverReopened
  <1> QED BY <1>4, <1>5, <1>6

LEMMA RetryPaidStep ==
    ASSUME IInv, NEW p \in Passes, RetryPaid(p)
    PROVE  IInv'
  <1> USE DEF IInv
  <1>1. UNCHANGED <<kind, events, invoices, work, desk, applied, refused, reopened,
                    crossed, deliveries, interventions, faults>>
    BY DEF RetryPaid
  <1>2. /\ dunning' \in Seq(Records) /\ DOMAIN dunning' = DOMAIN dunning
        /\ \A j \in DOMAIN dunning : dunning'[j].count = dunning[j].count
    BY ResolvedTyped DEF RetryPaid, TypeOK
  <1>3. /\ pass' \in [Passes -> PassWork] /\ pass'[p].on = FALSE
        /\ \A q \in Passes : q # p => pass'[q] = pass[q]
    BY PassFree DEF RetryPaid
  <1>4. tenant' = [tenant EXCEPT !.status = Assign(@, pass[p].status, "active")]
    BY DEF RetryPaid
  <1>5. Assign(tenant.status, pass[p].status, "active") \in {tenant.status, "active"}
    BY DEF Assign
  <1>6. tenant.status \in Statuses /\ tenant \in Tenants
    BY DEF TypeOK, Tenants
  <1>7. tenant' \in Tenants /\ tenant'.lock = tenant.lock
          /\ tenant'.status \in {tenant.status, "active"}
    BY <1>4, <1>5, <1>6 DEF Tenants, Statuses, Updates
  <1>8. TypeOK'
    BY <1>1, <1>2, <1>3, <1>7 DEF TypeOK
  <1>9. Exclusive' /\ AppliedOnce' /\ PaymentsInvoiced'
    BY <1>1, InvoicedKept DEF Exclusive, AppliedOnce
  <1>10. NoEarlySuspension' /\ SuspendedIsLocked'
    BY <1>1, <1>7 DEF NoEarlySuspension, NeverReopened, SuspendedIsLocked
  <1>11. (NeverReopened => Counted)'
    BY <1>1, <1>2, <1>3 DEF Counted, NeverReopened
  <1> QED BY <1>8, <1>9, <1>10, <1>11

LEMMA RetryRefusedStep ==
    ASSUME IInv, NEW p \in Passes, RetryRefused(p)
    PROVE  IInv'
  <1> USE DEF IInv
  <1> DEFINE n == pass[p].count
  <1>1. UNCHANGED <<kind, events, invoices, work, desk, applied, reopened, crossed,
                    deliveries, interventions, faults>>
    BY DEF RetryRefused
  <1>2. /\ pass[p].on /\ n \in Nat /\ refused \in Nat /\ MaxRetries \in Nat
        /\ refused' = refused + 1
    BY BillingAssumption DEF RetryRefused, TypeOK, PassWork, BillingAssumption
  <1>3. /\ dunning' \in Seq(Records) /\ DOMAIN dunning' = DOMAIN dunning
        /\ \A j \in DOMAIN dunning : dunning'[j].count \in {dunning[j].count, n + 1}
    BY <1>2, PunishedTyped DEF RetryRefused, TypeOK
  <1>4. /\ pass' \in [Passes -> PassWork] /\ pass'[p].on = FALSE
        /\ \A q \in Passes : q # p => pass'[q] = pass[q]
    BY PassFree DEF RetryRefused
  <1>5. tenant.status \in Statuses /\ tenant \in Tenants
    BY DEF TypeOK, Tenants
  <1>6. /\ tenant' \in Tenants
        /\ \/ tenant' = tenant
           \/ tenant'.lock = "dunning" /\ UsedUp(n)
    <2>1. CASE UsedUp(n)
      <3>1. tenant' = [tenant EXCEPT
                         !.status = Assign(@, pass[p].status, "suspended"),
                         !.lock = "dunning"]
        BY <2>1 DEF RetryRefused
      <3>2. Assign(tenant.status, pass[p].status, "suspended") \in Statuses
        BY <1>5 DEF Assign, Statuses
      <3> QED BY <2>1, <3>1, <3>2, <1>5 DEF Tenants, Locks
    <2>2. CASE ~ UsedUp(n)
      <3>1. tenant' = tenant
        BY <2>2 DEF RetryRefused
      <3> QED BY <3>1 DEF TypeOK
    <2> QED BY <2>1, <2>2
  <1>7. TypeOK'
    BY <1>1, <1>2, <1>3, <1>4, <1>6 DEF TypeOK
  <1>8. Exclusive' /\ AppliedOnce' /\ PaymentsInvoiced'
    BY <1>1, InvoicedKept DEF Exclusive, AppliedOnce
  <1>9. SuspendedIsLocked'
    BY <1>1, <1>6 DEF SuspendedIsLocked
  <1>10. NeverReopened => n < refused
    BY <1>2 DEF Counted, NeverReopened
  <1>11. NoEarlySuspension'
    <2>1. CASE tenant' = tenant
      BY <2>1, <1>1, <1>2 DEF NoEarlySuspension, NeverReopened
    <2>2. CASE UsedUp(n)
      BY <2>2, <1>1, <1>2, <1>10 DEF NoEarlySuspension, NeverReopened, UsedUp
    <2> QED BY <1>6, <2>1, <2>2
  <1>12. (NeverReopened => Counted)'
    <2>1. /\ \A g \in Handlers : work[g].count \in Nat
          /\ \A q \in Passes : pass[q].count \in Nat
          /\ \A j \in DOMAIN dunning : dunning[j].count \in Nat
      BY DunningTyped DEF TypeOK, Work, PassWork
    <2>2. ASSUME NeverReopened
          PROVE  \A j \in DOMAIN dunning' : dunning'[j].count < refused'
      BY <2>1, <2>2, <1>2, <1>3, <1>10 DEF Counted, NeverReopened
    <2>3. ASSUME NeverReopened
          PROVE  /\ \A g \in Handlers : work[g].pc = "looked" /\ work[g].record # 0
                                          => work[g].count < refused'
                 /\ \A q \in Passes : pass'[q].on => pass'[q].count < refused'
      BY <2>1, <2>3, <1>2, <1>4 DEF Counted, NeverReopened
    <2> QED BY <2>2, <2>3, <1>1 DEF Counted, NeverReopened
  <1> QED BY <1>7, <1>8, <1>9, <1>11, <1>12

-----------------------------------------------------------------------------
(* Platform staff.                                                         *)
LEMMA DeskReadStep ==
    ASSUME BillingAssumption, IInv, DeskRead
    PROVE  IInv'
  <1> USE DEF IInv
  <1>1. UNCHANGED <<kind, tenant, events, invoices, dunning, work, pass, applied,
                    refused, reopened, crossed, deliveries, faults>>
    BY DEF DeskRead
  <1>2. interventions' \in 0..MaxDesk
    BY DEF DeskRead, BillingAssumption, TypeOK
  <1>3. PICK op \in {"suspend", "reactivate", "resolve"}, i \in Found :
          desk' = [op |-> op, status |-> tenant.status, lock |-> tenant.lock,
                   record |-> i]
    BY DEF DeskRead
  <1>4. i \in Nat
    <2>1. i = 0 \/ i \in DOMAIN dunning
      BY DEF Found, Active
    <2> QED BY <2>1, DunningTyped DEF TypeOK
  <1>5. desk' \in Desk
    BY <1>3, <1>4 DEF Desk, TypeOK, Tenants
  <1>6. TypeOK'
    BY <1>1, <1>2, <1>5 DEF TypeOK
  <1>7. Exclusive' /\ AppliedOnce' /\ PaymentsInvoiced' /\ NoEarlySuspension'
          /\ SuspendedIsLocked' /\ (NeverReopened => Counted)'
    BY <1>1, InvoicedKept DEF Exclusive, AppliedOnce, NoEarlySuspension, NeverReopened,
                SuspendedIsLocked, Counted
  <1> QED BY <1>6, <1>7

LEMMA DeskWriteStep ==
    ASSUME IInv, DeskWrite
    PROVE  IInv'
  <1> USE DEF IInv
  <1>1. UNCHANGED <<kind, events, invoices, work, pass, applied, refused, reopened,
                    deliveries, interventions, faults>>
    BY DEF DeskWrite
  <1>2. /\ tenant \in Tenants /\ tenant.status \in Statuses
        /\ tenant.lock \in Locks /\ desk.lock \in Locks
    BY DEF TypeOK, Tenants, Desk
  <1>3. /\ desk.op # "none"
        /\ tenant' = [tenant EXCEPT !.status = Assign(@, desk.status, DeskStatus),
                                    !.lock = DeskLock,
                                    !.barred = @ \/ desk.op = "suspend"]
        /\ crossed' = (crossed \/ tenant.status # desk.status \/ tenant.lock # desk.lock)
    BY DEF DeskWrite
  <1>4. DeskStatus \in {"suspended", "active"}
          /\ Assign(tenant.status, desk.status, DeskStatus) \in Statuses
    BY <1>2 DEF DeskStatus, Assign, Statuses, Updates
  <1>5. DeskLock \in {"staff", "no"} \/ DeskLock = tenant.lock
    BY DEF DeskLock, Assign
  <1>6. tenant' \in Tenants
    BY <1>2, <1>3, <1>4, <1>5 DEF Tenants, Locks
  <1>7. desk' \in Desk
    BY DEF DeskWrite, IdleDesk, Desk, Statuses, Updates, Locks
  <1>8. dunning' \in Seq(Records) /\ DOMAIN dunning' = DOMAIN dunning
          /\ \A j \in DOMAIN dunning : dunning'[j].count = dunning[j].count
    BY ResolvedTyped DEF DeskWrite, TypeOK
  <1>9. crossed' \in BOOLEAN
    BY <1>3
  <1>10. TypeOK'
    BY <1>1, <1>6, <1>7, <1>8, <1>9 DEF TypeOK
  <1>11. Exclusive' /\ AppliedOnce' /\ PaymentsInvoiced'
    BY <1>1, InvoicedKept DEF Exclusive, AppliedOnce
  <1>12. NoEarlySuspension'
    BY <1>1, <1>3, <1>5 DEF NoEarlySuspension, NeverReopened
  <1>13. SuspendedIsLocked'
    <2>1. CASE desk.op = "suspend"
      BY <1>3, <2>1 DEF SuspendedIsLocked, DeskLock
    <2>2. CASE desk.op # "suspend"
      <3>1. ASSUME ~ crossed'
            PROVE  Assign(tenant.status, desk.status, DeskStatus) = "active"
        BY <1>3, <2>2, <3>1 DEF Assign, DeskStatus
      <3> QED BY <1>3, <3>1 DEF SuspendedIsLocked
    <2> QED BY <2>1, <2>2
  <1>14. (NeverReopened => Counted)'
    BY <1>1, <1>8 DEF Counted, NeverReopened
  <1> QED BY <1>10, <1>11, <1>12, <1>13, <1>14

-----------------------------------------------------------------------------
LEMMA InitInv == BillingAssumption /\ Init => IInv
  <1> SUFFICES ASSUME BillingAssumption, Init PROVE IInv
    OBVIOUS
  <1>1. Idle \in Work /\ Idle.pc = "idle"
    BY DEF Idle, Work, Updates, Statuses, Results
  <1>2. IdlePass \in PassWork /\ IdlePass.on = FALSE
    BY DEF IdlePass, PassWork, Updates, Statuses
  <1>3. IdleDesk \in Desk
    BY DEF IdleDesk, Desk, Updates, Statuses, Locks
  <1>4. tenant \in Tenants /\ tenant.lock = "no" /\ tenant.status = "active"
    BY DEF Init, Tenants, Updates, Statuses, Locks
  <1>5. kind \in [Events -> Kinds]
    BY DEF Init, BillingAssumption
  <1>6. dunning \in Seq(Records) /\ DOMAIN dunning = {}
    BY DEF Init
  <1>7. TypeOK
    <2>1. work \in [Handlers -> Work] /\ pass \in [Passes -> PassWork]
      BY <1>1, <1>2 DEF Init
    <2>2. events \in [Events -> Results] /\ applied \in [Events -> Nat]
      BY DEF Init, Results
    <2>3. /\ deliveries \in 0..MaxDeliveries /\ interventions \in 0..MaxDesk
          /\ faults \in 0..MaxFaults /\ refused \in Nat
      BY DEF Init, BillingAssumption
    <2>4. /\ reopened \in [Events -> Nat] /\ crossed \in BOOLEAN
          /\ invoices \subseteq Events \union {Subscription} /\ desk \in Desk
      BY <1>3 DEF Init
    <2> QED BY <2>1, <2>2, <2>3, <2>4, <1>4, <1>5, <1>6 DEF TypeOK
  <1>8. Exclusive
    BY <1>1 DEF Exclusive, Init, Holding
  <1>9. AppliedOnce /\ PaymentsInvoiced
    BY DEF AppliedOnce, PaymentsInvoiced, Init
  <1>10. NoEarlySuspension /\ SuspendedIsLocked
    BY <1>4 DEF NoEarlySuspension, NeverReopened, SuspendedIsLocked
  <1>11. Counted
    BY <1>1, <1>2, <1>6 DEF Counted, NeverReopened, Init
  <1> QED BY <1>7, <1>8, <1>9, <1>10, <1>11 DEF IInv

LEMMA NextInv == BillingAssumption /\ IInv /\ [Next]_vars => IInv'
  <1> SUFFICES ASSUME BillingAssumption, IInv, [Next]_vars PROVE IInv'
    OBVIOUS
  <1>1. ASSUME NEW h \in Handlers, Handler(h)
        PROVE  IInv'
    BY <1>1, DeliverStep, UnmatchedStep, LookUpStep, CheckoutStep, CheckoutRefusedStep,
       ReceiveStep, PursueStep, UpdateStep, RaiseStep, NoteReadStep, NoteWriteStep, CrashStep
       DEF Handler
  <1>2. ASSUME NEW p \in Passes, Dun(p) \/ PassDies(p)
        PROVE  IInv'
    BY <1>2, PassReadStep, RetryPaidStep, RetryRefusedStep, PassDiesStep DEF Dun, Retry
  <1>3. CASE DeskRead \/ DeskWrite
    BY <1>3, DeskReadStep, DeskWriteStep
  <1>4. CASE UNCHANGED vars
    BY <1>4, InvoicedKept DEF vars, IInv, TypeOK, Exclusive, AppliedOnce, Counted, NeverReopened,
                NoEarlySuspension, SuspendedIsLocked
  <1> QED BY <1>1, <1>2, <1>3, <1>4 DEF Next

(* The inductive invariant holds in every reachable state.                 *)
THEOREM Inductive == Spec => []IInv
  BY InitInv, NextInv, BillingAssumption, PTL DEF Spec

(* Types of all that billing keeps, for any number of events and passes.   *)
THEOREM Typing == Spec => []TypeOK
  <1>1. IInv => TypeOK
    BY DEF IInv
  <1> QED BY <1>1, Inductive, PTL

(* What an event does to status, invoices and dunning is done once, with   *)
(* its outcome, and again only for a late note that has written an error   *)
(* over its success (process_webhook_event, _record_failed_event).         *)
THEOREM EffectOnce == Spec => []AppliedOnce
  <1>1. IInv => AppliedOnce
    BY DEF IInv
  <1> QED BY <1>1, Inductive, PTL

(* The invoices are those of the applied payments, one for each payment of *)
(* Stripe or by hand and one for all charges of a Razorpay subscription    *)
(* (create_invoice_from_payment).                                          *)
THEOREM Invoicing == Spec => []PaymentsInvoiced
  <1>1. IInv => PaymentsInvoiced
    BY DEF IInv
  <1> QED BY <1>1, Inductive, PTL

(* Dunning locks a tenant out after more than MaxRetries failed payments.  *)
THEOREM SuspensionDue == Spec => []NoEarlySuspension
  <1>1. IInv => NoEarlySuspension
    BY DEF IInv
  <1> QED BY <1>1, Inductive, PTL

(* A tenant shown as suspended is locked out.                              *)
THEOREM SuspensionShown == Spec => []SuspendedIsLocked
  <1>1. IInv => SuspendedIsLocked
    BY DEF IInv
  <1> QED BY <1>1, Inductive, PTL

(* A settled dunning record is never active again.                         *)
THEOREM Settled == Spec => SettledStays
  <1> DEFINE Stays == \A i \in DOMAIN dunning :
                        dunning[i].status # "active" => dunning'[i].status # "active"
  <1>1. IInv /\ [Next]_vars => [Stays]_vars
    <2> SUFFICES ASSUME IInv, Next PROVE Stays
      BY DEF vars
    <2>1. dunning \in Seq(Records)
            /\ (\A h \in Handlers : work[h].count \in Nat)
            /\ (\A p \in Passes : pass[p].count \in Nat)
      BY DEF IInv, TypeOK, Work, PassWork
    <2>2. dunning' = dunning => Stays
      OBVIOUS
    <2>3. ASSUME NEW i, dunning' = Resolved(i)
          PROVE  Stays
      BY <2>1, <2>3, ResolvedTyped
    <2>4. ASSUME NEW h \in Handlers, Handler(h)
          PROVE  Stays
      <3>1. CASE Receive(h)
        <4>1. \E i : dunning' = dunning \/ dunning' = Resolved(i)
          BY <3>1 DEF Receive, Resolve
        <4> QED BY <4>1, <2>2, <2>3
      <3>2. CASE Pursue(h)
        <4>3. CASE dunning' = dunning
          BY <4>3, <2>2
        <4>1. CASE dunning' # dunning /\ work[h].record = 0
          BY <3>2, <4>1, <2>1, OpenedTyped DEF Pursue
        <4>2. CASE dunning' # dunning /\ work[h].record # 0
          <5>1. dunning' = Punished(work[h].record, work[h].count)
            BY <3>2, <4>2 DEF Pursue
          <5> QED BY <5>1, <2>1, PunishedTyped
        <4> QED BY <4>1, <4>2, <4>3
      <3>3. CASE \/ Deliver(h) \/ Unmatched(h) \/ LookUp(h) \/ Checkout(h)
                 \/ CheckoutRefused(h) \/ Update(h)
                 \/ Raise(h) \/ NoteRead(h) \/ NoteWrite(h) \/ Crash(h)
        BY <3>3, <2>2 DEF Deliver, Unmatched, LookUp, Checkout, CheckoutRefused, Update,
                          Raise, NoteRead, NoteWrite, Crash
      <3> QED BY <2>4, <3>1, <3>2, <3>3 DEF Handler
    <2>5. ASSUME NEW p \in Passes, Dun(p) \/ PassDies(p)
          PROVE  Stays
      <3>1. CASE RetryRefused(p)
        <4>1. dunning' = Punished(pass[p].record, pass[p].count)
          BY <3>1 DEF RetryRefused
        <4> QED BY <4>1, <2>1, PunishedTyped
      <3>2. CASE RetryPaid(p)
        BY <3>2, <2>3 DEF RetryPaid
      <3>3. CASE PassRead(p) \/ PassDies(p)
        BY <3>3, <2>2 DEF PassRead, PassDies
      <3> QED BY <2>5, <3>1, <3>2, <3>3 DEF Dun, Retry
    <2>6. CASE DeskRead \/ DeskWrite
      BY <2>6, <2>2, <2>3 DEF DeskRead, DeskWrite
    <2> QED BY <2>4, <2>5, <2>6 DEF Next
  <1> QED BY <1>1, Inductive, PTL DEF Spec, SettledStays

(* A committing delivery finds its event without a success and leaves it   *)
(* with one.                                                               *)
LEMMA CommitEffect ==
    ASSUME IInv, NEW h \in Handlers, work[h].pc \in Holding,
           events' = [events EXCEPT ![work[h].event] = Outcome],
           applied' = [applied EXCEPT ![work[h].event] = @ + 1]
    PROVE  \A e \in Events : applied'[e] # applied[e] =>
             /\ events[e] # "success" /\ events'[e] = "success"
             /\ applied'[e] = applied[e] + 1
  <1>1. TypeOK /\ work[h].event \in Events /\ events[work[h].event] # "success"
    BY DEF IInv, Exclusive, Holding
  <1> QED BY <1>1 DEF TypeOK, Outcome

(* With or without reopened events, an effect is committed exactly by the  *)
(* step that makes the event a success.                                    *)
THEOREM EffectsFollowOutcomes == Spec => EffectWithOutcome
  <1> DEFINE Effects == \A e \in Events : applied'[e] # applied[e] =>
                          /\ events[e] # "success" /\ events'[e] = "success"
                          /\ applied'[e] = applied[e] + 1
  <1>1. IInv /\ [Next]_vars => [Effects]_vars
    <2> SUFFICES ASSUME IInv, Next PROVE Effects
      BY DEF vars
    <2>1. applied' = applied => Effects
      OBVIOUS
    <2>2. ASSUME NEW h \in Handlers, Handler(h)
          PROVE  Effects
      <3>1. CASE Checkout(h)
        BY <3>1, CommitEffect DEF Checkout, Commit, Holding
      <3>2. CASE Receive(h)
        BY <3>2, CommitEffect DEF Receive, Commit, Holding
      <3>3. CASE Pursue(h)
        BY <3>3, CommitEffect DEF Pursue, Commit, Holding
      <3>4. CASE Update(h)
        BY <3>4, CommitEffect DEF Update, Commit, Holding
      <3>5. CASE \/ Deliver(h) \/ Unmatched(h) \/ LookUp(h) \/ CheckoutRefused(h)
                 \/ Raise(h) \/ NoteRead(h) \/ NoteWrite(h) \/ Crash(h)
        BY <3>5, <2>1 DEF Deliver, Unmatched, LookUp, CheckoutRefused, Raise, NoteRead,
                          NoteWrite, Crash
      <3> QED BY <2>2, <3>1, <3>2, <3>3, <3>4, <3>5 DEF Handler
    <2>3. CASE \/ \E p \in Passes : Dun(p) \/ PassDies(p)
               \/ DeskRead \/ DeskWrite
      BY <2>3, <2>1 DEF Dun, Retry, PassRead, RetryPaid, RetryRefused, PassDies,
                        DeskRead, DeskWrite
    <2> QED BY <2>2, <2>3 DEF Next
  <1> QED BY <1>1, Inductive, PTL DEF Spec, EffectWithOutcome
=============================================================================
