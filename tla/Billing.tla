------------------------------ MODULE Billing ------------------------------
(***************************************************************************)
(* The subscription of one tenant: payment providers report what happened  *)
(* to it by events that arrive at least once and in any order, failed      *)
(* payments open dunning records that an hourly pass works off, and        *)
(* platform staff suspend and reactivate by hand.                          *)
(*                                                                         *)
(* A delivery claims its event by the unique (provider, event_id); claim,  *)
(* effect and outcome commit together.  The tenant and the dunning record  *)
(* are read without a lock, and SQLAlchemy writes only the columns whose   *)
(* value differs from the one that was read.                               *)
(***************************************************************************)
EXTENDS Naturals, Sequences

CONSTANTS
    Events,         \* provider events, by their event_id
    NoEvent,        \* no event
    Subscription,   \* the tenant's subscription, by its id at the provider
    Feeds,          \* what the events of a run are about
    Handlers,       \* server processes that take deliveries
    Passes,         \* dunning passes: the scheduled one, one started by hand
    MaxRetries,     \* dunning config max_retries
    MaxDeliveries,  \* bound on deliveries
    MaxDesk,        \* bound on interventions by platform staff
    MaxFaults       \* bound on crashes and raising handlers

Updates == {"active", "trialing", "past_due", "cancelled"}
Payments == {"paid", "charged", "approved"}   \* of Stripe, Razorpay, by hand
Failures == {"failed", "rejected"}
Kinds == {"checkout"} \union Payments \union Failures \union Updates

ASSUME BillingAssumption ==
    /\ NoEvent \notin Events /\ Subscription \notin Events
    /\ Feeds \subseteq [Events -> Kinds]
    /\ MaxRetries \in Nat \ {0}
    /\ MaxDeliveries \in Nat /\ MaxDesk \in Nat /\ MaxFaults \in Nat

VARIABLES
    kind,        \* kind[e]: what event e reports
    tenant,      \* subscription_status, provider ids, suspended_at, users.is_active
    events,      \* billing_events.result by event, "none" without a row
    invoices,    \* provider_invoice_id of the invoices
    dunning,     \* dunning_records in order of creation
    work,        \* work[h]: the delivery handler h is at
    pass,        \* pass[p]: the record pass p is at
    desk,        \* the request of platform staff under way
    applied,     \* history: how often what e does to status, invoices and
                 \* dunning has been committed
    refused,     \* history: failed payments, by distinct events and retries
    reopened,    \* history: how often e's success was written over with an error
    crossed,     \* history: staff changed a tenant that had moved meanwhile
    deliveries, interventions, faults

vars == <<kind, tenant, events, invoices, dunning, work, pass, desk, applied,
          refused, reopened, crossed, deliveries, interventions, faults>>

Statuses == Updates \union {"suspended"}
Locks == {"no", "staff", "dunning"}
Tenants == [status : Statuses, known : BOOLEAN, lock : Locks, barred : BOOLEAN]
Results == {"none", "error", "success"}
Records == [status : {"active", "resolved", "exhausted"}, count : Nat]

(* event and the tenant's status as read; the active record and its count; *)
(* the result found when a failure is noted                                *)
Work == [pc : {"idle", "claimed", "unmatched", "looked", "failing", "noting"},
         event : Events \union {NoEvent}, status : Statuses, record : Nat, count : Nat,
         result : Results]
PassWork == [on : BOOLEAN, record : Nat, count : Nat, status : Statuses,
             known : BOOLEAN]
Desk == [op : {"none", "suspend", "reactivate", "resolve"},
         status : Statuses, lock : Locks, record : Nat]

Idle == [pc |-> "idle", event |-> NoEvent, status |-> "active", record |-> 0,
         count |-> 0, result |-> "none"]
IdlePass == [on |-> FALSE, record |-> 0, count |-> 0, status |-> "active",
             known |-> FALSE]
IdleDesk == [op |-> "none", status |-> "active", lock |-> "no", record |-> 0]

Init ==
    /\ kind \in Feeds
    /\ tenant \in [status : {"active"}, known : BOOLEAN, lock : {"no"},
                   barred : {FALSE}]
    /\ events = [e \in Events |-> "none"]
    /\ invoices = {}
    /\ dunning = <<>>
    /\ work = [h \in Handlers |-> Idle]
    /\ pass = [p \in Passes |-> IdlePass]
    /\ desk = IdleDesk
    /\ applied = [e \in Events |-> 0]
    /\ refused = 0
    /\ reopened = [e \in Events |-> 0]
    /\ crossed = FALSE
    /\ deliveries = 0 /\ interventions = 0 /\ faults = 0

-----------------------------------------------------------------------------
(* The UPDATE of a column: sent only when the new value differs from the   *)
(* one that was read.                                                      *)
Assign(row, read, new) == IF new = read THEN row ELSE new

Active == {i \in DOMAIN dunning : dunning[i].status = "active"}
Found == IF Active = {} THEN {0} ELSE Active
Count(i) == IF i \in DOMAIN dunning THEN dunning[i].count ELSE 0

(* Handlers that hold the row of e in a transaction *)
Holding == {"claimed", "unmatched", "looked"}
InFlight(e) == \E h \in Handlers : work[h].pc \in Holding /\ work[h].event = e

(* checkout.session.completed and the manual events name the tenant; the   *)
(* others name an id that checkout stores.                                 *)
Matched(e) == tenant.known \/ kind[e] \in {"checkout", "approved", "rejected"}

(* create_invoice_from_payment finds an invoice by the id the handler      *)
(* gives it: Stripe's events and payments by hand have one of their own,   *)
(* Razorpay's all give the id of the subscription.                         *)
InvoiceKey(e) == IF kind[e] = "charged" THEN Subscription ELSE e

\* Mutant: a delivery does not look for an earlier success.
DoneNever == {}
Done == {"success"}
\* Mutant: the claim is committed as it was made.
OutcomeOpen == "processing"
Outcome == "success"

-----------------------------------------------------------------------------
(* _claim_billing_event: an event that has been applied is a duplicate;    *)
(* one without a row, or whose row says error, is claimed, and its tenant  *)
(* is looked up.  When the insert fails and no row is found either, the    *)
(* event is answered as a duplicate too.                                   *)
Duplicate(h, e) ==
    /\ events[e] \in Done
    /\ UNCHANGED <<work, faults>>

ClaimFails(h, e) ==
    /\ events[e] = "none"
    /\ faults < MaxFaults
    /\ faults' = faults + 1
    /\ UNCHANGED work

Claim(h, e) ==
    /\ events[e] \notin Done
    /\ UNCHANGED faults
    /\ work' = [work EXCEPT ![h] =
         [pc |-> IF Matched(e) THEN "claimed" ELSE "unmatched", event |-> e,
          status |-> tenant.status, record |-> 0, count |-> 0,
          result |-> "none"]]

Deliver(h) ==
    /\ work[h].pc = "idle"
    /\ deliveries < MaxDeliveries
    /\ \E e \in Events :
         /\ ~ InFlight(e)   \* the unique constraint makes a second one wait
         /\ Duplicate(h, e) \/ ClaimFails(h, e) \/ Claim(h, e)
    /\ deliveries' = deliveries + 1
    /\ UNCHANGED <<kind, tenant, events, invoices, dunning, pass, desk, applied,
                   refused, reopened, crossed, interventions>>

(* A handler that finds no tenant logs an error; it is committed, and the  *)
(* provider is answered 200.                                               *)
Unmatched(h) ==
    /\ work[h].pc = "unmatched"
    /\ events' = [events EXCEPT ![work[h].event] = "error"]
    /\ work' = [work EXCEPT ![h] = Idle]
    /\ UNCHANGED <<kind, tenant, invoices, dunning, pass, desk, applied, refused,
                   reopened, crossed, deliveries, interventions, faults>>

(* The query for the active dunning record.  Before it, a handler of a     *)
(* payment locks the tenant when it flushes a new invoice (Receive).       *)
LookUp(h) ==
    /\ work[h].pc = "claimed"
    /\ \/ kind[work[h].event] \in Failures
       \/ /\ kind[work[h].event] \in Payments
          /\ InvoiceKey(work[h].event) \in invoices
    /\ \E i \in Found :
         work' = [work EXCEPT ![h] =
           [pc |-> "looked", event |-> work[h].event, status |-> work[h].status,
            record |-> i, count |-> Count(i), result |-> "none"]]
    /\ UNCHANGED <<kind, tenant, events, invoices, dunning, pass, desk, applied,
                   refused, reopened, crossed, deliveries, interventions, faults>>

(* The commit of a delivery: outcome of the event, status of the tenant.   *)
Commit(h, status, known) ==
    LET e == work[h].event IN
    /\ tenant' = [tenant EXCEPT !.status = Assign(@, work[h].status, status),
                                !.known = known]
    /\ events' = [events EXCEPT ![e] = Outcome]
    /\ applied' = [applied EXCEPT ![e] = @ + 1]
    /\ work' = [work EXCEPT ![h] = Idle]
    /\ UNCHANGED <<kind, pass, desk, reopened, crossed, deliveries, interventions>>

Resolved(i) == [dunning EXCEPT ![i] = [status |-> "resolved", count |-> @.count]]
Resolve(i) == IF i = 0 THEN dunning ELSE Resolved(i)

(* One more failed payment on record i, read with count n: the status is   *)
(* written only when the retries are used up.                              *)
\* Mutant: off by one.
UsedUpEarly(n) == n + 2 >= MaxRetries
UsedUp(n) == n + 1 >= MaxRetries
\* Mutant: the whole record is written back.
PunishedReopens(i, n) ==
    [dunning EXCEPT ![i] =
       [status |-> IF UsedUp(n) THEN "exhausted" ELSE "active", count |-> n + 1]]
Punished(i, n) ==
    [dunning EXCEPT ![i] =
       [status |-> IF UsedUp(n) THEN "exhausted" ELSE @.status, count |-> n + 1]]
Opened == Append(dunning, [status |-> "active", count |-> 0])

\* Mutant: the failure of the invoice is logged and forgotten.
InvoiceFailed(h) == invoices
Invoiced(h) == invoices \union {InvoiceKey(work[h].event)}

Checkout(h) ==
    /\ work[h].pc = "claimed" /\ kind[work[h].event] = "checkout"
    /\ Commit(h, "active", TRUE)
    /\ UNCHANGED <<invoices, dunning, refused, faults>>

(* No plan id in the metadata, or one of no plan: the provider ids have    *)
(* been stored on the tenant by then, and are committed with the error.    *)
CheckoutRefused(h) ==
    /\ work[h].pc = "claimed" /\ kind[work[h].event] = "checkout"
    /\ tenant' = [tenant EXCEPT !.known = TRUE]
    /\ events' = [events EXCEPT ![work[h].event] = "error"]
    /\ work' = [work EXCEPT ![h] = Idle]
    /\ UNCHANGED <<kind, invoices, dunning, pass, desk, applied, refused, reopened,
                   crossed, deliveries, interventions, faults>>

Receive(h) ==
    /\ work[h].pc \in {"claimed", "looked"} /\ kind[work[h].event] \in Payments
    /\ \/ /\ work[h].pc = "claimed" /\ InvoiceKey(work[h].event) \notin invoices
          /\ \E i \in Found : dunning' = Resolve(i)
       \/ work[h].pc = "looked" /\ dunning' = Resolve(work[h].record)
    /\ invoices' = Invoiced(h)
    /\ Commit(h, "active", tenant.known)
    /\ UNCHANGED <<refused, faults>>

(* An exception of initiate_dunning is logged: past_due is committed, and  *)
(* the dunning records stay as they are.                                   *)
Pursue(h) ==
    /\ work[h].pc = "looked" /\ kind[work[h].event] \in Failures
    /\ \/ /\ dunning' = IF work[h].record = 0 THEN Opened
                        ELSE Punished(work[h].record, work[h].count)
          /\ UNCHANGED faults
       \/ /\ faults < MaxFaults
          /\ faults' = faults + 1
          /\ UNCHANGED dunning
    /\ refused' = IF applied[work[h].event] = 0 THEN refused + 1 ELSE refused
    /\ Commit(h, "past_due", tenant.known)
    /\ UNCHANGED invoices

Update(h) ==
    /\ work[h].pc = "claimed" /\ kind[work[h].event] \in Updates
    /\ Commit(h, kind[work[h].event], tenant.known)
    /\ UNCHANGED <<invoices, dunning, refused, faults>>

-----------------------------------------------------------------------------
(* A handler raises: its transaction is rolled back, and the error is      *)
(* recorded by another one, which reads the row before it writes it.       *)
Raise(h) ==
    /\ work[h].pc \in {"claimed", "looked"}
    /\ faults < MaxFaults
    /\ work' = [work EXCEPT ![h] =
         [pc |-> "failing", event |-> work[h].event, status |-> "active",
          record |-> 0, count |-> 0, result |-> "none"]]
    /\ faults' = faults + 1
    /\ UNCHANGED <<kind, tenant, events, invoices, dunning, pass, desk, applied,
                   refused, reopened, crossed, deliveries, interventions>>

NoteRead(h) ==
    /\ work[h].pc = "failing"
    /\ work' = [work EXCEPT ![h] =
         [pc |-> "noting", event |-> work[h].event, status |-> "active",
          record |-> 0, count |-> 0, result |-> events[work[h].event]]]
    /\ UNCHANGED <<kind, tenant, events, invoices, dunning, pass, desk, applied,
                   refused, reopened, crossed, deliveries, interventions, faults>>

(* Without a row one is inserted, unless another delivery has meanwhile; a *)
(* row that says error already keeps its result.                           *)
Noted(h) ==
    LET e == work[h].event IN
    IF work[h].result = "none"
    THEN IF events[e] = "none" THEN "error" ELSE events[e]
    ELSE Assign(events[e], work[h].result, "error")

NoteWrite(h) ==
    LET e == work[h].event IN
    /\ work[h].pc = "noting"
    /\ ~ InFlight(e)
    /\ events' = [events EXCEPT ![e] = Noted(h)]
    /\ reopened' = IF events[e] = "success" /\ Noted(h) = "error"
                   THEN [reopened EXCEPT ![e] = @ + 1] ELSE reopened
    /\ work' = [work EXCEPT ![h] = Idle]
    /\ UNCHANGED <<kind, tenant, invoices, dunning, pass, desk, applied, refused,
                   crossed, deliveries, interventions, faults>>

(* The server process dies: what it has not committed is gone.             *)
Crash(h) ==
    /\ work[h].pc # "idle"
    /\ faults < MaxFaults
    /\ work' = [work EXCEPT ![h] = Idle]
    /\ faults' = faults + 1
    /\ UNCHANGED <<kind, tenant, events, invoices, dunning, pass, desk, applied,
                   refused, reopened, crossed, deliveries, interventions>>

-----------------------------------------------------------------------------
(* process_due_retries: record and tenant are read, the provider is asked  *)
(* to charge again, and the outcome is written over whatever the record    *)
(* says by then.  A pass over several records is one such sequence for     *)
(* each.                                                                   *)
PassRead(p) ==
    /\ ~ pass[p].on
    /\ \E i \in Active :
         pass' = [pass EXCEPT ![p] =
           [on |-> TRUE, record |-> i, count |-> dunning[i].count,
            status |-> tenant.status, known |-> tenant.known]]
    /\ UNCHANGED <<kind, tenant, events, invoices, dunning, work, desk, applied,
                   refused, reopened, crossed, deliveries, interventions, faults>>

(* The provider is active again or takes the payment; without a            *)
(* subscription id there is nothing to ask.                                *)
RetryPaid(p) ==
    /\ pass[p].on /\ pass[p].known
    /\ dunning' = Resolved(pass[p].record)
    /\ tenant' = [tenant EXCEPT !.status = Assign(@, pass[p].status, "active")]
    /\ pass' = [pass EXCEPT ![p] = IdlePass]
    /\ UNCHANGED <<kind, events, invoices, work, desk, applied, refused, reopened,
                   crossed, deliveries, interventions, faults>>

RetryRefused(p) ==
    /\ pass[p].on
    /\ dunning' = Punished(pass[p].record, pass[p].count)
    /\ refused' = refused + 1
    /\ tenant' = IF UsedUp(pass[p].count)
                 THEN [tenant EXCEPT
                         !.status = Assign(@, pass[p].status, "suspended"),
                         !.lock = "dunning"]
                 ELSE tenant
    /\ pass' = [pass EXCEPT ![p] = IdlePass]
    /\ UNCHANGED <<kind, events, invoices, work, desk, applied, reopened, crossed,
                   deliveries, interventions, faults>>

PassDies(p) ==
    /\ pass[p].on
    /\ faults < MaxFaults
    /\ pass' = [pass EXCEPT ![p] = IdlePass]
    /\ faults' = faults + 1
    /\ UNCHANGED <<kind, tenant, events, invoices, dunning, work, desk, applied,
                   refused, reopened, crossed, deliveries, interventions>>

-----------------------------------------------------------------------------
(* Platform staff: suspend_tenant, reactivate_tenant and                   *)
(* manually_resolve_dunning read the tenant, test it, and commit later.    *)
(* Suspension makes its users inactive; reactivation leaves them so.       *)
Allowed(op) == CASE op = "suspend"    -> tenant.lock = "no"
                 [] op = "reactivate" -> tenant.lock # "no"
                 [] op = "resolve"    -> Active # {}

DeskRead ==
    /\ desk.op = "none"
    /\ interventions < MaxDesk
    /\ \E op \in {"suspend", "reactivate", "resolve"} : \E i \in Found :
         /\ Allowed(op)
         /\ desk' = [op |-> op, status |-> tenant.status, lock |-> tenant.lock,
                     record |-> i]
    /\ interventions' = interventions + 1
    /\ UNCHANGED <<kind, tenant, events, invoices, dunning, work, pass, applied,
                   refused, reopened, crossed, deliveries, faults>>

\* Mutant: reactivation clears suspended_at only.
DeskStatusKept == IF desk.op = "suspend" THEN "suspended" ELSE desk.status
DeskStatus == IF desk.op = "suspend" THEN "suspended" ELSE "active"
DeskLock == IF desk.op = "suspend" THEN "staff"
            ELSE Assign(tenant.lock, desk.lock, "no")

DeskWrite ==
    /\ desk.op # "none"
    /\ tenant' = [tenant EXCEPT !.status = Assign(@, desk.status, DeskStatus),
                                !.lock = DeskLock,
                                !.barred = @ \/ desk.op = "suspend"]
    /\ dunning' = IF desk.op = "resolve" THEN Resolved(desk.record) ELSE dunning
    /\ crossed' = (crossed \/ tenant.status # desk.status \/ tenant.lock # desk.lock)
    /\ desk' = IdleDesk
    /\ UNCHANGED <<kind, events, invoices, work, pass, applied, refused, reopened,
                   deliveries, interventions, faults>>

-----------------------------------------------------------------------------
Handler(h) == \/ Deliver(h) \/ Unmatched(h) \/ LookUp(h)
              \/ Checkout(h) \/ CheckoutRefused(h) \/ Receive(h) \/ Pursue(h)
              \/ Update(h) \/ Raise(h) \/ NoteRead(h) \/ NoteWrite(h) \/ Crash(h)
\* Mutant: a tenant without a subscription id is skipped.
RetryWithIds(p) ==
    \/ pass[p].known /\ (RetryPaid(p) \/ RetryRefused(p))
    \/ /\ pass[p].on /\ ~ pass[p].known
       /\ pass' = [pass EXCEPT ![p] = IdlePass]
       /\ UNCHANGED <<kind, tenant, events, invoices, dunning, work, desk, applied,
                      refused, reopened, crossed, deliveries, interventions, faults>>
Retry(p) == RetryPaid(p) \/ RetryRefused(p)
Dun(p) == PassRead(p) \/ Retry(p)
Next == \/ \E h \in Handlers : Handler(h)
        \/ \E p \in Passes : Dun(p) \/ PassDies(p)
        \/ DeskRead \/ DeskWrite

Spec == Init /\ [][Next]_vars

(* The scheduler starts a pass every hour; a pass that has started ends.   *)
Fairness == \A p \in Passes : WF_vars(Dun(p))
FairSpec == Spec /\ Fairness

-----------------------------------------------------------------------------
TypeOK ==
    /\ kind \in [Events -> Kinds]
    /\ tenant \in Tenants
    /\ events \in [Events -> Results]
    /\ invoices \subseteq Events \union {Subscription}
    /\ dunning \in Seq(Records)
    /\ work \in [Handlers -> Work]
    /\ pass \in [Passes -> PassWork]
    /\ desk \in Desk
    /\ applied \in [Events -> Nat]
    /\ refused \in Nat
    /\ reopened \in [Events -> Nat] /\ crossed \in BOOLEAN
    /\ deliveries \in 0..MaxDeliveries
    /\ interventions \in 0..MaxDesk
    /\ faults \in 0..MaxFaults

(* However often a provider delivers an event, and however many servers    *)
(* take it at once: what it does to status, invoices and dunning is one    *)
(* transaction with its outcome, so it has been done once when the event   *)
(* shows a success, and not at all when it never had one.  Only the late   *)
(* failure note of another delivery, which writes an error over a success, *)
(* lets it happen again, once for each such note (process_webhook_event,   *)
(* _record_failed_event).  The provider ids are outside this: a checkout   *)
(* that is refused for its plan stores them and has not been applied.      *)
AppliedOnce ==
    \A e \in Events :
      applied[e] = reopened[e] + (IF events[e] = "success" THEN 1 ELSE 0)

(* The invoices are exactly those of the payments that have been applied:  *)
(* a handler that raises or dies leaves none, a commit never goes without  *)
(* (create_invoice_from_payment, flushed inside the transaction).  It says *)
(* no more than the key does: each payment of Stripe or by hand has an     *)
(* invoice of its own, the charges of a Razorpay subscription share the    *)
(* first one's, and every later charge is applied without an invoice.      *)
PaymentsInvoiced ==
    invoices = {InvoiceKey(e) : e \in {x \in Events : /\ kind[x] \in Payments
                                                     /\ applied[x] > 0}}

NeverReopened == \A e \in Events : reopened[e] = 0

(* Nobody is locked out by dunning before more than MaxRetries payments    *)
(* have failed, each an event of its own or a retry that was refused:      *)
(* repeated deliveries, overlapping passes and stale counts never bring    *)
(* the day closer, unless a late note has let one failed payment count     *)
(* twice (initiate_dunning, process_due_retries).                          *)
NoEarlySuspension ==
    tenant.lock = "dunning" /\ NeverReopened => refused > MaxRetries

(* Two columns keep users out (middleware/auth.py tests suspended_at in    *)
(* get_current_user and the status in require_active_subscription).  A     *)
(* tenant whose status says suspended has suspended_at set, so its users   *)
(* are not let in, unless staff wrote over a change they had not seen.     *)
(* The converse is not claimed: a provider event makes a suspended tenant  *)
(* active and leaves suspended_at.                                         *)
SuspendedIsLocked ==
    ~ crossed /\ tenant.status = "suspended" => tenant.lock # "no"

(* A dunning record that has been resolved or exhausted is never active    *)
(* again, although passes, deliveries and staff write records they have    *)
(* read before: only a change of status is written.                        *)
SettledStays ==
    [][\A i \in DOMAIN dunning :
         dunning[i].status # "active" => dunning'[i].status # "active"]_vars

(* What is left of "once" when an error note has reopened an event: every  *)
(* effect is committed by the step that turns the outcome to success, so a *)
(* repetition needs a reopening of its own, and an event that stays a      *)
(* success has no further effect (process_webhook_event).                  *)
EffectWithOutcome ==
    [][\A e \in Events : applied'[e] # applied[e] =>
         /\ events[e] # "success" /\ events'[e] = "success"
         /\ applied'[e] = applied[e] + 1]_vars

(* Dunning ends: passes come every hour, and each one of them resolves the *)
(* record or brings it closer to its last retry, whatever other passes and *)
(* deliveries write in between (process_due_retries).                      *)
DunningEnds ==
    \A i \in 1..MaxDeliveries : i \in Active ~> i \notin Active
=============================================================================
