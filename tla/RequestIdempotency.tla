------------------------- MODULE RequestIdempotency -------------------------
(***************************************************************************)
(* One row of idempotency_keys and the requests that carry its key:        *)
(* middleware/idempotency.py around services/request_idempotency.py.       *)
(*                                                                         *)
(* The insert of a new row is atomic.  Everything else reads the row       *)
(* without a lock, decides, and writes later; the ORM then writes only the *)
(* columns whose value differs from the one it read.                       *)
(***************************************************************************)
EXTENDS Naturals, FiniteSets

CONSTANTS
  Requests,     \* HTTP requests with the same key, tenant and endpoint
  BodyOf,       \* BodyOf[r]: the request's fingerprint
  NoRequest

ASSUME IdempotencyAssumption == NoRequest \notin Requests

VARIABLES
  state,      \* idempotency_keys.state, "absent" before the row exists
  body,       \* request_fingerprint
  owner,      \* owner_token
  live,       \* lease_expires_at is in the future
  expired,    \* expires_at is past
  answered,   \* response_status is not null
  answer,     \* the request whose response is in response_body
  pc,         \* where each request is
  snap,       \* the columns each request read
  outcome,    \* what the handler of each request did
  reply,      \* the request whose response each client received
  events      \* history: what has happened to the key

row == <<state, body, owner, live, expired, answered, answer>>
vars == <<row, pc, snap, outcome, reply, events>>

Anyone == Requests \cup {NoRequest}
States == {"absent", "processing", "completed", "failed"}
Snapshots == [state : States, answered : BOOLEAN, answer : Anyone, expired : BOOLEAN]

\* Every variable holds a value of the column or local it stands for, and a row
\* that exists has an owner.
TypeOK ==
  /\ state \in States
  /\ state = "absent" <=> owner = NoRequest
  /\ body \in {BodyOf[r] : r \in Requests} \cup {NoRequest}
  /\ owner \in Anyone /\ answer \in Anyone
  /\ live \in BOOLEAN /\ expired \in BOOLEAN /\ answered \in BOOLEAN
  /\ pc \in [Requests -> {"new", "taking", "handling", "closing", "writing",
                          "refused", "done"}]
  /\ snap \in [Requests -> Snapshots]
  /\ outcome \in [Requests -> {"none", "ok", "error"}]
  /\ reply \in [Requests -> Anyone]
  /\ events \subseteq {"lapse", "failure", "expiry"}

Row == [state |-> state, answered |-> answered, answer |-> answer, expired |-> expired]

Init ==
  /\ state = "absent" /\ body = NoRequest /\ owner = NoRequest
  /\ live = FALSE /\ expired = FALSE /\ answered = FALSE /\ answer = NoRequest
  /\ pc = [r \in Requests |-> "new"]
  /\ snap = [r \in Requests |-> Row]
  /\ outcome = [r \in Requests |-> "none"]
  /\ reply = [r \in Requests |-> NoRequest]
  /\ events = {}

Goto(r, label) == pc' = [pc EXCEPT ![r] = label]

-----------------------------------------------------------------------------
(* acquire_idempotency *)

\* Mutant: the token that tells owners apart is left out.
NoToken(r) == owner' = NoRequest /\ live' = TRUE

\* A fresh owner token and 30 more seconds.
Lease(r) == owner' = r /\ live' = TRUE

Insert(r) ==
  /\ pc[r] = "new" /\ state = "absent"
  /\ state' = "processing" /\ body' = BodyOf[r]
  /\ Lease(r)
  /\ Goto(r, "handling")
  /\ UNCHANGED <<expired, answered, answer, snap, outcome, reply, events>>

Completed == state = "completed" /\ answered

\* Mutant: a row that is still being processed counts as stale.
StaleOrBusy == state \in {"processing", "failed"}

Stale == (state = "processing" /\ ~live) \/ state = "failed"

\* The branches after a lost insert, in the order of the code: the fingerprint
\* is compared before the expiry is looked at.
Refuse(r) ==
  /\ pc[r] = "new" /\ state # "absent"
  /\ body # BodyOf[r] \/ ~(expired \/ Completed \/ Stale)
  /\ Goto(r, "refused")
  /\ UNCHANGED <<row, snap, outcome, reply, events>>

Replay(r) ==
  /\ pc[r] = "new" /\ state # "absent" /\ body = BodyOf[r] /\ ~expired
  /\ Completed
  /\ reply' = [reply EXCEPT ![r] = answer]
  /\ Goto(r, "done")
  /\ UNCHANGED <<row, snap, outcome, events>>

\* Mutant: the expiry is looked at before the fingerprint is compared.
FindExpired(r) ==
  /\ pc[r] = "new" /\ state # "absent" /\ (expired \/ body = BodyOf[r])
  /\ expired \/ (~Completed /\ Stale)
  /\ snap' = [snap EXCEPT ![r] = Row]
  /\ Goto(r, "taking")
  /\ UNCHANGED <<row, outcome, reply, events>>

FindStale(r) ==
  /\ pc[r] = "new" /\ state # "absent" /\ body = BodyOf[r]
  /\ expired \/ (~Completed /\ Stale)
  /\ snap' = [snap EXCEPT ![r] = Row]
  /\ Goto(r, "taking")
  /\ UNCHANGED <<row, outcome, reply, events>>

\* The value of a column after r assigns new to the attribute it read as old.
Assign(old, new, now) == IF old # new THEN new ELSE now

\* The UPDATE that follows, whoever owns the row by now.
TakeOver(r) ==
  /\ pc[r] = "taking"
  /\ state' = Assign(snap[r].state, "processing", state)
  /\ Lease(r)
  /\ IF snap[r].expired
       THEN /\ expired' = FALSE
            /\ answered' = Assign(snap[r].answered, FALSE, answered)
            /\ answer' = Assign(snap[r].answer, NoRequest, answer)
       ELSE UNCHANGED <<expired, answered, answer>>
  /\ Goto(r, "handling")
  /\ UNCHANGED <<body, snap, outcome, reply, events>>

-----------------------------------------------------------------------------
(* The route's handler, complete_idempotency and fail_idempotency *)

Handle(r, result) ==
  /\ pc[r] = "handling"
  /\ outcome' = [outcome EXCEPT ![r] = result]
  /\ events' = events \cup (IF result = "ok" THEN {} ELSE {"failure"})
  /\ Goto(r, "closing")
  /\ UNCHANGED <<row, snap, reply>>

\* An unhandled exception, or the process dies: the row keeps its state.
Vanish(r) ==
  /\ pc[r] \in {"taking", "handling", "closing", "writing"}
  /\ Goto(r, "done")
  /\ UNCHANGED <<row, snap, outcome, reply, events>>

\* A request that lost the row answers 503 although it succeeded; a failed one
\* returns its own response.
CloseRead(r) ==
  /\ pc[r] = "closing"
  /\ IF owner = r
       THEN snap' = [snap EXCEPT ![r] = Row] /\ Goto(r, "writing") /\ UNCHANGED reply
       ELSE /\ reply' = [reply EXCEPT ![r] = IF outcome[r] = "ok" THEN NoRequest ELSE r]
            /\ Goto(r, IF outcome[r] = "ok" THEN "refused" ELSE "done")
            /\ UNCHANGED snap
  /\ UNCHANGED <<row, outcome, events>>

\* Mutant: the completed response is stored without its status.
AnsweredLater(r) == UNCHANGED answered

Answered(r) ==
  answered' = IF outcome[r] = "ok" THEN Assign(snap[r].answered, TRUE, answered) ELSE answered

CloseWrite(r) ==
  /\ pc[r] = "writing"
  /\ state' = Assign(snap[r].state, IF outcome[r] = "ok" THEN "completed" ELSE "failed", state)
  /\ Answered(r)
  /\ answer' = r
  /\ reply' = [reply EXCEPT ![r] = r]
  /\ Goto(r, "done")
  /\ UNCHANGED <<body, owner, live, expired, snap, outcome, events>>

-----------------------------------------------------------------------------
(* Time: a lease lasts 30 seconds and is never renewed; a key lasts 24 hours, *)
(* longer than any request.                                                   *)

LeaseLapses ==
  /\ state # "absent" /\ live
  /\ live' = FALSE
  /\ events' = events \cup (IF state = "processing" THEN {"lapse"} ELSE {})
  /\ UNCHANGED <<state, body, owner, expired, answered, answer, pc, snap, outcome, reply>>

KeyExpires ==
  /\ state # "absent" /\ ~live /\ ~expired
  /\ \A r \in Requests : pc[r] \in {"new", "refused", "done"}
  /\ expired' = TRUE
  /\ events' = events \cup {"expiry"}
  /\ UNCHANGED <<state, body, owner, live, answered, answer, pc, snap, outcome, reply>>

-----------------------------------------------------------------------------

RequestNext(r) ==
  \/ Insert(r) \/ Refuse(r) \/ Replay(r) \/ FindStale(r) \/ TakeOver(r)
  \/ \E result \in {"ok", "error"} : Handle(r, result)
  \/ Vanish(r) \/ CloseRead(r) \/ CloseWrite(r)

Next == LeaseLapses \/ KeyExpires \/ \E r \in Requests : RequestNext(r)

Spec == Init /\ [][Next]_vars

-----------------------------------------------------------------------------
(* Properties *)

Ran == {r \in Requests : outcome[r] = "ok"}

\* A mutation is executed at most once per key, however its requests overlap
\* and die, as long as no handler fails and neither lease nor key runs out.
AtMostOnce == events = {} => \A r, q \in Ran : r = q

\* Under the same condition a success a client has seen is kept: the row
\* answers every later request of the key with it, and with nothing else.
SuccessKept ==
  events = {} =>
    \A r \in Ran : reply[r] = r => Completed /\ answer = r

\* Whatever lapses, fails, expires or is taken over, and whichever of several
\* owners writes last: a response that a client receives was produced by a
\* handler that ran, and for the same request.
AnsweredAlike ==
  \A r \in Requests :
    reply[r] # NoRequest =>
      BodyOf[reply[r]] = BodyOf[r] /\ outcome[reply[r]] # "none"

=============================================================================
