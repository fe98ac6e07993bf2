---------------------- MODULE RequestIdempotencyProofs ----------------------
(***************************************************************************)
(* Proofs about RequestIdempotency for any number of requests and bodies.  *)
(*                                                                         *)
(* While no handler has failed and neither the lease nor the key has run   *)
(* out, the owner of the row is the only request that was ever let in, so  *)
(* the unlocked reads of the other branches are never followed by a write. *)
(* Whatever happens to the key, every request past the fingerprint test    *)
(* has the row's body, which no later write changes.                       *)
(***************************************************************************)
EXTENDS RequestIdempotency, TLAPS

Inside == {"handling", "closing", "writing"}

\* What each request may be doing while nothing has disturbed the key.
Quiet ==
  /\ ~expired
  /\ state # "failed"
  /\ state = "processing" => live
  /\ state # "completed" => ~answered
  /\ state = "completed" => answered /\ answer = owner
  /\ \A r \in Requests :
       /\ pc[r] # "taking"
       /\ pc[r] \in Inside => r = owner /\ state = "processing"
       /\ outcome[r] # "none" => r = owner /\ outcome[r] = "ok"
       /\ pc[r] \in {"new", "handling"} => outcome[r] = "none"
       /\ pc[r] \in {"closing", "writing"} => outcome[r] = "ok"
       /\ pc[r] = "writing" => snap[r].state = "processing" /\ ~snap[r].answered
       /\ pc[r] \in Inside \cup {"new"} => reply[r] # r
       /\ outcome[r] = "ok" /\ reply[r] = r => state = "completed"

\* Only an insert finds no row.
RowExists == \A r \in Requests : pc[r] # "new" => state # "absent"

\* Every request let in, and every response stored or received, is for the body
\* of the row.
Alike ==
  /\ answer # NoRequest => BodyOf[answer] = body /\ outcome[answer] # "none"
  /\ \A r \in Requests :
       /\ pc[r] \in Inside \cup {"taking"} => state # "absent" /\ BodyOf[r] = body
       /\ pc[r] \in {"new", "taking", "handling"} => outcome[r] = "none"
       /\ pc[r] \in {"closing", "writing"} => outcome[r] # "none"
       /\ reply[r] # NoRequest =>
            BodyOf[reply[r]] = BodyOf[r] /\ outcome[reply[r]] # "none"

IInv ==
  /\ TypeOK
  /\ RowExists
  /\ Alike
  /\ events = {} => Quiet

-----------------------------------------------------------------------------
LEMMA TypeStep ==
  ASSUME IInv, [Next]_vars
  PROVE TypeOK'
  <1> USE IdempotencyAssumption
      DEF IInv, RowExists, TypeOK, States, Anyone, Snapshots, Row, Goto, row, Assign
  <1>1. CASE LeaseLapses
    BY <1>1 DEF LeaseLapses
  <1>2. CASE KeyExpires
    BY <1>2 DEF KeyExpires
  <1>3. ASSUME NEW r \in Requests, RequestNext(r) PROVE TypeOK'
    <2>0. Row \in Snapshots
      OBVIOUS
    <2>1. CASE Insert(r)
      BY <2>1 DEF Insert, Lease
    <2>2. CASE Refuse(r)
      BY <2>2 DEF Refuse
    <2>2a. CASE Replay(r)
      <3>1. reply' \in [Requests -> Anyone] /\ pc' = [pc EXCEPT ![r] = "done"]
        BY <2>2a DEF Replay
      <3> QED
        BY <2>2a, <3>1 DEF Replay
    <2>3. CASE FindStale(r)
      BY <2>0, <2>3 DEF FindStale
    <2>4. CASE TakeOver(r)
      <3>1. state' \in States \ {"absent"}
        BY <2>4 DEF TakeOver
      <3>2. /\ expired' \in BOOLEAN
            /\ answered' \in BOOLEAN
            /\ answer' \in Anyone
        BY <2>4 DEF TakeOver
      <3>3. /\ owner' = r /\ live' = TRUE /\ pc' = [pc EXCEPT ![r] = "handling"]
            /\ UNCHANGED <<body, snap, outcome, reply, events>>
        BY <2>4 DEF TakeOver, Lease
      <3> QED
        BY <3>1, <3>2, <3>3
    <2>5. ASSUME NEW result \in {"ok", "error"}, Handle(r, result) PROVE TypeOK'
      BY <2>5 DEF Handle
    <2>6. CASE Vanish(r)
      BY <2>6 DEF Vanish
    <2>7. CASE CloseRead(r)
      BY <2>0, <2>7 DEF CloseRead
    <2>8. CASE CloseWrite(r)
      <3>1. state' \in States
        BY <2>8 DEF CloseWrite
      <3>2. answered' \in BOOLEAN
        BY <2>8 DEF CloseWrite, Answered
      <3>3. state' # "absent" /\ state # "absent"
        BY <2>8 DEF CloseWrite
      <3>4. /\ reply' \in [Requests -> Anyone] /\ answer' \in Anyone
            /\ pc' = [pc EXCEPT ![r] = "done"]
            /\ UNCHANGED <<body, owner, live, expired, snap, outcome, events>>
        BY <2>8 DEF CloseWrite
      <3> QED
        BY <3>1, <3>2, <3>3, <3>4
    <2> QED
      BY <1>3, <2>1, <2>2, <2>2a, <2>3, <2>4, <2>5, <2>6, <2>7, <2>8
      DEF RequestNext
  <1>4. CASE UNCHANGED vars
    BY <1>4 DEF vars
  <1> QED
    BY <1>1, <1>2, <1>3, <1>4 DEF Next

LEMMA RowExistsStep ==
  ASSUME IInv, [Next]_vars
  PROVE RowExists'
  <1> USE DEF IInv, RowExists, TypeOK, Goto, row, Assign
  <1>1. CASE LeaseLapses \/ KeyExpires
    BY <1>1 DEF LeaseLapses, KeyExpires
  <1>2. ASSUME NEW r \in Requests, RequestNext(r) PROVE RowExists'
    BY <1>2 DEF RequestNext, Insert, Refuse, Replay, FindStale, TakeOver, Handle,
                Vanish, CloseRead, CloseWrite
  <1>3. CASE UNCHANGED vars
    BY <1>3 DEF vars
  <1> QED
    BY <1>1, <1>2, <1>3 DEF Next

LEMMA QuietStep ==
  ASSUME IInv, [Next]_vars, events' = {}
  PROVE Quiet'
  <1>0. events = {} /\ Quiet /\ TypeOK
    BY DEF IInv, Next, vars, LeaseLapses, KeyExpires, RequestNext, Insert, Refuse,
           Replay, FindStale, TakeOver, Handle, Vanish, CloseRead, CloseWrite
  <1> USE <1>0, IdempotencyAssumption DEF TypeOK, Quiet, Inside, Goto, row, Assign
  <1>1. CASE LeaseLapses
    BY <1>1 DEF LeaseLapses
  <1>2. CASE KeyExpires
    BY <1>2 DEF KeyExpires
  <1>3. ASSUME NEW r \in Requests, RequestNext(r) PROVE Quiet'
    <2>1. CASE Insert(r)
      BY <2>1 DEF Insert, Lease
    <2>2. CASE Refuse(r)
      BY <2>2 DEF Refuse
    <2>3. CASE Replay(r)
      BY <2>3 DEF Replay
    <2>4. CASE FindStale(r)
      BY <2>4 DEF FindStale, Completed, Stale, States
    <2>5. CASE TakeOver(r)
      BY <2>5 DEF TakeOver
    <2>6. ASSUME NEW result \in {"ok", "error"}, Handle(r, result) PROVE Quiet'
      <3>1. result = "ok"
        BY <2>6 DEF Handle
      <3>2. /\ pc[r] = "handling"
            /\ outcome' = [outcome EXCEPT ![r] = "ok"] /\ pc' = [pc EXCEPT ![r] = "closing"]
            /\ UNCHANGED <<state, owner, live, expired, answered, answer, snap, reply>>
        BY <2>6, <3>1 DEF Handle
      <3>3. reply[r] # r
        BY <3>2
      <3> QED
        BY <3>2, <3>3
    <2>7. CASE Vanish(r)
      BY <2>7 DEF Vanish
    <2>8. CASE CloseRead(r)
      BY <2>8 DEF CloseRead, Row
    <2>9. CASE CloseWrite(r)
      BY ZenonT(60), <2>9 DEF CloseWrite, Answered
    <2> QED
      BY <1>3, <2>1, <2>2, <2>3, <2>4, <2>5, <2>6, <2>7, <2>8, <2>9 DEF RequestNext
  <1>4. CASE UNCHANGED vars
    BY <1>4 DEF vars
  <1> QED
    BY <1>1, <1>2, <1>3, <1>4 DEF Next

\* The row's answer survives every step but the write of a request let in.
LEMMA AlikeStep ==
  ASSUME IInv, [Next]_vars
  PROVE Alike'
  <1>0. TypeOK /\ RowExists /\ Alike
    BY DEF IInv
  <1> USE <1>0, IdempotencyAssumption
      DEF TypeOK, Anyone, RowExists, Alike, Inside, Goto, row, Assign
  <1>1. CASE LeaseLapses \/ KeyExpires
    BY <1>1 DEF LeaseLapses, KeyExpires
  <1>2. ASSUME NEW r \in Requests, RequestNext(r) PROVE Alike'
    <2>1. CASE Insert(r)
      BY <2>1 DEF Insert, Lease
    <2>2. CASE Refuse(r) \/ FindStale(r) \/ Vanish(r)
      BY <2>2 DEF Refuse, FindStale, Vanish
    <2>3. CASE Replay(r)
      BY <2>3 DEF Replay
    <2>4. CASE TakeOver(r)
      <3>1. answer' \in {answer, NoRequest}
        BY <2>4 DEF TakeOver
      <3>2. state' # "absent"
        BY <2>4 DEF TakeOver
      <3>3. /\ pc[r] = "taking" /\ pc' = [pc EXCEPT ![r] = "handling"]
            /\ UNCHANGED <<body, outcome, reply>>
        BY <2>4 DEF TakeOver
      <3> QED
        BY <3>1, <3>2, <3>3
    <2>5. ASSUME NEW result \in {"ok", "error"}, Handle(r, result) PROVE Alike'
      BY <2>5 DEF Handle
    <2>6. CASE CloseRead(r)
      BY <2>6 DEF CloseRead
    <2>7. CASE CloseWrite(r)
      <3>1. state' # "absent"
        BY <2>7 DEF CloseWrite
      <3>2. /\ pc[r] = "writing" /\ pc' = [pc EXCEPT ![r] = "done"]
            /\ answer' = r /\ reply' = [reply EXCEPT ![r] = r]
            /\ UNCHANGED <<body, outcome>>
        BY <2>7 DEF CloseWrite
      <3> QED
        BY <3>1, <3>2
    <2> QED
      BY <1>2, <2>1, <2>2, <2>3, <2>4, <2>5, <2>6, <2>7 DEF RequestNext
  <1>3. CASE UNCHANGED vars
    BY <1>3 DEF vars
  <1> QED
    BY <1>1, <1>2, <1>3 DEF Next

-----------------------------------------------------------------------------
(* The theorems *)

\* The invariant the other theorems rest on.
THEOREM Inductive == Spec => []IInv
  <1>1. ASSUME Init PROVE IInv
    <2>1. Row \in Snapshots
      BY <1>1 DEF Init, Row, Snapshots, States, Anyone
    <2>2. TypeOK
      BY <1>1, <2>1 DEF Init, TypeOK, States, Anyone
    <2>2a. RowExists
      BY <1>1 DEF Init, RowExists
    <2>3. Quiet
      BY <1>1, IdempotencyAssumption DEF Init, Quiet, Inside
    <2>4. Alike
      BY <1>1 DEF Init, Alike, Inside
    <2> QED
      BY <2>2, <2>2a, <2>3, <2>4 DEF IInv
  <1>2. IInv /\ [Next]_vars => IInv'
    BY TypeStep, RowExistsStep, AlikeStep, QuietStep DEF IInv
  <1> QED
    BY <1>1, <1>2, PTL DEF Spec

\* Whatever requests race for the key, the row and their copies keep their types.
THEOREM TypeCorrect == Spec => []TypeOK
  <1>1. IInv => TypeOK
    BY DEF IInv
  <1> QED
    BY <1>1, Inductive, PTL

\* An undisturbed key executes its mutation at most once, for any number of
\* concurrent requests.
THEOREM Once == Spec => []AtMostOnce
  <1>1. IInv => AtMostOnce
    BY DEF IInv, Quiet, AtMostOnce, Ran
  <1> QED
    BY <1>1, Inductive, PTL

\* A success that a client has seen is what the row answers from then on.
THEOREM Kept == Spec => []SuccessKept
  <1>1. IInv => SuccessKept
    BY DEF IInv, Quiet, SuccessKept, Ran, Completed
  <1> QED
    BY <1>1, Inductive, PTL

\* Even on a key whose lease lapsed, whose handler failed or that expired, no
\* client receives the response of a different request.
THEOREM Alikeness == Spec => []AnsweredAlike
  <1>1. IInv => AnsweredAlike
    BY DEF IInv, Alike, AnsweredAlike
  <1> QED
    BY <1>1, Inductive, PTL

=============================================================================
