--------------------------- MODULE HttpMetricsProofs ---------------------------
(***************************************************************************)
(* Theorems about HttpMetrics, for any finite set of requests and any      *)
(* statuses (ConstantsOK): how far gauge and counter can be from what the  *)
(* package says of them.                                                   *)
(***************************************************************************)
EXTENDS HttpMetrics, FiniteSetTheorems, TLAPS

Steps == {"new", "handling", "returned", "status", "counted", "done", "crashed"}
Inside == {"handling", "returned", "status", "crashed"}

(* The requests that stand in one of some places, and those that are done  *)
(* under a status; by the variables they are read from, so that they can   *)
(* be compared before and after a step.                                    *)
At(p, where) == {r \in Requests : p[r] \in where}
Done(p, st, s) == {r \in Requests : p[r] = "done" /\ st[r] = s}

(* No status is the one of a Response that nobody has written. *)
LEMMA StatusType ==
  ASSUME ConstantsOK
  PROVE  /\ OK \in Nat /\ NoStatus \in Nat /\ Status \subseteq Nat /\ OK \in Status
         /\ NoStatus \notin Status /\ OK # NoStatus
BY DEF ConstantsOK, OK, NoStatus, Status

(* Any part of the requests can be counted. *)
LEMMA Countable ==
  ASSUME ConstantsOK, NEW S \in SUBSET Requests
  PROVE  /\ IsFiniteSet(S) /\ Cardinality(S) \in 0..Cardinality(Requests)
         /\ \A r \in Requests :
              /\ r \notin S => Cardinality(S \union {r}) = Cardinality(S) + 1
              /\ r \in S => Cardinality(S \ {r}) = Cardinality(S) - 1
<1>1. IsFiniteSet(S) /\ Cardinality(S) <= Cardinality(Requests)
  BY FS_Subset DEF ConstantsOK
<1>2. Cardinality(S) \in Nat /\ Cardinality(Requests) \in Nat
  BY <1>1, FS_CardinalityType DEF ConstantsOK
<1>3. Cardinality(S) \in 0..Cardinality(Requests)
  BY <1>1, <1>2
<1>4. \A r \in Requests :
        /\ r \notin S => Cardinality(S \union {r}) = Cardinality(S) + 1
        /\ r \in S => Cardinality(S \ {r}) = Cardinality(S) - 1
  BY <1>1, FS_AddElement, FS_RemoveElement
<1> QED BY <1>1, <1>3, <1>4

(* A request that moves enters a set of places, leaves it, or neither. *)
LEMMA Moves ==
  ASSUME ConstantsOK, NEW p \in [Requests -> Steps], NEW r \in Requests, NEW w \in Steps, NEW where
  PROVE  LET q == [p EXCEPT ![r] = w] IN
         /\ w \in where /\ p[r] \notin where => Cardinality(At(q, where)) = Cardinality(At(p, where)) + 1
         /\ w \notin where /\ p[r] \in where => Cardinality(At(q, where)) = Cardinality(At(p, where)) - 1
         /\ (w \in where <=> p[r] \in where) => At(q, where) = At(p, where)
<1> DEFINE q == [p EXCEPT ![r] = w]
<1>1. At(p, where) \in SUBSET Requests /\ (r \in At(p, where) <=> p[r] \in where)
  BY DEF At
<1>2. w \in where => At(q, where) = At(p, where) \union {r}
  BY DEF At
<1>3. w \notin where => At(q, where) = At(p, where) \ {r}
  BY DEF At
<1>4. w \in where /\ p[r] \notin where => Cardinality(At(q, where)) = Cardinality(At(p, where)) + 1
  BY <1>1, <1>2, Countable
<1>5. w \notin where /\ p[r] \in where => Cardinality(At(q, where)) = Cardinality(At(p, where)) - 1
  BY <1>1, <1>3, Countable
<1>6. (w \in where <=> p[r] \in where) => At(q, where) = At(p, where)
  BY <1>1, <1>2, <1>3
<1> QED BY <1>4, <1>5, <1>6

--------------------------------------------------------------------------------
(* The inductive invariant. *)

Types ==
  /\ pc \in [Requests -> Steps]
  /\ written \in [Requests -> Status \union {NoStatus}]
  /\ err \in [Requests -> Status \union {NoStatus}]
  /\ status \in [Requests -> Status \union {NoStatus}]
  /\ total \in [Status -> Nat]

Gauge == inFlight = Cardinality(At(pc, Inside))
Counter == \A s \in Status : total[s] = Cardinality(Done(pc, status, s))

(* What a request is about to be counted under, and what it was.           *)
Recorded ==
  \A r \in Requests :
    /\ pc[r] \in {"status", "counted"} => status[r] = IF written[r] = NoStatus THEN OK ELSE written[r]
    /\ pc[r] = "done" /\ written[r] # status[r] => status[r] = OK /\ err[r] # NoStatus

MInv == Types /\ Gauge /\ Counter /\ Recorded

(* No request has come yet. *)
LEMMA MInvInit == ASSUME ConstantsOK, Init PROVE MInv
<1>1. Types
  BY StatusType DEF Init, Types, Steps
<1>2. At(pc, Inside) = {} /\ \A s : Done(pc, status, s) = {}
  BY DEF Init, At, Inside, Done
<1>3. Gauge /\ Counter
  BY <1>2, FS_EmptySet DEF Init, Gauge, Counter
<1>4. Recorded
  BY DEF Init, Recorded
<1> QED BY <1>1, <1>3, <1>4 DEF MInv

(* A step of a request that is not done and does not get done leaves the   *)
(* counter as it explains the answers.                                     *)
LEMMA NotCounted ==
  ASSUME Counter, total' = total,
         \A q \in Requests : pc'[q] = "done" <=> pc[q] = "done",
         \A q \in Requests : pc[q] = "done" => status'[q] = status[q]
  PROVE  Counter'
<1>1. \A s : Done(pc', status', s) = Done(pc, status, s)
  BY DEF Done
<1> QED BY <1>1 DEF Counter

(* A request that moves in or out takes the gauge along. *)
LEMMA GaugeKept ==
  ASSUME ConstantsOK, Types, Gauge, NEW r \in Requests, NEW w \in Steps, pc' = [pc EXCEPT ![r] = w],
         inFlight' = IF w \in Inside /\ pc[r] \notin Inside THEN inFlight + 1
                     ELSE IF w \notin Inside /\ pc[r] \in Inside THEN inFlight - 1
                     ELSE inFlight
  PROVE  Gauge'
<1> DEFINE q == [pc EXCEPT ![r] = w]
<1>1. pc \in [Requests -> Steps]
  BY DEF Types
<1>2. /\ w \in Inside /\ pc[r] \notin Inside => Cardinality(At(q, Inside)) = Cardinality(At(pc, Inside)) + 1
      /\ w \notin Inside /\ pc[r] \in Inside => Cardinality(At(q, Inside)) = Cardinality(At(pc, Inside)) - 1
      /\ (w \in Inside <=> pc[r] \in Inside) => At(q, Inside) = At(pc, Inside)
  BY <1>1, Moves
<1>3. pc' = q
  OBVIOUS
<1> HIDE DEF q
<1>4. inFlight' = Cardinality(At(q, Inside))
  BY <1>2 DEF Gauge
<1> QED BY <1>3, <1>4 DEF Gauge

(* MInv is inductive: one step per move of a request. *)
LEMMA MInvStep == ASSUME ConstantsOK, MInv, [Next]_vars PROVE MInv'
<1> USE DEF MInv
<1>0. /\ pc \in [Requests -> Steps] /\ Cardinality(At(pc, Inside)) \in Nat
  <2>1. At(pc, Inside) \in SUBSET Requests
    BY DEF At
  <2> QED BY <2>1, Countable DEF Types
<1>1. ASSUME NEW r \in Requests, Enter(r) PROVE MInv'
  <2>1. pc' = [pc EXCEPT ![r] = "handling"] /\ pc[r] = "new"
    BY <1>1 DEF Enter, Goto
  <2>2. Types'
    BY <1>1, <2>1 DEF Enter, Types, Steps
  <2>3. Gauge'
    BY <1>0, <1>1, <2>1, GaugeKept DEF Enter, Inside, Steps
  <2>4. Counter'
    BY <1>0, <1>1, <2>1, NotCounted DEF Enter
  <2>5. Recorded'
    BY <1>0, <1>1, <2>1 DEF Enter, Recorded
  <2> QED BY <2>2, <2>3, <2>4, <2>5
<1>2. ASSUME NEW r \in Requests, Respond(r) PROVE MInv'
  <2>1. /\ pc' = pc /\ status' = status /\ total' = total /\ inFlight' = inFlight /\ err' = err
        /\ pc[r] = "handling"
    BY <1>2 DEF Respond
  <2>2. Types'
    BY <1>2 DEF Respond, Types
  <2>3. Gauge' /\ Counter'
    BY <2>1 DEF Gauge, Counter
  <2>4. Recorded'
    BY <1>2, <2>1 DEF Respond, Recorded, Types
  <2> QED BY <2>2, <2>3, <2>4
<1>3. ASSUME NEW r \in Requests, Return(r) PROVE MInv'
  <2>1. pc' = [pc EXCEPT ![r] = "returned"] /\ pc[r] = "handling"
    BY <1>3 DEF Return, Goto
  <2>2. Types'
    BY <1>3, <2>1 DEF Return, Types, Steps, Status
  <2>3. Gauge'
    BY <1>0, <1>3, <2>1, GaugeKept DEF Return, Inside, Steps
  <2>4. Counter'
    BY <1>0, <1>3, <2>1, NotCounted DEF Return
  <2>5. Recorded'
    BY <1>0, <1>3, <2>1 DEF Return, Recorded, Types
  <2> QED BY <2>2, <2>3, <2>4, <2>5
<1>4. ASSUME NEW r \in Requests, Panic(r) PROVE MInv'
  <2>1. pc' = [pc EXCEPT ![r] = "crashed"] /\ pc[r] = "handling"
    BY <1>4 DEF Panic, Goto
  <2>2. Types'
    BY <1>4, <2>1 DEF Panic, Types, Steps
  <2>3. Gauge'
    BY <1>0, <1>4, <2>1, GaugeKept DEF Panic, Inside, Steps
  <2>4. Counter'
    BY <1>0, <1>4, <2>1, NotCounted DEF Panic
  <2>5. Recorded'
    BY <1>0, <1>4, <2>1 DEF Panic, Recorded
  <2> QED BY <2>2, <2>3, <2>4, <2>5
<1>5. ASSUME NEW r \in Requests, ReadStatus(r) PROVE MInv'
  <2>1. pc' = [pc EXCEPT ![r] = "status"] /\ pc[r] = "returned"
    BY <1>5 DEF ReadStatus, Goto
  <2>2. Types'
    BY <1>5, <2>1, StatusType DEF ReadStatus, Types, Steps
  <2>3. Gauge'
    BY <1>0, <1>5, <2>1, GaugeKept DEF ReadStatus, Inside, Steps
  <2>4. Counter'
    BY <1>0, <1>5, <2>1, NotCounted DEF ReadStatus, Types
  <2>5. Recorded'
    BY <1>0, <1>5, <2>1 DEF ReadStatus, Recorded, Types
  <2> QED BY <2>2, <2>3, <2>4, <2>5
<1>6. ASSUME NEW r \in Requests, Leave(r) PROVE MInv'
  <2>1. pc' = [pc EXCEPT ![r] = "counted"] /\ pc[r] = "status"
    BY <1>6 DEF Leave, Goto
  <2>2. Types'
    BY <1>6, <2>1 DEF Leave, Types, Steps
  <2>3. Gauge'
    BY <1>0, <1>6, <2>1, GaugeKept DEF Leave, Inside, Steps
  <2>4. Counter'
    BY <1>0, <1>6, <2>1, NotCounted DEF Leave
  <2>5. Recorded'
    BY <1>0, <1>6, <2>1 DEF Leave, Recorded
  <2> QED BY <2>2, <2>3, <2>4, <2>5
<1>7. ASSUME NEW r \in Requests, Count(r) PROVE MInv'
  <2>1. pc' = [pc EXCEPT ![r] = "done"] /\ pc[r] = "counted" /\ status' = status /\ err' = err
    BY <1>7 DEF Count, Goto
  <2>2. status[r] \in Status /\ total' = [total EXCEPT ![status[r]] = total[status[r]] + 1]
    BY <1>7, <2>1, StatusType DEF Count, Recorded, Types
  <2>3. written' = [written EXCEPT ![r] = IF written[r] # NoStatus THEN written[r]
                                          ELSE IF err[r] # NoStatus THEN err[r] ELSE OK]
    BY <1>7 DEF Count, Types
  <2>4. Types'
    <3>1. pc' \in [Requests -> Steps]
      BY <2>1 DEF Types, Steps
    <3>2. written' \in [Requests -> Status \union {NoStatus}]
      <4>1. OK \in Status
        BY StatusType
      <4>2. (IF written[r] # NoStatus THEN written[r]
             ELSE IF err[r] # NoStatus THEN err[r] ELSE OK) \in Status \union {NoStatus}
        BY <4>1 DEF Types
      <4> QED BY <2>3, <4>2 DEF Types
    <3>3. total' \in [Status -> Nat]
      <4>1. total[status[r]] + 1 \in Nat
        BY <2>2 DEF Types
      <4> QED BY <2>2, <4>1 DEF Types
    <3> QED BY <2>1, <3>1, <3>2, <3>3 DEF Types
  <2>5. Gauge'
    BY <1>0, <1>7, <2>1, GaugeKept DEF Count, Inside, Steps
  <2>6. Counter'
    <3> SUFFICES ASSUME NEW s \in Status PROVE total'[s] = Cardinality(Done(pc', status', s))
      BY DEF Counter
    <3>1. Done(pc, status, s) \in SUBSET Requests /\ r \notin Done(pc, status, s)
      BY <2>1 DEF Done
    <3>2. CASE s = status[r]
      <4>1. Done(pc', status', s) = Done(pc, status, s) \union {r}
        BY <1>0, <2>1, <3>2 DEF Done
      <4> QED BY <2>2, <3>1, <3>2, <4>1, Countable DEF Counter, Types
    <3>3. CASE s # status[r]
      <4>1. Done(pc', status', s) = Done(pc, status, s)
        BY <1>0, <2>1, <3>3 DEF Done
      <4> QED BY <2>2, <3>3, <4>1 DEF Counter, Types
    <3> QED BY <3>2, <3>3
  <2>7. Recorded'
    BY <1>0, <2>1, <2>3, StatusType DEF Recorded, Types
  <2> QED BY <2>4, <2>5, <2>6, <2>7
<1>8. CASE UNCHANGED vars
  BY <1>8 DEF vars, Types, Gauge, Counter, Recorded
<1> QED BY <1>1, <1>2, <1>3, <1>4, <1>5, <1>6, <1>7, <1>8 DEF Next, Finished

(* Every reachable state satisfies the invariant. *)
THEOREM MInvariance == ASSUME ConstantsOK PROVE Spec => []MInv
<1>1. Init => MInv
  BY MInvInit
<1>2. MInv /\ [Next]_vars => MInv'
  BY MInvStep
<1> QED BY <1>1, <1>2, PTL DEF Spec

--------------------------------------------------------------------------------
(* The theorems. *)

(* The variables keep to their types, the gauge between nothing and every  *)
(* request: it is never decremented more often than it was incremented.    *)
THEOREM MetricsTypeCorrect == ASSUME ConstantsOK PROVE Spec => []TypeOK
<1>1. MInv => TypeOK
  <2> SUFFICES ASSUME MInv PROVE TypeOK
    OBVIOUS
  <2>1. inFlight \in 0..Cardinality(Requests)
    <3>1. At(pc, Inside) \in SUBSET Requests
      BY DEF At
    <3> QED BY <3>1, Countable DEF MInv, Gauge
  <2>2. \A s \in Status : total[s] \in 0..Cardinality(Requests)
    <3>1. \A s : Done(pc, status, s) \in SUBSET Requests
      BY DEF Done
    <3> QED BY <3>1, Countable DEF MInv, Counter
  <2>3. total \in [Status -> 0..Cardinality(Requests)]
    BY <2>2 DEF MInv, Types
  <2> QED BY <2>1, <2>3 DEF MInv, Types, TypeOK, Steps
<1> QED BY <1>1, MInvariance, PTL

(* Panics are all that keeps the gauge from what metrics.go:39 says of it: *)
(* as long as no handler panicked, no interleaving of requests, errors and *)
(* answers makes it drift.                                                 *)
THEOREM GaugeThm ==
  ASSUME ConstantsOK
  PROVE  Spec => [](In({"crashed"}) = {} => GaugeIsCurrent)
<1>1. MInv => (In({"crashed"}) = {} => GaugeIsCurrent)
  <2> SUFFICES ASSUME MInv, In({"crashed"}) = {} PROVE GaugeIsCurrent
    OBVIOUS
  <2>1. At(pc, Inside) = In({"handling", "returned", "status"})
    BY DEF At, Inside, In
  <2> QED BY <2>1 DEF MInv, Gauge, GaugeIsCurrent
<1> QED BY <1>1, MInvariance, PTL

(* Every answer is counted exactly once, and what is counted under another *)
(* status than it was answered with is an error left to Echo's error       *)
(* handler, counted as 200.                                                *)
THEOREM CountedOnceThm ==
  ASSUME ConstantsOK
  PROVE  Spec => [](/\ \A s \in Status : total[s] = Cardinality({r \in In({"done"}) : status[r] = s})
                    /\ \A r \in In({"done"}) : written[r] # status[r] =>
                         status[r] = OK /\ err[r] # NoStatus)
<1>1. \A s : {r \in In({"done"}) : status[r] = s} = Done(pc, status, s)
  BY DEF In, Done
<1>2. \A r \in In({"done"}) : r \in Requests /\ pc[r] = "done"
  BY DEF In
<1>3. MInv => /\ \A s \in Status : total[s] = Cardinality({r \in In({"done"}) : status[r] = s})
              /\ \A r \in In({"done"}) : written[r] # status[r] =>
                   status[r] = OK /\ err[r] # NoStatus
  BY <1>1, <1>2 DEF MInv, Counter, Recorded
<1> QED BY <1>3, MInvariance, PTL

(* Returned errors are all that keeps the counter from what metrics.go:2   *)
(* says of it: as long as handlers write their answers themselves, the     *)
(* requests are counted by the status they were answered with.             *)
THEOREM CountsThm ==
  ASSUME ConstantsOK
  PROVE  Spec => []((\A r \in Requests : err[r] = NoStatus) => CountedByStatus)
<1>1. MInv => ((\A r \in Requests : err[r] = NoStatus) => CountedByStatus)
  <2> SUFFICES ASSUME MInv, \A r \in Requests : err[r] = NoStatus, NEW s \in Status
               PROVE  total[s] = Cardinality({r \in In({"done"}) : written[r] = s})
    BY DEF CountedByStatus
  <2>1. \A r \in Requests : pc[r] = "done" => written[r] = status[r]
    BY DEF MInv, Recorded
  <2>2. {r \in In({"done"}) : written[r] = s} = Done(pc, status, s)
    BY <2>1 DEF In, Done
  <2> QED BY <2>2 DEF MInv, Counter
<1> QED BY <1>1, MInvariance, PTL
================================================================================
