------------------------------ MODULE HttpMetrics ------------------------------
(***************************************************************************)
(* pkg/metrics/metrics.go: the middleware that counts HTTP requests, in    *)
(* one Echo process that serves requests concurrently.  The counters are   *)
(* shared; what a request records of itself is read from its Response      *)
(* when the rest of the chain has returned.  Echo's error handler, which   *)
(* turns a returned error into a response, runs after every middleware.    *)
(***************************************************************************)
EXTENDS Naturals, FiniteSets

CONSTANTS
  Requests,    \* requests served
  ErrStatus    \* the statuses handlers and errors answer with, other than 200

OK == 200      \* the Status of a Response nobody has written
NoStatus == 0

(* What the theorems ask of the constants. *)
ConstantsOK == ErrStatus \subseteq Nat \ {OK, NoStatus} /\ IsFiniteSet(Requests)

Status == ErrStatus \union {OK}

VARIABLES
  pc,        \* per request: "new", "handling", "returned", "status", "counted",
             \*              "done", "crashed"
  written,   \* per request: the status its response was committed with, or NoStatus
  err,       \* per request: the status its returned error asks for, or NoStatus
  status,    \* per request: the middleware's local `status'
  inFlight,  \* http_requests_in_flight
  total      \* http_requests_total, per status

vars == <<pc, written, err, status, inFlight, total>>

TypeOK ==
  /\ pc \in [Requests -> {"new", "handling", "returned", "status", "counted", "done", "crashed"}]
  /\ written \in [Requests -> Status \union {NoStatus}]
  /\ err \in [Requests -> Status \union {NoStatus}]
  /\ status \in [Requests -> Status \union {NoStatus}]
  /\ inFlight \in 0..Cardinality(Requests)
  /\ total \in [Status -> 0..Cardinality(Requests)]

(* New: three collectors at zero, registered. *)
Init ==
  /\ pc = [r \in Requests |-> "new"]
  /\ written = [r \in Requests |-> NoStatus]
  /\ err = [r \in Requests |-> NoStatus]
  /\ status = [r \in Requests |-> NoStatus]
  /\ inFlight = 0
  /\ total = [s \in Status |-> 0]

Goto(r, where) == pc' = [pc EXCEPT ![r] = where]

Enter(r) ==
  /\ pc[r] = "new"
  /\ Goto(r, "handling")
  /\ inFlight' = inFlight + 1
  /\ UNCHANGED <<written, err, status, total>>

(* next(c): the handler commits a response, once ... *)
Respond(r) ==
  /\ pc[r] = "handling"
  /\ written[r] = NoStatus
  /\ \E s \in Status : written' = [written EXCEPT ![r] = s]
  /\ UNCHANGED <<pc, err, status, inFlight, total>>

(* ... and returns nil or an error ... *)
Return(r) ==
  /\ pc[r] = "handling"
  /\ \E e \in ErrStatus \union {NoStatus} : err' = [err EXCEPT ![r] = e]
  /\ Goto(r, "returned")
  /\ UNCHANGED <<written, status, inFlight, total>>

(* ... or panics: nothing after next(c) runs. *)
Panic(r) ==
  /\ pc[r] = "handling"
  /\ Goto(r, "crashed")
  /\ UNCHANGED <<written, err, status, inFlight, total>>

(* The Status of a Response nobody has written is 200. *)
ReadStatus(r) ==
  /\ pc[r] = "returned"
  /\ status' = [status EXCEPT ![r] = IF written[r] = NoStatus THEN OK ELSE written[r]]
  /\ Goto(r, "status")
  /\ UNCHANGED <<written, err, inFlight, total>>

Leave(r) ==
  /\ pc[r] = "status"
  /\ inFlight' = inFlight - 1
  /\ Goto(r, "counted")
  /\ UNCHANGED <<written, err, status, total>>

(* requestsTotal and requestDuration, then the return to Echo, whose error *)
(* handler answers for an error unless a response was committed, and       *)
(* whose server answers 200 for no response at all.                        *)
Count(r) ==
  /\ pc[r] = "counted"
  /\ total' = [total EXCEPT ![status[r]] = @ + 1]
  /\ written' = [written EXCEPT ![r] = IF @ # NoStatus THEN @
                                        ELSE IF err[r] # NoStatus THEN err[r] ELSE OK]
  /\ Goto(r, "done")
  /\ UNCHANGED <<err, status, inFlight>>

Finished ==
  /\ \A r \in Requests : pc[r] \in {"done", "crashed"}
  /\ UNCHANGED vars

Next ==
  \/ \E r \in Requests : \/ Enter(r) \/ Respond(r) \/ Return(r) \/ Panic(r)
                         \/ ReadStatus(r) \/ Leave(r) \/ Count(r)
  \/ Finished

Spec == Init /\ [][Next]_vars

--------------------------------------------------------------------------------
In(where) == {r \in Requests : pc[r] \in where}

(* Claims of the package, checked by a run that refutes them. *)

(* metrics.go:39: "Current number of HTTP requests being served." *)
GaugeIsCurrent == inFlight = Cardinality(In({"handling", "returned", "status"}))

(* metrics.go:2: "request counts by status". *)
CountedByStatus ==
  \A s \in Status : total[s] = Cardinality({r \in In({"done"}) : written[r] = s})

================================================================================
