-------------------------------- MODULE ApiCall --------------------------------
(***************************************************************************)
(* One call of one operation through the generated code: the client builds *)
(* the request, auth.Middleware and the echoserver handler admit it, the   *)
(* service's implementation answers, the handler and the client carry the  *)
(* answer back.  The two sides run concurrently: the connection may break  *)
(* or the caller's context end at any moment, and the server goes on.      *)
(***************************************************************************)
EXTENDS Contract, FiniteSets

CONSTANTS
  Operations,  \* the operations of the contract (Contract!Operation)
  Plain,       \* values of path parameters that url.PathEscape leaves alone
  Static       \* values that are also a segment of some route

Reserved == "a/b"   \* a value that url.PathEscape changes

StatusType == 200..599

(* No sort of values is another: a plain one is none that is escaped, and  *)
(* no segment of a route.                                                  *)
ASSUME PlainAssumption ==
  /\ Plain \intersect {Reserved, "a%252Fb"} = {}
  /\ \A o \in Operations : Plain \intersect {o.handler.route[k] : k \in DOMAIN o.handler.route} = {}

ASSUME OperationAssumption ==
  \A o \in Operations :
    /\ o.handler.route \in Seq(STRING) /\ o.handler.answers \in Seq(StatusType)
    /\ o.client.cases \subseteq StatusType
    /\ o.success \in 200..299

(* What the server makes of the body sent: as the contract has it; of a    *)
(* newer contract, with a field this one does not know; against its        *)
(* validations.                                                            *)
Inputs == {"ok", "unknown", "invalid"}
Bearers == {"none", "malformed", "bad", "good"}   \* what Authorization holds

VARIABLES
  call,      \* [op, arg, input, bearer, open]: the call, fixed at the start
  client,    \* "start", "waiting", "done"
  cut,       \* the connection is broken or the caller's context is done
  server,    \* "none", "middleware", "bind", "validate", "impl", "answered", "sent", "crashed"
  target,    \* the operations the router chose: a singleton, or empty
  received,  \* the path parameters the handler binds
  identity,  \* the user ID in the request's context
  answer,    \* what the implementation returned
  response,  \* the HTTP response: [status, body]
  result     \* what the client method returned

vars == <<call, client, cut, server, target, received, identity, answer, response, result>>

Nobody == "nobody"
Subject == "subject"          \* the subject of the call's token
NoAnswer == [kind |-> "none"]
NoResponse == [status |-> 0, body |-> "empty"]
Pending == [kind |-> "pending", status |-> 0]

ArgsOf(op) == [ParamsOf(op.client.path) -> Plain \union Static \union {Reserved}]

(* open: a public path or a skipper lets the request through. *)
CallsOf(o) ==
  [op : {o}, arg : ArgsOf(o), input : IF o.client.body THEN Inputs ELSE {"ok"},
   bearer : Bearers, open : BOOLEAN]

Calls == UNION {CallsOf(o) : o \in Operations}

(* An implementation returns an error, a nil response, or a response with  *)
(* some of its fields set; Code matters when none is.                      *)
ErrStatus == {404, 500, 503}  \* bound: the statuses of the errors it returns
MaxFields == 2                \* bound: the fields it sets at once
Answers(op) ==
  [kind : {"error"}, status : ErrStatus]
  \union [kind : {"nil"}]
  \union [kind : {"response"}, fields : {{}}, code : Declared(op.handler) \union {0}]
  \union [kind : {"response"}, code : {0},
          fields : {F \in SUBSET Declared(op.handler) : F # {} /\ Cardinality(F) <= MaxFields}]

Bodies == {"empty", "payload", "envelope", "message", "validation"}

TypeOK ==
  /\ call.op \in Operations /\ call \in CallsOf(call.op)
  /\ client \in {"start", "waiting", "done"}
  /\ cut \in BOOLEAN
  /\ server \in {"none", "middleware", "bind", "validate", "impl", "answered", "sent", "crashed"}
  /\ target = {} \/ \E o \in Operations : target = {o}
  /\ identity \in {Nobody, Subject}
  /\ answer = NoAnswer \/ \E o \in target : answer \in Answers(o)
  /\ IF server = "sent" THEN response \in [status : StatusType, body : Bodies]
                        ELSE response = NoResponse
  /\ result = Pending \/ result \in [kind : {"answer", "error"}, status : {0} \union StatusType]

Init ==
  /\ call \in Calls
  /\ client = "start" /\ cut = FALSE /\ server = "none"
  /\ target = {} /\ received = <<>> /\ identity = Nobody
  /\ answer = NoAnswer /\ response = NoResponse /\ result = Pending

--------------------------------------------------------------------------------
(* The client's half. *)

(* url.PathEscape, then URL.String escapes the '%' again. *)
Escape(value) == IF value = Reserved THEN "a%252Fb" ELSE value

(* The server undoes one of the two. *)
Unescape(text) == IF text = "a%252Fb" THEN "a%2Fb" ELSE text

(* The segments of the request as the server reads them. *)
Segments ==
  LET path == call.op.client.path
  IN  [k \in DOMAIN path |-> IF path[k] \in Params
                             THEN Unescape(Escape(call.arg[path[k]])) ELSE path[k]]

Send ==
  /\ client = "start"
  /\ client' = "waiting"
  /\ UNCHANGED <<call, cut, server, target, received, identity, answer, response, result>>

DecodesAnything(status) == TRUE   \* mutant: a decoding error is ignored

(* A case without body decodes nothing, the others fail on an empty body. *)
Decodes(status) == status \in call.op.client.bare \/ response.body # "empty"

Receive ==
  /\ client = "waiting" /\ ~cut
  /\ server = "sent"
  /\ client' = "done"
  /\ result' = IF response.status \in call.op.client.cases /\ Decodes(response.status)
               THEN [kind |-> "answer", status |-> response.status]
               ELSE [kind |-> "error", status |-> response.status]
  /\ UNCHANGED <<call, cut, server, target, received, identity, answer, response>>

FailOnCut ==                  \* mutant: a connection the server closes is not noticed
  /\ client = "waiting" /\ cut
  /\ client' = "done"
  /\ result' = [kind |-> "error", status |-> 0]
  /\ UNCHANGED <<call, cut, server, target, received, identity, answer, response>>

(* http.Client.Do, or reading the body, fails. *)
Fail ==
  /\ client = "waiting"
  /\ cut \/ server = "crashed"
  /\ client' = "done"
  /\ result' = [kind |-> "error", status |-> 0]
  /\ UNCHANGED <<call, cut, server, target, received, identity, answer, response>>

Cut ==
  /\ client = "waiting" /\ ~cut
  /\ cut' = TRUE
  /\ UNCHANGED <<call, client, server, target, received, identity, answer, response, result>>

--------------------------------------------------------------------------------
(* The server's half. *)

Matches(op, method, segments) ==
  /\ op.handler.method = method
  /\ DOMAIN op.handler.route = DOMAIN segments
  /\ \A k \in DOMAIN segments : op.handler.route[k] \in Params \union {segments[k]}

(* Echo prefers, segment by segment, a literal one to a parameter. *)
Before(p, q) ==
  \E k \in DOMAIN p.handler.route :
    /\ p.handler.route[k] \notin Params /\ q.handler.route[k] \in Params
    /\ \A j \in 1..(k - 1) : p.handler.route[j] \in Params <=> q.handler.route[j] \in Params

(* The request arrives, cut or not, and the router chooses the handler. *)
Arrive ==
  /\ client # "start"
  /\ server = "none"
  /\ server' = "middleware"
  /\ LET matching == {o \in Operations : Matches(o, call.op.client.method, Segments)}
         best == {o \in matching : \A p \in matching : ~Before(p, o)}
     IN  IF best = {} THEN target' = {} ELSE \E o \in best : target' = {o}
  /\ UNCHANGED <<call, client, cut, received, identity, answer, response, result>>

Reply(status, body) ==
  /\ server' = "sent"
  /\ response' = [status |-> status, body |-> body]

(* No route: Echo's own handler, behind the middleware. *)
Next404 == Reply(404, "message") /\ UNCHANGED identity

MiddlewareNoReturn ==         \* mutant: no return after the 401
  /\ server = "middleware"
  /\ IF target = {} THEN Next404
     ELSE /\ server' = "bind"
          /\ identity' = IF call.bearer = "good" /\ ~call.open THEN Subject ELSE Nobody
          /\ UNCHANGED response
  /\ UNCHANGED <<call, client, cut, target, received, answer, result>>

(* auth.Middleware: let through unseen, refused, or let through as the token's subject. *)
Middleware ==
  /\ server = "middleware"
  /\ IF ~call.open /\ call.bearer # "good"
     THEN Reply(401, "envelope") /\ UNCHANGED identity
     ELSE IF target = {} THEN Next404
     ELSE /\ server' = "bind"
          /\ identity' = IF call.open THEN Nobody ELSE Subject
          /\ UNCHANGED response
  /\ UNCHANGED <<call, client, cut, target, received, answer, result>>

(* Each parameter has the segment at its first place in the route. *)
PathArguments(o) ==
  [p \in ParamsOf(o.handler.route) |->
     Segments[CHOOSE k \in DOMAIN o.handler.route : o.handler.route[k] = p]]

(* bindBody is strict; Bind takes the parameters from the path. *)
Bind ==
  /\ server = "bind"
  /\ \E o \in target :
       IF o.handler.body /\ call.input = "unknown"
       THEN Reply(400, "message") /\ UNCHANGED received
       ELSE /\ server' = "validate"
            /\ received' = PathArguments(o)
            /\ UNCHANGED response
  /\ UNCHANGED <<call, client, cut, target, identity, answer, result>>

(* writeValidationError writes a body of its own shape. *)
Validate ==
  /\ server = "validate"
  /\ \E o \in target :
       IF o.handler.body /\ call.input = "invalid"
       THEN Reply(400, "validation")
       ELSE server' = "impl" /\ UNCHANGED response
  /\ UNCHANGED <<call, client, cut, target, received, identity, answer, result>>

Implementation ==
  /\ server = "impl"
  /\ server' = "answered"
  /\ \E o \in target : answer' \in Answers(o)
  /\ UNCHANGED <<call, client, cut, target, received, identity, response, result>>

LastSet(handler, fields) ==   \* mutant: the ifs in the opposite order
  LET set == {k \in DOMAIN handler.answers : handler.answers[k] \in fields}
  IN  handler.answers[CHOOSE k \in set : \A j \in set : j <= k]

(* The handler's chain of ifs: the first response that is set. *)
FirstSet(handler, fields) ==
  LET set == {k \in DOMAIN handler.answers : handler.answers[k] \in fields}
  IN  handler.answers[CHOOSE k \in set : \A j \in set : k <= j]

BodyOf(handler, status) ==
  CASE status \in handler.bare -> "empty"
    [] status \notin handler.bare /\ status < 300 -> "payload"
    [] OTHER -> "envelope"

AnswerAnyCode ==              \* mutant: an unset Code is written as it is
  /\ server = "answered"
  /\ \E o \in target :
       CASE answer.kind = "error" -> Reply(answer.status, "message")
         [] answer.kind = "nil" -> server' = "crashed" /\ UNCHANGED response
         [] answer.kind = "response" /\ answer.fields = {} -> Reply(answer.code, "empty")
         [] OTHER -> LET status == FirstSet(o.handler, answer.fields)
                     IN  Reply(status, BodyOf(o.handler, status))
  /\ UNCHANGED <<call, client, cut, target, received, identity, answer, result>>

(* A returned error goes to Echo's error handler; a nil response and a     *)
(* Code never set panic, and net/http closes the connection.               *)
Answer ==
  /\ server = "answered"
  /\ \E o \in target :
       CASE answer.kind = "error" -> Reply(answer.status, "message")
         [] answer.kind = "nil" -> server' = "crashed" /\ UNCHANGED response
         [] answer.kind = "response" /\ answer.fields = {} ->
              IF answer.code = 0 THEN server' = "crashed" /\ UNCHANGED response
                                 ELSE Reply(answer.code, "empty")
         [] OTHER -> LET status == FirstSet(o.handler, answer.fields)
                     IN  Reply(status, BodyOf(o.handler, status))
  /\ UNCHANGED <<call, client, cut, target, received, identity, answer, result>>

Finished ==
  /\ client = "done" /\ server \in {"sent", "crashed"}
  /\ UNCHANGED vars

Next ==
  \/ Send \/ Receive \/ Fail \/ Cut
  \/ Arrive \/ Middleware \/ Bind \/ Validate \/ Implementation \/ Answer
  \/ Finished

Spec == Init /\ [][Next]_vars

(* The caller calls and reads what comes, the router, the handler and the  *)
(* implementation go on; nothing says that a connection breaks.            *)
FairSpec ==
  /\ Spec
  /\ WF_vars(Send \/ Receive \/ Fail)
  /\ WF_vars(Arrive \/ Middleware \/ Bind \/ Validate \/ Implementation \/ Answer)

--------------------------------------------------------------------------------
(* The two halves generated for an operation agree: they name the same     *)
(* request, the client has a case for each response the handler sends, of  *)
(* the same form, and the handler looks for a lower status first.          *)
HalvesAgree(o) ==
  /\ o.client.method = o.handler.method /\ o.client.path = o.handler.route
  /\ o.client.body = o.handler.body
  /\ o.client.cases = Declared(o.handler) /\ o.client.bare = o.handler.bare
  /\ o.success \in o.client.cases
  /\ \A j, k \in DOMAIN o.handler.answers :
       j < k => o.handler.answers[j] < o.handler.answers[k]

(* Every operation's halves agree, however often a service was regenerated. *)
ContractsAgree == \A o \in Operations : HalvesAgree(o)

(* Register gives no two handlers the same place, whatever the parameters' names. *)
SamePlace(p, q) ==
  /\ p.handler.method = q.handler.method
  /\ DOMAIN p.handler.route = DOMAIN q.handler.route
  /\ \A k \in DOMAIN p.handler.route :
       \/ p.handler.route[k] = q.handler.route[k]
       \/ p.handler.route[k] \in Params /\ q.handler.route[k] \in Params

RoutesApart == \A p, q \in Operations : SamePlace(p, q) => p = q

Ran == answer # NoAnswer
SetsField == answer.kind = "response" /\ answer.fields # {}

(* The implementation runs only for a request that was let through without *)
(* a look at its token, and then as nobody, or that showed a good token,   *)
(* and then as its subject; and never on a body the contract refuses.      *)
RunsOnlyAdmitted ==
  server \in {"impl", "answered"} \/ Ran =>
    /\ call.open \/ call.bearer = "good"
    /\ identity = IF call.open THEN Nobody ELSE Subject
    /\ \A o \in target : o.handler.body => call.input = "ok"

(* What the caller hears is what the implementation set; when it set more  *)
(* than one response, the one of the lowest status, so that an error never *)
(* hides a success.                                                        *)
HeardAsAnswered ==
  (result.kind = "answer" /\ Ran /\ SetsField) =>
    /\ result.status \in answer.fields
    /\ \A f \in answer.fields : result.status <= f

(* ClientSugared reports a success only when the implementation ran to its *)
(* end and answered with it: not for a lost answer, a refusal on the way,  *)
(* an empty response or a crash.                                           *)
SuccessMeansDone ==
  (result.kind = "answer" /\ result.status = call.op.success) =>
    /\ Ran /\ answer.kind = "response"
    /\ \/ call.op.success \in answer.fields
       \/ /\ answer.fields = {} /\ answer.code = call.op.success
          /\ call.op.success \in call.op.client.bare

(* When the connection held, an error of the client is the server's crash, *)
(* a status this operation does not declare, from before or from the       *)
(* implementation, an implementation that set no field, or another         *)
(* operation's answer: a declared answer is always understood.             *)
EveryErrorExplained ==
  (result.kind = "error" /\ ~cut) =>
    \/ server = "crashed"
    \/ /\ ~Ran /\ response.status \in {400, 401, 404} \ call.op.client.cases
    \/ /\ Ran /\ answer.kind = "error" /\ answer.status \notin call.op.client.cases
    \/ /\ Ran /\ answer.kind = "response" /\ answer.fields = {}
    \/ target # {call.op}

(* Plain parameters reach the operation they were meant for, unchanged. *)
PlainArgumentsArrive ==
  (server \in {"validate", "impl", "answered"} /\ \A p \in DOMAIN call.arg : call.arg[p] \in Plain) =>
    target = {call.op} /\ received = call.arg

--------------------------------------------------------------------------------
(* Both halves together are one remote call.  What the service came to is  *)
(* what the implementation returned, or the refusal sent before it ran.    *)
Offers(a) ==
  CASE a.kind = "error" -> {a.status}
    [] a.kind = "nil" -> {}
    [] a.kind = "response" -> IF a.fields = {} THEN {a.code} \ {0} ELSE a.fields

Outcome ==
  IF Ran THEN [performed |-> TRUE, offers |-> Offers(answer)]
  ELSE [performed |-> FALSE, offers |-> IF server = "sent" THEN {response.status} ELSE {}]

Told ==
  CASE result.kind = "pending" -> <<>>
    [] result.kind = "answer" -> <<result.status>>
    [] result.kind = "error" -> <<0>>

Remote == INSTANCE RemoteCall WITH
  admitted <- call.open \/ call.bearer = "good", outcome <- Outcome, told <- Told

(* A call through the generated client, middleware and handler is a remote *)
(* call: refused or performed once and only if admitted, heard as it was   *)
(* answered or not at all, and never left without an answer or an error.   *)
ImplementsRemoteCall == Remote!FairSpec

--------------------------------------------------------------------------------
(* A claim of the comments, checked by a run that refutes it. *)

(* contracttest/users_test.go:5: "path, parameters and body reach the      *)
(* implementation unchanged".                                              *)
ArgumentsArrive ==
  server \in {"impl", "answered"} => target = {call.op} /\ received = call.arg
================================================================================
