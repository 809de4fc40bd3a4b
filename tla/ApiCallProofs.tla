----------------------------- MODULE ApiCallProofs -----------------------------
(* Theorems about ApiCall, for any set of operations. *)
EXTENDS ApiCall, WellFoundedInduction, TLAPS

USE OperationAssumption

--------------------------------------------------------------------------------
(* The answer a handler looks for first. *)

(* A nonempty set of positions of a sequence has a first one. *)
LEMMA FirstPosition ==
  ASSUME NEW S \in SUBSET Nat, S # {}
  PROVE  \E k \in S : \A j \in S : k <= j
<1>1. PICK k \in S : \A j \in S : <<j, k>> \notin OpToRel(<, Nat)
  BY NatLessThanWellFounded, WFMin, Zenon
<1>2. \A j \in S : ~(j < k)
  BY <1>1, Zenon DEF OpToRel
<1> QED BY <1>2

(* FirstSet returns one of the responses that are set, and none set is     *)
(* looked for before it.                                                   *)
LEMMA FirstSetIsFirst ==
  ASSUME NEW o \in Operations, NEW fields, fields # {}, fields \subseteq Declared(o.handler)
  PROVE  \E k \in DOMAIN o.handler.answers :
           /\ FirstSet(o.handler, fields) = o.handler.answers[k]
           /\ o.handler.answers[k] \in fields
           /\ \A j \in DOMAIN o.handler.answers :
                o.handler.answers[j] \in fields => k <= j
<1> DEFINE set == {k \in DOMAIN o.handler.answers : o.handler.answers[k] \in fields}
           first == CHOOSE k \in set : \A j \in set : k <= j
<1>1. set \in SUBSET Nat
  OBVIOUS
<1>2. set # {}
  BY DEF Declared
<1>3. \E k \in set : \A j \in set : k <= j
  BY <1>1, <1>2, FirstPosition
<1>4. first \in set /\ \A j \in set : first <= j
  BY <1>3, Zenon
<1>5. FirstSet(o.handler, fields) = o.handler.answers[first]
  BY DEF FirstSet
<1> QED BY <1>4, <1>5

(* A status is a number. *)
LEMMA StatusIsNat == \A status \in StatusType : status \in Nat
BY DEF StatusType

(* What a handler looks for at a position is a status. *)
LEMMA AnswersType ==
  ASSUME NEW o \in Operations, NEW k \in DOMAIN o.handler.answers
  PROVE  k \in Nat /\ o.handler.answers[k] \in StatusType
<1> DEFINE s == o.handler.answers
<1>1. s \in Seq(StatusType) /\ k \in DOMAIN s
  OBVIOUS
<1> HIDE DEF s
<1>2. k \in Nat /\ s[k] \in StatusType
  BY <1>1
<1> QED BY <1>2 DEF s

(* FirstSet returns a status. *)
LEMMA FirstSetType ==
  ASSUME NEW o \in Operations, NEW fields, fields # {}, fields \subseteq Declared(o.handler)
  PROVE  /\ FirstSet(o.handler, fields) \in fields
         /\ FirstSet(o.handler, fields) \in StatusType
<1>1. PICK k \in DOMAIN o.handler.answers :
        FirstSet(o.handler, fields) = o.handler.answers[k] /\ o.handler.answers[k] \in fields
  BY FirstSetIsFirst
<1> QED BY <1>1, AnswersType

(* Of ascending responses it is the lowest. *)
LEMMA FirstSetLowest ==
  ASSUME ContractsAgree, NEW o \in Operations,
         NEW fields, fields # {}, fields \subseteq Declared(o.handler), NEW f \in fields
  PROVE  FirstSet(o.handler, fields) <= f
<1>1. PICK k \in DOMAIN o.handler.answers :
        /\ FirstSet(o.handler, fields) = o.handler.answers[k]
        /\ \A j \in DOMAIN o.handler.answers : o.handler.answers[j] \in fields => k <= j
  BY FirstSetIsFirst
<1>2. PICK j \in DOMAIN o.handler.answers : o.handler.answers[j] = f
  BY DEF Declared
<1>3. k < j => o.handler.answers[k] < o.handler.answers[j]
  BY DEF ContractsAgree, HalvesAgree
<1>4. k \in Nat /\ j \in Nat /\ o.handler.answers[j] \in Nat /\ o.handler.answers[k] \in Nat
  <2>1. /\ k \in Nat /\ o.handler.answers[k] \in StatusType
        /\ j \in Nat /\ o.handler.answers[j] \in StatusType
    BY AnswersType, Zenon
  <2> QED BY <2>1, StatusIsNat, Zenon
<1>5. k <= j
  BY <1>1, <1>2
<1>6. CASE k = j
  BY <1>1, <1>2, <1>4, <1>6
<1>7. CASE k < j
  BY <1>1, <1>2, <1>3, <1>4, <1>7
<1> QED BY <1>4, <1>5, <1>6, <1>7

--------------------------------------------------------------------------------
(* The inductive invariant. *)

Handling == {"bind", "validate", "impl", "answered"}

(* What the server has established when it is at a place. *)
ServerInv ==
  /\ server \in {"none", "middleware"} => identity = Nobody
  /\ server \in Handling \/ Ran =>
       /\ target # {}
       /\ call.open \/ call.bearer = "good"
       /\ identity = IF call.open THEN Nobody ELSE Subject
  /\ server = "validate" => \A o \in target : o.handler.body => call.input # "unknown"
  /\ server \in {"impl", "answered"} \/ Ran =>
       \A o \in target : o.handler.body => call.input = "ok"
  /\ server = "answered" => Ran
  /\ Ran => server \in {"answered", "sent", "crashed"}
  /\ server = "crashed" => Ran /\ answer.kind # "error" /\ ~SetsField

(* What is sent, from the implementation or from before it. *)
ResponseInv ==
  server = "sent" =>
    /\ ~Ran => response.status \in {400, 401, 404} /\ response.body # "empty"
    /\ Ran => answer.kind \in {"error", "response"}
    /\ Ran /\ answer.kind = "error" =>
         response = [status |-> answer.status, body |-> "message"]
    /\ Ran /\ answer.kind = "response" /\ answer.fields = {} =>
         response = [status |-> answer.code, body |-> "empty"]
    /\ Ran /\ SetsField => \A o \in target :
         LET status == FirstSet(o.handler, answer.fields)
         IN  response = [status |-> status, body |-> BodyOf(o.handler, status)]

(* What the caller was told. *)
ResultInv ==
  /\ client # "done" => result = Pending
  /\ result.kind = "answer" =>
       /\ server = "sent" /\ result.status = response.status
       /\ response.status \in call.op.client.cases /\ Decodes(response.status)
  /\ result.kind = "error" /\ ~cut =>
       \/ server = "crashed"
       \/ /\ server = "sent"
          /\ ~(response.status \in call.op.client.cases /\ Decodes(response.status))

AInv == TypeOK /\ ServerInv /\ ResponseInv /\ ResultInv

(* A call is of an operation, with a body that is one of the inputs. *)
LEMMA CallType ==
  ASSUME call.op \in Operations, call \in CallsOf(call.op)
  PROVE  call.op \in Operations /\ call.input \in Inputs /\ call.bearer \in Bearers
BY DEF CallsOf, Inputs

(* The same of any call that Send may make. *)
LEMMA CallsType == call \in Calls => call.op \in Operations /\ call \in CallsOf(call.op)
<1>1. \A o \in Operations : call \in CallsOf(o) => call.op = o
  BY DEF CallsOf
<1> QED BY <1>1 DEF Calls

(* The three kinds of answers, and what each of them holds. *)
LEMMA AnswerType ==
  ASSUME NEW o \in Operations, answer \in Answers(o)
  PROVE  /\ answer # NoAnswer
         /\ answer.kind \in {"error", "nil", "response"}
         /\ answer.kind = "error" => answer.status \in ErrStatus
         /\ answer.kind = "response" =>
              /\ answer.fields \subseteq Declared(o.handler)
              /\ answer.fields = {} => answer.code \in Declared(o.handler) \union {0}
BY DEF Answers, NoAnswer

(* The invariant holds at the start. *)
LEMMA AInvInit == Init => AInv
<1> SUFFICES ASSUME Init PROVE AInv
  OBVIOUS
<1>1. TypeOK
  BY CallsType DEF Init, TypeOK
<1>2. ServerInv
  BY DEF Init, ServerInv, Handling, Ran
<1>3. ResponseInv
  BY DEF Init, ResponseInv
<1>4. ResultInv
  BY DEF Init, ResultInv, Pending
<1> QED BY <1>1, <1>2, <1>3, <1>4 DEF AInv

(* Every step of the client keeps the invariant. *)
LEMMA ClientStep == AInv /\ (Send \/ Receive \/ Fail \/ Cut) => AInv'
<1> SUFFICES ASSUME AInv, Send \/ Receive \/ Fail \/ Cut PROVE AInv'
  OBVIOUS
<1> USE DEF AInv
<1>0. UNCHANGED <<call, server, target, received, identity, answer, response>>
  BY DEF Send, Receive, Fail, Cut
<1>1. ServerInv' /\ ResponseInv'
  BY <1>0 DEF ServerInv, ResponseInv, Ran, SetsField
<1>2. CASE Send
  <2>1. TypeOK'
    BY <1>0, <1>2 DEF Send, TypeOK
  <2>2. ResultInv'
    BY <1>0, <1>2 DEF Send, ResultInv, Pending
  <2> QED BY <1>1, <2>1, <2>2
<1>3. CASE Receive
  <2>1. response.status \in StatusType
    BY <1>3 DEF Receive, TypeOK
  <2>2. TypeOK'
    BY <1>0, <1>3, <2>1 DEF Receive, TypeOK
  <2>3. Decodes(response.status)' <=> Decodes(response.status)
    BY <1>0 DEF Decodes
  <2>4. ResultInv'
    BY <1>0, <1>3, <2>3 DEF Receive, ResultInv, Decodes
  <2> QED BY <1>1, <2>2, <2>4
<1>4. CASE Fail
  <2>1. TypeOK'
    BY <1>0, <1>4 DEF Fail, TypeOK
  <2>2. ResultInv'
    BY <1>0, <1>4 DEF Fail, ResultInv
  <2> QED BY <1>1, <2>1, <2>2
<1>5. CASE Cut
  <2>1. TypeOK'
    BY <1>0, <1>5 DEF Cut, TypeOK
  <2>2. ResultInv'
    BY <1>0, <1>5 DEF Cut, ResultInv, Pending
  <2> QED BY <1>1, <2>1, <2>2
<1> QED BY <1>2, <1>3, <1>4, <1>5

(* What the caller was told is not disturbed before the server has sent. *)
LEMMA ResultKept ==
  ASSUME AInv, server \notin {"sent", "crashed"}, UNCHANGED <<call, client, cut, result>>
  PROVE  ResultInv'
BY DEF AInv, ResultInv, Decodes

(* Every step of the server up to the implementation keeps it. *)
LEMMA AdmitStep == AInv /\ (Arrive \/ Middleware \/ Bind \/ Validate) => AInv'
<1> SUFFICES ASSUME AInv, Arrive \/ Middleware \/ Bind \/ Validate PROVE AInv'
  OBVIOUS
<1> USE DEF AInv
<1>0. server \in {"none", "middleware", "bind", "validate"} /\ UNCHANGED <<call, client, cut, answer, result>>
  BY DEF Arrive, Middleware, Bind, Validate
<1>1. ~Ran /\ ~Ran' /\ answer = NoAnswer
  BY <1>0 DEF ServerInv, Ran
<1>2. ResultInv'
  BY <1>0, ResultKept
<1>3. call.input \in Inputs /\ call.bearer \in Bearers
  BY CallType DEF TypeOK
<1>4. CASE Arrive
  <2>1. target' = {} \/ \E o \in Operations : target' = {o}
    BY <1>4 DEF Arrive
  <2>2. TypeOK'
    BY <1>0, <1>1, <1>4, <2>1 DEF Arrive, TypeOK
  <2>3. ServerInv'
    BY <1>0, <1>1, <1>4 DEF Arrive, ServerInv, Handling
  <2>4. ResponseInv'
    BY <1>4 DEF Arrive, ResponseInv
  <2> QED BY <1>2, <2>2, <2>3, <2>4
<1>5. CASE Middleware
  <2>1. TypeOK'
    BY <1>0, <1>1, <1>5 DEF Middleware, Next404, Reply, TypeOK, StatusType, Bodies
  <2>2. ServerInv'
    BY <1>0, <1>1, <1>5 DEF Middleware, Next404, Reply, ServerInv, Handling
  <2>3. ResponseInv'
    BY <1>1, <1>5 DEF Middleware, Next404, Reply, ResponseInv
  <2> QED BY <1>2, <2>1, <2>2, <2>3
<1>6. CASE Bind
  <2>1. TypeOK'
    BY <1>0, <1>1, <1>6 DEF Bind, Reply, TypeOK, StatusType, Bodies
  <2>2. ServerInv'
    BY <1>0, <1>1, <1>6 DEF Bind, Reply, ServerInv, Handling, TypeOK
  <2>3. ResponseInv'
    BY <1>1, <1>6 DEF Bind, Reply, ResponseInv
  <2> QED BY <1>2, <2>1, <2>2, <2>3
<1>7. CASE Validate
  <2>1. TypeOK'
    BY <1>0, <1>1, <1>7 DEF Validate, Reply, TypeOK, StatusType, Bodies
  <2>2. ServerInv'
    BY <1>0, <1>1, <1>3, <1>7 DEF Validate, Reply, ServerInv, Handling, TypeOK, Inputs
  <2>3. ResponseInv'
    BY <1>1, <1>7 DEF Validate, Reply, ResponseInv
  <2> QED BY <1>2, <2>1, <2>2, <2>3
<1> QED BY <1>4, <1>5, <1>6, <1>7

(* The implementation's step keeps it. *)
LEMMA ImplementationStep == AInv /\ Implementation => AInv'
<1> SUFFICES ASSUME AInv, Implementation PROVE AInv'
  OBVIOUS
<1> USE DEF AInv
<1>1. PICK o \in Operations : target = {o} /\ answer' \in Answers(o)
  BY DEF Implementation, TypeOK
<1>2. Ran'
  BY <1>1 DEF Ran, Answers, NoAnswer
<1>3. TypeOK'
  BY <1>1 DEF Implementation, TypeOK
<1>4. ServerInv'
  BY <1>2 DEF Implementation, ServerInv, Handling
<1>5. ResponseInv'
  BY DEF Implementation, ResponseInv
<1>6. ResultInv'
  BY ResultKept DEF Implementation
<1> QED BY <1>3, <1>4, <1>5, <1>6

(* The step that carries its answer back keeps it. *)
LEMMA AnswerStep == AInv /\ Answer => AInv'
<1> SUFFICES ASSUME AInv, Answer PROVE AInv'
  OBVIOUS
<1> USE DEF AInv
<1>0. server = "answered" /\ Ran /\ UNCHANGED <<call, client, cut, target, received, identity, answer, result>>
  BY DEF Answer, ServerInv
<1>1. PICK o \in Operations : target = {o} /\ answer \in Answers(o)
  BY <1>0 DEF TypeOK, Ran
<1>2. /\ answer.kind \in {"error", "nil", "response"}
      /\ answer.kind = "error" => answer.status \in ErrStatus
      /\ answer.kind = "response" =>
           /\ answer.fields \subseteq Declared(o.handler)
           /\ answer.fields = {} => answer.code \in Declared(o.handler) \union {0}
  BY <1>1, AnswerType
<1>3. Ran' /\ (SetsField' <=> SetsField)
  BY <1>0 DEF Ran, SetsField
<1>4. ResultInv'
  BY <1>0, ResultKept
<1>5. CASE server' = "crashed" /\ UNCHANGED response /\ answer.kind # "error" /\ ~SetsField
  <2>1. TypeOK'
    BY <1>0, <1>5 DEF TypeOK
  <2>2. ServerInv'
    BY <1>0, <1>3, <1>5 DEF ServerInv, Handling
  <2>3. ResponseInv'
    BY <1>5 DEF ResponseInv
  <2> QED BY <1>4, <2>1, <2>2, <2>3
<1>6. ASSUME NEW status \in StatusType, NEW body \in Bodies, Reply(status, body),
             answer.kind \in {"error", "response"},
             answer.kind = "error" => status = answer.status /\ body = "message",
             answer.kind = "response" /\ answer.fields = {} => status = answer.code /\ body = "empty",
             SetsField => /\ status = FirstSet(o.handler, answer.fields)
                          /\ body = BodyOf(o.handler, FirstSet(o.handler, answer.fields))
      PROVE  AInv'
  <2>1. TypeOK'
    BY <1>0, <1>6 DEF TypeOK, Reply
  <2>2. ServerInv'
    BY <1>0, <1>3, <1>6 DEF ServerInv, Handling, Reply
  <2>3. ResponseInv'
    BY <1>0, <1>1, <1>3, <1>6 DEF ResponseInv, Reply
  <2> QED BY <1>4, <2>1, <2>2, <2>3
<1>7. CASE answer.kind = "error"
  <2>1. Reply(answer.status, "message")
    BY <1>7 DEF Answer
  <2>2. answer.status \in StatusType /\ "message" \in Bodies /\ ~SetsField
    BY <1>2, <1>7 DEF ErrStatus, StatusType, Bodies, SetsField
  <2> QED BY <1>6, <1>7, <2>1, <2>2
<1>8. CASE answer.kind = "nil"
  <2>1. server' = "crashed" /\ UNCHANGED response
    BY <1>8 DEF Answer
  <2> QED BY <1>5, <1>8, <2>1 DEF SetsField
<1>9. CASE answer.kind = "response" /\ answer.fields = {}
  <2>1. CASE answer.code = 0
    <3>1. server' = "crashed" /\ UNCHANGED response
      BY <1>9, <2>1 DEF Answer
    <3> QED BY <1>5, <1>9, <3>1 DEF SetsField
  <2>2. CASE answer.code # 0
    <3>1. Reply(answer.code, "empty")
      BY <1>9, <2>2 DEF Answer
    <3>2. answer.code \in Declared(o.handler)
      BY <1>2, <1>9, <2>2
    <3>3. answer.code \in StatusType
      BY <3>2, AnswersType DEF Declared
    <3>4. "empty" \in Bodies /\ ~SetsField
      BY <1>9 DEF Bodies, SetsField
    <3> QED BY <1>6, <1>9, <3>1, <3>3, <3>4
  <2> QED BY <2>1, <2>2
<1>10. CASE answer.kind = "response" /\ answer.fields # {}
  <2> DEFINE status == FirstSet(o.handler, answer.fields)
  <2>1. Reply(status, BodyOf(o.handler, status))
    BY <1>1, <1>10 DEF Answer
  <2>2. status \in StatusType
    BY <1>2, <1>10, FirstSetType
  <2>3. BodyOf(o.handler, status) \in Bodies
    BY DEF BodyOf, Bodies
  <2> HIDE DEF status
  <2> QED BY <1>6, <1>10, <2>1, <2>2, <2>3 DEF status
<1> QED BY <1>2, <1>7, <1>8, <1>9, <1>10

(* In every reachable state the invariant holds. *)
THEOREM AInvariance == Spec => []AInv
<1>1. AInv /\ [Next]_vars => AInv'
  <2> SUFFICES ASSUME AInv, [Next]_vars PROVE AInv'
    OBVIOUS
  <2>1. CASE Finished \/ UNCHANGED vars
    BY <2>1 DEF Finished, vars, AInv, TypeOK, ServerInv, ResponseInv, ResultInv, Decodes, Ran, SetsField
  <2> QED BY <2>1, ClientStep, AdmitStep, ImplementationStep, AnswerStep DEF Next
<1> QED BY <1>1, AInvInit, PTL DEF Spec

--------------------------------------------------------------------------------
(* The properties, for every set of operations. *)

(* A call is always well typed. *)
THEOREM ApiTypeCorrect == Spec => []TypeOK
BY AInvariance, PTL DEF AInv

(* The implementation runs only for a request that auth.Middleware and the *)
(* handler admit, and as whom they say.                                    *)
THEOREM RunsOnlyAdmittedThm == Spec => []RunsOnlyAdmitted
<1>1. AInv => RunsOnlyAdmitted
  BY DEF AInv, ServerInv, RunsOnlyAdmitted, Handling
<1> QED BY <1>1, AInvariance, PTL

(* A response with a body is not empty. *)
LEMMA BodyIsThere ==
  ASSUME NEW o \in Operations, NEW status, status \notin o.handler.bare
  PROVE  BodyOf(o.handler, status) # "empty"
<1>1. CASE status < 300
  BY <1>1 DEF BodyOf
<1>2. CASE ~(status < 300)
  BY <1>2 DEF BodyOf
<1> QED BY <1>1, <1>2

(* What a caller is told when the implementation set a response. *)
LEMMA HeardField ==
  ASSUME AInv, server = "sent", Ran, SetsField
  PROVE  \E o \in Operations :
           /\ target = {o} /\ answer.fields \subseteq Declared(o.handler)
           /\ answer.fields # {}
           /\ response.status = FirstSet(o.handler, answer.fields)
           /\ response.status \in answer.fields
           /\ response.body = BodyOf(o.handler, response.status)
<1>1. PICK o \in Operations : target = {o} /\ answer \in Answers(o)
  BY DEF AInv, TypeOK, Ran
<1>2. answer.fields \subseteq Declared(o.handler) /\ answer.fields # {}
  BY <1>1, AnswerType DEF SetsField
<1> DEFINE first == FirstSet(o.handler, answer.fields)
<1>3. response = [status |-> first, body |-> BodyOf(o.handler, first)]
  BY <1>1 DEF AInv, ResponseInv
<1>4. first \in answer.fields
  BY <1>2, FirstSetType
<1> HIDE DEF first
<1>5. response.status = first /\ response.body = BodyOf(o.handler, response.status)
  BY <1>3
<1> QED BY <1>1, <1>2, <1>4, <1>5 DEF first

(* The caller hears what the implementation set, the lowest status of it,  *)
(* when the two generated halves agree.                                    *)
THEOREM HeardAsAnsweredThm ==
  ASSUME ContractsAgree
  PROVE  Spec => []HeardAsAnswered
<1>1. AInv => HeardAsAnswered
  <2> SUFFICES ASSUME AInv, result.kind = "answer", Ran, SetsField
               PROVE  /\ result.status \in answer.fields
                      /\ \A f \in answer.fields : result.status <= f
    BY DEF HeardAsAnswered
  <2>1. server = "sent" /\ result.status = response.status
    BY DEF AInv, ResultInv
  <2>2. PICK o \in Operations :
          /\ answer.fields \subseteq Declared(o.handler) /\ answer.fields # {}
          /\ response.status = FirstSet(o.handler, answer.fields)
          /\ response.status \in answer.fields
    BY <2>1, HeardField
  <2>3. \A f \in answer.fields : FirstSet(o.handler, answer.fields) <= f
    BY <2>2, FirstSetLowest
  <2> QED BY <2>1, <2>2, <2>3
<1> QED BY <1>1, AInvariance, PTL

(* ClientSugared reports a success only of an implementation that ran to   *)
(* its end and answered with it.                                           *)
THEOREM SuccessMeansDoneThm == Spec => []SuccessMeansDone
<1>1. AInv => SuccessMeansDone
  <2> SUFFICES ASSUME AInv, result.kind = "answer", result.status = call.op.success
               PROVE  /\ Ran /\ answer.kind = "response"
                      /\ \/ call.op.success \in answer.fields
                         \/ /\ answer.fields = {} /\ answer.code = call.op.success
                            /\ call.op.success \in call.op.client.bare
    BY DEF SuccessMeansDone
  <2>1. /\ server = "sent" /\ response.status = call.op.success
        /\ call.op.success \in call.op.client.bare \/ response.body # "empty"
    BY DEF AInv, ResultInv, Decodes
  <2>2. call.op.success \notin {400, 401, 404} \union ErrStatus
    <3>1. call.op.success \in 200..299
      BY CallType DEF AInv, TypeOK
    <3>2. \A status \in 200..299 : status \notin {400, 401, 404} \union ErrStatus
      BY DEF ErrStatus
    <3> QED BY <3>1, <3>2, Zenon
  <2>3. Ran
    BY <2>1, <2>2 DEF AInv, ResponseInv
  <2>4. PICK o \in Operations : answer \in Answers(o)
    BY <2>3 DEF AInv, TypeOK, Ran
  <2>5. answer.kind # "error"
    BY <2>1, <2>2, <2>3, <2>4, AnswerType DEF AInv, ResponseInv
  <2>6. answer.kind = "response"
    BY <2>1, <2>3, <2>5 DEF AInv, ResponseInv
  <2>7. CASE answer.fields = {}
    BY <2>1, <2>3, <2>6, <2>7 DEF AInv, ResponseInv
  <2>8. CASE answer.fields # {}
    BY <2>1, <2>3, <2>6, <2>8, HeardField DEF SetsField
  <2> QED BY <2>3, <2>6, <2>7, <2>8
<1> QED BY <1>1, AInvariance, PTL

(* With the connection up, the client never misreads a declared answer,    *)
(* when the two generated halves agree.                                    *)
THEOREM EveryErrorExplainedThm ==
  ASSUME ContractsAgree
  PROVE  Spec => []EveryErrorExplained
<1>1. AInv => EveryErrorExplained
  <2> SUFFICES ASSUME AInv, result.kind = "error", ~cut, server # "crashed"
               PROVE  EveryErrorExplained
    BY DEF EveryErrorExplained
  <2> USE DEF AInv
  <2>1. /\ server = "sent"
        /\ \/ response.status \notin call.op.client.cases
           \/ response.status \notin call.op.client.bare /\ response.body = "empty"
    BY DEF ResultInv, Decodes
  <2>2. CASE ~Ran
    BY <2>1, <2>2 DEF ResponseInv, EveryErrorExplained
  <2>3. CASE Ran /\ answer.kind = "error"
    BY <2>1, <2>3 DEF ResponseInv, EveryErrorExplained
  <2>4. CASE Ran /\ answer.kind = "response" /\ answer.fields = {}
    BY <2>4 DEF EveryErrorExplained
  <2>5. CASE Ran /\ SetsField
    <3>1. PICK o \in Operations :
            /\ target = {o} /\ answer.fields \subseteq Declared(o.handler)
            /\ response.status \in answer.fields
            /\ response.body = BodyOf(o.handler, response.status)
      BY <2>1, <2>5, HeardField
    <3>2. o.client.cases = Declared(o.handler) /\ o.client.bare = o.handler.bare
      BY DEF ContractsAgree, HalvesAgree
    <3>3. response.status \notin o.handler.bare => response.body # "empty"
      BY <3>1, BodyIsThere
    <3>4. o # call.op
      BY <2>1, <3>1, <3>2, <3>3
    <3> QED BY <3>1, <3>4 DEF EveryErrorExplained
  <2>6. Ran => answer.kind \in {"error", "response"}
    BY <2>1 DEF ResponseInv
  <2> QED BY <2>2, <2>3, <2>4, <2>5, <2>6 DEF SetsField
<1> QED BY <1>1, AInvariance, PTL

--------------------------------------------------------------------------------
(* The refinement of RemoteCall. *)

(* A call starts as a remote call does. *)
LEMMA RemoteInit == Init => Remote!Init
<1> SUFFICES ASSUME Init PROVE Remote!Init
  OBVIOUS
<1>1. call.open \in BOOLEAN /\ call.bearer \in Bearers
  BY CallsType DEF Init, CallsOf
<1>2. Outcome = [performed |-> FALSE, offers |-> {}]
  BY DEF Init, Outcome, Ran
<1>3. Told = <<>>
  BY DEF Init, Told, Pending
<1> QED BY <1>1, <1>2, <1>3 DEF Remote!Init, Remote!Undecided

(* The service comes to something only by replying or by answering. *)
LEMMA OutcomeKept ==
  ASSUME answer' = answer, Ran \/ (server # "sent" /\ server' # "sent")
  PROVE  UNCHANGED Outcome
BY DEF Outcome, Ran, Offers

(* A refusal before the implementation is the remote call's. *)
LEMMA RefusalStep ==
  ASSUME ~Ran, server # "sent", UNCHANGED <<call, answer, result>>,
         NEW status \in {400, 401, 404}, NEW body, Reply(status, body)
  PROVE  Remote!Refuse
<1>1. Outcome = [performed |-> FALSE, offers |-> {}]
  BY DEF Outcome
<1>2. Outcome' = [performed |-> FALSE, offers |-> {status}]
  BY DEF Outcome, Ran, Reply
<1>3. UNCHANGED <<call.open \/ call.bearer = "good", Told>>
  BY DEF Told
<1> QED BY <1>1, <1>2, <1>3 DEF Remote!Refuse, Remote!Undecided, Remote!Refusals

(* The steps up to the implementation refuse or are not seen. *)
LEMMA AdmitRefines ==
  ASSUME AInv, Arrive \/ Middleware \/ Bind \/ Validate
  PROVE  Remote!Refuse \/ UNCHANGED Remote!vars
<1>0. /\ server \in {"none", "middleware", "bind", "validate"}
      /\ UNCHANGED <<call, answer, result>>
  BY DEF Arrive, Middleware, Bind, Validate
<1>1. ~Ran /\ server # "sent"
  BY <1>0 DEF AInv, ServerInv
<1>2. \/ server' # "sent"
      \/ \E status \in {400, 401, 404}, body \in Bodies : Reply(status, body)
  <2>1. CASE Arrive
    BY <2>1 DEF Arrive
  <2>2. CASE Middleware
    BY <2>2 DEF Middleware, Next404, Bodies
  <2>3. CASE Bind
    BY <2>3 DEF Bind, Bodies
  <2>4. CASE Validate
    BY <2>4 DEF Validate, Bodies
  <2> QED BY <2>1, <2>2, <2>3, <2>4
<1>3. CASE server' # "sent"
  <2>1. UNCHANGED Outcome
    BY <1>0, <1>1, <1>3, OutcomeKept
  <2>2. UNCHANGED Told
    BY <1>0 DEF Told
  <2> QED BY <1>0, <2>1, <2>2 DEF Remote!vars
<1>4. CASE \E status \in {400, 401, 404}, body \in Bodies : Reply(status, body)
  BY <1>0, <1>1, <1>4, RefusalStep
<1> QED BY <1>2, <1>3, <1>4

(* What an implementation offers are statuses. *)
LEMMA OffersType ==
  ASSUME NEW o \in Operations, NEW a \in Answers(o)
  PROVE  a # NoAnswer /\ Offers(a) \subseteq Nat
<1>1. Declared(o.handler) \subseteq Nat
  BY AnswersType, StatusIsNat DEF Declared
<1>2. ErrStatus \subseteq Nat
  BY DEF ErrStatus
<1>3. CASE a \in [kind : {"error"}, status : ErrStatus]
  BY <1>2, <1>3 DEF Offers, NoAnswer
<1>4. CASE a \in [kind : {"nil"}]
  BY <1>4 DEF Offers, NoAnswer
<1>5. CASE a \in [kind : {"response"}, fields : {{}}, code : Declared(o.handler) \union {0}]
  BY <1>1, <1>5 DEF Offers, NoAnswer
<1>6. CASE a \in [kind : {"response"}, code : {0},
                  fields : {F \in SUBSET Declared(o.handler) : F # {} /\ Cardinality(F) <= MaxFields}]
  BY <1>1, <1>6 DEF Offers, NoAnswer
<1> QED BY <1>3, <1>4, <1>5, <1>6 DEF Answers

(* The implementation performs an admitted call. *)
LEMMA ImplementationRefines ==
  ASSUME AInv, AInv', Implementation
  PROVE  Remote!Perform
<1>1. /\ server = "impl" /\ server' = "answered" /\ UNCHANGED <<call, result>>
      /\ \E o \in target : answer' \in Answers(o)
  BY DEF Implementation
<1>2. ~Ran
  BY <1>1 DEF AInv, ServerInv
<1>3. PICK o \in Operations : answer' \in Answers(o)
  BY <1>1 DEF AInv, TypeOK
<1>4. answer' # NoAnswer /\ Offers(answer') \subseteq Nat
  BY <1>3, OffersType
<1>5. Outcome = [performed |-> FALSE, offers |-> {}]
  BY <1>1, <1>2 DEF Outcome
<1>6. Outcome' = [performed |-> TRUE, offers |-> Offers(answer')]
  BY <1>4 DEF Outcome, Ran
<1>7. call.open \/ call.bearer = "good"
  BY <1>1 DEF AInv, ServerInv
<1>8. UNCHANGED <<call.open \/ call.bearer = "good", Told>>
  BY <1>1 DEF Told
<1>9. Outcome' \in [performed : {TRUE}, offers : SUBSET Nat]
  BY <1>4, <1>6
<1> QED BY <1>5, <1>7, <1>8, <1>9 DEF Remote!Perform, Remote!Undecided

(* The answer was already come to. *)
LEMMA AnswerRefines ==
  ASSUME AInv, Answer
  PROVE  UNCHANGED Remote!vars
<1>1. server = "answered" /\ UNCHANGED <<call, result>> /\ answer' = answer
  BY DEF Answer
<1>2. Ran
  BY <1>1 DEF AInv, ServerInv
<1>3. UNCHANGED Outcome
  BY <1>1, <1>2, OutcomeKept
<1>4. UNCHANGED Told
  BY <1>1 DEF Told
<1> QED BY <1>1, <1>3, <1>4 DEF Remote!vars

(* What the server sends is the lowest of what it came to. *)
LEMMA SentIsLowest ==
  ASSUME ContractsAgree, AInv, server = "sent",
         response.status \in StatusType, Decodes(response.status)
  PROVE  /\ response.status \in Outcome.offers
         /\ \A t \in Outcome.offers : response.status <= t
<1>0. response.status \in Nat /\ response.status # 0
  <2>1. \A status \in 200..599 : status \in Nat /\ status # 0
    OBVIOUS
  <2> QED BY <2>1, Zenon DEF StatusType
<1>1. CASE ~Ran
  <2>1. Outcome = [performed |-> FALSE, offers |-> {response.status}]
    BY <1>1 DEF Outcome
  <2> QED BY <1>0, <2>1
<1>2. CASE Ran
  <2>0. Outcome.offers = Offers(answer) /\ answer.kind \in {"error", "response"}
    BY <1>2 DEF Outcome, AInv, ResponseInv
  <2>1. CASE answer.kind = "error"
    <3>1. response = [status |-> answer.status, body |-> "message"]
      BY <1>2, <2>1 DEF AInv, ResponseInv
    <3>2. Offers(answer) = {response.status}
      BY <2>1, <3>1 DEF Offers
    <3> QED BY <1>0, <2>0, <3>2
  <2>2. CASE answer.kind = "response" /\ answer.fields = {}
    <3>1. response = [status |-> answer.code, body |-> "empty"]
      BY <1>2, <2>2 DEF AInv, ResponseInv
    <3>2. Offers(answer) = {response.status}
      BY <1>0, <2>2, <3>1 DEF Offers
    <3> QED BY <1>0, <2>0, <3>2
  <2>3. CASE answer.kind = "response" /\ answer.fields # {}
    <3>1. PICK o \in Operations :
            /\ answer.fields \subseteq Declared(o.handler) /\ answer.fields # {}
            /\ response.status = FirstSet(o.handler, answer.fields)
            /\ response.status \in answer.fields
      BY <1>2, <2>3, HeardField DEF SetsField
    <3>2. \A f \in answer.fields : FirstSet(o.handler, answer.fields) <= f
      BY <3>1, FirstSetLowest
    <3>3. Offers(answer) = answer.fields
      BY <2>3 DEF Offers
    <3> QED BY <2>0, <3>1, <3>2, <3>3
  <2> QED BY <2>0, <2>1, <2>2, <2>3
<1> QED BY <1>1, <1>2

(* The client's steps tell the caller or are not seen. *)
LEMMA ClientRefines ==
  ASSUME ContractsAgree, AInv, Send \/ Receive \/ Fail \/ Cut
  PROVE  Remote!Hear \/ Remote!Lose \/ UNCHANGED Remote!vars
<1>0. UNCHANGED <<call, server, answer, response>>
  BY DEF Send, Receive, Fail, Cut
<1>1. UNCHANGED <<call.open \/ call.bearer = "good", Outcome>>
  BY <1>0 DEF Outcome, Ran, Offers
<1>2. client # "done" => Told = <<>>
  BY DEF AInv, ResultInv, Pending, Told
<1>3. CASE Send \/ Cut
  <2>1. UNCHANGED Told
    BY <1>3 DEF Send, Cut, Told
  <2> QED BY <1>0, <1>1, <2>1 DEF Remote!vars
<1>4. CASE (Receive \/ Fail) /\ result'.kind = "error"
  <2>1. Told' = <<0>>
    BY <1>4 DEF Told
  <2>2. client # "done"
    BY <1>4 DEF Receive, Fail
  <2> QED BY <1>1, <1>2, <2>1, <2>2 DEF Remote!Lose, Remote!Lost
<1>5. CASE Receive /\ result'.kind = "answer"
  <2>1. /\ server = "sent" /\ client # "done" /\ Decodes(response.status)
        /\ result' = [kind |-> "answer", status |-> response.status]
    BY <1>5 DEF Receive
  <2>2. response.status \in StatusType
    BY <2>1 DEF AInv, TypeOK
  <2>3. Told' = <<response.status>>
    BY <2>1 DEF Told
  <2>4. /\ response.status \in Outcome.offers
        /\ \A t \in Outcome.offers : response.status <= t
    BY <2>1, <2>2, SentIsLowest
  <2> QED BY <1>1, <1>2, <2>1, <2>3, <2>4 DEF Remote!Hear
<1>6. Receive => result'.kind \in {"answer", "error"}
  BY DEF Receive
<1>7. Fail => result'.kind = "error"
  BY DEF Fail
<1> QED BY <1>3, <1>4, <1>5, <1>6, <1>7

(* Every step of a call is a step of the remote call, or is not seen. *)
LEMMA RemoteStep ==
  ASSUME ContractsAgree, AInv, AInv', [Next]_vars
  PROVE  [Remote!Next]_(Remote!vars)
<1>1. CASE Finished \/ UNCHANGED vars
  <2>1. UNCHANGED vars
    BY <1>1 DEF Finished
  <2>2. UNCHANGED <<Outcome, Told, call>>
    BY <2>1 DEF vars, Outcome, Ran, Offers, Told
  <2> QED BY <2>2 DEF Remote!vars
<1>2. CASE Send \/ Receive \/ Fail \/ Cut
  BY <1>2, ClientRefines DEF Remote!Next
<1>3. CASE Arrive \/ Middleware \/ Bind \/ Validate
  BY <1>3, AdmitRefines DEF Remote!Next
<1>4. CASE Implementation
  BY <1>4, ImplementationRefines DEF Remote!Next
<1>5. CASE Answer
  BY <1>5, AnswerRefines
<1> QED BY <1>1, <1>2, <1>3, <1>4, <1>5 DEF Next

(* The safety half of ImplementsRemoteCall: client, middleware and handler *)
(* together are a remote call, when the two generated halves agree.        *)
THEOREM RemoteCallSafety ==
  ASSUME ContractsAgree
  PROVE  Spec => Remote!Spec
<1>1. AInv /\ AInv' /\ [Next]_vars => [Remote!Next]_(Remote!vars)
  BY RemoteStep
<1> QED BY <1>1, RemoteInit, AInvariance, PTL DEF Spec, Remote!Spec

--------------------------------------------------------------------------------
(* The router, and the parameters it leaves to the handler. *)

PlainCall == \A p \in DOMAIN call.arg : call.arg[p] \in Plain

(* A plain parameter arrives as it was given, every other segment is that  *)
(* of the route.                                                           *)
LEMMA PlainSegments ==
  ASSUME TypeOK, ContractsAgree, PlainCall
  PROVE  /\ DOMAIN Segments = DOMAIN call.op.handler.route
         /\ \A k \in DOMAIN call.op.handler.route :
              LET seg == call.op.handler.route[k]
              IN  Segments[k] = IF seg \in Params THEN call.arg[seg] ELSE seg
<1> DEFINE path == call.op.client.path
<1>1. call.op \in Operations /\ path = call.op.handler.route
  BY DEF TypeOK, ContractsAgree, HalvesAgree
<1>2. DOMAIN call.arg = ParamsOf(path)
  BY DEF TypeOK, CallsOf, ArgsOf
<1>3. ASSUME NEW k \in DOMAIN path, path[k] \in Params
      PROVE  Unescape(Escape(call.arg[path[k]])) = call.arg[path[k]]
  <2>1. path[k] \in ParamsOf(path)
    BY <1>3 DEF ParamsOf
  <2>2. call.arg[path[k]] \in Plain
    BY <1>2, <2>1 DEF PlainCall
  <2> QED BY <2>2, PlainAssumption DEF Escape, Unescape
<1> QED BY <1>1, <1>3 DEF Segments

(* A plain request is one of its own operation. *)
LEMMA MatchesOwn ==
  ASSUME TypeOK, ContractsAgree, PlainCall
  PROVE  Matches(call.op, call.op.client.method, Segments)
<1>1. call.op.client.method = call.op.handler.method
  BY DEF TypeOK, ContractsAgree, HalvesAgree
<1> QED BY <1>1, PlainSegments DEF Matches

(* An operation it is one of too has no literal segment where its own has  *)
(* a parameter.                                                            *)
LEMMA MatchesOther ==
  ASSUME TypeOK, ContractsAgree, PlainCall, NEW o \in Operations,
         Matches(o, call.op.client.method, Segments)
  PROVE  /\ o.handler.method = call.op.handler.method
         /\ DOMAIN o.handler.route = DOMAIN call.op.handler.route
         /\ \A k \in DOMAIN o.handler.route :
              /\ call.op.handler.route[k] \in Params => o.handler.route[k] \in Params
              /\ call.op.handler.route[k] \notin Params =>
                   o.handler.route[k] \in Params \union {call.op.handler.route[k]}
<1> DEFINE own == call.op.handler.route
<1>1. o.handler.method = call.op.handler.method
  BY DEF TypeOK, ContractsAgree, HalvesAgree, Matches
<1>2. DOMAIN o.handler.route = DOMAIN own /\ DOMAIN Segments = DOMAIN own
  BY PlainSegments DEF Matches
<1>3. ASSUME NEW k \in DOMAIN own, own[k] \in Params
      PROVE  o.handler.route[k] \in Params
  <2>1. Segments[k] = call.arg[own[k]]
    BY <1>3, PlainSegments
  <2>2. own[k] \in DOMAIN call.arg
    BY <1>3 DEF TypeOK, CallsOf, ArgsOf, ContractsAgree, HalvesAgree, ParamsOf
  <2>3. Segments[k] \in Plain
    BY <2>1, <2>2 DEF PlainCall
  <2>4. o.handler.route[k] # Segments[k]
    BY <1>2, <2>3, PlainAssumption
  <2> QED BY <1>2, <2>4 DEF Matches
<1>4. ASSUME NEW k \in DOMAIN own, own[k] \notin Params
      PROVE  o.handler.route[k] \in Params \union {own[k]}
  <2>1. Segments[k] = own[k]
    BY <1>4, PlainSegments
  <2> QED BY <1>2, <2>1 DEF Matches
<1> QED BY <1>1, <1>2, <1>3, <1>4

(* So Echo prefers its own, and to that nothing. *)
LEMMA OwnPreferred ==
  ASSUME TypeOK, ContractsAgree, RoutesApart, PlainCall, NEW o \in Operations,
         Matches(o, call.op.client.method, Segments)
  PROVE  /\ ~Before(o, call.op)
         /\ o # call.op => Before(call.op, o)
<1> DEFINE own == call.op.handler.route
           differ == {k \in DOMAIN own : own[k] \notin Params /\ o.handler.route[k] \in Params}
<1>1. /\ o.handler.method = call.op.handler.method
      /\ DOMAIN o.handler.route = DOMAIN own
      /\ \A k \in DOMAIN own :
           /\ own[k] \in Params => o.handler.route[k] \in Params
           /\ own[k] \notin Params => o.handler.route[k] \in Params \union {own[k]}
  BY MatchesOther
<1>2. ~Before(o, call.op)
  BY <1>1 DEF Before
<1>3. ASSUME o # call.op PROVE Before(call.op, o)
  <2>1. ~SamePlace(call.op, o)
    BY <1>3 DEF RoutesApart, TypeOK
  <2>2. differ # {}
    BY <1>1, <2>1 DEF SamePlace
  <2>3. own \in Seq(STRING)
    BY DEF TypeOK
  <2>4. DOMAIN own = 1..Len(own) /\ Len(own) \in Nat
    BY <2>3
  <2>5. differ \in SUBSET Nat
    BY <2>4
  <2> HIDE DEF differ
  <2>6. PICK k \in differ : \A j \in differ : k <= j
    BY <2>2, <2>5, FirstPosition
  <2>7. k \in DOMAIN own /\ own[k] \notin Params /\ o.handler.route[k] \in Params
    BY DEF differ
  <2>8. ASSUME NEW j \in 1..(k - 1) PROVE own[j] \in Params <=> o.handler.route[j] \in Params
    <3>1. j \in DOMAIN own
      BY <2>4, <2>7
    <3>2. j \notin differ
      BY <2>4, <2>6, <2>7
    <3> QED BY <1>1, <3>1, <3>2 DEF differ
  <2> QED BY <2>7, <2>8 DEF Before
<1> QED BY <1>2, <1>3

(* The router chooses it. *)
LEMMA RoutedToOwn ==
  ASSUME TypeOK, ContractsAgree, RoutesApart, PlainCall, Arrive
  PROVE  target' = {call.op}
<1> DEFINE matching == {o \in Operations : Matches(o, call.op.client.method, Segments)}
           best == {o \in matching : \A p \in matching : ~Before(p, o)}
<1>1. call.op \in matching
  BY MatchesOwn DEF TypeOK
<1>2. best = {call.op}
  BY <1>1, OwnPreferred
<1> QED BY <1>2 DEF Arrive

(* Where a plain request is, and what of it. *)
RouteInv ==
  PlainCall =>
    /\ server # "none" => target = {call.op}
    /\ server \in {"validate", "impl", "answered"} => received = call.arg

(* The handler binds what the client put in. *)
LEMMA BindsArguments ==
  ASSUME AInv, ContractsAgree, RouteInv, PlainCall, Bind, server' = "validate"
  PROVE  received' = call.arg
<1> DEFINE route == call.op.handler.route
<1>1. target = {call.op}
  BY DEF RouteInv, Bind
<1>2. received' = [p \in ParamsOf(route) |-> Segments[CHOOSE k \in DOMAIN route : route[k] = p]]
  <2>1. received' = PathArguments(call.op)
    BY <1>1 DEF Bind, Reply
  <2> QED BY <2>1 DEF PathArguments
<1>3. call.arg \in [ParamsOf(route) -> Plain \union Static \union {Reserved}]
  BY DEF AInv, TypeOK, CallsOf, ArgsOf, ContractsAgree, HalvesAgree
<1>4. ASSUME NEW p \in ParamsOf(route)
      PROVE  Segments[CHOOSE k \in DOMAIN route : route[k] = p] = call.arg[p]
  <2>1. \E k \in DOMAIN route : route[k] = p
    BY DEF ParamsOf
  <2> DEFINE at == CHOOSE k \in DOMAIN route : route[k] = p
  <2>2. at \in DOMAIN route /\ route[at] = p
    BY <2>1
  <2>3. p \in Params
    BY DEF ParamsOf
  <2> HIDE DEF at
  <2>4. Segments[at] = call.arg[p]
    BY <2>2, <2>3, PlainSegments DEF AInv
  <2> QED BY <2>4 DEF at
<1> QED BY <1>2, <1>3, <1>4

(* Every step keeps a plain request on its way. *)
LEMMA RouteStep ==
  ASSUME ContractsAgree, RoutesApart, AInv, RouteInv, [Next]_vars
  PROVE  RouteInv'
<1>1. CASE UNCHANGED <<call, server, target, received>>
  BY <1>1 DEF RouteInv, PlainCall
<1>2. CASE Arrive
  <2>1. UNCHANGED call /\ server' = "middleware"
    BY <1>2 DEF Arrive
  <2>2. PlainCall => target' = {call.op}
    BY <1>2, RoutedToOwn DEF AInv
  <2> QED BY <2>1, <2>2 DEF RouteInv, PlainCall
<1>3. CASE Middleware
  BY <1>3 DEF Middleware, Next404, Reply, RouteInv, PlainCall
<1>4. CASE Bind
  <2>1. UNCHANGED <<call, target>> /\ server = "bind" /\ server' \in {"sent", "validate"}
    BY <1>4 DEF Bind, Reply
  <2>2. PlainCall /\ server' = "validate" => received' = call.arg
    BY <1>4, BindsArguments
  <2> QED BY <2>1, <2>2 DEF RouteInv, PlainCall
<1>5. CASE Validate
  BY <1>5 DEF Validate, Reply, RouteInv, PlainCall
<1>6. CASE Implementation
  BY <1>6 DEF Implementation, RouteInv, PlainCall
<1>7. CASE Answer
  <2>1. UNCHANGED <<call, target, received>> /\ server = "answered"
    BY <1>7 DEF Answer
  <2> QED BY <2>1 DEF RouteInv, PlainCall
<1>8. CASE Send \/ Receive \/ Fail \/ Cut \/ Finished \/ UNCHANGED vars
  BY <1>1, <1>8 DEF Send, Receive, Fail, Cut, Finished, vars
<1> QED BY <1>2, <1>3, <1>4, <1>5, <1>6, <1>7, <1>8 DEF Next

(* Plain path parameters reach the operation they were meant for, as the   *)
(* client was given them, when the two halves name the same routes and no  *)
(* two handlers are registered at one place.                               *)
THEOREM PlainArgumentsArriveThm ==
  ASSUME ContractsAgree, RoutesApart
  PROVE  Spec => []PlainArgumentsArrive
<1>1. Init => RouteInv
  BY DEF Init, RouteInv
<1>2. AInv /\ RouteInv /\ [Next]_vars => RouteInv'
  BY RouteStep
<1>3. RouteInv => PlainArgumentsArrive
  BY DEF RouteInv, PlainCall, PlainArgumentsArrive
<1> QED BY <1>1, <1>2, <1>3, AInvariance, PTL DEF Spec

--------------------------------------------------------------------------------
(* What a call's end rests on besides fairness: until it is over one side  *)
(* has a step to take, every step brings it nearer to its end, and what    *)
(* was come to stays.                                                      *)

(* The steps each side may still take, and the break of the connection. *)
ServerLeft ==
  [none |-> 6, middleware |-> 5, bind |-> 4, validate |-> 3, impl |-> 2, answered |-> 1,
   sent |-> 0, crashed |-> 0]
ClientLeft == [start |-> 2, waiting |-> 1, done |-> 0]
CallLeft == ServerLeft[server] + ClientLeft[client] + (IF cut THEN 0 ELSE 1)

(* The guards of Send, of Receive or Fail, and of the server's steps. *)
SomeoneCanGoOn ==
  \/ client = "start"
  \/ client = "waiting" /\ (cut \/ server \in {"sent", "crashed"})
  \/ client # "start" /\ server \in {"none", "middleware"}
  \/ server \in Handling /\ target # {}

(* The caller was told, and the server has finished or panicked. *)
Over == client = "done" /\ server \in {"sent", "crashed"}

(* A call that is not over is waiting for nobody: the connection held and  *)
(* the server will answer, or it broke and the client will notice; the     *)
(* handler runs to its end although the caller has gone.                   *)
THEOREM NobodyStranded == Spec => [](Over \/ SomeoneCanGoOn)
<1>1. AInv => Over \/ SomeoneCanGoOn
  BY DEF AInv, TypeOK, ServerInv, Handling, Over, SomeoneCanGoOn
<1> QED BY <1>1, AInvariance, PTL

(* No call goes on for ever: nine steps at most, for the generated client  *)
(* tries nothing twice.                                                    *)
THEOREM CallShrinks == Spec => [][CallLeft' < CallLeft]_vars
<1>1. AInv /\ AInv' /\ [Next]_vars => [CallLeft' < CallLeft]_vars
  <2> SUFFICES ASSUME AInv, AInv', Next, ~UNCHANGED vars PROVE CallLeft' < CallLeft
    OBVIOUS
  <2>0. /\ cut \in BOOLEAN
        /\ server \in DOMAIN ServerLeft /\ client \in DOMAIN ClientLeft
        /\ server' \in DOMAIN ServerLeft /\ client' \in DOMAIN ClientLeft
    BY DEF AInv, TypeOK, ServerLeft, ClientLeft
  <2>1. ASSUME UNCHANGED <<client, cut>>, ServerLeft[server'] < ServerLeft[server]
        PROVE  CallLeft' < CallLeft
    BY <2>0, <2>1 DEF CallLeft, ServerLeft, ClientLeft
  <2>2. CASE Send \/ Receive \/ Fail
    BY <2>0, <2>2 DEF Send, Receive, Fail, CallLeft, ServerLeft, ClientLeft
  <2>3. CASE Cut
    BY <2>0, <2>3 DEF Cut, CallLeft, ServerLeft, ClientLeft
  <2>4. CASE Arrive
    BY <2>1, <2>4 DEF Arrive, ServerLeft
  <2>5. CASE Middleware
    BY <2>1, <2>5 DEF Middleware, Next404, Reply, ServerLeft
  <2>6. CASE Bind
    BY <2>1, <2>6 DEF Bind, Reply, ServerLeft
  <2>7. CASE Validate
    BY <2>1, <2>7 DEF Validate, Reply, ServerLeft
  <2>8. CASE Implementation
    BY <2>1, <2>8 DEF Implementation, ServerLeft
  <2>9. CASE Answer
    <3>1. server = "answered" /\ UNCHANGED <<client, cut>>
      BY <2>9 DEF Answer
    <3>2. server' \in {"sent", "crashed"}
      BY <2>9 DEF Answer, Reply
    <3> QED BY <2>1, <3>1, <3>2 DEF ServerLeft
  <2> QED BY <2>2, <2>3, <2>4, <2>5, <2>6, <2>7, <2>8, <2>9 DEF Next, Finished
<1> QED BY <1>1, AInvariance, PTL DEF Spec

(* The service comes to something once, whether or not the two halves      *)
(* agree: refused, a request is never performed later; performed, it is    *)
(* not performed again, and the answer does not change.                    *)
THEOREM DecidedOnce == Spec => [][Outcome = Remote!Undecided]_Outcome
<1>1. AInv /\ AInv' /\ [Next]_vars => [Outcome = Remote!Undecided]_Outcome
  <2> SUFFICES ASSUME AInv, AInv', [Next]_vars PROVE Outcome = Remote!Undecided \/ UNCHANGED Outcome
    OBVIOUS
  <2>1. CASE Send \/ Receive \/ Fail \/ Cut \/ Finished \/ UNCHANGED vars
    <3>1. UNCHANGED <<server, answer, response>>
      BY <2>1 DEF Send, Receive, Fail, Cut, Finished, vars
    <3> QED BY <3>1 DEF Outcome, Ran, Offers
  <2>2. CASE Arrive \/ Middleware \/ Bind \/ Validate
    BY <2>2, AdmitRefines DEF Remote!Refuse, Remote!vars
  <2>3. CASE Implementation
    BY <2>3, ImplementationRefines DEF Remote!Perform
  <2>4. CASE Answer
    BY <2>4, AnswerRefines DEF Remote!vars
  <2> QED BY <2>1, <2>2, <2>3, <2>4 DEF Next
<1> QED BY <1>1, AInvariance, PTL DEF Spec

(* The client method returns once. *)
THEOREM ToldOnce == Spec => [][Told = <<>>]_Told
<1>1. AInv /\ [Next]_vars => [Told = <<>>]_Told
  <2> SUFFICES ASSUME AInv, [Next]_vars PROVE Told = <<>> \/ UNCHANGED Told
    OBVIOUS
  <2>1. CASE Receive \/ Fail
    <3>1. result = Pending
      BY <2>1 DEF Receive, Fail, AInv, ResultInv
    <3> QED BY <3>1 DEF Told, Pending
  <2>2. ~(Receive \/ Fail) => UNCHANGED result
    BY DEF Next, Send, Cut, Arrive, Middleware, Bind, Validate, Implementation, Answer, Finished, vars
  <2> QED BY <2>1, <2>2 DEF Told
<1> QED BY <1>1, AInvariance, PTL DEF Spec

================================================================================
