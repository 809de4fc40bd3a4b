----------------------------- MODULE BodyExchange ------------------------------
(***************************************************************************)
(* The bodies of requests over the life of a resource: a caller fills one  *)
(* in, the generated client encodes it, the handler decodes it strictly    *)
(* and validates it against the registry the service was started with,     *)
(* the service keeps what was accepted and shows it through the models it  *)
(* is read with.  Caller and service may be of two versions of a contract. *)
(***************************************************************************)
EXTENDS Schema

CONSTANT Kinds  \* [expected, create, patch, reads]; <<>> where there is no such body

(* What the newer of two versions adds to a body. *)
New == [name |-> "New", optional |-> TRUE, lo |-> 0, hi |-> NoLimit, check |-> NoCheck]

FieldType == [name : STRING \ {New.name}, optional : BOOLEAN, lo : Nat, hi : Nat, check : STRING]

ASSUME KindAssumption ==
  \A k \in Kinds :
    \A schema \in {k.create, k.patch} \union k.reads :
      /\ schema \in Seq(FieldType)
      /\ \A i, j \in DOMAIN schema : schema[i].name = schema[j].name => i = j

VARIABLES
  kind,      \* the resource
  newer,     \* whose contract is the newer: "none", "caller", "service"
  phase,     \* "starting", "failed", "idle", "sent", "handled"
  registry,  \* the names of the validators the service registered
  op,        \* "create" or "patch"
  sent,      \* the body the caller filled in
  verdict,   \* "none", "accepted", "unknown", "unregistered", "invalid"
  stored     \* what the service keeps of the resource, empty before there is one

vars == <<kind, newer, phase, registry, op, sent, verdict, stored>>

Nothing == [n \in {} |-> Nil]

(* The fields of the bodies that are read again. *)
Kept == (Names(kind.create) \union Names(kind.patch)) \intersect UNION {Names(r) : r \in kind.reads}

BodyOf(o) == IF o = "create" THEN kind.create ELSE kind.patch
CallerBody(o) == IF newer = "caller" THEN Append(BodyOf(o), New) ELSE BodyOf(o)
ServiceBody(o) == IF newer = "service" THEN Append(BodyOf(o), New) ELSE BodyOf(o)
CallerSchema == CallerBody(op)
ServiceSchema == ServiceBody(op)

TypeOK ==
  /\ kind \in Kinds /\ newer \in {"none", "caller", "service"}
  /\ phase \in {"starting", "failed", "idle", "sent", "handled"}
  /\ op \in {"create", "patch"}
  /\ phase \in {"sent", "handled"} => DOMAIN sent = Names(CallerSchema)
  /\ verdict \in {"none", "accepted", "unknown", "unregistered", "invalid"}
  /\ (verdict # "none") <=> (phase = "handled")
  /\ DOMAIN stored \in {{}, Kept}

(* A member is there without having been posted. *)
Init ==
  /\ kind \in Kinds /\ newer \in {"none", "caller", "service"}
  /\ phase = "starting" /\ registry = {}
  /\ op = "create" /\ sent = Nothing /\ verdict = "none"
  /\ stored = IF kind.create = <<>> THEN [n \in Kept |-> Filled] ELSE Nothing

--------------------------------------------------------------------------------
AssertSubset(names, expected) == names \subseteq expected  \* mutant: a missing one passes

AssertExact(names, expected) == names = expected

(* A service that registers one validator too few, or one too many. *)
Registrations ==
  {kind.expected, kind.expected \union {"app.Other"}} \union {kind.expected \ {c} : c \in kind.expected}

Start ==
  /\ phase = "starting"
  /\ registry' \in Registrations
  /\ phase' = IF AssertExact(registry', kind.expected) THEN "idle" ELSE "failed"
  /\ UNCHANGED <<kind, newer, op, sent, verdict, stored>>

(* The caller posts, or changes what there is. *)
Call(o) ==
  /\ phase = "idle"
  /\ BodyOf(o) # <<>> /\ (o = "patch" => DOMAIN stored # {})
  /\ op' = o
  /\ sent' \in Bodies(CallerBody(o))
  /\ phase' = "sent"
  /\ UNCHANGED <<kind, newer, registry, verdict, stored>>

EncodeNulls(schema, body) == body   \* mutant: a pointer not set is sent as null

EncodeValues(schema, body) ==       \* mutant: omitempty looks through the pointer
  [n \in {m \in Names(schema) : Field(schema, m).optional => body[m].size > 0} |-> body[n]]

(* omitempty leaves out a pointer that is not set, nothing else. *)
Encode(schema, body) ==
  [n \in {m \in Names(schema) : Field(schema, m).optional => body[m] # Nil} |-> body[n]]

Decode(schema, wire) ==
  [n \in Names(schema) |->
     IF n \in DOMAIN wire THEN wire[n] ELSE IF Field(schema, n).optional THEN Nil ELSE Zero]

(* ValidateOwn stops at the first field that breaks a rule; its size goes  *)
(* before its validator.                                                   *)
Validate(schema, body) ==
  LET broken == BrokenFields(schema, body, registry)
      first == CHOOSE k \in broken : \A j \in broken : k <= j
      size == body[schema[first].name].size
  IN  IF broken = {} THEN "accepted"
      ELSE IF size \in schema[first].lo..schema[first].hi /\ schema[first].check \notin registry
      THEN "unregistered" ELSE "invalid"

(* What a service makes of a body that was accepted. *)
Created(body) == [n \in Kept |-> IF n \in DOMAIN body THEN body[n] ELSE Filled]

Patched(body) ==
  [n \in DOMAIN stored |-> IF n \in DOMAIN body /\ body[n] # Nil THEN body[n] ELSE stored[n]]

Handle ==
  /\ phase = "sent"
  /\ phase' = "handled"
  /\ LET wire == Encode(CallerSchema, sent)
         body == Decode(ServiceSchema, wire)
     IN  /\ verdict' = IF DOMAIN wire \subseteq Names(ServiceSchema)
                       THEN Validate(ServiceSchema, body) ELSE "unknown"
         /\ stored' = IF verdict' # "accepted" THEN stored
                      ELSE IF op = "create" THEN Created(body) ELSE Patched(body)
  /\ UNCHANGED <<kind, newer, registry, op, sent>>

Return ==
  /\ phase = "handled"
  /\ phase' = "idle" /\ op' = "create" /\ sent' = Nothing /\ verdict' = "none"
  /\ UNCHANGED <<kind, newer, registry, stored>>

Next == Start \/ (\E o \in {"create", "patch"} : Call(o)) \/ Handle \/ Return

Spec == Init /\ [][Next]_vars

--------------------------------------------------------------------------------
(* A service that started has every validator the models name: no request  *)
(* is refused because ValidateOwn asks for one that is not there.          *)
NoUnregisteredValidator == verdict # "unregistered"

(* Bodies that name only validators that are expected, and whatever they   *)
(* or the service put in is allowed by every model it is read through.     *)
Agree(k) ==
  /\ Checks(k.create) \union Checks(k.patch) \subseteq k.expected
  /\ \A r \in k.reads : \A i \in DOMAIN r :
       /\ \A body \in {k.create, k.patch} : \A j \in DOMAIN body :
            r[i].name = body[j].name =>
              /\ r[i].lo <= body[j].lo /\ body[j].hi <= r[i].hi
              /\ r[i].check \in {NoCheck, body[j].check}
       /\ r[i].name \in Names(k.patch) \ Names(k.create) => r[i].lo <= 1 /\ 1 <= r[i].hi

(* The models of every resource agree, although each repeats the limits    *)
(* ValidateOwn checks: the one that creates, the one that patches and      *)
(* those that show it.                                                     *)
ModelsAgree == Agree(kind)

KindsAgree == \A k \in Kinds : Agree(k)

(* However a resource came about, what is kept of it passes the validation *)
(* of every model it is read through.                                      *)
ReadModelHolds ==
  \A r \in kind.reads : \A k \in DOMAIN r :
    r[k].name \in DOMAIN stored => ~Broken(r[k], stored[r[k].name], kind.expected)

(* An accepted PATCH changes the fields the caller set, to what it set     *)
(* them to, the empty string included, and no other.                       *)
PatchIsExact ==
  [][op = "patch" /\ verdict' = "accepted" =>
       \A n \in DOMAIN stored \intersect DOMAIN sent :
         stored'[n] = IF sent[n] = Nil THEN stored[n] ELSE sent[n]]_stored

(* Two versions of a contract get along: a body that the caller's own      *)
(* models accept is refused only for a field the service does not know.    *)
OnlyNewFieldsBreak ==
  phase = "handled" /\ BrokenFields(CallerSchema, sent, kind.expected) = {} =>
    verdict = "accepted" \/ (newer = "caller" /\ sent[New.name] # Nil)

--------------------------------------------------------------------------------
(* A claim of the comments, checked by a run that refutes it. *)

(* user.gen.go:20: a nickname is of "1-32 Unicode-символа". *)
NicknamesAreCharacters ==
  op = "create" /\ verdict = "invalid" /\ "Nickname" \in DOMAIN sent =>
    \/ sent["Nickname"].chars \notin 1..32 \/ sent["Nickname"].form # "good"
    \/ BrokenFields(CallerSchema, [sent EXCEPT !["Nickname"] = Value(1, 1, "good")], registry) # {}
===============================================================================
