------------------------------ MODULE BodyProofs ------------------------------
(* Theorems about BodyExchange, for any kinds; some for kinds whose models agree. *)
EXTENDS BodyExchange, WellFoundedInduction, TLAPS

USE KindAssumption

--------------------------------------------------------------------------------
(* Fields and values. *)

Ranged(f) == f.lo \in Nat /\ f.hi \in Nat
ValueType == [size : Nat, chars : Nat, form : {"good", "bad", "nil"}]

(* The bodies of a kind are schemas without the new field. *)
LEMMA BodyType ==
  ASSUME kind \in Kinds, NEW o
  PROVE  /\ BodyOf(o) \in Seq(FieldType)
         /\ \A i, j \in DOMAIN BodyOf(o) : BodyOf(o)[i].name = BodyOf(o)[j].name => i = j
BY DEF BodyOf

(* The two versions of a schema: the newer keeps the fields where they are. *)
Versions(s) == {s, Append(s, New)}

(* Caller and service each have one of the two versions. *)
LEMMA VersionsOf ==
  ASSUME NEW o
  PROVE  CallerBody(o) \in Versions(BodyOf(o)) /\ ServiceBody(o) \in Versions(BodyOf(o))
BY DEF CallerBody, ServiceBody, Versions

(* The new field is optional, without limits and without a validator. *)
LEMMA NewType == Ranged(New) /\ New.name = "New" /\ New.optional /\ New.check = NoCheck
                 /\ New.lo = 0 /\ New.hi = NoLimit
BY DEF New, Ranged, NoLimit

(* A version of a schema has its fields at their places, and at most New after them. *)
LEMMA FieldsStay ==
  ASSUME NEW s \in Seq(FieldType), NEW v \in Versions(s)
  PROVE  /\ \A k \in DOMAIN s : k \in DOMAIN v /\ v[k] = s[k]
         /\ \A k \in DOMAIN v : Ranged(v[k])
         /\ \A k \in DOMAIN v : (k \in DOMAIN s /\ v[k] = s[k]) \/ (v[k] = New /\ v = Append(s, New))
         /\ \A k \in DOMAIN s : s[k] \in FieldType /\ s[k].name # New.name
<1>1. \A k \in DOMAIN s : s[k] \in FieldType
  OBVIOUS
<1>2. \A f \in FieldType : Ranged(f) /\ f.name # New.name
  BY DEF FieldType, Ranged
<1>3. CASE v = s
  BY <1>1, <1>2, <1>3
<1>4. CASE v = Append(s, New)
  <2>1. /\ \A k \in DOMAIN s : k \in DOMAIN v /\ v[k] = s[k]
        /\ \A k \in DOMAIN v : k \in DOMAIN s \/ v[k] = New
    BY <1>4
  <2> QED BY <1>1, <1>2, <1>4, <2>1, NewType
<1> QED BY <1>3, <1>4 DEF Versions

(* A name of the older schema is that of one field, in both versions. *)
LEMMA FieldIs ==
  ASSUME NEW s \in Seq(FieldType), NEW v \in Versions(s), NEW j \in DOMAIN s,
         \A i, k \in DOMAIN s : s[i].name = s[k].name => i = k
  PROVE  Field(v, s[j].name) = s[j]
<1> DEFINE fields == {v[k] : k \in DOMAIN v}
<1>1. s[j] \in fields
  BY FieldsStay
<1>2. \A f \in fields : f.name = s[j].name => f = s[j]
  BY FieldsStay
<1> QED BY <1>1, <1>2 DEF Field

(* The new field is found under its name. *)
LEMMA FieldNew ==
  ASSUME NEW s \in Seq(FieldType), NEW v \in Versions(s), New.name \in Names(v)
  PROVE  Field(v, New.name) = New /\ v = Append(s, New)
<1> DEFINE fields == {v[k] : k \in DOMAIN v}
<1>1. PICK k \in DOMAIN v : v[k].name = New.name
  BY DEF Names
<1>2. v[k] = New /\ v = Append(s, New)
  BY <1>1, FieldsStay
<1>3. \A f \in fields : f.name = New.name => f = New
  BY FieldsStay
<1> QED BY <1>2, <1>3 DEF Field

(* A name of a schema is that of a field of it. *)
LEMMA FieldType1 ==
  ASSUME NEW s \in Seq(FieldType), NEW v \in Versions(s), NEW n \in Names(v)
  PROVE  Ranged(Field(v, n))
<1> DEFINE fields == {v[k] : k \in DOMAIN v}
<1>1. \E f \in fields : f.name = n
  BY DEF Names
<1>2. Field(v, n) \in fields
  BY <1>1 DEF Field
<1> QED BY <1>2, FieldsStay

(* The values of a field are values. *)
LEMMA ValuesType ==
  ASSUME NEW f, Ranged(f)
  PROVE  ValuesOf(f) \subseteq ValueType /\ Typical(f) \in ValueType
<1>1. f.lo \in Nat /\ f.hi \in Nat
  BY DEF Ranged
<1> DEFINE top == IF f.hi = NoLimit THEN f.lo + 1 ELSE f.hi
<1>2. top \in Nat
  BY <1>1
<1>3. \A n \in Nat : Value(n, n, "good") \in ValueType /\ Value(n, n, "bad") \in ValueType
                     /\ Value(2 * n, n, "good") \in ValueType
  BY DEF Value, ValueType
<1>4. top \div 2 \in Nat
  <2>1. \A n \in Nat : n \div 2 \in Nat
    OBVIOUS
  <2> HIDE DEF top
  <2> QED BY <1>2, <2>1
<1>5. Nil \in ValueType /\ Zero \in ValueType
  BY DEF Nil, Zero, Value, ValueType
<1> HIDE DEF top
<1>6. {f.lo, top, top + 1} \union ({f.lo - 1} \intersect Nat) \subseteq Nat
  <2>1. top + 1 \in Nat
    BY <1>2
  <2>2. {f.lo - 1} \intersect Nat \subseteq Nat
    BY Zenon
  <2> QED BY <1>1, <1>2, <2>1, <2>2, Zenon
<1>7. ValuesOf(f) \subseteq ValueType
  <2> DEFINE narrow == {Value(n, n, "good") : n \in {f.lo, top, top + 1} \union ({f.lo - 1} \intersect Nat)}
             wide == {Value(2 * n, n, "good") : n \in {top \div 2, top}}
  <2>1. narrow \subseteq ValueType /\ wide \subseteq ValueType
    BY <1>2, <1>3, <1>4, <1>6
  <2>2. ValuesOf(f) = narrow \union wide \union {Zero, Value(top, top, "bad")}
                      \union (IF f.optional THEN {Nil} ELSE {})
    BY DEF ValuesOf, top
  <2> HIDE DEF narrow, wide
  <2> QED BY <1>2, <1>3, <1>5, <2>1, <2>2
<1>8. Typical(f) \in ValueType
  BY <1>1, <1>3, <1>5 DEF Typical
<1> QED BY <1>7, <1>8

(* A body that is filled in has a value for each field. *)
LEMMA BodiesType ==
  ASSUME NEW s \in Seq(FieldType), NEW v \in Versions(s), NEW body \in Bodies(v)
  PROVE  body \in [Names(v) -> ValueType]
<1> DEFINE typical == [n \in Names(v) |-> Typical(Field(v, n))]
<1>1. \A n \in Names(v) : ValuesOf(Field(v, n)) \subseteq ValueType /\ Typical(Field(v, n)) \in ValueType
  BY FieldType1, ValuesType
<1>2. typical \in [Names(v) -> ValueType]
  BY <1>1
<1> HIDE DEF typical
<1>3. CASE body = typical
  BY <1>2, <1>3
<1>4. CASE \E m, n \in Names(v) : \E a \in ValuesOf(Field(v, m)), b \in ValuesOf(Field(v, n)) :
             body = [typical EXCEPT ![m] = a, ![n] = b]
  BY <1>1, <1>2, <1>4
<1> QED BY <1>3, <1>4 DEF Bodies, typical

--------------------------------------------------------------------------------
(* From the caller to the service. *)

(* What a version of a schema that a body is decoded with knows of it. *)
LEMMA DecodedType ==
  ASSUME NEW s \in Seq(FieldType), NEW c \in Versions(s), NEW v \in Versions(s),
         NEW body \in [Names(c) -> ValueType]
  PROVE  Decode(v, Encode(c, body)) \in [Names(v) -> ValueType]
<1> DEFINE wire == Encode(c, body)
<1>1. \A n \in DOMAIN wire : wire[n] \in ValueType
  BY DEF Encode
<1>2. Nil \in ValueType /\ Zero \in ValueType
  BY DEF Nil, Zero, Value, ValueType
<1> HIDE DEF wire
<1>3. Decode(v, wire) \in [Names(v) -> ValueType]
  BY <1>1, <1>2 DEF Decode
<1> QED BY <1>3 DEF wire

(* A field that both versions have reaches the service as it was set. *)
LEMMA RoundTrip ==
  ASSUME NEW s \in Seq(FieldType), NEW c \in Versions(s), NEW v \in Versions(s),
         \A i, k \in DOMAIN s : s[i].name = s[k].name => i = k,
         NEW body \in [Names(c) -> ValueType], NEW n \in Names(s)
  PROVE  /\ n \in Names(c) /\ n \in Names(v)
         /\ Decode(v, Encode(c, body))[n] = body[n]
<1>1. PICK j \in DOMAIN s : s[j].name = n
  BY DEF Names
<1>2. Field(c, n) = s[j] /\ Field(v, n) = s[j]
  BY <1>1, FieldIs
<1>3. n \in Names(c) /\ n \in Names(v)
  BY <1>1, FieldsStay DEF Names
<1> DEFINE wire == Encode(c, body)
<1>4. /\ n \in DOMAIN wire <=> (s[j].optional => body[n] # Nil)
      /\ n \in DOMAIN wire => wire[n] = body[n]
  BY <1>2, <1>3 DEF Encode
<1> HIDE DEF wire
<1>5. Decode(v, wire)[n] = IF n \in DOMAIN wire THEN wire[n] ELSE IF s[j].optional THEN Nil ELSE Zero
  BY <1>2, <1>3 DEF Decode
<1>6. Decode(v, wire)[n] = body[n]
  BY <1>4, <1>5
<1> QED BY <1>3, <1>6 DEF wire

(* The body that is sent, and what the service decodes of it. *)
LEMMA SentType ==
  ASSUME kind \in Kinds, sent \in [Names(CallerSchema) -> ValueType]
  PROVE  /\ Decode(ServiceSchema, Encode(CallerSchema, sent)) \in [Names(ServiceSchema) -> ValueType]
         /\ \A n \in Names(BodyOf(op)) :
              /\ n \in Names(CallerSchema) /\ n \in Names(ServiceSchema)
              /\ Decode(ServiceSchema, Encode(CallerSchema, sent))[n] = sent[n]
<1> DEFINE s == BodyOf(op)
<1>1. s \in Seq(FieldType) /\ \A i, k \in DOMAIN s : s[i].name = s[k].name => i = k
  BY BodyType
<1>2. CallerSchema \in Versions(s) /\ ServiceSchema \in Versions(s)
  BY VersionsOf DEF CallerSchema, ServiceSchema
<1> HIDE DEF s
<1>3. \A n \in Names(s) :
        /\ n \in Names(CallerSchema) /\ n \in Names(ServiceSchema)
        /\ Decode(ServiceSchema, Encode(CallerSchema, sent))[n] = sent[n]
  BY <1>1, <1>2, RoundTrip
<1>4. Decode(ServiceSchema, Encode(CallerSchema, sent)) \in [Names(ServiceSchema) -> ValueType]
  BY <1>1, <1>2, DecodedType
<1> QED BY <1>3, <1>4 DEF s

--------------------------------------------------------------------------------
(* The inductive invariant. *)

(* A service that serves has exactly the validators its models expect, and *)
(* a body under way has a value for each field of the caller's schema.     *)
Served == phase \in {"idle", "sent", "handled"} => registry = kind.expected
Sent == phase \in {"sent", "handled"} => sent \in [Names(CallerSchema) -> ValueType]

(* What holds whatever the models are, and what takes models that agree. *)
KInv == TypeOK /\ Served /\ Sent /\ OnlyNewFieldsBreak
BInv == KInv /\ NoUnregisteredValidator /\ ReadModelHolds

(* What is accepted breaks no rule. *)
LEMMA AcceptedIsSound ==
  ASSUME NEW schema, NEW body, Validate(schema, body) = "accepted"
  PROVE  \A k \in DOMAIN schema : ~Broken(schema[k], body[schema[k].name], registry)
BY DEF Validate, BrokenFields

(* What breaks no rule is accepted. *)
LEMMA SoundIsAccepted ==
  ASSUME NEW schema, NEW body,
         \A k \in DOMAIN schema : ~Broken(schema[k], body[schema[k].name], registry)
  PROVE  Validate(schema, body) = "accepted"
BY DEF Validate, BrokenFields

(* What is stored of an accepted body passes the models it is read through. *)
LEMMA AcceptedIsReadable ==
  ASSUME KindsAgree, kind \in Kinds, registry = kind.expected, op \in {"create", "patch"},
         NEW body, Validate(ServiceSchema, body) = "accepted",
         NEW r \in kind.reads, NEW i \in DOMAIN r, r[i].name \in Names(BodyOf(op)),
         body[r[i].name].size \in Nat
  PROVE  ~Broken(r[i], body[r[i].name], kind.expected)
<1> DEFINE s == BodyOf(op)
           v == body[r[i].name]
<1>1. PICK j \in DOMAIN s : s[j].name = r[i].name
  BY DEF Names
<1>2. j \in DOMAIN ServiceSchema /\ ServiceSchema[j] = s[j]
  BY BodyType, VersionsOf, FieldsStay DEF ServiceSchema
<1>3. ~Broken(s[j], v, kind.expected)
  BY <1>1, <1>2, AcceptedIsSound
<1>4. /\ s[j].lo \in Nat /\ s[j].hi \in Nat /\ r[i].lo \in Nat /\ r[i].hi \in Nat
  <2>1. s \in Seq(FieldType) /\ r \in Seq(FieldType)
    BY DEF BodyOf
  <2> HIDE DEF s
  <2>2. s[j] \in FieldType /\ r[i] \in FieldType
    BY <2>1
  <2> QED BY <2>2 DEF FieldType
<1>5. /\ r[i].lo <= s[j].lo /\ s[j].hi <= r[i].hi
      /\ r[i].check \in {NoCheck, s[j].check}
  BY <1>1 DEF KindsAgree, Agree, BodyOf
<1> HIDE DEF s, v
<1>6. v = Nil \/ (s[j].lo <= v.size /\ v.size <= s[j].hi)
  <2>1. v.size \in Nat
    BY DEF v
  <2> QED BY <1>3, <1>4, <2>1 DEF Broken
<1>7. v = Nil \/ (r[i].lo <= v.size /\ v.size <= r[i].hi)
  <2>1. v.size \in Nat
    BY DEF v
  <2> QED BY <1>4, <1>5, <1>6, <2>1
<1>8. v = Nil \/ r[i].check = NoCheck \/ (r[i].check \in kind.expected /\ v.form # "bad")
  BY <1>3, <1>5 DEF Broken
<1>9. v.size \in Nat
  BY DEF v
<1>10. ~Broken(r[i], v, kind.expected)
  BY <1>4, <1>7, <1>8, <1>9 DEF Broken
<1> QED BY <1>10 DEF v

(* So does what the service fills in. *)
LEMMA FilledIsReadable ==
  ASSUME KindsAgree, kind \in Kinds, NEW r \in kind.reads, NEW i \in DOMAIN r,
         r[i].name \in Names(kind.patch) \ Names(kind.create)
  PROVE  ~Broken(r[i], Filled, kind.expected)
<1>1. r[i].lo <= 1 /\ 1 <= r[i].hi
  BY DEF KindsAgree, Agree
<1>2. PICK j \in DOMAIN kind.patch : kind.patch[j].name = r[i].name
  BY DEF Names
<1>3. r[i].check \in {NoCheck, kind.patch[j].check}
  BY <1>2 DEF KindsAgree, Agree
<1>4. kind.patch[j].check # NoCheck => kind.patch[j].check \in kind.expected
  BY DEF KindsAgree, Agree, Checks
<1>5. r[i].lo \in Nat /\ r[i].hi \in Nat
  <2>1. r[i] \in FieldType
    OBVIOUS
  <2> QED BY <2>1 DEF FieldType
<1>6. Filled.size = 1 /\ Filled.form = "good"
  BY DEF Filled, Value
<1> QED BY <1>1, <1>3, <1>4, <1>5, <1>6 DEF Broken

(* Of the fields that break a rule one is the first. *)
LEMMA FirstBroken ==
  ASSUME NEW S \in SUBSET Nat, S # {}
  PROVE  (CHOOSE k \in S : \A j \in S : k <= j) \in S
<1>1. PICK k \in S : \A j \in S : <<j, k>> \notin OpToRel(<, Nat)
  BY NatLessThanWellFounded, WFMin, Zenon
<1>2. \A j \in S : ~(j < k)
  BY <1>1, Zenon DEF OpToRel
<1>3. \A j \in S : k <= j
  BY <1>2
<1> QED BY <1>3, Zenon

(* With the expected validators ValidateOwn never misses one. *)
LEMMA NoneIsMissing ==
  ASSUME KindsAgree, kind \in Kinds, registry = kind.expected, op \in {"create", "patch"},
         NEW body \in [Names(ServiceSchema) -> ValueType]
  PROVE  Validate(ServiceSchema, body) # "unregistered"
<1> DEFINE s == BodyOf(op)
           v == ServiceSchema
           broken == BrokenFields(v, body, registry)
           first == CHOOSE k \in broken : \A j \in broken : k <= j
<1>1. s \in Seq(FieldType) /\ v \in Versions(s)
  BY BodyType, VersionsOf DEF ServiceSchema
<1>2. CASE broken = {}
  BY <1>2 DEF Validate
<1>3. CASE broken # {}
  <2>1. DOMAIN v \subseteq Nat
    <3> HIDE DEF s, v
    <3>1. New \in {New} /\ \A f \in FieldType : f \in FieldType \union {New}
      OBVIOUS
    <3>2. v \in Seq(FieldType \union {New})
      BY <1>1, <3>1 DEF Versions
    <3> QED BY <3>2
  <2>2. broken \in SUBSET Nat
    BY <2>1 DEF BrokenFields
  <2>3. first \in broken
    <3> HIDE DEF broken
    <3> QED BY <1>3, <2>2, FirstBroken
  <2> DEFINE f == v[first]
             x == body[f.name]
  <2>4. first \in DOMAIN v /\ Broken(f, x, registry)
    BY <2>3 DEF BrokenFields
  <2>5. (first \in DOMAIN s /\ f = s[first]) \/ f = New
    <3> HIDE DEF s, v, first
    <3> QED BY <1>1, <2>4, FieldsStay
  <2>6. f.check # NoCheck => f.check \in registry
    <3>1. CASE f = New
      BY <3>1, NewType
    <3>2. CASE first \in DOMAIN s /\ f = s[first]
      BY <3>2 DEF KindsAgree, Agree, Checks, BodyOf
    <3> QED BY <2>5, <3>1, <3>2
  <2>7. Ranged(f)
    <3> HIDE DEF s, v, first
    <3> QED BY <1>1, <2>4, FieldsStay
  <2>8. x.size \in Nat
    <3>1. f.name \in Names(v)
      BY <2>4 DEF Names
    <3>2. x \in ValueType
      BY <3>1
    <3> QED BY <3>2 DEF ValueType
  <2> HIDE DEF f, x
  <2>9. ~(x.size \in f.lo..f.hi /\ f.check \notin registry)
    BY <2>4, <2>6, <2>7, <2>8 DEF Broken, Ranged
  <2> QED BY <1>3, <2>9 DEF Validate, f, x
<1> QED BY <1>2, <1>3

(* The names of both sides. *)
LEMMA NamesOf ==
  ASSUME kind \in Kinds
  PROVE  /\ \A n \in Names(ServiceSchema) \union Names(CallerSchema) : n \in Names(BodyOf(op)) \/ n = New.name
         /\ \A o : New.name \notin Names(BodyOf(o))
         /\ New.name \in Names(ServiceSchema) => newer = "service"
         /\ New.name \in Names(CallerSchema) => newer = "caller"
<1>1. \A o : New.name \notin Names(BodyOf(o))
  <2> TAKE o
  <2>1. \A k \in DOMAIN BodyOf(o) : BodyOf(o)[k].name # New.name
    BY BodyType, FieldsStay DEF Versions
  <2> QED BY <2>1 DEF Names
<1> DEFINE s == BodyOf(op)
<1>2. s \in Seq(FieldType) /\ CallerSchema \in Versions(s) /\ ServiceSchema \in Versions(s)
  BY BodyType, VersionsOf DEF CallerSchema, ServiceSchema
<1>3. ASSUME NEW v \in Versions(s), NEW n \in Names(v)
      PROVE  n \in Names(s) \/ n = New.name
  <2>1. PICK k \in DOMAIN v : v[k].name = n
    BY DEF Names
  <2>2. (k \in DOMAIN s /\ v[k] = s[k]) \/ v[k] = New
    <3> HIDE DEF s
    <3> QED BY <1>2, FieldsStay
  <2> QED BY <2>1, <2>2 DEF Names
<1>4. New.name \in Names(ServiceSchema) => newer = "service"
  BY <1>1 DEF ServiceSchema, ServiceBody
<1>5. New.name \in Names(CallerSchema) => newer = "caller"
  BY <1>1 DEF CallerSchema, CallerBody
<1> QED BY <1>1, <1>2, <1>3, <1>4, <1>5

(* What the handler lets the service store can be read. *)
LEMMA StoredIsReadable ==
  ASSUME KindsAgree, BInv, Handle
  PROVE  ReadModelHolds'
<1> DEFINE body == Decode(ServiceSchema, Encode(CallerSchema, sent))
<1>0. /\ kind \in Kinds /\ op \in {"create", "patch"} /\ DOMAIN stored \in {{}, Kept}
      /\ registry = kind.expected /\ sent \in [Names(CallerSchema) -> ValueType]
      /\ kind' = kind
  BY DEF BInv, KInv, TypeOK, Served, Sent, Handle
<1>1. body \in [Names(ServiceSchema) -> ValueType]
  BY <1>0, SentType
<1>2. \A n \in Kept \intersect Names(ServiceSchema) : n \in Names(BodyOf(op)) /\ body[n].size \in Nat
  <2>1. \A n \in Kept : n # New.name
    BY <1>0, NamesOf DEF Kept, BodyOf
  <2>2. \A n \in Names(ServiceSchema) : body[n].size \in Nat
    BY <1>1 DEF ValueType
  <2> QED BY <1>0, <2>1, <2>2, NamesOf
<1>3. CASE stored' = stored
  BY <1>0, <1>3 DEF BInv, ReadModelHolds
<1>4. ASSUME Validate(ServiceSchema, body) = "accepted",
             NEW r \in kind.reads, NEW i \in DOMAIN r, r[i].name \in Kept \intersect Names(ServiceSchema)
      PROVE  ~Broken(r[i], body[r[i].name], kind.expected)
  BY <1>0, <1>2, <1>4, AcceptedIsReadable
<1>5. CASE Validate(ServiceSchema, body) = "accepted" /\ op = "create" /\ stored' = Created(body)
  <2> SUFFICES ASSUME NEW r \in kind.reads, NEW i \in DOMAIN r, r[i].name \in DOMAIN stored'
               PROVE  ~Broken(r[i], stored'[r[i].name], kind.expected)
    BY <1>0 DEF ReadModelHolds
  <2>1. r[i].name \in Kept /\ DOMAIN body = Names(ServiceSchema)
        /\ stored'[r[i].name] = IF r[i].name \in DOMAIN body THEN body[r[i].name] ELSE Filled
    BY <1>1, <1>5 DEF Created
  <2>2. CASE r[i].name \in DOMAIN body
    BY <1>4, <1>5, <2>1, <2>2
  <2>3. CASE r[i].name \notin DOMAIN body
    <3>1. r[i].name \in Names(kind.patch) \ Names(kind.create)
      BY <1>0, <1>5, <2>1, <2>3, SentType DEF Kept, BodyOf
    <3> QED BY <1>0, <2>1, <2>3, <3>1, FilledIsReadable
  <2> QED BY <2>2, <2>3
<1>6. CASE Validate(ServiceSchema, body) = "accepted" /\ stored' = Patched(body)
  <2> SUFFICES ASSUME NEW r \in kind.reads, NEW i \in DOMAIN r, r[i].name \in DOMAIN stored'
               PROVE  ~Broken(r[i], stored'[r[i].name], kind.expected)
    BY <1>0 DEF ReadModelHolds
  <2>1. /\ r[i].name \in DOMAIN stored /\ DOMAIN body = Names(ServiceSchema)
        /\ stored'[r[i].name] = IF r[i].name \in DOMAIN body /\ body[r[i].name] # Nil
                                THEN body[r[i].name] ELSE stored[r[i].name]
    BY <1>1, <1>6 DEF Patched
  <2>2. r[i].name \in Kept
    BY <1>0, <2>1
  <2>3. CASE r[i].name \in DOMAIN body /\ body[r[i].name] # Nil
    BY <1>4, <1>6, <2>1, <2>2, <2>3
  <2>4. CASE ~(r[i].name \in DOMAIN body /\ body[r[i].name] # Nil)
    BY <2>1, <2>4 DEF BInv, ReadModelHolds
  <2> QED BY <2>3, <2>4
<1>7. \/ stored' = stored
      \/ /\ Validate(ServiceSchema, body) = "accepted"
         /\ stored' = IF op = "create" THEN Created(body) ELSE Patched(body)
  BY DEF Handle
<1> QED BY <1>3, <1>5, <1>6, <1>7

(* What the handler answers the two versions of a contract. *)
LEMMA VersionsGetAlong ==
  ASSUME KInv, Handle
  PROVE  OnlyNewFieldsBreak'
<1> DEFINE wire == Encode(CallerSchema, sent)
           body == Decode(ServiceSchema, wire)
           c == CallerSchema
           v == ServiceSchema
           s == BodyOf(op)
<1>0. /\ kind \in Kinds /\ registry = kind.expected /\ sent \in [Names(c) -> ValueType]
      /\ UNCHANGED <<kind, newer, registry, op, sent>>
  BY DEF BInv, KInv, TypeOK, Served, Sent, Handle
<1> SUFFICES ASSUME BrokenFields(c, sent, kind.expected) = {}, verdict' # "accepted"
             PROVE  newer = "caller" /\ sent[New.name] # Nil
  BY <1>0 DEF OnlyNewFieldsBreak, CallerSchema, CallerBody, BodyOf
<1>1. s \in Seq(FieldType) /\ c \in Versions(s) /\ v \in Versions(s)
  BY <1>0, BodyType, VersionsOf DEF CallerSchema, ServiceSchema
<1>2. verdict' = IF DOMAIN wire \subseteq Names(v) THEN Validate(v, body) ELSE "unknown"
  BY DEF Handle
<1>3. DOMAIN wire = {n \in Names(c) : Field(c, n).optional => sent[n] # Nil}
  BY DEF Encode
<1>4. CASE ~(DOMAIN wire \subseteq Names(v))
  <2>1. PICK n \in DOMAIN wire : n \notin Names(v)
    BY <1>4
  <2>2. n = New.name /\ newer = "caller"
    BY <1>0, <1>3, <2>1, NamesOf, SentType
  <2>3. Field(c, New.name).optional
    <3> HIDE DEF c, s
    <3>1. New.name \in Names(c)
      BY <1>3, <2>1, <2>2
    <3>2. Field(c, New.name) = New
      BY <1>1, <3>1, FieldNew
    <3> QED BY <3>2, NewType
  <2> QED BY <1>3, <2>1, <2>2, <2>3
<1>5. CASE DOMAIN wire \subseteq Names(v)
  <2>1. ASSUME NEW k \in DOMAIN v
        PROVE  ~Broken(v[k], body[v[k].name], registry)
    <3>1. (k \in DOMAIN s /\ v[k] = s[k]) \/ (v[k] = New /\ v = Append(s, New))
      <4> HIDE DEF s, v
      <4> QED BY <1>1, FieldsStay
    <3>2. CASE k \in DOMAIN s /\ v[k] = s[k]
      <4>1. k \in DOMAIN c /\ c[k] = s[k]
        <5> HIDE DEF s, c
        <5> QED BY <1>1, <3>2, FieldsStay
      <4>2. s[k].name \in Names(s)
        BY <3>2 DEF Names
      <4>3. body[s[k].name] = sent[s[k].name]
        BY <1>0, <4>2, SentType
      <4>4. ~Broken(c[k], sent[c[k].name], kind.expected)
        BY <4>1 DEF BrokenFields
      <4> QED BY <1>0, <3>2, <4>1, <4>3, <4>4
    <3>3. CASE v[k] = New
      <4>1. New.name \in Names(v)
        BY <3>3 DEF Names
      <4>2. New.name \notin Names(c)
        BY <1>0, <4>1, NamesOf
      <4>3. New.name \notin DOMAIN wire
        BY <1>3, <4>2
      <4>4. Field(v, New.name) = New
        <5> HIDE DEF s, v
        <5> QED BY <1>1, <4>1, FieldNew
      <4>5. body[New.name] = Nil
        <5> HIDE DEF wire
        <5>1. body[New.name] = IF New.name \in DOMAIN wire THEN wire[New.name]
                               ELSE IF Field(v, New.name).optional THEN Nil ELSE Zero
          BY <4>1 DEF Decode
        <5> HIDE DEF body, v
        <5> QED BY <4>3, <4>4, <5>1, NewType
      <4> QED BY <3>3, <4>5 DEF Broken
    <3> QED BY <3>1, <3>2, <3>3
  <2>2. Validate(v, body) = "accepted"
    <3> HIDE DEF v, body
    <3> QED BY <2>1, SoundIsAccepted
  <2> QED BY <1>2, <1>5, <2>2
<1> QED BY <1>4, <1>5

--------------------------------------------------------------------------------
(* Every step keeps the invariant. *)

(* Nothing is started or sent, and what is stored is what may be. *)
LEMMA KInvInit == Init => KInv
BY DEF Init, KInv, TypeOK, Served, Sent, OnlyNewFieldsBreak, Nothing

(* AssertExact lets a service start with the expected registry only. *)
LEMMA StartKeeps == ASSUME KInv, Start PROVE KInv'
<1>1. phase = "starting" /\ verdict = "none" /\ verdict' = "none" /\ phase' \in {"idle", "failed"}
  BY DEF Start, KInv, TypeOK
<1>2. kind' = kind /\ newer' = newer /\ op' = op /\ sent' = sent /\ stored' = stored
  BY DEF Start
<1>3. TypeOK'
  BY <1>1, <1>2 DEF KInv, TypeOK, Kept
<1>4. Served'
  BY <1>1, <1>2 DEF Start, AssertExact, Served
<1>5. Sent' /\ OnlyNewFieldsBreak'
  BY <1>1, <1>2 DEF Sent, OnlyNewFieldsBreak
<1> QED BY <1>3, <1>4, <1>5 DEF KInv

(* A body sent gives a value to each field of the caller's model. *)
LEMMA CallKeeps == ASSUME KInv, NEW o \in {"create", "patch"}, Call(o) PROVE KInv'
<1>1. /\ phase = "idle" /\ verdict = "none" /\ verdict' = "none" /\ phase' = "sent" /\ op' = o
      /\ kind' = kind /\ newer' = newer /\ registry' = registry /\ stored' = stored
      /\ kind \in Kinds /\ sent' \in Bodies(CallerBody(o))
  BY DEF Call, KInv, TypeOK
<1>2. sent' \in [Names(CallerBody(o)) -> ValueType]
  <2> DEFINE s == BodyOf(o)
  <2>1. s \in Seq(FieldType) /\ CallerBody(o) \in Versions(s)
    BY <1>1, BodyType, VersionsOf
  <2> HIDE DEF s
  <2> QED BY <1>1, <2>1, BodiesType
<1>3. CallerSchema' = CallerBody(o)
  BY <1>1 DEF CallerSchema, CallerBody, BodyOf
<1>4. TypeOK'
  BY <1>1, <1>2, <1>3 DEF KInv, TypeOK, Kept
<1>5. Sent' /\ Served'
  BY <1>1, <1>2, <1>3 DEF KInv, Sent, Served
<1>6. OnlyNewFieldsBreak'
  BY <1>1 DEF OnlyNewFieldsBreak
<1> QED BY <1>4, <1>5, <1>6 DEF KInv

(* The handler stores all the fields that are kept, or leaves them alone. *)
LEMMA HandleKeeps == ASSUME KInv, Handle PROVE KInv'
<1> DEFINE body == Decode(ServiceSchema, Encode(CallerSchema, sent))
<1>1. /\ phase = "sent" /\ phase' = "handled"
      /\ kind' = kind /\ newer' = newer /\ registry' = registry /\ op' = op /\ sent' = sent
      /\ DOMAIN stored \in {{}, Kept}
  BY DEF Handle, KInv, TypeOK
<1>2. CallerSchema' = CallerSchema /\ Kept' = Kept
  BY <1>1 DEF CallerSchema, CallerBody, BodyOf, Kept
<1>3. verdict' \in {"accepted", "unregistered", "invalid", "unknown"}
  <2>1. Validate(ServiceSchema, body) \in {"accepted", "unregistered", "invalid"}
    BY DEF Validate
  <2> QED BY <2>1 DEF Handle
<1>4. DOMAIN stored' \in {{}, Kept}
  BY <1>1 DEF Handle, Created, Patched
<1>5. TypeOK'
  BY <1>1, <1>2, <1>3, <1>4 DEF KInv, TypeOK
<1>6. Served' /\ Sent'
  BY <1>1, <1>2 DEF KInv, Served, Sent
<1>7. OnlyNewFieldsBreak'
  BY VersionsGetAlong
<1> QED BY <1>5, <1>6, <1>7 DEF KInv

(* The answer ends the exchange and takes the verdict with it. *)
LEMMA ReturnKeeps == ASSUME KInv, Return PROVE KInv'
<1>1. /\ phase' = "idle" /\ phase = "handled" /\ op' = "create" /\ verdict' = "none"
      /\ kind' = kind /\ newer' = newer /\ registry' = registry /\ stored' = stored
  BY DEF Return
<1>2. TypeOK' /\ Served'
  BY <1>1 DEF KInv, TypeOK, Kept, Served
<1>3. Sent' /\ OnlyNewFieldsBreak'
  BY <1>1 DEF Sent, OnlyNewFieldsBreak
<1> QED BY <1>2, <1>3 DEF KInv

(* KInv is inductive, whatever the models are. *)
LEMMA KInvStep == ASSUME KInv, [Next]_vars PROVE KInv'
<1>1. CASE UNCHANGED vars
  BY <1>1 DEF vars, KInv, TypeOK, Served, Sent, OnlyNewFieldsBreak, Kept, CallerSchema, CallerBody, BodyOf
<1>2. CASE Next
  BY <1>2, StartKeeps, CallKeeps, HandleKeeps, ReturnKeeps DEF Next
<1> QED BY <1>1, <1>2

(* What was there before anybody posted can be read. *)
LEMMA BInvInit == ASSUME KindsAgree, Init PROVE BInv
<1>1. KInv /\ NoUnregisteredValidator
  BY KInvInit DEF Init, NoUnregisteredValidator
<1>2. ReadModelHolds
  <2> SUFFICES ASSUME NEW r \in kind.reads, NEW i \in DOMAIN r, r[i].name \in DOMAIN stored
               PROVE  ~Broken(r[i], stored[r[i].name], kind.expected)
    BY DEF ReadModelHolds
  <2>1. kind \in Kinds /\ kind.create = <<>> /\ stored = [n \in Kept |-> Filled]
    BY DEF Init, Nothing
  <2>2. Names(kind.create) = {}
    BY <2>1 DEF Names
  <2>3. r[i].name \in Names(kind.patch) \ Names(kind.create) /\ stored[r[i].name] = Filled
    BY <2>1, <2>2 DEF Kept
  <2> QED BY <2>1, <2>3, FilledIsReadable
<1> QED BY <1>1, <1>2 DEF BInv

(* Only the handler gives a verdict or changes what is kept. *)
LEMMA BInvStep == ASSUME KindsAgree, BInv, [Next]_vars PROVE BInv'
<1>1. KInv'
  BY KInvStep DEF BInv
<1>2. CASE UNCHANGED <<kind, stored>> /\ verdict' \in {verdict, "none"}
  BY <1>1, <1>2 DEF BInv, NoUnregisteredValidator, ReadModelHolds
<1>3. CASE Handle
  <2> DEFINE body == Decode(ServiceSchema, Encode(CallerSchema, sent))
  <2>1. /\ kind \in Kinds /\ op \in {"create", "patch"} /\ registry = kind.expected
        /\ sent \in [Names(CallerSchema) -> ValueType]
    BY <1>3 DEF BInv, KInv, TypeOK, Served, Sent, Handle
  <2>2. body \in [Names(ServiceSchema) -> ValueType]
    BY <2>1, SentType
  <2>3. Validate(ServiceSchema, body) # "unregistered"
    BY <2>1, <2>2, NoneIsMissing
  <2>4. verdict' \in {Validate(ServiceSchema, body), "unknown"}
    BY <1>3 DEF Handle
  <2>5. NoUnregisteredValidator'
    BY <2>3, <2>4 DEF NoUnregisteredValidator
  <2>6. ReadModelHolds'
    BY <1>3, StoredIsReadable
  <2> QED BY <1>1, <2>5, <2>6 DEF BInv
<1>4. CASE Start \/ (\E o \in {"create", "patch"} : Call(o)) \/ Return \/ UNCHANGED vars
  BY <1>2, <1>4 DEF Start, Call, Return, vars
<1> QED BY <1>3, <1>4 DEF Next

--------------------------------------------------------------------------------
(* The theorems, for every set of kinds; the last three for models that agree. *)

(* Whatever bodies are exchanged, by callers and services of whichever     *)
(* version, and whatever their models are.                                 *)
THEOREM KInvariance == Spec => []KInv
<1>1. KInv /\ [Next]_vars => KInv'
  BY KInvStep
<1> QED BY <1>1, KInvInit, PTL DEF Spec

(* The variables keep to their types. *)
THEOREM BodyTypeCorrect == Spec => []TypeOK
<1>1. KInv => TypeOK
  BY DEF KInv
<1> QED BY <1>1, KInvariance, PTL

(* Two versions of a contract that differ by an optional field get along   *)
(* but for that field.                                                     *)
THEOREM OnlyNewFieldsBreakThm == Spec => []OnlyNewFieldsBreak
<1>1. KInv => OnlyNewFieldsBreak
  BY DEF KInv
<1> QED BY <1>1, KInvariance, PTL

(* A PATCH that is accepted writes what the caller set and nothing else.   *)
THEOREM PatchIsExactThm == Spec => PatchIsExact
<1> DEFINE A == op = "patch" /\ verdict' = "accepted" =>
                  \A n \in DOMAIN stored \intersect DOMAIN sent :
                    stored'[n] = IF sent[n] = Nil THEN stored[n] ELSE sent[n]
<1>1. KInv /\ [Next]_vars => [A]_stored
  <2> SUFFICES ASSUME KInv, Next, op = "patch", verdict' = "accepted", stored' # stored,
                      NEW n \in DOMAIN stored \intersect DOMAIN sent
               PROVE  stored'[n] = IF sent[n] = Nil THEN stored[n] ELSE sent[n]
    BY DEF vars
  <2> DEFINE body == Decode(ServiceSchema, Encode(CallerSchema, sent))
  <2>1. Handle
    BY DEF Next, Start, Call, Return
  <2>2. stored' = Patched(body)
    BY <2>1 DEF Handle
  <2>3. /\ kind \in Kinds /\ op = "patch" /\ sent \in [Names(CallerSchema) -> ValueType]
        /\ DOMAIN stored \in {{}, Kept}
    BY <2>1 DEF KInv, TypeOK, Sent, Handle
  <2>4. n \in Kept /\ n \in Names(CallerSchema)
    BY <2>3
  <2>5. n # New.name
    BY <2>3, <2>4, NamesOf DEF Kept, BodyOf
  <2>6. n \in Names(BodyOf(op))
    BY <2>3, <2>4, <2>5, NamesOf
  <2>7. body[n] = sent[n] /\ DOMAIN body = Names(ServiceSchema) /\ n \in Names(ServiceSchema)
    BY <2>3, <2>6, SentType
  <2> HIDE DEF body
  <2> QED BY <2>2, <2>7 DEF Patched
<1>2. Spec => [][A]_stored
  BY <1>1, KInvariance, PTL DEF Spec
<1> QED BY <1>2 DEF PatchIsExact

(* The invariant holds once the models agree. *)
THEOREM BInvariance == ASSUME KindsAgree PROVE Spec => []BInv
<1>1. Init => BInv
  BY BInvInit
<1>2. BInv /\ [Next]_vars => BInv'
  BY BInvStep
<1> QED BY <1>1, <1>2, PTL DEF Spec

(* A service that passed the contract test at its start never fails a      *)
(* request for a validator it does not have.                               *)
THEOREM NoUnregisteredValidatorThm == ASSUME KindsAgree PROVE Spec => []NoUnregisteredValidator
<1>1. BInv => NoUnregisteredValidator
  BY DEF BInv
<1> QED BY <1>1, BInvariance, PTL

(* What was accepted, by a post or a PATCH, can be read back through every *)
(* model that shows it.                                                    *)
THEOREM ReadModelHoldsThm == ASSUME KindsAgree PROVE Spec => []ReadModelHolds
<1>1. BInv => ReadModelHolds
  BY DEF BInv
<1> QED BY <1>1, BInvariance, PTL

================================================================================
