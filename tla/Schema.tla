-------------------------------- MODULE Schema ---------------------------------
(***************************************************************************)
(* The generated models of the services: the fields of a schema, in the    *)
(* order of the struct, with the rules ValidateOwn checks on each.         *)
(***************************************************************************)
EXTENDS Integers, Sequences

NoLimit == 9999  \* bound: above every size that is enumerated
NoCheck == ""

(* A rule compares a size: len() of a string, its bytes, or a number; then *)
(* a validator of the registry looks at the value.                         *)
Sized(name, lo, hi, check) ==
  [name |-> name, optional |-> FALSE, lo |-> lo, hi |-> hi, check |-> check]
Checked(name, check) == Sized(name, 0, NoLimit, check)
Free(name) == Checked(name, NoCheck)

(* A pointer with omitempty: nil when it is not set. *)
Optional(field) == [field EXCEPT !.optional = TRUE]

Names(schema) == {schema[k].name : k \in DOMAIN schema}
Checks(schema) == {schema[k].check : k \in DOMAIN schema} \ {NoCheck}

(* A value of a field; form tells whether it is what the contract says of  *)
(* the field's form, which the named validators look at.                   *)
Value(size, chars, form) == [size |-> size, chars |-> chars, form |-> form]
Nil == Value(0, 0, "nil")     \* a pointer that is not set
Zero == Value(0, 0, "bad")    \* what a string that is not in the JSON is left as
Filled == Value(1, 1, "good") \* what the service itself fills in

(* The lengths at the limits, with one byte and with two bytes to a        *)
(* character, and a value of bad form.                                     *)
ValuesOf(field) ==
  LET top == IF field.hi = NoLimit THEN field.lo + 1 ELSE field.hi
      narrow == {Value(n, n, "good") : n \in {field.lo, top, top + 1} \union ({field.lo - 1} \intersect Nat)}
      wide == {Value(2 * n, n, "good") : n \in {top \div 2, top}}
  IN  narrow \union wide \union {Zero, Value(top, top, "bad")}
      \union (IF field.optional THEN {Nil} ELSE {})

Field(schema, name) == CHOOSE f \in {schema[k] : k \in DOMAIN schema} : f.name = name

Typical(field) == IF field.optional THEN Nil ELSE Value(field.lo + 1, field.lo + 1, "good")

(* bound: the bodies a caller fills in, with at most two unusual fields *)
Bodies(schema) ==
  LET typical == [n \in Names(schema) |-> Typical(Field(schema, n))]
  IN  {typical} \union
      UNION {{[typical EXCEPT ![m] = v, ![n] = w] :
                v \in ValuesOf(Field(schema, m)), w \in ValuesOf(Field(schema, n))} :
             m, n \in Names(schema)}

(* One field's part of ValidateOwn. *)
Broken(field, value, registry) ==
  /\ value # Nil
  /\ \/ value.size < field.lo \/ value.size > field.hi
     \/ field.check # NoCheck /\ (field.check \notin registry \/ value.form = "bad")

BrokenFields(schema, body, registry) ==
  {k \in DOMAIN schema : Broken(schema[k], body[schema[k].name], registry)}
================================================================================
