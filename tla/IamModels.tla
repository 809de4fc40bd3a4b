------------------------------- MODULE IamModels -------------------------------
(* The models of IAM that a request body goes through; none names a validator. *)
EXTENDS Schema

CheckRequest ==
  <<Sized("User", 1, 256, NoCheck), Sized("Relation", 1, 64, NoCheck), Sized("Object", 1, 256, NoCheck)>>
TupleRequest == CheckRequest
Tuple == <<Free("User"), Free("Relation"), Free("Object")>>

IamKinds ==
  {[expected |-> {}, create |-> CheckRequest, patch |-> <<>>, reads |-> {}],
   [expected |-> {}, create |-> TupleRequest, patch |-> <<>>, reads |-> {Tuple}]}
===============================================================================
