------------------------------- MODULE Contract --------------------------------
(***************************************************************************)
(* What the generated code of one operation holds of its OpenAPI contract. *)
(* A path is its segments without the version: a parameter is written      *)
(* ":id", both for the route of Echo and for the "{id}" of the client.     *)
(***************************************************************************)
EXTENDS Naturals, Sequences

Params == {":id", ":uid", ":cid", ":code"}

(* A handler of ServerHTTP: where Register puts it, whether it binds a     *)
(* body, the responses in the order it looks for them, those without body. *)
Handler(method, route, body, answers, bare) ==
  [method |-> method, route |-> route, body |-> body, answers |-> answers, bare |-> bare]

(* A method of Client: where it sends, whether it sends a body, the cases  *)
(* of its switch over the status, those that decode no body.               *)
Method(method, path, body, cases, bare) ==
  [method |-> method, path |-> path, body |-> body, cases |-> cases, bare |-> bare]

(* success: the one response the method of ClientSugared returns. *)
Operation(handler, client, success) ==
  [handler |-> handler, client |-> client, success |-> success]

ParamsOf(route) == Params \intersect {route[k] : k \in DOMAIN route}
Declared(handler) == {handler.answers[k] : k \in DOMAIN handler.answers}
================================================================================
