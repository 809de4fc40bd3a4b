------------------------------ MODULE IamApi -----------------------------------
(* The contract of the iam service, as its generated code holds it. *)
EXTENDS Contract

(* generated/iam/impl/echoserver/server.gen.go *)
listTuples == Handler("GET", <<"iam", "tuples">>, FALSE, <<200, 400, 500>>, {})
writeTuple == Handler("POST", <<"iam", "tuples">>, TRUE, <<201, 400, 500>>, {})
deleteTuple == Handler("DELETE", <<"iam", "tuples">>, TRUE, <<204, 404>>, {204})
checkPermission == Handler("POST", <<"iam", "check">>, TRUE, <<200, 400, 500>>, {})
healthCheck == Handler("GET", <<"iam", "health">>, FALSE, <<200>>, {})

(* generated/iam/impl/httpclient/client.gen.go *)
ListTuples == Method("GET", <<"iam", "tuples">>, FALSE, {200, 400, 500}, {})
WriteTuple == Method("POST", <<"iam", "tuples">>, TRUE, {201, 400, 500}, {})
DeleteTuple == Method("DELETE", <<"iam", "tuples">>, TRUE, {204, 404}, {204})
CheckPermission == Method("POST", <<"iam", "check">>, TRUE, {200, 400, 500}, {})
HealthCheck == Method("GET", <<"iam", "health">>, FALSE, {200}, {})

(* generated/iam/interfaces/client/client_sugar.gen.go: *)
(* the one status each sugared method takes for success. *)
Sugared ==
  [ListTuples |-> 200, WriteTuple |-> 201, DeleteTuple |-> 204, CheckPermission |-> 200,
   HealthCheck |-> 200]

IamOperations == {
  Operation(listTuples, ListTuples, Sugared.ListTuples),
  Operation(writeTuple, WriteTuple, Sugared.WriteTuple),
  Operation(deleteTuple, DeleteTuple, Sugared.DeleteTuple),
  Operation(checkPermission, CheckPermission, Sugared.CheckPermission),
  Operation(healthCheck, HealthCheck, Sugared.HealthCheck)}
================================================================================
