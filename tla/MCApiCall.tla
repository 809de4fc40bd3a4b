------------------------------ MODULE MCApiCall ------------------------------
(* ApiCall over the contracts of the four services. *)
EXTENDS ApiCall

Users == INSTANCE UsersApi
Servers == INSTANCE ServersApi
Rooms == INSTANCE RoomsApi
Iam == INSTANCE IamApi

MCOperations ==
  Users!UsersOperations \union Servers!ServersOperations \union Rooms!RoomsOperations \union Iam!IamOperations
==============================================================================
