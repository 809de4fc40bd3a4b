---------------------------- MODULE MCBodyExchange ----------------------------
(* BodyExchange over the models of the four services. *)
EXTENDS BodyExchange

Users == INSTANCE UsersModels
Servers == INSTANCE ServersModels
Rooms == INSTANCE RoomsModels
Iam == INSTANCE IamModels

MCKinds == Users!UsersKinds \union Servers!ServersKinds \union Rooms!RoomsKinds \union Iam!IamKinds
===============================================================================
