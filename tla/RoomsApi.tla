------------------------------ MODULE RoomsApi ---------------------------------
(* The contract of the rooms service, as its generated code holds it. *)
EXTENDS Contract

(* generated/rooms/impl/echoserver/server.gen.go *)
createRoom == Handler("POST", <<"rooms", "rooms">>, TRUE, <<201, 400, 500>>, {})
listRooms == Handler("GET", <<"rooms", "rooms">>, FALSE, <<200>>, {})
getRoomByID == Handler("GET", <<"rooms", "rooms", ":id">>, FALSE, <<200, 404>>, {})
deleteRoom == Handler("DELETE", <<"rooms", "rooms", ":id">>, FALSE, <<204, 404>>, {204})
joinRoom == Handler("POST", <<"rooms", "rooms", ":id", "join">>, FALSE, <<200, 404>>, {})
createWsTicket == Handler("POST", <<"rooms", "ws-tickets">>, FALSE, <<200, 401, 500>>, {})
healthCheck == Handler("GET", <<"rooms", "health">>, FALSE, <<200>>, {})

(* generated/rooms/impl/httpclient/client.gen.go *)
CreateRoom == Method("POST", <<"rooms", "rooms">>, TRUE, {201, 400, 500}, {})
ListRooms == Method("GET", <<"rooms", "rooms">>, FALSE, {200}, {})
GetRoomByID == Method("GET", <<"rooms", "rooms", ":id">>, FALSE, {200, 404}, {})
DeleteRoom == Method("DELETE", <<"rooms", "rooms", ":id">>, FALSE, {204, 404}, {204})
JoinRoom == Method("POST", <<"rooms", "rooms", ":id", "join">>, FALSE, {200, 404}, {})
CreateWsTicket == Method("POST", <<"rooms", "ws-tickets">>, FALSE, {200, 401, 500}, {})
HealthCheck == Method("GET", <<"rooms", "health">>, FALSE, {200}, {})

(* generated/rooms/interfaces/client/client_sugar.gen.go: *)
(* the one status each sugared method takes for success. *)
Sugared ==
  [CreateRoom |-> 201, ListRooms |-> 200, GetRoomByID |-> 200, DeleteRoom |-> 204,
   JoinRoom |-> 200, CreateWsTicket |-> 200, HealthCheck |-> 200]

RoomsOperations == {
  Operation(createRoom, CreateRoom, Sugared.CreateRoom),
  Operation(listRooms, ListRooms, Sugared.ListRooms),
  Operation(getRoomByID, GetRoomByID, Sugared.GetRoomByID),
  Operation(deleteRoom, DeleteRoom, Sugared.DeleteRoom),
  Operation(joinRoom, JoinRoom, Sugared.JoinRoom),
  Operation(createWsTicket, CreateWsTicket, Sugared.CreateWsTicket),
  Operation(healthCheck, HealthCheck, Sugared.HealthCheck)}
================================================================================
