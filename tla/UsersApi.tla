------------------------------ MODULE UsersApi ---------------------------------
(* The contract of the users service, as its generated code holds it. *)
EXTENDS Contract

(* generated/users/impl/echoserver/server.gen.go *)
registerUser == Handler("POST", <<"users", "auth", "register">>,
  TRUE, <<201, 400, 409, 422, 500>>, {})
loginUser == Handler("POST", <<"users", "auth", "login">>,
  TRUE, <<200, 400, 401, 403, 422, 500>>, {})
refreshToken == Handler("POST", <<"users", "auth", "refresh">>,
  TRUE, <<200, 401, 409, 422, 500>>, {})
logoutUser == Handler("POST", <<"users", "auth", "logout">>, TRUE, <<204, 401, 422, 500>>, {204})
confirmEmail == Handler("POST", <<"users", "auth", "email", "confirm">>,
  TRUE, <<200, 400, 500>>, {})
resendEmailConfirmation == Handler("POST", <<"users", "auth", "email", "resend">>,
  TRUE, <<202, 400, 429, 500>>, {202})
getCurrentUser == Handler("GET", <<"users", "users", "me">>, FALSE, <<200, 401, 500>>, {})
updateCurrentUser == Handler("PATCH", <<"users", "users", "me">>,
  TRUE, <<200, 400, 401, 409, 422, 500>>, {})
getUserByID == Handler("GET", <<"users", "users", ":id">>, FALSE, <<200, 401, 404, 422, 500>>, {})
listSessions == Handler("GET", <<"users", "sessions">>, FALSE, <<200, 401, 500>>, {})
deleteSession == Handler("DELETE", <<"users", "sessions", ":id">>,
  FALSE, <<204, 401, 403, 404, 422, 500>>, {204})
sendFriendRequest == Handler("POST", <<"users", "friends", "requests">>,
  TRUE, <<201, 401, 403, 404, 409, 422, 429>>, {})
listIncomingRequests == Handler("GET", <<"users", "friends", "requests">>, FALSE, <<200, 401>>, {})
acceptFriendRequest == Handler("POST", <<"users", "friends", "requests", ":id", "accept">>,
  FALSE, <<200, 401, 403, 422>>, {})
declineFriendRequest == Handler("POST", <<"users", "friends", "requests", ":id", "decline">>,
  FALSE, <<204, 401, 403, 422>>, {204})
listFriends == Handler("GET", <<"users", "friends", "friends">>, FALSE, <<200, 401>>, {})
removeFriend == Handler("DELETE", <<"users", "friends", "friends", ":id">>,
  FALSE, <<204, 401, 404, 422>>, {204})
listOutgoingRequests == Handler("GET", <<"users", "friends", "outgoing">>, FALSE, <<200, 401>>, {})
cancelFriendRequest == Handler("DELETE", <<"users", "friends", "outgoing", ":id">>,
  FALSE, <<204, 401, 403, 422>>, {204})
getJwks == Handler("GET", <<"users", ".well-known", "jwks.json">>, FALSE, <<200, 500>>, {})
healthCheck == Handler("GET", <<"users", "health">>, FALSE, <<200, 503>>, {})

(* generated/users/impl/httpclient/client.gen.go *)
RegisterUser == Method("POST", <<"users", "auth", "register">>, TRUE, {201, 400, 409, 422, 500}, {})
LoginUser == Method("POST", <<"users", "auth", "login">>, TRUE, {200, 400, 401, 403, 422, 500}, {})
RefreshToken == Method("POST", <<"users", "auth", "refresh">>, TRUE, {200, 401, 409, 422, 500}, {})
LogoutUser == Method("POST", <<"users", "auth", "logout">>, TRUE, {204, 401, 422, 500}, {204})
ConfirmEmail == Method("POST", <<"users", "auth", "email", "confirm">>, TRUE, {200, 400, 500}, {})
ResendEmailConfirmation == Method("POST", <<"users", "auth", "email", "resend">>,
  TRUE, {202, 400, 429, 500}, {202})
GetCurrentUser == Method("GET", <<"users", "users", "me">>, FALSE, {200, 401, 500}, {})
UpdateCurrentUser == Method("PATCH", <<"users", "users", "me">>,
  TRUE, {200, 400, 401, 409, 422, 500}, {})
GetUserByID == Method("GET", <<"users", "users", ":id">>, FALSE, {200, 401, 404, 422, 500}, {})
ListSessions == Method("GET", <<"users", "sessions">>, FALSE, {200, 401, 500}, {})
DeleteSession == Method("DELETE", <<"users", "sessions", ":id">>,
  FALSE, {204, 401, 403, 404, 422, 500}, {204})
SendFriendRequest == Method("POST", <<"users", "friends", "requests">>,
  TRUE, {201, 401, 403, 404, 409, 422, 429}, {})
ListIncomingRequests == Method("GET", <<"users", "friends", "requests">>, FALSE, {200, 401}, {})
AcceptFriendRequest == Method("POST", <<"users", "friends", "requests", ":id", "accept">>,
  FALSE, {200, 401, 403, 422}, {})
DeclineFriendRequest == Method("POST", <<"users", "friends", "requests", ":id", "decline">>,
  FALSE, {204, 401, 403, 422}, {204})
ListFriends == Method("GET", <<"users", "friends", "friends">>, FALSE, {200, 401}, {})
RemoveFriendNo404 ==     \* mutant: the switch has lost a case
  Method("DELETE", <<"users", "friends", "friends", ":id">>,
  FALSE, {204, 401, 422}, {204})
RemoveFriend == Method("DELETE", <<"users", "friends", "friends", ":id">>,
  FALSE, {204, 401, 404, 422}, {204})
ListOutgoingRequests == Method("GET", <<"users", "friends", "outgoing">>, FALSE, {200, 401}, {})
CancelFriendRequest == Method("DELETE", <<"users", "friends", "outgoing", ":id">>,
  FALSE, {204, 401, 403, 422}, {204})
GetJwks == Method("GET", <<"users", ".well-known", "jwks.json">>, FALSE, {200, 500}, {})
HealthCheck == Method("GET", <<"users", "health">>, FALSE, {200, 503}, {})

(* generated/users/interfaces/client/client_sugar.gen.go: *)
(* the one status each sugared method takes for success. *)
Sugared ==
  [RegisterUser |-> 201, LoginUser |-> 200, RefreshToken |-> 200, LogoutUser |-> 204,
   ConfirmEmail |-> 200, ResendEmailConfirmation |-> 202, GetCurrentUser |-> 200,
   UpdateCurrentUser |-> 200, GetUserByID |-> 200, ListSessions |-> 200,
   DeleteSession |-> 204, SendFriendRequest |-> 201, ListIncomingRequests |-> 200,
   AcceptFriendRequest |-> 200, DeclineFriendRequest |-> 204, ListFriends |-> 200,
   RemoveFriend |-> 204, ListOutgoingRequests |-> 200, CancelFriendRequest |-> 204,
   GetJwks |-> 200, HealthCheck |-> 200]

UsersOperations == {
  Operation(registerUser, RegisterUser, Sugared.RegisterUser),
  Operation(loginUser, LoginUser, Sugared.LoginUser),
  Operation(refreshToken, RefreshToken, Sugared.RefreshToken),
  Operation(logoutUser, LogoutUser, Sugared.LogoutUser),
  Operation(confirmEmail, ConfirmEmail, Sugared.ConfirmEmail),
  Operation(resendEmailConfirmation, ResendEmailConfirmation, Sugared.ResendEmailConfirmation),
  Operation(getCurrentUser, GetCurrentUser, Sugared.GetCurrentUser),
  Operation(updateCurrentUser, UpdateCurrentUser, Sugared.UpdateCurrentUser),
  Operation(getUserByID, GetUserByID, Sugared.GetUserByID),
  Operation(listSessions, ListSessions, Sugared.ListSessions),
  Operation(deleteSession, DeleteSession, Sugared.DeleteSession),
  Operation(sendFriendRequest, SendFriendRequest, Sugared.SendFriendRequest),
  Operation(listIncomingRequests, ListIncomingRequests, Sugared.ListIncomingRequests),
  Operation(acceptFriendRequest, AcceptFriendRequest, Sugared.AcceptFriendRequest),
  Operation(declineFriendRequest, DeclineFriendRequest, Sugared.DeclineFriendRequest),
  Operation(listFriends, ListFriends, Sugared.ListFriends),
  Operation(removeFriend, RemoveFriend, Sugared.RemoveFriend),
  Operation(listOutgoingRequests, ListOutgoingRequests, Sugared.ListOutgoingRequests),
  Operation(cancelFriendRequest, CancelFriendRequest, Sugared.CancelFriendRequest),
  Operation(getJwks, GetJwks, Sugared.GetJwks),
  Operation(healthCheck, HealthCheck, Sugared.HealthCheck)}
================================================================================
