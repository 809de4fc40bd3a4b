------------------------------ MODULE ServersApi -------------------------------
(* The contract of the servers service, as its generated code holds it. *)
EXTENDS Contract

(* generated/servers/impl/echoserver/server.gen.go *)
createServer == Handler("POST", <<"servers", "servers">>, TRUE, <<201, 400, 409, 500>>, {})
listServers == Handler("GET", <<"servers", "servers">>, FALSE, <<200>>, {})
getServer == Handler("GET", <<"servers", "servers", ":id">>, FALSE, <<200, 403, 404>>, {})
updateServer == Handler("PATCH", <<"servers", "servers", ":id">>, TRUE, <<200, 403, 404>>, {})
deleteServer == Handler("DELETE", <<"servers", "servers", ":id">>, FALSE, <<204, 403, 404>>, {204})
listMembers == Handler("GET", <<"servers", "servers", ":id", "members">>,
  FALSE, <<200, 403, 404>>, {})
updateMember == Handler("PATCH", <<"servers", "servers", ":id", "members", ":uid">>,
  TRUE, <<204, 403, 404>>, {204})
kickMemberSwapped ==     \* mutant: the parameters of the route are swapped
  Handler("DELETE", <<"servers", "servers", ":uid", "members", ":id">>,
  FALSE, <<204, 403, 404>>, {204})
kickMember == Handler("DELETE", <<"servers", "servers", ":id", "members", ":uid">>,
  FALSE, <<204, 403, 404>>, {204})
transferOwnership == Handler("POST", <<"servers", "servers", ":id", "transfer">>,
  TRUE, <<204, 403, 404, 409>>, {204})
createInviteDisordered ==  \* mutant: the ifs are no longer in order
  Handler("POST", <<"servers", "servers", ":id", "invites">>,
  TRUE, <<201, 401, 403, 404, 422, 409>>, {})
createInvite == Handler("POST", <<"servers", "servers", ":id", "invites">>,
  TRUE, <<201, 401, 403, 404, 409, 422>>, {})
listServerInvites == Handler("GET", <<"servers", "servers", ":id", "invites">>,
  FALSE, <<200, 401, 403, 404>>, {})
listChannels == Handler("GET", <<"servers", "servers", ":id", "channels">>,
  FALSE, <<200, 403, 404>>, {})
createChannel == Handler("POST", <<"servers", "servers", ":id", "channels">>,
  TRUE, <<201, 403, 500>>, {})
updateChannel == Handler("PATCH", <<"servers", "servers", ":id", "channels", ":cid">>,
  TRUE, <<200, 403, 404>>, {})
deleteChannel == Handler("DELETE", <<"servers", "servers", ":id", "channels", ":cid">>,
  FALSE, <<204, 403, 404>>, {204})
joinChannel == Handler("POST", <<"servers", "channels", ":id", "join">>,
  FALSE, <<200, 403, 404>>, {})
getInvite == Handler("GET", <<"servers", "invites", ":code">>, FALSE, <<200, 401, 404>>, {})
revokeInvite == Handler("DELETE", <<"servers", "invites", ":code">>,
  FALSE, <<204, 401, 403, 404>>, {204})
joinServerByInvite == Handler("POST", <<"servers", "invites", ":code", "join">>,
  FALSE, <<200, 401, 403, 404, 409, 410>>, {})
declineInvite == Handler("POST", <<"servers", "invites", ":code", "decline">>,
  FALSE, <<204, 401, 403, 404>>, {204})
listIncomingInvites == Handler("GET", <<"servers", "invites", "incoming">>, FALSE, <<200, 401>>, {})
healthCheck == Handler("GET", <<"servers", "health">>, FALSE, <<200>>, {})

(* generated/servers/impl/httpclient/client.gen.go *)
CreateServer == Method("POST", <<"servers", "servers">>, TRUE, {201, 400, 409, 500}, {})
ListServers == Method("GET", <<"servers", "servers">>, FALSE, {200}, {})
GetServer == Method("GET", <<"servers", "servers", ":id">>, FALSE, {200, 403, 404}, {})
UpdateServer == Method("PATCH", <<"servers", "servers", ":id">>, TRUE, {200, 403, 404}, {})
DeleteServer == Method("DELETE", <<"servers", "servers", ":id">>, FALSE, {204, 403, 404}, {204})
ListMembers == Method("GET", <<"servers", "servers", ":id", "members">>, FALSE, {200, 403, 404}, {})
UpdateMember == Method("PATCH", <<"servers", "servers", ":id", "members", ":uid">>,
  TRUE, {204, 403, 404}, {204})
KickMember == Method("DELETE", <<"servers", "servers", ":id", "members", ":uid">>,
  FALSE, {204, 403, 404}, {204})
TransferOwnership == Method("POST", <<"servers", "servers", ":id", "transfer">>,
  TRUE, {204, 403, 404, 409}, {204})
CreateInvite == Method("POST", <<"servers", "servers", ":id", "invites">>,
  TRUE, {201, 401, 403, 404, 409, 422}, {})
ListServerInvites == Method("GET", <<"servers", "servers", ":id", "invites">>,
  FALSE, {200, 401, 403, 404}, {})
ListChannels == Method("GET", <<"servers", "servers", ":id", "channels">>,
  FALSE, {200, 403, 404}, {})
CreateChannel == Method("POST", <<"servers", "servers", ":id", "channels">>,
  TRUE, {201, 403, 500}, {})
UpdateChannel == Method("PATCH", <<"servers", "servers", ":id", "channels", ":cid">>,
  TRUE, {200, 403, 404}, {})
DeleteChannel == Method("DELETE", <<"servers", "servers", ":id", "channels", ":cid">>,
  FALSE, {204, 403, 404}, {204})
JoinChannel == Method("POST", <<"servers", "channels", ":id", "join">>, FALSE, {200, 403, 404}, {})
GetInvite == Method("GET", <<"servers", "invites", ":code">>, FALSE, {200, 401, 404}, {})
RevokeInvite == Method("DELETE", <<"servers", "invites", ":code">>,
  FALSE, {204, 401, 403, 404}, {204})
JoinServerByInvite == Method("POST", <<"servers", "invites", ":code", "join">>,
  FALSE, {200, 401, 403, 404, 409, 410}, {})
DeclineInvite == Method("POST", <<"servers", "invites", ":code", "decline">>,
  FALSE, {204, 401, 403, 404}, {204})
ListIncomingInvites == Method("GET", <<"servers", "invites", "incoming">>, FALSE, {200, 401}, {})
HealthCheck == Method("GET", <<"servers", "health">>, FALSE, {200}, {})

(* generated/servers/interfaces/client/client_sugar.gen.go: *)
(* the one status each sugared method takes for success. *)
Sugared ==
  [CreateServer |-> 201, ListServers |-> 200, GetServer |-> 200, UpdateServer |-> 200,
   DeleteServer |-> 204, ListMembers |-> 200, UpdateMember |-> 204, KickMember |-> 204,
   TransferOwnership |-> 204, CreateInvite |-> 201, ListServerInvites |-> 200,
   ListChannels |-> 200, CreateChannel |-> 201, UpdateChannel |-> 200,
   DeleteChannel |-> 204, JoinChannel |-> 200, GetInvite |-> 200, RevokeInvite |-> 204,
   JoinServerByInvite |-> 200, DeclineInvite |-> 204, ListIncomingInvites |-> 200,
   HealthCheck |-> 200]

ServersOperations == {
  Operation(createServer, CreateServer, Sugared.CreateServer),
  Operation(listServers, ListServers, Sugared.ListServers),
  Operation(getServer, GetServer, Sugared.GetServer),
  Operation(updateServer, UpdateServer, Sugared.UpdateServer),
  Operation(deleteServer, DeleteServer, Sugared.DeleteServer),
  Operation(listMembers, ListMembers, Sugared.ListMembers),
  Operation(updateMember, UpdateMember, Sugared.UpdateMember),
  Operation(kickMember, KickMember, Sugared.KickMember),
  Operation(transferOwnership, TransferOwnership, Sugared.TransferOwnership),
  Operation(createInvite, CreateInvite, Sugared.CreateInvite),
  Operation(listServerInvites, ListServerInvites, Sugared.ListServerInvites),
  Operation(listChannels, ListChannels, Sugared.ListChannels),
  Operation(createChannel, CreateChannel, Sugared.CreateChannel),
  Operation(updateChannel, UpdateChannel, Sugared.UpdateChannel),
  Operation(deleteChannel, DeleteChannel, Sugared.DeleteChannel),
  Operation(joinChannel, JoinChannel, Sugared.JoinChannel),
  Operation(getInvite, GetInvite, Sugared.GetInvite),
  Operation(revokeInvite, RevokeInvite, Sugared.RevokeInvite),
  Operation(joinServerByInvite, JoinServerByInvite, Sugared.JoinServerByInvite),
  Operation(declineInvite, DeclineInvite, Sugared.DeclineInvite),
  Operation(listIncomingInvites, ListIncomingInvites, Sugared.ListIncomingInvites),
  Operation(healthCheck, HealthCheck, Sugared.HealthCheck)}
================================================================================
