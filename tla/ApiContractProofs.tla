------------------------- MODULE ApiContractProofs ------------------------------
(***************************************************************************)
(* What the theorems of ApiCallProofs assume of the operations, proved of  *)
(* those of this repository: the two generated halves of each agree, and   *)
(* no two handlers are registered at one place.                            *)
(***************************************************************************)
EXTENDS MCApiCall, ApiCallProofs

--------------------------------------------------------------------------------
(* A handler's place, written out. *)

(* The segment at k, whatever a parameter is called; "none" past the end. *)
Slot(h, k) ==
  IF k \notin DOMAIN h.route THEN "none" ELSE IF h.route[k] \in Params THEN ":" ELSE h.route[k]

Stands(h, first, method, second, third, fourth, fifth) ==
  /\ h.method = method /\ Slot(h, 1) = first
  /\ Slot(h, 2) = second /\ Slot(h, 3) = third /\ Slot(h, 4) = fourth /\ Slot(h, 5) = fifth

SharePlace(g, h) ==
  /\ g.method = h.method /\ Slot(g, 1) = Slot(h, 1)
  /\ Slot(g, 2) = Slot(h, 2) /\ Slot(g, 3) = Slot(h, 3)
  /\ Slot(g, 4) = Slot(h, 4) /\ Slot(g, 5) = Slot(h, 5)

(* Two operations at the same place agree in every segment. *)
LEMMA SameSlots ==
  ASSUME NEW p, NEW q, SamePlace(p, q)
  PROVE  SharePlace(p.handler, q.handler)
BY DEF SamePlace, Slot, SharePlace

--------------------------------------------------------------------------------
(* The four services. *)

(* Where Iam registers its handlers. *)
LEMMA IamPlaces ==
  /\ Stands(Iam!listTuples, "iam", "GET", "tuples", "none", "none", "none")
  /\ Stands(Iam!writeTuple, "iam", "POST", "tuples", "none", "none", "none")
  /\ Stands(Iam!deleteTuple, "iam", "DELETE", "tuples", "none", "none", "none")
  /\ Stands(Iam!checkPermission, "iam", "POST", "check", "none", "none", "none")
  /\ Stands(Iam!healthCheck, "iam", "GET", "health", "none", "none", "none")
BY DEF Stands, Slot, Params, Iam!Handler,
       Iam!listTuples, Iam!writeTuple, Iam!deleteTuple, Iam!checkPermission, Iam!healthCheck

(* No two of its operations are at one place. *)
LEMMA IamApart ==
  /\ \A o \in Iam!IamOperations : Slot(o.handler, 1) = "iam"
  /\ \A p, q \in Iam!IamOperations : SharePlace(p.handler, q.handler) => p = q
<1>1. \A o \in Iam!IamOperations : Slot(o.handler, 1) = "iam"
  BY IamPlaces DEF Stands, Iam!IamOperations, Iam!Operation
<1>2. ASSUME NEW p \in Iam!IamOperations, NEW q \in Iam!IamOperations,
             SharePlace(p.handler, q.handler)
      PROVE  p = q
  BY <1>2, IamPlaces, SMTT(60)
     DEF Stands, SharePlace, Iam!IamOperations, Iam!Operation
<1> QED BY <1>1, <1>2

(* Its client was generated from the contract its handlers were. *)
LEMMA IamAgree == \A o \in Iam!IamOperations : HalvesAgree(o)
<1> SUFFICES ASSUME NEW o \in Iam!IamOperations PROVE HalvesAgree(o)
  OBVIOUS
<1> USE DEF Iam!IamOperations, Iam!Operation, Iam!Handler, Iam!Method, Iam!listTuples,
            Iam!writeTuple, Iam!deleteTuple, Iam!checkPermission, Iam!healthCheck, Iam!ListTuples,
            Iam!WriteTuple, Iam!DeleteTuple, Iam!CheckPermission, Iam!HealthCheck
<1>1. /\ o.client.method = o.handler.method /\ o.client.path = o.handler.route
      /\ o.client.bare = o.handler.bare
  BY SMTT(60)
<1>2. \/ o.client.body = TRUE /\ o.handler.body = TRUE
      \/ o.client.body = FALSE /\ o.handler.body = FALSE
  BY SMTT(60)
<1>3. o.client.cases = Declared(o.handler)
  BY SMTT(60) DEF Declared
<1>4. o.success \in o.client.cases
  BY SMTT(60) DEF Iam!Sugared
<1>5. \A j, k \in DOMAIN o.handler.answers : j < k => o.handler.answers[j] < o.handler.answers[k]
  BY SMTT(60)
<1> HIDE DEF Iam!IamOperations
<1> QED BY <1>1, <1>2, <1>3, <1>4, <1>5, Zenon DEF HalvesAgree

(* Where Rooms registers its handlers. *)
LEMMA RoomsPlaces ==
  /\ Stands(Rooms!createRoom, "rooms", "POST", "rooms", "none", "none", "none")
  /\ Stands(Rooms!listRooms, "rooms", "GET", "rooms", "none", "none", "none")
  /\ Stands(Rooms!getRoomByID, "rooms", "GET", "rooms", ":", "none", "none")
  /\ Stands(Rooms!deleteRoom, "rooms", "DELETE", "rooms", ":", "none", "none")
  /\ Stands(Rooms!joinRoom, "rooms", "POST", "rooms", ":", "join", "none")
  /\ Stands(Rooms!createWsTicket, "rooms", "POST", "ws-tickets", "none", "none", "none")
  /\ Stands(Rooms!healthCheck, "rooms", "GET", "health", "none", "none", "none")
BY DEF Stands, Slot, Params, Rooms!Handler,
       Rooms!createRoom, Rooms!listRooms, Rooms!getRoomByID, Rooms!deleteRoom, Rooms!joinRoom,
       Rooms!createWsTicket, Rooms!healthCheck

(* No two of its operations are at one place. *)
LEMMA RoomsApart ==
  /\ \A o \in Rooms!RoomsOperations : Slot(o.handler, 1) = "rooms"
  /\ \A p, q \in Rooms!RoomsOperations : SharePlace(p.handler, q.handler) => p = q
<1>1. \A o \in Rooms!RoomsOperations : Slot(o.handler, 1) = "rooms"
  BY RoomsPlaces DEF Stands, Rooms!RoomsOperations, Rooms!Operation
<1>2. ASSUME NEW p \in Rooms!RoomsOperations, NEW q \in Rooms!RoomsOperations,
             SharePlace(p.handler, q.handler)
      PROVE  p = q
  BY <1>2, RoomsPlaces, SMTT(60)
     DEF Stands, SharePlace, Rooms!RoomsOperations, Rooms!Operation
<1> QED BY <1>1, <1>2

(* Its client was generated from the contract its handlers were. *)
LEMMA RoomsAgree == \A o \in Rooms!RoomsOperations : HalvesAgree(o)
<1> SUFFICES ASSUME NEW o \in Rooms!RoomsOperations PROVE HalvesAgree(o)
  OBVIOUS
<1> USE DEF Rooms!RoomsOperations, Rooms!Operation, Rooms!Handler, Rooms!Method, Rooms!createRoom,
            Rooms!listRooms, Rooms!getRoomByID, Rooms!deleteRoom, Rooms!joinRoom,
            Rooms!createWsTicket, Rooms!healthCheck, Rooms!CreateRoom, Rooms!ListRooms,
            Rooms!GetRoomByID, Rooms!DeleteRoom, Rooms!JoinRoom, Rooms!CreateWsTicket,
            Rooms!HealthCheck
<1>1. /\ o.client.method = o.handler.method /\ o.client.path = o.handler.route
      /\ o.client.bare = o.handler.bare
  BY SMTT(60)
<1>2. \/ o.client.body = TRUE /\ o.handler.body = TRUE
      \/ o.client.body = FALSE /\ o.handler.body = FALSE
  BY SMTT(60)
<1>3. o.client.cases = Declared(o.handler)
  BY SMTT(60) DEF Declared
<1>4. o.success \in o.client.cases
  BY SMTT(60) DEF Rooms!Sugared
<1>5. \A j, k \in DOMAIN o.handler.answers : j < k => o.handler.answers[j] < o.handler.answers[k]
  BY SMTT(60)
<1> HIDE DEF Rooms!RoomsOperations
<1> QED BY <1>1, <1>2, <1>3, <1>4, <1>5, Zenon DEF HalvesAgree

(* Where Servers registers its handlers. *)
LEMMA ServersPlaces ==
  /\ Stands(Servers!createServer, "servers", "POST", "servers", "none", "none", "none")
  /\ Stands(Servers!listServers, "servers", "GET", "servers", "none", "none", "none")
  /\ Stands(Servers!getServer, "servers", "GET", "servers", ":", "none", "none")
  /\ Stands(Servers!updateServer, "servers", "PATCH", "servers", ":", "none", "none")
  /\ Stands(Servers!deleteServer, "servers", "DELETE", "servers", ":", "none", "none")
  /\ Stands(Servers!listMembers, "servers", "GET", "servers", ":", "members", "none")
  /\ Stands(Servers!updateMember, "servers", "PATCH", "servers", ":", "members", ":")
  /\ Stands(Servers!kickMember, "servers", "DELETE", "servers", ":", "members", ":")
  /\ Stands(Servers!transferOwnership, "servers", "POST", "servers", ":", "transfer", "none")
  /\ Stands(Servers!createInvite, "servers", "POST", "servers", ":", "invites", "none")
  /\ Stands(Servers!listServerInvites, "servers", "GET", "servers", ":", "invites", "none")
  /\ Stands(Servers!listChannels, "servers", "GET", "servers", ":", "channels", "none")
  /\ Stands(Servers!createChannel, "servers", "POST", "servers", ":", "channels", "none")
  /\ Stands(Servers!updateChannel, "servers", "PATCH", "servers", ":", "channels", ":")
  /\ Stands(Servers!deleteChannel, "servers", "DELETE", "servers", ":", "channels", ":")
  /\ Stands(Servers!joinChannel, "servers", "POST", "channels", ":", "join", "none")
  /\ Stands(Servers!getInvite, "servers", "GET", "invites", ":", "none", "none")
  /\ Stands(Servers!revokeInvite, "servers", "DELETE", "invites", ":", "none", "none")
  /\ Stands(Servers!joinServerByInvite, "servers", "POST", "invites", ":", "join", "none")
  /\ Stands(Servers!declineInvite, "servers", "POST", "invites", ":", "decline", "none")
  /\ Stands(Servers!listIncomingInvites, "servers", "GET", "invites", "incoming", "none", "none")
  /\ Stands(Servers!healthCheck, "servers", "GET", "health", "none", "none", "none")
BY DEF Stands, Slot, Params, Servers!Handler,
       Servers!createServer, Servers!listServers, Servers!getServer, Servers!updateServer,
       Servers!deleteServer, Servers!listMembers, Servers!updateMember, Servers!kickMember,
       Servers!transferOwnership, Servers!createInvite, Servers!listServerInvites,
       Servers!listChannels, Servers!createChannel, Servers!updateChannel, Servers!deleteChannel,
       Servers!joinChannel, Servers!getInvite, Servers!revokeInvite, Servers!joinServerByInvite,
       Servers!declineInvite, Servers!listIncomingInvites, Servers!healthCheck

(* No two of its operations are at one place. *)
LEMMA ServersApart ==
  /\ \A o \in Servers!ServersOperations : Slot(o.handler, 1) = "servers"
  /\ \A p, q \in Servers!ServersOperations : SharePlace(p.handler, q.handler) => p = q
<1>1. \A o \in Servers!ServersOperations : Slot(o.handler, 1) = "servers"
  BY ServersPlaces DEF Stands, Servers!ServersOperations, Servers!Operation
<1>2. ASSUME NEW p \in Servers!ServersOperations, NEW q \in Servers!ServersOperations,
             SharePlace(p.handler, q.handler)
      PROVE  p = q
  BY <1>2, ServersPlaces, SMTT(60)
     DEF Stands, SharePlace, Servers!ServersOperations, Servers!Operation
<1> QED BY <1>1, <1>2

(* Its client was generated from the contract its handlers were. *)
LEMMA ServersAgree == \A o \in Servers!ServersOperations : HalvesAgree(o)
<1> SUFFICES ASSUME NEW o \in Servers!ServersOperations PROVE HalvesAgree(o)
  OBVIOUS
<1> USE DEF Servers!ServersOperations, Servers!Operation, Servers!Handler, Servers!Method,
            Servers!createServer, Servers!listServers, Servers!getServer, Servers!updateServer,
            Servers!deleteServer, Servers!listMembers, Servers!updateMember, Servers!kickMember,
            Servers!transferOwnership, Servers!createInvite, Servers!listServerInvites,
            Servers!listChannels, Servers!createChannel, Servers!updateChannel,
            Servers!deleteChannel, Servers!joinChannel, Servers!getInvite, Servers!revokeInvite,
            Servers!joinServerByInvite, Servers!declineInvite, Servers!listIncomingInvites,
            Servers!healthCheck, Servers!CreateServer, Servers!ListServers, Servers!GetServer,
            Servers!UpdateServer, Servers!DeleteServer, Servers!ListMembers, Servers!UpdateMember,
            Servers!KickMember, Servers!TransferOwnership, Servers!CreateInvite,
            Servers!ListServerInvites, Servers!ListChannels, Servers!CreateChannel,
            Servers!UpdateChannel, Servers!DeleteChannel, Servers!JoinChannel, Servers!GetInvite,
            Servers!RevokeInvite, Servers!JoinServerByInvite, Servers!DeclineInvite,
            Servers!ListIncomingInvites, Servers!HealthCheck
<1>1. /\ o.client.method = o.handler.method /\ o.client.path = o.handler.route
      /\ o.client.bare = o.handler.bare
  BY SMTT(60)
<1>2. \/ o.client.body = TRUE /\ o.handler.body = TRUE
      \/ o.client.body = FALSE /\ o.handler.body = FALSE
  BY SMTT(60)
<1>3. o.client.cases = Declared(o.handler)
  BY SMTT(60) DEF Declared
<1>4. o.success \in o.client.cases
  BY SMTT(60) DEF Servers!Sugared
<1>5. \A j, k \in DOMAIN o.handler.answers : j < k => o.handler.answers[j] < o.handler.answers[k]
  BY SMTT(60)
<1> HIDE DEF Servers!ServersOperations
<1> QED BY <1>1, <1>2, <1>3, <1>4, <1>5, Zenon DEF HalvesAgree

(* Where Users registers its handlers. *)
LEMMA UsersPlaces ==
  /\ Stands(Users!registerUser, "users", "POST", "auth", "register", "none", "none")
  /\ Stands(Users!loginUser, "users", "POST", "auth", "login", "none", "none")
  /\ Stands(Users!refreshToken, "users", "POST", "auth", "refresh", "none", "none")
  /\ Stands(Users!logoutUser, "users", "POST", "auth", "logout", "none", "none")
  /\ Stands(Users!confirmEmail, "users", "POST", "auth", "email", "confirm", "none")
  /\ Stands(Users!resendEmailConfirmation, "users", "POST", "auth", "email", "resend", "none")
  /\ Stands(Users!getCurrentUser, "users", "GET", "users", "me", "none", "none")
  /\ Stands(Users!updateCurrentUser, "users", "PATCH", "users", "me", "none", "none")
  /\ Stands(Users!getUserByID, "users", "GET", "users", ":", "none", "none")
  /\ Stands(Users!listSessions, "users", "GET", "sessions", "none", "none", "none")
  /\ Stands(Users!deleteSession, "users", "DELETE", "sessions", ":", "none", "none")
  /\ Stands(Users!sendFriendRequest, "users", "POST", "friends", "requests", "none", "none")
  /\ Stands(Users!listIncomingRequests, "users", "GET", "friends", "requests", "none", "none")
  /\ Stands(Users!acceptFriendRequest, "users", "POST", "friends", "requests", ":", "accept")
  /\ Stands(Users!declineFriendRequest, "users", "POST", "friends", "requests", ":", "decline")
  /\ Stands(Users!listFriends, "users", "GET", "friends", "friends", "none", "none")
  /\ Stands(Users!removeFriend, "users", "DELETE", "friends", "friends", ":", "none")
  /\ Stands(Users!listOutgoingRequests, "users", "GET", "friends", "outgoing", "none", "none")
  /\ Stands(Users!cancelFriendRequest, "users", "DELETE", "friends", "outgoing", ":", "none")
  /\ Stands(Users!getJwks, "users", "GET", ".well-known", "jwks.json", "none", "none")
  /\ Stands(Users!healthCheck, "users", "GET", "health", "none", "none", "none")
BY DEF Stands, Slot, Params, Users!Handler,
       Users!registerUser, Users!loginUser, Users!refreshToken, Users!logoutUser,
       Users!confirmEmail, Users!resendEmailConfirmation, Users!getCurrentUser,
       Users!updateCurrentUser, Users!getUserByID, Users!listSessions, Users!deleteSession,
       Users!sendFriendRequest, Users!listIncomingRequests, Users!acceptFriendRequest,
       Users!declineFriendRequest, Users!listFriends, Users!removeFriend,
       Users!listOutgoingRequests, Users!cancelFriendRequest, Users!getJwks, Users!healthCheck

(* No two of its operations are at one place. *)
LEMMA UsersApart ==
  /\ \A o \in Users!UsersOperations : Slot(o.handler, 1) = "users"
  /\ \A p, q \in Users!UsersOperations : SharePlace(p.handler, q.handler) => p = q
<1>1. \A o \in Users!UsersOperations : Slot(o.handler, 1) = "users"
  BY UsersPlaces DEF Stands, Users!UsersOperations, Users!Operation
<1>2. ASSUME NEW p \in Users!UsersOperations, NEW q \in Users!UsersOperations,
             SharePlace(p.handler, q.handler)
      PROVE  p = q
  BY <1>2, UsersPlaces, SMTT(60)
     DEF Stands, SharePlace, Users!UsersOperations, Users!Operation
<1> QED BY <1>1, <1>2

(* Its client was generated from the contract its handlers were. *)
LEMMA UsersAgree == \A o \in Users!UsersOperations : HalvesAgree(o)
<1> SUFFICES ASSUME NEW o \in Users!UsersOperations PROVE HalvesAgree(o)
  OBVIOUS
<1> USE DEF Users!UsersOperations, Users!Operation, Users!Handler, Users!Method, Users!registerUser,
            Users!loginUser, Users!refreshToken, Users!logoutUser, Users!confirmEmail,
            Users!resendEmailConfirmation, Users!getCurrentUser, Users!updateCurrentUser,
            Users!getUserByID, Users!listSessions, Users!deleteSession, Users!sendFriendRequest,
            Users!listIncomingRequests, Users!acceptFriendRequest, Users!declineFriendRequest,
            Users!listFriends, Users!removeFriend, Users!listOutgoingRequests,
            Users!cancelFriendRequest, Users!getJwks, Users!healthCheck, Users!RegisterUser,
            Users!LoginUser, Users!RefreshToken, Users!LogoutUser, Users!ConfirmEmail,
            Users!ResendEmailConfirmation, Users!GetCurrentUser, Users!UpdateCurrentUser,
            Users!GetUserByID, Users!ListSessions, Users!DeleteSession, Users!SendFriendRequest,
            Users!ListIncomingRequests, Users!AcceptFriendRequest, Users!DeclineFriendRequest,
            Users!ListFriends, Users!RemoveFriend, Users!ListOutgoingRequests,
            Users!CancelFriendRequest, Users!GetJwks, Users!HealthCheck
<1>1. /\ o.client.method = o.handler.method /\ o.client.path = o.handler.route
      /\ o.client.bare = o.handler.bare
  BY SMTT(60)
<1>2. \/ o.client.body = TRUE /\ o.handler.body = TRUE
      \/ o.client.body = FALSE /\ o.handler.body = FALSE
  BY SMTT(60)
<1>3. o.client.cases = Declared(o.handler)
  BY SMTT(60) DEF Declared
<1>4. o.success \in o.client.cases
  BY SMTT(60) DEF Users!Sugared
<1>5. \A j, k \in DOMAIN o.handler.answers : j < k => o.handler.answers[j] < o.handler.answers[k]
  BY SMTT(60)
<1> HIDE DEF Users!UsersOperations
<1> QED BY <1>1, <1>2, <1>3, <1>4, <1>5, Zenon DEF HalvesAgree

--------------------------------------------------------------------------------
(* All of them together. *)

(* Every operation's two halves agree. *)
LEMMA HalvesOfAllAgree == \A o \in MCOperations : HalvesAgree(o)
BY IamAgree, RoomsAgree, ServersAgree, UsersAgree, Zenon DEF MCOperations

(* No two handlers are at one place: not of one service, by its table, nor *)
(* of two, by the first segment.                                           *)
LEMMA RoutesOfAllApart ==
  ASSUME NEW p \in MCOperations, NEW q \in MCOperations, SamePlace(p, q)
  PROVE  p = q
<1>1. SharePlace(p.handler, q.handler)
  BY SameSlots
<1>2. Slot(p.handler, 1) = Slot(q.handler, 1)
  BY <1>1 DEF SharePlace
<1>3. \/ p \in Iam!IamOperations /\ q \in Iam!IamOperations
      \/ p \in Rooms!RoomsOperations /\ q \in Rooms!RoomsOperations
      \/ p \in Servers!ServersOperations /\ q \in Servers!ServersOperations
      \/ p \in Users!UsersOperations /\ q \in Users!UsersOperations
  BY <1>2, IamApart, RoomsApart, ServersApart, UsersApart DEF MCOperations
<1> QED BY <1>1, <1>3, IamApart, RoomsApart, ServersApart, UsersApart, Zenon

(* What the other theorems ask of the operations holds of these. *)
THEOREM OperationsOfAll ==
  ASSUME Operations = MCOperations
  PROVE  ContractsAgree /\ RoutesApart
<1>1. ContractsAgree
  BY HalvesOfAllAgree, Zenon DEF ContractsAgree
<1>2. RoutesApart
  BY RoutesOfAllApart, Zenon DEF RoutesApart
<1> QED BY <1>1, <1>2

(* The invariant the runs check: client and server were generated from one *)
(* contract, for each of the operations of the four services.              *)
THEOREM ContractsAgreeThm ==
  ASSUME Operations = MCOperations
  PROVE  Spec => []ContractsAgree
<1>1. ContractsAgree
  BY OperationsOfAll
<1> QED BY <1>1, PTL

(* So every call of every operation is heard as it was answered, its       *)
(* errors are explained and its plain parameters arrive, whatever the      *)
(* values of the parameters; and it is a remote call.                      *)
THEOREM CallsOfAll ==
  ASSUME Operations = MCOperations
  PROVE  Spec => /\ [](HeardAsAnswered /\ EveryErrorExplained /\ PlainArgumentsArrive)
                 /\ Remote!Spec
<1>1. ContractsAgree /\ RoutesApart
  BY OperationsOfAll
<1>2. Spec => []HeardAsAnswered
  BY <1>1, HeardAsAnsweredThm
<1>3. Spec => []EveryErrorExplained
  BY <1>1, EveryErrorExplainedThm
<1>4. Spec => []PlainArgumentsArrive
  BY <1>1, PlainArgumentsArriveThm
<1>5. Spec => Remote!Spec
  BY <1>1, RemoteCallSafety
<1> QED BY <1>2, <1>3, <1>4, <1>5, PTL
================================================================================
