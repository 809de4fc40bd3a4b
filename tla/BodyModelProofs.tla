--------------------------- MODULE BodyModelProofs ------------------------------
(***************************************************************************)
(* What the theorems of BodyProofs assume of the models, proved of those   *)
(* of this repository: the schemas a body goes through repeat each other's *)
(* limits, and name the validators their service expects.                  *)
(***************************************************************************)
EXTENDS MCBodyExchange, BodyProofs

--------------------------------------------------------------------------------
(* Agree, in terms of the fields and not of their places. *)

Fields(schema) == {schema[i] : i \in DOMAIN schema}

Allows(f, g) == f.lo <= g.lo /\ g.hi <= f.hi /\ f.check \in {NoCheck, g.check}

Matching(expected, create, patch, reads) ==
  /\ \A g \in Fields(create) \union Fields(patch) : g.check \in expected \union {NoCheck}
  /\ \A r \in reads : \A f \in Fields(r) :
       /\ \A g \in Fields(create) \union Fields(patch) : f.name = g.name => Allows(f, g)
       /\ \A g \in Fields(patch) : f.name = g.name =>
            (f.lo <= 1 /\ 1 <= f.hi) \/ \E h \in Fields(create) : h.name = g.name

(* Models whose fields match agree. *)
LEMMA MatchingAgree ==
  ASSUME NEW k, Matching(k.expected, k.create, k.patch, k.reads)
  PROVE  Agree(k)
<1>0. /\ \A g \in Fields(k.create) \union Fields(k.patch) : g.check \in k.expected \union {NoCheck}
      /\ \A r \in k.reads : \A f \in Fields(r) :
           /\ \A g \in Fields(k.create) \union Fields(k.patch) : f.name = g.name => Allows(f, g)
           /\ \A g \in Fields(k.patch) : f.name = g.name =>
                (f.lo <= 1 /\ 1 <= f.hi) \/ \E h \in Fields(k.create) : h.name = g.name
  BY DEF Matching
<1>1. Checks(k.create) \union Checks(k.patch) \subseteq k.expected
  BY <1>0 DEF Checks, Fields
<1>2. ASSUME NEW r \in k.reads, NEW i \in DOMAIN r, NEW body \in {k.create, k.patch},
             NEW j \in DOMAIN body, r[i].name = body[j].name
      PROVE  Allows(r[i], body[j])
  <2>1. r[i] \in Fields(r) /\ body[j] \in Fields(body)
    BY DEF Fields
  <2>2. body[j] \in Fields(k.create) \union Fields(k.patch)
    BY <2>1
  <2> QED BY <1>0, <1>2, <2>1, <2>2
<1>3. ASSUME NEW r \in k.reads, NEW i \in DOMAIN r, r[i].name \in Names(k.patch) \ Names(k.create)
      PROVE  r[i].lo <= 1 /\ 1 <= r[i].hi
  <2>1. PICK j \in DOMAIN k.patch : k.patch[j].name = r[i].name
    BY <1>3 DEF Names
  <2>2. ~ \E h \in Fields(k.create) : h.name = r[i].name
    BY <1>3 DEF Names, Fields
  <2>3. r[i] \in Fields(r) /\ k.patch[j] \in Fields(k.patch)
    BY DEF Fields
  <2> QED BY <1>0, <2>1, <2>2, <2>3
<1> QED BY <1>1, <1>2, <1>3 DEF Agree, Allows

(* A body that is not there has no field. *)
LEMMA NoFields == Fields(<<>>) = {}
BY DEF Fields

(* The four services share Schema's limits. *)
LEMMA Limits ==
  /\ Iam!NoCheck = NoCheck /\ Iam!NoLimit = 9999
  /\ Rooms!NoCheck = NoCheck /\ Rooms!NoLimit = 9999
  /\ Servers!NoCheck = NoCheck /\ Servers!NoLimit = 9999
  /\ Users!NoCheck = NoCheck /\ Users!NoLimit = 9999
BY DEF NoCheck, Iam!NoCheck, Rooms!NoCheck, Servers!NoCheck, Users!NoCheck,
       Iam!NoLimit, Rooms!NoLimit, Servers!NoLimit, Users!NoLimit

--------------------------------------------------------------------------------
(* The four services. *)

(* The fields of the models of Iam. *)
LEMMA IamFields ==
  /\ Fields(Iam!CheckRequest) = {Iam!Sized("User", 1, 256, Iam!NoCheck),
       Iam!Sized("Relation", 1, 64, Iam!NoCheck), Iam!Sized("Object", 1, 256, Iam!NoCheck)}
  /\ Fields(Iam!TupleRequest) = {Iam!Sized("User", 1, 256, Iam!NoCheck),
       Iam!Sized("Relation", 1, 64, Iam!NoCheck), Iam!Sized("Object", 1, 256, Iam!NoCheck)}
  /\ Fields(Iam!Tuple) = {Iam!Free("User"), Iam!Free("Relation"), Iam!Free("Object")}
BY DEF Fields, Iam!CheckRequest, Iam!TupleRequest, Iam!Tuple

(* Every kind of Iam agrees. *)
LEMMA IamKindsAgree == \A k \in Iam!IamKinds : Agree(k)
<1>1. Matching({}, Iam!CheckRequest, <<>>, {})
  BY IamFields, NoFields, Limits, SMTT(60)
     DEF Matching, Allows, Iam!Sized, Iam!Checked, Iam!Free
<1>2. Matching({}, Iam!TupleRequest, <<>>, {Iam!Tuple})
  BY IamFields, NoFields, Limits, SMTT(60)
     DEF Matching, Allows, Iam!Sized, Iam!Checked, Iam!Free
<1> QED BY <1>1, <1>2, MatchingAgree DEF Iam!IamKinds

(* The fields of the models of Rooms. *)
LEMMA RoomsFields ==
  /\ Fields(Rooms!CreateRoomRequest) = {Rooms!Name}
  /\ Fields(Rooms!Room) = {Rooms!Free("ID"), Rooms!Name, Rooms!Free("CreatedBy"),
       Rooms!Checked("CreatedAt", "app.UTCDateTime")}
BY DEF Fields, Rooms!CreateRoomRequest, Rooms!Room

(* Every kind of Rooms agrees. *)
LEMMA RoomsKindsAgree == \A k \in Rooms!RoomsKinds : Agree(k)
<1>1. Matching(Rooms!ExpectedValidatorNames, Rooms!CreateRoomRequest, <<>>, {Rooms!Room})
  BY RoomsFields, NoFields, Limits, SMTT(60)
     DEF Matching, Allows, Rooms!Sized, Rooms!Checked, Rooms!Free, Rooms!Name,
         Rooms!ExpectedValidatorNames
<1> QED BY <1>1, MatchingAgree DEF Rooms!RoomsKinds

(* The fields of the models of Servers. *)
LEMMA ServersFields ==
  /\ Fields(Servers!CreateServerRequest) = {Servers!Name(128),
       Servers!Optional(Servers!Free("IconURL"))}
  /\ Fields(Servers!UpdateServerRequest) = {Servers!Optional(Servers!Name(128)),
       Servers!Optional(Servers!Free("IconURL"))}
  /\ Fields(Servers!Server) = {Servers!Free("ID"), Servers!Name(128),
       Servers!Optional(Servers!Free("IconURL")), Servers!Free("OwnerID"), Servers!CreatedAt}
  /\ Fields(Servers!CreateChannelRequest) = {Servers!Name(64)}
  /\ Fields(Servers!UpdateChannelRequest) = {Servers!Optional(Servers!Name(64)),
       Servers!Optional(Servers!Free("Position"))}
  /\ Fields(Servers!Channel) = {Servers!Free("ID"), Servers!Name(64), Servers!Free("Type"),
       Servers!Free("Position"), Servers!Free("CreatedBy"), Servers!CreatedAt}
  /\ Fields(Servers!CreateInviteRequest) = {
       Servers!Optional(Servers!Checked("Ttl", "app.InviteTTLValue")),
       Servers!Optional(Servers!Sized("MaxUses", 1, Servers!NoLimit, Servers!NoCheck)),
       Servers!Optional(Servers!Free("TargetUserID"))}
  /\ Fields(Servers!Invite) = {Servers!Free("ID"), Servers!Free("Code"), Servers!Free("ServerID"),
       Servers!Free("CreatedBy"), Servers!Optional(Servers!Free("TargetUserID")),
       Servers!Optional(Servers!Free("MaxUses")), Servers!Free("UsesCount"),
       Servers!Optional(Servers!Checked("ExpiresAt", "app.UTCDateTime")),
       Servers!Optional(Servers!Checked("RevokedAt", "app.UTCDateTime")),
       Servers!Optional(Servers!Checked("DeclinedAt", "app.UTCDateTime")), Servers!CreatedAt}
  /\ Fields(Servers!UpdateMemberRequest) = {Servers!Free("Role")}
  /\ Fields(Servers!ServerMember) = {Servers!Free("UserID"),
       Servers!Optional(Servers!Free("Nickname")), Servers!Optional(Servers!Free("Tag")),
       Servers!Free("Role"), Servers!Checked("JoinedAt", "app.UTCDateTime")}
  /\ Fields(Servers!TransferOwnershipRequest) = {Servers!Free("UserID")}
BY DEF Fields, Servers!CreateServerRequest, Servers!UpdateServerRequest, Servers!Server,
       Servers!CreateChannelRequest, Servers!UpdateChannelRequest, Servers!Channel,
       Servers!CreateInviteRequest, Servers!Invite, Servers!UpdateMemberRequest,
       Servers!ServerMember, Servers!TransferOwnershipRequest

(* Every kind of Servers agrees. *)
LEMMA ServersKindsAgree == \A k \in Servers!ServersKinds : Agree(k)
<1>1. Matching(Servers!ExpectedValidatorNames, Servers!CreateServerRequest,
             Servers!UpdateServerRequest, {Servers!Server})
  BY ServersFields, NoFields, Limits, SMTT(60)
     DEF Matching, Allows, Servers!Sized, Servers!Checked, Servers!Free, Servers!Optional,
         Servers!Name, Servers!CreatedAt, Servers!ExpectedValidatorNames
<1>2. Matching(Servers!ExpectedValidatorNames, Servers!CreateChannelRequest,
             Servers!UpdateChannelRequest, {Servers!Channel})
  BY ServersFields, NoFields, Limits, SMTT(60)
     DEF Matching, Allows, Servers!Sized, Servers!Checked, Servers!Free, Servers!Optional,
         Servers!Name, Servers!CreatedAt, Servers!ExpectedValidatorNames
<1>3. Matching(Servers!ExpectedValidatorNames, Servers!CreateInviteRequest, <<>>,
             {Servers!Invite})
  BY ServersFields, NoFields, Limits, SMTT(60)
     DEF Matching, Allows, Servers!Sized, Servers!Checked, Servers!Free, Servers!Optional,
         Servers!Name, Servers!CreatedAt, Servers!ExpectedValidatorNames
<1>4. Matching(Servers!ExpectedValidatorNames, <<>>, Servers!UpdateMemberRequest,
             {Servers!ServerMember})
  BY ServersFields, NoFields, Limits, SMTT(60)
     DEF Matching, Allows, Servers!Sized, Servers!Checked, Servers!Free, Servers!Optional,
         Servers!Name, Servers!CreatedAt, Servers!ExpectedValidatorNames
<1>5. Matching(Servers!ExpectedValidatorNames, Servers!TransferOwnershipRequest, <<>>, {})
  BY ServersFields, NoFields, Limits, SMTT(60)
     DEF Matching, Allows, Servers!Sized, Servers!Checked, Servers!Free, Servers!Optional,
         Servers!Name, Servers!CreatedAt, Servers!ExpectedValidatorNames
<1> QED BY <1>1, <1>2, <1>3, <1>4, <1>5, MatchingAgree
       DEF Servers!ServersKinds, Servers!Servers, Servers!Channels, Servers!Invites,
           Servers!Members, Servers!Owners

(* The fields of the models of Users. *)
LEMMA UsersFields ==
  /\ Fields(Users!RegisterRequest) = {Users!Sized("Login", 3, 32, "app.LoginFormat"),
       Users!Checked("Email", "app.EmailFormat"), Users!Sized("Password", 8, 128, Users!NoCheck),
       Users!Nickname}
  /\ Fields(Users!UpdateUserRequest) = {Users!Optional(Users!Nickname),
       Users!Optional(Users!Sized("Login", 3, 32, "app.LoginFormat"))}
  /\ Fields(Users!User) = {Users!ID, Users!Sized("Login", 3, 32, "app.LoginFormat"),
       Users!Checked("Email", "app.EmailFormat"), Users!Nickname, Users!Tag,
       Users!Checked("Status", "app.UserStatusValue"), Users!Free("EmailVerified"),
       Users!Checked("CreatedAt", "app.UTCDateTime"),
       Users!Checked("UpdatedAt", "app.UTCDateTime")}
  /\ Fields(Users!UserRef) = {Users!ID, Users!Nickname, Users!Tag}
  /\ Fields(Users!LoginRequest) = {Users!Sized("IDentifier", 3, 320, "app.IdentifierFormat"),
       Users!Sized("Password", 8, 128, Users!NoCheck)}
  /\ Fields(Users!RefreshRequest) =
       {Users!Optional(Users!Sized("RefreshToken", 1, Users!NoLimit, Users!NoCheck))}
  /\ Fields(Users!LogoutRequest) =
       {Users!Optional(Users!Sized("RefreshToken", 1, Users!NoLimit, Users!NoCheck))}
  /\ Fields(Users!EmailConfirmRequest) = {Users!Sized("Token", 43, 43, Users!NoCheck)}
  /\ Fields(Users!EmailResendRequest) = {Users!Checked("Email", "app.EmailFormat")}
  /\ Fields(Users!SendFriendRequest) = {Users!Tag}
BY DEF Fields, Users!RegisterRequest, Users!UpdateUserRequest, Users!User, Users!UserRef,
       Users!LoginRequest, Users!RefreshRequest, Users!LogoutRequest, Users!EmailConfirmRequest,
       Users!EmailResendRequest, Users!SendFriendRequest

(* Every kind of Users agrees. *)
LEMMA UsersKindsAgree == \A k \in Users!UsersKinds : Agree(k)
<1>1. Matching(Users!ExpectedValidatorNames, Users!RegisterRequest, Users!UpdateUserRequest,
             {Users!User, Users!UserRef})
  BY UsersFields, NoFields, Limits, SMTT(60)
     DEF Matching, Allows, Users!Sized, Users!Checked, Users!Free, Users!Optional, Users!Nickname,
         Users!Tag, Users!ID, Users!ExpectedValidatorNames
<1>2. Matching(Users!ExpectedValidatorNames, Users!LoginRequest, <<>>, {})
  BY UsersFields, NoFields, Limits, SMTT(60)
     DEF Matching, Allows, Users!Sized, Users!Checked, Users!Free, Users!Optional, Users!Nickname,
         Users!Tag, Users!ID, Users!ExpectedValidatorNames
<1>3. Matching(Users!ExpectedValidatorNames, Users!RefreshRequest, <<>>, {})
  BY UsersFields, NoFields, Limits, SMTT(60)
     DEF Matching, Allows, Users!Sized, Users!Checked, Users!Free, Users!Optional, Users!Nickname,
         Users!Tag, Users!ID, Users!ExpectedValidatorNames
<1>4. Matching(Users!ExpectedValidatorNames, Users!LogoutRequest, <<>>, {})
  BY UsersFields, NoFields, Limits, SMTT(60)
     DEF Matching, Allows, Users!Sized, Users!Checked, Users!Free, Users!Optional, Users!Nickname,
         Users!Tag, Users!ID, Users!ExpectedValidatorNames
<1>5. Matching(Users!ExpectedValidatorNames, Users!EmailConfirmRequest, <<>>, {})
  BY UsersFields, NoFields, Limits, SMTT(60)
     DEF Matching, Allows, Users!Sized, Users!Checked, Users!Free, Users!Optional, Users!Nickname,
         Users!Tag, Users!ID, Users!ExpectedValidatorNames
<1>6. Matching(Users!ExpectedValidatorNames, Users!EmailResendRequest, <<>>, {})
  BY UsersFields, NoFields, Limits, SMTT(60)
     DEF Matching, Allows, Users!Sized, Users!Checked, Users!Free, Users!Optional, Users!Nickname,
         Users!Tag, Users!ID, Users!ExpectedValidatorNames
<1>7. Matching(Users!ExpectedValidatorNames, Users!SendFriendRequest, <<>>, {})
  BY UsersFields, NoFields, Limits, SMTT(60)
     DEF Matching, Allows, Users!Sized, Users!Checked, Users!Free, Users!Optional, Users!Nickname,
         Users!Tag, Users!ID, Users!ExpectedValidatorNames
<1> QED BY <1>1, <1>2, <1>3, <1>4, <1>5, <1>6, <1>7, MatchingAgree DEF Users!UsersKinds

--------------------------------------------------------------------------------
(* All of them together. *)

(* What the other theorems ask of the models holds of these. *)
THEOREM KindsOfAll ==
  ASSUME Kinds = MCKinds
  PROVE  KindsAgree
BY IamKindsAgree, RoomsKindsAgree, ServersKindsAgree, UsersKindsAgree, Zenon DEF KindsAgree, MCKinds

(* The invariant the runs check: the models of each resource agree.        *)
THEOREM ModelsAgreeThm ==
  ASSUME Kinds = MCKinds
  PROVE  Spec => []ModelsAgree
<1>1. KInv => ModelsAgree
  BY KindsOfAll DEF KInv, TypeOK, KindsAgree, ModelsAgree
<1> QED BY <1>1, KInvariance, PTL

(* So in each of the four services no request fails for a validator, and   *)
(* what was accepted can be read back.                                     *)
THEOREM BodiesOfAll ==
  ASSUME Kinds = MCKinds
  PROVE  Spec => [](NoUnregisteredValidator /\ ReadModelHolds)
<1>1. KindsAgree
  BY KindsOfAll
<1>2. Spec => []NoUnregisteredValidator
  BY <1>1, NoUnregisteredValidatorThm
<1>3. Spec => []ReadModelHolds
  BY <1>1, ReadModelHoldsThm
<1> QED BY <1>2, <1>3, PTL

================================================================================
