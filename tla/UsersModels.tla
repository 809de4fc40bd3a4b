------------------------------ MODULE UsersModels ------------------------------
(* The models of Users that a request body or a stored profile goes through. *)
EXTENDS Schema

ExpectedValidatorNames ==
  {"app.EmailFormat", "app.IPAddress", "app.IdentifierFormat", "app.LoginFormat", "app.NoControlChars",
   "app.TagFormat", "app.UTCDateTime", "app.UUIDv7", "app.UserStatusValue"}

Nickname == Sized("Nickname", 1, 32, "app.NoControlChars")
Tag == Sized("Tag", 7, 7, "app.TagFormat")
ID == Checked("ID", "app.UUIDv7")

RegisterRequest ==
  <<Sized("Login", 3, 32, "app.LoginFormat"), Checked("Email", "app.EmailFormat"),
    Sized("Password", 8, 128, NoCheck), Nickname>>

LoginRequest ==
  <<Sized("IDentifier", 3, 320, "app.IdentifierFormat"), Sized("Password", 8, 128, NoCheck)>>

RefreshRequest == <<Optional(Sized("RefreshToken", 1, NoLimit, NoCheck))>>
LogoutRequest == <<Optional(Sized("RefreshToken", 1, NoLimit, NoCheck))>>
EmailConfirmRequest == <<Sized("Token", 43, 43, NoCheck)>>
EmailResendRequest == <<Checked("Email", "app.EmailFormat")>>
SendFriendRequest == <<Tag>>

UpdateUserRequestLonger ==    \* mutant: a new nickname may be longer than the profile's
  <<Optional(Sized("Nickname", 1, 64, "app.NoControlChars")),
    Optional(Sized("Login", 3, 32, "app.LoginFormat"))>>

UpdateUserRequest ==
  <<Optional(Nickname), Optional(Sized("Login", 3, 32, "app.LoginFormat"))>>

User ==
  <<ID, Sized("Login", 3, 32, "app.LoginFormat"), Checked("Email", "app.EmailFormat"), Nickname, Tag,
    Checked("Status", "app.UserStatusValue"), Free("EmailVerified"),
    Checked("CreatedAt", "app.UTCDateTime"), Checked("UpdatedAt", "app.UTCDateTime")>>

UserRef == <<ID, Nickname, Tag>>

(* What is posted, what changes it, and the models it is read through. *)
UsersKinds ==
  {[expected |-> ExpectedValidatorNames, create |-> RegisterRequest,
    patch |-> UpdateUserRequest, reads |-> {User, UserRef}]}
  \union [expected : {ExpectedValidatorNames}, patch : {<<>>}, reads : {{}},
          create : {LoginRequest, RefreshRequest, LogoutRequest, EmailConfirmRequest,
                    EmailResendRequest, SendFriendRequest}]
===============================================================================
