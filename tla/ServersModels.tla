----------------------------- MODULE ServersModels -----------------------------
(* The models of Servers that a request body or what is made of it goes through. *)
EXTENDS Schema

ExpectedValidatorNames == {"app.InviteTTLValue", "app.UTCDateTime"}

Name(longest) == Sized("Name", 1, longest, NoCheck)
CreatedAt == Checked("CreatedAt", "app.UTCDateTime")

CreateServerRequest == <<Name(128), Optional(Free("IconURL"))>>
UpdateServerRequest == <<Optional(Name(128)), Optional(Free("IconURL"))>>
Server == <<Free("ID"), Name(128), Optional(Free("IconURL")), Free("OwnerID"), CreatedAt>>

CreateChannelRequest == <<Name(64)>>
UpdateChannelRequest == <<Optional(Name(64)), Optional(Free("Position"))>>
Channel == <<Free("ID"), Name(64), Free("Type"), Free("Position"), Free("CreatedBy"), CreatedAt>>

CreateInviteRequestRenamed ==  \* mutant: the validator is renamed in the model only
  <<Optional(Checked("Ttl", "app.InviteTTL")), Optional(Sized("MaxUses", 1, NoLimit, NoCheck)),
    Optional(Free("TargetUserID"))>>

CreateInviteRequest ==
  <<Optional(Checked("Ttl", "app.InviteTTLValue")), Optional(Sized("MaxUses", 1, NoLimit, NoCheck)),
    Optional(Free("TargetUserID"))>>

Invite ==
  <<Free("ID"), Free("Code"), Free("ServerID"), Free("CreatedBy"), Optional(Free("TargetUserID")),
    Optional(Free("MaxUses")), Free("UsesCount"), Optional(Checked("ExpiresAt", "app.UTCDateTime")),
    Optional(Checked("RevokedAt", "app.UTCDateTime")), Optional(Checked("DeclinedAt", "app.UTCDateTime")),
    CreatedAt>>

UpdateMemberRequest == <<Free("Role")>>

ServerMember ==
  <<Free("UserID"), Optional(Free("Nickname")), Optional(Free("Tag")), Free("Role"),
    Checked("JoinedAt", "app.UTCDateTime")>>

TransferOwnershipRequest == <<Free("UserID")>>

Servers == [expected |-> ExpectedValidatorNames, create |-> CreateServerRequest,
            patch |-> UpdateServerRequest, reads |-> {Server}]
Channels == [expected |-> ExpectedValidatorNames, create |-> CreateChannelRequest,
             patch |-> UpdateChannelRequest, reads |-> {Channel}]
Invites == [expected |-> ExpectedValidatorNames, create |-> CreateInviteRequest,
            patch |-> <<>>, reads |-> {Invite}]
Members == [expected |-> ExpectedValidatorNames, create |-> <<>>,
            patch |-> UpdateMemberRequest, reads |-> {ServerMember}]
Owners == [expected |-> ExpectedValidatorNames, create |-> TransferOwnershipRequest,
           patch |-> <<>>, reads |-> {}]

ServersKinds == {Servers, Channels, Invites, Members, Owners}
===============================================================================
