------------------------------ MODULE RoomsModels ------------------------------
(* The models of Rooms that a request body or a room goes through. *)
EXTENDS Schema

ExpectedValidatorNames == {"app.UTCDateTime"}

Name == Sized("Name", 1, 128, NoCheck)

CreateRoomRequest == <<Name>>
Room == <<Free("ID"), Name, Free("CreatedBy"), Checked("CreatedAt", "app.UTCDateTime")>>

RoomsKinds ==
  {[expected |-> ExpectedValidatorNames, create |-> CreateRoomRequest, patch |-> <<>>, reads |-> {Room}]}
===============================================================================
