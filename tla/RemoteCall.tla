------------------------------ MODULE RemoteCall ------------------------------
(***************************************************************************)
(* What a caller of a generated client may rely on, whatever happens on    *)
(* the way.  The service refuses a request or performs it, once; an answer *)
(* is one the service came to, the lowest of those it offers; an error     *)
(* says nothing, and the service may still perform what was asked.         *)
(***************************************************************************)
EXTENDS Naturals

VARIABLES
  admitted,  \* whether the request may be performed at all
  outcome,   \* what the service came to: [performed, offers]
  told       \* <<>>, or what the caller was told: <<status>> or <<Lost>>

vars == <<admitted, outcome, told>>

Undecided == [performed |-> FALSE, offers |-> {}]
Refusals == {400, 401, 404}
Lost == 0

Init == admitted \in BOOLEAN /\ outcome = Undecided /\ told = <<>>

(* Refused on the way: it has not been performed and never will be. *)
Refuse ==
  /\ outcome = Undecided
  /\ outcome' \in [performed : {FALSE}, offers : {{s} : s \in Refusals}]
  /\ UNCHANGED <<admitted, told>>

(* The service may come to several answers, or to none. *)
Perform ==
  /\ outcome = Undecided /\ admitted
  /\ outcome' \in [performed : {TRUE}, offers : SUBSET Nat]
  /\ UNCHANGED <<admitted, told>>

Hear ==
  /\ told = <<>>
  /\ \E s \in outcome.offers : (\A t \in outcome.offers : s <= t) /\ told' = <<s>>
  /\ UNCHANGED <<admitted, outcome>>

Lose ==
  /\ told = <<>>
  /\ told' = <<Lost>>
  /\ UNCHANGED <<admitted, outcome>>

Next == Refuse \/ Perform \/ Hear \/ Lose

Spec == Init /\ [][Next]_vars

(* The caller is not left waiting. *)
FairSpec == Spec /\ WF_vars(Hear \/ Lose)
===============================================================================
