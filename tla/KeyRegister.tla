------------------------------ MODULE KeyRegister ------------------------------
(***************************************************************************)
(* What a Verifier of pkg/auth promises its callers, with no HTTP, no      *)
(* retry, no lock and no goroutine: a register that holds the verification *)
(* key.  Users publishes keys one after another; the register only moves   *)
(* to keys that were published, and never backwards; every Verify decides  *)
(* on ONE value the register had between the call and its return.          *)
(***************************************************************************)
EXTENDS Naturals

CONSTANTS
  Callers,   \* goroutines that call Verify
  MaxKey,    \* bound: Users publishes keys 1..MaxKey
  Tokens     \* the tokens presented: [signer, claimsOk]

NoKey == 0   \* the nil *ecdsa.PublicKey

(* A token signed by key k, or by no ECDSA key at all (signer = NoKey);    *)
(* claimsOk: issuer, audience and time claims pass.                        *)
TokenType == [signer : 0..MaxKey, claimsOk : BOOLEAN]

VARIABLES
  published, \* the key Users serves as the first of its JWKS
  reg,       \* the key the verifier holds
  phase,     \* per caller: "idle", "asked", "looked", "accepted", "rejected"
  tok,       \* per caller: the token of its call
  floor,     \* per caller: reg when the call began
  seen       \* per caller: the value of reg the call decides on

vars == <<published, reg, phase, tok, floor, seen>>

NoToken == [signer |-> NoKey, claimsOk |-> FALSE]

Init ==
  /\ published = 1
  /\ reg \in {NoKey, 1}
  /\ phase = [c \in Callers |-> "idle"]
  /\ tok = [c \in Callers |-> NoToken]
  /\ floor = [c \in Callers |-> NoKey]
  /\ seen = [c \in Callers |-> NoKey]

Publish ==
  /\ published < MaxKey
  /\ published' = published + 1
  /\ UNCHANGED <<reg, phase, tok, floor, seen>>

Install ==
  /\ \E k \in 1..published : reg <= k /\ reg' = k
  /\ UNCHANGED <<published, phase, tok, floor, seen>>

Ask(c) ==
  /\ phase[c] = "idle"
  /\ reg # NoKey
  /\ phase' = [phase EXCEPT ![c] = "asked"]
  /\ \E t \in Tokens : tok' = [tok EXCEPT ![c] = t]
  /\ floor' = [floor EXCEPT ![c] = reg]
  /\ UNCHANGED <<published, reg, seen>>

(* A token of another signing method is refused without a look at the key. *)
Refuse(c) ==
  /\ phase[c] = "asked"
  /\ tok[c].signer = NoKey
  /\ phase' = [phase EXCEPT ![c] = "rejected"]
  /\ UNCHANGED <<published, reg, tok, floor, seen>>

Look(c) ==
  /\ phase[c] = "asked"
  /\ tok[c].signer # NoKey
  /\ phase' = [phase EXCEPT ![c] = "looked"]
  /\ seen' = [seen EXCEPT ![c] = reg]
  /\ UNCHANGED <<published, reg, tok, floor>>

Decide(c) ==
  /\ phase[c] = "looked"
  /\ phase' = [phase EXCEPT ![c] = IF tok[c].signer = seen[c] /\ tok[c].claimsOk
                                   THEN "accepted" ELSE "rejected"]
  /\ UNCHANGED <<published, reg, tok, floor, seen>>

Return(c) ==
  /\ phase[c] \in {"accepted", "rejected"}
  /\ phase' = [phase EXCEPT ![c] = "idle"]
  /\ tok' = [tok EXCEPT ![c] = NoToken]
  /\ floor' = [floor EXCEPT ![c] = NoKey]
  /\ seen' = [seen EXCEPT ![c] = NoKey]
  /\ UNCHANGED <<published, reg>>

Next ==
  \/ Publish
  \/ Install
  \/ \E c \in Callers : Ask(c) \/ Refuse(c) \/ Look(c) \/ Decide(c) \/ Return(c)

Spec == Init /\ [][Next]_vars
================================================================================
