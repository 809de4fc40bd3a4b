--------------------------- MODULE MCJwksVerifier ---------------------------
(* Instances of JwksVerifier for TLC. *)
EXTENDS JwksVerifier, TLC

(* Good tokens of every key and of another method, a good signature with   *)
(* bad claims.                                                             *)
MCTokens == [signer : 0..MaxKey, claimsOk : {TRUE}] \union {[signer |-> 1, claimsOk |-> FALSE]}

(* Fewer tokens, for the liveness run. *)
MCGoodTokens == [signer : {1}, claimsOk : {TRUE}]

CallerSymmetry == Permutations(Callers)
CloserSymmetry == Permutations(Closers)
==============================================================================
