------------------------- MODULE JwksVerifierProofs -------------------------
(* Theorems about JwksVerifier, for any callers, closers, tokens and bound on the keys. *)
EXTENDS JwksVerifier, TLAPS

USE KeyAssumption DEF NoKey, Attempts, Fetchers

--------------------------------------------------------------------------------
(* Type correctness. *)

(* The token of an idle caller is a token. *)
LEMMA NoTokenType == NoToken \in TokenType
BY DEF NoToken, TokenType

(* The initial states are well typed. *)
LEMMA TypeInit == Init => TypeOK
<1> SUFFICES ASSUME Init PROVE TypeOK
  OBVIOUS
<1>1. key \in 0..MaxKey /\ published \in 1..MaxKey
  BY DEF Init, InitNewVerifier, InitFromKey
<1>2. tok \in [Callers -> TokenType]
  BY NoTokenType DEF Init
<1>3. got \in [Fetchers -> 0..MaxKey] /\ seen \in [Callers -> 0..MaxKey]
      /\ floor \in [Callers -> 0..MaxKey]
  BY DEF Init
<1>4. pcNew \in {"fetch", "returned"} /\ stopCh \in {"open", "nil"}
  BY DEF Init, InitNewVerifier, InitFromKey
<1>5. i \in 0..(Attempts - 1)
  BY DEF Init
<1>6. /\ ctxDone \in BOOLEAN /\ tick \in BOOLEAN
      /\ readers \subseteq Callers /\ waiting \subseteq Callers
      /\ writer = "none" /\ closeOnce = "fresh" /\ pcLoop = "off"
  BY DEF Init
<1>7. /\ pcClose = [c \in Closers |-> "idle"]
      /\ pcCall = [c \in Callers |-> "idle"]
  BY DEF Init
<1> QED BY <1>1, <1>2, <1>3, <1>4, <1>5, <1>6, <1>7 DEF TypeOK

(* Every step keeps the types. *)
LEMMA TypeStep == TypeOK /\ StartInv /\ [Next]_vars => TypeOK'
<1> SUFFICES ASSUME TypeOK, StartInv, [Next]_vars PROVE TypeOK'
  OBVIOUS
<1> USE DEF TypeOK, newVars, loopVars, muVars, closeVars, callVars
<1>1. CASE Rotate
  BY <1>1 DEF Rotate
<1>2. CASE CancelCtx
  BY <1>2 DEF CancelCtx
<1>3. CASE AnswerNew
  BY <1>3 DEF AnswerNew, Answer
<1>4. CASE AnswerLoop
  BY <1>4 DEF AnswerLoop, Answer
<1>5. CASE NewFetchOK
  BY <1>5 DEF NewFetchOK
<1>6. CASE NewFetchErr
  BY <1>6 DEF NewFetchErr
<1>7. CASE NewRetry
  <2>1. i' \in 0..(Attempts - 1)
    BY <1>7 DEF NewRetry, StartInv
  <2> QED BY <1>7, <2>1 DEF NewRetry
<1>8. CASE NewCancelled
  BY <1>8 DEF NewCancelled
<1>9. CASE NewStore
  BY <1>9 DEF NewStore
<1>10. CASE NewGo
  BY <1>10 DEF NewGo
<1>11. CASE TickerFires
  BY <1>11 DEF TickerFires
<1>12. CASE LoopTick
  BY <1>12 DEF LoopTick
<1>13. CASE LoopStop
  BY <1>13 DEF LoopStop
<1>14. CASE LoopFetchOK
  BY <1>14 DEF LoopFetchOK
<1>15. CASE LoopFetchErr
  BY <1>15 DEF LoopFetchErr
<1>16. CASE LoopAnnounce
  BY <1>16 DEF LoopAnnounce
<1>17. CASE LoopLocked
  BY <1>17 DEF LoopLocked
<1>18. CASE LoopStore
  BY <1>18 DEF LoopStore
<1>19. CASE LoopUnlock
  BY <1>19 DEF LoopUnlock
<1>20. ASSUME NEW c \in Callers, VerifyCall(c) PROVE TypeOK'
  <2>1. tok' \in [Callers -> TokenType]
    BY <1>20, TokenAssumption DEF VerifyCall
  <2> QED BY <1>20, <2>1 DEF VerifyCall
<1>21. ASSUME NEW c \in Callers, VerifyParse(c) PROVE TypeOK'
  BY <1>21 DEF VerifyParse
<1>22. ASSUME NEW c \in Callers, GetKeyRLock(c) PROVE TypeOK'
  BY <1>22 DEF GetKeyRLock
<1>23. ASSUME NEW c \in Callers, GetKeyRead(c) PROVE TypeOK'
  BY <1>23 DEF GetKeyRead
<1>24. ASSUME NEW c \in Callers, GetKeyRUnlock(c) PROVE TypeOK'
  BY <1>24 DEF GetKeyRUnlock
<1>25. ASSUME NEW c \in Callers, VerifyDecide(c) PROVE TypeOK'
  BY <1>25 DEF VerifyDecide
<1>26. ASSUME NEW c \in Callers, VerifyReturn(c) PROVE TypeOK'
  BY <1>26, NoTokenType DEF VerifyReturn
<1>27. ASSUME NEW c \in Closers, CloseCall(c) \/ CloseSteps(c) PROVE TypeOK'
  BY <1>27 DEF CloseCall, CloseSteps, OnceSkip, OnceEnter, CloseChan, OnceExit
<1>28. CASE UNCHANGED vars
  BY <1>28 DEF vars
<1> QED
  BY <1>1, <1>2, <1>3, <1>4, <1>5, <1>6, <1>7, <1>8, <1>9, <1>10, <1>11, <1>12, <1>13,
     <1>14, <1>15, <1>16, <1>17, <1>18, <1>19, <1>20, <1>21, <1>22, <1>23, <1>24, <1>25,
     <1>26, <1>27, <1>28
  DEF Next, NewVerifier, refreshLoop, VerifySteps, Finished

--------------------------------------------------------------------------------
(* The lock. *)

(* Every step keeps the lock's bookkeeping. *)
LEMMA LockStep == TypeOK /\ StartInv /\ LockInv /\ [Next]_vars => LockInv'
<1> SUFFICES ASSUME TypeOK, StartInv, LockInv, [Next]_vars PROVE LockInv'
  OBVIOUS
<1> USE DEF LockInv, InLock, InGetKey, muVars
<1>1. CASE UNCHANGED <<pcLoop, muVars, pcCall>>
  BY <1>1
<1>2. CASE NewGo
  BY <1>2 DEF NewGo, StartInv, callVars
<1>3. CASE LoopTick \/ LoopStop \/ LoopFetchOK \/ LoopFetchErr
  BY <1>3 DEF LoopTick, LoopStop, LoopFetchOK, LoopFetchErr, callVars
<1>4. CASE LoopAnnounce
  BY <1>4 DEF LoopAnnounce, callVars
<1>5. CASE LoopLocked
  BY <1>5 DEF LoopLocked, callVars
<1>6. CASE LoopStore
  BY <1>6 DEF LoopStore, callVars
<1>7. CASE LoopUnlock
  <2>1. readers = {}
    BY <1>7 DEF LoopUnlock
  <2>2. readers' = {c \in Callers : pcCall'[c] \in {"read", "runlock"}}
    BY <1>7, <2>1 DEF LoopUnlock, TypeOK
  <2>3. waiting' = {c \in Callers : pcCall'[c] = "parked"}
    BY <1>7, <2>1 DEF LoopUnlock, TypeOK
  <2> QED BY <1>7, <2>2, <2>3 DEF LoopUnlock
<1>8. ASSUME NEW c \in Callers,
             VerifyCall(c) \/ VerifyParse(c) \/ GetKeyRead(c) \/ VerifyDecide(c) \/ VerifyReturn(c)
      PROVE LockInv'
  <2>1. UNCHANGED <<pcLoop, muVars>>
    BY <1>8 DEF VerifyCall, VerifyParse, GetKeyRead, VerifyDecide, VerifyReturn, loopVars
  <2>2. \A d \in Callers : /\ pcCall'[d] \in InGetKey <=> pcCall[d] \in InGetKey
                           /\ pcCall'[d] = "parked" <=> pcCall[d] = "parked"
    BY <1>8 DEF VerifyCall, VerifyParse, GetKeyRead, VerifyDecide, VerifyReturn, TypeOK
  <2> QED BY <2>1, <2>2
<1>9. ASSUME NEW c \in Callers, GetKeyRLock(c) PROVE LockInv'
  <2>1. readers' = {d \in Callers : pcCall'[d] \in {"read", "runlock"}}
    BY <1>9 DEF GetKeyRLock, TypeOK
  <2>2. waiting' = {d \in Callers : pcCall'[d] = "parked"}
    BY <1>9 DEF GetKeyRLock, TypeOK
  <2> QED BY <1>9, <2>1, <2>2 DEF GetKeyRLock, loopVars, TypeOK
<1>10. ASSUME NEW c \in Callers, GetKeyRUnlock(c) PROVE LockInv'
  <2>1. readers' = {d \in Callers : pcCall'[d] \in {"read", "runlock"}}
    BY <1>10 DEF GetKeyRUnlock, TypeOK
  <2>2. waiting' = {d \in Callers : pcCall'[d] = "parked"}
    BY <1>10 DEF GetKeyRUnlock, TypeOK
  <2> QED BY <1>10, <2>1, <2>2 DEF GetKeyRUnlock, loopVars, TypeOK
<1>11. ASSUME NEW c \in Closers, CloseCall(c) \/ CloseSteps(c)
       PROVE UNCHANGED <<pcLoop, muVars, pcCall>>
  BY <1>11 DEF CloseCall, CloseSteps, OnceSkip, OnceEnter, CloseChan, OnceExit,
               loopVars, callVars
<1>12. ASSUME \/ Rotate \/ CancelCtx \/ AnswerNew \/ AnswerLoop \/ TickerFires \/ UNCHANGED vars
              \/ NewFetchOK \/ NewFetchErr \/ NewRetry \/ NewCancelled \/ NewStore
       PROVE UNCHANGED <<pcLoop, muVars, pcCall>>
  BY <1>12 DEF Rotate, CancelCtx, AnswerNew, AnswerLoop, Answer, TickerFires, NewFetchOK,
       NewFetchErr, NewRetry, NewCancelled, NewStore, loopVars, callVars, vars
<1> QED
  BY <1>1, <1>2, <1>3, <1>4, <1>5, <1>6, <1>7, <1>8, <1>9, <1>10, <1>11, <1>12
  DEF Next, NewVerifier, refreshLoop, VerifySteps, Finished

--------------------------------------------------------------------------------
(* Construction. *)

(* Every step keeps what holds until NewVerifier returns. *)
LEMMA StartStep == TypeOK /\ StartInv /\ KeyInv /\ [Next]_vars => StartInv'
<1> SUFFICES ASSUME TypeOK, StartInv, KeyInv, [Next]_vars PROVE StartInv'
  OBVIOUS
<1> USE DEF StartInv
<1>1. CASE UNCHANGED <<ctxDone, pcNew, i, pcLoop, got, key, pcCall, pcClose>>
  BY <1>1
<1>2. CASE CancelCtx
  BY <1>2 DEF CancelCtx, loopVars, callVars, closeVars
<1>3. CASE AnswerNew \/ AnswerLoop
  BY <1>3 DEF AnswerNew, AnswerLoop, Answer, newVars, loopVars, callVars, closeVars, TypeOK
<1>4. CASE NewFetchOK \/ NewFetchErr \/ NewCancelled
  BY <1>4 DEF NewFetchOK, NewFetchErr, NewCancelled, loopVars, callVars, closeVars, TypeOK
<1>5. CASE NewRetry
  BY <1>5 DEF NewRetry, loopVars, callVars, closeVars, TypeOK
<1>6. CASE NewStore
  BY <1>6 DEF NewStore, loopVars, callVars, closeVars, TypeOK
<1>7. CASE NewGo
  BY <1>7 DEF NewGo, callVars, closeVars, TypeOK
<1>8. CASE refreshLoop \/ TickerFires
  <2>1. pcNew = "returned" /\ pcNew' = "returned"
    BY <1>8 DEF refreshLoop, TickerFires, LoopTick, LoopStop, LoopFetchOK, LoopFetchErr,
         LoopAnnounce, LoopLocked, LoopStore, LoopUnlock, newVars
  <2>2. key' # NoKey
    <3>1. CASE LoopStore
      BY <3>1, <2>1 DEF LoopStore, KeyInv, TypeOK, InLock
    <3>2. CASE ~LoopStore
      BY <3>2, <2>1, <1>8 DEF refreshLoop, TickerFires, LoopTick, LoopStop, LoopFetchOK,
           LoopFetchErr, LoopAnnounce, LoopLocked, LoopUnlock
    <3> QED BY <3>1, <3>2
  <2> QED BY <2>1, <2>2
<1>9. ASSUME NEW c \in Callers, VerifyCall(c) \/ VerifySteps(c) PROVE StartInv'
  <2>1. pcNew = "returned"
    BY <1>9 DEF VerifyCall, VerifySteps, VerifyParse, GetKeyRLock, GetKeyRead, GetKeyRUnlock,
         VerifyDecide, VerifyReturn
  <2>2. UNCHANGED <<newVars, key>>
    BY <1>9 DEF VerifyCall, VerifySteps, VerifyParse, GetKeyRLock, GetKeyRead, GetKeyRUnlock,
         VerifyDecide, VerifyReturn
  <2> QED BY <2>1, <2>2 DEF newVars
<1>10. ASSUME NEW c \in Closers, CloseCall(c) \/ CloseSteps(c) PROVE StartInv'
  <2>1. pcNew = "returned"
    BY <1>10 DEF CloseCall, CloseSteps, OnceSkip, OnceEnter, CloseChan, OnceExit
  <2>2. UNCHANGED <<newVars, key>>
    BY <1>10 DEF CloseCall, CloseSteps, OnceSkip, OnceEnter, CloseChan, OnceExit
  <2> QED BY <2>1, <2>2 DEF newVars
<1>11. CASE Rotate \/ UNCHANGED vars
  BY <1>11, <1>1 DEF Rotate, vars, newVars, loopVars, callVars, closeVars
<1> QED
  BY <1>2, <1>3, <1>4, <1>5, <1>6, <1>7, <1>8, <1>9, <1>10, <1>11
  DEF Next, NewVerifier, Finished

--------------------------------------------------------------------------------
(* The key. *)

(* Every step keeps the fetched keys in order, and v.key never goes back. *)
LEMMA KeyStep ==
  TypeOK /\ StartInv /\ KeyInv /\ [Next]_vars => KeyInv' /\ key <= key'
<1> SUFFICES ASSUME TypeOK, StartInv, KeyInv, [Next]_vars PROVE KeyInv' /\ key <= key'
  OBVIOUS
<1> USE DEF KeyInv, InLock, TypeOK
<1>1. CASE UNCHANGED <<published, pcLoop, got, key>>
  BY <1>1
<1>2. CASE Rotate
  BY <1>2 DEF Rotate, loopVars
<1>3. CASE AnswerNew
  BY <1>3 DEF AnswerNew, Answer, loopVars
<1>4. CASE AnswerLoop
  BY <1>4 DEF AnswerLoop, Answer, loopVars
<1>5. CASE NewFetchErr
  BY <1>5 DEF NewFetchErr, loopVars
<1>6. CASE NewStore
  BY <1>6 DEF NewStore, loopVars, StartInv
<1>7. CASE NewGo
  BY <1>7 DEF NewGo, StartInv
<1>8. CASE LoopTick \/ LoopStop \/ LoopFetchOK \/ LoopAnnounce \/ LoopLocked
  BY <1>8 DEF LoopTick, LoopStop, LoopFetchOK, LoopAnnounce, LoopLocked
<1>9. CASE LoopFetchErr
  BY <1>9 DEF LoopFetchErr
<1>10. CASE LoopStore
  BY <1>10 DEF LoopStore
<1>11. CASE LoopUnlock
  BY <1>11 DEF LoopUnlock
<1>12. ASSUME \/ \E c \in Callers : VerifyCall(c) \/ VerifySteps(c)
              \/ \E c \in Closers : CloseCall(c) \/ CloseSteps(c)
       PROVE UNCHANGED <<published, pcLoop, got, key>>
  BY <1>12 DEF VerifyCall, VerifySteps, VerifyParse, GetKeyRLock, GetKeyRead, GetKeyRUnlock,
       VerifyDecide, VerifyReturn, CloseCall, CloseSteps, OnceSkip, OnceEnter, CloseChan,
       OnceExit, loopVars
<1>13. ASSUME CancelCtx \/ NewFetchOK \/ NewRetry \/ NewCancelled \/ TickerFires \/ UNCHANGED vars
       PROVE UNCHANGED <<published, pcLoop, got, key>>
  BY <1>13 DEF CancelCtx, NewFetchOK, NewRetry, NewCancelled, TickerFires, loopVars, vars
<1> QED
  BY <1>1, <1>2, <1>3, <1>4, <1>5, <1>6, <1>7, <1>8, <1>9, <1>10, <1>11, <1>12, <1>13
  DEF Next, NewVerifier, refreshLoop, Finished

--------------------------------------------------------------------------------
(* The calls of Verify. *)

(* The part of CallInv about one caller. *)
CallOK(c) ==
  /\ floor[c] <= key
  /\ pcCall[c] # "idle" => floor[c] # NoKey
  /\ pcCall[c] \in {"rlock", "parked", "read", "runlock", "decide"} => tok[c].signer # NoKey
  /\ pcCall[c] \in {"runlock", "decide", "accepted"} => floor[c] <= seen[c] /\ seen[c] <= key
  /\ pcCall[c] = "accepted" => tok[c].signer = seen[c] /\ tok[c].claimsOk
  /\ (pcCall[c] = "rejected" /\ tok[c].claimsOk /\ tok[c].signer = floor[c]) => floor[c] < key

(* A step that only moves the key forward, and no caller, keeps CallInv. *)
LEMMA CallFrame ==
  ASSUME TypeOK, TypeOK', CallInv, key <= key', UNCHANGED callVars
  PROVE  CallInv'
<1> SUFFICES ASSUME NEW c \in Callers PROVE CallOK(c)'
  BY DEF CallInv, CallOK
<1>1. CallOK(c)
  BY DEF CallInv, CallOK
<1>2. floor[c] \in Nat /\ seen[c] \in Nat /\ key \in Nat /\ key' \in Nat
  BY DEF TypeOK
<1> QED BY <1>1, <1>2 DEF CallOK, callVars

(* A step of caller c keeps CallInv when it keeps c's part and the key. *)
LEMMA CallOther ==
  ASSUME NEW c \in Callers, CallInv, key' = key, CallOK(c)',
         \A d \in Callers \ {c} : /\ pcCall'[d] = pcCall[d] /\ tok'[d] = tok[d]
                                  /\ seen'[d] = seen[d] /\ floor'[d] = floor[d]
  PROVE  CallInv'
BY DEF CallInv, CallOK

(* Every step keeps what a Verify under way knows. *)
LEMMA CallStep ==
  TypeOK /\ TypeOK' /\ LockInv /\ StartInv /\ KeyInv /\ CallInv /\ [Next]_vars => CallInv'
<1> SUFFICES ASSUME TypeOK, TypeOK', LockInv, StartInv, KeyInv, CallInv, [Next]_vars
             PROVE  CallInv'
  OBVIOUS
<1> key <= key'
  BY KeyStep
<1>1. CASE UNCHANGED callVars
  BY <1>1, CallFrame
<1>2. CASE LoopUnlock
  <2> SUFFICES ASSUME NEW c \in Callers PROVE CallOK(c)'
    BY DEF CallInv, CallOK
  <2>1. CallOK(c) /\ key' = key
    BY <1>2 DEF CallInv, CallOK, LoopUnlock
  <2>2. tok' = tok /\ seen' = seen /\ floor' = floor
    BY <1>2 DEF LoopUnlock
  <2>3. \/ pcCall'[c] = pcCall[c]
        \/ pcCall'[c] = "read" /\ pcCall[c] = "parked"
    BY <1>2 DEF LoopUnlock, LockInv
  <2> QED BY <2>1, <2>2, <2>3 DEF CallOK
<1>3. ASSUME NEW c \in Callers, VerifyCall(c) \/ VerifySteps(c) PROVE CallInv'
  <2>1. key' = key
    BY <1>3 DEF VerifyCall, VerifySteps, VerifyParse, GetKeyRLock, GetKeyRead, GetKeyRUnlock,
         VerifyDecide, VerifyReturn
  <2>2. \A d \in Callers \ {c} : /\ pcCall'[d] = pcCall[d] /\ tok'[d] = tok[d]
                                 /\ seen'[d] = seen[d] /\ floor'[d] = floor[d]
    BY <1>3 DEF VerifyCall, VerifySteps, VerifyParse, GetKeyRLock, GetKeyRead, GetKeyRUnlock,
         VerifyDecide, VerifyReturn, TypeOK
  <2>3. CallOK(c) /\ key \in Nat /\ floor[c] \in Nat /\ seen[c] \in Nat
    BY DEF CallInv, CallOK, TypeOK
  <2>4. CallOK(c)'
    <3>1. CASE VerifyCall(c)
      <4>1. floor'[c] = key /\ pcCall'[c] = "parse" /\ key # NoKey
        BY <3>1 DEF VerifyCall, StartInv, TypeOK
      <4> QED BY <4>1, <2>1, <2>3 DEF CallOK
    <3>2. CASE VerifyParse(c)
      <4>1. /\ tok' = tok /\ floor' = floor /\ seen' = seen
            /\ pcCall[c] = "parse"
            /\ pcCall'[c] = IF tok[c].signer = NoKey THEN "rejected" ELSE "rlock"
        BY <3>2 DEF VerifyParse, TypeOK
      <4> QED BY <4>1, <2>1, <2>3 DEF CallOK
    <3>3. CASE GetKeyRLock(c)
      <4>1. /\ tok' = tok /\ floor' = floor /\ seen' = seen
            /\ pcCall[c] = "rlock" /\ pcCall'[c] \in {"read", "parked"}
        BY <3>3 DEF GetKeyRLock, TypeOK
      <4> QED BY <4>1, <2>1, <2>3 DEF CallOK
    <3>4. CASE GetKeyRead(c)
      <4>1. /\ tok' = tok /\ floor' = floor /\ seen'[c] = key
            /\ pcCall[c] = "read" /\ pcCall'[c] = "runlock"
        BY <3>4 DEF GetKeyRead, TypeOK
      <4> QED BY <4>1, <2>1, <2>3 DEF CallOK
    <3>5. CASE GetKeyRUnlock(c)
      <4>1. /\ tok' = tok /\ floor' = floor /\ seen' = seen
            /\ pcCall[c] = "runlock" /\ pcCall'[c] = "decide"
        BY <3>5 DEF GetKeyRUnlock, TypeOK
      <4> QED BY <4>1, <2>1, <2>3 DEF CallOK
    <3>6. CASE VerifyDecide(c)
      <4>1. /\ tok' = tok /\ floor' = floor /\ seen' = seen /\ pcCall[c] = "decide"
            /\ pcCall'[c] = IF tok[c].signer = seen[c] /\ tok[c].claimsOk
                            THEN "accepted" ELSE "rejected"
        BY <3>6 DEF VerifyDecide, TypeOK
      <4> QED BY <4>1, <2>1, <2>3 DEF CallOK
    <3>7. CASE VerifyReturn(c)
      <4>1. floor'[c] = NoKey /\ pcCall'[c] = "idle"
        BY <3>7 DEF VerifyReturn, TypeOK
      <4> QED BY <4>1, <2>1, <2>3 DEF CallOK
    <3> QED BY <1>3, <3>1, <3>2, <3>3, <3>4, <3>5, <3>6, <3>7 DEF VerifySteps
  <2> QED BY <2>1, <2>2, <2>4, CallOther
<1>4. ASSUME \/ Rotate \/ CancelCtx \/ AnswerNew \/ AnswerLoop \/ NewVerifier \/ TickerFires
             \/ refreshLoop /\ ~LoopUnlock
             \/ \E c \in Closers : CloseCall(c) \/ CloseSteps(c)
             \/ UNCHANGED vars
      PROVE UNCHANGED callVars
  BY <1>4 DEF Rotate, CancelCtx, AnswerNew, AnswerLoop, Answer, NewVerifier, NewFetchOK,
       NewFetchErr, NewRetry, NewCancelled, NewStore, NewGo, TickerFires, refreshLoop, LoopTick,
       LoopStop, LoopFetchOK, LoopFetchErr, LoopAnnounce, LoopLocked, LoopStore, CloseCall,
       CloseSteps, OnceSkip, OnceEnter, CloseChan, OnceExit, vars
<1> QED BY <1>1, <1>2, <1>3, <1>4 DEF Next, Finished

--------------------------------------------------------------------------------
(* Close. *)

(* Every step keeps the Once to one goroutine at a time. *)
LEMMA CloseStep == TypeOK /\ CloseInv /\ [Next]_vars => CloseInv'
<1> SUFFICES ASSUME TypeOK, CloseInv, [Next]_vars PROVE CloseInv'
  OBVIOUS
<1> USE DEF CloseInv, InOnce
<1>1. CASE UNCHANGED closeVars
  BY <1>1 DEF closeVars
<1>2. ASSUME NEW c \in Closers, CloseCall(c) PROVE CloseInv'
  BY <1>2 DEF CloseCall, TypeOK
<1>3. ASSUME NEW c \in Closers, OnceSkip(c) PROVE CloseInv'
  BY <1>3 DEF OnceSkip, TypeOK
<1>4. ASSUME NEW c \in Closers, OnceEnter(c) PROVE CloseInv'
  BY <1>4 DEF OnceEnter, TypeOK
<1>5. ASSUME NEW c \in Closers, CloseChan(c) PROVE CloseInv'
  BY <1>5 DEF CloseChan, TypeOK
<1>6. ASSUME NEW c \in Closers, OnceExit(c) PROVE CloseInv'
  BY <1>6 DEF OnceExit, TypeOK
<1>7. ASSUME \/ Rotate \/ CancelCtx \/ AnswerNew \/ AnswerLoop \/ NewVerifier \/ TickerFires
             \/ refreshLoop
             \/ \E c \in Callers : VerifyCall(c) \/ VerifySteps(c)
             \/ UNCHANGED vars
      PROVE UNCHANGED closeVars
  BY <1>7 DEF Rotate, CancelCtx, AnswerNew, AnswerLoop, Answer, NewVerifier, NewFetchOK,
       NewFetchErr, NewRetry, NewCancelled, NewStore, NewGo, TickerFires, refreshLoop, LoopTick,
       LoopStop, LoopFetchOK, LoopFetchErr, LoopAnnounce, LoopLocked, LoopStore, LoopUnlock,
       VerifyCall, VerifySteps, VerifyParse, GetKeyRLock, GetKeyRead, GetKeyRUnlock,
       VerifyDecide, VerifyReturn, vars
<1> QED BY <1>1, <1>2, <1>3, <1>4, <1>5, <1>6, <1>7 DEF Next, CloseSteps, Finished

--------------------------------------------------------------------------------
(* The inductive invariant and what follows from it. *)

(* IInv holds at first. *)
LEMMA IInvInit == Init => IInv
<1> SUFFICES ASSUME Init PROVE IInv
  OBVIOUS
<1>1. TypeOK
  BY TypeInit
<1>2. LockInv
  BY DEF Init, LockInv, InLock, InGetKey
<1>3. StartInv
  BY DEF Init, StartInv, InitNewVerifier, InitFromKey
<1>4. KeyInv
  BY DEF Init, KeyInv, InitNewVerifier, InitFromKey, InLock
<1>5. CallInv
  <2> SUFFICES ASSUME NEW c \in Callers PROVE CallOK(c)
    BY DEF CallInv, CallOK
  <2>1. key \in Nat
    BY DEF Init, InitNewVerifier, InitFromKey
  <2>2. pcCall[c] = "idle" /\ floor[c] = 0
    BY DEF Init
  <2> QED BY <2>1, <2>2 DEF CallOK
<1>6. CloseInv
  BY DEF Init, CloseInv, InitNewVerifier, InitFromKey, InOnce
<1> QED BY <1>1, <1>2, <1>3, <1>4, <1>5, <1>6 DEF IInv

(* IInv is inductive. *)
LEMMA IInvStep == IInv /\ [Next]_vars => IInv'
BY TypeStep, LockStep, StartStep, KeyStep, CallStep, CloseStep DEF IInv

(* IInv holds in every reachable state. *)
THEOREM Invariance == Spec => []IInv
BY IInvInit, IInvStep, PTL DEF Spec

(* Every reachable state is well typed. *)
THEOREM TypeCorrect == Spec => []TypeOK
<1>1. IInv => TypeOK
  BY DEF IInv
<1> QED BY <1>1, Invariance, PTL

(* v.key is never written while another goroutine reads or writes it. *)
THEOREM NoDataRaceThm == Spec => []NoDataRace
<1>1. IInv => NoDataRace
  <2> SUFFICES ASSUME IInv PROVE NoDataRace
    OBVIOUS
  <2>1. pcNew = "store" => pcLoop = "off" /\ \A c \in Callers : pcCall[c] = "idle"
    BY DEF IInv, StartInv
  <2>2. pcLoop = "store" => \A c \in Callers : pcCall[c] # "read"
    BY DEF IInv, LockInv, InLock, InGetKey
  <2> QED BY <2>1, <2>2 DEF NoDataRace
<1> QED BY <1>1, Invariance, PTL

(* A Verifier that was returned always has a key. *)
THEOREM VerifierHasKeyThm == Spec => []VerifierHasKey
<1>1. IInv => VerifierHasKey
  BY DEF IInv, StartInv, VerifierHasKey
<1> QED BY <1>1, Invariance, PTL

(* A token of a key retired before the call began is never accepted. *)
THEOREM RetiredKeyRejectedThm == Spec => []RetiredKeyRejected
<1>1. IInv => RetiredKeyRejected
  BY DEF IInv, CallInv, RetiredKeyRejected
<1> QED BY <1>1, Invariance, PTL

(* A good token of the key held throughout the call is always accepted. *)
THEOREM CurrentKeyAcceptedThm == Spec => []CurrentKeyAccepted
<1>1. IInv => CurrentKeyAccepted
  BY DEF IInv, TypeOK, CallInv, CurrentKeyAccepted
<1> QED BY <1>1, Invariance, PTL

(* No Close returns before the loop has been told to stop. *)
THEOREM CloseTakesEffectThm == Spec => []CloseTakesEffect
<1>1. IInv => CloseTakesEffect
  BY DEF IInv, CloseInv, CloseTakesEffect
<1> QED BY <1>1, Invariance, PTL

(* However many goroutines call Close, at most one panics, on a nil channel only. *)
THEOREM ClosePanicsOnceOnNilThm == Spec => []ClosePanicsOnceOnNil
<1>1. IInv => ClosePanicsOnceOnNil
  BY DEF IInv, TypeOK, CloseInv, InOnce, ClosePanicsOnceOnNil
<1> QED BY <1>1, Invariance, PTL

(* NewVerifier fails only after every attempt or a cancellation, and leaves no loop. *)
THEOREM StartupFailsForAReasonThm == Spec => []StartupFailsForAReason
<1>1. IInv => StartupFailsForAReason
  BY DEF IInv, StartInv, StartupFailsForAReason
<1> QED BY <1>1, Invariance, PTL

(* The key never goes back to an earlier publication. *)
THEOREM KeyMonotoneThm == Spec => KeyMonotone
<1>1. IInv /\ [Next]_vars => [key <= key']_key
  BY KeyStep DEF IInv
<1> QED BY <1>1, Invariance, PTL DEF Spec, KeyMonotone

--------------------------------------------------------------------------------
(* The refinement of KeyRegister. *)

(* The initial states are initial states of the register. *)
LEMMA RefineInit == Init => KR!Init
<1> SUFFICES ASSUME Init PROVE KR!Init
  OBVIOUS
<1>1. key \in {0, 1}
  BY DEF Init, InitNewVerifier, InitFromKey
<1>2. [c \in Callers |-> PhaseOf(pcCall[c])] = [c \in Callers |-> "idle"]
  BY DEF Init, PhaseOf
<1> QED BY <1>1, <1>2 DEF Init, KR!Init, KR!NoKey, KR!NoToken, NoToken

(* A step that leaves what callers see alone is a stutter of the register. *)
LEMMA RefineStutter ==
  UNCHANGED <<published, key, callVars>> => UNCHANGED KR!vars
BY DEF KR!vars, callVars

(* A step of refreshLoop stutters or installs a key. *)
LEMMA RefineLoop ==
  ASSUME IInv, refreshLoop PROVE [KR!Next]_(KR!vars)
<1> USE DEF refreshLoop, loopVars, newVars, callVars
<1>1. CASE LoopStore
  <2>1. got["loop"] \in 1..published /\ key <= got["loop"]
    BY <1>1 DEF LoopStore, IInv, TypeOK, KeyInv, InLock
  <2>2. KR!Install
    BY <1>1, <2>1 DEF LoopStore, KR!Install
  <2> QED BY <2>2 DEF KR!Next
<1>2. CASE LoopUnlock
  <2>1. \A c \in Callers : PhaseOf(pcCall'[c]) = PhaseOf(pcCall[c])
    BY <1>2 DEF LoopUnlock, IInv, LockInv, PhaseOf
  <2>2. UNCHANGED <<published, key, tok, seen, floor>>
    BY <1>2 DEF LoopUnlock
  <2> QED BY <2>1, <2>2 DEF KR!vars
<1>3. CASE LoopTick \/ LoopStop \/ LoopFetchOK \/ LoopFetchErr \/ LoopAnnounce \/ LoopLocked
  <2>1. UNCHANGED <<published, key, callVars>>
    BY <1>3 DEF LoopTick, LoopStop, LoopFetchOK, LoopFetchErr, LoopAnnounce, LoopLocked
  <2> QED BY <2>1, RefineStutter
<1> QED BY <1>1, <1>2, <1>3

(* The phase of the caller that moved is updated, the others' stays. *)
LEMMA PhaseUpdate ==
  ASSUME NEW c \in Callers, NEW s, IInv, pcCall' = [pcCall EXCEPT ![c] = s]
  PROVE  [d \in Callers |-> PhaseOf(pcCall'[d])]
           = [[d \in Callers |-> PhaseOf(pcCall[d])] EXCEPT ![c] = PhaseOf(s)]
<1>1. pcCall \in [Callers -> {"idle", "parse", "rlock", "parked", "read", "runlock",
                              "decide", "accepted", "rejected"}]
  BY DEF IInv, TypeOK
<1> QED BY <1>1

(* A step of a Verify stutters or is a step of the call of the register. *)
LEMMA RefineCall ==
  ASSUME IInv, NEW c \in Callers, VerifyCall(c) \/ VerifySteps(c)
  PROVE  [KR!Next]_(KR!vars)
<1> USE DEF KR!NoKey
<1> DEFINE ph == [d \in Callers |-> PhaseOf(pcCall[d])]
<1>0. ph[c] = PhaseOf(pcCall[c])
  OBVIOUS
<1>1. CASE VerifyCall(c)
  <2>1. key # NoKey /\ ph[c] = "idle" /\ ph' = [ph EXCEPT ![c] = "asked"]
    BY <1>1, <1>0, PhaseUpdate DEF VerifyCall, IInv, StartInv, PhaseOf
  <2>2. KR!Ask(c)
    BY <1>1, <2>1 DEF VerifyCall, KR!Ask
  <2> QED BY <2>2 DEF KR!Next
<1>2. CASE VerifyParse(c)
  <2>1. CASE tok[c].signer = NoKey
    <3>1. ph[c] = "asked" /\ ph' = [ph EXCEPT ![c] = "rejected"]
      BY <1>2, <2>1, <1>0, PhaseUpdate DEF VerifyParse, PhaseOf
    <3>2. KR!Refuse(c)
      BY <1>2, <2>1, <3>1 DEF VerifyParse, KR!Refuse
    <3> QED BY <3>2 DEF KR!Next
  <2>2. CASE tok[c].signer # NoKey
    <3>1. ph' = [ph EXCEPT ![c] = "asked"] /\ ph[c] = "asked"
      BY <1>2, <2>2, <1>0, PhaseUpdate DEF VerifyParse, PhaseOf
    <3>2. ph' = ph
      BY <3>1
    <3> QED BY <1>2, <3>2 DEF VerifyParse, KR!vars
  <2> QED BY <2>1, <2>2
<1>3. CASE GetKeyRLock(c)
  <2>1. ph' = [ph EXCEPT ![c] = "asked"] /\ ph[c] = "asked"
    BY <1>3, <1>0, PhaseUpdate DEF GetKeyRLock, PhaseOf
  <2>2. ph' = ph
    BY <2>1
  <2> QED BY <1>3, <2>2 DEF GetKeyRLock, KR!vars
<1>4. CASE GetKeyRead(c)
  <2>1. ph[c] = "asked" /\ ph' = [ph EXCEPT ![c] = "looked"] /\ tok[c].signer # NoKey
    BY <1>4, <1>0, PhaseUpdate DEF GetKeyRead, PhaseOf, IInv, CallInv
  <2>2. KR!Look(c)
    BY <1>4, <2>1 DEF GetKeyRead, KR!Look
  <2> QED BY <2>2 DEF KR!Next
<1>5. CASE GetKeyRUnlock(c)
  <2>1. ph' = [ph EXCEPT ![c] = "looked"] /\ ph[c] = "looked"
    BY <1>5, <1>0, PhaseUpdate DEF GetKeyRUnlock, PhaseOf
  <2>2. ph' = ph
    BY <2>1
  <2> QED BY <1>5, <2>2 DEF GetKeyRUnlock, KR!vars
<1>6. CASE VerifyDecide(c)
  <2>1. ph[c] = "looked" /\
        ph' = [ph EXCEPT ![c] = IF tok[c].signer = seen[c] /\ tok[c].claimsOk
                                THEN "accepted" ELSE "rejected"]
    BY <1>6, <1>0, PhaseUpdate DEF VerifyDecide, PhaseOf
  <2>2. KR!Decide(c)
    BY <1>6, <2>1 DEF VerifyDecide, KR!Decide
  <2> QED BY <2>2 DEF KR!Next
<1>7. CASE VerifyReturn(c)
  <2>1. ph[c] \in {"accepted", "rejected"} /\ ph' = [ph EXCEPT ![c] = "idle"]
    BY <1>7, <1>0, PhaseUpdate DEF VerifyReturn, PhaseOf
  <2>2. KR!Return(c)
    BY <1>7, <2>1 DEF VerifyReturn, KR!Return, NoToken, KR!NoToken
  <2> QED BY <2>2 DEF KR!Next
<1> QED BY <1>1, <1>2, <1>3, <1>4, <1>5, <1>6, <1>7 DEF VerifySteps

(* Every step is a step or a stutter of the register. *)
LEMMA RefineStep == IInv /\ [Next]_vars => [KR!Next]_(KR!vars)
<1> SUFFICES ASSUME IInv, [Next]_vars PROVE [KR!Next]_(KR!vars)
  OBVIOUS
<1>1. CASE Rotate
  <2>1. KR!Publish
    BY <1>1 DEF Rotate, KR!Publish, callVars
  <2> QED BY <2>1 DEF KR!Next
<1>2. CASE NewStore
  <2>1. key = NoKey /\ got["new"] \in 1..published
    BY <1>2 DEF NewStore, IInv, TypeOK, StartInv, KeyInv
  <2>2. KR!Install
    BY <1>2, <2>1 DEF NewStore, KR!Install, callVars
  <2> QED BY <2>2 DEF KR!Next
<1>3. ASSUME \/ CancelCtx \/ AnswerNew \/ AnswerLoop \/ TickerFires \/ UNCHANGED vars
             \/ NewFetchOK \/ NewFetchErr \/ NewRetry \/ NewCancelled \/ NewGo
             \/ \E c \in Closers : CloseCall(c) \/ CloseSteps(c)
      PROVE [KR!Next]_(KR!vars)
  <2>1. UNCHANGED <<published, key, callVars>>
    BY <1>3 DEF CancelCtx, AnswerNew, AnswerLoop, Answer, TickerFires, NewFetchOK, NewFetchErr,
         NewRetry, NewCancelled, NewGo, CloseCall, CloseSteps, OnceSkip, OnceEnter, CloseChan,
         OnceExit, vars
  <2> QED BY <2>1, RefineStutter
<1>4. ASSUME NEW c \in Callers, VerifyCall(c) \/ VerifySteps(c) PROVE [KR!Next]_(KR!vars)
  BY <1>4, RefineCall
<1> QED BY <1>1, <1>2, <1>3, <1>4, RefineLoop DEF Next, NewVerifier, Finished

(* A Verifier implements the atomic key register. *)
THEOREM Refinement == Spec => ImplementsKeyRegister
BY RefineInit, RefineStep, Invariance, PTL DEF Spec, KR!Spec, ImplementsKeyRegister

--------------------------------------------------------------------------------
(* What termination rests on besides fairness: whoever waits, waits for    *)
(* one who can go on, and what is under way gets shorter with every step.  *)

(* The Once is held by somebody who is inside it. *)
OnceHeld == closeOnce = "held" => \E c \in Closers : pcClose[c] \in InOnce

(* A parked caller waits for refreshLoop, refreshLoop for callers inside   *)
(* getKey, who wait for nobody; a Close waits for one inside the Once.     *)
NoCircularWait ==
  /\ \A c \in Callers : pcCall[c] = "parked" => pcLoop \in {"drain"} \union InLock
  /\ pcLoop = "lock" => writer = "none"
  /\ pcLoop = "drain" => \A c \in readers : pcCall[c] \in InGetKey
  /\ \A c \in Closers : pcClose[c] = "do" /\ closeOnce = "held" =>
       \E d \in Closers : pcClose[d] \in InOnce

(* Only Close touches the Once and its channel. *)
LEMMA OnlyClose ==
  [Next]_vars => UNCHANGED closeVars \/ \E c \in Closers : CloseCall(c) \/ CloseSteps(c)
BY DEF Next, Rotate, CancelCtx, AnswerNew, AnswerLoop, Answer, NewVerifier, NewFetchOK,
     NewFetchErr, NewRetry, NewCancelled, NewStore, NewGo, TickerFires, refreshLoop, LoopTick,
     LoopStop, LoopFetchOK, LoopFetchErr, LoopAnnounce, LoopLocked, LoopStore, LoopUnlock,
     VerifyCall, VerifySteps, VerifyParse, GetKeyRLock, GetKeyRead, GetKeyRUnlock,
     VerifyDecide, VerifyReturn, Finished, vars

(* Only NewVerifier moves itself. *)
LEMMA OnlyNew == [Next]_vars => UNCHANGED <<pcNew, i>> \/ NewVerifier
BY DEF Next, Rotate, CancelCtx, AnswerNew, AnswerLoop, Answer, TickerFires, refreshLoop, LoopTick,
     LoopStop, LoopFetchOK, LoopFetchErr, LoopAnnounce, LoopLocked, LoopStore, LoopUnlock,
     VerifyCall, VerifySteps, VerifyParse, GetKeyRLock, GetKeyRead, GetKeyRUnlock, VerifyDecide,
     VerifyReturn, CloseCall, CloseSteps, OnceSkip, OnceEnter, CloseChan, OnceExit,
     Finished, vars, newVars

(* Only Verify moves a caller, and refreshLoop those it lets in. *)
LEMMA OnlyVerify ==
  [Next]_vars => UNCHANGED pcCall \/ LoopUnlock
                 \/ \E c \in Callers : VerifyCall(c) \/ VerifySteps(c)
BY DEF Next, Rotate, CancelCtx, AnswerNew, AnswerLoop, Answer, NewVerifier, NewFetchOK,
     NewFetchErr, NewRetry, NewCancelled, NewStore, NewGo, TickerFires, refreshLoop, LoopTick,
     LoopStop, LoopFetchOK, LoopFetchErr, LoopAnnounce, LoopLocked, LoopStore, CloseCall,
     CloseSteps, OnceSkip, OnceEnter, CloseChan, OnceExit, Finished, vars, callVars

(* Every step keeps somebody inside a Once that is held. *)
LEMMA OnceStep == TypeOK /\ OnceHeld /\ [Next]_vars => OnceHeld'
<1> SUFFICES ASSUME TypeOK, OnceHeld, [Next]_vars PROVE OnceHeld'
  OBVIOUS
<1> USE DEF OnceHeld, InOnce
<1>1. CASE UNCHANGED closeVars
  BY <1>1 DEF closeVars
<1>2. ASSUME NEW c \in Closers, CloseCall(c) PROVE OnceHeld'
  BY <1>2 DEF CloseCall, TypeOK
<1>3. ASSUME NEW c \in Closers, OnceSkip(c) PROVE OnceHeld'
  BY <1>3 DEF OnceSkip, TypeOK
<1>4. ASSUME NEW c \in Closers, OnceEnter(c) PROVE OnceHeld'
  BY <1>4 DEF OnceEnter, TypeOK
<1>5. ASSUME NEW c \in Closers, CloseChan(c) PROVE OnceHeld'
  BY <1>5 DEF CloseChan, TypeOK
<1>6. ASSUME NEW c \in Closers, OnceExit(c) PROVE OnceHeld'
  BY <1>6 DEF OnceExit, TypeOK
<1> QED BY <1>1, <1>2, <1>3, <1>4, <1>5, <1>6, OnlyClose DEF CloseSteps

(* No goroutine of a Verifier waits for one that waits, whatever callers,  *)
(* closers and refreshes meet at the lock and at the Once: no deadlock.    *)
THEOREM NoCircularWaitThm == Spec => []NoCircularWait
<1>1. Init => OnceHeld
  BY DEF Init, OnceHeld
<1>2. IInv /\ OnceHeld /\ [Next]_vars => OnceHeld'
  BY OnceStep DEF IInv
<1>3. IInv /\ OnceHeld => NoCircularWait
  BY DEF IInv, LockInv, InLock, InGetKey, OnceHeld, NoCircularWait
<1> QED BY <1>1, <1>2, <1>3, Invariance, PTL DEF Spec

(* The steps a Verify may still take. *)
CallSteps ==
  [idle |-> 0, accepted |-> 1, rejected |-> 1, decide |-> 2, runlock |-> 3, read |-> 4,
   parked |-> 5, rlock |-> 6, parse |-> 7]

(* A Verify under way that moves has less left. *)
VerifyShrinks ==
  \A c \in Callers : pcCall[c] \notin {"idle", pcCall'[c]} =>
    CallSteps[pcCall'[c]] < CallSteps[pcCall[c]]

(* Each step of a Verify, its own or the unlock that lets it in, brings it *)
(* nearer to its end; no refresh sends it back or makes it park again.     *)
THEOREM VerifyShrinksThm == Spec => [][VerifyShrinks]_pcCall
<1>1. IInv /\ [Next]_vars => [VerifyShrinks]_pcCall
  <2> SUFFICES ASSUME IInv, [Next]_vars, pcCall' # pcCall, NEW c \in Callers,
                      pcCall[c] # "idle", pcCall'[c] # pcCall[c]
               PROVE  CallSteps[pcCall'[c]] < CallSteps[pcCall[c]]
    BY DEF VerifyShrinks
  <2>0. pcCall \in [Callers -> {"idle", "parse", "rlock", "parked", "read", "runlock",
                                "decide", "accepted", "rejected"}]
    BY DEF IInv, TypeOK
  <2>1. CASE LoopUnlock
    <3>1. pcCall[c] = "parked" /\ pcCall'[c] = "read"
      BY <2>1 DEF LoopUnlock, IInv, LockInv
    <3> QED BY <3>1 DEF CallSteps
  <2>2. ASSUME NEW d \in Callers, VerifyCall(d) \/ VerifySteps(d)
        PROVE  CallSteps[pcCall'[c]] < CallSteps[pcCall[c]]
    <3>1. d = c
      BY <2>0, <2>2 DEF VerifyCall, VerifySteps, VerifyParse, GetKeyRLock, GetKeyRead,
           GetKeyRUnlock, VerifyDecide, VerifyReturn
    <3>2. CASE VerifyCall(c)
      BY <3>2 DEF VerifyCall
    <3>3. CASE VerifyParse(c)
      BY <2>0, <3>3 DEF VerifyParse, CallSteps
    <3>4. CASE GetKeyRLock(c)
      BY <2>0, <3>4 DEF GetKeyRLock, CallSteps
    <3>5. CASE GetKeyRead(c)
      BY <2>0, <3>5 DEF GetKeyRead, CallSteps
    <3>6. CASE GetKeyRUnlock(c)
      BY <2>0, <3>6 DEF GetKeyRUnlock, CallSteps
    <3>7. CASE VerifyDecide(c)
      BY <2>0, <3>7 DEF VerifyDecide, CallSteps
    <3>8. CASE VerifyReturn(c)
      BY <2>0, <3>8 DEF VerifyReturn, CallSteps
    <3> QED BY <2>2, <3>1, <3>2, <3>3, <3>4, <3>5, <3>6, <3>7, <3>8 DEF VerifySteps
  <2> QED BY <2>1, <2>2, OnlyVerify
<1> QED BY <1>1, Invariance, PTL DEF Spec

(* The steps a Close may still take. *)
CloseStepsLeft ==
  [idle |-> 4, do |-> 3, closing |-> 2, leaving |-> 1, unwinding |-> 1, returned |-> 0, panicked |-> 0]

(* A Close that moves has less left. *)
CloseShrinks ==
  \A c \in Closers : pcClose'[c] # pcClose[c] =>
    CloseStepsLeft[pcClose'[c]] < CloseStepsLeft[pcClose[c]]

(* Each step of a Close brings it nearer to its end. *)
THEOREM CloseShrinksThm == Spec => [][CloseShrinks]_pcClose
<1>1. TypeOK /\ [Next]_vars => [CloseShrinks]_pcClose
  <2> SUFFICES ASSUME TypeOK, [Next]_vars, pcClose' # pcClose, NEW c \in Closers,
                      pcClose'[c] # pcClose[c]
               PROVE  CloseStepsLeft[pcClose'[c]] < CloseStepsLeft[pcClose[c]]
    BY DEF CloseShrinks
  <2>1. PICK d \in Closers : CloseCall(d) \/ CloseSteps(d)
    BY OnlyClose DEF closeVars
  <2>2. d = c
    BY <2>1 DEF TypeOK, CloseCall, CloseSteps, OnceSkip, OnceEnter, CloseChan, OnceExit
  <2> QED BY <2>1, <2>2 DEF TypeOK, CloseCall, CloseSteps, OnceSkip, OnceEnter, CloseChan, OnceExit,
         CloseStepsLeft
<1> QED BY <1>1, TypeCorrect, PTL DEF Spec

(* The steps NewVerifier may still take: two for each attempt that is left *)
(* and two to install the key.                                             *)
NewStepsLeft ==
  IF pcNew = "fetch" THEN 2 * (Attempts - i) + 2
  ELSE IF pcNew = "backoff" THEN 2 * (Attempts - i) + 1
  ELSE IF pcNew = "store" THEN 2
  ELSE IF pcNew = "go" THEN 1 ELSE 0

(* Each step of NewVerifier brings it nearer to its end: it makes at most  *)
(* five attempts, whatever Users answers and whenever its context ends.    *)
THEOREM NewVerifierShrinksThm == Spec => [][NewStepsLeft' < NewStepsLeft]_<<pcNew, i>>
<1>1. IInv /\ [Next]_vars => [NewStepsLeft' < NewStepsLeft]_<<pcNew, i>>
  <2> SUFFICES ASSUME IInv, NewVerifier PROVE NewStepsLeft' < NewStepsLeft
    BY OnlyNew
  <2>1. i \in 0..4
    BY DEF IInv, TypeOK
  <2> QED BY <2>1 DEF NewVerifier, NewFetchOK, NewFetchErr, NewRetry, NewCancelled, NewStore, NewGo,
         NewStepsLeft
<1> QED BY <1>1, Invariance, PTL DEF Spec

(* While the refresh waits, the readers inside only become fewer. *)
WriterDrains == pcLoop = "drain" /\ pcLoop' = "drain" => readers' \subseteq readers

(* While refreshLoop waits for the lock nobody joins the readers it waits  *)
(* for: a stream of calls to getKey does not starve it.                    *)
THEOREM WriterDrainsThm == Spec => [][WriterDrains]_vars
<1>1. IInv /\ [Next]_vars => [WriterDrains]_vars
  <2> SUFFICES ASSUME IInv, [Next]_vars, pcLoop = "drain", pcLoop' = "drain"
               PROVE  readers' \subseteq readers
    BY DEF WriterDrains
  <2>1. writer # "none"
    BY DEF IInv, LockInv
  <2>2. UNCHANGED readers \/ LoopUnlock \/ \E c \in Callers : GetKeyRLock(c) \/ GetKeyRUnlock(c)
    BY DEF Next, Rotate, CancelCtx, AnswerNew, AnswerLoop, Answer, NewVerifier, NewFetchOK,
         NewFetchErr, NewRetry, NewCancelled, NewStore, NewGo, TickerFires, refreshLoop, LoopTick,
         LoopStop, LoopFetchOK, LoopFetchErr, LoopAnnounce, LoopLocked, LoopStore,
         VerifyCall, VerifySteps, VerifyParse, GetKeyRead, VerifyDecide, VerifyReturn, CloseCall,
         CloseSteps, OnceSkip, OnceEnter, CloseChan, OnceExit, Finished, vars, muVars
  <2> QED BY <2>1, <2>2 DEF LoopUnlock, GetKeyRLock, GetKeyRUnlock
<1> QED BY <1>1, Invariance, PTL DEF Spec
================================================================================
