-------------------------- MODULE TimedVerifierProofs --------------------------
(***************************************************************************)
(* Theorems about TimedVerifier, for any timeout and any longer interval,  *)
(* any callers and closers and any number of rotations.  The clock only    *)
(* restricts JwksVerifier, so what is proved of that holds here; the       *)
(* bounds in time come from what is left of a timer: a second lowers it by *)
(* as much as it raises what has passed.                                   *)
(***************************************************************************)
EXTENDS TimedVerifier, JwksVerifierProofs

(* The backoff doubles with every attempt. *)
Doubled ==
  \/ i = 0 /\ backoff = 1
  \/ i = 1 /\ backoff = 2
  \/ i = 2 /\ backoff = 4
  \/ i = 3 /\ backoff = 8
  \/ i = 4 /\ backoff = 16

Timers ==
  /\ budget \in 0..Timeout /\ pause \in 0..8 /\ toTick \in 0..Interval
  /\ age \in 0..MaxAge /\ refreshFailed \in BOOLEAN
  /\ elapsed \in Nat /\ closedFor \in Nat /\ lateFetches \in Nat
  /\ Doubled

(* What has passed of the start and what is left of its timer. *)
Startup ==
  /\ pcNew = "fetch" => elapsed + budget <= (i + 1) * Timeout + backoff - 1
  /\ pcNew = "backoff" => elapsed + pause <= (i + 1) * Timeout + 2 * backoff - 1
  /\ StartupBounded

(* A tick is served at once; the next one comes after the refresh is over. *)
Installing == {"lock", "drain", "store", "unlock"}
Ticking ==
  /\ pcNew = "returned" => pcLoop # "off"
  /\ tick => pcLoop = "select" /\ toTick = Interval
  /\ pcLoop = "fetch" => Interval + budget <= toTick + Timeout
  /\ pcLoop \in Installing => Interval <= toTick + Timeout

(* A tick that is ready with stopCh closed was ready when it was closed. *)
Closing ==
  /\ stopCh # "closed" => lateFetches = 0 /\ closedFor = 0
  /\ stopCh = "closed" => pcLoop # "off"
  /\ stopCh = "closed" /\ pcLoop = "select" /\ (tick \/ toTick = 0) => lateFetches = 0 /\ closedFor = 0
  /\ stopCh = "closed" /\ pcLoop = "fetch" => closedFor + budget <= Timeout
  /\ LoopGoneAfterClose

(* A response is stale only if the rotation came while its fetch was under *)
(* way; a key is stale no longer than until the end of the next refresh.   *)
Answers ==
  /\ pcNew = "fetch" /\ got["new"] \notin {NoKey, published} => age + budget <= Timeout
  /\ pcNew \in {"store", "go"} /\ got["new"] # published => age <= Timeout
  /\ pcLoop = "fetch" /\ got["loop"] \notin {NoKey, published} => age + budget <= Timeout
  /\ pcLoop \in Installing /\ got["loop"] # published => age <= Timeout
  /\ pcLoop = "unlock" => key = got["loop"]
  /\ pcNew = "backoff" => got["new"] = NoKey
  /\ pcLoop = "select" => got["loop"] = NoKey
Stale ==
  ~refreshFailed /\ key # published =>
    /\ pcLoop = "select" => age + (IF tick THEN 0 ELSE toTick) <= Interval + Timeout
    /\ pcLoop = "fetch" => age + budget <= Interval + 2 * Timeout
    /\ pcLoop \in Installing => age <= Interval + 2 * Timeout

TInv == Timers /\ Startup /\ Ticking /\ Closing /\ Answers /\ Stale

USE KeyAssumption, TimeAssumption
    DEF NoKey, Attempts, Fetchers, newVars, loopVars, muVars, closeVars, callVars, timers, history

--------------------------------------------------------------------------------
(* The clock restricts the Verifier. *)

(* A step with a clock is a step of the Verifier, or time that passes. *)
LEMMA TimedStep == [TimedNext]_timedVars => [Next]_vars
<1> SUFFICES ASSUME [TimedNext]_timedVars PROVE [Next]_vars
  OBVIOUS
<1>1. CASE Second \/ UNCHANGED timedVars
  BY <1>1 DEF Second, timedVars
<1>2. CASE TimedRotate
  BY <1>2 DEF TimedRotate, Next
<1>3. CASE TimedNewFetchErr \/ TimedNewRetry \/ TimedNewGo
  BY <1>3 DEF TimedNewFetchErr, TimedNewRetry, TimedNewGo, Next, NewVerifier
<1>4. CASE TimedTicker
  BY <1>4 DEF TimedTicker, Next
<1>5. CASE TimedLoopTick \/ TimedLoopFetchErr
  BY <1>5 DEF TimedLoopTick, TimedLoopFetchErr, Next, refreshLoop
<1>6. CASE Untimed
  BY <1>6 DEF Untimed, Next, NewVerifier, refreshLoop
<1> QED BY <1>1, <1>2, <1>3, <1>4, <1>5, <1>6 DEF TimedNext

(* Whatever holds of the Verifier at any pace holds of it with its clock.  *)
THEOREM ClockRestricts == TimedSpec => Spec
<1>1. TimedInit => Init
  BY DEF TimedInit
<1> QED BY <1>1, TimedStep, PTL DEF TimedSpec, Spec

--------------------------------------------------------------------------------
(* Steps that the clock does not see. *)

(* A caller's step leaves the start, the loop, the key and stopCh alone. *)
LEMMA CallerFrame ==
  ASSUME NEW c \in Callers, VerifyCall(c) \/ VerifySteps(c)
  PROVE  UNCHANGED <<published, newVars, loopVars, got, key, stopCh>>
BY DEF VerifyCall, VerifySteps, VerifyParse, GetKeyRLock, GetKeyRead, GetKeyRUnlock,
       VerifyDecide, VerifyReturn

(* A closer's step may close stopCh, once NewVerifier has returned. *)
LEMMA CloserFrame ==
  ASSUME StartInv, NEW c \in Closers, CloseCall(c) \/ CloseSteps(c)
  PROVE  /\ UNCHANGED <<published, newVars, loopVars, got, key>>
         /\ stopCh' = stopCh \/ (stopCh = "open" /\ stopCh' = "closed" /\ pcNew = "returned")
BY DEF CloseCall, CloseSteps, OnceSkip, OnceEnter, CloseChan, OnceExit, StartInv

(* While a second passes every timer that is waited for runs, and nobody   *)
(* has anything to do.                                                     *)
LEMMA SecondFrame ==
  ASSUME Second, Timers
  PROVE  /\ UNCHANGED <<published, newVars, loopVars, got, key, stopCh>>
         /\ UNCHANGED <<backoff, refreshFailed, lateFetches>>
         /\ budget' \in 0..Timeout /\ pause' \in 0..8 /\ toTick' \in 0..Interval
         /\ pcNew = "fetch" \/ pcLoop = "fetch" => budget = budget' + 1
         /\ pcNew = "backoff" => pause = pause' + 1
         /\ LoopRuns => toTick = toTick' + 1
         /\ elapsed' = IF pcNew \in {"fetch", "backoff"} THEN elapsed + 1 ELSE elapsed
         /\ age' \in 0..MaxAge /\ age' <= age + 1
         /\ closedFor' = IF stopCh = "closed" /\ LoopRuns THEN closedFor + 1 ELSE closedFor
         /\ pcNew \notin {"store", "go"} /\ pcLoop \notin Installing
         /\ pcLoop = "select" => ~tick /\ stopCh # "closed"
<1>1. /\ UNCHANGED <<published, newVars, loopVars, got, key, stopCh>>
      /\ UNCHANGED <<backoff, refreshFailed, lateFetches>>
  BY DEF Second, vars
<1>2. /\ pcNew = "fetch" \/ pcLoop = "fetch" => budget # 0
      /\ pcNew = "backoff" => pause # 0
      /\ LoopRuns => toTick # 0
      /\ pcNew \notin {"store", "go"} /\ pcLoop \notin Installing
      /\ pcLoop = "select" => ~tick /\ stopCh # "closed"
  BY DEF Second, Urgent, Installing
<1>3. budget \in 0..Timeout /\ pause \in 0..8 /\ toTick \in 0..Interval /\ age \in 0..MaxAge
  BY DEF Timers
<1>4. budget' \in 0..Timeout /\ (budget # 0 => budget = budget' + 1)
  BY <1>3 DEF Second, Less
<1>5. pause' \in 0..8 /\ (pause # 0 => pause = pause' + 1)
  BY <1>3 DEF Second, Less
<1>6. toTick' \in 0..Interval /\ (LoopRuns => toTick = toTick' + 1)
  BY <1>2, <1>3 DEF Second
<1>7. age' \in 0..MaxAge /\ age' <= age + 1
  BY <1>3 DEF Second, MaxAge
<1>8. /\ elapsed' = IF pcNew \in {"fetch", "backoff"} THEN elapsed + 1 ELSE elapsed
      /\ closedFor' = IF stopCh = "closed" /\ LoopRuns THEN closedFor + 1 ELSE closedFor
  BY DEF Second
<1> QED BY <1>1, <1>2, <1>4, <1>5, <1>6, <1>7, <1>8

(* Every step keeps the timers within their ranges, and the backoff with the attempt.*)
LEMMA TimersStep ==
  ASSUME IInv, Timers, [TimedNext]_timedVars
  PROVE  Timers'
<1>0. TypeOK /\ StartInv /\ KeyInv
  BY DEF IInv
<1> USE DEF Timers, Doubled, TypeOK, StartInv, KeyInv
<1>1. CASE Second
  BY <1>0, <1>1, SecondFrame DEF LoopRuns
<1>2. CASE TimedRotate
  <2>1. 0 \in 0..MaxAge
    BY DEF MaxAge
  <2> QED BY <1>2, <2>1 DEF TimedRotate, Rotate
<1>3. CASE TimedNewFetchErr
  BY <1>0, <1>3 DEF TimedNewFetchErr, NewFetchErr
<1>4. CASE TimedNewRetry
  BY <1>0, <1>4 DEF TimedNewRetry, NewRetry
<1>5. CASE TimedNewGo
  BY <1>0, <1>5 DEF TimedNewGo, NewGo
<1>6. CASE TimedTicker
  BY <1>0, <1>6 DEF TimedTicker, TickerFires, LoopRuns, vars
<1>7. CASE TimedLoopTick
  BY <1>0, <1>7 DEF TimedLoopTick, LoopTick
<1>8. CASE TimedLoopFetchErr
  BY <1>0, <1>8 DEF TimedLoopFetchErr, LoopFetchErr
<1>9. CASE Untimed
  <2>1. CASE CancelCtx
    BY <1>0, <1>9, <2>1 DEF CancelCtx, Untimed
  <2>2. CASE AnswerNew
    BY <1>0, <1>9, <2>2 DEF AnswerNew, Answer, Untimed
  <2>3. CASE AnswerLoop
    BY <1>0, <1>9, <2>3 DEF AnswerLoop, Answer, Untimed
  <2>4. CASE NewFetchOK
    BY <1>0, <1>9, <2>4 DEF NewFetchOK, Untimed
  <2>5. CASE NewCancelled
    BY <1>0, <1>9, <2>5 DEF NewCancelled, Untimed
  <2>6. CASE NewStore
    BY <1>0, <1>9, <2>6 DEF NewStore, Untimed
  <2>7. CASE LoopStop
    BY <1>0, <1>9, <2>7 DEF LoopStop, Untimed
  <2>8. CASE LoopFetchOK
    BY <1>0, <1>9, <2>8 DEF LoopFetchOK, Untimed
  <2>9. CASE LoopAnnounce
    BY <1>0, <1>9, <2>9 DEF LoopAnnounce, Untimed
  <2>10. CASE LoopLocked
    BY <1>0, <1>9, <2>10 DEF LoopLocked, Untimed
  <2>11. CASE LoopStore
    BY <1>0, <1>9, <2>11 DEF LoopStore, Untimed
  <2>12. CASE LoopUnlock
    BY <1>0, <1>9, <2>12 DEF LoopUnlock, Untimed
  <2>13. ASSUME NEW c \in Callers, VerifyCall(c) \/ VerifySteps(c) PROVE Timers'
    BY <1>0, <1>9, <2>13, CallerFrame DEF Untimed
  <2>14. ASSUME NEW c \in Closers, CloseCall(c) \/ CloseSteps(c) PROVE Timers'
    BY <1>0, <1>9, <2>14, CloserFrame DEF Untimed
  <2> QED BY <1>9, <2>1, <2>2, <2>3, <2>4, <2>5, <2>6, <2>7, <2>8, <2>9, <2>10, <2>11, <2>12, <2>13, <2>14 DEF Untimed
<1>10. CASE UNCHANGED timedVars
  BY <1>0, <1>10 DEF timedVars, vars
<1> QED BY <1>1, <1>2, <1>3, <1>4, <1>5, <1>6, <1>7, <1>8, <1>9, <1>10 DEF TimedNext

(* Every step keeps the account of the start.                             *)
LEMMA StartupStep ==
  ASSUME IInv, Timers, Startup, [TimedNext]_timedVars
  PROVE  Startup'
<1>0. TypeOK /\ StartInv /\ KeyInv
  BY DEF IInv
<1> USE DEF Startup, Doubled, TypeOK, StartupBounded, Timers, StartInv, KeyInv
<1>1. CASE Second
  BY <1>0, <1>1, SecondFrame DEF LoopRuns
<1>2. CASE TimedRotate
  BY <1>0, <1>2 DEF TimedRotate, Rotate, MaxAge
<1>3. CASE TimedNewFetchErr
  BY <1>0, <1>3 DEF TimedNewFetchErr, NewFetchErr
<1>4. CASE TimedNewRetry
  BY <1>0, <1>4 DEF TimedNewRetry, NewRetry
<1>5. CASE TimedNewGo
  BY <1>0, <1>5 DEF TimedNewGo, NewGo
<1>6. CASE TimedTicker
  BY <1>0, <1>6 DEF TimedTicker, TickerFires, LoopRuns, vars
<1>7. CASE TimedLoopTick
  BY <1>0, <1>7 DEF TimedLoopTick, LoopTick
<1>8. CASE TimedLoopFetchErr
  BY <1>0, <1>8 DEF TimedLoopFetchErr, LoopFetchErr
<1>9. CASE Untimed
  <2>1. CASE CancelCtx
    BY <1>0, <1>9, <2>1 DEF CancelCtx, Untimed
  <2>2. CASE AnswerNew
    BY <1>0, <1>9, <2>2 DEF AnswerNew, Answer, Untimed
  <2>3. CASE AnswerLoop
    BY <1>0, <1>9, <2>3 DEF AnswerLoop, Answer, Untimed
  <2>4. CASE NewFetchOK
    BY <1>0, <1>9, <2>4 DEF NewFetchOK, Untimed
  <2>5. CASE NewCancelled
    BY <1>0, <1>9, <2>5 DEF NewCancelled, Untimed
  <2>6. CASE NewStore
    BY <1>0, <1>9, <2>6 DEF NewStore, Untimed
  <2>7. CASE LoopStop
    BY <1>0, <1>9, <2>7 DEF LoopStop, Untimed
  <2>8. CASE LoopFetchOK
    BY <1>0, <1>9, <2>8 DEF LoopFetchOK, Untimed
  <2>9. CASE LoopAnnounce
    BY <1>0, <1>9, <2>9 DEF LoopAnnounce, Untimed
  <2>10. CASE LoopLocked
    BY <1>0, <1>9, <2>10 DEF LoopLocked, Untimed
  <2>11. CASE LoopStore
    BY <1>0, <1>9, <2>11 DEF LoopStore, Untimed
  <2>12. CASE LoopUnlock
    BY <1>0, <1>9, <2>12 DEF LoopUnlock, Untimed
  <2>13. ASSUME NEW c \in Callers, VerifyCall(c) \/ VerifySteps(c) PROVE Startup'
    BY <1>0, <1>9, <2>13, CallerFrame DEF Untimed
  <2>14. ASSUME NEW c \in Closers, CloseCall(c) \/ CloseSteps(c) PROVE Startup'
    BY <1>0, <1>9, <2>14, CloserFrame DEF Untimed
  <2> QED BY <1>9, <2>1, <2>2, <2>3, <2>4, <2>5, <2>6, <2>7, <2>8, <2>9, <2>10, <2>11, <2>12, <2>13, <2>14 DEF Untimed
<1>10. CASE UNCHANGED timedVars
  BY <1>0, <1>10 DEF timedVars, vars
<1> QED BY <1>1, <1>2, <1>3, <1>4, <1>5, <1>6, <1>7, <1>8, <1>9, <1>10 DEF TimedNext

(* Every step keeps the ticks where they are served.                      *)
LEMMA TickingStep ==
  ASSUME IInv, Timers, Ticking, [TimedNext]_timedVars
  PROVE  Ticking'
<1>0. TypeOK /\ StartInv /\ KeyInv
  BY DEF IInv
<1> USE DEF Ticking, TypeOK, Timers, Installing, StartInv, KeyInv
<1>1. CASE Second
  BY <1>0, <1>1, SecondFrame DEF LoopRuns
<1>2. CASE TimedRotate
  BY <1>0, <1>2 DEF TimedRotate, Rotate, MaxAge
<1>3. CASE TimedNewFetchErr
  BY <1>0, <1>3 DEF TimedNewFetchErr, NewFetchErr
<1>4. CASE TimedNewRetry
  BY <1>0, <1>4 DEF TimedNewRetry, NewRetry
<1>5. CASE TimedNewGo
  BY <1>0, <1>5 DEF TimedNewGo, NewGo
<1>6. CASE TimedTicker
  BY <1>0, <1>6 DEF TimedTicker, TickerFires, LoopRuns, vars
<1>7. CASE TimedLoopTick
  BY <1>0, <1>7 DEF TimedLoopTick, LoopTick
<1>8. CASE TimedLoopFetchErr
  BY <1>0, <1>8 DEF TimedLoopFetchErr, LoopFetchErr
<1>9. CASE Untimed
  <2>1. CASE CancelCtx
    BY <1>0, <1>9, <2>1 DEF CancelCtx, Untimed
  <2>2. CASE AnswerNew
    BY <1>0, <1>9, <2>2 DEF AnswerNew, Answer, Untimed
  <2>3. CASE AnswerLoop
    BY <1>0, <1>9, <2>3 DEF AnswerLoop, Answer, Untimed
  <2>4. CASE NewFetchOK
    BY <1>0, <1>9, <2>4 DEF NewFetchOK, Untimed
  <2>5. CASE NewCancelled
    BY <1>0, <1>9, <2>5 DEF NewCancelled, Untimed
  <2>6. CASE NewStore
    BY <1>0, <1>9, <2>6 DEF NewStore, Untimed
  <2>7. CASE LoopStop
    BY <1>0, <1>9, <2>7 DEF LoopStop, Untimed
  <2>8. CASE LoopFetchOK
    BY <1>0, <1>9, <2>8 DEF LoopFetchOK, Untimed
  <2>9. CASE LoopAnnounce
    BY <1>0, <1>9, <2>9 DEF LoopAnnounce, Untimed
  <2>10. CASE LoopLocked
    BY <1>0, <1>9, <2>10 DEF LoopLocked, Untimed
  <2>11. CASE LoopStore
    BY <1>0, <1>9, <2>11 DEF LoopStore, Untimed
  <2>12. CASE LoopUnlock
    BY <1>0, <1>9, <2>12 DEF LoopUnlock, Untimed
  <2>13. ASSUME NEW c \in Callers, VerifyCall(c) \/ VerifySteps(c) PROVE Ticking'
    BY <1>0, <1>9, <2>13, CallerFrame DEF Untimed
  <2>14. ASSUME NEW c \in Closers, CloseCall(c) \/ CloseSteps(c) PROVE Ticking'
    BY <1>0, <1>9, <2>14, CloserFrame DEF Untimed
  <2> QED BY <1>9, <2>1, <2>2, <2>3, <2>4, <2>5, <2>6, <2>7, <2>8, <2>9, <2>10, <2>11, <2>12, <2>13, <2>14 DEF Untimed
<1>10. CASE UNCHANGED timedVars
  BY <1>0, <1>10 DEF timedVars, vars
<1> QED BY <1>1, <1>2, <1>3, <1>4, <1>5, <1>6, <1>7, <1>8, <1>9, <1>10 DEF TimedNext

(* Every step keeps what may follow a Close.                              *)
LEMMA ClosingStep ==
  ASSUME IInv, Timers, Ticking, Closing, [TimedNext]_timedVars
  PROVE  Closing'
<1>0. TypeOK /\ StartInv /\ KeyInv
  BY DEF IInv
<1> USE DEF Closing, TypeOK, Timers, Installing, LoopGoneAfterClose, Ticking, StartInv, KeyInv
<1>1. CASE Second
  BY <1>0, <1>1, SecondFrame DEF LoopRuns
<1>2. CASE TimedRotate
  BY <1>0, <1>2 DEF TimedRotate, Rotate, MaxAge
<1>3. CASE TimedNewFetchErr
  BY <1>0, <1>3 DEF TimedNewFetchErr, NewFetchErr
<1>4. CASE TimedNewRetry
  BY <1>0, <1>4 DEF TimedNewRetry, NewRetry
<1>5. CASE TimedNewGo
  BY <1>0, <1>5 DEF TimedNewGo, NewGo
<1>6. CASE TimedTicker
  BY <1>0, <1>6 DEF TimedTicker, TickerFires, LoopRuns, vars
<1>7. CASE TimedLoopTick
  BY <1>0, <1>7 DEF TimedLoopTick, LoopTick
<1>8. CASE TimedLoopFetchErr
  BY <1>0, <1>8 DEF TimedLoopFetchErr, LoopFetchErr
<1>9. CASE Untimed
  <2>1. CASE CancelCtx
    BY <1>0, <1>9, <2>1 DEF CancelCtx, Untimed
  <2>2. CASE AnswerNew
    BY <1>0, <1>9, <2>2 DEF AnswerNew, Answer, Untimed
  <2>3. CASE AnswerLoop
    BY <1>0, <1>9, <2>3 DEF AnswerLoop, Answer, Untimed
  <2>4. CASE NewFetchOK
    BY <1>0, <1>9, <2>4 DEF NewFetchOK, Untimed
  <2>5. CASE NewCancelled
    BY <1>0, <1>9, <2>5 DEF NewCancelled, Untimed
  <2>6. CASE NewStore
    BY <1>0, <1>9, <2>6 DEF NewStore, Untimed
  <2>7. CASE LoopStop
    BY <1>0, <1>9, <2>7 DEF LoopStop, Untimed
  <2>8. CASE LoopFetchOK
    BY <1>0, <1>9, <2>8 DEF LoopFetchOK, Untimed
  <2>9. CASE LoopAnnounce
    BY <1>0, <1>9, <2>9 DEF LoopAnnounce, Untimed
  <2>10. CASE LoopLocked
    BY <1>0, <1>9, <2>10 DEF LoopLocked, Untimed
  <2>11. CASE LoopStore
    BY <1>0, <1>9, <2>11 DEF LoopStore, Untimed
  <2>12. CASE LoopUnlock
    BY <1>0, <1>9, <2>12 DEF LoopUnlock, Untimed
  <2>13. ASSUME NEW c \in Callers, VerifyCall(c) \/ VerifySteps(c) PROVE Closing'
    BY <1>0, <1>9, <2>13, CallerFrame DEF Untimed
  <2>14. ASSUME NEW c \in Closers, CloseCall(c) \/ CloseSteps(c) PROVE Closing'
    BY <1>0, <1>9, <2>14, CloserFrame DEF Untimed
  <2> QED BY <1>9, <2>1, <2>2, <2>3, <2>4, <2>5, <2>6, <2>7, <2>8, <2>9, <2>10, <2>11, <2>12, <2>13, <2>14 DEF Untimed
<1>10. CASE UNCHANGED timedVars
  BY <1>0, <1>10 DEF timedVars, vars
<1> QED BY <1>1, <1>2, <1>3, <1>4, <1>5, <1>6, <1>7, <1>8, <1>9, <1>10 DEF TimedNext

(* Every step keeps the age of a stale response.                          *)
LEMMA AnswersStep ==
  ASSUME IInv, Timers, Answers, [TimedNext]_timedVars
  PROVE  Answers'
<1>0. TypeOK /\ StartInv /\ KeyInv
  BY DEF IInv
<1> USE DEF Answers, TypeOK, Timers, Installing, MaxAge, StartInv, KeyInv
<1>1. CASE Second
  BY <1>0, <1>1, SecondFrame DEF LoopRuns
<1>2. CASE TimedRotate
  BY <1>0, <1>2 DEF TimedRotate, Rotate, MaxAge
<1>3. CASE TimedNewFetchErr
  BY <1>0, <1>3 DEF TimedNewFetchErr, NewFetchErr
<1>4. CASE TimedNewRetry
  BY <1>0, <1>4 DEF TimedNewRetry, NewRetry
<1>5. CASE TimedNewGo
  BY <1>0, <1>5 DEF TimedNewGo, NewGo
<1>6. CASE TimedTicker
  BY <1>0, <1>6 DEF TimedTicker, TickerFires, LoopRuns, vars
<1>7. CASE TimedLoopTick
  BY <1>0, <1>7 DEF TimedLoopTick, LoopTick
<1>8. CASE TimedLoopFetchErr
  BY <1>0, <1>8 DEF TimedLoopFetchErr, LoopFetchErr
<1>9. CASE Untimed
  <2>1. CASE CancelCtx
    BY <1>0, <1>9, <2>1 DEF CancelCtx, Untimed
  <2>2. CASE AnswerNew
    BY <1>0, <1>9, <2>2 DEF AnswerNew, Answer, Untimed
  <2>3. CASE AnswerLoop
    BY <1>0, <1>9, <2>3 DEF AnswerLoop, Answer, Untimed
  <2>4. CASE NewFetchOK
    BY <1>0, <1>9, <2>4 DEF NewFetchOK, Untimed
  <2>5. CASE NewCancelled
    BY <1>0, <1>9, <2>5 DEF NewCancelled, Untimed
  <2>6. CASE NewStore
    BY <1>0, <1>9, <2>6 DEF NewStore, Untimed
  <2>7. CASE LoopStop
    BY <1>0, <1>9, <2>7 DEF LoopStop, Untimed
  <2>8. CASE LoopFetchOK
    BY <1>0, <1>9, <2>8 DEF LoopFetchOK, Untimed
  <2>9. CASE LoopAnnounce
    BY <1>0, <1>9, <2>9 DEF LoopAnnounce, Untimed
  <2>10. CASE LoopLocked
    BY <1>0, <1>9, <2>10 DEF LoopLocked, Untimed
  <2>11. CASE LoopStore
    BY <1>0, <1>9, <2>11 DEF LoopStore, Untimed
  <2>12. CASE LoopUnlock
    BY <1>0, <1>9, <2>12 DEF LoopUnlock, Untimed
  <2>13. ASSUME NEW c \in Callers, VerifyCall(c) \/ VerifySteps(c) PROVE Answers'
    BY <1>0, <1>9, <2>13, CallerFrame DEF Untimed
  <2>14. ASSUME NEW c \in Closers, CloseCall(c) \/ CloseSteps(c) PROVE Answers'
    BY <1>0, <1>9, <2>14, CloserFrame DEF Untimed
  <2> QED BY <1>9, <2>1, <2>2, <2>3, <2>4, <2>5, <2>6, <2>7, <2>8, <2>9, <2>10, <2>11, <2>12, <2>13, <2>14 DEF Untimed
<1>10. CASE UNCHANGED timedVars
  BY <1>0, <1>10 DEF timedVars, vars
<1> QED BY <1>1, <1>2, <1>3, <1>4, <1>5, <1>6, <1>7, <1>8, <1>9, <1>10 DEF TimedNext

(* Every step keeps the age of a stale key.                               *)
LEMMA StaleStep ==
  ASSUME IInv, Timers, Ticking, Answers, Stale, [TimedNext]_timedVars
  PROVE  Stale'
<1>0. TypeOK /\ StartInv /\ KeyInv
  BY DEF IInv
<1> USE DEF Stale, TypeOK, Timers, Installing, MaxAge, Answers, Ticking, StartInv, KeyInv
<1>1. CASE Second
  BY <1>0, <1>1, SecondFrame DEF LoopRuns
<1>2. CASE TimedRotate
  BY <1>0, <1>2 DEF TimedRotate, Rotate, MaxAge
<1>3. CASE TimedNewFetchErr
  BY <1>0, <1>3 DEF TimedNewFetchErr, NewFetchErr
<1>4. CASE TimedNewRetry
  BY <1>0, <1>4 DEF TimedNewRetry, NewRetry
<1>5. CASE TimedNewGo
  BY <1>0, <1>5 DEF TimedNewGo, NewGo
<1>6. CASE TimedTicker
  BY <1>0, <1>6 DEF TimedTicker, TickerFires, LoopRuns, vars
<1>7. CASE TimedLoopTick
  BY <1>0, <1>7 DEF TimedLoopTick, LoopTick
<1>8. CASE TimedLoopFetchErr
  BY <1>0, <1>8 DEF TimedLoopFetchErr, LoopFetchErr
<1>9. CASE Untimed
  <2>1. CASE CancelCtx
    BY <1>0, <1>9, <2>1 DEF CancelCtx, Untimed
  <2>2. CASE AnswerNew
    BY <1>0, <1>9, <2>2 DEF AnswerNew, Answer, Untimed
  <2>3. CASE AnswerLoop
    BY <1>0, <1>9, <2>3 DEF AnswerLoop, Answer, Untimed
  <2>4. CASE NewFetchOK
    BY <1>0, <1>9, <2>4 DEF NewFetchOK, Untimed
  <2>5. CASE NewCancelled
    BY <1>0, <1>9, <2>5 DEF NewCancelled, Untimed
  <2>6. CASE NewStore
    BY <1>0, <1>9, <2>6 DEF NewStore, Untimed
  <2>7. CASE LoopStop
    BY <1>0, <1>9, <2>7 DEF LoopStop, Untimed
  <2>8. CASE LoopFetchOK
    BY <1>0, <1>9, <2>8 DEF LoopFetchOK, Untimed
  <2>9. CASE LoopAnnounce
    BY <1>0, <1>9, <2>9 DEF LoopAnnounce, Untimed
  <2>10. CASE LoopLocked
    BY <1>0, <1>9, <2>10 DEF LoopLocked, Untimed
  <2>11. CASE LoopStore
    BY <1>0, <1>9, <2>11 DEF LoopStore, Untimed
  <2>12. CASE LoopUnlock
    BY <1>0, <1>9, <2>12 DEF LoopUnlock, Untimed
  <2>13. ASSUME NEW c \in Callers, VerifyCall(c) \/ VerifySteps(c) PROVE Stale'
    BY <1>0, <1>9, <2>13, CallerFrame DEF Untimed
  <2>14. ASSUME NEW c \in Closers, CloseCall(c) \/ CloseSteps(c) PROVE Stale'
    BY <1>0, <1>9, <2>14, CloserFrame DEF Untimed
  <2> QED BY <1>9, <2>1, <2>2, <2>3, <2>4, <2>5, <2>6, <2>7, <2>8, <2>9, <2>10, <2>11, <2>12, <2>13, <2>14 DEF Untimed
<1>10. CASE UNCHANGED timedVars
  BY <1>0, <1>10 DEF timedVars, vars
<1> QED BY <1>1, <1>2, <1>3, <1>4, <1>5, <1>6, <1>7, <1>8, <1>9, <1>10 DEF TimedNext

--------------------------------------------------------------------------------
(* The inductive invariant. *)

LEMMA TInvInit == TimedInit => TInv
<1> SUFFICES ASSUME TimedInit PROVE TInv
  OBVIOUS
<1>1. Timers
  <2>1. 0 \in 0..MaxAge
    BY DEF MaxAge
  <2>2. budget \in 0..Timeout /\ pause \in 0..8 /\ toTick \in 0..Interval
    BY DEF TimedInit
  <2>3. age \in 0..MaxAge
    BY <2>1 DEF TimedInit
  <2>4. Doubled
    BY DEF TimedInit, Init, Doubled
  <2> QED BY <2>2, <2>3, <2>4 DEF TimedInit, Timers
<1>2. Startup /\ Ticking /\ Closing /\ Answers /\ Stale
  BY DEF TimedInit, Init, InitNewVerifier, Startup, StartupBounded, Ticking, Closing, LoopGoneAfterClose,
         Installing, Answers, Stale
<1> QED BY <1>1, <1>2 DEF TInv

LEMMA TInvStep == IInv /\ TInv /\ [TimedNext]_timedVars => TInv'
BY TimersStep, StartupStep, TickingStep, ClosingStep, AnswersStep, StaleStep DEF TInv

(* Every reachable state satisfies both invariants. *)
THEOREM TInvariance == TimedSpec => [](IInv /\ TInv)
<1>1. TimedInit => IInv /\ TInv
  BY TInvInit, IInvInit DEF TimedInit
<1>2. IInv /\ TInv /\ [TimedNext]_timedVars => (IInv /\ TInv)'
  BY TInvStep, IInvStep, TimedStep
<1> QED BY <1>1, <1>2, PTL DEF TimedSpec

--------------------------------------------------------------------------------
(* The theorems. *)

(* The timers keep to their ranges: in particular no wait is ever longer   *)
(* than eight seconds.                                                     *)
THEOREM TimedTypeCorrect == TimedSpec => []TimedTypeOK
<1>1. IInv /\ TInv => TimedTypeOK
  BY DEF IInv, TInv, Timers, Doubled, TimedTypeOK
<1> QED BY <1>1, TInvariance, PTL

(* NewVerifier holds up a start for no more than its five timeouts and its *)
(* four backoffs.                                                          *)
THEOREM StartupBoundedThm == TimedSpec => []StartupBounded
<1>1. TInv => StartupBounded
  BY DEF TInv, Startup
<1> QED BY <1>1, TInvariance, PTL

(* After Close the loop begins at most one more fetch and is gone within   *)
(* the timeout of one.                                                     *)
THEOREM LoopGoneAfterCloseThm == TimedSpec => []LoopGoneAfterClose
<1>1. TInv => LoopGoneAfterClose
  BY DEF TInv, Closing
<1> QED BY <1>1, TInvariance, PTL

(* Unless a refresh fails, a rotation is installed within an interval and  *)
(* two timeouts.                                                           *)
THEOREM KeyFreshInTimeThm == TimedSpec => []KeyFreshInTime
<1>1. IInv /\ TInv => KeyFreshInTime
  <2> SUFFICES ASSUME IInv, TInv, LoopRuns, ~refreshFailed, key # published
               PROVE  age <= Interval + 2 * Timeout
    BY DEF KeyFreshInTime, TInv, Timers, MaxAge
  <2>1. pcLoop \in {"select", "fetch"} \union Installing
    BY DEF IInv, TypeOK, LoopRuns, Installing
  <2> QED BY <2>1 DEF TInv, Timers, Stale, Installing
<1> QED BY <1>1, TInvariance, PTL
================================================================================
