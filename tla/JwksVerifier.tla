----------------------------- MODULE JwksVerifier -----------------------------
(***************************************************************************)
(* pkg/auth/auth.go: the Verifier.  NewVerifier fetches the JWKS of the    *)
(* Users service with retries and starts refreshLoop; refreshLoop installs *)
(* the key of every successful refresh under the write lock; request       *)
(* goroutines run Verify, which reads the key under the read lock; Close   *)
(* stops refreshLoop through stopCh, once.  NewVerifierFromKey builds a    *)
(* Verifier that has a key and neither a loop nor a channel.               *)
(*                                                                         *)
(* A key is the number of its publication by Users, so an older key is a   *)
(* smaller number.  No clock: a timer may fire at any moment               *)
(* (TimedVerifier adds the clock).                                         *)
(***************************************************************************)
EXTENDS Naturals

CONSTANTS
  Callers,   \* request goroutines, which call Verify
  Closers,   \* goroutines that call Close
  MaxKey,    \* bound: Users publishes keys 1..MaxKey
  Tokens     \* the tokens presented to Verify: [signer, claimsOk]

NoKey == 0   \* nil

(* signer: the key that signed the token, NoKey when its method is not     *)
(* ECDSA; claimsOk: issuer, audience and times pass (leeway included).     *)
TokenType == [signer : 0..MaxKey, claimsOk : BOOLEAN]
NoToken == [signer |-> NoKey, claimsOk |-> FALSE]

ASSUME KeyAssumption == MaxKey \in Nat \ {0}
ASSUME TokenAssumption == Tokens \subseteq TokenType

Attempts == 5    \* the bound of NewVerifier's loop: i = 0 .. Attempts - 1

VARIABLES
  published, \* Users: the key it serves as the first entry of its JWKS
  ctxDone,   \* the startup context given to NewVerifier is done
  pcNew,     \* NewVerifier: "fetch", "backoff", "store", "go", "returned", "failed"
  i,         \* NewVerifier: its loop variable
  pcLoop,    \* refreshLoop: "off", "select", "fetch", "lock", "drain", "store", "unlock", "done"
  tick,      \* ticker.C (capacity 1) holds a tick
  got,       \* per fetching goroutine: the key of its JWKS response, NoKey before one
  key,       \* v.key
  writer,    \* v.mu: "none", "pending" (Lock waits for readers), "held"
  readers,   \* v.mu: callers that hold the read lock
  waiting,   \* v.mu: callers parked in RLock behind the writer
  stopCh,    \* v.stopCh: "nil", "open", "closed"
  closeOnce, \* v.closeOnce: "fresh", "held", "done"
  pcClose,   \* per closer: "idle", "do", "closing", "leaving", "unwinding", "returned", "panicked"
  pcCall,    \* per caller: "idle", "parse", "rlock", "parked", "read", "runlock",
             \*             "decide", "accepted", "rejected"
  tok,       \* per caller: the token of its Verify
  seen,      \* per caller: the key its getKey returned
  floor      \* per caller, history only: v.key when its Verify began

newVars == <<ctxDone, pcNew, i>>
loopVars == <<pcLoop, tick>>
muVars == <<writer, readers, waiting>>
closeVars == <<stopCh, closeOnce, pcClose>>
callVars == <<pcCall, tok, seen, floor>>
vars == <<published, newVars, loopVars, got, key, muVars, closeVars, callVars>>

Fetchers == {"new", "loop"}

TypeOK ==
  /\ published \in 1..MaxKey
  /\ ctxDone \in BOOLEAN
  /\ pcNew \in {"fetch", "backoff", "store", "go", "returned", "failed"}
  /\ i \in 0..(Attempts - 1)
  /\ pcLoop \in {"off", "select", "fetch", "lock", "drain", "store", "unlock", "done"}
  /\ tick \in BOOLEAN
  /\ got \in [Fetchers -> 0..MaxKey]
  /\ key \in 0..MaxKey
  /\ writer \in {"none", "pending", "held"}
  /\ readers \subseteq Callers
  /\ waiting \subseteq Callers
  /\ stopCh \in {"nil", "open", "closed"}
  /\ closeOnce \in {"fresh", "held", "done"}
  /\ pcClose \in [Closers -> {"idle", "do", "closing", "leaving", "unwinding",
                              "returned", "panicked"}]
  /\ pcCall \in [Callers -> {"idle", "parse", "rlock", "parked", "read", "runlock",
                             "decide", "accepted", "rejected"}]
  /\ tok \in [Callers -> TokenType]
  /\ seen \in [Callers -> 0..MaxKey]
  /\ floor \in [Callers -> 0..MaxKey]

--------------------------------------------------------------------------------
(* Construction. *)

(* The state NewVerifier's first lines build: a channel, no key yet. *)
InitNewVerifier ==
  /\ pcNew = "fetch" /\ key = NoKey /\ stopCh = "open"

(* NewVerifierFromKey: returned at once, no goroutine, stopCh left nil. *)
InitFromKey ==
  /\ pcNew = "returned" /\ key = 1 /\ stopCh = "nil"

Init ==
  /\ InitNewVerifier \/ InitFromKey
  /\ published = 1
  /\ ctxDone = FALSE
  /\ i = 0
  /\ pcLoop = "off"
  /\ tick = FALSE
  /\ got = [g \in Fetchers |-> NoKey]
  /\ writer = "none"
  /\ readers = {}
  /\ waiting = {}
  /\ closeOnce = "fresh"
  /\ pcClose = [c \in Closers |-> "idle"]
  /\ pcCall = [c \in Callers |-> "idle"]
  /\ tok = [c \in Callers |-> NoToken]
  /\ seen = [c \in Callers |-> NoKey]
  /\ floor = [c \in Callers |-> NoKey]

--------------------------------------------------------------------------------
(* The environment: the Users service and whoever owns the startup context. *)

Rotate ==
  /\ published < MaxKey
  /\ published' = published + 1
  /\ UNCHANGED <<newVars, loopVars, got, key, muVars, closeVars, callVars>>

CancelCtx ==
  /\ ~ctxDone
  /\ ctxDone' = TRUE
  /\ UNCHANGED <<published, pcNew, i, loopVars, got, key, muVars, closeVars, callVars>>

(* Users answers g's GET with its current key: from here the response is   *)
(* on its way, and a rotation leaves it behind.                            *)
Answer(g) ==
  /\ got[g] = NoKey
  /\ got' = [got EXCEPT ![g] = published]
  /\ UNCHANGED <<published, newVars, loopVars, key, muVars, closeVars, callVars>>

AnswerNew == pcNew = "fetch" /\ ~ctxDone /\ Answer("new")

(* The refresh runs under context.Background(): ctxDone does not matter. *)
AnswerLoop == pcLoop = "fetch" /\ Answer("loop")

--------------------------------------------------------------------------------
(* NewVerifier. *)

NewFetchOKEarlyGo ==     \* mutant: refreshLoop is started before v.key is set
  /\ pcNew = "fetch"
  /\ got["new"] # NoKey
  /\ pcNew' = "store"
  /\ pcLoop' = "select"
  /\ UNCHANGED <<published, ctxDone, i, tick, got, key, muVars, closeVars, callVars>>

NewFetchOK ==
  /\ pcNew = "fetch"
  /\ got["new"] # NoKey
  /\ pcNew' = "store"
  /\ UNCHANGED <<published, ctxDone, i, loopVars, got, key, muVars, closeVars, callVars>>

NewFetchErrOneLess ==     \* mutant: gives up one attempt early
  /\ pcNew = "fetch"
  /\ pcNew' = IF i < Attempts - 2 THEN "backoff" ELSE "failed"
  /\ got' = [got EXCEPT !["new"] = NoKey]
  /\ UNCHANGED <<published, ctxDone, i, loopVars, key, muVars, closeVars, callVars>>

(* Any error of fetchJWKS: transport, timeout, cancellation, status, body, *)
(* JSON, no key, curve, base64.  The last attempt returns the error.       *)
NewFetchErr ==
  /\ pcNew = "fetch"
  /\ pcNew' = IF i < Attempts - 1 THEN "backoff" ELSE "failed"
  /\ got' = [got EXCEPT !["new"] = NoKey]
  /\ UNCHANGED <<published, ctxDone, i, loopVars, key, muVars, closeVars, callVars>>

NewRetryForever ==       \* mutant: the attempt is not counted
  /\ pcNew = "backoff"
  /\ pcNew' = "fetch"
  /\ UNCHANGED <<published, ctxDone, i, loopVars, got, key, muVars, closeVars, callVars>>

(* select: the backoff timer ... *)
NewRetry ==
  /\ pcNew = "backoff"
  /\ pcNew' = "fetch"
  /\ i' = i + 1
  /\ UNCHANGED <<published, ctxDone, loopVars, got, key, muVars, closeVars, callVars>>

(* ... or the caller's context. *)
NewCancelled ==
  /\ pcNew = "backoff"
  /\ ctxDone
  /\ pcNew' = "failed"
  /\ UNCHANGED <<published, ctxDone, i, loopVars, got, key, muVars, closeVars, callVars>>

(* v.key = key, without the lock: nobody else knows v yet. *)
NewStore ==
  /\ pcNew = "store"
  /\ key' = got["new"]
  /\ pcNew' = "go"
  /\ UNCHANGED <<published, ctxDone, i, loopVars, got, muVars, closeVars, callVars>>

(* go v.refreshLoop(); return v. *)
NewGo ==
  /\ pcNew = "go"
  /\ pcNew' = "returned"
  /\ pcLoop' = "select"
  /\ got' = [got EXCEPT !["new"] = NoKey]
  /\ UNCHANGED <<published, ctxDone, i, tick, key, muVars, closeVars, callVars>>

NewVerifier == NewFetchOK \/ NewFetchErr \/ NewRetry \/ NewCancelled \/ NewStore \/ NewGo

--------------------------------------------------------------------------------
(* refreshLoop. *)

TickerFires ==
  /\ pcLoop \notin {"off", "done"}
  /\ ~tick                       \* a tick into a full channel is dropped
  /\ tick' = TRUE
  /\ UNCHANGED <<published, newVars, pcLoop, got, key, muVars, closeVars, callVars>>

LoopTick ==
  /\ pcLoop = "select"
  /\ tick
  /\ tick' = FALSE
  /\ pcLoop' = "fetch"
  /\ UNCHANGED <<published, newVars, got, key, muVars, closeVars, callVars>>

LoopStopAfterTick ==     \* mutant: a pending tick is served before stopCh is looked at
  /\ pcLoop = "select"
  /\ ~tick
  /\ stopCh = "closed"
  /\ pcLoop' = "done"
  /\ UNCHANGED <<published, newVars, tick, got, key, muVars, closeVars, callVars>>

LoopStop ==
  /\ pcLoop = "select"
  /\ stopCh = "closed"
  /\ pcLoop' = "done"
  /\ tick' = FALSE               \* defer ticker.Stop(): the channel is garbage
  /\ UNCHANGED <<published, newVars, got, key, muVars, closeVars, callVars>>

LoopFetchOK ==
  /\ pcLoop = "fetch"
  /\ got["loop"] # NoKey
  /\ pcLoop' = "lock"
  /\ UNCHANGED <<published, newVars, tick, got, key, muVars, closeVars, callVars>>

LoopFetchErrDropsKey ==  \* mutant: v.key is overwritten with the nil key of a failed fetch
  /\ pcLoop = "fetch"
  /\ pcLoop' = "select"
  /\ got' = [got EXCEPT !["loop"] = NoKey]
  /\ key' = NoKey
  /\ UNCHANGED <<published, newVars, tick, muVars, closeVars, callVars>>

LoopFetchErrReturns ==   \* mutant: return in place of continue
  /\ pcLoop = "fetch"
  /\ pcLoop' = "done"
  /\ got' = [got EXCEPT !["loop"] = NoKey]
  /\ UNCHANGED <<published, newVars, tick, key, muVars, closeVars, callVars>>

(* A failed refresh keeps the current key. *)
LoopFetchErr ==
  /\ pcLoop = "fetch"
  /\ pcLoop' = "select"
  /\ got' = [got EXCEPT !["loop"] = NoKey]
  /\ UNCHANGED <<published, newVars, tick, key, muVars, closeVars, callVars>>

LoopAnnounceUnlocked ==  \* mutant: the refresh stores without the lock
  /\ pcLoop = "lock"
  /\ pcLoop' = "store"
  /\ UNCHANGED <<published, newVars, tick, got, key, muVars, closeVars, callVars>>

(* v.mu.Lock(): from its announcement on, new readers park; the lock is    *)
(* held when the readers that were inside have left.                       *)
LoopAnnounce ==
  /\ pcLoop = "lock"
  /\ writer = "none"
  /\ writer' = "pending"
  /\ pcLoop' = "drain"
  /\ UNCHANGED <<published, newVars, tick, got, key, readers, waiting, closeVars, callVars>>

LoopLockedNoDrain ==     \* mutant: the writer does not wait for the readers inside
  /\ pcLoop = "drain"
  /\ writer' = "held"
  /\ pcLoop' = "store"
  /\ UNCHANGED <<published, newVars, tick, got, key, readers, waiting, closeVars, callVars>>

LoopLocked ==
  /\ pcLoop = "drain"
  /\ readers = {}
  /\ writer' = "held"
  /\ pcLoop' = "store"
  /\ UNCHANGED <<published, newVars, tick, got, key, readers, waiting, closeVars, callVars>>

LoopStore ==
  /\ pcLoop = "store"
  /\ key' = got["loop"]
  /\ pcLoop' = "unlock"
  /\ UNCHANGED <<published, newVars, tick, got, muVars, closeVars, callVars>>

(* v.mu.Unlock() hands the lock to every parked reader. *)
LoopUnlock ==
  /\ pcLoop = "unlock"
  /\ pcLoop' = "select"
  /\ got' = [got EXCEPT !["loop"] = NoKey]
  /\ writer' = "none"
  /\ readers' = readers \union waiting
  /\ waiting' = {}
  /\ pcCall' = [c \in Callers |-> IF c \in waiting THEN "read" ELSE pcCall[c]]
  /\ UNCHANGED <<published, newVars, tick, key, closeVars, tok, seen, floor>>

refreshLoop == LoopTick \/ LoopStop \/ LoopFetchOK \/ LoopFetchErr
               \/ LoopAnnounce \/ LoopLocked \/ LoopStore \/ LoopUnlock

--------------------------------------------------------------------------------
(* Verify and getKey. *)

VerifyCall(c) ==
  /\ pcNew = "returned"
  /\ pcCall[c] = "idle"
  /\ pcCall' = [pcCall EXCEPT ![c] = "parse"]
  /\ \E t \in Tokens : tok' = [tok EXCEPT ![c] = t]
  /\ floor' = [floor EXCEPT ![c] = key]
  /\ UNCHANGED <<published, newVars, loopVars, got, key, muVars, closeVars, seen>>

(* The key function: another signing method is an error before getKey. *)
VerifyParse(c) ==
  /\ pcCall[c] = "parse"
  /\ pcCall' = [pcCall EXCEPT ![c] = IF tok[c].signer = NoKey THEN "rejected" ELSE "rlock"]
  /\ UNCHANGED <<published, newVars, loopVars, got, key, muVars, closeVars, tok, seen, floor>>

GetKeyRLockBarging(c) == \* mutant: a pending writer does not hold readers back
  /\ pcCall[c] = "rlock"
  /\ writer # "held"
  /\ readers' = readers \union {c}
  /\ pcCall' = [pcCall EXCEPT ![c] = "read"]
  /\ UNCHANGED <<published, newVars, loopVars, got, key, writer, waiting, closeVars,
                 tok, seen, floor>>

GetKeyTryRLock(c) ==     \* mutant: TryRLock, and no key when it fails
  /\ pcCall[c] = "rlock"
  /\ IF writer = "none"
     THEN readers' = readers \union {c} /\ pcCall' = [pcCall EXCEPT ![c] = "read"]
     ELSE UNCHANGED readers /\ pcCall' = [pcCall EXCEPT ![c] = "rejected"]
  /\ UNCHANGED <<published, newVars, loopVars, got, key, writer, waiting, closeVars,
                 tok, seen, floor>>

GetKeyRLock(c) ==
  /\ pcCall[c] = "rlock"
  /\ IF writer = "none"
     THEN /\ readers' = readers \union {c}
          /\ pcCall' = [pcCall EXCEPT ![c] = "read"]
          /\ UNCHANGED waiting
     ELSE /\ waiting' = waiting \union {c}
          /\ pcCall' = [pcCall EXCEPT ![c] = "parked"]
          /\ UNCHANGED readers
  /\ UNCHANGED <<published, newVars, loopVars, got, key, writer, closeVars, tok, seen, floor>>

GetKeyRead(c) ==
  /\ pcCall[c] = "read"
  /\ seen' = [seen EXCEPT ![c] = key]
  /\ pcCall' = [pcCall EXCEPT ![c] = "runlock"]
  /\ UNCHANGED <<published, newVars, loopVars, got, key, muVars, closeVars, tok, floor>>

GetKeyNoRUnlock(c) ==    \* mutant: the read lock is not released
  /\ pcCall[c] = "runlock"
  /\ pcCall' = [pcCall EXCEPT ![c] = "decide"]
  /\ UNCHANGED <<published, newVars, loopVars, got, key, muVars, closeVars, tok, seen, floor>>

GetKeyRUnlock(c) ==
  /\ pcCall[c] = "runlock"
  /\ readers' = readers \ {c}
  /\ pcCall' = [pcCall EXCEPT ![c] = "decide"]
  /\ UNCHANGED <<published, newVars, loopVars, got, key, writer, waiting, closeVars,
                 tok, seen, floor>>

DecideWith(c, keys) ==
  /\ pcCall[c] = "decide"
  /\ pcCall' = [pcCall EXCEPT ![c] = IF tok[c].signer \in keys /\ tok[c].claimsOk
                                     THEN "accepted" ELSE "rejected"]
  /\ UNCHANGED <<published, newVars, loopVars, got, key, muVars, closeVars, tok, seen, floor>>
VerifyDecideGrace(c) == DecideWith(c, {seen[c], seen[c] - 1})  \* mutant: also the previous key
VerifyDecideReread(c) == DecideWith(c, {key})                  \* mutant: a second read of v.key

(* Signature against the key read, then the claims. *)
VerifyDecide(c) ==
  /\ pcCall[c] = "decide"
  /\ pcCall' = [pcCall EXCEPT ![c] = IF tok[c].signer = seen[c] /\ tok[c].claimsOk
                                     THEN "accepted" ELSE "rejected"]
  /\ UNCHANGED <<published, newVars, loopVars, got, key, muVars, closeVars, tok, seen, floor>>

VerifyReturn(c) ==
  /\ pcCall[c] \in {"accepted", "rejected"}
  /\ pcCall' = [pcCall EXCEPT ![c] = "idle"]
  /\ tok' = [tok EXCEPT ![c] = NoToken]
  /\ seen' = [seen EXCEPT ![c] = NoKey]
  /\ floor' = [floor EXCEPT ![c] = NoKey]
  /\ UNCHANGED <<published, newVars, loopVars, got, key, muVars, closeVars>>

VerifySteps(c) == VerifyParse(c) \/ GetKeyRLock(c) \/ GetKeyRead(c) \/ GetKeyRUnlock(c)
                  \/ VerifyDecide(c) \/ VerifyReturn(c)

--------------------------------------------------------------------------------
(* Close: closeOnce.Do(func() { close(v.stopCh) }). *)

CloseCall(c) ==
  /\ pcNew = "returned"
  /\ pcClose[c] = "idle"
  /\ pcClose' = [pcClose EXCEPT ![c] = "do"]
  /\ UNCHANGED <<published, newVars, loopVars, got, key, muVars, stopCh, closeOnce, callVars>>

OnceSkipRunning(c) ==    \* mutant: a flag in place of the Once: skips while close runs
  /\ pcClose[c] = "do"
  /\ closeOnce # "fresh"
  /\ pcClose' = [pcClose EXCEPT ![c] = "returned"]
  /\ UNCHANGED <<published, newVars, loopVars, got, key, muVars, stopCh, closeOnce, callVars>>

(* Do after a completed Do returns at once. *)
OnceSkip(c) ==
  /\ pcClose[c] = "do"
  /\ closeOnce = "done"
  /\ pcClose' = [pcClose EXCEPT ![c] = "returned"]
  /\ UNCHANGED <<published, newVars, loopVars, got, key, muVars, stopCh, closeOnce, callVars>>

CloseUnguarded(c) ==     \* mutant: close(v.stopCh) without the Once
  /\ pcClose[c] = "do"
  /\ closeOnce' = "held"
  /\ pcClose' = [pcClose EXCEPT ![c] = "closing"]
  /\ UNCHANGED <<published, newVars, loopVars, got, key, muVars, stopCh, callVars>>

(* The first Do runs the function with the Once's mutex held; a concurrent *)
(* Do waits for that mutex.                                                *)
OnceEnter(c) ==
  /\ pcClose[c] = "do"
  /\ closeOnce = "fresh"
  /\ closeOnce' = "held"
  /\ pcClose' = [pcClose EXCEPT ![c] = "closing"]
  /\ UNCHANGED <<published, newVars, loopVars, got, key, muVars, stopCh, callVars>>

(* close(v.stopCh): closing a nil or a closed channel panics. *)
CloseChan(c) ==
  /\ pcClose[c] = "closing"
  /\ IF stopCh = "open"
     THEN stopCh' = "closed" /\ pcClose' = [pcClose EXCEPT ![c] = "leaving"]
     ELSE UNCHANGED stopCh /\ pcClose' = [pcClose EXCEPT ![c] = "unwinding"]
  /\ UNCHANGED <<published, newVars, loopVars, got, key, muVars, closeOnce, callVars>>

OnceExitNoDefer(c) ==    \* mutant: a panic leaves the Once's mutex locked
  /\ pcClose[c] \in {"leaving", "unwinding"}
  /\ closeOnce' = IF pcClose[c] = "leaving" THEN "done" ELSE "held"
  /\ pcClose' = [pcClose EXCEPT ![c] = IF @ = "leaving" THEN "returned" ELSE "panicked"]
  /\ UNCHANGED <<published, newVars, loopVars, got, key, muVars, stopCh, callVars>>

(* Do's deferred calls mark it done, on a return and on a panic alike. *)
OnceExit(c) ==
  /\ pcClose[c] \in {"leaving", "unwinding"}
  /\ closeOnce' = "done"
  /\ pcClose' = [pcClose EXCEPT ![c] = IF @ = "leaving" THEN "returned" ELSE "panicked"]
  /\ UNCHANGED <<published, newVars, loopVars, got, key, muVars, stopCh, callVars>>

CloseSteps(c) == OnceSkip(c) \/ OnceEnter(c) \/ CloseChan(c) \/ OnceExit(c)

--------------------------------------------------------------------------------
(* The process may stop: no Verifier was built, or nothing of it runs on. *)
Finished ==
  /\ \/ pcNew = "failed"
     \/ /\ pcNew = "returned"
        /\ pcLoop \in {"off", "done"}
        /\ \A c \in Closers : pcClose[c] \in {"idle", "returned", "panicked"}
  /\ UNCHANGED vars

Next ==
  \/ Rotate \/ CancelCtx \/ AnswerNew \/ AnswerLoop
  \/ NewVerifier
  \/ TickerFires \/ refreshLoop
  \/ \E c \in Callers : VerifyCall(c) \/ VerifySteps(c)
  \/ \E c \in Closers : CloseCall(c) \/ CloseSteps(c)
  \/ Finished

Spec == Init /\ [][Next]_vars

(***************************************************************************)
(* Fairness: the Go scheduler runs every runnable goroutine; time passes,  *)
(* so the ticker fires, a backoff ends and a fetch ends (5 s timeout); a   *)
(* GET that does not fail is answered.  Two channels of the select ready   *)
(* at once are chosen between uniformly at random, so the stop branch is   *)
(* taken when it is ready again and again: strong fairness on LoopStop.    *)
(* Nobody is obliged to rotate, to cancel, to call Verify or to call Close.*)
(***************************************************************************)
Fairness ==
  /\ WF_vars(AnswerLoop)
  /\ WF_vars(NewVerifier)
  /\ WF_vars(TickerFires)
  /\ WF_vars(refreshLoop)
  /\ SF_vars(LoopStop)
  /\ \A c \in Callers : WF_vars(VerifySteps(c))
  /\ \A c \in Closers : WF_vars(CloseSteps(c))

FairSpec == Spec /\ Fairness

--------------------------------------------------------------------------------
(* Safety. *)

(* No two goroutines touch v.key at once unless both read it: the lockless *)
(* store of NewVerifier comes before every other access, the store of      *)
(* refreshLoop excludes every getKey.                                      *)
NoDataRace ==
  LET reading == \E c \in Callers : pcCall[c] = "read"
  IN  /\ ~(pcNew = "store" /\ (pcLoop = "store" \/ reading))
      /\ ~(pcLoop = "store" /\ reading)

(* A Verifier its caller got has a key, whatever refreshes failed since.   *)
VerifierHasKey == pcNew = "returned" => key # NoKey

(* Once a refresh has installed a key, no Verify that begins afterwards    *)
(* accepts a token signed by an older key (nor by one never installed).    *)
RetiredKeyRejected ==
  \A c \in Callers :
    pcCall[c] = "accepted" => /\ floor[c] <= tok[c].signer
                              /\ tok[c].signer <= key
                              /\ tok[c].claimsOk

(* A good token signed by the key that v held throughout the call is       *)
(* accepted: a refresh under way never makes Verify refuse it.             *)
CurrentKeyAccepted ==
  \A c \in Callers :
    (pcCall[c] = "rejected" /\ tok[c].claimsOk /\ tok[c].signer = floor[c])
      => key # floor[c]

(* When any Close has returned, the loop has been told to stop, also when  *)
(* that Close was not the one that closed the channel.                     *)
CloseTakesEffect ==
  \A c \in Closers : pcClose[c] = "returned" => stopCh # "open"

(* Concurrent and repeated Close never close the channel twice: only the   *)
(* Verifier without a channel panics, and only its first Close does.       *)
ClosePanicsOnceOnNil ==
  \A c \in Closers : pcClose[c] = "panicked" =>
    /\ stopCh = "nil"
    /\ \A d \in Closers \ {c} : pcClose[d] \in {"idle", "do", "returned"}

(* NewVerifier gives up only when its context is done or every attempt has *)
(* failed, and then leaves no goroutine behind.                            *)
StartupFailsForAReason ==
  pcNew = "failed" => (ctxDone \/ i = Attempts - 1) /\ pcLoop = "off"

(* The key never goes back to an earlier publication, whatever fetches of  *)
(* NewVerifier and refreshLoop were in flight across a rotation.           *)
KeyMonotone == [][key <= key']_key

--------------------------------------------------------------------------------
(* The inductive invariant behind the safety properties. *)

InLock == {"store", "unlock"}          \* refreshLoop between Lock and Unlock
InGetKey == {"read", "runlock"}        \* a caller between RLock and RUnlock
InOnce == {"closing", "leaving", "unwinding"}

(* The lock's bookkeeping agrees with where the goroutines are. *)
LockInv ==
  /\ writer = "none" <=> pcLoop \notin {"drain"} \union InLock
  /\ writer = "held" <=> pcLoop \in InLock
  /\ readers = {c \in Callers : pcCall[c] \in InGetKey}
  /\ waiting = {c \in Callers : pcCall[c] = "parked"}
  /\ writer = "held" => readers = {}
  /\ writer = "none" => waiting = {}

(* Until NewVerifier returns nobody else knows the Verifier. *)
StartInv ==
  /\ pcNew # "returned" => /\ pcLoop = "off"
                           /\ \A c \in Callers : pcCall[c] = "idle"
                           /\ \A c \in Closers : pcClose[c] = "idle"
  /\ pcNew \in {"go", "returned"} <=> key # NoKey
  /\ pcNew = "store" => got["new"] # NoKey
  /\ pcNew = "go" => key = got["new"]
  /\ pcNew = "backoff" => i < Attempts - 1
  /\ pcNew = "failed" => ctxDone \/ i = Attempts - 1

(* No response in flight to refreshLoop carries a key older than v.key. *)
KeyInv ==
  /\ key <= published
  /\ \A g \in Fetchers : got[g] <= published
  /\ got["loop"] # NoKey => key <= got["loop"]
  /\ pcLoop = "off" => got["loop"] = NoKey
  /\ pcLoop \in {"lock", "drain"} \union InLock => got["loop"] # NoKey

(* A Verify under way has seen a key between the one it began with and the current one. *)
CallInv ==
  \A c \in Callers :
    /\ floor[c] <= key
    /\ pcCall[c] # "idle" => floor[c] # NoKey
    /\ pcCall[c] \in {"rlock", "parked", "read", "runlock", "decide"}
         => tok[c].signer # NoKey
    /\ pcCall[c] \in {"runlock", "decide", "accepted"}
         => floor[c] <= seen[c] /\ seen[c] <= key
    /\ pcCall[c] = "accepted" => tok[c].signer = seen[c] /\ tok[c].claimsOk
    /\ (pcCall[c] = "rejected" /\ tok[c].claimsOk /\ tok[c].signer = floor[c])
         => floor[c] < key

(* One goroutine at a time is inside the Once, and stopCh tells how far it got. *)
CloseInv ==
  /\ closeOnce = "fresh" => stopCh # "closed"
  /\ closeOnce = "done" => stopCh # "open"
  /\ \A c \in Closers :
       /\ pcClose[c] \in InOnce => closeOnce = "held"
       /\ pcClose[c] = "closing" => stopCh # "closed"
       /\ pcClose[c] = "leaving" => stopCh = "closed"
       /\ pcClose[c] \in {"unwinding", "panicked"} => stopCh = "nil"
       /\ pcClose[c] \in {"returned", "panicked"} => closeOnce = "done"
       /\ \A d \in Closers \ {c} :
            /\ ~(pcClose[c] \in InOnce /\ pcClose[d] \in InOnce)
            /\ ~(pcClose[c] = "panicked" /\ pcClose[d] = "panicked")

IInv == TypeOK /\ LockInv /\ StartInv /\ KeyInv /\ CallInv /\ CloseInv

--------------------------------------------------------------------------------
(* Liveness, under FairSpec. *)

(* NewVerifier returns, with a Verifier or with an error. *)
NewVerifierEnds == <>(pcNew \in {"returned", "failed"})

(* After Close the loop ends, whatever tick, fetch or lock it is at. *)
LoopStops == stopCh = "closed" ~> pcLoop = "done"

(* A key that stays published is installed, unless refreshes keep failing, *)
(* the Verifier is closed, or it was never built from the JWKS: one failed *)
(* refresh, or any finite number, does not end the refreshing.             *)
RotationInstalled ==
  \/ []<><<LoopFetchErr>>_vars
  \/ <>(stopCh # "open")
  \/ <>(pcNew = "failed")
  \/ <>[](key = published)

(* The writer is not starved by a stream of getKey calls. *)
WriterGetsLock == pcLoop = "lock" ~> pcLoop = "store"

(* Every Verify returns, although refreshes keep taking the lock. *)
VerifyEnds == \A c \in Callers : pcCall[c] = "parse" ~> pcCall[c] = "idle"

(* Every Close ends, also one that waits for a Close that panics. *)
CloseEnds == \A c \in Closers : pcClose[c] = "do" ~> pcClose[c] \in {"returned", "panicked"}

--------------------------------------------------------------------------------
(* The register a caller of Verify sees. *)

PhaseOf(pc) ==
  CASE pc \in {"parse", "rlock", "parked", "read"} -> "asked"
    [] pc \in {"runlock", "decide"} -> "looked"
    [] OTHER -> pc

KR == INSTANCE KeyRegister WITH
        reg <- key, phase <- [c \in Callers |-> PhaseOf(pcCall[c])]

(* The lock, the retries and the loop add nothing a caller can tell from   *)
(* the atomic register of KeyRegister.                                     *)
ImplementsKeyRegister == KR!Spec

--------------------------------------------------------------------------------
(* A claim of the comments, checked by a run that refutes it. *)

(* auth.go:166: "Close stops the background loop.  Idempotent; call it at  *)
(* graceful shutdown".                                                     *)
CloseIsIdempotent == \A c \in Closers : pcClose[c] # "panicked"
================================================================================
