----------------------------- MODULE TimedVerifier -----------------------------
(***************************************************************************)
(* JwksVerifier with the clock of pkg/auth/auth.go: the timeout of a       *)
(* fetch, the exponential backoff of NewVerifier and the ticker of         *)
(* refreshLoop, in seconds.  Time passes only when no goroutine can run:   *)
(* a step of Go code takes no time next to a second.                       *)
(***************************************************************************)
EXTENDS JwksVerifier

CONSTANTS
  Timeout,   \* context.WithTimeout of every fetch: 5 in the code
  Interval   \* refreshInterval: 900 in the code

ASSUME TimeAssumption == Timeout \in Nat \ {0} /\ Interval \in Nat /\ Timeout < Interval

VARIABLES
  budget,      \* seconds left to the fetch under way
  backoff,     \* NewVerifier's backoff, doubled after every wait
  pause,       \* seconds left of the wait for it
  toTick,      \* seconds to the ticker's next tick
  elapsed,     \* history: seconds since NewVerifier was called, while it runs
  age,         \* history: seconds since the last publication, up to MaxAge
  refreshFailed, \* history: a refresh has failed since then
  closedFor,   \* history: seconds since stopCh was closed, while the loop runs
  lateFetches  \* history: fetches refreshLoop began with stopCh closed

timers == <<budget, backoff, pause, toTick>>
history == <<elapsed, age, refreshFailed, closedFor, lateFetches>>
timedVars == <<vars, timers, history>>

MaxAge == Interval + 2 * Timeout + 1   \* bound on age

TimedTypeOK ==
  /\ TypeOK
  /\ budget \in 0..Timeout
  /\ backoff \in {1, 2, 4, 8, 16}
  /\ pause \in 0..8
  /\ toTick \in 0..Interval
  /\ age \in 0..MaxAge
  /\ refreshFailed \in BOOLEAN
  /\ elapsed \in Nat /\ closedFor \in Nat /\ lateFetches \in Nat

TimedInit ==
  /\ Init /\ InitNewVerifier
  /\ budget = Timeout /\ backoff = 1 /\ pause = 0 /\ toTick = Interval
  /\ elapsed = 0 /\ age = 0 /\ refreshFailed = FALSE /\ closedFor = 0 /\ lateFetches = 0

LoopRuns == pcLoop \notin {"off", "done"}

(* A timer has expired or a goroutine is not blocked. *)
Urgent ==
  \/ pcNew = "fetch" /\ (budget = 0 \/ ctxDone)
  \/ pcNew = "backoff" /\ (pause = 0 \/ ctxDone)
  \/ pcNew \in {"store", "go"}
  \/ LoopRuns /\ toTick = 0
  \/ pcLoop = "fetch" /\ budget = 0
  \/ pcLoop = "select" /\ (tick \/ stopCh = "closed")
  \/ pcLoop \in {"lock", "drain", "store", "unlock"}
  \/ \E c \in Callers : pcCall[c] # "idle"
  \/ \E c \in Closers : pcClose[c] \notin {"idle", "returned", "panicked"}

Less(x) == IF x > 0 THEN x - 1 ELSE 0

Second ==
  /\ ~Urgent
  /\ budget' = Less(budget)
  /\ pause' = Less(pause)
  /\ toTick' = IF LoopRuns THEN toTick - 1 ELSE toTick
  /\ elapsed' = IF pcNew \in {"fetch", "backoff"} THEN elapsed + 1 ELSE elapsed
  /\ age' = IF age < MaxAge THEN age + 1 ELSE age
  /\ closedFor' = IF stopCh = "closed" /\ LoopRuns THEN closedFor + 1 ELSE closedFor
  /\ UNCHANGED <<vars, backoff, refreshFailed, lateFetches>>

TimedRotate ==
  /\ Rotate
  /\ age' = 0 /\ refreshFailed' = FALSE
  /\ UNCHANGED <<timers, elapsed, closedFor, lateFetches>>

TimedNewFetchErr ==
  /\ NewFetchErr
  /\ pause' = IF pcNew' = "backoff" THEN backoff ELSE 0
  /\ UNCHANGED <<budget, backoff, toTick, history>>

TimedNewRetryTriples ==        \* mutant: another growth factor
  /\ pause = 0
  /\ NewRetry
  /\ budget' = Timeout
  /\ backoff' = 3 * backoff
  /\ UNCHANGED <<pause, toTick, history>>

TimedNewRetry ==
  /\ pause = 0
  /\ NewRetry
  /\ budget' = Timeout
  /\ backoff' = 2 * backoff
  /\ UNCHANGED <<pause, toTick, history>>

TimedNewGo ==
  /\ NewGo
  /\ toTick' = Interval       \* time.NewTicker, the loop's first statement
  /\ elapsed' = 0
  /\ UNCHANGED <<budget, backoff, pause, age, refreshFailed, closedFor, lateFetches>>

(* A full channel drops the tick; the ticker keeps its period either way. *)
TimedTicker ==
  /\ LoopRuns
  /\ toTick = 0
  /\ toTick' = Interval
  /\ TickerFires \/ (tick /\ UNCHANGED vars)
  /\ UNCHANGED <<budget, backoff, pause, history>>

TimedLoopTickSlow ==           \* mutant: the refresh may take as long as the interval
  /\ LoopTick
  /\ budget' = Interval
  /\ lateFetches' = IF stopCh = "closed" THEN lateFetches + 1 ELSE lateFetches
  /\ UNCHANGED <<backoff, pause, toTick, elapsed, age, refreshFailed, closedFor>>

TimedLoopTick ==
  /\ LoopTick
  /\ budget' = Timeout
  /\ lateFetches' = IF stopCh = "closed" THEN lateFetches + 1 ELSE lateFetches
  /\ UNCHANGED <<backoff, pause, toTick, elapsed, age, refreshFailed, closedFor>>

TimedLoopFetchErrEager ==      \* mutant: a failed refresh is tried again at once
  /\ LoopFetchErr
  /\ refreshFailed' = TRUE
  /\ toTick' = 0
  /\ UNCHANGED <<budget, backoff, pause, elapsed, age, closedFor, lateFetches>>

TimedLoopFetchErr ==
  /\ LoopFetchErr
  /\ refreshFailed' = TRUE
  /\ UNCHANGED <<timers, elapsed, age, closedFor, lateFetches>>

(* The other steps neither start nor read a timer. *)
Untimed ==
  /\ \/ CancelCtx \/ AnswerNew \/ AnswerLoop
     \/ NewFetchOK \/ NewCancelled \/ NewStore
     \/ LoopStop \/ LoopFetchOK \/ LoopAnnounce \/ LoopLocked \/ LoopStore \/ LoopUnlock
     \/ \E c \in Callers : VerifyCall(c) \/ VerifySteps(c)
     \/ \E c \in Closers : CloseCall(c) \/ CloseSteps(c)
  /\ UNCHANGED <<timers, history>>

TimedNext ==
  \/ Second \/ TimedRotate
  \/ TimedNewFetchErr \/ TimedNewRetry \/ TimedNewGo
  \/ TimedTicker \/ TimedLoopTick \/ TimedLoopFetchErr
  \/ Untimed

TimedSpec == TimedInit /\ [][TimedNext]_timedVars

--------------------------------------------------------------------------------
(* NewVerifier holds up a service's start for at most five timeouts and    *)
(* the four backoffs, 40 s in the code.                                    *)
StartupBounded == elapsed <= Attempts * Timeout + (1 + 2 + 4 + 8)

(* A rotation reaches a running Verifier within a refresh interval and two *)
(* fetches, unless a refresh fails.  Two, not one: the first key may be    *)
(* answered just before the rotation and delivered a timeout later, and    *)
(* only then does the ticker start.                                        *)
KeyFreshInTime ==
  (LoopRuns /\ stopCh = "open" /\ ~refreshFailed /\ age > Interval + 2 * Timeout)
    => key = published

(* Close does not wait for the loop, but after it the loop begins at most  *)
(* one more fetch (a tick that was ready too) and is gone within a timeout.*)
LoopGoneAfterClose == lateFetches <= 1 /\ closedFor <= Timeout

================================================================================
