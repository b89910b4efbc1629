------------------------------ MODULE RateLimits ------------------------------
(***************************************************************************)
(* The rate-limit scheduler of one runner                                  *)
(* (runtime/src/models/rate-limit-scheduler.ts) and the headers it lives   *)
(* on (runtime/src/models/rate-limit.ts).                                  *)
(*                                                                         *)
(* Time is counted in ticks; a timestamp is kept as the time passed since. *)
(***************************************************************************)
EXTENDS Integers

CONSTANTS None,
          MaxRetryCycles,    \* 429 answers a call survives
          MaxWait,           \* maxWaitMsPerCycle
          Jitter,            \* jitterMs
          MinInterval,       \* minIntervalMs
          SafetyMargin,      \* safetyMarginRequests
          FallbackWindow,    \* fallback.windowMs, or the 5 s taken without it
          Horizon            \* no header names a longer reset than this

ASSUME SchedulerAssumption ==
  /\ {MaxRetryCycles, MaxWait, Jitter, MinInterval, SafetyMargin} \subseteq Nat
  /\ {FallbackWindow, Horizon} \subseteq Nat \ {0}

\* An absent value is neither a number nor the value of a header.
ASSUME AbsenceAssumption ==
  /\ None \notin Nat
  /\ None \notin [form : {"number", "duration", "date"}, n : Nat]

VARIABLES last,       \* the last snapshot with any information in it, or None
          age,        \* how long ago it was observed
          sinceCall,  \* how long ago the last call ended
          started     \* whether there was a call

schedulerVars == <<last, age, sinceCall, started>>

Least(a, b) == IF a <= b THEN a ELSE b
Positive(n) == IF n > 0 THEN n ELSE 0
OrElse(a, b) == IF a # None THEN a ELSE b

-------------------------------------------------------------------------------
(***************************************************************************)
(* Headers. A value is absent (None) or has a form: a plain number, a      *)
(* duration ("2m59.56s"), a date (n ticks from now), or something else.    *)
(***************************************************************************)
IntOrNull(v) == IF v = None THEN None ELSE IF v.form # "number" THEN None ELSE v.n

ParseResetDuration(v) ==
  IF v = None THEN None ELSE IF v.form \in {"number", "duration"} THEN v.n ELSE None

ParseRetryAfter(v) ==
  IF v = None THEN None
  ELSE IF v.form = "date" THEN Positive(v.n) ELSE ParseResetDuration(v)

ParseRateLimitHeaders(h) ==
  [retryAfter        |-> ParseRetryAfter(h.retry_after),
   remainingRequests |-> IntOrNull(h.remaining_requests),
   resetRequests     |-> ParseResetDuration(h.reset_requests),
   remainingTokens   |-> IntOrNull(h.remaining_tokens),
   resetTokens       |-> ParseResetDuration(h.reset_tokens)]

HasRateLimitInfo(s) == s # None /\ \E f \in DOMAIN s : s[f] # None

-------------------------------------------------------------------------------
SchedulerInit ==
  /\ last = None
  /\ age = 0
  /\ sinceCall = 0
  /\ started = FALSE

\* What a clock that shows t shows d ticks later, as far as anybody will read it:
\* beyond the longest reset, or beyond the interval between calls, nobody does.
Later(t, d) == Least(Horizon, t + d)
SinceThen(t, d) == Least(MinInterval, t + d)

Capped(w) == Least(MaxWait, w)

\* Fault: a quota of tokens that is used up is not waited for.
PaceWaitRequestsOnly(est) ==
  LET interval == IF started THEN Positive(MinInterval - sinceCall) ELSE 0
      reset == Positive(OrElse(last.resetRequests, OrElse(last.retryAfter, 0)) - age)
  IN  IF last # None /\ last.remainingRequests # None /\ last.remainingRequests <= SafetyMargin
      THEN IF reset > interval THEN reset ELSE interval
      ELSE interval

\* pace(estTokens): how long it would wait before a call, were there no cap. The
\* interval between calls, or the reset of a quota that is used up, if that is
\* longer; a reset the provider did not name is its Retry-After.
PaceWait(est) ==
  LET interval == IF started THEN Positive(MinInterval - sinceCall) ELSE 0
      left(reset) == Positive(OrElse(reset, OrElse(last.retryAfter, 0)) - age)
      short(remaining, need) == remaining # None /\ remaining < need
      quotas ==
        IF last = None THEN {}
        ELSE {left(last[q.reset]) : q \in
                {r \in {[left |-> "remainingRequests", reset |-> "resetRequests", need |-> SafetyMargin + 1],
                        [left |-> "remainingTokens", reset |-> "resetTokens", need |-> est]} :
                   short(last[r.left], r.need)}}
  IN  CHOOSE w \in quotas \cup {interval} : \A v \in quotas \cup {interval} : v <= w

\* waitForRetry(snapshot, cycle): the same after a 429, by what the answer said;
\* what was learned before is not consulted, for a 429 always has a snapshot.
RetryWait(snapshot) ==
  Jitter + OrElse(snapshot.retryAfter,
             OrElse(snapshot.resetRequests,
               OrElse(snapshot.resetTokens, FallbackWindow)))

\* observe(snapshot), d ticks before the next action.
ObserveThen(snapshot, d) ==
  IF HasRateLimitInfo(snapshot) THEN last' = snapshot /\ age' = Later(0, d)
  ELSE last' = last /\ age' = IF last = None THEN 0 ELSE Later(age, d)

\* Time passes and nothing is learned.
Passes(d) ==
  /\ age' = IF last = None THEN 0 ELSE Later(age, d)
  /\ sinceCall' = SinceThen(sinceCall, d)
===============================================================================
