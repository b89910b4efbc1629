------------------------------ MODULE CallProofs ------------------------------
(***************************************************************************)
(* Machine-checked proof that a real model call keeps CallContract, for    *)
(* any scheduler, any number of retries and cycles and any provider.       *)
(***************************************************************************)
EXTENDS ModelCall, TLAPS

\* The changes of format made so far, by this call or one before it: each is made
\* once in the life of a client.
Changes == (IF schemaOff THEN 1 ELSE 0) + (IF promptOnly THEN 1 ELSE 0)

\* The requests that c cycles and their retries may have cost.
Cost(c) == c * (MaxRetries + 1)

\* What three loops inside one another have counted: `attempt` is bounded within a
\* cycle but for the turns that changes of format earn, and `sent` over all cycles.
Counted ==
  /\ pc \in {"idle", "call", "send", "sent", "body"}
  /\ schemaOff \in BOOLEAN /\ promptOnly \in BOOLEAN
  /\ cycle \in 0 .. MaxRetryCycles /\ limited = cycle
  /\ attempt \in Nat /\ degrades \in 0 .. Changes /\ sent \in Nat
  /\ attempt <= MaxRetries + degrades
  /\ sent >= cycle
  /\ pc = "idle" => cycle = 0 /\ sent = 0
  /\ pc = "call" => sent <= Cost(cycle) + Changes
  /\ pc = "send" => sent <= Cost(cycle) + Changes - degrades + attempt
  /\ pc \in {"sent", "body"} =>
       sent > cycle /\ sent <= Cost(cycle) + Changes - degrades + attempt + 1

-------------------------------------------------------------------------------
LEMMA CostGrows ==
  /\ \A c \in Nat : Cost(c) \in Nat /\ Cost(c + 1) = Cost(c) + MaxRetries + 1
  /\ Cost(0) = 0
  BY ClientAssumption DEF Cost

LEMMA CostIsMonotone ==
  \A c \in 0 .. MaxRetryCycles : Cost(c) <= Cost(MaxRetryCycles)
  BY ClientAssumption, SchedulerAssumption DEF Cost

LEMMA CallBegins == CallInit => Counted /\ Contract!Init
<1> SUFFICES ASSUME CallInit PROVE Counted /\ Contract!Init
  OBVIOUS
<1>1. /\ pc = "idle" /\ outcome = "REPLY" /\ attempt = 0 /\ degrades = 0 /\ cycle = 0
      /\ schemaOff = FALSE /\ promptOnly = FALSE /\ sent = 0 /\ limited = 0
  BY DEF CallInit
<1>2. Counted
  <2>1. Changes = 0
    BY <1>1 DEF Changes
  <2>2. MaxRetryCycles \in Nat /\ MaxRetries \in Nat
    BY ClientAssumption, SchedulerAssumption
  <2>3. Cost(0) = 0
    BY CostGrows
  <2>4. 0 \in 0 .. MaxRetryCycles /\ 0 <= MaxRetries + 0
    BY <2>2
  <2>5. /\ pc \in {"idle", "call", "send", "sent", "body"}
        /\ schemaOff \in BOOLEAN /\ promptOnly \in BOOLEAN
    BY <1>1
  <2>6. degrades \in 0 .. Changes
    BY <1>1, <2>1
  <2> QED
    BY <1>1, <2>3, <2>4, <2>5, <2>6 DEF Counted
<1>3. Contract!Init
  BY <1>1 DEF Contract!Init
<1> QED
  BY <1>2, <1>3

\* The call returns with a code that it is entitled to.
LEMMA CallReturns ==
  ASSUME Counted, pc # "idle", NEW code, Return(code), UNCHANGED <<schemaOff, promptOnly>>,
         code \in Contract!CallOutcome,
         code \in {"REPLY", "RATE_LIMIT_EXHAUSTED"} => pc = "body",
         code = "RATE_LIMIT_EXHAUSTED" => cycle = MaxRetryCycles
  PROVE  Counted' /\ Contract!Next
<1>1. Counted'
  BY ClientAssumption, SchedulerAssumption, CostGrows DEF Counted, Return, Changes
<1>2. Contract!Return(code)
  BY DEF Counted, Return, Contract!Return
<1>3. Contract!Next
  BY <1>2 DEF Contract!Next
<1> QED
  BY <1>1, <1>3

\* The loop of generate goes round again, because a retry is left or because the
\* format was changed.
LEMMA LoopGoesOn ==
  ASSUME Counted, pc \in {"sent", "body"}, NEW extra \in 0 .. 1, Again(extra),
         schemaOff' \in BOOLEAN, promptOnly' \in BOOLEAN, Changes' = Changes + extra,
         extra = 0 => attempt < MaxRetries
  PROVE  Counted' /\ UNCHANGED Contract!vars
<1>1. /\ pc' = "send" /\ attempt' = attempt + 1 /\ degrades' = degrades + extra
      /\ UNCHANGED <<cycle, outcome, sent, limited>>
  BY DEF Again
<1>2. Changes \in Nat
  BY DEF Counted, Changes
<1>3. Counted'
  BY <1>1, <1>2, CostGrows, ClientAssumption, SchedulerAssumption, SMTT(20) DEF Counted
<1>4. UNCHANGED Contract!vars
  BY <1>1 DEF Contract!vars
<1> QED
  BY <1>3, <1>4

-------------------------------------------------------------------------------
CallFailures == Contract!CallError \ {"RATE_LIMIT_EXHAUSTED"}

LEMMA Throws ==
  ASSUME Counted, pc # "idle", NEW code \in CallFailures, ThrowOn(code)
  PROVE  Counted' /\ Contract!Next
<1>1. Return(code) /\ UNCHANGED <<schemaOff, promptOnly>>
  BY DEF ThrowOn
<1>2. code \in Contract!CallOutcome /\ code \notin {"REPLY", "RATE_LIMIT_EXHAUSTED"}
  BY DEF CallFailures, Contract!CallOutcome, Contract!CallError, Contract!ProviderError
<1> QED
  BY <1>1, <1>2, CallReturns

LEMMA Retries ==
  ASSUME Counted, pc \in {"sent", "body"}, NEW code \in CallFailures, RetryOrThrow(code)
  PROVE  Counted' /\ (Contract!Next \/ UNCHANGED Contract!vars)
<1>1. CASE attempt < MaxRetries
  <2>1. Again(0) /\ UNCHANGED <<schemaOff, promptOnly>>
    BY <1>1 DEF RetryOrThrow
  <2>2. Changes' = Changes + 0
    BY <2>1 DEF Counted, Changes
  <2>3. schemaOff' \in BOOLEAN /\ promptOnly' \in BOOLEAN
    BY <2>1 DEF Counted
  <2> QED
    BY <1>1, <2>1, <2>2, <2>3, LoopGoesOn
<1>2. CASE ~(attempt < MaxRetries)
  BY <1>2, Throws DEF RetryOrThrow
<1> QED
  BY <1>1, <1>2

\* After a limit the call goes round its outer loop, or gives up after all its cycles.
LEMMA Limits ==
  ASSUME Counted, pc = "body", LimitReached
  PROVE  Counted' /\ Contract!Next
<1>1. CASE cycle < MaxRetryCycles
  <2>1. /\ pc' = "call" /\ cycle' = cycle + 1 /\ limited' = limited + 1
        /\ UNCHANGED <<loopVars, outcome, sent>>
    BY <1>1 DEF LimitReached, WaitForRetry
  <2>2. Counted'
    BY <1>1, <2>1, CostGrows, ClientAssumption, SchedulerAssumption
       DEF Counted, loopVars, Changes
  <2>3. Contract!Limited
    BY <1>1, <2>1 DEF Counted, Contract!Limited
  <2> QED
    BY <2>2, <2>3 DEF Contract!Next
<1>2. CASE ~(cycle < MaxRetryCycles)
  <2>1. Return("RATE_LIMIT_EXHAUSTED") /\ UNCHANGED <<schemaOff, promptOnly>>
    BY <1>2 DEF LimitReached
  <2>2. cycle = MaxRetryCycles
    BY <1>2, SchedulerAssumption DEF Counted
  <2>3. "RATE_LIMIT_EXHAUSTED" \in Contract!CallOutcome
    BY DEF Contract!CallOutcome, Contract!CallError, Contract!ProviderError
  <2> QED
    BY <2>1, <2>2, <2>3, CallReturns
<1> QED
  BY <1>1, <1>2

LEMMA BodyStep ==
  ASSUME Counted, NEW breaks \in BOOLEAN, Body(breaks)
  PROVE  Counted' /\ (Contract!Next \/ UNCHANGED Contract!vars)
<1> DEFINE body == IF ~breaks THEN answer.body
                   ELSE IF answer.status = 200 THEN "broken" ELSE "error"
<1>1. /\ pc = "body"
      /\ BodyOfLimit(body) \/ BodyOfRefusal(body) \/ BodyOf5xx \/ BodyOfReply(body)
  BY DEF Body
<1> HIDE DEF body
<1>2. CASE BodyOfLimit(body)
  BY <1>1, <1>2, Throws, Limits DEF BodyOfLimit, CallFailures, Contract!CallError, Contract!ProviderError
<1>3. CASE BodyOfRefusal(body)
  <2>1. CASE LimitReached
    BY <1>1, <2>1, Limits
  <2>2. CASE /\ ~schemaOff /\ schemaOff' = TRUE /\ UNCHANGED promptOnly /\ Again(1)
    <3>1. Changes' = Changes + 1
      BY <2>2 DEF Counted, Changes
    <3> QED
      BY <1>1, <2>2, <3>1, LoopGoesOn DEF Counted
  <2>3. CASE /\ ~promptOnly /\ promptOnly' = TRUE /\ UNCHANGED schemaOff /\ Again(1)
    <3>1. Changes' = Changes + 1
      BY <2>3 DEF Counted, Changes
    <3> QED
      BY <1>1, <2>3, <3>1, LoopGoesOn DEF Counted
  <2>4. CASE ThrowOn("PROVIDER_HTTP")
    BY <1>1, <2>4, Throws DEF CallFailures, Contract!CallError, Contract!ProviderError
  <2> DEFINE disguised == answer.status # 401 /\ body = "ratelimit"
             noSchema == answer.status = 400 /\ JsonSchema /\ ~schemaOff /\ body \in {"schema", "generate"}
             noFormat == answer.status = 400 /\ schemaOff /\ ~promptOnly /\ body = "generate"
  <2>5. CASE disguised
    BY <1>3, <2>1, <2>5 DEF BodyOfRefusal
  <2>6. CASE ~disguised /\ noSchema
    BY <1>3, <2>2, <2>6 DEF BodyOfRefusal
  <2>7. CASE ~disguised /\ ~noSchema /\ noFormat
    BY <1>3, <2>3, <2>7 DEF BodyOfRefusal
  <2>8. CASE ~disguised /\ ~noSchema /\ ~noFormat
    BY <1>3, <2>4, <2>8 DEF BodyOfRefusal
  <2> QED
    BY <2>5, <2>6, <2>7, <2>8
<1>4. CASE BodyOf5xx
  BY <1>1, <1>4, Retries DEF BodyOf5xx, CallFailures, Contract!CallError, Contract!ProviderError
<1>5. CASE BodyOfReply(body)
  <2>1. CASE RetryOrThrow("PROVIDER_NETWORK") \/ RetryOrThrow("PROVIDER_EMPTY")
    BY <1>1, <2>1, Retries DEF CallFailures, Contract!CallError, Contract!ProviderError
  <2>2. CASE ThrowOn("PROVIDER_API_ERROR")
    BY <1>1, <2>2, Throws DEF CallFailures, Contract!CallError, Contract!ProviderError
  <2>3. CASE Return("REPLY") /\ UNCHANGED <<schemaOff, promptOnly>>
    BY <1>1, <2>3, CallReturns DEF Contract!CallOutcome
  <2> QED
    BY <1>5, <2>1, <2>2, <2>3 DEF BodyOfReply
<1> QED
  BY <1>1, <1>2, <1>3, <1>4, <1>5

-------------------------------------------------------------------------------
LEMMA CallStep ==
  ASSUME Counted, [CallNext]_callVars
  PROVE  Counted' /\ (Contract!Next \/ UNCHANGED Contract!vars)
<1>1. CASE UNCHANGED callVars
  BY <1>1 DEF callVars, loopVars, Counted, Changes, Contract!vars
<1>2. ASSUME NEW d \in 0 .. 2, BeginCall(d)
      PROVE  Counted' /\ Contract!Next
  <2>1. /\ pc = "idle" /\ pc' = "call"
        /\ UNCHANGED <<loopVars, cycle, outcome, sent, limited>>
    BY <1>2 DEF BeginCall
  <2>2. Counted'
    BY <2>1, CostGrows DEF Counted, loopVars, Changes
  <2>3. Contract!Call
    BY <2>1 DEF Contract!Call
  <2> QED
    BY <2>2, <2>3 DEF Contract!Next
<1>3. CASE PaceAndGenerate
  <2>1. /\ pc = "call" /\ pc' = "send" /\ attempt' = 0 /\ degrades' = 0
        /\ UNCHANGED <<cycle, schemaOff, promptOnly, outcome, sent, limited>>
    BY <1>3 DEF PaceAndGenerate
  <2>2. Counted'
    BY <2>1, CostGrows, ClientAssumption DEF Counted, Changes
  <2>3. UNCHANGED Contract!vars
    BY <2>1 DEF Contract!vars
  <2> QED
    BY <2>2, <2>3
<1>4. CASE NoKey
  BY <1>4, Throws DEF NoKey, CallFailures, Contract!CallError, Contract!ProviderError
<1>5. CASE Send
  <2>1. /\ pc = "send" /\ pc' = "sent" /\ sent' = sent + 1
        /\ UNCHANGED <<loopVars, cycle, outcome, limited>>
    BY <1>5 DEF Send
  <2>2. Counted'
    BY <2>1, CostGrows DEF Counted, loopVars, Changes
  <2>3. sent < RequestsBound
    <3>1. sent <= Cost(cycle) + Changes + MaxRetries /\ Changes \in 0 .. 2
      BY <2>1, CostGrows, ClientAssumption DEF Counted, Changes
    <3>2. /\ Cost(cycle) <= Cost(MaxRetryCycles)
          /\ RequestsBound = Cost(MaxRetryCycles) + MaxRetries + 3
      BY CostIsMonotone, CostGrows, ClientAssumption, SchedulerAssumption
         DEF Counted, RequestsBound, Cost
    <3>3. Cost(cycle) \in Nat /\ Cost(MaxRetryCycles) \in Nat /\ MaxRetries \in Nat /\ sent \in Nat
      BY CostGrows, ClientAssumption, SchedulerAssumption DEF Counted
    <3> QED
      BY <3>1, <3>2, <3>3
  <2>4. Contract!Request
    BY <2>1, <2>3 DEF Contract!Request
  <2> QED
    BY <2>2, <2>4 DEF Contract!Next
<1>6. ASSUME NEW status, NEW body, NEW n, NEW h, NEW d, Headers(status, body, n, h, d)
      PROVE  Counted' /\ UNCHANGED Contract!vars
  <2>1. /\ pc = "sent" /\ pc' = "body"
        /\ UNCHANGED <<loopVars, cycle, outcome, sent, limited>>
    BY <1>6 DEF Headers
  <2>2. Counted'
    BY <2>1 DEF Counted, loopVars, Changes
  <2>3. UNCHANGED Contract!vars
    BY <2>1 DEF Contract!vars
  <2> QED
    BY <2>2, <2>3
<1>7. CASE BodyEnds
  BY <1>7, BodyStep DEF BodyEnds
<1>8. CASE Timer \/ NoAnswer("PROVIDER_NETWORK")
  BY <1>8, Retries DEF Timer, NoAnswer, CallFailures, Contract!CallError, Contract!ProviderError
<1> QED
  BY <1>1, <1>2, <1>3, <1>4, <1>5, <1>6, <1>7, <1>8 DEF CallNext, Client

\* For any number of retries and cycles, any windows and any answers: a call ends
\* with a reply or one error, sends no more requests than its three loops allow
\* together, and declares the quota exhausted only after all its cycles.
THEOREM CallKeepsContract == CallSpec => ImplementsCallContract
<1>1. Counted /\ [CallNext]_callVars => Counted' /\ [Contract!Next]_(Contract!vars)
  BY CallStep
<1> QED
  BY <1>1, CallBegins, PTL DEF CallSpec, ImplementsCallContract, Contract!Spec

-------------------------------------------------------------------------------
(***************************************************************************)
(* No request goes out in a window that was announced. What the scheduler  *)
(* keeps of an announcement is one snapshot and its age; the invariant     *)
(* relates it to the time for which the provider will really refuse.       *)
(***************************************************************************)
MaybeNat == Nat \cup {None}

Snapshot == [retryAfter : MaybeNat, remainingRequests : MaybeNat, resetRequests : MaybeNat,
             remainingTokens : MaybeNat, resetTokens : MaybeNat]

\* s says that a quota is used up and open again after n ticks.
NamesQuota(s, n) ==
  \/ s.remainingRequests = 0 /\ s.resetRequests = n
  \/ s.remainingTokens = 0 /\ s.resetTokens = n

\* s says so, or that the call may be made again after n ticks.
Announces(s, n) ==
  \/ s.retryAfter = n
  \/ NamesQuota(s, n)

ClocksOK ==
  /\ closed \in 0 .. Horizon /\ age \in 0 .. Horizon /\ sinceCall \in Nat
  /\ started \in BOOLEAN /\ heard \in BOOLEAN /\ capped \in BOOLEAN
  /\ last \in Snapshot \cup {None}

\* What is known of the closed window by an answer that is about to be read.
AnswerAnnounces ==
  /\ ~heard
  /\ answer.headers \in Snapshot
  /\ HasRateLimitInfo(answer.headers) =>
       \E n \in 0 .. Horizon : closed <= n /\ Announces(answer.headers, n)
  /\ answer.status = 200 => answer.headers.retryAfter = None

\* The scheduler knows how long the window stays closed, and will wait for it.
WillBeWaitedFor ==
  closed > 0 /\ heard =>
    \/ capped
    \/ last # None /\ \E n \in 0 .. Horizon : NamesQuota(last, n) /\ closed <= n - age

HeardInv ==
  /\ ClocksOK
  /\ pc \in {"idle", "call", "send", "sent", "body"}
  /\ pc = "body" => AnswerAnnounces
  /\ pc \in {"send", "sent"} => (closed > 0 /\ heard => capped)
  /\ pc = "call" \/ (pc = "idle" /\ outcome = "REPLY") => WillBeWaitedFor

-------------------------------------------------------------------------------
\* A header that is there is not absent, and reads as its number.
LEMMA ValueRead ==
  ASSUME NEW n \in Nat
  PROVE  /\ IntOrNull(Number(n)) = n
         /\ ParseResetDuration(Lasting(n)) = n
         /\ ParseRetryAfter(Number(n)) = n
         /\ ParseRetryAfter([form |-> "date", n |-> n]) = n
         /\ IntOrNull(None) = None /\ ParseResetDuration(None) = None
         /\ ParseRetryAfter(None) = None
<1>1. ASSUME NEW form \in {"number", "duration", "date"}
      PROVE  [form |-> form, n |-> n] # None
  BY <1>1, AbsenceAssumption
<1>2. Number(n) # None /\ Lasting(n) # None /\ [form |-> "date", n |-> n] # None
  BY <1>1 DEF Number, Lasting
<1> QED
  BY <1>2 DEF IntOrNull, ParseResetDuration, ParseRetryAfter, Positive, Number, Lasting

\* Whatever form an announcement takes, the snapshot names its window.
LEMMA AnnouncementRead ==
  ASSUME NEW n \in Nat, NEW h \in {Silent} \cup Announcements(n)
  PROVE  /\ ParseRateLimitHeaders(h) \in Snapshot
         /\ HasRateLimitInfo(ParseRateLimitHeaders(h)) => Announces(ParseRateLimitHeaders(h), n)
         /\ h.retry_after = None => ParseRateLimitHeaders(h).retryAfter = None
<1> DEFINE snap(ra, rr, sr, rt, st) ==
             [retryAfter |-> ra, remainingRequests |-> rr, resetRequests |-> sr,
              remainingTokens |-> rt, resetTokens |-> st]
<1>1. CASE h = Silent
  <2>1. ParseRateLimitHeaders(h) = snap(None, None, None, None, None)
    BY <1>1, ValueRead DEF ParseRateLimitHeaders, Silent
  <2> QED
    BY <2>1 DEF Snapshot, MaybeNat, HasRateLimitInfo
<1>2. CASE h \in {[Silent EXCEPT !.retry_after = Number(n)],
                  [Silent EXCEPT !.retry_after = [form |-> "date", n |-> n]]}
  <2>1. ParseRateLimitHeaders(h) = snap(n, None, None, None, None) /\ h.retry_after # None
    <3>1. Number(n) # None /\ [form |-> "date", n |-> n] # None
      BY AbsenceAssumption DEF Number
    <3> QED
      BY <1>2, <3>1, ValueRead DEF ParseRateLimitHeaders, Silent
  <2> QED
    BY <2>1 DEF Snapshot, MaybeNat, Announces
<1>3. CASE h = [Silent EXCEPT !.remaining_requests = Number(0), !.reset_requests = Lasting(n)]
  <2>1. ParseRateLimitHeaders(h) = snap(None, 0, n, None, None)
    BY <1>3, ValueRead DEF ParseRateLimitHeaders, Silent
  <2> QED
    BY <2>1 DEF Snapshot, MaybeNat, Announces, NamesQuota
<1>4. CASE h = [Silent EXCEPT !.remaining_requests = Number(9), !.reset_requests = Lasting(1),
                              !.remaining_tokens = Number(0), !.reset_tokens = Lasting(n)]
  <2>1. ParseRateLimitHeaders(h) = snap(None, 9, 1, 0, n)
    BY <1>4, ValueRead DEF ParseRateLimitHeaders, Silent
  <2> QED
    BY <2>1 DEF Snapshot, MaybeNat, Announces, NamesQuota
<1> QED
  BY <1>1, <1>2, <1>3, <1>4 DEF Announcements

\* Of at most three waits there is a longest.
LEMMA LongestOfThree ==
  ASSUME NEW S \in SUBSET Nat, NEW a \in Nat, NEW b \in Nat, NEW c \in Nat,
         S \subseteq {a, b, c}, S # {}
  PROVE  LET w == CHOOSE w \in S : \A v \in S : v <= w
         IN  w \in Nat /\ \A v \in S : v <= w
<1>1. \E w \in S : \A v \in S : v <= w
  <2>1. CASE a \in S /\ (b \in S => b <= a) /\ (c \in S => c <= a)
    BY <2>1
  <2>2. CASE b \in S /\ (a \in S => a <= b) /\ (c \in S => c <= b)
    BY <2>2
  <2>3. CASE c \in S /\ (a \in S => a <= c) /\ (b \in S => b <= c)
    BY <2>3
  <2>4. a \in S \/ b \in S \/ c \in S
    OBVIOUS
  <2>5. /\ a <= b \/ b <= a
        /\ b <= c \/ c <= b
        /\ a <= c \/ c <= a
    OBVIOUS
  <2> QED
    BY <2>1, <2>2, <2>3, <2>4, <2>5
<1> QED
  BY <1>1

\* pace() waits at least until a quota that is used up is open again.
LEMMA PaceIsLongEnough ==
  ASSUME ClocksOK
  PROVE  /\ PaceWait(EstTokens) \in Nat
         /\ last # None => \A n \in 0 .. Horizon :
              NamesQuota(last, n) => n - age <= PaceWait(EstTokens)
<1> DEFINE interval == IF started THEN Positive(MinInterval - sinceCall) ELSE 0
           left(reset) == Positive(OrElse(reset, OrElse(last.retryAfter, 0)) - age)
           short(remaining, need) == remaining # None /\ remaining < need
           requests == [left |-> "remainingRequests", reset |-> "resetRequests",
                        need |-> SafetyMargin + 1]
           budget == [left |-> "remainingTokens", reset |-> "resetTokens", need |-> EstTokens]
           used == {r \in {requests, budget} : short(last[r.left], r.need)}
           quotas == IF last = None THEN {} ELSE {left(last[q.reset]) : q \in used}
           S == quotas \cup {interval}
           w == CHOOSE w \in S : \A v \in S : v <= w
<1>1. PaceWait(EstTokens) = w
  BY DEF PaceWait
<1>2. interval \in Nat
  BY SchedulerAssumption DEF ClocksOK, Positive
<1>3. CASE last = None
  <2>1. S = {interval}
    BY <1>3
  <2> HIDE DEF S, interval
  <2> QED
    BY <1>1, <1>2, <1>3, <2>1, LongestOfThree
<1>4. CASE last # None
  <2>1. last \in Snapshot
    BY <1>4 DEF ClocksOK
  <2>2. ASSUME NEW reset \in MaybeNat
        PROVE  left(reset) \in Nat /\ (reset # None => left(reset) >= reset - age)
    <3>1. last.retryAfter \in MaybeNat
      BY <2>1 DEF Snapshot
    <3> QED
      BY <2>2, <3>1 DEF MaybeNat, OrElse, Positive, ClocksOK
  <2>3. last.resetRequests \in MaybeNat /\ last.resetTokens \in MaybeNat
    BY <2>1 DEF Snapshot
  <2>4. S \subseteq {left(last.resetRequests), left(last.resetTokens), interval} /\ interval \in S
    BY <1>4
  <2>5. ASSUME short(last.remainingRequests, SafetyMargin + 1)
        PROVE  left(last.resetRequests) \in S
    <3>1. requests \in used
      BY <2>5
    <3>2. left(last[requests.reset]) \in quotas
      <4> HIDE DEF requests, left, used
      <4> QED
        BY <1>4, <3>1
    <3> QED
      BY <3>2
  <2>6. ASSUME short(last.remainingTokens, EstTokens)
        PROVE  left(last.resetTokens) \in S
    <3>1. budget \in used
      BY <2>6
    <3>2. left(last[budget.reset]) \in quotas
      <4> HIDE DEF budget, left, used
      <4> QED
        BY <1>4, <3>1
    <3> QED
      BY <3>2
  <2>7. ASSUME NEW n \in 0 .. Horizon, NamesQuota(last, n)
        PROVE  \E v \in S : v >= n - age
    <3>1. n # None /\ 0 # None /\ 0 < SafetyMargin + 1 /\ 0 < EstTokens
      BY AbsenceAssumption, SchedulerAssumption, ClientAssumption
    <3> HIDE DEF S, left
    <3>2. CASE last.remainingRequests = 0 /\ last.resetRequests = n
      BY <2>2, <2>3, <2>5, <3>1, <3>2
    <3>3. CASE last.remainingTokens = 0 /\ last.resetTokens = n
      BY <2>2, <2>3, <2>6, <3>1, <3>3
    <3> QED
      BY <2>7, <3>2, <3>3 DEF NamesQuota
  <2>8. left(last.resetRequests) \in Nat /\ left(last.resetTokens) \in Nat
    BY <2>2, <2>3
  <2> HIDE DEF S, left, interval
  <2>9. w \in Nat /\ \A v \in S : v <= w
    BY <1>2, <2>4, <2>8, LongestOfThree
  <2>10. \A v \in S : v \in Nat
    BY <1>2, <2>4, <2>8
  <2> HIDE DEF w
  <2>11. ASSUME NEW n \in 0 .. Horizon, NamesQuota(last, n)
         PROVE  n - age <= w
    <3>1. PICK v \in S : v >= n - age
      BY <2>7, <2>11
    <3>2. age \in Nat /\ Horizon \in Nat
      BY SchedulerAssumption DEF ClocksOK
    <3> QED
      BY <2>9, <2>10, <3>1, <3>2
  <2> QED
    BY <1>1, <2>9, <2>11
<1> QED
  BY <1>3, <1>4

\* After a limit the call waits at least as long as a Retry-After says.
LEMMA RetryIsLongEnough ==
  ASSUME NEW s \in Snapshot
  PROVE  /\ RetryWait(s) \in Nat
         /\ s.retryAfter # None => s.retryAfter <= RetryWait(s)
  BY SchedulerAssumption DEF Snapshot, MaybeNat, RetryWait, OrElse

-------------------------------------------------------------------------------
\* Clocks go on together: what the scheduler waits is gone from the window too.
LEMMA ClocksGoOn ==
  ASSUME ClocksOK, NEW d \in Nat, Passes(d), WorldPasses(d),
         UNCHANGED <<last, heard>>, started' \in BOOLEAN, capped' \in BOOLEAN
  PROVE  /\ ClocksOK'
         /\ closed' = Positive(closed - d)
         /\ last # None => age' <= age + d
<1>1. /\ age' = IF last = None THEN 0 ELSE Later(age, d)
      /\ sinceCall' = SinceThen(sinceCall, d)
      /\ closed' = Positive(closed - d)
  BY DEF Passes, WorldPasses
<1>2. /\ closed \in 0 .. Horizon /\ age \in 0 .. Horizon /\ sinceCall \in Nat
      /\ Horizon \in Nat /\ MinInterval \in Nat
  BY SchedulerAssumption DEF ClocksOK
<1>3. age' \in 0 .. Horizon /\ (last # None => age' <= age + d)
  BY <1>1, <1>2 DEF Later, Least
<1>4. sinceCall' \in Nat
  BY <1>1, <1>2 DEF SinceThen, Least
<1>5. closed' \in 0 .. Horizon
  BY <1>1, <1>2 DEF Positive
<1> QED
  BY <1>1, <1>3, <1>4, <1>5 DEF ClocksOK

LEMMA CappedWait ==
  ASSUME NEW w \in Nat
  PROVE  Capped(w) \in Nat /\ (Capped(w) < w \/ Capped(w) = w)
  BY SchedulerAssumption DEF Capped, Least

LEMMA HeardInitially == CallInit => HeardInv
<1> SUFFICES ASSUME CallInit PROVE HeardInv
  OBVIOUS
<1>1. /\ last = None /\ age = 0 /\ sinceCall = 0 /\ started = FALSE
      /\ closed \in Windows \cup {0} /\ heard = FALSE /\ capped = FALSE /\ pc = "idle"
  BY DEF CallInit, SchedulerInit
<1>2. closed \in 0 .. Horizon /\ 0 \in 0 .. Horizon
  BY <1>1, SchedulerAssumption, ClientAssumption
<1>3. ClocksOK
  BY <1>1, <1>2 DEF ClocksOK
<1> QED
  BY <1>1, <1>3 DEF HeardInv, WillBeWaitedFor

LEMMA BeginningIsHeard ==
  ASSUME HeardInv, NEW d \in 0 .. 2, BeginCall(d)
  PROVE  HeardInv'
<1>1. /\ pc = "idle" /\ outcome = "REPLY" /\ pc' = "call"
      /\ Passes(d) /\ WorldPasses(d)
      /\ UNCHANGED <<last, started, heard, capped>>
  BY DEF BeginCall
<1>2. ClocksOK /\ WillBeWaitedFor
  BY <1>1 DEF HeardInv
<1>3. ClocksOK' /\ closed' = Positive(closed - d) /\ (last # None => age' <= age + d)
  BY <1>1, <1>2, ClocksGoOn DEF ClocksOK
<1>4. WillBeWaitedFor'
  <2> SUFFICES ASSUME closed' > 0, heard, ~capped
               PROVE  last # None /\ \E n \in 0 .. Horizon : NamesQuota(last, n) /\ closed' <= n - age'
    BY <1>1 DEF WillBeWaitedFor
  <2>1. closed > 0 /\ closed' = closed - d
    BY <1>2, <1>3 DEF Positive, ClocksOK
  <2>2. PICK n \in 0 .. Horizon : NamesQuota(last, n) /\ closed <= n - age
    BY <1>2, <2>1 DEF WillBeWaitedFor
  <2>3. last # None
    BY <1>2, <2>1 DEF WillBeWaitedFor
  <2>4. closed - d <= n - age'
    BY <1>2, <1>3, <2>2, <2>3, SchedulerAssumption DEF ClocksOK
  <2> QED
    BY <2>1, <2>2, <2>3, <2>4
<1> QED
  BY <1>1, <1>3, <1>4 DEF HeardInv

\* The wait before a request outlasts the window, or was cut short.
LEMMA PacingIsHeard ==
  ASSUME HeardInv, PaceAndGenerate
  PROVE  HeardInv'
<1>1. PICK w, d :
        /\ pc = "call" /\ pc' = "send"
        /\ w = PaceWait(EstTokens) /\ d = Capped(w)
        /\ Passes(d) /\ WorldPasses(d)
        /\ capped' = (capped \/ d < w)
        /\ started' = TRUE
        /\ UNCHANGED <<last, heard>>
  BY DEF PaceAndGenerate
<1>2. ClocksOK /\ WillBeWaitedFor
  BY <1>1 DEF HeardInv
<1>3. /\ w \in Nat /\ d \in Nat /\ (d < w \/ d = w)
      /\ last # None => \A n \in 0 .. Horizon : NamesQuota(last, n) => n - age <= w
  BY <1>1, <1>2, PaceIsLongEnough, CappedWait
<1>4. capped' \in BOOLEAN /\ started' \in BOOLEAN
  BY <1>1
<1>5. ClocksOK' /\ closed' = Positive(closed - d)
  BY <1>1, <1>2, <1>3, <1>4, ClocksGoOn
<1>6. closed' > 0 /\ heard' => capped'
  <2> SUFFICES ASSUME closed' > 0, heard, ~capped, ~(d < w) PROVE FALSE
    BY <1>1
  <2>1. d = w /\ closed > w /\ closed > 0
    BY <1>2, <1>3, <1>5 DEF Positive, ClocksOK
  <2>2. PICK n \in 0 .. Horizon : last # None /\ NamesQuota(last, n) /\ closed <= n - age
    BY <1>2, <2>1 DEF WillBeWaitedFor
  <2>3. n - age <= w
    BY <1>3, <2>2
  <2>4. age \in Nat /\ closed \in Nat /\ n \in Nat
    BY <1>2, SchedulerAssumption DEF ClocksOK
  <2> QED
    BY <1>3, <2>1, <2>2, <2>3, <2>4
<1> QED
  BY <1>1, <1>5, <1>6 DEF HeardInv

\* A call that throws is the runner's last.
LEMMA ThrowingIsHeard ==
  ASSUME HeardInv, NEW code, code # "REPLY", ThrowOn(code)
  PROVE  HeardInv'
<1>1. /\ pc' = "idle" /\ outcome' = code /\ sinceCall' = 0
      /\ UNCHANGED <<last, age, started, closed, heard, capped>>
  BY DEF ThrowOn, Return
<1>2. ClocksOK'
  BY <1>1 DEF HeardInv, ClocksOK
<1> QED
  BY <1>1, <1>2 DEF HeardInv

LEMMA AgainIsHeard ==
  ASSUME HeardInv, pc \in {"sent", "body"}, NEW extra, Again(extra)
  PROVE  HeardInv'
<1>1. pc' = "send" /\ UNCHANGED <<schedulerVars, closed, heard, capped>>
  BY DEF Again
<1>2. ClocksOK'
  BY <1>1 DEF HeardInv, ClocksOK, schedulerVars
<1>3. closed > 0 /\ heard => capped
  BY DEF HeardInv, AnswerAnnounces
<1> QED
  BY <1>1, <1>2, <1>3 DEF HeardInv

LEMMA RetryIsHeard ==
  ASSUME HeardInv, pc \in {"sent", "body"}, NEW code, code # "REPLY", RetryOrThrow(code)
  PROVE  HeardInv'
  BY AgainIsHeard, ThrowingIsHeard DEF RetryOrThrow

\* The answer is observed as soon as it is read, and its announcement is as good
\* as it was when the headers came.
LEMMA ObservingKeeps ==
  ASSUME ClocksOK, NEW s \in Snapshot, NEW d \in Nat, ObserveThen(s, d)
  PROVE  /\ last' \in Snapshot \cup {None} /\ age' \in 0 .. Horizon
         /\ HasRateLimitInfo(s) => last' = s /\ age' <= d
<1>1. CASE HasRateLimitInfo(s)
  BY <1>1, SchedulerAssumption DEF ObserveThen, Later, Least
<1>2. CASE ~HasRateLimitInfo(s)
  BY <1>2, SchedulerAssumption DEF ObserveThen, ClocksOK, Later, Least
<1> QED
  BY <1>1, <1>2

LEMMA SendIsHeard ==
  ASSUME HeardInv, Send
  PROVE  HeardInv'
<1>1. pc = "send" /\ pc' = "sent" /\ UNCHANGED <<schedulerVars, closed, heard, capped>>
  BY DEF Send
<1>2. ClocksOK'
  BY <1>1 DEF HeardInv, ClocksOK, schedulerVars
<1> QED
  BY <1>1, <1>2 DEF HeardInv

\* The window an answer announces is open again by then, whatever its body takes.
LEMMA HeadersAreHeard ==
  ASSUME HeardInv, NEW status, NEW body, NEW n \in Windows \cup {0, closed}, NEW d \in 0 .. 1,
         NEW h \in {Silent} \cup Announcements(n), Headers(status, body, n, h, d)
  PROVE  HeardInv'
<1>1. /\ pc' = "body" /\ heard' = FALSE /\ capped' = FALSE /\ closed' = Positive(n - d)
      /\ answer' = [status |-> status, body |-> body, headers |-> ParseRateLimitHeaders(h)]
      /\ status = 200 => h.retry_after = None
      /\ Passes(d) /\ last' = last /\ started' = started
  <2> HIDE DEF Announcements
  <2>1. /\ pc' = "body" /\ heard' = FALSE /\ capped' = FALSE /\ closed' = Positive(n - d)
    BY Zenon DEF Headers
  <2>2. answer' = [status |-> status, body |-> body, headers |-> ParseRateLimitHeaders(h)]
    BY Zenon DEF Headers
  <2>3. status = 200 => h.retry_after = None
    BY Zenon DEF Headers
  <2>4. Passes(d) /\ last' = last /\ started' = started
    BY Zenon DEF Headers
  <2> QED
    BY <2>1, <2>2, <2>3, <2>4
<1>2. n \in 0 .. Horizon /\ n \in Nat /\ Horizon \in Nat
  <2>1. ClocksOK
    BY Zenon DEF HeardInv
  <2>2. closed \in 0 .. Horizon
    BY <2>1 DEF ClocksOK
  <2>3. Windows \subseteq 0 .. Horizon /\ Horizon \in Nat
    BY SchedulerAssumption, ClientAssumption
  <2>4. n \in 0 .. Horizon
    BY <2>2, <2>3
  <2> QED
    BY <2>3, <2>4
<1>3. closed' \in 0 .. Horizon /\ closed' <= n
  BY <1>1, <1>2 DEF Positive
<1>4. age' \in 0 .. Horizon /\ sinceCall' \in Nat
  BY <1>1, SchedulerAssumption DEF HeardInv, ClocksOK, Passes, Later, SinceThen, Least
<1>5. ClocksOK'
  BY <1>1, <1>3, <1>4 DEF HeardInv, ClocksOK
<1>6. AnswerAnnounces'
  <2>1. /\ answer'.headers = ParseRateLimitHeaders(h) /\ answer'.status = status
        /\ ~heard'
    BY <1>1
  <2>2. /\ ParseRateLimitHeaders(h) \in Snapshot
        /\ HasRateLimitInfo(ParseRateLimitHeaders(h)) => Announces(ParseRateLimitHeaders(h), n)
        /\ h.retry_after = None => ParseRateLimitHeaders(h).retryAfter = None
    BY <1>2, AnnouncementRead
  <2>3. answer'.headers \in Snapshot
    BY <2>1, <2>2
  <2>4. HasRateLimitInfo(answer'.headers) => Announces(answer'.headers, n)
    BY <2>1, <2>2
  <2>5. answer'.status = 200 => answer'.headers.retryAfter = None
    BY <1>1, <2>1, <2>2
  <2> QED
    BY <1>2, <1>3, <2>1, <2>3, <2>4, <2>5 DEF AnswerAnnounces
<1> QED
  BY <1>1, <1>5, <1>6 DEF HeardInv

\* Once its announcement is observed, what is left of a window is waited for.
LEMMA ObservedWindow ==
  ASSUME HeardInv, pc = "body", NEW d \in Nat, ObserveThen(answer.headers, d),
         heard' = HasRateLimitInfo(answer.headers), closed' = Positive(closed - d),
         \A n \in 0 .. Horizon :
           answer.headers.retryAfter = n /\ closed <= n => capped' \/ closed <= d
  PROVE  WillBeWaitedFor'
<1>1. ClocksOK /\ AnswerAnnounces
  BY DEF HeardInv
<1>2. answer.headers \in Snapshot
  BY <1>1 DEF AnswerAnnounces
<1> SUFFICES ASSUME closed' > 0, heard', ~capped'
             PROVE  last' # None /\ \E n \in 0 .. Horizon : NamesQuota(last', n) /\ closed' <= n - age'
  BY DEF WillBeWaitedFor
<1>3. HasRateLimitInfo(answer.headers)
  OBVIOUS
<1>4. last' = answer.headers /\ age' <= d /\ age' \in 0 .. Horizon
  BY <1>1, <1>2, <1>3, ObservingKeeps
<1>5. PICK n \in 0 .. Horizon : closed <= n /\ Announces(answer.headers, n)
  BY <1>1, <1>3 DEF AnswerAnnounces
<1>6. /\ closed \in Nat /\ n \in Nat /\ age' \in Nat /\ Horizon \in Nat
  BY <1>1, <1>4, SchedulerAssumption DEF ClocksOK
<1>7. closed' = closed - d /\ closed - d > 0
  BY <1>6 DEF Positive
<1>8. answer.headers.retryAfter # n
  BY <1>5, <1>6, <1>7
<1>9. NamesQuota(answer.headers, n)
  BY <1>5, <1>8 DEF Announces
<1>10. closed' <= n - age'
  BY <1>4, <1>5, <1>6, <1>7
<1>11. last' # None
  BY <1>3, <1>4 DEF HasRateLimitInfo
<1> QED
  BY <1>4, <1>9, <1>10, <1>11

\* A wait after a 429 outlasts a Retry-After, or was cut short; of a quota it
\* leaves to pace() what is left.
LEMMA WaitingIsHeard ==
  ASSUME HeardInv, pc = "body", WaitForRetry
  PROVE  HeardInv'
<1>1. PICK w, d :
        /\ w = RetryWait(answer.headers) /\ d = Capped(w)
        /\ pc' = "call"
        /\ ObserveThen(answer.headers, d) /\ sinceCall' = SinceThen(0, d)
        /\ closed' = Positive(closed - d) /\ capped' = (d < w)
        /\ heard' = HasRateLimitInfo(answer.headers)
        /\ UNCHANGED started
  BY DEF WaitForRetry, WorldPasses
<1>2. ClocksOK /\ AnswerAnnounces
  BY DEF HeardInv
<1>3. answer.headers \in Snapshot
  BY <1>2 DEF AnswerAnnounces
<1>4. /\ w \in Nat /\ d \in Nat /\ (d < w \/ d = w)
      /\ answer.headers.retryAfter # None => answer.headers.retryAfter <= w
  BY <1>1, <1>3, RetryIsLongEnough, CappedWait
<1>5. /\ closed \in 0 .. Horizon /\ closed \in Nat /\ Horizon \in Nat /\ MinInterval \in Nat
  BY <1>2, SchedulerAssumption DEF ClocksOK
<1>6. last' \in Snapshot \cup {None} /\ age' \in 0 .. Horizon
  BY <1>1, <1>2, <1>3, <1>4, ObservingKeeps
<1>7. closed' \in 0 .. Horizon /\ sinceCall' \in Nat
  BY <1>1, <1>4, <1>5 DEF Positive, SinceThen, Least
<1>8. started' \in BOOLEAN /\ capped' \in BOOLEAN /\ heard' \in BOOLEAN
  BY <1>1, <1>2 DEF ClocksOK, HasRateLimitInfo
<1>9. ClocksOK'
  BY <1>6, <1>7, <1>8 DEF ClocksOK
<1>10. ASSUME NEW n \in 0 .. Horizon, answer.headers.retryAfter = n /\ closed <= n
       PROVE  capped' \/ closed <= d
  <2>1. n # None /\ n \in Nat
    BY <1>5, AbsenceAssumption
  <2>2. n <= w
    BY <1>4, <1>10, <2>1
  <2>3. CASE d < w
    BY <1>1, <2>3
  <2>4. CASE d = w
    BY <1>4, <1>5, <1>10, <2>1, <2>2, <2>4
  <2> QED
    BY <1>4, <2>3, <2>4
<1>11. WillBeWaitedFor'
  BY <1>1, <1>4, <1>10, ObservedWindow
<1> QED
  BY <1>1, <1>9, <1>11 DEF HeardInv

\* A call that returns looks at the headers of its last answer; a reply carries no
\* Retry-After, and after an exhausted limit there is no next call.
LEMMA ReturningIsHeard ==
  ASSUME HeardInv, pc = "body", NEW code, Return(code), ObserveThen(answer.headers, 0),
         heard' = HasRateLimitInfo(answer.headers), UNCHANGED <<started, closed, capped>>,
         code = "REPLY" => answer.status = 200
  PROVE  HeardInv'
<1>1. pc' = "idle" /\ outcome' = code /\ sinceCall' = 0
  BY DEF Return
<1>2. ClocksOK /\ AnswerAnnounces
  BY DEF HeardInv
<1>3. answer.headers \in Snapshot
  BY <1>2 DEF AnswerAnnounces
<1>4. last' \in Snapshot \cup {None} /\ age' \in 0 .. Horizon
  BY <1>2, <1>3, ObservingKeeps
<1>5. ClocksOK'
  BY <1>1, <1>2, <1>4 DEF ClocksOK, HasRateLimitInfo
<1>6. ASSUME code = "REPLY" PROVE WillBeWaitedFor'
  <2>1. answer.headers.retryAfter = None
    BY <1>2, <1>6 DEF AnswerAnnounces
  <2>2. \A n \in 0 .. Horizon : answer.headers.retryAfter # n
    BY <2>1, AbsenceAssumption, SchedulerAssumption
  <2>3. PICK d \in Nat : d = 0
    OBVIOUS
  <2>4. closed' = Positive(closed - d) /\ ObserveThen(answer.headers, d)
    BY <1>2, <2>3, SchedulerAssumption DEF ClocksOK, Positive
  <2> QED
    BY <2>2, <2>4, ObservedWindow
<1> QED
  BY <1>1, <1>5, <1>6 DEF HeardInv

LEMMA LimitsAreHeard ==
  ASSUME HeardInv, pc = "body", LimitReached
  PROVE  HeardInv'
<1>1. CASE cycle < MaxRetryCycles
  BY <1>1, WaitingIsHeard DEF LimitReached
<1>2. CASE ~(cycle < MaxRetryCycles)
  BY <1>2, ReturningIsHeard DEF LimitReached
<1> QED
  BY <1>1, <1>2

LEMMA BodyIsHeard ==
  ASSUME HeardInv, NEW breaks \in BOOLEAN, Body(breaks)
  PROVE  HeardInv'
<1> DEFINE body == IF ~breaks THEN answer.body
                   ELSE IF answer.status = 200 THEN "broken" ELSE "error"
<1>1. /\ pc = "body"
      /\ BodyOfLimit(body) \/ BodyOfRefusal(body) \/ BodyOf5xx \/ BodyOfReply(body)
  BY DEF Body
<1> HIDE DEF body
<1>2. CASE BodyOfLimit(body)
  BY <1>1, <1>2, ThrowingIsHeard, LimitsAreHeard DEF BodyOfLimit
<1>3. CASE BodyOfRefusal(body)
  <2>1. LimitReached \/ Again(1) \/ ThrowOn("PROVIDER_HTTP")
    BY <1>3 DEF BodyOfRefusal
  <2> QED
    BY <1>1, <2>1, LimitsAreHeard, AgainIsHeard, ThrowingIsHeard
<1>4. CASE BodyOf5xx
  BY <1>1, <1>4, RetryIsHeard DEF BodyOf5xx
<1>5. CASE BodyOfReply(body)
  <2>1. CASE RetryOrThrow("PROVIDER_NETWORK") \/ RetryOrThrow("PROVIDER_EMPTY")
    BY <1>1, <2>1, RetryIsHeard
  <2>2. CASE ThrowOn("PROVIDER_API_ERROR")
    BY <2>2, ThrowingIsHeard
  <2>3. CASE /\ Return("REPLY") /\ ObserveThen(answer.headers, 0)
             /\ heard' = HasRateLimitInfo(answer.headers)
             /\ UNCHANGED <<started, closed, capped>>
    <3>1. answer.status = 200
      BY <1>5 DEF BodyOfReply
    <3> QED
      BY <1>1, <2>3, <3>1, ReturningIsHeard
  <2> QED
    BY <1>5, <2>1, <2>2, <2>3 DEF BodyOfReply
<1> QED
  BY <1>1, <1>2, <1>3, <1>4, <1>5

LEMMA HeardStep ==
  ASSUME HeardInv, [CallNext]_callVars
  PROVE  HeardInv'
<1>1. CASE UNCHANGED callVars
  <2>1. UNCHANGED <<last, age, sinceCall, started, pc, outcome, answer, closed, heard, capped>>
    BY <1>1 DEF callVars, schedulerVars
  <2>2. ClocksOK' /\ (AnswerAnnounces => AnswerAnnounces') /\ (WillBeWaitedFor => WillBeWaitedFor')
    BY <2>1 DEF HeardInv, ClocksOK, AnswerAnnounces, WillBeWaitedFor
  <2> QED
    BY <2>1, <2>2 DEF HeardInv
<1>2. ASSUME NEW d \in 0 .. 2, BeginCall(d) PROVE HeardInv'
  BY <1>2, BeginningIsHeard
<1>3. CASE PaceAndGenerate
  BY <1>3, PacingIsHeard
<1>4. CASE NoKey
  BY <1>4, ThrowingIsHeard DEF NoKey
<1>5. CASE Send
  BY <1>5, SendIsHeard
<1>6. ASSUME NEW status, NEW body, NEW n \in Windows \cup {0, closed}, NEW d \in 0 .. 1,
             NEW h \in {Silent} \cup Announcements(n), Headers(status, body, n, h, d)
      PROVE  HeardInv'
  BY <1>6, HeadersAreHeard
<1>7. CASE BodyEnds
  BY <1>7, BodyIsHeard DEF BodyEnds
<1>8. CASE Timer \/ NoAnswer("PROVIDER_NETWORK")
  BY <1>8, RetryIsHeard DEF Timer, NoAnswer
<1> QED
  BY <1>1, <1>2, <1>3, <1>4, <1>5, <1>6, <1>7, <1>8 DEF CallNext, Client

\* For any waits, margins, caps and windows, and whatever header carries it, and
\* however the calls of a runner follow one another: a window that a provider has
\* announced is waited for, by waitForRetry, by pace or by both together, unless
\* maxWaitMsPerCycle cuts the wait short.
THEOREM AnnouncedWindowsAreWaitedFor == CallSpec => []OnlyACappedWaitIsTooShort
<1>1. HeardInv /\ [CallNext]_callVars => HeardInv'
  BY HeardStep
<1>2. HeardInv => OnlyACappedWaitIsTooShort
  BY DEF HeardInv, OnlyACappedWaitIsTooShort
<1> QED
  BY <1>1, <1>2, HeardInitially, PTL DEF CallSpec
===============================================================================
