------------------------------- MODULE ModelCall -------------------------------
(***************************************************************************)
(* One real model call: callModelWithRateLimit of                          *)
(* runtime/src/agents/real-agent-runner.ts around generate of              *)
(* runtime/src/models/openai-compatible-provider.ts, and the provider at   *)
(* the other end.  An answer comes in two parts, its headers and its body; *)
(* only the headers are waited for with a time limit.                      *)
(***************************************************************************)
EXTENDS RateLimits, FiniteSets

CONSTANTS MaxRetries,       \* retries of the client after a 5xx, a silence, ...
          JsonSchema,       \* the provider is said to take response_format json_schema
          MaxOutputTokens,  \* asked for by the stage
          EstTokens,        \* what the stage thinks the call will cost
          Windows,          \* lengths of the windows a provider closes
          MaxCalls          \* bound on the calls of one runner

ASSUME ClientAssumption ==
  /\ MaxRetries \in Nat
  /\ JsonSchema \in BOOLEAN
  /\ {MaxOutputTokens, EstTokens} \subseteq Nat \ {0}
  /\ Windows \subseteq 0 .. Horizon

VARIABLES pc,           \* "idle", "call", "send", "sent" or "body"
          attempt,      \* of the loop in generate
          degrades,     \* modeDegrades
          cycle,        \* of the loop in callModelWithRateLimit
          tokens,       \* effectiveMaxTokens
          schemaOff,    \* jsonSchemaDisabled, and json_object instead
          promptOnly,   \* forcePromptOnly
          answer,       \* the answer whose body is awaited
          outcome,      \* how the last call ended
          calls,        \* calls so far
          closed,       \* environment: how long the provider will still refuse
          sent, limited, heard, capped  \* history, see below

callVars == <<schedulerVars, pc, attempt, degrades, cycle, tokens, schemaOff, promptOnly,
              answer, outcome, calls, closed, sent, limited, heard, capped>>

loopVars == <<attempt, degrades, tokens, schemaOff, promptOnly>>

\* sent, limited: requests of this call, and how many were answered by a limit.
\* heard: the scheduler was told of the window that is closed now.
\* capped: since the last answer a wait was cut short by maxWaitMsPerCycle.
CallInit ==
  /\ SchedulerInit
  /\ pc = "idle" /\ outcome = "REPLY" /\ answer = None
  /\ attempt = 0 /\ degrades = 0 /\ cycle = 0 /\ tokens = MaxOutputTokens
  /\ schemaOff = FALSE /\ promptOnly = FALSE
  /\ calls = 0 /\ closed \in Windows \cup {0}
  /\ sent = 0 /\ limited = 0 /\ heard = FALSE /\ capped = FALSE

\* The world goes on while the runner waits or works.
WorldPasses(d) == closed' = Positive(closed - d)

-------------------------------------------------------------------------------
\* A stage asks for a reply, some time after the last call. A runner whose call
\* threw is not asked again: the proof ends there or goes on with another one.
BeginCall(d) ==
  /\ pc = "idle"
  /\ outcome = "REPLY"
  /\ calls < MaxCalls
  /\ calls' = calls + 1
  /\ pc' = "call"
  /\ Passes(d) /\ WorldPasses(d)
  /\ UNCHANGED <<last, started, loopVars, cycle, answer, outcome, sent, limited, heard, capped>>

\* The call returns: its locals are gone, sinceCall starts anew (markCallDone).
Return(code) ==
  /\ pc' = "idle"
  /\ outcome' = code
  /\ sinceCall' = 0
  /\ attempt' = 0 /\ degrades' = 0 /\ cycle' = 0 /\ tokens' = MaxOutputTokens
  /\ answer' = None
  /\ sent' = 0 /\ limited' = 0

\* callModelWithRateLimit passes an error on: no header is looked at.
ThrowOn(code) ==
  /\ Return(code)
  /\ UNCHANGED <<last, age, started, schemaOff, promptOnly, calls, closed, heard, capped>>

\* scheduler.pace, then generate is entered: its key may be gone by now.
PaceAndGenerate ==
  /\ pc = "call"
  /\ LET w == PaceWait(EstTokens)
     IN  /\ Passes(Capped(w)) /\ WorldPasses(Capped(w))
         /\ capped' = (capped \/ Capped(w) < w)
  /\ started' = TRUE
  /\ pc' = "send" /\ attempt' = 0 /\ degrades' = 0 /\ tokens' = MaxOutputTokens
  /\ UNCHANGED <<last, cycle, schemaOff, promptOnly, answer, outcome, calls, sent, limited, heard>>

NoKey ==
  /\ pc = "send" /\ attempt = 0
  /\ ThrowOn("PROVIDER_NOT_CONFIGURED")

Send ==
  /\ pc = "send"
  /\ pc' = "sent"
  /\ sent' = sent + 1
  /\ UNCHANGED <<schedulerVars, loopVars, cycle, answer, outcome, calls, closed,
                 limited, heard, capped>>

\* What may come back. A provider whose window is closed refuses, and says for
\* how long or nothing; one whose window is open may close it with any answer.
Mode == IF promptOnly THEN "none" ELSE IF JsonSchema /\ ~schemaOff THEN "json_schema"
        ELSE IF schemaOff THEN "json_object" ELSE "none"

Silent == [retry_after |-> None, remaining_requests |-> None, reset_requests |-> None,
           remaining_tokens |-> None, reset_tokens |-> None]
Number(n) == [form |-> "number", n |-> n]
Lasting(n) == [form |-> "duration", n |-> n]

\* The headers with which providers announce a window of n ticks.
Announcements(n) ==
  {[Silent EXCEPT !.retry_after = Number(n)],
   [Silent EXCEPT !.retry_after = [form |-> "date", n |-> n]],
   [Silent EXCEPT !.remaining_requests = Number(0), !.reset_requests = Lasting(n)],
   [Silent EXCEPT !.remaining_requests = Number(9), !.reset_requests = Lasting(1),
                  !.remaining_tokens = Number(0), !.reset_tokens = Lasting(n)]}

LimitedBodies == {"ratelimit", "quota"}
FormatBodies == IF Mode = "json_schema" THEN {"schema", "generate"}
                ELSE IF Mode = "json_object" THEN {"generate"} ELSE {}

\* HTTP answers by status and by what their body holds.
OpenAnswers ==
  ({200} \X {"text", "empty", "error"}) \cup ({500} \X {"error"})
    \cup ({400} \X ({"error"} \cup FormatBodies)) \cup ({401} \X {"error"})

\* 402 is handled as 429 is.
ClosedAnswers == ({429} \X LimitedBodies) \cup ({400, 413} \X {"ratelimit"})

\* The answers whose headers reach the scheduler.
Heeded == ({200} \X {"text"}) \cup ({400, 413, 429} \X {"ratelimit"})

Headers(status, body, n, headers, d) ==
  /\ pc = "sent"
  /\ IF closed > 0 THEN <<status, body>> \in ClosedAnswers /\ n = closed
     ELSE \/ <<status, body>> \in ClosedAnswers /\ n > 0
          \/ <<status, body>> \in OpenAnswers
  /\ headers = Silent \/ (n > 0 /\ <<status, body>> \in Heeded /\ headers \in Announcements(n))
  /\ status = 200 => headers.retry_after = None
  /\ answer' = [status |-> status, body |-> body, headers |-> ParseRateLimitHeaders(headers)]
  /\ pc' = "body"
  /\ closed' = Positive(n - d) /\ heard' = FALSE /\ capped' = FALSE
  /\ Passes(d)
  /\ UNCHANGED <<last, started, loopVars, cycle, outcome, calls, sent, limited>>

-------------------------------------------------------------------------------
\* generate goes round its loop again, or throws.
Again(extra) ==
  /\ pc' = "send"
  /\ attempt' = attempt + 1
  /\ degrades' = degrades + extra
  /\ answer' = None
  /\ UNCHANGED <<schedulerVars, cycle, outcome, calls, closed, sent, limited, heard, capped>>

RetryOrThrow(code) ==
  IF attempt < MaxRetries
  THEN Again(0) /\ UNCHANGED <<tokens, schemaOff, promptOnly>> ELSE ThrowOn(code)

\* A RateLimitError goes to the scheduler, which waits for as long as it says...
WaitForRetry ==
  LET w == RetryWait(answer.headers)
  IN  /\ pc' = "call" /\ cycle' = cycle + 1
      /\ limited' = limited + 1
      /\ answer' = None
      /\ ObserveThen(answer.headers, Capped(w)) /\ sinceCall' = SinceThen(0, Capped(w))
      /\ WorldPasses(Capped(w)) /\ capped' = (Capped(w) < w)
      /\ heard' = HasRateLimitInfo(answer.headers)
      /\ UNCHANGED <<started, loopVars, outcome, calls, sent>>

\* Fault: the cycles are never counted.
LimitReachedForgetfully ==
  WaitForRetry

\* ... and the same call is made again; or, after maxRetryCycles of them, throws
\* RateLimitExhaustedError.
LimitReached ==
  IF cycle < MaxRetryCycles THEN WaitForRetry
  ELSE /\ Return("RATE_LIMIT_EXHAUSTED")
       /\ ObserveThen(answer.headers, 0)
       /\ heard' = HasRateLimitInfo(answer.headers)
       /\ UNCHANGED <<started, schemaOff, promptOnly, calls, closed, capped>>

\* 429 and 402, unless the account itself is out of money.
BodyOfLimit(body) ==
  /\ answer.status \in {402, 429}
  /\ IF body = "quota" THEN ThrowOn("PROVIDER_QUOTA_EXHAUSTED") ELSE LimitReached

\* Half as much again, within twice what was asked for and 8 (thousand) tokens.
MoreRoom ==
  LET most == Least(8, 2 * MaxOutputTokens)
  IN  IF tokens < most THEN Least(most, (3 * tokens + 1) \div 2) ELSE tokens

\* 400 and the like: a limit in disguise, a response_format to do without, or an
\* error. Doing without is for good, and earns the loop a turn more.
BodyOfRefusal(body) ==
  /\ answer.status \in {400, 401, 413}
  /\ CASE answer.status # 401 /\ body = "ratelimit" -> LimitReached
       [] answer.status = 400 /\ JsonSchema /\ ~schemaOff /\ body \in {"schema", "generate"} ->
            /\ schemaOff' = TRUE /\ UNCHANGED promptOnly
            /\ tokens' = IF body = "generate" THEN MoreRoom ELSE tokens
            /\ Again(1)
       [] answer.status = 400 /\ schemaOff /\ ~promptOnly /\ body = "generate" ->
            /\ promptOnly' = TRUE /\ UNCHANGED schemaOff
            /\ tokens' = MoreRoom
            /\ Again(1)
       [] OTHER -> ThrowOn("PROVIDER_HTTP")

BodyOf5xx ==
  /\ answer.status = 500
  /\ RetryOrThrow("PROVIDER_5XX")

\* A 200: an error in its body, no text, or the reply, whose headers are observed.
BodyOfReply(body) ==
  /\ answer.status = 200
  /\ \/ body = "broken" /\ RetryOrThrow("PROVIDER_NETWORK")
     \/ body = "error" /\ ThrowOn("PROVIDER_API_ERROR")
     \/ body = "empty" /\ RetryOrThrow("PROVIDER_EMPTY")
     \/ /\ body = "text"
        /\ Return("REPLY")
        /\ ObserveThen(answer.headers, 0)
        /\ heard' = HasRateLimitInfo(answer.headers)
        /\ UNCHANGED <<started, schemaOff, promptOnly, calls, closed, capped>>

\* The body arrives, or breaks off: then the text of an error reads as empty.
Body(breaks) ==
  LET body == IF ~breaks THEN answer.body ELSE IF answer.status = 200 THEN "broken" ELSE "error"
  IN  /\ pc = "body"
      /\ breaks => answer.status # 500
      /\ BodyOfLimit(body) \/ BodyOfRefusal(body) \/ BodyOf5xx \/ BodyOfReply(body)

\* Fault: no time limit on the headers.
NoAnswerUntimed(code) ==
  /\ pc = "sent" /\ code # "PROVIDER_TIMEOUT"
  /\ RetryOrThrow(code)

\* No headers within timeoutMs, or no connection.
NoAnswer(code) ==
  /\ pc = "sent"
  /\ RetryOrThrow(code)

\* The steps of the client; the provider's headers and bodies come in between.
Client == PaceAndGenerate \/ NoKey \/ Send
Timer == NoAnswer("PROVIDER_TIMEOUT")
BodyEnds == \E breaks \in BOOLEAN : Body(breaks)

CallNext ==
  \/ \E d \in 0 .. 2 : BeginCall(d)
  \/ Client
  \/ \E a \in OpenAnswers \cup ClosedAnswers, n \in Windows \cup {0, closed}, d \in 0 .. 1 :
       \E h \in {Silent} \cup Announcements(n) : Headers(a[1], a[2], n, h, d)
  \/ BodyEnds
  \/ Timer
  \/ NoAnswer("PROVIDER_NETWORK")

CallSpec ==
  /\ CallInit
  /\ [][CallNext]_callVars
  /\ WF_callVars(Client) /\ WF_callVars(Timer) /\ WF_callVars(BodyEnds)

-------------------------------------------------------------------------------
\* A request never goes out in a window whose end the scheduler was told of,
\* except when the wait for it was cut at maxWaitMsPerCycle (pace, waitForRetry
\* and cap together, over every kind of header).
OnlyACappedWaitIsTooShort ==
  pc = "sent" /\ closed > 0 /\ heard => capped

\* One call costs the provider no more requests than its retries, its cycles and
\* the two changes of format allow, however they mix.
RequestsBound == (MaxRetryCycles + 1) * (MaxRetries + 1) + 2

Contract == INSTANCE CallContract WITH
  Cycles <- MaxRetryCycles, MaxRequests <- RequestsBound,
  called <- pc # "idle", requests <- sent, limits <- limited, result <- outcome

ImplementsCallContract == Contract!Spec

\* A call ends, provided that bodies end: nothing but the provider ends them,
\* for the time limit is lifted with the headers.
CallsEnd == pc = "call" ~> pc = "idle"
===============================================================================
