------------------------------ MODULE StageRunner ------------------------------
(***************************************************************************)
(* One stage on a real model: runStage of                                  *)
(* runtime/src/agents/real-agent-runner.ts.  It reserves a request, calls  *)
(* the model, validates the reply, puts every tool call the reply asks for *)
(* through the capability gateway, runs the project's tests itself, earns  *)
(* the model one repair, and decides the outcome by machine evidence.      *)
(*                                                                         *)
(* The model call is CallContract; another process may pause the runtime   *)
(* at any moment, the one between authorize and the write included.        *)
(***************************************************************************)
EXTENDS Naturals, FiniteSets, Sequences, CallErrors

CONSTANTS
  None, CapabilityDef, AgentDef, RiskFloor, TaskTypeDefault,  \* see Policy
  NotAList, Oversized,                                        \* see ModelReply
  Path, Content, Traits, Seed,                                \* see Workspace
  Cycles, MaxRequests,                                        \* see CallContract
  Plan,                  \* stage -> the StagePlan of software-factory.ts
  StageAgent,            \* stage -> the agent the registry resolves its role to
  StageRisk,             \* stage -> risk_level of the step, or of the task
  Replies,               \* texts a model may answer with, as ModelReply sees them
  Trees,                 \* stage -> the workspaces it may find
  MaxStructuredRetries,  \* attempts after the first that a bad reply gets
  ConfiguredCeiling,     \* maxOutputTokensCeiling of this run, in hundreds
  Ceiling,               \* of the request budget
  UsedBefore             \* reservations earlier stages may have made

VARIABLES
  pc,       \* "reserve", "calling", "apply", "execute", "test", "gates", "done"
  stage,
  attempt,  \* i of the attempt loop
  cutOff,   \* lastFailureKind = OUTPUT_TRUNCATED
  tokens,   \* output tokens of the attempt
  queue,    \* tool calls of the accepted reply that are still to be made
  status,   \* parsed.status, None until a reply is accepted
  attempted,\* parsed.fileChanges is not empty
  repairs,  \* testRepairsUsed
  tests,    \* testEvidence
  written,  \* paths of the writes and patches that were executed
  outcome,  \* how the stage ended
  used, spent,                      \* the budget, and this stage's share of it
  files, root, git,                 \* the workspace
  called, requests, limits, result, \* the model call
  paused,                           \* runtime_state, shared with other processes
  stale, late                       \* history, see below

\* stale: a tool has written since the tests were run.
\* late: writes executed since the runtime was paused.
stageVars == <<pc, stage, attempt, cutOff, tokens, queue, status, attempted, repairs, tests,
               written, outcome, used, spent, files, root, git,
               called, requests, limits, result, paused, stale, late>>

callVars == <<called, requests, limits, result>>
replyVars == <<attempt, cutOff, tokens, status, attempted>>
evidenceVars == <<repairs, tests, written, stale>>

Policies == INSTANCE Policy
Reply == INSTANCE ModelReply
Tree == INSTANCE Workspace
Calls == INSTANCE CallContract

\* What the registries and the fixture are checked for when they are loaded.
ASSUME RegistriesAssumption ==
  /\ Policies!ToolRegistryAssumption
  /\ Policies!ModelRegistryAssumption
  /\ Policies!AgentRegistryAssumption
  /\ Tree!WorkspaceAssumption

\* The bounds are numbers, and a budget is not handed over overdrawn.
ASSUME RunnerAssumption ==
  /\ MaxStructuredRetries \in Nat /\ Ceiling \in Nat
  /\ UsedBefore \subseteq 0 .. Ceiling
  /\ None \notin CallError \cup {"PASS", "FAIL", "BLOCKED", "REQUEST_BUDGET_EXCEEDED", "fs.write"}
  /\ None \notin Tree!TestEvidence

\* A stage of PLANS that must change the code must also bring a test, and a workspace
\* holds files of the project.
ASSUME PlansAssumption ==
  \A s \in DOMAIN Plan :
    /\ Plan[s].requireWorkspaceChange => Plan[s].requireTestChange
    /\ Trees[s] \subseteq [Path -> Content \cup {None}]

plan == Plan[stage]

-------------------------------------------------------------------------------
(***************************************************************************)
(* Output tokens, in hundreds.                                             *)
(***************************************************************************)
MIN_AGENT_MAX_OUTPUT_TOKENS == 10
AGENT_MAX_OUTPUT_TOKENS_CEILING == 120
DEFAULT_AGENT_MAX_OUTPUT_TOKENS == 60

Lesser(a, b) == IF a <= b THEN a ELSE b
Greater(a, b) == IF a >= b THEN a ELSE b

ClampMaxOutputTokens(n, fallback, ceiling) ==
  LET hard == Lesser(AGENT_MAX_OUTPUT_TOKENS_CEILING, Greater(MIN_AGENT_MAX_OUTPUT_TOKENS, ceiling))
      asked == IF n = None THEN fallback ELSE n
  IN  Lesser(hard, Greater(MIN_AGENT_MAX_OUTPUT_TOKENS, asked))

\* The constructor clamps its own ceiling; each stage's base is within it.
RunnerCeiling ==
  ClampMaxOutputTokens(ConfiguredCeiling, AGENT_MAX_OUTPUT_TOKENS_CEILING,
                       AGENT_MAX_OUTPUT_TOKENS_CEILING)

BaseTokens ==
  ClampMaxOutputTokens(plan.maxOutputTokens,
    ClampMaxOutputTokens(None, DEFAULT_AGENT_MAX_OUTPUT_TOKENS, RunnerCeiling), RunnerCeiling)

\* After a reply that was cut off the next attempt may be twice as long, within the
\* absolute ceiling.
AttemptTokens ==
  IF attempt > 0 /\ cutOff
  THEN ClampMaxOutputTokens(2 * BaseTokens, BaseTokens, AGENT_MAX_OUTPUT_TOKENS_CEILING)
  ELSE BaseTokens

-------------------------------------------------------------------------------
CanWriteStage == plan.allowedRuntimeTools \cap {"workspace.write", "workspace.patch"} # {}

MaxTestRepairs == IF plan.repairTestsOnce /\ plan.runTests /\ CanWriteStage THEN 1 ELSE 0

\* The proof has taken a snapshot before, so the first commit is the fixture.
StageInit ==
  /\ stage \in DOMAIN Plan
  /\ git \in {"works", "diff fails", "unavailable"}
  /\ files \in Trees[stage]
  /\ root = IF git = "unavailable" THEN None ELSE Seed
  /\ used \in UsedBefore
  /\ pc = "reserve" /\ attempt = 0 /\ cutOff = FALSE /\ tokens = 0
  /\ queue = <<>> /\ status = None /\ attempted = FALSE
  /\ repairs = 0 /\ tests = None /\ written = {}
  /\ outcome = None /\ spent = 0
  /\ Calls!Init
  /\ paused = FALSE /\ stale = FALSE /\ late = 0

\* The stage returns, or throws.
End(o) == pc' = "done" /\ outcome' = o

\* budget.reserve(1), then the call: an attempt of the loop, or the repair.
Reserve ==
  /\ pc = "reserve"
  /\ IF used < Ceiling
     THEN /\ used' = used + 1 /\ spent' = spent + 1
          /\ tokens' = IF repairs = 0 THEN AttemptTokens ELSE BaseTokens
          /\ Calls!Call
          /\ pc' = "calling"
          /\ UNCHANGED outcome
     ELSE /\ End("REQUEST_BUDGET_EXCEEDED")
          /\ UNCHANGED <<used, spent, tokens, callVars>>
  /\ UNCHANGED <<stage, attempt, cutOff, status, attempted, queue, evidenceVars,
                 files, root, git, paused, late>>

\* Requests of the call go out and are limited; nothing is reserved for them.
CallGoesOn ==
  /\ pc = "calling"
  /\ Calls!Request \/ Calls!Limited
  /\ UNCHANGED <<pc, stage, replyVars, queue, evidenceVars, outcome, used, spent,
                 files, root, git, paused, late>>

\* Nothing catches an error of the call here.
CallThrows(e) ==
  /\ pc = "calling"
  /\ Calls!Return(e)
  /\ End(e)
  /\ UNCHANGED <<stage, replyVars, queue, evidenceVars, used, spent,
                 files, root, git, paused, late>>

-------------------------------------------------------------------------------
\* What the accepted reply asks for: its file changes, each as a workspace.write,
\* then its tool calls.
WriteCall(fc) ==
  [tool |-> "workspace.write", args |-> [path |-> fc.path, content |-> fc.content]]

CallsOf(parsed) ==
  [i \in DOMAIN parsed.fileChanges |-> WriteCall(parsed.fileChanges[i])] \o parsed.requestedToolCalls

\* Every call the texts of Replies ask for. The tools take what they are given for
\* text, so a write or a patch is always of some path and some content.
AskedCalls ==
  UNION {LET calls == CallsOf(Reply!ParseModelResult(text)) IN {calls[i] : i \in DOMAIN calls} :
           text \in {t \in Replies : Reply!ParseModelResult(t) # None}}

ASSUME RepliesAssumption ==
  /\ \A text \in Replies :
       Reply!ParseModelResult(text) # None => CallsOf(Reply!ParseModelResult(text)) \in Seq(AskedCalls)
  /\ \A call \in AskedCalls :
       /\ call.tool \in {"workspace.write", "workspace.patch"} => call.args.path \in Path
       /\ call.tool = "workspace.write" => call.args.content \in Content
       /\ call.tool = "workspace.patch" => call.args.replace \in Content

Accept(parsed) ==
  /\ status' = parsed.status
  /\ attempted' = (parsed.fileChanges # <<>>)
  /\ queue' = CallsOf(parsed)
  /\ pc' = "apply"
  /\ UNCHANGED <<attempt, cutOff, tokens, outcome>>

\* Out of attempts the stage is blocked; a repair that is no result leaves the
\* failing evidence as it is.
Reject(truncated) ==
  /\ cutOff' = (IF repairs = 0 THEN truncated ELSE cutOff)
  /\ CASE repairs > 0 -> pc' = "gates" /\ UNCHANGED <<attempt, outcome>>
       [] repairs = 0 /\ attempt < MaxStructuredRetries ->
            pc' = "reserve" /\ attempt' = attempt + 1 /\ UNCHANGED outcome
       [] OTHER -> End("BLOCKED") /\ UNCHANGED attempt
  /\ UNCHANGED <<tokens, status, attempted, queue>>

\* `truncated`: the provider says so, or every token asked for was used.
CallReplies(text, truncated) ==
  /\ pc = "calling"
  /\ Calls!Return("REPLY")
  /\ LET parsed == Reply!ParseModelResult(text)
     IN  IF parsed # None THEN Accept(parsed) ELSE Reject(truncated)
  /\ UNCHANGED <<stage, evidenceVars, used, spent, files, root, git, paused, late>>

-------------------------------------------------------------------------------
(***************************************************************************)
(* handleToolCall, in two steps: the gateway reads the pause, and then the *)
(* tool runs.                                                              *)
(***************************************************************************)
TOOL_CAPABILITY ==
  [t \in {"workspace.read", "workspace.list", "workspace.write", "workspace.patch", "workspace.exec"} |->
     CASE t \in {"workspace.read", "workspace.list"}   -> "fs.read"
       [] t \in {"workspace.write", "workspace.patch"} -> "fs.write"
       [] t = "workspace.exec"                         -> "shell.exec_sandbox"]

MayRun(call) ==
  /\ call.tool \in DOMAIN TOOL_CAPABILITY
  /\ call.tool \in plan.allowedRuntimeTools
  /\ Policies!Authorize(StageAgent[stage], TOOL_CAPABILITY[call.tool], stage,
                        StageRisk[stage], "sandbox", paused) = "ALLOW"

\* Fault: a call that is denied is tried again later.
AuthorizeUntilAllowed ==
  /\ pc = "apply" /\ queue # <<>>
  /\ MayRun(Head(queue))
  /\ pc' = "execute"
  /\ UNCHANGED <<stage, replyVars, queue, evidenceVars, outcome, used, spent,
                 files, root, git, callVars, paused, late>>

\* A call that is refused is passed over.
Authorize ==
  /\ pc = "apply" /\ queue # <<>>
  /\ IF MayRun(Head(queue)) THEN pc' = "execute" /\ UNCHANGED queue
                            ELSE queue' = Tail(queue) /\ UNCHANGED pc
  /\ UNCHANGED <<stage, replyVars, evidenceVars, outcome, used, spent,
                 files, root, git, callVars, paused, late>>

\* executeWorkspaceTool. A write refuses contents that look like a secret, a patch
\* does not look. What throws leaves the files alone and counts as not executed; a
\* command that runs may leave output behind.
Written(call) ==
  CASE call.tool = "workspace.write" ->
         IF Tree!CanWrite(call.args.path) /\ "secret" \notin Tree!TraitsOf(call.args.content)
         THEN [files EXCEPT ![call.args.path] = call.args.content] ELSE None
    [] call.tool = "workspace.patch" ->
         IF Tree!CanPatch(call.args.path, call.args.find)
         THEN [files EXCEPT ![call.args.path] = call.args.replace] ELSE None
    [] OTHER -> None

Leavings(command) ==
  {files} \cup
    IF Tree!MayExec(command)
    THEN {[files EXCEPT ![p] = c] : p \in {q \in Path : q.output}, c \in {d \in Content : Traits[d] = {}}}
    ELSE {}

Execute ==
  /\ pc = "execute"
  /\ LET call == Head(queue)
         wrote == Written(call) # None
     IN  /\ IF wrote THEN files' = Written(call) /\ written' = written \cup {call.args.path}
            ELSE /\ files' \in IF call.tool = "workspace.exec"
                               THEN Leavings(call.args.command) ELSE {files}
                 /\ UNCHANGED written
         /\ stale' = (stale \/ wrote)
         /\ late' = IF paused /\ wrote THEN late + 1 ELSE late
  /\ queue' = Tail(queue)
  /\ pc' = "apply"
  /\ UNCHANGED <<stage, replyVars, repairs, tests, outcome, used, spent, root, git, callVars, paused>>

\* Every call is made: the tests, or the gates if the plan asks for none.
Applied ==
  /\ pc = "apply" /\ queue = <<>>
  /\ pc' = IF plan.runTests THEN "test" ELSE "gates"
  /\ UNCHANGED <<stage, replyVars, queue, evidenceVars, outcome, used, spent,
                 files, root, git, callVars, paused, late>>

-------------------------------------------------------------------------------
\* Fault: the repairs are not counted.
RunTestsForever(e) ==
  /\ pc = "test"
  /\ tests' = e
  /\ stale' = FALSE
  /\ files' \in Leavings(Tree!NpmTest)
  /\ pc' = IF Tree!Green(e) \/ MaxTestRepairs = 0 THEN "gates" ELSE "reserve"
  /\ repairs' = IF Tree!Green(e) THEN repairs ELSE MaxTestRepairs
  /\ UNCHANGED <<stage, replyVars, queue, written, outcome, used, spent, root, git,
                 callVars, paused, late>>

\* `npm test`, by the runner itself and whatever the pause says. Red tests of a
\* stage that may write earn one repair, for which a request is reserved.
RunTests(e) ==
  /\ pc = "test"
  /\ e.ran = Tree!MayExec(Tree!NpmTest)
  /\ tests' = e
  /\ stale' = FALSE
  /\ files' \in Leavings(Tree!NpmTest)
  /\ IF Tree!Green(e) \/ repairs >= MaxTestRepairs
     THEN pc' = "gates" /\ UNCHANGED repairs
     ELSE pc' = "reserve" /\ repairs' = repairs + 1
  /\ UNCHANGED <<stage, replyVars, queue, written, outcome, used, spent, root, git,
                 callVars, paused, late>>

\* The security scan, if the plan asks for it, and the decision.
Decision ==
  Tree!DecideImplementationOutcome(
    [changedFiles           |-> IF CanWriteStage THEN written ELSE {},
     hadChangeAttempt       |-> attempted \/ written # {},
     workspaceHasChanges    |-> Tree!HasChanges(root),
     sourceContainsRequired |-> Tree!SourceContainsRequired(plan),
     tests                  |-> tests,
     securityPasses         |-> plan.runSecurityScan => Tree!SecurityChecksPass(root),
     requireWorkspaceChange |-> CanWriteStage /\ plan.requireWorkspaceChange,
     requireTestChange      |-> plan.requireTestChange,
     baseStatus             |-> status])

Gates ==
  /\ pc = "gates"
  /\ End(Decision)
  /\ UNCHANGED <<stage, replyVars, queue, evidenceVars, used, spent,
                 files, root, git, callVars, paused, late>>

\* Another process pauses or resumes the runtime.
SetPaused(b) ==
  /\ pc # "done" /\ paused # b
  /\ paused' = b
  /\ late' = 0
  /\ UNCHANGED <<pc, stage, replyVars, queue, evidenceVars, outcome, used, spent,
                 files, root, git, callVars>>

Runner == Reserve \/ Authorize \/ Execute \/ Applied \/ (\E e \in Tree!TestEvidence : RunTests(e)) \/ Gates

CallEnds ==
  \/ \E e \in CallError : CallThrows(e)
  \/ \E text \in Replies, truncated \in BOOLEAN : CallReplies(text, truncated)

StageNext == Runner \/ CallGoesOn \/ CallEnds \/ \E b \in BOOLEAN : SetPaused(b)

\* The runner goes on, and so does a call (ModelCall!CallsEnd).
StageSpec == StageInit /\ [][StageNext]_stageVars
                       /\ WF_stageVars(Runner) /\ WF_stageVars(CallGoesOn \/ CallEnds)
===============================================================================
