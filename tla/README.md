# A TLA+ model of the AI company runtime

`runtime/src` of this repository drives *workflow runs*: a task is classified,
one of nine workflow definitions is chosen, and the run goes from step to step
as agents (model calls) report PASS or FAIL. What the program is built around
is one promise: **nothing gets past a `human_approval` step, a RISK 5 step or a
PRODUCTION step unless the Human Founder has approved it.** Around it there are
two more: **a proof run says ok only of what was done and tested**, whatever
models answer and providers refuse; and **a project definition promises only what
is on disk**. This directory models the code that keeps these promises, from the
rows of the store up to a whole proof run and down to the HTTP requests of one
model call, checks the model with TLC and proves the most important parts of it
with TLAPS.

All paths below are relative to the repository; `runtime/src/` is left out
where it is clear.

## 1. The system

| Component | Source | State it keeps | Operations |
| --- | --- | --- | --- |
| State store | `state/sqlite-store.ts` | tables of flags, tasks, runs, approvals; append-only logs | `put*` upserts of a whole row, `get*`, `list*` |
| Human approval engine | `approvals/approval-engine.ts` | approvals table | request, get, list, approve, reject, cancel; lazy expiry |
| Workflow engine | `workflows/workflow-engine.ts` | runs table | start, openApproval, resumeAfterApproval, submitOutcome |
| Global pause | `state/runtime-control.ts` | flag `runtime.paused` | pause, resume |
| Workflow registry | `registry/workflow-registry.ts` | the loaded definitions | load: schema, graph check, dominance check |
| Workflow definitions | `workflows/*.yml` | none | nine graphs of steps |
| Orchestrator | `orchestrator/orchestrator.ts`, `classifier.ts`, `task-intake.ts` | tasks table | plan, drive, resume, markTask; classify |
| Command line | `cli/cli.ts` | none; a process per command | `task run`, `approvals ...`, `runtime ...`, `proof ...`, `new`, `project ...` |
| Agent runner (simulated) | `agents/agent-runner.ts` | none | runStep: probes the gateway, answers PASS or FAIL |
| Policy engine, risk classifier, capability gateway | `policy/`, `permissions/capability-gateway.ts` | none | evaluate, authorize, assessRisk |
| Real agent runner | `agents/real-agent-runner.ts`, `agent-execution-result.ts`, `implementation-gates.ts` | locals of one stage: attempts, repairs, evidence | runStage: call, validate, tools, tests, scan, decide |
| Request budget | `proof/request-budget.ts` | one counter | reserve |
| Rate-limit scheduler | `models/rate-limit-scheduler.ts`, `rate-limit.ts` | the last snapshot of headers, two time stamps | pace, waitForRetry, observe, markCallDone |
| Model providers and router | `models/openai-compatible-provider.ts`, `real-provider.ts`, `router.ts` | the formats a provider was found to refuse | generate; building the provider and its fallbacks; route |
| Proof workspace, local sandbox | `proof/proof-workspace.ts`, `sandbox/local-sandbox.ts` | a directory and its git | read, write, patch, exec, snapshot, restore, diff |
| Software factory proof | `proof/software-factory.ts`, `agents/codex-cli-harness.ts` | locals of one process; artifacts, audit entries, the run itself | the stage loop, fallback, paid escalation, verdict, resume |
| Project factory | `project-factory/` | one directory of files per project | create, advance, authorizeBuild, verify; intake, budget policy |
| Audit, cost, spans | `audit/`, `cost/`, `telemetry/` | append-only logs | append; count of real model calls |
| Registries | `registry/` | what YAML files declare | load, reference checks |

**How they interact.** Within a process calls are synchronous, except for what is
awaited: the answer of an agent, the headers and the body of a model's HTTP
answer, a tool, `npm test`, the Codex CLI. Processes (one per CLI command) share
nothing but the SQLite file and the disk; a `put*` is atomic, but no transaction
ever spans a read and the write that depends on it, and a file is emptied before
it is filled. The engine asks the approval engine for a request when a run stands
at a gate, and reads the request when told to resume; the orchestrator and the
proof call both; the pause flag is read by plan, drive, submitOutcome and by the
gateway before every tool; a definition reaches the engine only through the
registry's graph check. A proof run hands each stage to the real agent runner,
which reserves requests from the proof's budget and calls the provider through
the scheduler; when a provider's quota is used up the proof restores the tree and
does the stage again on the next one.

**What is hard.** Loops back through a gate that was approved before; requests
that expire lazily, are withdrawn, or are answered while something else
happens; halted runs that can be asked about again; two processes that read and
write the same run or the same project; a process killed between two writes, of
rows or of files, and one that goes on from what it left; an answer that arrives
at a run another process has moved; a pause between the moment a tool is let
through and the moment it runs; three retry loops inside one another, each with
its own count; a wait that is cut short while the provider still refuses; a body
that never comes after headers that did; a reply that is cut off, refused,
repaired, or claims what was not done; evidence that is older than the last
write; graph searches on cyclic definitions. `PROJECT.json` lists each of these
hazards at its line, with the property that would notice it.

**What makes each component correct.**

- *Approval engine*: a decision is the founder's, on somebody else's request,
  taken once and never changed.
- *Workflow engine*: a run follows its graph edge by edge; no gate and no
  authorized step is passed without a grant to this very run; every crossing of
  a gate has a grant of its own; a request that is PENDING is awaited by exactly
  one run, at the step it is about; a halted run stays halted.
- *Registry*: the verdict on a definition is the one its graph deserves, and
  there always is one.
- *Definitions*: what gets to production was reviewed, after its last
  implementation, by somebody who did not implement it.
- *Orchestrator and CLI*: the engine's promises survive interleaving, crashes
  and the kill switch; a run gets to a gate or to its end; a decision takes
  effect.
- *Policy*: what runs without asking is not critical, was granted, and writes
  nothing while paused or to production; a simulated step fails by a pause alone.
- *Model call*: it ends, costs no more requests than its loops allow together,
  and goes out early only when its wait was capped.
- *Real stage*: PASS rests on evidence that still stands; tools stay in scope and
  stop at a pause; the budget counts every attempt.
- *Proof*: ok is earned, a stage begins clean, reports precede outcomes up to the
  founder's grant, escalation is bounded, and all it does to runs is what the engine
  allows.
- *Project factory*: a readable definition is consistent, and what it promises is
  on disk; the lifecycle goes forward only.

## 2. The modules

```
StateStore <- ApprovalEngine <- WorkflowEngine <- WorkflowSafety --implements--> HumanGate
                                     ^                 ^
                                     |                 +-- OrchestratorProcesses <- ProcessSafety
                                     +-- SoftwareFactory <- FactorySafety --implements--> WorkflowEngine
                                           uses Workspace, Providers, StageContract
RateLimits <- ModelCall --implements--> CallContract
StageRunner <- StageSafety --implements--> StageContract
      uses CallContract, ModelReply, Policy, Workspace
RiskText <- Intake <- ProjectFactory <- ProjectSafety
WorkflowGraph
```

The long chain is composed by contracts. `ModelCall` is shown to implement
`CallContract`; `StageRunner` has a call as `CallContract` and is shown to
implement `StageContract`; `SoftwareFactory` has a stage as `StageContract` and is
shown to implement `WorkflowEngine`'s `Spec`, which is shown to implement
`HumanGate`. Each link is checked by TLC and proved.

### Workflow runs

`StateStore` - a table is a function from the keys that have a row; `Upsert` is
`putRun`, `putApproval`, `putTask` and `setFlag`.

`ApprovalEngine` (extends StateStore) - variable `approvals` is the table and
`due` the set of requests whose `expires_at` has passed; that is all
`expireIfDue` asks of the clock. `ReadApproval`, `Decide`, `Cancel` are the
public methods, each with the lazy expiry it begins with; `NewRequest` is the row
`request` writes, which only `openApproval` calls. A call that throws before it
writes anything is no step; one that stores an expiry and *then* throws is a
step that only expires the request.

`WorkflowEngine` (extends ApprovalEngine) - variables `runs` and `paused`. One
action per method: `Start`, `OpenApproval`, `ResumeAfterApproval`,
`SubmitOutcome`, and `Pause`, `Resume`. `Transition` is the private method
`transition`, `Record` the row `pushHistory` appends. `Next` lets any client
call any method with any arguments at any time, so that what holds of it does
not rest on the orchestrator behaving well. A run keeps its whole history, as in
the code, because the engine decides from it (reviewer independence, the
requester of an approval). Of a step's text only what the engine's regular
expressions look for is kept, as the set `words`. Audit entries, packets, time
stamps and messages are left out: nothing is decided from them.

`HumanGate` - the abstract specification: a run asks, the founder grants or
refuses a request once, a grant opens one gate once, and an authorized step needs
a grant made to that run.

`WorkflowSafety` (extends WorkflowEngine) - the properties, and the refinement
mapping (`Promise == INSTANCE HumanGate WITH ...`): a request is "open" while
PENDING, "granted" while APPROVED and still held by its run, "spent" once the
run has let go of it, and "refused" otherwise; the moments of crossing are the
places in the history.

`ShippedWorkflows` - the nine definitions of `workflows/*.yml`, step by step.

`WorkflowGraph` - one call of `assertWorkflowGraph` and
`assertApprovalDominatesProduction`: one action per turn of the two searches.
The stack is a set, so which element is popped is left open and the result
holds of every order.

`OrchestratorProcesses` (extends WorkflowSafety) - CLI commands as processes.
`pc[p]` says what a process does next and `job[p]` holds its local variables,
among them the run **as it last read it**, which is what it later writes back.
A method of the engine is one action no more: `submitOutcome` is `Submit`
(read, judge) and `Write`; `openApproval` is `ReadGate`, `Ask` (store the request)
and `Park` (store the run); `decide` is `FounderDecidesOn` and `PutDecision`;
`resumeAfterApproval` is `ReadParked` and `LookAndMove`. `Turn` is a turn of
drive's loop and `Work` the await of the agent. The effects are the engine's own
operators (`AfterOutcome`, `AfterDecision`, `Parked`, `GateRequest`), so there
is one translation of each. `Crash` kills a process at any point; a command
that throws ends its process. `granted` is a history variable: the requests ever
stored as APPROVED. A run and its task share an id, because `plan` makes one run per
task. The CLI never gives an approval a time limit, so nothing expires here. A
new request gets one chosen id of those that are unused (`UnusedId`): ids are only
ever compared.

`ProcessSafety` - what the processes keep and what they must eventually do.

### A model call

`RateLimits` - the scheduler. A time stamp is kept as the time passed since, and
no clock is read beyond the longest reset a header can name (`Horizon`) or the
interval between calls. `PaceWait` and `RetryWait` are `pace` and `waitForRetry`
before their cap, `ObserveThen` is `observe`. Headers are parsed by their form:
a number, a duration, a date, something else.

`ModelCall` (extends RateLimits) - `callModelWithRateLimit` around `generate`,
one action per await: `PaceAndGenerate`, `Send`, `Headers`, `BodyEnds`, `Timer`,
`NoAnswer`. `attempt`, `degrades` and `cycle` are the counters of the nested
loops; `schemaOff` and `promptOnly` are the client's two lasting changes of
format. The provider is the environment: it closes a window when it likes
(`closed`) and says so in headers of any kind, or does not. `heard` and `capped`
are history variables.

`CallErrors`, `CallContract` - what a call may end with (the provider's errors and the
scheduler's `RATE_LIMIT_EXHAUSTED`), and all that its caller may rely on: the number of requests, of limits, and that the quota is called
exhausted only after every cycle.

`Providers` - `buildRealProvider` and the fallback chain as operators of the
environment variables: kinds, base URLs, key variables, premium providers, and
what a task's text forbids (`MayStart`).

### A stage on a model

`ModelReply` - `parseModelResult` as a validation of what a text holds: status,
file changes, tool calls, lists that are not lists, contents that are too long.
JSON repair and the wording of errors are left out.

`Policy`, `RiskText` - `PolicyEngine.evaluate` rule by rule in its order,
`authorize`, the risk of a text, `ModelRouter.route`, `classify` and the probes
of the simulated runner. All of it is operators: the registries are constants
under the assumptions that loading checks.

`Workspace` - the tree, `safePath`, the classes of commands, git's first commit,
checkpoint and restore, and the gates that judge a change. A path is a record of
what the code looks at in one; a content is known by the traits its patterns find.

`StageRunner` - `runStage`: `Reserve`, the call, `Accept`/`Reject`, one
`Authorize` and one `Execute` per tool call, `RunTests`, `Gates`. Another process
may pause the runtime between any two of these (`SetPaused`). `StageSafety` has
the properties and the mapping to `StageContract`.

`StageContract` - what a proof may rely on: requests are reserved one by one
within the budget and the stage's attempts; no verdict without a request; a tree
that was written to had a reply.

### A proof run

`ShippedPlans` - `PLANS`, the table of the real stages.

`SoftwareFactory` (extends WorkflowEngine, StageContract) - one process at a
time, `proof`, with all it holds: where it is, provider, remaining fallbacks,
checkpoint, reports. `Turn` reads the run again; `AskFounder`, `AuxiliaryStage`
and `BeginStage` are the branches of the loop; `ReserveCall`, `Reply`,
`ApplyReply` and `StageReturns` are what the proof sees of a stage; `ProbeCodex`,
`RunCodex` and `JudgeCodex` are the implementation by the Codex CLI; `StoreStage` and
`SubmitStage` the report and the outcome; `ReachVerdict` the final judgement.
`Crash` loses `proof` (it is `Nobody` until a process starts) and the budget; tables,
tree, artifacts and audit entries stay, and `ResumeProof` begins from them. A proof
whose outcome the engine refuses, because the run was moved meanwhile, ends by the
exception (`SubmitRefused`).

`Others` are the commands that are no proof. `FounderStep` is the kill switch and the
decision. `DriveStep` is what `approvals approve`, `approvals reject` and `approvals
resume` do after it: `Orchestrator.resume` (`ResumeRun`) and, when the founder has let
the run through, `drive` (`EnterDrive`, `DriveTurn`, `DriveOutcome`), which submits the
steps behind the gate for simulated agents, stores no report, and marks the task
(`DriveMark`). The variable `drive` is what that command knows: the run, where it is,
the agent it waits for. It may be killed anywhere (`DriveDies`), interleaves with the
proof at its awaits, and there is one at a time, since a run has one gate here;
`OrchestratorProcesses` takes the same code apart between reads and writes.

`FactorySafety` - its properties; `ImplementsEngine` is `WorkflowEngine`'s `Spec`.

### Projects

`Intake` - `parseIntake` and the budget policy; a text is the set of the telling
words in it. `ProjectFactory` - a command is a sequence of file operations
(`CreateProgram`, `AdvanceProgram`, `AuthorizeProgram`), each `writeFileSync` an
`Open` that empties the file and a `Fill`; commands overlap and are killed (`Kill`)
between any two. Documents, definition and package are refused when their text looks
like a secret or does not fit its schema: `RefuseText` ends the command there, with what
it wrote before left on disk. `cutShort` is a history variable: some command was killed
or refused. `ProjectSafety` - the properties.

### Proofs and instances

`WorkflowProofs`, `HistoryProofs`, `WorkflowGraphProofs`, `ProcessProofs`, `StageProofs`,
`CallProofs`, `FactoryProofs`, `ProjectProofs` - section 5. `WorkflowCourse` says where the
`on_pass` edges of a definition lead a run that only passes steps, and what lies behind
its gates (`LiesBehindGates`), which the proofs about the proof run ask of
`feature-development`.

`MCShipped`, `MCGates`, `MCGraph`, `MCGatedProduction`, `MCProcesses`, `MCCall`,
`MCStage`, `MCFactory`, `MCProject` - the instances for TLC. Operators whose
comment begins with *Fault:* are defective versions of the operator that follows
them; `PROJECT.json` pairs each property with one that breaks it.

## 3. The runs

| Run | Instance | Checks |
| --- | --- | --- |
| `MCShipped` | the nine shipped definitions, 1 run, 2 requests, MaxFail 2 | TypeOK, GatedPassesAreApproved, HistoryIsAPath, ProductionIsReviewed |
| `MCGates` | a small definition with a gate behind a gate, 2 runs, 3 requests, MaxFail 1 | EveryPendingRequestIsAwaited, DecisionsComeFromTheFounder, EachCrossingHasItsOwnApproval, DecisionsAreFinal, HaltedRunsOnlyAskAgain, ImplementsHumanGate |
| `MCGraph` | all definitions of 3 steps with distinct ids, all of 2 steps with any ids and edges | VerdictIsRight, LoaderAnswers |
| `MCProcesses` | 2 processes, 1 run, 2 requests, 1 kill, kill switch, MaxFail 1 | ProcTypeOK, FounderBehindEveryPass, ParkedRunsHoldTheirRequest, RunsGetSomewhere, DecisionsTakeEffect |
| `MCCall` | 2 calls, windows of 1 and 3 ticks, 1 retry, 2 cycles, waits of at most 2 ticks | OnlyACappedWaitIsTooShort, ImplementsCallContract, CallsEnd |
| `MCStage` | 5 stages, 4 paths, 7 replies, 1 structured retry, a budget of 4 | PassIsEvidenced, OneWriteAfterThePause, ToolsStayInScope, AllowIsEarned, OnlyAPauseFailsAStep, ImplementsStageContract, StageEnds |
| `MCFactory` | `feature-development` with one stage of each kind and the steps behind the gate, 1 run, 1 request, 2 proofs one after the other, a drive, a budget of 5, MaxFail 1 | OkIsEarned, StagesBeginClean, ReportsPrecedeOutcomes, PremiumIsBounded, ChainIsUsable, ImplementsEngine, ProofEnds |
| `MCProject` | 2 command lines, 4 commands, killed or refusing a text, 6 intakes to create from, a larger sample for the intake | DefinitionsAreSound, PromisesAreKept, FilesAgreeAtRest, IntakeIsSafe, ForwardOnly, CommandsEnd |
| `MCGatedProduction` | definitions of 4 steps | EveryProductionStepIsGated, *violated* |
| `MCRiskFive` | the shipped definitions | PassingChecksReachTheFounder, *violated* |
| `MCResume` | as `MCFactory`, MaxFail 0 | CeilingHoldsAcrossResume, *violated* |
| `MCIntake` | as `MCProject` | NoSignalMeansNone, *violated* |

**What they show.** `MCShipped`: whatever clients, founder, clock and kill switch
do, no run of a shipped workflow passes a gated step without the founder, every
history is a path of its graph, and nothing unreviewed reaches production.
`MCGates`: with several runs on one approvals table, requests, decisions and runs
stay in step, and the engine implements `HumanGate`. `MCGraph`: the loader's two
searches end and answer rightly. `MCProcesses`: taken apart at their reads and
writes, and killed anywhere, two commands never make a run pass a gate before a
grant to it was stored, and never leave a run parked on a request that is not
there. What they *can* do to each other is undo a step, or end each other with an
exception. An undisturbed run gets somewhere, and a decision takes effect (section 4).
`MCCall`: over every kind of header, status
and body, a call keeps `CallContract` and ends; a request goes out in a window the
scheduler was told of only if the wait for it was capped. `MCStage`: whatever a
model answers and whenever the runtime is paused, PASS means green tests with no
write after them, the source and test it had to write, and no secret where the
change could be computed. `MCFactory`: with fallbacks, both kinds of paid
escalation, crashes and resumption, success is earned and every stage starts from
a clean tree. An outcome that has no report stands behind the founder's grant, where
the drive put it; it stays so however the drive, the proof and its resumption come in
each other's way. `MCProject`: commands that are killed anywhere, or refuse a text
halfway, never leave a definition that promises more than the disk has; commands that
overlap can take back each other's work, but never leave an inconsistent definition. A
word more in the text the intake searches never makes a project look safer; which text
it searches is another matter (`MCIntake`).

**The bounds, and why they are enough.**

- `MaxFail` bounds the FAIL outcomes *submitted* to a run: every cycle of a
  definition goes through an `on_fail` edge, so it bounds
  the history. A rejection by the founder is not counted but uses up a request.
  Two failures suffice for a way back to implementation and once more through the
  review and the gate; with two requests the second passage is asked for anew.
- `Approval`: 2 or 3 ids. Two requests of one run are the first and the one after
  it, and a third belongs to the other run: the properties relate one request to
  one run or compare two requests of one run. When the ids are used up, a run
  stays where it is, and the safety properties say no less.
- `Run`: runs meet only in the approvals table. `MCGates` has two; the others
  look at properties of one run at a time.
- `Proc`: 2, of command lines of either kind. Each interference is between one process that has read and one that
  writes.
- `MaxCrash` 1: after a kill nothing remembers it but the store.
- `MAX_TRANSITIONS` is 120 in the code and 16 in `MCProcesses`, more than the turns a run can take there: the limit is not met.
- `MaxCalls` 2: what a call leaves for the next is the scheduler's snapshot and the
  client's two flags. `Windows` {1, 3} with `MaxWait` 2: one window a capped wait
  outlasts and one it does not. `MaxRetryCycles` 2 and `MaxRetries` 1 make the
  three loops meet each other's ends; `Horizon` 3 is the longest window.
- `MCStage`: `UsedBefore` {0, 3} with a `Ceiling` of 4 lets a stage run out of budget
  at its first, second or no reservation. `MaxStructuredRetries` 1 is one bad
  reply and one repair, in either order. The replies are one of each kind the
  validation or the gateway tells apart, the trees one the stage passes in and one
  it does not.
- `MCFactory`: `MaxLaunches` 2 is one interruption and one resumption; nothing but
  the durable state passes between processes. `Ceiling` 5 is one more than a run
  without trouble needs. `MaxLaps` is 40 in the code and 6 here, the turns of a run
  without trouble, so that one that fell back meets the limit. A proof submits only
  PASS; the failures are those of the simulated agents behind the gate, and `MaxFail` 1
  takes `production_verify` once to the way back. `MaxFail` is 0 in `MCResume`, which is
  about the time before the gate. The environments are Groq with a fallback, alone or
  with either premium provider, and without keys; `EveryEnv` is larger, because the chain
  is a function and costs no states.
- `MCProject`: 4 commands reach from creation to authorization with one to spare for
  a kill. `Creator` is one of the two command lines: two *creations* at once are
  not explored here, but are in the proof of `DefinitionsAreSound`.
- Approval ids are symmetric in `MCShipped`, approval and run ids in `MCGates`;
  neither run has a liveness property, and no definition picks one of them.
  The other runs use no symmetry.
- Deadlock is not checked where the system may stop: a run may end, a definition is
  accepted or rejected, a process may idle for ever, a stage is done, and ids,
  calls and commands are finite. In `MCFactory` and `MCResume` it is checked, for
  the founder can always pause or resume.

### Where code and documents disagree

Shown by a run:

1. `MCGatedProduction`: `workflow-registry.ts:83` takes the *first* PRODUCTION
   step of a file; the comment at :74 speaks of *every* PRODUCTION step. A later
   one may be reachable around all gates. No shipped definition is like that,
   and `submitOutcome` would still block the step at run time
   (GatedPassesAreApproved holds for any definition).
2. `MCRiskFive`: in a workflow of `risk_level` 5 the steps that declare no risk
   inherit it, so the first ordinary step already needs an approval that only
   the later `human_approval` step would ask for. The run is BLOCKED, from which
   nothing leads out.
3. `MCResume`: `proof resume` seeds the request budget with the number of
   `real_model_call` entries of the audit log (`cli.ts:589-591`). A reservation is
   made before a call and its entry after the reply, and a repair's entry has
   another name; so a call under way when the process died, a call that ended in
   an error, and every repair are not counted, and a proof over an interruption
   reserves more than its ceiling. `request-budget.ts:38-40` says the shared
   ceiling keeps counting.
4. `MCIntake`: as soon as a brief has one label, only its name and description are
   searched for risk and security (`intake.ts:262`). One whose core features are
   payments gets standard security, and `product/intake-assumptions.md` says "no
   elevated-security signal in the brief" (`intake.ts:205`). The comment at :259 speaks
   of "the extracted values", and the features are among them. For the same reason a
   first label may lower the risk of a prose brief.

Met while modelling and kept as hazards, without a run of their own:

- A run that is RUNNING when its process dies is continued by no command of
  `task`; the class comment of `workflow-engine.ts` (39) says that it resumes. The
  same is left after `drive`'s last turn (`orchestrator.ts:84`, `:96`).
- `real-agent-runner.ts:476` clamps the longer second attempt to the absolute
  ceiling of output tokens, not to the configured one.
- The budget counts reservations, one per attempt; a reservation may cost several
  HTTP requests (`RequestsBound` says how many), and runs of the Codex CLI are not
  counted at all (`request-budget.ts:7`).
- The tier a run falls back to may be below the floor of its risk (`router.ts:117`);
  `TierWithinBounds` is about the tier it is routed to.
- The handoff's checksum is taken over its top-level fields only
  (`runtime-handoff.ts:51-57`).
- A proof saves its task as APPROVAL_REQUIRED after it has parked the run
  (`software-factory.ts:627-629`); a decision and its drive that come in between mark the
  task first, and the mark is lost.
- A base URL of another provider keeps the key variable of the kind it overrides.
- A resumed proof reports every implementation as one by `codex-premium`
  (`software-factory.ts:492`), and a proof that was interrupted before its code
  review cannot be resumed.
- A workflow run that was simulated can be resumed as a real proof.

## 4. Fairness

`ProcSpec` assumes three things of the scheduling.

- `WF(Continue(p))`: a process that has begun a command goes on with it. The code
  is straight-line synchronous code with one await, that of the agent. An agent
  of an ordinary run always answers: the CLI adds no providers, so
  `ModelRouter.run` ends at `MockModelProvider`, which is always ready, needs
  no network and never fails (`runtime.ts`, `models/router.ts`). The answer is
  FAIL when a capability the step needs is denied. A kill is `Crash`, which
  fairness never forces and never prevents.
- `SF(OperatorResumes(r))`: `docs/runtime-operations.md` (35-36) names
  `approvals resume` as what the operator does with a decided request that has
  not taken effect. It must be strong: the command is available again and again
  but not continuously, because both processes may be busy. Nothing is assumed
  about *deciding*: the founder may never answer.
- `WF(Next)` in `WorkflowGraph`: the loader is a loop without a wait.

`RunsGetSomewhere` assumes that nobody was killed, that the runtime is not
paused and that ids are left, and is checked with agents that fail once at most
(`MaxFail` 1), so the turn limit is out of reach: with failures that lead back
often enough it is met, and the run stays RUNNING. Without the first a killed run
stays RUNNING too, and without the second a run that is resumed during a pause is
moved off its gate and then left by `drive`. `DecisionsTakeEffect` assumes none of
this: a decision takes effect although the process that took it is killed.

The other specifications assume this:

- `CallSpec`: `WF(Client)`, the client's own code; `WF(Timer)`, the abort timer on the
  headers, which is always armed; and `WF(BodyEnds)`, which is *not* the code's doing:
  the timer is cleared when the headers are there, so only the provider or the
  network ends a body. `CallsEnd` holds under that assumption alone.
- `StageSpec`: `WF(Runner)`, and `WF(CallGoesOn \/ CallEnds)`, which `CallsEnd` justifies
  since the requests of a call are bounded. Nothing is assumed of the pause.
- `FactorySpec`: `WF(ProofStep)`. What it awaits comes back: a stage because
  `StageEnds`, the Codex CLI because it is run with a time limit. A crash ends the
  process as well, and nothing is assumed of the founder or of the drive.
- `FairFactorySpec` of ProjectFactory: `WF(Step(p))`, a command is one synchronous
  program.

## 5. The proofs

**`WorkflowProofs`** proves, for all sets of approvals, runs, identities, steps
and all definitions the loader lets through, theorems about `Spec` of
`WorkflowEngine`:

| Theorem | Says |
| --- | --- |
| Invariance | `Spec => []Inv` |
| TypeCorrect | `[]TypeOK` |
| GateIsRespected | `[]GatedPassesAreApproved` |
| NoOrphanRequest | `[]EveryPendingRequestIsAwaited` |
| FounderDecides | `[]DecisionsComeFromTheFounder` |
| FinalDecisions | `DecisionsAreFinal` |
| HaltedRunsStay | `HaltedRunsOnlyAskAgain` |
| EngineImplementsHumanGate | `Spec => ImplementsHumanGate` |

The argument is one inductive invariant, `Inv`: TypeOK, the three state
properties, and two facts none of them is inductive without.
`WaitsForItsRequest`: a run has a pending request exactly when it is
APPROVAL_REQUIRED, it then stands at a gate, and that request exists, is its own
and is about this gate. Without it `resumeAfterApproval` could read an APPROVED
request of another run and pass the gate on it. `RequestsHaveRuns`: no
request outlives its run, so a fresh run has no grants. Per action one lemma
says what it writes (`OpenApprovalWrites`, `ResumeStep`, ...) and one that it
keeps `Inv` (`...KeepsInv`). `OneMorePass` says what one more record adds to the
passes of a run, and `ApprovalsStay` that a grant is never taken back. The
refinement needs in addition that a request is live for its run only while the
run holds it (`OnlyHeldIsLive`): that is what makes a grant open one gate once.

Assumptions on the constants: `IdentityAssumption` (the founder and the system
are identities), `ApproverAssumption`, `NoneAssumption` (null is no id),
`DefAssumption` (what the loader guarantees: edges resolve, the first step
exists), `StepIdAssumption` (no step is called `end`, `abort` or `done`) and
`BoundAssumption`. The last is used only for typing: the theorems hold for every
bound. TLC evaluates all of them in the runs.

**`HistoryProofs`** goes on from there. `PathsAreFollowed == Spec => []HistoryIsAPath`:
`transition` adds one edge to the path of one run (`OneMoreEdge`), and no other write
touches a history. `GrantsAreUsedOnce == Spec => []EachCrossingHasItsOwnApproval`
counts: the crossings of a gate are never more than the grants made there that the run
does not hold (`GrantsAreSpent`). Comparing with all grants would not be inductive,
since `resumeAfterApproval` adds a crossing and no grant; what it does is give up the one
it holds (`CrossingIsPaid`). That the run cannot take it up again rests on `Inv` and on
grants being final.

`ProductionFollowsReview` is `Spec => []ProductionIsReviewed` for definitions that satisfy
`KeepsReviews`: from an implementation a run comes to a set of steps that it leaves only
by a review that passes, and none of them is PRODUCTION. Which set is the graph's
affair; `MCShipped` computes it for the nine shipped definitions and evaluates the condition
(`ShippedReviews`). The invariant `RunsOnReview` says of each implementation in a history
that a review by somebody else follows it, or that its run stands in that set now.
That the reviewer had no part in any implementation so far is the rule `submitOutcome`
keeps at the moment of the review, so the record is judged by the history before it and
never again.

**`WorkflowGraphProofs`** proves `LoaderIsRight == Spec => []VerdictIsRight` for
definitions of any size, with `Searching(avoided)` as the loop invariant of both
searches: what was seen can be reached, and whatever was seen and popped has all
its successors seen. With an empty stack the set seen is closed and hence
contains everything reachable (`SearchIsComplete`).

**`ProcessProofs`** is about `ProcSpec`: any number of command lines, taken apart between
their reads and writes and killed anywhere. `AuthorityIsFounded == ProcSpec =>
[]FounderBehindEveryPass`, `ParkedRunsCanBeDecided == ProcSpec =>
[]ParkedRunsHoldTheirRequest` and `ProcessesAreTyped`. Nothing of `Inv` survives here: two
processes may make requests for one gate, and a late write takes back what another one
stored. What does survive is a property of *rows*, whoever has them: `SoundRow(r, row)`
says that `row` may be stored at any time. It contains no relation to the row that is in the
table now, only to requests, which are never deleted, and to `granted`, which only grows;
so a stale row in a process's hands stays sound however long it is kept. `ProcInv` asks it
of the table (`RowsAreSound`) and of what each label will write (`SoundJob`).

**`StageProofs`** proves, for any plan, registries, workspace, replies and bounds:
`ToolsStayInScope`, `OneWriteAfterThePause`, `ImplementsStageContract`, and the two
properties of the policy. `Accounted` ties the reservations of a stage to its
counters (`spent = attempt + repairs`, one more once a call is out), which is what
the contract's bound on attempts comes from. `OneCallLetThrough` says that only
the call the gateway has already let through can be late.

`PassesAreEvidenced == StageSpec => []PassIsEvidenced`. The gates
look at what they are given, so `EvidenceInv` says what that is worth: the files a
tool wrote are there still (`WrittenIsThere`), and the tests were run after the last
write wherever a gate may look at them, a rejected repair included
(`TestsAreFresh`). It needs two assumptions. `RepliesAssumption`: a write has a path
and a content, which the code's coercions see to. `PlansAssumption`: a plan that
requires a change requires a test too. The plans of software-factory.ts do, and the
gates rely on it: with `requireWorkspaceChange` alone, a stage that wrote nothing but
tried to (`hadChangeAttempt`) passes when a command left output that git shows as a
change, since "no source file was changed" is only said of a list that is not empty
(implementation-gates.ts:133-148).

The policy is operators, and its results hold for any registries under the assumptions
loading checks: what `evaluate` allows is earned (`AllowEarned`, from it
`DecisionsAreEarned`), a simulated step fails by a pause alone and a step that writes does
(`PauseAloneFails`, from it `OnlyPausesFail`), and the router stays between floor and
ceiling (`TierBounded`).

**`CallProofs`** proves `CallKeepsContract == CallSpec => ImplementsCallContract` for
any number of retries and cycles. `Counted` bounds `sent` by what the finished
cycles may have cost, plus the attempts of this one, plus a turn for each change
of format - made once in the life of a client, so that the bound of a call is
`(MaxRetryCycles + 1) * (MaxRetries + 1) + 2` however the three loops mix.
`AnnouncedWindowsAreWaitedFor == CallSpec => []OnlyACappedWaitIsTooShort` relates the
window the provider keeps closed to what the scheduler remembers of it. Its invariant,
`HeardInv`, has three places where the announcement may be: in an answer not yet read
(`AnswerAnnounces`), in the snapshot, as a reset that its age has not used up
(`WillBeWaitedFor`), or nowhere because a wait was capped. It needs that a window
is no longer than the clock is read (`Windows \subseteq 0 .. Horizon`).

**`FactoryProofs`** proves that a proof run is a client of the engine,
`FactorySpec => ImplementsEngine`, and with it that every theorem above holds of
proof runs (`ProofsRespectTheGate`, `ProofsImplementHumanGate`). The invariant is
`EngineInv`: the engine's own `Inv`, and that a process works on a run that is in
the table.

What a proof and a drive can do to each other is settled by the course of a run,
`CourseInv`, which adds

- `CourseKept`: up to its gate a run has only passed steps, and stands where the
  `on_pass` edges lead from what it has passed; once the founder has let it over the
  gate (`Granted`) it is behind it for good, where there is no real stage and no other
  gate, having passed every real stage (`IsBehind`);
- `DriveKept`: the drive has a run that is `Unlocked`, over its gate or halted, and so
  one in none of whose real stages a proof can be.

`ReportsComeFirst == FactorySpec => []ReportsPrecedeOutcomes` is `ReportInv`, with
`StageIsHeld` besides: while the process is in a real stage its run is RUNNING and not
over its gate, hence nobody else's to move, so that the stage it submits is the one whose
report it stored. Of a run the founder has let through nothing of the kind holds - the
drive may move it under a proof that still has an outcome to submit - and the property
says just so much: an outcome without a report stands behind a grant in its own history.

What a proof promises at its end - `SuccessIsEarned == FactorySpec => []OkIsEarned`,
`StagesStartClean == FactorySpec => []StagesBeginClean` and `EscalationIsBounded ==
FactorySpec => []PremiumIsBounded` - rests on `ProofInv`, which adds

- `TreeInv`: what the tree has, by whether the implementation is in the history, with the
  checkpoint being the tree at the beginning of the stage as long as one is under way, and
  the secrets of a stage that did not pass gone with the restore;
- `StagesAreSigned`: the reports a process holds are signed by the owners of their steps, so
  that a verdict that compares implementer and reviewer compares the owners;
- `PremiumKept`: the calls paid for, plus those the process is still entitled to at the place
  where it is (`Allowance`), are at most two for each run;
- `VerdictKept`: what `ReachVerdict` found when it looked is so still when the proof has
  ended and the run is decided on and driven on; of the task only while the run waits for
  the founder, for the drive marks it afterwards;
- `LocalsKept`: the fields of `proof` fit the place it is at.

The loss of everything but the tables in a crash is why these are facts about durable state
wherever they can be: `ResumeProof` has only that to begin from. `ChainStaysUsable ==
FactorySpec => []ChainIsUsable` is about the provider chain as a function of any
environment.

**`ProjectProofs`** proves `DefinitionsSound == FactorySpec => []DefinitionsAreSound`
for any number of overlapping commands killed anywhere: `SoundDefinition` of all
that is on disk or held by a command, and `SafeProgram` of what a command has
still to do - a definition that is READY_FOR_BUILD is written only when a package
is there.

As long as no two commands overlap more can be said. `PromisesKept == FactorySpec =>
[]PromisesAreKept` and `GoesForwardOnly == FactorySpec => ForwardOnly` rest on
`SequentialInv`: there is one command; a program that is still to write its definition
will first write, or has already written, every document the definition promises, goes on
from the definition last written (`Follows`), and touches none of the files that one
promises (`ToBeDefined`); one that has written it only has its log to write
(`Defined`). `Orderly` says what of the order of operations this needs, and is kept by
taking the first one off. `FilesAgreeWhenAtRest == FactorySpec => []FilesAgreeAtRest`
adds `AgreementInv`, for histories without a kill or a refused text: package and log agree
with the definition, or the command under way will make them. `IntakesAreSafe ==
FactorySpec => []IntakeIsSafe` is about `parseIntake` as a function: whatever the brief,
and whatever overrides of their types. A word more in the text that is searched
(`MoreIsScanned`) lowers neither the risk (`RiskOfMore`) nor the security (`SecurityOfMore`),
and what is searched earns its security (`SecurityEarned`). What is not searched is the
subject of `MCIntake`.

**Assumptions on these constants**, all of them evaluated by runs:

- `RegistriesAssumption`, `RunnerAssumption`, `PlansAssumption`, `RepliesAssumption`
  (registries are consistent, bounds are numbers, and the two above);
- `AgentAssumption`, `TurnsAssumption`, `FaultsAssumption` (agents are neither the founder
  nor the system);
- `ClientAssumption`, `SchedulerAssumption`, and `AbsenceAssumption` of RateLimits (limits
  are natural numbers, windows lie within the horizon, and null is no value of a header);
- `FactoryAssumption` of SoftwareFactory (the workflow exists, the founder may approve);
- in FactorySafety `CourseAssumption` (in feature-development every real stage comes before
  the first human gate, there is no way back to the implementation by passing, and behind
  the gates lie no real stage and no other gate; `MCShipped` shows it of the shipped file,
  `ShippedCourse`), `BudgetAssumption` (two attempts and one
  repair), `FixtureAssumption` (the fixture is there and holds no secret), `EnvAssumption`,
  and `OneRunAssumption`: tree, task and reports are those of one run, as they are in
  the code, which names them by the task;
- `FactoryAssumption` and `AbsenceAssumption` of ProjectFactory (null is no value), and
  `SampleAssumption` (overrides have the types of `StructuredIntake`).

**Only model-checked.** Liveness (`RunsGetSomewhere`, `DecisionsTakeEffect`, `LoaderAnswers`,
`CallsEnd`, `StageEnds`, `ProofEnds`, `CommandsEnd`) is beyond this prover. The four
properties that are violated have no theorem, for there is none. That the shipped
definitions satisfy what `ProductionFollowsReview` and `CourseAssumption` ask is
evaluated by TLC, being about nine given graphs. Every other property that a run checks is
the statement of a theorem.

## 6. What is not modelled, and what comes next

Left out because there is no state to follow, or because it is text or I/O: the
organization's prose and schemas; reading YAML; skills; prompt assembly and the
contexts and packets; spans, cost and audit entries, except the count of real
model calls that `resume` reads; the LiteLLM and mock clients; `projectFacts` and
`keyFiles` of the workspace; the report files of a proof and the deterministic
proof of `proof.ts`, which is a script over the engine; slugs and the wording of
project documents; the listing commands of the CLI.

Abstracted: the repair of broken JSON (`ModelReply` begins from what a text holds);
patterns on text (sets of the words they find); time (ticks); tokens (hundreds, or
thousands in `ModelCall`); the processes `exec` starts (external, they may leave
output behind). `markTask`'s row is a status. Whether the Codex CLI is there
and logged in is the `ready` of `ProbeCodex`.

What could come next:

1. Two creations of a project at once, and the slugs that keep projects apart, in a run.
2. A workspace, a task and reports for each run in `SoftwareFactory`, in place of
   `OneRunAssumption`.
3. Runs for the divergences above that have none.
