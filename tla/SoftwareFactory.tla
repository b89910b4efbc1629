---------------------------- MODULE SoftwareFactory ----------------------------
(***************************************************************************)
(* The proof run of runtime/src/proof/software-factory.ts: one process     *)
(* that takes a task through the stages of its workflow, stage by stage,   *)
(* on real models, until the founder has to decide. It is composed of the  *)
(* workflow engine, whose runs, requests and pause it shares with every    *)
(* other process; of its stages, as StageContract has them (StageRunner    *)
(* is what happens inside one); of the workspace; and of the providers.    *)
(*                                                                         *)
(* The process may be killed between any two steps. What it holds itself   *)
(* is lost then (`proof`, the request budget); the tables, the workspace,  *)
(* the artifacts and the audit log stay, and `proof resume` goes on from   *)
(* them. The sub-steps of a stage are awaited calls, so the founder and    *)
(* the pause come in between. So does the drive that a decision of the     *)
(* founder sets off (orchestrator.ts), another process, which takes the    *)
(* run on behind its gate on simulated agents and stores no report.        *)
(***************************************************************************)
EXTENDS WorkflowEngine, StageContract, ShippedPlans

CONSTANTS Path, Content, Traits, Seed,  \* of Workspace
          Env,          \* of Providers
          Task,         \* what the sensitivity patterns find in the tasks there are
          Edit,         \* the edits of one reply: [to : SUBSET Path, content : Content]
          InScope,      \* the paths CODEX_ALLOWED_PATH lets the Codex CLI change
          GitStates,    \* what may become of git in the workspace
          Tests,        \* what `npm test` may report
          CallsBefore,  \* real_model_call entries of earlier proofs in the audit log
          MaxLaps,      \* turns of the stage loop (40 in the code)
          MaxLaunches   \* bound on the processes started, one after another

ASSUME FactoryAssumption ==
  /\ "feature-development" \in Workflow
  /\ HUMAN_FOUNDER \in Approver

VARIABLES files, root, git,  \* of Workspace
          proof,     \* what the process knows, Nobody while none runs
          stored,    \* the stages with a report in the artifact store
          task,      \* the status of the run's task
          drive,     \* what the command that drives the run behind its gate knows
          calls,     \* real_model_call entries of the audit log, repairs left out
          reserved,  \* requests reserved for the run, over all its processes
          paid,      \* those of them on the premium provider, and runs of Codex
          launches

Tree == INSTANCE Workspace
Chain == INSTANCE Providers

treeVars == <<files, root, git>>
durable == <<stored, task, calls>>
counts == <<reserved, paid, launches>>
factoryVars == <<vars, contractVars, treeVars, proof, durable, counts, drive>>

REAL_STAGES == DOMAIN PLANS
Agents == Identity \ {HUMAN_FOUNDER, SYSTEM}

-------------------------------------------------------------------------------
Report(stage, agent, outcome, provider) ==
  [stage |-> stage, agent |-> agent, outcome |-> outcome, provider |-> provider]

\* A process about to enter the loop. `at` is where it is, `call` how far the
\* current model call got, `tries` the runs of the Codex CLI in this stage, `by`
\* the agent in whose name it submits the stage.
Process(r, real, env, premium, stages) ==
  [run |-> r, at |-> "turn", real |-> real, premium |-> premium,
   provider |-> IF real THEN Chain!BuildRealProvider(env).id ELSE "mock",
   fallbacks |-> IF real THEN [i \in DOMAIN Chain!Fallbacks(env) |-> Chain!Fallbacks(env)[i].id]
                 ELSE <<>>,
   lap |-> 0, checkpoint |-> None, call |-> "none", repaired |-> FALSE, tries |-> 0,
   outcome |-> None, by |-> None, stages |-> stages, ok |-> TRUE]

\* No process: it is nowhere, and knows nothing.
Nobody ==
  [run |-> None, at |-> "nowhere", real |-> FALSE, premium |-> None, provider |-> None,
   fallbacks |-> <<>>, lap |-> 0, checkpoint |-> None, call |-> "none", repaired |-> FALSE,
   tries |-> 0, outcome |-> None, by |-> None, stages |-> <<>>, ok |-> FALSE]

\* No command drives the run on.
NoDrive == [run |-> None, at |-> "nowhere", by |-> None, mark |-> None]

FactoryInit ==
  /\ Init
  /\ working = FALSE /\ used = 0 /\ spent = 0 /\ wrote = FALSE /\ verdict = "PASS"
  /\ Tree!WorkspaceInit /\ git \in GitStates
  /\ proof = Nobody /\ stored = {} /\ task = None
  /\ calls \in CallsBefore
  /\ reserved = 0 /\ paid = 0 /\ launches = 0
  /\ drive = NoDrive

\* The locals of one turn of the loop, as each turn finds them.
FreshLocals(p) ==
  [p EXCEPT !.checkpoint = None, !.call = "none", !.repaired = FALSE, !.tries = 0,
            !.outcome = None]

NoProcess == proof.at \in {"nowhere", "ended"}
At(place) == proof.at = place

\* proof software-factory [--real]: nothing is begun that is blocked by its
\* provider or by what the task holds, or (in plan) by the pause. A paid provider
\* is part of a real proof only.
LaunchProof(r, real, env, traits) ==
  /\ NoProcess /\ launches < MaxLaunches
  /\ r \notin DOMAIN runs
  /\ real => Chain!MayStart(env, traits)
  /\ ~paused
  /\ runs' = Upsert(runs, r, NewRun("feature-development"))
  /\ task' = "CLASSIFIED"
  /\ proof' = Process(r, real, env, IF real THEN Chain!PremiumKind(env) ELSE None, <<>>)
  /\ used' = 0
  /\ launches' = launches + 1
  /\ UNCHANGED <<approvals, due, paused, working, spent, wrote, verdict, treeVars,
                 stored, calls, reserved, paid, drive>>

PassedSteps(run) ==
  {run.history[i].step_id : i \in {j \in DOMAIN run.history : run.history[j].result = "PASS"}}

\* Fault: a run is resumed wherever it was interrupted.
MayResumeAnywhere(run) == run.status = "RUNNING"

MayResume(run) ==
  /\ run.status = "RUNNING"
  /\ {"implementation", "code_review"} \subseteq PassedSteps(run)

Reports(run) ==
  [i \in DOMAIN run.history |->
     Report(run.history[i].step_id, run.history[i].owner, run.history[i].result,
            IF run.history[i].step_id = "implementation" THEN "codex-premium"
            ELSE IF run.history[i].step_id \in REAL_STAGES THEN "resumed" ELSE "mock")]

\* proof resume: on the run's own history, with a budget that the entries of the
\* audit log have used up in part. The pause is not looked at, nothing is paid for.
ResumeProof(r, env, traits) ==
  /\ NoProcess /\ launches < MaxLaunches
  /\ r \in DOMAIN runs
  /\ Chain!MayStart(env, traits)
  /\ MayResume(runs[r])
  /\ proof' = Process(r, TRUE, env, None, Reports(runs[r]))
  /\ used' = calls
  /\ launches' = launches + 1
  /\ UNCHANGED <<vars, working, spent, wrote, verdict, treeVars, durable, reserved, paid,
                 drive>>

\* The process is gone, and with it what it held.
Dies ==
  /\ proof' = Nobody
  /\ working' = FALSE /\ used' = 0 /\ spent' = 0 /\ wrote' = FALSE /\ verdict' = "PASS"
  /\ UNCHANGED <<vars, treeVars, durable, counts, drive>>

\* It is killed, anywhere.
Crash == ~NoProcess /\ launches < MaxLaunches /\ Dies

-------------------------------------------------------------------------------
(***************************************************************************)
(* One turn of the loop: the run is read again, and its step decides.      *)
(***************************************************************************)
MyRun == runs[proof.run]
Stage == MyRun.current_step
Owner == StepOf(MyRun).owner

Turn ==
  /\ At("turn")
  /\ proof.lap < MaxLaps
  /\ MyRun.status = "RUNNING"

LoopEnds ==
  /\ At("turn")
  /\ proof.lap = MaxLaps \/ MyRun.status # "RUNNING"
  /\ proof' = [proof EXCEPT !.at = "verdict"]
  /\ UNCHANGED <<vars, contractVars, treeVars, durable, counts, drive>>

AskFounder(a) ==
  /\ Turn
  /\ OpenApproval(proof.run, a, FALSE)
  /\ proof' = [proof EXCEPT !.at = "tell"]
  /\ UNCHANGED <<contractVars, treeVars, durable, counts, drive>>

TellTask ==
  /\ At("tell")
  /\ task' = "APPROVAL_REQUIRED"
  /\ proof' = [proof EXCEPT !.at = "verdict"]
  /\ UNCHANGED <<vars, contractVars, treeVars, stored, calls, counts, drive>>

FindNoAgent ==
  /\ Turn /\ ~AtHumanGate(MyRun)
  /\ Owner \notin Agents
  /\ proof' = [proof EXCEPT !.at = "verdict", !.ok = FALSE]
  /\ UNCHANGED <<vars, contractVars, treeVars, durable, counts, drive>>

HasAgent == Turn /\ ~AtHumanGate(MyRun) /\ Owner \in Agents

\* A stage no model is asked about: its report is stored at once.
AuxiliaryStage ==
  /\ HasAgent /\ Stage \notin REAL_STAGES
  /\ stored' = stored \cup {Stage}
  /\ proof' = [proof EXCEPT !.at = "submit", !.lap = @ + 1, !.by = Owner,
                            !.stages = Append(@, Report(Stage, Owner, "PASS", None))]
  /\ UNCHANGED <<vars, contractVars, treeVars, task, calls, counts, drive>>

IsPremium == Stage = "implementation" /\ proof.premium # None
Provider == IF IsPremium THEN proof.premium ELSE proof.provider
UsesCodex == IsPremium /\ proof.premium = "codex-cli"

\* The checkpoint comes first, whoever does the stage.
BeginStage ==
  /\ HasAgent /\ Stage \in REAL_STAGES
  /\ Tree!EnsureGit
  /\ proof' = [proof EXCEPT
                 !.at = IF UsesCodex THEN "probe" ELSE "stage",
                 !.lap = @ + 1, !.checkpoint = Tree!Snapshot]
  /\ IF UsesCodex THEN UNCHANGED contractVars ELSE StartStage
  /\ UNCHANGED <<vars, files, git, durable, counts, drive>>

-------------------------------------------------------------------------------
(***************************************************************************)
(* A stage on a model. The premium runner tries once where others try      *)
(* twice; only the implementation may be repaired, once.                   *)
(***************************************************************************)
Plan == PLANS[Stage]
Attempts == IF IsPremium THEN MaxAttempts - 2 ELSE MaxAttempts - 1

MayAsk ==
  \/ proof.call = "none"
  \/ proof.call = "replied" /\ ~wrote /\ spent < Attempts
  \/ proof.call = "applied" /\ Plan.repairTestsOnce /\ ~proof.repaired

ReserveCall ==
  /\ At("stage") /\ MayAsk
  /\ ReserveRequest
  /\ reserved' = reserved + 1
  /\ paid' = IF IsPremium THEN paid + 1 ELSE paid
  /\ proof' = [proof EXCEPT !.call = "out", !.repaired = wrote]
  /\ UNCHANGED <<vars, treeVars, durable, launches, drive>>

\* The entry in the audit log comes with the reply, so a call that fails has none;
\* the one of a repair is named so.
Reply ==
  /\ At("stage") /\ proof.call = "out"
  /\ proof' = [proof EXCEPT !.call = "replied"]
  /\ calls' = IF proof.repaired THEN calls ELSE calls + 1
  /\ UNCHANGED <<vars, contractVars, treeVars, stored, task, counts, drive>>

\* The trees that an edit leaves behind.
Edits(tree) ==
  {[p \in Path |-> IF p \in e.to THEN e.content ELSE tree[p]] : e \in Edit}

\* A reply is accepted, and what it asks for done as far as the stage may.
ApplyReply ==
  /\ At("stage") /\ proof.call = "replied"
  /\ TouchWorkspace
  /\ IF Plan.allowedRuntimeTools \cap {"workspace.write", "workspace.patch"} = {}
     THEN UNCHANGED files ELSE files' \in Edits(files)
  /\ proof' = [proof EXCEPT !.call = "applied"]
  /\ UNCHANGED <<vars, root, git, durable, counts, drive>>

\* What StageRunner makes sure of before it says PASS (its PassIsEvidenced).
Evidenced(plan) ==
  /\ plan.requireInSource => Tree!SourceContainsRequired(plan)
  /\ plan.requireWorkspaceChange => \E p \in Path : Tree!IsSourceFile(p) /\ files[p] # None
  /\ plan.requireTestChange => \E p \in Path : Tree!IsTestFile(p) /\ files[p] # None
  /\ plan.runSecurityScan => Tree!SecurityChecksPass(root)

MayEnd(o) ==
  CASE o = "PASS" -> proof.call = "applied" /\ Evidenced(Plan)
    [] o = "FAIL" -> wrote /\ proof.call \in {"replied", "applied"}
    [] o = "BLOCKED" -> proof.call \in {"replied", "applied"}
    [] o = "REQUEST_BUDGET_EXCEEDED" -> MayAsk
    [] OTHER -> proof.real /\ proof.call = "out"

\* Fault: the next provider goes on from what the last one left in the tree.
FallBackAsIs(next) ==
  /\ proof' = [FreshLocals(proof) EXCEPT !.at = "turn", !.provider = next, !.fallbacks = Tail(@)]
  /\ UNCHANGED files

\* The stage is done again, from its checkpoint, on the next provider.
FallBack(next) ==
  /\ proof' = [FreshLocals(proof) EXCEPT !.at = "turn", !.provider = next, !.fallbacks = Tail(@)]
  /\ files' = Tree!Restored(proof.checkpoint)

\* A stage that threw is reported as BLOCKED, not stored, and ends the proof.
StopBlocked ==
  /\ proof' = [FreshLocals(proof) EXCEPT !.at = "verdict", !.ok = FALSE,
                 !.stages = Append(@, Report(Stage, Owner, "BLOCKED", Provider))]
  /\ UNCHANGED files

\* Fault: the quota of the premium provider counts as any other.
MayFallBackAnywhere(o) ==
  proof.real /\ o = "RATE_LIMIT_EXHAUSTED" /\ proof.fallbacks # <<>>

MayFallBack(o) ==
  /\ ~IsPremium
  /\ proof.real /\ o = "RATE_LIMIT_EXHAUSTED" /\ proof.fallbacks # <<>>

StageReturns(o) ==
  /\ At("stage") /\ MayEnd(o)
  /\ EndStage(o)
  /\ IF o \in {"PASS", "FAIL", "BLOCKED"}
     THEN proof' = [proof EXCEPT !.at = "store", !.outcome = o] /\ UNCHANGED files
     ELSE IF MayFallBack(o) THEN FallBack(Head(proof.fallbacks)) ELSE StopBlocked
  /\ UNCHANGED <<vars, root, git, durable, counts, drive>>

-------------------------------------------------------------------------------
(***************************************************************************)
(* The implementation by the Codex CLI, which edits the workspace itself.  *)
(***************************************************************************)
\* detect(): blocked unless the CLI is there and logged in.
ProbeCodex(ready) ==
  /\ At("probe")
  /\ proof' = IF ready THEN [proof EXCEPT !.at = "codex"]
              ELSE [proof EXCEPT !.at = "store", !.outcome = "BLOCKED"]
  /\ UNCHANGED <<vars, contractVars, treeVars, durable, counts, drive>>

CodexStatus == {"CODEX_SUCCESS", "CODEX_TIMEOUT", "CODEX_PROCESS_ERROR",
                "CODEX_AUTH_REQUIRED", "CODEX_APPROVAL_BLOCKED"}

\* Fault: the runs of the CLI are not counted.
RunCodexAgain(status) ==
  /\ At("codex")
  /\ files' \in Edits(files)
  /\ proof' = [proof EXCEPT !.at = "judge"]
  /\ UNCHANGED <<vars, contractVars, root, git, durable, counts, drive>>

\* It may delete as well as write, whatever the status it ends with.
RunCodex(status) ==
  /\ At("codex")
  /\ files' \in Edits(files) \cup {[files EXCEPT ![p] = None] : p \in Path}
  /\ proof' = IF status \in {"CODEX_AUTH_REQUIRED", "CODEX_APPROVAL_BLOCKED"}
              THEN [proof EXCEPT !.at = "store", !.outcome = "BLOCKED"]
              ELSE [proof EXCEPT !.at = "judge", !.tries = @ + 1,
                                 !.call = IF status = "CODEX_SUCCESS" THEN "replied" ELSE "out"]
  /\ paid' = paid + 1
  /\ UNCHANGED <<vars, contractVars, root, git, durable, reserved, launches, drive>>

ChangedByCodex ==
  IF git = "works" THEN Tree!ChangedSince(proof.checkpoint) ELSE {}

\* Its changes are looked at, and its claim is not: out of scope ends the stage with
\* the files left as they are, and gates that do not pass are tried once more.
JudgeCodex(tests) ==
  LET changed == ChangedByCodex
      judged == Tree!HarnessOutcome(Plan, proof.call = "replied", changed, tests, root)
  IN  /\ At("judge")
      /\ proof' = IF ~(changed \subseteq InScope)
                  THEN [proof EXCEPT !.at = "store", !.outcome = "BLOCKED"]
                  ELSE IF judged = "PASS" \/ proof.tries = 2
                  THEN [proof EXCEPT !.at = "store", !.outcome = judged]
                  ELSE [proof EXCEPT !.at = "codex"]
      /\ UNCHANGED <<vars, contractVars, treeVars, durable, counts, drive>>

-------------------------------------------------------------------------------
(***************************************************************************)
(* What follows a stage that returned.                                     *)
(***************************************************************************)
\* Fault: the outcome is submitted first, the report comes after.
SubmitThenStore ==
  /\ At("store")
  /\ proof' = [FreshLocals(proof) EXCEPT
                 !.at = IF proof.outcome = "PASS" THEN "submit" ELSE "verdict",
                 !.by = Owner, !.ok = @ /\ proof.outcome = "PASS",
                 !.stages = Append(@, Report(Stage, Owner, proof.outcome, Provider))]
  /\ UNCHANGED <<vars, contractVars, treeVars, durable, counts, drive>>

\* The report is stored whatever the outcome; only what passed is submitted.
StoreStage ==
  /\ At("store")
  /\ stored' = stored \cup {Stage}
  /\ proof' = [FreshLocals(proof) EXCEPT
                 !.at = IF proof.outcome = "PASS" THEN "submit" ELSE "verdict",
                 !.by = Owner, !.ok = @ /\ proof.outcome = "PASS",
                 !.stages = Append(@, Report(Stage, Owner, proof.outcome, Provider))]
  /\ UNCHANGED <<vars, contractVars, treeVars, task, calls, counts, drive>>

\* Fault: the outcome moves the run on, paused or not.
SubmitDespitePause ==
  /\ At("submit")
  /\ runs' = Upsert(runs, proof.run, Advanced(MyRun, proof.by, "PASS"))
  /\ proof' = [proof EXCEPT !.at = "turn"]
  /\ UNCHANGED <<approvals, due, paused, contractVars, treeVars, durable, counts, drive>>

\* submitOutcome in the name of the agent found at the turn; paused, it halts a step
\* that writes.
SubmitStage ==
  /\ At("submit")
  /\ MaySubmit(MyRun, proof.by)
  /\ runs' = Upsert(runs, proof.run, AfterOutcome(proof.run, MyRun, proof.by, "PASS"))
  /\ proof' = [proof EXCEPT !.at =
                 IF runs'[proof.run].status = "RUNNING" THEN "turn" ELSE "verdict"]
  /\ UNCHANGED <<approvals, due, paused, contractVars, treeVars, durable, counts, drive>>

\* The engine refuses: the run was moved on meanwhile. Nobody catches what it throws.
SubmitRefused == At("submit") /\ ~MaySubmit(MyRun, proof.by) /\ Dies

ReachedApproval ==
  /\ MyRun.status = "APPROVAL_REQUIRED"
  /\ MyRun.project_state = "HUMAN_APPROVAL_REQUIRED"
  /\ MyRun.pending_approval_id # None

ReportsOn(s) == {i \in DOMAIN proof.stages : proof.stages[i].stage = s}
AgentOf(s) == proof.stages[CHOOSE i \in ReportsOn(s) : \A j \in ReportsOn(s) : i <= j].agent

ReviewerIndependent ==
  /\ ReportsOn("implementation") # {} /\ ReportsOn("code_review") # {}
  /\ AgentOf("implementation") # AgentOf("code_review")

EveryStagePassed == \A i \in DOMAIN proof.stages : proof.stages[i].outcome = "PASS"

\* Fault: a proof without an error is a proof that got to the founder.
ReachVerdictByStages ==
  /\ At("verdict")
  /\ proof' = [proof EXCEPT !.at = "ended",
                 !.ok = @ /\ ReviewerIndependent /\ EveryStagePassed
                          /\ (proof.real => used > 0 /\ used <= Ceiling)]
  /\ UNCHANGED <<vars, contractVars, treeVars, durable, counts, drive>>

\* The run is read once more, and the verdict is of what it says now.
ReachVerdict ==
  /\ At("verdict")
  /\ proof' = [proof EXCEPT !.at = "ended",
                 !.ok = /\ @ /\ ReachedApproval /\ ReviewerIndependent /\ EveryStagePassed
                        /\ proof.real => used > 0 /\ used <= Ceiling]
  /\ UNCHANGED <<vars, contractVars, treeVars, durable, counts, drive>>

-------------------------------------------------------------------------------
(***************************************************************************)
(* The command that decides, or `approvals resume`, then takes the run on: *)
(* Orchestrator.resume and drive, on simulated agents. A run has one gate  *)
(* to pass here, so there is one drive at most, and no gate in its way:    *)
(* OrchestratorProcesses has the whole of drive, and what comes between    *)
(* its reads and its writes.                                               *)
(***************************************************************************)
DriveAt(place) == drive.at = place

\* The statuses of a run that drive and resume copy to its task.
Marked == {"COMPLETED", "ABORTED", "REJECTED"}

\* A request still PENDING leaves everything as it is; a rejection is marked; what
\* the founder passed is driven on.
ResumeRun(r) ==
  /\ DriveAt("nowhere")
  /\ ResumeAfterApproval(r)
  /\ LET status == runs'[r].status
     IN  drive' = CASE status = "APPROVAL_REQUIRED" -> NoDrive
                    [] status = "REJECTED" -> [NoDrive EXCEPT !.run = r, !.at = "mark", !.mark = status]
                    [] OTHER -> [NoDrive EXCEPT !.run = r, !.at = "drive"]
  /\ UNCHANGED task

\* drive() throws while the runtime is paused.
EnterDrive ==
  /\ DriveAt("drive")
  /\ drive' = IF paused THEN NoDrive ELSE [drive EXCEPT !.at = "turn"]
  /\ UNCHANGED <<vars, task>>

\* The run is read again: its step is its owner's to do, or the loop ends. The turns
\* of drive are not counted: with none left it stops as if it were killed.
DriveTurn ==
  /\ DriveAt("turn")
  /\ LET run == runs[drive.run]
     IN  drive' = CASE run.status = "RUNNING" -> [drive EXCEPT !.at = "work", !.by = StepOf(run).owner]
                    [] run.status \in Marked -> [drive EXCEPT !.at = "mark", !.mark = run.status]
                    [] OTHER -> NoDrive
  /\ UNCHANGED <<vars, task>>

\* The agent answers, or an owner who is none is taken to have done the step; the
\* outcome is submitted, and no report is stored. Only a simulated step that is
\* blocked is marked.
DriveOutcome(result) ==
  /\ DriveAt("work")
  /\ drive.by \notin Agents => result = "PASS"
  /\ SubmitOutcome(drive.run, drive.by, result)
  /\ LET status == runs'[drive.run].status
     IN  drive' = CASE status = "BLOCKED" /\ drive.by \notin Agents
                         -> [drive EXCEPT !.at = "mark", !.mark = status]
                    [] status \in {"RUNNING"} \cup Marked -> [drive EXCEPT !.at = "turn"]
                    [] OTHER -> NoDrive
  /\ UNCHANGED task

DriveMark ==
  /\ DriveAt("mark")
  /\ task' = drive.mark
  /\ drive' = NoDrive
  /\ UNCHANGED vars

\* The command is killed, or its outcome is refused and nobody catches that.
DriveDies ==
  /\ ~DriveAt("nowhere")
  /\ drive' = NoDrive
  /\ UNCHANGED <<vars, task>>

-------------------------------------------------------------------------------
\* The steps of the process itself.
ProofStep ==
  \/ LoopEnds
  \/ \E a \in Approval : AskFounder(a)
  \/ TellTask
  \/ FindNoAgent
  \/ AuxiliaryStage
  \/ BeginStage
  \/ ReserveCall
  \/ Reply
  \/ ApplyReply
  \/ \E o \in StageOutcome : StageReturns(o)
  \/ \E ready \in BOOLEAN : ProbeCodex(ready)
  \/ \E status \in CodexStatus : RunCodex(status)
  \/ \E tests \in Tests : JudgeCodex(tests)
  \/ StoreStage
  \/ SubmitStage
  \/ SubmitRefused
  \/ ReachVerdict

Starts ==
  \E r \in Run, env \in Env, traits \in Task :
    \/ \E real \in BOOLEAN : LaunchProof(r, real, env, traits)
    \/ ResumeProof(r, env, traits)

\* The kill switch, and the founder's decisions.
FounderStep ==
  /\ \/ Pause
     \/ Resume
     \/ \E a \in Approval, to \in Decision :
          Decide(a, HUMAN_FOUNDER, to) /\ UNCHANGED <<runs, paused>>
  /\ UNCHANGED <<drive, task>>

DriveStep ==
  \/ \E r \in Run : ResumeRun(r)
  \/ EnterDrive
  \/ DriveTurn
  \/ \E result \in {"PASS", "FAIL"} : DriveOutcome(result)
  \/ DriveMark
  \/ DriveDies

\* The commands that are no proof, each a process of its own. None of them has to go
\* on, and none has anything to do with the proof's workspace or its reports.
Others ==
  /\ FounderStep \/ DriveStep
  /\ UNCHANGED <<contractVars, treeVars, proof, stored, calls, counts>>

FactoryNext == Starts \/ ProofStep \/ Crash \/ Others

\* A process that runs goes on running; what it awaits comes back.
FactorySpec == FactoryInit /\ [][FactoryNext]_factoryVars /\ WF_factoryVars(ProofStep)
===============================================================================
