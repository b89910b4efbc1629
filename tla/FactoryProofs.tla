---------------------------- MODULE FactoryProofs ----------------------------
(***************************************************************************)
(* Machine-checked proofs about the proof run. The proof run, the founder, *)
(* the pause and the drive behind the gate take the workflow engine only   *)
(* where WorkflowEngine allows: every theorem of WorkflowProofs is then    *)
(* one about SoftwareFactory. And what FactorySafety promises of a proof   *)
(* holds wherever it is killed, resumed, paused, moved to another provider *)
(* or overtaken by the drive: ProofInv, in the middle of the module, is    *)
(* the inductive invariant that says why.                                  *)
(***************************************************************************)
EXTENDS FactorySafety, WorkflowProofs, FiniteSetTheorems, WellFoundedInduction

Fields == {"run", "at", "real", "premium", "provider", "fallbacks", "lap", "checkpoint",
           "call", "repaired", "tries", "outcome", "by", "stages", "ok"}
Alive == proof.at # "nowhere"

\* A process works on a run that is in the table.
ProcessHasItsRun ==
  /\ DOMAIN proof = Fields
  /\ Alive => proof.run \in DOMAIN runs

EngineInv == Inv /\ ProcessHasItsRun

\* A process stays with its run, whatever else it learns, and no run goes away.
LEMMA StaysWithItsRun ==
  ASSUME ProcessHasItsRun, Alive, DOMAIN runs \subseteq DOMAIN runs',
         DOMAIN proof' = DOMAIN proof, proof'.run = proof.run
  PROVE  ProcessHasItsRun'
  BY DEF ProcessHasItsRun

LEMMA SomewhereIsAProcess ==
  ASSUME NEW place, At(place), place # "nowhere"
  PROVE  Alive
  BY DEF At, Alive

-------------------------------------------------------------------------------
(***************************************************************************)
(* The steps of a process that leave the tables of the engine alone.       *)
(***************************************************************************)
LEMMA ProofWorks ==
  ASSUME ProcessHasItsRun,
         \/ LoopEnds \/ TellTask \/ FindNoAgent \/ AuxiliaryStage \/ BeginStage
         \/ ReserveCall \/ Reply \/ ApplyReply \/ StoreStage \/ ReachVerdict
         \/ \E o \in StageOutcome : StageReturns(o)
         \/ \E ready \in BOOLEAN : ProbeCodex(ready)
         \/ \E status \in CodexStatus : RunCodex(status)
         \/ \E tests \in Tests : JudgeCodex(tests)
  PROVE  UNCHANGED vars /\ ProcessHasItsRun'
<1>1. Alive
  BY SomewhereIsAProcess DEF LoopEnds, TellTask, FindNoAgent, Turn, AuxiliaryStage, HasAgent,
     BeginStage, ReserveCall, Reply, ApplyReply, StoreStage, ReachVerdict, StageReturns,
     ProbeCodex, RunCodex, JudgeCodex
<1>2. "run" \in DOMAIN proof
  BY DEF ProcessHasItsRun, Fields
<1>3. SUFFICES UNCHANGED vars /\ DOMAIN proof' = DOMAIN proof /\ proof'.run = proof.run
  BY <1>1, StaysWithItsRun DEF vars
<1>4. CASE LoopEnds
  BY <1>2, <1>4 DEF LoopEnds
<1>5. CASE TellTask
  BY <1>2, <1>5 DEF TellTask
<1>6. CASE FindNoAgent
  BY <1>2, <1>6 DEF FindNoAgent
<1>7. CASE AuxiliaryStage
  BY <1>2, <1>7 DEF AuxiliaryStage
<1>8. CASE BeginStage
  BY <1>2, <1>8 DEF BeginStage
<1>9. CASE ReserveCall
  BY <1>2, <1>9 DEF ReserveCall
<1>10. CASE Reply
  BY <1>2, <1>10 DEF Reply
<1>11. CASE ApplyReply
  BY <1>2, <1>11 DEF ApplyReply
<1>12. CASE StoreStage
  BY <1>2, <1>12 DEF StoreStage, FreshLocals
<1>13. CASE ReachVerdict
  BY <1>2, <1>13 DEF ReachVerdict
<1>14. ASSUME NEW o \in StageOutcome, StageReturns(o)
       PROVE  UNCHANGED vars /\ DOMAIN proof' = DOMAIN proof /\ proof'.run = proof.run
  <2>1. CASE proof' = [proof EXCEPT !.at = "store", !.outcome = o]
    BY <1>2, <1>14, <2>1 DEF StageReturns
  <2>2. CASE FallBack(Head(proof.fallbacks))
    BY <1>2, <1>14, <2>2 DEF StageReturns, FallBack, FreshLocals
  <2>3. CASE StopBlocked
    BY <1>2, <1>14, <2>3 DEF StageReturns, StopBlocked, FreshLocals
  <2> QED
    BY <1>14, <2>1, <2>2, <2>3 DEF StageReturns
<1>15. ASSUME NEW ready \in BOOLEAN, ProbeCodex(ready)
       PROVE  UNCHANGED vars /\ DOMAIN proof' = DOMAIN proof /\ proof'.run = proof.run
  BY <1>2, <1>15 DEF ProbeCodex
<1>16. ASSUME NEW status \in CodexStatus, RunCodex(status)
       PROVE  UNCHANGED vars /\ DOMAIN proof' = DOMAIN proof /\ proof'.run = proof.run
  BY <1>2, <1>16 DEF RunCodex
<1>17. ASSUME NEW tests \in Tests, JudgeCodex(tests)
       PROVE  UNCHANGED vars /\ DOMAIN proof' = DOMAIN proof /\ proof'.run = proof.run
  BY <1>2, <1>17 DEF JudgeCodex
<1> QED
  BY <1>4, <1>5, <1>6, <1>7, <1>8, <1>9, <1>10, <1>11, <1>12, <1>13, <1>14, <1>15, <1>16, <1>17

-------------------------------------------------------------------------------
(***************************************************************************)
(* The steps that are the engine's.                                        *)
(***************************************************************************)
\* A put keeps the keys there are.
LEMMA KeysStay ==
  ASSUME NEW t, NEW k, NEW v
  PROVE  DOMAIN t \subseteq DOMAIN Upsert(t, k, v) /\ k \in DOMAIN Upsert(t, k, v)
  BY DEF Upsert

LEMMA ProofAsks ==
  ASSUME EngineInv, NEW a \in Approval, AskFounder(a)
  PROVE  Next /\ ProcessHasItsRun'
<1>1. Alive /\ OpenApproval(proof.run, a, FALSE)
  BY SomewhereIsAProcess DEF AskFounder, Turn
<1>2. proof.run \in DOMAIN runs /\ "run" \in DOMAIN proof
  BY <1>1 DEF EngineInv, ProcessHasItsRun, Fields
<1>3. proof.run \in Run
  BY <1>2, RowType DEF EngineInv, Inv, TypeOK
<1>4. Next
  BY <1>1, <1>3 DEF Next
<1>5. DOMAIN runs \subseteq DOMAIN runs'
  BY <1>1, KeysStay DEF OpenApproval
<1>6. DOMAIN proof' = DOMAIN proof /\ proof'.run = proof.run
  BY <1>2 DEF AskFounder
<1> QED
  BY <1>1, <1>4, <1>5, <1>6, StaysWithItsRun DEF EngineInv

LEMMA ProofSubmits ==
  ASSUME EngineInv, SubmitStage
  PROVE  Next /\ ProcessHasItsRun'
<1>1. Alive
  BY SomewhereIsAProcess DEF SubmitStage
<1>2. proof.run \in DOMAIN runs /\ "run" \in DOMAIN proof
  BY <1>1 DEF EngineInv, ProcessHasItsRun, Fields
<1>3. /\ proof.run \in Run /\ MyRun.workflow_id \in Workflow
      /\ MyRun.current_step \in DOMAIN Def[MyRun.workflow_id].steps
  <2>1. IsTable(runs, Run, WorkflowRun)
    BY DEF EngineInv, Inv, TypeOK
  <2>2. proof.run \in Run /\ MyRun \in WorkflowRun
    BY <1>2, <2>1, RowType DEF MyRun
  <2>3. MyRun.current_step \in DOMAIN Def[MyRun.workflow_id].steps
    BY <1>2 DEF EngineInv, Inv, TypeOK, MyRun
  <2> QED
    BY <2>2, <2>3 DEF WorkflowRun
<1>4. proof.by \in Identity
  BY <1>3, DefAssumption DEF SubmitStage, MaySubmit, StepOf, IsDefinition, WorkflowStep
<1>5. SubmitOutcome(proof.run, proof.by, "PASS")
  BY <1>2 DEF SubmitStage, SubmitOutcome, MyRun
<1>6. Next
  BY <1>3, <1>4, <1>5 DEF Next
<1>7. DOMAIN runs \subseteq DOMAIN runs'
  BY <1>5, KeysStay DEF SubmitOutcome
<1>8. DOMAIN proof' = DOMAIN proof /\ proof'.run = proof.run
  BY <1>2 DEF SubmitStage
<1>9. ProcessHasItsRun
  BY DEF EngineInv
<1>10. ProcessHasItsRun'
  BY <1>1, <1>7, <1>8, <1>9, StaysWithItsRun
<1> QED
  BY <1>6, <1>10

\* A process that begins has its run in the table.
LEMMA ProofIsLaunched ==
  ASSUME EngineInv, NEW r \in Run, NEW env \in Env, NEW traits \in Task, NEW real \in BOOLEAN,
         LaunchProof(r, real, env, traits)
  PROVE  Next /\ ProcessHasItsRun'
<1>1. Start(r, "feature-development")
  BY DEF LaunchProof, Start
<1>2. DOMAIN proof' = Fields /\ proof'.run = r
  BY DEF LaunchProof, Process, Fields
<1>3. r \in DOMAIN runs'
  BY KeysStay DEF LaunchProof
<1> QED
  BY <1>1, <1>2, <1>3, FactoryAssumption DEF Next, ProcessHasItsRun

LEMMA ProofIsResumed ==
  ASSUME EngineInv, NEW r \in Run, NEW env \in Env, NEW traits \in Task,
         ResumeProof(r, env, traits)
  PROVE  UNCHANGED vars /\ ProcessHasItsRun'
<1>1. DOMAIN proof' = Fields /\ proof'.run = r
  BY DEF ResumeProof, Process, Fields
<1>2. r \in DOMAIN runs /\ UNCHANGED vars
  BY DEF ResumeProof
<1>3. runs' = runs
  BY <1>2 DEF vars
<1>4. ProcessHasItsRun'
  BY <1>1, <1>2, <1>3 DEF ProcessHasItsRun
<1> QED
  BY <1>2, <1>4

LEMMA FounderActs ==
  ASSUME FounderStep
  PROVE  Next /\ runs' = runs
<1>1. CASE Pause \/ Resume
  BY <1>1 DEF Next, Pause, Resume
<1>2. ASSUME NEW a \in Approval, NEW to \in Decision,
             Decide(a, HUMAN_FOUNDER, to), UNCHANGED <<runs, paused>>
      PROVE  Next /\ runs' = runs
  BY <1>2, FactoryAssumption DEF Next, ApprovalNext
<1> QED
  BY <1>1, <1>2 DEF FounderStep

\* The drive submits as every client of the engine does, or leaves its tables alone.
LEMMA DriveActs ==
  ASSUME EngineInv, DriveStep
  PROVE  [Next]_vars /\ DOMAIN runs \subseteq DOMAIN runs'
<1>1. ASSUME NEW r \in Run, ResumeRun(r)
      PROVE  Next /\ DOMAIN runs \subseteq DOMAIN runs'
  <2>1. ResumeAfterApproval(r)
    BY <1>1 DEF ResumeRun
  <2> QED
    BY <2>1, KeysStay DEF Next, ResumeAfterApproval
<1>2. CASE EnterDrive \/ DriveTurn \/ DriveMark \/ DriveDies
  BY <1>2 DEF EnterDrive, DriveTurn, DriveMark, DriveDies, vars
<1>3. ASSUME NEW result \in {"PASS", "FAIL"}, DriveOutcome(result)
      PROVE  Next /\ DOMAIN runs \subseteq DOMAIN runs'
  <2>1. PICK r, by : r = drive.run /\ by = drive.by
    OBVIOUS
  <2>2. SubmitOutcome(r, by, result)
    BY <1>3, <2>1 DEF DriveOutcome
  <2>3. r \in DOMAIN runs /\ by = StepOf(runs[r]).owner
    BY <2>2 DEF SubmitOutcome, MaySubmit
  <2>4. OnItsGraph(runs[r]) /\ r \in Run
    BY <2>3, RunType DEF EngineInv, Inv
  <2>5. by \in Identity
    BY <2>3, <2>4, StepType DEF WorkflowStep
  <2> QED
    BY <2>2, <2>4, <2>5, KeysStay DEF Next, SubmitOutcome
<1> QED
  BY <1>1, <1>2, <1>3 DEF DriveStep

LEMMA OthersAct ==
  ASSUME EngineInv, Others
  PROVE  [Next]_vars /\ ProcessHasItsRun'
<1>1. proof' = proof
  BY DEF Others
<1>2. [Next]_vars /\ DOMAIN runs \subseteq DOMAIN runs'
  BY FounderActs, DriveActs DEF Others
<1> QED
  BY <1>1, <1>2 DEF EngineInv, ProcessHasItsRun, Alive

-------------------------------------------------------------------------------
LEMMA FactoryStepIsEngineStep ==
  ASSUME EngineInv, [FactoryNext]_factoryVars
  PROVE  [Next]_vars /\ EngineInv'
<1>1. [Next]_vars /\ ProcessHasItsRun'
  <2>1. CASE UNCHANGED factoryVars
    BY <2>1 DEF factoryVars, vars, EngineInv, ProcessHasItsRun, Alive
  <2>2. CASE Starts
    <3> PICK r \in Run, env \in Env, traits \in Task :
          \/ \E real \in BOOLEAN : LaunchProof(r, real, env, traits)
          \/ ResumeProof(r, env, traits)
      BY <2>2 DEF Starts
    <3>1. ASSUME NEW real \in BOOLEAN, LaunchProof(r, real, env, traits)
          PROVE  [Next]_vars /\ ProcessHasItsRun'
      BY <3>1, ProofIsLaunched
    <3>2. CASE ResumeProof(r, env, traits)
      BY <3>2, ProofIsResumed
    <3> QED
      BY <3>1, <3>2
  <2>3. CASE Dies
    BY <2>3 DEF Dies, vars, ProcessHasItsRun, Nobody, Fields, Alive
  <2>4. CASE ProofStep
    <3>1. CASE SubmitStage
      BY <3>1, ProofSubmits
    <3>2. ASSUME NEW a \in Approval, AskFounder(a)
          PROVE  [Next]_vars /\ ProcessHasItsRun'
      BY <3>2, ProofAsks
    <3>3. ProcessHasItsRun
      BY DEF EngineInv
    <3> QED
      BY <2>3, <2>4, <3>1, <3>2, <3>3, ProofWorks DEF ProofStep, SubmitRefused
  <2>5. CASE Others
    BY <2>5, OthersAct
  <2> QED
    BY <2>1, <2>2, <2>3, <2>4, <2>5 DEF FactoryNext, Crash
<1> QED
  BY <1>1, InvKept DEF EngineInv

LEMMA FactoryBegins == FactoryInit => Init /\ EngineInv
  BY InvInitially DEF FactoryInit, EngineInv, ProcessHasItsRun, Nobody, Fields, Alive

\* The proof run, with its crashes and resumptions, the founder, the pause and the
\* drive behind the gate are together a behaviour of the workflow engine.
THEOREM FactoryIsAClient == FactorySpec => ImplementsEngine
<1>1. FactorySpec => [][Next]_vars
  BY FactoryBegins, FactoryStepIsEngineStep, PTL DEF FactorySpec
<1> QED
  BY <1>1, FactoryBegins, PTL DEF FactorySpec, ImplementsEngine, Spec

\* So no proof run, however it is interrupted and resumed, passes a human gate or a
\* RISK 5 step without a grant of the founder made to this very run.
THEOREM ProofsRespectTheGate == FactorySpec => []GatedPassesAreApproved
<1>1. FactorySpec => Spec
  BY FactoryIsAClient DEF ImplementsEngine
<1> QED
  BY <1>1, GateIsRespected

\* And it keeps every promise of HumanGate.
THEOREM ProofsImplementHumanGate == FactorySpec => ImplementsHumanGate
<1>1. FactorySpec => Spec
  BY FactoryIsAClient DEF ImplementsEngine
<1> QED
  BY <1>1, EngineImplementsHumanGate

-------------------------------------------------------------------------------
(***************************************************************************)
(* The course of a run.  Up to its gate a run has done nothing but pass,   *)
(* and stands where the on_pass edges lead from what it has passed; once   *)
(* the founder has let it over the gate it is behind it for good, where    *)
(* there is no real stage and no other gate.                               *)
(***************************************************************************)
Steps == DOMAIN Feature.steps

\* The founder has let the run over its gate.
Granted(run) == \E i \in DOMAIN run.history : IsGrant(run, i)

Behind ==
  CHOOSE behind \in SUBSET Steps :
    LiesBehindGates(Feature, behind) /\ behind \cap REAL_STAGES = {}

IsBehind(run) ==
  /\ run.current_step \in Behind
  /\ run.status # "APPROVAL_REQUIRED"
  /\ REAL_STAGES \cap Steps \subseteq PassedSteps(run)

\* A run stands where the on_pass edges lead from what it has passed.
OnCourse(run) ==
  \A t \in Steps, steps \in SUBSET Steps :
    /\ LiesBefore(Feature, t, steps) /\ t \notin PassedSteps(run) => run.current_step \in steps
    /\ LiesAfter(Feature, t, steps) /\ t \in PassedSteps(run) => run.current_step \in steps

\* Nobody but its owner has a record on a step that is not a gate.
OwnersSign(run) ==
  \A i \in DOMAIN run.history :
    LET s == run.history[i].step_id
    IN  s \in Steps /\ ~Feature.steps[s].human_approval =>
          run.history[i].owner = Feature.steps[s].owner

OnItsWay(run) ==
  /\ run.workflow_id = "feature-development"
  /\ OwnersSign(run)
  /\ IF Granted(run) THEN IsBehind(run)
     ELSE run.status \in {"RUNNING", "APPROVAL_REQUIRED"} => OnCourse(run)

CourseKept == \A r \in DOMAIN runs : OnItsWay(runs[r])

\* A run that no proof takes anywhere before the founder has said more.
Unlocked(run) == Granted(run) \/ run.status \notin {"RUNNING", "APPROVAL_REQUIRED"}

\* The drive has a run that the founder has decided about.
DriveKept ==
  /\ DOMAIN drive = {"run", "at", "by", "mark"}
  /\ drive.at # "nowhere" => drive.run \in DOMAIN runs /\ Unlocked(runs[drive.run])

CourseInv == EngineInv /\ CourseKept /\ DriveKept

Done(s) == \E r \in DOMAIN runs : s \in PassedSteps(runs[r])

LEMMA FeatureType ==
  /\ IsDefinition(Feature) /\ Steps \subseteq StepId /\ Steps \cap TERMINALS = {}
  /\ \A s \in Steps : Feature.steps[s] \in WorkflowStep
  BY FactoryAssumption, DefAssumption, StepIdAssumption DEF Feature, IsDefinition, Steps

LEMMA CourseFacts ==
  /\ {"implementation", "code_review", "security"} \subseteq REAL_STAGES \cap Steps
  /\ \A t \in REAL_STAGES \cap Steps : ~Feature.steps[t].human_approval
<1>1. {"implementation", "code_review", "security"} \subseteq REAL_STAGES
  BY DEF REAL_STAGES, PLANS
<1> QED
  BY <1>1, CourseAssumption DEF Steps, FoundersComeAfter

\* The steps behind the gates that Behind stands for: none of them is a gate itself,
\* and none is a stage a provider is asked at.
LEMMA BehindFacts ==
  /\ Behind \subseteq Steps /\ LiesBehindGates(Feature, Behind)
  /\ Behind \cap REAL_STAGES = {}
  /\ \A s \in Behind : ~Feature.steps[s].human_approval
<1>1. \E behind \in SUBSET Steps :
        LiesBehindGates(Feature, behind) /\ behind \cap REAL_STAGES = {}
  BY CourseAssumption DEF Steps
<1>2. Behind \in SUBSET Steps /\ LiesBehindGates(Feature, Behind) /\ Behind \cap REAL_STAGES = {}
  BY <1>1 DEF Behind
<1> QED
  BY <1>2 DEF LiesBehindGates, Steps

\* A history with one more record.
LEMMA HistoryGrows ==
  ASSUME NEW run \in WorkflowRun, NEW next, NEW record,
         next.history = Append(run.history, record)
  PROVE  \E n \in Nat :
           /\ DOMAIN run.history = 1 .. n /\ DOMAIN next.history = 1 .. (n + 1)
           /\ next.history[n + 1] = record
           /\ \A i \in 1 .. n : next.history[i] = run.history[i]
<1> DEFINE h == run.history
<1>1. h \in Seq(StepRecord) /\ Len(h) \in Nat /\ DOMAIN h = 1 .. Len(h)
  BY LenProperties DEF WorkflowRun
<1>2. PICK T : T = StepRecord \cup {record}
  OBVIOUS
<1>3. h \in Seq(T) /\ record \in T
  BY <1>1, <1>2
<1>4. PICK n \in Nat : n = Len(h)
  BY <1>1
<1>5. /\ DOMAIN next.history = 1 .. (n + 1) /\ next.history[n + 1] = record
      /\ \A i \in 1 .. n : next.history[i] = h[i]
  BY <1>1, <1>3, <1>4, AppendProperties
<1> QED
  BY <1>1, <1>4, <1>5

\* One more record adds its step to what a run has passed, if it is a PASS.
LEMMA OneMoreStep ==
  ASSUME NEW run \in WorkflowRun, NEW next, NEW record,
         next.history = Append(run.history, record)
  PROVE  PassedSteps(next)
           = PassedSteps(run) \cup (IF record.result = "PASS" THEN {record.step_id} ELSE {})
<1>1. PICK n \in Nat :
        /\ DOMAIN run.history = 1 .. n /\ DOMAIN next.history = 1 .. (n + 1)
        /\ next.history[n + 1] = record
        /\ \A i \in 1 .. n : next.history[i] = run.history[i]
  BY HistoryGrows
<1>2. DOMAIN next.history = DOMAIN run.history \cup {n + 1} /\ n + 1 \notin DOMAIN run.history
  BY <1>1
<1>3. \A i \in DOMAIN run.history : next.history[i] = run.history[i]
  BY <1>1
<1> QED
  BY <1>1, <1>2, <1>3 DEF PassedSteps

\* It grants nothing, unless it is the founder's pass of a gate.
LEMMA OneMoreGrant ==
  ASSUME NEW run \in WorkflowRun, NEW next, NEW record,
         next.history = Append(run.history, record), next.workflow_id = run.workflow_id
  PROVE  Granted(next) <=>
           \/ Granted(run)
           \/ /\ record.owner = HUMAN_FOUNDER /\ record.result = "PASS"
              /\ IsHumanGate(run.workflow_id, record.step_id)
<1>1. PICK n \in Nat :
        /\ DOMAIN run.history = 1 .. n /\ DOMAIN next.history = 1 .. (n + 1)
        /\ next.history[n + 1] = record
        /\ \A i \in 1 .. n : next.history[i] = run.history[i]
  BY HistoryGrows
<1>2. DOMAIN next.history = DOMAIN run.history \cup {n + 1}
  BY <1>1
<1>3. \A i \in DOMAIN run.history : IsGrant(next, i) <=> IsGrant(run, i)
  BY <1>1 DEF IsGrant
<1>4. IsGrant(next, n + 1) <=> /\ record.owner = HUMAN_FOUNDER /\ record.result = "PASS"
                               /\ IsHumanGate(run.workflow_id, record.step_id)
  BY <1>1 DEF IsGrant
<1> QED
  BY <1>2, <1>3, <1>4 DEF Granted

LEMMA OneMoreSigns ==
  ASSUME NEW run \in WorkflowRun, OwnersSign(run), NEW next, NEW record,
         next.history = Append(run.history, record),
         LET s == record.step_id
         IN  s \in Steps /\ ~Feature.steps[s].human_approval =>
               record.owner = Feature.steps[s].owner
  PROVE  OwnersSign(next)
<1>1. run.history \in Seq(StepRecord)
  BY DEF WorkflowRun
<1>2. \A i \in DOMAIN next.history :
        next.history[i] = record \/ (i \in DOMAIN run.history /\ next.history[i] = run.history[i])
  BY <1>1
<1> QED
  BY <1>2 DEF OwnersSign

\* A pass takes a run one on_pass edge on.
LEMMA PassingKeepsCourse ==
  ASSUME NEW run, OnItsGraph(run), run.workflow_id = "feature-development", OnCourse(run),
         NEW by \in Identity, NEW next,
         next = Transition(run, StepOf(run).on_pass, "RUNNING", Record(run, by, "PASS"))
  PROVE  next.status = "RUNNING" => OnCourse(next)
<1>1. PICK target : target = Feature.steps[run.current_step].on_pass
  OBVIOUS
<1>2. PICK record : record = Record(run, by, "PASS")
  OBVIOUS
<1>3. /\ target = StepOf(run).on_pass /\ target \in DOMAIN Def[run.workflow_id].steps \cup TERMINALS
      /\ run.current_step \in Steps
  BY <1>1, StepType DEF StepOf, Feature, OnItsGraph, Steps
<1>4. record \in StepRecord /\ record.result = "PASS" /\ record.step_id = run.current_step
  BY <1>2 DEF Record, StepRecord, OnItsGraph, WorkflowRun
<1>5. /\ next.history = Append(run.history, record)
      /\ next.current_step = IF target \in TERMINALS THEN run.current_step ELSE target
  <2>1. PICK to : to = "RUNNING" /\ to \in RunStatus \ {"APPROVAL_REQUIRED"}
    BY DEF RunStatus
  <2>2. next = Transition(run, target, to, record)
    BY <1>2, <1>3, <2>1
  <2>3. target \in DOMAIN Def[run.workflow_id].steps \cup TERMINALS
    BY <1>3
  <2> QED
    BY <1>4, <2>1, <2>2, <2>3, TransitionType
<1>6. target \in TERMINALS => next.status # "RUNNING"
  BY <1>2, <1>3, <1>4 DEF Transition, OnItsGraph, WorkflowRun
<1>7. PassedSteps(next) = PassedSteps(run) \cup {run.current_step}
  BY <1>4, <1>5, OneMoreStep DEF OnItsGraph
<1>8. SUFFICES ASSUME target \notin TERMINALS, NEW t \in Steps, NEW steps \in SUBSET Steps
               PROVE  /\ LiesBefore(Feature, t, steps) /\ t \notin PassedSteps(next) => target \in steps
                      /\ LiesAfter(Feature, t, steps) /\ t \in PassedSteps(next) => target \in steps
  BY <1>5, <1>6 DEF OnCourse
<1>9. /\ LiesBefore(Feature, t, steps) /\ t \notin PassedSteps(run) => run.current_step \in steps
      /\ LiesAfter(Feature, t, steps) /\ t \in PassedSteps(run) => run.current_step \in steps
  BY DEF OnCourse
<1> QED
  BY <1>1, <1>7, <1>8, <1>9 DEF LiesBefore, LiesAfter, PassesWithin

\* Whatever comes of a step behind the gate, the run stays there.
LEMMA BehindForGood ==
  ASSUME NEW run, OnItsGraph(run), run.workflow_id = "feature-development", IsBehind(run),
         NEW by \in Identity, NEW result \in {"PASS", "FAIL"}, NEW next,
         next = Advanced(run, by, result)
  PROVE  IsBehind(next)
<1>1. PICK target : target = IF result = "PASS" THEN StepOf(run).on_pass ELSE StepOf(run).on_fail
  OBVIOUS
<1>2. PICK record : record = Record(run, by, result)
  OBVIOUS
<1>3. PICK to : to = IF result = "FAIL" /\ target = "abort" THEN "ABORTED" ELSE "RUNNING"
  OBVIOUS
<1>4. next = Transition(run, target, to, record)
  BY <1>1, <1>2, <1>3 DEF Advanced
<1>5. record \in StepRecord
  BY <1>2 DEF Record, StepRecord, OnItsGraph, WorkflowRun
<1>6. to \in RunStatus \ {"APPROVAL_REQUIRED"}
  BY <1>3 DEF RunStatus
<1>7. target \in DOMAIN Def[run.workflow_id].steps \cup TERMINALS
  BY <1>1, StepType
<1>8. /\ next.history = Append(run.history, record) /\ next.status # "APPROVAL_REQUIRED"
      /\ next.current_step = IF target \in TERMINALS THEN run.current_step ELSE target
  <2>1. LET made == Transition(run, target, to, record)
        IN  /\ made.history = Append(run.history, record) /\ made.status # "APPROVAL_REQUIRED"
            /\ made.current_step = IF target \in TERMINALS THEN run.current_step ELSE target
    BY <1>5, <1>6, <1>7, TransitionType
  <2> QED
    BY <1>4, <2>1
<1>9. target \in Behind \cup TERMINALS
  BY <1>1, BehindFacts DEF IsBehind, StepOf, Feature, LiesBehindGates
<1>10. PassedSteps(run) \subseteq PassedSteps(next)
  <2>1. PassedSteps(next)
          = PassedSteps(run) \cup (IF record.result = "PASS" THEN {record.step_id} ELSE {})
    BY <1>8, OneMoreStep DEF OnItsGraph
  <2> QED
    BY <2>1
<1> QED
  BY <1>8, <1>9, <1>10 DEF IsBehind

\* A run halted where it stands, or with one more record, not over a gate.
IsOutcome(run, by, result, next) ==
  /\ OnItsWay(next) /\ next.status # "APPROVAL_REQUIRED"
  /\ Granted(next) <=> Granted(run)
  /\ \/ next.status \in {"PAUSED", "BLOCKED"} /\ next.history = run.history
     \/ next.history = Append(run.history, Record(run, by, result))

\* What the owner of a step submits: before the gate nothing but a pass.
LEMMA OutcomeKeepsWay ==
  ASSUME NEW r, NEW run, OnItsGraph(run), OnItsWay(run), NEW by \in Identity,
         MaySubmit(run, by), NEW result \in {"PASS", "FAIL"}, result = "PASS" \/ Granted(run),
         NEW next, next = AfterOutcome(r, run, by, result)
  PROVE  IsOutcome(run, by, result, next)
<1>1. /\ next.workflow_id = run.workflow_id /\ next.status # "APPROVAL_REQUIRED"
      /\ \/ /\ next.status \in {"PAUSED", "BLOCKED"} /\ next.history = run.history
            /\ next.current_step = run.current_step
         \/ next.history = Append(run.history, Record(run, by, result))
  <2> DEFINE made == AfterOutcome(r, run, by, result)
  <2>1. /\ made.workflow_id = run.workflow_id
        /\ \/ /\ made.status \in {"PAUSED", "BLOCKED"} /\ made.history = run.history
              /\ made.current_step = run.current_step
           \/ /\ made.status # "APPROVAL_REQUIRED"
              /\ made.history = Append(run.history, Record(run, by, result))
    BY AfterOutcomeType, ZenonT(40)
  <2> HIDE DEF made
  <2>2. made.status # "APPROVAL_REQUIRED"
    BY <2>1
  <2>3. next = made
    BY DEF made
  <2> QED
    BY <2>1, <2>2, <2>3
<1>2. run.status = "RUNNING" /\ by = StepOf(run).owner /\ ~AtHumanGate(run)
  BY DEF MaySubmit
<1>3. OwnersSign(run) /\ run.workflow_id = "feature-development" /\ run \in WorkflowRun
  BY DEF OnItsWay, OnItsGraph
<1>4. \/ next.status \in {"PAUSED", "BLOCKED"}
      \/ next = Advanced(run, by, result)
  BY <1>3 DEF AfterOutcome, WorkflowRun
<1>5. CASE /\ next.status \in {"PAUSED", "BLOCKED"} /\ next.history = run.history
           /\ next.current_step = run.current_step
  <2>1. Granted(next) <=> Granted(run)
    BY <1>1, <1>5 DEF Granted, IsGrant
  <2>2. IsBehind(run) => IsBehind(next)
    BY <1>5 DEF IsBehind, PassedSteps
  <2>3. OwnersSign(next)
    BY <1>3, <1>5 DEF OwnersSign
  <2>4. OnItsWay(next)
    BY <1>1, <1>3, <1>5, <2>1, <2>2, <2>3 DEF OnItsWay
  <2> QED
    BY <1>1, <1>5, <2>1, <2>4 DEF IsOutcome
<1>6. CASE next.history = Append(run.history, Record(run, by, result))
  <2>1. PICK record : record = Record(run, by, result)
    OBVIOUS
  <2>2. record.step_id = run.current_step /\ record.owner = by
    BY <2>1 DEF Record
  <2>3. OwnersSign(next)
    <3>1. by = Feature.steps[run.current_step].owner
      BY <1>2, <1>3 DEF StepOf, Feature
    <3> QED
      BY <1>3, <1>6, <2>1, <2>2, <3>1, OneMoreSigns
  <2>4. Granted(next) <=> Granted(run)
    BY <1>1, <1>2, <1>3, <1>6, <2>1, <2>2, OneMoreGrant DEF AtHumanGate
  <2>5. ASSUME Granted(run) PROVE OnItsWay(next)
    <3>1. IsBehind(run)
      BY <2>5 DEF OnItsWay
    <3>2. next.status \in {"PAUSED", "BLOCKED"} => IsBehind(next)
      <4>1. SUFFICES ASSUME next.status \in {"PAUSED", "BLOCKED"} PROVE IsBehind(next)
        OBVIOUS
      <4>2. next.current_step = run.current_step \/ next = Advanced(run, by, result)
        BY <1>3, <1>4 DEF AfterOutcome, WorkflowRun
      <4>3. PassedSteps(run) \subseteq PassedSteps(next)
        BY <1>3, <1>6, OneMoreStep
      <4> QED
        BY <1>1, <1>3, <3>1, <4>2, <4>3, BehindForGood DEF IsBehind
    <3>3. IsBehind(next)
      BY <1>3, <1>4, <3>1, <3>2, BehindForGood
    <3> QED
      BY <1>1, <1>3, <2>3, <2>4, <2>5, <3>3 DEF OnItsWay
  <2>6. ASSUME ~Granted(run) PROVE OnItsWay(next)
    <3>1. result = "PASS" /\ OnCourse(run)
      BY <1>2, <2>6 DEF OnItsWay
    <3>2. next.status = "RUNNING" => OnCourse(next)
      <4>1. next.status = "RUNNING" =>
              next = Transition(run, StepOf(run).on_pass, "RUNNING", Record(run, by, "PASS"))
        BY <1>4, <3>1 DEF Advanced
      <4> QED
        BY <1>3, <3>1, <4>1, PassingKeepsCourse
    <3> QED
      BY <1>1, <1>3, <2>3, <2>4, <2>6, <3>2 DEF OnItsWay
  <2> QED
    BY <1>1, <1>6, <2>4, <2>5, <2>6 DEF IsOutcome
<1> QED
  BY <1>1, <1>5, <1>6

\* A run that comes to a gate on its course has passed every real stage.
LEMMA GateIsBehindAll ==
  ASSUME NEW run, run.workflow_id = "feature-development", OnCourse(run), AtHumanGate(run)
  PROVE  REAL_STAGES \cap Steps \subseteq PassedSteps(run)
<1>1. Feature.steps[run.current_step].human_approval
  BY DEF AtHumanGate, IsHumanGate, Feature
<1>2. ASSUME NEW t \in REAL_STAGES \cap Steps, t \notin PassedSteps(run)
      PROVE  FALSE
  <2>1. PICK before \in SUBSET Steps :
          LiesBefore(Feature, t, before) /\ \A s \in before : ~Feature.steps[s].human_approval
    BY CourseAssumption DEF Steps, FoundersComeAfter
  <2>2. run.current_step \in before
    BY <1>2, <2>1 DEF OnCourse
  <2> QED
    BY <1>1, <2>1, <2>2
<1> QED
  BY <1>2

\* Behind the gate there is no other.
LEMMA GateIsNotBehind ==
  ASSUME NEW run, OnItsWay(run), AtHumanGate(run)
  PROVE  ~Granted(run)
  BY BehindFacts DEF OnItsWay, IsBehind, AtHumanGate, IsHumanGate, Feature

\* What the founder decides about a run at a gate.
LEMMA DecisionKeepsWay ==
  ASSUME NEW run, OnItsGraph(run), OnItsWay(run), AtHumanGate(run),
         run.status = "APPROVAL_REQUIRED", NEW state, NEW next, next = AfterDecision(run, state)
  PROVE  /\ OnItsWay(next)
         /\ \A s \in PassedSteps(next) : s \in PassedSteps(run) \/ s = run.current_step
         /\ PassedSteps(run) \subseteq PassedSteps(next)
         /\ next.status = "APPROVAL_REQUIRED" => next = run
         /\ next.status # "APPROVAL_REQUIRED" => Unlocked(next)
<1>1. /\ OnCourse(run) /\ OwnersSign(run) /\ run.workflow_id = "feature-development"
      /\ ~Granted(run)
  BY GateIsNotBehind DEF OnItsWay
<1>2. run \in WorkflowRun
  BY DEF OnItsGraph
<1>3. CASE state = "PENDING"
  <2>1. next = run
    BY <1>3, AfterDecisionType
  <2> QED
    BY <2>1
<1>4. CASE state # "PENDING"
  <2>1. PICK result : result = IF state = "APPROVED" THEN "PASS" ELSE "FAIL"
    OBVIOUS
  <2>2. PICK record : record = Record(run, HUMAN_FOUNDER, result)
    OBVIOUS
  <2>3. /\ next.workflow_id = run.workflow_id /\ next.status # "APPROVAL_REQUIRED"
        /\ next.history = Append(run.history, record)
    BY <1>4, <2>1, <2>2, AfterDecisionType
  <2>4. record.step_id = run.current_step /\ record.owner = HUMAN_FOUNDER /\ record.result = result
    BY <2>2 DEF Record
  <2>5. Feature.steps[run.current_step].human_approval
    BY <1>1 DEF AtHumanGate, IsHumanGate, Feature
  <2>6. OwnersSign(next)
    BY <1>1, <1>2, <2>3, <2>4, <2>5, OneMoreSigns
  <2>7. PassedSteps(next) = PassedSteps(run) \cup (IF record.result = "PASS" THEN {run.current_step} ELSE {})
    BY <1>2, <2>3, <2>4, OneMoreStep
  <2>8. Granted(next) <=> result = "PASS"
    BY <1>1, <1>2, <2>3, <2>4, OneMoreGrant DEF AtHumanGate
  <2>9. OnItsWay(next) /\ Unlocked(next)
    <3>1. CASE state = "APPROVED"
      <4>1. PICK target : target = Feature.steps[run.current_step].on_pass
        OBVIOUS
      <4>2. PICK to : to = "RUNNING"
        OBVIOUS
      <4>3. record \in StepRecord
        BY <1>2, <2>1, <2>2, IdentityAssumption DEF Record, StepRecord, WorkflowRun
      <4>4. target = StepOf(run).on_pass /\ target \in DOMAIN Def[run.workflow_id].steps \cup TERMINALS
        BY <1>1, <4>1, StepType DEF StepOf, Feature
      <4>5. next = Transition(run, target, to, record)
        BY <2>1, <2>2, <3>1, <4>2, <4>4 DEF AfterDecision
      <4>6. next.current_step = IF target \in TERMINALS THEN run.current_step ELSE target
        <5>1. to \in RunStatus \ {"APPROVAL_REQUIRED"}
          BY <4>2 DEF RunStatus
        <5> QED
          BY <4>3, <4>4, <4>5, <5>1, TransitionType
      <4>7. target \in Behind /\ target \notin TERMINALS
        <5>1. run.current_step \in DOMAIN Feature.steps
          BY <1>1 DEF OnItsGraph, Feature
        <5> QED
          BY <2>5, <4>1, <5>1, BehindFacts, FeatureType DEF LiesBehindGates
      <4>8. IsBehind(next)
        BY <1>1, <2>3, <2>7, <4>6, <4>7, GateIsBehindAll DEF IsBehind
      <4>9. Granted(next)
        BY <2>1, <2>8, <3>1
      <4> QED
        BY <1>1, <2>3, <2>6, <4>8, <4>9 DEF OnItsWay, Unlocked
    <3>2. CASE state # "APPROVED"
      <4>1. next = Transition(run, StepOf(run).on_fail, "REJECTED", Record(run, HUMAN_FOUNDER, "FAIL"))
        BY <1>4, <3>2 DEF AfterDecision
      <4>2. next.status \notin {"RUNNING", "APPROVAL_REQUIRED"}
        BY <1>2, <4>1 DEF Transition, WorkflowRun
      <4>3. ~Granted(next)
        BY <2>1, <2>8, <3>2
      <4> QED
        BY <1>1, <2>3, <2>6, <4>2, <4>3 DEF OnItsWay, Unlocked
    <3> QED
      BY <3>1, <3>2
  <2> QED
    BY <2>3, <2>7, <2>9
<1> QED
  BY <1>3, <1>4

-------------------------------------------------------------------------------
(***************************************************************************)
(* What each kind of step does to the runs.                                *)
(***************************************************************************)
\* The steps of the process that leave the tables of the engine alone.
Works ==
  \/ LoopEnds \/ TellTask \/ FindNoAgent \/ AuxiliaryStage \/ BeginStage
  \/ ReserveCall \/ Reply \/ ApplyReply \/ StoreStage \/ ReachVerdict
  \/ \E o \in StageOutcome : StageReturns(o)
  \/ \E ready \in BOOLEAN : ProbeCodex(ready)
  \/ \E status \in CodexStatus : RunCodex(status)
  \/ \E tests \in Tests : JudgeCodex(tests)

LEMMA WorkingProcess ==
  ASSUME ProcessHasItsRun, Works
  PROVE  /\ Alive /\ DOMAIN proof = Fields /\ proof.run \in DOMAIN runs
         /\ proof'.run = proof.run /\ runs' = runs /\ approvals' = approvals
         /\ drive' = drive
         /\ MyRun' = MyRun /\ Stage' = Stage
         /\ \A s : Done(s)' = Done(s)
<1>1. Alive
  BY SomewhereIsAProcess DEF Works, LoopEnds, TellTask, FindNoAgent, Turn, AuxiliaryStage, HasAgent,
     BeginStage, ReserveCall, Reply, ApplyReply, StoreStage, ReachVerdict, StageReturns,
     ProbeCodex, RunCodex, JudgeCodex
<1>2. DOMAIN proof = Fields /\ proof.run \in DOMAIN runs
  BY <1>1 DEF ProcessHasItsRun
<1>3. "run" \in DOMAIN proof
  BY <1>2 DEF Fields
<1>4. runs' = runs /\ approvals' = approvals
  BY ProofWorks DEF Works, vars
<1>5. proof'.run = proof.run
  <2>1. CASE LoopEnds \/ TellTask \/ FindNoAgent \/ AuxiliaryStage \/ BeginStage
    BY <1>3, <2>1 DEF LoopEnds, TellTask, FindNoAgent, AuxiliaryStage, BeginStage
  <2>2. CASE ReserveCall \/ Reply \/ ApplyReply \/ StoreStage \/ ReachVerdict
    BY <1>3, <2>2 DEF ReserveCall, Reply, ApplyReply, StoreStage, ReachVerdict, FreshLocals
  <2>3. ASSUME NEW o \in StageOutcome, StageReturns(o)
        PROVE  proof'.run = proof.run
    BY <1>3, <2>3 DEF StageReturns, FallBack, StopBlocked, FreshLocals
  <2>4. ASSUME NEW ready \in BOOLEAN, ProbeCodex(ready)
        PROVE  proof'.run = proof.run
    BY <1>3, <2>4 DEF ProbeCodex
  <2>5. ASSUME NEW status \in CodexStatus, RunCodex(status)
        PROVE  proof'.run = proof.run
    BY <1>3, <2>5 DEF RunCodex
  <2>6. ASSUME NEW tests \in Tests, JudgeCodex(tests)
        PROVE  proof'.run = proof.run
    BY <1>3, <2>6 DEF JudgeCodex
  <2> QED
    BY <2>1, <2>2, <2>3, <2>4, <2>5, <2>6 DEF Works
<1>6. MyRun' = MyRun
  BY <1>4, <1>5 DEF MyRun
<1>7. drive' = drive
  BY DEF Works, LoopEnds, TellTask, FindNoAgent, AuxiliaryStage, BeginStage, ReserveCall, Reply,
     ApplyReply, StoreStage, ReachVerdict, StageReturns, ProbeCodex, RunCodex, JudgeCodex
<1> QED
  BY <1>1, <1>2, <1>4, <1>5, <1>6, <1>7 DEF Stage, Done

\* What a command that is no proof makes of the run q: before the grant it moves only
\* a run that waits, over its gate or to a halt, and it passes no real stage. Whoever
\* leaves a run waiting leaves its task alone.
LeftToTheProof(q) ==
  /\ PassedSteps(runs[q]) \subseteq PassedSteps(runs'[q])
  /\ PassedSteps(runs'[q]) \cap (REAL_STAGES \cap Steps) \subseteq PassedSteps(runs[q])
  /\ Granted(runs[q]) => Granted(runs'[q])
  /\ ~Granted(runs[q]) /\ runs[q].status # "APPROVAL_REQUIRED" => runs'[q] = runs[q]
  /\ runs'[q].status = "APPROVAL_REQUIRED" => runs'[q] = runs[q] /\ task' = task

LEMMA RunsAreLeft ==
  ASSUME CourseKept, runs' = runs,
         \A q \in DOMAIN runs : runs[q].status = "APPROVAL_REQUIRED" => task' = task
  PROVE  CourseKept' /\ \A q \in DOMAIN runs : LeftToTheProof(q)
<1>1. CourseKept'
  BY DEF CourseKept
<1>2. \A q \in DOMAIN runs : runs'[q] = runs[q]
  OBVIOUS
<1> QED
  BY <1>1, <1>2 DEF LeftToTheProof

\* A put of one run that is on its way too.
LEMMA OneRunMoves ==
  ASSUME CourseKept, NEW r \in DOMAIN runs, NEW next, runs' = Upsert(runs, r, next),
         OnItsWay(next), task' = task, LeftToTheProof(r)
  PROVE  /\ CourseKept' /\ DOMAIN runs' = DOMAIN runs /\ runs'[r] = next
         /\ \A q \in DOMAIN runs : LeftToTheProof(q)
<1>1. /\ DOMAIN runs' = DOMAIN runs /\ runs'[r] = next
      /\ \A q \in DOMAIN runs : q # r => runs'[q] = runs[q]
  BY DEF Upsert
<1>2. CourseKept'
  BY <1>1 DEF CourseKept
<1>3. ASSUME NEW q \in DOMAIN runs, q # r
      PROVE  LeftToTheProof(q)
  <2>1. runs'[q] = runs[q]
    BY <1>1, <1>3
  <2> QED
    BY <2>1 DEF LeftToTheProof
<1> QED
  BY <1>1, <1>2, <1>3

\* approvals approve, approvals resume: the run is decided about, or as it was.
LEMMA ResumingMoves ==
  ASSUME CourseInv, NEW r \in Run, ResumeRun(r)
  PROVE  /\ CourseKept' /\ DriveKept' /\ DOMAIN runs' = DOMAIN runs
         /\ \A q \in DOMAIN runs : LeftToTheProof(q)
<1>1. ResumeAfterApproval(r) /\ task' = task /\ CourseKept
  BY DEF ResumeRun, CourseInv
<1>2. PICK state, run, next :
        /\ run = runs[r] /\ next = AfterDecision(run, state)
        /\ runs' = Upsert(runs, r, next)
  BY <1>1 DEF ResumeAfterApproval
<1>3. /\ r \in DOMAIN runs /\ run.status = "APPROVAL_REQUIRED" /\ run.pending_approval_id # None
  BY <1>1, <1>2 DEF ResumeAfterApproval
<1>4. AtHumanGate(run) /\ OnItsGraph(run) /\ OnItsWay(run)
  <2>1. AtHumanGate(run)
    BY <1>2, <1>3 DEF CourseInv, EngineInv, Inv, WaitsForItsRequest
  <2>2. OnItsGraph(run)
    BY <1>2, <1>3, RunType DEF CourseInv, EngineInv, Inv
  <2> QED
    BY <1>2, <1>3, <2>1, <2>2 DEF CourseInv, CourseKept
<1>5. /\ OnItsWay(next)
      /\ \A s \in PassedSteps(next) : s \in PassedSteps(run) \/ s = run.current_step
      /\ PassedSteps(run) \subseteq PassedSteps(next)
      /\ next.status = "APPROVAL_REQUIRED" => next = run
      /\ next.status # "APPROVAL_REQUIRED" => Unlocked(next)
  BY <1>2, <1>3, <1>4, DecisionKeepsWay
<1>6. run.current_step \notin REAL_STAGES \cap Steps
  BY <1>4, CourseFacts DEF AtHumanGate, IsHumanGate, OnItsWay, Feature
<1>7. runs'[r] = next /\ DOMAIN runs' = DOMAIN runs
  BY <1>2, <1>3 DEF Upsert
<1>8. LeftToTheProof(r)
  BY <1>1, <1>2, <1>3, <1>4, <1>5, <1>6, <1>7, GateIsNotBehind DEF LeftToTheProof
<1>9. DriveKept'
  <2>1. \/ next.status = "APPROVAL_REQUIRED" /\ drive' = NoDrive
        \/ next.status # "APPROVAL_REQUIRED" /\ drive'.run = r
           /\ DOMAIN drive' = {"run", "at", "by", "mark"}
    BY <1>7 DEF ResumeRun, NoDrive
  <2> QED
    BY <1>3, <1>5, <1>7, <2>1 DEF DriveKept, NoDrive
<1> QED
  BY <1>1, <1>2, <1>3, <1>5, <1>8, <1>9, OneRunMoves

\* The drive submits for a run behind its gate.
LEMMA DriveSubmits ==
  ASSUME CourseInv, NEW result \in {"PASS", "FAIL"}, DriveOutcome(result)
  PROVE  \E r, run, by, next :
           /\ r \in DOMAIN runs /\ run \in WorkflowRun /\ by \in Identity
           /\ r = drive.run /\ run = runs[r] /\ runs' = Upsert(runs, r, next)
           /\ OnItsWay(run) /\ Granted(run) /\ IsOutcome(run, by, result, next)
<1>1. SubmitOutcome(drive.run, drive.by, result) /\ drive.at = "work"
  BY DEF DriveOutcome, DriveAt
<1>2. PICK r, run, by, next :
        /\ r = drive.run /\ run = runs[r] /\ by = drive.by
        /\ next = AfterOutcome(r, run, by, result)
        /\ r \in DOMAIN runs /\ runs' = Upsert(runs, r, next) /\ MaySubmit(run, by)
  BY <1>1 DEF SubmitOutcome
<1>3. OnItsGraph(run) /\ OnItsWay(run)
  BY <1>1, <1>2, RunType DEF CourseInv, EngineInv, Inv, CourseKept
<1>4. by \in Identity /\ run.status = "RUNNING"
  BY <1>2, <1>3, StepType DEF MaySubmit, WorkflowStep
<1>5. Granted(run)
  <2>1. Unlocked(run)
    BY <1>1, <1>2 DEF CourseInv, DriveKept
  <2> QED
    BY <1>4, <2>1 DEF Unlocked
<1>6. IsOutcome(run, by, result, next)
  <2>1. OnItsGraph(run) /\ OnItsWay(run) /\ by \in Identity /\ MaySubmit(run, by)
    BY <1>2, <1>3, <1>4
  <2>2. next = AfterOutcome(r, run, by, result) /\ (result = "PASS" \/ Granted(run))
    BY <1>2, <1>5
  <2> QED
    BY <2>1, <2>2, OutcomeKeepsWay
<1> QED
  BY <1>2, <1>3, <1>4, <1>5, <1>6 DEF OnItsGraph

LEMMA DrivingMoves ==
  ASSUME CourseInv, NEW result \in {"PASS", "FAIL"}, DriveOutcome(result)
  PROVE  /\ CourseKept' /\ DriveKept' /\ DOMAIN runs' = DOMAIN runs
         /\ \A q \in DOMAIN runs : LeftToTheProof(q)
<1>1. task' = task /\ CourseKept
  BY DEF DriveOutcome, CourseInv
<1>2. PICK r, run, by, next :
        /\ r \in DOMAIN runs /\ run \in WorkflowRun /\ by \in Identity
        /\ r = drive.run /\ run = runs[r] /\ runs' = Upsert(runs, r, next)
        /\ OnItsWay(run) /\ Granted(run) /\ IsOutcome(run, by, result, next)
  BY DriveSubmits
<1>5. Granted(run) /\ IsBehind(run)
  BY <1>2 DEF OnItsWay
<1>6. /\ OnItsWay(next) /\ next.status # "APPROVAL_REQUIRED" /\ Granted(next)
      /\ next.history \in {run.history, Append(run.history, Record(run, by, result))}
  BY <1>2 DEF IsOutcome
<1>7. /\ PassedSteps(run) \subseteq PassedSteps(next)
      /\ \A s \in PassedSteps(next) : s \in PassedSteps(run) \/ s = run.current_step
  <2>1. CASE next.history = run.history
    BY <2>1 DEF PassedSteps
  <2>2. CASE next.history = Append(run.history, Record(run, by, result))
    <3>1. PICK record : record = Record(run, by, result)
      OBVIOUS
    <3>2. record.step_id = run.current_step
      BY <3>1 DEF Record
    <3>3. PassedSteps(next)
            = PassedSteps(run) \cup (IF record.result = "PASS" THEN {run.current_step} ELSE {})
      BY <1>2, <2>2, <3>1, <3>2, OneMoreStep
    <3> QED
      BY <3>3
  <2> QED
    BY <1>6, <2>1, <2>2
<1>8. run.current_step \notin REAL_STAGES
  BY <1>5, BehindFacts DEF IsBehind
<1>9. runs'[r] = next /\ DOMAIN runs' = DOMAIN runs
  BY <1>2 DEF Upsert
<1>10. LeftToTheProof(r)
  BY <1>1, <1>2, <1>5, <1>6, <1>7, <1>8, <1>9 DEF LeftToTheProof
<1>11. DriveKept'
  <2>1. drive' = NoDrive \/ (drive'.run = r /\ DOMAIN drive' = {"run", "at", "by", "mark"})
    BY <1>2 DEF DriveOutcome, CourseInv, DriveKept
  <2> QED
    BY <1>2, <1>6, <1>9, <2>1 DEF DriveKept, NoDrive, Unlocked
<1> QED
  BY <1>1, <1>2, <1>6, <1>10, <1>11, OneRunMoves

\* A step of the drive that submits nothing; what it marks is a run that no longer
\* waits.
LEMMA DriveLooksOn ==
  ASSUME CourseInv, EnterDrive \/ DriveTurn \/ DriveMark \/ DriveDies
  PROVE  /\ CourseKept' /\ DriveKept' /\ runs' = runs
         /\ \A q \in DOMAIN runs : LeftToTheProof(q)
<1>1. runs' = runs /\ CourseKept /\ DriveKept
  BY DEF CourseInv, EnterDrive, DriveTurn, DriveMark, DriveDies, vars
<1>2. \A q \in DOMAIN runs : runs[q].status = "APPROVAL_REQUIRED" => task' = task
  <2>1. CASE EnterDrive \/ DriveTurn \/ DriveDies
    BY <2>1 DEF EnterDrive, DriveTurn, DriveDies
  <2>2. CASE DriveMark
    <3>1. drive.run \in DOMAIN runs /\ Unlocked(runs[drive.run])
      BY <1>1, <2>2 DEF DriveMark, DriveAt, DriveKept
    <3>2. runs[drive.run].status # "APPROVAL_REQUIRED"
      BY <1>1, <3>1 DEF Unlocked, CourseKept, OnItsWay, IsBehind
    <3>3. \A q \in DOMAIN runs : q = drive.run
      BY <3>1, OneRunAssumption, RowType DEF CourseInv, EngineInv, Inv, TypeOK
    <3> QED
      BY <3>2, <3>3
  <2> QED
    BY <2>1, <2>2
<1>3. \/ drive' = NoDrive
      \/ /\ drive.at # "nowhere" /\ drive'.run = drive.run
         /\ DOMAIN drive' = {"run", "at", "by", "mark"}
  <2>1. CASE EnterDrive
    BY <1>1, <2>1 DEF EnterDrive, DriveAt, DriveKept
  <2>2. CASE DriveTurn
    BY <1>1, <2>2 DEF DriveTurn, DriveAt, DriveKept
  <2> QED
    BY <2>1, <2>2 DEF DriveMark, DriveDies
<1>4. DriveKept'
  BY <1>1, <1>3 DEF DriveKept, NoDrive
<1> QED
  BY <1>1, <1>2, <1>4, RunsAreLeft

LEMMA OthersMove ==
  ASSUME CourseInv, Others
  PROVE  /\ CourseKept' /\ DriveKept' /\ DOMAIN runs' = DOMAIN runs
         /\ \A q \in DOMAIN runs : LeftToTheProof(q)
<1>1. CASE FounderStep
  <2>1. runs' = runs /\ drive' = drive /\ task' = task
    BY <1>1, FounderActs DEF FounderStep
  <2> QED
    BY <2>1, RunsAreLeft DEF CourseInv, DriveKept
<1>2. CASE DriveStep
  BY <1>2, ResumingMoves, DrivingMoves, DriveLooksOn DEF DriveStep
<1> QED
  BY <1>1, <1>2 DEF Others

\* The process that asks the founder has its run wait at the gate.
LEMMA AskingMoves ==
  ASSUME CourseInv, NEW a \in Approval, AskFounder(a)
  PROVE  /\ Alive /\ proof.run \in DOMAIN runs
         /\ CourseKept' /\ DriveKept' /\ DOMAIN runs' = DOMAIN runs
         /\ \A q \in DOMAIN runs : PassedSteps(runs'[q]) = PassedSteps(runs[q])
         /\ runs'[proof.run].status = "APPROVAL_REQUIRED"
<1>1. Alive /\ OpenApproval(proof.run, a, FALSE) /\ MyRun.status = "RUNNING"
  BY SomewhereIsAProcess DEF AskFounder, Turn
<1>2. PICK r, run, next :
        /\ r = proof.run /\ run = runs[r] /\ next = Parked(run, a) /\ AtHumanGate(run)
        /\ r \in DOMAIN runs /\ runs' = Upsert(runs, r, next)
  BY <1>1 DEF OpenApproval
<1>3. OnItsGraph(run) /\ OnItsWay(run) /\ run.status = "RUNNING" /\ ~Granted(run)
  <2>1. OnItsGraph(run) /\ OnItsWay(run) /\ run.status = "RUNNING"
    BY <1>1, <1>2, RunType DEF CourseInv, EngineInv, Inv, CourseKept, MyRun
  <2> QED
    BY <1>2, <2>1, GateIsNotBehind
<1>4. /\ next.status = "APPROVAL_REQUIRED" /\ next.current_step = run.current_step
      /\ next.workflow_id = run.workflow_id /\ next.history = run.history
  BY <1>2, <1>3, ParkedType
<1>5. PassedSteps(next) = PassedSteps(run) /\ OnItsWay(next)
  <2>1. PassedSteps(next) = PassedSteps(run) /\ (OnCourse(run) => OnCourse(next))
    BY <1>4 DEF PassedSteps, OnCourse
  <2>2. OwnersSign(run) => OwnersSign(next)
    BY <1>4 DEF OwnersSign
  <2>3. ~Granted(next)
    BY <1>3, <1>4 DEF Granted, IsGrant
  <2> QED
    BY <1>3, <1>4, <2>1, <2>2, <2>3 DEF OnItsWay
<1>6. /\ DOMAIN runs' = DOMAIN runs /\ runs'[r] = next
      /\ \A q \in DOMAIN runs : q # r => runs'[q] = runs[q]
  BY <1>2 DEF Upsert
<1>7. CourseKept'
  BY <1>5, <1>6 DEF CourseInv, CourseKept
<1>8. DriveKept'
  <2>1. drive' = drive /\ DriveKept
    BY DEF AskFounder, CourseInv
  <2>2. ~Unlocked(run)
    BY <1>3 DEF Unlocked
  <2> QED
    BY <1>2, <1>6, <2>1, <2>2 DEF DriveKept
<1> QED
  BY <1>1, <1>2, <1>4, <1>5, <1>6, <1>7, <1>8

\* The process that submits a stage has its run pass it, or halt where it stands.
LEMMA StageIsSubmitted ==
  ASSUME CourseInv, SubmitStage
  PROVE  \E r, run, by, next :
           /\ r \in DOMAIN runs /\ run \in WorkflowRun /\ by \in Identity
           /\ r = proof.run /\ run = runs[r] /\ run = MyRun /\ runs' = Upsert(runs, r, next)
           /\ OnItsWay(run) /\ run.status = "RUNNING" /\ IsOutcome(run, by, "PASS", next)
<1>1. Alive /\ proof.run \in DOMAIN runs
  BY SomewhereIsAProcess DEF SubmitStage, CourseInv, EngineInv, ProcessHasItsRun
<1>2. PICK r, run, by, next :
        /\ r = proof.run /\ run = runs[r] /\ by = proof.by /\ next = AfterOutcome(r, run, by, "PASS")
        /\ runs' = Upsert(runs, r, next) /\ MaySubmit(run, by)
  BY DEF SubmitStage, MyRun
<1>3. OnItsGraph(run) /\ OnItsWay(run)
  BY <1>1, <1>2, RunType DEF CourseInv, EngineInv, Inv, CourseKept
<1>4. by \in Identity /\ run.status = "RUNNING" /\ MyRun = run
  BY <1>2, <1>3, StepType DEF MaySubmit, WorkflowStep, MyRun
<1>5. IsOutcome(run, by, "PASS", next)
  <2>1. PICK result : result = "PASS" /\ result \in {"PASS", "FAIL"}
    OBVIOUS
  <2>2. next = AfterOutcome(r, run, by, result) /\ (result = "PASS" \/ Granted(run))
    BY <1>2, <2>1
  <2>3. IsOutcome(run, by, result, next)
    BY <1>2, <1>3, <1>4, <2>1, <2>2, OutcomeKeepsWay
  <2> QED
    BY <2>1, <2>3
<1> QED
  BY <1>1, <1>2, <1>3, <1>4, <1>5 DEF OnItsGraph

LEMMA SubmittingMoves ==
  ASSUME CourseInv, SubmitStage
  PROVE  /\ Alive /\ proof.run \in DOMAIN runs /\ MyRun.status = "RUNNING"
         /\ CourseKept' /\ DriveKept' /\ DOMAIN runs' = DOMAIN runs
         /\ \A q \in DOMAIN runs :
              /\ PassedSteps(runs[q]) \subseteq PassedSteps(runs'[q])
              /\ \A s \in PassedSteps(runs'[q]) : s \in PassedSteps(runs[q]) \/ (q = proof.run /\ s = Stage)
         /\ runs'[proof.run].status # "APPROVAL_REQUIRED"
         /\ runs'[proof.run].status = "RUNNING" => Stage \in PassedSteps(runs'[proof.run])
<1>1. PICK r, run, by, next :
        /\ r \in DOMAIN runs /\ run \in WorkflowRun /\ by \in Identity
        /\ r = proof.run /\ run = runs[r] /\ run = MyRun /\ runs' = Upsert(runs, r, next)
        /\ OnItsWay(run) /\ run.status = "RUNNING" /\ IsOutcome(run, by, "PASS", next)
  BY StageIsSubmitted
<1>2. Alive /\ proof.run \in DOMAIN runs
  BY <1>1, SomewhereIsAProcess DEF SubmitStage
<1>4. run.status = "RUNNING" /\ Stage = run.current_step /\ MyRun = run
  BY <1>1 DEF Stage
<1>5. /\ OnItsWay(next) /\ next.status # "APPROVAL_REQUIRED"
      /\ Granted(next) <=> Granted(run)
      /\ \/ next.status \in {"PAUSED", "BLOCKED"} /\ next.history = run.history
         \/ next.history = Append(run.history, Record(run, by, "PASS"))
  BY <1>1 DEF IsOutcome
<1>6. \/ next.status # "RUNNING" /\ next.history = run.history
      \/ next.history = Append(run.history, Record(run, by, "PASS"))
  BY <1>5
<1>7. /\ PassedSteps(run) \subseteq PassedSteps(next)
      /\ \A s \in PassedSteps(next) : s \in PassedSteps(run) \/ s = Stage
      /\ next.status = "RUNNING" => Stage \in PassedSteps(next)
  <2>1. CASE next.history = run.history /\ next.status # "RUNNING"
    BY <2>1 DEF PassedSteps
  <2>2. CASE next.history = Append(run.history, Record(run, by, "PASS"))
    <3>1. PICK record : record = Record(run, by, "PASS")
      OBVIOUS
    <3>2. record.step_id = Stage /\ record.result = "PASS"
      BY <1>4, <3>1 DEF Record
    <3>3. PassedSteps(next) = PassedSteps(run) \cup {Stage}
      BY <1>1, <2>2, <3>1, <3>2, OneMoreStep
    <3> QED
      BY <3>3
  <2> QED
    BY <1>6, <2>1, <2>2
<1>8. /\ DOMAIN runs' = DOMAIN runs /\ runs'[r] = next
      /\ \A q \in DOMAIN runs : q # r => runs'[q] = runs[q]
  BY <1>1 DEF Upsert
<1>9. CourseKept'
  BY <1>5, <1>8 DEF CourseInv, CourseKept
<1>10. DriveKept'
  <2>1. drive' = drive /\ DriveKept
    BY DEF SubmitStage, CourseInv
  <2>2. Unlocked(run) => Unlocked(next)
    BY <1>4, <1>5 DEF Unlocked
  <2> QED
    BY <1>1, <1>8, <2>1, <2>2 DEF DriveKept
<1> QED
  BY <1>1, <1>2, <1>4, <1>5, <1>7, <1>8, <1>9, <1>10

\* A new run has passed nothing.
LEMMA LaunchingMoves ==
  ASSUME CourseKept, DriveKept,
         NEW r, NEW env, NEW traits, NEW real, LaunchProof(r, real, env, traits)
  PROVE  /\ CourseKept' /\ DriveKept' /\ r \notin DOMAIN runs /\ DOMAIN runs' = DOMAIN runs \cup {r}
         /\ runs'[r].status = "RUNNING" /\ PassedSteps(runs'[r]) = {}
         /\ \A q \in DOMAIN runs : runs'[q] = runs[q]
<1>1. PICK next : next = NewRun("feature-development")
  OBVIOUS
<1>2. r \notin DOMAIN runs /\ runs' = Upsert(runs, r, next)
  BY <1>1 DEF LaunchProof
<1>3. /\ next.workflow_id = "feature-development" /\ next.status = "RUNNING"
      /\ next.history = <<>> /\ next.current_step = Feature.first
  BY <1>1 DEF NewRun, Feature
<1>4. PassedSteps(next) = {} /\ OnItsWay(next)
  <2>1. ~Granted(next) /\ PassedSteps(next) = {} /\ OwnersSign(next)
    BY <1>3 DEF Granted, PassedSteps, OwnersSign
  <2> QED
    BY <1>3, <2>1 DEF OnItsWay, OnCourse, LiesBefore
<1>5. /\ DOMAIN runs' = DOMAIN runs \cup {r} /\ runs'[r] = next
      /\ \A q \in DOMAIN runs : runs'[q] = runs[q]
  BY <1>2 DEF Upsert
<1>6. DriveKept'
  <2>1. drive' = drive
    BY DEF LaunchProof
  <2> QED
    BY <1>5, <2>1 DEF DriveKept
<1> QED
  BY <1>2, <1>3, <1>4, <1>5, <1>6 DEF CourseKept

\* Whatever happens, the runs keep to their course, and the drive to its run.
LEMMA CourseInvKept ==
  ASSUME CourseInv, [FactoryNext]_factoryVars
  PROVE  CourseInv'
<1>1. EngineInv'
  BY FactoryStepIsEngineStep DEF CourseInv
<1>2. SUFFICES CourseKept' /\ DriveKept'
  BY <1>1 DEF CourseInv
<1>3. CourseKept /\ DriveKept /\ EngineInv
  BY DEF CourseInv
<1>4. ASSUME runs' = runs, drive' = drive
      PROVE  CourseKept' /\ DriveKept'
  BY <1>3, <1>4 DEF CourseKept, DriveKept
<1>5. CASE UNCHANGED factoryVars \/ Dies
  BY <1>4, <1>5 DEF factoryVars, vars, Dies
<1>6. CASE Starts
  <2> PICK r \in Run, env \in Env, traits \in Task :
         \/ \E real \in BOOLEAN : LaunchProof(r, real, env, traits)
         \/ ResumeProof(r, env, traits)
    BY <1>6 DEF Starts
  <2>1. ASSUME NEW real \in BOOLEAN, LaunchProof(r, real, env, traits)
        PROVE  CourseKept' /\ DriveKept'
    BY <1>3, <2>1, LaunchingMoves
  <2>2. CASE ResumeProof(r, env, traits)
    BY <1>4, <2>2 DEF ResumeProof, vars
  <2> QED
    BY <2>1, <2>2
<1>7. CASE Works
  BY <1>3, <1>4, <1>7, WorkingProcess DEF EngineInv
<1>8. CASE SubmitStage
  BY <1>8, SubmittingMoves
<1>9. ASSUME NEW a \in Approval, AskFounder(a)
      PROVE  CourseKept' /\ DriveKept'
  BY <1>9, AskingMoves
<1>10. CASE Others
  BY <1>10, OthersMove
<1> QED
  BY <1>5, <1>6, <1>7, <1>8, <1>9, <1>10 DEF FactoryNext, ProofStep, SubmitRefused, Crash, Works

-------------------------------------------------------------------------------
(***************************************************************************)
(* Reports before outcomes.  What makes it inductive is that nobody else   *)
(* moves the run on while a real stage of it is under way, nor a stage     *)
(* before the gate while its outcome is to be submitted.                   *)
(***************************************************************************)
InStage == {"probe", "stage", "codex", "judge", "store"}

\* While the process is in a real stage its run is RUNNING and not over its gate,
\* hence nobody else's to move; and it submits a stage whose report is there, unless
\* the founder has let the run over its gate.
StageIsHeld ==
  /\ \A place \in InStage : At(place) => MyRun.status = "RUNNING" /\ ~Granted(MyRun)
  /\ At("submit") => Granted(MyRun) \/ (MyRun.status = "RUNNING" /\ Stage \in stored)

ReportInv == CourseInv /\ StageIsHeld /\ ReportsPrecedeOutcomes

Reported(run, reports) ==
  \A i \in DOMAIN run.history :
    run.history[i].owner \in Agents =>
      run.history[i].step_id \in reports \/ \E j \in 1 .. i - 1 : IsGrant(run, j)

LEMMA RunsAreReported ==
  ReportsPrecedeOutcomes <=> \A r \in DOMAIN runs : Reported(runs[r], stored)
  BY DEF ReportsPrecedeOutcomes, Reported

\* A step that puts one run, reported as the others are.
LEMMA PutKeepsReports ==
  ASSUME ReportsPrecedeOutcomes, stored \subseteq stored', NEW r, NEW run,
         runs' = Upsert(runs, r, run), Reported(run, stored)
  PROVE  ReportsPrecedeOutcomes'
<1>1. \A q \in DOMAIN runs' : Reported(runs'[q], stored)
  BY RunsAreReported DEF Upsert
<1> QED
  BY <1>1 DEF Reported, ReportsPrecedeOutcomes, IsGrant

LEMMA SameRunsKeepReports ==
  ASSUME ReportsPrecedeOutcomes, stored \subseteq stored', runs' = runs
  PROVE  ReportsPrecedeOutcomes'
  BY DEF ReportsPrecedeOutcomes, IsGrant

\* The same history has the same grants.
LEMMA SameHistoryIsReported ==
  ASSUME NEW run, Reported(run, stored), NEW next,
         next.history = run.history, next.workflow_id = run.workflow_id
  PROVE  Reported(next, stored)
  BY DEF Reported, IsGrant

\* A record that is reported, or not an agent's, or behind a grant.
LEMMA OneMoreReport ==
  ASSUME NEW run \in WorkflowRun, Reported(run, stored), NEW next, NEW record,
         next.history = Append(run.history, record), next.workflow_id = run.workflow_id,
         record.owner \in Agents => record.step_id \in stored \/ Granted(run)
  PROVE  Reported(next, stored)
<1>1. PICK n \in Nat :
        /\ DOMAIN run.history = 1 .. n /\ DOMAIN next.history = 1 .. (n + 1)
        /\ next.history[n + 1] = record
        /\ \A i \in 1 .. n : next.history[i] = run.history[i]
  BY HistoryGrows
<1>2. \A i \in 1 .. n : IsGrant(run, i) => IsGrant(next, i)
  BY <1>1 DEF IsGrant
<1>3. ASSUME NEW i \in 1 .. n, next.history[i].owner \in Agents
      PROVE  next.history[i].step_id \in stored \/ \E j \in 1 .. i - 1 : IsGrant(next, j)
  BY <1>1, <1>2, <1>3 DEF Reported
<1>4. ASSUME next.history[n + 1].owner \in Agents
      PROVE  next.history[n + 1].step_id \in stored \/ \E j \in 1 .. n : IsGrant(next, j)
  BY <1>1, <1>2, <1>4 DEF Granted
<1> QED
  BY <1>1, <1>3, <1>4 DEF Reported

\* So is an outcome whose step has its report, or whose run is over its gate.
LEMMA OutcomeIsReported ==
  ASSUME NEW run \in WorkflowRun, OnItsWay(run), Reported(run, stored),
         NEW by, NEW result, NEW next, IsOutcome(run, by, result, next),
         run.current_step \in stored \/ Granted(run)
  PROVE  Reported(next, stored)
<1>1. next.workflow_id = run.workflow_id
  BY DEF OnItsWay, IsOutcome
<1>2. PICK record : record = Record(run, by, result)
  OBVIOUS
<1>3. record.step_id = run.current_step
  BY <1>2 DEF Record
<1>4. next.history = run.history \/ next.history = Append(run.history, record)
  BY <1>2 DEF IsOutcome
<1> QED
  BY <1>1, <1>3, <1>4, SameHistoryIsReported, OneMoreReport

\* A process that goes on with its run as it is.
LEMMA GoesOn ==
  ASSUME UNCHANGED runs, "at" \in DOMAIN proof', proof'.run = proof.run,
         proof'.at \in InStage => MyRun.status = "RUNNING" /\ ~Granted(MyRun),
         proof'.at = "submit" => Granted(MyRun) \/ (MyRun.status = "RUNNING" /\ Stage \in stored')
  PROVE  StageIsHeld'
<1>1. MyRun' = MyRun /\ Stage' = Stage /\ Granted(MyRun)' = Granted(MyRun)
  BY DEF MyRun, Stage, Granted, IsGrant
<1>2. StageIsHeld' <=>
        /\ \A place \in InStage : proof'.at = place => MyRun.status = "RUNNING" /\ ~Granted(MyRun)
        /\ proof'.at = "submit" =>
             Granted(MyRun) \/ (MyRun.status = "RUNNING" /\ Stage \in stored')
  BY <1>1 DEF StageIsHeld, At
<1> QED
  BY <1>2

LEMMA HeldOnlyInStage ==
  ASSUME StageIsHeld, NEW place \in InStage, At(place)
  PROVE  MyRun.status = "RUNNING" /\ ~Granted(MyRun)
  BY DEF StageIsHeld

\* A run that stands at a real stage is not over its gate.
LEMMA RealStageIsBefore ==
  ASSUME NEW run, OnItsWay(run), run.current_step \in REAL_STAGES
  PROVE  ~Granted(run)
  BY BehindFacts DEF OnItsWay, IsBehind

LEMMA WorkKeepsReports ==
  ASSUME ReportInv, Works
  PROVE  StageIsHeld' /\ ReportsPrecedeOutcomes'
<1>1. ProcessHasItsRun
  BY DEF ReportInv, CourseInv, EngineInv
<1>2. Alive /\ "run" \in DOMAIN proof /\ "at" \in DOMAIN proof /\ proof.run \in DOMAIN runs
  BY <1>1, WorkingProcess DEF Fields
<1>3. \A place : At(place) => proof.at = place
  BY DEF At
<1>5. runs' = runs /\ StageIsHeld /\ ReportsPrecedeOutcomes
  BY <1>1, WorkingProcess DEF ReportInv
<1> DEFINE Good == /\ "at" \in DOMAIN proof' /\ proof'.run = proof.run
                   /\ proof'.at \in InStage => MyRun.status = "RUNNING" /\ ~Granted(MyRun)
                   /\ proof'.at = "submit" =>
                        Granted(MyRun) \/ (MyRun.status = "RUNNING" /\ Stage \in stored')
                   /\ stored \subseteq stored'
<1>6. SUFFICES Good
  BY <1>5, GoesOn, SameRunsKeepReports
<1>7. CASE LoopEnds
  BY <1>2, <1>7 DEF LoopEnds, InStage, durable
<1>8. CASE TellTask
  BY <1>2, <1>8 DEF TellTask, InStage
<1>9. CASE FindNoAgent
  BY <1>2, <1>9 DEF FindNoAgent, InStage, durable
<1>10. CASE AuxiliaryStage
  BY <1>2, <1>10 DEF AuxiliaryStage, HasAgent, Turn, InStage
<1>11. CASE BeginStage
  <2>1. MyRun.status = "RUNNING" /\ MyRun.current_step \in REAL_STAGES
    BY <1>11 DEF BeginStage, HasAgent, Turn, Stage
  <2>2. ~Granted(MyRun)
    BY <1>2, <2>1, RealStageIsBefore DEF ReportInv, CourseInv, CourseKept, MyRun
  <2> QED
    BY <1>2, <1>11, <2>1, <2>2 DEF BeginStage, durable
<1>12. CASE ReserveCall
  BY <1>2, <1>3, <1>5, <1>12, HeldOnlyInStage DEF ReserveCall, InStage, durable
<1>13. CASE Reply
  BY <1>2, <1>3, <1>5, <1>13, HeldOnlyInStage DEF Reply, InStage
<1>14. CASE ApplyReply
  BY <1>2, <1>3, <1>5, <1>14, HeldOnlyInStage DEF ApplyReply, InStage, durable
<1>15. CASE StoreStage
  BY <1>2, <1>3, <1>5, <1>15, HeldOnlyInStage DEF StoreStage, FreshLocals, InStage
<1>16. CASE ReachVerdict
  BY <1>2, <1>16 DEF ReachVerdict, InStage, durable
<1>17. ASSUME NEW o \in StageOutcome, StageReturns(o)
       PROVE  Good
  <2>1. MyRun.status = "RUNNING" /\ ~Granted(MyRun) /\ stored' = stored
    BY <1>5, <1>17, HeldOnlyInStage DEF StageReturns, InStage, durable
  <2>2. CASE proof' = [proof EXCEPT !.at = "store", !.outcome = o]
    BY <1>2, <2>1, <2>2
  <2>3. CASE FallBack(Head(proof.fallbacks))
    BY <1>2, <2>1, <2>3 DEF FallBack, FreshLocals
  <2>4. CASE StopBlocked
    BY <1>2, <2>1, <2>4 DEF StopBlocked, FreshLocals
  <2> QED
    BY <1>17, <2>2, <2>3, <2>4 DEF StageReturns
<1>18. ASSUME NEW ready \in BOOLEAN, ProbeCodex(ready)
       PROVE  Good
  BY <1>2, <1>5, <1>18, HeldOnlyInStage DEF ProbeCodex, InStage, durable
<1>19. ASSUME NEW status \in CodexStatus, RunCodex(status)
       PROVE  Good
  BY <1>2, <1>5, <1>19, HeldOnlyInStage DEF RunCodex, InStage, durable
<1>20. ASSUME NEW tests \in Tests, JudgeCodex(tests)
       PROVE  Good
  BY <1>2, <1>5, <1>20, HeldOnlyInStage DEF JudgeCodex, InStage, durable
<1> QED
  BY <1>7, <1>8, <1>9, <1>10, <1>11, <1>12, <1>13, <1>14, <1>15, <1>16, <1>17, <1>18, <1>19, <1>20
     DEF Works

-------------------------------------------------------------------------------
\* The founder is asked: the history stays as it is.
LEMMA AskingKeepsReports ==
  ASSUME ReportInv, NEW a \in Approval, AskFounder(a)
  PROVE  StageIsHeld' /\ ReportsPrecedeOutcomes'
<1>1. Alive /\ OpenApproval(proof.run, a, FALSE) /\ UNCHANGED stored
  BY SomewhereIsAProcess DEF AskFounder, Turn, durable
<1>2. proof.run \in DOMAIN runs /\ "at" \in DOMAIN proof
  BY <1>1 DEF ReportInv, CourseInv, EngineInv, ProcessHasItsRun, Fields
<1>3. PICK run, next : run = MyRun /\ next = Parked(run, a)
  OBVIOUS
<1>4. runs' = Upsert(runs, proof.run, next)
  BY <1>1, <1>3 DEF OpenApproval, MyRun
<1>5. next.history = run.history /\ next.workflow_id = run.workflow_id
  BY <1>2, <1>3, RunType
     DEF ReportInv, CourseInv, EngineInv, Inv, OnItsGraph, WorkflowRun, Parked, MyRun
<1>6. Reported(run, stored)
  BY <1>2, <1>3, RunsAreReported DEF ReportInv, MyRun
<1>7. ReportsPrecedeOutcomes'
  BY <1>1, <1>4, <1>5, <1>6, SameHistoryIsReported, PutKeepsReports DEF ReportInv
<1>8. "at" \in DOMAIN proof' /\ proof'.at = "tell"
  BY <1>2 DEF AskFounder
<1>9. StageIsHeld'
  BY <1>8 DEF StageIsHeld, At, InStage
<1> QED
  BY <1>7, <1>9

\* The outcome of a stage is submitted: its report is there, or the run is over its gate.
LEMMA SubmittingKeepsReports ==
  ASSUME ReportInv, SubmitStage
  PROVE  StageIsHeld' /\ ReportsPrecedeOutcomes'
<1>1. CourseInv /\ UNCHANGED stored /\ At("submit") /\ StageIsHeld
  BY DEF SubmitStage, durable, ReportInv
<1>2. PICK r, run, by, next :
        /\ r \in DOMAIN runs /\ run \in WorkflowRun /\ by \in Identity
        /\ r = proof.run /\ run = runs[r] /\ run = MyRun /\ runs' = Upsert(runs, r, next)
        /\ OnItsWay(run) /\ run.status = "RUNNING" /\ IsOutcome(run, by, "PASS", next)
  BY <1>1, StageIsSubmitted
<1>3. Reported(run, stored)
  BY <1>2, RunsAreReported DEF ReportInv
<1>4. run.current_step \in stored \/ Granted(run)
  BY <1>1, <1>2 DEF StageIsHeld, Stage
<1>5. Reported(next, stored)
  BY <1>2, <1>3, <1>4, OutcomeIsReported
<1>6. ReportsPrecedeOutcomes'
  BY <1>1, <1>2, <1>5, PutKeepsReports DEF ReportInv
<1>7. "at" \in DOMAIN proof' /\ proof'.at \in {"turn", "verdict"}
  <2>1. DOMAIN proof = Fields
    BY <1>1 DEF CourseInv, EngineInv, ProcessHasItsRun
  <2> QED
    BY <2>1 DEF SubmitStage, Fields
<1>8. StageIsHeld'
  BY <1>7 DEF StageIsHeld, At, InStage
<1> QED
  BY <1>6, <1>8

\* A process begins: its run has no history, or the one it had.
LEMMA StartingKeepsReports ==
  ASSUME ReportInv, Starts
  PROVE  StageIsHeld' /\ ReportsPrecedeOutcomes'
<1> PICK r \in Run, env \in Env, traits \in Task :
       \/ \E real \in BOOLEAN : LaunchProof(r, real, env, traits)
       \/ ResumeProof(r, env, traits)
  BY DEF Starts
<1>1. "at" \in DOMAIN proof' /\ proof'.at = "turn"
  BY DEF LaunchProof, ResumeProof, Process
<1>2. StageIsHeld'
  BY <1>1 DEF StageIsHeld, At, InStage
<1>3. ASSUME NEW real \in BOOLEAN, LaunchProof(r, real, env, traits)
      PROVE  ReportsPrecedeOutcomes'
  <2>1. Reported(NewRun("feature-development"), stored)
    BY DEF Reported, NewRun
  <2> QED
    BY <1>3, <2>1, PutKeepsReports DEF LaunchProof, ReportInv
<1>4. CASE ResumeProof(r, env, traits)
  <2>1. runs' = runs /\ stored \subseteq stored'
    BY <1>4 DEF ResumeProof, vars, durable
  <2> QED
    BY <1>2, <2>1, SameRunsKeepReports DEF ReportInv
<1> QED
  BY <1>2, <1>3, <1>4

-------------------------------------------------------------------------------
\* What the founder decides about a run is the founder's to sign.
LEMMA ResumingKeepsReports ==
  ASSUME ReportInv, stored' = stored, NEW r \in Run, ResumeAfterApproval(r)
  PROVE  ReportsPrecedeOutcomes'
<1>1. PICK state, run, next :
        run = runs[r] /\ next = AfterDecision(run, state) /\ runs' = Upsert(runs, r, next)
  BY DEF ResumeAfterApproval
<1>2. r \in DOMAIN runs
  BY DEF ResumeAfterApproval
<1>3. OnItsGraph(run) /\ Reported(run, stored)
  BY <1>1, <1>2, RunType, RunsAreReported DEF ReportInv, CourseInv, EngineInv, Inv
<1>4. Reported(next, stored)
  <2>1. CASE state = "PENDING"
    <3>1. next = run
      BY <1>1, <1>3, <2>1, AfterDecisionType
    <3> QED
      BY <1>3, <3>1
  <2>2. CASE state # "PENDING"
    <3>1. PICK result : result = IF state = "APPROVED" THEN "PASS" ELSE "FAIL"
      OBVIOUS
    <3>2. PICK record : record = Record(run, HUMAN_FOUNDER, result)
      OBVIOUS
    <3>3. next.workflow_id = run.workflow_id /\ next.history = Append(run.history, record)
      BY <1>1, <1>3, <2>2, <3>1, <3>2, AfterDecisionType
    <3>4. record.owner \notin Agents
      BY <3>2 DEF Record, Agents
    <3> QED
      BY <1>3, <3>3, <3>4, OneMoreReport DEF OnItsGraph
  <2> QED
    BY <2>1, <2>2
<1> QED
  BY <1>1, <1>4, PutKeepsReports DEF ReportInv

\* What the drive submits comes behind the founder's grant.
LEMMA DrivingKeepsReports ==
  ASSUME ReportInv, stored' = stored, NEW result \in {"PASS", "FAIL"}, DriveOutcome(result)
  PROVE  ReportsPrecedeOutcomes'
<1>1. PICK r, run, by, next :
        /\ r \in DOMAIN runs /\ run \in WorkflowRun /\ by \in Identity
        /\ r = drive.run /\ run = runs[r] /\ runs' = Upsert(runs, r, next)
        /\ OnItsWay(run) /\ Granted(run) /\ IsOutcome(run, by, result, next)
  BY DriveSubmits DEF ReportInv
<1>2. Reported(run, stored)
  BY <1>1, RunsAreReported DEF ReportInv
<1> QED
  BY <1>1, <1>2, OutcomeIsReported, PutKeepsReports DEF ReportInv

\* What is left to the proof stays held.
LEMMA LeftIsHeld ==
  ASSUME StageIsHeld, proof' = proof, stored' = stored,
         Alive => proof.run \in DOMAIN runs /\ LeftToTheProof(proof.run)
  PROVE  StageIsHeld'
<1>1. ASSUME Alive
      PROVE  /\ Granted(MyRun) => Granted(MyRun')
             /\ MyRun.status = "RUNNING" /\ ~Granted(MyRun) => MyRun' = MyRun
  BY <1>1 DEF LeftToTheProof, MyRun
<1>2. Granted(MyRun)' <=> Granted(MyRun')
  BY DEF Granted, IsGrant
<1>3. ASSUME NEW place \in InStage, At(place)'
      PROVE  (MyRun.status = "RUNNING" /\ ~Granted(MyRun))'
  <2>1. At(place) /\ Alive
    BY <1>3 DEF At, Alive, InStage
  <2>2. MyRun.status = "RUNNING" /\ ~Granted(MyRun)
    BY <2>1, HeldOnlyInStage
  <2>3. MyRun' = MyRun
    BY <1>1, <2>1, <2>2
  <2> QED
    BY <1>2, <2>2, <2>3
<1>4. ASSUME At("submit")'
      PROVE  (Granted(MyRun) \/ (MyRun.status = "RUNNING" /\ Stage \in stored))'
  <2>1. At("submit") /\ Alive
    BY <1>4 DEF At, Alive
  <2>2. CASE Granted(MyRun)
    BY <1>1, <1>2, <2>1, <2>2
  <2>3. CASE ~Granted(MyRun)
    <3>1. MyRun.status = "RUNNING" /\ Stage \in stored
      BY <2>1, <2>3 DEF StageIsHeld
    <3>2. MyRun' = MyRun
      BY <1>1, <2>1, <2>3, <3>1
    <3> QED
      BY <3>1, <3>2 DEF Stage
  <2> QED
    BY <2>2, <2>3
<1> QED
  BY <1>3, <1>4 DEF StageIsHeld

LEMMA OthersKeepReports ==
  ASSUME ReportInv, Others
  PROVE  StageIsHeld' /\ ReportsPrecedeOutcomes'
<1>1. proof' = proof /\ stored' = stored /\ StageIsHeld
  BY DEF Others, ReportInv
<1>2. Alive => proof.run \in DOMAIN runs /\ LeftToTheProof(proof.run)
  BY OthersMove DEF ReportInv, CourseInv, EngineInv, ProcessHasItsRun
<1>3. StageIsHeld'
  BY <1>1, <1>2, LeftIsHeld
<1>4. ASSUME FounderStep PROVE ReportsPrecedeOutcomes'
  BY <1>1, <1>4, FounderActs, SameRunsKeepReports DEF FounderStep, ReportInv
<1>5. ASSUME DriveStep PROVE ReportsPrecedeOutcomes'
  <2>1. ASSUME NEW r \in Run, ResumeRun(r)
        PROVE  ReportsPrecedeOutcomes'
    BY <1>1, <2>1, ResumingKeepsReports DEF ResumeRun
  <2>2. ASSUME NEW result \in {"PASS", "FAIL"}, DriveOutcome(result)
        PROVE  ReportsPrecedeOutcomes'
    BY <1>1, <2>2, DrivingKeepsReports
  <2>3. CASE EnterDrive \/ DriveTurn \/ DriveMark \/ DriveDies
    <3>1. runs' = runs
      BY <2>3 DEF EnterDrive, DriveTurn, DriveMark, DriveDies, vars
    <3> QED
      BY <1>1, <3>1, SameRunsKeepReports DEF ReportInv
  <2> QED
    BY <1>5, <2>1, <2>2, <2>3 DEF DriveStep
<1> QED
  BY <1>3, <1>4, <1>5 DEF Others

LEMMA ReportInvKept == ReportInv /\ [FactoryNext]_factoryVars => ReportInv'
<1> SUFFICES ASSUME ReportInv, [FactoryNext]_factoryVars PROVE ReportInv'
  OBVIOUS
<1>1. CourseInv'
  BY CourseInvKept DEF ReportInv
<1>2. SUFFICES StageIsHeld' /\ ReportsPrecedeOutcomes'
  BY <1>1 DEF ReportInv
<1>3. CASE UNCHANGED factoryVars
  <2>1. proof' = proof /\ runs' = runs /\ stored' = stored
    BY <1>3 DEF factoryVars, vars, durable
  <2>2. StageIsHeld'
    BY <2>1 DEF ReportInv, StageIsHeld, At, MyRun, Stage, Granted, IsGrant
  <2> QED
    BY <2>1, <2>2, SameRunsKeepReports DEF ReportInv
<1>4. CASE Dies
  <2>1. proof'.at = "nowhere" /\ runs' = runs /\ stored' = stored
    BY <1>4 DEF Dies, Nobody, vars, durable
  <2>2. StageIsHeld'
    BY <2>1 DEF StageIsHeld, At, InStage
  <2> QED
    BY <2>1, <2>2, SameRunsKeepReports DEF ReportInv
<1>5. CASE ProofStep
  <2>1. ASSUME NEW a \in Approval, AskFounder(a)
        PROVE  StageIsHeld' /\ ReportsPrecedeOutcomes'
    BY <2>1, AskingKeepsReports
  <2> QED
    BY <1>4, <1>5, <2>1, SubmittingKeepsReports, WorkKeepsReports
       DEF ProofStep, SubmitRefused, Works
<1> QED
  BY <1>3, <1>4, <1>5, StartingKeepsReports, OthersKeepReports DEF FactoryNext, Crash

LEMMA CourseInvInitially == FactoryInit => CourseInv
  BY FactoryBegins, EmptyIsTable
     DEF FactoryInit, Init, CourseInv, CourseKept, DriveKept, NoDrive, EmptyTable

\* Up to the founder's grant, wherever a proof is killed, a report is in the store for
\* every outcome an agent has in a history: the proof that resumes reads the one for
\* the other. Only behind a grant in the same history is there an outcome without a
\* report, of the drive.
THEOREM ReportsComeFirst == FactorySpec => []ReportsPrecedeOutcomes
<1>1. FactoryInit => ReportInv
  BY CourseInvInitially, EmptyIsTable
     DEF FactoryInit, Init, ReportInv, StageIsHeld, At, ReportsPrecedeOutcomes, EmptyTable,
         Nobody, InStage
<1>2. ReportInv => ReportsPrecedeOutcomes
  BY DEF ReportInv
<1> QED
  BY <1>1, <1>2, ReportInvKept, PTL DEF FactorySpec

-------------------------------------------------------------------------------
(***************************************************************************)
(* The inductive invariant behind the promises of a proof.  To the course  *)
(* of the runs and the reports, its parts add what the process knows at    *)
(* each place of its program, what is in the workspace then, and what the  *)
(* verdict has been given on.                                              *)
(***************************************************************************)
Quiet == {"turn", "tell", "submit", "verdict", "ended"}  \* no model is asked there
CodexPlaces == {"probe", "codex", "judge"}

\* What a process knows of the stage it is in.
LocalsKept ==
  /\ used \in Nat /\ spent \in Nat /\ calls \in Nat /\ wrote \in BOOLEAN
  /\ proof.at # "stage" => ~wrote /\ spent = 0
  /\ proof.at \in {"nowhere", "stage", "store"} \cup Quiet \cup CodexPlaces
  /\ proof.repaired \in BOOLEAN /\ proof.tries \in 0 .. 2
  /\ proof.at \in Quiet => proof.call = "none" /\ ~proof.repaired /\ proof.tries = 0
  /\ proof.at \in CodexPlaces => proof.premium # None /\ Stage = "implementation"
  /\ proof.at = "codex" => proof.tries < 2
  /\ proof.at = "judge" => proof.tries > 0
  /\ proof.at = "probe" => proof.tries = 0
  /\ proof.at = "stage" =>
       /\ Stage \in REAL_STAGES
       /\ proof.call \in {"none", "out", "replied", "applied"}
       /\ IF proof.call = "none" THEN ~wrote /\ ~proof.repaired ELSE spent > 0
       /\ proof.call = "applied" => wrote

\* How much of what the founder authorized the process may still use.
Entitled == proof.premium # None /\ "implementation" \notin PassedSteps(MyRun)

Allowance ==
  IF ~Entitled \/ proof.at \in {"nowhere", "tell", "verdict", "ended"} THEN 0
  ELSE IF proof.at = "turn" \/ Stage # "implementation" THEN 2
  ELSE IF proof.at = "stage"
       THEN IF proof.call = "none" THEN 2 ELSE IF proof.repaired THEN 0 ELSE 1
  ELSE IF proof.at \in CodexPlaces THEN 2 - proof.tries ELSE 0

PremiumKept ==
  /\ IsFiniteSet(DOMAIN runs) /\ paid \in Nat
  /\ paid + Allowance <= 2 * Cardinality(DOMAIN runs)

Required == Tree!SourceContainsRequired(PLANS["implementation"])
Harmless == git = "works" => \A p \in Path : "secret" \notin Tree!TraitsOf(files[p])

\* What the workspace holds, by what has been passed in it.
TreeKept ==
  /\ DOMAIN runs = {} => files = Seed
  /\ git # "unavailable" => root = Seed \/ (root = None /\ files = Seed)
  /\ Done("implementation") => Required
  /\ Done("security") => Harmless

\* What it holds for the process in it: what a stage is about to hand on has what its
\* plan asks for; and the stages before the implementation have the fixture.
HandsOn ==
  /\ proof.at \in {"stage"} \cup CodexPlaces /\ git # "unavailable" => root = Seed
  /\ proof.at = "stage" /\ Stage # "implementation" => proof.checkpoint \in {None, files}
  /\ (proof.at = "store" /\ proof.outcome = "PASS") \/ proof.at = "submit" =>
       /\ Stage = "implementation" => Required
       /\ Stage = "security" => Harmless

BeginsClean ==
  git # "unavailable" /\ ~Done("implementation") =>
    /\ proof.at \in {"turn", "probe"} => files = Seed
    /\ proof.at \in {"stage", "store", "submit"} /\ Stage # "implementation" => files = Seed
    /\ proof.at = "stage" /\ Stage = "implementation" =>
         proof.checkpoint = Seed /\ (~wrote => files = Seed)

\* The reports the process holds name the owners of the stages.
Signed(report) ==
  report.stage \in {"implementation", "code_review"} =>
    report.agent = Feature.steps[report.stage].owner

AllSigned(reports) ==
  /\ reports \in Seq({reports[i] : i \in DOMAIN reports})
  /\ \A i \in DOMAIN reports : Signed(reports[i])

StagesAreSigned == AllSigned(proof.stages)

\* A turn is taken by a RUNNING run, or by one the drive has too; a verdict on a
\* parked one is given with the task told, which stays told while it is parked; and a
\* verdict that is good was earned.
VerdictKept ==
  /\ proof.at = "turn" => MyRun.status = "RUNNING" \/ Granted(MyRun)
  /\ proof.at \in {"verdict", "ended"} /\ MyRun.status = "APPROVAL_REQUIRED" =>
       task = "APPROVAL_REQUIRED"
  /\ proof.at = "ended" /\ proof.ok =>
       /\ REAL_STAGES \cap Steps \subseteq PassedSteps(MyRun)
       /\ Feature.steps["implementation"].owner # Feature.steps["code_review"].owner
       /\ \E a \in DOMAIN approvals : approvals[a].run_id = proof.run
       /\ proof.real => used \in 1 .. Ceiling

TreeInv == TreeKept /\ HandsOn /\ BeginsClean
ProcessInv == LocalsKept /\ PremiumKept /\ TreeInv /\ StagesAreSigned /\ VerdictKept
ProofInv == ReportInv /\ ProcessInv

-------------------------------------------------------------------------------
(***************************************************************************)
(* The provider chain is a function of the environment.                    *)
(***************************************************************************)
\* An endpoint has the settings of the vendor that its id names.
LEMMA SettingsFit == EveryChain!SettingsFitTheEndpoint
<1> DEFINE Defaults(k) == EveryChain!DefaultsForKind(k)
           kind(env) == EveryChain!Given(env.kind, "groq")
           host(env) == EveryChain!Given(env.host, Defaults(kind(env)).host)
<1> SUFFICES ASSUME NEW env \in EveryEnv, EveryChain!BuildRealProvider(env) # None
             PROVE  LET d == EveryChain!BuildRealProvider(env)
                    IN  /\ d.host \in EveryChain!RealProviderId => d.id = d.host
                        /\ d.thinks = (d.id = "nvidia")
                        /\ d.schema = (d.id = "groq")
                        /\ d.rateLimit = Defaults(d.id).rateLimit
  BY DEF EveryChain!SettingsFitTheEndpoint
<1>1. PICK k : k = EveryChain!Given(env.kind, "groq")
  OBVIOUS
<1>2. PICK defaults : defaults = Defaults(k)
  OBVIOUS
<1>3. defaults # None
  BY <1>1, <1>2 DEF EveryChain!BuildRealProvider
<1>4. EveryChain!BuildRealProvider(env)
        = EveryChain!MakeRealProviderDescriptor(defaults, env.host, env.keyEnv)
  BY <1>1, <1>2 DEF EveryChain!BuildRealProvider
<1>5. PICK h : h = EveryChain!Given(env.host, defaults.host)
  OBVIOUS
<1> DEFINE Fits(d) == /\ d.thinks = (d.id = "nvidia")
                      /\ d.schema = (d.id = "groq")
                      /\ d.rateLimit = Defaults(d.id).rateLimit
                      /\ d.host \in {"groq", "nvidia", "openrouter"}
                      /\ DOMAIN d = {"id", "host", "apiKeyEnv", "schema", "thinks", "rateLimit"}
<1>6. /\ Fits(Defaults("groq")) /\ Defaults("groq").id = "groq"
      /\ Fits(Defaults("nvidia")) /\ Defaults("nvidia").id = "nvidia"
      /\ Fits(Defaults("openrouter")) /\ Defaults("openrouter").id = "openrouter"
      /\ Fits(Defaults("openai-compatible")) /\ Defaults("openai-compatible").id = "openai-compatible"
  BY DEF EveryChain!DefaultsForKind, EveryChain!Vendor, EveryChain!Kinds
<1>7. defaults \in {Defaults("groq"), Defaults("nvidia"), Defaults("openrouter"),
                    Defaults("openai-compatible")}
  BY <1>2, <1>3 DEF EveryChain!DefaultsForKind, EveryChain!Kinds
<1> HIDE DEF Defaults
<1>8. PICK id : id = EveryChain!IdFromBaseUrl(h, defaults.id)
  OBVIOUS
<1>9. h # "openai-compatible"
  BY <1>5, <1>6, <1>7, EnvAssumption DEF EveryChain!Given
<1>10. /\ id \in {"groq", "nvidia", "openrouter", "openai-compatible"}
       /\ h \in EveryChain!RealProviderId => id = h
  BY <1>6, <1>7, <1>8, <1>9 DEF EveryChain!IdFromBaseUrl, EveryChain!RealProviderId
<1>11. PICK effective : effective = IF id = defaults.id THEN defaults ELSE Defaults(id)
  OBVIOUS
<1>12. Fits(effective) /\ effective.id = id
  BY <1>6, <1>7, <1>10, <1>11
<1>13. EveryChain!BuildRealProvider(env)
         = [effective EXCEPT !.id = id, !.host = h,
                             !.apiKeyEnv = EveryChain!Given(env.keyEnv, defaults.apiKeyEnv)]
  BY <1>4, <1>5, <1>8, <1>11 DEF EveryChain!MakeRealProviderDescriptor, Defaults
<1> QED
  BY <1>10, <1>12, <1>13

\* There is one fallback at most, NVIDIA with its own key, for a provider that is
\* another.
LEMMA FallbackDiffers == EveryChain!FallbackIsAnother
<1> DEFINE nvidia == EveryChain!DefaultsForKind("nvidia")
           d == EveryChain!MakeRealProviderDescriptor(nvidia, None, None)
<1>1. nvidia = EveryChain!Vendor("nvidia", "nvidia", EveryChain!NVIDIA_API_KEY, FALSE, TRUE,
                 [maxRetryCycles |-> 3, minInterval |-> 12, requestsPerWindow |-> 40,
                  tokensPerWindow |-> 60])
  BY DEF EveryChain!DefaultsForKind, EveryChain!Kinds
<1> HIDE DEF nvidia
<1>2. d = nvidia /\ d.id = "nvidia" /\ d.apiKeyEnv = EveryChain!NVIDIA_API_KEY
  <2>1. /\ nvidia.id = "nvidia" /\ nvidia.host = "nvidia"
        /\ nvidia.apiKeyEnv = EveryChain!NVIDIA_API_KEY
    BY <1>1 DEF EveryChain!Vendor
  <2>2. d = [nvidia EXCEPT !.id = nvidia.id, !.host = nvidia.host, !.apiKeyEnv = nvidia.apiKeyEnv]
    <3>1. PICK n : n = nvidia /\ n.id = "nvidia" /\ n.host = "nvidia"
      BY <2>1
    <3>2. EveryChain!MakeRealProviderDescriptor(n, None, None)
            = [n EXCEPT !.id = n.id, !.host = n.host, !.apiKeyEnv = n.apiKeyEnv]
      <4>1. EveryChain!IdFromBaseUrl(n.host, n.id) = n.id
        BY <3>1 DEF EveryChain!IdFromBaseUrl
      <4>2. \A x : EveryChain!Given(None, x) = x
        BY DEF EveryChain!Given
      <4>3. /\ EveryChain!Given(None, n.host) = n.host
            /\ EveryChain!Given(None, n.apiKeyEnv) = n.apiKeyEnv
        BY <4>2
      <4> QED
        BY <4>1, <4>3, Zenon DEF EveryChain!MakeRealProviderDescriptor
    <3> QED
      BY <3>1, <3>2
  <2> HIDE DEF d
  <2>3. d = nvidia
    <3>1. PICK key, pace :
            nvidia = [id |-> "nvidia", host |-> "nvidia", apiKeyEnv |-> key, schema |-> FALSE,
                      thinks |-> TRUE, rateLimit |-> pace]
      BY <1>1 DEF EveryChain!Vendor
    <3>2. \A x, y : y = [x EXCEPT !.id = x.id, !.host = x.host, !.apiKeyEnv = x.apiKeyEnv]
                     /\ x = [id |-> "nvidia", host |-> "nvidia", apiKeyEnv |-> key,
                             schema |-> FALSE, thinks |-> TRUE, rateLimit |-> pace]
                     => y = x
      OBVIOUS
    <3> QED
      BY <2>2, <3>1, <3>2
  <2> QED
    BY <2>1, <2>3
<1>3. ASSUME NEW env \in EveryEnv, NEW i \in DOMAIN EveryChain!Fallbacks(env)
      PROVE  /\ i = 1 /\ EveryChain!Fallbacks(env)[i] = d
             /\ EveryChain!Active(EveryChain!BuildRealProvider(env)) # "nvidia"
             /\ EveryChain!NVIDIA_API_KEY \in env.keys
  <2> HIDE DEF d, nvidia
  <2>1. EveryChain!Fallbacks(env) # <<>>
    BY <1>3
  <2>2. EveryChain!Fallbacks(env) = <<d>>
    BY <2>1 DEF EveryChain!Fallbacks, d, nvidia
  <2> QED
    BY <1>3, <2>1, <2>2 DEF EveryChain!Fallbacks
<1> HIDE DEF d, nvidia
<1>4. d # None
  BY <1>2, EnvAssumption DEF nvidia
<1> QED
  BY <1>2, <1>3, <1>4 DEF EveryChain!FallbackIsAnother, EveryChain!IsReady

\* Whatever the environment says, a proof that goes on elsewhere goes on with another
\* provider and that one's own key, and an endpoint gets its own vendor's settings.
THEOREM ChainStaysUsable == FactorySpec => []ChainIsUsable
<1>1. ChainIsUsable
  BY SettingsFit, FallbackDiffers DEF ChainIsUsable
<1> QED
  BY <1>1, PTL

-------------------------------------------------------------------------------

-------------------------------------------------------------------------------
(***************************************************************************)
(* What the process knows, over the steps of a stage.                      *)
(***************************************************************************)
LEMMA WorkKeepsLocals ==
  ASSUME ProcessHasItsRun, LocalsKept, Works
  PROVE  LocalsKept'
<1>1. Stage' = Stage /\ DOMAIN proof = Fields
  BY WorkingProcess DEF ProcessHasItsRun
<1> USE DEF LocalsKept, At, Fields, Quiet, CodexPlaces, contractVars, durable, counts
<1>2. CASE LoopEnds
  BY <1>1, <1>2 DEF LoopEnds
<1>3. CASE TellTask
  BY <1>1, <1>3 DEF TellTask
<1>4. CASE FindNoAgent
  BY <1>1, <1>4 DEF FindNoAgent, Turn
<1>5. CASE AuxiliaryStage
  BY <1>1, <1>5 DEF AuxiliaryStage, HasAgent, Turn
<1>6. CASE BeginStage
  <2>1. proof.at = "turn" /\ Stage \in REAL_STAGES
    BY <1>6 DEF BeginStage, HasAgent, Turn
  <2>2. proof' = [proof EXCEPT !.at = IF UsesCodex THEN "probe" ELSE "stage",
                               !.lap = @ + 1, !.checkpoint = Tree!Snapshot]
    BY <1>6 DEF BeginStage
  <2>3. UNCHANGED <<used, spent, wrote, calls>>
    BY <1>6 DEF BeginStage, StartStage
  <2>4. UsesCodex => proof.premium # None /\ Stage = "implementation"
    BY DEF UsesCodex, IsPremium
  <2> QED
    BY <1>1, <2>1, <2>2, <2>3, <2>4
<1>7. CASE ReserveCall
  BY <1>1, <1>7 DEF ReserveCall, MayAsk, ReserveRequest
<1>8. CASE Reply
  BY <1>1, <1>8 DEF Reply
<1>9. CASE ApplyReply
  BY <1>1, <1>9 DEF ApplyReply, TouchWorkspace
<1>10. CASE StoreStage
  BY <1>1, <1>10 DEF StoreStage, FreshLocals
<1>11. CASE ReachVerdict
  BY <1>1, <1>11 DEF ReachVerdict
<1>12. ASSUME NEW o \in StageOutcome, StageReturns(o)
       PROVE  LocalsKept'
  <2>1. proof.at = "stage" /\ UNCHANGED <<used, calls>> /\ spent' = 0 /\ wrote' = FALSE
    BY <1>12 DEF StageReturns, EndStage
  <2>2. CASE proof' = [proof EXCEPT !.at = "store", !.outcome = o]
    BY <1>1, <2>1, <2>2
  <2> HIDE DEF LocalsKept
  <2>3. CASE FallBack(Head(proof.fallbacks)) \/ StopBlocked
    <3>1. PICK at \in {"turn", "verdict"} : proof'.at = at
      BY <1>1, <2>3 DEF FallBack, StopBlocked, FreshLocals
    <3>2. proof'.call = "none" /\ proof'.repaired = FALSE /\ proof'.tries = 0
      BY <1>1, <2>3 DEF FallBack, StopBlocked, FreshLocals
    <3>3. used' \in Nat /\ spent' \in Nat /\ calls' \in Nat /\ wrote' \in BOOLEAN
      BY <2>1 DEF LocalsKept
    <3>4. proof'.at \in Quiet /\ proof'.repaired \in BOOLEAN /\ ~proof'.repaired /\ ~wrote'
      BY <2>1, <3>1, <3>2
    <3> QED
      BY <2>1, <3>2, <3>3, <3>4 DEF LocalsKept
  <2> QED
    BY <1>12, <2>2, <2>3 DEF StageReturns
<1>13. ASSUME NEW ready \in BOOLEAN, ProbeCodex(ready)
       PROVE  LocalsKept'
  BY <1>1, <1>13 DEF ProbeCodex
<1>14. ASSUME NEW status \in CodexStatus, RunCodex(status)
       PROVE  LocalsKept'
  BY <1>1, <1>14 DEF RunCodex
<1>15. ASSUME NEW tests \in Tests, JudgeCodex(tests)
       PROVE  LocalsKept'
  <2>1. proof.at = "judge" /\ UNCHANGED <<used, spent, wrote, calls>>
    BY <1>15 DEF JudgeCodex
  <2>2. /\ proof'.at = "store" \/ (proof'.at = "codex" /\ proof.tries # 2)
        /\ \A f \in Fields \ {"at", "outcome"} : proof'[f] = proof[f]
    <3> HIDE DEF LocalsKept
    <3> QED
      BY <1>1, <1>15 DEF JudgeCodex
  <2> QED
    BY <1>1, <2>1, <2>2
<1> QED
  BY <1>2, <1>3, <1>4, <1>5, <1>6, <1>7, <1>8, <1>9, <1>10, <1>11, <1>12, <1>13, <1>14, <1>15
     DEF Works

-------------------------------------------------------------------------------
(***************************************************************************)
(* The workspace, over the steps of a stage.                               *)
(***************************************************************************)
\* Nothing comes back to the implementation: a run that has passed it, or the scan
\* after it, is beyond it as long as it moves.
LEMMA NeverImplementedTwice ==
  ASSUME EngineInv, CourseKept, Alive, MyRun.status = "RUNNING",
         NEW t \in {"implementation", "security"}, Done(t)
  PROVE  Stage # "implementation"
<1>1. proof.run \in DOMAIN runs /\ DOMAIN runs \subseteq Run
  BY DEF EngineInv, ProcessHasItsRun, Inv, TypeOK, IsTable
<1>2. t \in PassedSteps(MyRun)
  BY <1>1, OneRunAssumption DEF Done, MyRun
<1>0. SUFFICES ASSUME Stage = "implementation" PROVE FALSE
  OBVIOUS
<1>3. OnCourse(MyRun)
  <2>1. OnItsWay(MyRun) /\ MyRun.current_step \in REAL_STAGES
    BY <1>0, <1>1, CourseFacts DEF CourseKept, MyRun, Stage
  <2> QED
    BY <2>1, RealStageIsBefore DEF OnItsWay
<1>4. t \in Steps
  BY CourseFacts
<1>5. PICK after \in SUBSET Steps : LiesAfter(Feature, t, after) /\ "implementation" \notin after
  BY CourseAssumption DEF Steps, NoWayBack
<1>6. MyRun.current_step \in after
  BY <1>2, <1>3, <1>4, <1>5 DEF OnCourse
<1> QED
  BY <1>0, <1>5, <1>6 DEF Stage

\* The implementation is the stage that may write.
LEMMA OthersReadOnly ==
  ASSUME NEW s \in REAL_STAGES, s # "implementation"
  PROVE  PLANS[s].allowedRuntimeTools \cap {"workspace.write", "workspace.patch"} = {}
  BY DEF REAL_STAGES, PLANS, analysisPlan

\* A scan that passes has seen every file that differs from the fixture.
LEMMA ScanFindsNothing ==
  ASSUME git # "unavailable" => root = Seed, Tree!SecurityChecksPass(root)
  PROVE  Harmless
<1>1. SUFFICES ASSUME git = "works", NEW p \in Path
               PROVE  "secret" \notin Tree!TraitsOf(files[p])
  BY DEF Harmless
<1>2. root = Seed
  BY <1>1
<1>3. CASE files[p] = Seed[p]
  BY <1>3, FixtureAssumption
<1>4. CASE files[p] # Seed[p]
  <2>1. p \in Tree!Diff(root)
    BY <1>1, <1>2, <1>4 DEF Tree!Diff, Tree!ChangedSince
  <2> QED
    BY <2>1 DEF Tree!SecurityChecksPass
<1> QED
  BY <1>3, <1>4

\* What a stage that passes has shown.
LEMMA EvidenceHandsOn ==
  ASSUME Stage \in REAL_STAGES, Evidenced(Plan), git # "unavailable" => root = Seed
  PROVE  /\ Stage = "implementation" => Required
         /\ Stage = "security" => Harmless
<1>1. ASSUME Stage = "implementation" PROVE Required
  BY <1>1 DEF Evidenced, Plan, PLANS, ImplementationPlan, Required, Tree!SourceContainsRequired
<1>2. ASSUME Stage = "security" PROVE Harmless
  <2>1. Plan.runSecurityScan
    BY <1>2 DEF Plan, PLANS, analysisPlan
  <2> QED
    BY <2>1, ScanFindsNothing DEF Evidenced
<1> QED
  BY <1>1, <1>2

\* The gates of a harness do not excuse the feature from being there.
LEMMA HarnessAsksForTheFeature ==
  ASSUME NEW succeeded, NEW changed, NEW tests, NEW base,
         Tree!HarnessOutcome(PLANS["implementation"], succeeded, changed, tests, base) = "PASS"
  PROVE  Required
  BY DEF Tree!HarnessOutcome, Tree!DecideImplementationOutcome, Required

\* A step that changes nothing in the workspace has as much to hand on.
LEMMA SameTree ==
  ASSUME files' = files, git' = git
  PROVE  Required' = Required /\ Harmless' = Harmless
  BY DEF Required, Harmless, Tree!SourceContainsRequired, Tree!TraitsOf

\* Where no stage is under way, or the process only waits, the workspace stays.
LEMMA WaitingKeepsTree ==
  ASSUME ProcessHasItsRun, LocalsKept, TreeInv,
         LoopEnds \/ TellTask \/ FindNoAgent \/ AuxiliaryStage \/ ReserveCall \/ Reply \/ ReachVerdict
  PROVE  TreeInv'
<1>1. /\ Stage' = Stage /\ \A s : Done(s)' = Done(s)
      /\ DOMAIN proof = Fields /\ runs' = runs
  BY WorkingProcess DEF ProcessHasItsRun, Works
<1>2. files' = files /\ root' = root /\ git' = git
  BY DEF LoopEnds, TellTask, FindNoAgent, AuxiliaryStage, ReserveCall, Reply, ReachVerdict, treeVars
<1>3. Required' = Required /\ Harmless' = Harmless
  BY <1>2, SameTree
<1>4. TreeKept'
  BY <1>1, <1>2, <1>3 DEF TreeInv, TreeKept
<1>5. CASE LoopEnds \/ TellTask \/ FindNoAgent \/ ReachVerdict
  <2>1. proof'.at \in {"verdict", "ended"}
    BY <1>1, <1>5 DEF LoopEnds, TellTask, FindNoAgent, ReachVerdict, Fields
  <2> QED
    BY <1>4, <2>1 DEF TreeInv, HandsOn, BeginsClean, CodexPlaces
<1>6. CASE AuxiliaryStage
  <2>1. proof.at = "turn" /\ proof'.at = "submit" /\ Stage \notin REAL_STAGES
    BY <1>1, <1>6 DEF AuxiliaryStage, HasAgent, Turn, At, Fields
  <2>2. Stage # "implementation" /\ Stage # "security"
    BY <2>1, CourseFacts
  <2> QED
    BY <1>1, <1>2, <1>4, <2>1, <2>2 DEF TreeInv, HandsOn, BeginsClean, CodexPlaces
<1>7. CASE ReserveCall \/ Reply
  <2>1. /\ proof.at = "stage" /\ proof'.at = "stage" /\ proof'.checkpoint = proof.checkpoint
        /\ wrote' = wrote
    BY <1>1, <1>7 DEF ReserveCall, Reply, ReserveRequest, contractVars, At, Fields
  <2> QED
    BY <1>1, <1>2, <1>4, <2>1 DEF TreeInv, HandsOn, BeginsClean
<1> QED
  BY <1>5, <1>6, <1>7

LEMMA BeginningKeepsTree ==
  ASSUME ProcessHasItsRun, LocalsKept, TreeInv, BeginStage
  PROVE  TreeInv'
<1>1. /\ Stage' = Stage /\ \A s : Done(s)' = Done(s)
      /\ DOMAIN proof = Fields /\ runs' = runs
  BY WorkingProcess DEF ProcessHasItsRun, Works
<1>2. files' = files /\ git' = git /\ wrote' = wrote
  BY DEF BeginStage, StartStage, contractVars
<1>3. Required' = Required /\ Harmless' = Harmless
  BY <1>2, SameTree
<1>4. git # "unavailable" => root' = Seed
  BY FixtureAssumption DEF BeginStage, Tree!EnsureGit, TreeInv, TreeKept
<1>5. /\ proof.at = "turn" /\ proof'.at \in {"probe", "stage"}
      /\ proof'.checkpoint = IF git = "unavailable" THEN None ELSE files
  BY <1>1 DEF BeginStage, HasAgent, Turn, At, Fields, Tree!Snapshot
<1>6. TreeKept'
  BY <1>1, <1>2, <1>3, <1>4 DEF TreeInv, TreeKept
<1>7. HandsOn'
  BY <1>2, <1>4, <1>5 DEF HandsOn
<1>8. BeginsClean'
  BY <1>1, <1>2, <1>5 DEF TreeInv, BeginsClean
<1> QED
  BY <1>6, <1>7, <1>8 DEF TreeInv

\* Only the implementation is written to, and before it is passed.
LEMMA WritingKeepsTree ==
  ASSUME EngineInv, StageIsHeld, CourseKept, LocalsKept, TreeInv,
         ApplyReply \/ \E status \in CodexStatus : RunCodex(status)
  PROVE  TreeInv'
<1>1. /\ Stage' = Stage /\ \A s : Done(s)' = Done(s)
      /\ DOMAIN proof = Fields /\ runs' = runs /\ Alive /\ proof.run \in DOMAIN runs
  BY WorkingProcess DEF EngineInv, ProcessHasItsRun, Works
<1>2. root' = root /\ git' = git
  BY DEF ApplyReply, RunCodex
<1>3. /\ proof.at \in {"stage", "codex"} /\ MyRun.status = "RUNNING"
      /\ git # "unavailable" => root = Seed
  BY DEF ApplyReply, RunCodex, At, StageIsHeld, InStage, TreeInv, HandsOn, CodexPlaces
<1>4. Stage = "implementation" => ~Done("implementation") /\ ~Done("security")
  BY <1>1, <1>3, NeverImplementedTwice
<1>5. CASE Stage # "implementation"
  <2>1. proof.at = "stage" /\ Stage \in REAL_STAGES /\ ApplyReply
    BY <1>3, <1>5 DEF LocalsKept, CodexPlaces, RunCodex, At
  <2>2. files' = files
    BY <1>5, <2>1, OthersReadOnly DEF ApplyReply, Plan
  <2>3. proof'.at = "stage" /\ proof'.checkpoint = proof.checkpoint
    BY <1>1, <2>1 DEF ApplyReply, At, Fields
  <2>4. Required' = Required /\ Harmless' = Harmless
    BY <1>2, <2>2, SameTree
  <2> QED
    BY <1>1, <1>2, <1>3, <1>5, <2>1, <2>2, <2>3, <2>4 DEF TreeInv, TreeKept, HandsOn, BeginsClean
<1>6. CASE Stage = "implementation"
  <2>1. TreeKept'
    BY <1>1, <1>2, <1>3, <1>4, <1>6 DEF TreeInv, TreeKept
  <2>2. CASE ApplyReply
    <3>1. /\ proof'.at = "stage" /\ proof'.checkpoint = proof.checkpoint /\ wrote' = TRUE
          /\ proof.at = "stage"
      BY <1>1, <2>2 DEF ApplyReply, TouchWorkspace, At, Fields
    <3> QED
      BY <1>1, <1>2, <1>3, <1>6, <2>1, <3>1 DEF TreeInv, HandsOn, BeginsClean
  <2>3. ASSUME NEW status \in CodexStatus, RunCodex(status)
        PROVE  TreeInv'
    <3>1. proof'.at = "judge" \/ (proof'.at = "store" /\ proof'.outcome = "BLOCKED")
      BY <1>1, <2>3 DEF RunCodex, Fields
    <3> QED
      BY <1>1, <1>2, <1>3, <1>6, <2>1, <3>1 DEF TreeInv, HandsOn, BeginsClean
  <2> QED
    BY <2>2, <2>3
<1> QED
  BY <1>5, <1>6

\* A stage that returns hands on what it has shown; one that is done again has its
\* checkpoint back, which for all but the implementation is the tree as it is.
LEMMA ReturningKeepsTree ==
  ASSUME EngineInv, StageIsHeld, CourseKept, LocalsKept, TreeInv,
         NEW o \in StageOutcome, StageReturns(o)
  PROVE  TreeInv'
<1>1. /\ Stage' = Stage /\ \A s : Done(s)' = Done(s)
      /\ DOMAIN proof = Fields /\ runs' = runs /\ Alive /\ proof.run \in DOMAIN runs
  BY WorkingProcess DEF EngineInv, ProcessHasItsRun, Works
<1>2. root' = root /\ git' = git
  BY DEF StageReturns
<1>3. /\ proof.at = "stage" /\ MyRun.status = "RUNNING" /\ Stage \in REAL_STAGES
      /\ git # "unavailable" => root = Seed
  BY DEF StageReturns, At, StageIsHeld, InStage, TreeInv, HandsOn, LocalsKept
<1>4. Stage = "implementation" => ~Done("implementation") /\ ~Done("security")
  BY <1>1, <1>3, NeverImplementedTwice
<1>5. CASE o \in {"PASS", "FAIL", "BLOCKED"}
  <2>1. /\ proof'.at = "store" /\ proof'.outcome = o /\ files' = files
    BY <1>1, <1>5 DEF StageReturns, Fields
  <2>2. Required' = Required /\ Harmless' = Harmless
    BY <1>2, <2>1, SameTree
  <2>3. o = "PASS" => Evidenced(Plan)
    BY DEF StageReturns, MayEnd
  <2> QED
    BY <1>1, <1>2, <1>3, <2>1, <2>2, <2>3, EvidenceHandsOn
       DEF TreeInv, TreeKept, HandsOn, BeginsClean, CodexPlaces
<1>6. CASE StopBlocked
  <2>1. proof'.at = "verdict" /\ files' = files
    BY <1>1, <1>6 DEF StopBlocked, FreshLocals, Fields
  <2>2. Required' = Required /\ Harmless' = Harmless
    BY <1>2, <2>1, SameTree
  <2> QED
    BY <1>1, <1>2, <2>1, <2>2 DEF TreeInv, TreeKept, HandsOn, BeginsClean, CodexPlaces
<1>7. CASE FallBack(Head(proof.fallbacks))
  <2>1. proof'.at = "turn"
    BY <1>1, <1>7 DEF FallBack, FreshLocals, Fields
  <2>2. files' = IF proof.checkpoint = None THEN files ELSE proof.checkpoint
    BY <1>7 DEF FallBack, Tree!Restored
  <2>3. CASE Stage # "implementation"
    <3>1. files' = files
      BY <1>3, <2>2, <2>3 DEF TreeInv, HandsOn
    <3>2. Required' = Required /\ Harmless' = Harmless
      BY <1>2, <3>1, SameTree
    <3> QED
      BY <1>1, <1>2, <1>3, <2>1, <2>3, <3>1, <3>2
         DEF TreeInv, TreeKept, HandsOn, BeginsClean, CodexPlaces
  <2>4. CASE Stage = "implementation"
    <3>1. git # "unavailable" => files' = Seed
      BY <1>3, <1>4, <2>2, <2>4, FixtureAssumption DEF TreeInv, BeginsClean
    <3> QED
      BY <1>1, <1>2, <1>3, <1>4, <2>1, <2>4, <3>1
         DEF TreeInv, TreeKept, HandsOn, BeginsClean, CodexPlaces
  <2> QED
    BY <2>3, <2>4
<1> QED
  BY <1>5, <1>6, <1>7 DEF StageReturns

\* What Codex did is judged, and reports are stored, on the tree as it is.
LEMMA JudgingKeepsTree ==
  ASSUME ProcessHasItsRun, LocalsKept, TreeInv,
         \/ \E ready \in BOOLEAN : ProbeCodex(ready)
         \/ \E tests \in Tests : JudgeCodex(tests)
  PROVE  TreeInv'
<1>1. /\ Stage' = Stage /\ \A s : Done(s)' = Done(s)
      /\ DOMAIN proof = Fields /\ runs' = runs
  BY WorkingProcess DEF ProcessHasItsRun, Works
<1>2. files' = files /\ root' = root /\ git' = git
  BY DEF ProbeCodex, JudgeCodex, treeVars
<1>3. Required' = Required /\ Harmless' = Harmless
  BY <1>2, SameTree
<1>4. TreeKept'
  BY <1>1, <1>2, <1>3 DEF TreeInv, TreeKept
<1>5. Stage = "implementation" /\ proof.at \in CodexPlaces
  BY DEF LocalsKept, CodexPlaces, ProbeCodex, JudgeCodex, At
<1>6. \/ proof'.at = "codex"
      \/ proof'.at = "store" /\ (proof'.outcome = "PASS" => Required)
  <2>1. ASSUME NEW ready \in BOOLEAN, ProbeCodex(ready)
        PROVE  proof'.at = "codex" \/ (proof'.at = "store" /\ proof'.outcome = "BLOCKED")
    BY <1>1, <2>1 DEF ProbeCodex, Fields
  <2>2. ASSUME NEW tests \in Tests, JudgeCodex(tests)
        PROVE  \/ proof'.at = "codex"
               \/ proof'.at = "store" /\ (proof'.outcome = "PASS" => Required)
    <3>1. PICK changed, judged :
            /\ judged = Tree!HarnessOutcome(Plan, proof.call = "replied", changed, tests, root)
            /\ proof' = IF ~(changed \subseteq InScope)
                        THEN [proof EXCEPT !.at = "store", !.outcome = "BLOCKED"]
                        ELSE IF judged = "PASS" \/ proof.tries = 2
                        THEN [proof EXCEPT !.at = "store", !.outcome = judged]
                        ELSE [proof EXCEPT !.at = "codex"]
      BY <2>2 DEF JudgeCodex
    <3>2. judged = "PASS" => Required
      BY <1>5, <3>1, HarnessAsksForTheFeature DEF Plan
    <3> QED
      BY <1>1, <3>1, <3>2 DEF Fields
  <2> QED
    BY <2>1, <2>2
<1> QED
  BY <1>1, <1>2, <1>3, <1>4, <1>5, <1>6 DEF TreeInv, HandsOn, BeginsClean, CodexPlaces

LEMMA StoringKeepsTree ==
  ASSUME ProcessHasItsRun, LocalsKept, TreeInv, StoreStage
  PROVE  TreeInv'
<1>1. /\ Stage' = Stage /\ \A s : Done(s)' = Done(s)
      /\ DOMAIN proof = Fields /\ runs' = runs
  BY WorkingProcess DEF ProcessHasItsRun, Works
<1>2. files' = files /\ root' = root /\ git' = git
  BY DEF StoreStage, treeVars
<1>3. Required' = Required /\ Harmless' = Harmless
  BY <1>2, SameTree
<1>4. /\ proof.at = "store"
      /\ proof'.at = IF proof.outcome = "PASS" THEN "submit" ELSE "verdict"
  BY <1>1 DEF StoreStage, FreshLocals, At, Fields
<1> QED
  BY <1>1, <1>2, <1>3, <1>4 DEF TreeInv, TreeKept, HandsOn, BeginsClean, CodexPlaces

LEMMA WorkKeepsTree ==
  ASSUME EngineInv, StageIsHeld, CourseKept, LocalsKept, TreeInv, Works
  PROVE  TreeInv'
  BY WaitingKeepsTree, BeginningKeepsTree, WritingKeepsTree, ReturningKeepsTree,
     JudgingKeepsTree, StoringKeepsTree DEF Works, EngineInv

-------------------------------------------------------------------------------
(***************************************************************************)
(* What the founder authorized, over the steps of a stage.                 *)
(***************************************************************************)
LEMMA AllowanceType ==
  ASSUME LocalsKept, LocalsKept'
  PROVE  Allowance \in 0 .. 2 /\ Allowance' \in 0 .. 2
<1>1. proof.tries \in 0 .. 2 /\ proof'.tries \in 0 .. 2
  BY DEF LocalsKept
<1> QED
  BY <1>1 DEF Allowance

\* What a step pays for, it takes from the allowance.
LEMMA PayingKeepsPremium ==
  ASSUME LocalsKept, LocalsKept', PremiumKept, DOMAIN runs' = DOMAIN runs,
         paid' \in Nat, paid' + Allowance' <= paid + Allowance
  PROVE  PremiumKept'
<1>1. Allowance \in Nat /\ Allowance' \in Nat
  BY AllowanceType
<1>2. IsFiniteSet(DOMAIN runs) /\ paid \in Nat /\ paid + Allowance <= 2 * Cardinality(DOMAIN runs)
  BY DEF PremiumKept
<1>3. PICK S : S = DOMAIN runs
  OBVIOUS
<1>4. PICK n : n = Cardinality(S)
  OBVIOUS
<1>5. n \in Nat
  BY <1>2, <1>3, <1>4, FS_CardinalityType
<1>6. IsFiniteSet(DOMAIN runs') /\ Cardinality(DOMAIN runs') = n
  BY <1>2, <1>3, <1>4
<1>7. paid' + Allowance' <= 2 * n
  <2>1. paid + Allowance <= 2 * n
    BY <1>2, <1>3, <1>4
  <2>2. PICK a \in Nat, b \in Nat, p \in Nat, q \in Nat :
          a = Allowance /\ b = Allowance' /\ p = paid /\ q = paid'
    BY <1>1, <1>2
  <2>3. q + b <= p + a /\ p + a <= 2 * n
    BY <2>1, <2>2
  <2>4. q + b <= 2 * n
    BY <1>5, <2>3
  <2> QED
    BY <2>2, <2>4
<1> QED
  BY <1>6, <1>7 DEF PremiumKept

LEMMA WorkKeepsPremium ==
  ASSUME EngineInv, StageIsHeld, CourseKept, LocalsKept, PremiumKept, Works
  PROVE  PremiumKept'
<1>1. /\ Stage' = Stage /\ MyRun' = MyRun /\ runs' = runs /\ Alive
      /\ DOMAIN proof = Fields /\ proof.run \in DOMAIN runs
  BY WorkingProcess DEF EngineInv, ProcessHasItsRun
<1>2. LocalsKept' /\ paid \in Nat
  BY WorkKeepsLocals DEF EngineInv, PremiumKept
<1>3. proof'.premium = proof.premium => (Entitled' <=> Entitled)
  BY <1>1 DEF Entitled, PassedSteps
<1>4. Entitled => proof.premium # None
  BY DEF Entitled
<1>5. proof.at \in {"stage", "codex"} /\ Stage = "implementation" /\ proof.premium # None => Entitled
  <2>1. SUFFICES ASSUME proof.at \in {"stage", "codex"}, Stage = "implementation",
                        "implementation" \in PassedSteps(MyRun)
                 PROVE  FALSE
    BY DEF Entitled
  <2>2. MyRun.status = "RUNNING"
    BY <2>1 DEF StageIsHeld, At, InStage
  <2>3. Done("implementation")
    BY <1>1, <2>1 DEF Done, MyRun
  <2> QED
    BY <1>1, <2>1, <2>2, <2>3, NeverImplementedTwice
<1>6. SUFFICES paid' \in Nat /\ paid' + Allowance' <= paid + Allowance
  BY <1>1, <1>2, PayingKeepsPremium
<1>7. CASE LoopEnds \/ TellTask \/ FindNoAgent \/ ReachVerdict
  <2>1. proof'.at \in {"verdict", "ended"} /\ paid' = paid
    BY <1>1, <1>7 DEF LoopEnds, TellTask, FindNoAgent, ReachVerdict, Fields, counts
  <2>2. Allowance' = 0
    BY <2>1 DEF Allowance
  <2> QED
    BY <1>2, <2>1, <2>2, AllowanceType
<1>8. CASE AuxiliaryStage \/ BeginStage
  <2>1. /\ paid' = paid /\ proof'.premium = proof.premium /\ proof.at = "turn"
    BY <1>1, <1>8 DEF AuxiliaryStage, BeginStage, HasAgent, Turn, At, Fields, counts
  <2>2. Allowance = IF Entitled THEN 2 ELSE 0
    BY <2>1 DEF Allowance
  <2>3. Allowance' \in 0 .. 2 /\ (~Entitled => Allowance' = 0)
    <3>1. ~Entitled => Allowance' = 0
      BY <1>3, <2>1 DEF Allowance
    <3> QED
      BY <1>2, <3>1, AllowanceType
  <2>4. Allowance' <= Allowance /\ Allowance \in 0 .. 2
    BY <2>2, <2>3
  <2>5. PICK m, n, p : m = Allowance /\ n = Allowance' /\ p = paid
    OBVIOUS
  <2>6. m \in 0 .. 2 /\ n \in 0 .. 2 /\ n <= m /\ p \in Nat
    BY <1>2, <2>3, <2>4, <2>5
  <2>7. p + n <= p + m
    BY <2>6
  <2> QED
    BY <2>1, <2>5, <2>6, <2>7
<1>9. CASE ReserveCall
  <2>1. /\ proof.at = "stage" /\ proof'.at = "stage" /\ proof'.premium = proof.premium
        /\ proof'.call = "out" /\ proof'.repaired = wrote
        /\ paid' = IF IsPremium THEN paid + 1 ELSE paid
    BY <1>1, <1>9 DEF ReserveCall, At, Fields
  <2>2. IsPremium => \/ proof.call = "none" /\ ~wrote
                     \/ proof.call = "applied" /\ ~proof.repaired /\ wrote
    <3>1. IsPremium => Attempts = 1
      BY BudgetAssumption DEF Attempts
    <3> QED
      BY <2>1, <3>1, <1>9 DEF ReserveCall, MayAsk, LocalsKept
  <2>3. CASE IsPremium
    <3>1. Stage = "implementation" /\ Entitled
      BY <1>5, <2>1, <2>3 DEF IsPremium
    <3>2. /\ Allowance = IF proof.call = "none" THEN 2 ELSE IF proof.repaired THEN 0 ELSE 1
          /\ Allowance' = IF proof'.repaired THEN 0 ELSE 1
      BY <1>1, <1>3, <2>1, <3>1 DEF Allowance
    <3> QED
      BY <1>2, <2>1, <2>2, <2>3, <3>2
  <2>4. CASE ~IsPremium
    <3>1. Allowance' = Allowance
      BY <1>1, <1>3, <1>4, <2>1, <2>4 DEF Allowance, IsPremium
    <3> QED
      BY <1>2, <2>1, <2>4, <3>1, AllowanceType
  <2> QED
    BY <2>3, <2>4
<1>10. CASE Reply \/ ApplyReply
  <2>1. /\ proof.at = "stage" /\ proof'.at = "stage" /\ proof'.premium = proof.premium
        /\ proof.call # "none" /\ proof'.call # "none" /\ proof'.repaired = proof.repaired
        /\ paid' = paid
    BY <1>1, <1>10 DEF Reply, ApplyReply, At, Fields, counts
  <2>2. Allowance' = Allowance
    BY <1>1, <1>3, <1>4, <2>1 DEF Allowance
  <2> QED
    BY <1>2, <2>1, <2>2, AllowanceType
<1>11. ASSUME NEW o \in StageOutcome, StageReturns(o)
       PROVE  paid' \in Nat /\ paid' + Allowance' <= paid + Allowance
  <2>1. proof.at = "stage" /\ paid' = paid
    BY <1>11 DEF StageReturns, At, counts
  <2>2. /\ proof'.premium = proof.premium
        /\ proof'.at \in {"store", "verdict"} \/ (proof'.at = "turn" /\ ~IsPremium)
    <3>1. CASE proof' = [proof EXCEPT !.at = "store", !.outcome = o]
      BY <1>1, <3>1 DEF Fields
    <3>2. CASE StopBlocked
      BY <1>1, <3>2 DEF StopBlocked, FreshLocals, Fields
    <3>3. CASE MayFallBack(o) /\ FallBack(Head(proof.fallbacks))
      BY <1>1, <3>3 DEF MayFallBack, FallBack, FreshLocals, Fields
    <3> QED
      BY <1>11, <3>1, <3>2, <3>3 DEF StageReturns
  <2>3. Allowance' <= Allowance
    <3>1. Allowance \in 0 .. 2 /\ Allowance' \in 0 .. 2
      BY <1>2, AllowanceType
    <3>2. CASE ~Entitled
      <4>1. Allowance' = 0
        BY <1>3, <2>2, <3>2 DEF Allowance
      <4> QED
        BY <3>1, <4>1
    <3>3. CASE Entitled /\ Stage = "implementation"
      <4>1. proof'.at \in {"store", "verdict"}
        BY <1>4, <2>2, <3>3 DEF IsPremium
      <4>2. Allowance' = 0
        BY <1>1, <3>3, <4>1 DEF Allowance, CodexPlaces
      <4> QED
        BY <3>1, <4>2
    <3>4. CASE Entitled /\ Stage # "implementation"
      <4>1. Allowance = 2
        BY <2>1, <3>4 DEF Allowance
      <4> QED
        BY <3>1, <4>1
    <3> QED
      BY <3>2, <3>3, <3>4
  <2> QED
    BY <1>2, <2>1, <2>3, AllowanceType
<1>12. ASSUME NEW ready \in BOOLEAN, ProbeCodex(ready)
       PROVE  paid' \in Nat /\ paid' + Allowance' <= paid + Allowance
  <2>1. /\ proof.at = "probe" /\ proof'.at \in {"codex", "store"} /\ paid' = paid
        /\ proof'.premium = proof.premium /\ proof'.tries = proof.tries
    BY <1>1, <1>12 DEF ProbeCodex, At, Fields, counts
  <2>2. Allowance' <= Allowance
    BY <1>1, <1>3, <1>4, <2>1 DEF Allowance, LocalsKept, CodexPlaces
  <2> QED
    BY <1>2, <2>1, <2>2, AllowanceType
<1>13. ASSUME NEW status \in CodexStatus, RunCodex(status)
       PROVE  paid' \in Nat /\ paid' + Allowance' <= paid + Allowance
  <2>1. /\ proof.at = "codex" /\ paid' = paid + 1 /\ proof'.premium = proof.premium
        /\ proof'.at = "store" \/ (proof'.at = "judge" /\ proof'.tries = proof.tries + 1)
    BY <1>1, <1>13 DEF RunCodex, At, Fields
  <2>2. /\ Stage = "implementation" /\ Entitled /\ proof.tries \in 0 .. 1
    BY <1>5, <2>1 DEF LocalsKept, CodexPlaces
  <2>3. /\ Allowance = 2 - proof.tries
        /\ Allowance' <= 1 - proof.tries
    BY <1>1, <1>3, <1>4, <2>1, <2>2 DEF Allowance, CodexPlaces
  <2>4. Allowance' \in Nat
    BY <1>2, AllowanceType
  <2> QED
    BY <1>2, <2>1, <2>2, <2>3, <2>4
<1>14. ASSUME NEW tests \in Tests, JudgeCodex(tests)
       PROVE  paid' \in Nat /\ paid' + Allowance' <= paid + Allowance
  <2>1. /\ proof.at = "judge" /\ proof'.at \in {"codex", "store"} /\ paid' = paid
        /\ proof'.premium = proof.premium /\ proof'.tries = proof.tries
    BY <1>1, <1>14 DEF JudgeCodex, At, Fields, counts
  <2>2. Allowance' <= Allowance
    BY <1>1, <1>3, <1>4, <2>1 DEF Allowance, LocalsKept, CodexPlaces
  <2> QED
    BY <1>2, <2>1, <2>2, AllowanceType
<1>15. CASE StoreStage
  <2>1. /\ proof.at = "store" /\ proof'.at \in {"submit", "verdict"} /\ paid' = paid
        /\ proof'.premium = proof.premium
    BY <1>1, <1>15 DEF StoreStage, FreshLocals, At, Fields, counts
  <2>2. Allowance' <= Allowance
    BY <1>1, <1>3, <1>4, <2>1 DEF Allowance, CodexPlaces
  <2> QED
    BY <1>2, <2>1, <2>2, AllowanceType
<1> QED
  BY <1>7, <1>8, <1>9, <1>10, <1>11, <1>12, <1>13, <1>14, <1>15 DEF Works

-------------------------------------------------------------------------------
(***************************************************************************)
(* The reports of the process and its verdict.                             *)
(***************************************************************************)
\* A set of numbers has a least one: what CHOOSE finds in AgentOf.
LEMMA LeastNumber ==
  ASSUME NEW T \in SUBSET Nat, T # {}
  PROVE  \E i \in T : \A j \in T : i <= j
<1>1. PICK R : R = {ss \in Nat \X Nat : ss[1] < ss[2]}
  OBVIOUS
<1>2. IsWellFoundedOn(R, Nat)
  BY <1>1, NatLessThanWellFounded DEF OpToRel
<1>3. PICK i \in T : \A j \in T : ~(<<j, i>> \in R)
  BY <1>2, WFMin
<1>4. ASSUME NEW j \in T PROVE i <= j
  <2>1. i \in Nat /\ j \in Nat /\ <<j, i>> \notin R
    BY <1>3
  <2>2. ~(j < i)
    BY <1>1, <2>1
  <2> QED
    BY <2>1, <2>2
<1> QED
  BY <1>4

\* A sequence is one over the elements it has.
LEMMA SeqOfItsOwn ==
  ASSUME NEW T, NEW s \in Seq(T)
  PROVE  s \in Seq({s[i] : i \in DOMAIN s})
<1>1. PICK n \in Nat : s \in [1 .. n -> T]
  BY SeqDef
<1>2. s \in [1 .. n -> {s[i] : i \in DOMAIN s}]
  BY <1>1
<1> QED
  BY <1>2, SeqDef

LEMMA OneMoreIsSigned ==
  ASSUME NEW s, AllSigned(s), NEW report, Signed(report), NEW next, next = Append(s, report)
  PROVE  AllSigned(next)
<1>1. PICK T : T = {s[i] : i \in DOMAIN s} \cup {report}
  OBVIOUS
<1>2. s \in Seq(T) /\ report \in T
  BY <1>1 DEF AllSigned
<1>3. next \in Seq(T) /\ DOMAIN next = 1 .. Len(next)
  BY <1>2
<1>4. \A i \in DOMAIN next : next[i] = report \/ (i \in DOMAIN s /\ next[i] = s[i])
  BY <1>2
<1>5. \A i \in DOMAIN next : Signed(next[i])
  BY <1>4 DEF AllSigned
<1> QED
  BY <1>3, <1>5, SeqOfItsOwn DEF AllSigned

\* The owner of the step signs its report.
LEMMA OwnersReport ==
  ASSUME EngineInv, CourseKept, Alive, NEW outcome, NEW provider
  PROVE  Signed(Report(Stage, Owner, outcome, provider))
<1>1. MyRun.workflow_id = "feature-development"
  BY DEF EngineInv, ProcessHasItsRun, CourseKept, OnItsWay, MyRun
<1>2. Owner = Feature.steps[Stage].owner
  BY <1>1 DEF Owner, StepOf, Feature, Stage
<1> QED
  BY <1>2 DEF Signed, Report

LEMMA WorkKeepsSigned ==
  ASSUME EngineInv, CourseKept, StagesAreSigned, Works
  PROVE  StagesAreSigned'
<1>1. DOMAIN proof = Fields /\ Alive
  BY WorkingProcess DEF EngineInv
<1>2. \/ proof'.stages = proof.stages
      \/ \E outcome, provider :
           proof'.stages = Append(proof.stages, Report(Stage, Owner, outcome, provider))
  <2>1. CASE LoopEnds \/ TellTask \/ FindNoAgent \/ BeginStage \/ ReserveCall \/ Reply
             \/ ApplyReply \/ ReachVerdict
    BY <1>1, <2>1 DEF LoopEnds, TellTask, FindNoAgent, BeginStage, ReserveCall, Reply,
                      ApplyReply, ReachVerdict, Fields
  <2>2. CASE AuxiliaryStage
    BY <1>1, <2>2 DEF AuxiliaryStage, Fields
  <2>3. CASE StoreStage
    BY <1>1, <2>3 DEF StoreStage, FreshLocals, Fields
  <2>4. ASSUME NEW o \in StageOutcome, StageReturns(o)
        PROVE  \/ proof'.stages = proof.stages
               \/ \E outcome, provider :
                    proof'.stages = Append(proof.stages, Report(Stage, Owner, outcome, provider))
    <3>1. CASE proof' = [proof EXCEPT !.at = "store", !.outcome = o]
      BY <1>1, <3>1 DEF Fields
    <3>2. CASE FallBack(Head(proof.fallbacks))
      BY <1>1, <3>2 DEF FallBack, FreshLocals, Fields
    <3>3. CASE StopBlocked
      BY <1>1, <3>3 DEF StopBlocked, FreshLocals, Fields
    <3> QED
      BY <2>4, <3>1, <3>2, <3>3 DEF StageReturns
  <2>5. ASSUME NEW ready \in BOOLEAN, ProbeCodex(ready)
        PROVE  proof'.stages = proof.stages
    BY <1>1, <2>5 DEF ProbeCodex, Fields
  <2>6. ASSUME NEW status \in CodexStatus, RunCodex(status)
        PROVE  proof'.stages = proof.stages
    BY <1>1, <2>6 DEF RunCodex, Fields
  <2>7. ASSUME NEW tests \in Tests, JudgeCodex(tests)
        PROVE  proof'.stages = proof.stages
    BY <1>1, <2>7 DEF JudgeCodex, Fields
  <2> QED
    BY <2>1, <2>2, <2>3, <2>4, <2>5, <2>6, <2>7 DEF Works
<1>3. CASE proof'.stages = proof.stages
  BY <1>3 DEF StagesAreSigned
<1>4. ASSUME NEW outcome, NEW provider,
             proof'.stages = Append(proof.stages, Report(Stage, Owner, outcome, provider))
      PROVE  StagesAreSigned'
  <2>1. PICK report : report = Report(Stage, Owner, outcome, provider)
    OBVIOUS
  <2>2. PICK s, next : s = proof.stages /\ next = proof'.stages
    OBVIOUS
  <2>3. Signed(report)
    BY <1>1, <2>1, OwnersReport
  <2>4. AllSigned(next)
    BY <1>4, <2>1, <2>2, <2>3, OneMoreIsSigned DEF StagesAreSigned
  <2> QED
    BY <2>2, <2>4 DEF StagesAreSigned
<1> QED
  BY <1>2, <1>3, <1>4

\* A run that waits for the founder has every gate of the workflow behind it.
LEMMA WaitingIsThrough ==
  ASSUME EngineInv, CourseKept, Alive, MyRun.status = "APPROVAL_REQUIRED"
  PROVE  /\ REAL_STAGES \cap Steps \subseteq PassedSteps(MyRun)
         /\ \E a \in DOMAIN approvals : approvals[a].run_id = proof.run
<1>1. proof.run \in DOMAIN runs /\ OnItsWay(MyRun)
  BY DEF EngineInv, ProcessHasItsRun, CourseKept, MyRun
<1>2. AtHumanGate(MyRun) /\ \E a \in DOMAIN approvals : approvals[a].run_id = proof.run
  BY <1>1 DEF EngineInv, Inv, WaitsForItsRequest, MyRun
<1>3. MyRun.workflow_id = "feature-development" /\ OnCourse(MyRun)
  BY <1>1, <1>2, GateIsNotBehind DEF OnItsWay
<1> QED
  BY <1>2, <1>3, GateIsBehindAll

\* What the grant says of a run.
LEMMA GrantedFacts ==
  ASSUME NEW run, OnItsWay(run), Granted(run)
  PROVE  /\ run.status # "APPROVAL_REQUIRED" /\ run.current_step \notin REAL_STAGES
         /\ REAL_STAGES \cap Steps \subseteq PassedSteps(run)
  BY BehindFacts DEF OnItsWay, IsBehind

\* Reports that name two agents name two owners.
LEMMA ReviewersAreOthers ==
  ASSUME StagesAreSigned, ReviewerIndependent
  PROVE  Feature.steps["implementation"].owner # Feature.steps["code_review"].owner
<1>1. DOMAIN proof.stages \subseteq Nat
  <2>1. PICK T : proof.stages \in Seq(T)
    BY DEF StagesAreSigned, AllSigned
  <2> QED
    BY <2>1
<1>2. ASSUME NEW s \in {"implementation", "code_review"}
      PROVE  AgentOf(s) = Feature.steps[s].owner
  <2>1. ReportsOn(s) \in SUBSET Nat /\ ReportsOn(s) # {}
    BY <1>1 DEF ReviewerIndependent, ReportsOn
  <2>2. PICK i : i = CHOOSE k \in ReportsOn(s) : \A j \in ReportsOn(s) : k <= j
    OBVIOUS
  <2>3. i \in ReportsOn(s)
    BY <2>1, <2>2, LeastNumber
  <2>4. AgentOf(s) = proof.stages[i].agent
    BY <2>2 DEF AgentOf
  <2> QED
    BY <2>3, <2>4 DEF ReportsOn, StagesAreSigned, AllSigned, Signed
<1> QED
  BY <1>2 DEF ReviewerIndependent

LEMMA WorkKeepsVerdict ==
  ASSUME EngineInv, StageIsHeld, CourseKept, LocalsKept, StagesAreSigned, VerdictKept, Works
  PROVE  VerdictKept'
<1>1. /\ MyRun' = MyRun /\ runs' = runs /\ Alive /\ DOMAIN proof = Fields
  BY WorkingProcess DEF EngineInv, ProcessHasItsRun
<1>2. proof.at \in InStage => MyRun.status = "RUNNING"
  BY DEF StageIsHeld, At
<1>6. Granted(MyRun) => MyRun.status # "APPROVAL_REQUIRED"
  <2>1. OnItsWay(MyRun)
    BY <1>1 DEF EngineInv, ProcessHasItsRun, CourseKept, MyRun
  <2> QED
    BY <2>1, GrantedFacts
<1>7. Granted(MyRun)' <=> Granted(MyRun)
  BY <1>1 DEF Granted, IsGrant
<1>3. \/ proof'.at \notin {"turn", "verdict", "ended"}
      \/ proof'.at \in {"turn", "verdict"} /\ MyRun.status = "RUNNING"
      \/ /\ proof'.at = "verdict"
         /\ MyRun.status = "APPROVAL_REQUIRED" => task' = "APPROVAL_REQUIRED"
      \/ ReachVerdict
  <2>0. CASE LoopEnds
    <3>1. proof.at = "turn" /\ proof'.at = "verdict"
      BY <1>1, <2>0 DEF LoopEnds, At, Fields
    <3>2. MyRun.status # "APPROVAL_REQUIRED"
      BY <1>6, <3>1 DEF VerdictKept
    <3> QED
      BY <3>1, <3>2
  <2>1. CASE TellTask
    BY <1>1, <2>1 DEF TellTask, Fields
  <2>2. CASE FindNoAgent \/ AuxiliaryStage \/ BeginStage
    BY <1>1, <2>2 DEF FindNoAgent, AuxiliaryStage, BeginStage, HasAgent, Turn, Fields
  <2>3. CASE ReserveCall \/ Reply \/ ApplyReply
    BY <1>1, <2>3 DEF ReserveCall, Reply, ApplyReply, At, Fields
  <2>4. CASE StoreStage
    BY <1>1, <1>2, <2>4 DEF StoreStage, FreshLocals, At, Fields, InStage
  <2>5. ASSUME NEW o \in StageOutcome, StageReturns(o)
        PROVE  proof'.at \in {"store", "turn", "verdict"} /\ MyRun.status = "RUNNING"
    <3>1. MyRun.status = "RUNNING"
      BY <1>2, <2>5 DEF StageReturns, At, InStage
    <3>2. CASE proof' = [proof EXCEPT !.at = "store", !.outcome = o]
      BY <1>1, <3>1, <3>2 DEF Fields
    <3>3. CASE FallBack(Head(proof.fallbacks))
      BY <1>1, <3>1, <3>3 DEF FallBack, FreshLocals, Fields
    <3>4. CASE StopBlocked
      BY <1>1, <3>1, <3>4 DEF StopBlocked, FreshLocals, Fields
    <3> QED
      BY <2>5, <3>2, <3>3, <3>4 DEF StageReturns
  <2>6. ASSUME \/ \E ready \in BOOLEAN : ProbeCodex(ready)
               \/ \E status \in CodexStatus : RunCodex(status)
        PROVE  proof'.at \notin {"turn", "verdict", "ended"}
    BY <1>1, <2>6 DEF ProbeCodex, RunCodex, Fields
  <2>7. ASSUME NEW tests \in Tests, JudgeCodex(tests)
        PROVE  proof'.at \notin {"turn", "verdict", "ended"}
    BY <1>1, <2>7 DEF JudgeCodex, Fields
  <2> QED
    BY <2>0, <2>1, <2>2, <2>3, <2>4, <2>5, <2>6, <2>7 DEF Works
<1>4. CASE ~ReachVerdict
  <2>1. proof'.at # "ended"
    BY <1>3, <1>4
  <2>2. proof'.at = "turn" => MyRun.status = "RUNNING"
    BY <1>3, <1>4
  <2>3. proof'.at = "verdict" /\ MyRun.status = "APPROVAL_REQUIRED" => task' = "APPROVAL_REQUIRED"
    BY <1>3, <1>4
  <2> QED
    BY <1>1, <2>1, <2>2, <2>3 DEF VerdictKept
<1>5. CASE ReachVerdict
  <2>1. /\ proof.at = "verdict" /\ proof'.at = "ended" /\ proof'.real = proof.real
        /\ proof'.run = proof.run /\ task' = task /\ used' = used /\ approvals' = approvals
        /\ proof'.ok = (/\ proof.ok /\ ReachedApproval /\ ReviewerIndependent /\ EveryStagePassed
                        /\ proof.real => used > 0 /\ used <= Ceiling)
    BY <1>1, <1>5 DEF ReachVerdict, At, Fields, vars, contractVars, durable
  <2>2. SUFFICES ASSUME proof'.ok
                 PROVE  /\ REAL_STAGES \cap Steps \subseteq PassedSteps(MyRun)
                        /\ Feature.steps["implementation"].owner # Feature.steps["code_review"].owner
                        /\ \E a \in DOMAIN approvals : approvals[a].run_id = proof.run
                        /\ proof.real => used \in 1 .. Ceiling
    BY <1>1, <2>1 DEF VerdictKept, PassedSteps
  <2>3. /\ ReachedApproval /\ ReviewerIndependent
        /\ proof.real => used > 0 /\ used <= Ceiling
    BY <2>1, <2>2
  <2>4. MyRun.status = "APPROVAL_REQUIRED"
    BY <2>3 DEF ReachedApproval
  <2>6. proof.real => used \in 1 .. Ceiling
    BY <2>3, BudgetAssumption DEF LocalsKept
  <2> QED
    BY <1>1, <2>3, <2>4, <2>6, WaitingIsThrough, ReviewersAreOthers
<1> QED
  BY <1>4, <1>5

-------------------------------------------------------------------------------
(***************************************************************************)
(* The steps that move the runs, begin a process or end it.                *)
(***************************************************************************)
LEMMA SamePassing ==
  ASSUME DOMAIN runs' = DOMAIN runs,
         \A q \in DOMAIN runs : PassedSteps(runs'[q]) = PassedSteps(runs[q])
  PROVE  \A s : Done(s)' <=> Done(s)
  BY DEF Done, PassedSteps

LEMMA AskingKeepsProcess ==
  ASSUME CourseInv, ProcessInv, NEW a \in Approval, AskFounder(a)
  PROVE  ProcessInv'
<1>1. /\ Alive /\ proof.run \in DOMAIN runs /\ DOMAIN runs' = DOMAIN runs
      /\ \A s : Done(s)' <=> Done(s)
  BY AskingMoves, SamePassing
<1>2. DOMAIN proof = Fields
  BY DEF CourseInv, EngineInv, ProcessHasItsRun
<1>3. /\ proof.at = "turn" /\ proof' = [proof EXCEPT !.at = "tell"]
      /\ UNCHANGED <<contractVars, treeVars, durable, counts>>
  BY DEF AskFounder, Turn, At
<1>4. proof'.at = "tell" /\ \A f \in Fields \ {"at"} : proof'[f] = proof[f]
  BY <1>2, <1>3 DEF Fields
<1>5. LocalsKept'
  BY <1>3, <1>4 DEF ProcessInv, LocalsKept, Fields, Quiet, CodexPlaces, contractVars, durable
<1>6. PremiumKept'
  <2>1. Allowance' = 0
    BY <1>4 DEF Allowance
  <2>2. paid' = paid /\ paid \in Nat
    BY <1>3 DEF counts, ProcessInv, PremiumKept
  <2> QED
    BY <1>1, <1>5, <2>1, <2>2, AllowanceType, PayingKeepsPremium DEF ProcessInv
<1>7. TreeInv'
  <2>1. files' = files /\ root' = root /\ git' = git
    BY <1>3 DEF treeVars
  <2>2. Required' = Required /\ Harmless' = Harmless
    BY <2>1, SameTree
  <2> QED
    BY <1>1, <1>4, <2>1, <2>2
       DEF ProcessInv, TreeInv, TreeKept, HandsOn, BeginsClean, CodexPlaces
<1>8. StagesAreSigned' /\ VerdictKept'
  BY <1>4 DEF ProcessInv, StagesAreSigned, VerdictKept, Fields
<1> QED
  BY <1>5, <1>6, <1>7, <1>8 DEF ProcessInv

LEMMA SubmittingKeepsProcess ==
  ASSUME CourseInv, ProcessInv, SubmitStage
  PROVE  ProcessInv'
<1>0. PICK st : st = Stage
  OBVIOUS
<1>1. /\ Alive /\ proof.run \in DOMAIN runs /\ DOMAIN runs' = DOMAIN runs
      /\ \A s : Done(s) => Done(s)'
      /\ \A s : Done(s)' => Done(s) \/ s = st
      /\ runs'[proof.run].status # "APPROVAL_REQUIRED"
      /\ runs'[proof.run].status = "RUNNING" => Done(st)'
  <2>1. /\ \A q \in DOMAIN runs : \A s \in PassedSteps(runs[q]) : s \in PassedSteps(runs'[q])
        /\ \A q \in DOMAIN runs : \A s \in PassedSteps(runs'[q]) : s \in PassedSteps(runs[q]) \/ s = st
        /\ proof.run \in DOMAIN runs /\ DOMAIN runs' = DOMAIN runs
        /\ runs'[proof.run].status = "RUNNING" => st \in PassedSteps(runs'[proof.run])
    BY <1>0, SubmittingMoves
  <2>2. \A s : Done(s) => Done(s)'
    BY <2>1 DEF Done, PassedSteps
  <2>3. \A s : Done(s)' => Done(s) \/ s = st
    BY <2>1 DEF Done, PassedSteps
  <2>4. runs'[proof.run].status = "RUNNING" => Done(st)'
    BY <2>1 DEF Done, PassedSteps
  <2> QED
    BY <2>2, <2>3, <2>4, SubmittingMoves
<1>2. DOMAIN proof = Fields
  BY DEF CourseInv, EngineInv, ProcessHasItsRun
<1>3. /\ proof.at = "submit" /\ UNCHANGED <<contractVars, treeVars, durable, counts>>
      /\ proof' = [proof EXCEPT !.at =
                     IF runs'[proof.run].status = "RUNNING" THEN "turn" ELSE "verdict"]
  BY DEF SubmitStage, At
<1>4. /\ proof'.at = IF runs'[proof.run].status = "RUNNING" THEN "turn" ELSE "verdict"
      /\ \A f \in Fields \ {"at"} : proof'[f] = proof[f]
  BY <1>2, <1>3 DEF Fields
<1>5. proof'.run = proof.run /\ proof'.premium = proof.premium /\ MyRun' = runs'[proof.run]
  BY <1>4 DEF Fields, MyRun
<1>6. LocalsKept'
  BY <1>3, <1>4 DEF ProcessInv, LocalsKept, Fields, Quiet, CodexPlaces, contractVars, durable
<1>7. PremiumKept'
  <2>1. paid' = paid /\ paid \in Nat
    BY <1>3 DEF counts, ProcessInv, PremiumKept
  <2>2. Allowance \in 0 .. 2 /\ Allowance' \in 0 .. 2
    BY <1>6, AllowanceType DEF ProcessInv
  <2>3. Allowance' <= Allowance
    <3>1. Entitled' => Entitled
      BY <1>1, <1>5, SubmittingMoves DEF Entitled, MyRun, PassedSteps
    <3>2. CASE proof'.at = "verdict" \/ ~Entitled'
      <4>1. Allowance' = 0
        BY <3>2 DEF Allowance
      <4> QED
        BY <2>2, <4>1
    <3>3. CASE proof'.at # "verdict" /\ Entitled'
      <4>1. runs'[proof.run].status = "RUNNING"
        BY <1>4, <3>3
      <4>2. Stage \in PassedSteps(runs'[proof.run])
        BY <4>1, SubmittingMoves
      <4>3. Stage # "implementation"
        BY <1>5, <3>3, <4>2 DEF Entitled, PassedSteps
      <4>4. Allowance = 2
        BY <1>3, <3>1, <3>3, <4>3 DEF Allowance
      <4> QED
        BY <2>2, <4>4
    <3> QED
      BY <3>2, <3>3
  <2>4. paid' \in Nat /\ paid' + Allowance' <= paid + Allowance
    <3>1. PICK m, n, p : m = Allowance /\ n = Allowance' /\ p = paid
      OBVIOUS
    <3>2. m \in 0 .. 2 /\ n \in 0 .. 2 /\ n <= m /\ p \in Nat
      BY <2>1, <2>2, <2>3, <3>1
    <3>3. p + n <= p + m
      BY <3>2
    <3> QED
      BY <2>1, <3>1, <3>3
  <2>5. LocalsKept /\ PremiumKept
    BY DEF ProcessInv
  <2>6. DOMAIN runs' = DOMAIN runs
    BY <1>1
  <2> QED
    BY <1>6, <2>4, <2>5, <2>6, PayingKeepsPremium
<1>8. TreeInv'
  <2>1. files' = files /\ root' = root /\ git' = git
    BY <1>3 DEF treeVars
  <2>2. Required' = Required /\ Harmless' = Harmless
    BY <2>1, SameTree
  <2>3. TreeKept'
    <3>1. Done("implementation")' => Required
      BY <1>0, <1>1, <1>3 DEF ProcessInv, TreeInv, TreeKept, HandsOn
    <3>2. Done("security")' => Harmless
      BY <1>0, <1>1, <1>3 DEF ProcessInv, TreeInv, TreeKept, HandsOn
    <3>3. /\ DOMAIN runs' = {} => files' = Seed
          /\ git' # "unavailable" => root' = Seed \/ (root' = None /\ files' = Seed)
      <4>1. TreeKept
        BY DEF ProcessInv, TreeInv
      <4> QED
        BY <1>1, <2>1, <4>1 DEF TreeKept
    <3> QED
      BY <2>2, <3>1, <3>2, <3>3 DEF TreeKept
  <2>4. HandsOn'
    BY <1>4 DEF HandsOn, CodexPlaces
  <2>5. BeginsClean'
    <3>1. SUFFICES ASSUME git # "unavailable", ~Done("implementation")', proof'.at = "turn"
                   PROVE  files = Seed
      BY <1>4, <2>1 DEF BeginsClean
    <3>2. runs'[proof.run].status = "RUNNING"
      BY <1>4, <3>1
    <3>3. st # "implementation"
      BY <1>1, <3>1, <3>2
    <3>4. ~Done("implementation")
      BY <1>1, <3>1
    <3> QED
      BY <1>0, <1>3, <3>1, <3>3, <3>4 DEF ProcessInv, TreeInv, BeginsClean
  <2> QED
    BY <2>3, <2>4, <2>5 DEF TreeInv
<1>9. StagesAreSigned' /\ VerdictKept'
  BY <1>1, <1>4, <1>5 DEF ProcessInv, StagesAreSigned, VerdictKept, Fields
<1> QED
  BY <1>6, <1>7, <1>8, <1>9 DEF ProcessInv

\* No process, or one about to enter the loop.
LEMMA FreshProcessHasLocals ==
  ASSUME proof'.at \in {"nowhere", "turn"}, proof'.call = "none", proof'.repaired = FALSE,
         proof'.tries = 0, used' \in Nat, spent' = 0, wrote' = FALSE, calls' \in Nat
  PROVE  LocalsKept'
<1>1. /\ proof'.at \in {"nowhere", "stage", "store"} \cup Quiet \cup CodexPlaces
      /\ proof'.at \notin CodexPlaces
  BY DEF Quiet, CodexPlaces
<1>2. proof'.at # "stage" /\ proof'.at # "codex" /\ proof'.at # "judge"
  OBVIOUS
<1>3. proof'.repaired \in BOOLEAN /\ ~proof'.repaired
  OBVIOUS
<1>5. proof'.tries \in 0 .. 2
  OBVIOUS
<1>4. wrote' \in BOOLEAN /\ ~wrote' /\ spent' \in Nat
  OBVIOUS
<1> QED
  BY <1>1, <1>2, <1>3, <1>4, <1>5 DEF LocalsKept

LEMMA CrashKeepsProcess ==
  ASSUME ProcessInv, Dies
  PROVE  ProcessInv'
<1>1. /\ proof' = Nobody /\ used' = 0 /\ spent' = 0 /\ wrote' = FALSE /\ runs' = runs
      /\ calls' = calls /\ files' = files /\ root' = root /\ git' = git /\ paid' = paid
  BY DEF Dies, vars, treeVars, durable, counts
<1>2. /\ proof'.at = "nowhere" /\ proof'.repaired = FALSE /\ proof'.tries = 0
      /\ proof'.stages = <<>>
  BY <1>1 DEF Nobody
<1>3. LocalsKept'
  <2>1. calls \in Nat
    BY DEF ProcessInv, LocalsKept
  <2>2. proof'.call = "none"
    BY <1>1 DEF Nobody
  <2> QED
    BY <1>1, <1>2, <2>1, <2>2, FreshProcessHasLocals
<1>4. PremiumKept'
  <2>1. Allowance' = 0 /\ paid \in Nat
    BY <1>2 DEF Allowance, ProcessInv, PremiumKept
  <2> QED
    BY <1>1, <1>3, <2>1, AllowanceType, PayingKeepsPremium DEF ProcessInv
<1>5. TreeInv'
  <2>1. Required' = Required /\ Harmless' = Harmless
    BY <1>1, SameTree
  <2> QED
    BY <1>1, <1>2, <2>1 DEF ProcessInv, TreeInv, TreeKept, HandsOn, BeginsClean, CodexPlaces, Done
<1>6. StagesAreSigned' /\ VerdictKept'
  BY <1>2 DEF StagesAreSigned, AllSigned, VerdictKept
<1> QED
  BY <1>3, <1>4, <1>5, <1>6 DEF ProcessInv

LEMMA ProcessFacts ==
  ASSUME NEW r, NEW real, NEW env, NEW premium, NEW stages,
         proof' = Process(r, real, env, premium, stages)
  PROVE  /\ proof'.at = "turn" /\ proof'.call = "none" /\ proof'.repaired = FALSE
         /\ proof'.tries = 0 /\ proof'.run = r /\ proof'.premium = premium
         /\ proof'.stages = stages
  BY DEF Process

\* A first process finds nothing passed and the fixture as it was copied, and it adds
\* a run for what it may pay.
LEMMA LaunchKeepsProcess ==
  ASSUME CourseInv, ProcessInv, NEW r \in Run, NEW env \in Env, NEW traits \in Task,
         NEW real \in BOOLEAN, LaunchProof(r, real, env, traits)
  PROVE  ProcessInv'
<1>1. /\ proof'.at = "turn" /\ proof'.call = "none" /\ proof'.repaired = FALSE
      /\ proof'.tries = 0 /\ proof'.run = r /\ proof'.stages = <<>>
  BY ProcessFacts DEF LaunchProof
<1>2. /\ used' = 0 /\ spent' = spent /\ wrote' = wrote /\ calls' = calls /\ paid' = paid
      /\ files' = files /\ root' = root /\ git' = git /\ proof.at \in {"nowhere", "ended"}
  BY DEF LaunchProof, treeVars, NoProcess
<1>3. /\ r \notin DOMAIN runs /\ DOMAIN runs' = DOMAIN runs \cup {r}
      /\ runs'[r].status = "RUNNING" /\ PassedSteps(runs'[r]) = {}
  BY LaunchingMoves DEF CourseInv
<1>4. DOMAIN runs = {}
  <2>1. \A q \in DOMAIN runs : q \in Run
    BY RowType DEF CourseInv, EngineInv, Inv, TypeOK
  <2> QED
    BY <1>3, <2>1, OneRunAssumption
<1>5. LocalsKept'
  <2>1. calls \in Nat /\ spent = 0 /\ ~wrote /\ wrote \in BOOLEAN
    BY <1>2 DEF ProcessInv, LocalsKept
  <2>2. used' \in Nat /\ spent' = 0 /\ wrote' = FALSE /\ calls' \in Nat
    BY <1>2, <2>1
  <2> QED
    BY <1>1, <2>2, FreshProcessHasLocals
<1>6. PremiumKept'
  <2>1. paid \in Nat /\ paid + Allowance <= 2 * Cardinality(DOMAIN runs) /\ Allowance = 0
    BY <1>2 DEF ProcessInv, PremiumKept, Allowance
  <2>2. Cardinality(DOMAIN runs) = 0
    BY <1>4, FS_EmptySet
  <2>3. paid = 0
    <3>1. PICK p, a : p = paid /\ a = Allowance
      OBVIOUS
    <3>2. p \in Nat /\ p + a <= 2 * 0 /\ a = 0
      BY <2>1, <2>2, <3>1
    <3>3. p = 0
      BY <3>2
    <3> QED
      BY <3>1, <3>3
  <2>4. IsFiniteSet(DOMAIN runs') /\ Cardinality(DOMAIN runs') = 1
    <3>1. DOMAIN runs' = {r}
      BY <1>3, <1>4
    <3>2. IsFiniteSet({r}) /\ Cardinality({r}) = 1
      BY FS_Singleton
    <3> QED
      BY <3>1, <3>2
  <2>5. PICK n : n = Allowance'
    OBVIOUS
  <2>6. n \in 0 .. 2
    BY <1>5, <2>5, AllowanceType DEF ProcessInv
  <2>7. 0 + n <= 2 * 1
    BY <2>6
  <2> QED
    BY <1>2, <2>3, <2>4, <2>5, <2>7 DEF PremiumKept
<1>7. \A s : ~Done(s)'
  <2>1. \A q \in DOMAIN runs' : PassedSteps(runs'[q]) = {}
    BY <1>3, <1>4
  <2> QED
    BY <2>1 DEF Done, PassedSteps
<1>8. TreeInv'
  <2>1. TreeKept
    BY DEF ProcessInv, TreeInv
  <2>2. files' = Seed /\ (git' # "unavailable" => root' = Seed \/ root' = None)
    BY <1>2, <1>4, <2>1 DEF TreeKept
  <2>3. TreeKept'
    BY <1>7, <2>2 DEF TreeKept
  <2>4. HandsOn'
    BY <1>1 DEF HandsOn, CodexPlaces
  <2>5. BeginsClean'
    BY <1>1, <2>2 DEF BeginsClean
  <2> QED
    BY <2>3, <2>4, <2>5 DEF TreeInv
<1>9. StagesAreSigned'
  <2>1. AllSigned(<<>>)
    BY DEF AllSigned
  <2> QED
    BY <1>1, <2>1 DEF StagesAreSigned, AllSigned
<1>10. VerdictKept'
  BY <1>1, <1>3 DEF VerdictKept, MyRun
<1> QED
  BY <1>5, <1>6, <1>8, <1>9, <1>10 DEF ProcessInv

\* The reports a resumed process begins with are the ones of the run's history.
LEMMA HistoryIsSigned ==
  ASSUME NEW run \in WorkflowRun, OwnersSign(run)
  PROVE  AllSigned(Reports(run))
<1>1. PICK n \in Nat : DOMAIN run.history = 1 .. n
  <2>1. run.history \in Seq(StepRecord)
    BY DEF WorkflowRun
  <2> QED
    BY <2>1, LenProperties
<1>2. PICK reports : reports = Reports(run)
  OBVIOUS
<1>3. /\ DOMAIN reports = 1 .. n
      /\ \A i \in 1 .. n : /\ reports[i].stage = run.history[i].step_id
                           /\ reports[i].agent = run.history[i].owner
  BY <1>1, <1>2 DEF Reports, Report
<1>4. reports \in [1 .. n -> {reports[i] : i \in 1 .. n}]
  BY <1>1, <1>2 DEF Reports
<1>5. reports \in Seq({reports[i] : i \in DOMAIN reports})
  BY <1>3, <1>4, SeqDef
<1>6. \A i \in 1 .. n : Signed(reports[i])
  <2>1. {"implementation", "code_review"} \subseteq Steps
        /\ ~Feature.steps["implementation"].human_approval
        /\ ~Feature.steps["code_review"].human_approval
    BY CourseFacts
  <2> QED
    BY <1>1, <1>3, <2>1 DEF OwnersSign, Signed
<1> QED
  BY <1>2, <1>3, <1>5, <1>6 DEF AllSigned

\* A process that resumes goes on behind the implementation, and pays for nothing.
LEMMA ResumeKeepsProcess ==
  ASSUME EngineInv, CourseKept, ProcessInv, NEW r \in Run, NEW env \in Env, NEW traits \in Task,
         ResumeProof(r, env, traits)
  PROVE  ProcessInv'
<1>1. /\ proof'.at = "turn" /\ proof'.call = "none" /\ proof'.repaired = FALSE
      /\ proof'.tries = 0 /\ proof'.run = r /\ proof'.premium = None
      /\ proof'.stages = Reports(runs[r])
  BY ProcessFacts DEF ResumeProof
<1>2. /\ used' = calls /\ spent' = spent /\ wrote' = wrote /\ calls' = calls /\ paid' = paid
      /\ files' = files /\ root' = root /\ git' = git /\ proof.at \in {"nowhere", "ended"}
      /\ runs' = runs
  BY DEF ResumeProof, treeVars, NoProcess, durable, vars
<1>3. r \in DOMAIN runs /\ runs[r].status = "RUNNING" /\ "implementation" \in PassedSteps(runs[r])
  BY DEF ResumeProof, MayResume
<1>4. LocalsKept'
  <2>1. calls \in Nat /\ spent = 0 /\ ~wrote /\ wrote \in BOOLEAN
    BY <1>2 DEF ProcessInv, LocalsKept
  <2>2. used' \in Nat /\ spent' = 0 /\ wrote' = FALSE /\ calls' \in Nat
    BY <1>2, <2>1
  <2> QED
    BY <1>1, <2>2, FreshProcessHasLocals
<1>5. PremiumKept'
  <2>1. paid \in Nat /\ Allowance = 0
    BY <1>2 DEF ProcessInv, PremiumKept, Allowance
  <2>2. Allowance' = 0
    BY <1>1 DEF Allowance, Entitled
  <2>3. paid' \in Nat /\ paid' + Allowance' <= paid + Allowance
    BY <1>2, <2>1, <2>2
  <2> QED
    BY <1>2, <1>4, <2>3, PayingKeepsPremium DEF ProcessInv
<1>6. TreeInv'
  <2>1. \A s : Done(s)' <=> Done(s)
    BY <1>2 DEF Done
  <2>2. Required' = Required /\ Harmless' = Harmless
    BY <1>2, SameTree
  <2>3. Done("implementation")
    BY <1>3 DEF Done
  <2>4. TreeKept'
    BY <1>2, <2>1, <2>2 DEF ProcessInv, TreeInv, TreeKept
  <2>5. HandsOn'
    BY <1>1 DEF HandsOn, CodexPlaces
  <2>6. BeginsClean'
    BY <2>1, <2>3 DEF BeginsClean
  <2> QED
    BY <2>4, <2>5, <2>6 DEF TreeInv
<1>7. StagesAreSigned'
  <2>1. runs[r] \in WorkflowRun /\ OwnersSign(runs[r])
    BY <1>3, RowType DEF EngineInv, Inv, TypeOK, CourseKept, OnItsWay
  <2>2. PICK reports : reports = Reports(runs[r])
    OBVIOUS
  <2>3. AllSigned(reports)
    BY <2>1, <2>2, HistoryIsSigned
  <2> QED
    BY <1>1, <2>2, <2>3 DEF StagesAreSigned, AllSigned
<1>8. VerdictKept'
  BY <1>1, <1>2, <1>3 DEF VerdictKept, MyRun
<1> QED
  BY <1>4, <1>5, <1>6, <1>7, <1>8 DEF ProcessInv

\* Before the grant a run that does not wait is the proof's own; after it, the run is
\* where the process has nothing under way that is written, paid for or handed on.
LEMMA LeftAlone ==
  ASSUME ReportInv, ProcessInv, CourseKept', proof' = proof,
         \A q \in DOMAIN runs : LeftToTheProof(q), DOMAIN runs' = DOMAIN runs,
         Alive, proof.at \notin {"tell", "verdict", "ended"}
  PROVE  \/ MyRun' = MyRun /\ Stage' = Stage
         \/ /\ proof.at \in {"turn", "submit"} /\ Granted(MyRun) /\ Granted(MyRun')
            /\ Stage' \notin REAL_STAGES
            /\ "implementation" \in PassedSteps(MyRun) /\ "implementation" \in PassedSteps(MyRun')
<1>1. proof.run \in DOMAIN runs /\ CourseKept
  BY DEF ReportInv, CourseInv, EngineInv, ProcessHasItsRun
<1>2. OnItsWay(MyRun) /\ OnItsWay(MyRun') /\ LeftToTheProof(proof.run)
  <2>1. OnItsWay(MyRun)
    BY <1>1 DEF CourseKept, MyRun
  <2>2. \A q \in DOMAIN runs' : OnItsWay(runs'[q])
    BY DEF CourseKept, OnItsWay, OwnersSign, Granted, IsGrant, IsBehind, OnCourse, PassedSteps
  <2> QED
    BY <1>1, <2>1, <2>2 DEF MyRun
<1>3. Granted(MyRun) \/ MyRun.status = "RUNNING"
  <2>1. proof.at \in InStage \cup {"turn", "submit"}
    BY DEF ProcessInv, LocalsKept, Quiet, CodexPlaces, InStage, Alive
  <2>2. ASSUME proof.at \in InStage PROVE MyRun.status = "RUNNING"
    BY <2>2 DEF ReportInv, StageIsHeld, At
  <2> QED
    BY <2>1, <2>2 DEF ReportInv, StageIsHeld, At, ProcessInv, VerdictKept
<1>4. CASE ~Granted(MyRun)
  <2>1. MyRun' = MyRun
    BY <1>2, <1>3, <1>4 DEF LeftToTheProof, MyRun
  <2> QED
    BY <2>1 DEF Stage
<1>5. CASE Granted(MyRun)
  <2>1. Granted(MyRun')
    BY <1>2, <1>5 DEF LeftToTheProof, MyRun
  <2>2. proof.at \in {"turn", "submit"}
    <3>1. proof.at \in InStage \cup {"turn", "submit"}
      BY DEF ProcessInv, LocalsKept, Quiet, CodexPlaces, InStage, Alive
    <3> QED
      BY <1>5, <3>1 DEF ReportInv, StageIsHeld, At
  <2>3. "implementation" \in REAL_STAGES \cap Steps
    BY CourseFacts
  <2> QED
    BY <1>2, <1>5, <2>1, <2>2, <2>3, GrantedFacts DEF Stage
<1> QED
  BY <1>4, <1>5

LEMMA UntouchedProcess ==
  ASSUME ReportInv, ProcessInv, CourseKept',
         UNCHANGED <<proof, contractVars, treeVars, stored, calls, counts>>,
         DOMAIN runs' = DOMAIN runs, \A q \in DOMAIN runs : LeftToTheProof(q),
         \A a \in DOMAIN approvals :
           a \in DOMAIN approvals' /\ approvals'[a].run_id = approvals[a].run_id
  PROVE  ProcessInv'
<1>1. /\ proof' = proof /\ used' = used /\ spent' = spent /\ wrote' = wrote /\ calls' = calls
      /\ files' = files /\ root' = root /\ git' = git /\ paid' = paid
  BY DEF contractVars, treeVars, counts
<1>2. Alive => proof.run \in DOMAIN runs
  BY DEF ReportInv, CourseInv, EngineInv, ProcessHasItsRun
<1>3. Alive /\ proof.at \notin {"tell", "verdict", "ended"} =>
        \/ MyRun' = MyRun /\ Stage' = Stage
        \/ /\ proof.at \in {"turn", "submit"} /\ Granted(MyRun) /\ Granted(MyRun')
           /\ Stage' \notin REAL_STAGES
           /\ "implementation" \in PassedSteps(MyRun) /\ "implementation" \in PassedSteps(MyRun')
  BY <1>1, LeftAlone
<1>4. proof.at \in InStage => MyRun' = MyRun /\ Stage' = Stage
  BY <1>3 DEF InStage, Alive
<1>5. \A s \in {"implementation", "security"} : Done(s)' <=> Done(s)
  <2>1. \A s \in {"implementation", "security"}, q \in DOMAIN runs :
          s \in PassedSteps(runs'[q]) <=> s \in PassedSteps(runs[q])
    BY CourseFacts DEF LeftToTheProof
  <2> QED
    BY <2>1 DEF Done, PassedSteps
<1>6. LocalsKept'
  <2>1. LocalsKept
    BY DEF ProcessInv
  <2>2. proof.at \in CodexPlaces \cup {"stage"} => Stage' = Stage
    BY <1>4 DEF CodexPlaces, InStage
  <2> QED
    BY <1>1, <2>1, <2>2 DEF LocalsKept
<1>7. PremiumKept'
  <2>1. Allowance' = Allowance
    <3>1. CASE proof.at \in {"nowhere", "tell", "verdict", "ended"}
      BY <1>1, <3>1 DEF Allowance
    <3>2. CASE MyRun' = MyRun /\ Stage' = Stage
      <4>1. Entitled' <=> Entitled
        BY <1>1, <3>2 DEF Entitled, PassedSteps
      <4> QED
        BY <1>1, <3>2, <4>1 DEF Allowance
    <3>3. CASE "implementation" \in PassedSteps(MyRun) /\ "implementation" \in PassedSteps(MyRun')
      <4>1. ~Entitled /\ ~Entitled'
        BY <1>1, <3>3 DEF Entitled, PassedSteps
      <4> QED
        BY <4>1 DEF Allowance
    <3> QED
      BY <1>3, <3>1, <3>2, <3>3 DEF Alive
  <2> QED
    BY <1>1, <2>1 DEF ProcessInv, PremiumKept
<1>8. TreeInv'
  <2>1. Required' = Required /\ Harmless' = Harmless
    BY <1>1, SameTree
  <2>2. TreeKept'
    BY <1>1, <1>5, <2>1 DEF ProcessInv, TreeInv, TreeKept
  <2>3. HandsOn'
    <3>1. HandsOn
      BY DEF ProcessInv, TreeInv
    <3>2. proof.at \in {"stage", "store"} => Stage' = Stage
      BY <1>4 DEF InStage
    <3>3. proof.at = "submit" => Stage' = Stage \/ Stage' \notin {"implementation", "security"}
      BY <1>3, CourseFacts DEF Alive
    <3> QED
      BY <1>1, <2>1, <3>1, <3>2, <3>3 DEF HandsOn
  <2>4. BeginsClean'
    <3>1. BeginsClean
      BY DEF ProcessInv, TreeInv
    <3>2. proof.at \in {"stage", "store"} => Stage' = Stage
      BY <1>4 DEF InStage
    <3>3. proof.at = "submit" => Stage' = Stage \/ Done("implementation")
      BY <1>2, <1>3 DEF Alive, Done, MyRun
    <3> QED
      BY <1>1, <1>5, <3>1, <3>2, <3>3 DEF BeginsClean
  <2> QED
    BY <2>2, <2>3, <2>4 DEF TreeInv
<1>9. StagesAreSigned'
  BY <1>1 DEF ProcessInv, StagesAreSigned
<1>10. VerdictKept'
  <2>1. proof'.at = "turn" => MyRun'.status = "RUNNING" \/ Granted(MyRun')
    <3>1. SUFFICES ASSUME proof.at = "turn" PROVE MyRun'.status = "RUNNING" \/ Granted(MyRun')
      BY <1>1
    <3>2. MyRun.status = "RUNNING" \/ Granted(MyRun)
      BY <3>1 DEF ProcessInv, VerdictKept
    <3> QED
      BY <1>3, <3>1, <3>2 DEF Alive
  <2>2. proof'.at \in {"verdict", "ended"} /\ MyRun'.status = "APPROVAL_REQUIRED" =>
          task' = "APPROVAL_REQUIRED"
    <3>1. SUFFICES ASSUME proof.at \in {"verdict", "ended"}, MyRun'.status = "APPROVAL_REQUIRED"
                   PROVE  task' = "APPROVAL_REQUIRED"
      BY <1>1
    <3>2. LeftToTheProof(proof.run) /\ MyRun' = runs'[proof.run]
      BY <1>1, <1>2, <3>1 DEF Alive, MyRun
    <3>3. MyRun' = MyRun /\ task' = task
      BY <3>1, <3>2 DEF LeftToTheProof, MyRun
    <3> QED
      BY <3>1, <3>3 DEF ProcessInv, VerdictKept
  <2>3. ASSUME proof'.at = "ended", proof'.ok
        PROVE  /\ REAL_STAGES \cap Steps \subseteq PassedSteps(MyRun')
               /\ Feature.steps["implementation"].owner # Feature.steps["code_review"].owner
               /\ \E a \in DOMAIN approvals' : approvals'[a].run_id = proof'.run
               /\ proof'.real => used' \in 1 .. Ceiling
    <3>1. /\ REAL_STAGES \cap Steps \subseteq PassedSteps(MyRun)
          /\ Feature.steps["implementation"].owner # Feature.steps["code_review"].owner
          /\ \E a \in DOMAIN approvals : approvals[a].run_id = proof.run
          /\ proof.real => used \in 1 .. Ceiling
      BY <1>1, <2>3 DEF ProcessInv, VerdictKept
    <3>2. proof.run \in DOMAIN runs /\ MyRun' = runs'[proof.run]
      BY <1>1, <1>2, <2>3 DEF Alive, MyRun
    <3>3. PassedSteps(MyRun) \subseteq PassedSteps(MyRun')
      BY <3>2 DEF MyRun, LeftToTheProof
    <3> QED
      BY <1>1, <3>1, <3>3
  <2> QED
    BY <2>1, <2>2, <2>3 DEF VerdictKept, PassedSteps, Granted, IsGrant
<1> QED
  BY <1>6, <1>7, <1>8, <1>9, <1>10 DEF ProcessInv

LEMMA OthersKeepProcess ==
  ASSUME ReportInv, ProcessInv, Others
  PROVE  ProcessInv'
<1>1. EngineInv /\ CourseInv
  BY DEF ReportInv, CourseInv
<1>2. UNCHANGED <<proof, contractVars, treeVars, stored, calls, counts>>
  BY DEF Others
<1>3. CourseKept' /\ DOMAIN runs' = DOMAIN runs /\ \A q \in DOMAIN runs : LeftToTheProof(q)
  BY <1>1, OthersMove
<1>4. \A a \in DOMAIN approvals : a \in DOMAIN approvals' /\ approvals'[a].run_id = approvals[a].run_id
  BY <1>1, OthersAct, EveryStepKeeps DEF EngineInv, Keeps
<1> QED
  BY <1>2, <1>3, <1>4, UntouchedProcess

LEMMA StutterKeepsProcess ==
  ASSUME ReportInv, ProcessInv, UNCHANGED factoryVars
  PROVE  ProcessInv'
<1>1. /\ UNCHANGED <<proof, contractVars, treeVars, stored, calls, counts>>
      /\ runs' = runs /\ approvals' = approvals /\ task' = task
  BY DEF factoryVars, vars, durable
<1>2. CourseKept' /\ \A q \in DOMAIN runs : LeftToTheProof(q)
  BY <1>1, RunsAreLeft DEF ReportInv, CourseInv
<1> QED
  BY <1>1, <1>2, UntouchedProcess

LEMMA ProofInvKept == ProofInv /\ [FactoryNext]_factoryVars => ProofInv'
<1> SUFFICES ASSUME ProofInv, [FactoryNext]_factoryVars PROVE ProofInv'
  OBVIOUS
<1>1. ReportInv /\ CourseInv /\ CourseKept /\ ProcessInv /\ EngineInv /\ StageIsHeld
  BY DEF ProofInv, ReportInv, CourseInv
<1>2. ReportInv'
  BY <1>1, ReportInvKept
<1>3. SUFFICES ProcessInv'
  BY <1>2 DEF ProofInv
<1>4. CASE UNCHANGED factoryVars
  BY <1>1, <1>4, StutterKeepsProcess
<1>5. CASE Starts
  <2> PICK r \in Run, env \in Env, traits \in Task :
         \/ \E real \in BOOLEAN : LaunchProof(r, real, env, traits)
         \/ ResumeProof(r, env, traits)
    BY <1>5 DEF Starts
  <2>1. ASSUME NEW real \in BOOLEAN, LaunchProof(r, real, env, traits)
        PROVE  ProcessInv'
    BY <1>1, <2>1, LaunchKeepsProcess
  <2>2. CASE ResumeProof(r, env, traits)
    BY <1>1, <2>2, ResumeKeepsProcess
  <2> QED
    BY <2>1, <2>2
<1>6. CASE Works
  <2>1. LocalsKept /\ PremiumKept /\ TreeInv /\ StagesAreSigned /\ VerdictKept
    BY <1>1 DEF ProcessInv
  <2>2. ProcessHasItsRun
    BY <1>1 DEF EngineInv
  <2>3. LocalsKept' /\ PremiumKept' /\ TreeInv'
    BY <1>1, <1>6, <2>1, <2>2, WorkKeepsLocals, WorkKeepsPremium, WorkKeepsTree
  <2>4. StagesAreSigned' /\ VerdictKept'
    BY <1>1, <1>6, <2>1, WorkKeepsSigned, WorkKeepsVerdict
  <2> QED
    BY <2>3, <2>4 DEF ProcessInv
<1>7. CASE SubmitStage
  BY <1>1, <1>7, SubmittingKeepsProcess
<1>8. ASSUME NEW a \in Approval, AskFounder(a)
      PROVE  ProcessInv'
  BY <1>1, <1>8, AskingKeepsProcess
<1>9. CASE Dies
  BY <1>1, <1>9, CrashKeepsProcess
<1>10. CASE Others
  BY <1>1, <1>10, OthersKeepProcess
<1> QED
  BY <1>4, <1>5, <1>6, <1>7, <1>8, <1>9, <1>10
     DEF FactoryNext, ProofStep, SubmitRefused, Crash, Works

LEMMA ProofInvInitially == FactoryInit => ProofInv
<1> SUFFICES ASSUME FactoryInit PROVE ProofInv
  OBVIOUS
<1>1. ReportInv
  BY CourseInvInitially, EmptyIsTable
     DEF FactoryInit, Init, ReportInv, StageIsHeld, At, ReportsPrecedeOutcomes, EmptyTable,
         Nobody, InStage
<1>2. DOMAIN runs = {}
  BY DEF FactoryInit, Init, EmptyTable
<1>3. /\ proof.at = "nowhere" /\ proof.call = "none" /\ proof.repaired = FALSE
      /\ proof.tries = 0 /\ proof.stages = <<>>
      /\ used = 0 /\ spent = 0 /\ wrote = FALSE /\ paid = 0 /\ calls \in Nat
      /\ files = Seed /\ root = None
  BY BudgetAssumption DEF FactoryInit, Nobody, Tree!WorkspaceInit
<1>5. LocalsKept
  <2>1. /\ proof.at \in {"nowhere", "stage", "store"} \cup Quiet \cup CodexPlaces
        /\ proof.at \notin CodexPlaces
    BY <1>3 DEF Quiet, CodexPlaces
  <2>2. used \in Nat /\ spent \in Nat /\ wrote \in BOOLEAN /\ proof.repaired \in BOOLEAN
    BY <1>3
  <2>3. proof.tries \in 0 .. 2
    BY <1>3
  <2> QED
    BY <1>3, <2>1, <2>2, <2>3 DEF LocalsKept
<1>6. PremiumKept
  <2>1. IsFiniteSet(DOMAIN runs) /\ Cardinality(DOMAIN runs) = 0
    BY <1>2, FS_EmptySet
  <2>2. Allowance = 0
    BY <1>3 DEF Allowance
  <2> QED
    BY <1>3, <2>1, <2>2 DEF PremiumKept
<1>7. TreeInv
  BY <1>2, <1>3 DEF TreeInv, TreeKept, HandsOn, BeginsClean, Done, CodexPlaces
<1>8. StagesAreSigned
  BY <1>3 DEF StagesAreSigned, AllSigned
<1>9. VerdictKept
  BY <1>3 DEF VerdictKept
<1> QED
  BY <1>1, <1>5, <1>6, <1>7, <1>8, <1>9 DEF ProofInv, ProcessInv

-------------------------------------------------------------------------------
(***************************************************************************)
(* What a proof promises.                                                  *)
(***************************************************************************)
\* A proof that says ok has earned it, over crashes, resumptions, other providers, the
\* pause and the drive: every gate is in the history, the reviewer is not who
\* implemented, the feature is in the tree and no secret is, and the founder has been
\* asked, which the task says until the founder decides.
THEOREM SuccessIsEarned == FactorySpec => []OkIsEarned
<1>1. ProofInv => OkIsEarned
  <2> SUFFICES ASSUME ProofInv, proof.at = "ended", proof.ok
               PROVE  /\ REAL_STAGES \cap DOMAIN Def[MyRun.workflow_id].steps
                           \subseteq PassedSteps(MyRun)
                      /\ \A i, j \in DOMAIN MyRun.history :
                           MyRun.history[i].step_id = "implementation"
                             /\ MyRun.history[j].step_id = "code_review"
                           => MyRun.history[i].owner # MyRun.history[j].owner
                      /\ Required /\ Harmless
                      /\ \E a \in DOMAIN approvals : approvals[a].run_id = proof.run
                      /\ MyRun.status = "APPROVAL_REQUIRED" => task = "APPROVAL_REQUIRED"
                      /\ proof.real => used \in 1 .. Ceiling
    BY DEF OkIsEarned, At, Required, Harmless
  <2>1. proof.run \in DOMAIN runs
    BY DEF ProofInv, ReportInv, CourseInv, EngineInv, ProcessHasItsRun, Alive
  <2>2. MyRun.workflow_id = "feature-development" /\ OwnersSign(MyRun)
    BY <2>1 DEF ProofInv, ReportInv, CourseInv, CourseKept, OnItsWay, MyRun
  <2>3. /\ REAL_STAGES \cap Steps \subseteq PassedSteps(MyRun)
        /\ Feature.steps["implementation"].owner # Feature.steps["code_review"].owner
        /\ \E a \in DOMAIN approvals : approvals[a].run_id = proof.run
        /\ MyRun.status = "APPROVAL_REQUIRED" => task = "APPROVAL_REQUIRED"
        /\ proof.real => used \in 1 .. Ceiling
    BY DEF ProofInv, ProcessInv, VerdictKept
  <2>4. DOMAIN Def[MyRun.workflow_id].steps = Steps
    BY <2>2 DEF Steps, Feature
  <2>5. \A i, j \in DOMAIN MyRun.history :
          MyRun.history[i].step_id = "implementation" /\ MyRun.history[j].step_id = "code_review"
            => MyRun.history[i].owner # MyRun.history[j].owner
    <3>1. /\ {"implementation", "code_review"} \subseteq Steps
          /\ ~Feature.steps["implementation"].human_approval
          /\ ~Feature.steps["code_review"].human_approval
      BY CourseFacts
    <3> QED
      BY <2>2, <2>3, <3>1 DEF OwnersSign
  <2>6. Done("implementation") /\ Done("security")
    BY <2>1, <2>3, CourseFacts DEF Done, MyRun
  <2>7. Required /\ Harmless
    BY <2>6 DEF ProofInv, ProcessInv, TreeInv, TreeKept
  <2> QED
    BY <2>3, <2>4, <2>5, <2>7
<1> QED
  BY <1>1, ProofInvInitially, ProofInvKept, PTL DEF FactorySpec

\* No stage, and no run of Codex, begins on what one that did not pass left behind.
THEOREM StagesStartClean == FactorySpec => []StagesBeginClean
<1>1. ProofInv => StagesBeginClean
  <2> SUFFICES ASSUME ProofInv, git # "unavailable",
                      proof.at = "probe" \/ (proof.at = "stage" /\ ~wrote)
               PROVE  IF "implementation" \in PassedSteps(MyRun) THEN Required ELSE files = Seed
    BY DEF StagesBeginClean, At, Required
  <2>1. proof.run \in DOMAIN runs
    BY DEF ProofInv, ReportInv, CourseInv, EngineInv, ProcessHasItsRun, Alive
  <2>2. TreeKept /\ BeginsClean
    BY DEF ProofInv, ProcessInv, TreeInv
  <2>3. CASE "implementation" \in PassedSteps(MyRun)
    <3>1. Done("implementation")
      BY <2>1, <2>3 DEF Done, MyRun
    <3> QED
      BY <2>2, <2>3, <3>1 DEF TreeKept
  <2>4. CASE "implementation" \notin PassedSteps(MyRun)
    <3>1. \A q \in DOMAIN runs : q = proof.run
      BY <2>1, OneRunAssumption, RowType DEF ProofInv, ReportInv, CourseInv, EngineInv, Inv, TypeOK
    <3>2. ~Done("implementation")
      BY <2>4, <3>1 DEF Done, MyRun
    <3> QED
      BY <2>2, <2>4, <3>2 DEF BeginsClean
  <2> QED
    BY <2>3, <2>4
<1> QED
  BY <1>1, ProofInvInitially, ProofInvKept, PTL DEF FactorySpec

\* The founder's authorization is used twice for a run, and not again.
THEOREM EscalationIsBounded == FactorySpec => []PremiumIsBounded
<1>1. ProofInv => PremiumIsBounded
  <2> SUFFICES ASSUME ProofInv PROVE PremiumIsBounded
    OBVIOUS
  <2>1. PremiumKept /\ LocalsKept
    BY DEF ProofInv, ProcessInv
  <2>2. PICK p, a, n : p = paid /\ a = Allowance /\ n = Cardinality(DOMAIN runs)
    OBVIOUS
  <2>3. p \in Nat /\ n \in Nat /\ p + a <= 2 * n
    BY <2>1, <2>2, FS_CardinalityType DEF PremiumKept
  <2>4. a \in 0 .. 2
    BY <2>1, <2>2 DEF LocalsKept, Allowance
  <2>5. p <= 2 * n
    BY <2>3, <2>4
  <2> QED
    BY <2>2, <2>5 DEF PremiumIsBounded
<1> QED
  BY <1>1, ProofInvInitially, ProofInvKept, PTL DEF FactorySpec
===============================================================================
