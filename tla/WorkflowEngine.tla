---------------------------- MODULE WorkflowEngine ----------------------------
(***************************************************************************)
(* The gated state machine of runtime/src/workflows/workflow-engine.ts,    *)
(* composed with the Human Approval Engine and the global pause of         *)
(* runtime/src/state/runtime-control.ts.                                   *)
(*                                                                         *)
(* Next lets any client call any method at any time, so whatever holds     *)
(* here holds whoever drives the engine: the Orchestrator, the proofs or a *)
(* test. A method runs to completion before the next one starts; module    *)
(* OrchestratorProcesses takes them apart at their reads and writes.       *)
(***************************************************************************)
EXTENDS ApprovalEngine, Naturals, Sequences, FiniteSets

CONSTANTS Workflow,   \* ids of the registered workflow definitions
          Def,        \* Def[w]: the definition of workflow w
          MaxFail     \* bound on the FAIL outcomes submitted to one run

VARIABLES runs,       \* the runs table
          paused      \* the flag runtime.paused

vars == <<approvals, due, runs, paused>>

-------------------------------------------------------------------------------
(***************************************************************************)
(* Workflow definitions. `words` holds what the regular expressions of the *)
(* engine look for in a step's text: "writes" (stepWrites, on id and       *)
(* action), "deploys" and "migrates" (criticalActionFor).                  *)
(***************************************************************************)
TERMINALS == {"end", "abort", "done"}

ProjectState ==
  {"IDEA", "SPEC", "PLAN", "DESIGN", "BUILD", "REVIEW", "TEST", "SECURITY",
   "STAGING", "APPROVAL", "HUMAN_APPROVAL_REQUIRED", "PRODUCTION",
   "MONITORING", "IMPROVEMENT"}

RiskLevel == 0 .. 5

WorkflowStep ==
  [owner : Identity, human_approval : BOOLEAN,
   risk_level : RiskLevel \cup {None}, project_state : ProjectState \cup {None},
   on_pass : StepId \cup TERMINALS, on_fail : StepId \cup TERMINALS,
   words : SUBSET {"writes", "deploys", "migrates"}]

\* What the loader leaves of a definition: its steps, and edges that resolve.
IsDefinition(d) ==
  /\ DOMAIN d.steps \subseteq StepId
  /\ d.first \in DOMAIN d.steps
  /\ d.risk_level \in RiskLevel
  /\ \A s \in DOMAIN d.steps :
       /\ d.steps[s] \in WorkflowStep
       /\ {d.steps[s].on_pass, d.steps[s].on_fail} \subseteq DOMAIN d.steps \cup TERMINALS

ASSUME DefAssumption == \A w \in Workflow : IsDefinition(Def[w])
ASSUME StepIdAssumption == StepId \cap TERMINALS = {}
ASSUME BoundAssumption == MaxFail \in Nat

EffectiveRisk(w, s) ==
  IF Def[w].steps[s].risk_level = None THEN Def[w].risk_level
                                       ELSE Def[w].steps[s].risk_level

NeedsApproval(w, s) ==
  \/ Def[w].steps[s].owner = HUMAN_FOUNDER
  \/ EffectiveRisk(w, s) >= 5
  \/ Def[w].steps[s].project_state = "PRODUCTION"

IsHumanGate(w, s) == Def[w].steps[s].human_approval
StepWrites(w, s) == "writes" \in Def[w].steps[s].words
IsReviewStep(s) == s \in {"code_review", "review"}
IsImplementStep(s) == s \in {"implementation", "implement", "fix", "design", "adr"}

CriticalActionFor(w, s) ==
  LET step == Def[w].steps[s]
  IN  CASE step.project_state = "PRODUCTION" \/ "deploys" \in step.words
             -> "production_deployment"
        [] step.project_state # "PRODUCTION" /\ "deploys" \notin step.words
           /\ "migrates" \in step.words
             -> "production_database_migration"
        [] OTHER
             -> IF w = "architecture-change"
                THEN "critical_security_architecture_change"
                ELSE "production_deployment"

-------------------------------------------------------------------------------
RunStatus == {"RUNNING", "APPROVAL_REQUIRED", "BLOCKED", "PAUSED",
              "REJECTED", "COMPLETED", "ABORTED"}

StepRecord == [step_id : StepId, owner : Identity, result : {"PASS", "FAIL"}]

WorkflowRun ==
  [workflow_id : Workflow, current_step : StepId, status : RunStatus,
   project_state : ProjectState \cup {None}, history : Seq(StepRecord),
   pending_approval_id : Approval \cup {None}]

TypeOK ==
  /\ ApprovalTypeOK
  /\ IsTable(runs, Run, WorkflowRun)
  /\ \A r \in DOMAIN runs :
       runs[r].current_step \in DOMAIN Def[runs[r].workflow_id].steps
  /\ paused \in BOOLEAN

Init ==
  /\ ApprovalInit
  /\ runs = EmptyTable
  /\ paused = FALSE

\* The definition of a run's current step.
StepOf(run) == Def[run.workflow_id].steps[run.current_step]
AtHumanGate(run) == IsHumanGate(run.workflow_id, run.current_step)

\* pushHistory: the record the outcome of a run's current step leaves.
Record(run, by, result) ==
  [step_id |-> run.current_step, owner |-> by, result |-> result]

\* Fault: the run is moved onto a terminal as if it were a step.
TransitionOntoTerminal(run, target, tentative, record) ==
  [run EXCEPT !.current_step = target, !.status = tentative,
              !.history = Append(@, record), !.pending_approval_id = None]

\* Fault: the request that opened the gate stays with the run.
TransitionKeepingRequest(run, target, tentative, record) ==
  LET ends == target \in TERMINALS
  IN [run EXCEPT !.current_step = IF ends THEN @ ELSE target,
                 !.status = IF ends THEN "COMPLETED" ELSE tentative,
                 !.history = Append(@, record)]

\* transition(): the run after `record`, sent along the edge to `target`. A
\* terminal target parks the run on the step it came from.
Transition(run, target, tentative, record) ==
  LET next == Def[run.workflow_id].steps[target]
      ends == target \in TERMINALS
  IN [run EXCEPT
        !.current_step = IF ends THEN @ ELSE target,
        !.status = IF ~ends THEN tentative
                   ELSE IF target = "abort" THEN "ABORTED"
                   ELSE IF record.result = "FAIL" /\ tentative = "REJECTED"
                        THEN "REJECTED" ELSE "COMPLETED",
        !.project_state = IF ends THEN @
                          ELSE IF next.project_state = None THEN @
                          ELSE next.project_state,
        !.history = Append(@, record),
        !.pending_approval_id = None]

\* runHasApproval: some APPROVED request of this run, decided by the founder.
RunHasApproval(r) ==
  \E a \in DOMAIN approvals :
    /\ approvals[a].run_id = r
    /\ approvals[a].state = "APPROVED"
    /\ approvals[a].decided_by = HUMAN_FOUNDER

\* Those who have a record on an implementation step of the run.
Implementers(run) ==
  {run.history[i].owner :
     i \in {j \in DOMAIN run.history : IsImplementStep(run.history[j].step_id)}}

LastOwner(run) ==
  IF run.history = <<>> THEN SYSTEM ELSE run.history[Len(run.history)].owner

-------------------------------------------------------------------------------
\* start(task, workflow)
NewRun(w) ==
  [workflow_id |-> w, current_step |-> Def[w].first, status |-> "RUNNING",
   project_state |-> Def[w].steps[Def[w].first].project_state,
   history |-> <<>>, pending_approval_id |-> None]

Start(r, w) ==
  /\ r \notin DOMAIN runs
  /\ runs' = Upsert(runs, r, NewRun(w))
  /\ UNCHANGED <<approvals, due, paused>>

\* The run once parked on the request a.
Parked(run, a) ==
  [run EXCEPT !.status = "APPROVAL_REQUIRED",
              !.project_state = "HUMAN_APPROVAL_REQUIRED",
              !.pending_approval_id = a]

\* What is asked of the founder for the run r, read as `run`, at its gate.
GateRequest(r, run, expires) ==
  NewRequest(r, run.current_step, LastOwner(run),
             CriticalActionFor(run.workflow_id, run.current_step), expires)

\* Fault: a second request is made while the first is still PENDING.
OpenAnother(r, a, expires) ==
  /\ r \in DOMAIN runs
  /\ a \notin DOMAIN approvals
  /\ AtHumanGate(runs[r])
  /\ approvals' = Upsert(approvals, a, GateRequest(r, runs[r], expires))
  /\ runs' = Upsert(runs, r, Parked(runs[r], a))
  /\ UNCHANGED <<due, paused>>

\* openApproval(runId, packet): a new request a, unless the one the run already
\* waits for is still PENDING when read.
OpenApproval(r, a, expires) ==
  /\ r \in DOMAIN runs
  /\ a \notin DOMAIN approvals
  /\ AtHumanGate(runs[r])
  /\ LET run == runs[r]
         p == run.pending_approval_id
         seen == IF p = None THEN approvals ELSE Upsert(approvals, p, ExpireIfDue(p))
     IN  /\ p # None => seen[p].state # "PENDING"
         /\ approvals' = Upsert(seen, a, GateRequest(r, run, expires))
         /\ runs' = Upsert(runs, r, Parked(run, a))
  /\ UNCHANGED <<due, paused>>

\* Fault: whatever is not a rejection counts as an approval.
AfterNoRejection(run, state) ==
  CASE state = "PENDING"  -> run
    [] state = "REJECTED" -> Transition(run, StepOf(run).on_fail, "REJECTED",
                                        Record(run, HUMAN_FOUNDER, "FAIL"))
    [] OTHER              -> Transition(run, StepOf(run).on_pass, "RUNNING",
                                        Record(run, HUMAN_FOUNDER, "PASS"))

\* Fault: every decision counts as an approval.
AfterAnyDecision(run, state) ==
  IF state = "PENDING" THEN run
  ELSE Transition(run, StepOf(run).on_pass, "RUNNING", Record(run, HUMAN_FOUNDER, "PASS"))

\* Fault: only an approval moves the run.
AfterApprovalOnly(run, state) ==
  IF state = "APPROVED"
  THEN Transition(run, StepOf(run).on_pass, "RUNNING", Record(run, HUMAN_FOUNDER, "PASS"))
  ELSE run

\* What resumeAfterApproval makes of a run whose request reads `state`.
AfterDecision(run, state) ==
  CASE state = "PENDING"  -> run
    [] state = "APPROVED" -> Transition(run, StepOf(run).on_pass, "RUNNING",
                                        Record(run, HUMAN_FOUNDER, "PASS"))
    [] OTHER              -> Transition(run, StepOf(run).on_fail, "REJECTED",
                                        Record(run, HUMAN_FOUNDER, "FAIL"))

ResumeAfterApproval(r) ==
  /\ r \in DOMAIN runs
  /\ runs[r].status = "APPROVAL_REQUIRED"
  /\ runs[r].pending_approval_id # None
  /\ LET p == runs[r].pending_approval_id
     IN  /\ approvals' = Upsert(approvals, p, ExpireIfDue(p))
         /\ runs' = Upsert(runs, r, AfterDecision(runs[r], ExpireIfDue(p).state))
  /\ UNCHANGED <<due, paused>>

-------------------------------------------------------------------------------
(***************************************************************************)
(* submitOutcome(runId, outcome): refused unless the run is RUNNING on an  *)
(* ordinary step of the submitter, who reviews only what others have       *)
(* implemented; then one of three ends.                                    *)
(***************************************************************************)
\* Fault: an outcome is accepted for a human_approval step.
MaySubmitAtGate(run, agent) ==
  /\ run.status = "RUNNING"
  /\ agent = StepOf(run).owner
  /\ IsReviewStep(run.current_step) => agent \notin Implementers(run)

\* Fault: an outcome is accepted whatever the status of the run.
MaySubmitWhenHalted(run, agent) ==
  /\ ~AtHumanGate(run)
  /\ agent = StepOf(run).owner
  /\ IsReviewStep(run.current_step) => agent \notin Implementers(run)

MaySubmit(run, agent) ==
  /\ run.status = "RUNNING"
  /\ ~AtHumanGate(run)
  /\ agent = StepOf(run).owner
  /\ IsReviewStep(run.current_step) => agent \notin Implementers(run)

HaltedByPause(run) == paused /\ StepWrites(run.workflow_id, run.current_step)

LacksApproval(r, run, result) ==
  /\ result = "PASS"
  /\ NeedsApproval(run.workflow_id, run.current_step)
  /\ ~RunHasApproval(r)

Fails(run) == Cardinality({i \in DOMAIN run.history : run.history[i].result = "FAIL"})

\* Fault: a failed step is followed by what follows a passed one.
AdvancedRegardless(run, agent, result) ==
  Transition(run, StepOf(run).on_pass, "RUNNING", Record(run, agent, result))

Advanced(run, agent, result) ==
  LET target == IF result = "PASS" THEN StepOf(run).on_pass ELSE StepOf(run).on_fail
  IN  Transition(run, target,
                 IF result = "FAIL" /\ target = "abort" THEN "ABORTED" ELSE "RUNNING",
                 Record(run, agent, result))

\* The run r, read as `run`, after the outcome `result` of its current step.
AfterOutcome(r, run, agent, result) ==
  IF HaltedByPause(run) THEN [run EXCEPT !.status = "PAUSED"]
  ELSE IF LacksApproval(r, run, result) THEN [run EXCEPT !.status = "BLOCKED"]
  ELSE Advanced(run, agent, result)

SubmitOutcome(r, agent, result) ==
  /\ r \in DOMAIN runs
  /\ MaySubmit(runs[r], agent)
  /\ result = "FAIL" => Fails(runs[r]) < MaxFail
  /\ runs' = Upsert(runs, r, AfterOutcome(r, runs[r], agent, result))
  /\ UNCHANGED <<approvals, due, paused>>

-------------------------------------------------------------------------------
\* RuntimeControl.pause() and resume(), each a no-op when already done.
Pause  == ~paused /\ paused' = TRUE  /\ UNCHANGED <<approvals, due, runs>>
Resume ==  paused /\ paused' = FALSE /\ UNCHANGED <<approvals, due, runs>>

Next ==
  \/ \E r \in Run, w \in Workflow : Start(r, w)
  \/ \E r \in Run, a \in Approval, expires \in BOOLEAN : OpenApproval(r, a, expires)
  \/ \E r \in Run : ResumeAfterApproval(r)
  \/ \E r \in Run, agent \in Identity, result \in {"PASS", "FAIL"} :
       SubmitOutcome(r, agent, result)
  \/ ApprovalNext /\ UNCHANGED <<runs, paused>>
  \/ Pause
  \/ Resume

Spec == Init /\ [][Next]_vars
===============================================================================
