----------------------------- MODULE FactorySafety -----------------------------
(***************************************************************************)
(* What the proof run must guarantee, whatever the providers answer, the   *)
(* founder does and the machine it runs on.                                *)
(***************************************************************************)
EXTENDS SoftwareFactory, WorkflowCourse

CONSTANT EveryEnv  \* environments to ask the provider chain about

EveryChain == INSTANCE Providers WITH Env <- EveryEnv

-------------------------------------------------------------------------------
(***************************************************************************)
(* What the run relies on.                                                 *)
(***************************************************************************)
\* feature-development.yml. Its on_pass edges take a run through every real stage
\* before its first human gate, and back to the implementation from none; and behind
\* its gates there is no real stage and no other gate.
Feature == Def["feature-development"]

ASSUME CourseAssumption ==
  /\ {"implementation", "code_review", "security"} \subseteq DOMAIN Feature.steps
  /\ \A t \in REAL_STAGES \cap DOMAIN Feature.steps :
       \E before \in SUBSET DOMAIN Feature.steps : FoundersComeAfter(Feature, t, before)
  /\ \A t \in {"implementation", "security"} :
       \E after \in SUBSET DOMAIN Feature.steps : NoWayBack(Feature, t, "implementation", after)
  /\ \E behind \in SUBSET DOMAIN Feature.steps :
       LiesBehindGates(Feature, behind) /\ behind \cap REAL_STAGES = {}

\* RequestBudget counts up to a number, from the entries of an audit log; a stage
\* has two attempts and one repair.
ASSUME BudgetAssumption == Ceiling \in Nat /\ MaxAttempts = 3 /\ CallsBefore \subseteq Nat

\* The fixture is there, and no secret is in it.
ASSUME FixtureAssumption ==
  Seed # None /\ \A p \in Path : "secret" \notin Tree!TraitsOf(Seed[p])

\* A run has its workspace, its task and its reports to itself (they are named by the
\* id of the task): SoftwareFactory has those of one run.
ASSUME OneRunAssumption == \A r, q \in Run : r = q

\* "openai-compatible" is a kind of provider, and the name of no host.
ASSUME EnvAssumption ==
  /\ \A env \in EveryEnv : env.host # "openai-compatible"
  /\ None # EveryChain!DefaultsForKind("nvidia")
-------------------------------------------------------------------------------

\* A proof that reports success has what it says: every gate of the workflow is
\* passed in the run's own history, by a reviewer who did not implement; the feature
\* is in the tree, with no secret beside it where the change could be computed; and
\* the founder has been asked, and the task says so until the founder has decided. It
\* holds for a run that was interrupted, moved to another provider or paused in
\* between as for one that was not, and stays so while the run is driven on.
OkIsEarned ==
  At("ended") /\ proof.ok =>
    /\ REAL_STAGES \cap DOMAIN Def[MyRun.workflow_id].steps \subseteq PassedSteps(MyRun)
    /\ \A i, j \in DOMAIN MyRun.history :
         MyRun.history[i].step_id = "implementation" /\ MyRun.history[j].step_id = "code_review"
           => MyRun.history[i].owner # MyRun.history[j].owner
    /\ Tree!SourceContainsRequired(PLANS["implementation"])
    /\ git = "works" => \A p \in Path : "secret" \notin Tree!TraitsOf(files[p])
    /\ \E a \in DOMAIN approvals : approvals[a].run_id = proof.run
    /\ MyRun.status = "APPROVAL_REQUIRED" => task = "APPROVAL_REQUIRED"
    /\ proof.real => used \in 1 .. Ceiling

\* Where git is available, no stage begins on what a stage that did not pass left
\* behind: up to the implementation the tree is the fixture, after it the feature is
\* there. A stage done again by the next provider begins where the first one did, and
\* what an interrupted process left half done is never built upon. Without git there
\* is no checkpoint to go back to, and none of this holds.
StagesBeginClean ==
  git # "unavailable" /\ (At("probe") \/ (At("stage") /\ ~wrote)) =>
    IF "implementation" \in PassedSteps(MyRun)
    THEN Tree!SourceContainsRequired(PLANS["implementation"]) ELSE files = Seed

\* The i-th record of a run's history is the founder's, who passed it over a gate.
IsGrant(run, i) ==
  /\ run.history[i].owner = HUMAN_FOUNDER /\ run.history[i].result = "PASS"
  /\ IsHumanGate(run.workflow_id, run.history[i].step_id)

\* Up to the founder's grant, each outcome an agent has in the history of a run has
\* its report in the store, wherever the process died: a resumed proof reads the one
\* for the other, and the founder decides on what is stored. An outcome without a
\* report comes behind a grant in the same history: there the drive that the decision
\* sets off submits for its simulated agents, and stores nothing. That it is the grant
\* which lets such outcomes in is what the property says: no pause, crash, resumption
\* or refused request does.
ReportsPrecedeOutcomes ==
  \A r \in DOMAIN runs : \A i \in DOMAIN runs[r].history :
    runs[r].history[i].owner \in Agents =>
      \/ runs[r].history[i].step_id \in stored
      \/ \E j \in 1 .. i - 1 : IsGrant(runs[r], j)

\* What the founder authorized is one escalation: a primary try and a repair for a
\* run, on the paid provider or by Codex, and no more after quota errors, crashes
\* and resumptions.
PremiumIsBounded == paid <= 2 * Cardinality(DOMAIN runs)

\* The proof, the founder, the pause and the drive together are clients of the workflow
\* engine as WorkflowEngine allows them: whatever holds of every client holds here.
ImplementsEngine == Spec

\* A process that is started ends, or is killed.
ProofEnds == ~NoProcess ~> NoProcess

\* The ceiling of the request budget holds for the run, over an interruption too.
CeilingHoldsAcrossResume == reserved <= Ceiling

-------------------------------------------------------------------------------
\* The chain has no state of its own: it is looked at before a process is started.

\* See Providers: where a proof goes when its quota is used up, and the settings
\* it talks to an endpoint with.
ChainIsUsable ==
  launches = 0 => EveryChain!FallbackIsAnother /\ EveryChain!SettingsFitTheEndpoint
===============================================================================
