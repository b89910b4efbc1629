-------------------------------- MODULE Policy --------------------------------
(***************************************************************************)
(* The default-deny decision point (runtime/src/policy/policy-engine.ts),  *)
(* the capability gateway in front of it, the safety classes of the tool   *)
(* registry, the risk classifier and the model router.  All of it is       *)
(* decided from registries that are read once, so it is operators here;    *)
(* StageRunner calls them from its steps.                                  *)
(***************************************************************************)
EXTENDS FiniteSets, Sequences, RiskText

CONSTANTS None,            \* null
          CapabilityDef,   \* tools/capabilities.yml: id -> [grantable, risk_level]
          AgentDef,        \* agents/*.yml: id -> [risk_level, allowed_tools, ...]
          RiskFloor,       \* models/routing.yml risk_floor: 0 .. 5 -> tier
          TaskTypeDefault  \* models/routing.yml task_type_defaults: type -> tier

-------------------------------------------------------------------------------
(***************************************************************************)
(* Safety classes.                                                         *)
(***************************************************************************)
WRITE_CLASSES ==
  {"DEVELOPMENT_WRITE", "DESTRUCTIVE", "EXTERNAL_WRITE", "PRODUCTION_WRITE", "FINANCIAL"}

ClassMembers ==
  [READ_ONLY |->
     {"git.read", "github.read", "fs.read", "db.query_readonly", "infra.plan",
      "secrets.read_dev", "ci.read", "observability.read", "otel.emit",
      "repomix.pack", "semgrep.scan", "trivy.scan", "gitleaks.scan", "osv.scan"},
   DEVELOPMENT_WRITE |->
     {"git.branch", "git.commit", "git.worktree", "fs.write", "shell.exec_sandbox",
      "docker.build", "docker.run_sandbox", "db.migrate_prepare", "deploy.prepare",
      "playwright.run", "promptfoo.eval", "promptfoo.redteam"},
   EXTERNAL_WRITE |->
     {"github.create_issue", "github.comment", "github.create_branch",
      "github.create_pr", "github.review", "db.migrate_staging", "deploy.staging",
      "ci.configure", "observability.configure", "playwright.mcp", "zap.scan",
      "litellm.admin"},
   PRODUCTION_WRITE |->
     {"github.merge", "db.migrate_production", "deploy.production",
      "infra.production_apply", "secrets.production", "secrets.rotate",
      "ci.configure_production"},
   FINANCIAL |-> {"payments.configure", "finance.execute"}]

CommandClassOf(cap) == CHOOSE k \in DOMAIN ClassMembers : cap \in ClassMembers[k]

\* loadToolRegistry throws on a capability it has no class for.
ToolRegistryAssumption ==
  /\ DOMAIN CapabilityDef \subseteq UNION {ClassMembers[k] : k \in DOMAIN ClassMembers}
  /\ \A c \in DOMAIN CapabilityDef :
       /\ CapabilityDef[c].risk_level \in 0 .. 5
       /\ CapabilityDef[c].grantable \in BOOLEAN

-------------------------------------------------------------------------------
(***************************************************************************)
(* PolicyEngine.evaluate: the first rule that matches decides.             *)
(***************************************************************************)
CRITICAL_ACTIONS ==
  {"production_deployment", "merge_protected_main", "production_database_migration",
   "production_database_destructive_operation", "production_data_deletion",
   "production_infrastructure_modification", "secret_creation_rotation_revocation",
   "payment_provider_configuration_change", "real_refund_or_financial_transaction",
   "advertising_budget_modification", "supplier_or_vendor_payment",
   "bulk_customer_messaging", "customer_data_export", "access_control_escalation",
   "critical_security_architecture_change"}

PREP == {"analyze", "plan", "propose", "prepare", "draft", "request_approval"}

\* Rule 3: why an agent may not use a capability at all, whatever it wants it for.
\* The agent is the id of a registered agent, or None for any other caller.
NotGranted(agent, cap) ==
  \/ cap \notin DOMAIN CapabilityDef
  \/ ~CapabilityDef[cap].grantable
  \/ agent = None
  \/ cap \in AgentDef[agent].forbidden_tools
  \/ cap \notin AgentDef[agent].allowed_tools
  \/ CapabilityDef[cap].risk_level > AgentDef[agent].risk_level

Refused(q) ==
  /\ q.capability # None
  /\ \/ NotGranted(q.agent, q.capability)
     \/ q.paused /\ CommandClassOf(q.capability) \in WRITE_CLASSES

\* Rules 5 and 6.
ReservedToTheFounder(q) ==
  \/ /\ q.capability # None
     /\ \/ CommandClassOf(q.capability) \in {"PRODUCTION_WRITE", "FINANCIAL"}
        \/ /\ q.environment = "production"
           /\ CommandClassOf(q.capability) \in WRITE_CLASSES
  \/ q.risk >= 5

IsPreparation(q) == q.capability = None /\ q.action \in PREP

\* Fault: the paused runtime refuses nothing.
EvaluateUnpaused(q) ==
  IF q.action \in CRITICAL_ACTIONS THEN "APPROVAL_REQUIRED"
  ELSE IF IsPreparation(q) THEN "ALLOW"
  ELSE IF q.capability # None /\ NotGranted(q.agent, q.capability) THEN "DENY"
  ELSE IF ReservedToTheFounder(q) THEN "APPROVAL_REQUIRED" ELSE "ALLOW"

Evaluate(q) ==
  IF q.action \in CRITICAL_ACTIONS THEN "APPROVAL_REQUIRED"
  ELSE IF IsPreparation(q) THEN "ALLOW"
  ELSE IF Refused(q) THEN "DENY"
  ELSE IF ReservedToTheFounder(q) THEN "APPROVAL_REQUIRED" ELSE "ALLOW"

\* CapabilityGateway.authorize: looks the agent up and reads the pause flag at
\* the moment of the request. An agent nobody registered is a non-agent caller.
Authorize(agentId, cap, action, risk, environment, isPaused) ==
  Evaluate([agent       |-> IF agentId \in DOMAIN AgentDef THEN agentId ELSE None,
            capability  |-> cap,
            action      |-> action,
            risk        |-> risk,
            environment |-> environment,
            paused      |-> isPaused])

-------------------------------------------------------------------------------
(***************************************************************************)
(* The simulated agent of agent-runner.ts: what a step needs is what its   *)
(* id suggests and the agent was granted; a refusal fails the step.        *)
(* `kinds` are the families of words found in the step's id.               *)
(***************************************************************************)
StepKind == {"builds", "tests", "reviews", "deploys", "migrates"}

NeedsOf(kinds, agent) ==
  LET wanted ==
        UNION {CASE k = "builds"  -> {"fs.write", "git.branch", "git.commit", "github.create_pr"}
                 [] k = "tests"   -> {"shell.exec_sandbox", "semgrep.scan",
                                      "playwright.run", "trivy.scan"}
                 [] k = "reviews" -> {"github.review", "github.comment"}
                 [] OTHER         -> {} : k \in kinds}
      granted == wanted \cap AgentDef[agent].allowed_tools
  IN  IF granted = {} THEN {"github.read"} \cap AgentDef[agent].allowed_tools ELSE granted

\* Capabilities a step must not have; they are asked for and only recorded.
ProbesOf(kinds) ==
  (IF "deploys" \in kinds THEN {"deploy.production"} ELSE {})
    \cup (IF "migrates" \in kinds THEN {"db.migrate_production"} ELSE {})

\* Fault: a probe that is refused counts like a need.
SimulatedOutcomeProbed(agent, kinds, risk, environment, isPaused) ==
  IF \E c \in NeedsOf(kinds, agent) \cup ProbesOf(kinds) :
       Authorize(agent, c, "step", risk, environment, isPaused) = "DENY"
  THEN "FAIL" ELSE "PASS"

SimulatedOutcome(agent, kinds, risk, environment, isPaused) ==
  IF \E c \in NeedsOf(kinds, agent) :
       Authorize(agent, c, "step", risk, environment, isPaused) = "DENY"
  THEN "FAIL" ELSE "PASS"

-------------------------------------------------------------------------------
(***************************************************************************)
(* Model tiers are ranked 0 .. 4: NO_AI, LOW_COST, STANDARD_CODING,        *)
(* ADVANCED_REASONING, CRITICAL_REVIEW.                                    *)
(***************************************************************************)
ModelTier == 0 .. 4
NO_AI == 0
STANDARD_CODING == 2
ADVANCED_REASONING == 3

\* models/routing.yml has a tier for every risk.
ModelRegistryAssumption ==
  /\ RiskFloor \in [0 .. 5 -> ModelTier]
  /\ \A t \in DOMAIN TaskTypeDefault : TaskTypeDefault[t] \in ModelTier

\* validateCrossReferences: an agent is allowed only what may be granted, within its
\* own risk and not forbidden to it, and no agent reaches RISK 5.
AgentRegistryAssumption ==
  /\ None \notin DOMAIN AgentDef /\ None \notin DOMAIN CapabilityDef
  /\ \A a \in DOMAIN AgentDef :
       /\ AgentDef[a].risk_level \in 0 .. 4
       /\ AgentDef[a].preferred_model_tier \in ModelTier
       /\ \A c \in AgentDef[a].allowed_tools :
            /\ c \in DOMAIN CapabilityDef
            /\ CapabilityDef[c].grantable
            /\ CapabilityDef[c].risk_level <= AgentDef[a].risk_level
       /\ AgentDef[a].allowed_tools \cap AgentDef[a].forbidden_tools = {}

MaxTier(a, b) == IF a >= b THEN a ELSE b
RaiseOneTier(t) == IF t < 4 THEN t + 1 ELSE 4

TaskDefault(taskType) ==
  IF taskType \in DOMAIN TaskTypeDefault THEN TaskTypeDefault[taskType] ELSE STANDARD_CODING

AgentCeilingTier(agent) ==
  MaxTier(AgentDef[agent].preferred_model_tier, RiskFloor[AgentDef[agent].risk_level])

\* ModelRouter.route. `raised` says that the complexity, the context, the quality
\* bar or the domain asks for one tier more.
RouteTier(agent, taskType, risk, raised) ==
  LET floor == RiskFloor[risk]
      wish == MaxTier(floor, TaskDefault(taskType))
      tier == IF raised THEN RaiseOneTier(wish) ELSE wish
  IN  IF tier > AgentCeilingTier(agent) THEN MaxTier(floor, AgentCeilingTier(agent)) ELSE tier

FallbackTier(agent, tier) ==
  IF AgentDef[agent].fallback_model_tier <= tier /\ tier > 0
  THEN AgentDef[agent].fallback_model_tier ELSE tier

\* ModelRouter.run: the tiers at which it offers the prompt, in order.
TiersTried(agent, taskType, risk, raised) ==
  LET tier == RouteTier(agent, taskType, risk, raised)
  IN  IF FallbackTier(agent, tier) = tier THEN <<tier>>
                                          ELSE <<tier, FallbackTier(agent, tier)>>

\* RealAgentRunner.routeTier: reviewers and security get a tier more, and a
\* stage routed to no model at all is given the ordinary one.
StageTier(agent, risk) ==
  LET tier == RouteTier(agent, "feature_implementation", risk,
                        AgentDef[agent].department \in {"review", "security"})
  IN  IF tier = NO_AI THEN STANDARD_CODING ELSE tier

-------------------------------------------------------------------------------
\* classifyTask: the first rule whose words the text has names the workflow.
ClassifierRule ==
  <<"incident", "hotfix", "security-finding", "dependency-update",
    "database-migration", "architecture-change", "bugfix", "release">>

ClassifyWorkflow(found) ==
  LET hits == {i \in DOMAIN ClassifierRule : ClassifierRule[i] \in found}
  IN  IF hits = {} THEN "feature-development"
      ELSE ClassifierRule[CHOOSE i \in hits : \A j \in hits : i <= j]

ClassifyRisk(signals, workflowRisk) ==
  ClampRisk(MaxTier(AssessRiskFromText(signals, workflowRisk), workflowRisk))

-------------------------------------------------------------------------------
(***************************************************************************)
(* What these decisions must guarantee, over every query there is.         *)
(***************************************************************************)
Environment == {"development", "sandbox", "staging", "production", "none"}

Query ==
  [agent : DOMAIN AgentDef \cup {None},
   capability : DOMAIN CapabilityDef \cup {None, "no.such_capability"},
   action : {"analyze", "production_deployment", "implementation"},
   risk : 0 .. 5, environment : Environment, paused : BOOLEAN]

\* What runs without anybody's approval is never critical, and when it uses a
\* capability then a registered agent holds it within its own ceiling, it does
\* not write while the runtime is paused, it never writes to production or moves
\* money, and it is below RISK 5 (PolicyEngine.evaluate, all its rules together).
AllowIsEarned ==
  \A q \in Query :
    Evaluate(q) = "ALLOW" =>
      /\ q.action \notin CRITICAL_ACTIONS
      /\ q.risk < 5 \/ IsPreparation(q)
      /\ q.capability # None =>
           /\ q.capability \in DOMAIN CapabilityDef
           /\ q.agent \in DOMAIN AgentDef
           /\ q.capability \in AgentDef[q.agent].allowed_tools \ AgentDef[q.agent].forbidden_tools
           /\ CapabilityDef[q.capability].risk_level <= AgentDef[q.agent].risk_level
           /\ CommandClassOf(q.capability) \notin {"PRODUCTION_WRITE", "FINANCIAL"}
           /\ CommandClassOf(q.capability) \in WRITE_CLASSES =>
                ~q.paused /\ q.environment # "production"

\* The model that serves a step is never cheaper than its risk allows, and dearer
\* than the agent's own ceiling only when the risk itself demands it.
TierWithinBounds ==
  \A agent \in DOMAIN AgentDef, risk \in 0 .. 5, raised \in BOOLEAN,
     taskType \in DOMAIN TaskTypeDefault \cup {"no_such_type"} :
    LET tier == RouteTier(agent, taskType, risk, raised)
    IN  RiskFloor[risk] <= tier /\ tier <= MaxTier(RiskFloor[risk], AgentCeilingTier(agent))

\* An agent whose grants the registry accepts is only ever failed by the pause:
\* that is how a pause that comes between the orchestrator's own check and the
\* agent's request turns into a FAIL of the step (runStep, hardDenied).
OnlyAPauseFailsAStep ==
  \A agent \in DOMAIN AgentDef, kinds \in SUBSET StepKind,
     risk \in 0 .. 5, environment \in {"staging", "sandbox"} :
    /\ SimulatedOutcome(agent, kinds, risk, environment, FALSE) = "PASS"
    /\ "builds" \in kinds /\ "fs.write" \in AgentDef[agent].allowed_tools =>
         SimulatedOutcome(agent, kinds, risk, environment, TRUE) = "FAIL"
===============================================================================
