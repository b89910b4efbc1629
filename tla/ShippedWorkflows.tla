--------------------------- MODULE ShippedWorkflows ---------------------------
(***************************************************************************)
(* The nine workflow definitions the repository ships (workflows/*.yml),   *)
(* step by step. Of a step's text only what the engine's regular           *)
(* expressions look for is kept: whether an ordinary step writes, whether  *)
(* a human_approval step migrates (none of their ids names a deployment).  *)
(* The gate, the inputs and the outputs a step lists are not read by the   *)
(* engine.                                                                 *)
(***************************************************************************)
EXTENDS TLC

LOCAL Step(owner, gate, risk, state, words, pass, fail) ==
  [owner |-> owner, human_approval |-> gate, risk_level |-> risk,
   project_state |-> state, words |-> words, on_pass |-> pass, on_fail |-> fail]

CONSTANT Unset   \* the risk_level of a step that declares none

\* A step of an agent whose text names no write, and one whose text does.
Task(owner, state, pass, fail) == Step(owner, FALSE, Unset, state, {}, pass, fail)
Work(owner, state, pass, fail) == Step(owner, FALSE, Unset, state, {"writes"}, pass, fail)

\* A human_approval step, always the Human Founder's and at RISK 5.
Gate(state, migrates, pass, fail) ==
  Step("human-founder", TRUE, 5, state, IF migrates THEN {"migrates"} ELSE {}, pass, fail)

\* A PRODUCTION step of the Human Founder, at RISK 5.
Ship(writes, pass, fail) ==
  Step("human-founder", FALSE, 5, "PRODUCTION", IF writes THEN {"writes"} ELSE {}, pass, fail)

-------------------------------------------------------------------------------
\* workflows/architecture-change.yml
ArchitectureChange ==
  [risk_level |-> 4, first |-> "proposal", steps |->
        "proposal" :> Work("solution-architect", "SPEC", "impact_review", "abort")
     @@ "impact_review" :> Task("engineering-director", "SPEC", "security_review", "proposal")
     @@ "security_review" :> Task("application-security-engineer", "SECURITY", "human_decision", "proposal")
     @@ "human_decision" :> Gate("APPROVAL", FALSE, "adr", "proposal")
     @@ "adr" :> Task("solution-architect", "PLAN", "ships_code_check", "adr")
     @@ "ships_code_check" :> Task("engineering-director", "PLAN", "handoff_delivery", "close")
     @@ "handoff_delivery" :> Work("engineering-director", "BUILD", "production", "adr")
     @@ "production" :> Ship(TRUE, "verify", "close")
     @@ "verify" :> Work("solution-architect", "PRODUCTION", "close", "close")
     @@ "close" :> Task("solution-architect", "IMPROVEMENT", "end", "abort")]

\* workflows/bugfix.yml
Bugfix ==
  [risk_level |-> 3, first |-> "triage", steps |->
        "triage" :> Task("incident-debug-engineer", "SPEC", "reproduce", "abort")
     @@ "reproduce" :> Task("incident-debug-engineer", "SPEC", "severity", "triage")
     @@ "severity" :> Work("engineering-director", "SPEC", "root_cause", "triage")
     @@ "root_cause" :> Task("incident-debug-engineer", "PLAN", "fix_plan", "reproduce")
     @@ "fix_plan" :> Work("engineering-director", "PLAN", "implement", "root_cause")
     @@ "implement" :> Work("backend-engineer", "BUILD", "self_test", "fix_plan")
     @@ "self_test" :> Task("backend-engineer", "BUILD", "code_review", "implement")
     @@ "code_review" :> Work("senior-code-reviewer", "REVIEW", "regression_test", "implement")
     @@ "regression_test" :> Task("test-automation-engineer", "TEST", "qa", "implement")
     @@ "qa" :> Work("qa-lead", "TEST", "security_if_required", "implement")
     @@ "security_if_required" :> Work("application-security-engineer", "SECURITY", "staging", "implement")
     @@ "staging" :> Work("devops-platform-engineer", "STAGING", "staging_verify", "security_if_required")
     @@ "staging_verify" :> Work("qa-lead", "STAGING", "release_review", "implement")
     @@ "release_review" :> Work("release-manager", "APPROVAL", "human_approval", "implement")
     @@ "human_approval" :> Gate("APPROVAL", FALSE, "production", "implement")
     @@ "production" :> Ship(TRUE, "production_verify", "rollback")
     @@ "production_verify" :> Work("release-manager", "PRODUCTION", "close", "rollback")
     @@ "rollback" :> Ship(FALSE, "close", "abort")
     @@ "close" :> Work("incident-debug-engineer", "MONITORING", "end", "abort")]

\* workflows/database-migration.yml
DatabaseMigration ==
  [risk_level |-> 5, first |-> "design", steps |->
        "design" :> Task("database-engineer", "PLAN", "dry_run", "abort")
     @@ "dry_run" :> Work("database-engineer", "BUILD", "review", "design")
     @@ "review" :> Work("senior-code-reviewer", "REVIEW", "staging_apply", "design")
     @@ "staging_apply" :> Work("database-engineer", "STAGING", "destructive_check", "design")
     @@ "destructive_check" :> Work("database-engineer", "STAGING", "backup_verify", "design")
     @@ "backup_verify" :> Work("devops-platform-engineer", "STAGING", "plan_package", "backup_verify")
     @@ "plan_package" :> Work("database-engineer", "APPROVAL", "human_approval", "design")
     @@ "human_approval" :> Gate("APPROVAL", TRUE, "production_apply", "design")
     @@ "production_apply" :> Ship(TRUE, "verify", "rollback")
     @@ "verify" :> Task("database-engineer", "PRODUCTION", "contract", "rollback")
     @@ "rollback" :> Ship(FALSE, "verify", "abort")
     @@ "contract" :> Work("database-engineer", "MONITORING", "end", "abort")]

\* workflows/dependency-update.yml
DependencyUpdate ==
  [risk_level |-> 3, first |-> "intake", steps |->
        "intake" :> Task("devops-platform-engineer", "PLAN", "scan", "abort")
     @@ "scan" :> Task("application-security-engineer", "SECURITY", "test", "intake")
     @@ "test" :> Task("test-automation-engineer", "TEST", "review", "intake")
     @@ "review" :> Work("senior-code-reviewer", "REVIEW", "route", "intake")
     @@ "route" :> Work("engineering-director", "REVIEW", "release_gate", "auto_merge")
     @@ "auto_merge" :> Gate("STAGING", FALSE, "staging_bake", "release_gate")
     @@ "release_gate" :> Work("release-manager", "APPROVAL", "human_approval", "intake")
     @@ "human_approval" :> Gate("APPROVAL", FALSE, "staging_bake", "intake")
     @@ "staging_bake" :> Work("devops-platform-engineer", "STAGING", "production", "revert")
     @@ "production" :> Ship(TRUE, "verify", "revert")
     @@ "verify" :> Task("sre-observability-engineer", "PRODUCTION", "end", "revert")
     @@ "revert" :> Ship(FALSE, "end", "abort")]

\* workflows/feature-development.yml
FeatureDevelopment ==
  [risk_level |-> 4, first |-> "idea", steps |->
        "idea" :> Task("product-manager", "IDEA", "product_analysis", "abort")
     @@ "product_analysis" :> Task("product-manager", "IDEA", "business_analysis", "idea")
     @@ "business_analysis" :> Task("business-analyst", "SPEC", "spec_review", "product_analysis")
     @@ "spec_review" :> Task("engineering-director", "SPEC", "architecture", "business_analysis")
     @@ "architecture" :> Task("solution-architect", "PLAN", "design", "spec_review")
     @@ "design" :> Task("ux-ui-designer", "DESIGN", "plan", "architecture")
     @@ "plan" :> Task("engineering-director", "PLAN", "implementation", "design")
     @@ "implementation" :> Work("backend-engineer", "BUILD", "self_test", "plan")
     @@ "self_test" :> Work("backend-engineer", "BUILD", "code_review", "implementation")
     @@ "code_review" :> Work("senior-code-reviewer", "REVIEW", "automated_test", "implementation")
     @@ "automated_test" :> Work("test-automation-engineer", "TEST", "qa", "implementation")
     @@ "qa" :> Work("qa-lead", "TEST", "security", "implementation")
     @@ "security" :> Task("application-security-engineer", "SECURITY", "staging", "implementation")
     @@ "staging" :> Work("devops-platform-engineer", "STAGING", "staging_verify", "security")
     @@ "staging_verify" :> Work("qa-lead", "STAGING", "release_review", "implementation")
     @@ "release_review" :> Work("release-manager", "APPROVAL", "human_approval", "implementation")
     @@ "human_approval" :> Gate("APPROVAL", FALSE, "production", "implementation")
     @@ "production" :> Ship(TRUE, "production_verify", "rollback")
     @@ "production_verify" :> Work("release-manager", "PRODUCTION", "monitoring", "rollback")
     @@ "rollback" :> Ship(FALSE, "monitoring", "abort")
     @@ "monitoring" :> Task("sre-observability-engineer", "MONITORING", "end", "rollback")]

\* workflows/hotfix.yml
Hotfix ==
  [risk_level |-> 4, first |-> "assess", steps |->
        "assess" :> Work("engineering-director", "SPEC", "root_cause", "abort")
     @@ "root_cause" :> Task("incident-debug-engineer", "PLAN", "implement", "assess")
     @@ "implement" :> Work("backend-engineer", "BUILD", "self_test", "root_cause")
     @@ "self_test" :> Task("backend-engineer", "BUILD", "code_review", "implement")
     @@ "code_review" :> Work("senior-code-reviewer", "REVIEW", "targeted_test", "implement")
     @@ "targeted_test" :> Task("test-automation-engineer", "TEST", "security_if_required", "implement")
     @@ "security_if_required" :> Work("application-security-engineer", "SECURITY", "staging_verify", "implement")
     @@ "staging_verify" :> Work("devops-platform-engineer", "STAGING", "release_review", "implement")
     @@ "release_review" :> Work("release-manager", "APPROVAL", "human_approval", "implement")
     @@ "human_approval" :> Gate("APPROVAL", FALSE, "production", "implement")
     @@ "production" :> Ship(TRUE, "verify", "rollback")
     @@ "verify" :> Work("release-manager", "PRODUCTION", "backport", "rollback")
     @@ "rollback" :> Ship(FALSE, "backport", "abort")
     @@ "backport" :> Work("engineering-director", "IMPROVEMENT", "end", "abort")]

\* workflows/incident.yml
Incident ==
  [risk_level |-> 5, first |-> "detect", steps |->
        "detect" :> Task("sre-observability-engineer", "MONITORING", "classify", "abort")
     @@ "classify" :> Task("sre-observability-engineer", "MONITORING", "triage", "detect")
     @@ "triage" :> Task("incident-debug-engineer", "SECURITY", "contain_if_needed", "classify")
     @@ "contain_if_needed" :> [Work("incident-debug-engineer", "SECURITY", "collect_evidence", "escalate_containment") EXCEPT !.risk_level = 4]
     @@ "escalate_containment" :> Gate("SECURITY", FALSE, "collect_evidence", "collect_evidence")
     @@ "collect_evidence" :> Work("incident-debug-engineer", "SECURITY", "root_cause", "triage")
     @@ "root_cause" :> Task("incident-debug-engineer", "PLAN", "fix", "collect_evidence")
     @@ "fix" :> Work("incident-debug-engineer", "BUILD", "test", "root_cause")
     @@ "test" :> Task("test-automation-engineer", "TEST", "review", "fix")
     @@ "review" :> Work("senior-code-reviewer", "REVIEW", "staging", "fix")
     @@ "staging" :> Work("devops-platform-engineer", "STAGING", "human_approval", "fix")
     @@ "human_approval" :> Gate("APPROVAL", FALSE, "deploy", "fix")
     @@ "deploy" :> Ship(TRUE, "verify", "rollback")
     @@ "verify" :> Task("sre-observability-engineer", "PRODUCTION", "monitor", "rollback")
     @@ "rollback" :> Ship(FALSE, "monitor", "abort")
     @@ "monitor" :> Task("sre-observability-engineer", "MONITORING", "postmortem", "rollback")
     @@ "postmortem" :> Task("incident-debug-engineer", "IMPROVEMENT", "end", "postmortem")]

\* workflows/release.yml
Release ==
  [risk_level |-> 5, first |-> "assemble", steps |->
        "assemble" :> Task("release-manager", "APPROVAL", "gate_build", "abort")
     @@ "gate_build" :> Task("devops-platform-engineer", "APPROVAL", "gate_tests", "fail_back")
     @@ "gate_tests" :> Task("test-automation-engineer", "APPROVAL", "gate_qa", "fail_back")
     @@ "gate_qa" :> Work("qa-lead", "APPROVAL", "gate_security", "fail_back")
     @@ "gate_security" :> Task("application-security-engineer", "APPROVAL", "gate_migration", "fail_back")
     @@ "gate_migration" :> Work("database-engineer", "APPROVAL", "gate_backup", "fail_back")
     @@ "gate_backup" :> Task("devops-platform-engineer", "APPROVAL", "gate_rollback", "fail_back")
     @@ "gate_rollback" :> Task("devops-platform-engineer", "APPROVAL", "gate_release_review", "fail_back")
     @@ "gate_release_review" :> Work("release-manager", "APPROVAL", "human_approval", "fail_back")
     @@ "human_approval" :> Gate("APPROVAL", FALSE, "production", "fail_back")
     @@ "production" :> Ship(TRUE, "production_verify", "fail_back")
     @@ "production_verify" :> Work("release-manager", "PRODUCTION", "end", "fail_back")
     @@ "fail_back" :> Work("engineering-director", "BUILD", "end", "abort")]

\* workflows/security-finding.yml
SecurityFinding ==
  [risk_level |-> 5, first |-> "intake", steps |->
        "intake" :> Task("application-security-engineer", "SECURITY", "triage", "abort")
     @@ "triage" :> Work("application-security-engineer", "SECURITY", "exploited_check", "intake")
     @@ "exploited_check" :> Work("application-security-engineer", "SECURITY", "disclosure_plan", "handoff_incident")
     @@ "handoff_incident" :> Task("incident-debug-engineer", "SECURITY", "end", "abort")
     @@ "disclosure_plan" :> Work("application-security-engineer", "SECURITY", "escalate", "triage")
     @@ "escalate" :> Gate("SECURITY", FALSE, "fix_plan", "disclosure_plan")
     @@ "fix_plan" :> Work("solution-architect", "PLAN", "implement", "escalate")
     @@ "implement" :> Work("backend-engineer", "BUILD", "verify_fix", "fix_plan")
     @@ "verify_fix" :> Work("application-security-engineer", "TEST", "review", "implement")
     @@ "review" :> Work("senior-code-reviewer", "REVIEW", "regression", "implement")
     @@ "regression" :> Work("qa-lead", "TEST", "staging", "implement")
     @@ "staging" :> Work("devops-platform-engineer", "STAGING", "release_review", "implement")
     @@ "release_review" :> Work("release-manager", "APPROVAL", "human_approval", "implement")
     @@ "human_approval" :> Gate("APPROVAL", FALSE, "production", "implement")
     @@ "production" :> Ship(TRUE, "verify", "rollback")
     @@ "verify" :> Work("application-security-engineer", "PRODUCTION", "disclose", "rollback")
     @@ "rollback" :> Ship(FALSE, "disclose", "abort")
     @@ "disclose" :> Task("application-security-engineer", "IMPROVEMENT", "end", "disclose")]

-------------------------------------------------------------------------------
\* The registry by workflow id.
Shipped ==
     "architecture-change" :> ArchitectureChange
  @@ "bugfix"              :> Bugfix
  @@ "database-migration"  :> DatabaseMigration
  @@ "dependency-update"   :> DependencyUpdate
  @@ "feature-development" :> FeatureDevelopment
  @@ "hotfix"              :> Hotfix
  @@ "incident"            :> Incident
  @@ "release"             :> Release
  @@ "security-finding"    :> SecurityFinding

ShippedSteps == UNION {DOMAIN Shipped[w].steps : w \in DOMAIN Shipped}

ShippedOwners ==
  UNION {{Shipped[w].steps[s].owner : s \in DOMAIN Shipped[w].steps} : w \in DOMAIN Shipped}
===============================================================================
