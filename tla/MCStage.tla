-------------------------------- MODULE MCStage --------------------------------
(***************************************************************************)
(* Five stages of the proof, each on the workspace it may find, over the   *)
(* grants, risks and tiers of the agents that have these roles.            *)
(***************************************************************************)
EXTENDS StageSafety, ShippedPlans, TLC

MCStages == {"spec_review", "implementation", "code_review", "qa", "security"}
MCPlan == [s \in MCStages |-> PLANS[s]]
MCStageAgent ==
  [spec_review |-> "engineering-director", implementation |-> "backend-engineer",
   code_review |-> "senior-code-reviewer", qa |-> "qa-lead",
   security |-> "application-security-engineer"]
MCStageRisk == [s \in MCStages |-> 4]

Cap(risk) == [risk_level |-> risk, grantable |-> risk < 5]
MCCapabilityDef ==
  ("fs.read" :> Cap(0)) @@ ("fs.write" :> Cap(2)) @@ ("shell.exec_sandbox" :> Cap(2))
    @@ ("git.branch" :> Cap(1)) @@ ("git.commit" :> Cap(1)) @@ ("github.read" :> Cap(0))
    @@ ("github.create_pr" :> Cap(2)) @@ ("github.comment" :> Cap(1))
    @@ ("github.review" :> Cap(2)) @@ ("semgrep.scan" :> Cap(1)) @@ ("playwright.run" :> Cap(1))
    @@ ("deploy.production" :> Cap(5)) @@ ("db.migrate_production" :> Cap(5))

Agent(dept, risk, tier, fallback, allowed) ==
  [department |-> dept, risk_level |-> risk, preferred_model_tier |-> tier,
   fallback_model_tier |-> fallback, allowed_tools |-> allowed,
   forbidden_tools |-> {"deploy.production", "db.migrate_production"}]
MCAgentDef ==
  ("backend-engineer" :> Agent("engineering", 4, 2, 1,
     {"git.branch", "git.commit", "github.read", "github.create_pr", "github.comment",
      "fs.read", "fs.write", "shell.exec_sandbox"}))
    @@ ("senior-code-reviewer" :> Agent("review", 4, 4, 3,
          {"github.read", "github.comment", "github.review", "fs.read",
           "shell.exec_sandbox", "semgrep.scan"}))
    @@ ("qa-lead" :> Agent("quality", 3, 2, 1,
          {"github.read", "github.comment", "fs.read", "shell.exec_sandbox", "playwright.run"}))

MCRiskFloor == [r \in 0 .. 5 |-> CASE r = 0 -> 0 [] r = 1 -> 1 [] r \in {2, 3} -> 2 [] OTHER -> 3]
MCTaskTypeDefault ==
  [config_validation |-> 0, ticket_triage |-> 1, feature_implementation |-> 2,
   architecture_design |-> 3, code_review |-> 4]

\* A source file, a test of it, a file named like a secret, and build output.
File(code, dir, secretLike, output) ==
  [place |-> "inside", secretLike |-> secretLike, code |-> code, dir |-> dir,
   mark |-> None, output |-> output]
Src == File(TRUE, None, FALSE, FALSE)
Tst == File(TRUE, "test", FALSE, FALSE)
Env == File(FALSE, None, TRUE, FALSE)
Out == File(FALSE, None, FALSE, TRUE)
MCPath == {Src, Tst, Env, Out}

MCContent == {"old", "health", "key", "huge"}
MCTraits == [c \in MCContent |-> CASE c = "health" -> {"token"} [] c = "key" -> {"secret"}
                                   [] c = "huge" -> {"token"} [] OTHER -> {}]
MCOversized == {"huge"}

Project(src, tst) ==
  [p \in MCPath |-> CASE p = Src -> src [] p = Tst -> tst [] OTHER -> None]
MCSeed == Project("old", None)
MCTrees ==
  [s \in MCStages |-> IF s \in {"spec_review", "implementation"} THEN {MCSeed}
                      ELSE {Project("health", "old"), Project("key", "old")}]

Result(says, changes, toolCalls) ==
  [keys |-> 10, status |-> says, summary |-> TRUE, reasoningSummary |-> TRUE,
   artifacts |-> None, fileChanges |-> changes, requestedToolCalls |-> toolCalls,
   qualityEvidence |-> None]
Change(path, content) == [path |-> path, operation |-> "modify", content |-> content]
ToolRequest(tool, path, content, find, replace, command) ==
  [tool |-> tool, args_json |-> None,
   args |-> [path |-> path, content |-> content, find |-> find, replace |-> replace,
             command |-> command]]
Text(objects) == [isOneObject |-> Len(objects) = 1, braces |-> objects]

\* The change asked for; without its test; a leak by patch and a command; what no
\* stage may do; a reply that gives up; one bad file among good ones; a fragment.
MCReplies ==
  {Text(<<None, Result("PASS", <<Change(Src, "health"), Change(Tst, "old")>>, None)>>),
   Text(<<Result("PASS", <<Change(Src, "health")>>, None)>>),
   Text(<<Result("PASS", None,
       <<ToolRequest("workspace.patch", Src, None, "health", "key", {}),
         ToolRequest("workspace.exec", None, None, None, None, Tree!NpmTest)>>)>>),
   Text(<<Result("FAIL", <<Change(Env, "old"), Change(Src, "key")>>,
       <<ToolRequest("workspace.exec", None, None, None, None, {"network"}),
         ToolRequest("workspace.delete", Src, None, None, None, {})>>)>>),
   Text(<<Result("BLOCKED", <<>>, <<>>)>>),
   Text(<<Result("PASS", <<Change(Src, "health"), Change(Tst, "huge")>>, None)>>),
   Text(<<None, [Result("PASS", None, None) EXCEPT !.keys = 3, !.status = None]>>)}
===============================================================================
