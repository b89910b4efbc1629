------------------------------ MODULE StageSafety ------------------------------
(***************************************************************************)
(* What a stage on a real model must guarantee.                            *)
(***************************************************************************)
EXTENDS StageRunner

\* A stage that passed did so by evidence that still stands: the tests it had to
\* run were green and nothing was written after them, it wrote the source and the
\* test it had to, the token is in the source now, and no secret is in the change
\* wherever the change could be computed (the tool calls, the test loop and the
\* gates of runStage, in whatever order replies and repairs come).
PassIsEvidenced ==
  outcome = "PASS" =>
    /\ status = "PASS"
    /\ plan.runTests => tests # None /\ Tree!Green(tests) /\ ~stale
    /\ plan.requireWorkspaceChange =>
         \E p \in written : Tree!IsSourceFile(p) /\ files[p] # None
    /\ plan.requireTestChange =>
         \E p \in written : Tree!IsTestFile(p) /\ files[p] # None
    /\ plan.requireInSource =>
         \E p \in Path : p.code /\ "token" \in Tree!TraitsOf(files[p])
    /\ plan.runSecurityScan /\ git = "works" =>
         \A p \in Path : files[p] # Seed[p] => "secret" \notin Tree!TraitsOf(files[p])

\* A pause from another process stops the tools of a stage at once, but for the
\* one call that the gateway had let through already (authorize, then execute).
OneWriteAfterThePause == late <= 1

\* Nothing outside the project and nothing that looks like a secret is written by a
\* tool, and only a stage whose plan offers a tool that writes does write.
ToolsStayInScope ==
  /\ \A p \in written : p.place = "inside" /\ ~p.secretLike
  /\ ~CanWriteStage => written = {}

\* The stage keeps the contract SoftwareFactory relies on: the repair of red tests
\* is one attempt more, and counts in the budget as the others do.
Contract == INSTANCE StageContract WITH
  MaxAttempts <- MaxStructuredRetries + 2,
  working <- pc # "done", wrote <- pc # "done" /\ status # None,
  spent <- IF pc = "done" THEN 0 ELSE spent,
  verdict <- IF outcome = None THEN "PASS" ELSE outcome

ImplementsStageContract == Contract!ContractSpec

\* Every stage ends, whatever the model answers, the tests say and the pause does.
StageEnds == <>(pc = "done")

-------------------------------------------------------------------------------
\* The policy and the router have no state of their own: what they decide is looked
\* at where a stage begins, over every query there is.

\* See Policy: nothing runs by itself that is critical, unearned or paused
\* (PolicyEngine.evaluate).
AllowIsEarned == spent = 0 => Policies!AllowIsEarned

\* See Policy: how a pause turns into the failure of a simulated step (runStep of
\* the simulated agent runner).
OnlyAPauseFailsAStep == spent = 0 => Policies!OnlyAPauseFailsAStep
===============================================================================
