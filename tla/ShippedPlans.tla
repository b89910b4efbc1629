------------------------------ MODULE ShippedPlans ------------------------------
(***************************************************************************)
(* What each stage of the proof may use and must show: PLANS of            *)
(* runtime/src/proof/software-factory.ts. Tokens are in hundreds.          *)
(***************************************************************************)
analysisPlan(maxOutputTokens) ==
  [allowedRuntimeTools    |-> {},
   runTests               |-> FALSE,
   runSecurityScan        |-> FALSE,
   requireWorkspaceChange |-> FALSE,
   requireTestChange      |-> FALSE,
   requireInSource        |-> FALSE,
   repairTestsOnce        |-> FALSE,
   maxOutputTokens        |-> maxOutputTokens]

ImplementationPlan ==
  [allowedRuntimeTools    |-> {"workspace.read", "workspace.list", "workspace.write",
                               "workspace.patch", "workspace.exec"},
   runTests               |-> TRUE,
   runSecurityScan        |-> FALSE,
   requireWorkspaceChange |-> TRUE,
   requireTestChange      |-> TRUE,
   requireInSource        |-> TRUE,
   repairTestsOnce        |-> TRUE,
   maxOutputTokens        |-> 34]

PLANS ==
  [spec_review       |-> analysisPlan(26),
   business_analysis |-> analysisPlan(26),
   architecture      |-> analysisPlan(32),
   plan              |-> analysisPlan(28),
   implementation    |-> ImplementationPlan,
   code_review       |-> [analysisPlan(26) EXCEPT !.allowedRuntimeTools =
                            {"workspace.read", "workspace.list"}],
   qa                |-> [analysisPlan(24) EXCEPT !.runTests = TRUE],
   security          |-> [analysisPlan(26) EXCEPT !.runSecurityScan = TRUE],
   release_review    |-> analysisPlan(24)]
===============================================================================
