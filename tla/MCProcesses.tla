------------------------------ MODULE MCProcesses ------------------------------
(***************************************************************************)
(* Two processes and one run of a definition with a step of each kind that *)
(* drive tells apart: an agent's, a gate, a simulated step behind it, and  *)
(* an agent's step whose failure leads back to implementation and so to a  *)
(* second approval.                                                        *)
(***************************************************************************)
EXTENDS ProcessSafety, TLC

Plain(owner, state, pass, fail) ==
  [owner |-> owner, human_approval |-> FALSE, risk_level |-> 3,
   project_state |-> state, words |-> {}, on_pass |-> pass, on_fail |-> fail]

Delivery ==
  [risk_level |-> 3, first |-> "implement", steps |->
        "implement" :> [Plain("dev", "BUILD", "human_approval", "abort")
                          EXCEPT !.words = {"writes"}]
     @@ "human_approval" :> [Plain(HUMAN_FOUNDER, "APPROVAL", "production", "implement")
                               EXCEPT !.human_approval = TRUE, !.risk_level = 5]
     @@ "production" :> [Plain(HUMAN_FOUNDER, "PRODUCTION", "verify", "abort")
                           EXCEPT !.risk_level = 5]
     @@ "verify" :> Plain("dev", "MONITORING", "end", "implement")]

MCWorkflow == {"delivery"}
MCDef == "delivery" :> Delivery
MCStepId == DOMAIN Delivery.steps
MCIdentity == {"dev", HUMAN_FOUNDER, SYSTEM}
MCAgent == {"dev"}
MCApprover == {HUMAN_FOUNDER}
===============================================================================
