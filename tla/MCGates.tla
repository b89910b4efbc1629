-------------------------------- MODULE MCGates --------------------------------
(***************************************************************************)
(* The engine over one small definition that has what the loader admits    *)
(* and the shipped definitions hardly combine: a gate behind a gate, a     *)
(* gate that fails into a terminal, and a way back from production to      *)
(* implementation. Several runs share the approvals table.                 *)
(***************************************************************************)
EXTENDS WorkflowSafety, TLC

Plain(owner, state, pass, fail) ==
  [owner |-> owner, human_approval |-> FALSE, risk_level |-> None,
   project_state |-> state, words |-> {}, on_pass |-> pass, on_fail |-> fail]
AtGate(pass, fail) ==
  [Plain(HUMAN_FOUNDER, "APPROVAL", pass, fail) EXCEPT !.human_approval = TRUE, !.risk_level = 5]

Delivery ==
  [risk_level |-> 3, first |-> "implement", steps |->
        "implement"      :> [Plain("dev", "BUILD", "review", "abort") EXCEPT !.words = {"writes"}]
     @@ "review"         :> Plain("reviewer", "REVIEW", "human_approval", "implement")
     @@ "human_approval" :> AtGate("production", "escalate")
     @@ "escalate"       :> AtGate("production", "abort")
     @@ "production"     :> [Plain(HUMAN_FOUNDER, "PRODUCTION", "end", "implement")
                               EXCEPT !.risk_level = 5]]

MCWorkflow == {"delivery"}
MCDef == "delivery" :> Delivery
MCStepId == DOMAIN Delivery.steps
MCIdentity == {"dev", "reviewer", HUMAN_FOUNDER, SYSTEM}
MCApprover == {"dev", HUMAN_FOUNDER}
MCSymmetry == Permutations(Approval) \cup Permutations(Run)
===============================================================================
