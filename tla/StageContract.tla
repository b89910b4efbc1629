----------------------------- MODULE StageContract -----------------------------
(***************************************************************************)
(* What the proof may expect of a stage that is handed to a model: it      *)
(* reserves its requests one by one from the budget of the whole proof, no *)
(* more than its attempts; it passes, fails, blocks or throws; and a tree  *)
(* it may have written to is one it had a reply for. SoftwareFactory is    *)
(* built on this, StageRunner implements it.                               *)
(***************************************************************************)
EXTENDS Naturals, CallErrors

CONSTANTS Ceiling,     \* of the request budget
          MaxAttempts  \* reservations of one stage

StageOutcome == {"PASS", "FAIL", "BLOCKED", "REQUEST_BUDGET_EXCEEDED"} \cup CallError

VARIABLES working,  \* a stage is under way
          used,     \* reservations of the proof
          spent,    \* reservations of the stage under way
          wrote,    \* the stage under way may have written to the workspace
          verdict   \* how the last stage ended

contractVars == <<working, used, spent, wrote, verdict>>

ContractInit ==
  /\ working \in BOOLEAN /\ used \in 0 .. Ceiling /\ spent = 0
  /\ wrote = FALSE /\ verdict = "PASS"

StartStage ==
  /\ ~working
  /\ working' = TRUE
  /\ UNCHANGED <<used, spent, wrote, verdict>>

ReserveRequest ==
  /\ working
  /\ used < Ceiling /\ spent < MaxAttempts
  /\ used' = used + 1 /\ spent' = spent + 1
  /\ UNCHANGED <<working, wrote, verdict>>

TouchWorkspace ==
  /\ working
  /\ spent > 0
  /\ wrote' = TRUE
  /\ UNCHANGED <<working, used, spent, verdict>>

\* No verdict without a request; no refusal of the budget while there is some left.
EndStage(o) ==
  /\ working
  /\ o = "REQUEST_BUDGET_EXCEEDED" => used = Ceiling
  /\ o # "REQUEST_BUDGET_EXCEEDED" => spent > 0
  /\ working' = FALSE
  /\ verdict' = o
  /\ spent' = 0 /\ wrote' = FALSE
  /\ UNCHANGED used

ContractNext ==
  \/ StartStage
  \/ ReserveRequest
  \/ TouchWorkspace
  \/ \E o \in StageOutcome : EndStage(o)

ContractSpec == ContractInit /\ [][ContractNext]_contractVars
===============================================================================
