------------------------------- MODULE MCShipped -------------------------------
(***************************************************************************)
(* The engine over the nine workflow definitions the repository ships.     *)
(***************************************************************************)
EXTENDS WorkflowSafety, WorkflowCourse, ShippedWorkflows, ShippedPlans

MCWorkflow == DOMAIN Shipped
MCDef == Shipped
MCStepId == ShippedSteps
MCIdentity == ShippedOwners \cup {HUMAN_FOUNDER, SYSTEM}
MCApprover == {HUMAN_FOUNDER, "release-manager"}

\* The steps of feature-development in the order its on_pass edges have them: what
\* FactorySafety assumes of it (CourseAssumption) the shipped one has.
Feature == Shipped["feature-development"]
Way[n \in 1 .. Cardinality(DOMAIN Feature.steps)] ==
  IF n = 1 THEN Feature.first
  ELSE LET s == Way[n - 1] IN IF s \in TERMINALS THEN s ELSE Feature.steps[s].on_pass
UpTo(t) == {s \in DOMAIN Feature.steps : \E i, j \in DOMAIN Way : i <= j /\ Way[i] = s /\ Way[j] = t}
BehindIt(t) == {s \in DOMAIN Feature.steps : \E i, j \in DOMAIN Way : i < j /\ Way[i] = t /\ Way[j] = s}

ASSUME ShippedCourse ==
  /\ {"implementation", "code_review", "security"} \subseteq DOMAIN Feature.steps
  /\ \A t \in DOMAIN PLANS \cap DOMAIN Feature.steps : FoundersComeAfter(Feature, t, UpTo(t))
  /\ \A t \in {"implementation", "security"} : NoWayBack(Feature, t, "implementation", BehindIt(t))
  /\ LET behind == BehindIt("human_approval") \cup {"rollback"}
     IN  LiesBehindGates(Feature, behind) /\ behind \cap DOMAIN PLANS = {}

\* And they keep their reviews (KeepsReviews): the steps on the paths from an
\* implementation, none of them through a review that passes.
Unreviewed(w) ==
  LET steps == DOMAIN Shipped[w].steps
      Goes(from) == {StandsAfter(w, [step_id |-> x[1], result |-> x[2]]) :
                       x \in {y \in steps \X {"PASS", "FAIL"} :
                                \/ IsImplementStep(y[1])
                                \/ y[1] \in from /\ ~(IsReviewStep(y[1]) /\ y[2] = "PASS")}}
      Reached[n \in 0 .. Cardinality(steps)] == IF n = 0 THEN {} ELSE Goes(Reached[n - 1])
  IN  Reached[Cardinality(steps)]

ASSUME ShippedReviews == KeepsReviews([w \in MCWorkflow |-> Unreviewed(w)])

MCSymmetry == Permutations(Approval)
===============================================================================
