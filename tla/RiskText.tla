------------------------------- MODULE RiskText -------------------------------
(***************************************************************************)
(* Risk of a text (runtime/src/policy/risk.ts), from the kinds of words    *)
(* found in it: "critical" is any of RISK5_KEYWORDS, the others are the    *)
(* three softer patterns.                                                  *)
(***************************************************************************)
EXTENDS Integers

TextSignal == {"critical", "structural", "feature", "wording"}

ClampRisk(n) == IF n <= 0 THEN 0 ELSE IF n >= 5 THEN 5 ELSE n

\* Fault: a softer signal sets the risk instead of raising it.
AssessRiskByLastSignal(signals, floor) ==
  IF "wording" \in signals THEN 1
  ELSE IF "feature" \in signals THEN 2
  ELSE IF "structural" \in signals THEN 3
  ELSE IF "critical" \in signals THEN 5 ELSE floor

AssessRiskFromText(signals, floor) ==
  LET lift(r, to) == IF to > r THEN to ELSE r
      r1 == IF "critical" \in signals THEN lift(floor, 5) ELSE floor
      r2 == IF "structural" \in signals THEN lift(r1, 3) ELSE r1
      r3 == IF "feature" \in signals THEN lift(r2, 2) ELSE r2
  IN  IF "wording" \in signals /\ r3 < 2 THEN lift(r3, 1) ELSE r3
===============================================================================
