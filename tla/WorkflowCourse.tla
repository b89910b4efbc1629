---------------------------- MODULE WorkflowCourse ----------------------------
(***************************************************************************)
(* The course of a run that only passes steps: where the on_pass edges of  *)
(* its definition may lead it before and after it has passed a step. And   *)
(* where any edge may lead it once the founder has let it through.         *)
(***************************************************************************)
EXTENDS WorkflowEngine

PassesWithin(def, steps, but) ==
  \A s \in steps \ but : def.steps[s].on_pass \in steps \cup TERMINALS

\* Where a run may stand that has not passed t.
LiesBefore(def, t, steps) == def.first \in steps /\ PassesWithin(def, steps, {t})

\* Where it may stand once it has passed t.
LiesAfter(def, t, steps) ==
  /\ def.steps[t].on_pass \in steps \cup TERMINALS
  /\ PassesWithin(def, steps, {})

\* Before t there is no human gate.
FoundersComeAfter(def, t, before) ==
  LiesBefore(def, t, before) /\ \A s \in before \cup {t} : ~def.steps[s].human_approval

\* There is no way back from t to s.
NoWayBack(def, t, s, after) == LiesAfter(def, t, after) /\ s \notin after

\* Where a run may stand that the founder has passed over a human gate, whatever
\* comes of its steps: no gate lies there, and there is no way out.
LiesBehindGates(def, behind) ==
  /\ \A s \in DOMAIN def.steps :
       def.steps[s].human_approval => s \notin behind /\ def.steps[s].on_pass \in behind
  /\ \A s \in behind : {def.steps[s].on_pass, def.steps[s].on_fail} \subseteq behind \cup TERMINALS
===============================================================================
