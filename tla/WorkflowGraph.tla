---------------------------- MODULE WorkflowGraph ----------------------------
(***************************************************************************)
(* One call of assertWorkflowGraph (runtime/src/registry/                  *)
(* workflow-registry.ts), which every workflow definition must pass to be  *)
(* loaded: its step ids are distinct, its edges resolve, every step can be *)
(* reached and, if it says that it reaches production, a human_approval    *)
(* step dominates its first PRODUCTION step.                               *)
(*                                                                         *)
(* One action per turn of the two search loops. The stack of a loop is a   *)
(* set here: which of its steps is popped next is left open, so what is    *)
(* shown does not rest on the order.                                       *)
(***************************************************************************)
EXTENDS Naturals, Sequences, FiniteSets

CONSTANTS Name,        \* what a step id, on_pass or on_fail may say
          Definition   \* the definitions the loader is given

TERMINALS == {"end", "abort", "done"}

Step == [id : Name, on_pass : Name, on_fail : Name,
         human_approval : BOOLEAN, production : BOOLEAN]

\* What workflow.schema.json guarantees of a definition before it gets here.
ASSUME DefinitionAssumption ==
  \A d \in Definition :
    /\ d.steps \in Seq(Step)
    /\ Len(d.steps) >= 2
    /\ d.reaches_production \in BOOLEAN

VARIABLES w,      \* the definition
          phase,  \* how far the check has come
          seen,   \* ids the current search has seen
          stack   \* ids it has seen but not yet followed

vars == <<w, phase, seen, stack>>

Phase == {"steps", "reach", "dominate", "accepted", "rejected"}

-------------------------------------------------------------------------------
Ids(d) == {d.steps[i].id : i \in DOMAIN d.steps}
StartId(d) == d.steps[1].id

\* byId
StepOf(d, id) == d.steps[CHOOSE i \in DOMAIN d.steps : d.steps[i].id = id]
Successors(d, id) == {StepOf(d, id).on_pass, StepOf(d, id).on_fail} \cap Ids(d)

Barriers(d) == {d.steps[i].id : i \in {j \in DOMAIN d.steps : d.steps[j].human_approval}}
ProductionPlaces(d) == {i \in DOMAIN d.steps : d.steps[i].production}

\* find(): the first PRODUCTION step in the order of the file.
FirstProd(d) ==
  d.steps[CHOOSE i \in ProductionPlaces(d) : \A j \in ProductionPlaces(d) : i <= j].id

IdsAreDistinct(d) ==
  \A i, j \in DOMAIN d.steps : d.steps[i].id = d.steps[j].id => i = j
EdgesResolve(d) ==
  \A i \in DOMAIN d.steps :
    {d.steps[i].on_pass, d.steps[i].on_fail} \subseteq Ids(d) \cup TERMINALS

\* What the search for a way around the gates needs before it starts.
HasGatesAndProduction(d) ==
  Barriers(d) # {} /\ ProductionPlaces(d) # {} /\ StartId(d) \notin Barriers(d)

-------------------------------------------------------------------------------
Init ==
  /\ w \in Definition
  /\ phase = "steps"
  /\ seen = {}
  /\ stack = {}

BeginSearch(name) ==
  /\ phase' = name
  /\ seen' = {StartId(w)}
  /\ stack' = {StartId(w)}
  /\ UNCHANGED w

Conclude(verdict) ==
  /\ phase' = verdict
  /\ UNCHANGED <<w, seen, stack>>

\* The duplicate and the edge check, then on to the search from the first step.
CheckSteps ==
  /\ phase = "steps"
  /\ IF IdsAreDistinct(w) /\ EdgesResolve(w)
     THEN BeginSearch("reach") ELSE Conclude("rejected")

\* Fault: a step is pushed again although it was seen.
FollowSeen(avoided) ==
  /\ \E cur \in stack :
       LET new == Successors(w, cur) \ avoided
       IN  /\ seen' = seen \cup new
           /\ stack' = (stack \ {cur}) \cup new
  /\ UNCHANGED <<w, phase>>

\* One turn of a search: pop a step, push those of its successors that are
\* neither seen nor in `avoided`.
Follow(avoided) ==
  /\ \E cur \in stack :
       LET new == Successors(w, cur) \ (seen \cup avoided)
       IN  /\ seen' = seen \cup new
           /\ stack' = (stack \ {cur}) \cup new
  /\ UNCHANGED <<w, phase>>

Reach == phase = "reach" /\ Follow({})

CheckReach ==
  /\ phase = "reach"
  /\ stack = {}
  /\ IF seen # Ids(w) THEN Conclude("rejected")
     ELSE IF ~w.reaches_production THEN Conclude("accepted")
     ELSE IF HasGatesAndProduction(w) THEN BeginSearch("dominate")
     ELSE Conclude("rejected")

\* Fault: the search for a way around the gates goes through them.
DominateThroughGates == phase = "dominate" /\ Follow({})

\* assertApprovalDominatesProduction: the search that never enters a gate.
Dominate == phase = "dominate" /\ Follow(Barriers(w))

CheckDominance ==
  /\ phase = "dominate"
  /\ stack = {}
  /\ Conclude(IF FirstProd(w) \in seen THEN "rejected" ELSE "accepted")

Decided == phase \in {"accepted", "rejected"}

Next == CheckSteps \/ Reach \/ CheckReach \/ Dominate \/ CheckDominance

\* The call is a loop that runs until it returns or throws.
Spec == Init /\ [][Next]_vars /\ WF_vars(Next)

-------------------------------------------------------------------------------
(***************************************************************************)
(* What the check is for, said without a search.                           *)
(***************************************************************************)

\* S is closed under the edges of d that do not enter a step of `avoided`.
Closed(d, S, avoided) == \A x \in S : Successors(d, x) \ avoided \subseteq S

\* The steps a run can get to from the first step without entering `avoided`.
Reachable(d, avoided) ==
  {x \in Ids(d) : \A S \in SUBSET Ids(d) :
     StartId(d) \in S /\ Closed(d, S, avoided) => x \in S}

IsSound(d) ==
  /\ IdsAreDistinct(d)
  /\ EdgesResolve(d)
  /\ Reachable(d, {}) = Ids(d)
  /\ d.reaches_production =>
       /\ HasGatesAndProduction(d)
       /\ FirstProd(d) \notin Reachable(d, Barriers(d))

\* The verdict of the two depth-first searches is the one the graph deserves,
\* whatever cycles it has: a definition is loaded iff all its edges resolve, all
\* its steps can be reached and no way to its first PRODUCTION step avoids every
\* human_approval step (assertWorkflowGraph).
VerdictIsRight ==
  /\ phase = "accepted" => IsSound(w)
  /\ phase = "rejected" => ~IsSound(w)

\* The searches end on every graph, cyclic ones too: the loader always answers.
LoaderAnswers == <>Decided

TypeOK ==
  /\ w \in Definition
  /\ phase \in Phase
  /\ stack \subseteq seen
  /\ seen \subseteq Ids(w)

\* What the comment on the dominance check says of an accepted definition: a
\* human_approval step dominates every PRODUCTION step, not only the first.
EveryProductionStepIsGated ==
  phase = "accepted" /\ w.reaches_production =>
    \A i \in ProductionPlaces(w) : w.steps[i].id \notin Reachable(w, Barriers(w))
===============================================================================
