------------------------- MODULE WorkflowGraphProofs -------------------------
(***************************************************************************)
(* The loader's verdict is right for every definition the schema admits,   *)
(* of any size.                                                            *)
(***************************************************************************)
EXTENDS WorkflowGraph, TLAPS

\* What holds between two turns of a search that enters no step of `avoided`:
\* it has seen only what can be reached, and whatever it has popped has been
\* followed.
Searching(avoided) ==
  /\ StartId(w) \in seen
  /\ stack \subseteq seen
  /\ seen \subseteq Reachable(w, avoided)
  /\ \A x \in seen \ stack : Successors(w, x) \ avoided \subseteq seen

\* Before the dominance search everything checked so far is in order.
PassedReach ==
  /\ IdsAreDistinct(w)
  /\ EdgesResolve(w)
  /\ Reachable(w, {}) = Ids(w)

Inv ==
  /\ TypeOK
  /\ phase = "reach" => IdsAreDistinct(w) /\ EdgesResolve(w) /\ Searching({})
  /\ phase = "dominate" => /\ PassedReach
                           /\ w.reaches_production
                           /\ HasGatesAndProduction(w)
                           /\ Searching(Barriers(w))
  /\ VerdictIsRight

-------------------------------------------------------------------------------
\* The first step of a definition has an id of the definition's.
LEMMA StartIsAStep ==
  ASSUME NEW d \in Definition
  PROVE  StartId(d) \in Ids(d)
<1>1. 1 \in DOMAIN d.steps
  BY DefinitionAssumption
<1> QED
  BY <1>1 DEF StartId, Ids

\* A search has seen all it can when nothing is left to follow (the two while
\* loops of workflow-registry.ts).
LEMMA SearchIsComplete ==
  ASSUME NEW avoided, TypeOK, Searching(avoided), stack = {}
  PROVE  seen = Reachable(w, avoided)
<1>1. Closed(w, seen, avoided) /\ seen \in SUBSET Ids(w) /\ StartId(w) \in seen
  BY DEF Searching, Closed, TypeOK
<1>2. Reachable(w, avoided) \subseteq seen
  BY <1>1 DEF Reachable
<1> QED
  BY <1>2 DEF Searching

\* A search begins with the first step seen.
LEMMA SearchBegins ==
  ASSUME NEW avoided, TypeOK, seen' = {StartId(w)}, stack' = {StartId(w)}, w' = w
  PROVE  /\ StartId(w) \in seen'
         /\ stack' \subseteq seen'
         /\ seen' \subseteq Reachable(w, avoided)
         /\ \A x \in seen' \ stack' : Successors(w, x) \ avoided \subseteq seen'
<1>1. StartId(w) \in Reachable(w, avoided)
  BY StartIsAStep DEF Reachable, TypeOK
<1> QED
  BY <1>1

\* What can be reached is closed under the edges it was reached by.
LEMMA ReachableIsClosed ==
  ASSUME NEW avoided, NEW x \in Reachable(w, avoided)
  PROVE  Successors(w, x) \ avoided \subseteq Reachable(w, avoided)
  BY DEF Reachable, Closed, Successors

\* One turn of a search keeps what holds between the turns.
LEMMA FollowKeepsSearching ==
  ASSUME NEW avoided, TypeOK, Searching(avoided), Follow(avoided)
  PROVE  /\ w' = w /\ phase' = phase
         /\ stack' \subseteq seen' /\ seen' \subseteq Ids(w)
         /\ StartId(w) \in seen'
         /\ seen' \subseteq Reachable(w, avoided)
         /\ \A x \in seen' \ stack' : Successors(w, x) \ avoided \subseteq seen'
<1> PICK cur \in stack :
       LET new == Successors(w, cur) \ (seen \cup avoided)
       IN  /\ seen' = seen \cup new
           /\ stack' = (stack \ {cur}) \cup new
  BY DEF Follow
<1> DEFINE new == Successors(w, cur) \ (seen \cup avoided)
<1>1. seen' = seen \cup new /\ stack' = (stack \ {cur}) \cup new
  OBVIOUS
<1>2. cur \in Reachable(w, avoided)
  BY DEF Searching
<1>3. new \subseteq Reachable(w, avoided)
  BY <1>2, ReachableIsClosed
<1>4. \A x \in seen' \ stack' : Successors(w, x) \ avoided \subseteq seen'
  BY <1>1 DEF Searching
<1>5. Reachable(w, avoided) \subseteq Ids(w)
  BY DEF Reachable
<1> HIDE DEF new
<1>6. w' = w /\ phase' = phase
  BY DEF Follow
<1> QED
  BY <1>1, <1>3, <1>4, <1>5, <1>6 DEF Searching

-------------------------------------------------------------------------------
LEMMA InvInitially == Init => Inv
  BY DEF Init, Inv, TypeOK, VerdictIsRight, Phase

\* The duplicate and the edge check.
LEMMA CheckStepsKeepsInv ==
  ASSUME Inv, CheckSteps
  PROVE  Inv'
<1>1. CASE IdsAreDistinct(w) /\ EdgesResolve(w)
  <2>1. phase' = "reach" /\ seen' = {StartId(w)} /\ stack' = {StartId(w)} /\ w' = w
    BY <1>1 DEF CheckSteps, BeginSearch
  <2>2. Searching({})'
    BY <2>1, SearchBegins DEF Inv, Searching
  <2>3. TypeOK'
    BY <2>1, StartIsAStep DEF Inv, TypeOK, Phase
  <2> QED
    BY <1>1, <2>1, <2>2, <2>3 DEF Inv, VerdictIsRight
<1>2. CASE ~(IdsAreDistinct(w) /\ EdgesResolve(w))
  BY <1>2 DEF CheckSteps, Conclude, Inv, TypeOK, Phase, VerdictIsRight, IsSound
<1> QED
  BY <1>1, <1>2

\* A turn of the first search.
LEMMA ReachKeepsInv ==
  ASSUME Inv, Reach
  PROVE  Inv'
<1>1. Searching({}) /\ TypeOK /\ phase = "reach" /\ Follow({})
  BY DEF Reach, Inv
<1>2. /\ w' = w /\ phase' = phase
      /\ stack' \subseteq seen' /\ seen' \subseteq Ids(w)
      /\ StartId(w) \in seen'
      /\ seen' \subseteq Reachable(w, {})
      /\ \A x \in seen' \ stack' : Successors(w, x) \ {} \subseteq seen'
  BY <1>1, FollowKeepsSearching
<1> QED
  BY <1>1, <1>2 DEF Inv, TypeOK, Searching, VerdictIsRight

\* The end of the first search.
LEMMA CheckReachKeepsInv ==
  ASSUME Inv, CheckReach
  PROVE  Inv'
<1>1. /\ TypeOK /\ phase = "reach" /\ stack = {}
      /\ IdsAreDistinct(w) /\ EdgesResolve(w) /\ Searching({})
  BY DEF Inv, CheckReach
<1>2. seen = Reachable(w, {})
  BY <1>1, SearchIsComplete
<1>3. CASE phase' \in {"accepted", "rejected"} /\ UNCHANGED <<w, seen, stack>>
  <2>1. TypeOK'
    BY <1>1, <1>3 DEF TypeOK, Phase
  <2>2. VerdictIsRight'
    BY <1>1, <1>2, <1>3 DEF CheckReach, Conclude, BeginSearch, VerdictIsRight, IsSound
  <2> QED
    BY <1>3, <2>1, <2>2 DEF Inv
<1>4. CASE BeginSearch("dominate")
  <2>1. phase' = "dominate" /\ seen' = {StartId(w)} /\ stack' = {StartId(w)} /\ w' = w
    BY <1>4 DEF BeginSearch
  <2>2. PassedReach /\ w.reaches_production /\ HasGatesAndProduction(w)
    BY <1>1, <1>2, <2>1 DEF CheckReach, Conclude, PassedReach
  <2>3. Searching(Barriers(w))'
    BY <1>1, <2>1, SearchBegins DEF Searching
  <2>4. TypeOK'
    BY <1>1, <2>1, StartIsAStep DEF TypeOK, Phase
  <2> QED
    BY <2>1, <2>2, <2>3, <2>4 DEF Inv, PassedReach, VerdictIsRight
<1> QED
  BY <1>3, <1>4 DEF CheckReach, Conclude

\* A turn of the search that enters no gate.
LEMMA DominateKeepsInv ==
  ASSUME Inv, Dominate
  PROVE  Inv'
<1>1. /\ Searching(Barriers(w)) /\ TypeOK /\ phase = "dominate" /\ Follow(Barriers(w))
      /\ PassedReach /\ w.reaches_production /\ HasGatesAndProduction(w)
  BY DEF Dominate, Inv
<1>2. /\ w' = w /\ phase' = phase
      /\ stack' \subseteq seen' /\ seen' \subseteq Ids(w)
      /\ StartId(w) \in seen'
      /\ seen' \subseteq Reachable(w, Barriers(w))
      /\ \A x \in seen' \ stack' : Successors(w, x) \ Barriers(w) \subseteq seen'
  BY <1>1, FollowKeepsSearching
<1> QED
  BY <1>1, <1>2 DEF Inv, TypeOK, Searching, PassedReach, VerdictIsRight

\* The end of it.
LEMMA CheckDominanceKeepsInv ==
  ASSUME Inv, CheckDominance
  PROVE  Inv'
<1>1. /\ TypeOK /\ phase = "dominate" /\ stack = {} /\ Searching(Barriers(w))
      /\ PassedReach /\ w.reaches_production /\ HasGatesAndProduction(w)
  BY DEF Inv, CheckDominance
<1>2. seen = Reachable(w, Barriers(w))
  BY <1>1, SearchIsComplete
<1>3. UNCHANGED <<w, seen, stack>>
      /\ phase' = IF FirstProd(w) \in seen THEN "rejected" ELSE "accepted"
  BY DEF CheckDominance, Conclude
<1>4. TypeOK'
  BY <1>1, <1>3 DEF TypeOK, Phase
<1>5. VerdictIsRight'
  BY <1>1, <1>2, <1>3 DEF VerdictIsRight, IsSound, PassedReach
<1> QED
  BY <1>3, <1>4, <1>5 DEF Inv

LEMMA InvKept == Inv /\ [Next]_vars => Inv'
<1> SUFFICES ASSUME Inv, [Next]_vars PROVE Inv'
  OBVIOUS
<1>1. CASE UNCHANGED vars
  BY <1>1 DEF vars, Inv, TypeOK, Searching, PassedReach, VerdictIsRight
<1> QED
  BY <1>1, CheckStepsKeepsInv, ReachKeepsInv, CheckReachKeepsInv, DominateKeepsInv,
     CheckDominanceKeepsInv DEF Next

\* A definition is loaded exactly when its steps have distinct ids, its edges
\* resolve, all of it can be reached and, if it says that it reaches production,
\* every way to its first PRODUCTION step enters a human_approval step.
THEOREM LoaderIsRight == Spec => []VerdictIsRight
<1>1. Inv => VerdictIsRight
  BY DEF Inv
<1> QED
  BY <1>1, InvInitially, InvKept, PTL DEF Spec
===============================================================================
