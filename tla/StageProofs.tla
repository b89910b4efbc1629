------------------------------ MODULE StageProofs ------------------------------
(***************************************************************************)
(* Machine-checked proofs about one stage on a real model, for any plan,   *)
(* any registries, any workspace and whatever the model answers.           *)
(***************************************************************************)
EXTENDS StageSafety, TLAPS

ModelStatus == {"PASS", "FAIL", "BLOCKED"}
WriteTools == {"workspace.write", "workspace.patch"}

\* Where the runner is, what it has reserved to get there, and what it knows then:
\* one request an attempt and one for the repair.
Accounted ==
  /\ pc \in {"reserve", "calling", "apply", "execute", "test", "gates", "done"}
  /\ used \in 0 .. Ceiling
  /\ attempt \in 0 .. MaxStructuredRetries
  /\ repairs \in 0 .. 1
  /\ pc = "reserve" => spent = attempt + repairs
  /\ pc \in {"calling", "apply", "execute", "test", "gates"} => spent = attempt + repairs + 1
  /\ pc # "done" => outcome = None
  /\ status \in ModelStatus \cup {None}
  /\ repairs > 0 \/ pc \in {"apply", "execute", "test", "gates"} => status # None

\* The call about to be executed was offered to the stage and let through, and it
\* is the only one that a pause may come too late for.
OneCallLetThrough ==
  /\ pc = "execute" => Head(queue).tool \in plan.allowedRuntimeTools
  /\ late \in 0 .. 1
  /\ ~paused => late = 0
  /\ pc = "execute" /\ Head(queue).tool \in WriteTools => late = 0

StageInv == Accounted /\ OneCallLetThrough /\ ToolsStayInScope

-------------------------------------------------------------------------------
(***************************************************************************)
(* What the operators a stage is built from return.                        *)
(***************************************************************************)
LEMMA AcceptedHasAStatus ==
  ASSUME NEW text, Reply!ParseModelResult(text) # None
  PROVE  Reply!ParseModelResult(text).status \in ModelStatus
  BY DEF Reply!ParseModelResult, Reply!Acceptable, ModelStatus

LEMMA DecisionIsAVerdict ==
  ASSUME status \in ModelStatus
  PROVE  Decision \in ModelStatus
  BY DEF Decision, Tree!DecideImplementationOutcome, ModelStatus

LEMMA AtMostOneRepair == MaxTestRepairs \in 0 .. 1
  BY DEF MaxTestRepairs

LEMMA StatusIsSomething == None \notin ModelStatus
  BY RunnerAssumption DEF ModelStatus

\* A write is of a class the pause forbids (tool-registry.ts).
LEMMA WritingIsAWriteClass == Policies!CommandClassOf("fs.write") \in Policies!WRITE_CLASSES
<1>1. /\ "DEVELOPMENT_WRITE" \in DOMAIN Policies!ClassMembers
      /\ "fs.write" \in Policies!ClassMembers["DEVELOPMENT_WRITE"]
  BY DEF Policies!ClassMembers
<1>2. \A k \in DOMAIN Policies!ClassMembers :
        "fs.write" \in Policies!ClassMembers[k] => k = "DEVELOPMENT_WRITE"
  BY DEF Policies!ClassMembers
<1> QED
  BY <1>1, <1>2 DEF Policies!CommandClassOf, Policies!WRITE_CLASSES

\* So the gateway lets no tool write that asks while the runtime is paused.
LEMMA NoWriteIsLetThrough ==
  ASSUME paused = TRUE, NEW call, MayRun(call)
  PROVE  call.tool \notin WriteTools
<1> SUFFICES ASSUME call.tool \in WriteTools PROVE FALSE
  OBVIOUS
<1>1. TOOL_CAPABILITY[call.tool] = "fs.write"
  BY DEF TOOL_CAPABILITY, WriteTools
<1>2. "fs.write" # None
  BY RunnerAssumption
<1>3. Policies!Authorize(StageAgent[stage], "fs.write", stage, StageRisk[stage], "sandbox", TRUE)
        = "ALLOW"
  BY <1>1 DEF MayRun
<1> QED
  BY <1>2, <1>3, WritingIsAWriteClass
     DEF Policies!Authorize, Policies!Evaluate, Policies!IsPreparation, Policies!Refused

\* What executes and writes is a write or a patch, to a path inside that does not
\* look like a secret (executeWorkspaceTool, safePath).
LEMMA WhatIsWritten ==
  ASSUME NEW call, Written(call) # None
  PROVE  /\ call.tool \in WriteTools
         /\ call.args.path.place = "inside" /\ ~call.args.path.secretLike
<1>1. CASE call.tool = "workspace.write"
  <2>1. Tree!CanWrite(call.args.path)
    BY <1>1 DEF Written
  <2> QED
    BY <1>1, <2>1 DEF Tree!CanWrite, Tree!SafePath, Tree!Writes, WriteTools
<1>2. CASE call.tool = "workspace.patch"
  <2>1. Tree!CanPatch(call.args.path, call.args.find)
    BY <1>2 DEF Written
  <2> QED
    BY <1>2, <2>1 DEF Tree!CanPatch, Tree!SafePath, Tree!Writes, WriteTools
<1> QED
  BY <1>1, <1>2 DEF Written

-------------------------------------------------------------------------------
LEMMA StageBegins == StageInit => StageInv
<1> SUFFICES ASSUME StageInit PROVE StageInv
  OBVIOUS
<1>0. /\ pc = "reserve" /\ attempt = 0 /\ repairs = 0 /\ spent = 0
      /\ outcome = None /\ status = None /\ used \in UsedBefore /\ late = 0
  BY DEF StageInit
<1>1. Accounted
  BY <1>0, RunnerAssumption DEF Accounted
<1>2. OneCallLetThrough
  BY <1>0 DEF OneCallLetThrough
<1>3. ToolsStayInScope
  BY DEF StageInit, ToolsStayInScope
<1> QED
  BY <1>1, <1>2, <1>3 DEF StageInv

LEMMA AccountedKept ==
  ASSUME Accounted, [StageNext]_stageVars
  PROVE  Accounted'
<1> USE DEF Accounted
<1>1. CASE UNCHANGED stageVars
  BY <1>1 DEF stageVars
<1>2. CASE Reserve
  BY <1>2, RunnerAssumption DEF Reserve, End, evidenceVars, callVars
<1>3. CASE Authorize
  BY <1>3 DEF Authorize, replyVars, evidenceVars
<1>4. CASE Execute
  BY <1>4 DEF Execute, replyVars
<1>5. CASE Applied
  BY <1>5 DEF Applied, replyVars, evidenceVars
<1>6. ASSUME NEW e \in Tree!TestEvidence, RunTests(e)
      PROVE  Accounted'
  BY <1>6, AtMostOneRepair DEF RunTests, replyVars
<1>7. CASE Gates
  BY <1>7 DEF Gates, End, replyVars, evidenceVars
<1>8. CASE CallGoesOn
  BY <1>8 DEF CallGoesOn, replyVars, evidenceVars
<1>9. ASSUME NEW e \in CallError, CallThrows(e)
      PROVE  Accounted'
  BY <1>9 DEF CallThrows, End, replyVars, evidenceVars
<1>10. ASSUME NEW text \in Replies, NEW truncated \in BOOLEAN, CallReplies(text, truncated)
       PROVE  Accounted'
  <2>1. CASE Reply!ParseModelResult(text) # None
    BY <1>10, <2>1, AcceptedHasAStatus, StatusIsSomething DEF CallReplies, Accept, evidenceVars
  <2>2. CASE Reply!ParseModelResult(text) = None
    <3>1. Reject(truncated) /\ pc = "calling" /\ UNCHANGED <<evidenceVars, used, spent>>
      BY <1>10, <2>2 DEF CallReplies
    <3> QED
      BY <3>1, RunnerAssumption DEF Reject, End, evidenceVars
  <2> QED
    BY <2>1, <2>2
<1>11. ASSUME NEW b \in BOOLEAN, SetPaused(b)
       PROVE  Accounted'
  BY <1>11 DEF SetPaused, replyVars, evidenceVars
<1> QED
  BY <1>1, <1>2, <1>3, <1>4, <1>5, <1>6, <1>7, <1>8, <1>9, <1>10, <1>11
     DEF StageNext, Runner, CallEnds

-------------------------------------------------------------------------------
\* The steps that make no tool call and let none through.
LEMMA NoToolRuns ==
  ASSUME OneCallLetThrough, ToolsStayInScope,
         pc # "execute", pc' # "execute", UNCHANGED <<stage, written, paused, late>>
  PROVE  OneCallLetThrough' /\ ToolsStayInScope'
<1>1. UNCHANGED <<plan, CanWriteStage>>
  BY DEF plan, CanWriteStage
<1> QED
  BY <1>1 DEF OneCallLetThrough, ToolsStayInScope

LEMMA ToolsKept ==
  ASSUME StageInv, [StageNext]_stageVars
  PROVE  OneCallLetThrough' /\ ToolsStayInScope'
<1> USE DEF StageInv
<1>0. stage' = stage => UNCHANGED <<plan, CanWriteStage>>
  BY DEF plan, CanWriteStage
<1>1. CASE UNCHANGED stageVars
  BY <1>0, <1>1 DEF stageVars, OneCallLetThrough, ToolsStayInScope
<1>2. CASE Reserve
  BY <1>2, NoToolRuns DEF Reserve, End, evidenceVars
<1>3. CASE Authorize
  <2>1. UNCHANGED <<stage, written, paused, late>>
    BY <1>3 DEF Authorize, evidenceVars
  <2>2. ToolsStayInScope'
    BY <1>0, <2>1 DEF ToolsStayInScope
  <2>3. CASE MayRun(Head(queue))
    <3>1. Head(queue').tool \in plan'.allowedRuntimeTools
      BY <1>0, <1>3, <2>1, <2>3 DEF Authorize, MayRun
    <3>2. paused = TRUE => Head(queue').tool \notin WriteTools
      BY <1>3, <2>3, NoWriteIsLetThrough DEF Authorize
    <3> QED
      BY <2>1, <2>2, <3>1, <3>2 DEF OneCallLetThrough
  <2>4. CASE ~MayRun(Head(queue))
    BY <1>3, <2>1, <2>4, NoToolRuns DEF Authorize
  <2> QED
    BY <2>3, <2>4
<1>4. CASE Execute
  <2> DEFINE call == Head(queue)
             wrote == Written(call) # None
  <2>1. /\ pc = "execute" /\ pc' = "apply" /\ UNCHANGED <<stage, paused>>
        /\ written' = IF wrote THEN written \cup {call.args.path} ELSE written
        /\ late' = IF paused /\ wrote THEN late + 1 ELSE late
    BY <1>4 DEF Execute, replyVars
  <2>2. ASSUME wrote
        PROVE  /\ call.tool \in WriteTools /\ CanWriteStage
               /\ call.args.path.place = "inside" /\ ~call.args.path.secretLike
    BY <2>1, <2>2, WhatIsWritten DEF OneCallLetThrough, CanWriteStage, WriteTools
  <2>3. ToolsStayInScope'
    BY <1>0, <2>1, <2>2 DEF ToolsStayInScope
  <2>4. OneCallLetThrough'
    BY <2>1, <2>2 DEF OneCallLetThrough
  <2> QED
    BY <2>3, <2>4
<1>5. CASE Applied
  BY <1>5, NoToolRuns DEF Applied, evidenceVars
<1>6. ASSUME NEW e \in Tree!TestEvidence, RunTests(e)
      PROVE  OneCallLetThrough' /\ ToolsStayInScope'
  BY <1>6, NoToolRuns DEF RunTests
<1>7. CASE Gates
  BY <1>7, NoToolRuns DEF Gates, End, evidenceVars
<1>8. CASE CallGoesOn
  BY <1>8, NoToolRuns DEF CallGoesOn, evidenceVars
<1>9. ASSUME NEW e \in CallError, CallThrows(e)
      PROVE  OneCallLetThrough' /\ ToolsStayInScope'
  BY <1>9, NoToolRuns DEF CallThrows, End, evidenceVars
<1>10. ASSUME NEW text \in Replies, NEW truncated \in BOOLEAN, CallReplies(text, truncated)
       PROVE  OneCallLetThrough' /\ ToolsStayInScope'
  BY <1>10, NoToolRuns DEF CallReplies, Accept, Reject, End, evidenceVars
<1>11. ASSUME NEW b \in BOOLEAN, SetPaused(b)
       PROVE  OneCallLetThrough' /\ ToolsStayInScope'
  BY <1>0, <1>11 DEF SetPaused, evidenceVars, OneCallLetThrough, ToolsStayInScope
<1> QED
  BY <1>1, <1>2, <1>3, <1>4, <1>5, <1>6, <1>7, <1>8, <1>9, <1>10, <1>11
     DEF StageNext, Runner, CallEnds

LEMMA StageInvHolds == StageSpec => []StageInv
<1>1. StageInv /\ [StageNext]_stageVars => StageInv'
  BY AccountedKept, ToolsKept DEF StageInv
<1> QED
  BY <1>1, StageBegins, PTL DEF StageSpec

\* For any plan and any reply: a tool writes inside the project only, nothing that
\* looks like a secret, and nothing at all in a stage that is offered no such tool.
THEOREM ScopeIsKept == StageSpec => []ToolsStayInScope
  BY StageInvHolds, PTL DEF StageInv

LEMMA LateIsOne == StageInv => OneWriteAfterThePause
  BY DEF StageInv, OneCallLetThrough, OneWriteAfterThePause

\* And once the runtime is paused at most one write follows, the one that the
\* gateway had let through before.
THEOREM PauseStopsTheTools == StageSpec => []OneWriteAfterThePause
  BY StageInvHolds, LateIsOne, PTL

-------------------------------------------------------------------------------
(***************************************************************************)
(* The stage keeps its contract.                                           *)
(***************************************************************************)
LEMMA ContractStutters ==
  ASSUME pc # "done", pc' # "done", UNCHANGED <<used, spent, outcome, status>>
  PROVE  UNCHANGED Contract!contractVars
  BY DEF Contract!contractVars

\* A verdict is returned on a request at least, a refusal of the budget on none left.
LEMMA ContractEnds ==
  ASSUME Accounted, pc # "done", NEW o, End(o), used' = used,
         \/ o \in ModelStatus \cup CallError /\ pc # "reserve"
         \/ o = "REQUEST_BUDGET_EXCEEDED" /\ used = Ceiling
  PROVE  Contract!ContractNext
<1>1. o \in Contract!StageOutcome /\ o # None
  BY RunnerAssumption DEF Contract!StageOutcome, ModelStatus, Contract!CallError, CallError,
         Contract!ProviderError, ProviderError
<1>2. o = "REQUEST_BUDGET_EXCEEDED" => used = Ceiling
  BY DEF ModelStatus, CallError, ProviderError
<1>3. o # "REQUEST_BUDGET_EXCEEDED" => spent > 0
  BY DEF Accounted
<1>4. pc' = "done" /\ outcome' = o
  BY DEF End
<1>5. Contract!EndStage(o)
  BY <1>1, <1>2, <1>3, <1>4 DEF Contract!EndStage
<1> QED
  BY <1>1, <1>5 DEF Contract!ContractNext

LEMMA ContractBegins == StageInit => Contract!ContractInit
<1> SUFFICES ASSUME StageInit PROVE Contract!ContractInit
  OBVIOUS
<1>1. pc = "reserve" /\ spent = 0 /\ outcome = None /\ status = None /\ used \in UsedBefore
  BY DEF StageInit
<1> QED
  BY <1>1, RunnerAssumption DEF Contract!ContractInit

LEMMA ContractStep ==
  ASSUME StageInv, [StageNext]_stageVars
  PROVE  [Contract!ContractNext]_(Contract!contractVars)
<1> DEFINE Kept == [Contract!ContractNext]_(Contract!contractVars)
<1>0. Accounted
  BY DEF StageInv
<1>1. CASE UNCHANGED stageVars
  BY <1>1 DEF stageVars, Contract!contractVars
<1>2. CASE Reserve
  <2>1. CASE used < Ceiling
    <3>1. /\ pc = "reserve" /\ pc' = "calling"
          /\ used' = used + 1 /\ spent' = spent + 1 /\ UNCHANGED <<outcome, status>>
      BY <1>2, <2>1 DEF Reserve
    <3>2. spent < MaxStructuredRetries + 2
      BY <1>0, <3>1, RunnerAssumption DEF Accounted
    <3>3. Contract!ReserveRequest
      BY <2>1, <3>1, <3>2 DEF Contract!ReserveRequest
    <3> QED
      BY <3>3 DEF Contract!ContractNext
  <2>2. CASE ~(used < Ceiling)
    <3>1. pc = "reserve" /\ End("REQUEST_BUDGET_EXCEEDED") /\ used' = used
      BY <1>2, <2>2 DEF Reserve
    <3>2. used = Ceiling
      BY <1>0, <2>2, RunnerAssumption DEF Accounted
    <3> QED
      BY <1>0, <3>1, <3>2, ContractEnds
  <2> QED
    BY <2>1, <2>2
<1>3. CASE Authorize
  BY <1>3, ContractStutters DEF Authorize, replyVars
<1>4. CASE Execute
  BY <1>4, ContractStutters DEF Execute, replyVars
<1>5. CASE Applied
  BY <1>5, ContractStutters DEF Applied, replyVars
<1>6. ASSUME NEW e \in Tree!TestEvidence, RunTests(e)
      PROVE  Kept
  BY <1>6, ContractStutters DEF RunTests, replyVars
<1>7. CASE Gates
  <2>1. pc = "gates" /\ End(Decision) /\ used' = used
    BY <1>7 DEF Gates
  <2>2. Decision \in ModelStatus
    BY <1>0, <2>1, DecisionIsAVerdict DEF Accounted
  <2> QED
    BY <1>0, <2>1, <2>2, ContractEnds
<1>8. CASE CallGoesOn
  BY <1>8, ContractStutters DEF CallGoesOn, replyVars
<1>9. ASSUME NEW e \in CallError, CallThrows(e)
      PROVE  Kept
  <2>1. pc = "calling" /\ End(e) /\ used' = used
    BY <1>9 DEF CallThrows
  <2> QED
    BY <1>0, <2>1, ContractEnds
<1>10. ASSUME NEW text \in Replies, NEW truncated \in BOOLEAN, CallReplies(text, truncated)
       PROVE  Kept
  <2>1. pc = "calling" /\ UNCHANGED <<used, spent, repairs>>
    BY <1>10 DEF CallReplies, evidenceVars
  <2>2. CASE Reply!ParseModelResult(text) # None
    <3>1. pc' = "apply" /\ status' \in ModelStatus /\ UNCHANGED outcome
      BY <1>10, <2>2, AcceptedHasAStatus DEF CallReplies, Accept
    <3>2. spent > 0
      BY <1>0, <2>1 DEF Accounted
    <3>3. Contract!TouchWorkspace
      BY <2>1, <3>1, <3>2, StatusIsSomething DEF Contract!TouchWorkspace
    <3> QED
      BY <3>3 DEF Contract!ContractNext
  <2>3. CASE Reply!ParseModelResult(text) = None
    <3>1. Reject(truncated)
      BY <1>10, <2>3 DEF CallReplies
    <3>2. CASE End("BLOCKED")
      BY <1>0, <2>1, <3>2, ContractEnds DEF ModelStatus
    <3>3. CASE ~End("BLOCKED")
      <4>1. pc' # "done" /\ UNCHANGED <<outcome, status>>
        BY <3>1, <3>3 DEF Reject
      <4> QED
        BY <2>1, <4>1, ContractStutters
    <3> QED
      BY <3>2, <3>3
  <2> QED
    BY <2>2, <2>3
<1>11. ASSUME NEW b \in BOOLEAN, SetPaused(b)
       PROVE  Kept
  BY <1>11, ContractStutters DEF SetPaused, replyVars
<1> QED
  BY <1>1, <1>2, <1>3, <1>4, <1>5, <1>6, <1>7, <1>8, <1>9, <1>10, <1>11
     DEF StageNext, Runner, CallEnds

\* For any plan, any reply and any budget: what happens inside a stage is, from
\* outside, a stage as StageContract promises SoftwareFactory.
THEOREM StageImplementsContract == StageSpec => ImplementsStageContract
<1>1. StageSpec => [][Contract!ContractNext]_(Contract!contractVars)
  BY StageInvHolds, ContractStep, PTL DEF StageSpec
<1> QED
  BY <1>1, ContractBegins, PTL DEF StageSpec, ImplementsStageContract, Contract!ContractSpec

-------------------------------------------------------------------------------
(***************************************************************************)
(* What a stage that passes has to show for it.                            *)
(***************************************************************************)
\* The files are files, and the first commit is the fixture.
FilesAreTyped ==
  /\ stage \in DOMAIN Plan
  /\ files \in [Path -> Content \cup {None}]
  /\ queue \in Seq(AskedCalls)
  /\ git = "works" => root = Seed

\* What was written is there still: no tool removes a file.
WrittenIsThere == \A p \in written : p \in Path /\ files[p] # None

\* The tests are of the files as they are: where the gates decide, if the plan asks
\* for tests, and while a repair is asked for.
TestsAreFresh ==
  \/ pc = "gates" /\ plan.runTests
  \/ pc \in {"reserve", "calling"} /\ repairs > 0
  => tests # None /\ ~stale

CallIsPending == pc = "execute" => queue # <<>>

EvidenceInv == FilesAreTyped /\ WrittenIsThere /\ TestsAreFresh /\ CallIsPending

\* A command may leave output behind, and takes nothing away.
LEMMA LeavingsKeepFiles ==
  ASSUME FilesAreTyped, NEW command, NEW f \in Leavings(command)
  PROVE  /\ f \in [Path -> Content \cup {None}]
         /\ \A p \in Path : files[p] # None => f[p] # None
<1>1. CASE f = files
  BY <1>1 DEF FilesAreTyped
<1>2. CASE f # files
  <2>1. PICK q \in Path, c \in Content : f = [files EXCEPT ![q] = c]
    BY <1>2 DEF Leavings
  <2>2. c # None
    BY <2>1, RegistriesAssumption DEF Tree!WorkspaceAssumption
  <2> QED
    BY <2>1, <2>2 DEF FilesAreTyped
<1> QED
  BY <1>1, <1>2

\* A tool that writes puts one file of the project there.
LEMMA WritingPutsAFile ==
  ASSUME FilesAreTyped, NEW call \in AskedCalls, Written(call) # None
  PROVE  /\ call.args.path \in Path
         /\ Written(call) \in [Path -> Content \cup {None}]
         /\ Written(call)[call.args.path] # None
         /\ \A p \in Path : files[p] # None => Written(call)[p] # None
<1>1. \A c \in Content : c # None
  BY RegistriesAssumption DEF Tree!WorkspaceAssumption
<1>2. CASE call.tool = "workspace.write"
  <2>1. call.args.path \in Path /\ call.args.content \in Content
    BY <1>2, RepliesAssumption
  <2>2. Written(call) = [files EXCEPT ![call.args.path] = call.args.content]
    BY <1>2 DEF Written
  <2> QED
    BY <1>1, <2>1, <2>2 DEF FilesAreTyped
<1>3. CASE call.tool = "workspace.patch"
  <2>1. call.args.path \in Path /\ call.args.replace \in Content
    BY <1>3, RepliesAssumption
  <2>2. Written(call) = [files EXCEPT ![call.args.path] = call.args.replace]
    BY <1>3 DEF Written
  <2> QED
    BY <1>1, <2>1, <2>2 DEF FilesAreTyped
<1> QED
  BY <1>2, <1>3 DEF Written

LEMMA EvidenceBegins == StageInit => EvidenceInv
<1> SUFFICES ASSUME StageInit PROVE EvidenceInv
  OBVIOUS
<1>1. FilesAreTyped
  <2>1. stage \in DOMAIN Plan /\ files \in [Path -> Content \cup {None}]
    BY PlansAssumption DEF StageInit
  <2>2. queue = <<>>
    BY DEF StageInit
  <2>3. git = "works" => root = Seed
    BY DEF StageInit
  <2> QED
    BY <2>1, <2>2, <2>3 DEF FilesAreTyped
<1>2. pc = "reserve" /\ repairs = 0 /\ written = {}
  BY DEF StageInit
<1>3. WrittenIsThere /\ TestsAreFresh /\ CallIsPending
  BY <1>2 DEF WrittenIsThere, TestsAreFresh, CallIsPending
<1> QED
  BY <1>1, <1>3 DEF EvidenceInv

\* The steps that leave the workspace and its tests alone, and enter no state in
\* which the tests must be fresh that were not so before.
LEMMA EvidenceStays ==
  ASSUME EvidenceInv, UNCHANGED <<stage, files, root, git, written>>,
         queue' \in Seq(AskedCalls), TestsAreFresh', CallIsPending'
  PROVE  EvidenceInv'
  BY DEF EvidenceInv, FilesAreTyped, WrittenIsThere

LEMMA EvidenceKept ==
  ASSUME Accounted, EvidenceInv, [StageNext]_stageVars
  PROVE  EvidenceInv'
<1>0. /\ queue \in Seq(AskedCalls) /\ TestsAreFresh /\ CallIsPending
      /\ stage' = stage => plan' = plan
  BY DEF EvidenceInv, FilesAreTyped, plan
<1>1. CASE UNCHANGED stageVars
  BY <1>0, <1>1, EvidenceStays DEF stageVars, TestsAreFresh, CallIsPending
<1>2. CASE Reserve
  <2>1. /\ pc = "reserve" /\ pc' \in {"calling", "done"}
        /\ UNCHANGED <<stage, files, root, git, written, queue, repairs, tests, stale>>
    BY <1>2 DEF Reserve, End, evidenceVars
  <2> QED
    BY <1>0, <2>1, EvidenceStays DEF TestsAreFresh, CallIsPending
<1>3. CASE Authorize
  <2>1. /\ pc' \in {"apply", "execute"} /\ UNCHANGED <<stage, files, root, git, written>>
        /\ queue # <<>> /\ queue' \in {queue, Tail(queue)}
        /\ pc' = "execute" => queue' = queue
    BY <1>3 DEF Authorize, evidenceVars
  <2>2. queue' \in Seq(AskedCalls)
    BY <1>0, <2>1
  <2> QED
    BY <2>1, <2>2, EvidenceStays DEF TestsAreFresh, CallIsPending
<1>4. CASE Execute
  <2> DEFINE call == Head(queue)
             wrote == Written(call) # None
  <2>1. /\ pc' = "apply" /\ queue' = Tail(queue) /\ UNCHANGED <<stage, root, git>>
        /\ wrote => files' = Written(call) /\ written' = written \cup {call.args.path}
        /\ ~wrote => files' \in {files} \cup Leavings(call.args.command) /\ written' = written
    BY <1>4 DEF Execute
  <2>2. queue # <<>>
    BY <1>4 DEF Execute, EvidenceInv, CallIsPending
  <2>3. call \in AskedCalls /\ queue' \in Seq(AskedCalls)
    BY <1>0, <2>1, <2>2
  <2>4. TestsAreFresh' /\ CallIsPending'
    BY <2>1 DEF TestsAreFresh, CallIsPending
  <2>5. /\ files' \in [Path -> Content \cup {None}]
        /\ \A p \in Path : files[p] # None => files'[p] # None
        /\ \A p \in written' \ written : p \in Path /\ files'[p] # None
    <3>1. CASE wrote
      BY <2>1, <2>3, <3>1, WritingPutsAFile DEF EvidenceInv
    <3>2. CASE ~wrote
      BY <2>1, <3>2, LeavingsKeepFiles DEF EvidenceInv, FilesAreTyped
    <3> QED
      BY <3>1, <3>2
  <2> QED
    BY <2>1, <2>3, <2>4, <2>5 DEF EvidenceInv, FilesAreTyped, WrittenIsThere
<1>5. CASE Applied
  <2>1. /\ pc' = IF plan.runTests THEN "test" ELSE "gates"
        /\ UNCHANGED <<stage, files, root, git, written, queue, repairs, tests, stale>>
    BY <1>5 DEF Applied, evidenceVars
  <2> QED
    BY <1>0, <2>1, EvidenceStays DEF TestsAreFresh, CallIsPending
<1>6. ASSUME NEW e \in Tree!TestEvidence, RunTests(e)
      PROVE  EvidenceInv'
  <2>1. /\ tests' = e /\ stale' = FALSE /\ files' \in Leavings(Tree!NpmTest)
        /\ pc' # "execute" /\ UNCHANGED <<stage, root, git, written, queue>>
    BY <1>6 DEF RunTests
  <2>2. e # None
    BY RunnerAssumption
  <2>3. TestsAreFresh' /\ CallIsPending'
    BY <2>1, <2>2 DEF TestsAreFresh, CallIsPending
  <2>4. /\ files' \in [Path -> Content \cup {None}]
        /\ \A p \in Path : files[p] # None => files'[p] # None
    BY <2>1, LeavingsKeepFiles DEF EvidenceInv
  <2> QED
    BY <2>1, <2>3, <2>4 DEF EvidenceInv, FilesAreTyped, WrittenIsThere
<1>7. CASE Gates
  BY <1>0, <1>7, EvidenceStays DEF Gates, End, evidenceVars, TestsAreFresh, CallIsPending
<1>8. CASE CallGoesOn
  BY <1>0, <1>8, EvidenceStays DEF CallGoesOn, evidenceVars, TestsAreFresh, CallIsPending
<1>9. ASSUME NEW e \in CallError, CallThrows(e)
      PROVE  EvidenceInv'
  BY <1>0, <1>9, EvidenceStays DEF CallThrows, End, evidenceVars, TestsAreFresh, CallIsPending
<1>10. ASSUME NEW text \in Replies, NEW truncated \in BOOLEAN, CallReplies(text, truncated)
       PROVE  EvidenceInv'
  <2>1. pc = "calling" /\ UNCHANGED <<stage, files, root, git, written, repairs, tests, stale>>
    BY <1>10 DEF CallReplies, evidenceVars
  <2>2. CASE Reply!ParseModelResult(text) # None
    <3>1. pc' = "apply" /\ queue' = CallsOf(Reply!ParseModelResult(text))
      BY <1>10, <2>2 DEF CallReplies, Accept
    <3>2. queue' \in Seq(AskedCalls)
      BY <2>2, <3>1, RepliesAssumption
    <3> QED
      BY <2>1, <3>1, <3>2, EvidenceStays DEF TestsAreFresh, CallIsPending
  <2>3. CASE Reply!ParseModelResult(text) = None
    <3>1. Reject(truncated)
      BY <1>10, <2>3 DEF CallReplies
    <3>2. /\ queue' = queue
          /\ \/ repairs > 0 /\ pc' = "gates"
             \/ repairs = 0 /\ pc' = "reserve"
             \/ pc' = "done"
      BY <3>1 DEF Reject, End
    <3>3. TestsAreFresh' /\ CallIsPending'
      BY <1>0, <2>1, <3>2 DEF TestsAreFresh, CallIsPending
    <3> QED
      BY <1>0, <2>1, <3>2, <3>3, EvidenceStays
  <2> QED
    BY <2>2, <2>3
<1>11. ASSUME NEW b \in BOOLEAN, SetPaused(b)
       PROVE  EvidenceInv'
  BY <1>0, <1>11, EvidenceStays DEF SetPaused, evidenceVars, TestsAreFresh, CallIsPending
<1> QED
  BY <1>1, <1>2, <1>3, <1>4, <1>5, <1>6, <1>7, <1>8, <1>9, <1>10, <1>11
     DEF StageNext, Runner, CallEnds

\* The gates let through what has its evidence (decideImplementationOutcome).
LEMMA PassHasItsEvidence ==
  ASSUME EvidenceInv, Gates, Decision = "PASS"
  PROVE  PassIsEvidenced'
<1>1. /\ pc = "gates"
      /\ UNCHANGED <<stage, status, tests, stale, written, files, root, git>>
  BY DEF Gates, replyVars, evidenceVars
<1>2. plan' = plan
  BY <1>1 DEF plan
<1> DEFINE changed == IF CanWriteStage THEN written ELSE {}
<1>3. /\ status = "PASS"
      /\ tests # None => Tree!Green(tests)
      /\ plan.runSecurityScan => Tree!SecurityChecksPass(root)
      /\ plan.requireTestChange => \E p \in changed : Tree!IsTestFile(p)
      /\ CanWriteStage /\ plan.requireWorkspaceChange /\ changed # {} =>
           \E p \in changed : Tree!IsSourceFile(p)
      /\ Tree!SourceContainsRequired(plan)
  BY DEF Decision, Tree!DecideImplementationOutcome
<1>4. plan.runTests => tests # None /\ Tree!Green(tests) /\ ~stale
  BY <1>1, <1>3 DEF EvidenceInv, TestsAreFresh
<1>5. \A p \in changed : CanWriteStage /\ p \in written /\ files[p] # None
  BY DEF EvidenceInv, WrittenIsThere
<1>6. plan.requireTestChange => \E p \in written : Tree!IsTestFile(p) /\ files[p] # None
  BY <1>3, <1>5
<1>7. plan.requireWorkspaceChange => \E p \in written : Tree!IsSourceFile(p) /\ files[p] # None
  <2>1. plan.requireWorkspaceChange => plan.requireTestChange
    BY PlansAssumption DEF EvidenceInv, FilesAreTyped, plan
  <2> QED
    BY <1>3, <1>5, <2>1
<1>8. plan.requireInSource => \E p \in Path : p.code /\ "token" \in Tree!TraitsOf(files[p])
  BY <1>3 DEF Tree!SourceContainsRequired
<1>9. plan.runSecurityScan /\ git = "works" =>
        \A p \in Path : files[p] # Seed[p] => "secret" \notin Tree!TraitsOf(files[p])
  BY <1>3 DEF EvidenceInv, FilesAreTyped, Tree!SecurityChecksPass, Tree!Diff, Tree!ChangedSince
<1> QED
  BY <1>1, <1>2, <1>3, <1>4, <1>6, <1>7, <1>8, <1>9
     DEF PassIsEvidenced, Tree!Green, Tree!IsSourceFile, Tree!IsTestFile, Tree!TraitsOf

\* Nothing but the gates passes a stage, and nothing happens after.
LEMMA OnlyTheGatesPass ==
  ASSUME Accounted, Accounted', EvidenceInv, PassIsEvidenced, [StageNext]_stageVars
  PROVE  PassIsEvidenced'
<1>1. CASE UNCHANGED stageVars
  BY <1>1 DEF stageVars, PassIsEvidenced, plan, Tree!Green, Tree!IsSourceFile, Tree!IsTestFile,
              Tree!TraitsOf
<1>2. CASE Gates
  <2>1. outcome' = Decision
    BY <1>2 DEF Gates, End
  <2>2. CASE Decision = "PASS"
    BY <1>2, <2>2, PassHasItsEvidence
  <2>3. CASE Decision # "PASS"
    BY <2>1, <2>3 DEF PassIsEvidenced
  <2> QED
    BY <2>2, <2>3
<1>3. CASE StageNext /\ ~Gates
  <2>1. pc' = "done" => outcome' # "PASS"
    BY <1>3 DEF StageNext, Runner, CallEnds, Reserve, Authorize, Execute, Applied, RunTests,
                CallGoesOn, CallThrows, CallReplies, Accept, Reject, SetPaused, End, CallError,
                ProviderError
  <2>2. pc' # "done" => outcome' # "PASS"
    BY RunnerAssumption DEF Accounted
  <2> QED
    BY <2>1, <2>2 DEF PassIsEvidenced
<1> QED
  BY <1>1, <1>2, <1>3

\* For any plan whose code stages ask for a test, any reply, and whatever the pause
\* does: a stage passes by evidence that still stands (see StageSafety).
THEOREM PassesAreEvidenced == StageSpec => []PassIsEvidenced
<1>1. StageInit => Accounted /\ EvidenceInv /\ PassIsEvidenced
  <2>1. StageInit => PassIsEvidenced
    BY RunnerAssumption DEF StageInit, PassIsEvidenced
  <2> QED
    BY <2>1, StageBegins, EvidenceBegins DEF StageInv
<1>2. Accounted /\ EvidenceInv /\ PassIsEvidenced /\ [StageNext]_stageVars
        => (Accounted /\ EvidenceInv /\ PassIsEvidenced)'
  BY AccountedKept, EvidenceKept, OnlyTheGatesPass
<1> QED
  BY <1>1, <1>2, PTL DEF StageSpec

-------------------------------------------------------------------------------
(***************************************************************************)
(* The decisions of the policy engine, the gateway and the model router    *)
(* that a stage asks for, over whatever registries it was loaded with.     *)
(***************************************************************************)
\* What is allowed passed every rule before the last: it is not critical, and it is
\* a preparation or else neither refused nor reserved (PolicyEngine.evaluate).
LEMMA AllowPassesEveryRule ==
  ASSUME NEW q, Policies!Evaluate(q) = "ALLOW"
  PROVE  /\ q.action \notin Policies!CRITICAL_ACTIONS
         /\ \/ Policies!IsPreparation(q)
            \/ ~Policies!Refused(q) /\ ~Policies!ReservedToTheFounder(q)
  BY DEF Policies!Evaluate

\* See Policy: whatever PolicyEngine.evaluate lets run without an approval is not critical and is within the grants of a registered agent.
LEMMA AllowEarned == Policies!AllowIsEarned
<1>0. Policies!ToolRegistryAssumption /\ Policies!AgentRegistryAssumption
  BY RegistriesAssumption
<1>1. SUFFICES ASSUME NEW q \in Policies!Query, Policies!Evaluate(q) = "ALLOW"
               PROVE  /\ q.action \notin Policies!CRITICAL_ACTIONS
                      /\ q.risk < 5 \/ Policies!IsPreparation(q)
                      /\ q.capability # None =>
                           /\ q.capability \in DOMAIN CapabilityDef
                           /\ q.agent \in DOMAIN AgentDef
                           /\ q.capability \in AgentDef[q.agent].allowed_tools
                                                 \ AgentDef[q.agent].forbidden_tools
                           /\ CapabilityDef[q.capability].risk_level
                                <= AgentDef[q.agent].risk_level
                           /\ Policies!CommandClassOf(q.capability)
                                \notin {"PRODUCTION_WRITE", "FINANCIAL"}
                           /\ Policies!CommandClassOf(q.capability) \in Policies!WRITE_CLASSES =>
                                ~q.paused /\ q.environment # "production"
  BY DEF Policies!AllowIsEarned
<1>2. q.action \notin Policies!CRITICAL_ACTIONS
  BY <1>1, AllowPassesEveryRule
<1>3. CASE Policies!IsPreparation(q)
  BY <1>2, <1>3 DEF Policies!IsPreparation
<1>4. CASE ~Policies!Refused(q) /\ ~Policies!ReservedToTheFounder(q)
  <2>1. q.risk < 5
    BY <1>4 DEF Policies!ReservedToTheFounder, Policies!Query
  <2>2. ASSUME q.capability # None
        PROVE  ~Policies!NotGranted(q.agent, q.capability)
    BY <1>4, <2>2 DEF Policies!Refused
  <2>3. ASSUME q.capability # None
        PROVE  /\ q.capability \in DOMAIN CapabilityDef
               /\ q.agent \in DOMAIN AgentDef
               /\ q.capability \in AgentDef[q.agent].allowed_tools
                                     \ AgentDef[q.agent].forbidden_tools
               /\ ~(CapabilityDef[q.capability].risk_level > AgentDef[q.agent].risk_level)
    BY <2>2, <2>3 DEF Policies!NotGranted, Policies!Query
  <2>4. ASSUME q.capability # None
        PROVE  CapabilityDef[q.capability].risk_level <= AgentDef[q.agent].risk_level
    BY <1>0, <2>3, <2>4 DEF Policies!ToolRegistryAssumption, Policies!AgentRegistryAssumption
  <2>5. ASSUME q.capability # None
        PROVE  /\ Policies!CommandClassOf(q.capability) \notin {"PRODUCTION_WRITE", "FINANCIAL"}
               /\ Policies!CommandClassOf(q.capability) \in Policies!WRITE_CLASSES =>
                    ~q.paused /\ q.environment # "production"
    BY <1>4, <2>5 DEF Policies!Refused, Policies!ReservedToTheFounder
  <2> QED
    BY <1>2, <2>1, <2>3, <2>4, <2>5
<1> QED
  BY <1>1, <1>3, <1>4, AllowPassesEveryRule

-------------------------------------------------------------------------------
\* For any routing table and any agents, the model router sends a step to a
\* tier that its risk allows, and never one dearer than both the agent's ceiling
\* and what the risk demands (ModelRouter.route).
THEOREM TierBounded == Policies!TierWithinBounds
<1>0. Policies!ModelRegistryAssumption /\ Policies!AgentRegistryAssumption
  BY RegistriesAssumption
<1> SUFFICES ASSUME NEW agent \in DOMAIN AgentDef, NEW risk \in 0 .. 5,
                    NEW raised \in BOOLEAN,
                    NEW taskType \in DOMAIN TaskTypeDefault \cup {"no_such_type"}
             PROVE  LET tier == Policies!RouteTier(agent, taskType, risk, raised)
                    IN  /\ RiskFloor[risk] <= tier
                        /\ tier <= Policies!MaxTier(RiskFloor[risk],
                                                    Policies!AgentCeilingTier(agent))
  BY DEF Policies!TierWithinBounds
<1>1. RiskFloor[risk] \in Policies!ModelTier
  BY <1>0 DEF Policies!ModelRegistryAssumption
<1>2. Policies!TaskDefault(taskType) \in Policies!ModelTier
  BY <1>0 DEF Policies!ModelRegistryAssumption, Policies!TaskDefault,
              Policies!STANDARD_CODING, Policies!ModelTier
<1>3. Policies!AgentCeilingTier(agent) \in Policies!ModelTier
  BY <1>0 DEF Policies!ModelRegistryAssumption, Policies!AgentRegistryAssumption,
              Policies!AgentCeilingTier, Policies!MaxTier
<1> QED
  BY <1>1, <1>2, <1>3
     DEF Policies!RouteTier, Policies!RaiseOneTier, Policies!MaxTier, Policies!ModelTier

-------------------------------------------------------------------------------
\* The gateway never denies a registered agent a capability it holds, as long as
\* the runtime is not paused (CapabilityGateway.authorize).
LEMMA HeldIsNotDenied ==
  ASSUME NEW agent \in DOMAIN AgentDef, NEW cap \in AgentDef[agent].allowed_tools,
         NEW risk, NEW environment
  PROVE  Policies!Authorize(agent, cap, "step", risk, environment, FALSE) # "DENY"
<1>0. Policies!ToolRegistryAssumption /\ Policies!AgentRegistryAssumption
  BY RegistriesAssumption
<1>1. ~Policies!NotGranted(agent, cap)
  BY <1>0 DEF Policies!NotGranted, Policies!AgentRegistryAssumption,
              Policies!ToolRegistryAssumption
<1> QED
  BY <1>1 DEF Policies!Authorize, Policies!Evaluate, Policies!Refused

\* A step of the simulated runner asks for nothing its agent does not hold.
LEMMA NeedsAreHeld ==
  ASSUME NEW agent, NEW kinds
  PROVE  Policies!NeedsOf(kinds, agent) \subseteq AgentDef[agent].allowed_tools
  BY DEF Policies!NeedsOf

\* See Policy: for any agents whose grants the registry accepts, only a pause fails
\* a step of the simulated runner, and it does fail one that writes.
LEMMA PauseAloneFails == Policies!OnlyAPauseFailsAStep
<1>0. Policies!ToolRegistryAssumption /\ Policies!AgentRegistryAssumption
  BY RegistriesAssumption
<1> SUFFICES ASSUME NEW agent \in DOMAIN AgentDef, NEW kinds \in SUBSET Policies!StepKind,
                    NEW risk \in 0 .. 5, NEW environment \in {"staging", "sandbox"}
             PROVE  /\ Policies!SimulatedOutcome(agent, kinds, risk, environment, FALSE) = "PASS"
                    /\ "builds" \in kinds /\ "fs.write" \in AgentDef[agent].allowed_tools =>
                         Policies!SimulatedOutcome(agent, kinds, risk, environment, TRUE) = "FAIL"
  BY DEF Policies!OnlyAPauseFailsAStep
<1>1. Policies!SimulatedOutcome(agent, kinds, risk, environment, FALSE) = "PASS"
  BY NeedsAreHeld, HeldIsNotDenied DEF Policies!SimulatedOutcome
<1>2. ASSUME "builds" \in kinds, "fs.write" \in AgentDef[agent].allowed_tools
      PROVE  Policies!SimulatedOutcome(agent, kinds, risk, environment, TRUE) = "FAIL"
  <2>1. "fs.write" \in Policies!NeedsOf(kinds, agent)
    BY <1>2 DEF Policies!NeedsOf
  <2>2. Policies!CommandClassOf("fs.write") \in Policies!WRITE_CLASSES
    BY WritingIsAWriteClass
  <2>3. Policies!Authorize(agent, "fs.write", "step", risk, environment, TRUE) = "DENY"
    <3>1. "fs.write" # None
      BY <1>0, <1>2 DEF Policies!AgentRegistryAssumption
    <3>2. "step" \notin Policies!CRITICAL_ACTIONS
      BY DEF Policies!CRITICAL_ACTIONS
    <3> QED
      BY <2>2, <3>1, <3>2
         DEF Policies!Authorize, Policies!Evaluate, Policies!Refused, Policies!IsPreparation
  <2> QED
    BY <2>1, <2>3 DEF Policies!SimulatedOutcome
<1> QED
  BY <1>1, <1>2

-------------------------------------------------------------------------------
\* See Policy: in every state of a stage, over any registries that load, nothing
\* runs by itself that is critical, unearned or paused.
THEOREM DecisionsAreEarned == StageSpec => []AllowIsEarned
<1>1. AllowIsEarned
  BY AllowEarned DEF AllowIsEarned
<1> QED
  BY <1>1, PTL

\* See Policy: and a step of the simulated runner is failed by the pause alone.
THEOREM OnlyPausesFail == StageSpec => []OnlyAPauseFailsAStep
<1>1. OnlyAPauseFailsAStep
  BY PauseAloneFails DEF OnlyAPauseFailsAStep
<1> QED
  BY <1>1, PTL
===============================================================================
