----------------------------- MODULE ProcessProofs -----------------------------
(***************************************************************************)
(* Machine-checked proofs about OrchestratorProcesses: what any number of  *)
(* CLI processes keep of the engine's promises, for any registry of        *)
(* workflow definitions, however they interleave between their reads and   *)
(* their writes, wherever they are killed and whenever the kill switch is  *)
(* used.                                                                   *)
(***************************************************************************)
EXTENDS ProcessSafety, WorkflowProofs

-------------------------------------------------------------------------------
(***************************************************************************)
(* The inductive invariant. A process writes a row it has read before, so  *)
(* what holds of the rows in the table must hold as well of those that a   *)
(* process still has in its hands, however old they are: whatever puts one *)
(* back does no harm.                                                      *)
(***************************************************************************)

\* The run, as row has it, has passed a step that only the founder opens.
PassedByAuthority(row) ==
  \E i \in DOMAIN row.history :
    /\ row.history[i].result = "PASS"
    /\ \/ IsHumanGate(row.workflow_id, row.history[i].step_id)
       \/ NeedsApproval(row.workflow_id, row.history[i].step_id)

\* The request a is there, of the run r and about the step s.
IsRequestOf(a, r, s) ==
  /\ a \in DOMAIN approvals
  /\ approvals[a].run_id = r
  /\ approvals[a].step_id = s

\* A row of the run r that may be stored at any time.
SoundRow(r, row) ==
  /\ OnItsGraph(row)
  /\ PassedByAuthority(row) => \E a \in granted : approvals[a].run_id = r
  /\ row.status = "APPROVAL_REQUIRED" => row.pending_approval_id # None
  /\ row.pending_approval_id # None =>
       IsRequestOf(row.pending_approval_id, r, row.current_step)

\* What a process has in its hands.
Job == [run : Run \cup {None}, seen : WorkflowRun \cup {None}, about : Approval \cup {None},
        by : Identity \cup {None}, says : {"PASS", "FAIL", None} \cup Decision,
        mark : TaskStatus \cup {None}, turns : Nat]

\* What of it each label relies on.
SoundJob(label, j) ==
  /\ label \in {"plan", "start"} => j.run \in DOMAIN tasks
  /\ label \notin {"idle", "plan", "start", "decide"} => j.run \in DOMAIN runs
  /\ label \in {"write", "ask", "park", "look"} => SoundRow(j.run, j.seen)
  /\ label \in {"work", "submit", "write"} => j.by \in Identity
  /\ label \in {"submit", "write"} => j.says \in {"PASS", "FAIL"}
  /\ label = "write" => ~AtHumanGate(j.seen)
  /\ label = "park" => IsRequestOf(j.about, j.run, j.seen.current_step)
  /\ label = "look" => j.seen.pending_approval_id # None
  /\ label = "decide" => j.about \in DOMAIN approvals /\ j.says \in Decision

RowsAreSound == \A r \in DOMAIN runs : SoundRow(r, runs[r])

GrantsAreRemembered ==
  \A a \in DOMAIN approvals : approvals[a].state = "APPROVED" => a \in granted

JobsAreSound ==
  /\ job \in [Proc -> Job]
  /\ \A p \in Proc : SoundJob(pc[p], job[p])

ProcInv ==
  /\ ProcTypeOK
  /\ RequestsHaveRuns
  /\ RowsAreSound
  /\ GrantsAreRemembered
  /\ JobsAreSound

-------------------------------------------------------------------------------
(***************************************************************************)
(* What the promises follow from                                           *)
(***************************************************************************)
LEMMA SoundRowsMakeThePromises ==
  ASSUME ProcInv
  PROVE  FounderBehindEveryPass /\ ParkedRunsHoldTheirRequest
<1>1. ASSUME NEW r \in DOMAIN runs
      PROVE  SoundRow(r, runs[r])
  BY DEF ProcInv, RowsAreSound
<1>2. FounderBehindEveryPass
  <2> SUFFICES ASSUME NEW r \in DOMAIN runs, Crossings(r) \cup Deliveries(r) # {}
               PROVE  \E a \in granted : approvals[a].run_id = r
    BY DEF FounderBehindEveryPass
  <2>1. PassedByAuthority(runs[r])
    BY DEF Crossings, Deliveries, PassedByAuthority
  <2> QED
    BY <1>1, <2>1 DEF SoundRow
<1>3. ParkedRunsHoldTheirRequest
  BY <1>1 DEF SoundRow, IsRequestOf, ParkedRunsHoldTheirRequest
<1> QED
  BY <1>2, <1>3

-------------------------------------------------------------------------------
(***************************************************************************)
(* What no process ever takes back                                         *)
(***************************************************************************)
Remembers ==
  /\ DOMAIN approvals \subseteq DOMAIN approvals'
  /\ \A a \in DOMAIN approvals :
       /\ approvals'[a].run_id = approvals[a].run_id
       /\ approvals'[a].step_id = approvals[a].step_id
  /\ granted \subseteq granted'
  /\ DOMAIN runs \subseteq DOMAIN runs'
  /\ DOMAIN tasks \subseteq DOMAIN tasks'

LEMMA StillARequest ==
  ASSUME Remembers, NEW a, NEW r, NEW s, IsRequestOf(a, r, s)
  PROVE  IsRequestOf(a, r, s)'
  BY DEF Remembers, IsRequestOf

\* So a row that was sound when it was read still is when it is written.
LEMMA StillSound ==
  ASSUME ProcTypeOK, Remembers, NEW r, NEW row, SoundRow(r, row)
  PROVE  SoundRow(r, row)'
<1>1. ASSUME NEW a \in granted
      PROVE  a \in granted' /\ approvals'[a].run_id = approvals[a].run_id
  BY DEF ProcTypeOK, Remembers
<1>2. PassedByAuthority(row)' <=> PassedByAuthority(row)
  BY DEF PassedByAuthority
<1>3. row.pending_approval_id # None =>
        IsRequestOf(row.pending_approval_id, r, row.current_step)'
  BY StillARequest DEF SoundRow
<1>4. OnItsGraph(row)'
  BY DEF SoundRow, OnItsGraph
<1> QED
  BY <1>1, <1>2, <1>3, <1>4 DEF SoundRow

\* And so does what a process relies on.
LEMMA StillReliable ==
  ASSUME ProcTypeOK, Remembers, NEW label, NEW j, SoundJob(label, j)
  PROVE  SoundJob(label, j)'
<1>1. SoundRow(j.run, j.seen) => SoundRow(j.run, j.seen)'
  BY StillSound
<1>2. IsRequestOf(j.about, j.run, j.seen.current_step) =>
        IsRequestOf(j.about, j.run, j.seen.current_step)'
  BY StillARequest
<1>3. AtHumanGate(j.seen)' <=> AtHumanGate(j.seen)
  OBVIOUS
<1> QED
  BY <1>1, <1>2, <1>3 DEF SoundJob, Remembers

\* One process goes on to a label it may be at; the others are where they were.
LEMMA OneGoesOn ==
  ASSUME ProcInv, Remembers, NEW p \in Proc, NEW label \in Control, NEW j \in Job,
         Goto(p, label, j), SoundJob(label, j)'
  PROVE  JobsAreSound' /\ pc' \in [Proc -> Control]
<1>1. /\ pc \in [Proc -> Control] /\ job \in [Proc -> Job]
      /\ pc' = [pc EXCEPT ![p] = label] /\ job' = [job EXCEPT ![p] = j]
  BY DEF ProcInv, ProcTypeOK, JobsAreSound, Goto
<1>2. /\ pc' \in [Proc -> Control] /\ job' \in [Proc -> Job]
      /\ pc'[p] = label /\ job'[p] = j
      /\ \A q \in Proc : q # p => pc'[q] = pc[q] /\ job'[q] = job[q]
  BY <1>1
<1>3. ASSUME NEW q \in Proc, q # p
      PROVE  SoundJob(pc[q], job[q])'
  <2>1. SoundJob(pc[q], job[q])
    BY DEF ProcInv, JobsAreSound
  <2> PICK l, k : l = pc[q] /\ k = job[q]
    OBVIOUS
  <2>2. SoundJob(l, k)'
    BY <2>1, StillReliable DEF ProcInv
  <2> QED
    BY <1>2, <1>3, <2>2
<1>4. \A q \in Proc : SoundJob(pc[q], job[q])'
  BY <1>2, <1>3
<1> QED
  BY <1>2, <1>4 DEF JobsAreSound

-------------------------------------------------------------------------------
(***************************************************************************)
(* The three kinds of step a process takes                                 *)
(***************************************************************************)

\* It goes on without touching runs or requests; it may mark its task.
LEMMA GoingOnKeeps ==
  ASSUME ProcInv, NEW p \in Proc, NEW label \in Control, NEW j \in Job,
         Goto(p, label, j), SoundJob(label, j)',
         UNCHANGED <<approvals, due, runs, paused, granted>>,
         IsTable(tasks', Run, TaskStatus), DOMAIN tasks \subseteq DOMAIN tasks',
         crashes' \in 0 .. MaxCrash
  PROVE  ProcInv'
<1>1. Remembers
  BY DEF Remembers
<1>2. JobsAreSound' /\ pc' \in [Proc -> Control]
  BY <1>1, OneGoesOn
<1>3. ProcTypeOK'
  BY <1>2 DEF ProcInv, ProcTypeOK, TypeOK, ApprovalTypeOK
<1>4. RequestsHaveRuns' /\ GrantsAreRemembered'
  BY DEF ProcInv, RequestsHaveRuns, GrantsAreRemembered
<1>5. RowsAreSound'
  BY <1>1, StillSound DEF ProcInv, RowsAreSound
<1> QED
  BY <1>2, <1>3, <1>4, <1>5 DEF ProcInv

\* Most of these steps leave the tasks alone too.
LEMMA ReadingKeeps ==
  ASSUME ProcInv, NEW p \in Proc, NEW label \in Control, NEW j \in Job,
         Goto(p, label, j), SoundJob(label, j),
         UNCHANGED <<approvals, due, runs, paused, tasks, granted, crashes>>
  PROVE  ProcInv'
<1>1. Remembers
  BY DEF Remembers
<1>2. SoundJob(label, j)'
  BY <1>1, StillReliable DEF ProcInv
<1>3. IsTable(tasks', Run, TaskStatus) /\ crashes' \in 0 .. MaxCrash
  BY DEF ProcInv, ProcTypeOK
<1> QED
  BY <1>2, <1>3, GoingOnKeeps

\* It stores a sound row of a run whose task is known.
LEMMA StoringARunKeeps ==
  ASSUME ProcInv, NEW p \in Proc, NEW label \in Control, NEW j \in Job,
         Goto(p, label, j), SoundJob(label, j)',
         NEW r \in DOMAIN tasks, NEW row, SoundRow(r, row), runs' = Upsert(runs, r, row),
         UNCHANGED <<approvals, due, paused, tasks, granted, crashes>>
  PROVE  ProcInv'
<1>1. r \in Run /\ TypeOK /\ OnItsGraph(row)
  BY DEF ProcInv, ProcTypeOK, IsTable, SoundRow
<1>2. /\ DOMAIN runs' = DOMAIN runs \cup {r}
      /\ runs'[r] = row
      /\ \A q \in DOMAIN runs : q # r => runs'[q] = runs[q]
  BY DEF Upsert
<1>3. Remembers
  BY <1>2 DEF Remembers
<1>4. JobsAreSound' /\ pc' \in [Proc -> Control]
  BY <1>3, OneGoesOn
<1>5. TypeOK'
  BY <1>1, PutRunType DEF TypeOK, ApprovalTypeOK
<1>6. ProcTypeOK'
  BY <1>2, <1>4, <1>5 DEF ProcInv, ProcTypeOK
<1>7. RequestsHaveRuns' /\ GrantsAreRemembered'
  BY <1>2 DEF ProcInv, RequestsHaveRuns, GrantsAreRemembered
<1>8. RowsAreSound'
  <2> SUFFICES ASSUME NEW q \in DOMAIN runs' PROVE SoundRow(q, runs[q])'
    BY DEF RowsAreSound
  <2> PICK x : x = runs'[q]
    OBVIOUS
  <2>1. SoundRow(q, x)
    BY <1>2 DEF ProcInv, RowsAreSound
  <2>2. SoundRow(q, x)'
    BY <1>3, <2>1, StillSound DEF ProcInv
  <2> QED
    BY <2>2
<1> QED
  BY <1>4, <1>6, <1>7, <1>8 DEF ProcInv

\* It stores a request of a run that exists: a new one, or the decision on one
\* that stays the same run's and about the same step.
LEMMA StoringARequestKeeps ==
  ASSUME ProcInv, NEW p \in Proc, NEW label \in Control, NEW j \in Job,
         Goto(p, label, j), SoundJob(label, j)',
         NEW a \in Approval, NEW req \in ApprovalRequest, approvals' = Upsert(approvals, a, req),
         req.run_id \in DOMAIN runs,
         a \in DOMAIN approvals =>
           req.run_id = approvals[a].run_id /\ req.step_id = approvals[a].step_id,
         granted' = IF req.state = "APPROVED" THEN granted \cup {a} ELSE granted,
         UNCHANGED <<due, runs, paused, tasks, crashes>>
  PROVE  ProcInv'
<1>1. /\ IsTable(approvals', Approval, ApprovalRequest)
      /\ DOMAIN approvals' = DOMAIN approvals \cup {a}
      /\ approvals'[a] = req
      /\ \A b \in DOMAIN approvals : b # a => approvals'[b] = approvals[b]
  BY PutApproval DEF ProcInv, ProcTypeOK, TypeOK, ApprovalTypeOK
<1>2. Remembers
  BY <1>1 DEF Remembers
<1>3. JobsAreSound' /\ pc' \in [Proc -> Control]
  BY <1>2, OneGoesOn
<1>4. ProcTypeOK'
  BY <1>1, <1>3 DEF ProcInv, ProcTypeOK, TypeOK, ApprovalTypeOK
<1>5. RequestsHaveRuns' /\ GrantsAreRemembered'
  BY <1>1 DEF ProcInv, RequestsHaveRuns, GrantsAreRemembered
<1>6. RowsAreSound'
  BY <1>2, StillSound DEF ProcInv, RowsAreSound
<1> QED
  BY <1>3, <1>4, <1>5, <1>6 DEF ProcInv

-------------------------------------------------------------------------------
(***************************************************************************)
(* What the engine makes of a sound row is sound                           *)
(***************************************************************************)
LEMMA NewRowIsSound ==
  ASSUME NEW r, NEW w \in Workflow
  PROVE  SoundRow(r, NewRun(w))
<1>1. OnItsGraph(NewRun(w))
  BY NewRunType
<1>2. ~PassedByAuthority(NewRun(w))
  BY EmptySeq DEF NewRun, PassedByAuthority
<1> QED
  BY <1>1, <1>2 DEF SoundRow, NewRun

\* One more record is the only new thing a run can have passed.
LEMMA OneRecordMore ==
  ASSUME NEW row, OnItsGraph(row), NEW record \in StepRecord, NEW next,
         next.workflow_id = row.workflow_id, next.history = Append(row.history, record),
         PassedByAuthority(next)
  PROVE  \/ PassedByAuthority(row)
         \/ /\ record.result = "PASS"
            /\ \/ IsHumanGate(row.workflow_id, record.step_id)
               \/ NeedsApproval(row.workflow_id, record.step_id)
<1> DEFINE h == row.history
<1>1. h \in Seq(StepRecord) /\ Len(h) \in Nat /\ DOMAIN h = 1 .. Len(h)
  BY LenProperties DEF OnItsGraph, WorkflowRun
<1>2. /\ DOMAIN Append(h, record) = 1 .. Len(h) + 1
      /\ Append(h, record)[Len(h) + 1] = record
      /\ \A i \in 1 .. Len(h) : Append(h, record)[i] = h[i]
  BY <1>1, AppendProperties
<1>3. PICK i \in DOMAIN next.history :
        /\ next.history[i].result = "PASS"
        /\ \/ IsHumanGate(row.workflow_id, next.history[i].step_id)
           \/ NeedsApproval(row.workflow_id, next.history[i].step_id)
  BY DEF PassedByAuthority
<1>4. CASE i = Len(h) + 1
  BY <1>2, <1>3, <1>4
<1>5. CASE i # Len(h) + 1
  <2>1. i \in DOMAIN h /\ next.history[i] = h[i]
    BY <1>1, <1>2, <1>3, <1>5
  <2> QED
    BY <1>3, <2>1 DEF PassedByAuthority
<1> QED
  BY <1>4, <1>5

\* submitOutcome advances a run past an authorized step only if it finds an
\* APPROVED request of the run, so a grant was made to it.
LEMMA OutcomeIsSound ==
  ASSUME ProcInv, NEW r, NEW row, SoundRow(r, row), ~AtHumanGate(row),
         NEW by \in Identity, NEW says \in {"PASS", "FAIL"}
  PROVE  SoundRow(r, AfterOutcome(r, row, by, says))
<1> DEFINE next == AfterOutcome(r, row, by, says)
           record == Record(row, by, says)
<1>1. OnItsGraph(row)
  BY DEF SoundRow
<1>2. /\ OnItsGraph(next)
      /\ next.workflow_id = row.workflow_id
      /\ \/ /\ next.status \in {"PAUSED", "BLOCKED"}
            /\ next.history = row.history
            /\ next.current_step = row.current_step
            /\ next.pending_approval_id = row.pending_approval_id
         \/ /\ next.status # "APPROVAL_REQUIRED"
            /\ next.history = Append(row.history, record)
            /\ next.pending_approval_id = None
            /\ ~LacksApproval(r, row, says)
  BY <1>1, AfterOutcomeType
<1>3. record \in StepRecord /\ record.result = says /\ record.step_id = row.current_step
  BY <1>1 DEF Record, StepRecord, OnItsGraph, WorkflowRun
<1> HIDE DEF next, record
<1>4. CASE /\ next.status \in {"PAUSED", "BLOCKED"}
           /\ next.history = row.history
           /\ next.current_step = row.current_step
           /\ next.pending_approval_id = row.pending_approval_id
  <2>1. PassedByAuthority(next) <=> PassedByAuthority(row)
    BY <1>2, <1>4 DEF PassedByAuthority
  <2> QED
    BY <1>2, <1>4, <2>1 DEF SoundRow, next
<1>5. CASE /\ next.status # "APPROVAL_REQUIRED"
           /\ next.history = Append(row.history, record)
           /\ next.pending_approval_id = None
           /\ ~LacksApproval(r, row, says)
  <2>1. ASSUME PassedByAuthority(next)
        PROVE  \E a \in granted : approvals[a].run_id = r
    <3>1. CASE PassedByAuthority(row)
      BY <3>1 DEF SoundRow
    <3>2. CASE ~PassedByAuthority(row)
      <4>1. says = "PASS" /\ NeedsApproval(row.workflow_id, row.current_step)
        BY <1>1, <1>2, <1>3, <1>5, <2>1, <3>2, OneRecordMore DEF AtHumanGate
      <4>2. RunHasApproval(r)
        BY <1>5, <4>1 DEF LacksApproval
      <4> QED
        BY <4>2 DEF RunHasApproval, ProcInv, GrantsAreRemembered
    <3> QED
      BY <3>1, <3>2
  <2> QED
    BY <1>2, <1>5, <2>1 DEF SoundRow, next
<1> QED
  BY <1>2, <1>4, <1>5

\* resumeAfterApproval moves a run on past its gate only if the request it waits
\* for, which is its own, reads APPROVED.
LEMMA DecisionIsSound ==
  ASSUME ProcInv, NEW r, NEW row, SoundRow(r, row), row.pending_approval_id # None
  PROVE  SoundRow(r, AfterDecision(row, approvals[row.pending_approval_id].state))
<1> DEFINE a == row.pending_approval_id
           state == approvals[a].state
           next == AfterDecision(row, state)
           result == IF state = "APPROVED" THEN "PASS" ELSE "FAIL"
           record == Record(row, HUMAN_FOUNDER, result)
<1>1. OnItsGraph(row)
  BY DEF SoundRow
<1>2. /\ OnItsGraph(next)
      /\ next.workflow_id = row.workflow_id
      /\ state = "PENDING" => next = row
      /\ state # "PENDING" =>
           /\ next.pending_approval_id = None
           /\ next.status # "APPROVAL_REQUIRED"
           /\ next.history = Append(row.history, record)
  BY <1>1, AfterDecisionType
<1>3. record \in StepRecord /\ record.result = result
  BY <1>1, IdentityAssumption DEF Record, StepRecord, OnItsGraph, WorkflowRun
<1>4. state = "APPROVED" => \E b \in granted : approvals[b].run_id = r
  BY DEF SoundRow, IsRequestOf, ProcInv, GrantsAreRemembered
<1>5. state # "APPROVED" => record.result # "PASS"
  BY <1>3
<1> HIDE DEF next, record, state
<1>6. CASE state = "PENDING"
  BY <1>2, <1>6 DEF next, state
<1>7. CASE state # "PENDING"
  <2>1. PassedByAuthority(next) => \E b \in granted : approvals[b].run_id = r
    BY <1>1, <1>2, <1>3, <1>4, <1>5, <1>7, OneRecordMore DEF SoundRow
  <2>2. SoundRow(r, next)
    BY <1>2, <1>7, <2>1 DEF SoundRow
  <2> QED
    BY <2>2 DEF next, state
<1> QED
  BY <1>6, <1>7

\* openApproval parks a run on a request made for it.
LEMMA ParkingIsSound ==
  ASSUME NEW r, NEW row, SoundRow(r, row), NEW a \in Approval,
         IsRequestOf(a, r, row.current_step)
  PROVE  SoundRow(r, Parked(row, a))
<1> DEFINE next == Parked(row, a)
<1>1. /\ OnItsGraph(next)
      /\ next.status = "APPROVAL_REQUIRED"
      /\ next.pending_approval_id = a
      /\ next.current_step = row.current_step
      /\ next.workflow_id = row.workflow_id
      /\ next.history = row.history
  BY ParkedType DEF SoundRow
<1>2. a # None
  BY NoneAssumption
<1> HIDE DEF next
<1>3. PassedByAuthority(next) <=> PassedByAuthority(row)
  BY <1>1 DEF PassedByAuthority
<1>4. SoundRow(r, next)
  BY <1>1, <1>2, <1>3 DEF SoundRow
<1> QED
  BY <1>4 DEF next

-------------------------------------------------------------------------------
(***************************************************************************)
(* Every step keeps the invariant: the commands, then what they go on to   *)
(***************************************************************************)

\* A process that is to continue has its job, and what its label relies on.
LEMMA InHand ==
  ASSUME ProcInv, NEW p \in Proc
  PROVE  job[p] \in Job /\ SoundJob(pc[p], job[p])
  BY DEF ProcInv, JobsAreSound

LEMMA RowInTheTable ==
  ASSUME ProcInv, NEW r \in DOMAIN runs
  PROVE  r \in Run /\ r \in DOMAIN tasks /\ SoundRow(r, runs[r]) /\ runs[r] \in WorkflowRun
  BY DEF ProcInv, RowsAreSound, ProcTypeOK, IsTable, SoundRow, OnItsGraph

LEMMA NoJobIsAJob == NoJob \in Job
  BY DEF NoJob, Job

\* Whether it returned, threw or was killed, it leaves nothing behind.
LEMMA ExitKeeps ==
  ASSUME ProcInv, NEW p \in Proc, Exit(p),
         UNCHANGED <<approvals, due, runs, paused, granted>>,
         IsTable(tasks', Run, TaskStatus), DOMAIN tasks \subseteq DOMAIN tasks',
         crashes' \in 0 .. MaxCrash
  PROVE  ProcInv'
<1>1. Goto(p, "idle", NoJob) /\ "idle" \in Control
  BY DEF Exit, Control
<1>2. SoundJob("idle", NoJob)'
  BY DEF SoundJob
<1> QED
  BY <1>1, <1>2, NoJobIsAJob, GoingOnKeeps

LEMMA TasksStay ==
  ASSUME ProcInv, UNCHANGED <<tasks, crashes>>
  PROVE  /\ IsTable(tasks', Run, TaskStatus) /\ DOMAIN tasks \subseteq DOMAIN tasks'
         /\ crashes' \in 0 .. MaxCrash
  BY DEF ProcInv, ProcTypeOK

LEMMA TaskMarked ==
  ASSUME ProcInv, NEW r \in Run, NEW mark \in TaskStatus, tasks' = Upsert(tasks, r, mark)
  PROVE  IsTable(tasks', Run, TaskStatus) /\ DOMAIN tasks' = DOMAIN tasks \cup {r}
<1>1. IsTable(tasks, Run, TaskStatus)
  BY DEF ProcInv, ProcTypeOK
<1> QED
  BY <1>1, UpsertTable

LEMMA TaskRunKeeps ==
  ASSUME ProcInv, NEW p \in Proc, NEW r \in Run, TaskRun(p, r)
  PROVE  ProcInv'
<1> DEFINE j == [NoJob EXCEPT !.run = r]
<1>1. /\ tasks' = Upsert(tasks, r, "CREATED")
      /\ Goto(p, "plan", j)
      /\ UNCHANGED <<approvals, due, runs, paused, granted, crashes>>
  BY DEF TaskRun
<1>2. j \in Job /\ j.run = r
  BY DEF NoJob, Job
<1> HIDE DEF j
<1>3. IsTable(tasks', Run, TaskStatus) /\ DOMAIN tasks' = DOMAIN tasks \cup {r}
  BY <1>1, TaskMarked DEF TaskStatus
<1>4. SoundJob("plan", j)'
  BY <1>2, <1>3 DEF SoundJob
<1>5. "plan" \in Control /\ crashes' \in 0 .. MaxCrash
  BY <1>1 DEF Control, ProcInv, ProcTypeOK
<1> QED
  BY <1>1, <1>2, <1>3, <1>4, <1>5, GoingOnKeeps

LEMMA FounderDecidesOnKeeps ==
  ASSUME ProcInv, NEW p \in Proc, NEW a \in Approval, NEW to \in Decision,
         FounderDecidesOn(p, a, to)
  PROVE  ProcInv'
<1> DEFINE j == [NoJob EXCEPT !.about = a, !.says = to]
<1>1. /\ a \in DOMAIN approvals
      /\ Goto(p, "decide", j)
      /\ UNCHANGED <<approvals, due, runs, paused, tasks, granted, crashes>>
  BY DEF FounderDecidesOn
<1>2. j \in Job /\ j.about = a /\ j.says = to
  BY DEF NoJob, Job
<1> HIDE DEF j
<1>3. SoundJob("decide", j) /\ "decide" \in Control
  BY <1>1, <1>2 DEF SoundJob, Control
<1> QED
  BY <1>1, <1>2, <1>3, ReadingKeeps

LEMMA ResumeRunKeeps ==
  ASSUME ProcInv, NEW p \in Proc, NEW r \in Run, ResumeRun(p, r)
  PROVE  ProcInv'
<1> DEFINE j == [NoJob EXCEPT !.run = r, !.seen = runs[r]]
<1>1. /\ r \in DOMAIN runs
      /\ Awaiting(runs[r])
      /\ Goto(p, "look", j)
      /\ UNCHANGED <<approvals, due, runs, paused, tasks, granted, crashes>>
  BY DEF ResumeRun
<1>2. SoundRow(r, runs[r]) /\ runs[r] \in WorkflowRun
  BY <1>1, RowInTheTable
<1>3. j \in Job /\ j.run = r /\ j.seen = runs[r]
  BY <1>2 DEF NoJob, Job
<1> HIDE DEF j
<1>4. SoundJob("look", j) /\ "look" \in Control
  BY <1>1, <1>2, <1>3 DEF SoundJob, Control, Awaiting
<1> QED
  BY <1>1, <1>3, <1>4, ReadingKeeps

LEMMA PlanKeeps ==
  ASSUME ProcInv, NEW p \in Proc, Plan(p)
  PROVE  ProcInv'
<1> DEFINE j == job[p]
<1>1. /\ pc[p] = "plan"
      /\ UNCHANGED <<approvals, due, runs, paused, granted, crashes>>
      /\ \/ Exit(p) /\ UNCHANGED tasks
         \/ tasks' = Upsert(tasks, j.run, "CLASSIFIED") /\ Goto(p, "start", j)
  BY DEF Plan
<1>2. j \in Job /\ j.run \in DOMAIN tasks
  BY <1>1, InHand DEF SoundJob
<1>3. j.run \in Run
  BY <1>2 DEF ProcInv, ProcTypeOK, IsTable
<1>4. CASE Exit(p) /\ UNCHANGED tasks
  BY <1>1, <1>4, TasksStay, ExitKeeps
<1>5. CASE tasks' = Upsert(tasks, j.run, "CLASSIFIED") /\ Goto(p, "start", j)
  <2>1. PICK k : k = j
    OBVIOUS
  <2> HIDE DEF j
  <2>2. IsTable(tasks', Run, TaskStatus) /\ DOMAIN tasks' = DOMAIN tasks \cup {j.run}
    BY <1>3, <1>5, TaskMarked DEF TaskStatus
  <2>3. SoundJob("start", k)'
    BY <1>2, <2>1, <2>2 DEF SoundJob
  <2>4. "start" \in Control /\ crashes' \in 0 .. MaxCrash
    BY <1>1 DEF Control, ProcInv, ProcTypeOK
  <2> QED
    BY <1>1, <1>2, <1>5, <2>1, <2>2, <2>3, <2>4, GoingOnKeeps
<1> QED
  BY <1>1, <1>4, <1>5

LEMMA StartRunKeeps ==
  ASSUME ProcInv, NEW p \in Proc, StartRun(p)
  PROVE  ProcInv'
<1>1. PICK w, j, r :
        /\ w \in Workflow /\ j = job[p] /\ r = j.run /\ pc[p] = "start"
        /\ runs' = Upsert(runs, r, NewRun(w))
        /\ Goto(p, "drive", j)
        /\ UNCHANGED <<approvals, due, paused, tasks, granted, crashes>>
  BY DEF StartRun
<1>2. j \in Job /\ r \in DOMAIN tasks
  BY <1>1, InHand DEF SoundJob
<1>3. SoundRow(r, NewRun(w))
  BY <1>1, NewRowIsSound
<1>4. SoundJob("drive", j)' /\ "drive" \in Control
  BY <1>1 DEF SoundJob, Upsert, Control
<1> QED
  BY <1>1, <1>2, <1>3, <1>4, StoringARunKeeps

LEMMA EnterDriveKeeps ==
  ASSUME ProcInv, NEW p \in Proc, EnterDrive(p)
  PROVE  ProcInv'
<1> DEFINE j == [job[p] EXCEPT !.turns = 0]
<1>1. /\ pc[p] = "drive"
      /\ UNCHANGED <<approvals, due, runs, paused, tasks, granted, crashes>>
      /\ Exit(p) \/ Goto(p, "turn", j)
  BY DEF EnterDrive
<1>2. job[p] \in Job /\ job[p].run \in DOMAIN runs
  BY <1>1, InHand DEF SoundJob
<1>3. j \in Job /\ j.run = job[p].run
  BY <1>2 DEF Job
<1>4. SoundJob("turn", j) /\ "turn" \in Control
  BY <1>2, <1>3 DEF SoundJob, Control
<1> HIDE DEF j
<1> QED
  BY <1>1, <1>3, <1>4, TasksStay, ExitKeeps, ReadingKeeps

\* drive's turn: whatever it reads, it goes on with the run it has.
LEMMA TurnKeeps ==
  ASSUME ProcInv, NEW p \in Proc, Turn(p)
  PROVE  ProcInv'
<1>1. PICK j, run, owner :
        /\ j = job[p] /\ run = runs[j.run] /\ owner = StepOf(run).owner /\ pc[p] = "turn"
        /\ UNCHANGED <<approvals, due, runs, paused, tasks, granted, crashes>>
        /\ \/ Goto(p, "finish", [j EXCEPT !.mark = MarkFor(j.seen)])
           \/ Goto(p, "finish", [j EXCEPT !.mark = MarkFor(run)])
           \/ Goto(p, "gate", j)
           \/ Goto(p, "work", [j EXCEPT !.by = owner])
           \/ Goto(p, "submit", [j EXCEPT !.by = owner, !.says = "PASS"])
  BY DEF Turn
<1>2. j \in Job /\ j.run \in DOMAIN runs
  BY <1>1, InHand DEF SoundJob
<1>3. owner \in Identity
  <2>1. OnItsGraph(run)
    BY <1>1, <1>2, RowInTheTable DEF SoundRow
  <2> QED
    BY <1>1, <2>1, StepType DEF WorkflowStep
<1>4. ASSUME NEW row, Goto(p, "finish", [j EXCEPT !.mark = MarkFor(row)])
      PROVE  ProcInv'
  <2>1. MarkFor(row) \in TaskStatus \cup {None}
    BY DEF MarkFor, TaskStatus
  <2>2. PICK k : k = [j EXCEPT !.mark = MarkFor(row)]
    OBVIOUS
  <2>3. k \in Job /\ k.run = j.run
    BY <1>2, <2>1, <2>2 DEF Job
  <2>4. SoundJob("finish", k) /\ "finish" \in Control
    BY <1>2, <2>3 DEF SoundJob, Control
  <2> QED
    BY <1>1, <1>4, <2>2, <2>3, <2>4, ReadingKeeps
<1>5. CASE Goto(p, "gate", j)
  <2>1. SoundJob("gate", j) /\ "gate" \in Control
    BY <1>2 DEF SoundJob, Control
  <2> QED
    BY <1>1, <1>2, <1>5, <2>1, ReadingKeeps
<1>6. CASE Goto(p, "work", [j EXCEPT !.by = owner])
  <2>1. PICK k : k = [j EXCEPT !.by = owner]
    OBVIOUS
  <2>2. k \in Job /\ k.run = j.run /\ k.by = owner
    BY <1>2, <1>3, <2>1 DEF Job
  <2>3. SoundJob("work", k) /\ "work" \in Control
    BY <1>2, <1>3, <2>2 DEF SoundJob, Control
  <2> QED
    BY <1>1, <1>6, <2>1, <2>2, <2>3, ReadingKeeps
<1>7. CASE Goto(p, "submit", [j EXCEPT !.by = owner, !.says = "PASS"])
  <2>1. PICK k : k = [j EXCEPT !.by = owner, !.says = "PASS"]
    OBVIOUS
  <2>2. k \in Job /\ k.run = j.run /\ k.by = owner /\ k.says = "PASS"
    BY <1>2, <1>3, <2>1 DEF Job
  <2>3. SoundJob("submit", k) /\ "submit" \in Control
    BY <1>2, <1>3, <2>2 DEF SoundJob, Control
  <2> QED
    BY <1>1, <1>7, <2>1, <2>2, <2>3, ReadingKeeps
<1> QED
  BY <1>1, <1>4, <1>5, <1>6, <1>7

LEMMA WorkKeeps ==
  ASSUME ProcInv, NEW p \in Proc, Work(p)
  PROVE  ProcInv'
<1>1. PICK result, j, k :
        /\ result \in {"PASS", "FAIL"} /\ j = job[p] /\ k = [j EXCEPT !.says = result] /\ pc[p] = "work"
        /\ Goto(p, "submit", k)
        /\ UNCHANGED <<approvals, due, runs, paused, tasks, granted, crashes>>
  BY DEF Work
<1>2. j \in Job /\ j.run \in DOMAIN runs /\ j.by \in Identity
  BY <1>1, InHand DEF SoundJob
<1>3. k \in Job /\ k.run = j.run /\ k.by = j.by /\ k.says = result
  BY <1>1, <1>2 DEF Job
<1>4. SoundJob("submit", k) /\ "submit" \in Control
  BY <1>1, <1>2, <1>3 DEF SoundJob, Control
<1> QED
  BY <1>1, <1>3, <1>4, ReadingKeeps

LEMMA SubmitKeeps ==
  ASSUME ProcInv, NEW p \in Proc, Submit(p)
  PROVE  ProcInv'
<1>1. PICK j, run, k :
        /\ j = job[p] /\ run = runs[j.run] /\ k = [j EXCEPT !.seen = run] /\ pc[p] = "submit"
        /\ Exit(p) \/ (MaySubmit(run, j.by) /\ Goto(p, "write", k))
        /\ UNCHANGED <<approvals, due, runs, paused, tasks, granted, crashes>>
  BY DEF Submit
<1>2. j \in Job /\ j.run \in DOMAIN runs /\ j.by \in Identity /\ j.says \in {"PASS", "FAIL"}
  BY <1>1, InHand DEF SoundJob
<1>3. SoundRow(j.run, run) /\ run \in WorkflowRun
  BY <1>1, <1>2, RowInTheTable
<1>4. k \in Job /\ k.run = j.run /\ k.by = j.by /\ k.says = j.says /\ k.seen = run
  BY <1>1, <1>2, <1>3 DEF Job
<1>5. CASE Exit(p)
  BY <1>1, <1>5, TasksStay, ExitKeeps
<1>6. CASE MaySubmit(run, j.by) /\ Goto(p, "write", k)
  <2>1. SoundJob("write", k) /\ "write" \in Control
    BY <1>2, <1>3, <1>4, <1>6 DEF SoundJob, Control, MaySubmit
  <2> QED
    BY <1>1, <1>4, <1>6, <2>1, ReadingKeeps
<1> QED
  BY <1>1, <1>5, <1>6

LEMMA WriteKeeps ==
  ASSUME ProcInv, NEW p \in Proc, Write(p)
  PROVE  ProcInv'
<1>1. PICK j, next :
        /\ j = job[p] /\ pc[p] = "write"
        /\ next = AfterOutcome(j.run, j.seen, j.by, j.says)
        /\ runs' = Upsert(runs, j.run, next)
        /\ \/ \E mark \in {None, "BLOCKED"} : Goto(p, "finish", [j EXCEPT !.mark = mark])
           \/ Goto(p, "turn", [j EXCEPT !.seen = next, !.by = None, !.says = None,
                                        !.turns = @ + 1])
        /\ UNCHANGED <<approvals, due, paused, tasks, granted, crashes>>
  BY DEF Write
<1>2. /\ j \in Job /\ j.run \in DOMAIN runs /\ j.by \in Identity /\ j.says \in {"PASS", "FAIL"}
      /\ SoundRow(j.run, j.seen) /\ ~AtHumanGate(j.seen)
  BY <1>1, InHand DEF SoundJob
<1>3. SoundRow(j.run, next) /\ next \in WorkflowRun
  <2>1. SoundRow(j.run, next)
    BY <1>1, <1>2, OutcomeIsSound
  <2> QED
    BY <2>1 DEF SoundRow, OnItsGraph
<1>4. PICK r : r = j.run
  OBVIOUS
<1>5. r \in DOMAIN tasks /\ r \in DOMAIN runs'
  BY <1>1, <1>2, <1>4, RowInTheTable DEF Upsert
<1>6. ASSUME NEW mark \in {None, "BLOCKED"}, Goto(p, "finish", [j EXCEPT !.mark = mark])
      PROVE  ProcInv'
  <2>1. PICK k : k = [j EXCEPT !.mark = mark]
    OBVIOUS
  <2>2. k \in Job /\ k.run = r
    BY <1>2, <1>4, <2>1 DEF Job, TaskStatus
  <2>3. SoundJob("finish", k)' /\ "finish" \in Control
    BY <1>5, <2>2 DEF SoundJob, Control
  <2> QED
    BY <1>1, <1>3, <1>4, <1>5, <1>6, <2>1, <2>2, <2>3, StoringARunKeeps
<1>7. CASE Goto(p, "turn", [j EXCEPT !.seen = next, !.by = None, !.says = None, !.turns = @ + 1])
  <2>0. PICK t \in Nat : t = j.turns + 1
    BY <1>2 DEF Job
  <2>1. PICK k : k = [j EXCEPT !.seen = next, !.by = None, !.says = None, !.turns = t]
    OBVIOUS
  <2>2. k \in Job /\ k.run = r
    BY <1>2, <1>3, <1>4, <2>1 DEF Job
  <2>3. SoundJob("turn", k)' /\ "turn" \in Control
    BY <1>5, <2>2 DEF SoundJob, Control
  <2> QED
    BY <1>1, <1>3, <1>4, <1>5, <1>7, <2>0, <2>1, <2>2, <2>3, StoringARunKeeps
<1> QED
  BY <1>1, <1>6, <1>7

LEMMA ReadGateKeeps ==
  ASSUME ProcInv, NEW p \in Proc, ReadGate(p)
  PROVE  ProcInv'
<1>1. PICK j, run, mark, ask :
        /\ j = job[p] /\ run = runs[j.run] /\ pc[p] = "gate"
        /\ mark = [j EXCEPT !.mark = "APPROVAL_REQUIRED"] /\ ask = [j EXCEPT !.seen = run]
        /\ Exit(p) \/ Goto(p, "finish", mark) \/ Goto(p, "ask", ask)
        /\ UNCHANGED <<approvals, due, runs, paused, tasks, granted, crashes>>
  BY DEF ReadGate
<1>2. j \in Job /\ j.run \in DOMAIN runs
  BY <1>1, InHand DEF SoundJob
<1>3. SoundRow(j.run, run) /\ run \in WorkflowRun
  BY <1>1, <1>2, RowInTheTable
<1>4. mark \in Job /\ mark.run = j.run
  BY <1>1, <1>2 DEF Job, TaskStatus
<1>5. ask \in Job /\ ask.run = j.run /\ ask.seen = run
  BY <1>1, <1>2, <1>3 DEF Job
<1>6. CASE Exit(p)
  BY <1>1, <1>6, TasksStay, ExitKeeps
<1>7. CASE Goto(p, "finish", mark)
  <2>1. SoundJob("finish", mark) /\ "finish" \in Control
    BY <1>2, <1>4 DEF SoundJob, Control
  <2> QED
    BY <1>1, <1>4, <1>7, <2>1, ReadingKeeps
<1>8. CASE Goto(p, "ask", ask)
  <2>1. SoundJob("ask", ask) /\ "ask" \in Control
    BY <1>2, <1>3, <1>5 DEF SoundJob, Control
  <2> QED
    BY <1>1, <1>5, <1>8, <2>1, ReadingKeeps
<1> QED
  BY <1>1, <1>6, <1>7, <1>8

\* openApproval's first write: the request, of the run and about the step it read.
LEMMA AskKeeps ==
  ASSUME ProcInv, NEW p \in Proc, Ask(p)
  PROVE  ProcInv'
<1>1. PICK a, j, k, req :
        /\ a \in Approval \ DOMAIN approvals /\ j = job[p] /\ k = [j EXCEPT !.about = a] /\ pc[p] = "ask"
        /\ req = GateRequest(j.run, j.seen, FALSE)
        /\ approvals' = Upsert(approvals, a, req)
        /\ Goto(p, "park", k)
        /\ UNCHANGED <<due, runs, paused, tasks, granted, crashes>>
  <2>1. UnusedId \in Approval \ DOMAIN approvals
    BY DEF Ask, UnusedId
  <2> QED
    BY <2>1 DEF Ask
<1>2. j \in Job /\ j.run \in DOMAIN runs /\ SoundRow(j.run, j.seen)
  BY <1>1, InHand DEF SoundJob
<1>3. j.run \in Run /\ j.seen \in WorkflowRun /\ j.seen.current_step \in StepId
  BY <1>2, RowInTheTable DEF SoundRow, OnItsGraph, WorkflowRun
<1>4. /\ req \in ApprovalRequest
      /\ req.run_id = j.run /\ req.step_id = j.seen.current_step /\ req.state = "PENDING"
  <2>1. PICK by \in Identity, action \in CriticalAction :
          req = NewRequest(j.run, j.seen.current_step, by, action, FALSE)
    BY <1>1, <1>3, LastOwnerType, CriticalActionType DEF GateRequest
  <2>2. req \in ApprovalRequest
    BY <1>3, <2>1, NewRequestType
  <2> QED
    BY <2>1, <2>2 DEF NewRequest
<1>5. k \in Job /\ k.run = j.run /\ k.seen = j.seen /\ k.about = a
  BY <1>1, <1>2 DEF Job
<1>6. SoundJob("park", k)'
  <2>1. Remembers
    BY <1>1 DEF Remembers, Upsert
  <2>2. SoundRow(k.run, k.seen)'
    BY <1>2, <1>5, <2>1, StillSound DEF ProcInv
  <2>3. IsRequestOf(k.about, k.run, k.seen.current_step)'
    <3>1. a \in DOMAIN approvals' /\ approvals'[a] = req
      BY <1>1 DEF Upsert
    <3> QED
      BY <1>4, <1>5, <3>1 DEF IsRequestOf
  <2>4. k.run \in DOMAIN runs'
    BY <1>1, <1>2, <1>5
  <2> QED
    BY <2>2, <2>3, <2>4 DEF SoundJob
<1>7. "park" \in Control
  BY DEF Control
<1> QED
  BY <1>1, <1>2, <1>4, <1>5, <1>6, <1>7, StoringARequestKeeps

\* Its second write: the run, parked on that request.
LEMMA ParkKeeps ==
  ASSUME ProcInv, NEW p \in Proc, Park(p)
  PROVE  ProcInv'
<1>1. PICK j, k, next, r :
        /\ j = job[p] /\ k = [j EXCEPT !.mark = "APPROVAL_REQUIRED"] /\ pc[p] = "park"
        /\ r = j.run /\ next = Parked(j.seen, j.about)
        /\ runs' = Upsert(runs, r, next)
        /\ Goto(p, "finish", k)
        /\ UNCHANGED <<approvals, due, paused, tasks, granted, crashes>>
  BY DEF Park
<1>2. /\ j \in Job /\ r \in DOMAIN runs /\ SoundRow(r, j.seen)
      /\ IsRequestOf(j.about, r, j.seen.current_step)
  BY <1>1, InHand DEF SoundJob
<1>3. j.about \in Approval
  BY <1>2 DEF IsRequestOf, ProcInv, ProcTypeOK, TypeOK, ApprovalTypeOK, IsTable
<1>4. SoundRow(r, next)
  BY <1>1, <1>2, <1>3, ParkingIsSound
<1>5. k \in Job /\ k.run = r
  BY <1>1, <1>2 DEF Job, TaskStatus
<1>6. r \in DOMAIN tasks /\ r \in DOMAIN runs'
  BY <1>1, <1>2, RowInTheTable DEF Upsert
<1>7. SoundJob("finish", k)' /\ "finish" \in Control
  BY <1>5, <1>6 DEF SoundJob, Control
<1> QED
  BY <1>1, <1>4, <1>5, <1>6, <1>7, StoringARunKeeps

LEMMA FinishKeeps ==
  ASSUME ProcInv, NEW p \in Proc, Finish(p)
  PROVE  ProcInv'
<1>1. PICK j :
        /\ j = job[p] /\ pc[p] = "finish" /\ Exit(p)
        /\ tasks' = IF j.mark = None THEN tasks ELSE Upsert(tasks, j.run, j.mark)
        /\ UNCHANGED <<approvals, due, runs, paused, granted, crashes>>
  BY DEF Finish
<1>2. j \in Job /\ j.run \in DOMAIN runs
  BY <1>1, InHand DEF SoundJob
<1>3. j.run \in Run /\ j.mark \in TaskStatus \cup {None}
  BY <1>2, RowInTheTable DEF Job
<1>4. crashes' \in 0 .. MaxCrash
  BY <1>1 DEF ProcInv, ProcTypeOK
<1>5. CASE j.mark = None
  BY <1>1, <1>5, TasksStay, ExitKeeps
<1>6. CASE j.mark # None
  <2>1. PICK r \in Run, mark \in TaskStatus : r = j.run /\ mark = j.mark
    BY <1>3, <1>6
  <2>2. IsTable(tasks', Run, TaskStatus) /\ DOMAIN tasks' = DOMAIN tasks \cup {r}
    BY <1>1, <1>6, <2>1, TaskMarked
  <2> QED
    BY <1>1, <1>4, <2>2, ExitKeeps
<1> QED
  BY <1>5, <1>6

\* decide's write. Whatever another terminal has decided since, the request stays
\* the same run's, and what was granted stays granted.
LEMMA PutDecisionKeeps ==
  ASSUME ProcInv, NEW p \in Proc, PutDecision(p)
  PROVE  ProcInv'
<1>1. PICK j, a, r, k, to, req :
        /\ j = job[p] /\ a = j.about /\ r = approvals[a].run_id /\ pc[p] = "decide"
        /\ k = [NoJob EXCEPT !.run = r] /\ to = j.says /\ req = Decided(approvals[a], to)
        /\ approvals' = Upsert(approvals, a, req)
        /\ granted' = IF to = "APPROVED" THEN granted \cup {a} ELSE granted
        /\ Goto(p, "resume", k)
        /\ UNCHANGED <<due, runs, paused, tasks, crashes>>
  BY DEF PutDecision
<1>2. a \in DOMAIN approvals /\ to \in Decision
  BY <1>1, InHand DEF SoundJob
<1>3. a \in Approval /\ approvals[a] \in ApprovalRequest
  BY <1>2, RowType DEF ProcInv, ProcTypeOK, TypeOK, ApprovalTypeOK
<1>4. /\ req \in ApprovalRequest
      /\ req.run_id = approvals[a].run_id /\ req.step_id = approvals[a].step_id
      /\ req.state = to
  BY <1>1, <1>2, <1>3, DecidedType
<1>5. r \in Run /\ r \in DOMAIN runs /\ req.run_id \in DOMAIN runs
  BY <1>1, <1>2, <1>3, <1>4 DEF ApprovalRequest, ProcInv, RequestsHaveRuns
<1>6. k \in Job /\ k.run = r
  BY <1>1, <1>5 DEF NoJob, Job
<1>7. SoundJob("resume", k)' /\ "resume" \in Control
  BY <1>1, <1>5, <1>6 DEF SoundJob, Control
<1> QED
  BY <1>1, <1>3, <1>4, <1>5, <1>6, <1>7, StoringARequestKeeps

LEMMA ReadParkedKeeps ==
  ASSUME ProcInv, NEW p \in Proc, ReadParked(p)
  PROVE  ProcInv'
<1>1. PICK j, run, k :
        /\ j = job[p] /\ run = runs[j.run] /\ k = [j EXCEPT !.seen = run] /\ pc[p] = "resume"
        /\ Exit(p) \/ (Awaiting(run) /\ Goto(p, "look", k))
        /\ UNCHANGED <<approvals, due, runs, paused, tasks, granted, crashes>>
  BY DEF ReadParked
<1>2. j \in Job /\ j.run \in DOMAIN runs
  BY <1>1, InHand DEF SoundJob
<1>3. SoundRow(j.run, run) /\ run \in WorkflowRun
  BY <1>1, <1>2, RowInTheTable
<1>4. k \in Job /\ k.run = j.run /\ k.seen = run
  BY <1>1, <1>2, <1>3 DEF Job
<1>5. CASE Exit(p)
  BY <1>1, <1>5, TasksStay, ExitKeeps
<1>6. CASE Awaiting(run) /\ Goto(p, "look", k)
  <2>1. SoundJob("look", k) /\ "look" \in Control
    BY <1>2, <1>3, <1>4, <1>6 DEF SoundJob, Control, Awaiting
  <2> QED
    BY <1>1, <1>4, <1>6, <2>1, ReadingKeeps
<1> QED
  BY <1>1, <1>5, <1>6

LEMMA LookAndMoveKeeps ==
  ASSUME ProcInv, NEW p \in Proc, LookAndMove(p)
  PROVE  ProcInv'
<1>1. PICK j, r, next, fin, go :
        /\ j = job[p] /\ r = j.run /\ pc[p] = "look"
        /\ next = AfterDecision(j.seen, approvals[j.seen.pending_approval_id].state)
        /\ fin = [j EXCEPT !.mark = "REJECTED"] /\ go = [j EXCEPT !.seen = next]
        /\ \/ Exit(p) /\ UNCHANGED runs
           \/ Goto(p, "finish", fin) /\ runs' = Upsert(runs, r, next)
           \/ Goto(p, "drive", go) /\ runs' = Upsert(runs, r, next)
        /\ UNCHANGED <<approvals, due, paused, tasks, granted, crashes>>
  BY DEF LookAndMove
<1>2. /\ j \in Job /\ r \in DOMAIN runs /\ SoundRow(r, j.seen)
      /\ j.seen.pending_approval_id # None
  BY <1>1, InHand DEF SoundJob
<1>3. SoundRow(r, next)
  BY <1>1, <1>2, DecisionIsSound
<1>4. fin \in Job /\ fin.run = r
  BY <1>1, <1>2 DEF Job, TaskStatus
<1>5. go \in Job /\ go.run = r
  <2>1. next \in WorkflowRun
    BY <1>3 DEF SoundRow, OnItsGraph
  <2> QED
    BY <1>1, <1>2, <2>1 DEF Job
<1>6. CASE Exit(p) /\ UNCHANGED runs
  BY <1>1, <1>6, TasksStay, ExitKeeps
<1>7. CASE Goto(p, "finish", fin) /\ runs' = Upsert(runs, r, next)
  <2>1. r \in DOMAIN tasks /\ r \in DOMAIN runs'
    BY <1>2, <1>7, RowInTheTable DEF Upsert
  <2>2. SoundJob("finish", fin)' /\ "finish" \in Control
    BY <1>4, <2>1 DEF SoundJob, Control
  <2> QED
    BY <1>1, <1>3, <1>4, <1>7, <2>1, <2>2, StoringARunKeeps
<1>8. CASE Goto(p, "drive", go) /\ runs' = Upsert(runs, r, next)
  <2>1. r \in DOMAIN tasks /\ r \in DOMAIN runs'
    BY <1>2, <1>8, RowInTheTable DEF Upsert
  <2>2. SoundJob("drive", go)' /\ "drive" \in Control
    BY <1>5, <2>1 DEF SoundJob, Control
  <2> QED
    BY <1>1, <1>3, <1>5, <1>8, <2>1, <2>2, StoringARunKeeps
<1> QED
  BY <1>1, <1>6, <1>7, <1>8

LEMMA CrashKeeps ==
  ASSUME ProcInv, NEW p \in Proc, Crash(p)
  PROVE  ProcInv'
<1>1. /\ Exit(p)
      /\ crashes < MaxCrash /\ crashes' = crashes + 1
      /\ UNCHANGED <<approvals, due, runs, paused, tasks, granted>>
  BY DEF Crash
<1>2. /\ IsTable(tasks', Run, TaskStatus)
      /\ DOMAIN tasks \subseteq DOMAIN tasks'
  BY <1>1 DEF ProcInv, ProcTypeOK
<1>3. crashes' \in 0 .. MaxCrash
  BY <1>1, FaultsAssumption DEF ProcInv, ProcTypeOK
<1> QED
  BY <1>1, <1>2, <1>3, ExitKeeps

\* The kill switch touches nothing that a process has in its hands.
LEMMA FlagOrNothingKeeps ==
  ASSUME ProcInv, KillSwitch \/ UNCHANGED procVars
  PROVE  ProcInv'
<1>1. /\ UNCHANGED <<approvals, due, runs, pc, job, tasks, granted, crashes>>
      /\ paused' \in BOOLEAN
  BY DEF KillSwitch, Pause, Resume, procVars, ProcInv, ProcTypeOK, TypeOK
<1>2. Remembers
  BY <1>1 DEF Remembers
<1>3. ProcTypeOK'
  BY <1>1 DEF ProcInv, ProcTypeOK, TypeOK, ApprovalTypeOK
<1>4. RequestsHaveRuns' /\ GrantsAreRemembered'
  BY <1>1 DEF ProcInv, RequestsHaveRuns, GrantsAreRemembered
<1>5. RowsAreSound'
  BY <1>1, <1>2, StillSound DEF ProcInv, RowsAreSound
<1>6. JobsAreSound'
  BY <1>1, <1>2, StillReliable DEF ProcInv, JobsAreSound
<1> QED
  BY <1>3, <1>4, <1>5, <1>6 DEF ProcInv

-------------------------------------------------------------------------------
LEMMA ProcInvInitially == ProcInit => ProcInv
<1> SUFFICES ASSUME ProcInit PROVE ProcInv
  OBVIOUS
<1>1. Inv /\ DOMAIN runs = {} /\ DOMAIN approvals = {}
  BY InvInitially, EmptyIsTable DEF ProcInit, Init, ApprovalInit
<1>2. ProcTypeOK
  <2>1. TypeOK
    BY <1>1 DEF Inv
  <2>2. IsTable(tasks, Run, TaskStatus)
    BY EmptyIsTable DEF ProcInit
  <2>3. pc \in [Proc -> Control] /\ crashes \in 0 .. MaxCrash /\ granted = {}
    BY FaultsAssumption DEF ProcInit, Control
  <2> QED
    BY <1>1, <2>1, <2>2, <2>3 DEF ProcTypeOK
<1>3. RequestsHaveRuns /\ RowsAreSound /\ GrantsAreRemembered
  BY <1>1 DEF RequestsHaveRuns, RowsAreSound, GrantsAreRemembered
<1>4. JobsAreSound
  <2>1. \A p \in Proc : pc[p] = "idle" /\ job[p] = NoJob
    BY DEF ProcInit
  <2>2. SoundJob("idle", NoJob)
    BY DEF SoundJob
  <2>3. job \in [Proc -> Job]
    BY NoJobIsAJob DEF ProcInit
  <2> QED
    BY <2>1, <2>2, <2>3 DEF JobsAreSound
<1> QED
  BY <1>2, <1>3, <1>4 DEF ProcInv

LEMMA ProcInvKept == ProcInv /\ [ProcNext]_procVars => ProcInv'
<1> SUFFICES ASSUME ProcInv, [ProcNext]_procVars PROVE ProcInv'
  OBVIOUS
<1>1. ASSUME NEW p \in Proc, Continue(p)
      PROVE  ProcInv'
  BY <1>1, PlanKeeps, StartRunKeeps, EnterDriveKeeps, TurnKeeps, WorkKeeps, SubmitKeeps,
     WriteKeeps, ReadGateKeeps, AskKeeps, ParkKeeps, FinishKeeps, PutDecisionKeeps,
     ReadParkedKeeps, LookAndMoveKeeps DEF Continue
<1>2. ASSUME NEW p \in Proc, Command(p)
      PROVE  ProcInv'
  BY <1>2, TaskRunKeeps, ResumeRunKeeps, FounderDecidesOnKeeps DEF Command
<1>3. ASSUME NEW p \in Proc, Crash(p)
      PROVE  ProcInv'
  BY <1>3, CrashKeeps
<1>4. CASE KillSwitch \/ UNCHANGED procVars
  BY <1>4, FlagOrNothingKeeps
<1> QED
  BY <1>1, <1>2, <1>3, <1>4 DEF ProcNext

\* Whatever the processes do and wherever they are killed, the rows they store and
\* those they hold stay sound.
THEOREM ProcInvariance == ProcSpec => []ProcInv
<1> QED
  BY ProcInvInitially, ProcInvKept, PTL DEF ProcSpec

\* See ProcessSafety: the tables, the labels and the history keep their types.
THEOREM ProcessesAreTyped == ProcSpec => []ProcTypeOK
<1>1. ProcInv => ProcTypeOK
  BY DEF ProcInv
<1> QED
  BY <1>1, ProcInvariance, PTL

\* See ProcessSafety: for any number of processes, a grant precedes every passage
\* of a gate or an authorized step.
THEOREM AuthorityIsFounded == ProcSpec => []FounderBehindEveryPass
<1>1. ProcInv => FounderBehindEveryPass
  BY SoundRowsMakeThePromises
<1> QED
  BY <1>1, ProcInvariance, PTL

\* See ProcessSafety: and a parked run can always be decided on.
THEOREM ParkedRunsCanBeDecided == ProcSpec => []ParkedRunsHoldTheirRequest
<1>1. ProcInv => ParkedRunsHoldTheirRequest
  BY SoundRowsMakeThePromises
<1> QED
  BY <1>1, ProcInvariance, PTL
===============================================================================
