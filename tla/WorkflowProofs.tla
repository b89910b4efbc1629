---------------------------- MODULE WorkflowProofs ----------------------------
(***************************************************************************)
(* Machine-checked proofs about WorkflowEngine, for any registry of        *)
(* well-formed workflow definitions, any agents and any number of runs and *)
(* approval requests.                                                      *)
(***************************************************************************)
EXTENDS WorkflowSafety, SequenceTheorems, TLAPS

-------------------------------------------------------------------------------
(***************************************************************************)
(* Tables                                                                  *)
(***************************************************************************)

\* What a put does to a table: it stays a table, gains the key, and no other
\* row changes (the upserts of sqlite-store.ts).
LEMMA UpsertTable ==
  ASSUME NEW K, NEW V, NEW t, IsTable(t, K, V), NEW k \in K, NEW v \in V
  PROVE  /\ IsTable(Upsert(t, k, v), K, V)
         /\ DOMAIN Upsert(t, k, v) = DOMAIN t \cup {k}
         /\ Upsert(t, k, v)[k] = v
         /\ \A x \in DOMAIN t : x # k => Upsert(t, k, v)[x] = t[x]
  BY DEF IsTable, Upsert

\* A row read from a table has the table's row type.
LEMMA RowType ==
  ASSUME NEW K, NEW V, NEW t, IsTable(t, K, V), NEW k \in DOMAIN t
  PROVE  t[k] \in V /\ k \in K
  BY DEF IsTable

\* An empty database is a table of anything.
LEMMA EmptyIsTable ==
  ASSUME NEW K, NEW V
  PROVE  IsTable(EmptyTable, K, V) /\ DOMAIN EmptyTable = {}
  BY DEF IsTable, EmptyTable

-------------------------------------------------------------------------------
(***************************************************************************)
(* Approval requests                                                       *)
(***************************************************************************)

\* The lazy expiry keeps the row's type and everything but its state, which
\* changes only from PENDING to EXPIRED (approval-engine.ts, expireIfDue).
LEMMA ExpireType ==
  ASSUME ApprovalTypeOK, NEW a \in DOMAIN approvals
  PROVE  /\ ExpireIfDue(a) \in ApprovalRequest
         /\ ExpireIfDue(a).run_id = approvals[a].run_id
         /\ ExpireIfDue(a).step_id = approvals[a].step_id
         /\ ExpireIfDue(a).decided_by = approvals[a].decided_by
         /\ ExpireIfDue(a).requested_by = approvals[a].requested_by
         /\ \/ ExpireIfDue(a) = approvals[a]
            \/ approvals[a].state = "PENDING" /\ ExpireIfDue(a).state = "EXPIRED"
<1>1. approvals[a] \in ApprovalRequest
  BY RowType DEF ApprovalTypeOK
<1> QED
  BY <1>1 DEF ExpireIfDue, ApprovalRequest, ApprovalState

\* decide() leaves a request of the same run and step.
LEMMA DecidedType ==
  ASSUME NEW req \in ApprovalRequest, NEW to \in Decision
  PROVE  /\ Decided(req, to) \in ApprovalRequest
         /\ Decided(req, to).run_id = req.run_id
         /\ Decided(req, to).step_id = req.step_id
         /\ Decided(req, to).state = to
         /\ Decided(req, to).decided_by = HUMAN_FOUNDER
         /\ Decided(req, to).requested_by = req.requested_by
  BY IdentityAssumption DEF Decided, ApprovalRequest, ApprovalState, Decision, HUMAN_FOUNDER

\* Whatever the approval engine does leaves its table well typed.
LEMMA ApprovalStepType ==
  ASSUME ApprovalTypeOK, ApprovalNext
  PROVE  ApprovalTypeOK'
<1> PICK a \in Approval :
       \/ ReadApproval(a)
       \/ \E who \in Approver, to \in Decision : Decide(a, who, to)
       \/ Cancel(a)
       \/ DeadlinePasses(a)
  BY DEF ApprovalNext
<1>1. CASE ReadApproval(a)
  BY <1>1, ExpireType, UpsertTable DEF ReadApproval, ApprovalTypeOK
<1>2. ASSUME NEW who \in Approver, NEW to \in Decision, Decide(a, who, to)
      PROVE  ApprovalTypeOK'
  BY <1>2, ExpireType, DecidedType, UpsertTable DEF Decide, ApprovalTypeOK
<1>3. CASE Cancel(a)
  <2>1. ExpireIfDue(a) \in ApprovalRequest
    BY <1>3, ExpireType DEF Cancel
  <2>2. [ExpireIfDue(a) EXCEPT !.state = "CANCELLED"] \in ApprovalRequest
    BY <2>1 DEF ApprovalRequest, ApprovalState
  <2> QED
    BY <1>3, <2>1, <2>2, UpsertTable DEF Cancel, ApprovalTypeOK
<1>4. CASE DeadlinePasses(a)
  BY <1>4 DEF DeadlinePasses, ApprovalTypeOK
<1> QED
  BY <1>1, <1>2, <1>3, <1>4

-------------------------------------------------------------------------------
(***************************************************************************)
(* Workflow runs                                                           *)
(***************************************************************************)

\* A run that stands on a step of its own definition.
OnItsGraph(run) ==
  run \in WorkflowRun /\ run.current_step \in DOMAIN Def[run.workflow_id].steps

\* What the loader guarantees of the step a run stands on.
LEMMA StepType ==
  ASSUME NEW run, OnItsGraph(run)
  PROVE  /\ StepOf(run) \in WorkflowStep
         /\ StepOf(run).on_pass \in DOMAIN Def[run.workflow_id].steps \cup TERMINALS
         /\ StepOf(run).on_fail \in DOMAIN Def[run.workflow_id].steps \cup TERMINALS
         /\ DOMAIN Def[run.workflow_id].steps \subseteq StepId
<1>1. IsDefinition(Def[run.workflow_id])
  BY DefAssumption DEF OnItsGraph, WorkflowRun
<1> QED
  BY <1>1 DEF OnItsGraph, StepOf, IsDefinition

\* A state of the table of runs gives each run a place on its graph.
LEMMA RunType ==
  ASSUME TypeOK, NEW r \in DOMAIN runs
  PROVE  OnItsGraph(runs[r]) /\ r \in Run
  BY RowType DEF TypeOK, OnItsGraph

\* transition() moves a run to a step of its definition, appends one record and
\* forgets the pending request, whatever the edge.
LEMMA TransitionType ==
  ASSUME NEW run, OnItsGraph(run),
         NEW target \in DOMAIN Def[run.workflow_id].steps \cup TERMINALS,
         NEW tentative \in RunStatus \ {"APPROVAL_REQUIRED"},
         NEW record \in StepRecord
  PROVE  LET next == Transition(run, target, tentative, record)
         IN  /\ OnItsGraph(next)
             /\ next.workflow_id = run.workflow_id
             /\ next.history = Append(run.history, record)
             /\ next.pending_approval_id = None
             /\ next.status # "APPROVAL_REQUIRED"
             /\ next.current_step = IF target \in TERMINALS THEN run.current_step ELSE target
<1> DEFINE w == run.workflow_id
           ends == target \in TERMINALS
           step == Def[w].steps[target]
           status == IF ~ends THEN tentative
                     ELSE IF target = "abort" THEN "ABORTED"
                     ELSE IF record.result = "FAIL" /\ tentative = "REJECTED"
                          THEN "REJECTED" ELSE "COMPLETED"
           ps == IF ends THEN run.project_state
                 ELSE IF step.project_state = None THEN run.project_state
                 ELSE step.project_state
           cs == IF ends THEN run.current_step ELSE target
<1>1. IsDefinition(Def[w])
  BY DefAssumption DEF OnItsGraph, WorkflowRun
<1>2. ps \in ProjectState \cup {None}
  <2>1. run.project_state \in ProjectState \cup {None}
    BY DEF OnItsGraph, WorkflowRun
  <2>2. CASE ends
    BY <2>1, <2>2
  <2>3. CASE ~ends
    <3>1. step \in WorkflowStep
      BY <1>1, <2>3 DEF IsDefinition
    <3> QED
      BY <2>1, <2>3, <3>1 DEF WorkflowStep
  <2> QED
    BY <2>2, <2>3
<1>3. status \in RunStatus /\ status # "APPROVAL_REQUIRED"
  BY DEF RunStatus
<1>4. cs \in DOMAIN Def[w].steps /\ cs \in StepId
  BY <1>1 DEF OnItsGraph, IsDefinition
<1>5. Append(run.history, record) \in Seq(StepRecord)
  BY AppendProperties DEF OnItsGraph, WorkflowRun
<1>6. Transition(run, target, tentative, record) =
        [run EXCEPT !.current_step = cs, !.status = status, !.project_state = ps,
                    !.history = Append(run.history, record), !.pending_approval_id = None]
  BY DEF Transition
<1> HIDE DEF ps, status, cs
<1>7. LET next == [run EXCEPT !.current_step = cs, !.status = status, !.project_state = ps,
                              !.history = Append(run.history, record),
                              !.pending_approval_id = None]
      IN  /\ next \in WorkflowRun
          /\ next.current_step = cs
          /\ next.workflow_id = w
          /\ next.history = Append(run.history, record)
          /\ next.pending_approval_id = None
          /\ next.status = status
  BY <1>2, <1>3, <1>4, <1>5 DEF OnItsGraph, WorkflowRun
<1> QED
  BY <1>3, <1>4, <1>6, <1>7 DEF OnItsGraph, cs

-------------------------------------------------------------------------------
(***************************************************************************)
(* Type correctness                                                        *)
(***************************************************************************)

\* CriticalActionFor names one of the three critical actions it knows.
LEMMA CriticalActionType ==
  ASSUME NEW w, NEW s
  PROVE  CriticalActionFor(w, s) \in CriticalAction
  BY DEF CriticalActionFor, CriticalAction

\* Whoever acted last on a run is an identity.
LEMMA LastOwnerType ==
  ASSUME NEW run \in WorkflowRun
  PROVE  LastOwner(run) \in Identity
<1>1. CASE run.history = <<>>
  BY <1>1, IdentityAssumption DEF LastOwner
<1>2. CASE run.history # <<>>
  <2>1. Len(run.history) \in DOMAIN run.history
    BY <1>2, EmptySeq, LenProperties DEF WorkflowRun
  <2>2. run.history[Len(run.history)] \in StepRecord
    BY <2>1, ElementOfSeq DEF WorkflowRun
  <2> QED
    BY <1>2, <2>2 DEF LastOwner, StepRecord
<1> QED
  BY <1>1, <1>2

\* The row a new request starts with.
LEMMA NewRequestType ==
  ASSUME NEW r \in Run, NEW s \in StepId, NEW by \in Identity,
         NEW action \in CriticalAction, NEW expires \in BOOLEAN
  PROVE  NewRequest(r, s, by, action, expires) \in ApprovalRequest
  BY DEF NewRequest, ApprovalRequest, ApprovalState

\* The row a new run starts with.
LEMMA NewRunType ==
  ASSUME NEW w \in Workflow
  PROVE  OnItsGraph(NewRun(w))
<1>1. IsDefinition(Def[w])
  BY DefAssumption
<1>2. Def[w].first \in StepId /\ Def[w].steps[Def[w].first] \in WorkflowStep
  BY <1>1 DEF IsDefinition
<1>3. <<>> \in Seq(StepRecord)
  BY EmptySeq
<1> QED
  BY <1>1, <1>2, <1>3 DEF NewRun, OnItsGraph, WorkflowRun, RunStatus, IsDefinition, WorkflowStep

\* What its request makes of a parked run: nothing while PENDING, else one more
\* record, signed by the founder, and no request left.
LEMMA AfterDecisionType ==
  ASSUME NEW run, OnItsGraph(run), NEW state
  PROVE  LET next == AfterDecision(run, state)
             result == IF state = "APPROVED" THEN "PASS" ELSE "FAIL"
         IN  /\ OnItsGraph(next)
             /\ next.workflow_id = run.workflow_id
             /\ state = "PENDING" => next = run
             /\ state # "PENDING" =>
                  /\ next.pending_approval_id = None
                  /\ next.status # "APPROVAL_REQUIRED"
                  /\ next.history = Append(run.history, Record(run, HUMAN_FOUNDER, result))
<1>1. \A result \in {"PASS", "FAIL"} : Record(run, HUMAN_FOUNDER, result) \in StepRecord
  BY IdentityAssumption DEF Record, StepRecord, OnItsGraph, WorkflowRun
<1>2. ASSUME NEW target \in DOMAIN Def[run.workflow_id].steps \cup TERMINALS,
             NEW tentative \in {"RUNNING", "REJECTED"}, NEW result \in {"PASS", "FAIL"}
      PROVE  LET next == Transition(run, target, tentative, Record(run, HUMAN_FOUNDER, result))
             IN  /\ OnItsGraph(next)
                 /\ next.workflow_id = run.workflow_id
                 /\ next.pending_approval_id = None
                 /\ next.status # "APPROVAL_REQUIRED"
                 /\ next.history = Append(run.history, Record(run, HUMAN_FOUNDER, result))
  <2> DEFINE record == Record(run, HUMAN_FOUNDER, result)
             next == Transition(run, target, tentative, record)
  <2>1. tentative \in RunStatus \ {"APPROVAL_REQUIRED"} /\ record \in StepRecord
    BY <1>1 DEF RunStatus
  <2> HIDE DEF record
  <2>2. /\ OnItsGraph(next)
        /\ next.workflow_id = run.workflow_id
        /\ next.pending_approval_id = None
        /\ next.status # "APPROVAL_REQUIRED"
        /\ next.history = Append(run.history, record)
    BY <2>1, TransitionType
  <2> QED
    BY <2>2 DEF record
<1> QED
  BY <1>2, StepType DEF AfterDecision

\* What an outcome makes of a running run: it is halted where it stands, or one
\* more record of it is kept, which never is a pass without a due approval.
LEMMA AfterOutcomeType ==
  ASSUME NEW r, NEW run, OnItsGraph(run),
         NEW agent \in Identity, NEW result \in {"PASS", "FAIL"}
  PROVE  LET next == AfterOutcome(r, run, agent, result)
         IN  /\ OnItsGraph(next)
             /\ next.workflow_id = run.workflow_id
             /\ \/ /\ next.status \in {"PAUSED", "BLOCKED"}
                   /\ next.history = run.history
                   /\ next.current_step = run.current_step
                   /\ next.pending_approval_id = run.pending_approval_id
                \/ /\ next.status # "APPROVAL_REQUIRED"
                   /\ next.history = Append(run.history, Record(run, agent, result))
                   /\ next.pending_approval_id = None
                   /\ ~LacksApproval(r, run, result)
<1> DEFINE target == IF result = "PASS" THEN StepOf(run).on_pass ELSE StepOf(run).on_fail
           tentative == IF result = "FAIL" /\ target = "abort" THEN "ABORTED" ELSE "RUNNING"
           record == Record(run, agent, result)
           next == Transition(run, target, tentative, record)
<1>1. ASSUME NEW status \in {"PAUSED", "BLOCKED"}
      PROVE  LET halted == [run EXCEPT !.status = status]
             IN  /\ OnItsGraph(halted)
                 /\ halted.workflow_id = run.workflow_id
                 /\ halted.status = status
                 /\ halted.history = run.history
                 /\ halted.current_step = run.current_step
                 /\ halted.pending_approval_id = run.pending_approval_id
  BY DEF OnItsGraph, WorkflowRun, RunStatus
<1>2. target \in DOMAIN Def[run.workflow_id].steps \cup TERMINALS
  BY StepType
<1>3. tentative \in RunStatus \ {"APPROVAL_REQUIRED"}
  BY DEF RunStatus
<1>4. record \in StepRecord
  BY DEF Record, StepRecord, OnItsGraph, WorkflowRun
<1>5. Advanced(run, agent, result) = next
  BY DEF Advanced
<1>6. /\ OnItsGraph(next)
      /\ next.workflow_id = run.workflow_id
      /\ next.status # "APPROVAL_REQUIRED"
      /\ next.history = Append(run.history, record)
      /\ next.pending_approval_id = None
  <2> HIDE DEF tentative, target, record
  <2> QED
    BY <1>2, <1>3, <1>4, TransitionType
<1> HIDE DEF next
<1>7. CASE HaltedByPause(run)
  BY <1>1, <1>7 DEF AfterOutcome
<1>8. CASE ~HaltedByPause(run) /\ LacksApproval(r, run, result)
  BY <1>1, <1>8 DEF AfterOutcome
<1>9. CASE ~HaltedByPause(run) /\ ~LacksApproval(r, run, result)
  BY <1>5, <1>6, <1>9 DEF AfterOutcome
<1> QED
  BY <1>7, <1>8, <1>9

\* Storing a run that stands on its graph keeps the table of runs well typed.
LEMMA PutRunType ==
  ASSUME TypeOK, NEW r \in Run, NEW run, OnItsGraph(run), runs' = Upsert(runs, r, run)
  PROVE  /\ IsTable(runs', Run, WorkflowRun)
         /\ \A q \in DOMAIN runs' :
              runs'[q].current_step \in DOMAIN Def[runs'[q].workflow_id].steps
<1>1. run \in WorkflowRun
  BY DEF OnItsGraph
<1>2. /\ IsTable(runs', Run, WorkflowRun)
      /\ DOMAIN runs' = DOMAIN runs \cup {r}
      /\ runs'[r] = run
      /\ \A x \in DOMAIN runs : x # r => runs'[x] = runs[x]
  BY <1>1, UpsertTable DEF TypeOK
<1> QED
  BY <1>2 DEF OnItsGraph, TypeOK

\* Storing a request keeps the table of requests well typed.
LEMMA PutApproval ==
  ASSUME IsTable(approvals, Approval, ApprovalRequest),
         NEW a \in Approval, NEW req \in ApprovalRequest, approvals' = Upsert(approvals, a, req)
  PROVE  /\ IsTable(approvals', Approval, ApprovalRequest)
         /\ DOMAIN approvals' = DOMAIN approvals \cup {a}
         /\ approvals'[a] = req
         /\ \A b \in DOMAIN approvals : b # a => approvals'[b] = approvals[b]
  BY UpsertTable

\* The shape of what openApproval writes: the lapse of the old request if there
\* is one, then the new request and the parked run.
LEMMA OpenApprovalWrites ==
  ASSUME NEW r, NEW a, NEW expires, OpenApproval(r, a, expires)
  PROVE  LET run == runs[r]
             p == run.pending_approval_id
             seen == IF p = None THEN approvals ELSE Upsert(approvals, p, ExpireIfDue(p))
             req == NewRequest(r, run.current_step, LastOwner(run),
                               CriticalActionFor(run.workflow_id, run.current_step), expires)
         IN  /\ r \in DOMAIN runs /\ a \notin DOMAIN approvals
             /\ AtHumanGate(run)
             /\ p # None => seen[p].state # "PENDING"
             /\ approvals' = Upsert(seen, a, req)
             /\ runs' = Upsert(runs, r, Parked(run, a))
             /\ due' = due /\ paused' = paused
  BY DEF OpenApproval, GateRequest

\* A parked run still stands on its graph.
LEMMA ParkedType ==
  ASSUME NEW run, OnItsGraph(run), NEW a \in Approval
  PROVE  /\ OnItsGraph(Parked(run, a))
         /\ Parked(run, a).status = "APPROVAL_REQUIRED"
         /\ Parked(run, a).pending_approval_id = a
         /\ Parked(run, a).current_step = run.current_step
         /\ Parked(run, a).workflow_id = run.workflow_id
         /\ Parked(run, a).history = run.history
  BY DEF Parked, OnItsGraph, WorkflowRun, RunStatus, ProjectState

-------------------------------------------------------------------------------
(***************************************************************************)
(* The inductive invariant. A run waits exactly when it holds a request,   *)
(* the request it holds is its own and about the gate it stands at, and no *)
(* request outlives its run. Type correctness needs it already: the row    *)
(* openApproval and resumeAfterApproval read must exist.                   *)
(***************************************************************************)
WaitsForItsRequest ==
  \A r \in DOMAIN runs :
    /\ runs[r].status = "APPROVAL_REQUIRED" <=> runs[r].pending_approval_id # None
    /\ runs[r].pending_approval_id # None =>
         /\ AtHumanGate(runs[r])
         /\ runs[r].pending_approval_id \in DOMAIN approvals
         /\ approvals[runs[r].pending_approval_id].run_id = r
         /\ approvals[runs[r].pending_approval_id].step_id = runs[r].current_step

RequestsHaveRuns ==
  \A a \in DOMAIN approvals : approvals[a].run_id \in DOMAIN runs

Inv ==
  /\ TypeOK
  /\ WaitsForItsRequest
  /\ RequestsHaveRuns
  /\ EveryPendingRequestIsAwaited
  /\ DecisionsComeFromTheFounder
  /\ GatedPassesAreApproved

\* All that reading a request may do to it.
Lapses(a) ==
  \/ approvals'[a] = approvals[a]
  \/ /\ approvals[a].state = "PENDING"
     /\ approvals'[a] \in ApprovalRequest
     /\ approvals'[a].state = "EXPIRED"
     /\ approvals'[a].run_id = approvals[a].run_id
     /\ approvals'[a].step_id = approvals[a].step_id
     /\ approvals'[a].decided_by = approvals[a].decided_by
     /\ approvals'[a].requested_by = approvals[a].requested_by

\* What openApproval does, conjunct by conjunct.
LEMMA OpenApprovalStep ==
  ASSUME TypeOK, WaitsForItsRequest,
         NEW r \in Run, NEW a \in Approval, NEW expires \in BOOLEAN, OpenApproval(r, a, expires)
  PROVE  /\ TypeOK'
         /\ r \in DOMAIN runs /\ DOMAIN runs' = DOMAIN runs
         /\ \A q \in DOMAIN runs : q # r => runs'[q] = runs[q]
         /\ AtHumanGate(runs[r])
         /\ runs'[r].status = "APPROVAL_REQUIRED"
         /\ runs'[r].pending_approval_id = a
         /\ runs'[r].current_step = runs[r].current_step
         /\ runs'[r].workflow_id = runs[r].workflow_id
         /\ runs'[r].history = runs[r].history
         /\ a \notin DOMAIN approvals /\ DOMAIN approvals' = DOMAIN approvals \cup {a}
         /\ approvals'[a].state = "PENDING" /\ approvals'[a].decided_by = None
         /\ approvals'[a].run_id = r /\ approvals'[a].step_id = runs[r].current_step
         /\ \A b \in DOMAIN approvals :
              /\ Lapses(b)
              /\ b # runs[r].pending_approval_id => approvals'[b] = approvals[b]
              /\ b = runs[r].pending_approval_id => approvals'[b].state # "PENDING"
<1> DEFINE run == runs[r]
           p == run.pending_approval_id
           seen == IF p = None THEN approvals ELSE Upsert(approvals, p, ExpireIfDue(p))
           req == NewRequest(r, run.current_step, LastOwner(run),
                             CriticalActionFor(run.workflow_id, run.current_step), expires)
<1>1. /\ r \in DOMAIN runs /\ a \notin DOMAIN approvals
      /\ AtHumanGate(run)
      /\ p # None => seen[p].state # "PENDING"
      /\ approvals' = Upsert(seen, a, req)
      /\ runs' = Upsert(runs, r, Parked(run, a))
      /\ due' = due /\ paused' = paused
  BY OpenApprovalWrites
<1>2. OnItsGraph(run)
  BY <1>1, RunType
<1>3. /\ IsTable(runs', Run, WorkflowRun)
      /\ \A q \in DOMAIN runs' :
           runs'[q].current_step \in DOMAIN Def[runs'[q].workflow_id].steps
      /\ DOMAIN runs' = DOMAIN runs
      /\ runs'[r] = Parked(run, a)
      /\ \A q \in DOMAIN runs : q # r => runs'[q] = runs[q]
  <2>1. OnItsGraph(Parked(run, a))
    BY <1>2, ParkedType
  <2> QED
    BY <1>1, <2>1, PutRunType DEF Upsert
<1>4. /\ IsTable(seen, Approval, ApprovalRequest)
      /\ DOMAIN seen = DOMAIN approvals
      /\ \A b \in DOMAIN approvals : b # p => seen[b] = approvals[b]
      /\ p # None => p \in DOMAIN approvals /\ seen[p] = ExpireIfDue(p)
  <2>1. CASE p = None
    BY <2>1 DEF TypeOK, ApprovalTypeOK
  <2>2. CASE p # None
    <3>1. p \in DOMAIN approvals /\ p \in Approval
      BY <1>1, <2>2, RowType DEF WaitsForItsRequest, TypeOK, ApprovalTypeOK
    <3>2. ExpireIfDue(p) \in ApprovalRequest
      BY <3>1, ExpireType DEF TypeOK
    <3> QED
      BY <2>2, <3>1, <3>2, UpsertTable DEF TypeOK, ApprovalTypeOK
  <2> QED
    BY <2>1, <2>2
<1>5. /\ req \in ApprovalRequest
      /\ req.state = "PENDING" /\ req.decided_by = None
      /\ req.run_id = r /\ req.step_id = run.current_step
  BY <1>2, LastOwnerType, CriticalActionType, NewRequestType DEF OnItsGraph, WorkflowRun, NewRequest
<1>6. /\ IsTable(approvals', Approval, ApprovalRequest)
      /\ DOMAIN approvals' = DOMAIN approvals \cup {a}
      /\ approvals'[a] = req
      /\ \A b \in DOMAIN approvals : approvals'[b] = seen[b]
  <2> HIDE DEF seen, req
  <2>1. /\ IsTable(Upsert(seen, a, req), Approval, ApprovalRequest)
        /\ DOMAIN Upsert(seen, a, req) = DOMAIN seen \cup {a}
        /\ Upsert(seen, a, req)[a] = req
        /\ \A b \in DOMAIN seen : b # a => Upsert(seen, a, req)[b] = seen[b]
    BY <1>4, <1>5, UpsertTable
  <2> QED
    BY <1>1, <1>4, <2>1
<1>7. \A b \in DOMAIN approvals :
         /\ Lapses(b)
         /\ b # p => approvals'[b] = approvals[b]
         /\ b = p => approvals'[b].state # "PENDING"
  <2> SUFFICES ASSUME NEW b \in DOMAIN approvals
               PROVE  /\ Lapses(b)
                      /\ b # p => approvals'[b] = approvals[b]
                      /\ b = p => approvals'[b].state # "PENDING"
    OBVIOUS
  <2>1. CASE b # p
    BY <1>4, <1>6, <2>1 DEF Lapses
  <2>2. CASE b = p
    <3>1. b # None
      BY NoneAssumption, RowType DEF TypeOK, ApprovalTypeOK
    <3>2. approvals'[b] = ExpireIfDue(b) /\ approvals'[b].state # "PENDING"
      <4> HIDE DEF seen
      <4> QED
        BY <1>1, <1>4, <1>6, <2>2, <3>1
    <3> QED
      BY <2>2, <3>2, ExpireType DEF Lapses, TypeOK
  <2> QED
    BY <2>1, <2>2
<1>8. TypeOK'
  BY <1>1, <1>3, <1>6 DEF TypeOK, ApprovalTypeOK
<1> HIDE DEF seen, req
<1> QED
  BY <1>1, <1>2, <1>3, <1>5, <1>6, <1>7, <1>8, ParkedType

\* What resumeAfterApproval does: the request it reads may lapse, and unless it
\* is still PENDING the run gets one more record and waits no longer.
LEMMA ResumeStep ==
  ASSUME TypeOK, WaitsForItsRequest, NEW r \in Run, ResumeAfterApproval(r)
  PROVE  LET p == runs[r].pending_approval_id
             result == IF approvals'[p].state = "APPROVED" THEN "PASS" ELSE "FAIL"
         IN  /\ TypeOK'
             /\ r \in DOMAIN runs /\ DOMAIN runs' = DOMAIN runs
             /\ \A q \in DOMAIN runs : q # r => runs'[q] = runs[q]
             /\ runs'[r].workflow_id = runs[r].workflow_id
             /\ p \in DOMAIN approvals /\ DOMAIN approvals' = DOMAIN approvals
             /\ AtHumanGate(runs[r])
             /\ \A b \in DOMAIN approvals :
                  Lapses(b) /\ (b # p => approvals'[b] = approvals[b])
             /\ approvals'[p].state = "PENDING" => runs'[r] = runs[r]
             /\ approvals'[p].state # "PENDING" =>
                  /\ runs'[r].pending_approval_id = None
                  /\ runs'[r].status # "APPROVAL_REQUIRED"
                  /\ runs'[r].history =
                       Append(runs[r].history, Record(runs[r], HUMAN_FOUNDER, result))
<1> DEFINE run == runs[r]
           p == run.pending_approval_id
           req == ExpireIfDue(p)
           next == AfterDecision(run, req.state)
<1>1. /\ r \in DOMAIN runs /\ p # None
      /\ approvals' = Upsert(approvals, p, req)
      /\ runs' = Upsert(runs, r, next)
      /\ due' = due /\ paused' = paused
  BY DEF ResumeAfterApproval
<1>2. AtHumanGate(run) /\ p \in DOMAIN approvals /\ p \in Approval
  BY <1>1, RowType DEF WaitsForItsRequest, TypeOK, ApprovalTypeOK
<1>3. req \in ApprovalRequest
  BY <1>2, ExpireType DEF TypeOK
<1>4. /\ IsTable(approvals', Approval, ApprovalRequest)
      /\ DOMAIN approvals' = DOMAIN approvals
      /\ approvals'[p] = req
      /\ \A b \in DOMAIN approvals : b # p => approvals'[b] = approvals[b]
  <2> HIDE DEF next, req, p
  <2>1. IsTable(approvals, Approval, ApprovalRequest)
    BY DEF TypeOK, ApprovalTypeOK
  <2> QED
    BY <1>1, <1>2, <1>3, <2>1, PutApproval
<1>5. \A b \in DOMAIN approvals : Lapses(b)
  BY <1>2, <1>3, <1>4, ExpireType DEF Lapses, TypeOK
<1>6. OnItsGraph(run)
  BY <1>1, RunType
<1>7. /\ OnItsGraph(next)
      /\ next.workflow_id = run.workflow_id
      /\ req.state = "PENDING" => next = run
      /\ req.state # "PENDING" =>
           /\ next.pending_approval_id = None
           /\ next.status # "APPROVAL_REQUIRED"
           /\ next.history = Append(run.history,
                Record(run, HUMAN_FOUNDER, IF req.state = "APPROVED" THEN "PASS" ELSE "FAIL"))
  <2> HIDE DEF req
  <2> QED
    BY <1>6, AfterDecisionType
<1> HIDE DEF next, req
<1>8. /\ IsTable(runs', Run, WorkflowRun)
      /\ \A q \in DOMAIN runs' :
           runs'[q].current_step \in DOMAIN Def[runs'[q].workflow_id].steps
  BY <1>1, <1>7, PutRunType
<1>9. /\ DOMAIN runs' = DOMAIN runs
      /\ runs'[r] = next
      /\ \A q \in DOMAIN runs : q # r => runs'[q] = runs[q]
  BY <1>1 DEF Upsert
<1>10. TypeOK'
  BY <1>1, <1>4, <1>8 DEF TypeOK, ApprovalTypeOK
<1> QED
  BY <1>1, <1>2, <1>4, <1>5, <1>7, <1>9, <1>10

\* What submitOutcome does.
LEMMA SubmitStep ==
  ASSUME TypeOK, NEW r \in Run, NEW agent \in Identity, NEW result \in {"PASS", "FAIL"},
         SubmitOutcome(r, agent, result)
  PROVE  /\ TypeOK'
         /\ r \in DOMAIN runs /\ DOMAIN runs' = DOMAIN runs
         /\ \A q \in DOMAIN runs : q # r => runs'[q] = runs[q]
         /\ approvals' = approvals
         /\ runs[r].status = "RUNNING" /\ ~AtHumanGate(runs[r])
         /\ runs'[r].workflow_id = runs[r].workflow_id
         /\ \/ /\ runs'[r].status \in {"PAUSED", "BLOCKED"}
               /\ runs'[r].history = runs[r].history
               /\ runs'[r].current_step = runs[r].current_step
               /\ runs'[r].pending_approval_id = runs[r].pending_approval_id
            \/ /\ runs'[r].status # "APPROVAL_REQUIRED"
               /\ runs'[r].history = Append(runs[r].history, Record(runs[r], agent, result))
               /\ runs'[r].pending_approval_id = None
               /\ ~LacksApproval(r, runs[r], result)
<1> DEFINE next == AfterOutcome(r, runs[r], agent, result)
<1>1. /\ r \in DOMAIN runs
      /\ runs[r].status = "RUNNING" /\ ~AtHumanGate(runs[r])
      /\ runs' = Upsert(runs, r, next)
      /\ approvals' = approvals /\ due' = due /\ paused' = paused
  BY DEF SubmitOutcome, MaySubmit
<1>2. /\ OnItsGraph(next)
      /\ next.workflow_id = runs[r].workflow_id
      /\ \/ /\ next.status \in {"PAUSED", "BLOCKED"}
            /\ next.history = runs[r].history
            /\ next.current_step = runs[r].current_step
            /\ next.pending_approval_id = runs[r].pending_approval_id
         \/ /\ next.status # "APPROVAL_REQUIRED"
            /\ next.history = Append(runs[r].history, Record(runs[r], agent, result))
            /\ next.pending_approval_id = None
            /\ ~LacksApproval(r, runs[r], result)
  BY <1>1, RunType, AfterOutcomeType
<1> HIDE DEF next
<1>3. /\ IsTable(runs', Run, WorkflowRun)
      /\ \A q \in DOMAIN runs' :
           runs'[q].current_step \in DOMAIN Def[runs'[q].workflow_id].steps
  BY <1>1, <1>2, PutRunType
<1>4. /\ DOMAIN runs' = DOMAIN runs
      /\ runs'[r] = next
      /\ \A q \in DOMAIN runs : q # r => runs'[q] = runs[q]
  BY <1>1 DEF Upsert
<1>5. TypeOK'
  BY <1>1, <1>3 DEF TypeOK, ApprovalTypeOK
<1> QED
  BY <1>1, <1>2, <1>4, <1>5

\* Everything the approval engine may do to a request without the workflow
\* engine: nothing to a decided one, and a decision only for the founder.
Answers(a) ==
  /\ approvals[a].state = "PENDING"
  /\ approvals'[a].run_id = approvals[a].run_id
  /\ approvals'[a].step_id = approvals[a].step_id
  /\ approvals'[a].requested_by = approvals[a].requested_by
  /\ \/ /\ approvals'[a].state \in {"EXPIRED", "CANCELLED"}
        /\ approvals'[a].decided_by = approvals[a].decided_by
     \/ /\ approvals'[a].state \in Decision
        /\ approvals'[a].decided_by = HUMAN_FOUNDER
        /\ approvals[a].requested_by # HUMAN_FOUNDER

\* What get, list, approve, reject and cancel do, row by row.
LEMMA ApprovalStep ==
  ASSUME ApprovalTypeOK, ApprovalNext
  PROVE  /\ DOMAIN approvals' = DOMAIN approvals
         /\ \E a \in Approval :
              /\ \A b \in DOMAIN approvals : b # a => approvals'[b] = approvals[b]
              /\ a \in DOMAIN approvals => approvals'[a] = approvals[a] \/ Answers(a)
<1> PICK a \in Approval :
       \/ ReadApproval(a)
       \/ \E who \in Approver, to \in Decision : Decide(a, who, to)
       \/ Cancel(a)
       \/ DeadlinePasses(a)
  BY DEF ApprovalNext
<1> DEFINE req == ExpireIfDue(a)
<1> SUFFICES /\ DOMAIN approvals' = DOMAIN approvals
             /\ \A b \in DOMAIN approvals : b # a => approvals'[b] = approvals[b]
             /\ a \in DOMAIN approvals => approvals'[a] = approvals[a] \/ Answers(a)
  OBVIOUS
<1>0. CASE DeadlinePasses(a)
  BY <1>0 DEF DeadlinePasses
<1> SUFFICES ASSUME ~DeadlinePasses(a)
             PROVE  /\ DOMAIN approvals' = DOMAIN approvals
                    /\ \A b \in DOMAIN approvals : b # a => approvals'[b] = approvals[b]
                    /\ a \in DOMAIN approvals => approvals'[a] = approvals[a] \/ Answers(a)
  BY <1>0
<1>1. a \in DOMAIN approvals
  BY DEF ReadApproval, Decide, Cancel
<1>2. /\ approvals[a] \in ApprovalRequest
      /\ req \in ApprovalRequest
      /\ req.run_id = approvals[a].run_id /\ req.step_id = approvals[a].step_id
      /\ req.decided_by = approvals[a].decided_by
      /\ req.requested_by = approvals[a].requested_by
      /\ req = approvals[a] \/ (approvals[a].state = "PENDING" /\ req.state = "EXPIRED")
  BY <1>1, RowType, ExpireType DEF ApprovalTypeOK
<1> HIDE DEF req
<1>3. ASSUME NEW row, approvals' = Upsert(approvals, a, row)
      PROVE  /\ DOMAIN approvals' = DOMAIN approvals
             /\ approvals'[a] = row
             /\ \A b \in DOMAIN approvals : b # a => approvals'[b] = approvals[b]
  BY <1>1, <1>3 DEF Upsert
<1>4. CASE ReadApproval(a)
  <2>1. approvals' = Upsert(approvals, a, req)
    BY <1>4 DEF ReadApproval, req
  <2> QED
    BY <1>2, <1>3, <2>1 DEF Answers
<1>5. ASSUME NEW who \in Approver, NEW to \in Decision, Decide(a, who, to)
      PROVE  /\ DOMAIN approvals' = DOMAIN approvals
             /\ \A b \in DOMAIN approvals : b # a => approvals'[b] = approvals[b]
             /\ approvals'[a] = approvals[a] \/ Answers(a)
  <2> DEFINE row == IF MayDecide(who, req) THEN Decided(req, to) ELSE req
  <2>1. approvals' = Upsert(approvals, a, row)
    BY <1>5 DEF Decide, req
  <2>2. /\ DOMAIN approvals' = DOMAIN approvals
        /\ approvals'[a] = row
        /\ \A b \in DOMAIN approvals : b # a => approvals'[b] = approvals[b]
    BY <1>3, <2>1
  <2>3. CASE MayDecide(who, req)
    <3>1. row = Decided(req, to)
      BY <2>3
    <3>2. /\ Decided(req, to).run_id = req.run_id
          /\ Decided(req, to).step_id = req.step_id
          /\ Decided(req, to).state = to
          /\ Decided(req, to).decided_by = HUMAN_FOUNDER
          /\ Decided(req, to).requested_by = req.requested_by
      BY <1>2, DecidedType
    <3>3. req.state = "PENDING" /\ req.requested_by # HUMAN_FOUNDER
      BY <2>3 DEF MayDecide
    <3> HIDE DEF row
    <3> QED
      BY <1>2, <2>2, <3>1, <3>2, <3>3 DEF Answers
  <2>4. CASE ~MayDecide(who, req)
    BY <1>2, <2>2, <2>4 DEF Answers
  <2> QED
    BY <2>2, <2>3, <2>4
<1>6. CASE Cancel(a)
  <2> DEFINE row == IF req.state = "PENDING" THEN [req EXCEPT !.state = "CANCELLED"] ELSE req
  <2>1. approvals' = Upsert(approvals, a, row)
    BY <1>6 DEF Cancel, req
  <2>2. /\ DOMAIN approvals' = DOMAIN approvals
        /\ approvals'[a] = row
        /\ \A b \in DOMAIN approvals : b # a => approvals'[b] = approvals[b]
    BY <1>3, <2>1
  <2> QED
    BY <1>2, <2>2 DEF Answers, ApprovalRequest
<1> QED
  BY <1>4, <1>5, <1>6

-------------------------------------------------------------------------------
(***************************************************************************)
(* Facts used by several steps of the invariance proof                     *)
(***************************************************************************)

\* No step takes back what has been decided, or changes whose request it was.
Keeps ==
  /\ DOMAIN approvals \subseteq DOMAIN approvals'
  /\ \A a \in DOMAIN approvals :
       /\ approvals'[a].run_id = approvals[a].run_id
       /\ approvals'[a].step_id = approvals[a].step_id
       /\ approvals[a].state # "PENDING" => approvals'[a] = approvals[a]

LEMMA ApprovalsStay ==
  ASSUME Keeps, NEW r, RunHasApproval(r)
  PROVE  RunHasApproval(r)'
<1> PICK a \in DOMAIN approvals :
       /\ approvals[a].run_id = r
       /\ approvals[a].state = "APPROVED"
       /\ approvals[a].decided_by = HUMAN_FOUNDER
  BY DEF RunHasApproval
<1>1. a \in DOMAIN approvals' /\ approvals'[a] = approvals[a]
  BY DEF Keeps
<1> QED
  BY <1>1 DEF RunHasApproval

\* A run whose workflow and history stay has passed what it had passed.
LEMMA SamePasses ==
  ASSUME NEW r \in DOMAIN runs, r \in DOMAIN runs',
         runs'[r].history = runs[r].history, runs'[r].workflow_id = runs[r].workflow_id
  PROVE  Crossings(r)' = Crossings(r) /\ Deliveries(r)' = Deliveries(r)
  BY DEF Crossings, Deliveries

\* One more record adds at most its own place to what a run has passed.
LEMMA OneMorePass ==
  ASSUME NEW r \in DOMAIN runs, runs[r] \in WorkflowRun, NEW record \in StepRecord,
         r \in DOMAIN runs',
         runs'[r].history = Append(runs[r].history, record),
         runs'[r].workflow_id = runs[r].workflow_id
  PROVE  LET n == Len(runs[r].history) + 1
             w == runs[r].workflow_id
             passed == record.result = "PASS"
             gate == IsHumanGate(w, record.step_id)
         IN  /\ n \notin Crossings(r) \cup Deliveries(r)
             /\ Crossings(r)' = Crossings(r) \cup (IF passed /\ gate THEN {n} ELSE {})
             /\ Deliveries(r)' = Deliveries(r) \cup
                  (IF passed /\ ~gate /\ NeedsApproval(w, record.step_id) THEN {n} ELSE {})
<1> DEFINE h == runs[r].history
           n == Len(h) + 1
<1>1. h \in Seq(StepRecord) /\ Len(h) \in Nat /\ DOMAIN h = 1 .. Len(h)
  BY LenProperties DEF WorkflowRun
<1>2. /\ DOMAIN Append(h, record) = 1 .. n
      /\ Append(h, record)[n] = record
      /\ \A i \in 1 .. Len(h) : Append(h, record)[i] = h[i]
  BY <1>1, AppendProperties
<1>3. /\ DOMAIN Append(h, record) = DOMAIN h \cup {n} /\ n \notin DOMAIN h
      /\ \A i \in DOMAIN h : Append(h, record)[i] = h[i]
  BY <1>1, <1>2
<1>4. runs'[r].history = Append(h, record)
  OBVIOUS
<1> HIDE DEF h, n
<1>5. /\ DOMAIN runs'[r].history = DOMAIN h \cup {n} /\ n \notin DOMAIN h
      /\ runs'[r].history[n] = record
      /\ \A i \in DOMAIN h : runs'[r].history[i] = h[i]
  BY <1>2, <1>3, <1>4
<1> QED
  BY <1>5 DEF Crossings, Deliveries, h, n

-------------------------------------------------------------------------------
(***************************************************************************)
(* The invariant holds initially and every action keeps it                 *)
(***************************************************************************)
LEMMA InvInitially == Init => Inv
<1> SUFFICES ASSUME Init PROVE Inv
  OBVIOUS
<1>1. DOMAIN approvals = {} /\ DOMAIN runs = {}
  BY EmptyIsTable DEF Init, ApprovalInit
<1>2. TypeOK
  BY <1>1, EmptyIsTable DEF Init, ApprovalInit, TypeOK, ApprovalTypeOK
<1> QED
  BY <1>1, <1>2 DEF Inv, WaitsForItsRequest, RequestsHaveRuns, EveryPendingRequestIsAwaited,
                    DecisionsComeFromTheFounder, GatedPassesAreApproved

\* A new run waits for nothing and has passed nothing.
LEMMA StartKeepsInv ==
  ASSUME Inv, NEW r \in Run, NEW w \in Workflow, Start(r, w)
  PROVE  Inv'
<1>1. /\ r \notin DOMAIN runs
      /\ runs' = Upsert(runs, r, NewRun(w))
      /\ approvals' = approvals /\ due' = due /\ paused' = paused
  BY DEF Start
<1>2. /\ DOMAIN runs' = DOMAIN runs \cup {r}
      /\ runs'[r] = NewRun(w)
      /\ \A q \in DOMAIN runs : runs'[q] = runs[q]
  BY <1>1 DEF Upsert
<1>3. TypeOK'
  BY <1>1, NewRunType, PutRunType DEF Inv, TypeOK, ApprovalTypeOK
<1>4. /\ runs'[r].pending_approval_id = None
      /\ runs'[r].status # "APPROVAL_REQUIRED"
      /\ runs'[r].history = <<>>
  BY <1>2 DEF NewRun
<1>5. WaitsForItsRequest'
  BY <1>1, <1>2, <1>4 DEF Inv, WaitsForItsRequest, AtHumanGate
<1>6. RequestsHaveRuns' /\ EveryPendingRequestIsAwaited' /\ DecisionsComeFromTheFounder'
  BY <1>1, <1>2 DEF Inv, RequestsHaveRuns, EveryPendingRequestIsAwaited, DecisionsComeFromTheFounder
<1>7. GatedPassesAreApproved'
  <2> SUFFICES ASSUME NEW q \in DOMAIN runs', (Crossings(q) \cup Deliveries(q))' # {}
               PROVE  RunHasApproval(q)'
    BY DEF GatedPassesAreApproved
  <2>1. CASE q = r
    BY <1>4, <2>1 DEF Crossings, Deliveries
  <2>2. CASE q # r
    <3>1. q \in DOMAIN runs /\ runs'[q] = runs[q]
      BY <1>2, <2>2
    <3>2. Crossings(q) \cup Deliveries(q) # {}
      BY <3>1, SamePasses
    <3> QED
      BY <1>1, <3>1, <3>2 DEF Inv, GatedPassesAreApproved, RunHasApproval
  <2> QED
    BY <2>1, <2>2
<1> QED
  BY <1>3, <1>5, <1>6, <1>7 DEF Inv

\* A lapse takes nothing back.
LEMMA LapsesKeep ==
  ASSUME DOMAIN approvals \subseteq DOMAIN approvals', \A b \in DOMAIN approvals : Lapses(b)
  PROVE  Keeps
  BY DEF Keeps, Lapses

\* Asking parks the run on its only PENDING request.
LEMMA OpenApprovalKeepsInv ==
  ASSUME Inv, NEW r \in Run, NEW a \in Approval, NEW expires \in BOOLEAN, OpenApproval(r, a, expires)
  PROVE  Inv'
<1>1. /\ TypeOK'
      /\ r \in DOMAIN runs /\ DOMAIN runs' = DOMAIN runs
      /\ \A q \in DOMAIN runs : q # r => runs'[q] = runs[q]
      /\ AtHumanGate(runs[r])
      /\ runs'[r].status = "APPROVAL_REQUIRED"
      /\ runs'[r].pending_approval_id = a
      /\ runs'[r].current_step = runs[r].current_step
      /\ runs'[r].workflow_id = runs[r].workflow_id
      /\ runs'[r].history = runs[r].history
      /\ a \notin DOMAIN approvals /\ DOMAIN approvals' = DOMAIN approvals \cup {a}
      /\ approvals'[a].state = "PENDING" /\ approvals'[a].decided_by = None
      /\ approvals'[a].run_id = r /\ approvals'[a].step_id = runs[r].current_step
      /\ \A b \in DOMAIN approvals :
           /\ Lapses(b)
           /\ b # runs[r].pending_approval_id => approvals'[b] = approvals[b]
           /\ b = runs[r].pending_approval_id => approvals'[b].state # "PENDING"
  BY OpenApprovalStep DEF Inv
<1>2. a # None
  BY NoneAssumption
<1>3. Keeps
  BY <1>1, LapsesKeep
<1>4. WaitsForItsRequest'
  <2> SUFFICES ASSUME NEW q \in DOMAIN runs
               PROVE  /\ runs'[q].status = "APPROVAL_REQUIRED" <=> runs'[q].pending_approval_id # None
                      /\ runs'[q].pending_approval_id # None =>
                           /\ AtHumanGate(runs[q])'
                           /\ runs'[q].pending_approval_id \in DOMAIN approvals'
                           /\ approvals'[runs'[q].pending_approval_id].run_id = q
                           /\ approvals'[runs'[q].pending_approval_id].step_id = runs'[q].current_step
    BY <1>1 DEF WaitsForItsRequest
  <2>1. CASE q = r
    BY <1>1, <1>2, <2>1 DEF AtHumanGate
  <2>2. CASE q # r
    <3>1. runs'[q] = runs[q]
      BY <1>1, <2>2
    <3>2. \A b \in DOMAIN approvals :
             b \in DOMAIN approvals' /\ approvals'[b].run_id = approvals[b].run_id
                                     /\ approvals'[b].step_id = approvals[b].step_id
      BY <1>3 DEF Keeps
    <3> QED
      BY <3>1, <3>2 DEF Inv, WaitsForItsRequest, AtHumanGate
  <2> QED
    BY <2>1, <2>2
<1>5. RequestsHaveRuns'
  BY <1>1, <1>3 DEF Inv, RequestsHaveRuns, Keeps
<1>6. EveryPendingRequestIsAwaited'
  <2> SUFFICES ASSUME NEW b \in DOMAIN approvals', approvals'[b].state = "PENDING"
               PROVE  /\ approvals'[b].run_id \in DOMAIN runs'
                      /\ runs'[approvals'[b].run_id].pending_approval_id = b
                      /\ runs'[approvals'[b].run_id].status = "APPROVAL_REQUIRED"
                      /\ runs'[approvals'[b].run_id].current_step = approvals'[b].step_id
    BY DEF EveryPendingRequestIsAwaited
  <2>1. CASE b = a
    BY <1>1, <2>1
  <2>2. CASE b # a
    <3>1. b \in DOMAIN approvals /\ b # runs[r].pending_approval_id /\ approvals'[b] = approvals[b]
      BY <1>1, <2>2
    <3>2. /\ approvals[b].run_id \in DOMAIN runs
          /\ runs[approvals[b].run_id].pending_approval_id = b
          /\ runs[approvals[b].run_id].status = "APPROVAL_REQUIRED"
          /\ runs[approvals[b].run_id].current_step = approvals[b].step_id
      BY <3>1 DEF Inv, EveryPendingRequestIsAwaited
    <3> QED
      BY <1>1, <3>1, <3>2
  <2> QED
    BY <2>1, <2>2
<1>7. DecisionsComeFromTheFounder'
  <2> SUFFICES ASSUME NEW b \in DOMAIN approvals'
               PROVE  IF approvals'[b].state \in Decision
                      THEN approvals'[b].decided_by = HUMAN_FOUNDER
                           /\ approvals'[b].requested_by # HUMAN_FOUNDER
                      ELSE approvals'[b].decided_by = None
    BY DEF DecisionsComeFromTheFounder
  <2>1. CASE b = a
    BY <1>1, <2>1 DEF Decision
  <2>2. CASE b # a
    BY <1>1, <2>2 DEF Inv, DecisionsComeFromTheFounder, Lapses, Decision
  <2> QED
    BY <2>1, <2>2
<1>8. GatedPassesAreApproved'
  <2> SUFFICES ASSUME NEW q \in DOMAIN runs, (Crossings(q) \cup Deliveries(q))' # {}
               PROVE  RunHasApproval(q)'
    BY <1>1 DEF GatedPassesAreApproved
  <2>1. runs'[q].history = runs[q].history /\ runs'[q].workflow_id = runs[q].workflow_id
    BY <1>1
  <2>2. Crossings(q) \cup Deliveries(q) # {}
    BY <1>1, <2>1, SamePasses
  <2>3. RunHasApproval(q)
    BY <2>2 DEF Inv, GatedPassesAreApproved
  <2> QED
    BY <1>3, <2>3, ApprovalsStay
<1> QED
  BY <1>1, <1>4, <1>5, <1>6, <1>7, <1>8 DEF Inv

\* Resuming spends the request the run waited for, if it was granted, and leaves
\* none that is still PENDING behind.
LEMMA ResumeKeepsInv ==
  ASSUME Inv, NEW r \in Run, ResumeAfterApproval(r)
  PROVE  Inv'
<1> DEFINE p == runs[r].pending_approval_id
           result == IF approvals'[p].state = "APPROVED" THEN "PASS" ELSE "FAIL"
           record == Record(runs[r], HUMAN_FOUNDER, result)
<1>1. /\ TypeOK'
      /\ r \in DOMAIN runs /\ DOMAIN runs' = DOMAIN runs
      /\ \A q \in DOMAIN runs : q # r => runs'[q] = runs[q]
      /\ runs'[r].workflow_id = runs[r].workflow_id
      /\ p \in DOMAIN approvals /\ DOMAIN approvals' = DOMAIN approvals
      /\ AtHumanGate(runs[r])
      /\ \A b \in DOMAIN approvals :
           Lapses(b) /\ (b # p => approvals'[b] = approvals[b])
      /\ approvals'[p].state = "PENDING" => runs'[r] = runs[r]
      /\ approvals'[p].state # "PENDING" =>
           /\ runs'[r].pending_approval_id = None
           /\ runs'[r].status # "APPROVAL_REQUIRED"
           /\ runs'[r].history = Append(runs[r].history, record)
  BY ResumeStep DEF Inv
<1>2. p # None /\ approvals[p].run_id = r
  BY <1>1 DEF ResumeAfterApproval, Inv, WaitsForItsRequest
<1>3. Keeps
  BY <1>1, LapsesKeep
<1>4. record \in StepRecord
  <2>1. runs[r] \in WorkflowRun
    BY <1>1, RunType DEF Inv, OnItsGraph
  <2> QED
    BY <2>1, IdentityAssumption DEF Record, StepRecord, WorkflowRun
<1>5. WaitsForItsRequest'
  <2> SUFFICES ASSUME NEW q \in DOMAIN runs
               PROVE  /\ runs'[q].status = "APPROVAL_REQUIRED" <=> runs'[q].pending_approval_id # None
                      /\ runs'[q].pending_approval_id # None =>
                           /\ AtHumanGate(runs[q])'
                           /\ runs'[q].pending_approval_id \in DOMAIN approvals'
                           /\ approvals'[runs'[q].pending_approval_id].run_id = q
                           /\ approvals'[runs'[q].pending_approval_id].step_id = runs'[q].current_step
    BY <1>1 DEF WaitsForItsRequest
  <2>1. CASE runs'[q] = runs[q]
    <3>1. \A b \in DOMAIN approvals :
             b \in DOMAIN approvals' /\ approvals'[b].run_id = approvals[b].run_id
                                     /\ approvals'[b].step_id = approvals[b].step_id
      BY <1>3 DEF Keeps
    <3> QED
      BY <2>1, <3>1 DEF Inv, WaitsForItsRequest, AtHumanGate
  <2>2. CASE runs'[q] # runs[q]
    BY <1>1, <2>2
  <2> QED
    BY <2>1, <2>2
<1>6. RequestsHaveRuns'
  BY <1>1, <1>3 DEF Inv, RequestsHaveRuns, Keeps
<1>7. EveryPendingRequestIsAwaited'
  <2> SUFFICES ASSUME NEW b \in DOMAIN approvals, approvals'[b].state = "PENDING"
               PROVE  /\ approvals'[b].run_id \in DOMAIN runs'
                      /\ runs'[approvals'[b].run_id].pending_approval_id = b
                      /\ runs'[approvals'[b].run_id].status = "APPROVAL_REQUIRED"
                      /\ runs'[approvals'[b].run_id].current_step = approvals'[b].step_id
    BY <1>1 DEF EveryPendingRequestIsAwaited
  <2>1. approvals'[b] = approvals[b]
    BY <1>1 DEF Lapses
  <2>2. /\ approvals[b].run_id \in DOMAIN runs
        /\ runs[approvals[b].run_id].pending_approval_id = b
        /\ runs[approvals[b].run_id].status = "APPROVAL_REQUIRED"
        /\ runs[approvals[b].run_id].current_step = approvals[b].step_id
    BY <2>1 DEF Inv, EveryPendingRequestIsAwaited
  <2>3. runs'[approvals[b].run_id] = runs[approvals[b].run_id]
    BY <1>1, <2>2
  <2> QED
    BY <1>1, <2>1, <2>2, <2>3
<1>8. DecisionsComeFromTheFounder'
  BY <1>1 DEF Inv, DecisionsComeFromTheFounder, Lapses, Decision
<1>9. GatedPassesAreApproved'
  <2> SUFFICES ASSUME NEW q \in DOMAIN runs, (Crossings(q) \cup Deliveries(q))' # {}
               PROVE  RunHasApproval(q)'
    BY <1>1 DEF GatedPassesAreApproved
  <2>1. CASE runs'[q] = runs[q]
    <3>1. Crossings(q) \cup Deliveries(q) # {}
      BY <1>1, <2>1, SamePasses
    <3> QED
      BY <1>3, <3>1, ApprovalsStay DEF Inv, GatedPassesAreApproved
  <2>2. CASE runs'[q] # runs[q] /\ approvals'[p].state = "APPROVED"
    <3>1. q = r
      BY <1>1, <2>2
    <3>2. approvals'[p] = approvals[p]
      BY <1>1, <2>2 DEF Lapses
    <3>3. approvals[p].decided_by = HUMAN_FOUNDER
      BY <1>1, <2>2, <3>2 DEF Inv, DecisionsComeFromTheFounder, Decision
    <3> QED
      BY <1>1, <1>2, <2>2, <3>1, <3>2, <3>3 DEF RunHasApproval
  <2>3. CASE runs'[q] # runs[q] /\ approvals'[p].state # "APPROVED"
    <3>1. q = r /\ runs[r] \in WorkflowRun
      BY <1>1, <2>3, RunType DEF Inv, OnItsGraph
    <3>2. record.result = "FAIL"
      BY <2>3 DEF Record
    <3>3. Crossings(r)' = Crossings(r) /\ Deliveries(r)' = Deliveries(r)
      <4>1. /\ r \in DOMAIN runs' /\ runs'[r].workflow_id = runs[r].workflow_id
            /\ runs'[r].history = Append(runs[r].history, record)
        BY <1>1, <2>3, <3>1
      <4> HIDE DEF record
      <4>2. LET n == Len(runs[r].history) + 1
                w == runs[r].workflow_id
                passed == record.result = "PASS"
                gate == IsHumanGate(w, record.step_id)
            IN  /\ Crossings(r)' = Crossings(r) \cup (IF passed /\ gate THEN {n} ELSE {})
                /\ Deliveries(r)' = Deliveries(r) \cup
                     (IF passed /\ ~gate /\ NeedsApproval(w, record.step_id) THEN {n} ELSE {})
        BY <1>1, <1>4, <3>1, <4>1, OneMorePass
      <4> QED
        BY <3>2, <4>2
    <3> QED
      BY <1>3, <3>1, <3>3, ApprovalsStay DEF Inv, GatedPassesAreApproved
  <2> QED
    BY <2>1, <2>2, <2>3
<1> QED
  BY <1>1, <1>5, <1>6, <1>7, <1>8, <1>9 DEF Inv

\* An outcome is kept only for a run that waits for nothing, and a pass that
\* needs the founder's authority only if the run has it.
LEMMA SubmitKeepsInv ==
  ASSUME Inv, NEW r \in Run, NEW agent \in Identity, NEW result \in {"PASS", "FAIL"},
         SubmitOutcome(r, agent, result)
  PROVE  Inv'
<1> DEFINE record == Record(runs[r], agent, result)
<1>1. /\ TypeOK'
      /\ r \in DOMAIN runs /\ DOMAIN runs' = DOMAIN runs
      /\ \A q \in DOMAIN runs : q # r => runs'[q] = runs[q]
      /\ approvals' = approvals
      /\ runs[r].status = "RUNNING" /\ ~AtHumanGate(runs[r])
      /\ runs'[r].workflow_id = runs[r].workflow_id
      /\ \/ /\ runs'[r].status \in {"PAUSED", "BLOCKED"}
            /\ runs'[r].history = runs[r].history
            /\ runs'[r].pending_approval_id = runs[r].pending_approval_id
         \/ /\ runs'[r].status # "APPROVAL_REQUIRED"
            /\ runs'[r].history = Append(runs[r].history, record)
            /\ runs'[r].pending_approval_id = None
            /\ ~LacksApproval(r, runs[r], result)
  BY SubmitStep DEF Inv
<1>2. runs[r].pending_approval_id = None
  BY <1>1 DEF Inv, WaitsForItsRequest
<1>3. runs'[r].pending_approval_id = None /\ runs'[r].status # "APPROVAL_REQUIRED"
  BY <1>1, <1>2
<1>4. runs[r] \in WorkflowRun /\ record \in StepRecord
  <2>1. runs[r] \in WorkflowRun
    BY <1>1, RunType DEF Inv, OnItsGraph
  <2> QED
    BY <2>1 DEF Record, StepRecord, WorkflowRun
<1>5. WaitsForItsRequest'
  BY <1>1, <1>3 DEF Inv, WaitsForItsRequest, AtHumanGate
<1>6. RequestsHaveRuns' /\ DecisionsComeFromTheFounder'
  BY <1>1 DEF Inv, RequestsHaveRuns, DecisionsComeFromTheFounder
<1>7. EveryPendingRequestIsAwaited'
  <2> SUFFICES ASSUME NEW b \in DOMAIN approvals, approvals[b].state = "PENDING"
               PROVE  /\ approvals[b].run_id \in DOMAIN runs'
                      /\ runs'[approvals[b].run_id].pending_approval_id = b
                      /\ runs'[approvals[b].run_id].status = "APPROVAL_REQUIRED"
                      /\ runs'[approvals[b].run_id].current_step = approvals[b].step_id
    BY <1>1 DEF EveryPendingRequestIsAwaited
  <2>1. /\ approvals[b].run_id \in DOMAIN runs
        /\ runs[approvals[b].run_id].pending_approval_id = b
        /\ runs[approvals[b].run_id].status = "APPROVAL_REQUIRED"
        /\ runs[approvals[b].run_id].current_step = approvals[b].step_id
    BY DEF Inv, EveryPendingRequestIsAwaited
  <2>2. approvals[b].run_id # r
    BY <1>1, <2>1
  <2> QED
    BY <1>1, <2>1, <2>2
<1>8. GatedPassesAreApproved'
  <2> SUFFICES ASSUME NEW q \in DOMAIN runs, (Crossings(q) \cup Deliveries(q))' # {}
               PROVE  RunHasApproval(q)'
    BY <1>1 DEF GatedPassesAreApproved
  <2> SUFFICES RunHasApproval(q)
    BY <1>1 DEF RunHasApproval
  <2>1. CASE runs'[q].history = runs[q].history
    <3>1. runs'[q].workflow_id = runs[q].workflow_id
      BY <1>1
    <3>2. Crossings(q) \cup Deliveries(q) # {}
      BY <1>1, <2>1, <3>1, SamePasses
    <3> QED
      BY <3>2 DEF Inv, GatedPassesAreApproved
  <2>2. CASE runs'[q].history # runs[q].history
    <3>1. /\ q = r
          /\ runs'[r].history = Append(runs[r].history, record)
          /\ ~LacksApproval(r, runs[r], result)
      BY <1>1, <2>2
    <3>2. record.result = result /\ record.step_id = runs[r].current_step
      BY DEF Record
    <3> HIDE DEF record
    <3>3. LET n == Len(runs[r].history) + 1
              w == runs[r].workflow_id
              passed == record.result = "PASS"
              gate == IsHumanGate(w, record.step_id)
          IN  /\ Crossings(r)' = Crossings(r) \cup (IF passed /\ gate THEN {n} ELSE {})
              /\ Deliveries(r)' = Deliveries(r) \cup
                   (IF passed /\ ~gate /\ NeedsApproval(w, record.step_id) THEN {n} ELSE {})
      BY <1>1, <1>4, <3>1, OneMorePass
    <3>4. Crossings(r)' = Crossings(r)
      BY <1>1, <3>2, <3>3 DEF AtHumanGate
    <3>5. CASE Crossings(r) \cup Deliveries(r) # {}
      BY <1>1, <3>1, <3>5 DEF Inv, GatedPassesAreApproved
    <3>6. CASE Crossings(r) \cup Deliveries(r) = {}
      <4>1. result = "PASS" /\ NeedsApproval(runs[r].workflow_id, runs[r].current_step)
        BY <3>1, <3>2, <3>3, <3>4, <3>6
      <4> QED
        BY <3>1, <4>1 DEF LacksApproval
    <3> QED
      BY <3>5, <3>6
  <2> QED
    BY <2>1, <2>2
<1> QED
  BY <1>1, <1>5, <1>6, <1>7, <1>8 DEF Inv

\* The approval engine alone decides, lapses or withdraws what is PENDING.
LEMMA ApprovalsKeepInv ==
  ASSUME Inv, ApprovalNext, UNCHANGED <<runs, paused>>
  PROVE  Inv'
<1>1. ApprovalTypeOK'
  BY ApprovalStepType DEF Inv, TypeOK
<1>2. PICK a \in Approval :
         /\ \A b \in DOMAIN approvals : b # a => approvals'[b] = approvals[b]
         /\ a \in DOMAIN approvals => approvals'[a] = approvals[a] \/ Answers(a)
  BY ApprovalStep DEF Inv, TypeOK
<1>3. DOMAIN approvals' = DOMAIN approvals
  BY ApprovalStep DEF Inv, TypeOK
<1>4. Keeps
  BY <1>2, <1>3 DEF Keeps, Answers
<1>5. runs' = runs /\ paused' = paused
  OBVIOUS
<1>6. TypeOK'
  BY <1>1, <1>5 DEF Inv, TypeOK
<1>7. WaitsForItsRequest' /\ RequestsHaveRuns'
  BY <1>3, <1>4, <1>5 DEF Inv, WaitsForItsRequest, RequestsHaveRuns, Keeps, AtHumanGate
<1>8. EveryPendingRequestIsAwaited'
  <2> SUFFICES ASSUME NEW b \in DOMAIN approvals, approvals'[b].state = "PENDING"
               PROVE  /\ approvals'[b].run_id \in DOMAIN runs
                      /\ runs[approvals'[b].run_id].pending_approval_id = b
                      /\ runs[approvals'[b].run_id].status = "APPROVAL_REQUIRED"
                      /\ runs[approvals'[b].run_id].current_step = approvals'[b].step_id
    BY <1>3, <1>5 DEF EveryPendingRequestIsAwaited
  <2>1. approvals'[b] = approvals[b]
    BY <1>2 DEF Answers, Decision
  <2> QED
    BY <2>1 DEF Inv, EveryPendingRequestIsAwaited
<1>9. DecisionsComeFromTheFounder'
  <2> SUFFICES ASSUME NEW b \in DOMAIN approvals
               PROVE  IF approvals'[b].state \in Decision
                      THEN approvals'[b].decided_by = HUMAN_FOUNDER
                           /\ approvals'[b].requested_by # HUMAN_FOUNDER
                      ELSE approvals'[b].decided_by = None
    BY <1>3 DEF DecisionsComeFromTheFounder
  <2>1. CASE approvals'[b] = approvals[b]
    BY <2>1 DEF Inv, DecisionsComeFromTheFounder
  <2>2. CASE approvals'[b] # approvals[b]
    BY <1>2, <2>2 DEF Inv, DecisionsComeFromTheFounder, Answers, Decision
  <2> QED
    BY <2>1, <2>2
<1>10. GatedPassesAreApproved'
  <2> SUFFICES ASSUME NEW q \in DOMAIN runs, (Crossings(q) \cup Deliveries(q))' # {}
               PROVE  RunHasApproval(q)'
    BY <1>5 DEF GatedPassesAreApproved
  <2>1. Crossings(q) \cup Deliveries(q) # {}
    BY <1>5, SamePasses
  <2> QED
    BY <1>4, <2>1, ApprovalsStay DEF Inv, GatedPassesAreApproved
<1> QED
  BY <1>6, <1>7, <1>8, <1>9, <1>10 DEF Inv

\* The pause flag is no part of the invariant but its type.
LEMMA FlagKeepsInv ==
  ASSUME Inv, paused' \in BOOLEAN, UNCHANGED <<approvals, due, runs>>
  PROVE  Inv'
<1>1. approvals' = approvals /\ due' = due /\ runs' = runs
  OBVIOUS
<1>2. TypeOK'
  BY <1>1 DEF Inv, TypeOK, ApprovalTypeOK
<1>3. WaitsForItsRequest' /\ RequestsHaveRuns' /\ EveryPendingRequestIsAwaited'
      /\ DecisionsComeFromTheFounder'
  BY <1>1 DEF Inv, WaitsForItsRequest, RequestsHaveRuns, EveryPendingRequestIsAwaited,
              DecisionsComeFromTheFounder, AtHumanGate
<1>4. GatedPassesAreApproved'
  BY <1>1 DEF Inv, GatedPassesAreApproved, Crossings, Deliveries, RunHasApproval
<1> QED
  BY <1>2, <1>3, <1>4 DEF Inv

\* Every step of the system keeps the invariant.
LEMMA InvKept == Inv /\ [Next]_vars => Inv'
<1> SUFFICES ASSUME Inv, [Next]_vars PROVE Inv'
  OBVIOUS
<1>1. ASSUME NEW r \in Run, NEW w \in Workflow, Start(r, w) PROVE Inv'
  BY <1>1, StartKeepsInv
<1>2. ASSUME NEW r \in Run, NEW a \in Approval, NEW expires \in BOOLEAN, OpenApproval(r, a, expires)
      PROVE  Inv'
  BY <1>2, OpenApprovalKeepsInv
<1>3. ASSUME NEW r \in Run, ResumeAfterApproval(r) PROVE Inv'
  BY <1>3, ResumeKeepsInv
<1>4. ASSUME NEW r \in Run, NEW agent \in Identity, NEW result \in {"PASS", "FAIL"},
             SubmitOutcome(r, agent, result)
      PROVE  Inv'
  BY <1>4, SubmitKeepsInv
<1>5. CASE ApprovalNext /\ UNCHANGED <<runs, paused>>
  BY <1>5, ApprovalsKeepInv
<1>6. CASE Pause \/ Resume
  BY <1>6, FlagKeepsInv DEF Pause, Resume
<1>7. CASE UNCHANGED vars
  BY <1>7, FlagKeepsInv DEF vars, Inv, TypeOK
<1> QED
  BY <1>1, <1>2, <1>3, <1>4, <1>5, <1>6, <1>7 DEF Next

-------------------------------------------------------------------------------
(***************************************************************************)
(* Theorems                                                                *)
(***************************************************************************)

\* The invariant holds in every reachable state.
THEOREM Invariance == Spec => []Inv
  BY InvInitially, InvKept, PTL DEF Spec

\* Every table and every run stays well typed, and a run always stands on a step
\* of its own definition.
THEOREM TypeCorrect == Spec => []TypeOK
<1>1. Inv => TypeOK
  BY DEF Inv
<1> QED
  BY <1>1, Invariance, PTL

\* No run passes a human gate, a RISK 5 step, a PRODUCTION step or a step of the
\* founder without a request of its own that the founder granted.
THEOREM GateIsRespected == Spec => []GatedPassesAreApproved
<1>1. Inv => GatedPassesAreApproved
  BY DEF Inv
<1> QED
  BY <1>1, Invariance, PTL

\* No PENDING request is orphaned, and a run never has two.
THEOREM NoOrphanRequest == Spec => []EveryPendingRequestIsAwaited
<1>1. Inv => EveryPendingRequestIsAwaited
  BY DEF Inv
<1> QED
  BY <1>1, Invariance, PTL

\* Every decision is the founder's, and never about the founder's own request.
THEOREM FounderDecides == Spec => []DecisionsComeFromTheFounder
<1>1. Inv => DecisionsComeFromTheFounder
  BY DEF Inv
<1> QED
  BY <1>1, Invariance, PTL

\* No step of the system takes a decision back.
LEMMA EveryStepKeeps ==
  ASSUME Inv, [Next]_vars
  PROVE  Keeps
<1>1. ASSUME NEW r \in Run, NEW a \in Approval, NEW expires \in BOOLEAN, OpenApproval(r, a, expires)
      PROVE  Keeps
  <2>1. /\ DOMAIN approvals' = DOMAIN approvals \cup {a}
        /\ \A b \in DOMAIN approvals : Lapses(b)
    BY <1>1, OpenApprovalStep DEF Inv
  <2> QED
    BY <2>1, LapsesKeep
<1>2. ASSUME NEW r \in Run, ResumeAfterApproval(r) PROVE Keeps
  <2>1. DOMAIN approvals' = DOMAIN approvals /\ \A b \in DOMAIN approvals : Lapses(b)
    BY <1>2, ResumeStep DEF Inv
  <2> QED
    BY <2>1, LapsesKeep
<1>3. CASE ApprovalNext
  <2>1. DOMAIN approvals' = DOMAIN approvals
    BY <1>3, ApprovalStep DEF Inv, TypeOK
  <2>2. PICK a \in Approval :
           /\ \A b \in DOMAIN approvals : b # a => approvals'[b] = approvals[b]
           /\ a \in DOMAIN approvals => approvals'[a] = approvals[a] \/ Answers(a)
    BY <1>3, ApprovalStep DEF Inv, TypeOK
  <2> QED
    BY <2>1, <2>2 DEF Keeps, Answers
<1>4. CASE approvals' = approvals
  BY <1>4 DEF Keeps
<1> QED
  BY <1>1, <1>2, <1>3, <1>4 DEF Next, Start, SubmitOutcome, Pause, Resume, vars

\* A request that has been decided, has expired or was withdrawn is immutable.
THEOREM FinalDecisions == Spec => DecisionsAreFinal
<1>1. Inv /\ [Next]_vars =>
        [\A a \in DOMAIN approvals :
           approvals[a].state # "PENDING" => approvals'[a] = approvals[a]]_vars
  BY EveryStepKeeps DEF Keeps
<1> QED
  BY <1>1, InvInitially, InvKept, PTL DEF Spec, DecisionsAreFinal

\* A halted run is moved by nothing but a new question to the founder.
THEOREM HaltedRunsStay == Spec => HaltedRunsOnlyAskAgain
<1> DEFINE Moves == \A r \in DOMAIN runs :
       Halted(runs[r]) /\ runs'[r] # runs[r] =>
         /\ AtHumanGate(runs[r])
         /\ runs'[r].status = "APPROVAL_REQUIRED"
         /\ runs'[r].pending_approval_id \notin DOMAIN approvals
         /\ runs'[r].history = runs[r].history
<1>1. Inv /\ [Next]_vars => [Moves]_vars
  <2> SUFFICES ASSUME Inv, Next PROVE Moves
    OBVIOUS
  <2>1. ASSUME NEW r \in Run, NEW w \in Workflow, Start(r, w) PROVE Moves
    BY <2>1 DEF Start, Upsert
  <2>2. ASSUME NEW r \in Run, NEW a \in Approval, NEW expires \in BOOLEAN, OpenApproval(r, a, expires)
        PROVE  Moves
    <3> HIDE DEF Moves
    <3>1. /\ r \in DOMAIN runs /\ a \notin DOMAIN approvals
          /\ AtHumanGate(runs[r])
          /\ runs' = Upsert(runs, r, Parked(runs[r], a))
      BY <2>2, OpenApprovalWrites
    <3>2. /\ Parked(runs[r], a).status = "APPROVAL_REQUIRED"
          /\ Parked(runs[r], a).pending_approval_id = a
          /\ Parked(runs[r], a).history = runs[r].history
      BY <3>1, RunType, ParkedType DEF Inv
    <3> QED
      BY <3>1, <3>2 DEF Moves, Upsert
  <2>3. ASSUME NEW r \in Run, ResumeAfterApproval(r) PROVE Moves
    <3>1. \A q \in DOMAIN runs : q # r => runs'[q] = runs[q]
      BY <2>3, ResumeStep DEF Inv
    <3>2. runs[r].status = "APPROVAL_REQUIRED"
      BY <2>3 DEF ResumeAfterApproval
    <3> QED
      BY <3>1, <3>2 DEF Halted
  <2>4. ASSUME NEW r \in Run, NEW agent \in Identity, NEW result \in {"PASS", "FAIL"},
               SubmitOutcome(r, agent, result)
        PROVE  Moves
    <3>1. /\ \A q \in DOMAIN runs : q # r => runs'[q] = runs[q]
          /\ runs[r].status = "RUNNING"
      BY <2>4, SubmitStep DEF Inv
    <3> QED
      BY <3>1 DEF Halted
  <2>5. CASE runs' = runs
    BY <2>5
  <2> QED
    BY <2>1, <2>2, <2>3, <2>4, <2>5 DEF Next, Pause, Resume
<1> QED
  BY <1>1, InvInitially, InvKept, PTL DEF Spec, HaltedRunsOnlyAskAgain

-------------------------------------------------------------------------------
(***************************************************************************)
(* The engine implements HumanGate                                         *)
(***************************************************************************)

\* An empty store is where HumanGate begins.
LEMMA GateInitially == Init => Promise!GateInit
<1> SUFFICES ASSUME Init PROVE Promise!GateInit
  OBVIOUS
<1>1. DOMAIN approvals = {} /\ DOMAIN runs = {}
  BY EmptyIsTable DEF Init, ApprovalInit
<1> QED
  BY <1>1 DEF Promise!GateInit, Promise!EmptyTable

\* The requests, crossings and deliveries a state of the engine stands for.
request == [a \in DOMAIN approvals |-> [run |-> approvals[a].run_id, verdict |-> VerdictOf(a)]]
crossed == [r \in DOMAIN runs |-> Crossings(r)]
shipped == [r \in DOMAIN runs |-> Deliveries(r)]

\* A request whose row stays, and which its run goes on holding or not holding,
\* keeps its verdict.
LEMMA SameVerdict ==
  ASSUME NEW a \in DOMAIN approvals, approvals'[a] = approvals[a],
         LET r == approvals[a].run_id
         IN  runs'[r].pending_approval_id = a <=> runs[r].pending_approval_id = a
  PROVE  VerdictOf(a)' = VerdictOf(a)
  BY DEF VerdictOf

\* A new run begins with nothing crossed and nothing shipped.
LEMMA StartBegins ==
  ASSUME Inv, NEW r \in Run, NEW w \in Workflow, Start(r, w)
  PROVE  Promise!Begin(r)
<1>1. /\ r \notin DOMAIN runs
      /\ approvals' = approvals
      /\ DOMAIN runs' = DOMAIN runs \cup {r}
      /\ runs'[r].history = <<>>
      /\ \A q \in DOMAIN runs : runs'[q] = runs[q]
  BY DEF Start, Upsert, NewRun
<1>2. request' = request
  <2>1. \A a \in DOMAIN approvals : VerdictOf(a)' = VerdictOf(a)
    BY <1>1, SameVerdict DEF Inv, RequestsHaveRuns
  <2> QED
    BY <1>1, <2>1 DEF request
<1>3. Crossings(r)' = {} /\ Deliveries(r)' = {}
  BY <1>1 DEF Crossings, Deliveries
<1>4. \A q \in DOMAIN runs : Crossings(q)' = Crossings(q) /\ Deliveries(q)' = Deliveries(q)
  BY <1>1, SamePasses
<1>5. crossed' = [q \in DOMAIN runs \cup {r} |-> IF q = r THEN {} ELSE crossed[q]]
  BY <1>1, <1>3, <1>4 DEF crossed
<1>6. shipped' = [q \in DOMAIN runs \cup {r} |-> IF q = r THEN {} ELSE shipped[q]]
  BY <1>1, <1>3, <1>4 DEF shipped
<1> QED
  BY <1>1, <1>2, <1>5, <1>6 DEF Promise!Begin, Promise!Upsert, crossed, shipped, request

\* When no run's history grows, nothing is crossed or shipped.
LEMMA NoPasses ==
  ASSUME DOMAIN runs' = DOMAIN runs,
         \A q \in DOMAIN runs : runs'[q].history = runs[q].history
                                /\ runs'[q].workflow_id = runs[q].workflow_id
  PROVE  crossed' = crossed /\ shipped' = shipped
<1>1. \A q \in DOMAIN runs : Crossings(q)' = Crossings(q) /\ Deliveries(q)' = Deliveries(q)
  BY SamePasses
<1> QED
  BY <1>1 DEF crossed, shipped

\* The one request of a run that can still open its gate is the one it holds.
LEMMA OnlyHeldIsLive ==
  ASSUME Inv, NEW r \in DOMAIN runs
  PROVE  \A b \in Promise!Live(r) :
           /\ b \in DOMAIN approvals
           /\ b = runs[r].pending_approval_id
           /\ approvals[b].state \in {"PENDING", "APPROVED"}
  BY DEF Promise!Live, VerdictOf, Inv, EveryPendingRequestIsAwaited

\* openApproval is Ask: the request held before is closed, and no other changes.
LEMMA OpenApprovalAsks ==
  ASSUME Inv, NEW r \in Run, NEW a \in Approval, NEW expires \in BOOLEAN, OpenApproval(r, a, expires)
  PROVE  Promise!Ask(r, a)
<1> DEFINE p == runs[r].pending_approval_id
<1>1. /\ TypeOK'
      /\ r \in DOMAIN runs /\ DOMAIN runs' = DOMAIN runs
      /\ \A q \in DOMAIN runs : q # r => runs'[q] = runs[q]
      /\ AtHumanGate(runs[r])
      /\ runs'[r].status = "APPROVAL_REQUIRED"
      /\ runs'[r].pending_approval_id = a
      /\ runs'[r].current_step = runs[r].current_step
      /\ runs'[r].workflow_id = runs[r].workflow_id
      /\ runs'[r].history = runs[r].history
      /\ a \notin DOMAIN approvals /\ DOMAIN approvals' = DOMAIN approvals \cup {a}
      /\ approvals'[a].state = "PENDING" /\ approvals'[a].decided_by = None
      /\ approvals'[a].run_id = r /\ approvals'[a].step_id = runs[r].current_step
      /\ \A b \in DOMAIN approvals :
           /\ Lapses(b)
           /\ b # runs[r].pending_approval_id => approvals'[b] = approvals[b]
           /\ b = runs[r].pending_approval_id => approvals'[b].state # "PENDING"
  BY OpenApprovalStep DEF Inv
<1>2. crossed' = crossed /\ shipped' = shipped
  BY <1>1, NoPasses
<1>3. request'[a] = [run |-> r, verdict |-> "open"]
  BY <1>1 DEF request, VerdictOf
<1>4. ASSUME NEW b \in DOMAIN approvals
      PROVE  request'[b] = IF b \in Promise!Live(r) THEN Promise!Closed(request[b]) ELSE request[b]
  <2>0. /\ b \in DOMAIN approvals' /\ b # a
        /\ request[b] = [run |-> approvals[b].run_id, verdict |-> VerdictOf(b)]
        /\ request'[b] = [run |-> approvals'[b].run_id, verdict |-> VerdictOf(b)']
    BY <1>1 DEF request
  <2>1. CASE b # p
    <3>1. b \notin Promise!Live(r)
      BY <1>1, <2>1, OnlyHeldIsLive
    <3>2. approvals'[b] = approvals[b]
      BY <1>1, <2>1
    <3>3. VerdictOf(b)' = VerdictOf(b)
      BY <1>1, <2>0, <2>1, <3>2, SameVerdict DEF Inv, RequestsHaveRuns
    <3> QED
      BY <2>0, <3>1, <3>2, <3>3
  <2>2. CASE b = p
    <3>1. approvals[b].run_id = r /\ approvals'[b].run_id = r
      BY <1>1, <2>2, LapsesKeep, NoneAssumption, RowType
         DEF Inv, WaitsForItsRequest, TypeOK, ApprovalTypeOK, Lapses
    <3>2. Promise!Live(r) = {c \in DOMAIN approvals :
                               approvals[c].run_id = r /\ VerdictOf(c) \in {"open", "granted"}}
      BY DEF Promise!Live
    <3>3. CASE approvals[b].state = "PENDING"
      <4>1. approvals'[b].state = "EXPIRED"
        BY <1>1, <2>2, <3>3 DEF Lapses
      <4>2. VerdictOf(b) = "open" /\ VerdictOf(b)' = "refused"
        BY <3>3, <4>1 DEF VerdictOf
      <4> QED
        BY <2>0, <3>1, <3>2, <4>2 DEF Promise!Closed
    <3>4. CASE approvals[b].state = "APPROVED"
      <4>1. approvals'[b] = approvals[b]
        BY <1>1, <3>4 DEF Lapses
      <4>2. VerdictOf(b) = "granted" /\ VerdictOf(b)' = "spent"
        BY <1>1, <2>0, <2>2, <3>1, <3>4, <4>1 DEF VerdictOf
      <4> QED
        BY <2>0, <3>1, <3>2, <4>2 DEF Promise!Closed
    <3>5. CASE approvals[b].state \notin {"PENDING", "APPROVED"}
      <4>1. approvals'[b] = approvals[b]
        BY <1>1, <3>5 DEF Lapses
      <4>2. VerdictOf(b) = "refused" /\ VerdictOf(b)' = "refused"
        BY <3>5, <4>1 DEF VerdictOf
      <4> QED
        BY <2>0, <3>1, <3>2, <4>2
    <3> QED
      BY <3>3, <3>4, <3>5
  <2> QED
    BY <2>1, <2>2
<1>5. DOMAIN request' = DOMAIN request \cup {a} /\ a \notin DOMAIN request /\ r \in DOMAIN crossed
  BY <1>1 DEF request, crossed
<1>6. request' = [b \in DOMAIN request \cup {a} |->
                    IF b = a THEN [run |-> r, verdict |-> "open"]
                    ELSE IF b \in Promise!Live(r) THEN Promise!Closed(request[b]) ELSE request[b]]
  BY <1>1, <1>3, <1>4, <1>5 DEF request
<1> QED
  BY <1>2, <1>5, <1>6 DEF Promise!Ask, request, crossed, shipped

\* When one row changes and every other request keeps its verdict, that is what
\* the abstract requests do too.
LEMMA OneVerdict ==
  ASSUME DOMAIN approvals' = DOMAIN approvals, NEW a \in DOMAIN approvals,
         approvals'[a].run_id = approvals[a].run_id,
         \A b \in DOMAIN approvals :
           b # a => approvals'[b] = approvals[b] /\ VerdictOf(b)' = VerdictOf(b)
  PROVE  request' = [request EXCEPT ![a].verdict = VerdictOf(a)']
  BY DEF request

\* What approve, reject, cancel and the lazy expiry do is an Answer, or nothing.
LEMMA ApprovalsAnswer ==
  ASSUME Inv, ApprovalNext, UNCHANGED <<runs, paused>>
  PROVE  \/ UNCHANGED <<request, crossed, shipped>>
         \/ \E a \in Approval : Promise!Answer(a, "granted") \/ Promise!Answer(a, "refused")
<1>1. DOMAIN approvals' = DOMAIN approvals
  BY ApprovalStep DEF Inv, TypeOK
<1>2. PICK a \in Approval :
         /\ \A b \in DOMAIN approvals : b # a => approvals'[b] = approvals[b]
         /\ a \in DOMAIN approvals => approvals'[a] = approvals[a] \/ Answers(a)
  BY ApprovalStep DEF Inv, TypeOK
<1>3. crossed' = crossed /\ shipped' = shipped
  BY DEF crossed, shipped, Crossings, Deliveries
<1>4. ASSUME NEW b \in DOMAIN approvals, approvals'[b] = approvals[b]
      PROVE  VerdictOf(b)' = VerdictOf(b)
  BY <1>4, SameVerdict
<1>5. CASE a \in DOMAIN approvals /\ Answers(a)
  <2>1. request[a].verdict = "open" /\ a \in DOMAIN request
    BY <1>5 DEF Answers, request, VerdictOf
  <2>2. request' = [request EXCEPT ![a].verdict = VerdictOf(a)']
    <3>1. approvals'[a].run_id = approvals[a].run_id
      BY <1>5 DEF Answers
    <3>2. \A b \in DOMAIN approvals :
            b # a => approvals'[b] = approvals[b] /\ VerdictOf(b)' = VerdictOf(b)
      BY <1>2, <1>4
    <3> QED
      BY <1>1, <1>5, <3>1, <3>2, OneVerdict
  <2>3. CASE approvals'[a].state = "APPROVED"
    <3>1. runs'[approvals'[a].run_id].pending_approval_id = a
      BY <1>5 DEF Answers, Inv, EveryPendingRequestIsAwaited
    <3>2. VerdictOf(a)' = "granted"
      BY <2>3, <3>1 DEF VerdictOf
    <3> QED
      BY <1>3, <2>1, <2>2, <3>2 DEF Promise!Answer, request, crossed, shipped
  <2>4. CASE approvals'[a].state # "APPROVED"
    <3>1. approvals'[a].state # "PENDING"
      BY <1>5 DEF Answers, Decision
    <3>2. VerdictOf(a)' = "refused"
      BY <2>4, <3>1 DEF VerdictOf
    <3> QED
      BY <1>3, <2>1, <2>2, <3>2 DEF Promise!Answer, request, crossed, shipped
  <2> QED
    BY <2>3, <2>4
<1>6. CASE ~(a \in DOMAIN approvals /\ Answers(a))
  <2>1. \A b \in DOMAIN approvals : approvals'[b] = approvals[b]
    BY <1>2, <1>6
  <2>2. request' = request
    BY <1>1, <1>4, <2>1 DEF request
  <2> QED
    BY <1>3, <2>2
<1> QED
  BY <1>5, <1>6

\* submitOutcome is Deliver when it passes a step that needs the founder, and
\* nothing to HumanGate otherwise.
LEMMA SubmitDelivers ==
  ASSUME Inv, NEW r \in Run, NEW agent \in Identity, NEW result \in {"PASS", "FAIL"},
         SubmitOutcome(r, agent, result)
  PROVE  UNCHANGED <<request, crossed, shipped>> \/ Promise!Deliver(r)
<1> DEFINE record == Record(runs[r], agent, result)
           n == Len(runs[r].history) + 1
<1>1. /\ TypeOK'
      /\ r \in DOMAIN runs /\ DOMAIN runs' = DOMAIN runs
      /\ \A q \in DOMAIN runs : q # r => runs'[q] = runs[q]
      /\ approvals' = approvals
      /\ runs[r].status = "RUNNING" /\ ~AtHumanGate(runs[r])
      /\ runs'[r].workflow_id = runs[r].workflow_id
      /\ \/ /\ runs'[r].status \in {"PAUSED", "BLOCKED"}
            /\ runs'[r].history = runs[r].history
            /\ runs'[r].pending_approval_id = runs[r].pending_approval_id
         \/ /\ runs'[r].status # "APPROVAL_REQUIRED"
            /\ runs'[r].history = Append(runs[r].history, record)
            /\ runs'[r].pending_approval_id = None
            /\ ~LacksApproval(r, runs[r], result)
  BY SubmitStep DEF Inv
<1>2. \A q \in DOMAIN runs : runs'[q].pending_approval_id = runs[q].pending_approval_id
  BY <1>1 DEF Inv, WaitsForItsRequest
<1>3. request' = request
  <2>1. \A b \in DOMAIN approvals : VerdictOf(b)' = VerdictOf(b)
    BY <1>1, <1>2, SameVerdict DEF Inv, RequestsHaveRuns
  <2> QED
    BY <1>1, <2>1 DEF request
<1>4. CASE runs'[r].history = runs[r].history
  <2>1. \A q \in DOMAIN runs : runs'[q].history = runs[q].history
                               /\ runs'[q].workflow_id = runs[q].workflow_id
    BY <1>1, <1>4
  <2> QED
    BY <1>1, <1>3, <2>1, NoPasses
<1>5. CASE runs'[r].history # runs[r].history
  <2>1. runs[r] \in WorkflowRun /\ record \in StepRecord
    <3>1. runs[r] \in WorkflowRun
      BY <1>1, RunType DEF Inv, OnItsGraph
    <3> QED
      BY <3>1 DEF Record, StepRecord, WorkflowRun
  <2>2. /\ runs'[r].history = Append(runs[r].history, record)
        /\ ~LacksApproval(r, runs[r], result)
    BY <1>1, <1>5
  <2>3. record.result = result /\ record.step_id = runs[r].current_step
    BY DEF Record
  <2> HIDE DEF record
  <2>4. LET w == runs[r].workflow_id
            passed == record.result = "PASS"
            gate == IsHumanGate(w, record.step_id)
        IN  /\ n \notin Crossings(r) \cup Deliveries(r)
            /\ Crossings(r)' = Crossings(r) \cup (IF passed /\ gate THEN {n} ELSE {})
            /\ Deliveries(r)' = Deliveries(r) \cup
                 (IF passed /\ ~gate /\ NeedsApproval(w, record.step_id) THEN {n} ELSE {})
    BY <1>1, <2>1, <2>2, OneMorePass
  <2> HIDE DEF n
  <2>5. Crossings(r)' = Crossings(r)
    BY <1>1, <2>3, <2>4 DEF AtHumanGate
  <2>6. \A q \in DOMAIN runs : q # r => Crossings(q)' = Crossings(q) /\ Deliveries(q)' = Deliveries(q)
    BY <1>1, SamePasses
  <2>7. crossed' = crossed
    BY <1>1, <2>5, <2>6 DEF crossed
  <2>8. CASE result = "PASS" /\ NeedsApproval(runs[r].workflow_id, runs[r].current_step)
    <3>1. Deliveries(r)' = Deliveries(r) \cup {n} /\ n \notin Deliveries(r)
      BY <1>1, <2>3, <2>4, <2>8 DEF AtHumanGate
    <3>2. /\ DOMAIN shipped = DOMAIN runs /\ DOMAIN shipped' = DOMAIN runs
          /\ shipped[r] = Deliveries(r) /\ shipped'[r] = Deliveries(r)'
          /\ \A q \in DOMAIN runs : q # r => shipped'[q] = shipped[q]
      BY <1>1, <2>6 DEF shipped
    <3>3. /\ shipped' = [shipped EXCEPT ![r] = @ \cup {n}]
          /\ n \in shipped'[r] \ shipped[r]
      BY <1>1, <3>1, <3>2 DEF shipped
    <3>4. Promise!Marks(shipped, r)
      BY <3>3 DEF Promise!Marks
    <3>5. RunHasApproval(r)
      BY <2>2, <2>8 DEF LacksApproval
    <3>6. \E a \in DOMAIN request :
            request[a].run = r /\ request[a].verdict \in {"granted", "spent"}
      BY <3>5 DEF RunHasApproval, request, VerdictOf
    <3>7. r \in DOMAIN shipped
      BY <1>1, <3>2
    <3> QED
      BY <1>3, <2>7, <3>4, <3>6, <3>7 DEF Promise!Deliver, request, crossed, shipped
  <2>9. CASE ~(result = "PASS" /\ NeedsApproval(runs[r].workflow_id, runs[r].current_step))
    <3>1. Deliveries(r)' = Deliveries(r)
      BY <2>3, <2>4, <2>9
    <3>2. shipped' = shipped
      BY <1>1, <2>6, <3>1 DEF shipped
    <3> QED
      BY <1>3, <2>7, <3>2
  <2> QED
    BY <2>8, <2>9
<1> QED
  BY <1>4, <1>5

\* resumeAfterApproval is Cross when the request it reads is APPROVED, Answer
\* when it is the one to find the request expired, and nothing otherwise.
LEMMA ResumeCrosses ==
  ASSUME Inv, NEW r \in Run, ResumeAfterApproval(r)
  PROVE  \/ UNCHANGED <<request, crossed, shipped>>
         \/ \E a \in Approval : Promise!Answer(a, "refused") \/ Promise!Cross(r, a)
<1>0. PICK p : p = runs[r].pending_approval_id
  OBVIOUS
<1> DEFINE result == IF approvals'[p].state = "APPROVED" THEN "PASS" ELSE "FAIL"
           record == Record(runs[r], HUMAN_FOUNDER, result)
           n == Len(runs[r].history) + 1
<1>1. /\ TypeOK'
      /\ r \in DOMAIN runs /\ DOMAIN runs' = DOMAIN runs
      /\ \A q \in DOMAIN runs : q # r => runs'[q] = runs[q]
      /\ runs'[r].workflow_id = runs[r].workflow_id
      /\ p \in DOMAIN approvals /\ DOMAIN approvals' = DOMAIN approvals
      /\ AtHumanGate(runs[r])
      /\ \A b \in DOMAIN approvals :
           Lapses(b) /\ (b # p => approvals'[b] = approvals[b])
      /\ approvals'[p].state = "PENDING" => runs'[r] = runs[r]
      /\ approvals'[p].state # "PENDING" =>
           /\ runs'[r].pending_approval_id = None
           /\ runs'[r].status # "APPROVAL_REQUIRED"
           /\ runs'[r].history = Append(runs[r].history, record)
  BY <1>0, ResumeStep DEF Inv
<1>2. p \in Approval /\ approvals[p].run_id = r /\ runs[r] \in WorkflowRun
  <2>1. p \in Approval
    BY <1>1, RowType DEF Inv, TypeOK, ApprovalTypeOK
  <2>2. runs[r] \in WorkflowRun
    BY <1>1, RunType DEF Inv, OnItsGraph
  <2> QED
    BY <1>0, <1>1, <2>1, <2>2, NoneAssumption DEF Inv, WaitsForItsRequest
<1>3. record \in StepRecord
  BY <1>2, IdentityAssumption DEF Record, StepRecord, WorkflowRun
<1>4. approvals'[p].run_id = r
  BY <1>1, <1>2 DEF Lapses
<1>5. \A b \in DOMAIN approvals :
        b # p => approvals'[b] = approvals[b] /\ VerdictOf(b)' = VerdictOf(b)
  <2> SUFFICES ASSUME NEW b \in DOMAIN approvals, b # p
               PROVE  approvals'[b] = approvals[b] /\ VerdictOf(b)' = VerdictOf(b)
    OBVIOUS
  <2>1. approvals'[b] = approvals[b]
    BY <1>1
  <2>2. b # None /\ approvals[b].run_id \in DOMAIN runs
    BY RowType, NoneAssumption DEF Inv, RequestsHaveRuns, TypeOK, ApprovalTypeOK
  <2>3. runs'[approvals[b].run_id].pending_approval_id = b
          <=> runs[approvals[b].run_id].pending_approval_id = b
    BY <1>0, <1>1, <2>2
  <2> QED
    BY <2>1, <2>3, SameVerdict
<1>6. request' = [request EXCEPT ![p].verdict = VerdictOf(p)']
  BY <1>1, <1>2, <1>4, <1>5, OneVerdict
<1>7. p \in DOMAIN request /\ request[p] = [run |-> r, verdict |-> VerdictOf(p)]
  BY <1>1, <1>2 DEF request
<1>8. CASE approvals'[p].state = "PENDING"
  <2>1. runs' = runs
    <3>1. \A q \in DOMAIN runs : runs'[q] = runs[q]
      BY <1>1, <1>8
    <3> QED
      BY <1>1, <3>1 DEF Inv, TypeOK, IsTable
  <2>2. approvals' = approvals
    <3>1. \A b \in DOMAIN approvals : approvals'[b] = approvals[b]
      BY <1>1, <1>8 DEF Lapses
    <3> QED
      BY <1>1, <3>1 DEF Inv, TypeOK, ApprovalTypeOK, IsTable
  <2> QED
    BY <2>1, <2>2 DEF request, crossed, shipped, VerdictOf, Crossings, Deliveries
<1> SUFFICES ASSUME approvals'[p].state # "PENDING"
             PROVE  \/ UNCHANGED <<request, crossed, shipped>>
                    \/ \E a \in Approval : Promise!Answer(a, "refused") \/ Promise!Cross(r, a)
  BY <1>8
<1>9. LET w == runs[r].workflow_id
          passed == record.result = "PASS"
          gate == IsHumanGate(w, record.step_id)
      IN  /\ n \notin Crossings(r) \cup Deliveries(r)
          /\ Crossings(r)' = Crossings(r) \cup (IF passed /\ gate THEN {n} ELSE {})
          /\ Deliveries(r)' = Deliveries(r) \cup
               (IF passed /\ ~gate /\ NeedsApproval(w, record.step_id) THEN {n} ELSE {})
  <2>1. /\ r \in DOMAIN runs' /\ runs'[r].workflow_id = runs[r].workflow_id
        /\ runs'[r].history = Append(runs[r].history, record)
    BY <1>1
  <2> HIDE DEF record
  <2> QED
    BY <1>1, <1>2, <1>3, <2>1, OneMorePass
<1>10. record.result = result /\ IsHumanGate(runs[r].workflow_id, record.step_id)
  BY <1>1 DEF Record, AtHumanGate
<1>11. \A q \in DOMAIN runs : q # r => Crossings(q)' = Crossings(q) /\ Deliveries(q)' = Deliveries(q)
  BY <1>1, SamePasses
<1>12. Deliveries(r)' = Deliveries(r)
  BY <1>9, <1>10
<1>13. shipped' = shipped
  BY <1>1, <1>11, <1>12 DEF shipped
<1>14. runs'[r].pending_approval_id # p
  BY <1>1, <1>2, NoneAssumption
<1>15. CASE approvals'[p].state = "APPROVED"
  <2>1. VerdictOf(p) = "granted" /\ VerdictOf(p)' = "spent"
    BY <1>0, <1>1, <1>2, <1>4, <1>14, <1>15 DEF Lapses, VerdictOf
  <2>2. Crossings(r)' = Crossings(r) \cup {n} /\ n \notin Crossings(r)
    BY <1>9, <1>10, <1>15
  <2> HIDE DEF n
  <2>3. /\ DOMAIN crossed = DOMAIN runs /\ DOMAIN crossed' = DOMAIN runs
        /\ crossed[r] = Crossings(r) /\ crossed'[r] = Crossings(r)'
        /\ \A q \in DOMAIN runs : q # r => crossed'[q] = crossed[q]
    BY <1>1, <1>11 DEF crossed
  <2>4. /\ crossed' = [crossed EXCEPT ![r] = @ \cup {n}]
        /\ n \in crossed'[r] \ crossed[r]
    BY <1>1, <2>2, <2>3 DEF crossed
  <2>5. Promise!Marks(crossed, r)
    BY <2>4 DEF Promise!Marks
  <2>6. p \in Promise!Live(r)
    BY <1>7, <2>1 DEF Promise!Live, request
  <2>7. r \in DOMAIN crossed
    BY <1>1, <2>3
  <2>8. Promise!Cross(r, p)
    BY <1>6, <1>7, <1>13, <2>1, <2>5, <2>6, <2>7 DEF Promise!Cross, request, crossed, shipped
  <2> QED
    BY <1>2, <2>8
<1>16. CASE approvals'[p].state # "APPROVED"
  <2>1. Crossings(r)' = Crossings(r)
    BY <1>9, <1>10, <1>16
  <2>2. crossed' = crossed
    BY <1>1, <1>11, <2>1 DEF crossed
  <2>3. VerdictOf(p)' = "refused"
    BY <1>16 DEF VerdictOf
  <2>4. CASE approvals[p].state = "PENDING"
    <3>1. VerdictOf(p) = "open"
      BY <2>4 DEF VerdictOf
    <3>2. Promise!Answer(p, "refused")
      BY <1>6, <1>7, <1>13, <2>2, <2>3, <3>1 DEF Promise!Answer, request, crossed, shipped
    <3> QED
      BY <1>2, <3>2
  <2>5. CASE approvals[p].state # "PENDING"
    <3>1. VerdictOf(p) = "refused"
      BY <1>1, <1>16, <2>5 DEF Lapses, VerdictOf
    <3>2. request' = request
      BY <1>6, <1>7, <2>3, <3>1 DEF request
    <3> QED
      BY <1>13, <2>2, <3>2
  <2> QED
    BY <2>4, <2>5
<1> QED
  BY <1>15, <1>16

\* The engine, with the approval engine and the pause, keeps HumanGate's
\* promise: every step of theirs is a step of it, or none.
THEOREM EngineImplementsHumanGate == Spec => ImplementsHumanGate
<1>1. Inv /\ [Next]_vars => [Promise!GateNext]_(Promise!gateVars)
  <2>0. Promise!gateVars = <<request, crossed, shipped>>
        /\ (Promise!gateVars)' = <<request, crossed, shipped>>'
    BY DEF Promise!gateVars, request, crossed, shipped
  <2> SUFFICES ASSUME Inv, [Next]_vars
               PROVE  Promise!GateNext \/ UNCHANGED <<request, crossed, shipped>>
    BY <2>0
  <2>1. ASSUME NEW r \in Run, NEW w \in Workflow, Start(r, w)
        PROVE  Promise!GateNext \/ UNCHANGED <<request, crossed, shipped>>
    BY <2>1, StartBegins DEF Promise!GateNext
  <2>2. ASSUME NEW r \in Run, NEW a \in Approval, NEW expires \in BOOLEAN,
               OpenApproval(r, a, expires)
        PROVE  Promise!GateNext
    BY <2>2, OpenApprovalAsks DEF Promise!GateNext
  <2>3. ASSUME NEW r \in Run, ResumeAfterApproval(r)
        PROVE  Promise!GateNext \/ UNCHANGED <<request, crossed, shipped>>
    BY <2>3, ResumeCrosses DEF Promise!GateNext
  <2>4. ASSUME NEW r \in Run, NEW agent \in Identity, NEW result \in {"PASS", "FAIL"},
               SubmitOutcome(r, agent, result)
        PROVE  Promise!GateNext \/ UNCHANGED <<request, crossed, shipped>>
    BY <2>4, SubmitDelivers DEF Promise!GateNext
  <2>5. CASE ApprovalNext /\ UNCHANGED <<runs, paused>>
    BY <2>5, ApprovalsAnswer DEF Promise!GateNext
  <2>6. CASE UNCHANGED <<approvals, runs>>
    BY <2>6 DEF request, crossed, shipped, VerdictOf, Crossings, Deliveries
  <2> QED
    BY <2>1, <2>2, <2>3, <2>4, <2>5, <2>6 DEF Next, Pause, Resume, vars
<1> QED
  BY <1>1, GateInitially, Invariance, PTL DEF Spec, ImplementsHumanGate, Promise!GateSpec
===============================================================================
