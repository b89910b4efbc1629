---------------------------- MODULE HistoryProofs ----------------------------
(***************************************************************************)
(* Machine-checked proofs about the histories of WorkflowEngine: that each *)
(* is a path of its workflow, that each gate on it was passed on a grant   *)
(* of its own, and that what it brought to PRODUCTION had been reviewed.   *)
(* They rest on the invariant of WorkflowProofs.                           *)
(***************************************************************************)
EXTENDS WorkflowProofs, FiniteSetTheorems

-------------------------------------------------------------------------------
(***************************************************************************)
(* Histories are paths                                                     *)
(***************************************************************************)

\* HistoryIsAPath, of one run.
OnItsPath(run) ==
  LET w == run.workflow_id
      h == run.history
  IN  /\ h = <<>> => run.current_step = Def[w].first
      /\ h # <<>> => h[1].step_id = Def[w].first
      /\ h # <<>> => run.current_step = StandsAfter(w, h[Len(h)])
      /\ \A i \in 1 .. Len(h) - 1 : h[i + 1].step_id = StandsAfter(w, h[i])

LEMMA PathsOfRuns == HistoryIsAPath <=> \A r \in DOMAIN runs : OnItsPath(runs[r])
  BY DEF HistoryIsAPath, OnItsPath

\* The record of a step is sent along an edge of that step.
LEMMA EdgeOfRecord ==
  ASSUME NEW run, OnItsGraph(run), NEW by, NEW result \in {"PASS", "FAIL"}
  PROVE  /\ TargetOf(run.workflow_id, Record(run, by, result))
              = IF result = "PASS" THEN StepOf(run).on_pass ELSE StepOf(run).on_fail
         /\ TargetOf(run.workflow_id, Record(run, by, result))
              \in DOMAIN Def[run.workflow_id].steps \cup TERMINALS
  BY StepType DEF TargetOf, Record, StepOf

\* transition() adds one edge to the path, and moves the run to its end.
LEMMA OneMoreEdge ==
  ASSUME NEW run, OnItsGraph(run), OnItsPath(run),
         NEW tentative \in RunStatus \ {"APPROVAL_REQUIRED"},
         NEW by \in Identity, NEW result \in {"PASS", "FAIL"}
  PROVE  LET record == Record(run, by, result)
         IN  OnItsPath(Transition(run, TargetOf(run.workflow_id, record), tentative, record))
<1>0. PICK record : record = Record(run, by, result)
  OBVIOUS
<1> DEFINE w == run.workflow_id
           h == run.history
           target == TargetOf(w, record)
<1>1. /\ record \in StepRecord /\ record.step_id = run.current_step
      /\ target \in DOMAIN Def[w].steps \cup TERMINALS
  BY <1>0, EdgeOfRecord DEF Record, StepRecord, OnItsGraph, WorkflowRun
<1>2. PICK next : next = Transition(run, target, tentative, record)
  OBVIOUS
<1>3. /\ next.workflow_id = w
      /\ next.history = Append(h, record)
      /\ next.current_step = IF target \in TERMINALS THEN run.current_step ELSE target
  <2> HIDE DEF target
  <2> QED
    BY <1>1, <1>2, TransitionType
<1>4. next.current_step = StandsAfter(w, record)
  BY <1>1, <1>3 DEF StandsAfter
<1>5. h \in Seq(StepRecord) /\ Len(h) \in Nat
  BY LenProperties DEF OnItsGraph, WorkflowRun
<1>6. /\ next.history # <<>> /\ Len(next.history) = Len(h) + 1
      /\ next.history[Len(h) + 1] = record
      /\ \A i \in 1 .. Len(h) : next.history[i] = h[i]
  BY <1>1, <1>3, <1>5, AppendProperties
<1>7. h # <<>> => Len(h) \in Nat \ {0}
  BY <1>5, EmptySeq
<1>8. next.history[1].step_id = Def[w].first
  <2>1. CASE h = <<>>
    <3>1. Len(h) = 0
      BY <2>1, EmptySeq
    <3> QED
      BY <1>1, <1>6, <2>1, <3>1 DEF OnItsPath
  <2>2. CASE h # <<>>
    BY <1>6, <1>7, <2>2 DEF OnItsPath
  <2> QED
    BY <2>1, <2>2
<1>9. ASSUME NEW i \in 1 .. Len(next.history) - 1
      PROVE  next.history[i + 1].step_id = StandsAfter(w, next.history[i])
  <2>1. i \in 1 .. Len(h) /\ next.history[i] = h[i]
    BY <1>5, <1>6, <1>9
  <2>2. CASE i = Len(h)
    <3>1. h # <<>>
      BY <2>1, <2>2, EmptySeq
    <3> QED
      BY <1>1, <1>6, <2>1, <2>2, <3>1 DEF OnItsPath
  <2>3. CASE i # Len(h)
    <3>1. i \in 1 .. Len(h) - 1 /\ i + 1 \in 1 .. Len(h)
      BY <1>5, <2>1, <2>3
    <3> QED
      BY <1>6, <2>1, <3>1 DEF OnItsPath
  <2> QED
    BY <2>2, <2>3
<1>10. OnItsPath(next)
  BY <1>3, <1>4, <1>6, <1>8, <1>9 DEF OnItsPath
<1> QED
  BY <1>0, <1>2, <1>10

\* What leaves a run where it stands leaves its path.
LEMMA SamePath ==
  ASSUME NEW run, OnItsPath(run), NEW next,
         next.workflow_id = run.workflow_id, next.history = run.history,
         next.current_step = run.current_step
  PROVE  OnItsPath(next)
  BY DEF OnItsPath

LEMMA DecisionKeepsPath ==
  ASSUME NEW run, OnItsGraph(run), OnItsPath(run), NEW state
  PROVE  OnItsPath(AfterDecision(run, state))
<1>1. /\ HUMAN_FOUNDER \in Identity
      /\ {"RUNNING", "REJECTED"} \subseteq RunStatus \ {"APPROVAL_REQUIRED"}
  BY IdentityAssumption DEF RunStatus
<1>2. CASE state = "PENDING"
  BY <1>2 DEF AfterDecision
<1>3. CASE state = "APPROVED"
  <2>1. OnItsPath(Transition(run, TargetOf(run.workflow_id, Record(run, HUMAN_FOUNDER, "PASS")),
                             "RUNNING", Record(run, HUMAN_FOUNDER, "PASS")))
    BY <1>1, OneMoreEdge
  <2>2. TargetOf(run.workflow_id, Record(run, HUMAN_FOUNDER, "PASS")) = StepOf(run).on_pass
    BY EdgeOfRecord
  <2> QED
    BY <1>3, <2>1, <2>2 DEF AfterDecision
<1>4. CASE state \notin {"PENDING", "APPROVED"}
  <2>1. OnItsPath(Transition(run, TargetOf(run.workflow_id, Record(run, HUMAN_FOUNDER, "FAIL")),
                             "REJECTED", Record(run, HUMAN_FOUNDER, "FAIL")))
    BY <1>1, OneMoreEdge
  <2>2. TargetOf(run.workflow_id, Record(run, HUMAN_FOUNDER, "FAIL")) = StepOf(run).on_fail
    BY EdgeOfRecord
  <2> QED
    BY <1>4, <2>1, <2>2 DEF AfterDecision
<1> QED
  BY <1>2, <1>3, <1>4

LEMMA OutcomeKeepsPath ==
  ASSUME NEW r, NEW run, OnItsGraph(run), OnItsPath(run),
         NEW agent \in Identity, NEW result \in {"PASS", "FAIL"}
  PROVE  OnItsPath(AfterOutcome(r, run, agent, result))
<1> DEFINE record == Record(run, agent, result)
           target == IF result = "PASS" THEN StepOf(run).on_pass ELSE StepOf(run).on_fail
           tentative == IF result = "FAIL" /\ target = "abort" THEN "ABORTED" ELSE "RUNNING"
<1>1. tentative \in RunStatus \ {"APPROVAL_REQUIRED"}
  BY DEF RunStatus
<1>2. TargetOf(run.workflow_id, record) = target
  BY EdgeOfRecord
<1>3. OnItsPath(Transition(run, TargetOf(run.workflow_id, record), tentative, record))
  <2> HIDE DEF tentative
  <2> QED
    BY <1>1, OneMoreEdge
<1>4. OnItsPath(Advanced(run, agent, result))
  BY <1>2, <1>3 DEF Advanced
<1>5. ASSUME NEW status
      PROVE  OnItsPath([run EXCEPT !.status = status])
  <2>1. LET next == [run EXCEPT !.status = status]
        IN  /\ next.workflow_id = run.workflow_id /\ next.history = run.history
            /\ next.current_step = run.current_step
    BY DEF OnItsGraph, WorkflowRun
  <2> QED
    BY <2>1, SamePath
<1> QED
  BY <1>4, <1>5 DEF AfterOutcome

\* When one row of the table of runs is written, the others keep their paths.
LEMMA PutKeepsPaths ==
  ASSUME HistoryIsAPath, NEW r, NEW run, OnItsPath(run), runs' = Upsert(runs, r, run)
  PROVE  HistoryIsAPath'
<1>1. /\ DOMAIN runs' = DOMAIN runs \cup {r} /\ runs'[r] = run
      /\ \A q \in DOMAIN runs : q # r => runs'[q] = runs[q]
  BY DEF Upsert
<1>2. \A q \in DOMAIN runs' : OnItsPath(runs'[q])
  BY <1>1, PathsOfRuns
<1>3. HistoryIsAPath' <=> \A q \in DOMAIN runs' : OnItsPath(runs'[q])
  BY DEF HistoryIsAPath, OnItsPath
<1> QED
  BY <1>2, <1>3

LEMMA PathsKept ==
  ASSUME Inv, HistoryIsAPath, [Next]_vars
  PROVE  HistoryIsAPath'
<1>0. \A r \in DOMAIN runs : OnItsGraph(runs[r]) /\ OnItsPath(runs[r])
  BY RunType, PathsOfRuns DEF Inv
<1>1. ASSUME NEW r \in Run, NEW w \in Workflow, Start(r, w)
      PROVE  HistoryIsAPath'
  <2>1. OnItsPath(NewRun(w))
    BY EmptySeq DEF OnItsPath, NewRun
  <2> QED
    BY <1>1, <2>1, PutKeepsPaths DEF Start
<1>2. ASSUME NEW r \in Run, NEW a \in Approval, NEW expires \in BOOLEAN, OpenApproval(r, a, expires)
      PROVE  HistoryIsAPath'
  <2>1. r \in DOMAIN runs /\ runs' = Upsert(runs, r, Parked(runs[r], a))
    BY <1>2, OpenApprovalWrites
  <2>2. OnItsPath(Parked(runs[r], a))
    BY <1>0, <2>1, ParkedType, SamePath
  <2> QED
    BY <2>1, <2>2, PutKeepsPaths
<1>3. ASSUME NEW r \in Run, ResumeAfterApproval(r)
      PROVE  HistoryIsAPath'
  <2>1. PICK state : r \in DOMAIN runs /\ runs' = Upsert(runs, r, AfterDecision(runs[r], state))
    BY <1>3 DEF ResumeAfterApproval
  <2>2. OnItsPath(AfterDecision(runs[r], state))
    BY <1>0, <2>1, DecisionKeepsPath
  <2> QED
    BY <2>1, <2>2, PutKeepsPaths
<1>4. ASSUME NEW r \in Run, NEW agent \in Identity, NEW result \in {"PASS", "FAIL"},
             SubmitOutcome(r, agent, result)
      PROVE  HistoryIsAPath'
  <2>1. r \in DOMAIN runs /\ runs' = Upsert(runs, r, AfterOutcome(r, runs[r], agent, result))
    BY <1>4 DEF SubmitOutcome
  <2>2. OnItsPath(AfterOutcome(r, runs[r], agent, result))
    BY <1>0, <2>1, OutcomeKeepsPath
  <2> QED
    BY <2>1, <2>2, PutKeepsPaths
<1>5. CASE UNCHANGED runs
  BY <1>5 DEF HistoryIsAPath
<1> QED
  BY <1>1, <1>2, <1>3, <1>4, <1>5 DEF Next, Pause, Resume, vars

\* No step of a workflow is ever skipped: for any definitions and any number of
\* runs, a history is a path from the first step, and its run stands at the end.
THEOREM PathsAreFollowed == Spec => []HistoryIsAPath
<1>1. Init => HistoryIsAPath
  BY EmptyIsTable DEF Init, HistoryIsAPath
<1>2. Inv /\ HistoryIsAPath /\ [Next]_vars => HistoryIsAPath'
  BY PathsKept
<1> QED
  BY <1>1, <1>2, Invariance, PTL DEF Spec

-------------------------------------------------------------------------------
(***************************************************************************)
(* Each crossing has a grant of its own.  The count alone is not           *)
(* inductive: a grant the run still holds is one it has yet to spend, so   *)
(* the crossings of a gate are compared with the grants it does not hold.  *)
(***************************************************************************)
CrossingsOf(r, s) == {i \in Crossings(r) : runs[r].history[i].step_id = s}

\* The requests r made at s that were granted.
Grants(r, s) ==
  {a \in DOMAIN approvals :
     approvals[a].run_id = r /\ approvals[a].step_id = s /\ approvals[a].state = "APPROVED"}

Unheld(r, s) == {a \in Grants(r, s) : runs[r].pending_approval_id # a}

CrossingsAreCovered(r) == \A s : Cardinality(CrossingsOf(r, s)) <= Cardinality(Unheld(r, s))

GrantsAreSpent ==
  /\ IsFiniteSet(DOMAIN approvals)
  /\ \A r \in DOMAIN runs : CrossingsAreCovered(r)

LEMMA SetsAreFinite ==
  ASSUME Inv, NEW r \in DOMAIN runs, NEW s, IsFiniteSet(DOMAIN approvals)
  PROVE  /\ IsFiniteSet(CrossingsOf(r, s)) /\ Cardinality(CrossingsOf(r, s)) \in Nat
         /\ IsFiniteSet(Grants(r, s)) /\ Cardinality(Grants(r, s)) \in Nat
         /\ IsFiniteSet(Unheld(r, s)) /\ Cardinality(Unheld(r, s)) \in Nat
<1>1. IsFiniteSet(DOMAIN runs[r].history)
  <2>1. runs[r].history \in Seq(StepRecord)
    BY RunType DEF Inv, OnItsGraph, WorkflowRun
  <2>2. DOMAIN runs[r].history = 1 .. Len(runs[r].history) /\ Len(runs[r].history) \in Nat
    BY <2>1, LenProperties
  <2> QED
    BY <2>2, FS_Interval
<1>2. CrossingsOf(r, s) \in SUBSET (DOMAIN runs[r].history)
  BY DEF CrossingsOf, Crossings
<1>3. Grants(r, s) \in SUBSET (DOMAIN approvals) /\ Unheld(r, s) \in SUBSET (DOMAIN approvals)
  BY DEF Grants, Unheld
<1>4. IsFiniteSet(CrossingsOf(r, s))
  BY <1>1, <1>2, FS_Subset
<1>5. IsFiniteSet(Grants(r, s)) /\ IsFiniteSet(Unheld(r, s))
  BY <1>3, FS_Subset
<1> QED
  BY <1>4, <1>5, FS_CardinalityType

\* So what was crossed is covered by grants, those that are held left out.
LEMMA CoveredByGrants == Inv /\ GrantsAreSpent => EachCrossingHasItsOwnApproval
<1> SUFFICES ASSUME Inv, GrantsAreSpent, NEW r \in DOMAIN runs, NEW s
             PROVE  Cardinality(CrossingsOf(r, s)) <= Cardinality(Grants(r, s))
  BY DEF EachCrossingHasItsOwnApproval, CrossingsOf, Grants
<1>1. Cardinality(Unheld(r, s)) <= Cardinality(Grants(r, s))
  BY SetsAreFinite, FS_Subset DEF GrantsAreSpent, Unheld
<1>2. Cardinality(CrossingsOf(r, s)) <= Cardinality(Unheld(r, s))
  BY DEF GrantsAreSpent, CrossingsAreCovered
<1> QED
  BY <1>1, <1>2, SetsAreFinite DEF GrantsAreSpent

\* The table of requests stays finite: a step makes one at most.
LEMMA RequestsStayFinite ==
  ASSUME Inv, IsFiniteSet(DOMAIN approvals), [Next]_vars
  PROVE  IsFiniteSet(DOMAIN approvals')
<1>1. ASSUME NEW r \in Run, NEW a \in Approval, NEW expires \in BOOLEAN, OpenApproval(r, a, expires)
      PROVE  IsFiniteSet(DOMAIN approvals')
  <2>1. DOMAIN approvals' = DOMAIN approvals \cup {a}
    BY <1>1, OpenApprovalStep DEF Inv
  <2> QED
    BY <2>1, FS_AddElement
<1>2. ASSUME NEW r \in Run, ResumeAfterApproval(r)
      PROVE  IsFiniteSet(DOMAIN approvals')
  BY <1>2, ResumeStep DEF Inv
<1>3. CASE ApprovalNext /\ UNCHANGED <<runs, paused>>
  BY <1>3, ApprovalStep DEF Inv, TypeOK
<1>4. CASE UNCHANGED approvals
  BY <1>4
<1> QED
  BY <1>1, <1>2, <1>3, <1>4 DEF Next, Start, SubmitOutcome, Pause, Resume, vars

\* A run that crosses nothing stays covered, as long as it takes up no old request:
\* a grant is final, and what it no longer holds it does not get back.
LEMMA StaysCovered ==
  ASSUME Inv, Inv', Keeps, IsFiniteSet(DOMAIN approvals), IsFiniteSet(DOMAIN approvals'),
         NEW r \in DOMAIN runs, r \in DOMAIN runs', CrossingsAreCovered(r),
         \A s : CrossingsOf(r, s)' = CrossingsOf(r, s),
         \/ runs'[r].pending_approval_id = runs[r].pending_approval_id
         \/ runs'[r].pending_approval_id \notin DOMAIN approvals
  PROVE  CrossingsAreCovered(r)'
<1> SUFFICES ASSUME NEW s
             PROVE  Cardinality(CrossingsOf(r, s)') <= Cardinality(Unheld(r, s)')
  BY DEF CrossingsAreCovered
<1>1. Unheld(r, s) \in SUBSET Unheld(r, s)'
  BY DEF Unheld, Grants, Keeps
<1>2. IsFiniteSet(Unheld(r, s)') /\ Cardinality(Unheld(r, s)') \in Nat
  <2>1. Unheld(r, s)' \in SUBSET (DOMAIN approvals')
    BY DEF Unheld, Grants
  <2> QED
    BY <2>1, FS_Subset, FS_CardinalityType
<1>3. Cardinality(Unheld(r, s)) <= Cardinality(Unheld(r, s)')
  BY <1>1, <1>2, FS_Subset
<1>4. Cardinality(CrossingsOf(r, s)) <= Cardinality(Unheld(r, s))
  BY DEF CrossingsAreCovered
<1>5. CrossingsOf(r, s)' = CrossingsOf(r, s)
  OBVIOUS
<1> QED
  BY <1>2, <1>3, <1>4, <1>5, SetsAreFinite

\* A history that stays, or that grows by a record that is no crossing, crosses nothing.
LEMMA SameCrossings ==
  ASSUME NEW r \in DOMAIN runs, r \in DOMAIN runs', runs[r] \in WorkflowRun,
         runs'[r].workflow_id = runs[r].workflow_id,
         \/ runs'[r].history = runs[r].history
         \/ \E record \in StepRecord :
              /\ runs'[r].history = Append(runs[r].history, record)
              /\ ~(record.result = "PASS" /\ IsHumanGate(runs[r].workflow_id, record.step_id))
  PROVE  \A s : CrossingsOf(r, s)' = CrossingsOf(r, s)
<1>1. CASE runs'[r].history = runs[r].history
  BY <1>1, SamePasses DEF CrossingsOf
<1>2. ASSUME NEW record \in StepRecord,
             runs'[r].history = Append(runs[r].history, record),
             ~(record.result = "PASS" /\ IsHumanGate(runs[r].workflow_id, record.step_id))
      PROVE  \A s : CrossingsOf(r, s)' = CrossingsOf(r, s)
  <2>1. Crossings(r)' = Crossings(r)
    BY <1>2, OneMorePass
  <2>2. runs[r].history \in Seq(StepRecord) /\ DOMAIN runs[r].history = 1 .. Len(runs[r].history)
    BY LenProperties DEF WorkflowRun
  <2>3. \A i \in Crossings(r) : runs'[r].history[i] = runs[r].history[i]
    BY <1>2, <2>2, AppendProperties DEF Crossings
  <2> QED
    BY <2>1, <2>3 DEF CrossingsOf
<1> QED
  BY <1>1, <1>2

\* A run whose row is not written stays covered.
LEMMA UntouchedStaysCovered ==
  ASSUME Inv, Inv', Keeps, GrantsAreSpent, IsFiniteSet(DOMAIN approvals'),
         NEW q \in DOMAIN runs, q \in DOMAIN runs', runs'[q] = runs[q]
  PROVE  CrossingsAreCovered(q)'
<1>1. runs[q] \in WorkflowRun
  BY RunType DEF Inv, OnItsGraph
<1>2. \A s : CrossingsOf(q, s)' = CrossingsOf(q, s)
  BY <1>1, SameCrossings
<1> QED
  BY <1>2, StaysCovered DEF GrantsAreSpent

\* A granted request pays for the crossing it makes: resumeAfterApproval gives it
\* up and adds one record at the step it was made at.
LEMMA CrossingIsPaid ==
  ASSUME Inv, Inv', Keeps, GrantsAreSpent, IsFiniteSet(DOMAIN approvals'),
         NEW r \in Run, ResumeAfterApproval(r),
         approvals'[runs[r].pending_approval_id].state = "APPROVED"
  PROVE  CrossingsAreCovered(r)'
<1>0. PICK p : p = runs[r].pending_approval_id
  OBVIOUS
<1> DEFINE record == Record(runs[r], HUMAN_FOUNDER, "PASS")
           n == Len(runs[r].history) + 1
<1>1. /\ r \in DOMAIN runs /\ DOMAIN runs' = DOMAIN runs
      /\ runs'[r].workflow_id = runs[r].workflow_id
      /\ p \in DOMAIN approvals /\ DOMAIN approvals' = DOMAIN approvals
      /\ AtHumanGate(runs[r])
      /\ approvals'[p].state = "APPROVED"
      /\ Lapses(p)
      /\ \A b \in DOMAIN approvals : b # p => approvals'[b] = approvals[b]
      /\ runs'[r].pending_approval_id = None
      /\ runs'[r].history = Append(runs[r].history, record)
  BY <1>0, ResumeStep DEF Inv
<1>2. /\ p \in Approval /\ None \notin DOMAIN approvals
      /\ approvals[p].run_id = r /\ approvals[p].step_id = runs[r].current_step
      /\ approvals'[p] = approvals[p]
  <2>1. DOMAIN approvals \subseteq Approval
    BY DEF Inv, TypeOK, ApprovalTypeOK, IsTable
  <2>2. approvals'[p] = approvals[p]
    BY <1>1 DEF Lapses
  <2> QED
    BY <1>0, <1>1, <2>1, <2>2, NoneAssumption DEF Inv, WaitsForItsRequest
<1>3. runs[r] \in WorkflowRun /\ record \in StepRecord
      /\ record.result = "PASS" /\ record.step_id = runs[r].current_step
  <2>1. runs[r] \in WorkflowRun
    BY <1>1, RunType DEF Inv, OnItsGraph
  <2> QED
    BY <2>1, IdentityAssumption DEF Record, StepRecord, WorkflowRun
<1> HIDE DEF record
<1>4. n \notin Crossings(r) /\ Crossings(r)' = Crossings(r) \cup {n}
  BY <1>1, <1>3, OneMorePass DEF AtHumanGate
<1>5. /\ runs'[r].history[n] = record
      /\ \A i \in Crossings(r) : runs'[r].history[i] = runs[r].history[i]
  <2>1. runs[r].history \in Seq(StepRecord) /\ DOMAIN runs[r].history = 1 .. Len(runs[r].history)
    BY <1>3, LenProperties DEF WorkflowRun
  <2> QED
    BY <1>1, <1>3, <2>1, AppendProperties DEF Crossings
<1> HIDE DEF n
<1> SUFFICES ASSUME NEW s
             PROVE  Cardinality(CrossingsOf(r, s)') <= Cardinality(Unheld(r, s)')
  BY DEF CrossingsAreCovered
<1>6. /\ IsFiniteSet(CrossingsOf(r, s)) /\ Cardinality(CrossingsOf(r, s)) \in Nat
      /\ IsFiniteSet(Unheld(r, s)) /\ Cardinality(Unheld(r, s)) \in Nat
      /\ Cardinality(CrossingsOf(r, s)) <= Cardinality(Unheld(r, s))
  BY <1>1, SetsAreFinite DEF GrantsAreSpent, CrossingsAreCovered
<1>7. CASE s = runs[r].current_step
  <2>1. CrossingsOf(r, s)' = CrossingsOf(r, s) \cup {n} /\ n \notin CrossingsOf(r, s)
    BY <1>3, <1>4, <1>5, <1>7 DEF CrossingsOf
  <2>2. Unheld(r, s)' = Unheld(r, s) \cup {p} /\ p \notin Unheld(r, s)
    BY <1>0, <1>1, <1>2, <1>7 DEF Unheld, Grants
  <2>3. /\ Cardinality(CrossingsOf(r, s) \cup {n}) = Cardinality(CrossingsOf(r, s)) + 1
        /\ Cardinality(Unheld(r, s) \cup {p}) = Cardinality(Unheld(r, s)) + 1
    BY <1>6, <2>1, <2>2, FS_AddElement
  <2> QED
    BY <1>6, <2>1, <2>2, <2>3
<1>8. CASE s # runs[r].current_step
  <2>1. CrossingsOf(r, s)' = CrossingsOf(r, s)
    BY <1>3, <1>4, <1>5, <1>8 DEF CrossingsOf
  <2>2. Unheld(r, s)' = Unheld(r, s)
    BY <1>0, <1>1, <1>2, <1>8 DEF Unheld, Grants
  <2> QED
    BY <1>6, <2>1, <2>2
<1> QED
  BY <1>7, <1>8

\* openApproval parks one run on a new request, and adds nothing to its history.
LEMMA AskingMovesNothing ==
  ASSUME Inv, NEW r \in Run, NEW a \in Approval, NEW expires \in BOOLEAN, OpenApproval(r, a, expires)
  PROVE  /\ r \in DOMAIN runs /\ DOMAIN runs' = DOMAIN runs
         /\ \A x \in DOMAIN runs : x # r => runs'[x] = runs[x]
         /\ runs'[r].pending_approval_id = a /\ a \notin DOMAIN approvals
         /\ runs'[r].workflow_id = runs[r].workflow_id
         /\ runs'[r].history = runs[r].history
<1>1. /\ r \in DOMAIN runs /\ a \notin DOMAIN approvals
      /\ runs' = Upsert(runs, r, Parked(runs[r], a))
  BY OpenApprovalWrites
<1>2. /\ DOMAIN runs' = DOMAIN runs /\ runs'[r] = Parked(runs[r], a)
      /\ \A x \in DOMAIN runs : x # r => runs'[x] = runs[x]
  BY <1>1 DEF Upsert
<1>3. OnItsGraph(runs[r])
  BY <1>1, RunType DEF Inv
<1> QED
  BY <1>1, <1>2, <1>3, ParkedType

LEMMA GrantsKept ==
  ASSUME Inv, Inv', GrantsAreSpent, [Next]_vars
  PROVE  GrantsAreSpent'
<1>0. /\ Keeps /\ IsFiniteSet(DOMAIN approvals) /\ IsFiniteSet(DOMAIN approvals')
      /\ None \notin DOMAIN approvals
      /\ \A q \in DOMAIN runs : runs[q] \in WorkflowRun
  <2>1. Keeps /\ IsFiniteSet(DOMAIN approvals) /\ IsFiniteSet(DOMAIN approvals')
    BY EveryStepKeeps, RequestsStayFinite DEF GrantsAreSpent
  <2>2. None \notin DOMAIN approvals
    BY NoneAssumption DEF Inv, TypeOK, ApprovalTypeOK, IsTable
  <2> QED
    BY <2>1, <2>2, RunType DEF Inv, OnItsGraph
<1> SUFFICES ASSUME NEW q \in DOMAIN runs'
             PROVE  CrossingsAreCovered(q)'
  BY <1>0 DEF GrantsAreSpent
<1>1. ASSUME NEW r \in Run, NEW w \in Workflow, Start(r, w)
      PROVE  CrossingsAreCovered(q)'
  <2>1. /\ DOMAIN runs' = DOMAIN runs \cup {r} /\ runs'[r] = NewRun(w)
        /\ \A x \in DOMAIN runs : runs'[x] = runs[x]
    BY <1>1 DEF Start, Upsert
  <2>2. CASE q \in DOMAIN runs
    BY <1>0, <2>1, <2>2, UntouchedStaysCovered
  <2>3. CASE q \notin DOMAIN runs
    <3>1. Crossings(q)' = {}
      BY <2>1, <2>3 DEF Crossings, NewRun
    <3> SUFFICES ASSUME NEW s
                 PROVE  Cardinality(CrossingsOf(q, s)') <= Cardinality(Unheld(q, s)')
      BY DEF CrossingsAreCovered
    <3>2. Cardinality(CrossingsOf(q, s)') = 0
      BY <3>1, FS_EmptySet DEF CrossingsOf
    <3>3. Unheld(q, s)' \in SUBSET (DOMAIN approvals')
      BY DEF Unheld, Grants
    <3>4. Cardinality(Unheld(q, s)') \in Nat
      BY <1>0, <3>3, FS_Subset, FS_CardinalityType
    <3> QED
      BY <3>2, <3>4
  <2> QED
    BY <2>2, <2>3
<1>2. ASSUME NEW r \in Run, NEW a \in Approval, NEW expires \in BOOLEAN, OpenApproval(r, a, expires)
      PROVE  CrossingsAreCovered(q)'
  <2>1. /\ r \in DOMAIN runs /\ DOMAIN runs' = DOMAIN runs
        /\ \A x \in DOMAIN runs : x # r => runs'[x] = runs[x]
        /\ runs'[r].pending_approval_id = a /\ a \notin DOMAIN approvals
        /\ runs'[r].workflow_id = runs[r].workflow_id
        /\ runs'[r].history = runs[r].history
    BY <1>2, AskingMovesNothing
  <2>2. CASE q = r
    <3>1. \A s : CrossingsOf(r, s)' = CrossingsOf(r, s)
      BY <1>0, <2>1, SameCrossings
    <3> QED
      BY <1>0, <2>1, <2>2, <3>1, StaysCovered DEF GrantsAreSpent
  <2>3. CASE q # r
    BY <1>0, <2>1, <2>3, UntouchedStaysCovered
  <2> QED
    BY <2>2, <2>3
<1>3. ASSUME NEW r \in Run, ResumeAfterApproval(r)
      PROVE  CrossingsAreCovered(q)'
  <2>0. PICK p : p = runs[r].pending_approval_id
    OBVIOUS
  <2>1. /\ r \in DOMAIN runs /\ DOMAIN runs' = DOMAIN runs
        /\ \A x \in DOMAIN runs : x # r => runs'[x] = runs[x]
        /\ runs'[r].workflow_id = runs[r].workflow_id
        /\ approvals'[p].state = "PENDING" => runs'[r] = runs[r]
        /\ approvals'[p].state \notin {"PENDING", "APPROVED"} =>
             /\ runs'[r].pending_approval_id = None
             /\ runs'[r].history = Append(runs[r].history, Record(runs[r], HUMAN_FOUNDER, "FAIL"))
    BY <1>3, <2>0, ResumeStep DEF Inv
  <2>2. CASE q = r /\ approvals'[p].state = "APPROVED"
    BY <1>0, <1>3, <2>0, <2>2, CrossingIsPaid
  <2>3. CASE q = r /\ approvals'[p].state \notin {"PENDING", "APPROVED"}
    <3>1. /\ Record(runs[r], HUMAN_FOUNDER, "FAIL") \in StepRecord
          /\ Record(runs[r], HUMAN_FOUNDER, "FAIL").result # "PASS"
      BY <1>0, <2>1, IdentityAssumption DEF Record, StepRecord, WorkflowRun
    <3>2. \A s : CrossingsOf(r, s)' = CrossingsOf(r, s)
      BY <1>0, <2>1, <2>3, <3>1, SameCrossings
    <3> QED
      BY <1>0, <2>1, <2>3, <3>2, StaysCovered DEF GrantsAreSpent
  <2>4. CASE q # r \/ approvals'[p].state = "PENDING"
    BY <1>0, <2>1, <2>4, UntouchedStaysCovered
  <2> QED
    BY <2>2, <2>3, <2>4
<1>4. ASSUME NEW r \in Run, NEW agent \in Identity, NEW result \in {"PASS", "FAIL"},
             SubmitOutcome(r, agent, result)
      PROVE  CrossingsAreCovered(q)'
  <2> DEFINE record == Record(runs[r], agent, result)
  <2>1. /\ r \in DOMAIN runs /\ DOMAIN runs' = DOMAIN runs
        /\ \A x \in DOMAIN runs : x # r => runs'[x] = runs[x]
        /\ ~AtHumanGate(runs[r])
        /\ runs'[r].workflow_id = runs[r].workflow_id
        /\ \/ /\ runs'[r].history = runs[r].history
              /\ runs'[r].pending_approval_id = runs[r].pending_approval_id
           \/ /\ runs'[r].history = Append(runs[r].history, record)
              /\ runs'[r].pending_approval_id = None
    BY <1>4, SubmitStep DEF Inv
  <2>2. CASE q = r
    <3>1. /\ record \in StepRecord
          /\ ~IsHumanGate(runs[r].workflow_id, record.step_id)
      BY <1>0, <2>1 DEF Record, StepRecord, WorkflowRun, AtHumanGate
    <3> HIDE DEF record
    <3>2. \A s : CrossingsOf(r, s)' = CrossingsOf(r, s)
      BY <1>0, <2>1, <3>1, SameCrossings
    <3> QED
      BY <1>0, <2>1, <2>2, <3>2, StaysCovered DEF GrantsAreSpent
  <2>3. CASE q # r
    BY <1>0, <2>1, <2>3, UntouchedStaysCovered
  <2> QED
    BY <2>2, <2>3
<1>5. CASE UNCHANGED runs
  BY <1>0, <1>5, UntouchedStaysCovered
<1> QED
  BY <1>1, <1>2, <1>3, <1>4, <1>5 DEF Next, Pause, Resume, vars

\* One grant opens one gate once: for any definitions, and any number of runs and
\* requests, a run has passed a gate no more often than the founder has approved
\* requests it made there.
THEOREM GrantsAreUsedOnce == Spec => []EachCrossingHasItsOwnApproval
<1>1. Init => GrantsAreSpent
  <2> SUFFICES ASSUME Init PROVE GrantsAreSpent
    OBVIOUS
  <2>1. DOMAIN approvals = {} /\ DOMAIN runs = {}
    BY EmptyIsTable DEF Init, ApprovalInit
  <2> QED
    BY <2>1, FS_EmptySet DEF GrantsAreSpent
<1>2. Inv /\ Inv' /\ GrantsAreSpent /\ [Next]_vars => GrantsAreSpent'
  BY GrantsKept
<1>3. Spec => []GrantsAreSpent
  BY <1>1, <1>2, Invariance, PTL DEF Spec
<1> QED
  BY <1>3, CoveredByGrants, Invariance, PTL

-------------------------------------------------------------------------------
(***************************************************************************)
(* What reaches PRODUCTION has been reviewed.  Each implementation in a    *)
(* history has a review behind it, or its run stands among the steps that  *)
(* no review leads to, where there is no PRODUCTION.                       *)
(***************************************************************************)
HasReview(w) == \E s \in DOMAIN Def[w].steps : IsReviewStep(s)

\* Record k of the history h is a review that passed, by somebody who had no part in
\* an implementation until then.
IndependentReview(h, k) ==
  /\ IsReviewStep(h[k].step_id)
  /\ h[k].result = "PASS"
  /\ \A l \in 1 .. k : IsImplementStep(h[l].step_id) => h[l].owner # h[k].owner

ReviewedBetween(h, i, j) == \E k \in i + 1 .. j - 1 : IndependentReview(h, k)

OnReview(run, unreviewed) ==
  LET w == run.workflow_id
      h == run.history
  IN  HasReview(w) =>
        \A i \in DOMAIN h : IsImplementStep(h[i].step_id) =>
          /\ ReviewedBetween(h, i, Len(h) + 1) \/ run.current_step \in unreviewed[w]
          /\ \A j \in DOMAIN h :
               i < j /\ Def[w].steps[h[j].step_id].project_state = "PRODUCTION" =>
                 ReviewedBetween(h, i, j)

RunsOnReview(unreviewed) == \A r \in DOMAIN runs : OnReview(runs[r], unreviewed)

LEMMA ImplementersFound ==
  ASSUME NEW run, NEW l \in DOMAIN run.history, IsImplementStep(run.history[l].step_id)
  PROVE  run.history[l].owner \in Implementers(run)
<1>1. PICK found : found = {j \in DOMAIN run.history : IsImplementStep(run.history[j].step_id)}
  OBVIOUS
<1>2. Implementers(run) = {run.history[i].owner : i \in found}
  BY <1>1 DEF Implementers
<1> QED
  BY <1>1, <1>2, Zenon

\* A review that passes by somebody who is none of the implementers so far.
LEMMA ReviewIsIndependent ==
  ASSUME NEW run, NEW m \in Nat \ {0}, DOMAIN run.history = 1 .. m - 1,
         NEW g, \A i \in 1 .. m - 1 : g[i] = run.history[i],
         IsReviewStep(g[m].step_id), g[m].result = "PASS", g[m].owner \notin Implementers(run)
  PROVE  IndependentReview(g, m)
<1> SUFFICES ASSUME NEW l \in 1 .. m, IsImplementStep(g[l].step_id)
             PROVE  g[l].owner # g[m].owner
  BY DEF IndependentReview
<1>1. l # m
  BY DEF IsReviewStep, IsImplementStep
<1>2. l \in DOMAIN run.history /\ g[l] = run.history[l]
  BY <1>1
<1> QED
  BY <1>2, ImplementersFound

LEMMA OneMoreReviewed ==
  ASSUME NEW unreviewed, KeepsReviews(unreviewed),
         NEW run, OnItsGraph(run), OnReview(run, unreviewed),
         NEW record \in StepRecord, record.step_id = run.current_step,
         IsReviewStep(run.current_step) => record.owner \notin Implementers(run),
         NEW next, next.workflow_id = run.workflow_id,
         next.history = Append(run.history, record),
         next.current_step = StandsAfter(run.workflow_id, record)
  PROVE  OnReview(next, unreviewed)
<1>1. PICK w, h, g, m : /\ w = run.workflow_id /\ h = run.history /\ g = next.history
                        /\ m = Len(h) + 1
  OBVIOUS
<1>2. h \in Seq(StepRecord) /\ Len(h) \in Nat /\ DOMAIN h = 1 .. Len(h)
  BY <1>1, LenProperties DEF OnItsGraph, WorkflowRun
<1>3. /\ m \in Nat \ {0} /\ Len(h) = m - 1 /\ DOMAIN h = 1 .. m - 1
      /\ Len(g) = m /\ DOMAIN g = 1 .. m /\ g[m] = record
      /\ \A i \in 1 .. m - 1 : g[i] = h[i]
  BY <1>1, <1>2, AppendProperties
<1>4. \A i, j \in Nat : j <= m /\ ReviewedBetween(h, i, j) => ReviewedBetween(g, i, j)
  <2> SUFFICES ASSUME NEW i \in Nat, NEW j \in Nat, j <= m,
                      NEW k \in i + 1 .. j - 1, IndependentReview(h, k)
               PROVE  IndependentReview(g, k)
    BY DEF ReviewedBetween
  <2>1. k \in 1 .. m - 1 /\ \A l \in 1 .. k : l \in 1 .. m - 1
    BY <1>3
  <2> QED
    BY <1>3, <2>1 DEF IndependentReview
<1>5. \A i \in Nat : ReviewedBetween(g, i, m) => ReviewedBetween(g, i, m + 1)
  BY <1>3 DEF ReviewedBetween
<1>6. \A i \in 1 .. m - 1 : IndependentReview(g, m) => ReviewedBetween(g, i, m + 1)
  <2> SUFFICES ASSUME NEW i \in 1 .. m - 1, IndependentReview(g, m)
               PROVE  ReviewedBetween(g, i, m + 1)
    OBVIOUS
  <2>1. m \in i + 1 .. (m + 1) - 1
    BY <1>3
  <2> QED
    BY <2>1 DEF ReviewedBetween
<1>7. IsReviewStep(run.current_step) /\ record.result = "PASS" => IndependentReview(g, m)
  <2>1. DOMAIN run.history = 1 .. m - 1 /\ \A i \in 1 .. m - 1 : g[i] = run.history[i]
    BY <1>1, <1>3, SMTT(30)
  <2> QED
    BY <1>3, <2>1, ReviewIsIndependent
<1>8. SUFFICES ASSUME HasReview(w), NEW i \in 1 .. m, IsImplementStep(g[i].step_id)
               PROVE  /\ ReviewedBetween(g, i, m + 1) \/ next.current_step \in unreviewed[w]
                      /\ \A j \in 1 .. m :
                           i < j /\ Def[w].steps[g[j].step_id].project_state = "PRODUCTION" =>
                             ReviewedBetween(g, i, j)
  BY <1>1, <1>3 DEF OnReview
<1>9. /\ \A s \in DOMAIN Def[w].steps, result \in {"PASS", "FAIL"} :
           IsImplementStep(s) \/ (s \in unreviewed[w] /\ ~(IsReviewStep(s) /\ result = "PASS"))
           => StandsAfter(w, [step_id |-> s, result |-> result]) \in unreviewed[w]
      /\ \A s \in unreviewed[w] : Def[w].steps[s].project_state # "PRODUCTION"
  BY <1>1, <1>8 DEF KeepsReviews, HasReview, OnItsGraph, WorkflowRun
<1>10. \/ IsImplementStep(run.current_step)
       \/ run.current_step \in unreviewed[w] /\ ~(IsReviewStep(run.current_step) /\ record.result = "PASS")
       => next.current_step \in unreviewed[w]
  <2>1. /\ run.current_step \in DOMAIN Def[w].steps /\ record.result \in {"PASS", "FAIL"}
        /\ StandsAfter(w, record)
             = StandsAfter(w, [step_id |-> run.current_step, result |-> record.result])
    BY <1>1 DEF OnItsGraph, StepRecord, StandsAfter, TargetOf
  <2> QED
    BY <1>1, <1>9, <2>1
<1>11. CASE i = m
  BY <1>3, <1>8, <1>10, <1>11
<1>12. CASE i # m
  <2>1. i \in DOMAIN h /\ i \in 1 .. m - 1 /\ IsImplementStep(h[i].step_id)
    BY <1>3, <1>8, <1>12
  <2>2. /\ ReviewedBetween(h, i, m) \/ run.current_step \in unreviewed[w]
        /\ \A j \in DOMAIN h :
             i < j /\ Def[w].steps[h[j].step_id].project_state = "PRODUCTION" =>
               ReviewedBetween(h, i, j)
    BY <1>1, <1>8, <2>1 DEF OnReview
  <2>3. ReviewedBetween(g, i, m + 1) \/ next.current_step \in unreviewed[w]
    BY <1>3, <1>4, <1>5, <1>6, <1>7, <1>10, <2>1, <2>2, SMTT(30)
  <2>4. ASSUME NEW j \in 1 .. m, i < j, Def[w].steps[g[j].step_id].project_state = "PRODUCTION"
        PROVE  ReviewedBetween(g, i, j)
    <3>1. CASE j = m
      <4>1. run.current_step \notin unreviewed[w]
        BY <1>3, <1>9, <2>4, <3>1
      <4> QED
        BY <1>3, <1>4, <2>1, <2>2, <3>1, <4>1
    <3>2. CASE j # m
      <4>1. j \in DOMAIN h /\ g[j] = h[j] /\ j <= m
        BY <1>3, <3>2
      <4> QED
        BY <1>3, <1>4, <2>1, <2>2, <2>4, <4>1
    <3> QED
      BY <3>1, <3>2
  <2> QED
    BY <2>3, <2>4
<1> QED
  BY <1>11, <1>12

\* What leaves a run where it stands leaves its reviews.
LEMMA SameReviews ==
  ASSUME NEW unreviewed, NEW run, OnReview(run, unreviewed), NEW next,
         next.workflow_id = run.workflow_id, next.history = run.history,
         next.current_step = run.current_step
  PROVE  OnReview(next, unreviewed)
  BY DEF OnReview

\* A run that stands on its path stands where its last record sent it.
LEMMA StandsOnPath ==
  ASSUME NEW run, OnItsGraph(run), NEW record, NEW next, OnItsPath(next),
         next.workflow_id = run.workflow_id, next.history = Append(run.history, record),
         record \in StepRecord
  PROVE  next.current_step = StandsAfter(run.workflow_id, record)
<1>1. run.history \in Seq(StepRecord)
  BY DEF OnItsGraph, WorkflowRun
<1>2. next.history # <<>> /\ next.history[Len(next.history)] = record
  BY <1>1, AppendProperties
<1> QED
  BY <1>2 DEF OnItsPath


\* When one row of the table of runs is written, the others keep their reviews.
LEMMA PutKeepsReviews ==
  ASSUME NEW unreviewed, RunsOnReview(unreviewed), NEW r, NEW run, OnReview(run, unreviewed),
         runs' = Upsert(runs, r, run)
  PROVE  \A q \in DOMAIN runs' : OnReview(runs'[q], unreviewed)
<1>1. /\ DOMAIN runs' = DOMAIN runs \cup {r} /\ runs'[r] = run
      /\ \A q \in DOMAIN runs : q # r => runs'[q] = runs[q]
  BY DEF Upsert
<1> QED
  BY <1>1 DEF RunsOnReview

\* The founder's decision is about a gate, which is no review.
LEMMA DecisionKeepsReviews ==
  ASSUME NEW unreviewed, KeepsReviews(unreviewed),
         NEW run, OnItsGraph(run), OnItsPath(run), OnReview(run, unreviewed),
         AtHumanGate(run), NEW state
  PROVE  OnReview(AfterDecision(run, state), unreviewed)
<1>1. PICK next, record : /\ next = AfterDecision(run, state)
                          /\ record = Record(run, HUMAN_FOUNDER, IF state = "APPROVED" THEN "PASS" ELSE "FAIL")
  OBVIOUS
<1>2. OnItsPath(next)
  BY <1>1, DecisionKeepsPath
<1>3. /\ next.workflow_id = run.workflow_id
      /\ state = "PENDING" => next = run
      /\ state # "PENDING" => next.history = Append(run.history, record)
  BY <1>1, AfterDecisionType
<1>4. record \in StepRecord /\ record.step_id = run.current_step
  BY <1>1, IdentityAssumption DEF Record, StepRecord, OnItsGraph, WorkflowRun
<1>5. ~IsReviewStep(run.current_step)
  BY DEF KeepsReviews, AtHumanGate, OnItsGraph, WorkflowRun
<1>6. CASE state = "PENDING"
  BY <1>1, <1>3, <1>6
<1>7. CASE state # "PENDING"
  <2>1. next.current_step = StandsAfter(run.workflow_id, record)
    BY <1>2, <1>3, <1>4, <1>7, StandsOnPath
  <2> QED
    BY <1>1, <1>3, <1>4, <1>5, <1>7, <2>1, OneMoreReviewed
<1> QED
  BY <1>6, <1>7

\* An outcome is a review only if its author implemented nothing.
LEMMA OutcomeKeepsReviews ==
  ASSUME NEW unreviewed, KeepsReviews(unreviewed), NEW r,
         NEW run, OnItsGraph(run), OnItsPath(run), OnReview(run, unreviewed),
         NEW agent \in Identity, NEW result \in {"PASS", "FAIL"}, MaySubmit(run, agent)
  PROVE  OnReview(AfterOutcome(r, run, agent, result), unreviewed)
<1>1. PICK next, record : /\ next = AfterOutcome(r, run, agent, result)
                          /\ record = Record(run, agent, result)
  OBVIOUS
<1>2. OnItsPath(next)
  BY <1>1, OutcomeKeepsPath
<1>3. /\ next.workflow_id = run.workflow_id
      /\ \/ next.history = run.history /\ next.current_step = run.current_step
         \/ next.history = Append(run.history, record)
  <2> DEFINE after == AfterOutcome(r, run, agent, result)
  <2>1. /\ after.workflow_id = run.workflow_id
        /\ \/ /\ after.status \in {"PAUSED", "BLOCKED"}
              /\ after.history = run.history
              /\ after.current_step = run.current_step
              /\ after.pending_approval_id = run.pending_approval_id
           \/ /\ after.status # "APPROVAL_REQUIRED"
              /\ after.history = Append(run.history, Record(run, agent, result))
              /\ after.pending_approval_id = None
              /\ ~LacksApproval(r, run, result)
    BY AfterOutcomeType, ZenonT(40)
  <2> QED
    BY <1>1, <2>1
<1>4. /\ record \in StepRecord /\ record.step_id = run.current_step
      /\ IsReviewStep(run.current_step) => record.owner \notin Implementers(run)
  BY <1>1 DEF Record, StepRecord, OnItsGraph, WorkflowRun, MaySubmit
<1>5. CASE next.history = run.history /\ next.current_step = run.current_step
  BY <1>1, <1>3, <1>5, SameReviews
<1>6. CASE next.history = Append(run.history, record)
  <2>1. next.current_step = StandsAfter(run.workflow_id, record)
    BY <1>2, <1>3, <1>4, <1>6, StandsOnPath
  <2> QED
    BY <1>1, <1>3, <1>4, <1>6, <2>1, OneMoreReviewed
<1> QED
  BY <1>3, <1>5, <1>6

LEMMA ReviewsKept ==
  ASSUME NEW unreviewed, KeepsReviews(unreviewed),
         Inv, HistoryIsAPath, RunsOnReview(unreviewed), [Next]_vars
  PROVE  \A q \in DOMAIN runs' : OnReview(runs'[q], unreviewed)
<1>0. \A r \in DOMAIN runs :
        OnItsGraph(runs[r]) /\ OnItsPath(runs[r]) /\ OnReview(runs[r], unreviewed)
  BY RunType, PathsOfRuns DEF Inv, RunsOnReview
<1>1. ASSUME NEW r \in Run, NEW w \in Workflow, Start(r, w)
      PROVE  \A q \in DOMAIN runs' : OnReview(runs'[q], unreviewed)
  <2>1. OnReview(NewRun(w), unreviewed)
    BY EmptySeq DEF OnReview, NewRun
  <2> QED
    BY <1>1, <2>1, PutKeepsReviews DEF Start
<1>2. ASSUME NEW r \in Run, NEW a \in Approval, NEW expires \in BOOLEAN, OpenApproval(r, a, expires)
      PROVE  \A q \in DOMAIN runs' : OnReview(runs'[q], unreviewed)
  <2>1. r \in DOMAIN runs /\ runs' = Upsert(runs, r, Parked(runs[r], a))
    BY <1>2, OpenApprovalWrites
  <2>2. OnReview(Parked(runs[r], a), unreviewed)
    BY <1>0, <2>1, ParkedType, SameReviews
  <2> QED
    BY <2>1, <2>2, PutKeepsReviews
<1>3. ASSUME NEW r \in Run, ResumeAfterApproval(r)
      PROVE  \A q \in DOMAIN runs' : OnReview(runs'[q], unreviewed)
  <2>1. PICK state : r \in DOMAIN runs /\ runs' = Upsert(runs, r, AfterDecision(runs[r], state))
    BY <1>3 DEF ResumeAfterApproval
  <2>2. AtHumanGate(runs[r])
    BY <1>3 DEF ResumeAfterApproval, Inv, WaitsForItsRequest
  <2>3. OnReview(AfterDecision(runs[r], state), unreviewed)
    BY <1>0, <2>1, <2>2, DecisionKeepsReviews
  <2> QED
    BY <2>1, <2>3, PutKeepsReviews
<1>4. ASSUME NEW r \in Run, NEW agent \in Identity, NEW result \in {"PASS", "FAIL"},
             SubmitOutcome(r, agent, result)
      PROVE  \A q \in DOMAIN runs' : OnReview(runs'[q], unreviewed)
  <2>1. /\ r \in DOMAIN runs /\ MaySubmit(runs[r], agent)
        /\ runs' = Upsert(runs, r, AfterOutcome(r, runs[r], agent, result))
    BY <1>4 DEF SubmitOutcome
  <2>2. OnReview(AfterOutcome(r, runs[r], agent, result), unreviewed)
    BY <1>0, <2>1, OutcomeKeepsReviews
  <2> QED
    BY <2>1, <2>2, PutKeepsReviews
<1>5. CASE UNCHANGED runs
  BY <1>0, <1>5
<1> QED
  BY <1>1, <1>2, <1>3, <1>4, <1>5 DEF Next, Pause, Resume, vars

LEMMA ReviewedOnTheWay ==
  ASSUME NEW unreviewed, RunsOnReview(unreviewed)
  PROVE  ProductionIsReviewed
  BY DEF ProductionIsReviewed, RunsOnReview, OnReview, HasReview, ReviewedBetween, IndependentReview

\* What reaches PRODUCTION has been reviewed since it was last implemented, by
\* somebody who had no part in it: of any definitions that keep their reviews, as
\* the shipped ones do, and of any number of runs driven by anybody.
THEOREM ProductionFollowsReview ==
  ASSUME NEW CONSTANT unreviewed, KeepsReviews(unreviewed)
  PROVE  Spec => []ProductionIsReviewed
<1>1. Init => RunsOnReview(unreviewed)
  BY EmptyIsTable, SMTT(30) DEF Init, RunsOnReview
<1>2. Inv /\ HistoryIsAPath /\ RunsOnReview(unreviewed) /\ [Next]_vars => RunsOnReview(unreviewed)'
  BY ReviewsKept, ZenonT(30) DEF RunsOnReview, OnReview
<1>3. RunsOnReview(unreviewed) => ProductionIsReviewed
  BY ReviewedOnTheWay
<1> QED
  BY <1>1, <1>2, <1>3, Invariance, PathsAreFollowed, PTL DEF Spec
===============================================================================
