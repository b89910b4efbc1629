---------------------------- MODULE WorkflowSafety ----------------------------
(***************************************************************************)
(* What makes the gated state machine of WorkflowEngine correct, whoever   *)
(* drives it.                                                              *)
(***************************************************************************)
EXTENDS WorkflowEngine

\* The edge of workflow w that record h was sent along.
TargetOf(w, h) ==
  IF h.result = "PASS" THEN Def[w].steps[h.step_id].on_pass
                       ELSE Def[w].steps[h.step_id].on_fail

\* The places of r's history where it passed a human_approval step.
Crossings(r) ==
  {i \in DOMAIN runs[r].history :
     /\ runs[r].history[i].result = "PASS"
     /\ IsHumanGate(runs[r].workflow_id, runs[r].history[i].step_id)}

\* The places where it passed an ordinary step that needs the founder's authority.
Deliveries(r) ==
  {i \in DOMAIN runs[r].history :
     /\ runs[r].history[i].result = "PASS"
     /\ ~IsHumanGate(runs[r].workflow_id, runs[r].history[i].step_id)
     /\ NeedsApproval(runs[r].workflow_id, runs[r].history[i].step_id)}

-------------------------------------------------------------------------------
\* A run that has passed a human_approval step, or a step that is RISK 5,
\* PRODUCTION or the founder's own, has an approval the founder granted to this
\* very run (runHasApproval, submitOutcome and resumeAfterApproval together).
GatedPassesAreApproved ==
  \A r \in DOMAIN runs :
    Crossings(r) \cup Deliveries(r) # {} => RunHasApproval(r)

\* One grant opens one gate once: a run has passed a gate no more often than the
\* founder has approved requests it made at that gate, so a loop back through
\* the gate is asked again (openApproval, and transition forgetting the request).
EachCrossingHasItsOwnApproval ==
  \A r \in DOMAIN runs :
    \A s \in {runs[r].history[i].step_id : i \in Crossings(r)} :
      Cardinality({i \in Crossings(r) : runs[r].history[i].step_id = s})
        <= Cardinality({a \in DOMAIN approvals :
                          /\ approvals[a].run_id = r
                          /\ approvals[a].step_id = s
                          /\ approvals[a].state = "APPROVED"})

\* What the founder finds PENDING is what a parked run is waiting for, at the
\* step where it waits: no request is orphaned, none is answered in vain, and a
\* run never has two (openApproval, resumeAfterApproval, transition).
EveryPendingRequestIsAwaited ==
  \A a \in DOMAIN approvals :
    approvals[a].state = "PENDING" =>
      LET r == approvals[a].run_id
      IN  /\ r \in DOMAIN runs
          /\ runs[r].pending_approval_id = a
          /\ runs[r].status = "APPROVAL_REQUIRED"
          /\ runs[r].current_step = approvals[a].step_id

\* Nobody but the founder decides, and never what the founder asked for
\* (decide's two refusals, against requested_by taken from the run's history).
DecisionsComeFromTheFounder ==
  \A a \in DOMAIN approvals :
    IF approvals[a].state \in Decision
    THEN approvals[a].decided_by = HUMAN_FOUNDER /\ approvals[a].requested_by # HUMAN_FOUNDER
    ELSE approvals[a].decided_by = None

\* Where a run whose last record is h stands: at the step h was sent to or, if
\* that is a terminal, parked at the step h is about.
StandsAfter(w, h) ==
  IF TargetOf(w, h) \in TERMINALS THEN h.step_id ELSE TargetOf(w, h)

\* The history of a run is a path of its workflow from the first step, one edge
\* per record, and the run stands at its end (transition, pushHistory). So no
\* step is skipped, and what holds of the graph's paths holds of every run.
HistoryIsAPath ==
  \A r \in DOMAIN runs :
    LET w == runs[r].workflow_id
        h == runs[r].history
    IN  /\ h = <<>> => runs[r].current_step = Def[w].first
        /\ h # <<>> => h[1].step_id = Def[w].first
        /\ h # <<>> => runs[r].current_step = StandsAfter(w, h[Len(h)])
        /\ \A i \in 1 .. Len(h) - 1 : h[i + 1].step_id = StandsAfter(w, h[i])

\* In a workflow with a review step, whatever reaches PRODUCTION has been
\* reviewed since it was last implemented, by somebody who had no part in
\* implementing it (the on_fail edges lead back through the review, and
\* submitOutcome's independence rule looks at the whole history).
ProductionIsReviewed ==
  \A r \in DOMAIN runs :
    LET w == runs[r].workflow_id
        h == runs[r].history
    IN  (\E s \in DOMAIN Def[w].steps : IsReviewStep(s)) =>
          \A i, j \in DOMAIN h :
            /\ i < j
            /\ IsImplementStep(h[i].step_id)
            /\ Def[w].steps[h[j].step_id].project_state = "PRODUCTION"
            => \E k \in i + 1 .. j - 1 :
                 /\ IsReviewStep(h[k].step_id)
                 /\ h[k].result = "PASS"
                 /\ \A l \in 1 .. k : IsImplementStep(h[l].step_id) => h[l].owner # h[k].owner

\* What ProductionIsReviewed asks of the definitions with a review step: from an
\* implementation a run comes to the steps `unreviewed`, stays among them until a
\* review passes, and none of them is PRODUCTION; and no review is the founder's gate.
KeepsReviews(unreviewed) ==
  \A w \in Workflow :
    (\E s \in DOMAIN Def[w].steps : IsReviewStep(s)) =>
      /\ \A s \in DOMAIN Def[w].steps : IsReviewStep(s) => ~IsHumanGate(w, s)
      /\ \A s \in DOMAIN Def[w].steps, result \in {"PASS", "FAIL"} :
           \/ IsImplementStep(s)
           \/ s \in unreviewed[w] /\ ~(IsReviewStep(s) /\ result = "PASS")
           => StandsAfter(w, [step_id |-> s, result |-> result]) \in unreviewed[w]
      /\ \A s \in unreviewed[w] : Def[w].steps[s].project_state # "PRODUCTION"

\* What docs/workflows.md says of a release and the CLI's help of every task: if
\* every check passes, what comes next is the founder's approval. So no run that
\* has only passed its steps is BLOCKED on the way to its first human gate.
PassingChecksReachTheFounder ==
  \A r \in DOMAIN runs :
    /\ runs[r].status = "BLOCKED"
    /\ \A i \in DOMAIN runs[r].history : runs[r].history[i].result = "PASS"
    => Crossings(r) # {}

-------------------------------------------------------------------------------
Halted(run) == run.status \notin {"RUNNING", "APPROVAL_REQUIRED"}

\* A decided, expired or withdrawn request is never changed again.
DecisionsAreFinal ==
  [][\A a \in DOMAIN approvals :
       approvals[a].state # "PENDING" => approvals'[a] = approvals[a]]_vars

\* A run that has ended, is blocked or is paused goes nowhere by itself: the only
\* thing anyone can make of it is to ask the founder anew, when it happens to
\* stand at a human gate (openApproval does not look at the status).
HaltedRunsOnlyAskAgain ==
  [][\A r \in DOMAIN runs :
       Halted(runs[r]) /\ runs'[r] # runs[r] =>
         /\ AtHumanGate(runs[r])
         /\ runs'[r].status = "APPROVAL_REQUIRED"
         /\ runs'[r].pending_approval_id \notin DOMAIN approvals
         /\ runs'[r].history = runs[r].history]_vars

-------------------------------------------------------------------------------
\* The engine as an implementation of HumanGate. A grant is spent once the run
\* it was made to no longer waits for it.
VerdictOf(a) ==
  CASE approvals[a].state = "PENDING"  -> "open"
    [] approvals[a].state = "APPROVED" ->
         IF runs[approvals[a].run_id].pending_approval_id = a THEN "granted" ELSE "spent"
    [] OTHER -> "refused"

Promise == INSTANCE HumanGate WITH
  request <- [a \in DOMAIN approvals |->
                [run |-> approvals[a].run_id, verdict |-> VerdictOf(a)]],
  crossed <- [r \in DOMAIN runs |-> Crossings(r)],
  shipped <- [r \in DOMAIN runs |-> Deliveries(r)]

\* The engine, the approval engine and the pause flag together keep the promise
\* HumanGate makes.
ImplementsHumanGate == Promise!GateSpec
===============================================================================
