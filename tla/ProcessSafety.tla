----------------------------- MODULE ProcessSafety -----------------------------
(***************************************************************************)
(* What several CLI processes keep of the engine's promises when they      *)
(* interleave, are killed and meet the kill switch, and what they must     *)
(* eventually do.                                                          *)
(***************************************************************************)
EXTENDS OrchestratorProcesses

ProcTypeOK ==
  /\ TypeOK
  /\ IsTable(tasks, Run, TaskStatus)
  /\ DOMAIN runs \subseteq DOMAIN tasks
  /\ pc \in [Proc -> Control]
  /\ granted \subseteq DOMAIN approvals
  /\ crashes \in 0 .. MaxCrash

\* Whatever the processes do to each other's writes, a run has passed a gate or
\* an authorized step only after a request of this very run had been stored as
\* APPROVED: the grant precedes the passage, even if a later write has replaced
\* the row since (decide, resumeAfterApproval, submitOutcome).
FounderBehindEveryPass ==
  \A r \in DOMAIN runs :
    Crossings(r) \cup Deliveries(r) # {} =>
      \E a \in granted : approvals[a].run_id = r

\* A parked run can be decided on: the request it waits for is there, is its
\* own, and is about the gate where it stands, whenever a process was killed
\* between the two writes of openApproval.
ParkedRunsHoldTheirRequest ==
  \A r \in DOMAIN runs :
    runs[r].status = "APPROVAL_REQUIRED" =>
      LET a == runs[r].pending_approval_id
      IN  /\ a \in DOMAIN approvals
          /\ approvals[a].run_id = r
          /\ approvals[a].step_id = runs[r].current_step

-------------------------------------------------------------------------------
\* No process was killed, the runtime was not paused, and there are ids left.
Undisturbed == crashes = 0 /\ ~paused /\ DOMAIN approvals # Approval

Running(r) == r \in DOMAIN runs /\ runs[r].status = "RUNNING"

WaitsThoughDecided(r) ==
  /\ r \in DOMAIN runs
  /\ runs[r].pending_approval_id \in DOMAIN approvals
  /\ approvals[runs[r].pending_approval_id].state # "PENDING"

\* As long as nothing disturbs it, a run that is started gets to a gate or to
\* its end: nobody needs to push it (drive's loop). Racing processes may end
\* each other with an exception, but never both.
RunsGetSomewhere ==
  [](Undisturbed) =>
    \A r \in Run : Running(r) ~> ~Running(r)

\* A decided request takes effect even if the process that decided it is killed
\* before it resumes the run, or the run is parked only after the decision: the
\* run stops waiting for it, once the operator uses `approvals resume`.
DecisionsTakeEffect ==
  \A r \in Run : WaitsThoughDecided(r) ~> ~WaitsThoughDecided(r)
===============================================================================
