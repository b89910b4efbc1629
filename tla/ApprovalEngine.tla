---------------------------- MODULE ApprovalEngine ----------------------------
(***************************************************************************)
(* The Human Approval Engine (runtime/src/approvals/approval-engine.ts).   *)
(*                                                                         *)
(* One action per public method. A call that throws before it writes       *)
(* leaves the store as it was, so it is no step of the model; a call that  *)
(* first records a lazy expiry and then throws is a step that only expires *)
(* the request. The clock is abstracted to the set of requests whose       *)
(* expires_at has passed: that is all expireIfDue asks of it.              *)
(***************************************************************************)
EXTENDS StateStore

CONSTANTS Approval,   \* the ids a request can be given
          Run,        \* the ids a workflow run can be given
          StepId,     \* the ids of workflow steps
          Identity,   \* agent ids, the founder, the system
          Approver,   \* those who call approve or reject
          None        \* null

HUMAN_FOUNDER == "human-founder"
SYSTEM == "system"

ASSUME IdentityAssumption == {HUMAN_FOUNDER, SYSTEM} \subseteq Identity
ASSUME ApproverAssumption == Approver \subseteq Identity
ASSUME NoneAssumption == None \notin Approval /\ None \notin Identity

VARIABLES approvals,  \* the approvals table
          due         \* ids of the requests whose expires_at lies in the past

approvalVars == <<approvals, due>>

ApprovalState == {"PENDING", "APPROVED", "REJECTED", "EXPIRED", "CANCELLED"}
Decision == {"APPROVED", "REJECTED"}

CriticalAction == {"production_deployment", "production_database_migration",
                   "critical_security_architecture_change"}

ApprovalRequest ==
  [run_id : Run, step_id : StepId, requested_by : Identity,
   requested_action : CriticalAction, state : ApprovalState,
   decided_by : Identity \cup {None}, expires : BOOLEAN]

ApprovalTypeOK ==
  /\ IsTable(approvals, Approval, ApprovalRequest)
  /\ due \subseteq Approval

ApprovalInit ==
  /\ approvals = EmptyTable
  /\ due = {}

-------------------------------------------------------------------------------
\* The row a read of a returns and stores: a PENDING request past its expires_at
\* is turned into an EXPIRED one by whoever looks at it first.
ExpireIfDue(a) ==
  IF approvals[a].state = "PENDING" /\ approvals[a].expires /\ a \in due
  THEN [approvals[a] EXCEPT !.state = "EXPIRED"]
  ELSE approvals[a]

\* request(): the row of a new PENDING request; `expires` says it has a TTL.
NewRequest(r, s, by, action, expires) ==
  [run_id |-> r, step_id |-> s, requested_by |-> by,
   requested_action |-> action, state |-> "PENDING",
   decided_by |-> None, expires |-> expires]

\* Fault: a founder may decide what was asked in the founder's own name.
MayDecideOwnRequest(approver, req) ==
  /\ approver = HUMAN_FOUNDER
  /\ req.state = "PENDING"

\* Fault: a decision is taken without a look at the state of the request.
MayDecideAgain(approver, req) ==
  /\ approver = HUMAN_FOUNDER
  /\ req.requested_by # HUMAN_FOUNDER

\* decide() writes its decision only for the Human Founder, on a request that
\* somebody else made and that is still PENDING when read.
MayDecide(approver, req) ==
  /\ approver = HUMAN_FOUNDER
  /\ req.requested_by # HUMAN_FOUNDER
  /\ req.state = "PENDING"

Decided(req, to) ==
  [req EXCEPT !.state = to, !.decided_by = HUMAN_FOUNDER]

-------------------------------------------------------------------------------
\* get(), list(): nothing but the lazy expiry.
ReadApproval(a) ==
  /\ a \in DOMAIN approvals
  /\ approvals' = Upsert(approvals, a, ExpireIfDue(a))
  /\ UNCHANGED due

\* approve(id, approver) and reject(id, approver).
Decide(a, approver, to) ==
  /\ a \in DOMAIN approvals
  /\ LET req == ExpireIfDue(a)
     IN  approvals' = Upsert(approvals, a,
                        IF MayDecide(approver, req) THEN Decided(req, to) ELSE req)
  /\ UNCHANGED due

\* cancel(id): anybody may withdraw a request that is still PENDING.
Cancel(a) ==
  /\ a \in DOMAIN approvals
  /\ LET req == ExpireIfDue(a)
     IN  approvals' = Upsert(approvals, a,
                        IF req.state = "PENDING"
                        THEN [req EXCEPT !.state = "CANCELLED"] ELSE req)
  /\ UNCHANGED due

\* The clock passes the expires_at of a request nobody has looked at since.
DeadlinePasses(a) ==
  /\ a \in DOMAIN approvals
  /\ approvals[a].state = "PENDING"
  /\ approvals[a].expires
  /\ due' = due \cup {a}
  /\ UNCHANGED approvals

ApprovalNext ==
  \E a \in Approval :
    \/ ReadApproval(a)
    \/ \E who \in Approver, to \in Decision : Decide(a, who, to)
    \/ Cancel(a)
    \/ DeadlinePasses(a)
===============================================================================
