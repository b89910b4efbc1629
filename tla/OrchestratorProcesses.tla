------------------------- MODULE OrchestratorProcesses -------------------------
(***************************************************************************)
(* The commands of runtime/src/cli/cli.ts that drive a run, as operating   *)
(* system processes that share one database: `task run`, `approvals        *)
(* approve | reject | resume` and the kill switch. Each runs               *)
(* Orchestrator.drive or Orchestrator.resume (runtime/src/orchestrator/    *)
(* orchestrator.ts), taken apart where another process can come between:   *)
(* at the await of the agent's answer, and between a read of the store and *)
(* the write that follows it. A command that throws ends its process.      *)
(*                                                                         *)
(* A run and its task share an id: plan() makes one run for a task. The    *)
(* CLI never asks for an approval with a time limit, so none expires.      *)
(***************************************************************************)
EXTENDS WorkflowSafety

CONSTANTS Proc,             \* processes that may be alive at once
          Agent,            \* ids of the registered agents
          MAX_TRANSITIONS,  \* turns of one call of drive
          MaxCrash,         \* bound on the processes that are killed
          MayPause          \* whether the kill switch is used

ASSUME AgentAssumption == Agent \subseteq Identity \ {HUMAN_FOUNDER, SYSTEM}
ASSUME TurnsAssumption == MAX_TRANSITIONS \in Nat \ {0}
ASSUME FaultsAssumption == MaxCrash \in Nat /\ MayPause \in BOOLEAN

VARIABLES pc,       \* what each process does next
          job,      \* its local variables
          tasks,    \* the tasks table: the status of each run's task
          granted,  \* history: the requests ever stored as APPROVED
          crashes   \* how many processes were killed

procVars == <<approvals, due, runs, paused, pc, job, tasks, granted, crashes>>

Control == {"idle", "plan", "start", "drive", "turn", "work", "submit", "write",
            "gate", "ask", "park", "finish", "decide", "resume", "look"}

TaskStatus == {"CREATED", "CLASSIFIED", "RUNNING", "APPROVAL_REQUIRED", "BLOCKED",
               "REJECTED", "COMPLETED", "ABORTED"}

\* run: whose; seen: the row last read or written; about: the request in hand;
\* by, says: who says what (an outcome or a decision); mark: the status the task
\* is given at the end, if any; turns: turns of drive so far.
NoJob == [run |-> None, seen |-> None, about |-> None, by |-> None,
          says |-> None, mark |-> None, turns |-> 0]

ProcInit ==
  /\ Init
  /\ pc = [p \in Proc |-> "idle"]
  /\ job = [p \in Proc |-> NoJob]
  /\ tasks = EmptyTable
  /\ granted = {}
  /\ crashes = 0

Goto(p, label, j) ==
  /\ pc' = [pc EXCEPT ![p] = label]
  /\ job' = [job EXCEPT ![p] = j]

Exit(p) == Goto(p, "idle", NoJob)

-------------------------------------------------------------------------------
\* Fault: the task is not saved before its run is started.
TaskRunUnsaved(p, r) ==
  /\ pc[p] = "idle"
  /\ ~paused
  /\ r \notin DOMAIN tasks
  /\ Goto(p, "start", [NoJob EXCEPT !.run = r])
  /\ UNCHANGED <<approvals, due, runs, paused, tasks, granted, crashes>>

\* ai-company task run: refused while paused; a task is created...
TaskRun(p, r) ==
  /\ pc[p] = "idle"
  /\ ~paused
  /\ r \notin DOMAIN tasks
  /\ tasks' = Upsert(tasks, r, "CREATED")
  /\ Goto(p, "plan", [NoJob EXCEPT !.run = r])
  /\ UNCHANGED <<approvals, due, runs, paused, granted, crashes>>

\* ... plan() throws if the runtime was paused since; else it classifies it...
Plan(p) ==
  /\ pc[p] = "plan"
  /\ IF paused THEN Exit(p) /\ UNCHANGED tasks
     ELSE /\ tasks' = Upsert(tasks, job[p].run, "CLASSIFIED")
          /\ Goto(p, "start", job[p])
  /\ UNCHANGED <<approvals, due, runs, paused, granted, crashes>>

\* ... and starts a run of the workflow the classifier chose.
StartRun(p) ==
  /\ pc[p] = "start"
  /\ \E w \in Workflow : runs' = Upsert(runs, job[p].run, NewRun(w))
  /\ Goto(p, "drive", job[p])
  /\ UNCHANGED <<approvals, due, paused, tasks, granted, crashes>>

\* drive() begins: it throws while the runtime is paused.
EnterDrive(p) ==
  /\ pc[p] = "drive"
  /\ IF paused THEN Exit(p) ELSE Goto(p, "turn", [job[p] EXCEPT !.turns = 0])
  /\ UNCHANGED <<approvals, due, runs, paused, tasks, granted, crashes>>

\* The statuses that drive() copies to the task when it ends.
MarkFor(run) == IF run.status \in {"COMPLETED", "ABORTED", "REJECTED"} THEN run.status ELSE None

\* One turn of the loop reads the run and chooses: stop, park at a gate, ask the
\* owner's agent, or simulate the step of an owner who is no agent.
Turn(p) ==
  /\ pc[p] = "turn"
  /\ LET j == job[p]
         run == runs[j.run]
         owner == StepOf(run).owner
     IN  CASE j.turns = MAX_TRANSITIONS
                -> Goto(p, "finish", [j EXCEPT !.mark = MarkFor(j.seen)])
           [] j.turns < MAX_TRANSITIONS /\ run.status # "RUNNING"
                -> Goto(p, "finish", [j EXCEPT !.mark = MarkFor(run)])
           [] j.turns < MAX_TRANSITIONS /\ run.status = "RUNNING" /\ AtHumanGate(run)
                -> Goto(p, "gate", j)
           [] OTHER
                -> IF owner \in Agent
                   THEN Goto(p, "work", [j EXCEPT !.by = owner])
                   ELSE Goto(p, "submit", [j EXCEPT !.by = owner, !.says = "PASS"])
  /\ UNCHANGED <<approvals, due, runs, paused, tasks, granted, crashes>>

\* The await of runStep: the agent answers, some time.
Work(p) ==
  /\ pc[p] = "work"
  /\ \E result \in {"PASS", "FAIL"} :
       /\ result = "FAIL" => Fails(runs[job[p].run]) < MaxFail
       /\ Goto(p, "submit", [job[p] EXCEPT !.says = result])
  /\ UNCHANGED <<approvals, due, runs, paused, tasks, granted, crashes>>

\* submitOutcome reads the run afresh and judges the outcome against it...
Submit(p) ==
  /\ pc[p] = "submit"
  /\ LET run == runs[job[p].run]
     IN  IF MaySubmit(run, job[p].by)
         THEN Goto(p, "write", [job[p] EXCEPT !.seen = run]) ELSE Exit(p)
  /\ UNCHANGED <<approvals, due, runs, paused, tasks, granted, crashes>>

\* ... and writes the run back: halted, blocked, or one edge further.
Write(p) ==
  /\ pc[p] = "write"
  /\ LET j == job[p]
         next == AfterOutcome(j.run, j.seen, j.by, j.says)
         stops == IF j.by \in Agent THEN {"PAUSED", "BLOCKED"} ELSE {"BLOCKED"}
     IN  /\ runs' = Upsert(runs, j.run, next)
         /\ IF next.status \in stops
            THEN Goto(p, "finish", [j EXCEPT !.mark = IF j.by \in Agent THEN None ELSE "BLOCKED"])
            ELSE Goto(p, "turn", [j EXCEPT !.seen = next, !.by = None, !.says = None,
                                           !.turns = @ + 1])
  /\ UNCHANGED <<approvals, due, paused, tasks, granted, crashes>>

\* openApproval reads the run afresh: it throws if the run stands at no gate, and
\* is content if the request it waits for is still PENDING...
ReadGate(p) ==
  /\ pc[p] = "gate"
  /\ LET j == job[p]
         run == runs[j.run]
         asked == run.pending_approval_id
     IN  IF ~AtHumanGate(run) THEN Exit(p)
         ELSE IF asked # None /\ approvals[asked].state = "PENDING"
         THEN Goto(p, "finish", [j EXCEPT !.mark = "APPROVAL_REQUIRED"])
         ELSE Goto(p, "ask", [j EXCEPT !.seen = run])
  /\ UNCHANGED <<approvals, due, runs, paused, tasks, granted, crashes>>

\* The id of a new request is one that no request has. Ids are compared and nothing
\* else, so which of the unused ones it is makes no difference.
UnusedId == CHOOSE a \in Approval : a \notin DOMAIN approvals

\* Fault: the run is parked before its request is stored.
AskUnstored(p) ==
  /\ pc[p] = "ask"
  /\ Approval \ DOMAIN approvals # {}
  /\ Goto(p, "park", [job[p] EXCEPT !.about = UnusedId])
  /\ UNCHANGED <<approvals, due, runs, paused, tasks, granted, crashes>>

\* ... or else stores a new request...
Ask(p) ==
  /\ pc[p] = "ask"
  /\ Approval \ DOMAIN approvals # {}
  /\ approvals' = Upsert(approvals, UnusedId, GateRequest(job[p].run, job[p].seen, FALSE))
  /\ Goto(p, "park", [job[p] EXCEPT !.about = UnusedId])
  /\ UNCHANGED <<due, runs, paused, tasks, granted, crashes>>

\* ... then the run that waits for it.
Park(p) ==
  /\ pc[p] = "park"
  /\ runs' = Upsert(runs, job[p].run, Parked(job[p].seen, job[p].about))
  /\ Goto(p, "finish", [job[p] EXCEPT !.mark = "APPROVAL_REQUIRED"])
  /\ UNCHANGED <<approvals, due, paused, tasks, granted, crashes>>

\* markTask, and the command ends.
Finish(p) ==
  /\ pc[p] = "finish"
  /\ tasks' = IF job[p].mark = None THEN tasks ELSE Upsert(tasks, job[p].run, job[p].mark)
  /\ Exit(p)
  /\ UNCHANGED <<approvals, due, runs, paused, granted, crashes>>

-------------------------------------------------------------------------------
\* ai-company approvals approve | reject: the founder decides a request that
\* decide() reads as PENDING...
FounderDecidesOn(p, a, to) ==
  /\ pc[p] = "idle"
  /\ a \in DOMAIN approvals
  /\ MayDecide(HUMAN_FOUNDER, approvals[a])
  /\ Goto(p, "decide", [NoJob EXCEPT !.about = a, !.says = to])
  /\ UNCHANGED <<approvals, due, runs, paused, tasks, granted, crashes>>

\* ... the decision is stored, and orchestrator.resume called.
PutDecision(p) ==
  /\ pc[p] = "decide"
  /\ LET a == job[p].about
     IN  /\ approvals' = Upsert(approvals, a, Decided(approvals[a], job[p].says))
         /\ granted' = IF job[p].says = "APPROVED" THEN granted \cup {a} ELSE granted
         /\ Goto(p, "resume", [NoJob EXCEPT !.run = approvals[a].run_id])
  /\ UNCHANGED <<due, runs, paused, tasks, crashes>>

Awaiting(run) == run.status = "APPROVAL_REQUIRED" /\ run.pending_approval_id # None

\* resumeAfterApproval reads the run, and throws unless it is parked.
ReadParked(p) ==
  /\ pc[p] = "resume"
  /\ LET run == runs[job[p].run]
     IN  IF Awaiting(run) THEN Goto(p, "look", [job[p] EXCEPT !.seen = run]) ELSE Exit(p)
  /\ UNCHANGED <<approvals, due, runs, paused, tasks, granted, crashes>>

\* ai-company approvals resume: the same for a run the operator names.
ResumeRun(p, r) ==
  /\ pc[p] = "idle"
  /\ r \in DOMAIN runs
  /\ Awaiting(runs[r])
  /\ Goto(p, "look", [NoJob EXCEPT !.run = r, !.seen = runs[r]])
  /\ UNCHANGED <<approvals, due, runs, paused, tasks, granted, crashes>>

\* Fault: the run is moved on from its gate and then left alone.
MoveOnly(p) ==
  /\ pc[p] = "look"
  /\ LET j == job[p]
         state == approvals[j.seen.pending_approval_id].state
     IN  runs' = Upsert(runs, j.run, AfterDecision(j.seen, state))
  /\ Exit(p)
  /\ UNCHANGED <<approvals, due, paused, tasks, granted, crashes>>

\* It reads the request and moves the run accordingly; resume() then drives on
\* unless the run still waits or was rejected.
LookAndMove(p) ==
  /\ pc[p] = "look"
  /\ LET j == job[p]
         state == approvals[j.seen.pending_approval_id].state
         next == AfterDecision(j.seen, state)
     IN  IF state = "PENDING"
         THEN Exit(p) /\ UNCHANGED runs
         ELSE /\ runs' = Upsert(runs, j.run, next)
              /\ IF next.status = "REJECTED"
                 THEN Goto(p, "finish", [j EXCEPT !.mark = "REJECTED"])
                 ELSE Goto(p, "drive", [j EXCEPT !.seen = next])
  /\ UNCHANGED <<approvals, due, paused, tasks, granted, crashes>>

-------------------------------------------------------------------------------
\* A process is killed: it keeps nothing but what it has stored.
Crash(p) ==
  /\ crashes < MaxCrash
  /\ pc[p] # "idle"
  /\ Exit(p)
  /\ crashes' = crashes + 1
  /\ UNCHANGED <<approvals, due, runs, paused, tasks, granted>>

KillSwitch ==
  /\ MayPause
  /\ Pause \/ Resume
  /\ UNCHANGED <<pc, job, tasks, granted, crashes>>

\* A process that has begun a command goes on with it.
Continue(p) ==
  \/ Plan(p) \/ StartRun(p) \/ EnterDrive(p) \/ Turn(p) \/ Work(p) \/ Submit(p) \/ Write(p)
  \/ ReadGate(p) \/ Ask(p) \/ Park(p) \/ Finish(p)
  \/ PutDecision(p) \/ ReadParked(p) \/ LookAndMove(p)

Command(p) ==
  \/ \E r \in Run : TaskRun(p, r) \/ ResumeRun(p, r)
  \/ \E a \in Approval, to \in Decision : FounderDecidesOn(p, a, to)

ProcNext ==
  \/ \E p \in Proc : Continue(p) \/ Command(p) \/ Crash(p)
  \/ KillSwitch

\* The operator runs `approvals resume` on a run whose request is decided.
OperatorResumes(r) ==
  /\ r \in DOMAIN runs
  /\ Awaiting(runs[r])
  /\ approvals[runs[r].pending_approval_id].state # "PENDING"
  /\ \E p \in Proc : ResumeRun(p, r)

\* A process that is alive goes on: an agent always answers, because the router
\* ends at the mock provider, which is always ready and never fails. And the
\* operator does what docs/runtime-operations.md says.
ProcSpec ==
  /\ ProcInit
  /\ [][ProcNext]_procVars
  /\ \A p \in Proc : WF_procVars(Continue(p))
  /\ \A r \in Run : SF_procVars(OperatorResumes(r))
===============================================================================
