------------------------------- MODULE HumanGate -------------------------------
(***************************************************************************)
(* What the company is promised about the Human Founder's authority        *)
(* (docs/human-approval-runtime.md, docs/workflows.md), without the        *)
(* workflow engine: a run asks, the founder grants or refuses once, a      *)
(* grant opens one gate once, and an authorized action needs a grant made  *)
(* to this very run.                                                       *)
(***************************************************************************)
EXTENDS StateStore

CONSTANTS Approval, Run

VARIABLES request,  \* request[a]: whose request a is, and its verdict
          crossed,  \* crossed[r]: the moments at which r passed a human gate
          shipped   \* shipped[r]: the moments at which r passed another authorized step

gateVars == <<request, crossed, shipped>>

Verdict == {"open", "granted", "refused", "spent"}

GateInit ==
  /\ request = EmptyTable
  /\ crossed = EmptyTable
  /\ shipped = EmptyTable

Begin(r) ==
  /\ r \notin DOMAIN crossed
  /\ crossed' = Upsert(crossed, r, {})
  /\ shipped' = Upsert(shipped, r, {})
  /\ UNCHANGED request

\* The requests of r that could still open its gate.
Live(r) ==
  {a \in DOMAIN request : request[a].run = r /\ request[a].verdict \in {"open", "granted"}}

Closed(q) == [q EXCEPT !.verdict = IF @ = "open" THEN "refused" ELSE "spent"]

\* r asks; whatever it had asked before can no longer open its gate.
Ask(r, a) ==
  /\ r \in DOMAIN crossed
  /\ a \notin DOMAIN request
  /\ request' = [b \in DOMAIN request \cup {a} |->
                   IF b = a THEN [run |-> r, verdict |-> "open"]
                   ELSE IF b \in Live(r) THEN Closed(request[b]) ELSE request[b]]
  /\ UNCHANGED <<crossed, shipped>>

\* The founder answers an open request; a refusal also stands for an expiry and
\* a withdrawal.
Answer(a, verdict) ==
  /\ a \in DOMAIN request
  /\ request[a].verdict = "open"
  /\ request' = [request EXCEPT ![a].verdict = verdict]
  /\ UNCHANGED <<crossed, shipped>>

\* One moment is added to those in log[r]; nothing else in log changes.
Marks(log, r) ==
  \E now \in log'[r] \ log[r] : log' = [log EXCEPT ![r] = @ \cup {now}]

\* r passes its gate on a grant, and the grant is spent.
Cross(r, a) ==
  /\ r \in DOMAIN crossed
  /\ a \in Live(r)
  /\ request[a].verdict = "granted"
  /\ request' = [request EXCEPT ![a].verdict = "spent"]
  /\ Marks(crossed, r)
  /\ UNCHANGED shipped

\* r passes an authorized step on the strength of a grant it has received.
Deliver(r) ==
  /\ r \in DOMAIN shipped
  /\ \E a \in DOMAIN request :
       request[a].run = r /\ request[a].verdict \in {"granted", "spent"}
  /\ Marks(shipped, r)
  /\ UNCHANGED <<request, crossed>>

GateNext ==
  \/ \E r \in Run : Begin(r) \/ Deliver(r)
  \/ \E r \in Run, a \in Approval : Ask(r, a) \/ Cross(r, a)
  \/ \E a \in Approval : Answer(a, "granted") \/ Answer(a, "refused")

GateSpec == GateInit /\ [][GateNext]_gateVars
===============================================================================
