CONSTANTS
  None = None
  Approval = {a1, a2}
  Run = {r1}
  StepId <- MCStepId
  Identity <- MCIdentity
  Approver <- MCApprover
  Workflow <- MCWorkflow
  Def <- MCDef
  MaxFail = 1
  Proc = {p1, p2}
  Agent <- MCAgent
  MAX_TRANSITIONS = 16
  MaxCrash = 1
  MayPause = TRUE
SPECIFICATION ProcSpec
CHECK_DEADLOCK FALSE
INVARIANTS
  ProcTypeOK
  FounderBehindEveryPass
  ParkedRunsHoldTheirRequest
PROPERTIES
  RunsGetSomewhere
  DecisionsTakeEffect
