CONSTANTS
  None = None
  Unset = None
  Approval = {a1}
  Run = {r1}
  StepId <- MCStepId
  Identity <- MCIdentity
  Approver <- MCApprover
  Workflow <- MCWorkflow
  Def <- MCDef
  MaxFail = 0
SPECIFICATION Spec
CHECK_DEADLOCK FALSE
INVARIANTS
  PassingChecksReachTheFounder
