CONSTANTS
  None = None
  Unset = None
  Approval = {a1, a2}
  Run = {r1}
  StepId <- MCStepId
  Identity <- MCIdentity
  Approver <- MCApprover
  Workflow <- MCWorkflow
  Def <- MCDef
  MaxFail = 2
SPECIFICATION Spec
SYMMETRY MCSymmetry
CHECK_DEADLOCK FALSE
INVARIANTS
  TypeOK
  GatedPassesAreApproved
  HistoryIsAPath
  ProductionIsReviewed
