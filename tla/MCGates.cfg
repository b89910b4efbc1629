CONSTANTS
  None = None
  Approval = {a1, a2, a3}
  Run = {r1, r2}
  StepId <- MCStepId
  Identity <- MCIdentity
  Approver <- MCApprover
  Workflow <- MCWorkflow
  Def <- MCDef
  MaxFail = 1
SPECIFICATION Spec
SYMMETRY MCSymmetry
CHECK_DEADLOCK FALSE
INVARIANTS
  EveryPendingRequestIsAwaited
  DecisionsComeFromTheFounder
  EachCrossingHasItsOwnApproval
PROPERTIES
  DecisionsAreFinal
  HaltedRunsOnlyAskAgain
  ImplementsHumanGate
