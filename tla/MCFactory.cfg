CONSTANTS
  None = None
  Approval = {a1}
  Run = {r1}
  StepId <- MCSteps
  Identity <- MCIdentity
  Approver = {"human-founder"}
  Workflow = {"feature-development"}
  Def <- MCDef
  MaxFail = 1
  Ceiling = 5
  MaxAttempts = 3
  Path <- MCPath
  Content <- MCContent
  Traits <- MCTraits
  Seed <- MCSeed
  Env <- MCEnv
  EveryEnv <- MCEveryEnv
  Task <- MCTask
  Edit <- MCEdit
  InScope <- MCInScope
  GitStates = {"works", "unavailable"}
  Tests <- MCTests
  CallsBefore = {0}
  MaxLaps = 6
  MaxLaunches = 2
SPECIFICATION FactorySpec
INVARIANTS
  OkIsEarned
  StagesBeginClean
  ReportsPrecedeOutcomes
  PremiumIsBounded
  ChainIsUsable
PROPERTIES
  ImplementsEngine
  ProofEnds
