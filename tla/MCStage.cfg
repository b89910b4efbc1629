CONSTANTS
  None = None
  NotAList = NotAList
  CapabilityDef <- MCCapabilityDef
  AgentDef <- MCAgentDef
  RiskFloor <- MCRiskFloor
  TaskTypeDefault <- MCTaskTypeDefault
  Oversized <- MCOversized
  Path <- MCPath
  Content <- MCContent
  Traits <- MCTraits
  Seed <- MCSeed
  Cycles = 1
  MaxRequests = 2
  Plan <- MCPlan
  StageAgent <- MCStageAgent
  StageRisk <- MCStageRisk
  Replies <- MCReplies
  Trees <- MCTrees
  MaxStructuredRetries = 1
  ConfiguredCeiling = 30
  Ceiling = 4
  UsedBefore = {0, 3}
SPECIFICATION StageSpec
CHECK_DEADLOCK FALSE
INVARIANTS
  PassIsEvidenced
  OneWriteAfterThePause
  ToolsStayInScope
  AllowIsEarned
  OnlyAPauseFailsAStep
PROPERTIES
  ImplementsStageContract
  StageEnds
