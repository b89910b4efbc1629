CONSTANTS
  None = None
  Empty = Empty
  Proc = {p1, p2}
  Caller = {founder, manager}
  HUMAN_FOUNDER = founder
  Creator = {p1}
  Goal <- MCGoal
  Raw <- MCRaw
  Sample <- MCSample
  MaxCommands = 4
SPECIFICATION FairFactorySpec
CHECK_DEADLOCK FALSE
INVARIANT
  NoSignalMeansNone
