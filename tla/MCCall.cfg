CONSTANTS
  None = None
  MaxRetryCycles = 2
  MaxWait = 2
  Jitter = 1
  MinInterval = 1
  SafetyMargin = 1
  FallbackWindow = 1
  Horizon = 3
  MaxRetries = 1
  JsonSchema = TRUE
  MaxOutputTokens = 3
  EstTokens = 2
  Windows <- MCWindows
  MaxCalls = 2
SPECIFICATION CallSpec
CHECK_DEADLOCK FALSE
INVARIANTS
  OnlyACappedWaitIsTooShort
PROPERTIES
  ImplementsCallContract
  CallsEnd
