CONSTANTS
  Name <- MCName
  Definition <- MCDefinition
SPECIFICATION Spec
CHECK_DEADLOCK FALSE
INVARIANTS
  VerdictIsRight
PROPERTIES
  LoaderAnswers
