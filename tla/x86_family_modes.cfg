SPECIFICATION ContextSpec
CONSTANTS
  Requests <- EveryRequest
  EditedFlags <- SomeFlags
  EditedFamilies <- SomeFamilies
  MaxEdits = 2
INVARIANT
  AvailableInEveryMode
CHECK_DEADLOCK FALSE
