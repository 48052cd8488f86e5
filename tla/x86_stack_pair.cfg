SPECIFICATION SubjectSpec
CONSTANTS
  MaxInstructionSize = 15
  Callers <- AllCallers
  Extra = TRUE
  Requests <- EveryRequest
  EditedFlags <- SomeFlags
  EditedFamilies <- SomeFamilies
  MaxEdits = 2
INVARIANT
  StackPairHandedOn
CHECK_DEADLOCK FALSE
