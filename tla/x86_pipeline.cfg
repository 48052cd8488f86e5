SPECIFICATION SubjectSpec
CONSTANTS
  MaxInstructionSize = 15
  Callers <- AllCallers
  Extra = TRUE
  Requests <- EveryRequest
  EditedFlags <- SomeFlags
  EditedFamilies <- SomeFamilies
  MaxEdits = 2
INVARIANTS
  BothTypeOK
  DecodersAgree
  BuildsAgree
  Prompt
  RefusalIsDeselection
  GenericKeeps
PROPERTIES
  VerdictsFinal
  UmbrellasKeep
CHECK_DEADLOCK FALSE
