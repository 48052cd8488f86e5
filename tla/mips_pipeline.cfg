SPECIFICATION Spec
CONSTANTS
  BuildFamilies <- AllBuilt
  ExtraOpcodes = TRUE
  Callers <- AllCallers
  Selectable <- WordFamilies
  MaxSelected = 4
CHECK_DEADLOCK FALSE

INVARIANTS
  OneFamilyDecodes
  Replays
  NamedAsGeneric
PROPERTIES
  EnablingKeeps
  RefusalTellsWhy
