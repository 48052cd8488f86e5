CONSTANTS
  BuildFamilies <- AllBuilt
  ExtraOpcodes = TRUE
  Requests <- CompactContexts
  Asked <- CompactAsked

SPECIFICATION Spec

INVARIANT ContextDecodes
