CONSTANTS
  BuildFamilies <- WithoutLoongson2E
  ExtraOpcodes = TRUE
  Requests <- PartialContexts
  Asked <- CompactAsked

SPECIFICATION Spec

INVARIANT ContextDecodes
