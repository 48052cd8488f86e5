CONSTANTS
  BuildFamilies <- AllBuilt
  ExtraOpcodes = TRUE
  Requests <- AllContexts
  Asked <- AskedOf

SPECIFICATION Spec

INVARIANT TypeOK
INVARIANT SelectionSound
INVARIANT ContextDecodes
PROPERTY AcceptedStaysAccepted
PROPERTY RemovalSucceeds
PROPERTY EveryCallReturns
PROPERTY ImplementsFamilySelection
