SPECIFICATION Spec
CONSTANTS
  Vector <- VectorMC
  CoreA64 <- CoreA64MC
  Leaf <- LeafMC
  Cpus <- CpusMC
  Selectable <- SelectableMC
INVARIANTS
  TypeOK
  StatesAgree
  UpgradeKeeps
  ByteOrdersAgree
  FormsAreDecoded
  FamiliesCover
