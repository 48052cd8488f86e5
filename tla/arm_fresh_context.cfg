SPECIFICATION Spec
CONSTANTS
  Vector <- VectorMC
  CoreA64 <- CoreA64MC
  Leaf <- LeafMC
  Cpus <- CpusMC
  Selectable <- SelectableMC
INVARIANT
  LittleEndianByDefault
