SPECIFICATION FairSpec
CONSTANTS
  A = A
  B = B
  C = C
  None = None
  Images <- Mixed
  Sectors = 3
  ScratchSizes = {1, 2, 3}
  MaxFails = 2
  MaxStages = 2
  AllFails = FALSE
CHECK_DEADLOCK FALSE
INVARIANTS TypeOK NoImageLost WritesErased
PROPERTIES ImplementsSlots BootCompletes
