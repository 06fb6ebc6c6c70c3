SPECIFICATION Spec
CONSTANTS
  A = A
  B = B
  C = C
  None = None
  Images <- Mixed
  Sectors = 3
  ScratchSizes = {3}
  MaxFails = 1
  MaxStages = 2
  AllFails = TRUE
CHECK_DEADLOCK FALSE
INVARIANT NoImageLost
