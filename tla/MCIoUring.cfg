SPECIFICATION FairSpec
CONSTANTS
  SqEntries = 2
  CqEntries = 2
  Modulus = 4
  Requests = 5
  Opcodes <- Ops
  Lens <- OneLength
  Modes = {TRUE, FALSE}
INVARIANTS LenIsOccupancy ExecutesOwnOrRefill 
PROPERTIES ProcessSqReturns
