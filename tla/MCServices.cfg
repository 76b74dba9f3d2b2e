SPECIFICATION FairSpec
CONSTANTS
  NUnits = 2
  Codes <- ExitCodes
  MaxPid = 6
INVARIANTS TableIsTracked
 
