SPECIFICATION Spec
CONSTANTS
  Inputs <- MCInputs
  MaxRegions = 3
  InitFrames = 6
  MountPoints <- MCMountPoints
  Extra <- MCExtra
  MaxMounts = 3
  Paths <- MCPaths
INVARIANTS MapFaithful RoundTrip LookupResolves ListingExact 
CHECK_DEADLOCK FALSE
