SPECIFICATION Spec
CONSTANTS
  MaxOrder = 4
  Size <- MCSize
  MemoryMap <- MCMemoryMap
  KStart = 12
  KEnd = 16
INVARIANTS BlocksApart CoversUsable NoFreeBuddies FrameCounts
PROPERTIES ImplementsPool
