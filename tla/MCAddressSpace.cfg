SPECIFICATION Spec
CONSTANTS
  Fan = 5
  Frames = {0,1,2,3,4,5,6,7,8,9,10,11,12,13,14,15,16,17,18,19,20,21,22,23,24}
  Pml4 = 1
  Pdpt = 2
  Pd = 3
  FreeLists <- MCFreeLists
  Programs <- MCPrograms
  UserBase = 10
  StackBase = 5
  StackPages = 2
  Device = 82
  UserMax = 1560
  AddrSpace = 3200
  Pages <- MCPages
  Ptrs <- MCPtrs
  Lens <- MCLens
  MaxLoads = 2
INVARIANTS  PagesArePrivate  SlicesExact
PROPERTIES OnePageAtATime AtMostOneLost
CHECK_DEADLOCK FALSE
