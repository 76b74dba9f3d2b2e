SPECIFICATION Spec
CONSTANTS
  HeapStart = 2
  HeapSize = 24
  HoleSize = 4
  HoleAlign = 2
  Layouts <- LayoutSet
INVARIANTS OneOwner
PROPERTIES LossBounded
