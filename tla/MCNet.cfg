SPECIFICATION Spec
CONSTANTS
  byte1 = byte1
  byte2 = byte2
  Text = Text
  Zero = Zero
  QueueSize = 2
  IdxMod = 4
  Cards <- Places
  Frames <- Packets
  HeapSize = 21
  Page = 4
  QueueBytes = 3
  PrintBytes = 1
INVARIANTS BlocksApart
  
CHECK_DEADLOCK FALSE
