SPECIFICATION Spec
CONSTANTS
  MemSize = 5
  Bytes = {0, 1, 255}
  Chars <- MemsetChars
  Fds <- Descriptors
  Statuses = {1}
INVARIANTS  ComparesAsC CopiesAsC
 
CHECK_DEADLOCK FALSE
