SPECIFICATION KSpec
CONSTANTS
  Tasks = {t1, t2, t3}
  NoTask = NoTask
  QuantumTicks = 2
  MaxVruntime = 2000
  Codes <- ExitCodes
  MaxPid = 4
SYMMETRY TaskSymmetry
INVARIANTS SyscallReturnsToCaller
CHECK_DEADLOCK FALSE
