SPECIFICATION PSpec
CONSTANTS
  Tasks = {t1, t2, t3}
  NoTask = NoTask
  QuantumTicks = 2
  MaxVruntime = 2000
  Codes <- ExitCodes
  MaxPid = 5
SYMMETRY TaskSymmetry
INVARIANTS ExitIsVisible
CHECK_DEADLOCK FALSE
