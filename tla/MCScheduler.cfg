SPECIFICATION FairSpec
CONSTANTS
  Tasks = {t1, t2, t3}
  NoTask = NoTask
  QuantumTicks = 2
  MaxVruntime = 4000
INVARIANTS EachLiveTaskOnce ExitedNeverRuns
PROPERTIES  ExitsLetEveryoneRun
CHECK_DEADLOCK FALSE
