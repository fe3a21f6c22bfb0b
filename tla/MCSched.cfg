CONSTANTS
  CORES = 2
  MAX_TASKS = 5
  TASK_QUANTUM = 1
  MaxSleep = 2
SPECIFICATION FairSpec
INVARIANTS StacksDisjoint
PROPERTIES NoStarvation SleepersWake
