CONSTANTS
  Slots = {1, 2, 3}
  MaxPid = 4
SPECIFICATION FairSpec
CHECK_DEADLOCK FALSE
INVARIANTS NoMissedNews DeathToldOnce
PROPERTIES OnlyOrphansUntold CollectedAreReaped
