CONSTANTS
  Procs = {"sh", "job"}
  NoParent = "nobody"
  Parent <- MCParent
  Targets = {"job"}
  Sent = {9, 18, 20}
  Caught <- MCCaught
SPECIFICATION SignalsSpec
CHECK_DEADLOCK FALSE
INVARIANTS ChildrenDisturbNobody 
PROPERTIES FrameIsKept
