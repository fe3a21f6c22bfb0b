CONSTANTS
  Short = {n}
  Long = {l}
  NoName = noname
  Values = {v1}
  Zero = zero
  MaxCluster = 4
  SecPerClus = 2
  FatCopies = 2
  RootSlots = 3
  DirSlots = 2
  FirstLimit = 65536
  Ops = {"create", "mkdir", "rmdir", "delete", "write", "rename"}
  Clients = {c1}
  OpenPaths <- ShortOnes
  MaxUnits = 2
  MaxSize = 3
  MaxRequests = 3
SPECIFICATION Spec
CHECK_DEADLOCK FALSE
INVARIANTS EveryClusterHasOneOwner NothingIsLost SizeIsThere
PROPERTIES KeepsItsPromise
