CONSTANTS
  Conex = 1
  SeqSpace = 32
  Buz = 2
  Mss = 2
  Retries = 1
  Iss = 30
  PeerIss = 29
  PeerWin = 2
  PeerBytes = 3
  ProgBytes = 3
  MaxOpens = 1
  MaxEvents = 4
  MaxTroubles = 1
  MaxAir = 1
SPECIFICATION Spec
CHECK_DEADLOCK FALSE
INVARIANTS StreamsAreWhole NobodyWaitsInVain StreamUntilCut
