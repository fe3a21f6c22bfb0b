SPECIFICATION Spec
CONSTANTS
  w1 = w1
  w2 = w2
  Writers = {w1, w2}
  Cores = {"c0"}
  Scenes <- MCScenes
  KlogMax = 4
  Reserva = 1
  Chunk = 3
  LineMax = 2
  RxMax = 2
  FifoMax = 2
  BufMax = 2
  Room = 2
  ReadSizes = {2}
INVARIANTS TextIsKept TextIsAnnounced KeysAreHeard InterruptForgets
