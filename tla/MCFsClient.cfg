CONSTANTS
  Clients = {c1, c2}
  Servers = {s1, s2}
  Procs <- MCProcs
  Kernel = Kernel
  PORT_FILES = 1
  PORT_KERNEL = 2
  PortIds <- MCPorts
  PORT_QUEUE = 1
  MaxRequests = 2
  Msgs <- MCMsgs
  Notices = {}
  NoMail = NoMail
  Cuttable = {c1, c2, s1, s2}
  Mortal = {s1, s2}
SPECIFICATION FairSpec
CHECK_DEADLOCK FALSE
INVARIANTS LockIsHandedOn AnswersMatchUntilCut
PROPERTIES EndsIfTheServerLives
