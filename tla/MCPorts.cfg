CONSTANTS
  Procs = {p1, p2, p3}
  Kernel = Kernel
  PortIds = {1}
  PORT_QUEUE = 2
  Msgs = {"a", "b"}
  Notices = {"n"}
  NoMail = NoMail
SPECIFICATION Spec
CHECK_DEADLOCK FALSE
INVARIANTS NobodySleepsOnMail RoomIsOffered NobodyWaitsForTheDead
PROPERTIES IsAMailbox
