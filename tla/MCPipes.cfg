CONSTANTS
  Procs = {p1, p2, p3}
  First = p1
  Nobody = nobody
  Files = {f1, f2}
  Pipes = {q}
  NoFile = nofile
  MAX_FD = 2
  PIPE_BUF = 1
  BOUNCE = 2
SPECIFICATION Spec
SYMMETRY Symmetry
CHECK_DEADLOCK FALSE
INVARIANTS RefsAreDescriptors PipesOutliveTheirUsers NobodySleepsInVain
