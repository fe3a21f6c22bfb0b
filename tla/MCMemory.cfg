CONSTANTS
  Procs = {p1, p2, p3}
  First = p1
  Frames = {f1, f2, f3}
  NoFrame = noframe
  Pages = {1, 2}
  Image = {1}
  MaxRefs = 255
  Values = {0, 1}
  Zero = 0
  File = 1
  Unmapped = unmapped
  Gone = gone
SPECIFICATION Spec
SYMMETRY Symmetry
CHECK_DEADLOCK FALSE
INVARIANTS RefsAreUsers StaleIsHarmless
PROPERTIES IsAddressSpaces
