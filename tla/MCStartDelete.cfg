\* A bench started while it is deleted.
CONSTANTS
  Procs = {p1, p2}
  Names = {n1}
  Hosts = {}
  Values <- MCValues
  MaxPort = 1
  Kinds = {"create", "delete", "start"}
  MaxFaults = 0
  ReadsFail = FALSE
  Idle = Idle
  Free = Free
  NoDir = NoDir
  Bare = Bare
SYMMETRY Symmetry
SPECIFICATION Spec
INVARIANTS NothingLeft
