\* A bench stopped while another one is being created.
CONSTANTS
  Procs = {p1, p2}
  Names = {n1, n2}
  Hosts = {}
  Values <- MCValues
  MaxPort = 2
  Kinds = {"create", "stop"}
  MaxFaults = 0
  ReadsFail = FALSE
  Idle = Idle
  Free = Free
  NoDir = NoDir
  Bare = Bare
SYMMETRY Symmetry
SPECIFICATION Spec
INVARIANTS PortOnce
