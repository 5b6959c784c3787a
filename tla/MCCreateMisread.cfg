\* A second create of a tracked bench whose existence check cannot read
\* benches.json.
CONSTANTS
  Procs = {p1, p2}
  Names = {n1}
  Hosts = {}
  Values <- MCValues
  MaxPort = 2
  Kinds = {"create"}
  MaxFaults = 1
  ReadsFail = TRUE
  Idle = Idle
  Free = Free
  NoDir = NoDir
  Bare = Bare
SYMMETRY Symmetry
SPECIFICATION Spec
INVARIANTS RollbackSparesTracked
