\* Two aliases added at once to one bench.
CONSTANTS
  Procs = {p1, p2}
  Names = {n1}
  Hosts = {h1, h2}
  Values <- MCValues
  MaxPort = 1
  Kinds = {"create", "domainAdd"}
  MaxFaults = 0
  ReadsFail = FALSE
  Idle = Idle
  Free = Free
  NoDir = NoDir
  Bare = Bare
SYMMETRY Symmetry
SPECIFICATION Spec
INVARIANTS AliasesKept
