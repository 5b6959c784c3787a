\* Two processes that create, recreate and delete one bench, again and again,
\* with one fault at any step: the operations that hold the bench lock, which
\* must give it back.  No symmetry: liveness is checked.  MCLifecycle has the
\* bounds of the other parts.
CONSTANTS
  Procs = {p1, p2}
  Names = {n1}
  Hosts = {}
  Values <- MCValues
  MaxPort = 1
  Kinds = {"create", "recreate", "delete"}
  MaxFaults = 1
  ReadsFail = FALSE
  Idle = Idle
  Free = Free
  NoDir = NoDir
  Bare = Bare
SPECIFICATION AllFairSpec
INVARIANTS NothingLeft
PROPERTIES BenchFreed KeyFreed
