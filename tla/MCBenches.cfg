\* Two processes that create, recreate, delete, start, stop one bench and change
\* its aliases, again and again, with one fault at any step; three operations on
\* one bench that exists, or fewer with faults, MaxEvents of both together; and
\* worktrees, whose removals are that of the hook, one that keeps the worktree
\* and one that stops at nothing.
\* MCBenches has the bounds of Rollout.
CONSTANTS
  Procs = {p1, p2}
  Names = {n1}
  Hosts = {h1}
  Values <- MCValues
  MaxPort = 1
  Kinds = {"create", "recreate", "delete", "start", "stop", "domainAdd", "domainRemove"}
  MaxFaults = 1
  MaxEvents = 3
  ReadsFail = FALSE
  Users = {p1, p2}
  SnapNames = {"before"}
  RootHosts = {"%", "localhost"}
  Localhost = "localhost"
  MaxRelease = 2
  MaxPasswords = 3
  MaxTasks = 3
  MaxUpkeepFaults = 2
  Workers = {p1, p2}
  Branches = {"f"}
  Flags = {{"delete"}, {"keep"}, {"force", "delete", "nobackup"}}
  MaxMoves = 2
  MaxTrouble = 1
  Actors = {p1, p2}
  Apps = {"crm", "hrms"}
  Misnamed = {"hrms"}
  Old = TRUE
  RolloutKinds = {"scale", "reconcile", "domain", "start", "stop", "rebuild", "debug", "addApp", "removeApp"}
  MaxRollouts = 3
  MaxMishaps = 1
  Idle = Idle
  Free = Free
  Nobody = Free
  NoWorker = Free
  Nil = Free
  NoDir = NoDir
  Bare = Bare
SYMMETRY Symmetry
SPECIFICATION BenchesSpec
INVARIANTS UniqueNames RollbackSparesTracked TrackedComplete ServedWhole RollbackWhole PasswordsKnown RecordRuns AppsRecorded
PROPERTIES SiteArchivedFirst WorktreesSafe
