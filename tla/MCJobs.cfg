\* Three jobs for two keys, one finished job kept: two jobs at once, a job
\* dropped for newer ones, two restarts; or one job that prints more than twice
\* what is kept of its output, and a page that loses its connection at any moment.
\* An answer of docker is used again within its tick.  The limiter's ticks are of
\* half a minute of the base lockout: the fourth lockout of an address shifts into
\* the sign.
CONSTANTS
  Keys = {k1, k2}
  Callers = {q1, q2}
  Addresses = {"here", "there"}
  FailsPerWindow = 2
  GlobalFails = 3
  Window = 2
  BackoffBase = 1
  BackoffMax = 2
  IdleReset = 3
  SweepAbove = 1
  Width = 4
  MaxTicks = 7
  MaxFinished = 1
  MaxLines = 2
  MaxJobs = 3
  MaxOutput = 5
  MaxCrashes = 2
  Apps = {"frappe", "kb"}
  Repos = {"gh/frappe", "gh/kb", "fork/AchatsExtern"}
  RepoName <- MCRepoName
  Registry = {"kb"}
  Upstream = "gh/frappe"
  None = "none"
  Names = {"a", "b"}
  Throwaway = "verify"
  Branches = {"main", "v1"}
  Tags = {"v1"}
  Main = "main"
  VersionBranches = {"main"}
  Ports = {1, 2, 3}
  Hosts = {"x"}
  Firsts <- MCFirsts
  MaxFaults = 1
  MaxMoves = 1
  MaxOps = 3
  MaxEvents = 4
  Benches = {"b"}
  Pages = {q1, q2}
  Nobody = "nobody"
  TTL = 1
  MaxNow = 2
  MaxWorks = 2
SYMMETRY Symmetry
SPECIFICATION AllSpec
INVARIANTS OneJobPerKey RunningJobKept OutcomeForGood PageTrue RestoredFaithful RecordClones LeftAsFound NothingShared Portable LockoutsHold PageFresh
