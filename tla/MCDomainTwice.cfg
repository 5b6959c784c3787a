\* A production bench, its archive and a second name to restore it under.
CONSTANTS
  Keys = {k1}
  Callers = {q1}
  Addresses = {"here"}
  FailsPerWindow = 2
  GlobalFails = 3
  Window = 2
  BackoffBase = 1
  BackoffMax = 2
  IdleReset = 3
  SweepAbove = 1
  Width = 4
  MaxTicks = 1
  MaxFinished = 1
  MaxLines = 1
  MaxJobs = 1
  MaxOutput = 0
  MaxCrashes = 0
  Apps = {"frappe", "kb"}
  Repos = {"gh/frappe", "gh/kb", "fork/AchatsExtern"}
  RepoName <- MCRepoName
  Registry = {"kb"}
  Upstream = "gh/frappe"
  None = "none"
  Names = {"a", "b"}
  Throwaway = "verify"
  Branches = {"main", "v1"}
  Tags = {"v1"}
  Main = "main"
  VersionBranches = {"main"}
  Ports = {1, 2, 3}
  Hosts = {"x"}
  Firsts <- MCFirsts
  MaxFaults = 0
  MaxMoves = 0
  MaxOps = 2
  Benches = {"b"}
  Pages = {q1}
  Nobody = "nobody"
  TTL = 1
  MaxNow = 1
  MaxWorks = 0
  MaxEvents = 2
SPECIFICATION AllSpec
INVARIANTS HostsApart
