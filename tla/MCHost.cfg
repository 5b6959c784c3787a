\* Store: two processes call it for ever with records of one name and two
\* contents; Add is called while there is no record, so two concurrent calls
\* make two: duplicate records, removals of several and updates of a record
\* another process has removed all happen.  Tunnels: two callers, two benches and
\* one server, three calls and one failure.  Binary: two processes, two builds, two
\* failures.  Proxy: two callers, three calls and one failure.  MCHost has the
\* other bounds.
CONSTANTS
  Procs = {p1, p2}
  Names = {n1}
  Values = {v1, v2}
  MaxRecs = 1
  Installers = {p1, p2}
  MaxRewrites = 1
  Users = {"u"}
  Machines = {"linux", "darwin", "windows"}
  Hands = {"install", "uninstall"}
  Scheduled = {"b1"}
  MaxTasks = 4
  MaxJobTrouble = 1
  Callers = {p1, p2}
  Benches = {b1, b2}
  Servers = {"vps"}
  Hosts = {"host"}
  MaxTrouble = 1
  MaxCalls = 3
  Updaters = {p1, p2}
  Systems = {"unix", "windows"}
  MaxBuild = 2
  MaxUpdateTrouble = 2
  ProxyCallers = {p1, p2}
  Emails = {"mail"}
  MaxProxyTrouble = 1
  MaxProxyCalls = 3
  Idle = Idle
  NoFile = NoFile
  Free = Free
SYMMETRY Symmetry
SPECIFICATION HostSpec
INVARIANTS EditsClean RemovalTold JobFollows BinaryWhole ProxyAsPromised PublishedAsSaid
PROPERTIES PreviousKept ImplementsRegistry ReplacedKept
