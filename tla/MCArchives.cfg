\* Passes to a target next to a user's backups, prunes and other operations of
\* two processes, one fault at any step; a history of four passes; an archive
\* that two things happen to.
CONSTANTS
  Procs = {p1, p2}
  MaxTime = 12
  HourOf <- Per3
  DayOf <- Per6
  WeekOf <- Per12
  RetentionFloor = 1
  Policies <- MCPolicies
  Slack = 1
  Day = 6
  Week = 12
  PartialMaxAge = 1
  MaxFaults = 1
  UserCalls = {"backup", "prune", "other"}
  MaxCalls = 4
  Free = Free
  None = None
  TargetKinds = {"dir", "s3", "sftp", "rclone", "web"}
  MaxHarm = 2
SYMMETRY Symmetry
SPECIFICATION ArchivesSpec
INVARIANTS Spaced WritingKept HistoryKept PruningAsSaid ArchivesWhole
PROPERTIES PruneSpares OnlyAfterSuccess
