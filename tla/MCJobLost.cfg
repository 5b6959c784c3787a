\* Two processes set and clear the schedules of two benches on Windows, without
\* a fault.
CONSTANTS
  Users = {u1, u2}
  Hands = {}
  Machines = {"windows"}
  Scheduled = {"b1", "b2"}
  MaxTasks = 4
  MaxJobTrouble = 0
SPECIFICATION HourlySpec
INVARIANT ScheduleRuns
CHECK_DEADLOCK FALSE
