SPECIFICATION DeploySpec
CONSTANTS
  off = off
  server = server
  client = client
  Configs = {off, client}
  ModeOf <- MCModeOf
  Runs = {u1, u2}
  Default = off
  None = None
  Empty = Empty
  Fixed = Fixed
  MaxTasks = 3
  MaxEdits = 0
  MaxRuns = 0
  MaxFailures = 0
  MaxRespawns = 1
  MaxRestarts = 1
\* Once every request and restart is used up the device may stay as it is.
CHECK_DEADLOCK FALSE
SYMMETRY MCSymmetry
INVARIANTS AppliedIsRequested SavedIsInEffect
