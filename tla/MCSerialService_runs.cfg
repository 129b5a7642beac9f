SPECIFICATION Spec
CONSTANTS
  off = off
  redirect = redirect
  server = server
  client = client
  client2 = client2
  Configs = {off, redirect, server, client}
  ModeOf <- MCModeOf
  Runs = {r1, r2}
  None = None
  Empty = Empty
  Fixed = Fixed
  MaxEdits = 1
  MaxRuns = 3
  MaxFailures = 1
  MaxRespawns = 1
  MaxRestarts = 1
\* Once every run, change and restart is used up the port may stay as it is.
CHECK_DEADLOCK FALSE
SYMMETRY MCSymmetry
INVARIANTS TypeOK SettledPort PollersFollow
