SPECIFICATION Spec
CONSTANTS
  v1 = v1
  v2 = v2
  Items <- MCItems
  FileOf <- MCFileOf
  Kept <- MCKept
  Mac <- MCMac
  Lines <- MCLines
  Edits <- MCEdits
  Settings = {v1}
  SnmpOn = {v1}
  Default = Default
  Zero = Zero
  Absent = Absent
  Users = {u1, u2}
  Boot = Boot
  MaxCommands = 3
  MaxCrashes = 1
\* Once every command and restart is used up the system may stop.
CHECK_DEADLOCK FALSE
SYMMETRY MCSymmetry
INVARIANTS SaveIsComplete
PROPERTIES OnlyStaleImagesRevert
