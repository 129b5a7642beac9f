SPECIFICATION Spec
CONSTANTS
  v1 = v1
  v2 = v2
  Items <- MCWideItems
  FileOf <- MCWideFileOf
  Kept <- MCWideKept
  Mac <- MCMac
  Lines <- MCLines
  Edits <- MCWideEdits
  Settings = {v1, v2}
  SnmpOn = {}
  Default = Default
  Zero = Zero
  Absent = Absent
  Users = {u1}
  Boot = Boot
  MaxCommands = 3
  MaxCrashes = 2
\* Once every command and restart is used up the system may stop.
CHECK_DEADLOCK FALSE
INVARIANTS TypeOK ConfigNeverBlank NeverBlankInv
PROPERTIES ImplementsConfigAbs
