CONSTANTS
  v1 = v1
  v2 = v2
  i1 = i1
  i2 = i2
  Absent = Absent
  Device = {d1, d2}
  Object = {v1, v2, i2}
  VaultOf <- TwoVaults
  Stored = {v1, v2, i2}
  FirstSync = {FALSE}
  Run = {"auto", "bind"}
  PageLimit = 1
  Manual = {}
  EditStates = {"clean"}
  EditsDuringRun = FALSE
  Deletable = {v1, v2}
  MaxEdits = 2
  MaxFailures = 0
  MaxRestarts = 0
  MaxUnbinds = 1
SPECIFICATION FairSpec
INVARIANTS NoEditVanishes CursorMeansSeen
PROPERTY EventuallyUpToDate
CHECK_DEADLOCK FALSE
