CONSTANTS
  v1 = v1
  v2 = v2
  i1 = i1
  i2 = i2
  Absent = Absent
  Device = {d1, d2}
  Object = {v1, i1}
  VaultOf <- OneVault
  Stored = {v1, i1}
  FirstSync = {TRUE, FALSE}
  Run = {"auto"}
  PageLimit = 1
  Manual = {}
  EditStates = {"clean"}
  EditsDuringRun = TRUE
  Deletable = {}
  MaxEdits = 2
  MaxFailures = 1
  MaxRestarts = 1
  MaxUnbinds = 0
SPECIFICATION FairSpec
INVARIANTS CleanIsServerVersion ReplacedVersionWasSeen SavedCursorMeansSeen ConflictNeedsAnother
PROPERTIES EventuallyUpToDate
CHECK_DEADLOCK FALSE
