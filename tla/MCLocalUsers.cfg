\* Two people on one installation with failures, a kill and background saves.
CONSTANTS
  User = {u1, u2}
  NoUser = NoUser
  Background = {sync}
  Page = page
  MaxOps = 3
  MaxSaves = 1
  MaxEdits = 1
  MaxFails = 1
  MaxRestarts = 1
SPECIFICATION Spec
INVARIANTS
  RecordsAreKept
  NothingIsLeftBehind
CHECK_DEADLOCK FALSE
