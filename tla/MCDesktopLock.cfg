CONSTANTS
  s1 = s1
  s2 = s2
  other = other
  Secret = {s1}
  Other = other
  MaxLockings = 2
  MaxCalls = 2
  MaxOpening = 1
SPECIFICATION DesktopSpec
INVARIANTS LockedForgets LeftIsWatched CopyIsWatched
