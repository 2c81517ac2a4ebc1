CONSTANTS
  anna = anna
  berta = berta
  nobody = nobody
  va = va
  vb = vb
  wb = wb
  a1 = a1
  b1 = b1
  b2 = b2
  User = {anna, berta}
  Vault = {va, vb, wb}
  Item = {a1, b1, b2}
  NoUser = nobody
  UserOf <- Users
  VaultOf <- Vaults
  FirstVault <- Firsts
  Stored <- OneEach
  PageSize = 1
  MaxLog = 3
  MaxSessions = 2
  MaxEdits = 2
  MaxRuns = 2
  MaxRestarts = 1
SPECIFICATION Spec
INVARIANT SavedCursorIsCovered
PROPERTY EditIsKept
CHECK_DEADLOCK FALSE
