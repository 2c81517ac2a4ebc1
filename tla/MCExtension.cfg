CONSTANTS
  t1 = t1
  t2 = t2
  anna = anna
  berta = berta
  i1 = i1
  i2 = i2
  nobody = nobody
  Task = {t1, t2}
  Account = {anna, berta}
  VaultItem = {i1, i2}
  Nobody = nobody
  StoredFor <- OneItem
  MaxRevision = 2
  MaxAsked <- Asked
  MaxStops = 1
SYMMETRY Tasks
SPECIFICATION ExtensionSpec
PROPERTIES GivenToTheUnlocked NothingGoesBack
CHECK_DEADLOCK FALSE
