SPECIFICATION Spec
CONSTANTS
  c1 = c1
  l1 = l1
  d1 = d1
  None = None
  Device <- MCDevice
  Local <- MCLocal
  Creator = c1
  MaxSetups = 2
  MaxChanges = 1
  MaxTroubles = 2
INVARIANTS EverythingHasItsKey PasswordsAgree DevicesShareKey
CHECK_DEADLOCK FALSE
