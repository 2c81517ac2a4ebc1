CONSTANTS
  a1 = a1
  a2 = a2
  h1 = h1
  h2 = h2
  h3 = h3
  Account = {a1, a2}
  Admin = {a1, a2}
  Handler = {h1, h2, h3}
  PoolSize = 2
  MaxRequests = 3
SYMMETRY Handlers
SPECIFICATION Spec
INVARIANTS SomeEnabledAdmin OnlyGrantsDeadlock
PROPERTY DisabledStays
CHECK_DEADLOCK FALSE
