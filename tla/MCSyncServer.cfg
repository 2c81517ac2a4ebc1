CONSTANTS
  o1 = o1
  o2 = o2
  o3 = o3
  c0 = c0
  c1 = c1
  c2 = c2
  c3 = c3
  Nil = Nil
  Handler = {h1, h2}
  Object = {o1, o2, o3}
  Content = {c0, c1, c2, c3}
  Key = {"a1", "a2", "b1", "b2", "a3", "b3", "d1", "d2", "e1", "r1", "r2", "r3"}
  Batch <- Batches
  Seed <- StoredSeed
  SeedContent = c0
  FirstId = 4
  MaxRequests = 3
  Device = {d1}
  RestoreLimit = 2
  SnapshotLimit = 2
  PullLimit = 1
  CutResync = TRUE
SPECIFICATION SceneSpec
INVARIANTS RowIsLatestEvent OneEventPerOperation RepliesAreDurable HistoryIsLinear NothingMissed
PROPERTIES RegistersSpec EveryRequestEnds
CHECK_DEADLOCK FALSE
