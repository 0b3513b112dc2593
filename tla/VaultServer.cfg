\* Two replicas with two migrations, four requests of two users, a limit of one hit per
\* window of two ticks and map sweeps above one entry, batches of two audit entries and a
\* retention of two days.  PoolSize is the least that suffices.  The loads bound the rest.
CONSTANTS
  p1 = p1  p2 = p2  r1 = r1  r2 = r2  r3 = r3  r4 = r4  alice = alice  bob = bob
  k1 = k1  k2 = k2  n1 = n1  n2 = n2  proxy = proxy  a1 = a1  a2 = a2  a3 = a3
  Replica <- TwoReplicas
  Req <- FourRequests
  Addr <- FourAddrs
  Trusted <- Proxies
  User <- TwoUsers
  Kek <- TwoKeks
  Name <- TwoNames
  EntryId <- FourEntries
  Loads <- ServerLoads
  NoAddr = NoAddr  NoWindow = NoWindow  NoMap = NoMap  NoKek = NoKek  NoOne = NoOne
  NoName = NoName  Initial = Initial  NoRow = NoRow  NoSecret = NoSecret
  Migrations = 2
  Limit = 1
  Period = 2
  SweepAbove = 1
  PoolSize = 2
  RetentionDays = 2
  Batch = 2
SPECIFICATION Spec
INVARIANTS TypeOK MigratedOnce
PROPERTIES RunningWindowKept AuthorizedOnly  NoStaleSecret
  ServerErrorsAreExplained OnlyOwnRows YoungEntriesStay
  ReplicasStart VerifierAppears OldEntriesGo
CHECK_DEADLOCK FALSE
