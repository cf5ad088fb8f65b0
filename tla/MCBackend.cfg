\* One webhook in two worker slots; two syncs over two ledgers of one event each, of
\* which a fork may replace one or both; one reader and one background refresh; two servers
\* a second apart; one backend instance that publishes two events and reads three entries,
\* with a subscription of each kind; three cache keys in two columns; three results of a
\* query that is called twice at a time.
CONSTANTS
  Events = {e1}
  Slots = {w1, w2}
  NoEvent = NoEvent
  MaxTries = 2
  Syncs = {y1, y2}
  PageLimit = 2
  MaxLedger = 2
  LedgerSize = 1
  MaxGarbled = 1
  MaxForks = 1
  MaxCopies = 1
  Readers = {d1}
  Refreshers = {f1}
  StaleAfter = 0
  ExpireAfter = 3
  TTL = 2
  MaxLatency = 1
  Servers = {v1, v2}
  Capacity = 20
  RefillRate = 10
  Requests <- Batches
  MaxSkew = 1
  MaxUptime = 5
  MaxFresh = 2
  MaxRewound = 2
  Instances = {i1}
  SubIds = {1, 2}
  BusSubs = {1}
  BatchSize = 2
  MaxPublished = 2
  MaxEvents = 3
  CacheKeys = {"a", "b", "c"}
  Depth = 2
  Width = 2
  Column <- Collisions
  MaxMultiplier = 3
  BaseTTLs = {5, 30}
  MaxAccesses = 6
  Results <- Trees
  DiffCalls = {q1, q2}
  PatchFor <- Compare
  PatchedBy <- ApplyPatch
SPECIFICATION BackendSpec
SYMMETRY Alike
INVARIANTS
  IndexedUpToCursor
  NeverServedTooOld
  SpendingIsBounded
  StreamArrivesInOrder
  EstimatesAreUpperBounds
  ShownAsAnswered
PROPERTIES
  KeepsThePromise
\* Queues empty, ledgers and clocks stop at their bounds.
CHECK_DEADLOCK FALSE
