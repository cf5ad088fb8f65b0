\* Lists of up to five nodes with every hint; the root of every word of ten bits;
\* rings of two and three slots with small and large moves of the price.
\* Two wallets, accounts and claims; two transactions within six instants; lists of up
\* to three operations, changed three times; two tabs, two edits, and a reload or a
\* deletion; two organizations' cards, four prefetches, two mounts of the page.
CONSTANTS
  Priorities = {1, 2, 3}
  MaxNodes = 5
  PageLimits = {1, 2}
  MaxDepth = 3
  None = None
  Places = {1, 2, 4, 8, 16}
  TopPlace = 16
  Capacities = {2, 3}
  Prices = {0, 10, 11, 12}
  Windows = {1, 3}
  MaxStaleness = 2
  MaxDeviation = 1900
  MinInterval = 1
  FlashBps = 1500
  FlashWindow = 2
  TtlThreshold = 2
  TtlBump = 3
  LedgerSpans = {1, 2}
  LastLedger = 4
  NoObservation = NoObservation
  Wallets = {app_freighter, hiro}
  Freighter = app_freighter
  Accounts = {a1, a2}
  Claims = {c1, c2}
  Nobody = Nobody
  Submissions = {s1, s2}
  Handlers = {"fund", "claim", "allocate"}
  TimeBound = 2
  PollEvery = 2
  MaxAttempts = 1
  MaxAhead = 1
  LastInstant = 5
  OperationIds = {"fund", "allocate", "claim"}
  MaxDependencies = 2
  MaxChanges = 3
  Tabs = {ta, tb}
  MaxEdits = 2
  MaxUpsets = 1
  MaxFailures = 1
  Links = {o1, o2}
  Cooldown = 2
  GlobalCooldown = 1
  MaxFlights = 4
  MaxFrames = 5
  MaxMounts = 2
SPECIFICATION ComponentsSpec
SYMMETRY Alike
INVARIANTS
  ListIsWhole
  PagesCoverTheList
  RootIsFloor
  TwapIsTheAverage
  WindowIsCalm
  SignatureIsForTheAsker
  VerdictIsFinal
  SortIsRight
  StoredDraftIsComplete
  NoPrefetchTwice
\* A handler may have ended, the lists be used up, and the clocks stop at their bounds.
CHECK_DEADLOCK FALSE
