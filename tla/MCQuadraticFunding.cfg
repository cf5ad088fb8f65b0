\* Two projects, one of them registered later; two people; supply of six; or two
\* callers who sign two nonces each and then run out of calls.
CONSTANTS
  u1 = u1
  u2 = u2
  o1 = o1
  o2 = o2
  Users = {u1, u2}
  Contract = Contract
  Nobody = Nobody
  NoOrg = NoOrg
  NoCid = NoCid
  Orgs = {o1, o2}
  Cids = {}
  Genesis <- Supply
  Requests = {0, 1, 3}
  Schedules = {}
  Batches = {}
  MaxAmount = 4
  MaxAdmins = 1
  MaxBatch = 1
  MaxTranches = 0
  MaxTime = 0
  Nominees = {}
  Wasms = {w0}
  InitialWasm = w0
  Rounds <- SmallRounds
  MaxRound = 2
  MaxI128 = 20
  MaxNonce = 1
SPECIFICATION ScenarioSpec
CHECK_DEADLOCK FALSE
INVARIANTS
  StatsMatchContributions
  MatchingConserved
  CallsTakeEffectInOrder
PROPERTY DustIsBounded
