\* One organization, two people, all the parts of the contract at once.
CONSTANTS
  u1 = u1
  u2 = u2
  o1 = o1
  Users = {u1, u2}
  Contract = Contract
  Nobody = Nobody
  NoOrg = NoOrg
  NoCid = NoCid
  NoFlash = NoFlash
  Orgs = {o1}
  Cids = {}
  Genesis <- Supply
  Requests = {1}
  Schedules = {}
  Batches = {}
  MaxAmount = 2
  MaxAdmins = 1
  MaxBatch = 1
  MaxTranches = 1
  MaxTime = 1
  MaxShare = 2
  Nominees = {}
  Wasms = {w0}
  InitialWasm = w0
  Rounds <- OneRound
  MaxRound = 1
  MaxI128 = 20
  FeeChoices = {0, 1000, 1001}
SPECIFICATION StartedSpec
INVARIANTS
  RegistrySolvency
  ShareAccounting
  NobodyGainsFromOthers
  TimeLockConserved
  BorrowingIsNeverFree
  SupplyIsConserved
