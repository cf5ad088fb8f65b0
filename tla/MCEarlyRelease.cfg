\* The behaviour in which merged schedules release a locked tranche.
CONSTANTS
  u1 = u1
  u2 = u2
  o1 = o1
  o2 = o2
  Users = {u1, u2}
  Contract = Contract
  Nobody = Nobody
  NoOrg = NoOrg
  NoCid = NoCid
  Orgs = {o1}
  Cids = {}
  Genesis <- SupplyOfTwo
  Requests = {1}
  Schedules <- TwoStepSchedules
  Batches <- OneBatch
  MaxAmount = 3
  MaxAdmins = 1
  MaxBatch = 3
  MaxTranches = 3
  MaxTime = 1
  Nominees = {}
  Wasms = {w0}
  InitialWasm = w0
SPECIFICATION OneOrgSpec
INVARIANT LockedUntilUnlockTimestamp
