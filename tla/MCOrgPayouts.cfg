\* One organization, one donor who is also a maintainer, a second maintainer; supply of two.
CONSTANTS
  u1 = u1
  u2 = u2
  o1 = o1
  o2 = o2
  Users = {u1, u2}
  Contract = Contract
  Nobody = Nobody
  NoOrg = NoOrg
  NoCid = NoCid
  Orgs = {o1}
  Cids = {}
  Genesis <- SupplyOfTwo
  Requests = {0, 1, 2}
  Schedules <- TwoStepSchedules
  Batches <- SmallBatches
  MaxAmount = 3
  MaxAdmins = 1
  MaxBatch = 3
  MaxTranches = 3
  MaxTime = 1
  Nominees = {}
  Wasms = {w0}
  InitialWasm = w0
SPECIFICATION FairOneOrgSpec
INVARIANTS
  OrgTypeOK
  AmountAccounting
  OrgSolvency
  OrderedSchedulePaysExactly
PROPERTY EveryPayoutIsPaid
