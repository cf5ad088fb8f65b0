\* Two organizations and two people, from before init; each person has one token.
CONSTANTS
  u1 = u1
  u2 = u2
  o1 = o1
  o2 = o2
  Users = {u1, u2}
  Contract = Contract
  Nobody = Nobody
  NoOrg = NoOrg
  NoCid = NoCid
  Orgs = {o1, o2}
  Cids = {cid}
  Genesis <- OneEach
  Requests = {1}
  Schedules = {}
  Batches <- SingleBatches
  MaxAmount = 3
  MaxAdmins = 2
  MaxBatch = 2
  MaxTranches = 2
  MaxTime = 0
  Nominees = {u1, u2}
  Wasms = {w0}
  InitialWasm = w0
SYMMETRY PeopleSymmetry
SPECIFICATION Spec
INVARIANTS
  MaintainerIndex
  NominationIsCurrent
  OrgConservation
