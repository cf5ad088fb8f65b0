\* One claim whose answer comes too late.
CONSTANTS
  Txs = {1, 2}
  Handlers = {h1}
  Recoverers = {r1}
  SendTries = 2
  NoTx = 0
  Nobody = Nobody
SPECIFICATION SagaSpec
INVARIANT FailedMeansUnpaid
