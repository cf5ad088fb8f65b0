\* Two transactions, two requests at a time that call sendTransaction up to twice, one
\* recovery job.
CONSTANTS
  Txs = {1, 2}
  Handlers = {h1, h2}
  Recoverers = {r1}
  SendTries = 2
  NoTx = 0
  Nobody = Nobody
SPECIFICATION SagaSpec
SYMMETRY Symmetry
INVARIANTS
  SuccessMeansPaid
  OneRequestBroadcasts
PROPERTIES
  RecoveryIsRight
