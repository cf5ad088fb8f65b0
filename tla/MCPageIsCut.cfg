\* A ledger with two events of the contract, and pages of one.
CONSTANTS
  Syncs = {y1}
  PageLimit = 1
  MaxLedger = 1
  LedgerSize = 2
  MaxGarbled = 2
  MaxForks = 0
  MaxCopies = 1
SPECIFICATION IndexerSpec
INVARIANT IndexedUpToCursor
