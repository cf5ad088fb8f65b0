---------------------------- MODULE MCComponents ----------------------------
(***************************************************************************)
(* The library modules of the contract crate and the browser's components  *)
(* share no state, so one run checks them side by side: each behaviour     *)
(* exercises one of them and the others rest.                              *)
(***************************************************************************)
EXTENDS SortedList, IntegerSqrt, TwapOracle,
        WalletMachine, BrowserTx, BatchBuilder, OfflineDrafts, PrefetchEngine, TLC

VARIABLE exercised

libraryVars == <<listVars, sqrtVars, oracleVars>>
browserVars == <<walletVars, txVars, batchVars, draftVars, prefetchVars>>
componentVars == <<exercised, libraryVars, browserVars>>

ComponentsInit ==
  /\ exercised \in {"list", "root", "oracle",
                    "wallet", "transaction", "batch", "drafts", "prefetch"}
  /\ ListInit /\ SqrtInit /\ OracleInit
  /\ WalletInit /\ TxInit /\ BatchInit /\ DraftInit /\ PrefetchInit
  /\ exercised # "root" => n = 0
  /\ exercised # "transaction" => ahead = 0
  /\ exercised # "drafts" => ~resumed

LibrariesNext ==
  \/ exercised = "list" /\ ListNext /\ UNCHANGED <<sqrtVars, oracleVars>>
  \/ exercised = "root" /\ SqrtNext /\ UNCHANGED <<listVars, oracleVars>>
  \/ exercised = "oracle" /\ OracleNext /\ UNCHANGED <<listVars, sqrtVars>>

BrowserNext ==
  \/ /\ exercised = "wallet" /\ WalletNext
     /\ UNCHANGED <<txVars, batchVars, draftVars, prefetchVars>>
  \/ /\ exercised = "transaction" /\ TxNext
     /\ UNCHANGED <<walletVars, batchVars, draftVars, prefetchVars>>
  \/ /\ exercised = "batch" /\ BatchNext
     /\ UNCHANGED <<walletVars, txVars, draftVars, prefetchVars>>
  \/ /\ exercised = "drafts" /\ DraftNext
     /\ UNCHANGED <<walletVars, txVars, batchVars, prefetchVars>>
  \/ /\ exercised = "prefetch" /\ PrefetchNext
     /\ UNCHANGED <<walletVars, txVars, batchVars, draftVars>>

ComponentsNext ==
  /\ UNCHANGED exercised
  /\ \/ LibrariesNext /\ UNCHANGED browserVars
     \/ BrowserNext /\ UNCHANGED libraryVars

ComponentsSpec == ComponentsInit /\ [][ComponentsNext]_componentVars

\* The tabs with a draft are alike, and so are the transactions of the dashboard.
Alike == Permutations(Tabs) \union Permutations(Submissions)
=============================================================================
