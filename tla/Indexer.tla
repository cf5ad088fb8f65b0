------------------------------ MODULE Indexer -------------------------------
(***************************************************************************)
(* The indexer: indexerService.ts reads the events of the contract after a *)
(* cursor, drops those txHashFilter.ts knows, writes the rest to Postgres  *)
(* in one transaction (indexerBulkUpsert.ts) and the cursor in another,    *)
(* and remembers a checkpoint, to which chainReorgHandler.ts goes back     *)
(* when the RPC node is behind it.  The cron job, the retries after a      *)
(* failure and the trigger route start syncs that may overlap.             *)
(*                                                                         *)
(* An event is named by its place among all that ever were on the chain.   *)
(* Rows of the Transaction table are keyed by the event's transaction and  *)
(* its index in the page it was fetched with; PayoutEvent rows have no key.*)
(*                                                                         *)
(* External: the chain, which may replace its last ledgers by others, and  *)
(* RPC nodes that may lag behind it.                                       *)
(***************************************************************************)
EXTENDS Integers, Sequences, FiniteSets

CONSTANTS Syncs,       \* syncs that can be under way at once
          PageLimit,   \* events getEvents returns at most
          MaxLedger,   \* bound: ledgers on the chain
          LedgerSize,  \* bound: events in a ledger
          MaxGarbled,  \* bound: events that do not decode
          MaxForks,    \* bound: forks
          MaxCopies    \* bound: payout rows counted per event

ASSUME IndexerAssumption == PageLimit \in Nat \ {0}

VARIABLES chain,         \* the contract's events: ledger, whether it decodes, whether it
                         \* is on the chain still; history: whether it came too late
          tip,           \* latest ledger of the chain
          forks,         \* how often it forked
          cursor,        \* IndexerState.lastProcessedLedger
          txRows,        \* Transaction rows, <<event, eventIndex>>
          payoutRows,    \* PayoutEvent rows per event
          sync,          \* where each sync is
          checkpoints,   \* ledgers of the checkpoints, in memory
          lastLedger     \* chainReorgHandler.lastProcessedLedger, in memory

ledgers == <<chain, tip, forks>>
indexed == <<cursor, txRows, payoutRows>>
reorgMemory == <<checkpoints, lastLedger>>
indexerVars == <<ledgers, indexed, sync, reorgMemory>>

NoSync == [at |-> "idle", from |-> 0, page |-> {}, top |-> 0]

IndexerInit ==
  /\ chain = <<>> /\ tip = 0 /\ forks = 0
  /\ cursor = 0 /\ txRows = {} /\ payoutRows = <<>>
  /\ sync = [s \in Syncs |-> NoSync]
  /\ checkpoints = {} /\ lastLedger = 0

\* The ledgers that the indexer has read up to, or says it has.
PastLedgers ==
  {cursor} \union checkpoints \union UNION {{sync[s].from, sync[s].top} : s \in Syncs}

Garbled == {n \in DOMAIN chain : ~chain[n].decodes}

\* A ledger closes with events of the contract in it; too late, if it replaces one
\* that the indexer is past.
CloseLedger ==
  /\ tip < MaxLedger
  /\ tip' = tip + 1
  /\ \E size \in 1 .. LedgerSize : \E decodes \in [1 .. size -> BOOLEAN] :
       /\ Cardinality(Garbled) + Cardinality({i \in 1 .. size : ~decodes[i]}) <= MaxGarbled
       /\ chain' = chain \o [i \in 1 .. size |->
                    [ledger |-> tip + 1, decodes |-> decodes[i], alive |-> TRUE,
                     late |-> \E l \in PastLedgers : tip < l]]
       /\ payoutRows' = payoutRows \o [i \in 1 .. size |-> 0]
  /\ UNCHANGED <<forks, cursor, txRows, sync, reorgMemory>>

\* The ledgers above some ledger are replaced; those that take their place close
\* from now on.
Fork ==
  /\ forks < MaxForks
  /\ forks' = forks + 1
  /\ \E kept \in 0 .. tip - 1 :
       /\ tip' = kept
       /\ chain' = [n \in DOMAIN chain |->
                      [chain[n] EXCEPT !.alive = @ /\ chain[n].ledger <= kept]]
  /\ UNCHANGED <<indexed, sync, reorgMemory>>

-----------------------------------------------------------------------------
(* A sync.                                                                 *)

ReadCursor(s) ==
  /\ sync[s] = NoSync
  /\ sync' = [sync EXCEPT ![s].at = "detect", ![s].from = cursor]
  /\ UNCHANGED <<ledgers, indexed, reorgMemory>>

Orphaned(latest) ==
  IF lastLedger # 0 /\ latest < lastLedger THEN {l \in checkpoints : l > latest} ELSE {}

\* rollback: the rows to delete are looked for by id among transaction hashes and
\* organization ids, and none is found; cursor and checkpoints go back.
Rollback(orphaned) ==
  LET valid == (CHOOSE l \in orphaned : \A m \in orphaned : l <= m) - 1
  IN  /\ cursor' = valid
      /\ checkpoints' = checkpoints \ orphaned
      /\ lastLedger' = valid
      /\ UNCHANGED <<txRows, payoutRows>>

\* detectReorg asks a node for its latest ledger; errors of it or of the rollback are
\* swallowed.  The sync goes on from the cursor it read before.
DetectReorg(s) ==
  /\ sync[s].at = "detect"
  /\ sync' = [sync EXCEPT ![s].at = "fetch"]
  /\ \/ \E latest \in 0 .. tip :
          /\ Orphaned(latest) # {}
          /\ Rollback(Orphaned(latest))
     \/ UNCHANGED <<indexed, reorgMemory>>
  /\ UNCHANGED ledgers

\* getEvents: the first events after the cursor, on a node that has the chain up to
\* some ledger.
Page(from, to) ==
  LET after == {n \in DOMAIN chain :
                  chain[n].alive /\ from < chain[n].ledger /\ chain[n].ledger <= to}
  IN  {n \in after : Cardinality({m \in after : m <= n}) <= PageLimit}

\* The keys of the rows that the events of a page give: the index is the place in the
\* page, and an event that does not decode is logged and skipped.
Keys(page) ==
  {<<n, Cardinality({m \in page : m < n})>> : n \in {m \in page : chain[m].decodes}}

\* The filter drops an event only when it finds its key in the Transaction table, and
\* when in doubt lets it through.
MayDrop(keys) == keys \intersect txRows

\* What passes the filter is published at once, and collected for the flush.
FetchEvents(s) ==
  /\ sync[s].at = "fetch"
  /\ \E to \in 0 .. tip :
       LET page == Page(sync[s].from, to)
           keys == Keys(page)
       IN  IF page = {}
           THEN sync' = [sync EXCEPT ![s] = NoSync]
           ELSE \E dropped \in SUBSET MayDrop(keys) :
                  sync' = [sync EXCEPT ![s].at = "flush", ![s].page = keys \ dropped,
                             ![s].top = chain[CHOOSE n \in page : \A m \in page : m <= n].ledger]
  /\ UNCHANGED <<ledgers, indexed, reorgMemory>>

\* On a conflict of keys the row is skipped; payout rows are inserted as they are.
WithTransactions(page) == txRows \union page

WithPayouts(page) ==
  [n \in DOMAIN chain |->
     IF n \in {key[1] : key \in page} /\ payoutRows[n] < MaxCopies
     THEN payoutRows[n] + 1 ELSE payoutRows[n]]

\* The batch is written in one transaction.
FlushBatch(s) ==
  /\ sync[s].at = "flush"
  /\ txRows' = WithTransactions(sync[s].page)
  /\ payoutRows' = WithPayouts(sync[s].page)
  /\ sync' = [sync EXCEPT ![s] = [@ EXCEPT !.at = "cursor", !.page = {}]]
  /\ UNCHANGED <<ledgers, cursor, reorgMemory>>

\* The cursor, then the checkpoint.
SaveCursor(s) ==
  /\ sync[s].at = "cursor"
  /\ cursor' = sync[s].top
  /\ checkpoints' = checkpoints \union {sync[s].top}
  /\ lastLedger' = sync[s].top
  /\ sync' = [sync EXCEPT ![s] = NoSync]
  /\ UNCHANGED <<ledgers, txRows, payoutRows>>

\* A slip: saving the cursor although the flush threw.
FailAndGoOn(s) ==
  /\ sync[s].at \in {"detect", "fetch", "flush", "cursor"}
  /\ sync' = [sync EXCEPT ![s] = IF @.at = "flush" THEN [@ EXCEPT !.at = "cursor"] ELSE NoSync]
  /\ UNCHANGED <<ledgers, indexed, reorgMemory>>

\* The database or the node throws: the sync ends, and a later one starts afresh.
SyncFails(s) ==
  /\ sync[s].at \in {"detect", "fetch", "flush", "cursor"}
  /\ sync' = [sync EXCEPT ![s] = NoSync]
  /\ UNCHANGED <<ledgers, indexed, reorgMemory>>

\* The process dies with all its syncs and its memory.
IndexerRestarts ==
  /\ sync' = [s \in Syncs |-> NoSync]
  /\ checkpoints' = {} /\ lastLedger' = 0
  /\ UNCHANGED <<ledgers, indexed>>

-----------------------------------------------------------------------------

SyncStep(s) ==
  \/ ReadCursor(s) \/ DetectReorg(s) \/ FetchEvents(s) \/ FlushBatch(s) \/ SaveCursor(s)
  \/ SyncFails(s)

IndexerNext ==
  \/ CloseLedger \/ Fork \/ IndexerRestarts
  \/ \E s \in Syncs : SyncStep(s)

IndexerSpec == IndexerInit /\ [][IndexerNext]_indexerVars

-----------------------------------------------------------------------------
(* Properties.                                                             *)

\* "Successfully processed events up to ledger" (the log entry after the cursor is
\* saved): whatever overlaps, fails, forks or is rolled back, every event of the chain
\* up to the cursor that can be decoded is in the Transaction table, but for those of
\* a ledger that was replaced when the indexer was past it already.
IndexedUpToCursor ==
  \A n \in DOMAIN chain :
    /\ chain[n].alive /\ ~chain[n].late
    /\ chain[n].decodes /\ chain[n].ledger <= cursor
    => \E i \in 0 .. PageLimit : <<n, i>> \in txRows
=============================================================================
