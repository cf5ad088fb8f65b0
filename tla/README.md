# Very-Prince in TLA+

Very-Prince pays open-source maintainers on Stellar. Organizations deposit
tokens in a Soroban contract, `PayoutRegistry`, and allocate payouts that unlock
over time; maintainers claim them. A backend prepares and submits the claim
transactions, follows the ledger, announces what it saw, and serves a web
frontend that signs and sends transactions of its own.

This directory holds their specifications: TLA+ modules translated from the code,
TLC configurations that check them on small instances, and theorems that TLAPS
proves for every value of the constants. Paths below are relative to the
repository root; `lib.rs` alone means `packages/contracts/src/lib.rs`, and a bare
`*.rs` lies beside it.
`PROJECT.json` maps every definition to the lines it translates.

## How to run it

    tlc -workers 2 -config MCOrgPayouts.cfg MCOrgPayouts     # a run
    tlapm OrgPayouts_proofs.tla                              # the proofs of a module

The runs and their modules are in the table under *Runs*. The longest takes
about four minutes; the proofs take about ten minutes together, most of them those
of `Components_proofs`.

## The system and its parts

### The contract (`packages/contracts`)

One contract instance holds all the money in one token balance, and keeps who is
owed what in its storage. All entry points that change storage take one
reentrancy lock. Ledgers close between transactions and never inside one, so the
contract sees one call at a time, except for the two flash calls, which call the
borrower back before they return.

| Part | State | Operations | What makes it correct |
|---|---|---|---|
| Token (external SAC, `token_interface.rs`) | balances | `transfer`, `transfer_from`, `mint`, `burn` | supply is conserved; a transfer that the balance does not cover fails the whole call |
| Protocol control | state (Active/Paused), admin, pending admin, wasm hash, lock | `init`, `pause_protocol`, `unpause_protocol`, `propose_admin`, `accept_admin`, `upgrade` | a nomination dies with the mandate of who made it; nothing re-enters |
| Organizations and payouts | org admin, admin set, metadata, budget, maintainer index, payout records with their tranches | `register_org`, `update_org_metadata`, `add_admin`, `remove_admin`, `add_maintainer`, `fund_org`, `allocate_payout`, `allocate_payout_vesting`, `batch_allocate`, `claim_payout` | every stroop is in one place; budgets and dues are covered by the balance; a maintainer gets exactly what is unlocked, and in the end everything; no organization is left without an admin |
| Quadratic funding | verified humans, matching pool, contributions, statistics per project | `verify_humanity`, `revoke_humanity`, `qf_deposit_matching_pool`, `qf_contribute`, `qf_preview_distribution`, `qf_distribute` | statistics kept by differences equal those of all contributions; the pool is conserved and its dust stays in it |
| Share vault | shares, total shares, total assets | `vault_deposit`, `vault_withdraw` | nobody's rounding costs somebody else anything |
| Time-lock vaults | amount by owner and date | `create_vault`, `claim_vault` | what is locked is released once, to its owner, after its date |
| Flash loans and mints | fee rate | `set_flash_loan_fee`, `flash_loan`, `flash_mint` | a loan comes back with its fee or never happened; a mint leaves the supply as it was |
| Signed calls | nonce by address | `*_with_nonce` | calls take effect once, in the order of their nonces |
| Priority list (`linked_list.rs`) | head, tail, size, nodes | `list_insert`, `list_remove`, `list_get_page` | one list, sorted, whole in both directions |
| TWAP oracle (`twap_oracle.rs`) | ring of observations that expire, breaker status | `initialize_asset`, `update_price`, `get_twap`, `get_spot_price`, `trip_circuit_breaker`, `reset_circuit_breaker` | the ring holds the newest ticks; the average lies among the prices; large moves freeze conversions |
| Integer square root | - | `isqrt_u128` | the floor of the root, without overflow |
| Fixed point, vesting search | - | helpers of the above | exact rounding direction; the bisection agrees with a scan |
| Capability tokens, cross-chain proofs, BLS, ZK, XDR, fractional wrapper | see *Not modelled* | | |

### The backend (`packages/backend`)

Several processes share Postgres, Redis and the Stellar RPC node, and any of them
may stop between two awaits.

| Part | State | Hard behaviour | What makes it correct |
|---|---|---|---|
| Claim saga (`claimSagaService.ts`, `lockService.ts`) | saga rows, two kinds of Redis lock with a TTL | requests and the recovery job interleave at every await; locks expire under their holders; answers of the network come late or never; a process dies between marking a saga and sending it | what a saga records is true; no two requests send one claim; every submission settles |
| Indexer, bulk upsert, reorg handler, event filter | cursor, event rows, checkpoints | syncs overlap; batch and cursor are written separately; the chain forks; a roll-back runs beside a fetch | what lies behind the cursor is in the table |
| Webhooks (`webhookService.ts`, `WebhookWorker.ts`, `webhookDlqService.ts`) | queue (SQS or BullMQ), deliveries, dead letters | delivery, record and removal are three calls that fail one by one; messages reappear; workers die | an accepted event is delivered or put aside, and in the end leaves the queue |
| Caches (`staleCache.ts`, `countMinSketch.ts`, `probabilisticEviction.ts`) | Redis entries with a soft and a hard TTL; counters | a background refresh races an invalidation; counters decay while shared | nothing is served past its age limit; estimates are upper bounds |
| Rate limiting (`tokenBucketService.ts`, `tokenBucket.lua`) | token buckets in Redis | the clock is the caller's, and servers disagree | nobody spends more than capacity and refill |
| Streams and gateway (`redisStreams.ts`, `sse.ts`, `uwsGateway.ts`, `subscriptionManager.ts`, `trpc/subscriptions.ts`) | stream cursor, subscriptions | time-outs, restarts and reconnects between two reads; an event also goes round the stream, on the instance that indexed it | a subscription sees the entries of the stream in order and once |
| Differential sync (`trpc/server.ts`, `trpc/diff.ts`) | results in Redis, by hash | a copy expires; answers overtake each other | the browser shows what the server answered |
| RPC client | - | time-outs, polling | in the saga and the indexer |
| Saga orchestrator, webhook partition router, document sync | | written, tested, started by nobody | |
| Authentication, API keys, HTTP and tRPC surface | sessions, keys | request-local | |

### The browser (`packages/frontend`)

| Part | State | Hard behaviour | What makes it correct |
|---|---|---|---|
| Wallet (`walletMachine.ts`, `WalletContext.tsx`, `useUnifiedWallet.ts`) | machine state, pending promises | promises outlive the state they waited for; account and wallet change in between | a signature goes to the claim that asked for it |
| Transactions (`sorobanClient.ts` and its callers) | transactions under way | the page stops polling while the network goes on | what the user was told stays true |
| Batch builder (`dashboard/batch/page.tsx`, `dagSorter.ts`) | list of operations, sort in a worker | the page is edited while the worker runs; dependencies are free text | the order signed respects the dependencies; a list that has an order is not refused |
| Offline drafts (`useOffline.ts`, `crdt-worker.ts`, `crdtManager.ts`) | document per tab, one row in IndexedDB | two kinds of write over the same row, from several tabs, from rows read earlier; requests that fail are not repeated | every tab has every edit; the stored draft is the whole draft |
| Predictive prefetch (`predictivePrefetch/engine.ts`, `usePredictivePrefetch.ts`) | flights, cooldowns | aborted requests settle late | no target is fetched twice at a time |
| Pages, charts, decoding workers, optimistic displays | | | layout and drawing |

`packages/amm-math` is a library of constant-product formulas. Types, documents,
Terraform, Kubernetes and Jenkins files hold no program logic.

### How the parts interact

- Every part of the contract moves money through the token and checks the same
  lock; most check the same Active/Paused switch and the same protocol admin.
- `qf_contribute` and `qf_distribute` credit organizations' budgets; a signed
  call runs the plain call behind a nonce.
- A flash call hands control to the borrower, who may call the token and every
  entry point of the contract.
- The claim saga builds, sends and looks up `claim_payout` transactions; the
  contract decides, the saga records.
- The indexer reads the contract's events into Postgres, appends them to the
  Redis stream the gateways of all instances read, puts them on the event bus of
  its own instance besides, and has `webhookService` queue them.
- Mutations of the API drop the cache entries that queries fill; every tRPC
  request pays the token bucket first, and a query may come back as a patch over
  an earlier result.
- The browser's transactions go to the contract without the backend; its wallet
  signs them and the claims the backend prepared.

## Modules

| Module | Models | Extends |
|---|---|---|
| `AmountSums` | sums of amounts, without recursion | |
| `SacToken` | the token as the registry uses it (external) | `AmountSums` |
| `ProtocolControl` | pause switch, admin hand-over, upgrade, lock, clock | `SacToken` |
| `OrgPayouts` | organizations, maintainers, funding, vesting, claims | `ProtocolControl` |
| `QuadraticFunding` | humanity, matching pool, contributions, rounds | `OrgPayouts` |
| `NonceCalls` | signed calls submitted late, twice, out of order | `QuadraticFunding` |
| `ShareVault`, `TimeLockVault`, `FlashLoans` | the three other users of the balance | `ProtocolControl` |
| `PayoutRegistry` | all of these over one balance, lock and clock | `QuadraticFunding` and the three above |
| `SortedList`, `TwapOracle`, `IntegerSqrt` | the library modules | |
| `ClaimSaga` | the backend's claim saga, its locks, the network it talks to | |
| `AtLeastOnce` | what a webhook queue promises, and nothing of how | |
| `WebhookDelivery` | configuration, queues, worker slots, dead letters; implements `AtLeastOnce` | |
| `Indexer` | overlapping syncs, roll-back, event filter, over a chain that forks | |
| `StaleCache`, `EvictionSketch` | one cache entry; the sketch that stretches TTLs | |
| `TokenBucket` | the Lua script and the servers that call it | |
| `LiveEvents` | stream, reader, event bus, gateway, clients | |
| `DiffSync` | calls that overlap, results kept by hash; how patches are made is a parameter | |
| `TreePatches` | `trpc/diff.ts`: making and applying patches over trees | |
| `WalletMachine`, `BrowserTx`, `BatchBuilder`, `OfflineDrafts`, `PrefetchEngine` | the browser's parts, one each | |
| `Components_proofs`, `Backend_proofs` | theorems about the contract's library and the browser, and about the backend but its saga | the modules they are about |
| the other `*_proofs` | theorems about the module of the same name | |
| `MC*` | constants and starting states for TLC | |

### How state and actions correspond to the code

A storage key or a database column is a variable, named in a comment beside its
declaration; an entry point is an action of the same name in camel case
(`claim_payout` is `ClaimPayout`). A variable marked *history* is not in the
code: it records what the properties need to speak of the past (`funded`,
`netPaid`, `executed`, `ticks`, ...), and no guard reads it.

**A failing call.** In Soroban a panic reverts every write of its transaction.
An early return or a failed check is therefore a disabled action, and an order
of checks that all panic is a conjunction. Where it matters that a call *tried*
something and lost it with the revert, the refused call is an action of its own
(`UpdateRefused`, `GetTwapRefused`, `FlashRevert`).

**Who calls.** `require_auth` makes the caller the signer: it is a parameter,
drawn from `Users` by `\E`, and the guard is what the code then asks of it.

**The lock.** `ReentrancyGuard` sets a flag and clears it when it is dropped. A
call that returns in one step leaves it as found, so only the flash calls, which
are cut into begin, callback and end, leave it set between steps. The host of
the platform refuses re-entry too; the model relies on the contract's own guard
alone, which is what the code promises. `token_transfer_from` and the token
itself take no lock, so tokens move during a callback.

**Amounts** are whole stroops. The widths of the machine integers are kept where
the code can meet them: in `IntegerSqrt` (wrapping of the word) and
`QuadraticFunding` (`MaxI128`, where checked arithmetic panics). Elsewhere
`MAX_AMOUNT_LIMIT` bounds every amount far below them, and the model keeps that
limit as a guard.

**The claim saga.** A step ends where the code awaits. Taking a lock belongs to
the read that follows it and releasing it to the step before, which loses no
behaviour that another process can tell apart; a release that fails is a crash
that leaves the lock to expire. Transactions are numbered in the order they are
built and carry one account's sequence numbers, so applying one kills the older
ones. The clock is abstract: `stalled` (a minute after `updatedAt`) implies that
the transaction was applied or can no longer be, since it is valid for thirty
seconds; `old` (five minutes) implies that the RPC node has ingested the ledger
that has it. These two are assumptions about the network, stated in `SagaAges`.
Prepare and submit take *different* locks, so a prepare can supersede a saga that
a submit has just marked, and two PREPARED sagas can exist once the lock of a
slow prepare has expired; both are behaviours of the model. The row records only
`status`, and so does the model. `ClaimSaga` abstracts the contract to "applied
or failed"; it follows one maintainer of one organization, which is the scope of
the prepare lock.

**The backend's other parts** follow the same rule: a step ends at an await, and
each awaited call may succeed, fail before it took effect, or fail after. A crash
is an action that drops what the process held in memory.

- *Webhooks.* A slot goes post, record, settle and, after a dead letter, remove.
  `provider` chooses between SQS (a taken message is hidden and comes back) and
  BullMQ (a job belongs to its worker until that one stalls); the two differ in
  what counts as an attempt and in what a failing removal leaves, and both are in
  the one module because the worker's code is one. `AtLeastOnce` has three sets,
  `owed`, `given` and `kept`; the refinement maps a copy that waits or is hidden
  to `owed`, a dead letter or a failed job to `kept`.
- *Indexer.* An event is its place among all that ever were on the chain. A fork
  takes the last ledgers off the chain, and others close in their stead; an event
  is marked late when its ledger takes the place of one that a cursor, a
  checkpoint or a sync is past. (A transaction that a fork includes again gets a
  new name, which makes the property harder.) `getEvents` answers from one branch,
  up to a ledger of its own, and `detectReorg` acts only when a node is behind the
  last ledger processed; detection and roll-back are one step. Rows of
  `Transaction` are keyed by the event's transaction and its index *in the page*,
  which the model keeps; `PayoutEvent` rows have no key and are counted. The filter's HyperLogLog only
  decides which keys are looked up, which the model leaves open.
- *Cache.* One entry, one change of the database, readers and refreshers that
  take a bounded time between reading and writing. `MaxLatency` bounds how long
  an operation takes, and the age limit of the property contains it.
- *Token bucket.* The script runs whole; its `now` is the calling server's clock,
  `skew[s]` behind or ahead. Time is whole seconds, as in the script.
- *Live events.* Publishing goes as far as its XADD and puts the event on the
  instance's own bus at once (`emitSSE`); the XADD is answered, is lost after it
  took effect and is sent again, or fails, which puts the event on the same bus
  once more. What a subscription is sent is named by the way it came, direct,
  through the stream or after a failed XADD, and its number there; `BusSubs` are
  the subscriptions that hear the first of these. The history of a subscription
  ends with it: the browser gives the next one a new id. A gateway handler never
  awaits and is one step. The read loop is two: `XREAD` leaves, its reply is
  handled. `$` stays `$` until the first event was read, as in the code.
- *Differential sync.* A hash stands for the result it is of. Trees are leaves,
  arrays and objects; `Compare` and `ApplyPatch` are the two halves of `diff.ts`,
  which the configuration gives to `DiffSync` as `PatchFor` and `PatchedBy`.

**The browser.** JavaScript runs one callback at a time, so a step is a callback:
a transition of the machine, an answer of the extension, a settled promise, a
message of a worker. Two tabs are two such processes over IndexedDB and a
broadcast channel. In `OfflineDrafts` an answer of the worker may come after its
request was given up (`crdtManager.ts:99`), a request to IndexedDB may be
rejected (a failing `get` and a failing `put` leave the same behind, so both are
the end of a write that did nothing), and a form may fail to be restored; nothing
of it is repeated. Time in `BrowserTx` is counted in halves of the polling
interval, and the browser's clock may be ahead of the network's by `MaxAhead`;
that bound, like the skew of the servers in `TokenBucket`, is an assumption of the
model and nothing the code checks.

## Runs

| Run | Configuration | Instance | Question |
|---|---|---|---|
| `two_orgs` | `MCTwoOrgs` | 2 organizations, 2 people, 1 token each, up to 2 admins, from before `init`; symmetric | Do enrolment and hand-overs stay sound in every order, and does no organization spend another's money? |
| `org_payouts` | `MCOrgPayouts` | 1 organization, 2 maintainers, supply 2, 3 tranches each, 2 timestamps, legal and illegal schedules and batches | Do payout records and schedules agree, does an ordered schedule pay exactly, and is every payout paid in the end? |
| `quadratic_funding` | `MCQuadraticFunding` | 2 projects, one registered later, 2 people, supply 6; or 2 callers with 2 nonces | Are the incremental statistics right, is the pool conserved, is the dust bounded? Do signed calls take effect in order? |
| `registry` | `MCPayoutRegistry` | every part at once, 2 people, 1 verified donor, supply 2 | Is everything the contract owes to anybody covered, between any two transactions, whatever a callback does? |
| `components` | `MCComponents` | lists of up to 5 nodes, every 10-bit word, rings of 2 and 3 slots; 2 wallets, 2 transactions, lists of 3 operations, 2 tabs, 2 cards | Are the contract's library modules and the browser's parts right, each in every order of its calls? |
| `backend` | `MCBackend` | one instance of each backend component, see *Bounds* | Does each keep its promise over failures, restarts and overlap? Does the worker implement at-least-once delivery? |
| `claim_saga` | `MCClaimSaga` | 2 transactions, 2 requests, 1 recovery job | Is what the sagas record true, and does only one request ever send a claim? |
| `settles` | `MCSettles` | 1 claim, 2 requests, 1 recovery job; 1 webhook tried 3 times; fair | Does every submission and every webhook come to an end? |
| `early_release` | `MCEarlyRelease` | 1 organization | violated: *the balance remains locked until `unlock_timestamp`* |
| `failed_though_paid` | `MCFailedThoughPaid` | 1 request | violated: *FAILED is a definitive execution failure* |
| `page_is_cut` | `MCPageIsCut` | 1 sync, a ledger of 2 events, pages of 1 | violated: *successfully processed events up to ledger* |
| `missed_while_alive` | `MCMissedWhileAlive` | 1 instance, 3 events | violated: *no message is missed while this process is alive* |

`quadratic_funding`, `components`, `backend` and `settles` hold parts that do not
interact in what the properties are about. A selector variable picks one at the
start and the others rest, so that the state spaces add up and do not multiply.
In `backend` the syncs and the slots of the webhook worker are symmetric, in
`components` the tabs and the dashboard's transactions: nothing chooses among them,
and no liveness is checked in these runs.

### What the passing runs show

**`two_orgs`.** `MaintainerIndex`: the per-address key and the per-organization
list name the same people, once each. `NominationIsCurrent`: an accepted
nomination is cleared, so a former admin's candidate cannot come back later.
`OrgConservation`: what came in for an organization is in its budget or was
promised to its own maintainers. Modelling this part showed one thing that is
not stated as a property because nothing in the repository promises otherwise:
`remove_admin` leaves `DataKey::OrgAdmin` as it was, so a registrant who left the
admin set still enrols maintainers.

**`org_payouts`.** `AmountAccounting` ties the two halves of a payout record to
its schedule; `OrgSolvency` the records to the balance;
`OrderedSchedulePaysExactly` the binary search to a full scan, as long as a
schedule is in order. `EveryPayoutIsPaid` is the liveness property: pauses,
later allocations, claims in between and unordered schedules delay a payout but
never strand it. It is not obvious, since `claim_payout` refuses while
`vested <= claimed`, and an early release raises `claimed`.

**`quadratic_funding`.** `StatsMatchContributions` compares sums kept one
difference at a time with sums over all contributions. `MatchingConserved` holds
over rounds that list projects twice, unregistered, or none. `DustIsBounded` is
the claim in `qf_distribute`'s comment. `CallsTakeEffectInOrder` covers calls
signed ahead of time with the same or the next nonce and submitted in any order,
any number of times. A product `pool * weight` beyond `i128` makes
`qf_distribute` panic, and it goes on panicking for that list of projects, since
neither the pool nor a weight ever shrinks but by it; the guard is in the model
(`ValidRound`).

**`registry`.** `RegistrySolvency` is the property of the whole contract:
budgets, dues, the matching pool, vault assets and time-locks together never
exceed the balance, at any point where a transaction may start. The callbacks of
flash loans and mints try every entry point. `ShareAccounting` and
`NobodyGainsFromOthers` say that the two virtual offsets keep a share at one
stroop, so no donation or rounding moves value between depositors;
`TimeLockConserved` that top-ups and claims lose and repeat nothing;
`BorrowingIsNeverFree` that the rounded-up fee is at least one stroop;
`SupplyIsConserved` that minted tokens never outlive their transaction.

**`components`, the contract's library.** `ListIsWhole` under every hint, right,
wrong or stale; `PagesCoverTheList` up to the traversal limit; `RootIsFloor`.
`TwapIsTheAverage`: the average read from the ring is that of the prices as they
were, across overwritten slots and expiring entries. `WindowIsCalm`: small moves
cannot add up to a large one inside the window.

**`components`, the browser.** `SignatureIsForTheAsker`: a claim goes on only
with the signature of its own transaction, never with that of another claim or
one left over from before, through time-outs, retries, disconnects, account
changes and reloads.
`VerdictIsFinal`: "confirmed" and "failed" on the page are what the ledger holds,
and after "refused", "timed out" or an error before sending the transaction can
no longer be applied, although polling stops and the clocks disagree; it rests
on the time bound being shorter than the polling. An error while sending says
nothing, and the property says nothing of it. `SortIsRight`: what is
signed respects the dependencies as they were when sorting began, and an order is
refused only when there is none; repeated and missing dependencies included.
`StoredDraftIsComplete`: with a draft that was in the row already and was not
reloaded, once nothing is under way every tab has every edit, whatever failed; and
the row has them too, though deltas and whole states are written over one
another, unless a whole state could not be written since the last edit. So what a
failure left behind is made up for by the next edit in any tab. What the property
leaves out the code does get wrong: see below. `NoPrefetchTwice`: aborted requests
that settle late take the entry of their successor away, and still no engine has
two requests for one target under way.

**`backend`.** `KeepsThePromise` is the refinement: whichever queue, dead letters
on or off, an accepted event leaves the queue only when it was given or kept. It
may be given twice, and the abstract specification says so.
`IndexedUpToCursor`: as long as a page is not cut, every event of the chain
behind the cursor that can be decoded is in the table, over lagging nodes,
overlapping syncs, failures, restarts and forks, except for those of a ledger that
took the place of one the indexer was past already. `NeverServedTooOld`: no
reader is given data older than the hard limit and the time operations take,
although refreshes cross invalidations.
`SpendingIsBounded`: over any stretch of time the tokens granted are within the
fresh buckets, the refill, and the seconds by which a server that is behind has
set `lastRefill` back.
`StreamArrivesInOrder`: no subscription gets an entry of the stream twice, out of
order, or with a gap, through failures of the reader and reconnects. On the
instance that indexes, the direct copies come besides: without repetition or gap
among themselves to subscriptions to `onEvent` or to a name, and not at all to
`onStreamEvent`. `EstimatesAreUpperBounds`: rounding each counter
down at each decay keeps every estimate above what it bounds.
`ShownAsAnswered`: what a call shows is the result the server computed for it,
whatever copy its patch was made against and whichever answer came first.

**`claim_saga`, `settles`.** `SuccessMeansPaid` in every interleaving of
prepare, submit and recovery. `OneRequestBroadcasts` though the submit lock may expire
during the call: the status read under the lock is what protects it. The one
request does repeat itself: `sendTransaction` again after a 429, and the same
envelope by a POST to Horizon after the last one, a time-out or a lost answer;
what it is told of a copy and whether the network takes it are independent, and
the other properties hold over these repetitions.
`RecoveryIsRight`: what recovery writes, the network never contradicts.
`EverySubmissionSettles`: no crash or lost answer leaves a saga SUBMITTED for
ever, which would turn away every later claim of that maintainer.
`EveryWebhookSettles`: with the dead letter queue on, no event circles for ever;
the receive count of SQS and the attempts of BullMQ both end it.

### What the violated runs show

1. `early_release`: each call checks that its own tranches are in order, and
   appends them to those already there. Two legal calls can merge into an
   unsorted schedule; the binary search assumes a sorted one and pays all of it
   once the *last* tranche is unlocked (`lib.rs:2223` says "guaranteed sorted").
2. `failed_though_paid`: every error of a submission is recorded as FAILED, a
   polling time-out included, and recovery looks at SUBMITTED only; the
   transaction may be applied a moment later (`claimSagaService.ts:182` and
   `:218`).
3. `page_is_cut`: a page ends after a thousand events, the cursor moves to the
   ledger of its last one (`indexerService.ts:235`), and the next sync starts
   after that ledger. The rest of the ledger is never fetched.
4. `missed_while_alive`: an instance that has read nothing yet sends `$` with
   every `XREAD` (`redisStreams.ts:144`), which means "from now on"; what was
   appended since the last one is skipped, against the comment at `:132`.

Money is conserved in the first two: `OrgSolvency`, `RegistrySolvency` and
`SuccessMeansPaid` hold beside them.

### Shown by the models, without a run of their own

The models contain these behaviours as the code has them; no passing property
hides them:

- `batch_allocate` never calls `assert_active`, while the other two ways to
  allocate do (`AUDIT_README.md:10` says paused means no allocation).
- A repaid flash loan raises the balance and writes no storage: the fee belongs
  to nobody, though `lib.rs:3207` credits it to depositors.
- `update_price` and `get_twap` write the breaker and then panic, which reverts
  the write (`twap_oracle.rs:244`); only the admin's own call opens it.
- A quiet feed whose newest observation expired accepts no update any more, and
  `initialize_asset` refuses to start it over.
- The roll-back deletes by row id what its checkpoint lists as transaction hashes
  and organization ids (`chainReorgHandler.ts:175`), so it deletes nothing, and
  payout rows, which have no key, are inserted again.
- A fork above which the node is not behind goes unnoticed: `detectReorg` looks at
  heights only (`chainReorgHandler.ts:87`), and the sync goes on from its cursor,
  so what the replaced ledgers held stays and what replaced them is not fetched.
- On the instance that indexes, a subscription to `onEvent` or to a name gets each
  event twice, directly (`indexerService.ts:193`) and from the stream, and one of
  them may overtake the other; an XADD that is sent again adds an entry of its own.
- A draft whose whole state is not written after its delta comes back from the row
  without its earlier edits: the answer took more than ten seconds
  (`crdtManager.ts:99`), a request of IndexedDB was rejected (`useOffline.ts:261`,
  `crdtManager.ts:74`), or the tab was reloaded in between. The first writes of a
  new draft may be lost, and a cleared draft comes back with the next reload.
- A webhook can be delivered more than once.

### Bounds, and why they are enough

| Bound | Value | Why |
|---|---|---|
| people | 2 | the properties relate a caller with one other: an admin and a former one, a depositor and another, a borrower and a creditor |
| organizations | 1 or 2 | two are the least that can take each other's money; the single-organization runs spend the states on schedules instead |
| verified donors | 1 in `registry`, 2 in `quadratic_funding` | what `registry` asks is whether contributions are covered, not how donors weigh against each other |
| supply | 2 to 6 | the least with two payers, a partial claim and a remainder in every division |
| tranches per maintainer (`MaxTranches`) | 3 | the least for which the bisection has an inner tranche; two allocations can merge out of order |
| timestamps (`MaxTime`) | 0..1 | locked and unlocked; the time-lock run needs one maturity |
| `MaxAmount` | supply + 1 or so | `MAX_AMOUNT_LIMIT` itself never binds in these runs, except that requests of 0 are refused |
| `MaxAdmins`, `MaxBatch`, `MaxRound` | 1 to 3 | small enough that the limits of the code (10, 100, 100) are met |
| `MaxI128` | 20 | small enough that the overflow of `pool * weight` is met |
| `MaxShare`, `MaxNonce` | 2, 1 | shares up to the supply; two calls per caller |
| nodes ever inserted | 5 | every shape of a list of three with two removed ids |
| words | 10 bits | every argument of a five-digit root; the proof covers every width |
| ring, ledgers | 2 and 3 slots, 4 ledgers | the ring wraps, the window closes, an entry expires and is extended |
| transactions, requests, tries of a send | 2, 2, 2 (1 in `settles`) | superseding needs two sagas, racing needs two requests; the liveness run has one claim, since with two its state graph is too large for the search for cycles |
| webhooks, slots | 1 event in 2 slots, 2 tries; 1 slot, 3 tries in `settles` | events share nothing but slots; two slots can hold two copies of one message; a last, a middle and a first attempt |
| syncs, ledgers | 2 syncs, 2 ledgers of an event each, 1 of which does not decode, 1 fork, pages of 2 | the least with an overlap, and with a fork that replaces some or all of what a sync is past; pages are never cut, which is the subject of `page_is_cut` |
| cache | 1 reader, 1 refresher, stale at once, expired after 3, TTL 2, latency 1 | every order of read, refresh and the one change of the database |
| bucket | 2 servers, 1 second apart, capacity 20, rate 10, 5 seconds | requests that cost less than, exactly and more than what is left; the clock goes back and forth between the servers |
| stream | 1 instance with 1 client and 2 subscriptions, 2 events published, 3 entries, batches of 2 | a subscription that hears the direct copies and one that does not; an event that is appended twice; a batch that is full and one that is not, before and after a failure of the reader; instances share nothing but the stream |
| sketch | 3 keys in 2 rows of 2 columns, 6 reads | each key collides with another in one row, and one with both |
| trees | 3 results, 2 calls at a time | arrays that grow, and a key that changes between leaf and array |
| wallet | 2 wallets, 2 accounts, 2 claims | the least that can be confused |
| browser transactions | 2, six instants, bound 2, 1 poll | the time bound ends before, with and after polling |
| batch page | 3 operations, 2 dependencies each, 3 changes | a cycle of two beside a free operation; a repeated dependency |
| drafts | 2 tabs, 2 edits, 1 reload or deletion, 1 failure | an edit of one tab written between the read and the write of the other; a failure before the last edit and one after it |
| prefetch | 2 cards, 4 flights, 5 frames, 2 mounts | a target fetched, aborted and fetched again while the first is still open |

The money runs start from the state that `init`, `register_org` and
`add_maintainer` lead to; `two_orgs` starts from before `init` and shows that
state to be one of many. Four runs do not check for deadlock, because what they
exercise really ends: the callers of `quadratic_funding` run out of nonces by the
bound; the queues, clocks, events and page of `backend` and `components` are used
up; in `settles` every claim is decided and every queue is empty. The others do.

### Fairness

`EveryPayoutIsPaid` assumes that ledgers keep closing (weak), that the admin
ends a pause (weak), and that a maintainer with something to claim keeps trying
(strong, as another pause may come in between). Nobody is assumed to be fair in
allocating, funding or pausing. The first is the network's, the other two are
people's: the property says what the contract does *not* prevent.

`EverySubmissionSettles` assumes that time passes and that the RPC node ingests
(weak), that cron starts the recovery job every minute (weak), and that its
calls to the RPC node and the database do not fail for ever (strong). Requests
are not assumed fair at all: they may crash anywhere.

`EveryWebhookSettles` assumes that hidden messages reappear and stalled jobs are
taken back (weak: it is a timer of the queue), and that a slot which can take a
message, post it, record it, settle it and remove it does so again and again
(strong, since another slot or a death may come in between), with neither the
dead letter queue nor the removal failing for ever. The worker polls without end
and each failure of those calls is logged and retried with the next receive,
which is what justifies it. The receiver is not assumed to answer. The dead
letter queue is on: when it is off, SQS's own redrive policy, which is not in the
repository, takes its place.

## Proofs

Each theorem holds for every finite set of users and organizations, every
supply, every set of schedules, batches and requests, any number of processes,
and any bound; where a component has none of these, for every value of its own
constants.

| Module | Theorem | Says |
|---|---|---|
| `AmountSums_proofs` | `SumOverPartition` | summing part by part over a partition gives the whole sum |
| `OrgPayouts_proofs` | `TypeCorrect`, `RecordsAgree`, `Solvent`, `NominationsAreCurrent`, `OrgsKeepAnAdmin` | the type invariant and four of the safety invariants of the runs |
| | `EveryStroopAccounted`, `IndexAgrees` | what an organization was given is in its budget or promised to its own people; the two indices of maintainers agree |
| | `OrderedSchedulesPayExactly` | the bisection of an ordered schedule of any length is a full scan |
| `QuadraticFunding_proofs` | `StatsAreExact`, `PoolIsConserved`, `RoundsLeaveDust`, `FundingIsAccounted` | incremental statistics, the pool and its dust, and the organizations' accounts beside them |
| | `CallsKeepTheirOrder`, `SignedCallsRefine` | signed calls take effect in order, and do nothing that plain calls could not |
| `ShareVault_proofs` | `SharesStayAtPar`, `EveryoneIsOwedTheirOwn`, `VaultIsSolvent` | a share is worth one stroop for ever; nobody gains from others; the vault is covered |
| `PayoutRegistry_proofs` | `RegistryTypeCorrect`, `RegistryIsSolvent`, `NoMintSurvives`, `LoansLeaveTheirFee`, `LockedTokensAreKept`, `SharesStayAtParInside`, `AccountsHoldTogether` | the composed contract, callbacks included |
| `ClaimSaga_proofs` | `SuccessIsPaid`, `OnlyOneRequestSends`, `RecoveryAgrees` | the safety properties of `claim_saga` |
| `Backend_proofs` | `WorkerKeepsThePromise` | the webhook worker implements `AtLeastOnce` |
| | `ClientsAreLimited`, `AnswersAreRecent`, `EventsArriveInOrder`, `EstimatesCover` | the bucket, the cache, the stream, the sketch |
| | `CursorIsHonest`, `AnswersAreShown` | the indexer, as long as no page cuts a ledger; differential sync, as long as patches lead from each result to each other |
| `Components_proofs` | `RootIsCorrect`, `SqrtNeverWraps` | the loop returns the floor of the root in any even word width, and its unsigned arithmetic stays in the word |
| | `TheListStaysWhole`, `PagesMakeTheList`, `TheWindowIsCalm`, `ReadsAreTheAverage` | the contract's list and oracle |
| | `SignaturesReachTheirClaim`, `VerdictsAreFinal`, `BatchesAreInOrder`, `DraftsAreNotLost`, `OneRequestPerTarget` | the browser's parts |

### The contract

**Sums.** A sum of amounts is the cardinality of the set of its units, so its
laws (`SumOverAdd`, `SumOverExcept`, `SumOverReindex`, `SumOverPartition`,
`TotalConcat`) follow from bijections and the library's theorems on finite sets.

**Induction.** The provers cannot instantiate an induction theorem with an
operator, but they can with a set: `NatSetInduction` says that a set of numbers
which has 0 and with each its successor has them all. A recursive function is
reached in two such inductions, one that a function with its equation exists, one
for its values. The bisection, the walks and pages of the list and the sums that
grow with a schedule are proved about in this way.

**Square root.** `LoopInvariant` names the place value `p` tried next and the
part `r` of the root found so far: `one = p*p`, `res = 2rp`, `op = n - r*r`, and
the root lies in `r .. r + 2p - 1`, inside the word. `RootIsFloor` alone is not
inductive: it says nothing before the loop ends.

**Payouts.** Solvency is not inductive without the records: that a claim pays no
more than the record owes rests on `AmountAccounting` and on a lemma that the
bisection returns a prefix of the schedule, sorted or not
(`VestedAmountBound`). A batch takes one total from the budget and gives it out
entry by entry; that the two agree, with one maintainer in several entries, is
`BatchTranchesTotal`, from `SumOverPartition`. `OrgConservation` needs
`BudgetNeedsOrg`: registering resets a budget, so an organization that is not
registered must have none. `OrderedSchedulePaysExactly` adds `ClaimedInOrder`:
while a schedule is in order no more was claimed under it than is unlocked, which
survives further allocations because appending keeps a schedule unordered once it
is, and time, because what is unlocked only grows. That the bisection ends beside
the last unlocked tranche is `EndsAt`, by induction on the distance of its bounds.

**Quadratic funding.** `Describes` says what a project's statistics are to be;
one contribution changes one term of each sum. A round pays each listed project
the floor of its share. That the floors sum to no more than the pool, and to less
than a stroop per project below it, is proved from the sums of weights, with the
lists that name a project twice refused by `ValidRound`. `WeightNeedsOrg` plays
the part of `BudgetNeedsOrg`. Signed calls keep `NonceTypeOK`; each maps to the
plain call it carries (`SignedCallsRefine`), and their order is that of a counter
that only grows.

**Share vault.** The invariant is the conjunction of the type, `ShareAccounting`,
`NobodyGainsFromOthers` and `VaultSolvency`. With assets equal to shares both
conversions divide a multiple of their divisor, so neither rounding bites
(`OneToOne`); what a withdrawal takes is bounded by the caller's shares and those
by their sum (`ShareBound`), so solvency survives it.

**The whole registry.** `RegistryIInv` has two halves. `Books` is what each part
keeps in its own records; no part writes another's, and every one of them holds
at any moment. `Backed` compares all of them with the one balance: outside a
flash call directly, and inside one with the *entry* balance that the call will
insist on, since a callback may move tokens but not records. Every action is
shown to be `Settled`: it adds no more to what is owed than to what is held. That
a loan's fee is at least a stroop and that a mint is burnt are then facts about
the two ways a flash call may end.

**List.** The links hold one chain (`Chain`): a sequence of all nodes, sorted,
that `next` reads forward and `prev` backward. Inserting and removing make a new
chain out of the old one, whatever the hint; a walk of `k` rounds is a stretch of
it (`Cut`), which gives both the pages and the place an insertion finds.

**Oracle.** `RingHoldsTicks` ties the ring to the history of prices,
`TicksFollow` says that each tick charges the time since the one before to the
price of that one, so a difference of cumulative prices telescopes to the area
under the prices (`Charge`); `TicksAreCalm` is `WindowIsCalm` for all ticks that
were ever in the ring together. Expiring entries matter to neither: what is read
is touched first, and a quiet feed is refused.

### The backend

**Claim saga.** `VerdictsAreFinal` says of every place a verdict is written down
(a row, a request about to write, a recovery job) that the network reached it for
good. `OneWay` is why no second request sends a claim: between the check of the status and
the update that ends it a request holds the lock, and when the lock expires after
that, the status has changed. `RowsStay` connects rows with those who found them.

**Webhooks.** The step lemma of the refinement maps each action of the worker to
an action of `AtLeastOnce` or to a stutter. It needs to know that a copy is taken
off the queue only for an event that was given or kept (`SlotsAreRight`), which
under BullMQ rests on a job having one worker (`JobsAreHeldOnce`) and under SQS
does not: there a message may be in two slots.

**Bucket.** `BucketIsPaidFor` is an account: tokens spent and tokens left, put at
the time last written, are within the buckets granted and the refill. Setting
the clock back costs what it sets back, and a bucket that Redis drops was idle
for longer than a refill takes.

**Cache.** Each value under way carries its age: what a reader or refresher holds
is younger than the operation that got it, an entry as old as its TTL lacks
(`AgesAreKnown`). The age limit is the sum along the longest path.

**Stream.** A subscription ends at the reader's last id as long as its controller
is open (`EndsAt`), so the next entry handed on is its next; the direct copies it has end
at what the instance has published. **Sketch.** Every
counter of a key has seen its accesses, also after both were halved.

**Indexer.** `LedgersAreIndexed` says of each ledger that is, was or will become
the cursor (a checkpoint, the start and the end of each sync under way) that all
rows up to it are there but the late ones, or will be with the page in hand. A
fork takes rows' events off the chain only, and what closes afterwards lies above
every such ledger or is late. The theorem has a
hypothesis, `NoLedgerIsCut`: ledgers have at most one event or a page holds all
there are. Without it the property is false, which is the run `page_is_cut`.

**Differential sync.** A browser keeps at most one entry, whose data are what its
hash names (`Genuine`), and every answer is right for the entry its call was sent
with (`Answers`). That a patch made from one result to another leads there is the
hypothesis `PatchesLead`; the rest is the protocol's.

### The browser

**Wallet.** Nobody waits on an idle machine, and a claim that waits while the
machine signs asked for that signature (`WaitersAreKnown`). **Prefetch.** The
engine may lose a live request from its map but never from the set of those
fired (`LiveOnesAreRemembered`). **Transactions.** For each submission:
its transaction was built for it with a bound its clock allows (`OwnTx`), polls
lie an interval apart (`Polling`), and an answer is what the ledger says
(`Answers`); a browser that polled to the end is past the time bound of its
transaction, by the module's assumption. **Drafts.** An edit is in a tab's
document or on its way there (`EditsArrive`); every write that read the row
found it (`RowIsFound`); and unless a whole state was lost since the last edit,
the last report of a tab that is still to be written holds the whole of its
document, or its next one will (`LastReportIsWhole`), so the row holds a whole
document or will (`RowCatchesUp`). The edit that ends a loss reports the whole
state of its own tab and sends every other tab what makes it report. **Batches.** While the sort runs, the degree of
an operation counts the dependencies it waits for, and is zero just for those that
are sorted or queued (`Sorting`); so what is left over when the queue is empty
waits for each other, and by the first of them in the order nothing sorted does.

Assumptions: the `ASSUME`s of the modules (finite sets of users and
organizations, an address for the contract distinct from them, natural-number
bounds, a time bound shorter than the polling), which TLC evaluates on every run.

## Only model-checked

- Liveness and everything that speaks of fairness, `EveryPayoutIsPaid`,
  `EverySubmissionSettles` and `EveryWebhookSettles`: the prover has no rule for
  `ENABLED`.
- `PatchesLead`, the hypothesis of `AnswersAreShown`: the operators of
  `TreePatches` are recursive over trees, which the prover does not follow.
  `backend` checks `ShownAsAnswered` with them, between any two of its results.

## Not modelled

- Storage TTL of the contract's persistent entries and its events: archived
  entries are restored before use, and events are output. (The oracle's
  temporary entries do expire in the model.)
- A real asset contract offers no `total_supply`, which `flash_mint` calls; the
  model assumes a token that has it.
- `fixed_point.rs`'s Q64 arithmetic, the lazy vesting searches: nothing calls
  them. Capability tokens and the fractional wrapper: state of their own that no
  payout touches.
- BLS, ZK, Ethereum proofs, RLP, XDR: cryptography and decoding without a
  protocol of their own. `amm-math`: stateless formulas over 128-bit words.
- `sagaOrchestrator.ts`, `webhookPartitionRouter.ts`: only their tests use them.
  `crdtSyncService.ts`: nothing starts it, and the browser's sync engine never
  finds an update to push, so `OfflineDrafts` ends at the row in IndexedDB.
- The connections of server-sent events, which pass the bus on without state (what
  `sse.ts` puts on the bus is in `LiveEvents`), the response and etag
  middlewares, the audit log of the claim saga, signatures of webhooks.
- Retries with back-off and the fall-back between RPC nodes (`withRetry`,
  `horizonFallback`, `sorobanRpcService`) of reads, which change no state however
  often they are repeated. The call that is not a read, sending a claim, is
  repeated in `ClaimSaga`, to the RPC node and to Horizon; where a lagging or
  failing node matters to a read, `Indexer`, `ClaimSaga` and `BrowserTx` have it.
- Authentication, API keys, JWT capabilities, HTTP and tRPC routing: checks on
  one request, formats, and one row per key.
- The rest of the frontend: rendering, charts and their workers, decoding
  workers, the signing frame, optimistic displays, the Markov prefetcher. They
  draw, decode or guess; nothing that is signed or stored rests on them, and some
  (`useOptimisticSwap`, `useOptimisticMutation`, `xdrWorkerPool`,
  `useSigningSandbox`) no page mounts.
- The browser's file cache of funding histories (`opfsStorage.ts`): its worker
  answers without the message id its client waits for, so every call ends by
  time-out and `useOPFSStorage` falls back to the network; there is no stored
  state to model.
- Deployment.

Most of the repository's lines are of the last four kinds, so the modules stand
for a small part of its text and for most of its protocol state.

## Plan

The order follows the money: first the contract that holds it, then the saga
that pays it out, then what records and announces it, then the browser. Every
module of the table above is done, with the runs and theorems listed. What is
left is to prove more:

1. Step lemmas for the liveness properties: what each fair action does to the
   measure that the argument counts down.
2. What the violated runs leave over: which schedules `early_release` does not
   touch, and when FAILED is definitive after all.

## Hazards

What is hard to test in this code, each at its line with the properties that
watch over it, is listed in `PROJECT.json` under `hazards`. Those without a
property carry a note: the code does what a property would forbid, and the model
shows it (see *Shown by the models, without a run of their own*).
