----------------------------- MODULE ClaimSaga ------------------------------
(***************************************************************************)
(* The claim saga of the backend (claimSagaService.ts) for one maintainer  *)
(* of one organization: a claim transaction is prepared, signed by the     *)
(* maintainer, submitted, and its fate recorded in the database, while     *)
(* other requests and the recovery job do the same in other processes.     *)
(* A step ends where the code awaits the database or the network; taking a *)
(* lock belongs to the read that follows it, and releasing it to the step  *)
(* before.                                                                 *)
(*                                                                         *)
(* External: the network and its RPC node, which ingests ledgers with a    *)
(* delay, Horizon, the other way into the network, and Redis, whose locks  *)
(* expire.                                                                 *)
(***************************************************************************)
EXTENDS Integers, FiniteSets

CONSTANTS Txs,         \* claim transactions, numbered as they are built
          Handlers,    \* requests being served
          Recoverers,  \* recovery jobs
          SendTries,   \* maxRetries of withRetry
          NoTx, Nobody

ASSUME SagaAssumption ==
  /\ Txs \subseteq Nat \ {0} /\ NoTx \notin Txs /\ Nobody \notin Handlers
  /\ SendTries \in Nat \ {0}

VARIABLES saga,         \* ClaimSaga.status by id, "NONE" without a row
          age,          \* time since ClaimSaga.updatedAt
          prepareLock,  \* lock:claim:<org>:<maintainer>, its holder
          submitLock,   \* lock:submit:<hash>, its holder
          handler,      \* where each request is
          recovery,     \* where each recovery job is
          ledger,       \* the transaction on the network
          rpc,          \* what getTransaction answers
          senders       \* history: how many requests have put a transaction on the wire

rows == <<saga, age>>
locks == <<prepareLock, submitLock>>
network == <<ledger, rpc>>
sagaVars == <<rows, locks, handler, recovery, network, senders>>

Idle == [at |-> "idle", tx |-> NoTx, todo |-> {}, tries |-> 0]
Resting == [list |-> {}, tx |-> NoTx, decision |-> "none"]

SagaTypeOK ==
  /\ saga \in [Txs -> {"NONE", "PREPARED", "SUBMITTED", "SUCCESS", "FAILED"}]
  /\ age \in [Txs -> {"fresh", "stalled", "old"}]
  /\ prepareLock \in Handlers \union {Nobody}
  /\ submitLock \in [Txs -> Handlers \union {Nobody}]
  /\ ledger \in [Txs -> {"unknown", "valid", "sent", "applied", "failed", "dead"}]
  /\ rpc \in [Txs -> {"NOT_FOUND", "SUCCESS", "FAILED"}]
  /\ \A h \in Handlers : handler[h].tx \in Txs \union {NoTx}

SagaInit ==
  /\ saga = [t \in Txs |-> "NONE"]
  /\ age = [t \in Txs |-> "fresh"]
  /\ prepareLock = Nobody
  /\ submitLock = [t \in Txs |-> Nobody]
  /\ handler = [h \in Handlers |-> Idle]
  /\ recovery = [r \in Recoverers |-> Resting]
  /\ ledger = [t \in Txs |-> "unknown"]
  /\ rpc = [t \in Txs |-> "NOT_FOUND"]
  /\ senders = [t \in Txs |-> 0]

GoTo(h, place) == handler' = [handler EXCEPT ![h].at = place, ![h].tries = 0]
Finish(h) == handler' = [handler EXCEPT ![h] = Idle]

\* An update looks at nothing but the id, and renews updatedAt.
Record(t, status) ==
  /\ saga' = [saga EXCEPT ![t] = status]
  /\ age' = [age EXCEPT ![t] = "fresh"]

\* releaseLock deletes a lock only while it holds the caller's token.
LockAfterRelease(lock, h) == IF lock = h THEN Nobody ELSE lock

ReleasePrepare(h) ==
  /\ prepareLock' = LockAfterRelease(prepareLock, h)
  /\ Finish(h)
  /\ UNCHANGED submitLock

ReleaseSubmit(h) ==
  /\ submitLock' = [submitLock EXCEPT ![handler[h].tx] = LockAfterRelease(@, h)]
  /\ Finish(h)
  /\ UNCHANGED prepareLock

-----------------------------------------------------------------------------
(* prepareClaim.                                                           *)

PrepareClaim(h) ==
  /\ handler[h] = Idle
  /\ prepareLock = Nobody
  /\ prepareLock' = h
  /\ handler' = [handler EXCEPT ![h].at = "supersede",
                   ![h].todo = {<<t, saga[t]>> : t \in
                     {u \in Txs : saga[u] \in {"PREPARED", "SUBMITTED"}}}]
  /\ UNCHANGED <<rows, submitLock, recovery, network, senders>>

\* Each saga found is failed as superseded or expired, or stops the request, by
\* the status it had when it was found.
Supersede(h) ==
  /\ handler[h].at = "supersede"
  /\ \E found \in handler[h].todo :
       \/ /\ found[2] = "SUBMITTED"
          /\ ReleasePrepare(h)
          /\ UNCHANGED rows
       \/ /\ found[2] = "PREPARED"
          /\ Record(found[1], "FAILED")
          /\ handler' = [handler EXCEPT ![h].todo = @ \ {found}]
          /\ UNCHANGED locks
  /\ UNCHANGED <<recovery, network, senders>>

\* Reads the balance and builds a transaction that is valid for thirty seconds.
BuildTransaction(h) ==
  /\ handler[h].at = "supersede" /\ handler[h].todo = {}
  /\ \E t \in Txs :
       /\ ledger[t] = "unknown" /\ \A u \in 1 .. t - 1 : ledger[u] # "unknown"
       /\ ledger' = [ledger EXCEPT ![t] = "valid"]
       /\ handler' = [handler EXCEPT ![h].at = "save", ![h].tx = t]
  /\ UNCHANGED <<rows, locks, recovery, rpc, senders>>

SaveSaga(h) ==
  /\ handler[h].at = "save"
  /\ Record(handler[h].tx, "PREPARED")
  /\ ReleasePrepare(h)
  /\ UNCHANGED <<recovery, network, senders>>

-----------------------------------------------------------------------------
(* submitClaim.                                                            *)

\* For a status other than PREPARED the request is answered from the row.
SubmitClaim(h, t) ==
  /\ handler[h] = Idle
  /\ saga[t] = "PREPARED"
  /\ handler' = [handler EXCEPT ![h].at = "lock", ![h].tx = t]
  /\ UNCHANGED <<rows, locks, recovery, network, senders>>

\* A slip: trusting the status read before the lock was taken.
NotReadAgain(t) == TRUE
StillPrepared(t) == saga[t] = "PREPARED"

\* Re-verify status under lock.
LockAndCheck(h) ==
  LET t == handler[h].tx
  IN  /\ handler[h].at = "lock"
      /\ IF submitLock[t] = Nobody /\ StillPrepared(t)
         THEN submitLock' = [submitLock EXCEPT ![t] = h] /\ GoTo(h, "mark")
         ELSE UNCHANGED submitLock /\ Finish(h)
      /\ UNCHANGED <<rows, prepareLock, recovery, network, senders>>

MarkSubmitted(h) ==
  /\ handler[h].at = "mark"
  /\ Record(handler[h].tx, "SUBMITTED")
  /\ GoTo(h, "send")
  /\ UNCHANGED <<locks, recovery, network, senders>>

\* The network may take a transaction from any copy of it, whatever the sender is
\* told of that copy.
PutOnWire(t) ==
  \/ ledger[t] = "valid" /\ ledger' = [ledger EXCEPT ![t] = "sent"]
  \/ UNCHANGED ledger

\* A call turned away with 429 is repeated while tries remain.
MayRetry(h) == handler[h].tries + 1 < SendTries

\* PENDING, DUPLICATE and TRY_AGAIN_LATER are polled; ERROR throws.  So do other
\* errors; after the last 429, a time-out or a lost answer Horizon is asked, if there
\* is one.
AfterSending == {"poll", "failed", "horizon"}

SendTransaction(h) ==
  LET t == handler[h].tx
  IN  /\ handler[h].at = "send"
      /\ senders' = IF handler[h].tries = 0 THEN [senders EXCEPT ![t] = @ + 1] ELSE senders
      /\ \/ PutOnWire(t) /\ \E place \in AfterSending : GoTo(h, place)
         \/ /\ MayRetry(h)
            /\ handler' = [handler EXCEPT ![h].tries = @ + 1]
            /\ UNCHANGED ledger
      /\ UNCHANGED <<rows, locks, recovery, rpc>>

\* Horizon gets the same envelope by a POST of its own, and answers when it is in a
\* ledger, or with a failure, which throws as no answer does: as the polling does.
PostToHorizon(h) ==
  /\ handler[h].at = "horizon"
  /\ PutOnWire(handler[h].tx)
  /\ GoTo(h, "poll")
  /\ UNCHANGED <<rows, locks, recovery, rpc, senders>>

\* Thirty attempts, of Horizon where the RPC node fails; the last one, a FAILED
\* answer and an error all throw.
PollTransaction(h) ==
  /\ handler[h].at = "poll"
  /\ \/ /\ rpc[handler[h].tx] = "SUCCESS" \/ ledger[handler[h].tx] = "applied"
        /\ GoTo(h, "succeeded")
     \/ GoTo(h, "failed")
  /\ UNCHANGED <<rows, locks, recovery, network, senders>>

Settle(h) ==
  /\ \/ handler[h].at = "succeeded" /\ Record(handler[h].tx, "SUCCESS")
     \/ handler[h].at = "failed" /\ Record(handler[h].tx, "FAILED")
  /\ ReleaseSubmit(h)
  /\ UNCHANGED <<recovery, network, senders>>

-----------------------------------------------------------------------------
(* Failures.                                                               *)

\* The database or the RPC node throws: the request ends in its finally block.
Throw(h) ==
  /\ \/ handler[h].at \in {"supersede", "save"} /\ ReleasePrepare(h)
     \/ handler[h].at \in {"mark", "succeeded", "failed"} /\ ReleaseSubmit(h)
  /\ UNCHANGED <<rows, recovery, network, senders>>

\* The process dies: its locks stay until they expire.
Crash(h) ==
  /\ handler[h] # Idle
  /\ handler' = [handler EXCEPT ![h] = Idle]
  /\ UNCHANGED <<rows, locks, recovery, network, senders>>

\* A lock outlives the database calls it is taken for, and may expire once its
\* holder has called the network or is gone.
PrepareLockExpires ==
  /\ prepareLock # Nobody
  /\ handler[prepareLock].at = "supersede" => handler[prepareLock].todo = {}
  /\ prepareLock' = Nobody
  /\ UNCHANGED <<rows, submitLock, handler, recovery, network, senders>>

SubmitLockExpires(t) ==
  /\ submitLock[t] # Nobody
  /\ ~(handler[submitLock[t]].tx = t /\ handler[submitLock[t]].at = "mark")
  /\ submitLock' = [submitLock EXCEPT ![t] = Nobody]
  /\ UNCHANGED <<rows, prepareLock, handler, recovery, network, senders>>

-----------------------------------------------------------------------------
(* recoverStalledSagas.                                                    *)

RecoverStalled(r) ==
  LET stalled == {t \in Txs : saga[t] = "SUBMITTED" /\ age[t] # "fresh"}
  IN  /\ recovery[r] = Resting
      /\ stalled # {}
      /\ recovery' = [recovery EXCEPT ![r].list = stalled]
      /\ UNCHANGED <<rows, locks, handler, network, senders>>

\* Slips: taking anything but FAILED for success; not waiting until the saga is old;
\* never giving up.
DecideOptimistic(t) == IF rpc[t] = "FAILED" THEN "FAILED" ELSE "SUCCESS"
DecideAtOnce(t) == IF rpc[t] = "NOT_FOUND" THEN "FAILED" ELSE rpc[t]
DecideNever(t) == IF rpc[t] = "NOT_FOUND" THEN "none" ELSE rpc[t]

Decide(t) ==
  IF rpc[t] # "NOT_FOUND" THEN rpc[t] ELSE IF age[t] = "old" THEN "FAILED" ELSE "none"

CheckStatus(r, t) ==
  /\ recovery[r].tx = NoTx /\ t \in recovery[r].list
  /\ recovery' = [recovery EXCEPT ![r] =
                    [list |-> @.list \ {t}, tx |-> t, decision |-> Decide(t)]]
  /\ UNCHANGED <<rows, locks, handler, network, senders>>

\* getTransactionStatus or the update throws: logged, on to the next saga;
\* or the process dies, which skips them all.
SkipSaga(r) ==
  /\ \/ /\ recovery[r].tx = NoTx
        /\ \E t \in recovery[r].list :
             recovery' = [recovery EXCEPT ![r].list = @ \ {t}]
     \/ /\ recovery[r].tx # NoTx
        /\ recovery' = [recovery EXCEPT ![r].tx = NoTx, ![r].decision = "none"]
  /\ UNCHANGED <<rows, locks, handler, network, senders>>

SettleStalled(r) ==
  /\ recovery[r].tx # NoTx
  /\ IF recovery[r].decision = "none" THEN UNCHANGED rows
     ELSE Record(recovery[r].tx, recovery[r].decision)
  /\ recovery' = [recovery EXCEPT ![r].tx = NoTx, ![r].decision = "none"]
  /\ UNCHANGED <<locks, handler, network, senders>>

-----------------------------------------------------------------------------
(* The network and time.                                                   *)

\* claim_payout pays or fails.  Either way it uses up the account's sequence
\* number, which every transaction built before it carries too.
ApplyTransaction(t) ==
  /\ ledger[t] = "sent"
  /\ \E outcome \in {"applied", "failed"} :
       ledger' = [u \in Txs |-> IF u = t THEN outcome
                                ELSE IF ledger[u] \in {"valid", "sent"} THEN "dead"
                                ELSE ledger[u]]
  /\ UNCHANGED <<rows, locks, handler, recovery, rpc, senders>>

\* The thirty seconds are over.
TransactionExpires(t) ==
  /\ ledger[t] \in {"valid", "sent"}
  /\ ledger' = [ledger EXCEPT ![t] = "dead"]
  /\ UNCHANGED <<rows, locks, handler, recovery, rpc, senders>>

RpcIngests(t) ==
  /\ rpc[t] = "NOT_FOUND"
  /\ ledger[t] \in {"applied", "failed"}
  /\ rpc' = [rpc EXCEPT ![t] = IF ledger[t] = "applied" THEN "SUCCESS" ELSE "FAILED"]
  /\ UNCHANGED <<rows, locks, handler, recovery, ledger, senders>>

\* A minute after the submission its transaction has been applied or has expired;
\* five minutes after, the RPC node has caught up.
SagaAges(t) ==
  /\ saga[t] = "SUBMITTED"
  /\ \/ /\ age[t] = "fresh"
        /\ ledger[t] \in {"applied", "failed", "dead"}
        /\ age' = [age EXCEPT ![t] = "stalled"]
     \/ /\ age[t] = "stalled"
        /\ ledger[t] = "dead" \/ rpc[t] # "NOT_FOUND"
        /\ age' = [age EXCEPT ![t] = "old"]
  /\ UNCHANGED <<saga, locks, handler, recovery, network, senders>>

-----------------------------------------------------------------------------

HandlerStep(h) ==
  \/ PrepareClaim(h) \/ Supersede(h) \/ BuildTransaction(h) \/ SaveSaga(h)
  \/ \E t \in Txs : SubmitClaim(h, t)
  \/ LockAndCheck(h) \/ MarkSubmitted(h)
  \/ SendTransaction(h) \/ PostToHorizon(h)
  \/ PollTransaction(h) \/ Settle(h)
  \/ Throw(h) \/ Crash(h)

RecoveryStep(r) ==
  \/ RecoverStalled(r)
  \/ \E t \in Txs : CheckStatus(r, t)
  \/ SkipSaga(r) \/ SettleStalled(r)

NetworkStep(t) ==
  \/ ApplyTransaction(t) \/ TransactionExpires(t) \/ RpcIngests(t) \/ SagaAges(t)
  \/ SubmitLockExpires(t)

SagaNext ==
  \/ \E h \in Handlers : HandlerStep(h)
  \/ \E r \in Recoverers : RecoveryStep(r)
  \/ \E t \in Txs : NetworkStep(t)
  \/ PrepareLockExpires

SagaSpec == SagaInit /\ [][SagaNext]_sagaVars

\* Time passes and the RPC node ingests; cron starts the recovery job every
\* minute, and neither crashes nor failing calls defeat it for ever.
Fairness ==
  /\ \A t \in Txs : /\ WF_sagaVars(TransactionExpires(t))
                    /\ WF_sagaVars(RpcIngests(t))
                    /\ WF_sagaVars(SagaAges(t))
  /\ \A r \in Recoverers : /\ WF_sagaVars(RecoverStalled(r))
                           /\ SF_sagaVars(SettleStalled(r))
                           /\ \A t \in Txs : SF_sagaVars(CheckStatus(r, t))

FairSagaSpec == SagaSpec /\ Fairness

-----------------------------------------------------------------------------
(* Properties.                                                             *)

\* Whatever races, crashes and expires: a saga is recorded as SUCCESS only when
\* its transaction was applied.
SuccessMeansPaid == \A t \in Txs : saga[t] = "SUCCESS" => ledger[t] = "applied"

\* A prepared claim is put on the wire by one request only, also when several submit
\* it at once and its lock expires during the call: the copies of it are those that
\* the tries of one sendTransaction and the POST to Horizon after them make.
OneRequestBroadcasts == \A t \in Txs : senders[t] <= 1

\* What the recovery job writes agrees with the network for good: it fails no saga
\* whose transaction was, or can still be, applied.
RecoveryIsRight ==
  [][\A r \in Recoverers, t \in Txs :
       SettleStalled(r) /\ saga'[t] # saga[t] =>
         ledger[t] \in IF saga'[t] = "SUCCESS" THEN {"applied"} ELSE {"failed", "dead"}]_sagaVars

\* No saga stays SUBMITTED, which would turn away every later claim of the
\* maintainer: not after a crash before the broadcast, nor after a lost answer.
EverySubmissionSettles ==
  \A t \in Txs : saga[t] = "SUBMITTED" ~> saga[t] # "SUBMITTED"

\* "If it's a definitive execution failure [...] rollback state"; "For general
\* network/timeout errors, keep as SUBMITTED" (comments of submitClaim): a saga is
\* recorded as FAILED only if its transaction was not applied.
FailedMeansUnpaid == \A t \in Txs : saga[t] = "FAILED" => ledger[t] # "applied"
=============================================================================
