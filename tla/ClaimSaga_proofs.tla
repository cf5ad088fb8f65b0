-------------------------- MODULE ClaimSaga_proofs --------------------------
(***************************************************************************)
(* Proofs about the claim saga, for any number of requests, recovery jobs  *)
(* and transactions: what is recorded as a success was paid, no two        *)
(* requests broadcast one claim, and the recovery job never contradicts    *)
(* the network.                                                            *)
(*                                                                         *)
(* Two facts carry the proof.  What anyone learns of the network is final: *)
(* applied, failed and dead are never left again.  And the way to the      *)
(* broadcast is one-way: a saga is PREPARED once, before anything is sent, *)
(* and the lock that covers the check of that status covers the update     *)
(* that ends it.                                                           *)
(***************************************************************************)
EXTENDS ClaimSaga, TLAPS

Places ==
  {"idle", "supersede", "save", "lock", "mark", "send", "horizon", "poll",
   "succeeded", "failed"}
Claiming == Places \ {"idle", "supersede"}
Statuses == {"NONE", "PREPARED", "SUBMITTED", "SUCCESS", "FAILED"}

HandlerState ==
  [at : Places, tx : Txs \union {NoTx}, todo : SUBSET (Txs \X Statuses),
   tries : Nat]
RecoveryState ==
  [list : SUBSET Txs, tx : Txs \union {NoTx},
   decision : {"none", "SUCCESS", "FAILED"}]

HandlersOK ==
  /\ handler \in [Handlers -> HandlerState]
  /\ \A h \in Handlers : handler[h].at \in Claiming => handler[h].tx \in Txs

StateOK ==
  /\ SagaTypeOK
  /\ HandlersOK
  /\ recovery \in [Recoverers -> RecoveryState]
  /\ senders \in [Txs -> Nat]

\* A verdict that is written down anywhere was reached by the network for good.
Final(t, verdict) ==
  /\ verdict = "SUCCESS" => ledger[t] = "applied"
  /\ verdict = "FAILED" => ledger[t] \in {"failed", "dead"}

VerdictsAreFinal ==
  /\ SuccessMeansPaid
  /\ \A t \in Txs : Final(t, rpc[t])
  /\ \A t \in Txs : age[t] = "old" => ledger[t] = "dead" \/ rpc[t] # "NOT_FOUND"
  /\ \A h \in Handlers :
       handler[h].at = "succeeded" => ledger[handler[h].tx] = "applied"
  /\ \A r \in Recoverers :
       recovery[r].tx # NoTx => Final(recovery[r].tx, recovery[r].decision)

\* Everyone who will write to a saga's row, the request that is about to insert it
\* apart, found the row there.
RowsStay ==
  /\ \A t \in Txs : saga[t] # "NONE" => ledger[t] # "unknown"
  /\ \A h \in Handlers :
       /\ handler[h].at = "supersede" =>
            \A found \in handler[h].todo : saga[found[1]] # "NONE"
       /\ handler[h].at \in Claiming \ {"save"} => saga[handler[h].tx] # "NONE"
       /\ handler[h].at = "save" =>
            saga[handler[h].tx] = "NONE" /\ ledger[handler[h].tx] # "unknown"
  /\ \A g, h \in Handlers :
       handler[g].at = "save" /\ handler[h].at = "save"
         /\ handler[g].tx = handler[h].tx => g = h
  /\ \A r \in Recoverers :
       /\ \A t \in recovery[r].list : saga[t] # "NONE"
       /\ recovery[r].tx # NoTx => saga[recovery[r].tx] # "NONE"

AboutToSend(h) == handler[h].at \in {"mark", "send", "horizon"}
FirstTry(h) == handler[h].at = "mark" \/ (handler[h].at = "send" /\ handler[h].tries = 0)

\* One request at a time is on its way to the broadcast, and before there is one
\* only the holder of the lock can have left the status PREPARED.
OneWay ==
  /\ \A t \in Txs : saga[t] \in {"NONE", "PREPARED"} => senders[t] = 0
  /\ \A h \in Handlers :
       /\ FirstTry(h) => senders[handler[h].tx] = 0
       /\ handler[h].at = "mark" => submitLock[handler[h].tx] = h
       /\ handler[h].at \in {"send", "horizon"} =>
            saga[handler[h].tx] \notin {"NONE", "PREPARED"}
  /\ \A g, h \in Handlers :
       AboutToSend(g) /\ AboutToSend(h) /\ handler[g].tx = handler[h].tx => g = h

SagaIInv == StateOK /\ VerdictsAreFinal /\ RowsStay /\ OneWay /\ OneRequestBroadcasts

-----------------------------------------------------------------------------
(* How a request moves.                                                    *)

\* The request h is now at this place, with this transaction, these sagas still to
\* supersede and this many tries behind it; the other requests are where they were.
Moved(h, place, tx, todo, tries) ==
  /\ HandlersOK'
  /\ handler'[h].at = place /\ handler'[h].tx = tx /\ handler'[h].todo = todo
  /\ handler'[h].tries = tries
  /\ \A g \in Handlers \ {h} : handler'[g] = handler[g]

\* A request that is given a well-formed state has moved there.
LEMMA MoveEffect ==
  ASSUME HandlersOK, NEW h \in Handlers, NEW place \in Places,
         NEW tx \in Txs \union {NoTx}, NEW todo \in SUBSET (Txs \X Statuses), NEW tries \in Nat,
         place \in Claiming => tx \in Txs,
         handler' = [handler EXCEPT ![h] =
                       [at |-> place, tx |-> tx, todo |-> todo, tries |-> tries]]
  PROVE  Moved(h, place, tx, todo, tries)
<1> DEFINE s == [at |-> place, tx |-> tx, todo |-> todo, tries |-> tries]
<1>1. s \in HandlerState BY DEF HandlerState
<1>2. handler \in [Handlers -> HandlerState] BY DEF HandlersOK
<1>3. s.at = place /\ s.tx = tx /\ s.todo = todo /\ s.tries = tries OBVIOUS
<1> HIDE DEF s
<1>4. handler' = [handler EXCEPT ![h] = s] BY DEF s
<1>5. handler' \in [Handlers -> HandlerState] BY <1>1, <1>2, <1>4
<1>6. handler'[h] = s /\ \A g \in Handlers \ {h} : handler'[g] = handler[g] BY <1>2, <1>4
<1>7. ASSUME NEW g \in Handlers, handler'[g].at \in Claiming PROVE handler'[g].tx \in Txs
  BY <1>3, <1>6, <1>7 DEF HandlersOK
<1> QED BY <1>3, <1>5, <1>6, <1>7 DEF Moved, HandlersOK

\* A request is always in one of its states.
LEMMA HandlerParts ==
  ASSUME HandlersOK, NEW h \in Handlers
  PROVE  /\ handler[h].at \in Places /\ handler[h].tx \in Txs \union {NoTx}
         /\ handler[h].at \in Claiming => handler[h].tx \in Txs
BY DEF HandlersOK, HandlerState

\* What prepareClaim has found are sagas and what their status was.
LEMMA TodoParts ==
  ASSUME HandlersOK, NEW h \in Handlers
  PROVE  handler[h].todo \in SUBSET (Txs \X Statuses) /\ handler[h].tries \in Nat
BY DEF HandlersOK, HandlerState

\* A request is the record of its four fields.
LEMMA HandlerFields ==
  ASSUME HandlersOK, NEW h \in Handlers
  PROVE  handler[h] = [at |-> handler[h].at, tx |-> handler[h].tx, todo |-> handler[h].todo,
                       tries |-> handler[h].tries]
BY DEF HandlersOK, HandlerState

\* Going to another place, a request keeps its transaction and has no try behind it.
LEMMA GoToEffect ==
  ASSUME HandlersOK, NEW h \in Handlers, NEW place \in Places, GoTo(h, place),
         place \in Claiming => handler[h].tx \in Txs
  PROVE  Moved(h, place, handler[h].tx, handler[h].todo, 0)
<1>1. [handler[h] EXCEPT !.at = place, !.tries = 0]
        = [at |-> place, tx |-> handler[h].tx, todo |-> handler[h].todo, tries |-> 0]
  <2>1. [[at |-> handler[h].at, tx |-> handler[h].tx, todo |-> handler[h].todo,
          tries |-> handler[h].tries] EXCEPT !.at = place]
          = [at |-> place, tx |-> handler[h].tx, todo |-> handler[h].todo,
             tries |-> handler[h].tries]
    OBVIOUS
  <2>2. [[at |-> place, tx |-> handler[h].tx, todo |-> handler[h].todo,
          tries |-> handler[h].tries] EXCEPT !.tries = 0]
          = [at |-> place, tx |-> handler[h].tx, todo |-> handler[h].todo, tries |-> 0]
    OBVIOUS
  <2> QED BY <2>1, <2>2, HandlerFields
<1>2. handler' = [handler EXCEPT ![h] = [handler[h] EXCEPT !.at = place, !.tries = 0]]
  BY DEF GoTo, HandlersOK
<1>3. handler' = [handler EXCEPT ![h] =
        [at |-> place, tx |-> handler[h].tx, todo |-> handler[h].todo, tries |-> 0]]
  BY <1>1, <1>2
<1> QED BY <1>3, HandlerParts, TodoParts, MoveEffect

\* Another try changes nothing but the number of tries.
LEMMA RetryEffect ==
  ASSUME HandlersOK, NEW h \in Handlers, handler[h].at = "send",
         handler' = [handler EXCEPT ![h].tries = @ + 1]
  PROVE  Moved(h, "send", handler[h].tx, handler[h].todo, handler[h].tries + 1)
<1> DEFINE n == handler[h].tries + 1
<1>1. [handler[h] EXCEPT !.tries = n]
        = [at |-> "send", tx |-> handler[h].tx, todo |-> handler[h].todo, tries |-> n]
  <2>1. [[at |-> handler[h].at, tx |-> handler[h].tx, todo |-> handler[h].todo,
          tries |-> handler[h].tries] EXCEPT !.tries = n]
          = [at |-> handler[h].at, tx |-> handler[h].tx, todo |-> handler[h].todo, tries |-> n]
    OBVIOUS
  <2> QED BY <2>1, HandlerFields
<1>2. handler' = [handler EXCEPT ![h] = [handler[h] EXCEPT !.tries = n]]
  BY DEF HandlersOK
<1>3. handler' = [handler EXCEPT ![h] =
        [at |-> "send", tx |-> handler[h].tx, todo |-> handler[h].todo, tries |-> n]]
  BY <1>1, <1>2
<1>4. n \in Nat BY TodoParts
<1>5. "send" \in Places /\ handler[h].tx \in Txs BY HandlerParts DEF Places, Claiming
<1> HIDE DEF n
<1>6. Moved(h, "send", handler[h].tx, handler[h].todo, n)
  BY <1>3, <1>4, <1>5, TodoParts, MoveEffect
<1> QED BY <1>6 DEF n

\* A request that has finished is as good as new.
LEMMA FinishEffect ==
  ASSUME HandlersOK, NEW h \in Handlers, Finish(h)
  PROVE  Moved(h, "idle", NoTx, {}, 0)
BY MoveEffect DEF Finish, Idle, Places, Claiming

\* prepareClaim starts with the sagas it found.
LEMMA PrepareEffect ==
  ASSUME StateOK, NEW h \in Handlers, PrepareClaim(h)
  PROVE  Moved(h, "supersede", NoTx,
               {<<t, saga[t]>> : t \in {u \in Txs : saga[u] \in {"PREPARED", "SUBMITTED"}}}, 0)
<1> DEFINE found == {<<t, saga[t]>> : t \in {u \in Txs : saga[u] \in {"PREPARED", "SUBMITTED"}}}
<1>1. found \in SUBSET (Txs \X Statuses) BY DEF StateOK, SagaTypeOK, Statuses
<1>2. handler[h] = Idle
        /\ handler' = [handler EXCEPT ![h] = [handler[h] EXCEPT !.at = "supersede",
                                                                !.todo = found]]
  BY DEF PrepareClaim, StateOK, HandlersOK
<1> HIDE DEF found
<1>0. [Idle EXCEPT !.at = "supersede", !.todo = found]
        = [at |-> "supersede", tx |-> NoTx, todo |-> found, tries |-> 0]
  <2>1. [Idle EXCEPT !.at = "supersede"]
          = [at |-> "supersede", tx |-> NoTx, todo |-> {}, tries |-> 0]
    BY DEF Idle
  <2>2. [[at |-> "supersede", tx |-> NoTx, todo |-> {}, tries |-> 0] EXCEPT !.todo = found]
          = [at |-> "supersede", tx |-> NoTx, todo |-> found, tries |-> 0]
    OBVIOUS
  <2> QED BY <2>1, <2>2
<1>3. handler' = [handler EXCEPT ![h] =
                    [at |-> "supersede", tx |-> NoTx, todo |-> found, tries |-> 0]]
  BY <1>0, <1>2
<1>4. Moved(h, "supersede", NoTx, found, 0)
  BY <1>1, <1>3, MoveEffect DEF StateOK, Places, Claiming
<1> QED BY <1>4 DEF found

\* prepareClaim goes on without the saga it has failed.
LEMMA SupersedeEffect ==
  ASSUME HandlersOK, NEW h \in Handlers, NEW found, handler[h].at = "supersede",
         handler' = [handler EXCEPT ![h].todo = @ \ {found}]
  PROVE  Moved(h, "supersede", handler[h].tx, handler[h].todo \ {found}, handler[h].tries)
<1> DEFINE rest == handler[h].todo \ {found}
<1>1. [handler[h] EXCEPT !.todo = rest]
        = [at |-> "supersede", tx |-> handler[h].tx, todo |-> rest, tries |-> handler[h].tries]
  <2> HIDE DEF rest
  <2>1. [[at |-> handler[h].at, tx |-> handler[h].tx, todo |-> handler[h].todo,
          tries |-> handler[h].tries] EXCEPT !.todo = rest]
          = [at |-> handler[h].at, tx |-> handler[h].tx, todo |-> rest,
             tries |-> handler[h].tries]
    OBVIOUS
  <2> QED BY <2>1, HandlerFields
<1>2. handler' = [handler EXCEPT ![h] = [handler[h] EXCEPT !.todo = rest]]
  BY DEF HandlersOK
<1>3. rest \in SUBSET (Txs \X Statuses) BY TodoParts
<1> HIDE DEF rest
<1>4. handler' = [handler EXCEPT ![h] =
        [at |-> "supersede", tx |-> handler[h].tx, todo |-> rest, tries |-> handler[h].tries]]
  BY <1>1, <1>2
<1>5. Moved(h, "supersede", handler[h].tx, rest, handler[h].tries)
  BY <1>3, <1>4, HandlerParts, TodoParts, MoveEffect DEF Places, Claiming
<1> QED BY <1>5 DEF rest

\* A request that has chosen a transaction keeps it.
LEMMA ChooseEffect ==
  ASSUME HandlersOK, NEW h \in Handlers, NEW place \in Places, NEW t \in Txs,
         handler' = [handler EXCEPT ![h].at = place, ![h].tx = t]
  PROVE  Moved(h, place, t, handler[h].todo, handler[h].tries)
<1>1. [handler[h] EXCEPT !.at = place, !.tx = t]
        = [at |-> place, tx |-> t, todo |-> handler[h].todo, tries |-> handler[h].tries]
  <2>1. [[at |-> handler[h].at, tx |-> handler[h].tx, todo |-> handler[h].todo,
          tries |-> handler[h].tries] EXCEPT !.at = place]
          = [at |-> place, tx |-> handler[h].tx, todo |-> handler[h].todo,
             tries |-> handler[h].tries]
    OBVIOUS
  <2>2. [[at |-> place, tx |-> handler[h].tx, todo |-> handler[h].todo,
          tries |-> handler[h].tries] EXCEPT !.tx = t]
          = [at |-> place, tx |-> t, todo |-> handler[h].todo, tries |-> handler[h].tries]
    OBVIOUS
  <2> QED BY <2>1, <2>2, HandlerFields
<1>2. handler' = [handler EXCEPT ![h] = [handler[h] EXCEPT !.at = place, !.tx = t]]
  BY DEF HandlersOK
<1>3. handler' = [handler EXCEPT ![h] =
        [at |-> place, tx |-> t, todo |-> handler[h].todo, tries |-> handler[h].tries]]
  BY <1>1, <1>2
<1> QED BY <1>3, HandlerParts, TodoParts, MoveEffect

\* A recovery job is always in one of its states.
LEMMA RecoveryParts ==
  ASSUME StateOK, NEW r \in Recoverers
  PROVE  recovery[r].tx \in Txs \union {NoTx} /\ recovery[r].list \subseteq Txs
BY DEF StateOK, RecoveryState

\* A recovery job that is done with a saga is in one of them again.
LEMMA Rested ==
  ASSUME StateOK, NEW r \in Recoverers,
         recovery' = [recovery EXCEPT ![r].tx = NoTx, ![r].decision = "none"]
  PROVE  recovery' \in [Recoverers -> RecoveryState]
<1>1. recovery[r] \in RecoveryState BY DEF StateOK
<1>2. [recovery[r] EXCEPT !.tx = NoTx] \in RecoveryState BY <1>1 DEF RecoveryState
<1>3. [[recovery[r] EXCEPT !.tx = NoTx] EXCEPT !.decision = "none"] \in RecoveryState
  BY <1>2 DEF RecoveryState
<1> QED BY <1>3 DEF StateOK

\* Counting one more broadcast of a transaction.
LEMMA CountUp ==
  ASSUME senders \in [Txs -> Nat], NEW t \in Txs,
         senders' = [senders EXCEPT ![t] = @ + 1]
  PROVE  senders' \in [Txs -> Nat]
OBVIOUS

\* What a request may take for a success.
LearntOfSuccess(t) == rpc[t] = "SUCCESS" \/ ledger[t] = "applied"

\* What the network does in a step: it forgets nothing, and what it has decided or
\* given up stays that way.
LedgerMoves ==
  /\ ledger' \in [Txs -> {"unknown", "valid", "sent", "applied", "failed", "dead"}]
  /\ \A t \in Txs :
       /\ ledger[t] \in {"applied", "failed", "dead"} => ledger'[t] = ledger[t]
       /\ ledger[t] # "unknown" => ledger'[t] # "unknown"

-----------------------------------------------------------------------------
(* Every step preserves the invariant.                                    *)

\* No request, wherever it is and whatever the others do, breaks the invariant.
LEMMA RequestsPreserve ==
  ASSUME SagaIInv, NEW h \in Handlers, HandlerStep(h)
  PROVE  SagaIInv'
<1>a. \A g \in Handlers :
        /\ handler[g].at \in Places /\ handler[g].tx \in Txs \union {NoTx}
        /\ handler[g].at \in Claiming => handler[g].tx \in Txs
  BY HandlerParts DEF SagaIInv, StateOK
<1>b. \A r \in Recoverers : recovery[r].tx \in Txs \union {NoTx} /\ recovery[r].list \subseteq Txs
  BY RecoveryParts DEF SagaIInv
<1> USE SagaAssumption
    DEF SagaIInv, StateOK, SagaTypeOK, Places, Claiming, Statuses
<1>1. ASSUME PrepareClaim(h) PROVE SagaIInv'
  <2>1. Moved(h, "supersede", NoTx,
             {<<t, saga[t]>> : t \in {u \in Txs : saga[u] \in {"PREPARED", "SUBMITTED"}}}, 0)
    BY <1>1, PrepareEffect
  <2>2. /\ prepareLock' = h
        /\ UNCHANGED <<saga, age, submitLock, recovery, ledger, rpc, senders>>
    BY <1>1 DEF PrepareClaim, rows, network
  <2>3. StateOK' BY <2>1, <2>2, HandlerParts DEF Moved
  <2>4. VerdictsAreFinal'
    BY <2>1, <2>2, HandlerParts
       DEF Moved, VerdictsAreFinal, SuccessMeansPaid, Final
  <2>5. RowsStay' BY <2>1, <2>2, HandlerParts DEF Moved, RowsStay
  <2>6. (OneWay /\ OneRequestBroadcasts)'
    BY <2>1, <2>2, HandlerParts
       DEF Moved, RowsStay, OneWay, OneRequestBroadcasts, AboutToSend, FirstTry
  <2> QED BY <2>3, <2>4, <2>5, <2>6
<1>2. ASSUME Supersede(h) PROVE SagaIInv'
  <2>1. PICK found \in handler[h].todo :
          \/ found[2] = "SUBMITTED" /\ ReleasePrepare(h) /\ UNCHANGED rows
          \/ /\ Record(found[1], "FAILED")
             /\ handler' = [handler EXCEPT ![h].todo = @ \ {found}]
             /\ UNCHANGED locks
    BY <1>2 DEF Supersede
  <2>2. handler[h].at = "supersede" /\ UNCHANGED <<recovery, ledger, rpc, senders>>
    BY <1>2 DEF Supersede, network
  <2>3. CASE ReleasePrepare(h) /\ UNCHANGED rows
    <3>1. Moved(h, "idle", NoTx, {}, 0) BY <2>3, FinishEffect DEF ReleasePrepare
    <3>2. /\ prepareLock' \in {prepareLock, Nobody}
          /\ UNCHANGED <<saga, age, submitLock>>
      BY <2>3 DEF ReleasePrepare, LockAfterRelease, rows
    <3>3. StateOK' BY <2>2, <3>1, <3>2, HandlerParts DEF Moved
    <3>4. VerdictsAreFinal'
      BY <2>2, <3>1, <3>2, HandlerParts
         DEF Moved, VerdictsAreFinal, SuccessMeansPaid, Final
    <3>5. RowsStay' BY <2>2, <3>1, <3>2, HandlerParts DEF Moved, RowsStay
    <3>6. (OneWay /\ OneRequestBroadcasts)'
      BY <2>2, <3>1, <3>2, HandlerParts
         DEF Moved, RowsStay, OneWay, OneRequestBroadcasts, AboutToSend, FirstTry
    <3> QED BY <3>3, <3>4, <3>5, <3>6
  <2>4. CASE /\ Record(found[1], "FAILED")
             /\ handler' = [handler EXCEPT ![h].todo = @ \ {found}]
             /\ UNCHANGED locks
    <3>1. Moved(h, "supersede", handler[h].tx, handler[h].todo \ {found}, handler[h].tries)
      BY <2>2, <2>4, SupersedeEffect
    <3>0. found[1] \in Txs
      <4>1. found \in Txs \X Statuses BY TodoParts
      <4> QED BY <4>1
    <3>2. /\ found[1] \in Txs
          /\ saga' = [saga EXCEPT ![found[1]] = "FAILED"]
          /\ age' = [age EXCEPT ![found[1]] = "fresh"]
          /\ UNCHANGED <<prepareLock, submitLock>>
      BY <2>4, <3>0 DEF Record, locks
    <3>3. StateOK' BY <2>2, <3>1, <3>2, HandlerParts DEF Moved
    <3>4. VerdictsAreFinal'
      BY <2>2, <3>1, <3>2, HandlerParts
         DEF Moved, VerdictsAreFinal, SuccessMeansPaid, Final
    <3>5. RowsStay' BY <2>2, <3>1, <3>2, HandlerParts DEF Moved, RowsStay
    <3>6. (OneWay /\ OneRequestBroadcasts)'
      BY <2>2, <3>1, <3>2, HandlerParts
         DEF Moved, RowsStay, OneWay, OneRequestBroadcasts, AboutToSend, FirstTry
    <3> QED BY <3>3, <3>4, <3>5, <3>6
  <2> QED BY <2>1, <2>3, <2>4
<1>3. ASSUME BuildTransaction(h) PROVE SagaIInv'
  <2>1. PICK t \in Txs :
          /\ ledger[t] = "unknown"
          /\ ledger' = [ledger EXCEPT ![t] = "valid"]
          /\ handler' = [handler EXCEPT ![h].at = "save", ![h].tx = t]
    BY <1>3 DEF BuildTransaction
  <2>2. UNCHANGED <<saga, age, prepareLock, submitLock, recovery, rpc, senders>>
    BY <1>3 DEF BuildTransaction, rows, locks
  <2>3. Moved(h, "save", t, handler[h].todo, handler[h].tries) BY <2>1, ChooseEffect
  <2>4. ledger[t] = "unknown" /\ ledger' = [ledger EXCEPT ![t] = "valid"] BY <2>1
  <2>5. StateOK' BY <2>2, <2>3, <2>4, HandlerParts DEF Moved
  <2>6. VerdictsAreFinal'
    BY <2>2, <2>3, <2>4, HandlerParts
       DEF Moved, VerdictsAreFinal, SuccessMeansPaid, Final
  <2>7. RowsStay' BY <2>2, <2>3, <2>4, HandlerParts DEF Moved, RowsStay
  <2>8. (OneWay /\ OneRequestBroadcasts)'
    BY <2>2, <2>3, <2>4, HandlerParts
       DEF Moved, RowsStay, OneWay, OneRequestBroadcasts, AboutToSend, FirstTry
  <2> QED BY <2>5, <2>6, <2>7, <2>8
<1>4. ASSUME SaveSaga(h) PROVE SagaIInv'
  <2>1. Moved(h, "idle", NoTx, {}, 0)
    BY <1>4, FinishEffect DEF SaveSaga, ReleasePrepare
  <2>2. /\ handler[h].at = "save"
        /\ saga' = [saga EXCEPT ![handler[h].tx] = "PREPARED"]
        /\ age' = [age EXCEPT ![handler[h].tx] = "fresh"]
        /\ prepareLock' \in {prepareLock, Nobody}
        /\ UNCHANGED <<submitLock, recovery, ledger, rpc, senders>>
    BY <1>4 DEF SaveSaga, Record, ReleasePrepare, LockAfterRelease, network
  <2>3. StateOK' BY <2>1, <2>2, HandlerParts DEF Moved
  <2>4. VerdictsAreFinal'
    BY <2>1, <2>2, HandlerParts
       DEF Moved, VerdictsAreFinal, SuccessMeansPaid, Final
  <2>5. RowsStay' BY <2>1, <2>2, HandlerParts DEF Moved, RowsStay
  <2>6. (OneWay /\ OneRequestBroadcasts)'
    BY <2>1, <2>2, HandlerParts
       DEF Moved, RowsStay, OneWay, OneRequestBroadcasts, AboutToSend, FirstTry
  <2> QED BY <2>3, <2>4, <2>5, <2>6
<1>5. ASSUME NEW t \in Txs, SubmitClaim(h, t) PROVE SagaIInv'
  <2>1. Moved(h, "lock", t, handler[h].todo, handler[h].tries)
    BY <1>5, ChooseEffect DEF SubmitClaim
  <2>2. /\ saga[t] = "PREPARED"
        /\ UNCHANGED <<saga, age, prepareLock, submitLock, recovery, ledger, rpc, senders>>
    BY <1>5 DEF SubmitClaim, rows, locks, network
  <2>3. StateOK' BY <2>1, <2>2, HandlerParts DEF Moved
  <2>4. VerdictsAreFinal'
    BY <2>1, <2>2, HandlerParts
       DEF Moved, VerdictsAreFinal, SuccessMeansPaid, Final
  <2>5. RowsStay' BY <2>1, <2>2, HandlerParts DEF Moved, RowsStay
  <2>6. (OneWay /\ OneRequestBroadcasts)'
    BY <2>1, <2>2, HandlerParts
       DEF Moved, RowsStay, OneWay, OneRequestBroadcasts, AboutToSend, FirstTry
  <2> QED BY <2>3, <2>4, <2>5, <2>6
<1>6. ASSUME LockAndCheck(h) PROVE SagaIInv'
  <2>1. handler[h].at = "lock"
        /\ UNCHANGED <<saga, age, prepareLock, recovery, ledger, rpc, senders>>
    BY <1>6 DEF LockAndCheck, rows, network
  <2>2. CASE submitLock[handler[h].tx] = Nobody /\ StillPrepared(handler[h].tx)
    <3>1. Moved(h, "mark", handler[h].tx, handler[h].todo, 0)
      BY <1>6, <2>2, HandlerParts, GoToEffect DEF LockAndCheck
    <3>2. /\ submitLock[handler[h].tx] = Nobody /\ saga[handler[h].tx] = "PREPARED"
          /\ submitLock' = [submitLock EXCEPT ![handler[h].tx] = h]
      BY <1>6, <2>2 DEF LockAndCheck, StillPrepared
    <3>3. StateOK' BY <2>1, <3>1, <3>2, HandlerParts DEF Moved
    <3>4. VerdictsAreFinal'
      BY <2>1, <3>1, <3>2, HandlerParts
         DEF Moved, VerdictsAreFinal, SuccessMeansPaid, Final
    <3>5. RowsStay' BY <2>1, <3>1, <3>2, HandlerParts DEF Moved, RowsStay
    <3>6. (OneWay /\ OneRequestBroadcasts)'
      <4> USE DEF OneWay, OneRequestBroadcasts, AboutToSend, FirstTry
      <4>1. \A g \in Handlers \ {h} : AboutToSend(g) => handler[g].tx # handler[h].tx
        BY <2>1, <3>2, HandlerParts
      <4>2. \A g \in Handlers : AboutToSend(g)' =>
              /\ FirstTry(g)' => senders'[handler'[g].tx] = 0
              /\ handler'[g].at = "mark" => submitLock'[handler'[g].tx] = g
        <5> SUFFICES ASSUME NEW g \in Handlers, AboutToSend(g)'
                     PROVE  /\ FirstTry(g)' => senders'[handler'[g].tx] = 0
                            /\ handler'[g].at = "mark" => submitLock'[handler'[g].tx] = g
          OBVIOUS
        <5>1. handler[h].tx \in Txs BY <2>1, HandlerParts
        <5>2. CASE g = h BY <2>1, <3>1, <3>2, <5>1, <5>2 DEF Moved, StateOK
        <5>3. CASE g # h
          <6>1. handler'[g] = handler[g] /\ AboutToSend(g) BY <3>1, <5>3 DEF Moved
          <6>2. handler[g].tx # handler[h].tx BY <4>1, <5>3, <6>1
          <6> QED BY <2>1, <3>2, <5>1, <6>1, <6>2 DEF StateOK
        <5> QED BY <5>2, <5>3
      <4>3. \A g \in Handlers : handler'[g].at \in {"send", "horizon"} =>
              saga'[handler'[g].tx] \notin {"NONE", "PREPARED"}
        BY <2>1, <3>1 DEF Moved
      <4>4. \A f, g \in Handlers :
              AboutToSend(f)' /\ AboutToSend(g)' /\ handler'[f].tx = handler'[g].tx => f = g
        BY <3>1, <4>1 DEF Moved
      <4> QED BY <2>1, <4>2, <4>3, <4>4
    <3> QED BY <3>3, <3>4, <3>5, <3>6
  <2>3. CASE ~(submitLock[handler[h].tx] = Nobody /\ StillPrepared(handler[h].tx))
    <3>1. Moved(h, "idle", NoTx, {}, 0) BY <1>6, <2>3, FinishEffect DEF LockAndCheck
    <3>2. UNCHANGED submitLock BY <1>6, <2>3 DEF LockAndCheck
    <3>3. StateOK' BY <2>1, <3>1, <3>2, HandlerParts DEF Moved
    <3>4. VerdictsAreFinal'
      BY <2>1, <3>1, <3>2, HandlerParts
         DEF Moved, VerdictsAreFinal, SuccessMeansPaid, Final
    <3>5. RowsStay' BY <2>1, <3>1, <3>2, HandlerParts DEF Moved, RowsStay
    <3>6. (OneWay /\ OneRequestBroadcasts)'
      BY <2>1, <3>1, <3>2, HandlerParts
         DEF Moved, RowsStay, OneWay, OneRequestBroadcasts, AboutToSend, FirstTry
    <3> QED BY <3>3, <3>4, <3>5, <3>6
  <2> QED BY <2>2, <2>3
<1>7. ASSUME MarkSubmitted(h) PROVE SagaIInv'
  <2>1. Moved(h, "send", handler[h].tx, handler[h].todo, 0)
    BY <1>7, HandlerParts, GoToEffect DEF MarkSubmitted
  <2>2. /\ handler[h].at = "mark"
        /\ saga' = [saga EXCEPT ![handler[h].tx] = "SUBMITTED"]
        /\ age' = [age EXCEPT ![handler[h].tx] = "fresh"]
        /\ UNCHANGED <<prepareLock, submitLock, recovery, ledger, rpc, senders>>
    BY <1>7 DEF MarkSubmitted, Record, locks, network
  <2>3. StateOK' BY <2>1, <2>2, HandlerParts DEF Moved
  <2>4. VerdictsAreFinal'
    BY <2>1, <2>2, HandlerParts
       DEF Moved, VerdictsAreFinal, SuccessMeansPaid, Final
  <2>5. RowsStay' BY <2>1, <2>2, HandlerParts DEF Moved, RowsStay
  <2>6. (OneWay /\ OneRequestBroadcasts)'
    <3> USE DEF OneWay, OneRequestBroadcasts, AboutToSend, FirstTry
    <3>1. \A g \in Handlers : AboutToSend(g)' => AboutToSend(g) /\ handler'[g].tx =
      handler[g].tx
      BY <2>1, <2>2 DEF Moved
    <3>2. \A t \in Txs : saga'[t] \in {"NONE", "PREPARED"} => saga[t] \in {"NONE", "PREPARED"}
      BY <2>2, HandlerParts
    <3>3. saga'[handler[h].tx] = "SUBMITTED" BY <2>2, HandlerParts
    <3>4. \A g \in Handlers : handler'[g].at \in {"send", "horizon"} =>
            saga'[handler'[g].tx] \notin {"NONE", "PREPARED"}
      BY <2>1, <2>2, <3>2, <3>3, HandlerParts DEF Moved
    <3>5. \A g \in Handlers : /\ handler'[g].at = "mark" => handler[g].at = "mark"
                              /\ FirstTry(g)' => FirstTry(g)
      <4>1. \A g \in Handlers : handler'[g] = handler[g] \/ handler[g].at = "mark"
        BY <2>1, <2>2 DEF Moved
      <4> HIDE DEF StateOK, OneWay, OneRequestBroadcasts
      <4> QED BY <4>1
    <3> QED BY <2>2, <3>1, <3>2, <3>4, <3>5
  <2> QED BY <2>3, <2>4, <2>5, <2>6
<1>8. ASSUME SendTransaction(h) \/ PostToHorizon(h) PROVE SagaIInv'
  <2>1. PICK place \in {"send", "poll", "failed", "horizon"}, tries \in Nat :
          /\ Moved(h, place, handler[h].tx, handler[h].todo, tries)
          /\ place = "send" => tries # 0
          /\ handler[h].at = "horizon" => place = "poll"
    <3>1. CASE /\ SendTransaction(h)
               /\ \E place \in AfterSending : GoTo(h, place)
      BY <3>1, GoToEffect, HandlerParts DEF SendTransaction, AfterSending
    <3>2. CASE SendTransaction(h) /\ handler' = [handler EXCEPT ![h].tries = @ + 1]
      <4>1. handler[h].at = "send" BY <3>2 DEF SendTransaction
      <4>2. Moved(h, "send", handler[h].tx, handler[h].todo, handler[h].tries + 1)
        BY <3>2, <4>1, RetryEffect
      <4> QED BY <4>1, <4>2, TodoParts
    <3>3. CASE PostToHorizon(h) BY <3>3, GoToEffect, HandlerParts DEF PostToHorizon
    <3> QED BY <1>8, <3>1, <3>2, <3>3 DEF SendTransaction
  <2>2. /\ handler[h].at \in {"send", "horizon"} /\ handler[h].tx \in Txs
        /\ UNCHANGED <<saga, age, prepareLock, submitLock, recovery, rpc>>
    BY <1>8, HandlerParts DEF SendTransaction, PostToHorizon, rows, locks
  <2>3. Moved(h, place, handler[h].tx, handler[h].todo, tries) BY <2>1
  <2>4. place \in {"send", "poll", "failed", "horizon"} /\ (place = "send" => tries # 0)
          /\ (handler[h].at = "horizon" => place = "poll")
    BY <2>1
  <2>5. LedgerMoves
    BY <1>8, <2>2 DEF SendTransaction, PostToHorizon, PutOnWire, LedgerMoves
  <2>6. senders' = IF FirstTry(h) THEN [senders EXCEPT ![handler[h].tx] = @ + 1] ELSE senders
    BY <1>8 DEF SendTransaction, PostToHorizon, FirstTry
  <2>7. StateOK'
    <3>1. senders' \in [Txs -> Nat]
      <4>1. CASE FirstTry(h) BY <2>2, <2>6, <4>1, CountUp
      <4>2. CASE ~FirstTry(h) BY <2>6, <4>2
      <4> QED BY <4>1, <4>2
    <3>2. \A g \in Handlers : handler'[g].tx \in Txs \union {NoTx}
      BY <2>2, <2>3, <1>a DEF Moved
    <3> QED BY <2>2, <2>3, <2>5, <3>1, <3>2 DEF Moved, LedgerMoves
  <2>8. VerdictsAreFinal'
    <3> USE DEF VerdictsAreFinal
    <3>1. (SuccessMeansPaid /\ \A t \in Txs : Final(t, rpc[t]))'
      BY <2>2, <2>5 DEF LedgerMoves, SuccessMeansPaid, Final
    <3>2. \A t \in Txs : age'[t] = "old" => ledger'[t] = "dead" \/ rpc'[t] # "NOT_FOUND"
      BY <2>2, <2>5 DEF LedgerMoves
    <3>3. \A g \in Handlers : handler'[g].at = "succeeded" => ledger'[handler'[g].tx] = "applied"
      <4> SUFFICES ASSUME NEW g \in Handlers, handler'[g].at = "succeeded"
                   PROVE  ledger'[handler'[g].tx] = "applied"
        OBVIOUS
      <4>1. g # h /\ handler'[g] = handler[g] BY <2>3, <2>4 DEF Moved
      <4>2. handler[g].tx \in Txs BY <4>1, HandlerParts DEF Claiming, Places
      <4>3. ledger[handler[g].tx] = "applied" BY <4>1
      <4> QED BY <2>5, <4>1, <4>2, <4>3 DEF LedgerMoves
    <3>4. \A r \in Recoverers :
            recovery'[r].tx # NoTx => Final(recovery[r].tx, recovery[r].decision)'
      <4> HIDE DEF StateOK
      <4> QED BY <2>2, <2>5, <1>b DEF LedgerMoves, Final
    <3> QED BY <3>1, <3>2, <3>3, <3>4
  <2>9. RowsStay'
    <3>1. \A g \in Handlers :
            IF g = h THEN /\ handler'[g].at \in {"send", "poll", "failed", "horizon"}
                          /\ handler'[g].tx = handler[g].tx
                     ELSE handler'[g] = handler[g]
      BY <2>3, <2>4 DEF Moved
    <3> HIDE DEF StateOK
    <3>2. (\A t \in Txs : saga[t] # "NONE" => ledger[t] # "unknown")'
      BY <2>2, <2>5 DEF LedgerMoves, RowsStay
    <3>3. \A g \in Handlers :
            /\ handler'[g].at = "supersede" =>
                 \A found \in handler'[g].todo : saga'[found[1]] # "NONE"
            /\ handler'[g].at \in Claiming \ {"save"} => saga'[handler'[g].tx] # "NONE"
      BY <2>2, <3>1 DEF RowsStay
    <3>4. \A g \in Handlers : handler'[g].at = "save" =>
            saga'[handler'[g].tx] = "NONE" /\ ledger'[handler'[g].tx] # "unknown"
      <4> SUFFICES ASSUME NEW g \in Handlers, handler'[g].at = "save"
                   PROVE  saga'[handler'[g].tx] = "NONE" /\ ledger'[handler'[g].tx] # "unknown"
        OBVIOUS
      <4>1. g # h /\ handler'[g] = handler[g] BY <3>1
      <4>2. handler[g].tx \in Txs /\ saga[handler[g].tx] = "NONE" /\ ledger[handler[g].tx] # "unknown"
        BY <4>1, <1>a DEF RowsStay
      <4> QED BY <2>2, <2>5, <4>1, <4>2 DEF LedgerMoves
    <3> QED BY <2>2, <3>1, <3>2, <3>3, <3>4 DEF RowsStay
  <2>10. (OneWay /\ OneRequestBroadcasts)'
    BY <2>2, <2>3, <2>4, <2>6, HandlerParts
       DEF Moved, RowsStay, OneWay, OneRequestBroadcasts, AboutToSend, FirstTry
  <2> QED BY <2>7, <2>8, <2>9, <2>10
<1>9. ASSUME PollTransaction(h) PROVE SagaIInv'
  <2>1. PICK place \in {"succeeded", "failed"} :
          GoTo(h, place) /\ (place = "succeeded" => LearntOfSuccess(handler[h].tx))
    BY <1>9 DEF PollTransaction, LearntOfSuccess
  <2>2. /\ handler[h].at = "poll"
        /\ UNCHANGED <<saga, age, prepareLock, submitLock, recovery, ledger, rpc, senders>>
    BY <1>9 DEF PollTransaction, rows, locks, network
  <2>3. Moved(h, place, handler[h].tx, handler[h].todo, 0)
    <3>1. place \in Places /\ GoTo(h, place) /\ handler[h].tx \in Txs BY <2>1, <2>2, HandlerParts
    <3> QED BY <3>1, GoToEffect
  <2>4. place = "failed" \/ (place = "succeeded" /\ LearntOfSuccess(handler[h].tx)) BY <2>1
  <2>5. StateOK' BY <2>2, <2>3, <2>4, HandlerParts DEF Moved
  <2>6. VerdictsAreFinal'
    <3> USE DEF VerdictsAreFinal, SuccessMeansPaid, Final
    <3>1. handler[h].tx \in Txs BY <2>2, HandlerParts
    <3>2. \A g \in Handlers :
            handler'[g].at = "succeeded" => ledger[handler'[g].tx] = "applied"
      <4> SUFFICES ASSUME NEW g \in Handlers, handler'[g].at = "succeeded"
                   PROVE  ledger[handler'[g].tx] = "applied"
        OBVIOUS
      <4>1. CASE g = h BY <2>3, <2>4, <3>1, <4>1 DEF Moved, LearntOfSuccess
      <4>2. CASE g # h
        <5>1. handler'[g] = handler[g] BY <2>3, <4>2 DEF Moved
        <5> QED BY <5>1
      <4> QED BY <4>1, <4>2
    <3> QED BY <2>2, <3>2
  <2>7. RowsStay' BY <2>2, <2>3, <2>4, HandlerParts DEF Moved, RowsStay
  <2>8. (OneWay /\ OneRequestBroadcasts)'
    BY <2>2, <2>3, <2>4, HandlerParts
       DEF Moved, RowsStay, OneWay, OneRequestBroadcasts, AboutToSend, FirstTry
  <2> QED BY <2>5, <2>6, <2>7, <2>8
<1>10. ASSUME Settle(h) PROVE SagaIInv'
  <2>1. Moved(h, "idle", NoTx, {}, 0)
    BY <1>10, FinishEffect DEF Settle, ReleaseSubmit
  <2>2. PICK status \in {"SUCCESS", "FAILED"} :
          /\ status = "SUCCESS" => handler[h].at = "succeeded"
          /\ Record(handler[h].tx, status)
    BY <1>10 DEF Settle
  <2>3. /\ handler[h].at \in {"succeeded", "failed"}
        /\ saga' = [saga EXCEPT ![handler[h].tx] = status]
        /\ age' = [age EXCEPT ![handler[h].tx] = "fresh"]
        /\ submitLock' = [submitLock EXCEPT ![handler[h].tx] = IF @ = h THEN Nobody ELSE @]
        /\ UNCHANGED <<prepareLock, recovery, ledger, rpc, senders>>
    BY <1>10, <2>2 DEF Settle, Record, ReleaseSubmit, LockAfterRelease, network
  <2>4. status \in {"SUCCESS", "FAILED"} /\ (status = "SUCCESS" => handler[h].at = "succeeded")
    BY <2>2
  <2>5. StateOK' BY <2>1, <2>3, <2>4, HandlerParts DEF Moved
  <2>6. VerdictsAreFinal'
    BY <2>1, <2>3, <2>4, HandlerParts
       DEF Moved, VerdictsAreFinal, SuccessMeansPaid, Final
  <2>7. RowsStay' BY <2>1, <2>3, <2>4, HandlerParts DEF Moved, RowsStay
  <2>8. (OneWay /\ OneRequestBroadcasts)'
    BY <2>1, <2>3, <2>4, HandlerParts
       DEF Moved, RowsStay, OneWay, OneRequestBroadcasts, AboutToSend, FirstTry
  <2> QED BY <2>5, <2>6, <2>7, <2>8
<1>11. ASSUME Throw(h) PROVE SagaIInv'
  <2>1. Moved(h, "idle", NoTx, {}, 0)
    BY <1>11, FinishEffect DEF Throw, ReleasePrepare, ReleaseSubmit
  <2>2. /\ prepareLock' \in {prepareLock, Nobody}
        /\ \/ UNCHANGED submitLock
           \/ submitLock' = [submitLock EXCEPT ![handler[h].tx] = IF @ = h THEN Nobody ELSE @]
        /\ UNCHANGED <<saga, age, recovery, ledger, rpc, senders>>
    BY <1>11 DEF Throw, ReleasePrepare, ReleaseSubmit, LockAfterRelease, rows, network
  <2>3. StateOK' BY <2>1, <2>2, HandlerParts DEF Moved
  <2>4. VerdictsAreFinal'
    BY <2>1, <2>2, HandlerParts
       DEF Moved, VerdictsAreFinal, SuccessMeansPaid, Final
  <2>5. RowsStay' BY <2>1, <2>2, HandlerParts DEF Moved, RowsStay
  <2>6. (OneWay /\ OneRequestBroadcasts)'
    <3> USE DEF OneWay, OneRequestBroadcasts, AboutToSend, FirstTry
    <3>1. \A g \in Handlers : handler'[g].at # "idle" => g # h /\ handler'[g] = handler[g]
      BY <2>1 DEF Moved
    <3>2. \A g \in Handlers :
            handler'[g].at = "mark" => submitLock'[handler'[g].tx] = submitLock[handler[g].tx]
      BY <2>2, <3>1, HandlerParts
    <3> QED BY <2>2, <3>1, <3>2
  <2> QED BY <2>3, <2>4, <2>5, <2>6
<1>12. ASSUME Crash(h) PROVE SagaIInv'
  <2>1. Moved(h, "idle", NoTx, {}, 0)
    BY <1>12, FinishEffect DEF Crash, Finish
  <2>2. /\ UNCHANGED <<saga, age, prepareLock, submitLock, recovery, ledger, rpc, senders>>
    BY <1>12 DEF Crash, rows, locks, network
  <2>3. StateOK' BY <2>1, <2>2, HandlerParts DEF Moved
  <2>4. VerdictsAreFinal'
    BY <2>1, <2>2, HandlerParts
       DEF Moved, VerdictsAreFinal, SuccessMeansPaid, Final
  <2>5. RowsStay' BY <2>1, <2>2, HandlerParts DEF Moved, RowsStay
  <2>6. (OneWay /\ OneRequestBroadcasts)'
    BY <2>1, <2>2, HandlerParts
       DEF Moved, RowsStay, OneWay, OneRequestBroadcasts, AboutToSend, FirstTry
  <2> QED BY <2>3, <2>4, <2>5, <2>6
<1> QED
  BY <1>1, <1>2, <1>3, <1>4, <1>5, <1>6, <1>7, <1>8, <1>9, <1>10, <1>11, <1>12
     DEF HandlerStep

\* Nor does the recovery job, the network or the passing of time.
LEMMA OthersPreserve ==
  ASSUME SagaIInv,
         \/ \E r \in Recoverers : RecoveryStep(r)
         \/ \E t \in Txs : NetworkStep(t)
         \/ PrepareLockExpires
         \/ UNCHANGED sagaVars
  PROVE  SagaIInv'
<1>a. \A h \in Handlers :
        /\ handler[h].at \in Places /\ handler[h].tx \in Txs \union {NoTx}
        /\ handler[h].at \in Claiming => handler[h].tx \in Txs
  BY HandlerParts DEF SagaIInv, StateOK
<1>b. \A r \in Recoverers : recovery[r].tx \in Txs \union {NoTx} /\ recovery[r].list \subseteq Txs
  BY RecoveryParts DEF SagaIInv
<1> USE SagaAssumption
    DEF SagaIInv, StateOK, SagaTypeOK, Places, Claiming, Statuses,
        Resting, rows, locks, network
<1>1. ASSUME NEW r \in Recoverers, RecoverStalled(r) PROVE SagaIInv'
  <2>1. StateOK' BY <1>1 DEF RecoverStalled, HandlersOK, RecoveryState
  <2>2. VerdictsAreFinal'
    BY <1>1, HandlerParts, RecoveryParts DEF RecoverStalled, VerdictsAreFinal, SuccessMeansPaid,
       Final
  <2>3. RowsStay' BY <1>1, HandlerParts, RecoveryParts DEF RecoverStalled, RowsStay
  <2>4. (OneWay /\ OneRequestBroadcasts)'
    BY <1>1, HandlerParts, RecoveryParts DEF RecoverStalled, RowsStay, OneWay,
       OneRequestBroadcasts,
       AboutToSend, FirstTry
  <2> QED BY <2>1, <2>2, <2>3, <2>4
<1>2. ASSUME NEW r \in Recoverers, NEW t \in Txs, CheckStatus(r, t) PROVE SagaIInv'
  <2>1. StateOK' BY <1>2 DEF CheckStatus, Decide, HandlersOK, RecoveryState
  <2>2. VerdictsAreFinal'
    <3>1. UNCHANGED <<saga, age, handler, ledger, rpc>> BY <1>2 DEF CheckStatus
    <3>2. \A q \in Recoverers :
            \/ recovery'[q] = recovery[q]
            \/ recovery'[q].tx = t /\ recovery'[q].decision = Decide(t)
      BY <1>2 DEF CheckStatus, RecoveryState
    <3>3. Final(t, Decide(t)) BY DEF VerdictsAreFinal, Final, Decide
    <3> HIDE DEF StateOK
    <3> QED BY <3>1, <3>2, <3>3 DEF VerdictsAreFinal, SuccessMeansPaid, Final
  <2>3. RowsStay' BY <1>2, HandlerParts, RecoveryParts DEF CheckStatus, Decide, RowsStay
  <2>4. (OneWay /\ OneRequestBroadcasts)'
    BY <1>2, HandlerParts, RecoveryParts DEF CheckStatus, Decide, RowsStay, OneWay,
       OneRequestBroadcasts,
       AboutToSend, FirstTry
  <2> QED BY <2>1, <2>2, <2>3, <2>4
<1>3. ASSUME NEW r \in Recoverers, SkipSaga(r) PROVE SagaIInv'
  <2>1. UNCHANGED <<saga, age, prepareLock, submitLock, handler, ledger, rpc, senders>>
    BY <1>3 DEF SkipSaga
  <2>2. recovery' \in [Recoverers -> RecoveryState]
    <3>1. CASE \E t \in recovery[r].list : recovery' = [recovery EXCEPT ![r].list = @ \ {t}]
      BY SMTT(60), <3>1 DEF RecoveryState
    <3>2. CASE recovery' = [recovery EXCEPT ![r].tx = NoTx, ![r].decision = "none"]
      BY <3>2, Rested
    <3> QED BY <1>3, <3>1, <3>2 DEF SkipSaga
  <2>3. \A q \in Recoverers :
          /\ recovery'[q].list \subseteq recovery[q].list
          /\ recovery'[q].tx # NoTx =>
               recovery'[q].tx = recovery[q].tx /\ recovery'[q].decision = recovery[q].decision
    <3>1. CASE \E t \in recovery[r].list : recovery' = [recovery EXCEPT ![r].list = @ \ {t}]
      BY <3>1
    <3>2. CASE recovery' = [recovery EXCEPT ![r].tx = NoTx, ![r].decision = "none"]
      BY <3>2
    <3> QED BY <1>3, <3>1, <3>2 DEF SkipSaga
  <2> HIDE DEF StateOK
  <2>4. StateOK' BY <2>1, <2>2 DEF StateOK, HandlersOK
  <2>5. VerdictsAreFinal' BY <2>1, <2>3 DEF VerdictsAreFinal, SuccessMeansPaid, Final
  <2>6. RowsStay' BY <2>1, <2>3 DEF RowsStay
  <2>7. (OneWay /\ OneRequestBroadcasts)' BY <2>1 DEF OneWay, OneRequestBroadcasts,
    AboutToSend, FirstTry
  <2> QED BY <2>4, <2>5, <2>6, <2>7
<1>4. ASSUME NEW r \in Recoverers, SettleStalled(r) PROVE SagaIInv'
  <2>1. UNCHANGED <<prepareLock, submitLock, handler, ledger, rpc, senders>>
    BY <1>4 DEF SettleStalled
  <2>2. /\ recovery[r].tx # NoTx /\ recovery[r].tx \in Txs
        /\ recovery' = [recovery EXCEPT ![r].tx = NoTx, ![r].decision = "none"]
    BY <1>4, <1>b DEF SettleStalled
  <2>3. /\ saga' \in [Txs -> Statuses] /\ age' \in [Txs -> {"fresh", "stalled", "old"}]
        /\ \A t \in Txs :
             \/ saga'[t] = saga[t] /\ age'[t] = age[t]
             \/ /\ t = recovery[r].tx /\ age'[t] = "fresh"
                /\ saga'[t] = recovery[r].decision /\ saga'[t] \in {"SUCCESS", "FAILED"}
    <3>1. recovery[r].decision \in {"none", "SUCCESS", "FAILED"} BY DEF RecoveryState
    <3>2. CASE recovery[r].decision = "none" BY <1>4, <3>2 DEF SettleStalled
    <3>3. CASE recovery[r].decision # "none"
      BY <1>4, <2>2, <3>1, <3>3 DEF SettleStalled, Record
    <3> QED BY <3>2, <3>3
  <2>4. recovery' \in [Recoverers -> RecoveryState] BY <2>2, Rested
  <2>5. \A q \in Recoverers :
          /\ recovery'[q].list = recovery[q].list
          /\ recovery'[q].tx # NoTx =>
               recovery'[q].tx = recovery[q].tx /\ recovery'[q].decision = recovery[q].decision
    BY <2>2
  <2>6. StateOK' BY <2>1, <2>3, <2>4 DEF HandlersOK
  <2> HIDE DEF StateOK
  <2>7. VerdictsAreFinal'
    <3>1. saga[recovery[r].tx] # "NONE" /\ Final(recovery[r].tx, recovery[r].decision)
      BY <2>2 DEF VerdictsAreFinal, RowsStay
    <3> QED BY <2>1, <2>3, <2>5, <3>1 DEF VerdictsAreFinal, SuccessMeansPaid, Final
  <2>8. RowsStay'
    <3>1. \A t \in Txs : saga'[t] = "NONE" <=> saga[t] = "NONE" BY <2>2, <2>3 DEF RowsStay
    <3>2. (\A t \in Txs : saga[t] # "NONE" => ledger[t] # "unknown")'
      BY <2>1, <3>1 DEF RowsStay
    <3>3. \A h \in Handlers : handler[h].at = "supersede" =>
            \A found \in handler[h].todo : saga'[found[1]] # "NONE"
      <4>1. \A h \in Handlers : \A found \in handler[h].todo : found[1] \in Txs
        BY TodoParts DEF StateOK
      <4> QED BY <3>1, <4>1 DEF RowsStay
    <3>4. \A h \in Handlers :
            /\ handler[h].at \in Claiming \ {"save"} => saga'[handler[h].tx] # "NONE"
            /\ handler[h].at = "save" => saga'[handler[h].tx] = "NONE"
      BY <3>1, <1>a DEF RowsStay
    <3>5. \A q \in Recoverers :
            /\ \A t \in recovery'[q].list : saga'[t] # "NONE"
            /\ recovery'[q].tx # NoTx => saga'[recovery'[q].tx] # "NONE"
      <4>1. \A q \in Recoverers : \A t \in recovery[q].list : saga[t] # "NONE" BY DEF RowsStay
      <4>2. \A q \in Recoverers : recovery[q].tx # NoTx => saga[recovery[q].tx] # "NONE"
        BY DEF RowsStay
      <4> QED BY <2>5, <3>1, <4>1, <4>2, <1>b
    <3> QED BY <2>1, <3>2, <3>3, <3>4, <3>5 DEF RowsStay
  <2>9. (OneWay /\ OneRequestBroadcasts)'
    <3>1. \A t \in Txs : saga'[t] \in {"NONE", "PREPARED"} => saga'[t] = saga[t]
      BY <2>3
    <3>2. \A h \in Handlers : handler[h].at \in {"send", "horizon"} =>
            saga'[handler[h].tx] \notin {"NONE", "PREPARED"}
      BY <3>1, <1>a DEF OneWay
    <3> QED BY <2>1, <3>1, <3>2 DEF OneWay, OneRequestBroadcasts, AboutToSend, FirstTry
  <2> QED BY <2>6, <2>7, <2>8, <2>9
<1>5. ASSUME NEW t \in Txs, ApplyTransaction(t) PROVE SagaIInv'
  <2>1. UNCHANGED <<saga, age, prepareLock, submitLock, handler, recovery, rpc, senders>>
    BY <1>5 DEF ApplyTransaction
  <2>2. LedgerMoves BY <1>5 DEF ApplyTransaction, LedgerMoves
  <2>3. StateOK' BY <2>1, <2>2 DEF LedgerMoves, HandlersOK, RecoveryState
  <2>4. VerdictsAreFinal'
    <3> USE DEF VerdictsAreFinal
    <3>1. (SuccessMeansPaid /\ \A u \in Txs : Final(u, rpc[u]))'
      BY <2>1, <2>2 DEF LedgerMoves, SuccessMeansPaid, Final
    <3>2. \A u \in Txs : age'[u] = "old" => ledger'[u] = "dead" \/ rpc'[u] # "NOT_FOUND"
      BY <2>1, <2>2 DEF LedgerMoves
    <3>3. \A h \in Handlers : handler'[h].at = "succeeded" => ledger'[handler'[h].tx] = "applied"
      BY <2>1, <2>2, <1>a DEF LedgerMoves
    <3>4. \A r \in Recoverers :
            recovery'[r].tx # NoTx => Final(recovery[r].tx, recovery[r].decision)'
      BY <2>1, <2>2, <1>b DEF LedgerMoves, Final
    <3> QED BY <3>1, <3>2, <3>3, <3>4
  <2>5. RowsStay'
    <3> HIDE DEF StateOK
    <3> QED BY ZenonT(60), <2>1, <2>2, <1>a DEF LedgerMoves, RowsStay
  <2>6. (OneWay /\ OneRequestBroadcasts)' BY <2>1 DEF OneWay, OneRequestBroadcasts,
    AboutToSend, FirstTry
  <2> QED BY <2>3, <2>4, <2>5, <2>6
<1>6. ASSUME NEW t \in Txs, TransactionExpires(t) PROVE SagaIInv'
  <2>1. StateOK' BY <1>6 DEF TransactionExpires, HandlersOK, RecoveryState
  <2>2. VerdictsAreFinal'
    BY <1>6, HandlerParts, RecoveryParts DEF TransactionExpires, VerdictsAreFinal, SuccessMeansPaid,
       Final
  <2>3. RowsStay' BY <1>6, HandlerParts, RecoveryParts DEF TransactionExpires, RowsStay
  <2>4. (OneWay /\ OneRequestBroadcasts)'
    BY <1>6, HandlerParts, RecoveryParts DEF TransactionExpires, RowsStay, OneWay,
       OneRequestBroadcasts,
       AboutToSend, FirstTry
  <2> QED BY <2>1, <2>2, <2>3, <2>4
<1>7. ASSUME NEW t \in Txs, RpcIngests(t) PROVE SagaIInv'
  <2>1. StateOK' BY <1>7 DEF RpcIngests, HandlersOK, RecoveryState
  <2>2. VerdictsAreFinal'
    BY <1>7, HandlerParts, RecoveryParts DEF RpcIngests, VerdictsAreFinal, SuccessMeansPaid, Final
  <2>3. RowsStay' BY <1>7, HandlerParts, RecoveryParts DEF RpcIngests, RowsStay
  <2>4. (OneWay /\ OneRequestBroadcasts)'
    BY <1>7, HandlerParts, RecoveryParts DEF RpcIngests, RowsStay, OneWay, OneRequestBroadcasts,
       AboutToSend, FirstTry
  <2> QED BY <2>1, <2>2, <2>3, <2>4
<1>8. ASSUME NEW t \in Txs, SagaAges(t) PROVE SagaIInv'
  <2>1. StateOK' BY <1>8 DEF SagaAges, HandlersOK, RecoveryState
  <2>2. VerdictsAreFinal'
    BY <1>8, HandlerParts, RecoveryParts DEF SagaAges, VerdictsAreFinal, SuccessMeansPaid, Final
  <2>3. RowsStay' BY <1>8, HandlerParts, RecoveryParts DEF SagaAges, RowsStay
  <2>4. (OneWay /\ OneRequestBroadcasts)'
    BY <1>8, HandlerParts, RecoveryParts DEF SagaAges, RowsStay, OneWay,
       OneRequestBroadcasts, AboutToSend, FirstTry
  <2> QED BY <2>1, <2>2, <2>3, <2>4
<1>9. ASSUME NEW t \in Txs, SubmitLockExpires(t) PROVE SagaIInv'
  <2>1. StateOK' BY <1>9 DEF SubmitLockExpires, HandlersOK, RecoveryState
  <2>2. VerdictsAreFinal'
    BY <1>9, HandlerParts, RecoveryParts DEF SubmitLockExpires, VerdictsAreFinal, SuccessMeansPaid,
       Final
  <2>3. RowsStay' BY <1>9, HandlerParts, RecoveryParts DEF SubmitLockExpires, RowsStay
  <2>4. (OneWay /\ OneRequestBroadcasts)'
    BY <1>9, HandlerParts, RecoveryParts DEF SubmitLockExpires, RowsStay, OneWay,
       OneRequestBroadcasts,
       AboutToSend, FirstTry
  <2> QED BY <2>1, <2>2, <2>3, <2>4
<1>10. ASSUME PrepareLockExpires PROVE SagaIInv'
  <2>1. StateOK' BY <1>10 DEF PrepareLockExpires, HandlersOK, RecoveryState
  <2>2. VerdictsAreFinal'
    BY <1>10, HandlerParts, RecoveryParts DEF PrepareLockExpires, VerdictsAreFinal, SuccessMeansPaid,
       Final
  <2>3. RowsStay' BY <1>10, HandlerParts, RecoveryParts DEF PrepareLockExpires, RowsStay
  <2>4. (OneWay /\ OneRequestBroadcasts)'
    BY <1>10, HandlerParts, RecoveryParts DEF PrepareLockExpires, RowsStay, OneWay,
       OneRequestBroadcasts,
       AboutToSend, FirstTry
  <2> QED BY <2>1, <2>2, <2>3, <2>4
<1>11. CASE UNCHANGED sagaVars
  BY <1>11 DEF sagaVars, HandlersOK, VerdictsAreFinal, SuccessMeansPaid, Final,
     RowsStay, OneWay, OneRequestBroadcasts, AboutToSend, FirstTry
<1> QED
  BY <1>1, <1>2, <1>3, <1>4, <1>5, <1>6, <1>7, <1>8, <1>9, <1>10, <1>11
     DEF RecoveryStep, NetworkStep

\* The initial states satisfy the invariant.
LEMMA InvariantInit == SagaInit => SagaIInv
BY SagaAssumption
   DEF SagaInit, SagaIInv, StateOK, HandlersOK, SagaTypeOK, VerdictsAreFinal, RowsStay, OneWay,
       OneRequestBroadcasts, SuccessMeansPaid, Final, AboutToSend, FirstTry, HandlerState,
         RecoveryState,
       Places, Claiming, Statuses, Idle, Resting

\* Every reachable state satisfies the invariant.
LEMMA SagaInvariant == SagaSpec => []SagaIInv
<1>1. SagaIInv /\ [SagaNext]_sagaVars => SagaIInv'
  BY RequestsPreserve, OthersPreserve DEF SagaNext
<1> QED BY <1>1, InvariantInit, PTL DEF SagaSpec

-----------------------------------------------------------------------------
\* submitClaim, recoverStalledSagas and the network, in any order and through any
\* crash: a saga's row says SUCCESS only when its transaction was applied.
THEOREM SuccessIsPaid == SagaSpec => []SuccessMeansPaid
<1>1. SagaIInv => SuccessMeansPaid BY DEF SagaIInv, VerdictsAreFinal
<1> QED BY <1>1, SagaInvariant, PTL

\* The re-check of the status under the lock keeps a second request from sending a
\* claim, however many submit it, whenever its lock expires, and however often the
\* first one repeats its envelope over the RPC node and Horizon.
THEOREM OnlyOneRequestSends == SagaSpec => []OneRequestBroadcasts
<1>1. SagaIInv => OneRequestBroadcasts BY DEF SagaIInv
<1> QED BY <1>1, SagaInvariant, PTL

\* What recoverStalledSagas writes over a row agrees with what the network did and
\* can still do, however long ago the job looked.
THEOREM RecoveryAgrees == SagaSpec => RecoveryIsRight
<1>1. ASSUME SagaIInv, NEW r \in Recoverers, NEW t \in Txs,
             SettleStalled(r), saga'[t] # saga[t]
      PROVE  ledger[t] \in IF saga'[t] = "SUCCESS" THEN {"applied"} ELSE {"failed", "dead"}
  <2> USE <1>1 DEF SagaIInv, StateOK, HandlersOK, SagaTypeOK, RecoveryState
  <2>1. recovery[r].tx \in Txs /\ recovery[r].decision \in {"SUCCESS", "FAILED"}
    BY DEF SettleStalled, rows
  <2>2. t = recovery[r].tx /\ saga'[t] = recovery[r].decision
    BY <2>1 DEF SettleStalled, Record
  <2> QED BY <2>1, <2>2 DEF SettleStalled, VerdictsAreFinal, Final
<1>2. SagaIInv =>
        [\A r \in Recoverers, t \in Txs :
           SettleStalled(r) /\ saga'[t] # saga[t] =>
             ledger[t] \in IF saga'[t] = "SUCCESS" THEN {"applied"}
                                                   ELSE {"failed", "dead"}]_sagaVars
  BY <1>1
<1> QED BY <1>2, SagaInvariant, PTL DEF RecoveryIsRight
=============================================================================
