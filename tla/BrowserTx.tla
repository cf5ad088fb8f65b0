----------------------------- MODULE BrowserTx ------------------------------
(***************************************************************************)
(* A transaction of the dashboard, from the button to the verdict the user *)
(* is shown: sorobanClient.ts builds it from the account's sequence number *)
(* with a time bound, simulates it, the wallet signs it, and               *)
(* submitSignedTransaction sends it and polls for the outcome until its    *)
(* attempts are used up.  Several of them may be under way for one wallet: *)
(* the allocation modal closes before its transaction is submitted.        *)
(*                                                                         *)
(* External: Horizon (the sequence number it reports may be one ledger     *)
(* old), the RPC node, the wallet and the network.  Time is counted in     *)
(* units of half the polling interval; the browser's clock may be ahead of *)
(* the network's.  What the calls do to the registry is in PayoutRegistry. *)
(***************************************************************************)
EXTENDS Integers

CONSTANTS Submissions,           \* calls of the dashboard's handlers
          Handlers,              \* which of the three buttons are pressed
          TimeBound,             \* setTimeout(60)
          PollEvery, MaxAttempts,
          MaxAhead,              \* how far the browser's clock may be ahead
          LastInstant            \* bound on the clock

ASSUME PollingOutlivesTheTransaction ==
  /\ {TimeBound, PollEvery, MaxAttempts, MaxAhead} \subseteq Nat
  /\ TimeBound + MaxAhead < PollEvery * (MaxAttempts + 1)

NoTx == [of |-> "nobody", call |-> "nothing", sequence |-> 0, until |-> -1]

VARIABLES now, ahead,
          sequence,    \* of the account, on the ledger
          pool,        \* transactions the network has accepted and not decided
          applied,     \* [outcome -> set of transactions]
          sub          \* [submission -> its place in the handler]

txVars == <<now, ahead, sequence, pool, applied, sub>>

Idle == [step |-> "idle", handler |-> "none", tx |-> NoTx, attempts |-> 0,
         nextPoll |-> 0, asked |-> {}, told |-> "nothing"]

TxInit ==
  /\ now = 0 /\ ahead \in 0 .. MaxAhead
  /\ sequence = 0 /\ pool = {} /\ applied = [success |-> {}, failed |-> {}]
  /\ sub = [s \in Submissions |-> Idle]

At(s, step) == sub[s].step = step
Network == <<now, ahead, sequence, pool, applied>>
Becomes(s, step) == sub' = [sub EXCEPT ![s].step = step]
Tell(s, verdict) == sub' = [sub EXCEPT ![s].step = "done", ![s].told = verdict,
                                       ![s].asked = {}]
-----------------------------------------------------------------------------
(* The handlers: each awaits the same four steps in turn.                  *)
Press(s, handler) ==
  /\ At(s, "idle") /\ handler \in Handlers
  /\ sub' = [sub EXCEPT ![s].step = "building", ![s].handler = handler]
  /\ UNCHANGED Network

FundOrg(s) == Press(s, "fund")
HandleClaim(s) == Press(s, "claim")
AllocateSubmit(s) == Press(s, "allocate")

(* Until it is sent, an error ends a submission and nothing is on the way. *)
GivesUp(s) ==
  /\ sub[s].step \in {"building", "simulating", "signing"}
  /\ Tell(s, "not sent")
  /\ UNCHANGED Network

-----------------------------------------------------------------------------
\* Slip: the time bound of a transaction is twice as long.
BuildForLonger(s, call) ==
  /\ At(s, "building")
  /\ \E reported \in {sequence, sequence - 1} \cap Nat :
       sub' = [sub EXCEPT ![s].step = "simulating",
                          ![s].tx = [of |-> s, call |-> call, sequence |-> reported + 1,
                                     until |-> now + ahead + 2 * TimeBound]]
  /\ UNCHANGED Network

(* The account is loaded, then the transaction is built at once: its       *)
(* sequence number is the reported one plus one, its bound is taken from   *)
(* the browser's clock.                                                    *)
Build(s, call) ==
  /\ At(s, "building")
  /\ \E reported \in {sequence, sequence - 1} \cap Nat :
       sub' = [sub EXCEPT ![s].step = "simulating",
                          ![s].tx = [of |-> s, call |-> call, sequence |-> reported + 1,
                                     until |-> now + ahead + TimeBound]]
  /\ UNCHANGED Network

BuildFundOrgTransaction(s) == sub[s].handler = "fund" /\ Build(s, "fund_org")
BuildClaimPayoutTransaction(s) == sub[s].handler = "claim" /\ Build(s, "claim_payout")
BuildAllocatePayoutTransaction(s) ==
  sub[s].handler = "allocate" /\ Build(s, "allocate_payout")

Simulated(s) == At(s, "simulating") /\ Becomes(s, "signing") /\ UNCHANGED Network

(* The wallet has signed; only the allocation modal closes at this point.  *)
SignedByWallet(s) ==
  /\ At(s, "signing")
  /\ sub' = [sub EXCEPT ![s].step = "sending",
                        ![s].told = IF sub[s].handler = "allocate" THEN "closed" ELSE @]
  /\ UNCHANGED Network
-----------------------------------------------------------------------------
(* External: the network takes a transaction whose number is the next one  *)
(* and whose bound has not passed, one per account at a time; otherwise it *)
(* answers an error or, when it holds another of the account, "try again". *)
MayStillApply(tx) == tx.sequence = sequence + 1 /\ now <= tx.until

ClosesLedger(tx, outcome) ==
  /\ tx \in pool /\ MayStillApply(tx)
  /\ pool' = pool \ {tx} /\ sequence' = tx.sequence
  /\ applied' = [applied EXCEPT ![outcome] = @ \cup {tx}]
  /\ UNCHANGED <<now, ahead, sub>>

Expires(tx) ==
  /\ tx \in pool /\ ~MayStillApply(tx)
  /\ pool' = pool \ {tx}
  /\ UNCHANGED <<now, ahead, sequence, applied, sub>>

SendTransaction(tx, answer) ==
  \/ MayStillApply(tx) /\ pool = {} /\ answer = "PENDING" /\ pool' = {tx}
  \/ MayStillApply(tx) /\ pool # {} /\ answer = "TRY_AGAIN_LATER" /\ UNCHANGED pool
  \/ ~MayStillApply(tx) /\ answer = "ERROR" /\ UNCHANGED pool

TransactionStatus(tx) ==
  IF tx \in applied.success THEN "SUCCESS"
  ELSE IF tx \in applied.failed THEN "FAILED" ELSE "NOT_FOUND"
-----------------------------------------------------------------------------
(* submitSignedTransaction: only the answer ERROR is an error; the polls   *)
(* start one interval after any other.                                     *)
Send(s) ==
  /\ At(s, "sending")
  /\ \E answer \in {"PENDING", "TRY_AGAIN_LATER", "ERROR"} :
       /\ SendTransaction(sub[s].tx, answer)
       /\ IF answer = "ERROR" THEN Tell(s, "refused")
          ELSE sub' = [sub EXCEPT ![s].step = "polling", ![s].nextPoll = now + PollEvery]
  /\ UNCHANGED <<now, ahead, sequence, applied>>

(* The request or its answer is lost: the caller sees an error, whatever   *)
(* became of the transaction.                                              *)
SendIsLost(s) ==
  /\ At(s, "sending")
  /\ \/ UNCHANGED pool
     \/ \E answer \in {"PENDING", "TRY_AGAIN_LATER", "ERROR"} :
          SendTransaction(sub[s].tx, answer)
  /\ Tell(s, "unknown")
  /\ UNCHANGED <<now, ahead, sequence, applied>>

(* The interval fires, never early: the status is asked for, or the last   *)
(* attempt has been made.  Asked and not answered is a lost request.       *)
Poll(s) ==
  /\ At(s, "polling") /\ now >= sub[s].nextPoll
  /\ LET attempts == sub[s].attempts + 1
     IN  IF attempts > MaxAttempts THEN Tell(s, "timed out")
         ELSE sub' = [sub EXCEPT ![s].attempts = attempts, ![s].nextPoll = now + PollEvery,
                                 ![s].asked = @ \cup {TransactionStatus(sub[s].tx)}]
  /\ UNCHANGED Network

Answered(s, status) ==
  /\ At(s, "polling") /\ status \in sub[s].asked
  /\ CASE status = "SUCCESS" -> Tell(s, "confirmed")
       [] status = "FAILED" -> Tell(s, "failed")
       [] OTHER -> sub' = [sub EXCEPT ![s].asked = @ \ {status}]
  /\ UNCHANGED Network

TimePasses ==
  /\ now < LastInstant /\ now' = now + 1
  /\ UNCHANGED <<ahead, sequence, pool, applied, sub>>

TxNext ==
  \/ TimePasses
  \/ \E s \in Submissions :
       \/ FundOrg(s) \/ HandleClaim(s) \/ AllocateSubmit(s)
       \/ BuildFundOrgTransaction(s) \/ BuildClaimPayoutTransaction(s)
       \/ BuildAllocatePayoutTransaction(s)
       \/ Simulated(s) \/ SignedByWallet(s) \/ GivesUp(s)
       \/ Send(s) \/ SendIsLost(s) \/ Poll(s)
       \/ \E status \in sub[s].asked : Answered(s, status)
  \/ \E tx \in pool :
       Expires(tx) \/ \E outcome \in {"success", "failed"} : ClosesLedger(tx, outcome)

TxSpec == TxInit /\ [][TxNext]_txVars
-----------------------------------------------------------------------------
(* A verdict the user acts on is final: "confirmed" and "failed" are what  *)
(* the ledger holds, and after "refused", "timed out" or an error before   *)
(* sending, a transaction that has not been applied never will be, so that *)
(* trying again cannot pay twice behind the user's back.  (An error while  *)
(* sending says nothing: see SendIsLost.)  It is about the bound that      *)
(* sorobanClient.ts:216 sets and the attempts that :425 counts.            *)
VerdictIsFinal == \A s \in Submissions :
  LET tx == sub[s].tx
  IN  CASE sub[s].told = "confirmed" -> tx \in applied.success
        [] sub[s].told = "failed" -> tx \in applied.failed
        [] sub[s].told \in {"refused", "timed out", "not sent"} ->
             tx \in pool => ~MayStillApply(tx)
        [] OTHER -> TRUE
=============================================================================
