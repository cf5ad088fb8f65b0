----------------------------- MODULE TwapOracle -----------------------------
(***************************************************************************)
(* The TWAP oracle (twap_oracle.rs) for one asset: a ring of price         *)
(* observations in temporary storage, the time-weighted average over it,   *)
(* the flash-volatility check and the circuit breaker.                     *)
(*                                                                         *)
(* Every update and breaker call is the oracle admin's.  A call that       *)
(* panics reverts what it wrote: an update refused for a swing and a read  *)
(* of a stale price trip the breaker and then panic, so that they change   *)
(* nothing and are no actions here.                                        *)
(***************************************************************************)
EXTENDS FiniteSetsExt, AmountSums

CONSTANTS Capacities,     \* ring sizes asked for; the code accepts 1..100
          Prices,         \* price ticks, legal or not
          Windows,        \* window_seconds of get_twap
          MaxStaleness,   \* max_staleness_seconds
          MaxDeviation,   \* max_price_deviation_bps, 0 switches the check off
          MinInterval,    \* min_update_interval
          FlashBps,       \* flash_deviation_bps after defaulting
          FlashWindow,    \* flash_ledger_window after defaulting
          TtlThreshold,   \* TEMP_LIFETIME_THRESHOLD
          TtlBump,        \* TEMP_BUMP_AMOUNT
          LedgerSpans,    \* bound: seconds a ledger takes to close
          LastLedger,     \* bound: the last ledger
          NoObservation

ASSUME OracleAssumption ==
  /\ Capacities \subseteq 1 .. 100
  /\ Prices \subseteq Int
  /\ Windows \subseteq Nat \ {0}
  /\ {MaxStaleness, MaxDeviation, MinInterval, FlashBps, FlashWindow, TtlThreshold,
      TtlBump, LastLedger} \subseteq Nat
  /\ FlashBps \in 1 .. 10000 /\ FlashWindow > 0
  /\ LedgerSpans \subseteq Nat \ {0}

VARIABLES capacity,  \* OracleConfig.capacity, 0 before initialize_asset
          head,      \* RingBufferState.head
          count,     \* RingBufferState.count
          ring,      \* TwapDataKey::Observation
          status,    \* TwapDataKey::Status; absent reads as CircuitBroken
          ledger, time,
          ticks      \* history: every observation recorded, oldest first

oracleVars == <<capacity, head, count, ring, status, ledger, time, ticks>>
clock == <<ledger, time>>

PriceObservation ==
  [time : Nat, ledger : Nat, price : Nat \ {0}, cumulative : Nat]

OracleTypeOK ==
  /\ capacity \in Capacities \union {0}
  /\ head \in 0 .. 99 /\ (capacity > 0 => head < capacity)
  /\ count \in 0 .. capacity
  /\ DOMAIN ring = 0 .. capacity - 1
  /\ \A i \in DOMAIN ring :
       ring[i] = NoObservation \/ ring[i].obs \in PriceObservation
  /\ status \in {"Active", "CircuitBroken"}

OracleInit ==
  /\ capacity = 0 /\ head = 0 /\ count = 0
  /\ ring = [i \in {} |-> NoObservation]
  /\ status = "CircuitBroken"
  /\ ledger = 0 /\ time = 0
  /\ ticks = <<>>

-----------------------------------------------------------------------------
(* The ring.  The i-th newest observation is at Slot(i).                   *)

NewestIndex == IF head = 0 THEN capacity - 1 ELSE head - 1

Slot(i) == (NewestIndex + capacity - i) % capacity
Obs(i) == ring[Slot(i)].obs

\* An entry of temporary storage is gone once its time to live has passed.
Readable(i) ==
  ring[Slot(i)] # NoObservation /\ ledger <= ring[Slot(i)].live

\* extend_ttl: only an entry close to its end is extended.
Extended(live) == IF live - ledger < TtlThreshold THEN ledger + TtlBump ELSE live

\* Every load extends the entry it reads.
Touched(ages) ==
  [s \in DOMAIN ring |->
     IF \E i \in ages : s = Slot(i) THEN [ring[s] EXCEPT !.live = Extended(@)]
     ELSE ring[s]]

NextHead == (head + 1) % capacity

DeviationBps(new, old) ==
  ((IF new > old THEN new - old ELSE old - new) * 10000) \div old

\* A slip: looking at the newest tick only.
VisitedNewestOnly == {i \in 0 .. count - 1 : i = 0}

\* The ages flash_volatility_triggered looks at: up to the first too old.
VisitedByFlash ==
  {i \in 0 .. count - 1 :
     \A j \in 0 .. i - 1 : Obs(j).ledger >= ledger - FlashWindow}

SwingsAt(i, price) ==
  /\ Obs(i).ledger >= ledger - FlashWindow
  /\ DeviationBps(price, Obs(i).price) > FlashBps

DeviatesAtOnce(price) ==
  MaxDeviation > 0 /\ DeviationBps(price, Obs(0).price) > MaxDeviation

\* A slip: charging the interval to the new price.
CumulativeAtNewPrice(price) == Obs(0).cumulative + price * (time - Obs(0).time)
CumulativeAt(price) == Obs(0).cumulative + Obs(0).price * (time - Obs(0).time)

-----------------------------------------------------------------------------
(* Operations.                                                             *)

InitializeAsset(cap) ==
  /\ capacity = 0
  /\ capacity' = cap /\ head' = 0 /\ count' = 0
  /\ ring' = [i \in 0 .. cap - 1 |-> NoObservation]
  /\ status' = "Active"
  /\ UNCHANGED <<clock, ticks>>

\* What update_price asks of the price and the clock before it looks for swings.
Acceptable(price) ==
  /\ capacity > 0
  /\ price > 0
  /\ status = "Active"
  /\ count > 0 => /\ Readable(0)
                  /\ time > Obs(0).time
                  /\ time - Obs(0).time >= MinInterval

Store(obs, ringAfterLoads) ==
  LET old == ringAfterLoads[head]
      kept == IF old # NoObservation /\ ledger <= old.live THEN old.live ELSE ledger
  IN  ring' = [ringAfterLoads EXCEPT ![head] = [obs |-> obs, live |-> Extended(kept)]]

UpdatePrice(price) ==
  LET obs == [time |-> time, ledger |-> ledger, price |-> price,
              cumulative |-> IF count = 0 THEN 0 ELSE CumulativeAt(price)]
  IN  /\ Acceptable(price)
      /\ count > 0 => /\ \A i \in VisitedByFlash : Readable(i)
                      /\ ~DeviatesAtOnce(price)
                      /\ ~\E i \in VisitedByFlash : SwingsAt(i, price)
      /\ Store(obs, IF count = 0 THEN ring ELSE Touched(VisitedByFlash))
      /\ head' = NextHead
      /\ count' = IF count < capacity THEN count + 1 ELSE count
      /\ ticks' = Append(ticks, obs)
      /\ UNCHANGED <<capacity, status, clock>>

\* The ages get_twap reads for a window: up to the first at or before its start.
VisitedByTwap(window) ==
  {i \in 0 .. count - 1 :
     \A j \in 0 .. i - 1 : Obs(j).time > Obs(0).time - window}

Stale == time - Obs(0).time > MaxStaleness

CanReadTwap == capacity > 0 /\ status = "Active" /\ count >= 2 /\ Readable(0)

Twap(window) ==
  LET oldest == Obs(Max(VisitedByTwap(window)))
      current == CumulativeAt(Obs(0).price)
  IN  (current - oldest.cumulative) \div (time - oldest.time)

GetTwapSucceeds(window) ==
  /\ CanReadTwap
  /\ ~Stale
  /\ \A i \in VisitedByTwap(window) : Readable(i)
  /\ time # Obs(Max(VisitedByTwap(window))).time

\* A successful read leaves nothing but longer lives behind.
GetTwap(window) ==
  /\ GetTwapSucceeds(window)
  /\ ring' = Touched(VisitedByTwap(window))
  /\ UNCHANGED <<capacity, head, count, status, clock, ticks>>

GetSpotPrice ==
  /\ capacity > 0 /\ count > 0 /\ Readable(0)
  /\ ring' = Touched({0})
  /\ UNCHANGED <<capacity, head, count, status, clock, ticks>>

TripCircuitBreaker ==
  /\ capacity > 0
  /\ status' = "CircuitBroken"
  /\ UNCHANGED <<capacity, head, count, ring, clock, ticks>>

ResetCircuitBreaker ==
  /\ capacity > 0
  /\ status' = "Active"
  /\ UNCHANGED <<capacity, head, count, ring, clock, ticks>>

CloseLedger(span) ==
  /\ ledger < LastLedger
  /\ ledger' = ledger + 1
  /\ time' = time + span
  /\ UNCHANGED <<capacity, head, count, ring, status, ticks>>

OracleNext ==
  \/ \E cap \in Capacities : InitializeAsset(cap)
  \/ \E price \in Prices : UpdatePrice(price)
  \/ \E window \in Windows : GetTwap(window)
  \/ GetSpotPrice
  \/ TripCircuitBreaker
  \/ ResetCircuitBreaker
  \/ \E span \in LedgerSpans : CloseLedger(span)

OracleSpec == OracleInit /\ [][OracleNext]_oracleVars

-----------------------------------------------------------------------------
(* Properties.                                                             *)

\* A read of the feed is the time-weighted average of the prices that were really in
\* force, up to now, since the newest tick at least a window older than the newest one,
\* or since the oldest tick the ring has room for: however the ring wrapped, and however
\* many reads, refused updates and trips lie between.
TwapIsTheAverage ==
  \A window \in Windows :
    GetTwapSucceeds(window) =>
      LET newest == Len(ticks)
          kept == Max({1, newest - capacity + 1}) .. newest
          before == {k \in kept : ticks[k].time <= ticks[newest].time - window}
          first == IF before = {} THEN Min(kept) ELSE Max(before)
          End(k) == IF k = newest THEN time ELSE ticks[k + 1].time
          area == SumOver([k \in first .. newest |-> ticks[k].price * (End(k) - ticks[k].time)])
      IN  Twap(window) = area \div (time - ticks[first].time)

\* No two ticks in the ring recorded within one flash window of each other are
\* further apart than the threshold, however many small moves lie between them.
WindowIsCalm ==
  \A i, j \in 0 .. count - 1 :
    i < j /\ Obs(j).ledger >= Obs(i).ledger - FlashWindow
      => DeviationBps(Obs(i).price, Obs(j).price) <= FlashBps
=============================================================================
