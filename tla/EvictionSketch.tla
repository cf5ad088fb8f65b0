--------------------------- MODULE EvictionSketch ---------------------------
(***************************************************************************)
(* The adaptive TTLs of the cache: a count-min sketch (countMinSketch.ts)  *)
(* estimates how often each key is read, and the eviction engine           *)
(* (probabilisticEviction.ts) lengthens the TTL of the keys read most.     *)
(*                                                                         *)
(* Abstracted: the FNV-1a hashes; a constant says which column of each row *)
(* a key falls in, collisions included.                                    *)
(***************************************************************************)
EXTENDS Integers, FiniteSetsExt

CONSTANTS CacheKeys, Depth, Width,
          Column,            \* [key -> [row -> column]]: _computeHashes
          MaxMultiplier,     \* maxMultiplier
          BaseTTLs,          \* the callers' TTLs
          MaxAccesses        \* bound on the accesses recorded

ASSUME EvictionAssumption ==
  /\ {Depth, Width, MaxMultiplier} \subseteq Nat \ {0} /\ BaseTTLs \subseteq Nat
  /\ Column \in [CacheKeys -> [1 .. Depth -> 0 .. Width - 1]]

VARIABLES table,             \* [row -> [column -> counter]]
          totalIncrements,
          maxEstimate,       \* the greatest estimate a TTL was computed from
          accesses,          \* history: accesses of each key, decayed like the counters
          recorded           \* history: accesses recorded

evictionVars == <<table, totalIncrements, maxEstimate, accesses, recorded>>

EvictionInit ==
  /\ table = [row \in 1 .. Depth |-> [col \in 0 .. Width - 1 |-> 0]]
  /\ totalIncrements = 0 /\ maxEstimate = 0
  /\ accesses = [k \in CacheKeys |-> 0] /\ recorded = 0

\* Slip: the counter of the first row only.
FirstRowOnly(k) ==
  [table EXCEPT ![1][Column[k][1]] = @ + 1]

Incremented(k) ==
  [row \in 1 .. Depth |-> [table[row] EXCEPT ![Column[k][row]] = @ + 1]]

Estimate(k) == Min({table[row][Column[k][row]] : row \in 1 .. Depth})

Count(k) ==
  /\ recorded < MaxAccesses /\ recorded' = recorded + 1
  /\ table' = Incremented(k)
  /\ totalIncrements' = totalIncrements + 1
  /\ accesses' = [accesses EXCEPT ![k] = @ + 1]

\* Math.round of the base TTL times 1 + score * (multiplier - 1), where the score is the
\* estimate over the greatest one.
TTLFor(estimate, greatest, base) ==
  IF greatest = 0 \/ estimate = 0 THEN base
  ELSE (2 * base * (greatest + estimate * (MaxMultiplier - 1)) + greatest) \div (2 * greatest)

-----------------------------------------------------------------------------
\* A cache hit.
RecordAccess(k) == Count(k) /\ UNCHANGED maxEstimate

\* A cache miss: the TTL of the new entry comes from the estimate before this access.
RecordAndGetTTL(k) == Count(k) /\ maxEstimate' = Max({maxEstimate, Estimate(k)})

\* safeSetAdaptive: the same, without recording.
GetAdaptiveTTL(k) ==
  /\ maxEstimate' = Max({maxEstimate, Estimate(k)})
  /\ UNCHANGED <<table, totalIncrements, accesses, recorded>>

\* Every ten minutes everything is multiplied by 0.75 and rounded down.
Decayed(n) == (3 * n) \div 4

ForceDecay ==
  /\ table' = [row \in 1 .. Depth |-> [col \in 0 .. Width - 1 |-> Decayed(table[row][col])]]
  /\ totalIncrements' = Decayed(totalIncrements)
  /\ maxEstimate' = Decayed(maxEstimate)
  /\ accesses' = [k \in CacheKeys |-> Decayed(accesses[k])]
  /\ UNCHANGED recorded

EvictionNext ==
  \/ \E k \in CacheKeys : RecordAccess(k) \/ RecordAndGetTTL(k) \/ GetAdaptiveTTL(k)
  \/ ForceDecay

EvictionSpec == EvictionInit /\ [][EvictionNext]_evictionVars

-----------------------------------------------------------------------------
TTLNow(k, base) ==
  LET estimate == Estimate(k) IN TTLFor(estimate, Max({maxEstimate, estimate}), base)

\* countMinSketch.ts: the estimate never falls below the accesses, though counters are
\* shared and every decay rounds each of them down on its own.  Of two keys the one read
\* more, by the sketch, gets a TTL at least as long, between the base and its multiple;
\* and no key is estimated above all the accesses there were.
EstimatesAreUpperBounds ==
  \A k \in CacheKeys :
    /\ accesses[k] <= Estimate(k) /\ Estimate(k) <= totalIncrements
    /\ \A base \in BaseTTLs : TTLNow(k, base) \in base .. MaxMultiplier * base
    /\ \A other \in CacheKeys \ {k} :
         Estimate(other) <= Estimate(k) =>
           \A base \in BaseTTLs : TTLNow(other, base) <= TTLNow(k, base)
=============================================================================
