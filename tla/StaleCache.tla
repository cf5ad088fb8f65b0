----------------------------- MODULE StaleCache -----------------------------
(***************************************************************************)
(* One entry of the stale-while-revalidate cache (staleCache.ts, and the   *)
(* middleware over it): a reader gets the data and the metadata of the     *)
(* entry from Redis, returns what it found, however stale, and may start a *)
(* refresh in the background; without a usable entry it fetches the value  *)
(* itself.  The value in the database changes once, and mutations drop the *)
(* entry.                                                                  *)
(*                                                                         *)
(* External: Redis, which drops a key when its TTL is over, and time: an   *)
(* operation under way takes at most MaxLatency ticks.                     *)
(***************************************************************************)
EXTENDS Integers

CONSTANTS Readers, Refreshers,
          StaleAfter, ExpireAfter,  \* staleThresholdMs, expireThresholdMs
          TTL,                      \* defaultTTL
          MaxLatency

ASSUME StaleCacheAssumption ==
  /\ {StaleAfter, ExpireAfter, TTL, MaxLatency} \subseteq Nat
  /\ StaleAfter <= ExpireAfter /\ TTL > 0
  /\ Readers \intersect Refreshers = {}

VARIABLES dbValue,    \* "old" or "new"
          since,      \* ticks since the value changed, up to the limit of interest
          dataKey,    \* the data in Redis, with the ticks it has left
          metaKey,    \* its metadata, with the age of its timestamp
          pending,    \* pendingRefreshes has the key
          flight,     \* what each reader and each background refresh does
          served      \* how outdated the last answer was

cacheKeys == <<dataKey, metaKey>>
cacheVars == <<dbValue, since, cacheKeys, pending, flight, served>>

Tasks == Readers \union Refreshers
AgeLimit == TTL + 2 * MaxLatency
Gone == [value |-> "none", left |-> 0, age |-> 0]
Grounded == [at |-> "idle", value |-> "none", age |-> 0, todo |-> {}]

CacheInit ==
  /\ dbValue = "old" /\ since = 0
  /\ dataKey = Gone /\ metaKey = Gone
  /\ pending = FALSE /\ served = 0
  /\ flight = [f \in Tasks |-> Grounded]

Outdated(value) == IF value = "old" /\ dbValue = "new" THEN since ELSE 0

-----------------------------------------------------------------------------
(* Readers.                                                                *)

GetData(r) ==
  /\ flight[r] = Grounded
  /\ flight' = [flight EXCEPT ![r] = [Grounded EXCEPT !.at = "meta", !.value = dataKey.value]]
  /\ UNCHANGED <<dbValue, since, cacheKeys, pending, served>>

\* No entry, half an entry, or one that expired; a reader that loses Redis on the way
\* finds nothing either.
MustFetch(r) ==
  flight[r].value = "none" \/ metaKey = Gone \/ metaKey.age > ExpireAfter

\* A stale entry is refreshed in the background, if the dice say so and no refresh is
\* pending, and returned all the same.
GetMeta(r) ==
  /\ flight[r].at = "meta"
  /\ \/ /\ MustFetch(r)
        /\ flight' = [flight EXCEPT ![r] = [Grounded EXCEPT !.at = "fetch"]]
        /\ UNCHANGED <<pending, served>>
     \/ /\ ~MustFetch(r)
        /\ served' = Outdated(flight[r].value)
        /\ \/ /\ flight' = [flight EXCEPT ![r] = Grounded]
              /\ UNCHANGED pending
           \/ /\ metaKey.age > StaleAfter /\ ~pending
              /\ \E b \in Refreshers :
                   /\ flight[b] = Grounded
                   /\ flight' = [flight EXCEPT ![r] = Grounded,
                                               ![b] = [Grounded EXCEPT !.at = "fetch"]]
              /\ pending' = TRUE
  /\ UNCHANGED <<dbValue, since, cacheKeys>>

-----------------------------------------------------------------------------
(* Fetching and storing.                                                   *)

Fetch(f) ==
  /\ flight[f].at = "fetch"
  /\ flight' = [flight EXCEPT ![f].at = "store", ![f].value = dbValue,
                              ![f].todo = {"data", "meta"}]
  /\ UNCHANGED <<dbValue, since, cacheKeys, pending, served>>

\* A reader passes the error on; a refresh logs it.
FetchFails(f) ==
  /\ flight[f].at = "fetch"
  /\ flight' = [flight EXCEPT ![f] = Grounded]
  /\ pending' = (pending /\ f \in Readers)
  /\ UNCHANGED <<dbValue, since, cacheKeys, served>>

\* A slip: the adaptive TTL of probabilisticEviction.ts, which triples it.
AdaptiveTTL == 3 * TTL
EntryTTL == TTL

\* The two keys are set at the same time, in either order; safeSet swallows errors.
StoreEntry(f, key) ==
  /\ flight[f].at = "store" /\ key \in flight[f].todo
  /\ dataKey' \in {dataKey, IF key = "data"
                            THEN [value |-> flight[f].value, left |-> EntryTTL, age |-> 0]
                            ELSE dataKey}
  /\ metaKey' \in {metaKey, IF key = "meta"
                            THEN [value |-> "meta", left |-> EntryTTL, age |-> 0]
                            ELSE metaKey}
  /\ flight' = [flight EXCEPT ![f].todo = @ \ {key}]
  /\ UNCHANGED <<dbValue, since, pending, served>>

\* The value fetched is returned.
EndFlight(f) ==
  /\ flight[f].at = "store" /\ flight[f].todo = {}
  /\ flight' = [flight EXCEPT ![f] = Grounded]
  /\ pending' = (pending /\ f \in Readers)
  /\ served' = IF f \in Readers THEN Outdated(flight[f].value) ELSE served
  /\ UNCHANGED <<dbValue, since, cacheKeys>>

-----------------------------------------------------------------------------
(* Mutations, Redis and time.                                              *)

Mutate ==
  /\ dbValue = "old"
  /\ dbValue' = "new"
  /\ UNCHANGED <<since, cacheKeys, pending, flight, served>>

\* safeDel swallows errors, and a pending refresh is forgotten, not stopped.
Invalidate ==
  /\ dbValue = "new"
  /\ dataKey' \in {dataKey, Gone} /\ metaKey' \in {metaKey, Gone}
  /\ pending' = FALSE
  /\ UNCHANGED <<dbValue, since, flight, served>>

Older(key) ==
  IF key.left <= 1 THEN Gone
  ELSE [key EXCEPT !.left = @ - 1, !.age = IF @ > ExpireAfter THEN @ ELSE @ + 1]

Tick ==
  /\ \A f \in Tasks : flight[f] # Grounded => flight[f].age < MaxLatency
  /\ flight' = [f \in Tasks |-> IF flight[f] = Grounded THEN Grounded
                                ELSE [flight[f] EXCEPT !.age = @ + 1]]
  /\ dataKey' = Older(dataKey) /\ metaKey' = Older(metaKey)
  /\ since' = IF dbValue = "new" /\ since <= AgeLimit THEN since + 1 ELSE since
  /\ UNCHANGED <<dbValue, pending, served>>

-----------------------------------------------------------------------------

CacheNext ==
  \/ \E r \in Readers : GetData(r) \/ GetMeta(r)
  \/ \E f \in Tasks : \/ Fetch(f) \/ FetchFails(f) \/ EndFlight(f)
                      \/ \E key \in {"data", "meta"} : StoreEntry(f, key)
  \/ Mutate \/ Invalidate \/ Tick

CacheSpec == CacheInit /\ [][CacheNext]_cacheVars

\* Data and metadata are two keys, refreshes overlap with invalidations, and an old
\* value may be stored after the mutation dropped the entry.  Still no reader gets a
\* value that was replaced longer ago than the TTL and the time two operations take.
NeverServedTooOld == served <= AgeLimit
=============================================================================
