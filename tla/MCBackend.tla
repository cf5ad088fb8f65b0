------------------------------ MODULE MCBackend ------------------------------
(***************************************************************************)
(* The backend's components beside the claim saga are coupled by no state  *)
(* their properties are about, so one run checks them side by side: each   *)
(* behaviour exercises one of them and the others rest.                    *)
(***************************************************************************)
EXTENDS WebhookDelivery, Indexer, StaleCache, TokenBucket, LiveEvents, EvictionSketch,
        DiffSync, TreePatches, TLC

VARIABLE exercised

Leaf(v) == [leaf |-> v]
Roster(admins) == [object |-> [admins |-> [array |-> admins]]]
Named(name) == [object |-> [name |-> Leaf(name)]]
Trees ==
  {Roster(<<Named("a")>>), Roster(<<Named("b"), Leaf("a"), Leaf("c")>>),
   [object |-> [admins |-> Leaf("a"), name |-> Leaf("b")]]}

BackendInit ==
  /\ exercised \in
       {"webhooks", "indexer", "cache", "bucket", "stream", "sketch", "diff"}
  /\ HookInit /\ IndexerInit /\ CacheInit /\ BucketInit /\ LiveInit
  /\ EvictionInit /\ DiffInit
  /\ exercised # "webhooks" => provider = "sqs" /\ ~dlqEnabled
  /\ exercised # "diff" => result = Roster(<<Named("a")>>)
  /\ exercised # "bucket" => \A s \in Servers : skew[s] = 0

BackendNext ==
  /\ UNCHANGED exercised
  /\ \/ /\ exercised = "webhooks" /\ HookNext
        /\ UNCHANGED <<indexerVars, cacheVars, bucketVars, liveVars,
                       evictionVars, diffVars>>
     \/ /\ exercised = "indexer" /\ IndexerNext
        /\ UNCHANGED <<hookVars, cacheVars, bucketVars, liveVars,
                       evictionVars, diffVars>>
     \/ /\ exercised = "cache" /\ CacheNext
        /\ UNCHANGED <<hookVars, indexerVars, bucketVars, liveVars,
                       evictionVars, diffVars>>
     \/ /\ exercised = "bucket" /\ BucketNext
        /\ UNCHANGED <<hookVars, indexerVars, cacheVars, liveVars,
                       evictionVars, diffVars>>
     \/ /\ exercised = "stream" /\ LiveNext
        /\ UNCHANGED <<hookVars, indexerVars, cacheVars, bucketVars,
                       evictionVars, diffVars>>
     \/ /\ exercised = "sketch" /\ EvictionNext
        /\ UNCHANGED <<hookVars, indexerVars, cacheVars, bucketVars,
                       liveVars, diffVars>>
     \/ /\ exercised = "diff" /\ DiffNext
        /\ UNCHANGED <<hookVars, indexerVars, cacheVars, bucketVars,
                       liveVars, evictionVars>>

backendVars ==
  <<exercised, hookVars, indexerVars, cacheVars, bucketVars, liveVars,
    evictionVars, diffVars>>

BackendSpec == BackendInit /\ [][BackendNext]_backendVars

\* The syncs of the indexer are alike, and so are the slots of the webhook worker.
Alike == Permutations(Syncs) \union Permutations(Slots)

Batches == {<<>>, <<"globalStats">>, <<"leaderboard">>, <<"unlisted", "globalStats">>}
Collisions ==
  [k \in {"a", "b", "c"} |->
     CASE k = "a" -> <<0, 0>> [] k = "b" -> <<0, 1>> [] k = "c" -> <<1, 1>>]
=============================================================================
