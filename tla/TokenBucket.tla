---------------------------- MODULE TokenBucket -----------------------------
(***************************************************************************)
(* The token bucket of one client, shared through Redis by all backend     *)
(* servers: tokenBucket.lua run by tokenBucketService.ts for every tRPC    *)
(* request, with the costs of rateLimitConfig.ts.  The script is atomic;   *)
(* the time it works with is the clock of the server that calls it, in     *)
(* whole seconds, and the servers' clocks need not agree.                  *)
(*                                                                         *)
(* External: Redis expires the key by its own clock, may lose it in a      *)
(* restart and may fail a call before or after the script has run.         *)
(***************************************************************************)
EXTENDS AmountSums

CONSTANTS Servers, Capacity, RefillRate,
          Requests,              \* sequences of route classes, one per batched call
          MaxSkew, MaxUptime, MaxFresh, MaxRewound   \* bounds

Routes == {"status", "unlisted", "globalStats", "leaderboard"}

ASSUME BucketAssumption ==
  /\ {Capacity, RefillRate} \subseteq Nat \ {0}
  /\ MaxSkew \in Nat /\ MaxSkew * RefillRate <= Capacity
  /\ Requests \subseteq Seq(Routes)

VARIABLES skew,      \* how far each server's clock is ahead
          uptime,    \* seconds since the start
          bucket,    \* the Redis hash, or NoBucket
          keyAge,    \* seconds since it was last written
          spent,     \* history: tokens paid for admitted requests
          refilled,  \* history: times the client got a fresh bucket
          rewound    \* history: seconds by which lastRefill was set back

bucketVars == <<skew, uptime, bucket, keyAge, spent, refilled, rewound>>

NoBucket == [tokens |-> Capacity, lastRefill |-> -1]

BucketInit ==
  /\ skew \in [Servers -> 0 .. MaxSkew]
  /\ uptime = 0
  /\ bucket = NoBucket /\ keyAge = 0
  /\ spent = 0 /\ refilled = 1 /\ rewound = 0

Clock(s) == uptime + skew[s]
AtLeast(a, b) == IF a > b THEN a ELSE b
AtMost(a, b) == IF a < b THEN a ELSE b

RouteCostWeight(route) ==
  CASE route = "status" -> 1 [] route = "unlisted" -> 5
    [] route = "globalStats" -> 10 [] route = "leaderboard" -> 20

RequestCost(request) ==
  IF request = <<>> THEN RouteCostWeight("unlisted")
  ELSE SumOver([i \in DOMAIN request |-> RouteCostWeight(request[i])])

LastRefill(s) == IF bucket = NoBucket THEN Clock(s) ELSE bucket.lastRefill
Refilled(s) ==
  AtMost(Capacity, bucket.tokens + AtLeast(0, Clock(s) - LastRefill(s)) * RefillRate)

\* Slip: a denied request does not move lastRefill.
RefillAgain(s, cost) ==
  LET tokens == Refilled(s)
  IN  /\ bucket' = IF tokens >= cost
                   THEN [tokens |-> tokens - cost, lastRefill |-> Clock(s)]
                   ELSE [tokens |-> tokens, lastRefill |-> LastRefill(s)]
      /\ keyAge' = 0
      /\ rewound' = rewound + AtLeast(0, LastRefill(s) - Clock(s))

\* The script: refill, take the cost if there is enough, and write both fields
\* either way, with the caller's clock also when that is behind.
RunScript(s, cost) ==
  LET tokens == Refilled(s)
  IN  /\ bucket' = [tokens |-> IF tokens >= cost THEN tokens - cost ELSE tokens,
                    lastRefill |-> Clock(s)]
      /\ keyAge' = 0
      /\ rewound' = rewound + AtLeast(0, LastRefill(s) - Clock(s))

Check(s, request) ==
  LET cost == RequestCost(request)
  IN  /\ RunScript(s, cost)
      /\ rewound' <= MaxRewound
      /\ spent' = IF Refilled(s) >= cost THEN spent + cost ELSE spent
      /\ UNCHANGED <<skew, uptime, refilled>>

\* Any other error lets the request pass; the script may have run.
CheckFailsOpen(s, request) ==
  /\ RunScript(s, RequestCost(request)) /\ rewound' <= MaxRewound
  /\ UNCHANGED <<skew, uptime, spent, refilled>>

\* DEL by the reset route, or the key is lost with Redis.
ResetBucket ==
  /\ bucket # NoBucket /\ refilled < MaxFresh
  /\ bucket' = NoBucket
  /\ refilled' = refilled + 1
  /\ UNCHANGED <<skew, uptime, keyAge, spent, rewound>>

KeyTTL == ((Capacity * 2) + RefillRate - 1) \div RefillRate

Second ==
  /\ uptime < MaxUptime
  /\ uptime' = uptime + 1
  /\ keyAge' = IF bucket = NoBucket THEN 0 ELSE keyAge + 1
  /\ bucket' = IF keyAge' >= KeyTTL THEN NoBucket ELSE bucket
  /\ UNCHANGED <<skew, spent, refilled, rewound>>

BucketNext ==
  \/ \E s \in Servers, request \in Requests : Check(s, request) \/ CheckFailsOpen(s, request)
  \/ ResetBucket \/ Second

BucketSpec == BucketInit /\ [][BucketNext]_bucketVars

-----------------------------------------------------------------------------
(* Over any stretch of time a client gets, through however many servers, at  *)
(* most the fresh buckets it was given and RefillRate tokens a second, where *)
(* the servers' disagreement is worth the seconds by which one of them set   *)
(* lastRefill back, and once per bucket the difference of their clocks.      *)
SpendingIsBounded ==
  spent <= refilled * (Capacity + MaxSkew * RefillRate) + (uptime + rewound) * RefillRate
=============================================================================
