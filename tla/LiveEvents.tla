----------------------------- MODULE LiveEvents -----------------------------
(***************************************************************************)
(* The live path of a contract event.  The instance that indexes it puts   *)
(* it on its own event bus (emitSSE of indexerService.ts, sse.ts) and sends *)
(* it to the Redis stream; every backend instance, that one too, reads the *)
(* stream with a cursor of its own and puts what it reads on its bus       *)
(* (redisStreams.ts); the WebSocket gateway passes what is on the bus to   *)
(* the subscriptions of its clients (uwsGateway.ts, subscriptions.ts,      *)
(* subscriptionManager.ts).  What a subscription is sent is named by where *)
(* it came from and its number there.                                      *)
(*                                                                         *)
(* The handlers of the gateway never await, so each is one step; so is the *)
(* publishing up to its XADD, whose answer comes later; the read loop is   *)
(* two: XREAD is sent, and its reply is handled.  Left out: the trimming   *)
(* of the stream, and the hygiene group, in which nothing is ever pending. *)
(*                                                                         *)
(* External: Redis, whose XREAD with `$' waits for what comes after the    *)
(* call, and its client, which sends a command again when the connection   *)
(* was lost; and the browsers, which give each subscription a new id.      *)
(***************************************************************************)
EXTENDS Integers, Sequences

CONSTANTS Instances, SubIds,
          BusSubs,      \* subscriptions to onEvent or to one name; the others are to
                        \* onStreamEvent
          BatchSize,
          MaxPublished, \* bound: events an instance publishes
          MaxEvents     \* bound: entries of the stream

ASSUME LiveAssumption == BatchSize \in Nat \ {0} /\ BusSubs \subseteq SubIds

VARIABLES published,   \* history: events the indexer of the instance published
          adding,      \* its XADDs without an answer
          appended,    \* length of the stream
          lastStreamId,\* the cursor of each instance; Latest until it read an event
          reading,     \* the id its XREAD waits after, or NotReading
          startedAt,   \* history: length of the stream at the first XREAD of the process
          emitted,     \* history: how many entries of the stream it put on its bus
          socket,      \* one client of each instance: its connection is open
          controllers, \* subscriptions of the connection with an AbortController
          registered,  \* clientSubscriptions of the subscription manager
          listening,   \* number of bus listeners per subscription
          delivered    \* history: what each subscription that goes on was sent

streamVars == <<published, adding, appended, lastStreamId, reading, startedAt, emitted>>
gatewayVars == <<socket, controllers, registered, listening>>
liveVars == <<streamVars, gatewayVars, delivered>>

Latest == -1      \* the cursor `$'
NotReading == -2

LiveInit ==
  /\ published = [i \in Instances |-> 0]
  /\ adding = [i \in Instances |-> 0]
  /\ appended = 0
  /\ lastStreamId = [i \in Instances |-> Latest]
  /\ reading = [i \in Instances |-> NotReading]
  /\ startedAt = [i \in Instances |-> NotReading]
  /\ emitted = [i \in Instances |-> 0]
  /\ socket = [i \in Instances |-> FALSE]
  /\ controllers = [i \in Instances |-> {}]
  /\ registered = [i \in Instances |-> {}]
  /\ listening = [i \in Instances |-> [s \in SubIds |-> 0]]
  /\ delivered = [i \in Instances |-> [s \in SubIds |-> <<>>]]

-----------------------------------------------------------------------------
(* Producer and read loop.                                                 *)

Direct(n) == [from |-> "direct", nr |-> n]
Local == [from |-> "local", nr |-> 0]
Entry(n) == [from |-> "stream", nr |-> n]

\* Each event is sent once to every listener that these subscriptions have on the bus.
Emit(i, subs, events) ==
  delivered' = [delivered EXCEPT ![i] = [s \in SubIds |->
    CASE s \notin subs \/ listening[i][s] = 0 -> @[s]
      [] s \in subs /\ listening[i][s] = 1 -> @[s] \o events
      [] OTHER -> @[s] \o events \o events]]

\* publishToStream goes to its XADD and no further; emitSSE follows, on the name of the
\* event and on `sse', to which onStreamEvent does not listen.
PublishToStream(i) ==
  /\ published[i] < MaxPublished
  /\ published' = [published EXCEPT ![i] = @ + 1]
  /\ adding' = [adding EXCEPT ![i] = @ + 1]
  /\ Emit(i, BusSubs, <<Direct(published[i] + 1)>>)
  /\ UNCHANGED <<appended, lastStreamId, reading, startedAt, emitted, gatewayVars>>

\* The entry is in the stream, and its id on the way back or lost.
AppendToStream(i) ==
  /\ adding[i] > 0 /\ appended < MaxEvents
  /\ appended' = appended + 1
  /\ \E answered \in {0, 1} : adding' = [adding EXCEPT ![i] = @ - answered]
  /\ UNCHANGED <<published, lastStreamId, reading, startedAt, emitted, gatewayVars, delivered>>

\* XADD failed: the event goes to the bus of this instance only, on `soroban:stream' too.
PublishLocally(i) ==
  /\ adding[i] > 0
  /\ adding' = [adding EXCEPT ![i] = @ - 1]
  /\ Emit(i, SubIds, <<Local>>)
  /\ UNCHANGED <<published, appended, lastStreamId, reading, startedAt, emitted, gatewayVars>>

XRead(i) ==
  /\ reading[i] = NotReading
  /\ reading' = [reading EXCEPT ![i] = IF lastStreamId[i] = Latest THEN appended
                                       ELSE lastStreamId[i]]
  /\ startedAt' = [startedAt EXCEPT ![i] = IF @ = NotReading THEN appended ELSE @]
  /\ UNCHANGED <<published, adding, appended, lastStreamId, emitted, gatewayVars, delivered>>

\* The reply: a batch, after which the cursor is at its last event.
HandleReply(i) ==
  /\ reading[i] # NotReading /\ reading[i] < appended
  /\ LET last == IF appended - reading[i] <= BatchSize THEN appended
                 ELSE reading[i] + BatchSize
     IN  /\ lastStreamId' = [lastStreamId EXCEPT ![i] = last]
         /\ emitted' = [emitted EXCEPT ![i] = @ + (last - reading[i])]
         /\ Emit(i, SubIds, [k \in 1 .. last - reading[i] |-> Entry(reading[i] + k)])
  /\ reading' = [reading EXCEPT ![i] = NotReading]
  /\ UNCHANGED <<published, adding, appended, startedAt, gatewayVars>>

\* Nothing came before the timeout, or the call failed.
ReadEndsEmpty(i) ==
  /\ reading[i] # NotReading
  /\ reading' = [reading EXCEPT ![i] = NotReading]
  /\ UNCHANGED <<published, adding, appended, lastStreamId, startedAt, emitted, gatewayVars,
                 delivered>>

\* Connections and cursor are in memory, and so are the XADDs that Redis did not get.
InstanceRestarts(i) ==
  /\ lastStreamId[i] # Latest
  /\ published' = [published EXCEPT ![i] = 0]
  /\ adding' = [adding EXCEPT ![i] = 0]
  /\ lastStreamId' = [lastStreamId EXCEPT ![i] = Latest]
  /\ reading' = [reading EXCEPT ![i] = NotReading]
  /\ startedAt' = [startedAt EXCEPT ![i] = NotReading]
  /\ emitted' = [emitted EXCEPT ![i] = 0]
  /\ socket' = [socket EXCEPT ![i] = FALSE]
  /\ controllers' = [controllers EXCEPT ![i] = {}]
  /\ registered' = [registered EXCEPT ![i] = {}]
  /\ listening' = [listening EXCEPT ![i] = [s \in SubIds |-> 0]]
  /\ delivered' = [delivered EXCEPT ![i] = [s \in SubIds |-> <<>>]]
  /\ UNCHANGED appended

-----------------------------------------------------------------------------
(* Gateway.                                                                *)

Open(i) ==
  /\ ~socket[i]
  /\ socket' = [socket EXCEPT ![i] = TRUE]
  /\ UNCHANGED <<streamVars, controllers, registered, listening, delivered>>

\* Registers, keeps the controller, and subscribes to the bus.
SubscriptionStart(i, s) ==
  /\ socket[i] /\ s \notin registered[i]
  /\ registered' = [registered EXCEPT ![i] = @ \union {s}]
  /\ controllers' = [controllers EXCEPT ![i] = @ \union {s}]
  /\ listening' = [listening EXCEPT ![i][s] = @ + 1]
  /\ UNCHANGED <<streamVars, socket, delivered>>

\* Aborting a controller unsubscribes from the bus and unregisters.
Abort(i, subs) ==
  /\ controllers' = [controllers EXCEPT ![i] = @ \ subs]
  /\ registered' = [registered EXCEPT ![i] = @ \ subs]
  /\ listening' = [listening EXCEPT ![i] =
       [s \in SubIds |-> IF s \in subs THEN @[s] - 1 ELSE @[s]]]

SubscriptionStop(i, s) ==
  /\ s \in controllers[i]
  /\ Abort(i, {s})
  /\ delivered' = [delivered EXCEPT ![i][s] = <<>>]
  /\ UNCHANGED <<streamVars, socket>>

\* Slip: starting the restored subscriptions without aborting the old ones.
StartAgain(i) ==
  /\ registered[i] # {}
  /\ listening' = [listening EXCEPT ![i] =
       [s \in SubIds |-> IF s \in registered[i] THEN @[s] + 1 ELSE @[s]]]
  /\ UNCHANGED <<streamVars, socket, controllers, registered, delivered>>

\* Every registered subscription is aborted, if it has a controller, and started
\* again under its id.
Reconnect(i) ==
  /\ registered[i] # {}
  /\ controllers' = [controllers EXCEPT ![i] = registered[i]]
  /\ listening' = [listening EXCEPT ![i] = [s \in SubIds |->
       IF s \notin registered[i] THEN @[s]
       ELSE IF s \in controllers[i] THEN @[s] ELSE @[s] + 1]]
  /\ UNCHANGED <<streamVars, socket, registered, delivered>>

Close(i) ==
  /\ socket[i]
  /\ socket' = [socket EXCEPT ![i] = FALSE]
  /\ Abort(i, controllers[i])
  /\ delivered' = [delivered EXCEPT ![i] = [s \in SubIds |-> <<>>]]
  /\ UNCHANGED streamVars

LiveNext ==
  \E i \in Instances :
    \/ PublishToStream(i) \/ AppendToStream(i) \/ PublishLocally(i)
    \/ XRead(i) \/ HandleReply(i) \/ ReadEndsEmpty(i) \/ InstanceRestarts(i)
    \/ Open(i) \/ Reconnect(i) \/ Close(i)
    \/ \E s \in SubIds : SubscriptionStart(i, s) \/ SubscriptionStop(i, s)

LiveSpec == LiveInit /\ [][LiveNext]_liveVars

-----------------------------------------------------------------------------
\* Two neighbours among what was sent from one origin.
Neighbours(got, origin, j, k) ==
  /\ j < k /\ got[j].from = origin /\ got[k].from = origin
  /\ \A m \in DOMAIN got : j < m /\ m < k => got[m].from # origin

InOrder(got, origin) ==
  \A j, k \in DOMAIN got : Neighbours(got, origin, j, k) => got[k].nr = got[j].nr + 1

NoneFrom(got, origin) == \A j \in DOMAIN got : got[j].from # origin

(* A subscription is sent the entries of the stream one after another, none  *)
(* twice and none left out between the first and the last: across batches,   *)
(* timeouts and failures of the reader, and reconnect messages of the        *)
(* client.  What the indexer of the same instance publishes comes directly   *)
(* besides, in the same way and in an order of its own, to a subscription to *)
(* onEvent or to a name, and not to one to onStreamEvent.                    *)
StreamArrivesInOrder ==
  \A i \in Instances, s \in SubIds :
    /\ InOrder(delivered[i][s], "stream")
    /\ IF s \in BusSubs THEN InOrder(delivered[i][s], "direct")
       ELSE NoneFrom(delivered[i][s], "direct")

(* What redisStreams.ts says of its cursor: "On disconnect we simply         *)
(* reconnect with the last-id so no message is missed while this process is  *)
(* alive."  An instance that has read up to an entry has put everything      *)
(* appended since its first read on its bus.                                 *)
NoMessageMissedWhileAlive ==
  \A i \in Instances :
    lastStreamId[i] # Latest => emitted[i] = lastStreamId[i] - startedAt[i]
=============================================================================
