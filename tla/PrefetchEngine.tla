--------------------------- MODULE PrefetchEngine ---------------------------
(***************************************************************************)
(* The predictive prefetch of the organizations page: an engine            *)
(* (predictivePrefetch/engine.ts) started by usePredictivePrefetch.ts at   *)
(* every mount prefetches the target the pointer is heading for, or one    *)
(* that scrolls into view, and aborts what the pointer turned away from.   *)
(*                                                                         *)
(* Abstracted: the geometry; a frame may see any target's confidence       *)
(* collapse and any other one rise.  External: the requests, which settle  *)
(* in any order, whether they were aborted or not.                         *)
(***************************************************************************)
EXTENDS Integers, Sequences

CONSTANTS Links,                    \* the targets' ids
          Cooldown, GlobalCooldown, \* cooldownMs, globalCooldownMs
          MaxFlights, MaxFrames, MaxMounts    \* bounds

VARIABLES frame,          \* performance.now()
          listening,      \* "off", "pointer" or "viewport"
          mounts,         \* engines made so far; the last one is the current one
          targets,
          inFlight,       \* [target -> the flight the map holds, 0 without an entry]
          lastFireAt,     \* [target -> instant, 0 if never]
          lastGlobalFireAt,
          prefetchedOnce,
          flights         \* the prefetches fired: [mount, target, live, settled]

engine == <<inFlight, lastFireAt, lastGlobalFireAt, prefetchedOnce>>
prefetchVars == <<frame, listening, mounts, targets, engine, flights>>

Blank ==
  /\ inFlight' = [t \in Links |-> 0] /\ lastFireAt' = [t \in Links |-> 0]
  /\ lastGlobalFireAt' = 0 /\ prefetchedOnce' = {}

PrefetchInit ==
  /\ frame = 1 /\ listening = "off" /\ mounts = 0 /\ targets = {}
  /\ inFlight = [t \in Links |-> 0] /\ lastFireAt = [t \in Links |-> 0]
  /\ lastGlobalFireAt = 0 /\ prefetchedOnce = {} /\ flights = <<>>

-----------------------------------------------------------------------------
\* A mount makes a new engine; a coarse pointer has it watch the viewport instead.
StartEngine ==
  /\ listening = "off" /\ mounts < MaxMounts
  /\ mounts' = mounts + 1
  /\ listening' \in {"pointer", "viewport"}
  /\ targets' \in SUBSET Links
  /\ Blank
  /\ UNCHANGED <<frame, flights>>

SetTargets ==
  /\ listening # "off"
  /\ targets' \in SUBSET Links
  /\ UNCHANGED <<frame, listening, mounts, engine, flights>>

Tracked(ts) == {t \in ts : inFlight[t] # 0}

\* The flights the map holds for the targets ts, aborted.
Aborted(ts) ==
  [f \in DOMAIN flights |-> IF f \in {inFlight[t] : t \in Tracked(ts)}
                            THEN [flights[f] EXCEPT !.live = FALSE] ELSE flights[f]]

\* They leave the map, and may be fired again.
CancelAll ==
  /\ flights' = Aborted(Links)
  /\ inFlight' = [t \in Links |-> 0]
  /\ prefetchedOnce' = prefetchedOnce \ Tracked(Links)
  /\ UNCHANGED <<frame, mounts, targets, lastFireAt, lastGlobalFireAt>>

StopEngine == listening # "off" /\ listening' = "off" /\ CancelAll

\* A click drops the predictions.
OnPointerDown == listening = "pointer" /\ UNCHANGED listening /\ CancelAll

-----------------------------------------------------------------------------
Recently(instant, gap) == instant > 0 /\ frame - instant < gap

\* Slip: the map and the cooldowns alone, without the set of those fired before.
NotJustFired(t) ==
  /\ inFlight[t] = 0
  /\ ~Recently(lastFireAt[t], Cooldown) /\ ~Recently(lastGlobalFireAt, GlobalCooldown)

MayPrefetch(t) ==
  /\ inFlight[t] = 0
  /\ ~Recently(lastFireAt[t], Cooldown) /\ ~Recently(lastGlobalFireAt, GlobalCooldown)
  /\ t \notin prefetchedOnce

\* One prefetch is started, after the flights of the targets in fallen were aborted.  The
\* callback may also throw at once: then the target is not in flight.
Fire(t, fallen) ==
  /\ MayPrefetch(t) /\ Len(flights) < MaxFlights
  /\ lastFireAt' = [lastFireAt EXCEPT ![t] = frame]
  /\ lastGlobalFireAt' = frame
  /\ prefetchedOnce' = (prefetchedOnce \ Tracked(fallen)) \union {t}
  /\ \E thrown \in BOOLEAN :
       /\ flights' = Append(Aborted(fallen), [mount |-> mounts, target |-> t,
                                              live |-> ~thrown, settled |-> thrown])
       /\ inFlight' = [l \in Links |-> IF l \in fallen \/ (l = t /\ thrown) THEN 0
                                       ELSE IF l = t THEN Len(flights) + 1 ELSE inFlight[l]]
  /\ UNCHANGED <<frame, listening, mounts, targets>>

\* Several targets may come into view at once; the global cooldown lets one through.
HandleIntersection == listening = "viewport" /\ \E t \in targets : Fire(t, {})

\* A frame aborts the flights whose confidence collapsed, and fires at most the target the
\* pointer is surest of.
Evaluate ==
  /\ listening = "pointer"
  /\ \E fallen \in SUBSET targets :
       \/ \E best \in targets \ fallen : Fire(best, fallen)
       \/ /\ Tracked(fallen) # {}
          /\ flights' = Aborted(fallen)
          /\ inFlight' = [l \in Links |-> IF l \in fallen THEN 0 ELSE inFlight[l]]
          /\ prefetchedOnce' = prefetchedOnce \ Tracked(fallen)
          /\ UNCHANGED <<frame, listening, mounts, targets, lastFireAt, lastGlobalFireAt>>

\* A request is over, aborted or not: whatever flight the engine that fired it holds for
\* the target leaves the map.
Settled(f) ==
  /\ ~flights[f].settled
  /\ flights' = [flights EXCEPT ![f].settled = TRUE, ![f].live = FALSE]
  /\ inFlight' = IF flights[f].mount = mounts
                 THEN [inFlight EXCEPT ![flights[f].target] = 0] ELSE inFlight
  /\ UNCHANGED <<frame, listening, mounts, targets, lastFireAt, lastGlobalFireAt, prefetchedOnce>>

NextFrame ==
  /\ frame < MaxFrames /\ frame' = frame + 1
  /\ UNCHANGED <<listening, mounts, targets, engine, flights>>

PrefetchNext ==
  \/ StartEngine \/ StopEngine \/ SetTargets
  \/ OnPointerDown \/ HandleIntersection \/ Evaluate
  \/ (\E f \in DOMAIN flights : Settled(f))
  \/ NextFrame

PrefetchSpec == PrefetchInit /\ [][PrefetchNext]_prefetchVars

-----------------------------------------------------------------------------
\* engine.ts: a request that was aborted settles late, and takes the entry of the request
\* that followed it out of the map.  Still no engine has two requests for one target
\* under way.
NoPrefetchTwice ==
  \A f, g \in DOMAIN flights :
    flights[f].live /\ flights[g].live /\ flights[f].target = flights[g].target
      /\ flights[f].mount = flights[g].mount => f = g
=============================================================================
