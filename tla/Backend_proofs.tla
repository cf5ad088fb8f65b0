--------------------------- MODULE Backend_proofs ---------------------------
(***************************************************************************)
(* The backend's components that the claim saga is not part of: what each  *)
(* of them keeps, for any number of clients, slots, keys and events.       *)
(***************************************************************************)
EXTENDS WebhookDelivery, TokenBucket, StaleCache, LiveEvents, EvictionSketch, Indexer,
        DiffSync, AmountSums_proofs

-----------------------------------------------------------------------------
(* Webhooks: the worker keeps the promise of the queue.                    *)

Places == {"unsent", "refused", "skipped", "waiting", "hidden", "gone", "failed"}
SlotState ==
  [at : {"free", "post", "record", "settle", "remove"}, event : Events \union {NoEvent},
   try : Int, verdict : {"none", "ok", "retry", "fatal"}]

HookTypes ==
  /\ provider \in {"sqs", "bullmq"}
  /\ copy \in [Events -> Places]
  /\ tries \in [Events -> Int]
  /\ slot \in [Slots -> SlotState]
  /\ received \subseteq Events /\ deadLetters \subseteq Events

Accepted(e) == copy[e] \in {"waiting", "hidden", "gone", "failed"}
Busy(w) == slot[w].at # "free"

\* Only accepted events are worked on, and what left the queue got somewhere.
EventsAreKnown ==
  /\ \A w \in Slots : Busy(w) => slot[w].event \in Events /\ Accepted(slot[w].event)
  /\ \A e \in received \union deadLetters : Accepted(e)
  /\ \A e \in Events : copy[e] = "gone" => e \in received \union deadLetters

\* What a slot is about to do is backed by what happened.
SlotsAreRight ==
  \A w \in Slots :
    /\ slot[w].verdict = "ok" => Busy(w) /\ slot[w].event \in received
    /\ slot[w].at = "remove" => provider = "sqs" /\ slot[w].event \in deadLetters

\* BullMQ gives a job to one worker at a time, and only it fails jobs.
JobsAreHeldOnce ==
  /\ provider = "sqs" => \A e \in Events : copy[e] # "failed"
  /\ provider = "bullmq" =>
       /\ \A w \in Slots : Busy(w) => copy[slot[w].event] = "hidden"
       /\ \A v, w \in Slots : Busy(v) /\ Busy(w) /\ slot[v].event = slot[w].event => v = w

HookInv == HookTypes /\ EventsAreKnown /\ SlotsAreRight /\ JobsAreHeldOnce

Owed == {e \in Events : copy[e] \in {"waiting", "hidden"}}
Failed == {e \in Events : copy[e] = "failed"}

\* The fields of a slot.
LEMMA SlotParts ==
  ASSUME HookTypes, NEW w \in Slots
  PROVE  /\ slot[w].at \in {"free", "post", "record", "settle", "remove"}
         /\ slot[w].event \in Events \union {NoEvent} /\ slot[w].try \in Int
         /\ slot[w].verdict \in {"none", "ok", "retry", "fatal"}
BY DEF HookTypes, SlotState

\* Proceeding changes where a slot is and its verdict, and no other slot.
LEMMA ProceedEffect ==
  ASSUME HookTypes, NEW w \in Slots,
         NEW place \in {"free", "post", "record", "settle", "remove"},
         NEW verdict \in {"none", "ok", "retry", "fatal"}, Proceed(w, place, verdict)
  PROVE  /\ slot' \in [Slots -> SlotState]
         /\ slot'[w].at = place /\ slot'[w].verdict = verdict
         /\ slot'[w].event = slot[w].event
         /\ \A v \in Slots : v # w => slot'[v] = slot[v]
<1> DEFINE next == [slot[w] EXCEPT !.at = place, !.verdict = verdict]
<1>1. slot \in [Slots -> SlotState] BY DEF HookTypes
<1>2. slot' = [slot EXCEPT ![w] = next] BY DEF Proceed
<1>3. /\ next \in SlotState /\ next.at = place /\ next.verdict = verdict
      /\ next.event = slot[w].event
  BY <1>1 DEF SlotState
<1> HIDE DEF next
<1> QED BY <1>1, <1>2, <1>3

\* A slot that is free again holds nothing.
LEMMA FreeEffect ==
  ASSUME HookTypes, NEW w \in Slots, slot' = [slot EXCEPT ![w] = FreeSlot]
  PROVE  /\ slot' \in [Slots -> SlotState]
         /\ slot'[w].at = "free" /\ slot'[w].verdict = "none"
         /\ \A v \in Slots : v # w => slot'[v] = slot[v]
<1>1. FreeSlot \in SlotState /\ FreeSlot.at = "free" /\ FreeSlot.verdict = "none"
  BY DEF FreeSlot, SlotState
<1> QED BY <1>1 DEF HookTypes

\* An event that moves joins or leaves the owed ones and the failed ones.
LEMMA CopyEffect ==
  ASSUME HookTypes, NEW e \in Events, NEW place \in Places,
         copy' = [copy EXCEPT ![e] = place]
  PROVE  /\ copy' \in [Events -> Places]
         /\ copy'[e] = place /\ \A f \in Events : f # e => copy'[f] = copy[f]
         /\ place \in {"waiting", "hidden"} => Owed' = Owed \union {e}
         /\ place \notin {"waiting", "hidden"} => Owed' = Owed \ {e}
         /\ place = "failed" => Failed' = Failed \union {e}
         /\ place # "failed" => Failed' = Failed \ {e}
<1>1. copy' \in [Events -> Places] BY DEF HookTypes
<1>2. copy'[e] = place /\ \A f \in Events : f # e => copy'[f] = copy[f] BY DEF HookTypes
<1>3. place \in {"waiting", "hidden"} => Owed' = Owed \union {e} BY <1>2 DEF Owed
<1>4. place \notin {"waiting", "hidden"} => Owed' = Owed \ {e} BY <1>2 DEF Owed
<1>5. place = "failed" => Failed' = Failed \union {e} BY <1>2 DEF Failed
<1>6. place # "failed" => Failed' = Failed \ {e} BY <1>2 DEF Failed
<1> QED BY <1>1, <1>2, <1>3, <1>4, <1>5, <1>6

\* The promise's steps in terms of the worker's variables.
LEMMA PromiseSteps ==
  ASSUME HookInv, NEW e \in Events,
         \/ /\ ~Accepted(e)
            /\ Owed' = Owed \union {e} /\ Failed' = Failed
            /\ UNCHANGED <<received, deadLetters>>
         \/ /\ Accepted(e)
            /\ received' = received \union {e}
            /\ Owed' = Owed /\ Failed' = Failed /\ UNCHANGED deadLetters
         \/ /\ Accepted(e)
            /\ (deadLetters \union Failed)' = deadLetters \union Failed \union {e}
            /\ Owed' \in {Owed, Owed \ {e}} /\ UNCHANGED received
         \/ /\ e \in received \union deadLetters \union Failed
            /\ Owed' \in {Owed, Owed \ {e}}
            /\ Failed' = Failed /\ UNCHANGED <<received, deadLetters>>
         \/ Owed' = Owed /\ Failed' = Failed /\ UNCHANGED <<received, deadLetters>>
  PROVE  [Promise!PromiseNext]_(Promise!promiseVars)
<1> DEFINE Known == Owed \union received \union (deadLetters \union Failed)
<1>1. Accepted(e) => e \in Known BY DEF HookInv, EventsAreKnown, Accepted, Owed, Failed
<1>2. e \in Known => Accepted(e) BY DEF HookInv, EventsAreKnown, Accepted, Owed, Failed
<1>3. Promise!promiseVars = <<Owed, received, deadLetters \union Failed>>
  BY DEF Promise!promiseVars, Owed, Failed
<1>4. Promise!promiseVars' = <<Owed', received', (deadLetters \union Failed)'>>
  BY DEF Promise!promiseVars, Owed, Failed
<1>5. Promise!Accept(e) <=>
        /\ e \notin Known /\ Owed' = Owed \union {e}
        /\ received' = received /\ (deadLetters \union Failed)' = deadLetters \union Failed
  BY DEF Promise!Accept, Owed, Failed
<1>6. Promise!Give(e) <=>
        /\ e \in Known /\ received' = received \union {e}
        /\ Owed' = Owed /\ (deadLetters \union Failed)' = deadLetters \union Failed
  BY DEF Promise!Give, Owed, Failed
<1>7. Promise!Keep(e) <=>
        /\ e \in Known /\ (deadLetters \union Failed)' = deadLetters \union Failed \union {e}
        /\ Owed' \in {Owed, Owed \ {e}} /\ received' = received
  BY DEF Promise!Keep, Owed, Failed
<1>8. Promise!Close(e) <=>
        /\ e \in Owed /\ e \in received \union (deadLetters \union Failed)
        /\ Owed' = Owed \ {e}
        /\ received' = received /\ (deadLetters \union Failed)' = deadLetters \union Failed
  BY DEF Promise!Close, Owed, Failed
<1>9. \/ Promise!Accept(e) \/ Promise!Give(e) \/ Promise!Keep(e) \/ Promise!Close(e)
      \/ UNCHANGED Promise!promiseVars
  <2> HIDE DEF Known
  <2>1. CASE /\ ~Accepted(e)
             /\ Owed' = Owed \union {e} /\ Failed' = Failed
             /\ UNCHANGED <<received, deadLetters>>
    BY <2>1, <1>2, <1>5
  <2>2. CASE /\ Accepted(e)
             /\ received' = received \union {e}
             /\ Owed' = Owed /\ Failed' = Failed /\ UNCHANGED deadLetters
    BY <2>2, <1>1, <1>6
  <2>3. CASE /\ Accepted(e)
             /\ (deadLetters \union Failed)' = deadLetters \union Failed \union {e}
             /\ Owed' \in {Owed, Owed \ {e}} /\ UNCHANGED received
    BY <2>3, <1>1, <1>7
  <2>4. CASE /\ e \in received \union deadLetters \union Failed
             /\ Owed' \in {Owed, Owed \ {e}}
             /\ Failed' = Failed /\ UNCHANGED <<received, deadLetters>>
    <3>1. CASE Owed' = Owed BY <3>1, <2>4, <1>3, <1>4
    <3>2. CASE Owed' = Owed \ {e} /\ e \notin Owed
      <4>1. Owed' = Owed BY <3>2
      <4> QED BY <4>1, <2>4, <1>3, <1>4
    <3>3. CASE Owed' = Owed \ {e} /\ e \in Owed BY <3>3, <2>4, <1>8
    <3> QED BY <3>1, <3>2, <3>3, <2>4
  <2>5. CASE Owed' = Owed /\ Failed' = Failed /\ UNCHANGED <<received, deadLetters>>
    BY <2>5, <1>3, <1>4
  <2> QED BY <2>1, <2>2, <2>3, <2>4, <2>5
<1> QED BY <1>9 DEF Promise!PromiseNext

Kept == HookInv' /\ [Promise!PromiseNext]_(Promise!promiseVars)

\* The steps of the worker, each of which keeps HookInv and is a step of the promise.
LEMMA QueueKeeps == ASSUME HookInv, NEW e \in Events, QueueWebhook(e) PROVE Kept
<1>1. PICK place \in {"waiting", "refused", "skipped"} : copy' = [copy EXCEPT ![e] = place]
  BY DEF QueueWebhook
<1>2. /\ copy[e] = "unsent"
      /\ UNCHANGED <<provider, tries, slot, received, deadLetters>>
  BY DEF QueueWebhook, hookConfig
<1>3. HookTypes /\ place \in Places BY DEF HookInv, Places
<1>4. /\ copy' \in [Events -> Places]
      /\ copy'[e] = place /\ \A f \in Events : f # e => copy'[f] = copy[f]
  BY <1>1, <1>3, CopyEffect
<1>5. HookTypes' BY <1>2, <1>3, <1>4 DEF HookTypes
<1>6. EventsAreKnown' BY <1>2, <1>4 DEF HookInv, HookTypes, EventsAreKnown, Accepted, Busy
<1>7. SlotsAreRight' BY <1>2 DEF HookInv, SlotsAreRight, Busy
<1>8. JobsAreHeldOnce'
  BY <1>2, <1>4 DEF HookInv, HookTypes, EventsAreKnown, Accepted, JobsAreHeldOnce, Busy
<1>9. [Promise!PromiseNext]_(Promise!promiseVars)
  <2>1. ~Accepted(e) /\ Failed' = Failed
    BY <1>1, <1>2, <1>3, CopyEffect DEF Accepted, Failed
  <2>2. CASE place = "waiting"
    <3>1. Owed' = Owed \union {e} BY <1>1, <1>3, <2>2, CopyEffect
    <3> QED BY <1>2, <2>1, <3>1, PromiseSteps
  <2>3. CASE place # "waiting"
    <3>1. Owed' = Owed BY <1>1, <1>2, <1>3, <2>3, CopyEffect DEF Owed
    <3> QED BY <1>2, <2>1, <3>1, PromiseSteps
  <2> QED BY <2>2, <2>3
<1> QED BY <1>5, <1>6, <1>7, <1>8, <1>9 DEF Kept, HookInv

\* Taking a copy off the queue.
LEMMA TakeKeeps ==
  ASSUME HookInv, NEW w \in Slots, NEW e \in Events, Take(w, e) PROVE Kept
<1> DEFINE n == IF tries[e] < MaxTries THEN tries[e] + 1 ELSE MaxTries
           taken == [at |-> "post", event |-> e, try |-> n, verdict |-> "none"]
<1>1. /\ slot[w] = FreeSlot /\ copy[e] = "waiting"
      /\ copy' = [copy EXCEPT ![e] = "hidden"] /\ tries' = [tries EXCEPT ![e] = n]
      /\ slot' = [slot EXCEPT ![w] = taken]
      /\ UNCHANGED <<provider, received, deadLetters>>
  BY DEF Take, hookConfig
<1>2. HookTypes /\ n \in Int BY WebhookAssumption DEF HookInv, HookTypes
<1> HIDE DEF n
<1>3. "hidden" \in Places BY DEF Places
<1>4. /\ copy' \in [Events -> Places]
      /\ copy'[e] = "hidden" /\ \A f \in Events : f # e => copy'[f] = copy[f]
      /\ Owed' = Owed \union {e} /\ Failed' = Failed \ {e}
  BY <1>1, <1>2, <1>3, CopyEffect
<1>5. /\ slot' \in [Slots -> SlotState] /\ slot'[w] = taken
      /\ \A v \in Slots : v # w => slot'[v] = slot[v]
  BY <1>1, <1>2 DEF HookTypes, SlotState
<1>6. taken.at = "post" /\ taken.event = e /\ taken.verdict = "none" OBVIOUS
<1> HIDE DEF taken
<1>7. HookTypes'
  <2>1. tries' \in [Events -> Int] BY <1>1, <1>2 DEF HookTypes
  <2> QED BY <1>1, <1>2, <1>4, <1>5, <2>1 DEF HookTypes
<1>8. EventsAreKnown'
  BY <1>1, <1>4, <1>5, <1>6 DEF HookInv, HookTypes, EventsAreKnown, Accepted, Busy
<1>9. SlotsAreRight' BY <1>1, <1>5, <1>6 DEF HookInv, SlotsAreRight, Busy
<1>10. JobsAreHeldOnce'
  BY <1>1, <1>4, <1>5, <1>6 DEF HookInv, HookTypes, EventsAreKnown, JobsAreHeldOnce, Busy
<1>11. Owed' = Owed /\ Failed' = Failed BY <1>1, <1>4 DEF Owed, Failed
<1> QED BY <1>1, <1>7, <1>8, <1>9, <1>10, <1>11, PromiseSteps DEF Kept, HookInv

\* A slot that proceeds with a verdict it has reason for.
LEMMA ProceedKeeps ==
  ASSUME HookInv, NEW w \in Slots, Busy(w),
         NEW place \in {"record", "settle", "remove"},
         NEW verdict \in {"none", "ok", "retry", "fatal"}, Proceed(w, place, verdict),
         received' \in {received, received \union {slot[w].event}},
         deadLetters' \in {deadLetters, deadLetters \union {slot[w].event}},
         UNCHANGED <<provider, copy, tries>>,
         verdict = "ok" => slot[w].event \in received',
         place = "remove" => provider = "sqs" /\ slot[w].event \in deadLetters'
  PROVE  HookInv' /\ Owed' = Owed /\ Failed' = Failed
<1>1. HookTypes BY DEF HookInv
<1>2. /\ slot' \in [Slots -> SlotState]
      /\ slot'[w].at = place /\ slot'[w].verdict = verdict
      /\ slot'[w].event = slot[w].event
      /\ \A v \in Slots : v # w => slot'[v] = slot[v]
  BY <1>1, ProceedEffect
<1>3. slot[w].event \in Events /\ Accepted(slot[w].event) BY DEF HookInv, EventsAreKnown
<1>4. HookTypes' BY <1>1, <1>2, <1>3 DEF HookTypes
<1>5. EventsAreKnown'
  BY <1>2, <1>3 DEF HookInv, HookTypes, EventsAreKnown, Accepted, Busy
<1>6. SlotsAreRight' BY <1>2 DEF HookInv, SlotsAreRight, Busy
<1>7. JobsAreHeldOnce' BY <1>2 DEF HookInv, JobsAreHeldOnce, Busy
<1>8. Owed' = Owed /\ Failed' = Failed BY DEF Owed, Failed
<1> QED BY <1>4, <1>5, <1>6, <1>7, <1>8 DEF HookInv

\* The POST, whose answer only the slot knows.
LEMMA PostKeeps == ASSUME HookInv, NEW w \in Slots, Post(w) PROVE Kept
<1>1. /\ slot[w].at = "post"
      /\ UNCHANGED <<provider, copy, tries, deadLetters>>
      /\ \/ received' = received \union {slot[w].event}
         \/ received' = received
      /\ \E place \in {"record", "settle"}, verdict \in {"ok", "retry", "fatal"} :
           /\ Proceed(w, place, verdict)
           /\ verdict = "ok" => received' = received \union {slot[w].event}
  BY DEF Post, hookConfig, hookQueue
<1>2. HookInv' /\ Owed' = Owed /\ Failed' = Failed BY <1>1, ProceedKeeps DEF Busy
<1>3. slot[w].event \in Events /\ Accepted(slot[w].event)
  BY <1>1 DEF HookInv, EventsAreKnown, Busy
<1> QED BY <1>1, <1>2, <1>3, PromiseSteps DEF Kept

\* The row of the attempt.
LEMMA RecordKeeps == ASSUME HookInv, NEW w \in Slots, RecordDelivery(w) PROVE Kept
<1>1. PICK verdict \in {slot[w].verdict, "retry"} : Proceed(w, "settle", verdict)
  BY DEF RecordDelivery
<1>2. slot[w].at = "record" /\ UNCHANGED <<provider, copy, tries, received, deadLetters>>
  BY DEF RecordDelivery, hookConfig, hookQueue
<1>3. slot[w].verdict \in {"none", "ok", "retry", "fatal"} BY SlotParts DEF HookInv
<1>4. slot[w].verdict = "ok" => slot[w].event \in received BY DEF HookInv, SlotsAreRight
<1>5. Busy(w) BY <1>2 DEF Busy
<1>6. HookInv' /\ Owed' = Owed /\ Failed' = Failed
  BY <1>1, <1>2, <1>3, <1>4, <1>5, ProceedKeeps
<1>7. slot[w].event \in Events BY <1>5 DEF HookInv, EventsAreKnown
<1> QED BY <1>2, <1>6, <1>7, PromiseSteps DEF Kept

\* A slot that lets go of its event, which was settled one way or another.
LEMMA LeaveKeeps ==
  ASSUME HookInv, NEW w \in Slots, Busy(w),
         NEW place \in {"waiting", "hidden", "gone", "failed"},
         copy' = [copy EXCEPT ![slot[w].event] = place],
         slot' = [slot EXCEPT ![w] = FreeSlot],
         deadLetters' \in {deadLetters, deadLetters \union {slot[w].event}},
         UNCHANGED <<provider, tries, received>>,
         place = "gone" => slot[w].event \in received \union deadLetters',
         provider = "sqs" => place # "failed"
  PROVE  HookInv'
<1>1. HookTypes /\ place \in Places BY DEF HookInv, Places
<1>2. slot[w].event \in Events /\ Accepted(slot[w].event) BY DEF HookInv, EventsAreKnown
<1>3. /\ copy' \in [Events -> Places] /\ copy'[slot[w].event] = place
      /\ \A f \in Events : f # slot[w].event => copy'[f] = copy[f]
  BY <1>1, <1>2, CopyEffect
<1>4. /\ slot' \in [Slots -> SlotState]
      /\ slot'[w].at = "free" /\ slot'[w].verdict = "none"
      /\ \A v \in Slots : v # w => slot'[v] = slot[v]
  BY <1>1, FreeEffect
<1>5. HookTypes' BY <1>1, <1>2, <1>3, <1>4 DEF HookTypes
<1>6. EventsAreKnown'
  BY <1>2, <1>3, <1>4, <1>1 DEF HookInv, HookTypes, EventsAreKnown, Accepted, Busy
<1>7. SlotsAreRight' BY <1>4 DEF HookInv, SlotsAreRight, Busy
<1>8. JobsAreHeldOnce'
  BY <1>2, <1>3, <1>4 DEF HookInv, EventsAreKnown, JobsAreHeldOnce, Busy
<1> QED BY <1>5, <1>6, <1>7, <1>8 DEF HookInv

\* The event stays where it is, among the accepted ones.
LEMMA StayPut ==
  ASSUME HookInv, NEW e \in Events, Accepted(e), copy' = [copy EXCEPT ![e] = copy[e]]
  PROVE  copy' = copy /\ Owed' = Owed /\ Failed' = Failed
BY DEF HookInv, HookTypes, Owed, Failed

\* The copy of a delivered event goes.
LEMMA CompleteKeeps == ASSUME HookInv, NEW w \in Slots, Complete(w) PROVE Kept
<1> DEFINE e == slot[w].event
<1>1. slot[w].at = "settle" /\ slot[w].verdict = "ok" /\ Busy(w) BY DEF Complete, Busy
<1>2. e \in Events /\ Accepted(e) /\ e \in received /\ HookTypes
  BY <1>1 DEF HookInv, EventsAreKnown, SlotsAreRight
<1>3. CASE LeaveAt(w, "gone")
  <2>1. /\ copy' = [copy EXCEPT ![e] = "gone"] /\ slot' = [slot EXCEPT ![w] = FreeSlot]
        /\ UNCHANGED <<provider, tries, received, deadLetters>>
    BY <1>3 DEF LeaveAt, hookConfig
  <2> HIDE DEF e
  <2>2. HookInv' BY <1>1, <1>2, <2>1, LeaveKeeps DEF e
  <2>3. "gone" \in Places BY DEF Places
  <2>4. Owed' = Owed \ {e} /\ Failed' = Failed \ {e} BY <1>2, <2>1, <2>3, CopyEffect
  <2>5. e \notin Failed
    BY <1>1, <1>2 DEF HookInv, HookTypes, JobsAreHeldOnce, Failed, e
  <2>6. Failed' = Failed BY <2>4, <2>5
  <2> QED BY <1>2, <2>1, <2>2, <2>4, <2>6, PromiseSteps DEF Kept
<1>4. CASE provider = "sqs" /\ LeaveAt(w, copy[e])
  <2>1. /\ copy' = [copy EXCEPT ![e] = copy[e]] /\ slot' = [slot EXCEPT ![w] = FreeSlot]
        /\ UNCHANGED <<provider, tries, received, deadLetters>>
    BY <1>4 DEF LeaveAt, hookConfig
  <2> HIDE DEF e
  <2>2. copy[e] \in {"waiting", "hidden", "gone", "failed"} /\ copy[e] # "failed"
    BY <1>2, <1>4 DEF Accepted, HookInv, JobsAreHeldOnce
  <2>3. HookInv' BY <1>1, <1>2, <2>1, <2>2, LeaveKeeps DEF e
  <2> QED BY <1>2, <2>1, <2>3, StayPut, PromiseSteps DEF Kept
<1>5. CASE /\ Proceed(w, "settle", "retry")
           /\ UNCHANGED <<hookConfig, hookQueue, received, deadLetters>>
  <2>1. UNCHANGED <<provider, copy, tries, received, deadLetters>>
    BY <1>5 DEF hookConfig, hookQueue
  <2>2. HookInv' /\ Owed' = Owed /\ Failed' = Failed BY <1>1, <1>5, <2>1, ProceedKeeps
  <2> QED BY <1>2, <2>1, <2>2, PromiseSteps DEF Kept
<1> QED BY <1>3, <1>4, <1>5 DEF Complete

\* The copy goes back for another attempt.
LEMMA DeferKeeps == ASSUME HookInv, NEW w \in Slots, Defer(w) PROVE Kept
<1> DEFINE e == slot[w].event
<1>1. slot[w].at = "settle" /\ Busy(w) BY DEF Defer, Busy
<1>2. e \in Events /\ Accepted(e) /\ HookTypes BY <1>1 DEF HookInv, EventsAreKnown
<1>3. PICK place : /\ place = IF provider = "sqs" THEN copy[e] ELSE "waiting"
                   /\ copy' = [copy EXCEPT ![e] = place]
  BY DEF Defer, LeaveAt
<1>4. /\ slot' = [slot EXCEPT ![w] = FreeSlot]
      /\ UNCHANGED <<provider, tries, received, deadLetters>>
  BY DEF Defer, LeaveAt, hookConfig
<1>5. provider = "bullmq" => copy[e] = "hidden" BY <1>1 DEF HookInv, JobsAreHeldOnce
<1> HIDE DEF e
<1>6. CASE provider = "sqs"
  <2>1. place = copy[e] BY <1>3, <1>6
  <2>2. copy[e] \in {"waiting", "hidden", "gone", "failed"} /\ copy[e] # "failed"
    BY <1>2, <1>6 DEF Accepted, HookInv, JobsAreHeldOnce
  <2>3. copy[e] = "gone" => e \in received \union deadLetters'
    BY <1>2, <1>4 DEF HookInv, EventsAreKnown
  <2>4. HookInv' BY <1>1, <1>2, <1>3, <1>4, <2>1, <2>2, <2>3, LeaveKeeps DEF e
  <2> QED BY <1>2, <1>3, <1>4, <2>1, <2>4, StayPut, PromiseSteps DEF Kept
<1>7. CASE provider # "sqs"
  <2>1. place = "waiting" /\ place \in Places /\ copy[e] = "hidden"
    BY <1>2, <1>3, <1>5, <1>7 DEF HookTypes, Places
  <2>2. HookInv' BY <1>1, <1>2, <1>3, <1>4, <1>7, <2>1, LeaveKeeps DEF e
  <2>3. Owed' = Owed \union {e} /\ Failed' = Failed \ {e}
    BY <1>2, <1>3, <2>1, CopyEffect
  <2>4. Owed' = Owed /\ Failed' = Failed BY <1>2, <2>1, <2>3 DEF Owed, Failed
  <2> QED BY <1>2, <1>4, <2>2, <2>4, PromiseSteps DEF Kept
<1> QED BY <1>6, <1>7

\* The dead letter is written before the copy is deleted.
LEMMA RouteKeeps == ASSUME HookInv, NEW w \in Slots, RouteFailureToDlq(w) PROVE Kept
<1> DEFINE e == slot[w].event
<1>1. slot[w].at = "settle" /\ Busy(w) BY DEF RouteFailureToDlq, Busy
<1>2. e \in Events /\ Accepted(e) /\ HookTypes BY <1>1 DEF HookInv, EventsAreKnown
<1>3. PICK routed \in {FALSE, dlqEnabled} : AfterRouting(w, routed)
  BY DEF RouteFailureToDlq
<1>4. UNCHANGED <<provider, tries, received>> BY <1>3 DEF AfterRouting, hookConfig
<1>5. /\ deadLetters' \in {deadLetters, deadLetters \union {e}}
      /\ routed => deadLetters' = deadLetters \union {e}
  BY <1>3 DEF AfterRouting
<1>6. CASE provider = "sqs" /\ routed
  <2>1. Proceed(w, "remove", "fatal") /\ copy' = copy
    BY <1>3, <1>6 DEF AfterRouting
  <2>2. HookInv' /\ Owed' = Owed /\ Failed' = Failed
    BY <1>1, <1>4, <1>5, <1>6, <2>1, ProceedKeeps
  <2>3. (deadLetters \union Failed)' = deadLetters \union Failed \union {e}
    BY <1>5, <1>6, <2>2
  <2> QED BY <1>2, <1>4, <2>2, <2>3, PromiseSteps DEF Kept
<1>7. CASE provider = "sqs" /\ ~routed
  <2>1. slot' = [slot EXCEPT ![w] = FreeSlot] /\ copy' = copy /\ deadLetters' = deadLetters
    BY <1>3, <1>7 DEF AfterRouting
  <2>2. copy' = [copy EXCEPT ![e] = copy[e]] BY <1>2, <2>1 DEF HookTypes
  <2>3. copy[e] \in {"waiting", "hidden", "gone", "failed"} /\ copy[e] # "failed"
    BY <1>2, <1>7 DEF Accepted, HookInv, JobsAreHeldOnce
  <2>4. copy[e] = "gone" => e \in received \union deadLetters'
    BY <1>2, <2>1 DEF HookInv, EventsAreKnown
  <2>5. HookInv' BY <1>1, <1>2, <1>4, <2>1, <2>2, <2>3, <2>4, LeaveKeeps
  <2> QED BY <1>2, <1>4, <2>1, <2>2, <2>5, StayPut, PromiseSteps DEF Kept
<1>8. CASE provider # "sqs"
  <2>1. slot' = [slot EXCEPT ![w] = FreeSlot] /\ copy' = [copy EXCEPT ![e] = "failed"]
    BY <1>3, <1>8 DEF AfterRouting
  <2>2. HookInv' BY <1>1, <1>2, <1>4, <1>5, <1>8, <2>1, LeaveKeeps
  <2>3. "failed" \in Places BY DEF Places
  <2>4. Owed' = Owed \ {e} /\ Failed' = Failed \union {e}
    BY <1>2, <2>1, <2>3, CopyEffect
  <2>5. (deadLetters \union Failed)' = deadLetters \union Failed \union {e}
    BY <1>5, <2>4
  <2> QED BY <1>2, <1>4, <2>2, <2>4, <2>5, PromiseSteps DEF Kept
<1> QED BY <1>6, <1>7, <1>8

\* The copy of a dead letter goes.
LEMMA DeleteKeeps == ASSUME HookInv, NEW w \in Slots, DeleteRouted(w) PROVE Kept
<1> DEFINE e == slot[w].event
<1>1. slot[w].at = "remove" /\ Busy(w) BY DEF DeleteRouted, Busy
<1>2. e \in Events /\ Accepted(e) /\ e \in deadLetters /\ provider = "sqs" /\ HookTypes
  BY <1>1 DEF HookInv, EventsAreKnown, SlotsAreRight
<1>3. PICK place \in {"gone", copy[e]} : copy' = [copy EXCEPT ![e] = place]
  BY DEF DeleteRouted, LeaveAt
<1>4. /\ slot' = [slot EXCEPT ![w] = FreeSlot]
      /\ UNCHANGED <<provider, tries, received, deadLetters>>
  BY DEF DeleteRouted, LeaveAt, hookConfig
<1>5. copy[e] \in {"waiting", "hidden", "gone", "failed"} /\ copy[e] # "failed"
  BY <1>2 DEF Accepted, HookInv, JobsAreHeldOnce
<1>6. HookInv' BY <1>1, <1>2, <1>3, <1>4, <1>5, LeaveKeeps
<1>7. CASE place = "gone"
  <2>1. "gone" \in Places BY DEF Places
  <2>2. Owed' = Owed \ {e} /\ Failed' = Failed \ {e}
    BY <1>2, <1>3, <1>7, <2>1, CopyEffect
  <2>3. Failed' = Failed BY <1>2, <1>5, <2>2 DEF Failed
  <2> QED BY <1>2, <1>4, <1>6, <2>2, <2>3, PromiseSteps DEF Kept
<1>8. CASE place = copy[e]
  BY <1>2, <1>3, <1>4, <1>6, <1>8, StayPut, PromiseSteps DEF Kept
<1> QED BY <1>7, <1>8

\* A worker that dies leaves the copy where it is.
LEMMA DeathKeeps == ASSUME HookInv, NEW w \in Slots, SlotDies(w) PROVE Kept
<1>1. slot' = [slot EXCEPT ![w] = FreeSlot] /\ Busy(w) BY DEF SlotDies, Busy
<1>2. UNCHANGED <<provider, copy, tries, received, deadLetters>>
  BY DEF SlotDies, hookConfig, hookQueue
<1>3. HookTypes BY DEF HookInv
<1>4. /\ slot' \in [Slots -> SlotState]
      /\ slot'[w].at = "free" /\ slot'[w].verdict = "none"
      /\ \A v \in Slots : v # w => slot'[v] = slot[v]
  BY <1>1, <1>3, FreeEffect
<1>5. HookTypes' BY <1>2, <1>3, <1>4 DEF HookTypes
<1>6. EventsAreKnown' BY <1>2, <1>4 DEF HookInv, EventsAreKnown, Accepted, Busy
<1>7. SlotsAreRight' BY <1>2, <1>4 DEF HookInv, SlotsAreRight, Busy
<1>8. JobsAreHeldOnce' BY <1>2, <1>4 DEF HookInv, JobsAreHeldOnce, Busy
<1>9. Owed' = Owed /\ Failed' = Failed BY <1>2 DEF Owed, Failed
<1>10. slot[w].event \in Events BY <1>1 DEF HookInv, EventsAreKnown
<1> QED BY <1>2, <1>5, <1>6, <1>7, <1>8, <1>9, <1>10, PromiseSteps DEF Kept, HookInv

\* A message that comes back, or a job taken from a dead worker.
LEMMA QueuesKeep ==
  ASSUME HookInv, NEW e \in Events, Reappear(e) \/ Stall(e)
  PROVE  Kept
<1>1. PICK place \in {"waiting", "failed"} : copy' = [copy EXCEPT ![e] = place]
  BY DEF Reappear, Stall
<1>2. /\ copy[e] = "hidden" /\ UNCHANGED <<provider, slot, received, deadLetters>>
      /\ tries' \in {tries, [tries EXCEPT ![e] = @ - 1]}
  BY DEF Reappear, Stall, hookConfig
<1>3. /\ provider = "sqs" => place = "waiting"
      /\ provider = "bullmq" => \A w \in Slots : slot[w].event # e
  <2>1. provider = "sqs" => copy' = [copy EXCEPT ![e] = "waiting"] BY DEF Reappear, Stall
  <2>2. provider = "bullmq" => Holders(e) = {} BY DEF Reappear, Stall
  <2>3. provider = "sqs" => place = "waiting" BY <1>1, <2>1 DEF HookInv, HookTypes
  <2> QED BY <2>2, <2>3 DEF Holders
<1>4. HookTypes /\ place \in Places BY DEF HookInv, Places
<1>5. /\ copy' \in [Events -> Places] /\ copy'[e] = place
      /\ \A f \in Events : f # e => copy'[f] = copy[f]
      /\ place = "waiting" => Owed' = Owed \union {e} /\ Failed' = Failed \ {e}
      /\ place = "failed" => Owed' = Owed \ {e} /\ Failed' = Failed \union {e}
  BY <1>1, <1>4, CopyEffect
<1>6. HookTypes'
  <2>1. tries' \in [Events -> Int] BY <1>2, <1>4 DEF HookTypes
  <2> QED BY <1>2, <1>4, <1>5, <2>1 DEF HookTypes
<1>7. EventsAreKnown'
  BY <1>2, <1>4, <1>5 DEF HookInv, HookTypes, EventsAreKnown, Accepted, Busy
<1>8. SlotsAreRight' BY <1>2 DEF HookInv, SlotsAreRight, Busy
<1>9. JobsAreHeldOnce'
  BY <1>2, <1>3, <1>5 DEF HookInv, EventsAreKnown, JobsAreHeldOnce, Busy
<1>10. Accepted(e) BY <1>2 DEF Accepted
<1>11. CASE place = "waiting"
  <2>1. Owed' = Owed /\ Failed' = Failed BY <1>2, <1>5, <1>11 DEF Owed, Failed
  <2> QED BY <1>2, <1>6, <1>7, <1>8, <1>9, <2>1, PromiseSteps DEF Kept, HookInv
<1>12. CASE place = "failed"
  <2>1. (deadLetters \union Failed)' = deadLetters \union Failed \union {e}
    BY <1>2, <1>5, <1>12
  <2> QED BY <1>2, <1>5, <1>6, <1>7, <1>8, <1>9, <1>10, <1>12, <2>1, PromiseSteps
          DEF Kept, HookInv
<1> QED BY <1>11, <1>12

\* A change of the configuration moves no copy.
LEMMA ConfigKeeps ==
  ASSUME HookInv, UpdateConfig \/ ReadConfigAgain \/ UNCHANGED hookVars
  PROVE  Kept
<1>1. UNCHANGED <<provider, copy, tries, slot, received, deadLetters>>
  BY DEF UpdateConfig, ReadConfigAgain, hookVars, hookConfig, hookQueue
<1>2. HookInv'
  BY <1>1 DEF HookInv, HookTypes, EventsAreKnown, SlotsAreRight, JobsAreHeldOnce, Accepted, Busy
<1>3. UNCHANGED Promise!promiseVars BY <1>1 DEF Promise!promiseVars
<1> QED BY <1>2, <1>3 DEF Kept

\* Every step of the worker.
LEMMA HookStep == HookInv /\ [HookNext]_hookVars => Kept
<1> SUFFICES ASSUME HookInv, [HookNext]_hookVars PROVE Kept OBVIOUS
<1>1. ASSUME NEW w \in Slots, SlotStep(w) PROVE Kept
  BY <1>1, TakeKeeps, PostKeeps, RecordKeeps, CompleteKeeps, DeferKeeps, RouteKeeps,
     DeleteKeeps, DeathKeeps DEF SlotStep
<1> QED BY <1>1, QueueKeeps, QueuesKeep, ConfigKeeps DEF HookNext

\* The first state.
LEMMA HookStart == HookInit => HookInv /\ Promise!PromiseInit
<1> SUFFICES ASSUME HookInit PROVE HookInv /\ Promise!PromiseInit OBVIOUS
<1>1. FreeSlot \in SlotState /\ FreeSlot.at = "free" /\ FreeSlot.verdict = "none"
  BY DEF FreeSlot, SlotState
<1>2. HookTypes BY <1>1 DEF HookInit, HookTypes, Places
<1>3. \A w \in Slots : slot[w].at = "free" /\ slot[w].verdict = "none"
  BY <1>1 DEF HookInit
<1>4. \A e \in Events : copy[e] = "unsent" BY DEF HookInit
<1>5. received = {} /\ deadLetters = {} BY DEF HookInit
<1>6. EventsAreKnown /\ SlotsAreRight /\ JobsAreHeldOnce
  BY <1>3, <1>4, <1>5 DEF EventsAreKnown, SlotsAreRight, JobsAreHeldOnce, Busy
<1>7. Promise!PromiseInit BY <1>4, <1>5 DEF Promise!PromiseInit
<1> QED BY <1>2, <1>6, <1>7 DEF HookInv

\* WebhookWorker.ts: whatever throws and whenever a worker dies, an event that was queued
\* leaves the queue only when the receiver got it or it was put aside.
THEOREM WorkerKeepsThePromise == HookSpec => KeepsThePromise
<1>1. HookInv /\ [HookNext]_hookVars
        => HookInv' /\ [Promise!PromiseNext]_(Promise!promiseVars)
  BY HookStep DEF Kept
<1> QED BY <1>1, HookStart, PTL DEF HookSpec, KeepsThePromise, Promise!PromiseSpec

-----------------------------------------------------------------------------
(* Rate limiting: what a client spends is bounded.                         *)

Drip(seconds) == seconds * RefillRate
FullBucket == Capacity + Drip(MaxSkew)
Granted(times) == times * FullBucket

BucketTypes ==
  /\ skew \in [Servers -> 0 .. MaxSkew]
  /\ {uptime, keyAge, spent, rewound} \subseteq Nat /\ refilled \in Nat \ {0}
  /\ bucket \in [tokens : 0 .. Capacity, lastRefill : Nat \union {-1}]
  /\ bucket # NoBucket => bucket.lastRefill # -1

\* What was spent and what is left came out of the buckets granted, at the rate of the
\* refill up to the clock last written; and that clock ran from the last write at most
\* by the servers' disagreement.
BucketIsPaidFor ==
  /\ bucket # NoBucket =>
       /\ bucket.lastRefill + keyAge <= uptime + MaxSkew
       /\ spent + bucket.tokens + Drip(MaxSkew - bucket.lastRefill)
            <= Granted(refilled) + Drip(rewound)
  /\ bucket = NoBucket => spent <= Granted(refilled - 1) + Drip(uptime + rewound)

BucketInv == BucketTypes /\ BucketIsPaidFor

\* Refilling for one stretch after another, and for longer.
LEMMA DripType == ASSUME NEW a \in Int PROVE Drip(a) \in Int
<1>1. RefillRate \in Nat BY BucketAssumption
<1> QED BY <1>1 DEF Drip

\* What drips in adds up over time.
LEMMA DripLaws ==
  ASSUME NEW a \in Int, NEW b \in Int
  PROVE  /\ Drip(a + b) = Drip(a) + Drip(b)
         /\ Drip(a - b) = Drip(a) - Drip(b)
<1>1. RefillRate \in Nat BY BucketAssumption
<1>2. (a + b) * RefillRate = a * RefillRate + b * RefillRate BY <1>1
<1>3. (a - b) * RefillRate = a * RefillRate - b * RefillRate BY <1>1
<1> QED BY <1>2, <1>3 DEF Drip

\* More time drips no less.
LEMMA DripOrder == ASSUME NEW a \in Int, NEW b \in Int, a <= b PROVE Drip(a) <= Drip(b)
<1>1. RefillRate \in Nat BY BucketAssumption
<1>2. a * RefillRate <= b * RefillRate BY <1>1
<1> QED BY <1>2 DEF Drip

\* What a bucket is granted, refill by refill.
LEMMA GrantLaws ==
  ASSUME NEW k \in Nat
  PROVE  /\ FullBucket \in Nat /\ Granted(k) \in Nat
         /\ Granted(k + 1) = Granted(k) + FullBucket
         /\ FullBucket <= 2 * Capacity
<1>1. Capacity \in Nat /\ Drip(MaxSkew) \in Nat /\ Drip(MaxSkew) <= Capacity
  BY BucketAssumption DEF Drip
<1>2. FullBucket \in Nat /\ FullBucket <= 2 * Capacity BY <1>1 DEF FullBucket
<1>3. k * FullBucket \in Nat /\ (k + 1) * FullBucket = k * FullBucket + FullBucket
  BY <1>2
<1> QED BY <1>2, <1>3 DEF Granted

\* A key that was not written for its whole life could have filled a bucket twice.
LEMMA KeyOutlivesRefill ==
  /\ KeyTTL \in Nat /\ 2 * Capacity <= Drip(KeyTTL)
<1>1. Capacity \in Nat /\ RefillRate \in Nat \ {0} BY BucketAssumption
<1>2. ASSUME NEW a \in Nat, NEW r \in Nat \ {0}
      PROVE  (a + r - 1) \div r \in Nat /\ a <= ((a + r - 1) \div r) * r
  <2> DEFINE x == a + r - 1
             d == x \div r
  <2>1. x \in Nat OBVIOUS
  <2> HIDE DEF x
  <2>2. d \in Nat /\ x = r * d + (x % r) /\ x % r \in 0 .. r - 1 BY <2>1
  <2> HIDE DEF d
  <2>3. r * d \in Nat /\ r * d = d * r BY <2>2
  <2>4. a <= r * d BY <2>2, <2>3 DEF x
  <2> QED BY <2>2, <2>3, <2>4 DEF d, x
<1>3. (Capacity * 2) + RefillRate - 1 = 2 * Capacity + RefillRate - 1 BY <1>1
<1> QED BY <1>1, <1>2, <1>3 DEF KeyTTL, Drip

\* Every request costs some number of tokens.
LEMMA CostIsNatural == ASSUME NEW request \in Requests PROVE RequestCost(request) \in Nat
<1>1. request \in Seq(Routes) BY BucketAssumption
<1>2. \A route \in Routes : RouteCostWeight(route) \in Nat
  BY DEF Routes, RouteCostWeight
<1>3. DOMAIN request = 1 .. Len(request) /\ Len(request) \in Nat BY <1>1
<1>4. IsFiniteSet(DOMAIN request) BY <1>3, FS_Interval
<1>5. [i \in DOMAIN request |-> RouteCostWeight(request[i])] \in [DOMAIN request -> Nat]
  BY <1>1, <1>2, <1>3
<1>6. SumOver([i \in DOMAIN request |-> RouteCostWeight(request[i])]) \in Nat
  BY <1>4, <1>5, SumOverType
<1>7. RouteCostWeight("unlisted") \in Nat BY <1>2 DEF Routes
<1> QED BY <1>6, <1>7 DEF RequestCost

\* The parts of the invariant, one by one.
LEMMA BucketParts ==
  ASSUME BucketTypes
  PROVE  /\ \A s \in Servers : skew[s] \in 0 .. MaxSkew /\ Clock(s) \in Nat
         /\ uptime \in Nat /\ keyAge \in Nat /\ spent \in Nat /\ rewound \in Nat
         /\ refilled \in Nat \ {0}
         /\ bucket.tokens \in 0 .. Capacity
         /\ bucket # NoBucket => bucket.lastRefill \in Nat
         /\ bucket = NoBucket => bucket.tokens = Capacity
         /\ Capacity \in Nat \ {0} /\ RefillRate \in Nat \ {0} /\ MaxSkew \in Nat
<1>1. MaxSkew \in Nat /\ Capacity \in Nat \ {0} /\ RefillRate \in Nat \ {0}
  BY BucketAssumption
<1>2. \A s \in Servers : skew[s] \in 0 .. MaxSkew BY DEF BucketTypes
<1>3. \A s \in Servers : Clock(s) \in Nat BY <1>1, <1>2 DEF Clock, BucketTypes
<1>4. bucket.tokens \in 0 .. Capacity /\ bucket.lastRefill \in Nat \union {-1}
  BY DEF BucketTypes
<1>5. bucket # NoBucket => bucket.lastRefill \in Nat BY <1>4 DEF BucketTypes
<1>6. bucket = NoBucket => bucket.tokens = Capacity BY DEF NoBucket
<1> QED BY <1>1, <1>2, <1>3, <1>4, <1>5, <1>6 DEF BucketTypes

\* The script: the tokens before the cost is taken, and the account they balance.
LEMMA ScriptRefills ==
  ASSUME BucketInv, NEW s \in Servers
  PROVE  /\ Refilled(s) \in 0 .. Capacity
         /\ AtLeast(0, LastRefill(s) - Clock(s)) \in Nat
         /\ spent + Refilled(s) + Drip(MaxSkew - Clock(s))
              <= Granted(refilled) + Drip(rewound + AtLeast(0, LastRefill(s) - Clock(s)))
<1> DEFINE now == Clock(s)
           last == LastRefill(s)
           gap == AtLeast(0, now - last)
           back == AtLeast(0, last - now)
<1>1. /\ skew[s] \in 0 .. MaxSkew /\ now \in Nat /\ now = uptime + skew[s]
      /\ uptime \in Nat /\ keyAge \in Nat /\ spent \in Nat /\ rewound \in Nat
      /\ refilled \in Nat \ {0} /\ bucket.tokens \in 0 .. Capacity
      /\ bucket # NoBucket => bucket.lastRefill \in Nat
      /\ bucket = NoBucket => bucket.tokens = Capacity
      /\ Capacity \in Nat \ {0} /\ RefillRate \in Nat \ {0} /\ MaxSkew \in Nat
  BY BucketParts DEF BucketInv, Clock
<1>2. last \in Nat /\ (bucket = NoBucket => last = now)
      /\ (bucket # NoBucket => last = bucket.lastRefill)
  BY <1>1 DEF LastRefill
<1> HIDE DEF now, last
<1>3. gap \in Nat /\ back \in Nat /\ gap - back = now - last
  <2>1. \A a, b \in Nat : /\ AtLeast(0, a - b) \in Nat /\ AtLeast(0, b - a) \in Nat
                          /\ AtLeast(0, a - b) - AtLeast(0, b - a) = a - b
    BY DEF AtLeast
  <2> QED BY <1>1, <1>2, <2>1
<1>4. Refilled(s) = AtMost(Capacity, bucket.tokens + Drip(gap))
  BY DEF Refilled, Drip, now, last
<1> HIDE DEF gap, back
<1>5. Drip(gap) \in Nat BY <1>1, <1>3 DEF Drip
<1>6. Refilled(s) \in 0 .. Capacity /\ Refilled(s) <= bucket.tokens + Drip(gap)
  BY <1>1, <1>4, <1>5 DEF AtMost
<1>7. /\ Drip(MaxSkew - now) = Drip(MaxSkew) - Drip(now)
      /\ Drip(rewound + back) = Drip(rewound) + Drip(back)
      /\ Drip(MaxSkew) \in Int /\ Drip(now) \in Int /\ Drip(rewound) \in Int
      /\ Drip(back) \in Int /\ Drip(last) \in Int /\ Drip(skew[s]) \in Int
      /\ Drip(uptime) \in Int
  <2>0. {MaxSkew, now, rewound, back, last, skew[s], uptime} \subseteq Int
    BY <1>1, <1>2, <1>3
  <2>1. \A a \in Int : Drip(a) \in Int BY DripType
  <2>2. Drip(MaxSkew - now) = Drip(MaxSkew) - Drip(now) BY <2>0, DripLaws, Zenon
  <2>3. Drip(rewound + back) = Drip(rewound) + Drip(back) BY <2>0, DripLaws, Zenon
  <2> QED BY <2>0, <2>1, <2>2, <2>3
<1>8. Drip(gap) - Drip(back) = Drip(now) - Drip(last)
  <2>0. {now, last, gap, back} \subseteq Int BY <1>1, <1>2, <1>3
  <2>1. Drip(gap - back) = Drip(gap) - Drip(back) BY <2>0, DripLaws, Zenon
  <2>2. Drip(now - last) = Drip(now) - Drip(last) BY <2>0, DripLaws, Zenon
  <2> QED BY <1>3, <2>1, <2>2
<1>9. CASE bucket # NoBucket
  <2>1. spent + bucket.tokens + Drip(MaxSkew - last) <= Granted(refilled) + Drip(rewound)
    BY <1>2, <1>9 DEF BucketInv, BucketIsPaidFor
  <2>2. Drip(MaxSkew - last) = Drip(MaxSkew) - Drip(last) BY <1>1, <1>2, DripLaws, DripType
  <2>3. Granted(refilled) \in Nat BY <1>1, GrantLaws
  <2>4. spent + Refilled(s) + Drip(MaxSkew - now) <= Granted(refilled) + Drip(rewound + back)
    BY <1>1, <1>5, <1>6, <1>7, <1>8, <2>1, <2>2, <2>3
  <2> QED BY <1>3, <1>6, <2>4 DEF back, last, now
<1>10. CASE bucket = NoBucket
  <2>1. spent <= Granted(refilled - 1) + Drip(uptime + rewound)
    BY <1>10 DEF BucketInv, BucketIsPaidFor
  <2>2. /\ Granted(refilled) = Granted(refilled - 1) + FullBucket
        /\ Granted(refilled - 1) \in Nat /\ FullBucket \in Nat
    <3>1. refilled - 1 \in Nat /\ (refilled - 1) + 1 = refilled BY <1>1
    <3> QED BY <3>1, GrantLaws
  <2>3. /\ Drip(uptime + rewound) = Drip(uptime) + Drip(rewound)
        /\ Drip(now) = Drip(uptime) + Drip(skew[s])
    <3>0. {uptime, rewound, skew[s]} \subseteq Int BY <1>1
    <3>1. Drip(uptime + rewound) = Drip(uptime) + Drip(rewound) BY <3>0, DripLaws, Zenon
    <3>2. Drip(uptime + skew[s]) = Drip(uptime) + Drip(skew[s]) BY <3>0, DripLaws, Zenon
    <3> QED BY <1>1, <3>1, <3>2
  <2>4. 0 <= Drip(skew[s]) /\ back = 0 /\ Drip(back) = 0
    BY <1>1, <1>2, <1>10 DEF Drip, back, AtLeast
  <2>5. FullBucket = Capacity + Drip(MaxSkew) BY DEF FullBucket
  <2>6. spent + Refilled(s) + Drip(MaxSkew - now) <= Granted(refilled) + Drip(rewound + back)
    BY <1>1, <1>6, <1>7, <2>1, <2>2, <2>3, <2>4, <2>5
  <2> QED BY <1>3, <1>6, <2>6 DEF back, last, now
<1> QED BY <1>9, <1>10

\* The script: refill, then spend what there is.
LEMMA ScriptKeeps ==
  ASSUME BucketInv, NEW s \in Servers, NEW cost \in Nat, RunScript(s, cost),
         UNCHANGED <<skew, uptime, refilled>>,
         spent' = (IF Refilled(s) >= cost THEN spent + cost ELSE spent) \/ spent' = spent
  PROVE  BucketInv'
<1> DEFINE now == Clock(s)
           tokens == Refilled(s)
           left == IF tokens >= cost THEN tokens - cost ELSE tokens
           back == AtLeast(0, LastRefill(s) - now)
<1>1. /\ now \in Nat /\ now = uptime + skew[s] /\ skew[s] \in 0 .. MaxSkew
      /\ spent \in Nat /\ rewound \in Nat /\ uptime \in Nat /\ MaxSkew \in Nat
      /\ Capacity \in Nat
  BY BucketParts DEF BucketInv, Clock
<1>2. /\ tokens \in 0 .. Capacity /\ back \in Nat
      /\ spent + tokens + Drip(MaxSkew - now) <= Granted(refilled) + Drip(rewound + back)
  BY ScriptRefills
<1>3. bucket' = [tokens |-> left, lastRefill |-> now] /\ keyAge' = 0 /\ rewound' = rewound + back
  BY DEF RunScript
<1>4. left \in 0 .. Capacity /\ spent' \in Nat /\ spent' + left <= spent + tokens
  BY <1>1, <1>2
<1> HIDE DEF now, tokens, left, back
<1>5. bucket'.tokens = left /\ bucket'.lastRefill = now BY <1>3
<1>6. bucket' # NoBucket BY <1>1, <1>5 DEF NoBucket
<1>7. BucketTypes'
  BY <1>1, <1>2, <1>3, <1>4 DEF BucketInv, BucketTypes
<1>8. Granted(refilled)' = Granted(refilled) /\ NoBucket' = NoBucket
  BY DEF Granted, NoBucket
<1>9. spent' + left + Drip(MaxSkew - now) <= Granted(refilled) + Drip(rewound + back)
  <2>1. Drip(MaxSkew - now) \in Int /\ Drip(rewound + back) \in Int
    <3>1. MaxSkew - now \in Int /\ rewound + back \in Int BY <1>1, <1>2
    <3> QED BY <3>1, DripType
  <2>2. Granted(refilled) \in Nat
    <3>1. refilled \in Nat BY DEF BucketInv, BucketTypes
    <3> QED BY <3>1, GrantLaws
  <2>3. left \in Int /\ tokens \in Int /\ spent' \in Int /\ spent \in Int
    BY <1>1, <1>2, <1>4
  <2>4. spent + tokens + Drip(MaxSkew - now) <= Granted(refilled) + Drip(rewound + back)
    BY <1>2
  <2> DEFINE later == Drip(MaxSkew - now)
             income == Granted(refilled) + Drip(rewound + back)
  <2>5. later \in Int /\ income \in Int BY <2>1, <2>2
  <2> HIDE DEF later, income
  <2>6. spent + tokens + later <= income BY <2>4 DEF later, income
  <2>7. spent' + left <= spent + tokens BY <1>4
  <2>8. \A a, b, c, d, e, f \in Int : a + b <= c + d /\ c + d + e <= f => a + b + e <= f
    OBVIOUS
  <2>9. spent' + left + later <= income BY <2>3, <2>5, <2>6, <2>7, <2>8
  <2> QED BY <2>9 DEF later, income
<1>10. now + 0 <= uptime + MaxSkew BY <1>1
<1>11. BucketIsPaidFor'
  BY <1>3, <1>5, <1>6, <1>8, <1>9, <1>10 DEF BucketIsPaidFor, Drip
<1> QED BY <1>7, <1>11 DEF BucketInv

\* The key is deleted, or its time to live is over.
LEMMA ResetKeeps == ASSUME BucketInv, ResetBucket PROVE BucketInv'
<1>1. /\ bucket # NoBucket /\ bucket' = NoBucket /\ refilled' = refilled + 1
      /\ UNCHANGED <<skew, uptime, keyAge, spent, rewound>>
  BY DEF ResetBucket
<1>2. /\ spent \in Nat /\ rewound \in Nat /\ uptime \in Nat /\ MaxSkew \in Nat
      /\ keyAge \in Nat /\ refilled \in Nat \ {0} /\ bucket.tokens \in 0 .. Capacity
      /\ Capacity \in Nat /\ bucket.lastRefill \in Nat
  BY <1>1, BucketParts DEF BucketInv
<1>3. /\ bucket.lastRefill + keyAge <= uptime + MaxSkew
      /\ spent + bucket.tokens + Drip(MaxSkew - bucket.lastRefill)
           <= Granted(refilled) + Drip(rewound)
  BY <1>1 DEF BucketInv, BucketIsPaidFor
<1>4. Drip(0 - uptime) <= Drip(MaxSkew - bucket.lastRefill)
  <2>1. 0 - uptime <= MaxSkew - bucket.lastRefill BY <1>2, <1>3
  <2> QED BY <1>2, <2>1, DripOrder
<1>5. Drip(0 - uptime) = Drip(0) - Drip(uptime) /\ Drip(uptime) \in Int /\ Drip(0) = 0
  <2>0. {0, uptime} \subseteq Int BY <1>2
  <2>1. Drip(0) = 0 BY BucketAssumption DEF Drip
  <2>2. Drip(0 - uptime) = Drip(0) - Drip(uptime) BY <2>0, DripLaws, Zenon
  <2> QED BY <2>0, <2>1, <2>2, DripType
<1>6. Drip(uptime + rewound) = Drip(uptime) + Drip(rewound) /\ Drip(rewound) \in Int
  <2>0. {uptime, rewound} \subseteq Int BY <1>2
  <2>1. Drip(uptime + rewound) = Drip(uptime) + Drip(rewound) BY <2>0, DripLaws, Zenon
  <2> QED BY <2>0, <2>1, DripType
<1>7. Granted(refilled) \in Nat BY <1>2, GrantLaws
<1>8. Drip(MaxSkew - bucket.lastRefill) \in Int BY <1>2, DripLaws, DripType
<1>9. spent <= Granted(refilled) + Drip(uptime + rewound)
  BY <1>2, <1>3, <1>4, <1>5, <1>6, <1>7, <1>8
<1>10. NoBucket \in [tokens : 0 .. Capacity, lastRefill : Nat \union {-1}]
  BY <1>2 DEF NoBucket
<1>11. BucketTypes' BY <1>1, <1>2, <1>10 DEF BucketInv, BucketTypes
<1>12. NoBucket' = NoBucket /\ (refilled - 1)' = refilled
  BY <1>1, <1>2 DEF NoBucket
<1>13. Granted(refilled - 1)' = Granted(refilled) BY <1>12 DEF Granted, FullBucket, Drip
<1>14. BucketIsPaidFor' BY <1>1, <1>9, <1>12, <1>13 DEF BucketIsPaidFor, Drip
<1> QED BY <1>11, <1>14 DEF BucketInv

\* A second passes.
LEMMA SecondKeeps == ASSUME BucketInv, Second PROVE BucketInv'
<1>1. /\ uptime' = uptime + 1 /\ UNCHANGED <<skew, spent, refilled, rewound>>
      /\ keyAge' = IF bucket = NoBucket THEN 0 ELSE keyAge + 1
      /\ bucket' = IF keyAge' >= KeyTTL THEN NoBucket ELSE bucket
  BY DEF Second
<1>2. /\ spent \in Nat /\ rewound \in Nat /\ uptime \in Nat /\ MaxSkew \in Nat
      /\ keyAge \in Nat /\ refilled \in Nat \ {0} /\ bucket.tokens \in 0 .. Capacity
      /\ Capacity \in Nat /\ (bucket # NoBucket => bucket.lastRefill \in Nat)
  BY BucketParts DEF BucketInv
<1>3. NoBucket \in [tokens : 0 .. Capacity, lastRefill : Nat \union {-1}]
  BY <1>2 DEF NoBucket
<1>4. BucketTypes' BY <1>1, <1>2, <1>3 DEF BucketInv, BucketTypes, NoBucket
<1>5. NoBucket' = NoBucket /\ Granted(refilled)' = Granted(refilled)
      /\ Granted(refilled - 1)' = Granted(refilled - 1)
  BY <1>1 DEF NoBucket, Granted, FullBucket, Drip
<1>6. KeyTTL \in Nat /\ 2 * Capacity <= Drip(KeyTTL) BY KeyOutlivesRefill
<1>7. /\ Drip(uptime + rewound) = Drip(uptime) + Drip(rewound)
      /\ Drip(uptime + 1) = Drip(uptime) + Drip(1)
      /\ Drip(uptime) \in Int /\ Drip(rewound) \in Int
  <2>1. Drip(uptime + rewound) = Drip(uptime) + Drip(rewound) BY <1>2, DripLaws, DripType
  <2> QED BY <1>2, <2>1, DripLaws, DripType
<1>8. /\ Drip(uptime' + rewound) = Drip(uptime) + Drip(1) + Drip(rewound)
      /\ Drip(1) \in Nat
  <2>1. Drip(uptime + 1 + rewound) = Drip(uptime + 1) + Drip(rewound) BY <1>2, DripLaws, DripType
  <2>2. Drip(1) \in Nat BY BucketAssumption DEF Drip
  <2> QED BY <1>1, <1>7, <2>1, <2>2
<1>9. Granted(refilled - 1) \in Nat /\ Granted(refilled) \in Nat
      /\ Granted(refilled) = Granted(refilled - 1) + FullBucket
      /\ FullBucket <= 2 * Capacity /\ FullBucket \in Nat
  <2>1. refilled - 1 \in Nat /\ (refilled - 1) + 1 = refilled BY <1>2
  <2> QED BY <2>1, <1>2, GrantLaws
<1>10. CASE bucket = NoBucket
  <2>1. bucket' = NoBucket BY <1>1, <1>10
  <2>2. spent <= Granted(refilled - 1) + Drip(uptime + rewound)
    BY <1>10 DEF BucketInv, BucketIsPaidFor
  <2>3. spent <= Granted(refilled - 1) + Drip(uptime' + rewound)
    BY <1>2, <1>7, <1>8, <1>9, <2>2
  <2>4. BucketIsPaidFor' BY <1>1, <1>5, <2>1, <2>3 DEF BucketIsPaidFor, Drip
  <2> QED BY <1>4, <2>4 DEF BucketInv
<1>11. CASE bucket # NoBucket
  <2>1. /\ bucket.lastRefill + keyAge <= uptime + MaxSkew
        /\ spent + bucket.tokens + Drip(MaxSkew - bucket.lastRefill)
             <= Granted(refilled) + Drip(rewound)
    BY <1>11 DEF BucketInv, BucketIsPaidFor
  <2>2. CASE keyAge' >= KeyTTL
    <3>1. bucket' = NoBucket BY <1>1, <2>2
    <3>2. keyAge - uptime <= MaxSkew - bucket.lastRefill /\ KeyTTL - 1 <= keyAge
      BY <1>1, <1>2, <1>6, <1>11, <2>1, <2>2
    <3>3. KeyTTL - 1 - uptime <= MaxSkew - bucket.lastRefill BY <1>2, <1>6, <1>11, <3>2
    <3>4. Drip(KeyTTL - 1 - uptime) <= Drip(MaxSkew - bucket.lastRefill)
      BY <1>2, <1>6, <1>11, <3>3, DripOrder
    <3>5. Drip(KeyTTL - 1 - uptime) = Drip(KeyTTL) - Drip(1) - Drip(uptime)
          /\ Drip(KeyTTL) \in Int
      <4>1. Drip(KeyTTL - 1 - uptime) = Drip(KeyTTL - 1) - Drip(uptime)
        BY <1>2, <1>6, DripLaws, DripType
      <4>2. Drip(KeyTTL - 1) = Drip(KeyTTL) - Drip(1) /\ Drip(KeyTTL) \in Int
        BY <1>6, DripLaws, DripType
      <4> QED BY <4>1, <4>2
    <3>6. Drip(MaxSkew - bucket.lastRefill) \in Int BY <1>2, <1>11, DripLaws, DripType
    <3>7. spent <= Granted(refilled - 1) + Drip(uptime' + rewound)
      BY <1>2, <1>6, <1>7, <1>8, <1>9, <2>1, <3>4, <3>5, <3>6
    <3>8. BucketIsPaidFor' BY <1>1, <1>5, <3>1, <3>7 DEF BucketIsPaidFor, Drip
    <3> QED BY <1>4, <3>8 DEF BucketInv
  <2>3. CASE ~(keyAge' >= KeyTTL)
    <3>1. bucket' = bucket /\ keyAge' = keyAge + 1 BY <1>1, <1>11, <2>3
    <3>2. bucket.lastRefill + keyAge' <= uptime' + MaxSkew
      BY <1>1, <1>2, <1>11, <2>1, <3>1
    <3>3. BucketIsPaidFor' BY <1>1, <1>5, <1>11, <2>1, <3>1, <3>2 DEF BucketIsPaidFor, Drip
    <3> QED BY <1>4, <3>3 DEF BucketInv
  <2> QED BY <2>2, <2>3
<1> QED BY <1>10, <1>11

\* The first state.
LEMMA BucketStart == ASSUME BucketInit PROVE BucketInv
<1>1. Capacity \in Nat /\ MaxSkew \in Nat BY BucketAssumption
<1>2. BucketTypes BY <1>1 DEF BucketInit, BucketTypes, NoBucket
<1>3. Granted(0) = 0 /\ Drip(0) = 0
  <2>1. FullBucket \in Nat BY GrantLaws
  <2> QED BY <2>1, BucketAssumption DEF Granted, Drip
<1>4. BucketIsPaidFor BY <1>3 DEF BucketInit, BucketIsPaidFor
<1> QED BY <1>2, <1>4 DEF BucketInv

\* Every step of the bucket.
LEMMA BucketStep == ASSUME BucketInv, [BucketNext]_bucketVars PROVE BucketInv'
<1>1. ASSUME NEW s \in Servers, NEW request \in Requests, Check(s, request)
      PROVE  BucketInv'
  <2>1. RequestCost(request) \in Nat BY CostIsNatural
  <2> QED BY <1>1, <2>1, ScriptKeeps DEF Check
<1>2. ASSUME NEW s \in Servers, NEW request \in Requests, CheckFailsOpen(s, request)
      PROVE  BucketInv'
  <2>1. RequestCost(request) \in Nat BY CostIsNatural
  <2> QED BY <1>2, <2>1, ScriptKeeps DEF CheckFailsOpen
<1>3. CASE UNCHANGED bucketVars
  BY <1>3 DEF bucketVars, BucketInv, BucketTypes, BucketIsPaidFor, Granted, FullBucket,
              Drip, NoBucket
<1> QED BY <1>1, <1>2, <1>3, ResetKeeps, SecondKeeps DEF BucketNext

\* tokenBucket.lua: over any stretch of time a client spends at most the buckets it was
\* given and what was refilled, where a clock that is behind is worth the seconds by which
\* it set lastRefill back; and a key that expires was full again.
THEOREM ClientsAreLimited == BucketSpec => []SpendingIsBounded
<1>1. ASSUME BucketInv PROVE SpendingIsBounded
  <2>1. /\ spent \in Nat /\ rewound \in Nat /\ uptime \in Nat /\ MaxSkew \in Nat
        /\ keyAge \in Nat /\ refilled \in Nat \ {0} /\ bucket.tokens \in 0 .. Capacity
        /\ Capacity \in Nat /\ (bucket # NoBucket => bucket.lastRefill \in Nat)
    BY <1>1, BucketParts DEF BucketInv
  <2>2. spent <= Granted(refilled) + Drip(uptime + rewound)
    <3>1. /\ Granted(refilled - 1) \in Nat /\ Granted(refilled) \in Nat
          /\ Granted(refilled - 1) <= Granted(refilled)
      <4>1. refilled - 1 \in Nat /\ (refilled - 1) + 1 = refilled BY <2>1
      <4>2. Granted(refilled) = Granted(refilled - 1) + FullBucket /\ FullBucket \in Nat
            /\ Granted(refilled - 1) \in Nat
        BY <4>1, GrantLaws
      <4> QED BY <4>2
    <3>2. Drip(uptime + rewound) = Drip(uptime) + Drip(rewound) /\ Drip(rewound) \in Int
          /\ Drip(uptime) \in Int
      <4>0. {uptime, rewound} \subseteq Int BY <2>1
      <4>1. Drip(uptime + rewound) = Drip(uptime) + Drip(rewound) BY <4>0, DripLaws, Zenon
      <4> QED BY <4>0, <4>1, DripType
    <3>3. CASE bucket = NoBucket
      <4>1. spent <= Granted(refilled - 1) + Drip(uptime + rewound)
        BY <1>1, <3>3 DEF BucketInv, BucketIsPaidFor
      <4> QED BY <2>1, <3>1, <3>2, <4>1
    <3>4. CASE bucket # NoBucket
      <4>1. /\ bucket.lastRefill + keyAge <= uptime + MaxSkew
            /\ spent + bucket.tokens + Drip(MaxSkew - bucket.lastRefill)
                 <= Granted(refilled) + Drip(rewound)
        BY <1>1, <3>4 DEF BucketInv, BucketIsPaidFor
      <4>2. 0 - uptime <= MaxSkew - bucket.lastRefill BY <2>1, <3>4, <4>1
      <4>3. Drip(0 - uptime) <= Drip(MaxSkew - bucket.lastRefill)
        BY <2>1, <3>4, <4>2, DripOrder
      <4>4. Drip(0 - uptime) = Drip(0) - Drip(uptime) /\ Drip(0) = 0
        <5>1. Drip(0) = 0 BY BucketAssumption DEF Drip
        <5> QED BY <2>1, <5>1, DripLaws, DripType
      <4>5. Drip(MaxSkew - bucket.lastRefill) \in Int BY <2>1, <3>4, DripLaws, DripType
      <4> QED BY <2>1, <3>1, <3>2, <4>1, <4>3, <4>4, <4>5
    <3> QED BY <3>3, <3>4
  <2> QED BY <2>2 DEF SpendingIsBounded, Granted, FullBucket, Drip
<1>2. BucketInv => SpendingIsBounded BY <1>1
<1>3. BucketInit => BucketInv BY BucketStart
<1>4. BucketInv /\ [BucketNext]_bucketVars => BucketInv' BY BucketStep
<1> QED BY <1>2, <1>3, <1>4, PTL DEF BucketSpec

-----------------------------------------------------------------------------
(* The stale cache: how outdated an answer can be.                         *)

KeyState == [value : {"none", "old", "new", "meta"}, left : Nat, age : Nat]
FlightState ==
  [at : {"idle", "meta", "fetch", "store"}, value : {"none", "old", "new", "meta"},
   age : Nat, todo : SUBSET {"data", "meta"}]

CacheTypes ==
  /\ dbValue \in {"old", "new"} /\ since \in Nat /\ served \in Nat
  /\ dataKey \in KeyState /\ metaKey \in KeyState
  /\ flight \in [Tasks -> FlightState]

\* What a reader or a refresh holds of the old value is younger than the operation that
\* got it, or than the entry it was found in; and an entry is as old as it lacks of its TTL.
AgesAreKnown ==
  /\ dbValue = "old" => since = 0
  /\ \A f \in Tasks :
       /\ flight[f].age <= MaxLatency
       /\ flight[f].at = "store" /\ flight[f].value = "old" => since <= flight[f].age
       /\ flight[f].at = "meta" /\ flight[f].value = "old"
            => since <= MaxLatency + TTL + flight[f].age
  /\ dataKey.value = "old" => since + dataKey.left <= MaxLatency + TTL

CacheInv == CacheTypes /\ AgesAreKnown /\ NeverServedTooOld

\* The fields of a key and of a flight.
LEMMA CacheParts ==
  ASSUME CacheTypes
  PROVE  /\ dbValue \in {"old", "new"} /\ since \in Nat /\ served \in Nat
         /\ dataKey.value \in {"none", "old", "new", "meta"} /\ dataKey.left \in Nat
         /\ \A f \in Tasks : /\ flight[f].value \in {"none", "old", "new", "meta"}
                             /\ flight[f].age \in Nat
         /\ TTL \in Nat \ {0} /\ MaxLatency \in Nat /\ AgeLimit = TTL + 2 * MaxLatency
BY StaleCacheAssumption DEF CacheTypes, KeyState, FlightState, AgeLimit

\* What a grounded answer is, by its parts.
LEMMA GroundedParts ==
  /\ Grounded \in FlightState /\ Grounded.at = "idle" /\ Grounded.age = 0
  /\ Grounded.value = "none" /\ Grounded.todo = {}
BY DEF Grounded, FlightState

\* A key that is gone.
LEMMA GoneParts == Gone \in KeyState /\ Gone.value = "none"
BY DEF Gone, KeyState

\* What one task does keeps the ages known, if what it now holds is.
LEMMA FlightChanges ==
  ASSUME CacheInv, NEW f \in Tasks, NEW now \in FlightState, flight' = [flight EXCEPT ![f] = now],
         now.age <= MaxLatency,
         now.at = "store" /\ now.value = "old" => since <= now.age,
         now.at = "meta" /\ now.value = "old" => since <= MaxLatency + TTL + now.age,
         UNCHANGED <<dbValue, since, cacheKeys>>,
         served' \in Nat, served' <= AgeLimit
  PROVE  CacheInv'
<1>1. /\ flight' \in [Tasks -> FlightState] /\ flight'[f] = now
      /\ \A g \in Tasks : g # f => flight'[g] = flight[g]
  BY DEF CacheInv, CacheTypes
<1>2. UNCHANGED <<dataKey, metaKey>> BY DEF cacheKeys
<1>3. CacheTypes' BY <1>1, <1>2 DEF CacheInv, CacheTypes
<1>4. AgesAreKnown' BY <1>1, <1>2 DEF CacheInv, AgesAreKnown
<1>5. NeverServedTooOld' BY DEF NeverServedTooOld, AgeLimit
<1> QED BY <1>3, <1>4, <1>5 DEF CacheInv

\* A reader looks at the key.
LEMMA ReadKeeps ==
  ASSUME CacheInv, NEW r \in Readers, GetData(r) \/ GetMeta(r)
  PROVE  CacheInv'
<1>0. r \in Tasks BY DEF Tasks
<1>1. CASE GetData(r)
  <2> DEFINE now == [Grounded EXCEPT !.at = "meta", !.value = dataKey.value]
  <2>1. /\ flight' = [flight EXCEPT ![r] = now]
        /\ UNCHANGED <<dbValue, since, cacheKeys, served>>
    BY <1>1 DEF GetData
  <2>2. dataKey.value \in {"none", "old", "new", "meta"} BY CacheParts DEF CacheInv
  <2>3. /\ now \in FlightState /\ now.at = "meta" /\ now.value = dataKey.value
        /\ now.age = 0
    BY <2>2 DEF Grounded, FlightState
  <2> HIDE DEF now
  <2>4. dataKey.value = "old" => since <= MaxLatency + TTL + now.age
    BY <2>3, CacheParts DEF CacheInv, AgesAreKnown
  <2>5. now.age <= MaxLatency BY <2>3, CacheParts DEF CacheInv
  <2>6. served' \in Nat /\ served' <= AgeLimit
    BY <2>1, CacheParts DEF CacheInv, NeverServedTooOld
  <2> QED BY <1>0, <2>1, <2>3, <2>4, <2>5, <2>6, FlightChanges
<1>2. CASE GetMeta(r)
  <2>1. flight[r].at = "meta" /\ UNCHANGED <<dbValue, since, cacheKeys>>
    BY <1>2 DEF GetMeta
  <2>2. served' \in Nat /\ served' <= AgeLimit
    <3>1. served \in Nat /\ served <= AgeLimit /\ AgeLimit \in Nat
      BY CacheParts DEF CacheInv, NeverServedTooOld
    <3>2. Outdated(flight[r].value) \in Nat /\ Outdated(flight[r].value) <= AgeLimit
      BY <1>0, <2>1, <3>1, CacheParts DEF CacheInv, AgesAreKnown, Outdated
    <3> QED BY <1>2, <3>1, <3>2 DEF GetMeta
  <2> DEFINE fetching == [Grounded EXCEPT !.at = "fetch"]
  <2>3. /\ fetching \in FlightState /\ fetching.at = "fetch" /\ fetching.age = 0
    BY DEF Grounded, FlightState
  <2> HIDE DEF fetching
  <2>4. 0 <= MaxLatency BY CacheParts DEF CacheInv
  <2>5. CASE flight' = [flight EXCEPT ![r] = fetching]
    BY <1>0, <2>1, <2>2, <2>3, <2>4, <2>5, FlightChanges
  <2>6. CASE flight' = [flight EXCEPT ![r] = Grounded]
    BY <1>0, <2>1, <2>2, <2>4, <2>6, GroundedParts, FlightChanges
  <2>7. ASSUME NEW b \in Refreshers, flight' = [flight EXCEPT ![r] = Grounded, ![b] = fetching]
        PROVE  CacheInv'
    <3>1. b \in Tasks /\ b # r BY StaleCacheAssumption DEF Tasks
    <3>2. /\ flight' \in [Tasks -> FlightState] /\ flight'[b] = fetching
          /\ flight'[r] = Grounded
          /\ \A g \in Tasks : g # r /\ g # b => flight'[g] = flight[g]
      BY <1>0, <2>3, <2>7, <3>1, GroundedParts DEF CacheInv, CacheTypes
    <3>3. UNCHANGED <<dataKey, metaKey>> BY <2>1 DEF cacheKeys
    <3>4. CacheTypes' BY <2>1, <2>2, <3>2, <3>3 DEF CacheInv, CacheTypes
    <3>5. AgesAreKnown'
      BY <2>1, <2>3, <2>4, <3>2, <3>3, GroundedParts DEF CacheInv, AgesAreKnown
    <3>6. NeverServedTooOld' BY <2>2 DEF NeverServedTooOld, AgeLimit
    <3> QED BY <3>4, <3>5, <3>6 DEF CacheInv
  <2> QED BY <1>2, <2>5, <2>6, <2>7 DEF GetMeta, fetching
<1> QED BY <1>1, <1>2

\* The chain is read.
LEMMA FetchKeeps ==
  ASSUME CacheInv, NEW f \in Tasks, Fetch(f) \/ FetchFails(f) \/ EndFlight(f)
  PROVE  CacheInv'
<1>1. served \in Nat /\ served <= AgeLimit /\ AgeLimit \in Nat /\ 0 <= MaxLatency
  BY CacheParts DEF CacheInv, NeverServedTooOld
<1>2. CASE Fetch(f)
  <2> DEFINE now == [flight[f] EXCEPT !.at = "store", !.value = dbValue,
                                      !.todo = {"data", "meta"}]
  <2>1. flight[f] \in FlightState BY DEF CacheInv, CacheTypes
  <2>2. now \in FlightState /\ now.value = dbValue /\ now.age = flight[f].age /\ now.at = "store"
    BY <2>1, CacheParts DEF FlightState, CacheInv
  <2>3. flight' = [flight EXCEPT ![f] = now]
    BY <1>2, <2>1 DEF Fetch, FlightState, CacheInv, CacheTypes
  <2>4. UNCHANGED <<dbValue, since, cacheKeys, served>> BY <1>2 DEF Fetch
  <2> HIDE DEF now
  <2>5. now.age \in Nat /\ now.age <= MaxLatency /\ (dbValue = "old" => since <= now.age)
    BY <2>2, CacheParts DEF CacheInv, AgesAreKnown
  <2> QED BY <1>1, <2>2, <2>3, <2>4, <2>5, FlightChanges
<1>3. CASE FetchFails(f) \/ EndFlight(f)
  <2>1. flight' = [flight EXCEPT ![f] = Grounded] /\ UNCHANGED <<dbValue, since, cacheKeys>>
    BY <1>3 DEF FetchFails, EndFlight
  <2>2. served' \in Nat /\ served' <= AgeLimit
    <3>1. CASE FetchFails(f) BY <1>1, <3>1 DEF FetchFails
    <3>2. CASE EndFlight(f)
      <4>1. flight[f].at = "store" BY <3>2 DEF EndFlight
      <4>2. Outdated(flight[f].value) \in Nat /\ Outdated(flight[f].value) <= AgeLimit
        BY <4>1, <1>1, CacheParts DEF CacheInv, AgesAreKnown, Outdated
      <4> QED BY <1>1, <3>2, <4>2 DEF EndFlight
    <3> QED BY <1>3, <3>1, <3>2
  <2> QED BY <1>1, <2>1, <2>2, GroundedParts, FlightChanges
<1> QED BY <1>2, <1>3

\* What was read is stored.
LEMMA StoreKeeps ==
  ASSUME CacheInv, NEW f \in Tasks, NEW key \in {"data", "meta"}, StoreEntry(f, key)
  PROVE  CacheInv'
<1> DEFINE now == [flight[f] EXCEPT !.todo = @ \ {key}]
           stored == [value |-> flight[f].value, left |-> EntryTTL, age |-> 0]
           noted == [value |-> "meta", left |-> EntryTTL, age |-> 0]
<1>1. flight[f] \in FlightState BY DEF CacheInv, CacheTypes
<1>2. /\ now \in FlightState /\ now.value = flight[f].value /\ now.age = flight[f].age
      /\ now.at = flight[f].at
  BY <1>1 DEF FlightState
<1>3. flight' = [flight EXCEPT ![f] = now]
  BY <1>1 DEF StoreEntry, FlightState, CacheInv, CacheTypes
<1>4. /\ stored \in KeyState /\ noted \in KeyState
      /\ stored.value = flight[f].value /\ stored.left = TTL
  BY CacheParts DEF KeyState, EntryTTL, CacheInv
<1>5. /\ dataKey' \in {dataKey, stored} /\ metaKey' \in {metaKey, noted}
      /\ flight[f].at = "store" /\ UNCHANGED <<dbValue, since, served>>
  BY DEF StoreEntry
<1> HIDE DEF now, stored, noted
<1>6. /\ flight' \in [Tasks -> FlightState] /\ flight'[f] = now
      /\ \A g \in Tasks : g # f => flight'[g] = flight[g]
  BY <1>2, <1>3 DEF CacheInv, CacheTypes
<1>7. CacheTypes' BY <1>4, <1>5, <1>6 DEF CacheInv, CacheTypes
<1>8. dataKey'.value = "old" => since + dataKey'.left <= MaxLatency + TTL
  <2>1. CASE dataKey' = dataKey BY <2>1 DEF CacheInv, AgesAreKnown
  <2>2. CASE dataKey' = stored
    <3>1. flight[f].value = "old" => since <= MaxLatency
      BY <1>5, CacheParts DEF CacheInv, AgesAreKnown
    <3> QED BY <1>4, <2>2, <3>1, CacheParts DEF CacheInv
  <2> QED BY <1>5, <2>1, <2>2
<1>9. AgesAreKnown' BY <1>2, <1>5, <1>6, <1>8 DEF CacheInv, AgesAreKnown
<1>10. NeverServedTooOld' BY <1>5 DEF CacheInv, NeverServedTooOld, AgeLimit
<1> QED BY <1>7, <1>9, <1>10 DEF CacheInv

\* The chain changes, or the key is dropped.
LEMMA MutationKeeps == ASSUME CacheInv, Mutate \/ Invalidate PROVE CacheInv'
<1>1. /\ dbValue' = "new" /\ UNCHANGED <<since, flight, served>>
      /\ dataKey' \in {dataKey, Gone} /\ metaKey' \in {metaKey, Gone}
  BY DEF Mutate, Invalidate, cacheKeys
<1>2. CacheTypes' BY <1>1, GoneParts DEF CacheInv, CacheTypes
<1>3. AgesAreKnown' BY <1>1, GoneParts DEF CacheInv, AgesAreKnown
<1>4. NeverServedTooOld' BY <1>1 DEF CacheInv, NeverServedTooOld, AgeLimit
<1> QED BY <1>2, <1>3, <1>4 DEF CacheInv

\* A key one second later: the same answer, for one second less.
LEMMA OlderKey ==
  ASSUME NEW key \in KeyState
  PROVE  /\ Older(key) \in KeyState
         /\ Older(key).value = "old" => key.value = "old" /\ Older(key).left = key.left - 1
                                        /\ key.left > 1
<1>1. CASE key.left <= 1 BY <1>1, GoneParts DEF Older
<1>2. CASE ~(key.left <= 1)
  <2> DEFINE age == IF key.age > ExpireAfter THEN key.age ELSE key.age + 1
  <2>1. key.left \in Nat /\ key.left - 1 \in Nat /\ age \in Nat BY <1>2 DEF KeyState
  <2>2. Older(key) = [key EXCEPT !.left = key.left - 1, !.age = age]
    BY <1>2 DEF Older, KeyState
  <2> HIDE DEF age
  <2>3. Older(key) \in KeyState BY <2>1, <2>2 DEF KeyState
  <2>4. Older(key).value = key.value /\ Older(key).left = key.left - 1
    BY <2>2 DEF KeyState
  <2> QED BY <1>2, <2>1, <2>3, <2>4
<1> QED BY <1>1, <1>2

\* A second passes, and answers grow older.
LEMMA TickKeeps == ASSUME CacheInv, Tick PROVE CacheInv'
<1> DEFINE aged(f) == [flight[f] EXCEPT !.age = @ + 1]
<1>1. /\ dataKey' = Older(dataKey) /\ metaKey' = Older(metaKey)
      /\ UNCHANGED <<dbValue, served>>
      /\ since' = IF dbValue = "new" /\ since <= AgeLimit THEN since + 1 ELSE since
      /\ flight' = [f \in Tasks |-> IF flight[f] = Grounded THEN Grounded ELSE aged(f)]
      /\ \A f \in Tasks : flight[f] # Grounded => flight[f].age < MaxLatency
  BY DEF Tick
<1>2. ASSUME NEW f \in Tasks
      PROVE  /\ aged(f) \in FlightState /\ aged(f).at = flight[f].at
             /\ aged(f).value = flight[f].value /\ aged(f).age = flight[f].age + 1
  <2>1. flight[f] \in FlightState BY DEF CacheInv, CacheTypes
  <2> QED BY <2>1 DEF FlightState
<1> HIDE DEF aged
<1>3. since \in Nat /\ since' \in Nat /\ since' <= since + 1 /\ (dbValue = "old" => since' = since)
  BY <1>1, CacheParts DEF CacheInv
<1>4. flight' \in [Tasks -> FlightState] BY <1>1, <1>2, GroundedParts
<1>5. ASSUME NEW f \in Tasks
      PROVE  \/ flight'[f] = Grounded
             \/ /\ flight'[f].at = flight[f].at /\ flight'[f].value = flight[f].value
                /\ flight'[f].age = flight[f].age + 1 /\ flight[f].age < MaxLatency
  BY <1>1, <1>2
<1>6. dataKey \in KeyState /\ metaKey \in KeyState BY DEF CacheInv, CacheTypes
<1>7. CacheTypes' BY <1>1, <1>3, <1>4, <1>6, OlderKey DEF CacheInv, CacheTypes
<1>8. dataKey'.value = "old" => since' + dataKey'.left <= MaxLatency + TTL
  <2>1. SUFFICES ASSUME dataKey'.value = "old" PROVE since' + dataKey'.left <= MaxLatency + TTL
    OBVIOUS
  <2>2. dataKey.value = "old" /\ dataKey'.left = dataKey.left - 1
    BY <1>1, <1>6, <2>1, OlderKey
  <2>3. since + dataKey.left <= MaxLatency + TTL BY <2>2 DEF CacheInv, AgesAreKnown
  <2>4. dataKey.left \in Nat /\ MaxLatency \in Nat /\ TTL \in Nat BY CacheParts DEF CacheInv
  <2> QED BY <1>3, <2>2, <2>3, <2>4
<1>9. ASSUME NEW f \in Tasks
      PROVE  /\ flight'[f].age <= MaxLatency
             /\ flight'[f].at = "store" /\ flight'[f].value = "old" => since' <= flight'[f].age
             /\ flight'[f].at = "meta" /\ flight'[f].value = "old"
                  => since' <= MaxLatency + TTL + flight'[f].age
  <2>1. CASE flight'[f] = Grounded BY <2>1, GroundedParts, CacheParts DEF CacheInv
  <2>2. CASE flight'[f] # Grounded
    <3>1. /\ flight'[f].at = flight[f].at /\ flight'[f].value = flight[f].value
          /\ flight'[f].age = flight[f].age + 1 /\ flight[f].age < MaxLatency
      BY <1>5, <2>2
    <3>2. flight[f].age \in Nat /\ MaxLatency \in Nat /\ TTL \in Nat
      BY CacheParts DEF CacheInv
    <3> QED BY <1>3, <3>1, <3>2 DEF CacheInv, AgesAreKnown
  <2> QED BY <2>1, <2>2
<1>10. AgesAreKnown' BY <1>1, <1>3, <1>8, <1>9 DEF CacheInv, AgesAreKnown
<1>11. NeverServedTooOld' BY <1>1 DEF CacheInv, NeverServedTooOld, AgeLimit
<1> QED BY <1>7, <1>10, <1>11 DEF CacheInv

\* The first state.
LEMMA CacheStart == CacheInit => CacheInv
<1> SUFFICES ASSUME CacheInit PROVE CacheInv OBVIOUS
<1>1. CacheTypes BY GroundedParts, GoneParts DEF CacheInit, CacheTypes
<1>2. AgesAreKnown BY GroundedParts, GoneParts, StaleCacheAssumption DEF CacheInit, AgesAreKnown
<1>3. NeverServedTooOld BY StaleCacheAssumption DEF CacheInit, NeverServedTooOld, AgeLimit
<1> QED BY <1>1, <1>2, <1>3 DEF CacheInv

\* Every step of the cache.
LEMMA CacheStep == CacheInv /\ [CacheNext]_cacheVars => CacheInv'
<1> SUFFICES ASSUME CacheInv, [CacheNext]_cacheVars PROVE CacheInv' OBVIOUS
<1>1. CASE UNCHANGED cacheVars
  BY <1>1 DEF cacheVars, cacheKeys, CacheInv, CacheTypes, AgesAreKnown, NeverServedTooOld
<1> QED BY <1>1, ReadKeeps, FetchKeeps, StoreKeeps, MutationKeeps, TickKeeps DEF CacheNext

\* staleCache.ts: no reader gets a value that was replaced longer ago than the TTL and the
\* time of two operations, however refreshes, mutations and lost keys overlap.
THEOREM AnswersAreRecent == CacheSpec => []NeverServedTooOld
<1>1. CacheInv => NeverServedTooOld BY DEF CacheInv
<1> QED BY <1>1, CacheStart, CacheStep, PTL DEF CacheSpec

-----------------------------------------------------------------------------
(* The live path: what a subscription is sent.                             *)

Message == [from : {"direct", "local", "stream"}, nr : Nat]

\* The last message from an origin among those sent, if there is one, is n.
EndsAt(got, origin, n) ==
  \A j \in DOMAIN got :
    /\ got[j].from = origin
    /\ \A m \in DOMAIN got : j < m => got[m].from # origin
    => got[j].nr = n

LiveTypes ==
  /\ appended \in Nat /\ published \in [Instances -> Nat]
  /\ lastStreamId \in [Instances -> Nat \union {Latest}]
  /\ reading \in [Instances -> Nat \union {NotReading}]
  /\ controllers \in [Instances -> SUBSET SubIds]
  /\ registered \in [Instances -> SUBSET SubIds]
  /\ listening \in [Instances -> [SubIds -> Int]]
  /\ delivered \in [Instances -> [SubIds -> Seq(Message)]]

\* A registered subscription listens once, and only it does.
ListensOnce(i) ==
  /\ controllers[i] = registered[i]
  /\ \A s \in SubIds : listening[i][s] = IF s \in controllers[i] THEN 1 ELSE 0

\* The read under way goes on where the cursor is.
CursorIsRead(i) ==
  reading[i] # NotReading /\ lastStreamId[i] # Latest => reading[i] = lastStreamId[i]

\* What was sent off the stream is in order, and to those who listen went up to the cursor;
\* nothing is kept of a subscription that ended.
SentFromStream(i, s) ==
  /\ InOrder(delivered[i][s], "stream")
  /\ s \notin controllers[i] => delivered[i][s] = <<>>
  /\ lastStreamId[i] = Latest => NoneFrom(delivered[i][s], "stream")
  /\ s \in controllers[i] /\ lastStreamId[i] # Latest
       => EndsAt(delivered[i][s], "stream", lastStreamId[i])

\* What was sent directly is in order, and to those who listen went up to what was
\* published last.
SentDirectly(i, s) ==
  /\ s \in BusSubs => InOrder(delivered[i][s], "direct")
  /\ s \in BusSubs /\ s \in controllers[i] => EndsAt(delivered[i][s], "direct", published[i])
  /\ s \notin BusSubs => NoneFrom(delivered[i][s], "direct")

Sent(i) == \A s \in SubIds : SentFromStream(i, s) /\ SentDirectly(i, s)

LiveInv ==
  LiveTypes /\ \A i \in Instances : ListensOnce(i) /\ CursorIsRead(i) /\ Sent(i)

\* A subscriber who was sent nothing.
LEMMA NothingSent ==
  ASSUME NEW n, NEW origin
  PROVE  /\ <<>> \in Seq(Message) /\ InOrder(<<>>, origin) /\ NoneFrom(<<>>, origin)
         /\ EndsAt(<<>>, origin, n)
BY DEF InOrder, NoneFrom, EndsAt

\* What comes from elsewhere changes nothing about the messages from an origin.
LEMMA OtherOrigin ==
  ASSUME NEW got \in Seq(Message), NEW events \in Seq(Message), NEW origin,
         NoneFrom(events, origin)
  PROVE  /\ got \o events \in Seq(Message)
         /\ InOrder(got, origin) => InOrder(got \o events, origin)
         /\ NoneFrom(got, origin) => NoneFrom(got \o events, origin)
         /\ \A n : EndsAt(got, origin, n) => EndsAt(got \o events, origin, n)
<1> DEFINE all == got \o events
           len == Len(got)
           d == Len(events)
<1>1. /\ all \in Seq(Message) /\ DOMAIN all = 1 .. len + d /\ DOMAIN got = 1 .. len
      /\ DOMAIN events = 1 .. d /\ len \in Nat /\ d \in Nat
      /\ \A j \in 1 .. len : all[j] = got[j]
      /\ \A j \in len + 1 .. len + d : all[j] = events[j - len]
  <2>1. all \in Seq(Message) /\ Len(all) = len + d /\ len \in Nat /\ d \in Nat OBVIOUS
  <2>2. DOMAIN all = 1 .. len + d /\ DOMAIN got = 1 .. len /\ DOMAIN events = 1 .. d BY <2>1
  <2>3. ASSUME NEW j \in 1 .. len PROVE all[j] = got[j] OBVIOUS
  <2>4. ASSUME NEW j \in len + 1 .. len + d PROVE all[j] = events[j - len] OBVIOUS
  <2> QED BY <2>1, <2>2, <2>3, <2>4
<1> HIDE DEF all, len, d
<1>2. ASSUME NEW j \in len + 1 .. len + d PROVE all[j].from # origin
  <2>1. j - len \in DOMAIN events BY <1>1
  <2> QED BY <1>1, <2>1 DEF NoneFrom
<1>3. ASSUME NEW j \in DOMAIN all, all[j].from = origin PROVE j \in 1 .. len
  <2>1. j \in 1 .. len \/ j \in len + 1 .. len + d BY <1>1
  <2> QED BY <1>2, <1>3, <2>1
<1>4. \A j \in 1 .. len : j \in DOMAIN all BY <1>1
<1>5. ASSUME InOrder(got, origin), NEW j \in DOMAIN all, NEW k \in DOMAIN all,
             Neighbours(all, origin, j, k)
      PROVE  all[k].nr = all[j].nr + 1
  <2>1. j \in 1 .. len /\ k \in 1 .. len BY <1>3, <1>5 DEF Neighbours
  <2>2. Neighbours(got, origin, j, k) BY <1>1, <1>4, <1>5, <2>1 DEF Neighbours
  <2> QED BY <1>1, <1>5, <2>1, <2>2 DEF InOrder
<1>6. NoneFrom(got, origin) => NoneFrom(all, origin) BY <1>1, <1>3 DEF NoneFrom
<1>7. ASSUME NEW n, EndsAt(got, origin, n) PROVE EndsAt(all, origin, n)
  <2> SUFFICES ASSUME NEW j \in DOMAIN all, all[j].from = origin,
                      \A m \in DOMAIN all : j < m => all[m].from # origin
               PROVE  all[j].nr = n
    BY DEF EndsAt
  <2>1. j \in 1 .. len BY <1>3
  <2>2. \A m \in DOMAIN got : j < m => got[m].from # origin BY <1>1, <1>4
  <2> QED BY <1>1, <1>7, <2>1, <2>2 DEF EndsAt
<1> QED BY <1>1, <1>5, <1>6, <1>7 DEF InOrder, all

\* A batch continues what was sent up to the place it starts after.
LEMMA BatchContinues ==
  ASSUME NEW origin \in {"direct", "stream"}, NEW got \in Seq(Message), InOrder(got, origin),
         NEW r \in Nat, NEW d \in Nat \ {0}, EndsAt(got, origin, r),
         NEW batch \in Seq(Message), Len(batch) = d,
         \A k \in 1 .. d : batch[k].from = origin /\ batch[k].nr = r + k
  PROVE  /\ got \o batch \in Seq(Message) /\ InOrder(got \o batch, origin)
         /\ EndsAt(got \o batch, origin, r + d)
<1> DEFINE all == got \o batch
           len == Len(got)
<1>1. len \in Nat OBVIOUS
<1>3. /\ all \in Seq(Message) /\ DOMAIN all = 1 .. len + d /\ DOMAIN got = 1 .. len
      /\ \A j \in 1 .. len : all[j] = got[j]
      /\ \A j \in len + 1 .. len + d : all[j] = batch[j - len]
  <2>0. \A c, e \in Seq(Message) : c \o e \in Seq(Message) /\ Len(c \o e) = Len(c) + Len(e)
    OBVIOUS
  <2>1. all \in Seq(Message) /\ Len(all) = len + d BY <2>0
  <2>2. DOMAIN all = 1 .. len + d /\ DOMAIN got = 1 .. len BY <1>1, <2>1
  <2>3. ASSUME NEW j \in 1 .. len PROVE all[j] = got[j] BY <1>1
  <2>4. ASSUME NEW j \in len + 1 .. len + d PROVE all[j] = batch[j - len] BY <1>1
  <2> QED BY <2>1, <2>2, <2>3, <2>4
<1> HIDE DEF all, len
<1>4. ASSUME NEW j \in len + 1 .. len + d PROVE all[j].nr = r + (j - len) /\ all[j].from = origin
  <2>1. j - len \in 1 .. d /\ all[j] = batch[j - len] BY <1>1, <1>3
  <2> QED BY <2>1
<1>5. ASSUME NEW j \in DOMAIN all, NEW k \in DOMAIN all, Neighbours(all, origin, j, k)
      PROVE  all[k].nr = all[j].nr + 1
  <2>0. /\ j \in 1 .. len + d /\ k \in 1 .. len + d /\ j < k
        /\ all[j].from = origin /\ all[k].from = origin
        /\ \A m \in 1 .. len + d : j < m /\ m < k => all[m].from # origin
    BY <1>3, <1>5 DEF Neighbours
  <2>1. CASE k <= len
    <3>1. j \in 1 .. len /\ k \in 1 .. len BY <1>1, <2>0, <2>1
    <3>2. \A m \in 1 .. len : j < m /\ m < k => got[m].from # origin
      <4> SUFFICES ASSUME NEW m \in 1 .. len, j < m, m < k PROVE got[m].from # origin OBVIOUS
      <4>1. m \in 1 .. len + d BY <1>1
      <4> QED BY <1>3, <2>0, <4>1
    <3>3. Neighbours(got, origin, j, k) BY <1>3, <2>0, <3>1, <3>2 DEF Neighbours
    <3> QED BY <1>3, <3>1, <3>3 DEF InOrder
  <2>2. CASE k > len /\ j <= len
    <3>1. k = len + 1
      <4>1. CASE k # len + 1
        <5>0. j \in Int /\ k \in Int /\ d \in Nat /\ d >= 1 BY <1>1, <2>0
        <5>1. len + 1 \in 1 .. len + d /\ j < len + 1 /\ len + 1 < k
          BY <1>1, <2>2, <4>1, <5>0
        <5>2. all[len + 1].from = origin BY <1>1, <1>4
        <5> QED BY <2>0, <5>1, <5>2
      <4> QED BY <4>1
    <3>2. j \in DOMAIN got /\ got[j].from = origin BY <1>1, <1>3, <2>0, <2>2
    <3>3. ASSUME NEW m \in DOMAIN got, j < m PROVE got[m].from # origin
      <4>1. m \in 1 .. len + d /\ m < k /\ m \in 1 .. len BY <1>1, <1>3, <3>1
      <4> QED BY <1>3, <2>0, <3>3, <4>1
    <3>4. got[j].nr = r BY <3>2, <3>3 DEF EndsAt
    <3>5. all[k].nr = r + 1 BY <1>1, <1>4, <3>1
    <3> QED BY <1>3, <3>2, <3>4, <3>5
  <2>3. CASE j > len
    <3>1. k = j + 1
      <4>1. CASE k # j + 1
        <5>1. j + 1 \in len + 1 .. len + d /\ j + 1 < k BY <1>1, <2>0, <2>3, <4>1
        <5>2. all[j + 1].from = origin /\ j + 1 \in 1 .. len + d BY <1>1, <1>4, <5>1
        <5> QED BY SMTT(60), <2>0, <5>1, <5>2
      <4> QED BY <4>1
    <3>2. all[j].nr = r + (j - len) /\ all[k].nr = r + (k - len)
      BY <1>1, <1>4, <2>0, <2>3
    <3> QED BY <1>1, <2>0, <3>1, <3>2
  <2> QED BY <1>1, <2>0, <2>1, <2>2, <2>3
<1>6. EndsAt(all, origin, r + d)
  <2> SUFFICES ASSUME NEW j \in DOMAIN all, all[j].from = origin,
                      \A m \in DOMAIN all : j < m => all[m].from # origin
               PROVE  all[j].nr = r + d
    BY DEF EndsAt
  <2>1. len + d \in DOMAIN all /\ all[len + d].from = origin /\ all[len + d].nr = r + d
    BY <1>1, <1>3, <1>4
  <2>2. CASE j # len + d
    <3>1. j \in 1 .. len + d /\ j < len + d BY <1>1, <1>3, <2>2
    <3> QED BY <2>1, <3>1
  <2> QED BY <2>1, <2>2
<1> QED BY <1>3, <1>5, <1>6 DEF InOrder, all

\* The subscriptions that listen are sent the events once, the others nothing.
LEMMA EmitEffect ==
  ASSUME LiveInv, NEW i \in Instances, NEW subs \in SUBSET SubIds,
         NEW events \in Seq(Message), Emit(i, subs, events)
  PROVE  /\ delivered' \in [Instances -> [SubIds -> Seq(Message)]]
         /\ \A j \in Instances : j # i => delivered'[j] = delivered[j]
         /\ \A s \in SubIds :
              delivered'[i][s] = IF s \in subs /\ s \in controllers[i]
                                 THEN delivered[i][s] \o events ELSE delivered[i][s]
<1> DEFINE sent == [s \in SubIds |->
             CASE s \notin subs \/ listening[i][s] = 0 -> delivered[i][s]
               [] s \in subs /\ listening[i][s] = 1 -> delivered[i][s] \o events
               [] OTHER -> delivered[i][s] \o events \o events]
<1>1. delivered' = [delivered EXCEPT ![i] = sent] BY DEF Emit
<1>2. delivered \in [Instances -> [SubIds -> Seq(Message)]] BY DEF LiveInv, LiveTypes
<1>3. \A s \in SubIds : listening[i][s] = IF s \in controllers[i] THEN 1 ELSE 0
  BY DEF LiveInv, ListensOnce
<1>4. \A s \in SubIds : sent[s] = IF s \in subs /\ s \in controllers[i]
                                  THEN delivered[i][s] \o events ELSE delivered[i][s]
  BY <1>3
<1>5. sent \in [SubIds -> Seq(Message)]
  <2>1. ASSUME NEW s \in SubIds PROVE sent[s] \in Seq(Message)
    <3>1. delivered[i][s] \in Seq(Message) BY <1>2
    <3>2. delivered[i][s] \o events \in Seq(Message) BY <3>1
    <3> HIDE DEF sent
    <3> QED BY <1>4, <3>1, <3>2
  <2>2. sent = [s \in SubIds |-> sent[s]] OBVIOUS
  <2> HIDE DEF sent
  <2> QED BY <2>1, <2>2
<1> HIDE DEF sent
<1> QED BY <1>1, <1>2, <1>4, <1>5

\* The instances a step does not touch stay as they are.
LEMMA OthersStay ==
  ASSUME LiveInv, NEW i \in Instances,
         lastStreamId'[i] = lastStreamId[i], reading'[i] = reading[i],
         published'[i] = published[i],
         controllers'[i] = controllers[i], registered'[i] = registered[i],
         listening'[i] = listening[i], delivered'[i] = delivered[i]
  PROVE  (ListensOnce(i) /\ CursorIsRead(i) /\ Sent(i))'
BY DEF LiveInv, ListensOnce, CursorIsRead, Sent, SentFromStream, SentDirectly

\* The stream grows, and XREAD starts or ends with nothing.
LEMMA ReaderKeeps ==
  ASSUME LiveInv, NEW i \in Instances, AppendToStream(i) \/ XRead(i) \/ ReadEndsEmpty(i)
  PROVE  LiveInv'
<1>1. UNCHANGED <<published, lastStreamId, controllers, registered, listening, delivered>>
  BY DEF XRead, ReadEndsEmpty, AppendToStream, gatewayVars
<1>2. /\ appended' \in Nat /\ reading' \in [Instances -> Nat \union {NotReading}]
      /\ \A j \in Instances : CursorIsRead(j)'
  <2>0. /\ appended \in Nat /\ reading \in [Instances -> Nat \union {NotReading}]
        /\ lastStreamId \in [Instances -> Nat \union {Latest}]
        /\ \A j \in Instances : CursorIsRead(j)
    BY DEF LiveInv, LiveTypes
  <2>1. CASE XRead(i)
    <3>1. /\ reading' = [reading EXCEPT ![i] = IF lastStreamId[i] = Latest THEN appended
                                               ELSE lastStreamId[i]]
          /\ appended' = appended
      BY <2>1 DEF XRead
    <3>2. reading' \in [Instances -> Nat \union {NotReading}] BY <2>0, <3>1
    <3>3. ASSUME NEW j \in Instances PROVE CursorIsRead(j)'
      BY <1>1, <2>0, <3>1 DEF CursorIsRead
    <3> QED BY <2>0, <3>1, <3>2, <3>3
  <2>2. CASE ReadEndsEmpty(i)
    <3>1. reading' = [reading EXCEPT ![i] = NotReading] /\ appended' = appended
      BY <2>2 DEF ReadEndsEmpty
    <3> QED BY <1>1, <2>0, <3>1 DEF CursorIsRead
  <2>3. CASE AppendToStream(i)
    <3>1. appended' = appended + 1 /\ reading' = reading BY <2>3 DEF AppendToStream
    <3> QED BY <1>1, <2>0, <3>1 DEF CursorIsRead
  <2> QED BY <2>1, <2>2, <2>3
<1>3. LiveTypes' BY <1>1, <1>2 DEF LiveInv, LiveTypes
<1>4. \A j \in Instances : ListensOnce(j)' /\ Sent(j)'
  BY <1>1 DEF LiveInv, ListensOnce, Sent, SentFromStream, SentDirectly
<1> QED BY <1>2, <1>3, <1>4 DEF LiveInv

\* Without Redis an event goes to the local subscribers.
LEMMA PublishLocallyKeeps ==
  ASSUME LiveInv, NEW i \in Instances, PublishLocally(i) PROVE LiveInv'
<1> DEFINE events == <<Local>>
<1>1. /\ Emit(i, SubIds, events)
      /\ UNCHANGED <<published, appended, lastStreamId, reading, controllers, registered,
                     listening>>
  BY DEF PublishLocally, gatewayVars
<1>2. /\ events \in Seq(Message)
      /\ NoneFrom(events, "stream") /\ NoneFrom(events, "direct")
  <2>1. Local \in Message /\ Local.from = "local" BY DEF Local, Message
  <2>2. /\ <<Local>> \in Seq(Message) /\ DOMAIN <<Local>> = {1} /\ <<Local>>[1] = Local
    BY <2>1
  <2> QED BY <2>1, <2>2 DEF NoneFrom
<1> HIDE DEF events
<1>3. /\ delivered' \in [Instances -> [SubIds -> Seq(Message)]]
      /\ \A j \in Instances : j # i => delivered'[j] = delivered[j]
      /\ \A s \in SubIds :
           delivered'[i][s] = IF s \in SubIds /\ s \in controllers[i]
                              THEN delivered[i][s] \o events ELSE delivered[i][s]
  BY <1>1, <1>2, EmitEffect
<1>4. LiveTypes' BY <1>1, <1>3 DEF LiveInv, LiveTypes
<1>5. \A j \in Instances : ListensOnce(j)' /\ CursorIsRead(j)'
  BY <1>1 DEF LiveInv, ListensOnce, CursorIsRead
<1>6. ASSUME NEW s \in SubIds PROVE SentFromStream(i, s)' /\ SentDirectly(i, s)'
  <2>1. /\ SentFromStream(i, s) /\ SentDirectly(i, s) /\ delivered[i][s] \in Seq(Message)
    BY DEF LiveInv, LiveTypes, Sent
  <2>2. CASE s \in controllers[i]
    <3>1. delivered'[i][s] = delivered[i][s] \o events BY <1>3, <2>2
    <3>2. SentFromStream(i, s)'
      BY <1>1, <1>2, <2>1, <2>2, <3>1, OtherOrigin DEF SentFromStream
    <3>3. SentDirectly(i, s)'
      BY <1>1, <1>2, <2>1, <3>1, OtherOrigin DEF SentDirectly
    <3> QED BY <3>2, <3>3
  <2>3. CASE s \notin controllers[i]
    <3>1. delivered'[i][s] = delivered[i][s] BY <1>3, <2>3
    <3> QED BY <1>1, <2>1, <2>3, <3>1 DEF SentFromStream, SentDirectly
  <2> QED BY <2>2, <2>3
<1>7. \A j \in Instances : j # i => (ListensOnce(j) /\ CursorIsRead(j) /\ Sent(j))'
  BY <1>1, <1>3, OthersStay
<1> QED BY <1>4, <1>5, <1>6, <1>7 DEF LiveInv, Sent

\* What the indexer publishes goes to the bus at once.
LEMMA PublishKeeps ==
  ASSUME LiveInv, NEW i \in Instances, PublishToStream(i) PROVE LiveInv'
<1> DEFINE n == published[i]
           events == <<Direct(n + 1)>>
<1>0. Emit(i, BusSubs, events) BY DEF PublishToStream
<1>1. /\ published' = [published EXCEPT ![i] = n + 1]
      /\ UNCHANGED <<appended, lastStreamId, reading, controllers, registered, listening>>
  <2> HIDE DEF events
  <2> QED BY DEF PublishToStream, gatewayVars, LiveInv, LiveTypes
<1>2. n \in Nat BY DEF LiveInv, LiveTypes
<1>3. /\ published' \in [Instances -> Nat] /\ published'[i] = n + 1
      /\ \A j \in Instances : j # i => published'[j] = published[j]
  BY <1>1, <1>2 DEF LiveInv, LiveTypes
<1> HIDE DEF n
<1>4. /\ events \in Seq(Message) /\ Len(events) = 1 /\ NoneFrom(events, "stream")
      /\ \A k \in 1 .. 1 : events[k].from = "direct" /\ events[k].nr = n + k
  <2> DEFINE e == Direct(n + 1)
  <2>1. e \in Message /\ e.from = "direct" /\ e.nr = n + 1 BY <1>2 DEF Direct, Message
  <2> HIDE DEF e
  <2>2. /\ <<e>> \in Seq(Message) /\ Len(<<e>>) = 1 /\ DOMAIN <<e>> = {1} /\ <<e>>[1] = e
    BY <2>1
  <2>3. \A k \in 1 .. 1 : k = 1 OBVIOUS
  <2>4. NoneFrom(<<e>>, "stream") BY <2>1, <2>2 DEF NoneFrom
  <2> QED BY <1>2, <2>1, <2>2, <2>3, <2>4 DEF e
<1> HIDE DEF events
<1>5. BusSubs \in SUBSET SubIds BY LiveAssumption
<1>6. /\ delivered' \in [Instances -> [SubIds -> Seq(Message)]]
      /\ \A j \in Instances : j # i => delivered'[j] = delivered[j]
      /\ \A s \in SubIds :
           delivered'[i][s] = IF s \in BusSubs /\ s \in controllers[i]
                              THEN delivered[i][s] \o events ELSE delivered[i][s]
  BY <1>0, <1>4, <1>5, EmitEffect
<1>7. LiveTypes' BY <1>1, <1>3, <1>6 DEF LiveInv, LiveTypes
<1>8. \A j \in Instances : ListensOnce(j)' /\ CursorIsRead(j)'
  BY <1>1 DEF LiveInv, ListensOnce, CursorIsRead
<1>9. ASSUME NEW s \in SubIds PROVE SentFromStream(i, s)' /\ SentDirectly(i, s)'
  <2>1. /\ SentFromStream(i, s) /\ SentDirectly(i, s) /\ delivered[i][s] \in Seq(Message)
    BY DEF LiveInv, LiveTypes, Sent
  <2>2. CASE s \in BusSubs /\ s \in controllers[i]
    <3>1. delivered'[i][s] = delivered[i][s] \o events BY <1>6, <2>2
    <3>2. SentFromStream(i, s)'
      BY <1>1, <1>4, <2>1, <2>2, <3>1, OtherOrigin DEF SentFromStream
    <3>3. InOrder(delivered[i][s], "direct") /\ EndsAt(delivered[i][s], "direct", n)
      BY <2>1, <2>2 DEF SentDirectly, n
    <3>4. /\ InOrder(delivered'[i][s], "direct")
          /\ EndsAt(delivered'[i][s], "direct", n + 1)
      <4> DEFINE one == 1
                 origin == "direct"
                 got == delivered[i][s]
      <4>1. one \in Nat \ {0} /\ origin \in {"direct", "stream"} OBVIOUS
      <4>2. /\ Len(events) = one
            /\ \A k \in 1 .. one : events[k].from = origin /\ events[k].nr = n + k
        BY <1>4
      <4>3. got \in Seq(Message) /\ InOrder(got, origin) /\ EndsAt(got, origin, n)
        BY <2>1, <3>3
      <4> SUFFICES InOrder(got \o events, origin) /\ EndsAt(got \o events, origin, n + one)
        BY <3>1
      <4> HIDE DEF one, origin, got
      <4> QED BY <1>2, <1>4, <4>1, <4>2, <4>3, BatchContinues
    <3>5. SentDirectly(i, s)' BY <1>3, <2>2, <3>4 DEF SentDirectly
    <3> QED BY <3>2, <3>5
  <2>3. CASE ~(s \in BusSubs /\ s \in controllers[i])
    <3>1. delivered'[i][s] = delivered[i][s] BY <1>6, <2>3
    <3> QED BY <1>1, <2>1, <2>3, <3>1 DEF SentFromStream, SentDirectly
  <2> QED BY <2>2, <2>3
<1>10. \A j \in Instances : j # i => (ListensOnce(j) /\ CursorIsRead(j) /\ Sent(j))'
  BY <1>1, <1>3, <1>6, OthersStay
<1> QED BY <1>7, <1>8, <1>9, <1>10 DEF LiveInv, Sent

\* The reply of XREAD is handed out event by event.
LEMMA ReplyKeeps == ASSUME LiveInv, NEW i \in Instances, HandleReply(i) PROVE LiveInv'
<1> DEFINE r == reading[i]
           last == IF appended - r <= BatchSize THEN appended ELSE r + BatchSize
           d == last - r
           events == [k \in 1 .. d |-> Entry(r + k)]
<1>1. /\ r # NotReading /\ r < appended
      /\ lastStreamId' = [lastStreamId EXCEPT ![i] = last]
      /\ Emit(i, SubIds, events) /\ reading' = [reading EXCEPT ![i] = NotReading]
      /\ UNCHANGED <<published, appended, controllers, registered, listening>>
  BY DEF HandleReply, gatewayVars
<1>2. r \in Nat /\ appended \in Nat /\ BatchSize \in Nat \ {0}
  BY <1>1, LiveAssumption DEF LiveInv, LiveTypes
<1>3. d \in Nat \ {0} /\ last \in Nat /\ r + d = last BY <1>1, <1>2
<1> HIDE DEF r, last, d
<1>4. /\ events \in Seq(Message) /\ Len(events) = d /\ NoneFrom(events, "direct")
      /\ \A k \in 1 .. d : events[k].from = "stream" /\ events[k].nr = r + k
  <2>1. \A k \in 1 .. d : Entry(r + k) \in Message BY <1>2, <1>3 DEF Entry, Message
  <2>2. \A k \in 1 .. d : Entry(r + k).from = "stream" /\ Entry(r + k).nr = r + k BY DEF Entry
  <2>3. events \in [1 .. d -> Message] BY <2>1
  <2>4. events \in Seq(Message) /\ Len(events) = d /\ DOMAIN events = 1 .. d BY <1>3, <2>3
  <2>5. \A k \in 1 .. d : events[k] = Entry(r + k) OBVIOUS
  <2> HIDE DEF events
  <2> QED BY <2>2, <2>4, <2>5 DEF NoneFrom
<1>5. /\ delivered' \in [Instances -> [SubIds -> Seq(Message)]]
      /\ \A j \in Instances : j # i => delivered'[j] = delivered[j]
      /\ \A s \in SubIds :
           delivered'[i][s] = IF s \in SubIds /\ s \in controllers[i]
                              THEN delivered[i][s] \o events ELSE delivered[i][s]
  <2> HIDE DEF events
  <2> QED BY <1>1, <1>4, EmitEffect
<1> HIDE DEF events
<1>6. /\ lastStreamId' \in [Instances -> Nat \union {Latest}]
      /\ reading' \in [Instances -> Nat \union {NotReading}]
      /\ lastStreamId'[i] = last /\ reading'[i] = NotReading
      /\ \A j \in Instances : j # i => /\ lastStreamId'[j] = lastStreamId[j]
                                       /\ reading'[j] = reading[j]
  BY <1>1, <1>3 DEF LiveInv, LiveTypes
<1>7. LiveTypes' BY <1>1, <1>5, <1>6 DEF LiveInv, LiveTypes
<1>8. ASSUME NEW s \in SubIds
      PROVE  /\ InOrder(delivered'[i][s], "stream") /\ SentDirectly(i, s)'
             /\ s \in controllers[i] => EndsAt(delivered'[i][s], "stream", last)
             /\ s \notin controllers[i] => delivered'[i][s] = <<>>
  <2>1. SentFromStream(i, s) /\ SentDirectly(i, s) /\ delivered[i][s] \in Seq(Message)
    BY DEF LiveInv, LiveTypes, Sent
  <2>2. CASE s \in controllers[i]
    <3>1. delivered'[i][s] = delivered[i][s] \o events BY <1>5, <2>2
    <3>2. InOrder(delivered[i][s], "stream") /\ EndsAt(delivered[i][s], "stream", r)
      <4>1. CASE lastStreamId[i] = Latest
        BY <2>1, <4>1 DEF NoneFrom, EndsAt, SentFromStream
      <4>2. CASE lastStreamId[i] # Latest
        BY <1>1, <2>1, <2>2, <4>2 DEF LiveInv, CursorIsRead, SentFromStream, r
      <4> QED BY <4>1, <4>2
    <3>3. SentDirectly(i, s)'
      BY <1>1, <1>4, <2>1, <3>1, OtherOrigin DEF SentDirectly
    <3>4. /\ InOrder(delivered[i][s] \o events, "stream")
          /\ EndsAt(delivered[i][s] \o events, "stream", r + d)
      <4> DEFINE origin == "stream"
                 got == delivered[i][s]
      <4>1. origin \in {"direct", "stream"} OBVIOUS
      <4>2. \A k \in 1 .. d : events[k].from = origin /\ events[k].nr = r + k BY <1>4
      <4>3. got \in Seq(Message) /\ InOrder(got, origin) /\ EndsAt(got, origin, r)
        BY <2>1, <3>2
      <4> SUFFICES InOrder(got \o events, origin) /\ EndsAt(got \o events, origin, r + d)
        OBVIOUS
      <4> HIDE DEF origin, got
      <4> QED BY <1>2, <1>3, <1>4, <4>1, <4>2, <4>3, BatchContinues
    <3> QED BY <1>3, <2>2, <3>1, <3>3, <3>4
  <2>3. CASE s \notin controllers[i]
    <3>1. delivered'[i][s] = delivered[i][s] BY <1>5, <2>3
    <3> QED BY <1>1, <2>1, <2>3, <3>1 DEF SentFromStream, SentDirectly
  <2> QED BY <2>2, <2>3
<1>9. last # Latest BY <1>3 DEF Latest
<1>10. (ListensOnce(i) /\ CursorIsRead(i) /\ Sent(i))'
  <2>1. ListensOnce(i)' BY <1>1 DEF LiveInv, ListensOnce
  <2>2. CursorIsRead(i)' BY <1>6 DEF CursorIsRead
  <2>3. Sent(i)' BY <1>1, <1>6, <1>8, <1>9 DEF Sent, SentFromStream
  <2> QED BY <2>1, <2>2, <2>3
<1>11. ASSUME NEW j \in Instances, j # i
       PROVE  (ListensOnce(j) /\ CursorIsRead(j) /\ Sent(j))'
  BY <1>1, <1>5, <1>6, <1>11, OthersStay
<1> QED BY <1>7, <1>10, <1>11 DEF LiveInv

\* An instance restarts, without its subscribers.
LEMMA RestartKeeps == ASSUME LiveInv, NEW i \in Instances, InstanceRestarts(i) PROVE LiveInv'
<1> DEFINE silent == [s \in SubIds |-> 0]
           nothing == [s \in SubIds |-> <<>>]
<1>1. /\ published' = [published EXCEPT ![i] = 0]
      /\ lastStreamId' = [lastStreamId EXCEPT ![i] = Latest]
      /\ reading' = [reading EXCEPT ![i] = NotReading]
      /\ controllers' = [controllers EXCEPT ![i] = {}]
      /\ registered' = [registered EXCEPT ![i] = {}]
      /\ listening' = [listening EXCEPT ![i] = silent]
      /\ delivered' = [delivered EXCEPT ![i] = nothing]
      /\ appended' = appended
  BY DEF InstanceRestarts
<1>2. /\ silent \in [SubIds -> Int] /\ nothing \in [SubIds -> Seq(Message)]
      /\ \A s \in SubIds : silent[s] = 0 /\ nothing[s] = <<>>
  OBVIOUS
<1> HIDE DEF silent, nothing
<1>3. LiveTypes' BY <1>1, <1>2 DEF LiveInv, LiveTypes
<1>4. /\ lastStreamId'[i] = Latest /\ reading'[i] = NotReading /\ controllers'[i] = {}
      /\ registered'[i] = {} /\ listening'[i] = silent /\ delivered'[i] = nothing
  BY <1>1 DEF LiveInv, LiveTypes
<1>5. (ListensOnce(i) /\ CursorIsRead(i) /\ Sent(i))'
  BY <1>2, <1>4, NothingSent DEF ListensOnce, CursorIsRead, Sent, SentFromStream, SentDirectly
<1>6. ASSUME NEW j \in Instances, j # i
      PROVE  (ListensOnce(j) /\ CursorIsRead(j) /\ Sent(j))'
  BY <1>1, <1>6, OthersStay DEF LiveInv, LiveTypes
<1> QED BY <1>3, <1>5, <1>6 DEF LiveInv

\* What was sent to the subscriptions of a connection, kept of those that go on.
KeptOf(i, subs, sent) ==
  \A s \in SubIds : sent[s] = IF s \in subs THEN delivered[i][s] ELSE <<>>

\* A step of the gateway: the stream is not touched, and what is kept of a subscription
\* that does not end is what it was.
LEMMA GatewayKeeps ==
  ASSUME LiveInv, NEW i \in Instances, UNCHANGED <<published, appended, lastStreamId, reading>>,
         NEW subs \in SUBSET SubIds,
         controllers' = [controllers EXCEPT ![i] = subs],
         registered' = [registered EXCEPT ![i] = subs],
         NEW ears \in [SubIds -> Int], listening' = [listening EXCEPT ![i] = ears],
         \A s \in SubIds : ears[s] = IF s \in subs THEN 1 ELSE 0,
         NEW sent \in [SubIds -> Seq(Message)], delivered' = [delivered EXCEPT ![i] = sent],
         KeptOf(i, subs, sent)
  PROVE  LiveInv'
<1>1. LiveTypes' BY DEF LiveInv, LiveTypes
<1>2. /\ controllers'[i] = subs /\ registered'[i] = subs
      /\ listening'[i] = ears /\ delivered'[i] = sent
  BY DEF LiveInv, LiveTypes
<1>3. ListensOnce(i)' BY <1>2 DEF ListensOnce
<1>4. CursorIsRead(i)' BY DEF LiveInv, CursorIsRead
<1>5. ASSUME NEW s \in SubIds PROVE (SentFromStream(i, s) /\ SentDirectly(i, s))'
  <2>1. SentFromStream(i, s) /\ SentDirectly(i, s) BY DEF LiveInv, Sent
  <2>2. /\ delivered'[i][s] = sent[s] /\ controllers'[i] = subs
        /\ sent[s] = IF s \in subs THEN delivered[i][s] ELSE <<>>
    BY <1>2 DEF KeptOf
  <2>3. s \notin controllers[i] => delivered[i][s] = <<>> BY <2>1 DEF SentFromStream
  <2>4. CASE sent[s] = <<>>
    <3>1. delivered'[i][s] = <<>> BY <2>2, <2>4
    <3>2. SentFromStream(i, s)' BY <3>1, NothingSent DEF SentFromStream
    <3>3. /\ InOrder(<<>>, "direct") /\ NoneFrom(<<>>, "direct")
          /\ EndsAt(<<>>, "direct", published'[i])
      BY NothingSent
    <3>4. SentDirectly(i, s)' BY <3>1, <3>3 DEF SentDirectly
    <3> QED BY <3>2, <3>4
  <2>5. CASE sent[s] # <<>>
    <3>1. s \in subs /\ sent[s] = delivered[i][s] /\ s \in controllers[i] BY <2>2, <2>3, <2>5
    <3> QED BY <2>1, <2>2, <3>1 DEF SentFromStream, SentDirectly
  <2> QED BY <2>4, <2>5
<1>6. ASSUME NEW j \in Instances, j # i
      PROVE  (ListensOnce(j) /\ CursorIsRead(j) /\ Sent(j))'
  BY <1>6, OthersStay DEF LiveInv, LiveTypes
<1> QED BY <1>1, <1>3, <1>4, <1>5, <1>6 DEF LiveInv, Sent

\* What is so of a connection before a step of the gateway.
LEMMA GatewayParts ==
  ASSUME LiveInv, NEW i \in Instances
  PROVE  /\ controllers[i] \in SUBSET SubIds /\ registered[i] = controllers[i]
         /\ listening[i] \in [SubIds -> Int] /\ delivered[i] \in [SubIds -> Seq(Message)]
         /\ \A s \in SubIds : listening[i][s] = IF s \in controllers[i] THEN 1 ELSE 0
         /\ controllers = [controllers EXCEPT ![i] = controllers[i]]
         /\ registered = [registered EXCEPT ![i] = registered[i]]
         /\ listening = [listening EXCEPT ![i] = listening[i]]
         /\ delivered = [delivered EXCEPT ![i] = delivered[i]]
         /\ \A s \in SubIds : s \notin controllers[i] => delivered[i][s] = <<>>
BY DEF LiveInv, LiveTypes, ListensOnce, Sent, SentFromStream

\* The stream opens.
LEMMA OpenKeeps == ASSUME LiveInv, NEW i \in Instances, Open(i) PROVE LiveInv'
<1>1. UNCHANGED <<published, appended, lastStreamId, reading, controllers, registered,
                  listening, delivered>>
  BY DEF Open, streamVars
<1> QED
  BY <1>1 DEF LiveInv, LiveTypes, ListensOnce, CursorIsRead, Sent, SentFromStream, SentDirectly

\* A subscription starts.
LEMMA StartKeeps ==
  ASSUME LiveInv, NEW i \in Instances, NEW s \in SubIds, SubscriptionStart(i, s)
  PROVE  LiveInv'
<1> DEFINE ears == [listening[i] EXCEPT ![s] = @ + 1]
           subs == controllers[i] \union {s}
           sent == delivered[i]
<1>1. /\ s \notin registered[i]
      /\ registered' = [registered EXCEPT ![i] = registered[i] \union {s}]
      /\ controllers' = [controllers EXCEPT ![i] = subs]
      /\ listening' = [listening EXCEPT ![i] = ears]
      /\ UNCHANGED <<published, appended, lastStreamId, reading, delivered>>
  BY DEF SubscriptionStart, streamVars, LiveInv, LiveTypes
<1>2. /\ controllers[i] \in SUBSET SubIds /\ registered[i] = controllers[i]
      /\ listening[i] \in [SubIds -> Int] /\ sent \in [SubIds -> Seq(Message)]
      /\ \A t \in SubIds : listening[i][t] = IF t \in controllers[i] THEN 1 ELSE 0
      /\ delivered = [delivered EXCEPT ![i] = sent]
      /\ \A t \in SubIds : t \notin controllers[i] => sent[t] = <<>>
  BY GatewayParts
<1>3. ears \in [SubIds -> Int] /\ \A t \in SubIds : ears[t] = IF t \in subs THEN 1 ELSE 0
  BY <1>1, <1>2
<1>4. KeptOf(i, subs, sent) BY <1>1, <1>2 DEF KeptOf
<1>5. subs \in SUBSET SubIds BY <1>2
<1>6. registered' = [registered EXCEPT ![i] = subs] BY <1>1, <1>2
<1>7. delivered' = [delivered EXCEPT ![i] = sent] BY <1>1, <1>2
<1> HIDE DEF ears, sent, subs
<1> QED BY ZenonT(60), <1>1, <1>2, <1>3, <1>4, <1>5, <1>6, <1>7, GatewayKeeps

\* Aborting subscriptions that have a controller; nothing more is sent to them.
LEMMA AbortKeeps ==
  ASSUME LiveInv, NEW i \in Instances, NEW gone \in SUBSET controllers[i], Abort(i, gone),
         UNCHANGED <<published, appended, lastStreamId, reading>>,
         NEW sent \in [SubIds -> Seq(Message)], delivered' = [delivered EXCEPT ![i] = sent],
         KeptOf(i, SubIds \ gone, sent)
  PROVE  LiveInv'
<1> DEFINE ears == [s \in SubIds |-> IF s \in gone THEN listening[i][s] - 1
                                     ELSE listening[i][s]]
           subs == controllers[i] \ gone
<1>1. /\ controllers' = [controllers EXCEPT ![i] = subs]
      /\ registered' = [registered EXCEPT ![i] = registered[i] \ gone]
      /\ listening' = [listening EXCEPT ![i] = ears]
  BY DEF Abort, LiveInv, LiveTypes
<1>2. /\ controllers[i] \in SUBSET SubIds /\ registered[i] = controllers[i]
      /\ listening[i] \in [SubIds -> Int]
      /\ \A t \in SubIds : listening[i][t] = IF t \in controllers[i] THEN 1 ELSE 0
      /\ \A t \in SubIds : t \notin controllers[i] => delivered[i][t] = <<>>
  BY GatewayParts
<1>3. ears \in [SubIds -> Int] /\ \A t \in SubIds : ears[t] = IF t \in subs THEN 1 ELSE 0
  BY <1>2
<1>4. KeptOf(i, subs, sent)
  <2>1. ASSUME NEW s \in SubIds PROVE sent[s] = IF s \in subs THEN delivered[i][s] ELSE <<>>
    BY <1>2 DEF KeptOf
  <2> QED BY <2>1 DEF KeptOf
<1>5. subs \in SUBSET SubIds BY <1>2
<1>6. registered' = [registered EXCEPT ![i] = subs] BY <1>1, <1>2
<1> HIDE DEF ears, subs
<1> QED BY ZenonT(60), <1>1, <1>3, <1>4, <1>5, <1>6, GatewayKeeps

\* The stream is opened again.
LEMMA ReconnectKeeps == ASSUME LiveInv, NEW i \in Instances, Reconnect(i) PROVE LiveInv'
<1> DEFINE ears == [s \in SubIds |-> IF s \notin registered[i] THEN listening[i][s]
                                     ELSE IF s \in controllers[i] THEN listening[i][s]
                                     ELSE listening[i][s] + 1]
<1>1. /\ controllers' = [controllers EXCEPT ![i] = registered[i]]
      /\ listening' = [listening EXCEPT ![i] = ears]
      /\ UNCHANGED <<published, appended, lastStreamId, reading, registered, delivered>>
  BY DEF Reconnect, streamVars, LiveInv, LiveTypes
<1>2. /\ controllers[i] \in SUBSET SubIds /\ registered[i] = controllers[i]
      /\ listening[i] \in [SubIds -> Int] /\ delivered[i] \in [SubIds -> Seq(Message)]
      /\ \A t \in SubIds : listening[i][t] = IF t \in controllers[i] THEN 1 ELSE 0
      /\ registered = [registered EXCEPT ![i] = registered[i]]
      /\ delivered = [delivered EXCEPT ![i] = delivered[i]]
      /\ KeptOf(i, controllers[i], delivered[i])
  BY GatewayParts DEF KeptOf
<1>3. ears \in [SubIds -> Int]
      /\ \A t \in SubIds : ears[t] = IF t \in controllers[i] THEN 1 ELSE 0
  BY <1>2
<1> HIDE DEF ears
<1> QED BY <1>1, <1>2, <1>3, GatewayKeeps

\* The first state.
LEMMA LiveStart == LiveInit => LiveInv
<1> SUFFICES ASSUME LiveInit PROVE LiveInv OBVIOUS
<1>1. LiveTypes BY DEF LiveInit, LiveTypes
<1>2. ASSUME NEW i \in Instances PROVE ListensOnce(i) /\ CursorIsRead(i) /\ Sent(i)
  BY NothingSent
     DEF LiveInit, ListensOnce, CursorIsRead, Sent, SentFromStream, SentDirectly
<1> QED BY <1>1, <1>2 DEF LiveInv

\* Every step of the gateway.
LEMMA LiveStep == LiveInv /\ [LiveNext]_liveVars => LiveInv'
<1> SUFFICES ASSUME LiveInv, [LiveNext]_liveVars PROVE LiveInv' OBVIOUS
<1>1. ASSUME NEW i \in Instances, NEW s \in SubIds, SubscriptionStop(i, s) PROVE LiveInv'
  <2> DEFINE sent == [delivered[i] EXCEPT ![s] = <<>>]
  <2>1. /\ {s} \in SUBSET controllers[i] /\ Abort(i, {s})
        /\ UNCHANGED <<published, appended, lastStreamId, reading>>
        /\ delivered' = [delivered EXCEPT ![i] = sent]
    BY <1>1 DEF SubscriptionStop, streamVars
  <2>2. delivered[i] \in [SubIds -> Seq(Message)] BY GatewayParts
  <2>3. sent \in [SubIds -> Seq(Message)] /\ KeptOf(i, SubIds \ {s}, sent)
    BY <2>2 DEF KeptOf
  <2> HIDE DEF sent
  <2> QED BY <2>1, <2>3, AbortKeeps
<1>2. ASSUME NEW i \in Instances, Close(i) PROVE LiveInv'
  <2> DEFINE nothing == [s \in SubIds |-> <<>>]
  <2>1. /\ Abort(i, controllers[i]) /\ UNCHANGED <<published, appended, lastStreamId, reading>>
        /\ delivered' = [delivered EXCEPT ![i] = nothing]
    BY <1>2 DEF Close, streamVars
  <2>2. /\ nothing \in [SubIds -> Seq(Message)]
        /\ KeptOf(i, SubIds \ controllers[i], nothing)
    BY GatewayParts DEF KeptOf
  <2> HIDE DEF nothing
  <2> QED BY <2>1, <2>2, AbortKeeps
<1>3. CASE UNCHANGED liveVars
  BY <1>3 DEF liveVars, streamVars, gatewayVars, LiveInv, LiveTypes, ListensOnce,
              CursorIsRead, Sent, SentFromStream, SentDirectly
<1> QED BY <1>1, <1>2, <1>3, ReaderKeeps, PublishKeeps, PublishLocallyKeeps, ReplyKeeps,
           RestartKeeps, OpenKeeps, StartKeeps, ReconnectKeeps
        DEF LiveNext

\* redisStreams.ts, sse.ts and uwsGateway.ts: a subscription is sent the entries of the
\* stream one after another, none twice and none left out, however reads fail and clients
\* reconnect; and so it is, besides and unless it is to onStreamEvent, with what the indexer
\* beside it puts on the bus.
THEOREM EventsArriveInOrder == LiveSpec => []StreamArrivesInOrder
<1>1. LiveInv => StreamArrivesInOrder
  BY DEF LiveInv, Sent, SentFromStream, SentDirectly, StreamArrivesInOrder
<1> QED BY <1>1, LiveStart, LiveStep, PTL DEF LiveSpec

-----------------------------------------------------------------------------
(* The count-min sketch and the TTLs computed from it.                     *)

Rows == 1 .. Depth
Cell(k, row) == table[row][Column[k][row]]

SketchTypes ==
  /\ table \in [Rows -> [0 .. Width - 1 -> Nat]]
  /\ totalIncrements \in Nat /\ maxEstimate \in Nat
  /\ accesses \in [CacheKeys -> Nat]

\* Every counter of a key has seen its accesses, and none more than there were.
CountersCover ==
  /\ \A k \in CacheKeys, row \in Rows : accesses[k] <= Cell(k, row)
  /\ \A row \in Rows, col \in 0 .. Width - 1 : table[row][col] <= totalIncrements

SketchInv == SketchTypes /\ CountersCover

\* The column of a key is one of the sketch.
LEMMA ColumnType ==
  ASSUME NEW k \in CacheKeys, NEW row \in Rows
  PROVE  Column[k][row] \in 0 .. Width - 1
BY EvictionAssumption DEF Rows

\* Its counter is a number.
LEMMA CellType ==
  ASSUME SketchTypes, NEW k \in CacheKeys, NEW row \in Rows
  PROVE  Cell(k, row) \in Nat
<1>1. Column[k][row] \in 0 .. Width - 1 BY ColumnType
<1> QED BY <1>1 DEF SketchTypes, Cell

\* The least member of a set of numbers.
LEMMA MinLaw ==
  ASSUME NEW S \in SUBSET Nat, S # {}
  PROVE  Min(S) \in S /\ \A y \in S : Min(S) <= y
BY LeastExists DEF Min

\* The larger of two numbers.
LEMMA MaxLaw ==
  ASSUME NEW a \in Nat, NEW b \in Nat
  PROVE  /\ Max({a, b}) \in {a, b} /\ Max({a, b}) \in Nat
         /\ a <= Max({a, b}) /\ b <= Max({a, b})
<1>1. \E x \in {a, b} : \A y \in {a, b} : x >= y
  <2>1. CASE a >= b BY <2>1
  <2>2. CASE ~(a >= b) BY <2>2
  <2> QED BY <2>1, <2>2
<1>2. Max({a, b}) \in {a, b} /\ \A y \in {a, b} : Max({a, b}) >= y BY <1>1 DEF Max
<1> QED BY <1>2

\* The estimate is one of the key's counters, and the least.
LEMMA EstimateLaw ==
  ASSUME SketchTypes, NEW k \in CacheKeys
  PROVE  /\ Estimate(k) \in Nat
         /\ \E row \in Rows : Estimate(k) = Cell(k, row)
         /\ \A row \in Rows : Estimate(k) <= Cell(k, row)
<1> DEFINE S == {Cell(k, row) : row \in Rows}
<1>1. S \in SUBSET Nat BY CellType
<1>2. 1 \in Rows BY EvictionAssumption DEF Rows
<1>3. S # {} BY <1>2
<1>4. Estimate(k) = Min(S) BY DEF Estimate, Cell, Rows
<1>5. Estimate(k) \in S /\ \A y \in S : Estimate(k) <= y
  <2> HIDE DEF S
  <2> QED BY <1>1, <1>3, <1>4, MinLaw
<1> QED BY <1>1, <1>5

\* Quotients: between what their numerators are between.
LEMMA Quotient ==
  ASSUME NEW x \in Nat, NEW d \in Nat \ {0}
  PROVE  /\ x \div d \in Nat
         /\ \A q \in Nat : q * d <= x => q <= x \div d
         /\ \A q \in Nat : x < (q + 1) * d => x \div d <= q
<1> DEFINE p == x \div d
<1>1. p \in Nat /\ x = d * p + (x % d) /\ x % d \in 0 .. d - 1 OBVIOUS
<1> HIDE DEF p
<1>2. d * p \in Nat /\ d * p <= x /\ x < d * p + d BY <1>1
<1>3. ASSUME NEW q \in Nat, q * d <= x PROVE q <= p
  <2>1. CASE ~(q <= p)
    <3>1. p + 1 <= q BY <1>1, <2>1
    <3>2. (p + 1) * d <= q * d BY <1>1, <3>1
    <3>3. (p + 1) * d = d * p + d BY <1>1
    <3>4. q * d \in Nat OBVIOUS
    <3> QED BY <1>2, <1>3, <3>2, <3>3, <3>4
  <2> QED BY <2>1
<1>4. ASSUME NEW q \in Nat, x < (q + 1) * d PROVE p <= q
  <2>1. CASE ~(p <= q)
    <3>1. q + 1 <= p BY <1>1, <2>1
    <3>2. (q + 1) * d <= p * d BY <1>1, <3>1
    <3>3. p * d = d * p /\ (q + 1) * d \in Nat BY <1>1
    <3> QED BY <1>2, <1>4, <3>2, <3>3
  <2> QED BY <2>1
<1> QED BY <1>1, <1>3, <1>4 DEF p

\* Quotients keep the order of their numerators.
LEMMA QuotientOrder ==
  ASSUME NEW x \in Nat, NEW y \in Nat, NEW d \in Nat \ {0}, x <= y
  PROVE  x \div d <= y \div d
<1> DEFINE p == x \div d
<1>1. p \in Nat /\ x = d * p + (x % d) /\ x % d \in 0 .. d - 1 OBVIOUS
<1> HIDE DEF p
<1>2. d * p \in Nat /\ d * p = p * d BY <1>1
<1>3. p * d <= y BY <1>1, <1>2
<1>4. p <= y \div d BY <1>1, <1>3, Quotient
<1> QED BY <1>4 DEF p

\* A TTL lies between the base and its multiple, is the multiple for the key read most,
\* and grows with the estimate.
LEMMA TTLBounds ==
  ASSUME NEW e \in Nat, NEW g \in Nat, e <= g, NEW base \in Nat
  PROVE  /\ TTLFor(e, g, base) \in Nat
         /\ base <= TTLFor(e, g, base) /\ TTLFor(e, g, base) <= MaxMultiplier * base
         /\ e = g /\ e # 0 => TTLFor(e, g, base) = MaxMultiplier * base
<1>1. MaxMultiplier \in Nat \ {0} BY EvictionAssumption
<1>2. MaxMultiplier * base \in Nat /\ base <= MaxMultiplier * base BY <1>1
<1>3. CASE g = 0 \/ e = 0 BY <1>2, <1>3 DEF TTLFor
<1>4. CASE g # 0 /\ e # 0
  <2> DEFINE more == MaxMultiplier - 1
             x == 2 * base * (g + e * more) + g
             d == 2 * g
  <2>1. TTLFor(e, g, base) = x \div d BY <1>4 DEF TTLFor
  <2>2. more \in Nat /\ MaxMultiplier = more + 1 /\ d \in Nat \ {0} BY <1>1, <1>4
  <2>3. e * more \in Nat /\ g * more \in Nat /\ e * more <= g * more BY <2>2
  <2>4. /\ base * g \in Nat /\ base * (e * more) \in Nat /\ base * (g * more) \in Nat
        /\ base * (e * more) <= base * (g * more)
    BY <2>3
  <2>5. 2 * base * (g + e * more) = 2 * (base * g) + 2 * (base * (e * more)) BY <2>3
  <2>6. x \in Nat /\ x = 2 * (base * g) + 2 * (base * (e * more)) + g BY <2>4, <2>5
  <2>7. base * d = 2 * (base * g) OBVIOUS
  <2>8. MaxMultiplier * base * d = 2 * (base * g) + 2 * (base * (g * more))
    <3>1. \A m \in Nat : (m + 1) * base * (2 * g) = 2 * (base * g) + 2 * (base * (g * m))
      <4> SUFFICES ASSUME NEW m \in Nat
                   PROVE  (m + 1) * base * (2 * g) = 2 * (base * g) + 2 * (base * (g * m))
        OBVIOUS
      <4>1. (m + 1) * base = base * m + base /\ base * m \in Nat OBVIOUS
      <4>2. \A a \in Nat : (a + base) * (2 * g) = 2 * (base * g) + 2 * (a * g) OBVIOUS
      <4>3. (base * m) * g = base * (g * m) OBVIOUS
      <4> QED BY <4>1, <4>2, <4>3
    <3> QED BY <2>2, <3>1
  <2>9. (MaxMultiplier * base + 1) * d = MaxMultiplier * base * d + d BY <1>2, <2>2
  <2> HIDE DEF more, x, d
  <2>10. base * d <= x BY <2>4, <2>6, <2>7
  <2>11. x < (MaxMultiplier * base + 1) * d
    <3>1. d = 2 * g BY DEF d
    <3> QED BY <1>4, <2>4, <2>6, <2>8, <2>9, <3>1
  <2>12. /\ x \div d \in Nat /\ base <= x \div d /\ x \div d <= MaxMultiplier * base
    BY <1>2, <2>2, <2>6, <2>10, <2>11, Quotient
  <2>13. ASSUME e = g PROVE MaxMultiplier * base <= x \div d
    <3>1. MaxMultiplier * base * d <= x BY <2>4, <2>6, <2>8, <2>13
    <3> QED BY <1>2, <2>2, <2>6, <3>1, Quotient
  <2> QED BY <1>2, <2>1, <2>12, <2>13
<1> QED BY <1>3, <1>4

\* A key that is estimated higher lives no shorter.
LEMMA TTLGrows ==
  ASSUME NEW e \in Nat, NEW f \in Nat, NEW g \in Nat, e <= f, f <= g, NEW base \in Nat
  PROVE  TTLFor(e, g, base) <= TTLFor(f, g, base)
<1>1. MaxMultiplier \in Nat \ {0} BY EvictionAssumption
<1>2. CASE g = 0 \/ e = 0
  <2>1. TTLFor(e, g, base) = base BY <1>2 DEF TTLFor
  <2> QED BY <2>1, TTLBounds
<1>3. CASE g # 0 /\ e # 0
  <2> DEFINE more == MaxMultiplier - 1
             num(h) == 2 * base * (g + h * more) + g
  <2>1. f # 0 BY <1>3
  <2>2. TTLFor(e, g, base) = num(e) \div (2 * g) /\ TTLFor(f, g, base) = num(f) \div (2 * g)
    BY <1>3, <2>1 DEF TTLFor
  <2>3. more \in Nat BY <1>1
  <2> HIDE DEF more
  <2>4. e * more \in Nat /\ f * more \in Nat /\ e * more <= f * more BY <2>3
  <2>5. \A a, b \in Nat : a <= b => 2 * base * (g + a) <= 2 * base * (g + b)
    <3> SUFFICES ASSUME NEW a \in Nat, NEW b \in Nat, a <= b
                 PROVE  2 * base * (g + a) <= 2 * base * (g + b)
      OBVIOUS
    <3>1. 2 * base \in Nat /\ g + a \in Nat /\ g + b \in Nat /\ g + a <= g + b OBVIOUS
    <3> QED BY <3>1
  <2>6. \A a \in Nat : 2 * base * (g + a) \in Nat OBVIOUS
  <2>7. num(e) \in Nat /\ num(f) \in Nat /\ num(e) <= num(f) BY <2>4, <2>5, <2>6
  <2>8. 2 * g \in Nat \ {0} BY <1>3
  <2> HIDE DEF num
  <2> QED BY <2>2, <2>7, <2>8, QuotientOrder
<1> QED BY <1>2, <1>3

\* A counter that one more access of k raises, or does not touch.
LEMMA CountKeeps ==
  ASSUME SketchInv, NEW k \in CacheKeys, Count(k), maxEstimate' \in Nat
  PROVE  SketchInv'
<1>1. /\ table \in [Rows -> [0 .. Width - 1 -> Nat]] /\ totalIncrements \in Nat
      /\ accesses \in [CacheKeys -> Nat]
  BY DEF SketchInv, SketchTypes
<1>2. /\ totalIncrements' = totalIncrements + 1
      /\ accesses' = [accesses EXCEPT ![k] = @ + 1]
      /\ table' = [row \in Rows |-> [table[row] EXCEPT ![Column[k][row]] = @ + 1]]
  BY DEF Count, Incremented, Rows
<1>3. ASSUME NEW row \in Rows
      PROVE  /\ table'[row] \in [0 .. Width - 1 -> Nat]
             /\ \A col \in 0 .. Width - 1 :
                  table'[row][col] = IF col = Column[k][row] THEN table[row][col] + 1
                                     ELSE table[row][col]
  <2> DEFINE c == Column[k][row]
             t == table[row]
  <2>1. c \in 0 .. Width - 1 /\ t \in [0 .. Width - 1 -> Nat] BY <1>1, ColumnType
  <2>2. table'[row] = [t EXCEPT ![c] = t[c] + 1] BY <1>2
  <2> HIDE DEF c, t
  <2>3. /\ table'[row] \in [0 .. Width - 1 -> Nat]
        /\ \A col \in 0 .. Width - 1 :
             table'[row][col] = IF col = c THEN t[col] + 1 ELSE t[col]
    BY <2>1, <2>2
  <2> QED BY <2>3 DEF c, t
<1>4. table' \in [Rows -> [0 .. Width - 1 -> Nat]]
  <2>1. table' = [row \in Rows |-> table'[row]] BY <1>2
  <2> QED BY <1>3, <2>1
<1>5. SketchTypes' BY <1>1, <1>2, <1>4 DEF SketchTypes
<1>6. ASSUME NEW l \in CacheKeys, NEW row \in Rows PROVE accesses'[l] <= Cell(l, row)'
  <2>1. accesses[l] <= Cell(l, row) /\ Cell(l, row) \in Nat /\ accesses[l] \in Nat
    BY <1>1, CellType DEF SketchInv, CountersCover
  <2>2. Cell(l, row)' = IF Column[l][row] = Column[k][row] THEN Cell(l, row) + 1
                        ELSE Cell(l, row)
    BY <1>3, ColumnType DEF Cell
  <2>3. accesses'[l] = IF l = k THEN accesses[l] + 1 ELSE accesses[l] BY <1>1, <1>2
  <2> QED BY <2>1, <2>2, <2>3
<1>7. ASSUME NEW row \in Rows, NEW col \in 0 .. Width - 1
      PROVE  table'[row][col] <= totalIncrements'
  <2>1. table[row][col] <= totalIncrements /\ table[row][col] \in Nat
    BY <1>1 DEF SketchInv, CountersCover
  <2> QED BY <1>1, <1>2, <1>3, <2>1
<1>8. CountersCover' BY <1>6, <1>7 DEF CountersCover
<1> QED BY <1>5, <1>8 DEF SketchInv

\* Decaying keeps the order.
LEMMA DecayOrder ==
  /\ \A n \in Nat : Decayed(n) \in Nat
  /\ \A m, n \in Nat : m <= n => Decayed(m) <= Decayed(n)
<1>1. \A n \in Nat : (3 * n) \div 4 \in Nat OBVIOUS
<1>2. \A m, n \in Nat : m <= n => (3 * m) \div 4 <= (3 * n) \div 4 OBVIOUS
<1> QED BY <1>1, <1>2 DEF Decayed

\* All counters are halved.
LEMMA DecayKeeps == ASSUME SketchInv, ForceDecay PROVE SketchInv'
<1>1. /\ table \in [Rows -> [0 .. Width - 1 -> Nat]] /\ totalIncrements \in Nat
      /\ accesses \in [CacheKeys -> Nat] /\ maxEstimate \in Nat
  BY DEF SketchInv, SketchTypes
<1>2. /\ table' = [row \in Rows |-> [col \in 0 .. Width - 1 |-> Decayed(table[row][col])]]
      /\ totalIncrements' = Decayed(totalIncrements)
      /\ maxEstimate' = Decayed(maxEstimate)
      /\ accesses' = [k \in CacheKeys |-> Decayed(accesses[k])]
  BY DEF ForceDecay, Rows
<1>3. SketchTypes' BY <1>1, <1>2, DecayOrder DEF SketchTypes
<1>4. ASSUME NEW l \in CacheKeys, NEW row \in Rows PROVE accesses'[l] <= Cell(l, row)'
  <2>1. accesses[l] <= Cell(l, row) /\ Cell(l, row) \in Nat /\ accesses[l] \in Nat
    BY <1>1, CellType DEF SketchInv, CountersCover
  <2>2. Cell(l, row)' = Decayed(Cell(l, row)) BY <1>2, ColumnType DEF Cell
  <2> QED BY <1>2, <2>1, <2>2, DecayOrder
<1>5. ASSUME NEW row \in Rows, NEW col \in 0 .. Width - 1
      PROVE  table'[row][col] <= totalIncrements'
  <2>1. table[row][col] <= totalIncrements /\ table[row][col] \in Nat
    BY <1>1 DEF SketchInv, CountersCover
  <2> QED BY <1>1, <1>2, <2>1, DecayOrder
<1>6. CountersCover' BY <1>4, <1>5 DEF CountersCover
<1> QED BY <1>3, <1>6 DEF SketchInv

\* The first state.
LEMMA SketchStart == EvictionInit => SketchInv
<1> SUFFICES ASSUME EvictionInit PROVE SketchInv OBVIOUS
<1>1. SketchTypes BY DEF EvictionInit, SketchTypes, Rows
<1>2. \A row \in Rows, col \in 0 .. Width - 1 : table[row][col] = 0
  BY DEF EvictionInit, Rows
<1>3. \A k \in CacheKeys, row \in Rows : accesses[k] = 0 /\ Cell(k, row) = 0
  BY <1>2, ColumnType DEF EvictionInit, Cell
<1>4. totalIncrements = 0 BY DEF EvictionInit
<1>5. CountersCover BY <1>2, <1>3, <1>4 DEF CountersCover
<1> QED BY <1>1, <1>5 DEF SketchInv

\* Every step of the sketch.
LEMMA SketchStep == SketchInv /\ [EvictionNext]_evictionVars => SketchInv'
<1> SUFFICES ASSUME SketchInv, [EvictionNext]_evictionVars PROVE SketchInv' OBVIOUS
<1>0. SketchTypes /\ maxEstimate \in Nat BY DEF SketchInv, SketchTypes
<1>1. ASSUME NEW k \in CacheKeys PROVE Max({maxEstimate, Estimate(k)}) \in Nat
  BY <1>0, EstimateLaw, MaxLaw
<1>2. ASSUME NEW k \in CacheKeys, RecordAccess(k) PROVE SketchInv'
  BY <1>0, <1>2, CountKeeps DEF RecordAccess
<1>3. ASSUME NEW k \in CacheKeys, RecordAndGetTTL(k) PROVE SketchInv'
  BY <1>1, <1>3, CountKeeps DEF RecordAndGetTTL
<1>4. ASSUME NEW k \in CacheKeys, GetAdaptiveTTL(k) PROVE SketchInv'
  BY <1>1, <1>4 DEF GetAdaptiveTTL, SketchInv, SketchTypes, CountersCover, Cell
<1>5. CASE UNCHANGED evictionVars
  BY <1>5 DEF evictionVars, SketchInv, SketchTypes, CountersCover, Cell
<1> QED BY <1>2, <1>3, <1>4, <1>5, DecayKeeps DEF EvictionNext

\* countMinSketch.ts and probabilisticEviction.ts: the estimate never falls below the
\* accesses nor rises above their number, whatever keys collide and however counters
\* decay; and TTLs keep the order of the estimates, between the base and its multiple.
THEOREM EstimatesCover == EvictionSpec => []EstimatesAreUpperBounds
<1>1. ASSUME SketchInv PROVE EstimatesAreUpperBounds
  <2>0. SketchTypes /\ maxEstimate \in Nat BY <1>1 DEF SketchInv, SketchTypes
  <2>1. ASSUME NEW k \in CacheKeys
        PROVE  accesses[k] <= Estimate(k) /\ Estimate(k) <= totalIncrements
    <3>1. PICK row \in Rows : Estimate(k) = Cell(k, row) BY <2>0, EstimateLaw
    <3>2. accesses[k] <= Cell(k, row) BY <1>1 DEF SketchInv, CountersCover
    <3>3. Cell(k, row) <= totalIncrements
      BY <1>1, ColumnType DEF SketchInv, CountersCover, Cell
    <3> QED BY <3>1, <3>2, <3>3
  <2>2. ASSUME NEW k \in CacheKeys, NEW base \in BaseTTLs
        PROVE  /\ TTLNow(k, base) \in base .. MaxMultiplier * base
               /\ \A other \in CacheKeys :
                    Estimate(other) <= Estimate(k) => TTLNow(other, base) <= TTLNow(k, base)
    <3> DEFINE great(l) == Max({maxEstimate, Estimate(l)})
    <3>1. base \in Nat /\ MaxMultiplier \in Nat BY EvictionAssumption
    <3>2. ASSUME NEW l \in CacheKeys
          PROVE  /\ Estimate(l) \in Nat /\ great(l) \in Nat /\ Estimate(l) <= great(l)
                 /\ maxEstimate <= great(l) /\ great(l) \in {maxEstimate, Estimate(l)}
                 /\ TTLNow(l, base) = TTLFor(Estimate(l), great(l), base)
      BY <2>0, EstimateLaw, MaxLaw DEF TTLNow
    <3> HIDE DEF great
    <3>3. ASSUME NEW l \in CacheKeys
          PROVE  /\ TTLNow(l, base) \in Nat
                 /\ base <= TTLNow(l, base) /\ TTLNow(l, base) <= MaxMultiplier * base
      BY <3>1, <3>2, TTLBounds
    <3>4. TTLNow(k, base) \in base .. MaxMultiplier * base BY <3>1, <3>3
    <3>5. ASSUME NEW other \in CacheKeys, Estimate(other) <= Estimate(k)
          PROVE  TTLNow(other, base) <= TTLNow(k, base)
      <4>1. CASE great(k) = maxEstimate
        <5>1. great(other) = maxEstimate
          <6>1. Estimate(other) <= maxEstimate BY <3>2, <3>5, <4>1
          <6> QED BY <2>0, <3>2, <6>1
        <5> QED BY <3>1, <3>2, <3>5, <4>1, <5>1, TTLGrows
      <4>2. CASE great(k) = Estimate(k) /\ Estimate(k) # 0
        <5>1. TTLNow(k, base) = MaxMultiplier * base BY <3>1, <3>2, <4>2, TTLBounds
        <5> QED BY <3>3, <5>1
      <4>3. CASE great(k) = Estimate(k) /\ Estimate(k) = 0
        <5>1. maxEstimate = 0 /\ great(k) = maxEstimate BY <2>0, <3>2, <4>3
        <5> QED BY <4>1, <5>1
      <4> QED BY <3>2, <4>1, <4>2, <4>3
    <3> QED BY <3>4, <3>5
  <2> QED BY <2>1, <2>2 DEF EstimatesAreUpperBounds
<1>2. SketchInv => EstimatesAreUpperBounds BY <1>1
<1> QED BY <1>2, SketchStart, SketchStep, PTL DEF EvictionSpec

-----------------------------------------------------------------------------
(* The indexer: what the cursor says, as long as no page cuts a ledger.    *)

\* A page ends with a ledger when ledgers have one event, or when all fits in one page.
NoLedgerIsCut ==
  /\ {MaxLedger, LedgerSize} \subseteq Nat
  /\ LedgerSize <= 1 \/ MaxLedger * LedgerSize <= PageLimit

SyncState ==
  [at : {"idle", "detect", "fetch", "flush", "cursor"}, from : Nat,
   page : SUBSET (Nat \X Nat), top : Nat]

Event == [ledger : Nat \ {0}, decodes : BOOLEAN, alive : BOOLEAN, late : BOOLEAN]

IndexerTypes ==
  /\ chain \in Seq(Event) /\ tip \in Nat
  /\ cursor \in Nat /\ txRows \subseteq Nat \X Nat
  /\ sync \in [Syncs -> SyncState]
  /\ checkpoints \subseteq Nat

\* The events on the chain up to a ledger.
AliveUpTo(l) == {n \in DOMAIN chain : chain[n].alive /\ chain[n].ledger <= l}

\* What is on the chain is in the order of its ledgers, and short enough for pages not
\* to cut them.
ChainIsWhole ==
  /\ \A m, n \in DOMAIN chain :
       chain[m].alive /\ chain[n].alive /\ m <= n => chain[m].ledger <= chain[n].ledger
  /\ \A n \in DOMAIN chain : chain[n].alive => chain[n].ledger <= tip
  /\ \/ /\ LedgerSize <= 1
        /\ \A m, n \in DOMAIN chain :
             chain[m].alive /\ chain[n].alive /\ m < n => chain[m].ledger < chain[n].ledger
     \/ LedgerSize > 1 /\ Cardinality(AliveUpTo(tip)) <= PageLimit
  /\ tip <= MaxLedger
  /\ \A l \in 0 .. tip : Cardinality(AliveUpTo(l)) <= l * LedgerSize

Within(rows, n) == \E i \in 0 .. PageLimit : <<n, i>> \in rows

\* The rows hold every event of the chain up to a ledger that did not come too late.
Due(n, ledger) ==
  chain[n].alive /\ ~chain[n].late /\ chain[n].decodes /\ chain[n].ledger <= ledger
Indexed(ledger, rows) == \A n \in DOMAIN chain : Due(n, ledger) => Within(rows, n)

\* What every ledger says that is, was or will be the cursor.
LedgersAreIndexed ==
  /\ Indexed(cursor, txRows)
  /\ \A l \in checkpoints : Indexed(l, txRows)
  /\ \A s \in Syncs :
       /\ sync[s].at \in {"detect", "fetch"} => Indexed(sync[s].from, txRows)
       /\ sync[s].at = "flush" => Indexed(sync[s].top, txRows \union sync[s].page)
       /\ sync[s].at = "cursor" => Indexed(sync[s].top, txRows)

IndexerInv == IndexerTypes /\ ChainIsWhole /\ LedgersAreIndexed

\* The fields of a sync.
LEMMA SyncParts ==
  ASSUME IndexerTypes, NEW s \in Syncs
  PROVE  /\ sync[s].at \in {"idle", "detect", "fetch", "flush", "cursor"}
         /\ sync[s].from \in Nat /\ sync[s].top \in Nat /\ sync[s].page \subseteq Nat \X Nat
BY DEF IndexerTypes, SyncState

\* The chain is a sequence of events.
LEMMA ChainParts ==
  ASSUME IndexerTypes
  PROVE  /\ DOMAIN chain = 1 .. Len(chain) /\ Len(chain) \in Nat
         /\ \A n \in DOMAIN chain :
              chain[n].ledger \in Nat \ {0} /\ chain[n].alive \in BOOLEAN
<1>1. chain \in Seq(Event) BY DEF IndexerTypes
<1>2. DOMAIN chain = 1 .. Len(chain) /\ Len(chain) \in Nat BY <1>1
<1>3. \A n \in DOMAIN chain : chain[n] \in Event BY <1>1
<1> QED BY <1>2, <1>3 DEF Event

\* There are finitely many events on the chain.
LEMMA AliveIsFinite ==
  ASSUME IndexerTypes, NEW l
  PROVE  IsFiniteSet(AliveUpTo(l)) /\ Cardinality(AliveUpTo(l)) \in Nat
<1>1. DOMAIN chain = 1 .. Len(chain) /\ Len(chain) \in Nat BY ChainParts
<1>2. IsFiniteSet(1 .. Len(chain)) BY <1>1, FS_Interval
<1>3. AliveUpTo(l) \in SUBSET (1 .. Len(chain)) BY <1>1 DEF AliveUpTo
<1>4. IsFiniteSet(AliveUpTo(l)) BY <1>2, <1>3, FS_Subset
<1> QED BY <1>4, FS_CardinalityType

\* More rows, or an earlier ledger, and the chain as it is.
LEMMA IndexedGrows ==
  ASSUME NEW l \in Nat, NEW rows, Indexed(l, rows), NEW more, rows \subseteq more,
         NEW k \in Nat, k <= l, chain' = chain, IndexerTypes
  PROVE  Indexed(k, more) /\ Indexed(k, more)'
<1>1. \A n \in DOMAIN chain : chain[n].ledger \in Nat BY ChainParts
<1>2. \A n : Within(rows, n) => Within(more, n) BY DEF Within
<1>3. Indexed(k, more) BY <1>1, <1>2 DEF Indexed, Due
<1> QED BY <1>3 DEF Indexed, Within, Due

\* A step of one sync, on the chain as it is.
LEMMA SyncMoves ==
  ASSUME IndexerInv, UNCHANGED ledgers, txRows \subseteq txRows', txRows' \subseteq Nat \X Nat,
         cursor' \in Nat, Indexed(cursor', txRows'),
         checkpoints' \subseteq Nat, \A l \in checkpoints' : Indexed(l, txRows'),
         NEW s \in Syncs, NEW next \in SyncState, sync' = [sync EXCEPT ![s] = next],
         next.at \in {"detect", "fetch"} => Indexed(next.from, txRows'),
         next.at = "flush" => Indexed(next.top, txRows' \union next.page),
         next.at = "cursor" => Indexed(next.top, txRows')
  PROVE  IndexerInv'
<1>1. IndexerTypes /\ ChainIsWhole BY DEF IndexerInv
<1>2. /\ sync' \in [Syncs -> SyncState] /\ sync'[s] = next
      /\ \A t \in Syncs : t # s => sync'[t] = sync[t]
  BY <1>1 DEF IndexerTypes
<1>4. chain' = chain /\ tip' = tip BY DEF ledgers
<1>3. IndexerTypes' BY <1>1, <1>2, <1>4 DEF IndexerTypes
<1>5. ChainIsWhole' BY <1>1, <1>4 DEF ChainIsWhole, AliveUpTo
<1>6. \A l, rows : Indexed(l, rows)' <=> Indexed(l, rows') BY <1>4 DEF Indexed, Within, Due
<1>7. ASSUME NEW t \in Syncs
      PROVE  /\ sync'[t].at \in {"detect", "fetch"} => Indexed(sync'[t].from, txRows')
             /\ sync'[t].at = "flush" => Indexed(sync'[t].top, txRows' \union sync'[t].page)
             /\ sync'[t].at = "cursor" => Indexed(sync'[t].top, txRows')
  <2>1. CASE t = s BY <1>2, <2>1
  <2>2. CASE t # s
    <3>1. sync'[t] = sync[t] BY <1>2, <2>2
    <3>2. /\ sync[t].at \in {"detect", "fetch"} => Indexed(sync[t].from, txRows)
          /\ sync[t].at = "flush" => Indexed(sync[t].top, txRows \union sync[t].page)
          /\ sync[t].at = "cursor" => Indexed(sync[t].top, txRows)
      BY DEF IndexerInv, LedgersAreIndexed
    <3>3. sync[t].from \in Nat /\ sync[t].top \in Nat BY <1>1, SyncParts
    <3>4. \A l \in Nat : l <= l OBVIOUS
    <3>5. sync[t].at \in {"detect", "fetch"} => Indexed(sync[t].from, txRows')
      BY <1>1, <1>4, <3>2, <3>3, <3>4, IndexedGrows
    <3>6. sync[t].at = "cursor" => Indexed(sync[t].top, txRows')
      BY <1>1, <1>4, <3>2, <3>3, <3>4, IndexedGrows
    <3>7. txRows \union sync[t].page \subseteq txRows' \union sync[t].page OBVIOUS
    <3>8. sync[t].at = "flush" => Indexed(sync[t].top, txRows' \union sync[t].page)
      BY <1>1, <1>4, <3>2, <3>3, <3>4, <3>7, IndexedGrows
    <3> QED BY <3>1, <3>5, <3>6, <3>8
  <2> QED BY <2>1, <2>2
<1>8. LedgersAreIndexed'
  <2>1. Indexed(cursor, txRows)' BY <1>4 DEF Indexed, Within, Due
  <2>2. \A l \in checkpoints' : Indexed(l, txRows)' BY <1>4 DEF Indexed, Within, Due
  <2>3. ASSUME NEW t \in Syncs
        PROVE  (/\ sync[t].at \in {"detect", "fetch"} => Indexed(sync[t].from, txRows)
                /\ sync[t].at = "flush" => Indexed(sync[t].top, txRows \union sync[t].page)
                /\ sync[t].at = "cursor" => Indexed(sync[t].top, txRows))'
    BY <1>4, <1>7 DEF Indexed, Within, Due
  <2> QED BY <2>1, <2>2, <2>3 DEF LedgersAreIndexed
<1> QED BY <1>3, <1>5, <1>8 DEF IndexerInv

\* The events that a page may be taken from.
After(from, to) ==
  {n \in DOMAIN chain : chain[n].alive /\ from < chain[n].ledger /\ chain[n].ledger <= to}

\* How many of them there are up to one of them.
LEMMA AfterCounts ==
  ASSUME IndexerTypes, NEW from \in Nat, NEW to \in Nat
  PROVE  /\ IsFiniteSet(After(from, to))
         /\ Cardinality(After(from, to)) \in 0 .. Len(chain)
         /\ After(from, to) \in SUBSET (1 .. Len(chain))
<1>1. DOMAIN chain = 1 .. Len(chain) /\ Len(chain) \in Nat BY ChainParts
<1>2. After(from, to) \in SUBSET (1 .. Len(chain)) BY <1>1 DEF After
<1>3. IsFiniteSet(1 .. Len(chain)) /\ Cardinality(1 .. Len(chain)) = Len(chain)
  <2>1. IsFiniteSet(1 .. Len(chain))
        /\ Cardinality(1 .. Len(chain)) = IF 1 > Len(chain) THEN 0 ELSE Len(chain) - 1 + 1
    BY <1>1, FS_Interval
  <2> QED BY <1>1, <2>1
<1>4. IsFiniteSet(After(from, to)) /\ Cardinality(After(from, to)) <= Len(chain)
  BY <1>2, <1>3, FS_Subset
<1>5. Cardinality(After(from, to)) \in Nat BY <1>4, FS_CardinalityType
<1> QED BY <1>1, <1>2, <1>4, <1>5

\* A page counts no more events before one of its own than the limit.
LEMMA PlacesFit ==
  ASSUME IndexerTypes, NEW from \in Nat, NEW to \in Nat, NEW n \in Page(from, to)
  PROVE  Cardinality({m \in Page(from, to) : m < n}) \in 0 .. PageLimit
<1> DEFINE all == After(from, to)
           upTo == {m \in all : m <= n}
           before == {m \in Page(from, to) : m < n}
<1>1. IsFiniteSet(all) /\ all \in SUBSET (1 .. Len(chain)) /\ Len(chain) \in Nat
  BY AfterCounts, ChainParts
<1>2. n \in all /\ Cardinality(upTo) <= PageLimit BY DEF Page, After
<1>3. before \in SUBSET upTo BY <1>1 DEF Page, After
<1>4. upTo \in SUBSET all OBVIOUS
<1> HIDE DEF all, upTo, before
<1>5. IsFiniteSet(upTo) BY <1>1, <1>4, FS_Subset
<1>6. IsFiniteSet(before) /\ Cardinality(before) <= Cardinality(upTo) BY <1>3, <1>5, FS_Subset
<1>7. Cardinality(upTo) \in Nat /\ Cardinality(before) \in Nat
  BY <1>5, <1>6, FS_CardinalityType
<1>8. Cardinality(before) \in 0 .. PageLimit BY <1>2, <1>6, <1>7, IndexerAssumption
<1> QED BY <1>8 DEF before

\* A page leaves out no event of its last ledger.
LEMMA PageEndsALedger ==
  ASSUME IndexerTypes, ChainIsWhole, NEW from \in Nat, NEW to \in Nat,
         NEW last \in Page(from, to), NEW n \in DOMAIN chain, chain[n].alive,
         from < chain[n].ledger, chain[n].ledger <= chain[last].ledger
  PROVE  n \in Page(from, to)
<1> DEFINE all == After(from, to)
           Up(k) == {m \in all : m <= k}
<1>1. /\ IsFiniteSet(all) /\ all \in SUBSET (1 .. Len(chain)) /\ Len(chain) \in Nat
      /\ Cardinality(all) \in 0 .. Len(chain)
  BY AfterCounts, ChainParts
<1>2. /\ DOMAIN chain = 1 .. Len(chain)
      /\ \A m \in DOMAIN chain : chain[m].ledger \in Nat
  BY ChainParts
<1>3. last \in all /\ last \in DOMAIN chain /\ chain[last].ledger <= to /\ chain[last].alive
      /\ Cardinality(Up(last)) <= PageLimit
  BY DEF Page, After
<1>4. n \in all BY <1>2, <1>3 DEF After
<1>5. n \in Int /\ last \in Int BY <1>2, <1>3
<1>6. Cardinality(Up(n)) <= PageLimit
  <2>1. CASE n <= last
    <3>1. Up(n) \in SUBSET Up(last) /\ Up(last) \in SUBSET all BY <1>1, <1>5, <2>1
    <3> HIDE DEF all, Up
    <3>2. IsFiniteSet(Up(last)) BY <1>1, <3>1, FS_Subset
    <3>3. IsFiniteSet(Up(n)) /\ Cardinality(Up(n)) <= Cardinality(Up(last))
      BY <3>1, <3>2, FS_Subset
    <3>4. Cardinality(Up(n)) \in Nat /\ Cardinality(Up(last)) \in Nat
      BY <3>2, <3>3, FS_CardinalityType
    <3> QED BY <1>3, <3>3, <3>4, IndexerAssumption
  <2>2. CASE ~(n <= last)
    <3>1. last < n BY <1>5, <2>2
    <3>2. ~(chain[last].ledger < chain[n].ledger) BY <1>2, <1>3
    <3>3. Cardinality(AliveUpTo(tip)) <= PageLimit BY <1>3, <3>1, <3>2 DEF ChainIsWhole
    <3>4. Up(n) \in SUBSET AliveUpTo(tip) BY DEF After, AliveUpTo, ChainIsWhole
    <3> HIDE DEF all, Up
    <3>5. IsFiniteSet(Up(n)) /\ Cardinality(Up(n)) <= Cardinality(AliveUpTo(tip))
      BY <3>4, AliveIsFinite, FS_Subset
    <3>6. Cardinality(Up(n)) \in Nat /\ Cardinality(AliveUpTo(tip)) \in Nat
      BY <3>5, AliveIsFinite, FS_CardinalityType
    <3> QED BY <3>3, <3>5, <3>6, IndexerAssumption
  <2> QED BY <2>1, <2>2
<1> QED BY <1>4, <1>6 DEF Page, After

\* What a sync has read and takes to its flush holds every event up to the page's end.
LEMMA FetchIndexes ==
  ASSUME IndexerTypes, ChainIsWhole, NEW from \in Nat, Indexed(from, txRows),
         NEW to \in Nat, NEW last \in Page(from, to),
         NEW dropped \in SUBSET MayDrop(Keys(Page(from, to)))
  PROVE  Indexed(chain[last].ledger, txRows \union (Keys(Page(from, to)) \ dropped))
<1> DEFINE page == Page(from, to)
           rows == txRows \union (Keys(page) \ dropped)
           top == chain[last].ledger
<1>1. \A n \in DOMAIN chain : chain[n].ledger \in Nat BY ChainParts
<1>2. last \in DOMAIN chain BY DEF Page
<1>5. Keys(page) \subseteq rows BY DEF MayDrop
<1>6. ASSUME NEW n \in DOMAIN chain, Due(n, top) PROVE Within(rows, n)
  <2>0. chain[n].alive /\ chain[n].decodes /\ chain[n].ledger <= top BY <1>6 DEF Due
  <2>1. CASE chain[n].ledger <= from BY <1>6, <2>1 DEF Indexed, Within, Due
  <2>2. CASE ~(chain[n].ledger <= from)
    <3>1. from < chain[n].ledger BY <1>1, <2>2
    <3>2. n \in page BY <2>0, <3>1, PageEndsALedger
    <3>3. Cardinality({m \in page : m < n}) \in 0 .. PageLimit BY <3>2, PlacesFit
    <3>4. <<n, Cardinality({m \in page : m < n})>> \in Keys(page) BY <2>0, <3>2 DEF Keys
    <3> QED BY <1>5, <3>3, <3>4 DEF Within
  <2> QED BY <2>1, <2>2
<1> QED BY <1>6 DEF Indexed

\* The keys of a page are pairs of an event and a place.
LEMMA KeysArePairs ==
  ASSUME IndexerTypes, NEW from \in Nat, NEW to \in Nat
  PROVE  Keys(Page(from, to)) \subseteq Nat \X Nat
<1>1. ASSUME NEW n \in Page(from, to)
      PROVE  <<n, Cardinality({m \in Page(from, to) : m < n})>> \in Nat \X Nat
  <2>1. n \in Nat BY ChainParts DEF Page
  <2>2. Cardinality({m \in Page(from, to) : m < n}) \in Nat BY PlacesFit, IndexerAssumption
  <2> QED BY <2>1, <2>2
<1> QED BY <1>1 DEF Keys

\* The event a page ends with.
LEMMA PageHasALast ==
  ASSUME IndexerTypes, NEW from \in Nat, NEW to \in Nat, Page(from, to) # {}
  PROVE  LET last == CHOOSE n \in Page(from, to) : \A m \in Page(from, to) : m <= n
         IN  last \in Page(from, to) /\ chain[last].ledger \in Nat
<1> DEFINE page == Page(from, to)
<1>1. page \in SUBSET (0 .. Len(chain)) /\ Len(chain) \in Nat BY ChainParts DEF Page
<1>2. \A n \in page : chain[n].ledger \in Nat BY ChainParts DEF Page
<1> HIDE DEF page
<1>3. page # {} BY DEF page
<1>4. \E n \in page : \A m \in page : m <= n BY <1>1, <1>3, LargestExists
<1>5. (CHOOSE n \in page : \A m \in page : m <= n) \in page BY <1>4
<1> QED BY <1>2, <1>5 DEF page

\* The steps of a sync.
LEMMA FetchEventsKeeps == ASSUME IndexerInv, NEW s \in Syncs, FetchEvents(s) PROVE IndexerInv'
<1>1. IndexerTypes /\ ChainIsWhole /\ LedgersAreIndexed BY DEF IndexerInv
<1>2. /\ sync[s].at = "fetch" /\ UNCHANGED ledgers /\ txRows' = txRows /\ cursor' = cursor
      /\ checkpoints' = checkpoints
  BY DEF FetchEvents, indexed, reorgMemory
<1>3. /\ txRows \subseteq Nat \X Nat /\ cursor \in Nat /\ Indexed(cursor, txRows)
      /\ checkpoints \subseteq Nat /\ \A l \in checkpoints : Indexed(l, txRows)
      /\ Indexed(sync[s].from, txRows)
  BY <1>1, <1>2 DEF IndexerTypes, LedgersAreIndexed
<1>4. sync[s].from \in Nat /\ sync[s].top \in Nat /\ sync[s].page \subseteq Nat \X Nat
      /\ sync \in [Syncs -> SyncState]
  BY <1>1, SyncParts DEF IndexerTypes
<1> DEFINE from == sync[s].from
<1>5. PICK to \in 0 .. tip :
        LET page == Page(from, to)
            keys == Keys(page)
        IN  IF page = {}
            THEN sync' = [sync EXCEPT ![s] = NoSync]
            ELSE \E dropped \in SUBSET MayDrop(keys) :
                   sync' = [sync EXCEPT ![s].at = "flush", ![s].page = keys \ dropped,
                     ![s].top = chain[CHOOSE n \in page : \A m \in page : m <= n].ledger]
  BY DEF FetchEvents
<1>6. to \in Nat BY <1>1 DEF IndexerTypes
<1> DEFINE page == Page(from, to)
<1>7. CASE page = {}
  <2>1. sync' = [sync EXCEPT ![s] = NoSync] BY <1>5, <1>7
  <2>2. NoSync \in SyncState /\ NoSync.at = "idle" BY DEF NoSync, SyncState
  <2> HIDE DEF from, page
  <2> QED BY <1>2, <1>3, <2>1, <2>2, SyncMoves
<1>8. CASE page # {}
  <2> DEFINE last == CHOOSE n \in page : \A m \in page : m <= n
  <2>1. PICK dropped \in SUBSET MayDrop(Keys(page)) :
          sync' = [sync EXCEPT ![s].at = "flush", ![s].page = Keys(page) \ dropped,
                     ![s].top = chain[last].ledger]
    BY <1>5, <1>8
  <2>2. last \in page /\ chain[last].ledger \in Nat BY <1>1, <1>4, <1>6, <1>8, PageHasALast
  <2>3. Keys(page) \subseteq Nat \X Nat BY <1>1, <1>4, <1>6, KeysArePairs
  <2>4. Indexed(chain[last].ledger, txRows \union (Keys(page) \ dropped))
    BY <1>1, <1>3, <1>4, <1>6, <2>1, <2>2, FetchIndexes
  <2> DEFINE top == chain[last].ledger
             rows == Keys(page) \ dropped
             next == [sync[s] EXCEPT !.at = "flush", !.page = rows, !.top = top]
  <2> HIDE DEF page, last
  <2>5. rows \subseteq Nat \X Nat /\ top \in Nat BY <2>2, <2>3
  <2>6. sync' = [sync EXCEPT ![s].at = "flush", ![s].page = rows, ![s].top = top] BY <2>1
  <2>7. Indexed(top, txRows \union rows) BY <2>4
  <2> HIDE DEF top, rows
  <2>8. sync' = [sync EXCEPT ![s] = next] /\ next \in SyncState
    <3>1. next \in SyncState BY <1>4, <2>5 DEF SyncState
    <3> QED BY <1>4, <2>6, <3>1
  <2>9. next.at = "flush" /\ next.top = top /\ next.page = rows BY <1>4 DEF SyncState
  <2>10. Indexed(next.top, txRows' \union next.page) BY <1>2, <2>7, <2>9
  <2> HIDE DEF next
  <2> QED BY <1>2, <1>3, <2>8, <2>9, <2>10, SyncMoves
<1> QED BY <1>7, <1>8

\* A sync starts from the cursor.
LEMMA ReadCursorKeeps == ASSUME IndexerInv, NEW s \in Syncs, ReadCursor(s) PROVE IndexerInv'
<1>1. IndexerTypes /\ LedgersAreIndexed BY DEF IndexerInv
<1>2. /\ UNCHANGED ledgers /\ txRows' = txRows /\ cursor' = cursor /\ checkpoints' = checkpoints
      /\ sync[s] = NoSync
      /\ sync' = [sync EXCEPT ![s].at = "detect", ![s].from = cursor]
  BY DEF ReadCursor, indexed, reorgMemory
<1>3. /\ txRows \subseteq Nat \X Nat /\ cursor \in Nat /\ Indexed(cursor, txRows)
      /\ checkpoints \subseteq Nat /\ \A l \in checkpoints : Indexed(l, txRows)
      /\ sync \in [Syncs -> SyncState]
  BY <1>1 DEF IndexerTypes, LedgersAreIndexed
<1> DEFINE next == [sync[s] EXCEPT !.at = "detect", !.from = cursor]
<1>4. sync' = [sync EXCEPT ![s] = next] /\ next \in SyncState
  <2>1. next \in SyncState BY <1>3 DEF SyncState
  <2> QED BY <1>2, <1>3, <2>1
<1>5. next.at = "detect" /\ next.from = cursor BY <1>3 DEF SyncState
<1>6. Indexed(next.from, txRows') BY <1>2, <1>3, <1>5
<1> HIDE DEF next
<1> QED BY <1>2, <1>3, <1>4, <1>5, <1>6, SyncMoves

\* The batch is written.
LEMMA FlushKeeps == ASSUME IndexerInv, NEW s \in Syncs, FlushBatch(s) PROVE IndexerInv'
<1>1. IndexerTypes /\ LedgersAreIndexed BY DEF IndexerInv
<1>2. /\ UNCHANGED ledgers /\ txRows' = txRows \union sync[s].page /\ cursor' = cursor
      /\ checkpoints' = checkpoints /\ sync[s].at = "flush"
      /\ sync' = [sync EXCEPT ![s] = [sync[s] EXCEPT !.at = "cursor", !.page = {}]]
  BY DEF FlushBatch, reorgMemory, WithTransactions, IndexerInv, IndexerTypes
<1>3. /\ txRows \subseteq Nat \X Nat /\ cursor \in Nat /\ Indexed(cursor, txRows)
      /\ checkpoints \subseteq Nat /\ \A l \in checkpoints : Indexed(l, txRows)
      /\ sync \in [Syncs -> SyncState] /\ Indexed(sync[s].top, txRows \union sync[s].page)
  BY <1>1, <1>2 DEF IndexerTypes, LedgersAreIndexed
<1>4. sync[s].from \in Nat /\ sync[s].top \in Nat /\ sync[s].page \subseteq Nat \X Nat
  BY <1>1, SyncParts
<1> DEFINE next == [sync[s] EXCEPT !.at = "cursor", !.page = {}]
<1>5. sync' = [sync EXCEPT ![s] = next] /\ next \in SyncState
  BY <1>2, <1>3 DEF SyncState
<1>6. next.at = "cursor" /\ next.top = sync[s].top BY <1>3 DEF SyncState
<1>7. txRows \subseteq txRows' /\ txRows' \subseteq Nat \X Nat BY <1>2, <1>3, <1>4
<1>8. Indexed(cursor', txRows') /\ \A l \in checkpoints' : Indexed(l, txRows')
  <2>1. \A l \in Nat : l <= l OBVIOUS
  <2>2. \A l \in Nat : Indexed(l, txRows) => Indexed(l, txRows')
    BY <1>1, <1>2, <1>7, <2>1, IndexedGrows DEF ledgers
  <2> QED BY <1>2, <1>3, <2>2
<1>9. Indexed(next.top, txRows') BY <1>2, <1>3, <1>6
<1> HIDE DEF next
<1> QED BY <1>2, <1>3, <1>5, <1>6, <1>7, <1>8, <1>9, SyncMoves

\* The cursor moves to the end of the page.
LEMMA SaveCursorKeeps == ASSUME IndexerInv, NEW s \in Syncs, SaveCursor(s) PROVE IndexerInv'
<1>1. IndexerTypes /\ LedgersAreIndexed BY DEF IndexerInv
<1>2. /\ UNCHANGED ledgers /\ txRows' = txRows /\ cursor' = sync[s].top
      /\ checkpoints' = checkpoints \union {sync[s].top} /\ sync[s].at = "cursor"
      /\ sync' = [sync EXCEPT ![s] = NoSync]
  BY DEF SaveCursor
<1>3. /\ txRows \subseteq Nat \X Nat /\ Indexed(sync[s].top, txRows)
      /\ checkpoints \subseteq Nat /\ \A l \in checkpoints : Indexed(l, txRows)
  BY <1>1, <1>2 DEF IndexerTypes, LedgersAreIndexed
<1>4. sync[s].top \in Nat BY <1>1, SyncParts
<1>5. NoSync \in SyncState /\ NoSync.at = "idle" BY DEF NoSync, SyncState
<1>6. /\ checkpoints' \subseteq Nat /\ \A l \in checkpoints' : Indexed(l, txRows')
      /\ cursor' \in Nat /\ Indexed(cursor', txRows')
  BY <1>2, <1>3, <1>4
<1> QED BY <1>2, <1>3, <1>5, <1>6, SyncMoves

\* A sync that throws leaves what it wrote.
LEMMA SyncFailsKeeps == ASSUME IndexerInv, NEW s \in Syncs, SyncFails(s) PROVE IndexerInv'
<1>1. IndexerTypes /\ LedgersAreIndexed BY DEF IndexerInv
<1>2. /\ UNCHANGED ledgers /\ txRows' = txRows /\ cursor' = cursor /\ checkpoints' = checkpoints
      /\ sync' = [sync EXCEPT ![s] = NoSync]
  BY DEF SyncFails, indexed, reorgMemory
<1>3. /\ txRows \subseteq Nat \X Nat /\ cursor \in Nat /\ Indexed(cursor, txRows)
      /\ checkpoints \subseteq Nat /\ \A l \in checkpoints : Indexed(l, txRows)
  BY <1>1 DEF IndexerTypes, LedgersAreIndexed
<1>4. NoSync \in SyncState /\ NoSync.at = "idle" BY DEF NoSync, SyncState
<1> QED BY <1>2, <1>3, <1>4, SyncMoves

\* Going back: to just before a checkpoint, which says less than the checkpoint did.
LEMMA RollbackIndexes ==
  ASSUME IndexerTypes, LedgersAreIndexed, chain' = chain, NEW latest \in Nat,
         Orphaned(latest) # {}, Rollback(Orphaned(latest))
  PROVE  /\ cursor' \in Nat /\ Indexed(cursor', txRows) /\ checkpoints' \subseteq checkpoints
         /\ txRows' = txRows
<1> DEFINE orphaned == Orphaned(latest)
<1>1. orphaned \subseteq checkpoints /\ \A l \in orphaned : l > latest BY DEF Orphaned
<1>2. checkpoints \subseteq Nat /\ \A l \in checkpoints : Indexed(l, txRows)
  BY DEF IndexerTypes, LedgersAreIndexed
<1>3. \E l \in orphaned : \A m \in orphaned : l <= m
  <2>1. orphaned \in SUBSET Nat /\ orphaned # {} BY <1>1, <1>2
  <2> HIDE DEF orphaned
  <2> QED BY <2>1, LeastExists
<1> DEFINE least == CHOOSE l \in orphaned : \A m \in orphaned : l <= m
<1>4. least \in orphaned BY <1>3
<1>5. cursor' = least - 1 /\ checkpoints' = checkpoints \ orphaned /\ txRows' = txRows
  BY DEF Rollback
<1> HIDE DEF least, orphaned
<1>6. least \in Nat /\ least > latest /\ Indexed(least, txRows) BY <1>1, <1>2, <1>4
<1>7. least - 1 \in Nat /\ least - 1 <= least BY <1>6
<1>8. Indexed(least - 1, txRows) BY <1>6, <1>7, IndexedGrows
<1> QED BY <1>5, <1>7, <1>8

\* The node is asked for its latest ledger.
LEMMA DetectKeeps == ASSUME IndexerInv, NEW s \in Syncs, DetectReorg(s) PROVE IndexerInv'
<1>1. IndexerTypes /\ LedgersAreIndexed BY DEF IndexerInv
<1>2. /\ UNCHANGED ledgers /\ sync[s].at = "detect"
      /\ sync' = [sync EXCEPT ![s].at = "fetch"]
  BY DEF DetectReorg
<1>3. /\ txRows \subseteq Nat \X Nat /\ cursor \in Nat /\ Indexed(cursor, txRows)
      /\ checkpoints \subseteq Nat /\ \A l \in checkpoints : Indexed(l, txRows)
      /\ sync \in [Syncs -> SyncState] /\ Indexed(sync[s].from, txRows)
  BY <1>1, <1>2 DEF IndexerTypes, LedgersAreIndexed
<1>4. /\ cursor' \in Nat /\ Indexed(cursor', txRows) /\ checkpoints' \subseteq checkpoints
      /\ txRows' = txRows
  <2>1. CASE \E latest \in 0 .. tip :
               Orphaned(latest) # {} /\ Rollback(Orphaned(latest))
    <3>1. PICK latest \in 0 .. tip :
            Orphaned(latest) # {} /\ Rollback(Orphaned(latest))
      BY <2>1
    <3>2. latest \in Nat BY <1>1 DEF IndexerTypes
    <3> QED BY <1>1, <1>2, <3>1, <3>2, RollbackIndexes DEF ledgers
  <2>2. CASE UNCHANGED <<indexed, reorgMemory>>
    BY <1>3, <2>2 DEF indexed, reorgMemory
  <2> QED BY <2>1, <2>2 DEF DetectReorg
<1> DEFINE next == [sync[s] EXCEPT !.at = "fetch"]
<1>5. sync' = [sync EXCEPT ![s] = next] /\ next \in SyncState
  BY <1>2, <1>3 DEF SyncState
<1>6. next.at = "fetch" /\ next.from = sync[s].from BY <1>3 DEF SyncState
<1>7. Indexed(next.from, txRows') BY <1>3, <1>4, <1>6
<1>8. checkpoints' \subseteq Nat /\ \A l \in checkpoints' : Indexed(l, txRows') BY <1>3, <1>4
<1> HIDE DEF next
<1> QED BY <1>2, <1>3, <1>4, <1>5, <1>6, <1>7, <1>8, SyncMoves

\* The process restarts.
LEMMA IndexerRestartKeeps == ASSUME IndexerInv, IndexerRestarts PROVE IndexerInv'
<1>1. IndexerTypes /\ ChainIsWhole /\ LedgersAreIndexed BY DEF IndexerInv
<1>2. /\ UNCHANGED ledgers /\ txRows' = txRows /\ cursor' = cursor /\ checkpoints' = {}
      /\ sync' = [s \in Syncs |-> NoSync]
  BY DEF IndexerRestarts, indexed
<1>3. NoSync \in SyncState /\ NoSync.at = "idle" BY DEF NoSync, SyncState
<1>4. IndexerTypes' BY <1>1, <1>2, <1>3 DEF IndexerTypes, ledgers
<1>5. ChainIsWhole' BY <1>1, <1>2 DEF ChainIsWhole, AliveUpTo, ledgers
<1>6. Indexed(cursor, txRows)'
  BY <1>1, <1>2 DEF LedgersAreIndexed, Indexed, Within, Due, ledgers
<1>7. LedgersAreIndexed' BY <1>2, <1>3, <1>6 DEF LedgersAreIndexed
<1> QED BY <1>4, <1>5, <1>7 DEF IndexerInv

\* Products of numbers keep the order of a factor.
LEMMA ProductGrows ==
  ASSUME NEW a \in Nat, NEW b \in Nat, NEW c \in Nat, a <= b
  PROVE  a * c <= b * c
<1>1. PICK d \in Nat : b = a + d
  <2>1. b - a \in Nat /\ b = a + (b - a) OBVIOUS
  <2> QED BY <2>1
<1>2. (a + d) * c = a * c + d * c /\ a * c \in Nat /\ d * c \in Nat OBVIOUS
<1> DEFINE p == a * c
           q == d * c
<1>3. b * c = p + q /\ p \in Nat /\ q \in Nat BY <1>1, <1>2
<1> SUFFICES p <= b * c OBVIOUS
<1> HIDE DEF p, q
<1> QED BY <1>3

\* A ledger adds no more events than it has room for.
LEMMA CloseCounts ==
  ASSUME IndexerTypes, ChainIsWhole, NEW size \in Nat, size <= LedgerSize, LedgerSize \in Nat,
         DOMAIN chain' = 1 .. Len(chain) + size, tip' = tip + 1,
         \A n \in DOMAIN chain : chain'[n] = chain[n],
         \A n \in DOMAIN chain' : n \notin DOMAIN chain => chain'[n].ledger = tip + 1
  PROVE  \A l \in 0 .. tip' : Cardinality(AliveUpTo(l)') <= l * LedgerSize
<1>1. /\ DOMAIN chain = 1 .. Len(chain) /\ Len(chain) \in Nat /\ tip \in Nat
      /\ \A n \in DOMAIN chain : chain[n].ledger \in Nat
  BY ChainParts DEF IndexerTypes
<1>2. DOMAIN chain' = (1 .. Len(chain)) \union (Len(chain) + 1 .. Len(chain) + size) BY <1>1
<1>3. ASSUME NEW l \in 0 .. tip PROVE Cardinality(AliveUpTo(l)') <= l * LedgerSize
  <2>1. AliveUpTo(l)' = AliveUpTo(l)
    <3>1. ASSUME NEW n \in DOMAIN chain', n \notin DOMAIN chain PROVE ~(chain'[n].ledger <= l)
      BY <1>1, <3>1
    <3>2. DOMAIN chain \subseteq DOMAIN chain' BY <1>1, <1>2
    <3> QED BY <3>1, <3>2 DEF AliveUpTo
  <2> QED BY <2>1 DEF ChainIsWhole
<1>4. ASSUME NEW k, k = tip + 1 PROVE Cardinality(AliveUpTo(k)') <= (tip + 1) * LedgerSize
  <2> DEFINE before == AliveUpTo(tip)
             added == Len(chain) + 1 .. Len(chain) + size
  <2>1. AliveUpTo(k)' \in SUBSET (before \union added)
    <3>1. ASSUME NEW n \in DOMAIN chain', chain'[n].alive PROVE n \in before \union added
      <4>1. CASE n \in DOMAIN chain BY <3>1, <4>1 DEF ChainIsWhole, AliveUpTo
      <4>2. CASE n \notin DOMAIN chain BY <1>1, <1>2, <4>2
      <4> QED BY <4>1, <4>2
    <3> QED BY <3>1 DEF AliveUpTo
  <2>2. /\ IsFiniteSet(before) /\ Cardinality(before) \in Nat
        /\ Cardinality(before) <= tip * LedgerSize
    BY <1>1, AliveIsFinite DEF ChainIsWhole
  <2>3. IsFiniteSet(added) /\ Cardinality(added) = size
    <3> DEFINE a == Len(chain) + 1
               b == Len(chain) + size
    <3>1. a \in Int /\ b \in Int BY <1>1
    <3>2. b - a + 1 = size /\ (a > b => size = 0) BY <1>1
    <3> HIDE DEF a, b
    <3>3. IsFiniteSet(a .. b) /\ Cardinality(a .. b) = IF a > b THEN 0 ELSE b - a + 1
      BY <3>1, FS_Interval
    <3>4. IsFiniteSet(a .. b) /\ Cardinality(a .. b) = size BY <3>1, <3>2, <3>3
    <3> QED BY <3>4 DEF a, b
  <2>4. before \intersect added = {} BY <1>1 DEF AliveUpTo
  <2> HIDE DEF before, added
  <2>5. /\ IsFiniteSet(before \union added)
        /\ Cardinality(before \union added) = Cardinality(before) + size
    <3>1. Cardinality(before \union added) = Cardinality(before) + size - Cardinality({})
      BY <2>2, <2>3, <2>4, FS_Union
    <3>2. IsFiniteSet(before \union added) BY <2>2, <2>3, FS_Union
    <3>3. Cardinality({}) = 0 BY FS_EmptySet
    <3> QED BY <1>1, <2>2, <3>1, <3>2, <3>3
  <2>6. Cardinality(AliveUpTo(k)') <= Cardinality(before) + size
        /\ Cardinality(AliveUpTo(k)') \in Nat
    BY <2>1, <2>5, FS_Subset, FS_CardinalityType
  <2>7. (tip + 1) * LedgerSize = tip * LedgerSize + LedgerSize /\ tip * LedgerSize \in Nat
    BY <1>1
  <2> DEFINE product == tip * LedgerSize
  <2>8. product \in Nat /\ Cardinality(before) <= product
        /\ (tip + 1) * LedgerSize = product + LedgerSize
    BY <2>2, <2>7
  <2> HIDE DEF product
  <2> QED BY <2>2, <2>6, <2>8
<1> SUFFICES ASSUME NEW l \in 0 .. tip + 1 PROVE Cardinality(AliveUpTo(l)') <= l * LedgerSize
  OBVIOUS
<1>5. CASE l \in 0 .. tip BY <1>3, <1>5, Zenon
<1>6. CASE l = tip + 1
  <2>1. Cardinality(AliveUpTo(l)') <= (tip + 1) * LedgerSize BY <1>4, <1>6, Zenon
  <2> QED BY <1>6, <2>1, Zenon
<1> QED BY <1>1, <1>5, <1>6

\* A closed ledger is above all that was said of the chain before it, or late.
LEMMA CloseKeeps == ASSUME NoLedgerIsCut, IndexerInv, CloseLedger PROVE IndexerInv'
<1>1. IndexerTypes /\ ChainIsWhole /\ LedgersAreIndexed BY DEF IndexerInv
<1>2. PICK size \in 1 .. LedgerSize : \E decodes \in [1 .. size -> BOOLEAN] :
        chain' = chain \o [i \in 1 .. size |->
                   [ledger |-> tip + 1, decodes |-> decodes[i], alive |-> TRUE,
                    late |-> \E l \in PastLedgers : tip < l]]
  BY DEF CloseLedger
<1>3. PICK decodes \in [1 .. size -> BOOLEAN] :
        chain' = chain \o [i \in 1 .. size |->
                   [ledger |-> tip + 1, decodes |-> decodes[i], alive |-> TRUE,
                    late |-> \E l \in PastLedgers : tip < l]]
  BY <1>2
<1>4. /\ cursor' = cursor /\ txRows' = txRows /\ sync' = sync /\ checkpoints' = checkpoints
      /\ tip < MaxLedger /\ tip' = tip + 1
  BY DEF CloseLedger, reorgMemory
<1>5. size \in Nat /\ 1 <= size /\ size <= LedgerSize /\ LedgerSize \in Nat /\ MaxLedger \in Nat
  BY DEF NoLedgerIsCut
<1>6. /\ DOMAIN chain = 1 .. Len(chain) /\ Len(chain) \in Nat /\ tip \in Nat
      /\ \A n \in DOMAIN chain : chain[n].ledger \in Nat \ {0} /\ chain[n].alive \in BOOLEAN
  BY <1>1, ChainParts DEF IndexerTypes
<1> DEFINE tooLate == \E l \in PastLedgers : tip < l
<1>0. tooLate \in BOOLEAN OBVIOUS
<1> HIDE DEF tooLate
<1> DEFINE closed == [i \in 1 .. size |-> [ledger |-> tip + 1, decodes |-> decodes[i],
                                           alive |-> TRUE, late |-> tooLate]]
<1>7. chain \in Seq(Event) BY <1>1 DEF IndexerTypes
<1>8. closed \in Seq(Event) /\ Len(closed) = size
      /\ \A i \in 1 .. size : closed[i].ledger = tip + 1 /\ closed[i].late = tooLate
  <2>1. \A i \in 1 .. size : closed[i] \in Event BY <1>0, <1>6 DEF Event
  <2>2. closed \in [1 .. size -> Event] BY <2>1
  <2> QED BY <1>5, <2>2
<1>9. chain' = chain \o closed BY <1>3 DEF tooLate
<1> HIDE DEF closed
<1>10. /\ chain' \in Seq(Event) /\ Len(chain') = Len(chain) + size
       /\ DOMAIN chain' = 1 .. Len(chain) + size
       /\ \A n \in 1 .. Len(chain) : chain'[n] = chain[n]
       /\ \A n \in 1 .. Len(chain) + size :
            ~(n \in 1 .. Len(chain)) => chain'[n] = closed[n - Len(chain)]
  <2>1. chain' \in Seq(Event) /\ Len(chain') = Len(chain) + size
    <3>1. \A c, d \in Seq(Event) : c \o d \in Seq(Event) /\ Len(c \o d) = Len(c) + Len(d)
      OBVIOUS
    <3> QED BY <1>7, <1>8, <1>9, <3>1
  <2>2. DOMAIN chain' = 1 .. Len(chain) + size BY <2>1
  <2>3. \A n \in 1 .. Len(chain) : chain'[n] = chain[n] BY <1>5, <1>6, <1>7, <1>8, <1>9
  <2>4. \A n \in 1 .. Len(chain) + size :
          ~(n \in 1 .. Len(chain)) => chain'[n] = closed[n - Len(chain)]
    BY <1>5, <1>6, <1>7, <1>8, <1>9
  <2> QED BY <2>1, <2>2, <2>3, <2>4
<1>11. \A n \in DOMAIN chain' :
         n \notin DOMAIN chain => chain'[n].ledger = tip + 1 /\ chain'[n].late = tooLate
  <2> SUFFICES ASSUME NEW n \in DOMAIN chain', n \notin DOMAIN chain
               PROVE  chain'[n].ledger = tip + 1 /\ chain'[n].late = tooLate
    OBVIOUS
  <2>1. n - Len(chain) \in 1 .. size BY <1>5, <1>6, <1>10
  <2> QED BY <1>6, <1>8, <1>10, <2>1
<1>12. \A n \in DOMAIN chain :
         n \in DOMAIN chain' /\ chain'[n] = chain[n] /\ (chain[n].alive => chain[n].ledger <= tip)
  BY <1>1, <1>5, <1>6, <1>10 DEF ChainIsWhole
<1>13. \A m, n \in DOMAIN chain' : m <= n /\ n \in DOMAIN chain => m \in DOMAIN chain
  BY <1>5, <1>6, <1>10
<1>14. IndexerTypes' BY <1>1, <1>4, <1>6, <1>10 DEF IndexerTypes
<1>15. ChainIsWhole'
  <2>1. \A m, n \in DOMAIN chain' :
          chain'[m].alive /\ chain'[n].alive /\ m <= n => chain'[m].ledger <= chain'[n].ledger
    <3> SUFFICES ASSUME NEW m \in DOMAIN chain', NEW n \in DOMAIN chain',
                        chain'[m].alive, chain'[n].alive, m <= n
                 PROVE  chain'[m].ledger <= chain'[n].ledger
      OBVIOUS
    <3>1. CASE n \in DOMAIN chain BY <1>1, <1>12, <1>13, <3>1 DEF ChainIsWhole
    <3>2. CASE n \notin DOMAIN chain
      <4>1. chain'[n].ledger = tip + 1 BY <1>11, <3>2
      <4>2. CASE m \in DOMAIN chain BY <1>6, <1>12, <4>1, <4>2
      <4>3. CASE m \notin DOMAIN chain BY <1>6, <1>11, <4>1, <4>3
      <4> QED BY <4>2, <4>3
    <3> QED BY <3>1, <3>2
  <2>2. \A n \in DOMAIN chain' : chain'[n].alive => chain'[n].ledger <= tip'
    <3> SUFFICES ASSUME NEW n \in DOMAIN chain', chain'[n].alive PROVE chain'[n].ledger <= tip'
      OBVIOUS
    <3>1. CASE n \in DOMAIN chain BY <1>4, <1>6, <1>12, <3>1
    <3>2. CASE n \notin DOMAIN chain BY <1>4, <1>6, <1>11, <3>2
    <3> QED BY <3>1, <3>2
  <2>3. tip' <= MaxLedger BY <1>4, <1>5, <1>6
  <2>4. \A l \in 0 .. tip' : Cardinality(AliveUpTo(l)') <= l * LedgerSize
    BY <1>1, <1>4, <1>5, <1>6, <1>10, <1>11, <1>12, CloseCounts
  <2>5. \/ /\ LedgerSize <= 1
           /\ \A m, n \in DOMAIN chain' :
                chain'[m].alive /\ chain'[n].alive /\ m < n => chain'[m].ledger < chain'[n].ledger
        \/ LedgerSize > 1 /\ Cardinality(AliveUpTo(tip)') <= PageLimit
    <3>1. CASE LedgerSize <= 1
      <4>1. size = 1 BY <1>5, <3>1
      <4>2. \A m, n \in DOMAIN chain :
              chain[m].alive /\ chain[n].alive /\ m < n => chain[m].ledger < chain[n].ledger
        BY <1>1, <1>5, <3>1 DEF ChainIsWhole
      <4>3. ASSUME NEW m \in DOMAIN chain', NEW n \in DOMAIN chain',
                   chain'[m].alive, chain'[n].alive, m < n
            PROVE  chain'[m].ledger < chain'[n].ledger
        <5>1. m \in DOMAIN chain BY <1>6, <1>10, <4>1, <4>3
        <5>2. CASE n \in DOMAIN chain BY <1>12, <4>2, <4>3, <5>1, <5>2
        <5>3. CASE n \notin DOMAIN chain BY <1>6, <1>11, <1>12, <4>3, <5>1, <5>3
        <5> QED BY <5>2, <5>3
      <4> QED BY <3>1, <4>3
    <3>2. CASE ~(LedgerSize <= 1) /\ MaxLedger * LedgerSize <= PageLimit
      <4>1. tip' * LedgerSize <= MaxLedger * LedgerSize
        <5>1. tip' \in Nat BY <1>4, <1>6
        <5> DEFINE t == tip'
        <5> HIDE DEF t
        <5> SUFFICES t * LedgerSize <= MaxLedger * LedgerSize BY DEF t
        <5>2. t \in Nat /\ t <= MaxLedger BY <2>3, <5>1 DEF t
        <5> QED BY <1>5, <5>2, ProductGrows, Zenon
      <4>2. tip' * LedgerSize \in Nat /\ MaxLedger * LedgerSize \in Nat BY <1>4, <1>5, <1>6
      <4>3. Cardinality(AliveUpTo(tip)') <= tip' * LedgerSize
            /\ Cardinality(AliveUpTo(tip)') \in Nat
        <5>1. tip' \in 0 .. tip' BY <1>4, <1>6
        <5>2. Cardinality(AliveUpTo(tip)') \in Nat
          <6>1. IsFiniteSet(1 .. Len(chain) + size) BY <1>5, <1>6, FS_Interval
          <6>2. AliveUpTo(tip)' \in SUBSET (1 .. Len(chain) + size) BY <1>10 DEF AliveUpTo
          <6> QED BY <6>1, <6>2, FS_Subset, FS_CardinalityType
        <5> QED BY <2>4, <5>1, <5>2
      <4> DEFINE p == tip' * LedgerSize
                 q == MaxLedger * LedgerSize
                 c == Cardinality(AliveUpTo(tip)')
      <4>4. p \in Nat /\ q \in Nat /\ p <= q /\ q <= PageLimit /\ c <= p /\ c \in Nat
        BY <3>2, <4>1, <4>2, <4>3
      <4> HIDE DEF p, q, c
      <4>5. c <= PageLimit BY <4>4, IndexerAssumption
      <4> QED BY <1>5, <3>2, <4>5 DEF c
    <3> QED BY <3>1, <3>2 DEF NoLedgerIsCut
  <2> QED BY <2>1, <2>2, <2>3, <2>4, <2>5 DEF ChainIsWhole
<1>16. ASSUME NEW l \in PastLedgers, l \in Nat, NEW rows, Indexed(l, rows),
              NEW kept, kept = rows
       PROVE  \A n \in DOMAIN chain' : Due(n, l)' => Within(kept, n)
  <2> SUFFICES ASSUME NEW n \in DOMAIN chain', Due(n, l)' PROVE Within(kept, n) OBVIOUS
  <2>1. chain'[n].alive /\ ~chain'[n].late /\ chain'[n].decodes /\ chain'[n].ledger <= l
    BY DEF Due
  <2>2. n \in DOMAIN chain
    <3> SUFFICES ASSUME n \notin DOMAIN chain PROVE FALSE OBVIOUS
    <3>1. chain'[n].ledger = tip + 1 /\ chain'[n].late = tooLate BY <1>11
    <3>2. tip < l BY <1>6, <1>16, <2>1, <3>1
    <3> QED BY <2>1, <3>1, <3>2 DEF tooLate
  <2> QED BY <1>12, <1>16, <2>1, <2>2 DEF Indexed, Due
<1>17. LedgersAreIndexed'
  <2>1. Indexed(cursor, txRows)'
    <3>1. cursor \in Nat /\ Indexed(cursor, txRows) /\ cursor \in PastLedgers
      BY <1>1 DEF IndexerTypes, LedgersAreIndexed, PastLedgers
    <3> QED BY <1>4, <1>16, <3>1 DEF Indexed, Within, Due
  <2>2. ASSUME NEW l \in checkpoints PROVE Indexed(l, txRows)'
    <3>1. l \in Nat /\ Indexed(l, txRows) /\ l \in PastLedgers
      BY <1>1 DEF IndexerTypes, LedgersAreIndexed, PastLedgers
    <3> QED BY <1>4, <1>16, <3>1 DEF Indexed, Within, Due
  <2>3. ASSUME NEW t \in Syncs
        PROVE  (/\ sync[t].at \in {"detect", "fetch"} => Indexed(sync[t].from, txRows)
                /\ sync[t].at = "flush" => Indexed(sync[t].top, txRows \union sync[t].page)
                /\ sync[t].at = "cursor" => Indexed(sync[t].top, txRows))'
    <3>1. /\ sync[t].at \in {"detect", "fetch"} => Indexed(sync[t].from, txRows)
          /\ sync[t].at = "flush" => Indexed(sync[t].top, txRows \union sync[t].page)
          /\ sync[t].at = "cursor" => Indexed(sync[t].top, txRows)
      BY <1>1 DEF LedgersAreIndexed
    <3>2. /\ sync[t].from \in Nat /\ sync[t].top \in Nat
          /\ sync[t].from \in PastLedgers /\ sync[t].top \in PastLedgers
      BY <1>1, SyncParts DEF PastLedgers
    <3>3. sync[t].at \in {"detect", "fetch"} => Indexed(sync[t].from, txRows)'
      BY <1>4, <1>16, <3>1, <3>2 DEF Indexed, Within, Due
    <3>4. sync[t].at = "flush" => Indexed(sync[t].top, txRows \union sync[t].page)'
      <4> DEFINE rows == txRows \union sync[t].page
                 top == sync[t].top
      <4>1. sync[t].at = "flush" => Indexed(top, rows) BY <3>1
      <4>2. top \in Nat /\ top \in PastLedgers /\ top' = top /\ rows' = rows BY <1>4, <3>2
      <4> SUFFICES sync[t].at = "flush" => Indexed(top, rows)' OBVIOUS
      <4> HIDE DEF rows, top
      <4> QED BY <1>16, <4>1, <4>2 DEF Indexed, Within, Due
    <3>5. sync[t].at = "cursor" => Indexed(sync[t].top, txRows)'
      BY <1>4, <1>16, <3>1, <3>2 DEF Indexed, Within, Due
    <3> QED BY <1>4, <3>3, <3>4, <3>5
  <2> QED BY <1>4, <2>1, <2>2, <2>3 DEF LedgersAreIndexed
<1> QED BY <1>14, <1>15, <1>17 DEF IndexerInv

\* A fork takes events off the chain and puts none on it.
LEMMA ForkKeeps == ASSUME NoLedgerIsCut, IndexerInv, Fork PROVE IndexerInv'
<1>1. IndexerTypes /\ ChainIsWhole /\ LedgersAreIndexed BY DEF IndexerInv
<1>2. PICK kept \in 0 .. tip - 1 :
        /\ tip' = kept
        /\ chain' = [n \in DOMAIN chain |->
                       [chain[n] EXCEPT !.alive = @ /\ chain[n].ledger <= kept]]
  BY DEF Fork
<1>3. cursor' = cursor /\ txRows' = txRows /\ sync' = sync /\ checkpoints' = checkpoints
  BY DEF Fork, indexed, reorgMemory
<1>4. /\ DOMAIN chain = 1 .. Len(chain) /\ Len(chain) \in Nat /\ tip \in Nat
      /\ \A n \in DOMAIN chain : chain[n].ledger \in Nat \ {0} /\ chain[n].alive \in BOOLEAN
  BY <1>1, ChainParts DEF IndexerTypes
<1>5. \A n \in DOMAIN chain : chain[n] \in Event BY <1>1 DEF IndexerTypes
<1>6. DOMAIN chain' = DOMAIN chain
      /\ \A n \in DOMAIN chain :
           /\ chain'[n] \in Event /\ chain'[n].ledger = chain[n].ledger
           /\ chain'[n].decodes = chain[n].decodes /\ chain'[n].late = chain[n].late
           /\ chain'[n].alive => chain[n].alive /\ chain[n].ledger <= kept
  <2>1. DOMAIN chain' = DOMAIN chain BY <1>2
  <2>2. ASSUME NEW n \in DOMAIN chain
        PROVE  /\ chain'[n] \in Event /\ chain'[n].ledger = chain[n].ledger
               /\ chain'[n].decodes = chain[n].decodes /\ chain'[n].late = chain[n].late
               /\ chain'[n].alive => chain[n].alive /\ chain[n].ledger <= kept
    <3> DEFINE still == chain[n].alive /\ chain[n].ledger <= kept
    <3>1. still \in BOOLEAN OBVIOUS
    <3>2. chain'[n] = [chain[n] EXCEPT !.alive = still] BY <1>2
    <3>3. still => chain[n].alive /\ chain[n].ledger <= kept OBVIOUS
    <3> HIDE DEF still
    <3>4. chain'[n] \in Event /\ chain'[n].ledger = chain[n].ledger
          /\ chain'[n].decodes = chain[n].decodes /\ chain'[n].late = chain[n].late
          /\ chain'[n].alive = still
      BY <1>5, <3>1, <3>2 DEF Event
    <3> QED BY <3>3, <3>4
  <2> QED BY <2>1, <2>2
<1>7. IndexerTypes'
  <2>1. chain' \in [1 .. Len(chain) -> Event]
    <3> DEFINE e(n) == [chain[n] EXCEPT !.alive = @ /\ chain[n].ledger <= kept]
    <3>1. chain' = [n \in 1 .. Len(chain) |-> e(n)] BY <1>2, <1>4
    <3>2. \A n \in 1 .. Len(chain) : e(n) = chain'[n] BY <1>2, <1>4
    <3>3. \A n \in 1 .. Len(chain) : e(n) \in Event BY <1>4, <1>6, <3>2
    <3> HIDE DEF e
    <3> QED BY <3>1, <3>3
  <2>2. chain' \in Seq(Event) BY <1>4, <2>1
  <2> QED BY <1>1, <1>2, <1>3, <1>4, <2>2 DEF IndexerTypes
<1>8. \A l : AliveUpTo(l)' \subseteq AliveUpTo(l) BY <1>6 DEF AliveUpTo
<1>9. \A l : /\ Cardinality(AliveUpTo(l)') \in Nat
             /\ Cardinality(AliveUpTo(l)') <= Cardinality(AliveUpTo(l))
  BY <1>1, <1>8, AliveIsFinite, FS_Subset, FS_CardinalityType
<1>10. ChainIsWhole'
  <2>1. \A m, n \in DOMAIN chain' :
          chain'[m].alive /\ chain'[n].alive /\ m <= n => chain'[m].ledger <= chain'[n].ledger
    BY <1>1, <1>6 DEF ChainIsWhole
  <2>2. \A n \in DOMAIN chain' : chain'[n].alive => chain'[n].ledger <= tip' BY <1>2, <1>6
  <2>0. LedgerSize \in Nat /\ MaxLedger \in Nat BY DEF NoLedgerIsCut
  <2>3. tip' \in Nat /\ tip' <= tip BY <1>2, <1>4
  <2>4. \A l \in 0 .. tip' : Cardinality(AliveUpTo(l)') <= l * LedgerSize
    <3> SUFFICES ASSUME NEW l \in 0 .. tip'
                 PROVE  Cardinality(AliveUpTo(l)') <= l * LedgerSize
      OBVIOUS
    <3>1. l \in 0 .. tip BY <1>4, <2>3
    <3>2. Cardinality(AliveUpTo(l)) <= l * LedgerSize /\ Cardinality(AliveUpTo(l)) \in Nat
      BY <1>1, <3>1, AliveIsFinite DEF ChainIsWhole
    <3>3. l * LedgerSize \in Nat BY <1>4, <2>0, <3>1
    <3> DEFINE p == l * LedgerSize
               c == Cardinality(AliveUpTo(l))
    <3>4. p \in Nat /\ c \in Nat /\ c <= p BY <3>2, <3>3
    <3>5. Cardinality(AliveUpTo(l)') \in Nat /\ Cardinality(AliveUpTo(l)') <= c
      BY <1>9
    <3> HIDE DEF p, c
    <3>6. Cardinality(AliveUpTo(l)') <= p BY <3>4, <3>5
    <3> QED BY <3>6 DEF p
  <2>5. \/ /\ LedgerSize <= 1
           /\ \A m, n \in DOMAIN chain' :
                chain'[m].alive /\ chain'[n].alive /\ m < n => chain'[m].ledger < chain'[n].ledger
        \/ LedgerSize > 1 /\ Cardinality(AliveUpTo(tip)') <= PageLimit
    <3>1. CASE LedgerSize <= 1 BY <1>1, <1>6, <2>0, <3>1 DEF ChainIsWhole
    <3>2. CASE ~(LedgerSize <= 1)
      <4>1. AliveUpTo(tip)' \in SUBSET AliveUpTo(tip)
        BY <1>4, <1>6, <2>3 DEF AliveUpTo
      <4>2. IsFiniteSet(AliveUpTo(tip)) /\ Cardinality(AliveUpTo(tip)) \in Nat
        BY <1>1, AliveIsFinite
      <4>3. Cardinality(AliveUpTo(tip)) <= PageLimit
        BY <1>1, <2>0, <3>2 DEF ChainIsWhole
      <4>4. /\ Cardinality(AliveUpTo(tip)') <= Cardinality(AliveUpTo(tip))
            /\ Cardinality(AliveUpTo(tip)') \in Nat
        BY <4>1, <4>2, FS_Subset, FS_CardinalityType
      <4>5. Cardinality(AliveUpTo(tip)') <= PageLimit
        BY <4>2, <4>3, <4>4, IndexerAssumption
      <4> QED BY <2>0, <3>2, <4>5
    <3> QED BY <3>1, <3>2
  <2>6. tip' <= MaxLedger BY <1>1, <1>4, <2>0, <2>3 DEF ChainIsWhole
  <2> QED BY <2>1, <2>2, <2>4, <2>5, <2>6 DEF ChainIsWhole
<1>11. LedgersAreIndexed'
  <2>1. \A n, l : Due(n, l)' /\ n \in DOMAIN chain' => Due(n, l)
    BY <1>6 DEF Due
  <2>2. ASSUME NEW l, NEW rows, Indexed(l, rows), NEW kept2, kept2 = rows
        PROVE  \A n \in DOMAIN chain' : Due(n, l)' => Within(kept2, n)
    BY <1>6, <2>1, <2>2 DEF Indexed
  <2>3. Indexed(cursor, txRows)'
    <3>1. Indexed(cursor, txRows) BY <1>1 DEF LedgersAreIndexed
    <3> QED BY <1>3, <2>2, <3>1 DEF Indexed, Within, Due
  <2>4. ASSUME NEW l \in checkpoints PROVE Indexed(l, txRows)'
    <3>1. Indexed(l, txRows) BY <1>1 DEF LedgersAreIndexed
    <3> QED BY <1>3, <2>2, <3>1 DEF Indexed, Within, Due
  <2>5. ASSUME NEW t \in Syncs
        PROVE  (/\ sync[t].at \in {"detect", "fetch"} => Indexed(sync[t].from, txRows)
                /\ sync[t].at = "flush" => Indexed(sync[t].top, txRows \union sync[t].page)
                /\ sync[t].at = "cursor" => Indexed(sync[t].top, txRows))'
    <3>1. /\ sync[t].at \in {"detect", "fetch"} => Indexed(sync[t].from, txRows)
          /\ sync[t].at = "flush" => Indexed(sync[t].top, txRows \union sync[t].page)
          /\ sync[t].at = "cursor" => Indexed(sync[t].top, txRows)
      BY <1>1 DEF LedgersAreIndexed
    <3>2. sync[t].at \in {"detect", "fetch"} => Indexed(sync[t].from, txRows)'
      BY <1>3, <2>2, <3>1 DEF Indexed, Within, Due
    <3>3. sync[t].at = "flush" => Indexed(sync[t].top, txRows \union sync[t].page)'
      <4> DEFINE rows == txRows \union sync[t].page
                 top == sync[t].top
      <4>1. sync[t].at = "flush" => Indexed(top, rows) BY <3>1
      <4>2. top' = top /\ rows' = rows BY <1>3
      <4> SUFFICES sync[t].at = "flush" => Indexed(top, rows)' OBVIOUS
      <4> HIDE DEF rows, top
      <4> QED BY <2>2, <4>1, <4>2 DEF Indexed, Within, Due
    <3>4. sync[t].at = "cursor" => Indexed(sync[t].top, txRows)'
      BY <1>3, <2>2, <3>1 DEF Indexed, Within, Due
    <3> QED BY <1>3, <3>2, <3>3, <3>4
  <2> QED BY <1>3, <2>3, <2>4, <2>5 DEF LedgersAreIndexed
<1> QED BY <1>7, <1>10, <1>11 DEF IndexerInv

\* Every step of the indexer.
LEMMA IndexerStep ==
  ASSUME NoLedgerIsCut, IndexerInv, [IndexerNext]_indexerVars
  PROVE  IndexerInv'
<1>1. CASE CloseLedger BY <1>1, CloseKeeps
<1>2. CASE IndexerRestarts BY <1>2, IndexerRestartKeeps
<1>5. CASE Fork BY <1>5, ForkKeeps
<1>3. ASSUME NEW s \in Syncs, SyncStep(s) PROVE IndexerInv'
  BY <1>3, ReadCursorKeeps, DetectKeeps, FetchEventsKeeps, FlushKeeps, SaveCursorKeeps,
     SyncFailsKeeps DEF SyncStep
<1>4. CASE UNCHANGED indexerVars
  BY <1>4 DEF indexerVars, ledgers, indexed, reorgMemory, IndexerInv, IndexerTypes,
     ChainIsWhole, AliveUpTo, LedgersAreIndexed, Indexed, Within, Due
<1> QED BY <1>1, <1>2, <1>3, <1>4, <1>5 DEF IndexerNext

\* The first state.
LEMMA IndexerStart == ASSUME NoLedgerIsCut, IndexerInit PROVE IndexerInv
<1>1. NoSync \in SyncState /\ NoSync.at = "idle" BY DEF NoSync, SyncState
<1>2. chain = <<>> /\ Len(chain) = 0 /\ DOMAIN chain = {} /\ tip = 0 BY DEF IndexerInit
<1>3. IndexerTypes
  <2>1. chain \in Seq(Event) BY <1>2
  <2> QED BY <1>1, <1>2, <2>1 DEF IndexerInit, IndexerTypes
<1>4. ChainIsWhole
  <2>1. \A l : Cardinality(AliveUpTo(l)) = 0
    <3>1. \A l : AliveUpTo(l) = {} BY <1>2 DEF AliveUpTo
    <3> QED BY <3>1, FS_EmptySet
  <2> QED BY <1>2, <2>1, IndexerAssumption DEF ChainIsWhole, NoLedgerIsCut
<1>5. LedgersAreIndexed BY <1>1, <1>2 DEF LedgersAreIndexed, Indexed, IndexerInit
<1> QED BY <1>3, <1>4, <1>5 DEF IndexerInv

\* Every event on the chain up to the cursor that can be decoded has its row, whatever
\* syncs overlap, fail or are rolled back and however often the chain forks, unless it
\* came with a ledger that replaced one the indexer was past; as long as no page of
\* getEvents ends within a ledger.
THEOREM CursorIsHonest == NoLedgerIsCut => (IndexerSpec => []IndexedUpToCursor)
<1> SUFFICES ASSUME NoLedgerIsCut PROVE IndexerSpec => []IndexedUpToCursor OBVIOUS
<1>1. IndexerInit => IndexerInv BY IndexerStart
<1>2. IndexerInv /\ [IndexerNext]_indexerVars => IndexerInv' BY IndexerStep
<1>3. IndexerInv => IndexedUpToCursor
  BY DEF IndexerInv, LedgersAreIndexed, Indexed, Within, Due, IndexedUpToCursor
<1> QED BY <1>1, <1>2, <1>3, PTL DEF IndexerSpec

-----------------------------------------------------------------------------
(* Differential synchronization: what a call shows, given patches that lead *)
(* from each result to each other.                                          *)

\* The law of compare and applyPatch that the calls rest on.
PatchesLead == \A old, new \in Results : PatchedBy(old, PatchFor(old, new)) = new

CacheEntry == [hash : Results, data : Results]
Envelope ==
  [status : {"none"}] \union [status : {"no_change"}, hash : Results]
    \union [status : {"full"}, hash : Results, data : Results]
    \union [status : {"diff"}, hash : Results,
            patch : {PatchFor(old, new) : old \in Results, new \in Results}]
CallState ==
  [at : {"none", "sent", "answered"}, cached : SUBSET CacheEntry, envelope : Envelope,
   of : SUBSET Results]

\* At most one entry, whose data are what its hash names.
Genuine(cache) == \A d, e \in cache : d = e /\ e.data = e.hash

\* The answer to a call is right for the entry that the call was sent with.
Answers(state) ==
  \E new \in Results :
    /\ state.of = {new} /\ state.envelope.hash = new
    /\ \/ state.envelope.status = "full" /\ state.envelope.data = new
       \/ /\ state.envelope.status = "no_change"
          /\ \E e \in state.cached : e.hash = new
       \/ /\ state.envelope.status = "diff"
          /\ \E e \in state.cached : state.envelope.patch = PatchFor(e.hash, new)

DiffInv ==
  /\ result \in Results /\ stateHashes \subseteq Results
  /\ stateCache \subseteq CacheEntry /\ Genuine(stateCache)
  /\ call \in [DiffCalls -> CallState]
  /\ \A c \in DiffCalls :
       /\ Genuine(call[c].cached)
       /\ call[c].at = "answered" => Answers(call[c])

\* What the link makes of a right answer is the result it was made for.
LEMMA ReceivedIsRight ==
  ASSUME PatchesLead, DiffInv, NEW c \in DiffCalls, call[c].at = "answered"
  PROVE  Received(c) \in Results /\ call[c].of = {Received(c)}
         /\ (call[c].envelope.status # "no_change" => call[c].envelope.hash = Received(c))
<1>1. /\ Genuine(call[c].cached) /\ Answers(call[c]) /\ call[c].cached \subseteq CacheEntry
  BY DEF DiffInv, CallState
<1> DEFINE cached == call[c].cached
           envelope == call[c].envelope
           entry == CHOOSE e \in cached : TRUE
<1>2. PICK new \in Results :
        /\ call[c].of = {new} /\ envelope.hash = new
        /\ \/ envelope.status = "full" /\ envelope.data = new
           \/ envelope.status = "no_change" /\ \E e \in cached : e.hash = new
           \/ envelope.status = "diff" /\ \E e \in cached : envelope.patch = PatchFor(e.hash, new)
  BY <1>1 DEF Answers
<1>3. Received(c) = IF envelope.status = "no_change" THEN entry.data
                    ELSE IF envelope.status = "diff" THEN PatchedBy(entry.data, envelope.patch)
                    ELSE envelope.data
  BY DEF Received
<1>4. ASSUME NEW e \in cached PROVE entry = e /\ e.data = e.hash /\ e.hash \in Results
  <2>1. entry \in cached OBVIOUS
  <2> HIDE DEF entry
  <2>2. entry = e /\ e.data = e.hash BY <1>1, <2>1 DEF Genuine
  <2>3. e \in CacheEntry BY <1>1
  <2> QED BY <2>2, <2>3 DEF CacheEntry
<1> HIDE DEF entry, cached, envelope
<1>5. Received(c) = new
  <2>1. CASE envelope.status = "full" /\ envelope.data = new BY <1>3, <2>1
  <2>2. CASE envelope.status = "no_change" /\ \E e \in cached : e.hash = new
    BY <1>3, <1>4, <2>2
  <2>3. CASE envelope.status = "diff" /\ \E e \in cached : envelope.patch = PatchFor(e.hash, new)
    <3>1. PICK e \in cached : envelope.patch = PatchFor(e.hash, new) BY <2>3
    <3>2. PatchedBy(e.hash, PatchFor(e.hash, new)) = new BY <1>4 DEF PatchesLead
    <3>3. entry.data = e.hash BY <1>4
    <3> QED BY <1>3, <2>3, <3>1, <3>2, <3>3
  <2> QED BY <1>2, <2>1, <2>2, <2>3
<1> QED BY <1>2, <1>5 DEF envelope

\* What one call becomes, the others left as they are.
LEMMA CallBecomes ==
  ASSUME DiffInv, NEW c \in DiffCalls, NEW state \in CallState,
         call' = [call EXCEPT ![c] = state], Genuine(state.cached),
         state.at = "answered" => Answers(state)
  PROVE  /\ call' \in [DiffCalls -> CallState]
         /\ \A d \in DiffCalls : /\ Genuine(call'[d].cached)
                                 /\ call'[d].at = "answered" => Answers(call'[d])
<1>1. call \in [DiffCalls -> CallState] BY DEF DiffInv
<1>2. \A d \in DiffCalls : call'[d] = IF d = c THEN state ELSE call[d] BY <1>1
<1>3. call' \in [DiffCalls -> CallState] BY <1>1
<1> QED BY <1>2, <1>3 DEF DiffInv

\* A call that nothing is known of.
LEMMA NoCallIsFine == NoCall \in CallState /\ Genuine(NoCall.cached) /\ NoCall.at = "none"
BY DEF NoCall, CallState, Envelope, Genuine

\* The server answers.
LEMMA AnswerKeeps ==
  ASSUME DiffInv, NEW c \in DiffCalls, AnswerQuery(c)
  PROVE  DiffInv'
<1>1. /\ result \in Results /\ stateHashes \subseteq Results /\ call[c] \in CallState
      /\ Genuine(call[c].cached) /\ call[c].cached \subseteq CacheEntry
      /\ result' = result /\ stateCache' = stateCache
  BY DEF DiffInv, CallState, AnswerQuery
<1> DEFINE hashes == {entry.hash : entry \in call[c].cached}
           Answered(envelope) == [call[c] EXCEPT !.at = "answered", !.envelope = envelope,
                                                 !.of = {result}]
<1>2. stateHashes' \subseteq Results BY <1>1 DEF AnswerQuery
<1>3. PICK envelope :
        /\ call' = [call EXCEPT ![c].at = "answered", ![c].envelope = envelope,
                                ![c].of = {result}]
        /\ \/ result \in hashes /\ envelope = [status |-> "no_change", hash |-> result]
           \/ envelope = [status |-> "full", hash |-> result, data |-> result]
           \/ \E old \in hashes :
                envelope = [status |-> "diff", hash |-> result, patch |-> PatchFor(old, result)]
  BY DEF AnswerQuery
<1> DEFINE state == Answered(envelope)
<1>4. call' = [call EXCEPT ![c] = state]
  <2>1. call \in [DiffCalls -> CallState] BY DEF DiffInv
  <2> QED BY <1>3, <2>1 DEF CallState
<1>5. hashes \subseteq Results BY <1>1 DEF CacheEntry
<1>6. envelope \in Envelope /\ envelope.hash = result
  BY <1>1, <1>3, <1>5 DEF Envelope
<1>7. /\ state \in CallState /\ state.cached = call[c].cached /\ state.envelope = envelope
      /\ state.of = {result}
  BY <1>1, <1>6 DEF CallState
<1> HIDE DEF Answered, state
<1>8. Answers(state)
  <2>1. CASE result \in hashes /\ envelope = [status |-> "no_change", hash |-> result]
    BY <1>1, <1>7, <2>1 DEF Answers
  <2>2. CASE envelope = [status |-> "full", hash |-> result, data |-> result]
    BY <1>1, <1>7, <2>2 DEF Answers
  <2>3. CASE \E old \in hashes :
               envelope = [status |-> "diff", hash |-> result, patch |-> PatchFor(old, result)]
    BY <1>1, <1>7, <2>3 DEF Answers
  <2> QED BY <1>3, <2>1, <2>2, <2>3
<1> HIDE DEF hashes
<1>9. /\ call' \in [DiffCalls -> CallState]
      /\ \A d \in DiffCalls : /\ Genuine(call'[d].cached)
                              /\ call'[d].at = "answered" => Answers(call'[d])
  BY <1>1, <1>4, <1>7, <1>8, CallBecomes
<1> QED BY <1>1, <1>2, <1>9 DEF DiffInv

\* Every step keeps the caches genuine and the answers right.
LEMMA DiffStep ==
  ASSUME PatchesLead, DiffInv, [DiffNext]_diffVars
  PROVE  DiffInv'
<1>1. ASSUME NEW c \in DiffCalls, SendQuery(c) PROVE DiffInv'
  <2> DEFINE state == [NoCall EXCEPT !.at = "sent", !.cached = stateCache]
  <2>1. NoCall \in CallState BY NoCallIsFine
  <2>2. stateCache \subseteq CacheEntry BY DEF DiffInv
  <2>3. state \in CallState /\ state.cached = stateCache /\ state.at = "sent"
    BY <2>1, <2>2 DEF CallState
  <2>4. call' = [call EXCEPT ![c] = state] BY <1>1 DEF SendQuery
  <2> HIDE DEF state
  <2>5. Genuine(state.cached) BY <2>3 DEF DiffInv
  <2>6. /\ call' \in [DiffCalls -> CallState]
        /\ \A d \in DiffCalls : /\ Genuine(call'[d].cached)
                                /\ call'[d].at = "answered" => Answers(call'[d])
    BY <2>3, <2>4, <2>5, CallBecomes
  <2> QED BY <1>1, <2>6 DEF DiffInv, SendQuery
<1>2. ASSUME NEW c \in DiffCalls, AnswerQuery(c) PROVE DiffInv' BY <1>2, AnswerKeeps
<1>3. ASSUME NEW c \in DiffCalls, ReceiveAnswer(c) \/ CallIsLost(c) PROVE DiffInv'
  <2>1. call' = [call EXCEPT ![c] = NoCall] /\ result' = result /\ stateHashes' = stateHashes
    BY <1>3 DEF ReceiveAnswer, CallIsLost
  <2>2. /\ call' \in [DiffCalls -> CallState]
        /\ \A d \in DiffCalls : /\ Genuine(call'[d].cached)
                                /\ call'[d].at = "answered" => Answers(call'[d])
    BY <2>1, NoCallIsFine, CallBecomes
  <2>3. stateCache' \subseteq CacheEntry /\ Genuine(stateCache')
    <3>1. CASE stateCache' = stateCache BY <3>1 DEF DiffInv
    <3>2. CASE stateCache' # stateCache
      <4> DEFINE shown == Received(c)
      <4>1. /\ call[c].at = "answered" /\ call[c].envelope.status # "no_change"
            /\ stateCache' = {[hash |-> call[c].envelope.hash, data |-> shown]}
        BY <1>3, <3>2 DEF ReceiveAnswer, CallIsLost
      <4>2. shown \in Results /\ call[c].envelope.hash = shown BY <4>1, ReceivedIsRight
      <4> HIDE DEF shown
      <4> QED BY <4>1, <4>2 DEF CacheEntry, Genuine
    <3> QED BY <3>1, <3>2
  <2> QED BY <2>1, <2>2, <2>3 DEF DiffInv
<1>4. CASE ResultChanges BY <1>4 DEF ResultChanges, DiffInv
<1>5. CASE HashExpires BY <1>5 DEF HashExpires, DiffInv
<1>6. CASE UNCHANGED diffVars BY <1>6 DEF diffVars, DiffInv
<1> QED BY <1>1, <1>2, <1>3, <1>4, <1>5, <1>6 DEF DiffNext

\* However calls overlap, answers are lost and keys expire, a call hands to the page what
\* the query returned when the server answered it, as long as patches lead from each
\* result to each other.
THEOREM AnswersAreShown == PatchesLead => (DiffSpec => []ShownAsAnswered)
<1> SUFFICES ASSUME PatchesLead PROVE DiffSpec => []ShownAsAnswered OBVIOUS
<1>1. DiffInit => DiffInv
  <2> SUFFICES ASSUME DiffInit PROVE DiffInv OBVIOUS
  <2>1. call \in [DiffCalls -> CallState] /\ \A c \in DiffCalls : call[c] = NoCall
    BY NoCallIsFine DEF DiffInit
  <2>2. result \in Results /\ stateHashes = {} /\ stateCache = {} BY DEF DiffInit
  <2> QED BY <2>1, <2>2, NoCallIsFine DEF DiffInv, Genuine
<1>2. DiffInv /\ [DiffNext]_diffVars => DiffInv' BY DiffStep
<1>3. DiffInv => ShownAsAnswered BY ReceivedIsRight DEF ShownAsAnswered
<1> QED BY <1>1, <1>2, <1>3, PTL DEF DiffSpec
=============================================================================
