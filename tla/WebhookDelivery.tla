-------------------------- MODULE WebhookDelivery ---------------------------
(***************************************************************************)
(* Outgoing webhooks of one organization: webhookService.ts queues an      *)
(* event, a slot of WebhookWorker.ts takes it, posts it, records the       *)
(* delivery, and deletes, defers or dead-letters it.  The queue is SQS or  *)
(* BullMQ; a step ends where the worker awaits the database, the receiver  *)
(* or a queue, and each of them may fail.                                  *)
(*                                                                         *)
(* External: the queues (a message taken from SQS is hidden and comes back *)
(* when its time is over; BullMQ takes a stalled job back, or fails it),   *)
(* the receiver, and the moment the stale cache is refreshed.              *)
(***************************************************************************)
EXTENDS Integers

CONSTANTS Events, Slots, NoEvent,
          MaxTries   \* WEBHOOK_QUEUE_MAX_RECEIVE_COUNT, and attempts of a job

ASSUME WebhookAssumption == MaxTries \in Nat \ {0} /\ NoEvent \notin Events

VARIABLES provider,      \* WEBHOOK_QUEUE_PROVIDER
          dlqEnabled,    \* webhookDlqService.isEnabled()
          hookUrl,       \* the organization has a webhook URL
          cachedUrl,     \* what the stale cache says of it
          copy,          \* the event's place in the queue
          tries,         \* times it was taken, counted up to MaxTries
          slot,          \* what each worker slot does
          received,      \* history: events the receiver got
          deadLetters    \* events in the dead letter queue

hookConfig == <<provider, dlqEnabled, hookUrl, cachedUrl>>
hookQueue == <<copy, tries>>
hookVars == <<hookConfig, hookQueue, slot, received, deadLetters>>

FreeSlot == [at |-> "free", event |-> NoEvent, try |-> 0, verdict |-> "none"]

HookInit ==
  /\ provider \in {"sqs", "bullmq"}
  /\ dlqEnabled \in BOOLEAN
  /\ hookUrl = FALSE /\ cachedUrl = FALSE
  /\ copy = [e \in Events |-> "unsent"]
  /\ tries = [e \in Events |-> 0]
  /\ slot = [w \in Slots |-> FreeSlot]
  /\ received = {} /\ deadLetters = {}

-----------------------------------------------------------------------------
(* Configuration and queueing.                                             *)

\* The row is written, then the cached copy is dropped; until then, and when a
\* refresh overtakes it, readers see the copy.
UpdateConfig ==
  /\ ~hookUrl
  /\ hookUrl' = TRUE
  /\ UNCHANGED <<provider, dlqEnabled, cachedUrl, hookQueue, slot, received, deadLetters>>

ReadConfigAgain ==
  /\ cachedUrl # hookUrl
  /\ cachedUrl' = hookUrl
  /\ UNCHANGED <<provider, dlqEnabled, hookUrl, hookQueue, slot, received, deadLetters>>

\* Without a URL in the cached configuration the event is dropped, and the caller
\* is told that all went well; if the queue throws, the caller is told.
QueueWebhook(e) ==
  /\ copy[e] = "unsent"
  /\ \E place \in IF cachedUrl THEN {"waiting", "refused"} ELSE {"skipped"} :
       copy' = [copy EXCEPT ![e] = place]
  /\ UNCHANGED <<hookConfig, tries, slot, received, deadLetters>>

-----------------------------------------------------------------------------
(* The worker.                                                             *)

Take(w, e) ==
  LET n == IF tries[e] < MaxTries THEN tries[e] + 1 ELSE MaxTries
  IN  /\ slot[w] = FreeSlot
      /\ copy[e] = "waiting"
      /\ copy' = [copy EXCEPT ![e] = "hidden"]
      /\ tries' = [tries EXCEPT ![e] = n]
      /\ slot' = [slot EXCEPT ![w] = [at |-> "post", event |-> e, try |-> n, verdict |-> "none"]]
      /\ UNCHANGED <<hookConfig, received, deadLetters>>

Proceed(w, place, verdict) ==
  slot' = [slot EXCEPT ![w].at = place, ![w].verdict = verdict]

\* Reads the configuration and posts.  A database error and a network error or
\* timeout (the receiver may have got it) are retryable, as is a status of
\* 408, 425, 429 or 500 and more; any other status is not.
Post(w) ==
  /\ slot[w].at = "post"
  /\ \/ /\ received' = received \union {slot[w].event}
        /\ \E verdict \in {"ok", "retry"} : Proceed(w, "record", verdict)
     \/ /\ UNCHANGED received
        /\ \/ \E verdict \in {"retry", "fatal"} : Proceed(w, "record", verdict)
           \/ Proceed(w, "settle", "retry")
  /\ UNCHANGED <<hookConfig, hookQueue, deadLetters>>

\* createDelivery; if it throws, whatever the receiver answered counts as a
\* retryable failure.
RecordDelivery(w) ==
  /\ slot[w].at = "record"
  /\ \E verdict \in {slot[w].verdict, "retry"} : Proceed(w, "settle", verdict)
  /\ UNCHANGED <<hookConfig, hookQueue, received, deadLetters>>

\* Slip: not counting the attempts.
OnlyFatal(w) == slot[w].verdict = "fatal"
FinalAttempt(w) ==
  slot[w].verdict = "fatal" \/ (slot[w].verdict = "retry" /\ slot[w].try >= MaxTries)

\* The slot is free again and the event is at place.
LeaveAt(w, place) ==
  /\ copy' = [copy EXCEPT ![slot[w].event] = place]
  /\ slot' = [slot EXCEPT ![w] = FreeSlot]
  /\ UNCHANGED <<hookConfig, tries, received, deadLetters>>

\* A delivered SQS message is deleted, unless its receipt is out of date; a delete
\* that throws is handled like a failed delivery.  BullMQ removes a completed job.
Complete(w) ==
  /\ slot[w].at = "settle" /\ slot[w].verdict = "ok"
  /\ \/ LeaveAt(w, "gone")
     \/ /\ provider = "sqs"
        /\ \/ LeaveAt(w, copy[slot[w].event])
           \/ /\ Proceed(w, "settle", "retry")
              /\ UNCHANGED <<hookConfig, hookQueue, received, deadLetters>>

\* The message stays hidden until its time is over, also when changing that time
\* throws; the job waits for its backoff.
Defer(w) ==
  /\ slot[w].at = "settle" /\ slot[w].verdict = "retry" /\ ~FinalAttempt(w)
  /\ LeaveAt(w, IF provider = "sqs" THEN copy[slot[w].event] ELSE "waiting")

\* Slip: taking the message off the queue whatever became of its dead letter.
RouteThenDelete(w, routed) ==
  /\ deadLetters' = IF routed THEN deadLetters \union {slot[w].event} ELSE deadLetters
  /\ Proceed(w, "remove", "fatal")
  /\ UNCHANGED <<hookConfig, hookQueue, received>>

\* Only a message whose dead letter was accepted goes on to be deleted; the others
\* stay in the queue.  BullMQ keeps the failed job in any case.
AfterRouting(w, routed) ==
  /\ deadLetters' = IF routed THEN deadLetters \union {slot[w].event} ELSE deadLetters
  /\ IF provider = "sqs" /\ routed
     THEN Proceed(w, "remove", "fatal") /\ UNCHANGED copy
     ELSE /\ slot' = [slot EXCEPT ![w] = FreeSlot]
          /\ copy' = IF provider = "sqs" THEN copy
                     ELSE [copy EXCEPT ![slot[w].event] = "failed"]
  /\ UNCHANGED <<hookConfig, tries, received>>

RouteFailureToDlq(w) ==
  /\ slot[w].at = "settle" /\ FinalAttempt(w)
  /\ \E routed \in {FALSE, dlqEnabled} : AfterRouting(w, routed)

\* A delete that throws, or whose receipt is out of date, leaves the message.
DeleteRouted(w) ==
  /\ slot[w].at = "remove"
  /\ \E place \in {"gone", copy[slot[w].event]} : LeaveAt(w, place)

SlotDies(w) ==
  /\ slot[w].at # "free"
  /\ slot' = [slot EXCEPT ![w] = FreeSlot]
  /\ UNCHANGED <<hookConfig, hookQueue, received, deadLetters>>

-----------------------------------------------------------------------------
(* The queues.                                                             *)

Holders(e) == {w \in Slots : slot[w].event = e}

\* SQS shows the message again when its visibility timeout is over, also while a
\* slow slot still works on it.
Reappear(e) ==
  /\ provider = "sqs" /\ copy[e] = "hidden"
  /\ copy' = [copy EXCEPT ![e] = "waiting"]
  /\ UNCHANGED <<hookConfig, tries, slot, received, deadLetters>>

\* BullMQ gives a job whose worker is gone to another one, without counting the
\* attempt, or fails it when it stalls once too often.
Stall(e) ==
  /\ provider = "bullmq" /\ copy[e] = "hidden" /\ Holders(e) = {}
  /\ \/ /\ copy' = [copy EXCEPT ![e] = "waiting"]
        /\ tries' = [tries EXCEPT ![e] = @ - 1]
     \/ /\ copy' = [copy EXCEPT ![e] = "failed"]
        /\ UNCHANGED tries
  /\ UNCHANGED <<hookConfig, slot, received, deadLetters>>

-----------------------------------------------------------------------------

SlotStep(w) ==
  \/ \E e \in Events : Take(w, e)
  \/ Post(w) \/ RecordDelivery(w) \/ Complete(w) \/ Defer(w)
  \/ RouteFailureToDlq(w) \/ DeleteRouted(w) \/ SlotDies(w)

HookNext ==
  \/ UpdateConfig \/ ReadConfigAgain
  \/ \E e \in Events : QueueWebhook(e) \/ Reappear(e) \/ Stall(e)
  \/ \E w \in Slots : SlotStep(w)

HookSpec == HookInit /\ [][HookNext]_hookVars

\* Slots poll and finish what they took, time passes for hidden messages, and
\* neither deaths nor failing calls defeat a slot for ever.
HookFairness ==
  /\ \A e \in Events : WF_hookVars(Reappear(e)) /\ WF_hookVars(Stall(e))
  /\ \A w \in Slots :
       /\ \A e \in Events : SF_hookVars(Take(w, e))
       /\ SF_hookVars(Post(w)) /\ SF_hookVars(RecordDelivery(w))
       /\ SF_hookVars(Complete(w) /\ copy' # copy) /\ SF_hookVars(Defer(w))
       /\ SF_hookVars(RouteFailureToDlq(w) /\ slot'[w].at = "remove")
       /\ SF_hookVars(RouteFailureToDlq(w))
       /\ SF_hookVars(DeleteRouted(w) /\ copy' # copy)

FairHookSpec == HookSpec /\ HookFairness

-----------------------------------------------------------------------------
(* Properties.                                                             *)

Promise == INSTANCE AtLeastOnce
  WITH owed <- {e \in Events : copy[e] \in {"waiting", "hidden"}},
       given <- received,
       kept <- deadLetters \union {e \in Events : copy[e] = "failed"}

\* The worker keeps the promise of the queue, whichever queue it is, with the dead
\* letter queue on or off, whatever throws and whenever a worker dies: an event that
\* was queued leaves the queue only when the receiver got it or it was put aside.
KeepsThePromise == Promise!PromiseSpec

\* With the dead letter queue on, no event circles in the queue for ever: it ends up
\* deleted, or kept as a failed job.
EveryWebhookSettles ==
  \A e \in Events :
    copy[e] = "waiting" /\ dlqEnabled ~> copy[e] \in {"gone", "failed"}
=============================================================================
