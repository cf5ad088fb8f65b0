---------------------------- MODULE OfflineDrafts ---------------------------
(***************************************************************************)
(* A form draft that is edited in several tabs and must survive offline    *)
(* use: useCRDTDraft (useOffline.ts), the Yjs document in each tab's       *)
(* worker (crdt-worker.ts) and the one row IndexedDB keeps for the draft   *)
(* (crdtManager.ts).  The worker reports every local edit twice, first as  *)
(* a delta and then, in the answer to the request, as the whole state, and *)
(* the main thread writes both over the row; edits reach the other tabs'   *)
(* workers over a BroadcastChannel.  A request to the worker that takes    *)
(* ten seconds, and a request IndexedDB rejects, are given up: the caller  *)
(* logs it or ignores it, and nothing is tried again.                      *)
(*                                                                         *)
(* External: Yjs merges updates in any order but cannot show an edit       *)
(* before the earlier edits of the same session; IndexedDB runs the        *)
(* requests of one tab in order.  A document is the set of its edits.      *)
(* The sync engine is not here: it never finds an update to push.          *)
(***************************************************************************)
EXTENDS Integers, Sequences, FiniteSets

CONSTANTS Tabs, MaxEdits, MaxUpsets, MaxFailures     \* the last three are bounds

VARIABLES doc,        \* [tab -> the edits its worker's document holds]
          channel,    \* [tab -> updates broadcast to it, not yet received]
          toMain,     \* [tab -> messages of its worker to its main thread]
          jobs,       \* [tab -> writes under way]
          row,        \* what IndexedDB holds of the draft
          fields,     \* [tab -> the edits the form shows]
          ready,      \* [tab -> the form has been restored and hears of updates]
          edits,      \* history: all edits made
          resumed,    \* history: the row was there before the tabs were opened
          reloads,    \* history: tabs reloaded so far
          clears,     \* history: drafts cleared so far
          failures,   \* history: requests given up so far
          lost,       \* history: since the last edit a whole state was not written
          loads       \* [tab -> loads of it so far]

draftVars == <<doc, channel, toMain, jobs, row, fields, ready,
               edits, resumed, reloads, clears, failures, lost, loads>>

OldEdit == [tab |-> "any", session |-> 0, nr |-> 0]

NoRow == [exists |-> FALSE, state |-> {}, deleted |-> FALSE]

(* All tabs have opened the draft: a new one, or one with an edit in it.   *)
DraftInit ==
  /\ resumed \in BOOLEAN
  /\ edits = IF resumed THEN {OldEdit} ELSE {}
  /\ row = [exists |-> resumed, state |-> edits, deleted |-> FALSE]
  /\ doc = [t \in Tabs |-> edits] /\ fields = doc
  /\ channel = [t \in Tabs |-> <<>>] /\ toMain = channel /\ jobs = channel
  /\ ready = [t \in Tabs |-> TRUE]
  /\ reloads = 0 /\ clears = 0 /\ loads = [t \in Tabs |-> 0]
  /\ failures = 0 /\ lost = FALSE

Earlier(e, all) == {f \in all : f.tab = e.tab /\ f.session = e.session /\ f.nr < e.nr}
Shown(state) == {e \in state : Earlier(e, edits) \subseteq state}
Say(t, message) == toMain' = [toMain EXCEPT ![t] = Append(@, message)]
Fail == failures < MaxFailures /\ failures' = failures + 1
-----------------------------------------------------------------------------
(* The form shows the edit at once; the worker applies it and reports the  *)
(* delta and the whole state, in this order, and broadcasts the delta.     *)
SetField(t) ==
  /\ Cardinality(edits \ {OldEdit}) < MaxEdits
  /\ LET e == [tab |-> t, session |-> loads[t],
               nr |-> Cardinality({f \in edits : f.tab = t /\ f.session = loads[t]})]
         whole == doc[t] \cup {e}
     IN  /\ edits' = edits \cup {e}
         /\ doc' = [doc EXCEPT ![t] = whole]
         /\ fields' = [fields EXCEPT ![t] = @ \cup {e}]
         /\ toMain' = [toMain EXCEPT ![t] = @ \o <<[kind |-> "delta", state |-> {e}],
                                                   [kind |-> "answer", state |-> whole]>>]
         /\ channel' = [u \in Tabs |-> IF u = t THEN channel[u] ELSE Append(channel[u], {e})]
  /\ lost' = FALSE
  /\ UNCHANGED <<jobs, row, ready, resumed, reloads, clears, failures, loads>>

(* Another tab's edit: merged, and reported with the whole state.          *)
ReceiveBroadcast(t) ==
  /\ channel[t] # <<>>
  /\ LET whole == doc[t] \cup Head(channel[t])
     IN  /\ doc' = [doc EXCEPT ![t] = whole]
         /\ Say(t, [kind |-> "merged", state |-> whole])
  /\ channel' = [channel EXCEPT ![t] = Tail(@)]
  /\ UNCHANGED <<jobs, row, fields, ready, edits, resumed, reloads, clears, failures, lost, loads>>

(* The main thread starts a write for each message, and shows the state    *)
(* that comes with a merge once the form is ready.                         *)
OnWorkerMessage(t) ==
  /\ toMain[t] # <<>>
  /\ LET m == Head(toMain[t])
     IN  /\ jobs' = [jobs EXCEPT ![t] = Append(@, [kind |-> m.kind, state |-> m.state,
                                                   read |-> FALSE, existing |-> NoRow])]
         /\ fields' = [fields EXCEPT ![t] =
              IF m.kind = "merged" /\ ready[t] THEN Shown(m.state) ELSE @]
  /\ toMain' = [toMain EXCEPT ![t] = Tail(@)]
  /\ UNCHANGED <<doc, channel, row, ready, edits, resumed, reloads, clears, failures, lost, loads>>

(* The answer comes after sendRequest has given the request up: setField   *)
(* has caught the error, and the state that is in the answer is not        *)
(* written.  The delta came as a message of its own.                       *)
AnswerComesLate(t) ==
  /\ toMain[t] # <<>> /\ Head(toMain[t]).kind = "answer"
  /\ Fail /\ lost' = TRUE
  /\ toMain' = [toMain EXCEPT ![t] = Tail(@)]
  /\ UNCHANGED <<doc, channel, jobs, row, fields, ready, edits, resumed, reloads, clears, loads>>

(* A write first reads the row, and may do so before the write ahead of it *)
(* is through.                                                             *)
ReadRow(t, i) ==
  /\ i \in DOMAIN jobs[t] /\ ~jobs[t][i].read
  /\ \A k \in 1 .. i - 1 : jobs[t][k].read
  /\ LET job == jobs[t][i]
         seen == IF job.kind = "answer" THEN job.existing ELSE row
     IN  jobs' = [jobs EXCEPT ![t][i] = [job EXCEPT !.read = TRUE, !.existing = seen]]
  /\ UNCHANGED <<doc, channel, toMain, row, fields, ready,
                 edits, resumed, reloads, clears, failures, lost, loads>>

(* The get or the put is rejected.  Either way the write is over and the   *)
(* row is as it was: the error is caught at crdtManager.ts:74,             *)
(* useOffline.ts:261 or useOffline.ts:273.                                 *)
RequestFails(t) ==
  /\ jobs[t] # <<>> /\ Head(jobs[t]).read
  /\ Fail
  /\ lost' = IF Head(jobs[t]).kind \in {"answer", "merged"} THEN TRUE ELSE lost
  /\ jobs' = [jobs EXCEPT ![t] = Tail(@)]
  /\ UNCHANGED <<doc, channel, toMain, row, fields, ready, edits, resumed, reloads, clears, loads>>

\* Slip: the snapshot is stored without the state of the document.
PersistDataOnly(t) ==
  /\ jobs[t] # <<>> /\ Head(jobs[t]).read /\ Head(jobs[t]).kind = "answer"
  /\ row' = [exists |-> TRUE, state |-> {}, deleted |-> FALSE]
  /\ \/ fields' = [fields EXCEPT ![t] = Shown(Head(jobs[t]).state)] /\ UNCHANGED failures
     \/ Fail /\ UNCHANGED fields
  /\ jobs' = [jobs EXCEPT ![t] = Tail(@)]
  /\ UNCHANGED <<doc, channel, toMain, ready, edits, resumed, reloads, clears, lost, loads>>

(* persistDocument: the whole state replaces the row, and the form then    *)
(* shows what the answer said, unless the entry in the log of updates,     *)
(* which is put next, is rejected.                                         *)
PersistDocument(t) ==
  /\ jobs[t] # <<>> /\ Head(jobs[t]).read /\ Head(jobs[t]).kind = "answer"
  /\ row' = [exists |-> TRUE, state |-> Head(jobs[t]).state, deleted |-> FALSE]
  /\ \/ fields' = [fields EXCEPT ![t] = Shown(Head(jobs[t]).state)] /\ UNCHANGED failures
     \/ Fail /\ UNCHANGED fields
  /\ jobs' = [jobs EXCEPT ![t] = Tail(@)]
  /\ UNCHANGED <<doc, channel, toMain, ready, edits, resumed, reloads, clears, lost, loads>>

(* _persistIncrementalUpdate: the row as it was read is written back, with *)
(* whatever the update holds as its state.                                 *)
PersistIncrementalUpdate(t) ==
  /\ jobs[t] # <<>> /\ Head(jobs[t]).read /\ Head(jobs[t]).kind \in {"delta", "merged"}
  /\ LET job == Head(jobs[t])
     IN  row' = IF job.existing.exists THEN [job.existing EXCEPT !.state = job.state] ELSE row
  /\ jobs' = [jobs EXCEPT ![t] = Tail(@)]
  /\ UNCHANGED <<doc, channel, toMain, fields, ready,
                 edits, resumed, reloads, clears, failures, lost, loads>>

(* clearDraft empties the form and starts the deletion; the worker keeps   *)
(* its document.                                                           *)
ClearDraft(t) ==
  /\ reloads + clears < MaxUpsets /\ clears' = clears + 1
  /\ jobs' = [jobs EXCEPT ![t] = Append(@, [kind |-> "clear", state |-> {},
                                           read |-> FALSE, existing |-> NoRow])]
  /\ fields' = [fields EXCEPT ![t] = {}]
  /\ UNCHANGED <<doc, channel, toMain, row, ready, edits, resumed, reloads, failures, lost, loads>>

(* deleteDocument: the row as it was read is written back, marked.         *)
DeleteDocument(t) ==
  /\ jobs[t] # <<>> /\ Head(jobs[t]).read /\ Head(jobs[t]).kind = "clear"
  /\ LET old == Head(jobs[t]).existing
     IN  row' = IF old.exists THEN [old EXCEPT !.deleted = TRUE] ELSE row
  /\ jobs' = [jobs EXCEPT ![t] = Tail(@)]
  /\ UNCHANGED <<doc, channel, toMain, fields, ready,
                 edits, resumed, reloads, clears, failures, lost, loads>>

(* The tab is loaded again, and what was under way is lost.                *)
Restart(t, state, shown, restored) ==
  /\ reloads + clears < MaxUpsets
  /\ reloads' = reloads + 1 /\ loads' = [loads EXCEPT ![t] = @ + 1]
  /\ doc' = [doc EXCEPT ![t] = state]
  /\ fields' = [fields EXCEPT ![t] = shown]
  /\ ready' = [ready EXCEPT ![t] = restored]
  /\ channel' = [channel EXCEPT ![t] = <<>>]
  /\ toMain' = [toMain EXCEPT ![t] = <<>>] /\ jobs' = [jobs EXCEPT ![t] = <<>>]
  /\ UNCHANGED <<row, edits, resumed, clears, lost>>

(* initDocument restores the row's state, marked deleted or not, and the   *)
(* form takes it from the worker.  The first request or the read of the    *)
(* row may fail, the restoring one be given up while the worker serves it  *)
(* still, or the worker's state come too late for the form.                *)
ReloadTab(t) ==
  \/ Restart(t, Shown(row.state), Shown(row.state), TRUE) /\ UNCHANGED failures
  \/ Fail /\ Restart(t, {}, {}, FALSE)
  \/ Fail /\ \E restored \in BOOLEAN : Restart(t, Shown(row.state), {}, restored)

DraftNext ==
  \E t \in Tabs :
    \/ SetField(t) \/ ReceiveBroadcast(t) \/ ClearDraft(t)
    \/ OnWorkerMessage(t) \/ AnswerComesLate(t)
    \/ \E i \in DOMAIN jobs[t] : ReadRow(t, i)
    \/ PersistDocument(t) \/ PersistIncrementalUpdate(t) \/ DeleteDocument(t)
    \/ RequestFails(t)
    \/ ReloadTab(t)

DraftSpec == DraftInit /\ [][DraftNext]_draftVars
-----------------------------------------------------------------------------
Quiet == \A t \in Tabs : channel[t] = <<>> /\ toMain[t] = <<>> /\ jobs[t] = <<>>

(* crdtManager.ts: with a draft that was in the row already and no tab     *)
(* reloaded, once nothing is under way every worker has every edit of      *)
(* every tab, whatever was given up; and the row has them all too, or is   *)
(* marked deleted, unless a whole state was not written since the last     *)
(* edit.  So deltas that are written over the row are made up for by       *)
(* writes of tabs that agree on nothing, and what was lost is made up for  *)
(* by the next edit in any tab; but not before, as nothing is retried.     *)
(* (The first writes of a new draft may be lost: an update that finds no   *)
(* row is not stored; a deletion writes back an old state.)                *)
StoredDraftIsComplete ==
  resumed /\ reloads = 0 /\ Quiet =>
    /\ \A t \in Tabs : doc[t] = edits
    /\ lost \/ row.deleted \/ row.state = edits
=============================================================================
