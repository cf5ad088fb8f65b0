------------------------------ MODULE DiffSync ------------------------------
(***************************************************************************)
(* Differential synchronization of one query: the browser names the result *)
(* it holds by its hash (diffSyncLink in trpc/client.ts), the server looks *)
(* up that result in Redis and answers with a patch (trpc/server.ts).  How *)
(* a patch is made and applied is a parameter: TreePatches says how the    *)
(* two trpc/diff.ts do it.                                                 *)
(*                                                                         *)
(* cyrb53 of the serialized result is taken for injective, so the hash of  *)
(* a result is the result itself.                                          *)
(*                                                                         *)
(* External: Redis, whose keys expire and whose calls may fail, and the    *)
(* network, where an answer is late or lost.                               *)
(***************************************************************************)
CONSTANTS Results,           \* what the query may return
          DiffCalls,         \* calls of the query that may be under way at once
          PatchFor(_, _),    \* compare: the patch from one result to another
          PatchedBy(_, _)    \* applyPatch: a result with a patch applied to it

VARIABLES result,      \* what the query returns now
          stateHashes, \* results kept in Redis under their hash
          stateCache,  \* clientStateCache: a set with at most one [hash, data]
          call         \* per call: the entry read before it and the answer to it

diffVars == <<result, stateHashes, stateCache, call>>

NoCall == [at |-> "none", cached |-> {}, envelope |-> [status |-> "none"], of |-> {}]

DiffInit ==
  /\ result \in Results
  /\ stateHashes = {} /\ stateCache = {}
  /\ call = [c \in DiffCalls |-> NoCall]

-----------------------------------------------------------------------------
(* Calls.                                                                  *)

\* The entry is read before the request and used when the answer arrives.
SendQuery(c) ==
  /\ call[c] = NoCall
  /\ call' = [call EXCEPT ![c] = [NoCall EXCEPT !.at = "sent", !.cached = stateCache]]
  /\ UNCHANGED <<result, stateHashes, stateCache>>

\* safeSet and safeGet swallow the errors of Redis, and a key may be gone.
AnswerQuery(c) ==
  /\ call[c].at = "sent"
  /\ LET hashes == {entry.hash : entry \in call[c].cached}
         full == [status |-> "full", hash |-> result, data |-> result]
         Answered(envelope) ==
           call' = [call EXCEPT ![c].at = "answered", ![c].envelope = envelope, ![c].of = {result}]
     IN  IF result \in hashes
         THEN /\ Answered([status |-> "no_change", hash |-> result])
              /\ UNCHANGED stateHashes
         ELSE /\ stateHashes' \in {stateHashes, stateHashes \union {result}}
              /\ \/ Answered(full)
                 \/ \E old \in hashes \intersect stateHashes :
                      Answered([status |-> "diff", hash |-> result, patch |-> PatchFor(old, result)])
  /\ UNCHANGED <<result, stateCache>>

\* What the link makes of the answer.
Received(c) ==
  LET envelope == call[c].envelope
      entry == CHOOSE e \in call[c].cached : TRUE
  IN  IF envelope.status = "no_change" THEN entry.data
      ELSE IF envelope.status = "diff" THEN PatchedBy(entry.data, envelope.patch)
      ELSE envelope.data

ReceiveAnswer(c) ==
  /\ call[c].at = "answered"
  /\ stateCache' = IF call[c].envelope.status = "no_change" THEN stateCache
                   ELSE {[hash |-> call[c].envelope.hash, data |-> Received(c)]}
  /\ call' = [call EXCEPT ![c] = NoCall]
  /\ UNCHANGED <<result, stateHashes>>

CallIsLost(c) ==
  /\ call[c] # NoCall
  /\ call' = [call EXCEPT ![c] = NoCall]
  /\ UNCHANGED <<result, stateHashes, stateCache>>

ResultChanges ==
  /\ result' \in Results \ {result}
  /\ UNCHANGED <<stateHashes, stateCache, call>>

HashExpires ==
  /\ \E hash \in stateHashes : stateHashes' = stateHashes \ {hash}
  /\ UNCHANGED <<result, stateCache, call>>

DiffNext ==
  \/ ResultChanges \/ HashExpires
  \/ \E c \in DiffCalls :
       SendQuery(c) \/ AnswerQuery(c) \/ ReceiveAnswer(c) \/ CallIsLost(c)

DiffSpec == DiffInit /\ [][DiffNext]_diffVars

-----------------------------------------------------------------------------
(* However calls overlap, answers are lost and keys expire, what a call      *)
(* hands to the page is what the query returned when the server answered it: *)
(* a patch leads from any result to any other, and it is applied to the      *)
(* result it was made for.                                                   *)
ShownAsAnswered ==
  \A c \in DiffCalls : call[c].at = "answered" => call[c].of = {Received(c)}
=============================================================================
