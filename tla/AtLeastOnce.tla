---------------------------- MODULE AtLeastOnce -----------------------------
(***************************************************************************)
(* What the webhook queue promises: an event it accepted is owed until it  *)
(* was given to its receiver or kept for an operator.  It may be given     *)
(* more than once, kept although it was given, and given when it is no     *)
(* longer owed.                                                            *)
(***************************************************************************)
CONSTANT Events

VARIABLES owed,   \* accepted events that the queue still works on
          given,  \* events the receiver got
          kept    \* events put aside: dead letters and failed jobs

promiseVars == <<owed, given, kept>>

PromiseInit == owed = {} /\ given = {} /\ kept = {}

Accept(e) ==
  /\ e \notin owed \union given \union kept
  /\ owed' = owed \union {e}
  /\ UNCHANGED <<given, kept>>

Give(e) ==
  /\ e \in owed \union given \union kept
  /\ given' = given \union {e}
  /\ UNCHANGED <<owed, kept>>

\* Putting aside may close the event in the same step.
Keep(e) ==
  /\ e \in owed \union given \union kept
  /\ kept' = kept \union {e}
  /\ owed' \in {owed, owed \ {e}}
  /\ UNCHANGED given

Close(e) ==
  /\ e \in owed /\ e \in given \union kept
  /\ owed' = owed \ {e}
  /\ UNCHANGED <<given, kept>>

PromiseNext == \E e \in Events : Accept(e) \/ Give(e) \/ Keep(e) \/ Close(e)

PromiseSpec == PromiseInit /\ [][PromiseNext]_promiseVars
=============================================================================
