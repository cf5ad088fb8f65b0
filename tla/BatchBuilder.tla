---------------------------- MODULE BatchBuilder ----------------------------
(***************************************************************************)
(* The batch page (dashboard/batch/page.tsx): the user collects operations *)
(* with the operations they depend on, a worker sorts them topologically   *)
(* (Kahn's algorithm, dagSorter.ts) and builds one transaction of them,    *)
(* and the user has it signed and submitted.  The page stays editable      *)
(* while the worker runs and after it has answered.                        *)
(*                                                                         *)
(* External: the wallet, which may decline, and the network.               *)
(***************************************************************************)
EXTENDS Integers, Sequences, FiniteSets, Functions

CONSTANTS OperationIds, MaxDependencies, MaxChanges    \* the last two are bounds

VARIABLES intents,     \* the page's list
          building,    \* the worker's input, <<>> while it does not run
          degree,      \* [id -> dependencies not yet sorted] of that input
          queue,       \* operations ready to be taken
          sorted,      \* the worker's output so far
          generated,   \* the transaction shown to the user: its operations
          submitting, sortError,
          changes        \* history: changes made to the list

batchVars == <<intents, building, degree, queue, sorted, generated, submitting,
               sortError, changes>>
worker == <<building, degree, queue, sorted>>

BatchInit ==
  /\ intents = <<>> /\ generated = <<>> /\ submitting = FALSE /\ sortError = "none"
  /\ building = <<>> /\ degree = <<>> /\ queue = <<>> /\ sorted = <<>> /\ changes = 0

IdSet(ops) == {ops[i].id : i \in DOMAIN ops}
DependsOn(op, id) == id \in Range(op.dependencies)

\* Array.filter: what stands at the given places, in the order it stands there.
Kept(s, places) ==
  LET upTo[k \in 0 .. Len(s)] ==
        IF k = 0 THEN <<>>
        ELSE IF k \in places THEN Append(upTo[k - 1], s[k]) ELSE upTo[k - 1]
  IN  upTo[Len(s)]
-----------------------------------------------------------------------------
(* Editing the list.  The id must be new; dependencies are free text and   *)
(* may repeat, name the operation itself, or name none there is.           *)
Edit(list) == changes < MaxChanges /\ changes' = changes + 1 /\ intents' = list

HandleAddOperation(id, dependencies) ==
  /\ id \notin IdSet(intents)
  /\ Edit(Append(intents, [id |-> id, dependencies |-> dependencies]))
  /\ UNCHANGED <<worker, generated, submitting, sortError>>

HandleRemoveOperation(id) ==
  /\ id \in IdSet(intents)
  /\ Edit(Kept(intents, {i \in DOMAIN intents : intents[i].id # id}))
  /\ UNCHANGED <<worker, generated, submitting, sortError>>

LinearDemo == <<[id |-> "fund", dependencies |-> <<>>],
                [id |-> "allocate", dependencies |-> <<"fund">>],
                [id |-> "claim", dependencies |-> <<"allocate">>]>>
BranchingDemo == <<[id |-> "metadata", dependencies |-> <<"fund">>],
                   [id |-> "claim", dependencies |-> <<"allocate">>],
                   [id |-> "allocate", dependencies |-> <<"fund">>],
                   [id |-> "fund", dependencies |-> <<>>]>>
CyclicDemo == <<[id |-> "fund", dependencies |-> <<"allocate">>],
                [id |-> "allocate", dependencies |-> <<"fund">>]>>

LoadDemo(demo) ==
  /\ Edit(demo)
  /\ generated' = <<>> /\ sortError' = "none"
  /\ UNCHANGED <<worker, submitting>>
-----------------------------------------------------------------------------
(* The page hands a copy of its list to the worker, or reports that        *)
(* Horizon could not tell the account's sequence number.                   *)
HandleBuildTransaction ==
  /\ building = <<>> /\ intents # <<>>
  /\ generated' = <<>>
  /\ \/ building' = intents /\ sortError' = "none"
     \/ sortError' = "horizon" /\ UNCHANGED building
  /\ UNCHANGED <<intents, degree, queue, sorted, submitting, changes>>

WorkerRests == building' = <<>> /\ degree' = <<>> /\ queue' = <<>> /\ sorted' = <<>>

(* The in-degrees are counted and the operations that wait for nothing are *)
(* queued, or a dependency is found missing.                               *)
CountDegrees ==
  /\ building # <<>> /\ degree = <<>>
  /\ IF \E op \in Range(building) : \E d \in Range(op.dependencies) : d \notin IdSet(building)
     THEN WorkerRests /\ sortError' = "missing"
     ELSE /\ degree' = [id \in IdSet(building) |->
                Len((CHOOSE op \in Range(building) : op.id = id).dependencies)]
          /\ queue' = Kept(building, {i \in DOMAIN building : building[i].dependencies = <<>>})
          /\ UNCHANGED <<building, sorted, sortError>>
  /\ UNCHANGED <<intents, generated, submitting, changes>>

(* A dependency written twice is counted twice.                            *)
Left(op, u) ==
  degree[op.id] - Cardinality({i \in DOMAIN op.dependencies : op.dependencies[i] = u.id})

\* Slip: a dependent is queued as soon as one of its dependencies is sorted.
Dependents(u) == Kept(building, {i \in DOMAIN building : DependsOn(building[i], u.id)})

Freed(u) ==
  Kept(building, {i \in DOMAIN building :
                    DependsOn(building[i], u.id) /\ Left(building[i], u) = 0})

(* One round of the sort: the head of the queue is sorted, its dependents  *)
(* wait for one less, and those that wait for nothing any more are queued. *)
TakeNext ==
  /\ queue # <<>>
  /\ LET u == Head(queue)
     IN  /\ sorted' = Append(sorted, u)
         /\ degree' = [id \in DOMAIN degree |->
                         Left(CHOOSE op \in Range(building) : op.id = id, u)]
         /\ queue' = Tail(queue) \o Freed(u)
  /\ UNCHANGED <<intents, building, generated, submitting, sortError, changes>>

(* The queue is empty: the transaction is built, or a cycle is reported.   *)
SortEnds ==
  /\ degree # <<>> /\ queue = <<>>
  /\ WorkerRests
  /\ IF Len(sorted) < Len(building)
     THEN sortError' = "cycle" /\ UNCHANGED generated
     ELSE generated' = sorted /\ UNCHANGED sortError
  /\ UNCHANGED <<intents, submitting, changes>>

(* The wallet and then the network are asked; the page keeps everything    *)
(* when either refuses, and empties its list when both are done, whatever  *)
(* was added to it since.                                                  *)
BatchSubmit ==
  /\ generated # <<>> /\ ~submitting /\ submitting' = TRUE
  /\ UNCHANGED <<intents, worker, generated, sortError, changes>>

BatchRefused ==
  /\ submitting /\ submitting' = FALSE
  /\ UNCHANGED <<intents, worker, generated, sortError, changes>>

BatchConfirmed ==
  /\ submitting /\ submitting' = FALSE
  /\ intents' = <<>> /\ generated' = <<>>
  /\ UNCHANGED <<worker, sortError, changes>>

BatchNext ==
  \/ \E id \in OperationIds :
       \/ HandleRemoveOperation(id)
       \/ \E n \in 0 .. MaxDependencies : \E ds \in [1 .. n -> OperationIds] :
            HandleAddOperation(id, ds)
  \/ \E demo \in {LinearDemo, BranchingDemo, CyclicDemo} : LoadDemo(demo)
  \/ HandleBuildTransaction \/ CountDegrees \/ TakeNext \/ SortEnds
  \/ BatchSubmit \/ BatchRefused \/ BatchConfirmed

BatchSpec == BatchInit /\ [][BatchNext]_batchVars
-----------------------------------------------------------------------------
(* An order in which every operation comes once and after everything it    *)
(* depends on; it exists unless some operations all wait for each other.   *)
Runnable(ops) == \A i \in DOMAIN ops :
  /\ \A j \in DOMAIN ops : ops[i].id = ops[j].id => i = j
  /\ \A d \in Range(ops[i].dependencies) : \E j \in 1 .. i - 1 : ops[j].id = d

WaitForEachOther(ops) == \E S \in (SUBSET Range(ops)) \ {{}} :
  \A op \in S : \E other \in S : DependsOn(op, other.id)

(* dagSorter.ts: the order the user signs is runnable, whatever was edited *)
(* meanwhile; and when the sort is over, it holds every operation unless   *)
(* there really is a cycle, so that a list is never refused for nothing.   *)
SortIsRight ==
  /\ Runnable(generated) /\ Runnable(sorted)
  /\ degree # <<>> /\ queue = <<>> =>
       (Range(sorted) = Range(building) <=> ~WaitForEachOther(building))
=============================================================================
