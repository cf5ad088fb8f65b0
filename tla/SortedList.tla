----------------------------- MODULE SortedList -----------------------------
(***************************************************************************)
(* The priority queue of linked_list.rs: a doubly linked list in contract  *)
(* storage, sorted by falling priority.  A caller names the neighbours its *)
(* node goes between; the hint may be stale or wrong, and the contract     *)
(* checks it against the stored links before it changes any.               *)
(***************************************************************************)
EXTENDS Integers, Sequences, FiniteSets

CONSTANTS Priorities,
          MaxNodes,     \* bound: nodes ever inserted
          PageLimits,   \* limits asked of get_page
          MaxDepth,     \* MAX_TRAVERSAL_DEPTH
          None          \* Option::None

ASSUME ListAssumption ==
  Priorities \subseteq Int /\ MaxNodes \in Nat /\ PageLimits \subseteq Nat
    /\ MaxDepth \in Nat /\ None \notin Nat

VARIABLES listHead, listTail, size,  \* ListMetadata.head, .tail, .size
          node,    \* DataKey::ListNode, only the ids in use
          nextId   \* DataKey::ListNextId

listVars == <<listHead, listTail, size, node, nextId>>

Ids == DOMAIN node
Link == Ids \union {None}

ListTypeOK ==
  /\ nextId \in 1 .. MaxNodes + 1
  /\ Ids \subseteq 1 .. nextId - 1
  /\ listHead \in Link /\ listTail \in Link
  /\ size \in Nat
  /\ \A id \in Ids : node[id] \in [priority : Priorities, prev : Link, next : Link]

ListInit ==
  /\ listHead = None /\ listTail = None
  /\ size = 0
  /\ node = [id \in {} |-> None]
  /\ nextId = 1

\* A slip: checking that the two are neighbours but not the order.
PrevAdjacent(p, priority, n) == IF p # None THEN node[p].next = n ELSE listHead = n

PrevFits(p, priority, n) ==
  IF p # None THEN node[p].priority >= priority /\ node[p].next = n ELSE listHead = n

NextFits(n, priority, p) ==
  IF n # None THEN node[n].priority <= priority /\ node[n].prev = p ELSE listTail = p

\* The stored nodes once the neighbours p and n point at a and b.
Relinked(p, a, n, b) ==
  [id \in Ids |->
     [priority |-> node[id].priority,
      prev |-> IF id = n THEN b ELSE node[id].prev,
      next |-> IF id = p THEN a ELSE node[id].next]]

Insert(priority, p, n) ==
  /\ nextId <= MaxNodes
  /\ p \in Link /\ n \in Link
  /\ PrevFits(p, priority, n)
  /\ NextFits(n, priority, p)
  /\ node' = [id \in Ids \union {nextId} |->
                IF id = nextId THEN [priority |-> priority, prev |-> p, next |-> n]
                ELSE Relinked(p, nextId, n, nextId)[id]]
  /\ listHead' = IF p = None THEN nextId ELSE listHead
  /\ listTail' = IF n = None THEN nextId ELSE listTail
  /\ size' = size + 1
  /\ nextId' = nextId + 1

\* A slip: leaving the tail where it was.
TailUnmoved(id) == listTail
TailAfterRemove(id) == IF node[id].next = None THEN node[id].prev ELSE listTail

Unlinked(id) == Relinked(node[id].prev, node[id].next, node[id].next, node[id].prev)

Remove(id) ==
  /\ id \in Ids
  /\ listHead' = IF node[id].prev = None THEN node[id].next ELSE listHead
  /\ listTail' = TailAfterRemove(id)
  /\ node' = [other \in Ids \ {id} |-> Unlinked(id)[other]]
  /\ size' = size - 1
  /\ UNCHANGED nextId

\* The first n nodes from the given one on along the next links.
Walk(from, n) ==
  LET step[k \in 0 .. n] ==
        IF k = 0 THEN [seen |-> <<>>, at |-> from]
        ELSE LET w == step[k - 1]
             IN  IF w.at = None THEN w
                 ELSE [seen |-> Append(w.seen, w.at), at |-> node[w.at].next]
  IN  step[n]

Least(a, b) == IF a <= b THEN a ELSE b

\* A slip: starting the next page one node late.
GetPageSkips(from, limit) ==
  LET page == Walk(from, Least(limit, MaxDepth))
  IN  IF Len(page.seen) >= MaxDepth /\ page.at # None THEN None
      ELSE [page EXCEPT !.at = IF @ = None THEN None ELSE node[@].next]

\* get_page: None stands for the panic ListTraversalLimitExceeded.
GetPage(from, limit) ==
  LET page == Walk(from, Least(limit, MaxDepth))
  IN  IF Len(page.seen) >= MaxDepth /\ page.at # None THEN None ELSE page

ListGetPage(from, limit) ==
  /\ GetPage(from, limit) # None
  /\ UNCHANGED listVars

ListNext ==
  \/ \E priority \in Priorities, p, n \in Link : Insert(priority, p, n)
  \/ \E id \in Ids : Remove(id)
  \/ \E from \in {listHead} \union Ids, limit \in PageLimits : ListGetPage(from, limit)

ListSpec == ListInit /\ [][ListNext]_listVars

-----------------------------------------------------------------------------
(* Properties.                                                             *)

Forward == Walk(listHead, Cardinality(Ids) + 1).seen

\* Following next from the head meets every stored node once, in falling order
\* of priority, prev retraces the same way, and head, tail and size describe that
\* list: no order of inserts with stale hints and removals tears it, closes a
\* cycle or strands a node.
ListIsWhole ==
  /\ size = Cardinality(Ids)
  /\ Len(Forward) = size
  /\ {Forward[i] : i \in DOMAIN Forward} = Ids
  /\ \A i \in 1 .. Len(Forward) - 1 :
       /\ node[Forward[i]].priority >= node[Forward[i + 1]].priority
       /\ node[Forward[i + 1]].prev = Forward[i]
  /\ IF Ids = {} THEN listHead = None /\ listTail = None
     ELSE /\ node[listHead].prev = None
          /\ listTail = Forward[Len(Forward)]

\* Pages that start where the last one ended put together the whole list, as
\* long as a page stays below the traversal limit.
PagesCoverTheList ==
  \A limit \in PageLimits :
    limit \in 1 .. MaxDepth - 1 =>
      LET pages[from \in Link] ==
            IF from = None THEN <<>>
            ELSE GetPage(from, limit).seen \o pages[GetPage(from, limit).at]
      IN  pages[listHead] = Forward
=============================================================================
