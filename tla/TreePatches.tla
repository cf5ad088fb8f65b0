---------------------------- MODULE TreePatches ----------------------------
(***************************************************************************)
(* The patches of differential synchronization: made by the trpc/diff.ts   *)
(* of the backend, applied by that of the frontend.                        *)
(*                                                                         *)
(* A result is a tree: [leaf |-> v], [array |-> sequence of trees] or      *)
(* [object |-> function from keys to trees].                               *)
(***************************************************************************)
EXTENDS Integers, Sequences, FiniteSets
LOCAL INSTANCE SequencesExt

-----------------------------------------------------------------------------
(* Making a patch.                                                         *)

IsArray(tree) == DOMAIN tree = {"array"}
IsObject(tree) == DOMAIN tree = {"object"}

\* A slip: the elements to remove counted upwards.
RemovedAscending(old, new, path) ==
  [i \in 1 .. Len(old) - Len(new) |->
     [op |-> "remove", path |-> Append(path, Len(new) + i)]]

\* Elements beyond the end of the new array, the last one first.
Removed(old, new, path) ==
  Reverse([i \in 1 .. Len(old) - Len(new) |->
             [op |-> "remove", path |-> Append(path, Len(new) + i)]])

Added(old, new, path) ==
  [i \in 1 .. Len(new) - Len(old) |->
     [op |-> "add", path |-> Append(path, Len(old) + i), value |-> new[Len(old) + i]]]

RECURSIVE Walk(_, _, _)
Walk(old, new, path) ==
  CASE old = new -> <<>>
    [] old # new /\ IsArray(old) /\ IsArray(new) ->
         LET o == old.array
             n == new.array
             common == 1 .. IF Len(o) < Len(n) THEN Len(o) ELSE Len(n)
         IN  FlattenSeq([i \in common |-> Walk(o[i], n[i], Append(path, i))])
               \o Removed(o, n, path) \o Added(o, n, path)
    [] old # new /\ IsObject(old) /\ IsObject(new) ->
         LET o == old.object
             n == new.object
             gone == SetToSeq(DOMAIN o \ DOMAIN n)
             kept == SetToSeq(DOMAIN n)
         IN  [i \in DOMAIN gone |-> [op |-> "remove", path |-> Append(path, gone[i])]]
               \o FlattenSeq([i \in DOMAIN kept |->
                    LET key == Append(path, kept[i])
                    IN  IF kept[i] \in DOMAIN o
                        THEN Walk(o[kept[i]], n[kept[i]], key)
                        ELSE <<[op |-> "add", path |-> key, value |-> n[kept[i]]]>>])
    [] OTHER -> <<[op |-> "replace", path |-> path, value |-> new]>>

Compare(old, new) == Walk(old, new, <<>>)

-----------------------------------------------------------------------------
(* Applying it.                                                            *)

\* The last step of a path.  Array.splice beyond the end removes nothing.
Edited(tree, step, patch) ==
  CASE IsArray(tree) /\ patch.op = "add" ->
         [array |-> InsertAt(tree.array, step, patch.value)]
    [] IsArray(tree) /\ patch.op = "remove" ->
         [array |-> IF step \in DOMAIN tree.array THEN RemoveAt(tree.array, step)
                    ELSE tree.array]
    [] IsArray(tree) /\ patch.op = "replace" ->
         [array |-> ReplaceAt(tree.array, step, patch.value)]
    [] ~IsArray(tree) /\ patch.op = "remove" ->
         [object |-> [k \in DOMAIN tree.object \ {step} |-> tree.object[k]]]
    [] OTHER ->
         [object |-> [k \in DOMAIN tree.object \union {step} |->
                        IF k = step THEN patch.value ELSE tree.object[k]]]

RECURSIVE AppliedAt(_, _, _)
AppliedAt(tree, path, patch) ==
  CASE Len(path) = 0 -> IF patch.op = "replace" THEN patch.value ELSE tree
    [] Len(path) = 1 -> Edited(tree, path[1], patch)
    [] OTHER ->
         IF IsArray(tree)
         THEN [array |-> [tree.array EXCEPT ![path[1]] = AppliedAt(@, Tail(path), patch)]]
         ELSE [object |-> [tree.object EXCEPT ![path[1]] = AppliedAt(@, Tail(path), patch)]]

ApplyPatch(tree, patches) ==
  LET applied[i \in 0 .. Len(patches)] ==
        IF i = 0 THEN tree ELSE AppliedAt(applied[i - 1], patches[i].path, patches[i])
  IN  applied[Len(patches)]
=============================================================================
