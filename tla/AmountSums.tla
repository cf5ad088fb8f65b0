----------------------------- MODULE AmountSums -----------------------------
(***************************************************************************)
(* Sums of token amounts.  Every amount the registry keeps is a whole      *)
(* number of stroops, so the sum of a function f of amounts is the number  *)
(* of its units: the pairs <<x, k>> with k in 1..f[x].  Counting units     *)
(* keeps the sum free of recursion, and module AmountSums_proofs derives   *)
(* its laws from those of finite cardinalities.                            *)
(***************************************************************************)
EXTENDS Integers, FiniteSets, Sequences

Units(f) == UNION { {x} \X (1 .. f[x]) : x \in DOMAIN f }

SumOver(f) == Cardinality(Units(f))

\* The sum of the .amount fields of a sequence of tranches or batch entries.
Total(entries) == SumOver([i \in DOMAIN entries |-> entries[i].amount])
=============================================================================
