---------------------------- MODULE IntegerSqrt -----------------------------
(***************************************************************************)
(* isqrt_u128: the digit-by-digit square root behind quadratic funding.    *)
(* Its two loops are one action each; `one' is the square of the place     *)
(* value being tried, starting at the square of TopPlace (1 << 126 is the  *)
(* square of 1 << 63).                                                     *)
(***************************************************************************)
EXTENDS Integers

CONSTANTS Places,    \* the place values of the root: 1, 2, 4, ...
          TopPlace   \* the largest of them: 2^63 in a 128-bit word

ASSUME PlacesAssumption ==
  /\ Places \subseteq Nat \ {0}
  /\ \A p \in Places : p = 1 \/ \E q \in Places : p = 2 * q
  /\ TopPlace \in Places

\* The values below 2^128: the square of the place above the top.
WordSize == 4 * (TopPlace * TopPlace)

VARIABLES n,    \* the argument
          op, res, one,
          loop  \* the loop the function is in

sqrtVars == <<n, op, res, one, loop>>

SqrtInit ==
  /\ n \in 0 .. WordSize - 1
  /\ op = n
  /\ res = 0
  /\ one = TopPlace * TopPlace
  /\ loop = "align"

Shifted == one \div 4

\* while one > op { one >>= 2 }
Align ==
  /\ loop = "align"
  /\ IF one > op
     THEN one' = Shifted /\ loop' = loop
     ELSE one' = one /\ loop' = "digit"
  /\ UNCHANGED <<n, op, res>>

\* A slip: a strict comparison.
DigitFitsStrictly == op > res + one
DigitFits == op >= res + one

\* while one != 0 { if op >= res + one { ... } else { res >>= 1 }; one >>= 2 }
Digit ==
  /\ loop = "digit"
  /\ one # 0
  /\ IF DigitFits
     THEN op' = op - (res + one) /\ res' = res \div 2 + one
     ELSE op' = op /\ res' = res \div 2
  /\ one' = Shifted
  /\ UNCHANGED <<n, loop>>

Return ==
  /\ loop = "digit"
  /\ one = 0
  /\ loop' = "done"
  /\ UNCHANGED <<n, op, res, one>>

\* The caller goes on with the result.
Finished == loop = "done" /\ UNCHANGED sqrtVars

SqrtNext == Align \/ Digit \/ Return \/ Finished

SqrtSpec == SqrtInit /\ [][SqrtNext]_sqrtVars

-----------------------------------------------------------------------------
(* Properties.                                                             *)

\* The result is the floor of the root: Isqrt of QuadraticFunding.
RootIsFloor == loop = "done" => res * res <= n /\ n < (res + 1) * (res + 1)

\* The unsigned arithmetic of the loop neither wraps nor underflows: the sum it
\* compares with fits the word, and nothing is taken from op that op lacks.
NoWrap ==
  /\ op \in 0 .. WordSize - 1
  /\ res \in 0 .. WordSize - 1
  /\ one \in 0 .. WordSize - 1
  /\ res + one < WordSize

\* The loop invariant, with p the place whose square is `one' and r the part of
\* the root found so far: res = 2rp, n - op is r squared, and the root lies
\* between r and r + 2p, inside the word.
LoopInvariant ==
  \/ /\ one = 0
     /\ op = n - res * res
     /\ 0 <= op /\ n < (res + 1) * (res + 1)
     /\ res + 1 <= 2 * TopPlace
  \/ \E p \in Places, r \in Nat :
       /\ one = p * p
       /\ res = 2 * (r * p)
       /\ op = n - r * r
       /\ 0 <= op
       /\ n < (r + 2 * p) * (r + 2 * p)
       /\ r + 2 * p <= 2 * TopPlace
=============================================================================
