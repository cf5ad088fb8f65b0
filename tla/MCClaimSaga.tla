----------------------------- MODULE MCClaimSaga -----------------------------
(***************************************************************************)
(* The requests of the claim saga are interchangeable: nothing but safety  *)
(* is asked of them here.                                                  *)
(***************************************************************************)
EXTENDS ClaimSaga, TLC

Symmetry == Permutations(Handlers)
=============================================================================
