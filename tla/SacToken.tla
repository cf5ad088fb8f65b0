------------------------------ MODULE SacToken ------------------------------
(***************************************************************************)
(* The Stellar Asset Contract the registry holds its funds in.  It is      *)
(* external code: only balances and transfers are modelled, as the         *)
(* registry uses them through token_interface.rs.  A transfer that the     *)
(* balance does not cover traps, which reverts the whole transaction, so   *)
(* an action that contains it is disabled.                                 *)
(***************************************************************************)
EXTENDS AmountSums

CONSTANTS Users,      \* every address other than the registry's own
          Contract,   \* the registry's address (env.current_contract_address())
          Genesis,    \* the balance each user starts with
          Requests    \* the amounts callers ask for, legal or not

ASSUME UsersAssumption == IsFiniteSet(Users) /\ Contract \notin Users
ASSUME GenesisAssumption == Genesis \in [Users -> Nat]
ASSUME RequestsAssumption == Requests \subseteq Int

VARIABLE bal          \* token balance of every holder

Holders == Users \union {Contract}

SacTypeOK == bal \in [Holders -> Nat]

SacInit == bal = [h \in Holders |-> IF h = Contract THEN 0 ELSE Genesis[h]]

SacTransfer(from, to, amount) ==
  /\ amount <= bal[from]
  /\ bal' = [bal EXCEPT ![from] = @ - amount, ![to] = @ + amount]

\* A transfer outside the registry's accounting: a direct SAC transfer, or one
\* forwarded by the registry's token_transfer_from, which takes no lock.
TokenTransfer(from, to, amount) ==
  /\ from # to
  /\ amount > 0
  /\ SacTransfer(from, to, amount)

TokenStep ==
  \E from \in Users, to \in Holders, amount \in Requests : TokenTransfer(from, to, amount)
=============================================================================
