--------------------------- MODULE PayoutRegistry ---------------------------
(***************************************************************************)
(* The whole contract: organizations, quadratic funding, the share vault,  *)
(* the time-lock vaults and flash calls over one token balance, one admin, *)
(* one clock and one reentrancy lock.                                      *)
(***************************************************************************)
EXTENDS QuadraticFunding, ShareVault, TimeLockVault, FlashLoans

registryVars ==
  <<bal, controlVars, lock, now, orgVars, qfVars, shareVars, timeLockVars, flashVars>>

RegistryInit == Init /\ QfInit /\ ShareInit /\ TimeLockInit /\ FlashInit

RegistryNext ==
  \/ QfNext /\ UNCHANGED <<shareVars, timeLockVars, flashVars>>
  \/ ShareStep /\ UNCHANGED <<controlVars, lock, now, orgVars, qfVars, timeLockVars,
                              flashVars>>
  \/ TimeLockStep /\ UNCHANGED <<controlVars, lock, now, orgVars, qfVars, shareVars,
                                 flashVars>>
  \/ FlashStep /\ UNCHANGED <<controlVars, now, orgVars, qfVars, shareVars, timeLockVars>>

RegistrySpec == RegistryInit /\ [][RegistryNext]_registryVars

-----------------------------------------------------------------------------
(* Properties.                                                             *)

RegistryTypeOK == OrgTypeOK /\ QfTypeOK /\ ShareTypeOK /\ TimeLockTypeOK /\ FlashTypeOK

\* Everything the registry owes anybody.
Liabilities == OrgLiabilities + matchingPool + totalAssets + LockedTotal

\* Between transactions the registry holds every token it owes, to all of its
\* parts at once: no part pays with another part's money, and no callback of a
\* flash call repays a loan with money the registry then owes to somebody.
RegistrySolvency == ~lock => Liabilities <= bal[Contract]
=============================================================================
