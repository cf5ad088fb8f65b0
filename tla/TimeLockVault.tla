--------------------------- MODULE TimeLockVault ----------------------------
(***************************************************************************)
(* The non-custodial time-lock vaults of PayoutRegistry.  A vault is keyed *)
(* by its owner and its maturity date; anyone may add to it, and its owner *)
(* claims all of it once the ledger clock reaches that date.               *)
(***************************************************************************)
EXTENDS ProtocolControl

VARIABLES vault,    \* DataKey::Vault; 0 where there is no entry
          lockedIn, \* history: all that was ever locked under the key
          released  \* history: all that was ever released under the key

timeLockVars == <<vault, lockedIn, released>>

Maturities == 1 .. MaxTime
VaultAmounts == [Users -> [Maturities -> Nat]]

TimeLockTypeOK ==
  /\ vault \in VaultAmounts
  /\ lockedIn \in VaultAmounts
  /\ released \in VaultAmounts

NoAmounts == [u \in Users |-> [d \in Maturities |-> 0]]

TimeLockInit ==
  /\ vault = NoAmounts
  /\ lockedIn = NoAmounts
  /\ released = NoAmounts

StillAhead(date) == date > now

Matured(date) == now >= date

\* A slip: opening a new vault over one that exists.
TopUpReplaces(old, amount) == amount
TopUp(old, amount) == old + amount

RemoveEntry(amount) == 0

CreateVault(from, owner, amount, date) ==
  /\ LockFree
  /\ AssertActive
  /\ ValidAmount(amount)
  /\ StillAhead(date)
  /\ vault' = [vault EXCEPT ![owner][date] = TopUp(@, amount)]
  /\ lockedIn' = [lockedIn EXCEPT ![owner][date] = @ + amount]
  /\ SacTransfer(from, Contract, amount)
  /\ UNCHANGED released

ClaimVault(owner, date) ==
  /\ LockFree
  /\ AssertActive
  /\ vault[owner][date] # 0
  /\ Matured(date)
  /\ vault' = [vault EXCEPT ![owner][date] = RemoveEntry(@)]
  /\ released' = [released EXCEPT ![owner][date] = @ + vault[owner][date]]
  /\ SacTransfer(Contract, owner, vault[owner][date])
  /\ UNCHANGED lockedIn

TimeLockStep ==
  \E owner \in Users, date \in Maturities :
    \/ \E from \in Users, amount \in Requests : CreateVault(from, owner, amount, date)
    \/ ClaimVault(owner, date)

timeLockAllVars == <<bal, controlVars, lock, now, timeLockVars>>

TimeLockNext ==
  \/ ControlStep /\ UNCHANGED <<bal, now, timeLockVars>>
  \/ Tick /\ UNCHANGED <<bal, controlVars, lock, timeLockVars>>
  \/ TokenStep /\ UNCHANGED <<controlVars, lock, now, timeLockVars>>
  \/ TimeLockStep /\ UNCHANGED <<controlVars, lock, now>>

TimeLockSpec ==
  SacInit /\ ControlInit /\ TimeLockInit /\ [][TimeLockNext]_timeLockAllVars

-----------------------------------------------------------------------------
(* Properties.                                                             *)

LockedTotal ==
  SumOver([key \in Users \X Maturities |-> vault[key[1]][key[2]]])

\* Every stroop locked under a key is in its vault or was released to its owner,
\* whoever added it and however many times.
TimeLockConserved ==
  \A u \in Users, d \in Maturities :
    lockedIn[u][d] = vault[u][d] + released[u][d]
=============================================================================
