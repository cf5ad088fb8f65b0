----------------------------- MODULE ShareVault -----------------------------
(***************************************************************************)
(* The fractional share vault of PayoutRegistry: vault_deposit mints       *)
(* shares and rounds down, vault_withdraw burns them and rounds up, both   *)
(* with the +1 virtual offset of fixed_point.rs.                           *)
(***************************************************************************)
EXTENDS ProtocolControl

CONSTANT MaxShare   \* bound: the largest share amount asked for

ASSUME MaxShareAssumption == MaxShare \in Nat

VARIABLES shares,       \* DataKey::VaultShareBalance
          totalShares,  \* DataKey::VaultTotalShares
          totalAssets,  \* DataKey::VaultTotalAssets
          netPaid       \* history: what each address paid in minus what it took out

shareVars == <<shares, totalShares, totalAssets, netPaid>>

ShareTypeOK ==
  /\ shares \in [Users -> Nat]
  /\ totalShares \in Nat
  /\ totalAssets \in Nat
  /\ netPaid \in [Users -> Int]

ShareInit ==
  /\ shares = [u \in Users |-> 0]
  /\ totalShares = 0
  /\ totalAssets = 0
  /\ netPaid = [u \in Users |-> 0]

\* A slip: the virtual share without the virtual stroop.
SharesWithoutOffset(assets) ==
  IF totalAssets = 0 THEN assets ELSE (assets * (totalShares + 1)) \div totalAssets

\* convert_to_shares_round_down
SharesFor(assets) == (assets * (totalShares + 1)) \div (totalAssets + 1)

Ceil(n, d) == (n + d - 1) \div d

\* A slip: the virtual asset without the virtual share.
AssetsWithoutOffset(amount) ==
  LET up == Ceil(amount * (totalAssets + 1), totalShares)
  IN  IF up <= totalAssets THEN up ELSE totalAssets

\* convert_to_assets_round_up, clamped to what the vault has
AssetsFor(amount) ==
  LET up == Ceil(amount * (totalAssets + 1), totalShares + 1)
  IN  IF up <= totalAssets THEN up ELSE totalAssets

AssetsLeft(returned) == totalAssets - returned

VaultDeposit(from, assets) ==
  LET minted == SharesFor(assets)
  IN  /\ LockFree
      /\ AssertActive
      /\ ValidAmount(assets)
      /\ minted # 0
      /\ totalShares' = totalShares + minted
      /\ totalAssets' = totalAssets + assets
      /\ shares' = [shares EXCEPT ![from] = @ + minted]
      /\ netPaid' = [netPaid EXCEPT ![from] = @ + assets]
      /\ SacTransfer(from, Contract, assets)

VaultWithdraw(from, amount) ==
  LET returned == AssetsFor(amount)
  IN  /\ LockFree
      /\ AssertActive
      /\ amount > 0
      /\ amount <= shares[from]
      /\ totalShares' = totalShares - amount
      /\ totalAssets' = AssetsLeft(returned)
      /\ shares' = [shares EXCEPT ![from] = @ - amount]
      /\ netPaid' = [netPaid EXCEPT ![from] = @ - returned]
      /\ SacTransfer(Contract, from, returned)

ShareStep ==
  \E u \in Users :
    \/ \E assets \in Requests : VaultDeposit(u, assets)
    \/ \E amount \in 0 .. MaxShare : VaultWithdraw(u, amount)

vaultVars == <<bal, controlVars, lock, now, shareVars>>

ShareNext ==
  \/ ControlStep /\ UNCHANGED <<bal, now, shareVars>>
  \/ TokenStep /\ UNCHANGED <<controlVars, lock, now, shareVars>>
  \/ ShareStep /\ UNCHANGED <<controlVars, lock, now>>

ShareSpec == SacInit /\ ControlInit /\ ShareInit /\ [][ShareNext]_vaultVars

-----------------------------------------------------------------------------
(* Properties.                                                             *)

\* The outstanding shares are the holders' shares, and each is worth exactly
\* one stroop for ever: with both offsets in place the rounding never bites, and
\* a donation to the registry does not move the price.
ShareAccounting ==
  /\ totalShares = SumOver(shares)
  /\ totalAssets = totalShares

\* What an address can still take out is what it put in and has not taken out:
\* nobody's deposits and withdrawals, however small and however often repeated,
\* change what another depositor is owed.
NobodyGainsFromOthers ==
  \A u \in Users : shares[u] = netPaid[u]

\* The vault's assets are in the registry's token balance.
VaultSolvency == totalAssets <= bal[Contract]
=============================================================================
