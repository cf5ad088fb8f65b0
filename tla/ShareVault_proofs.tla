-------------------------- MODULE ShareVault_proofs -------------------------
(***************************************************************************)
(* The share vault stays at one stroop a share for ever, whatever is       *)
(* deposited, withdrawn or donated, and by whom: the theorems below hold   *)
(* for every set of users, every supply and every amount.                  *)
(***************************************************************************)
EXTENDS ShareVault, AmountSums_proofs

VaultInv ==
  SacTypeOK /\ ShareTypeOK /\ ShareAccounting /\ NobodyGainsFromOthers /\ VaultSolvency

-----------------------------------------------------------------------------
(* The rounding of fixed_point.rs at a price of one.                       *)

\* Dividing a multiple gives the factor back, rounded down or up.
LEMMA DivideMultiple ==
  ASSUME NEW a \in Nat, NEW d \in Nat \ {0}
  PROVE  /\ (a * d) \div d = a
         /\ Ceil(a * d, d) = a
<1>1. \A n \in Nat, q \in Nat : n >= q * d /\ n < q * d + d => n \div d = q
  BY SMT
<1>2. a * d \in Nat /\ a * d + d - 1 \in Nat BY SMT
<1>3. (a * d) \div d = a BY <1>1, <1>2, SMT
<1>4. (a * d + d - 1) \div d = a BY <1>1, <1>2, SMT
<1> QED BY <1>3, <1>4 DEF Ceil

\* A deposit mints as many shares as it brings stroops, and burning shares pays
\* as many stroops: neither rounding nor the clamp ever bites.
LEMMA OneToOne ==
  ASSUME ShareTypeOK, ShareAccounting, NEW a \in Nat
  PROVE  /\ SharesFor(a) = a
         /\ a <= totalShares => AssetsFor(a) = a
<1> DEFINE d == totalShares + 1
<1>1. totalShares \in Nat /\ totalAssets = totalShares
  BY DEF ShareTypeOK, ShareAccounting
<1>2. d \in Nat \ {0} BY <1>1, SMT
<1>3. (a * d) \div d = a /\ Ceil(a * d, d) = a
  <2> HIDE DEF d
  <2> QED BY <1>2, DivideMultiple
<1>4. SharesFor(a) = a BY <1>1, <1>3 DEF SharesFor
<1>5. a <= totalShares => AssetsFor(a) = a BY <1>1, <1>3 DEF AssetsFor
<1> QED BY <1>4, <1>5

\* Nobody holds more shares than there are.
LEMMA ShareBound ==
  ASSUME ShareTypeOK, ShareAccounting, NEW u \in Users
  PROVE  shares[u] <= totalShares
<1>1. shares \in [Users -> Nat] BY DEF ShareTypeOK
<1>2. shares[u] <= SumOver(shares) BY <1>1, UsersAssumption, SumOverBound
<1> QED BY <1>2 DEF ShareAccounting

\* The total of the shares when one account changes.
LEMMA SharesExcept ==
  ASSUME NEW s \in [Users -> Nat], NEW u \in Users, NEW v \in Nat
  PROVE  SumOver([s EXCEPT ![u] = v]) = SumOver(s) - s[u] + v
BY UsersAssumption, SumOverExcept

-----------------------------------------------------------------------------
(* The invariant.                                                          *)

\* The first state.
LEMMA ShareInitInv == SacInit /\ ControlInit /\ ShareInit => VaultInv
<1> SUFFICES ASSUME SacInit, ShareInit PROVE VaultInv OBVIOUS
<1>1. SacTypeOK BY GenesisAssumption, UsersAssumption DEF SacInit, SacTypeOK, Holders
<1>2. ShareTypeOK BY DEF ShareInit, ShareTypeOK
<1>3. ShareAccounting BY SumOverZero DEF ShareInit, ShareAccounting
<1>4. NobodyGainsFromOthers BY DEF ShareInit, NobodyGainsFromOthers
<1>5. bal[Contract] = 0 BY DEF SacInit, Holders
<1>6. VaultSolvency BY <1>5 DEF ShareInit, VaultSolvency
<1> QED BY <1>1, <1>2, <1>3, <1>4, <1>6 DEF VaultInv

\* A deposit, at par.
LEMMA DepositPreserves ==
  ASSUME VaultInv, NEW u \in Users, NEW assets \in Requests, VaultDeposit(u, assets)
  PROVE  VaultInv'
<1>1. assets \in Nat /\ assets > 0 BY RequestsAssumption, SMT DEF VaultDeposit, ValidAmount
<1>2. ShareTypeOK /\ ShareAccounting /\ SacTypeOK BY DEF VaultInv
<1>3. SharesFor(assets) = assets BY <1>1, <1>2, OneToOne
<1>4. /\ totalShares' = totalShares + assets
      /\ totalAssets' = totalAssets + assets
      /\ shares' = [shares EXCEPT ![u] = shares[u] + assets]
      /\ netPaid' = [netPaid EXCEPT ![u] = netPaid[u] + assets]
  BY <1>3 DEF VaultDeposit
<1>5. /\ assets <= bal[u]
      /\ bal' = [bal EXCEPT ![u] = @ - assets, ![Contract] = @ + assets]
  BY DEF VaultDeposit, SacTransfer
<1>6. bal \in [Holders -> Nat] /\ u \in Holders /\ Contract \in Holders /\ u # Contract
  BY <1>2, UsersAssumption DEF SacTypeOK, Holders
<1>7. bal'[Contract] = bal[Contract] + assets /\ SacTypeOK'
  BY <1>1, <1>5, <1>6, SMT DEF SacTypeOK
<1>8. /\ shares \in [Users -> Nat] /\ totalShares \in Nat /\ totalAssets \in Nat
      /\ netPaid \in [Users -> Int]
  BY <1>2 DEF ShareTypeOK
<1>9. ShareTypeOK' BY <1>1, <1>4, <1>8, SMT DEF ShareTypeOK
<1>10. ShareAccounting'
  <2>1. shares[u] + assets \in Nat BY <1>1, <1>8
  <2>2. SumOver(shares') = SumOver(shares) - shares[u] + (shares[u] + assets)
    BY <1>4, <1>8, <2>1, SharesExcept
  <2>3. shares[u] \in Nat /\ SumOver(shares) = totalShares /\ totalAssets = totalShares
    BY <1>2, <1>8 DEF ShareAccounting
  <2> QED BY <1>1, <1>4, <1>8, <2>2, <2>3, SMT DEF ShareAccounting
<1>11. NobodyGainsFromOthers'
  BY <1>1, <1>4, <1>8, SMT DEF VaultInv, NobodyGainsFromOthers
<1>12. VaultSolvency'
  BY <1>1, <1>4, <1>6, <1>7, <1>8, SMT DEF VaultInv, VaultSolvency
<1> QED BY <1>7, <1>9, <1>10, <1>11, <1>12 DEF VaultInv

\* A withdrawal, at par.
LEMMA WithdrawPreserves ==
  ASSUME VaultInv, NEW u \in Users, NEW amount \in 0 .. MaxShare, VaultWithdraw(u, amount)
  PROVE  VaultInv'
<1>1. amount \in Nat /\ amount > 0 /\ amount <= shares[u]
  BY MaxShareAssumption, SMT DEF VaultWithdraw
<1>2. ShareTypeOK /\ ShareAccounting /\ SacTypeOK BY DEF VaultInv
<1>3. /\ shares \in [Users -> Nat] /\ totalShares \in Nat /\ totalAssets \in Nat
      /\ netPaid \in [Users -> Int] /\ shares[u] \in Nat
  BY <1>2 DEF ShareTypeOK
<1>4. shares[u] <= totalShares BY <1>2, ShareBound
<1>5. amount <= totalShares BY <1>1, <1>3, <1>4, SMT
<1>6. AssetsFor(amount) = amount BY <1>1, <1>2, <1>5, OneToOne
<1>7. /\ totalShares' = totalShares - amount
      /\ totalAssets' = totalAssets - amount
      /\ shares' = [shares EXCEPT ![u] = shares[u] - amount]
      /\ netPaid' = [netPaid EXCEPT ![u] = netPaid[u] - amount]
  BY <1>6 DEF VaultWithdraw, AssetsLeft
<1>8. /\ amount <= bal[Contract]
      /\ bal' = [bal EXCEPT ![Contract] = @ - amount, ![u] = @ + amount]
  BY <1>6 DEF VaultWithdraw, SacTransfer
<1>9. bal \in [Holders -> Nat] /\ u \in Holders /\ Contract \in Holders /\ u # Contract
  BY <1>2, UsersAssumption DEF SacTypeOK, Holders
<1>10. bal'[Contract] = bal[Contract] - amount /\ SacTypeOK'
  BY <1>1, <1>8, <1>9, SMT DEF SacTypeOK
<1>11. totalAssets = totalShares BY <1>2 DEF ShareAccounting
<1>12. ShareTypeOK' BY <1>1, <1>3, <1>5, <1>7, <1>11, SMT DEF ShareTypeOK
<1>13. ShareAccounting'
  <2>1. shares[u] - amount \in Nat BY <1>1, <1>3, SMT
  <2>2. SumOver(shares') = SumOver(shares) - shares[u] + (shares[u] - amount)
    BY <1>3, <1>7, <2>1, SharesExcept
  <2>3. SumOver(shares) = totalShares BY <1>2 DEF ShareAccounting
  <2> QED BY <1>1, <1>3, <1>7, <1>11, <2>2, <2>3, SMT DEF ShareAccounting
<1>14. NobodyGainsFromOthers'
  BY <1>1, <1>3, <1>7, SMT DEF VaultInv, NobodyGainsFromOthers
<1>15. VaultSolvency'
  BY <1>1, <1>3, <1>7, <1>9, <1>10, SMT DEF VaultInv, VaultSolvency
<1> QED BY <1>10, <1>12, <1>13, <1>14, <1>15 DEF VaultInv

\* A deposit brings the tokens it adds to the assets, a withdrawal takes the tokens
\* it removes from them.
LEMMA VaultMoves ==
  ASSUME SacTypeOK, ShareTypeOK, ShareAccounting, ShareStep
  PROVE  \E u \in Users, amount \in Nat :
           \/ SacTransfer(u, Contract, amount) /\ totalAssets' = totalAssets + amount
           \/ SacTransfer(Contract, u, amount) /\ totalAssets' = totalAssets - amount
<1>1. PICK u \in Users :
        \/ \E assets \in Requests : VaultDeposit(u, assets)
        \/ \E amount \in 0 .. MaxShare : VaultWithdraw(u, amount)
  BY DEF ShareStep
<1>2. ASSUME NEW assets \in Requests, VaultDeposit(u, assets)
      PROVE  /\ assets \in Nat /\ SacTransfer(u, Contract, assets)
             /\ totalAssets' = totalAssets + assets
  BY <1>2, RequestsAssumption DEF VaultDeposit, ValidAmount
<1>3. ASSUME NEW amount \in 0 .. MaxShare, VaultWithdraw(u, amount)
      PROVE  /\ amount \in Nat /\ SacTransfer(Contract, u, amount)
             /\ totalAssets' = totalAssets - amount
  <2>1. amount \in Nat /\ amount <= shares[u] BY <1>3, MaxShareAssumption DEF VaultWithdraw
  <2>2. shares[u] \in Nat /\ totalShares \in Nat /\ shares[u] <= totalShares
    BY ShareBound DEF ShareTypeOK
  <2>3. AssetsFor(amount) = amount BY <2>1, <2>2, OneToOne
  <2> QED BY <1>3, <2>1, <2>3 DEF VaultWithdraw, AssetsLeft
<1> QED BY <1>1, <1>2, <1>3

\* A donation or a transfer between users moves no share and takes nothing out.
LEMMA DonationPreserves ==
  ASSUME VaultInv, TokenStep, UNCHANGED shareVars
  PROVE  VaultInv'
<1>1. PICK from \in Users, to \in Holders, amount \in Requests : TokenTransfer(from, to, amount)
  BY DEF TokenStep
<1>2. /\ amount \in Nat /\ amount <= bal[from] /\ from # to
      /\ bal' = [bal EXCEPT ![from] = @ - amount, ![to] = @ + amount]
  BY <1>1, RequestsAssumption, SMT DEF TokenTransfer, SacTransfer
<1>3. bal \in [Holders -> Nat] /\ from \in Holders /\ Contract \in Holders /\ from # Contract
  BY UsersAssumption DEF VaultInv, SacTypeOK, Holders
<1>4. SacTypeOK' /\ bal'[Contract] >= bal[Contract]
  BY <1>2, <1>3, SMT DEF SacTypeOK
<1>5. bal'[Contract] \in Nat /\ bal[Contract] \in Nat /\ totalAssets \in Nat
  BY <1>3, <1>4 DEF SacTypeOK, VaultInv, ShareTypeOK
<1>6. totalAssets <= bal'[Contract]
  BY <1>4, <1>5, SMT DEF VaultInv, VaultSolvency
<1> QED BY <1>4, <1>6
      DEF VaultInv, ShareTypeOK, ShareAccounting, NobodyGainsFromOthers, VaultSolvency, shareVars

\* Every step of the vault.
LEMMA ShareStepInv == VaultInv /\ [ShareNext]_vaultVars => VaultInv'
<1> SUFFICES ASSUME VaultInv, [ShareNext]_vaultVars PROVE VaultInv' OBVIOUS
<1>1. CASE UNCHANGED <<bal, shareVars>>
  BY <1>1 DEF VaultInv, SacTypeOK, ShareTypeOK, ShareAccounting, NobodyGainsFromOthers,
              VaultSolvency, shareVars
<1>2. CASE TokenStep /\ UNCHANGED shareVars BY <1>2, DonationPreserves
<1>3. CASE ShareStep BY <1>3, DepositPreserves, WithdrawPreserves DEF ShareStep
<1> QED BY <1>1, <1>2, <1>3 DEF ShareNext, vaultVars

\* The vault's books: as many shares as stroops, all of them somebody's.
THEOREM SharesStayAtPar == ShareSpec => []ShareAccounting
<1>1. VaultInv => ShareAccounting BY DEF VaultInv
<1> QED BY <1>1, ShareInitInv, ShareStepInv, PTL DEF ShareSpec

\* Each depositor can take out exactly what it paid in, no more and no less.
THEOREM EveryoneIsOwedTheirOwn == ShareSpec => []NobodyGainsFromOthers
<1>1. VaultInv => NobodyGainsFromOthers BY DEF VaultInv
<1> QED BY <1>1, ShareInitInv, ShareStepInv, PTL DEF ShareSpec

\* And the registry has the tokens to pay it.
THEOREM VaultIsSolvent == ShareSpec => []VaultSolvency
<1>1. VaultInv => VaultSolvency BY DEF VaultInv
<1> QED BY <1>1, ShareInitInv, ShareStepInv, PTL DEF ShareSpec
=============================================================================
