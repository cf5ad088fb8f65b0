----------------------- MODULE PayoutRegistry_proofs ------------------------
(***************************************************************************)
(* Proofs about the whole contract: all parts share one token balance, and *)
(* the registry can pay all of them at once.  While a flash call runs the  *)
(* registry may be short of tokens, so the inductive invariant speaks of   *)
(* the balances at the call's entry, to which it ends or reverts; only     *)
(* transfers by others can happen meanwhile, because every entry point     *)
(* asks for the lock the call holds.                                       *)
(***************************************************************************)
EXTENDS PayoutRegistry, QuadraticFunding_proofs, ShareVault_proofs

\* The flash-minted tokens in circulation.
Minted == IF flash # NoFlash /\ flash.kind = "mint" THEN flash.amount ELSE 0

Books ==
  /\ QfIInv
  /\ ShareTypeOK /\ ShareAccounting /\ NobodyGainsFromOthers
  /\ TimeLockTypeOK /\ TimeLockConserved
  /\ FlashTypeOK

\* What is owed, and a stroop for every repaid loan, is held: now when no call is
\* running, at the entry of the flash call that is running otherwise.
Backed ==
  /\ SumOver(bal) = SumOver(Genesis) + Minted
  /\ flash = NoFlash => Liabilities + loans <= bal[Contract]
  /\ flash # NoFlash =>
       /\ Liabilities + loans <= flash.entry[Contract]
       /\ SumOver(flash.entry) = SumOver(Genesis)
       /\ flash.kind = "loan" => flash.fee >= 1
       /\ flash.kind = "mint" => flash.entry[Contract] <= bal[Contract]

RegistryIInv == Books /\ Backed

\* A step that neither creates tokens nor adds more to what the registry owes than
\* to what it holds, and inside a flash call only lets tokens in.
Settled ==
  /\ SumOver(bal') = SumOver(bal)
  /\ Liabilities' + bal[Contract] <= Liabilities + bal'[Contract]
  /\ lock => Liabilities' = Liabilities /\ bal[Contract] <= bal'[Contract]

Locked(v) == [key \in Users \X Maturities |-> v[key[1]][key[2]]]

Moves == \E from, to \in Holders, amount \in Nat : from # to /\ SacTransfer(from, to, amount)

-----------------------------------------------------------------------------
(* Tokens, locked amounts, liabilities and fees.                           *)

\* One holder's balance is one summand of the supply.
LEMMA SupplyExcept ==
  ASSUME NEW b \in [Holders -> Nat], NEW h \in Holders, NEW v \in Nat
  PROVE  /\ SumOver(b) \in Nat
         /\ SumOver([b EXCEPT ![h] = v]) = SumOver(b) - b[h] + v
<1>1. IsFiniteSet(Holders) BY UsersAssumption, FS_AddElement DEF Holders
<1> QED BY <1>1, SumOverType, SumOverExcept

\* A transfer moves tokens and makes none.
LEMMA TransferKeepsSupply ==
  ASSUME SacTypeOK, NEW from \in Holders, NEW to \in Holders, from # to,
         NEW amount \in Nat, SacTransfer(from, to, amount)
  PROVE  SumOver(bal') = SumOver(bal)
<1> DEFINE less == [bal EXCEPT ![from] = bal[from] - amount]
<1>1. bal \in [Holders -> Nat] /\ bal[from] \in Nat /\ bal[to] \in Nat BY DEF SacTypeOK
<1>2. bal[from] - amount \in Nat /\ bal[to] + amount \in Nat BY <1>1 DEF SacTransfer
<1>3. less \in [Holders -> Nat] /\ less[to] = bal[to] BY <1>1, <1>2
<1>4. bal' = [less EXCEPT ![to] = bal[to] + amount] BY <1>1, <1>3 DEF SacTransfer
<1>5. SumOver(less) = SumOver(bal) - bal[from] + (bal[from] - amount) /\ SumOver(bal) \in Nat
  BY <1>1, <1>2, SupplyExcept
<1> HIDE DEF less
<1>6. SumOver(bal') = SumOver(less) - less[to] + (bal[to] + amount)
  BY <1>2, <1>3, <1>4, SupplyExcept
<1> QED BY <1>1, <1>3, <1>5, <1>6

\* There are finitely many time-lock keys.
LEMMA KeysFinite == IsFiniteSet(Users \X Maturities)
<1>1. 1 \in Int /\ MaxTime \in Int BY MaxTimeAssumption
<1>2. IsFiniteSet(Maturities) BY <1>1, FS_Interval DEF Maturities
<1> QED BY <1>2, UsersAssumption, FS_Product

\* What is locked under one key is one summand of what is locked.
LEMMA LockedExcept ==
  ASSUME NEW v \in VaultAmounts, NEW u \in Users, NEW d \in Maturities, NEW n \in Nat
  PROVE  /\ SumOver(Locked(v)) \in Nat
         /\ v[u][d] \in Nat /\ v[u][d] <= SumOver(Locked(v))
         /\ SumOver(Locked([v EXCEPT ![u][d] = n])) = SumOver(Locked(v)) - v[u][d] + n
<1> DEFINE Keys == Users \X Maturities
           key == <<u, d>>
           w == [v EXCEPT ![u][d] = n]
<1>1. Locked(v) \in [Keys -> Nat] /\ Locked(v)[key] = v[u][d] /\ key \in Keys
  BY DEF Locked, VaultAmounts
<1>2. Locked(w) = [Locked(v) EXCEPT ![key] = n]
  <2>1. ASSUME NEW x \in Users, NEW y \in Maturities
        PROVE  w[x][y] = IF x = u /\ y = d THEN n ELSE v[x][y]
    BY DEF VaultAmounts
  <2>2. ASSUME NEW k \in Keys PROVE Locked(w)[k] = IF k = key THEN n ELSE Locked(v)[k]
    <3>1. PICK x \in Users, y \in Maturities : k = <<x, y>> OBVIOUS
    <3> HIDE DEF w
    <3> QED BY <2>1, <3>1 DEF Locked
  <2> HIDE DEF w, key
  <2> QED BY <2>2 DEF Locked
<1>3. IsFiniteSet(Keys) BY KeysFinite
<1> HIDE DEF Keys, key, w
<1>4. SumOver(Locked(v)) \in Nat BY <1>1, <1>3, SumOverType
<1>5. Locked(v)[key] <= SumOver(Locked(v)) BY <1>1, <1>3, SumOverBound
<1>6. SumOver([Locked(v) EXCEPT ![key] = n]) = SumOver(Locked(v)) - Locked(v)[key] + n
  BY <1>1, <1>3, SumOverExcept
<1>7. v[u][d] \in Nat BY DEF VaultAmounts
<1>8. SumOver(Locked(w)) = SumOver(Locked(v)) - v[u][d] + n BY <1>1, <1>2, <1>6
<1> QED BY <1>1, <1>4, <1>5, <1>7, <1>8 DEF w

\* What is owed is what the organizations, the pool, the share vault and the
\* time-lock vaults are owed.
LEMMA LiabilitiesSplit ==
  ASSUME Books
  PROVE  /\ Liabilities = Funds(budget, payout) + matchingPool + totalAssets
                            + SumOver(Locked(vault))
         /\ Funds(budget, payout) \in Nat /\ matchingPool \in Nat /\ totalAssets \in Nat
         /\ SumOver(Locked(vault)) \in Nat /\ Liabilities \in Nat
         /\ bal \in [Holders -> Nat] /\ bal[Contract] \in Nat /\ loans \in Nat
<1>1. Liabilities = Funds(budget, payout) + matchingPool + totalAssets + SumOver(Locked(vault))
  BY DEF Liabilities, OrgLiabilities, Funds, Dues, LockedTotal, Locked
<1>2. Funds(budget, payout) \in Nat
  BY FundsType DEF Books, QfIInv, QfSound, Sound, OrgTypeOK
<1>3. /\ matchingPool \in Nat /\ totalAssets \in Nat /\ loans \in Nat
      /\ bal \in [Holders -> Nat] /\ Contract \in Holders
  BY DEF Books, QfIInv, QfSound, Sound, OrgTypeOK, SacTypeOK, QfTypeOK, ShareTypeOK,
         FlashTypeOK, Holders
<1>4. SumOver(Locked(vault)) \in Nat
  <2>1. IsFiniteSet(Users \X Maturities) BY KeysFinite
  <2>2. Locked(vault) \in [Users \X Maturities -> Nat]
    BY DEF Books, TimeLockTypeOK, VaultAmounts, Locked
  <2> QED BY <2>1, <2>2, SumOverType
<1> QED BY <1>1, <1>2, <1>3, <1>4

\* The fee of a loan is at least a stroop: it rounds up.
LEMMA FeeIsPositive ==
  ASSUME feeBps \in 1 .. MaxFeeBps, NEW amount \in Nat \ {0}
  PROVE  FeeFor(amount) \in Nat /\ FeeFor(amount) >= 1
<1> DEFINE n == amount * feeBps
<1>1. n \in Nat /\ n >= 1 BY DEF MaxFeeBps
<1> HIDE DEF n
<1>2. (n + 9999) \div 10000 \in Nat /\ (n + 9999) \div 10000 >= 1 BY <1>1
<1> QED BY <1>2 DEF n, FeeFor, BasisPoints

-----------------------------------------------------------------------------
(* Organizations and quadratic funding, as the other parts see them.       *)

\* A claim moves what it pays.
LEMMA ClaimMoves ==
  ASSUME Sound, NEW m \in Users, ClaimPayout(m)
  PROVE  Moves
<1> DEFINE p == payout[m]
           vested == VestedAmount(p.tranches, now)
<1>1. p.claimed \in Nat /\ p.tranches \in Seq(GoodTranche) BY SoundSums DEF MaintainerPayout
<1>2. vested \in Nat BY <1>1, VestedAmountBound
<1>3. vested > p.claimed /\ SacTransfer(Contract, m, vested - p.claimed) BY DEF ClaimPayout
<1> HIDE DEF p, vested
<1>4. vested - p.claimed \in Nat BY <1>1, <1>2, <1>3
<1>5. Contract \in Holders /\ m \in Holders /\ Contract # m BY UsersAssumption DEF Holders
<1> QED BY <1>3, <1>4, <1>5 DEF Moves

\* Anybody's payment into the registry is a transfer.
LEMMA PaymentMoves ==
  ASSUME NEW u \in Users, NEW amount \in Requests, ValidAmount(amount),
         SacTransfer(u, Contract, amount)
  PROVE  Moves
<1>1. amount \in Nat BY RequestsAssumption DEF ValidAmount
<1>2. u \in Holders /\ Contract \in Holders /\ u # Contract BY UsersAssumption DEF Holders
<1> QED BY <1>1, <1>2 DEF Moves

\* A step of the token is a transfer between two holders.
LEMMA DonationMoves ==
  ASSUME TokenStep
  PROVE  Moves
<1>1. PICK from \in Users, to \in Holders, amount \in Requests : TokenTransfer(from, to, amount)
  BY DEF TokenStep
<1>2. from \in Holders /\ amount \in Nat /\ from # to /\ SacTransfer(from, to, amount)
  BY <1>1, RequestsAssumption DEF TokenTransfer, Holders
<1> QED BY <1>2 DEF Moves

\* Organizations and quadratic funding move tokens by transfers alone.
LEMMA QfMoves ==
  ASSUME Sound, [QfNext]_qfAllVars
  PROVE  UNCHANGED bal \/ Moves
<1>1. CASE UNCHANGED bal BY <1>1
<1>2. CASE TokenStep BY <1>2, DonationMoves
<1>3. CASE PeopleStep
  BY <1>3 DEF PeopleStep, RegisterOrg, UpdateOrgMetadata, AddAdmin, RemoveAdmin, AddMaintainer
<1>4. CASE MoneyStep
  <2>1. PICK u \in Users :
        \/ ClaimPayout(u)
        \/ \E o \in Orgs :
             \/ \E amount \in Requests : FundOrg(o, u, amount)
             \/ \E m \in Users, amount \in Requests, unlock \in Timestamps :
                  AllocatePayout(o, u, m, amount, unlock)
             \/ \E m \in Users, ts \in Schedules : AllocatePayoutVesting(o, u, m, ts)
             \/ \E batch \in Batches : BatchAllocate(o, u, batch)
    BY <1>4 DEF MoneyStep
  <2>2. ASSUME NEW o \in Orgs, NEW amount \in Requests, FundOrg(o, u, amount) PROVE Moves
    BY <2>2, PaymentMoves DEF FundOrg
  <2>3. ASSUME NEW o \in Orgs, NEW m \in Users, NEW ts, AllocatePayoutVesting(o, u, m, ts)
        PROVE  UNCHANGED bal
    BY <2>3 DEF AllocatePayoutVesting
  <2>4. ASSUME NEW o \in Orgs, NEW batch \in Batches, BatchAllocate(o, u, batch)
        PROVE  UNCHANGED bal
    BY <2>4 DEF BatchAllocate
  <2> QED BY <2>1, <2>2, <2>3, <2>4, ClaimMoves DEF AllocatePayout
<1>5. CASE QfStep
  <2>1. PICK u \in Users :
          \/ \E h \in Users : VerifyHumanity(u, h) \/ RevokeHumanity(u, h)
          \/ \E amount \in Requests : QfDepositMatchingPool(u, amount)
          \/ \E amount \in Requests, p \in Orgs : QfContribute(p, u, amount)
          \/ \E projects \in Rounds : QfDistribute(u, projects)
    BY <1>5 DEF QfStep
  <2>2. ASSUME NEW h \in Users, VerifyHumanity(u, h) \/ RevokeHumanity(u, h)
        PROVE  UNCHANGED bal
    BY <2>2 DEF VerifyHumanity, RevokeHumanity
  <2>3. ASSUME NEW amount \in Requests, QfDepositMatchingPool(u, amount) PROVE Moves
    BY <2>3, PaymentMoves DEF QfDepositMatchingPool
  <2>4. ASSUME NEW amount \in Requests, NEW p \in Orgs, QfContribute(p, u, amount) PROVE Moves
    BY <2>4, PaymentMoves DEF QfContribute
  <2>5. ASSUME NEW projects \in Rounds, QfDistribute(u, projects) PROVE UNCHANGED bal
    BY <2>5 DEF QfDistribute
  <2> QED BY <2>1, <2>2, <2>3, <2>4, <2>5
<1> QED BY <1>1, <1>2, <1>3, <1>4, <1>5 DEF QfNext, Next, qfAllVars, vars

\* While the lock is held the organizations and quadratic funding refuse every
\* call: only transfers outside the registry's books go through.
LEMMA LockedOut ==
  ASSUME [QfNext]_qfAllVars
  PROVE  /\ lock' = lock
         /\ lock => UNCHANGED <<orgVars, qfVars>> /\ (UNCHANGED bal \/ TokenStep)
<1>1. ControlStep => lock' = lock /\ ~lock
  BY DEF ControlStep, InitProtocol, PauseProtocol, UnpauseProtocol, ProposeAdmin, AcceptAdmin,
         Upgrade, LockFree
<1>2. Tick => ~lock BY DEF Tick, LockFree
<1>3. PeopleStep => ~lock
  BY DEF PeopleStep, RegisterOrg, UpdateOrgMetadata, AddAdmin, RemoveAdmin, AddMaintainer, LockFree
<1>4. MoneyStep => ~lock
  <2>1. \A u \in Users : ClaimPayout(u) => ~lock BY DEF ClaimPayout, LockFree
  <2>2. \A o \in Orgs, u \in Users, amount \in Requests : FundOrg(o, u, amount) => ~lock
    BY DEF FundOrg, LockFree
  <2>3. ASSUME NEW o, NEW u, NEW m, NEW ts, AllocatePayoutVesting(o, u, m, ts) PROVE ~lock
    BY <2>3 DEF AllocatePayoutVesting, LockFree
  <2>4. \A o \in Orgs, u \in Users, batch \in Batches : BatchAllocate(o, u, batch) => ~lock
    BY DEF BatchAllocate, LockFree
  <2> QED BY <2>1, <2>2, <2>3, <2>4 DEF MoneyStep, AllocatePayout
<1>5. QfStep => ~lock
  BY DEF QfStep, VerifyHumanity, RevokeHumanity, QfDepositMatchingPool, QfContribute,
         QfDistribute, LockFree
<1> QED BY <1>1, <1>2, <1>3, <1>4, <1>5 DEF QfNext, Next, qfAllVars, vars

\* A step that only moves tokens leaves the books as they are.
LEMMA OtherMoves ==
  ASSUME QfIInv, SacTypeOK', UNCHANGED <<controlVars, now, orgVars, qfVars>>, lock' \in BOOLEAN
  PROVE  QfIInv'
<1>1. OrgTypeOK'
  BY DEF QfIInv, QfSound, Sound, OrgTypeOK, ControlTypeOK, controlVars, orgVars
<1>2. AmountAccounting' BY DEF QfIInv, QfSound, Sound, AmountAccounting, orgVars
<1>3. QfTypeOK' BY DEF QfIInv, QfSound, QfTypeOK, qfVars
<1>4. StatsMatchContributions' /\ MatchingConserved'
  BY DEF QfIInv, StatsMatchContributions, Contributors, MatchingConserved, qfVars
<1>5. Balanced' /\ WeightNeedsOrg'
  BY DEF QfIInv, Balanced, OrgConservation, AllocatedTo, BudgetNeedsOrg, WeightNeedsOrg,
         Registered, orgVars, qfVars
<1> QED BY <1>1, <1>2, <1>3, <1>4, <1>5 DEF QfIInv, QfSound, Sound

-----------------------------------------------------------------------------
(* One lemma per part: its steps keep the books and settle.                *)

\* A transfer keeps the types and the supply.
LEMMA MovesSettle ==
  ASSUME SacTypeOK, UNCHANGED bal \/ Moves
  PROVE  SacTypeOK' /\ SumOver(bal') = SumOver(bal)
<1>1. CASE UNCHANGED bal BY <1>1 DEF SacTypeOK
<1>2. CASE Moves BY <1>2, TransferKeepsTypes, TransferKeepsSupply DEF Moves
<1> QED BY <1>1, <1>2

\* The steps of the token never take from the contract.
LEMMA TokenOnlyAdds ==
  ASSUME SacTypeOK, UNCHANGED bal \/ TokenStep
  PROVE  bal[Contract] <= bal'[Contract]
<1>1. bal[Contract] \in Nat /\ Contract \in Holders BY DEF SacTypeOK, Holders
<1>2. CASE UNCHANGED bal BY <1>1, <1>2
<1>3. CASE TokenStep
  <2>1. PICK from \in Users, to \in Holders, amount \in Requests : TokenTransfer(from, to, amount)
    BY <1>3 DEF TokenStep
  <2>2. /\ amount \in Nat /\ from # to /\ from \in Holders /\ from # Contract
        /\ SacTransfer(from, to, amount)
    BY <2>1, RequestsAssumption, UsersAssumption DEF TokenTransfer, Holders
  <2>3. bal'[to] = bal[to] + amount /\ \A h \in Holders : h # from /\ h # to => bal'[h] = bal[h]
    BY <2>2, TransferKeepsTypes
  <2> QED BY <1>1, <2>2, <2>3
<1> QED BY <1>2, <1>3

\* The part of quadratic funding.
LEMMA QfPart ==
  ASSUME Books, [QfNext]_qfAllVars, UNCHANGED <<shareVars, timeLockVars, flashVars>>
  PROVE  Books' /\ Settled
<1>1. QfIInv' /\ QfCovered BY QfStepPreserves DEF Books
<1>2. SacTypeOK /\ Sound BY DEF Books, QfIInv, QfSound, Sound, OrgTypeOK
<1>3. Books'
  <2>1. (ShareTypeOK /\ ShareAccounting /\ NobodyGainsFromOthers)'
    BY DEF Books, ShareTypeOK, ShareAccounting, NobodyGainsFromOthers, shareVars
  <2>2. (TimeLockTypeOK /\ TimeLockConserved)'
    BY DEF Books, TimeLockTypeOK, TimeLockConserved, timeLockVars
  <2>3. FlashTypeOK' BY LockedOut DEF Books, FlashTypeOK, flashVars
  <2> QED BY <1>1, <2>1, <2>2, <2>3 DEF Books
<1>4. SumOver(bal') = SumOver(bal) BY <1>2, QfMoves, MovesSettle
<1>5. Liabilities' = Funds(budget', payout') + matchingPool' + totalAssets + SumOver(Locked(vault))
  BY DEF Liabilities, OrgLiabilities, Funds, Dues, LockedTotal, Locked, shareVars, timeLockVars
<1>6. /\ Funds(budget', payout') \in Nat /\ matchingPool' \in Nat /\ bal'[Contract] \in Nat
  BY <1>1, FundsType DEF QfIInv, QfSound, Sound, OrgTypeOK, QfTypeOK, SacTypeOK, Holders
<1>7. Liabilities' + bal[Contract] <= Liabilities + bal'[Contract]
  BY <1>1, <1>5, <1>6, LiabilitiesSplit DEF QfCovered
<1>8. lock => Liabilities' = Liabilities /\ bal[Contract] <= bal'[Contract]
  <2> SUFFICES ASSUME lock PROVE Liabilities' = Liabilities /\ bal[Contract] <= bal'[Contract]
    OBVIOUS
  <2>1. UNCHANGED <<orgVars, qfVars>> /\ (UNCHANGED bal \/ TokenStep) BY LockedOut
  <2>2. Liabilities' = Liabilities BY <1>5, <2>1, LiabilitiesSplit DEF orgVars, qfVars
  <2> QED BY <1>2, <2>1, <2>2, TokenOnlyAdds
<1> QED BY <1>3, <1>4, <1>7, <1>8 DEF Settled

\* The part of the share vault.
LEMMA SharePart ==
  ASSUME Books, VaultSolvency, ShareStep,
         UNCHANGED <<controlVars, lock, now, orgVars, qfVars, timeLockVars, flashVars>>
  PROVE  Books' /\ Settled
<1>1. SacTypeOK BY DEF Books, QfIInv, QfSound, Sound, OrgTypeOK
<1>2. VaultInv'
  <2>1. VaultInv BY <1>1 DEF Books, VaultInv
  <2> QED BY <2>1, DepositPreserves, WithdrawPreserves DEF ShareStep
<1>3. SacTypeOK' BY <1>2 DEF VaultInv
<1>4. ~lock BY DEF ShareStep, VaultDeposit, VaultWithdraw, LockFree
<1>5. Books'
  <2>1. QfIInv'
    <3>1. lock' \in BOOLEAN BY DEF Books, QfIInv, QfSound, Sound, OrgTypeOK, ControlTypeOK
    <3> QED BY <1>3, <3>1, OtherMoves DEF Books
  <2>2. (TimeLockTypeOK /\ TimeLockConserved)'
    BY DEF Books, TimeLockTypeOK, TimeLockConserved, timeLockVars
  <2>3. FlashTypeOK' BY DEF Books, FlashTypeOK, flashVars
  <2> QED BY <1>2, <2>1, <2>2, <2>3 DEF Books, VaultInv
<1>6. PICK u \in Users, amount \in Nat :
        \/ SacTransfer(u, Contract, amount) /\ totalAssets' = totalAssets + amount
        \/ SacTransfer(Contract, u, amount) /\ totalAssets' = totalAssets - amount
  BY <1>1, VaultMoves DEF Books
<1>7. u \in Holders /\ Contract \in Holders /\ u # Contract BY UsersAssumption DEF Holders
<1>8. SumOver(bal') = SumOver(bal) BY <1>1, <1>6, <1>7, TransferKeepsSupply
<1>9. Liabilities' = Funds(budget, payout) + matchingPool + totalAssets' + SumOver(Locked(vault))
  BY DEF Liabilities, OrgLiabilities, Funds, Dues, LockedTotal, Locked, orgVars, qfVars,
         timeLockVars
<1>10. bal'[Contract] \in Nat BY <1>3, <1>7 DEF SacTypeOK
<1>11. \/ bal'[Contract] = bal[Contract] + amount /\ totalAssets' = totalAssets + amount
       \/ bal'[Contract] = bal[Contract] - amount /\ totalAssets' = totalAssets - amount
  BY <1>1, <1>6, <1>7, TransferKeepsTypes
<1>12. Liabilities' + bal[Contract] <= Liabilities + bal'[Contract]
  BY <1>9, <1>10, <1>11, LiabilitiesSplit
<1> QED BY <1>4, <1>5, <1>8, <1>12 DEF Settled

\* A time-lock vault brings the tokens it locks and takes the tokens it releases,
\* and its key remembers both.
LEMMA TimeLockMoves ==
  ASSUME SacTypeOK, TimeLockTypeOK, TimeLockConserved, TimeLockStep
  PROVE  /\ TimeLockTypeOK' /\ TimeLockConserved'
         /\ \E u \in Users, amount \in Nat :
              \/ /\ SacTransfer(u, Contract, amount)
                 /\ SumOver(Locked(vault')) = SumOver(Locked(vault)) + amount
              \/ /\ SacTransfer(Contract, u, amount)
                 /\ SumOver(Locked(vault')) = SumOver(Locked(vault)) - amount
<1>1. PICK owner \in Users, date \in Maturities :
        \/ \E from \in Users, amount \in Requests : CreateVault(from, owner, amount, date)
        \/ ClaimVault(owner, date)
  BY DEF TimeLockStep
<1> DEFINE v == vault[owner][date]
<1>2. vault \in VaultAmounts /\ lockedIn \in VaultAmounts /\ released \in VaultAmounts
  BY DEF TimeLockTypeOK
<1>3. v \in Nat /\ SumOver(Locked(vault)) \in Nat BY <1>2, LockedExcept
<1>4. ASSUME NEW from \in Users, NEW amount \in Requests, CreateVault(from, owner, amount, date)
      PROVE  /\ TimeLockTypeOK' /\ TimeLockConserved'
             /\ amount \in Nat /\ SacTransfer(from, Contract, amount)
             /\ SumOver(Locked(vault')) = SumOver(Locked(vault)) + amount
  <2>1. amount \in Nat BY <1>4, RequestsAssumption DEF CreateVault, ValidAmount
  <2>2. /\ vault' = [vault EXCEPT ![owner][date] = v + amount]
        /\ lockedIn' = [lockedIn EXCEPT ![owner][date] = lockedIn[owner][date] + amount]
        /\ UNCHANGED released /\ SacTransfer(from, Contract, amount)
    BY <1>2, <1>4 DEF CreateVault, TopUp, VaultAmounts
  <2>3. TimeLockTypeOK' BY <1>2, <2>1, <2>2 DEF TimeLockTypeOK, VaultAmounts
  <2>4. TimeLockConserved'
    <3> SUFFICES ASSUME NEW u \in Users, NEW d \in Maturities
                 PROVE  lockedIn'[u][d] = vault'[u][d] + released'[u][d]
      BY DEF TimeLockConserved
    <3>1. lockedIn[u][d] = vault[u][d] + released[u][d] BY DEF TimeLockConserved
    <3>2. vault[u][d] \in Nat /\ released[u][d] \in Nat BY <1>2 DEF VaultAmounts
    <3>3. CASE u = owner /\ d = date
      <4>1. vault'[u][d] = v + amount /\ lockedIn'[u][d] = lockedIn[u][d] + amount
        BY <1>2, <2>2, <3>3 DEF VaultAmounts
      <4> QED BY <2>1, <2>2, <3>1, <3>2, <3>3, <4>1
    <3>4. CASE ~(u = owner /\ d = date)
      <4>1. vault'[u][d] = vault[u][d] /\ lockedIn'[u][d] = lockedIn[u][d]
        BY <1>2, <2>2, <3>4 DEF VaultAmounts
      <4> QED BY <2>2, <3>1, <4>1
    <3> QED BY <3>3, <3>4
  <2>5. v + amount \in Nat BY <1>3, <2>1
  <2>6. SumOver(Locked(vault')) = SumOver(Locked(vault)) - v + (v + amount)
    BY <1>2, <2>2, <2>5, LockedExcept
  <2> HIDE DEF v
  <2> QED BY <1>3, <2>1, <2>2, <2>3, <2>4, <2>6
<1>5. ASSUME ClaimVault(owner, date)
      PROVE  /\ TimeLockTypeOK' /\ TimeLockConserved'
             /\ v \in Nat /\ SacTransfer(Contract, owner, v)
             /\ SumOver(Locked(vault')) = SumOver(Locked(vault)) - v
  <2>2. /\ vault' = [vault EXCEPT ![owner][date] = 0]
        /\ released' = [released EXCEPT ![owner][date] = released[owner][date] + v]
        /\ UNCHANGED lockedIn /\ SacTransfer(Contract, owner, v)
    BY <1>2, <1>5 DEF ClaimVault, RemoveEntry, VaultAmounts
  <2>3. TimeLockTypeOK' BY <1>2, <1>3, <2>2 DEF TimeLockTypeOK, VaultAmounts
  <2>4. TimeLockConserved'
    <3> SUFFICES ASSUME NEW u \in Users, NEW d \in Maturities
                 PROVE  lockedIn'[u][d] = vault'[u][d] + released'[u][d]
      BY DEF TimeLockConserved
    <3>1. lockedIn[u][d] = vault[u][d] + released[u][d] BY DEF TimeLockConserved
    <3>2. vault[u][d] \in Nat /\ released[u][d] \in Nat BY <1>2 DEF VaultAmounts
    <3>3. CASE u = owner /\ d = date
      <4>1. vault'[u][d] = 0 /\ released'[u][d] = released[u][d] + vault[u][d]
        BY <1>2, <2>2, <3>3 DEF VaultAmounts
      <4> QED BY <2>2, <3>1, <3>2, <4>1
    <3>4. CASE ~(u = owner /\ d = date)
      <4>1. vault'[u][d] = vault[u][d] /\ released'[u][d] = released[u][d]
        BY <1>2, <2>2, <3>4 DEF VaultAmounts
      <4> QED BY <2>2, <3>1, <4>1
    <3> QED BY <3>3, <3>4
  <2> DEFINE none == 0
  <2>5. none \in Nat /\ vault' = [vault EXCEPT ![owner][date] = none] BY <2>2
  <2> HIDE DEF none
  <2>6. SumOver(Locked(vault')) = SumOver(Locked(vault)) - v + none
    BY <1>2, <2>5, LockedExcept
  <2>7. none = 0 BY DEF none
  <2> HIDE DEF v
  <2> QED BY <1>3, <2>2, <2>3, <2>4, <2>6, <2>7
<1> HIDE DEF v
<1> QED BY <1>1, <1>4, <1>5

\* The part of the time-locks.
LEMMA TimeLockPart ==
  ASSUME Books, TimeLockStep,
         UNCHANGED <<controlVars, lock, now, orgVars, qfVars, shareVars, flashVars>>
  PROVE  Books' /\ Settled
<1>1. SacTypeOK BY DEF Books, QfIInv, QfSound, Sound, OrgTypeOK
<1>2. TimeLockTypeOK' /\ TimeLockConserved' BY <1>1, TimeLockMoves DEF Books
<1>3. PICK u \in Users, amount \in Nat :
        \/ /\ SacTransfer(u, Contract, amount)
           /\ SumOver(Locked(vault')) = SumOver(Locked(vault)) + amount
        \/ /\ SacTransfer(Contract, u, amount)
           /\ SumOver(Locked(vault')) = SumOver(Locked(vault)) - amount
  BY <1>1, TimeLockMoves DEF Books
<1>4. u \in Holders /\ Contract \in Holders /\ u # Contract BY UsersAssumption DEF Holders
<1>5. SumOver(bal') = SumOver(bal) /\ SacTypeOK'
  BY <1>1, <1>3, <1>4, TransferKeepsSupply, TransferKeepsTypes
<1>6. ~lock BY DEF TimeLockStep, CreateVault, ClaimVault, LockFree
<1>7. Books'
  <2>1. QfIInv'
    <3>1. lock' \in BOOLEAN BY DEF Books, QfIInv, QfSound, Sound, OrgTypeOK, ControlTypeOK
    <3> QED BY <1>5, <3>1, OtherMoves DEF Books
  <2>2. (ShareTypeOK /\ ShareAccounting /\ NobodyGainsFromOthers)'
    BY DEF Books, ShareTypeOK, ShareAccounting, NobodyGainsFromOthers, shareVars
  <2>3. FlashTypeOK' BY DEF Books, FlashTypeOK, flashVars
  <2> QED BY <1>2, <2>1, <2>2, <2>3 DEF Books
<1>8. Liabilities' = Funds(budget, payout) + matchingPool + totalAssets + SumOver(Locked(vault'))
  BY DEF Liabilities, OrgLiabilities, Funds, Dues, LockedTotal, Locked, orgVars, qfVars, shareVars
<1>9. bal'[Contract] \in Nat BY <1>4, <1>5 DEF SacTypeOK
<1>10. \/ /\ bal'[Contract] = bal[Contract] + amount
          /\ SumOver(Locked(vault')) = SumOver(Locked(vault)) + amount
       \/ /\ bal'[Contract] = bal[Contract] - amount
          /\ SumOver(Locked(vault')) = SumOver(Locked(vault)) - amount
  BY <1>1, <1>3, <1>4, TransferKeepsTypes
<1>11. Liabilities' + bal[Contract] <= Liabilities + bal'[Contract]
  BY <1>8, <1>9, <1>10, LiabilitiesSplit
<1> QED BY <1>5, <1>6, <1>7, <1>11 DEF Settled

\* What is owed is a number.
LEMMA LiabilitiesType ==
  Books => Liabilities \in Nat /\ bal[Contract] \in Nat /\ loans \in Nat
BY LiabilitiesSplit

\* Settled steps keep the registry backed, in a flash call and outside of one.
LEMMA SettledStaysBacked ==
  ASSUME Books, Books', Settled, Backed, UNCHANGED flashVars
  PROVE  Backed'
<1>1. /\ Liabilities \in Nat /\ bal[Contract] \in Nat /\ loans \in Nat
      /\ Liabilities' \in Nat /\ bal'[Contract] \in Nat
  <2>1. (Books => Liabilities \in Nat /\ bal[Contract] \in Nat /\ loans \in Nat)'
    BY LiabilitiesType, PTL
  <2> QED BY <2>1, LiabilitiesType
<1>2. UNCHANGED <<flash, loans>> /\ Minted' = Minted BY DEF flashVars, Minted
<1>3. SumOver(bal') = SumOver(Genesis) + Minted' BY <1>2 DEF Settled, Backed
<1>4. flash = NoFlash => Liabilities' + loans' <= bal'[Contract]
  BY <1>1, <1>2 DEF Settled, Backed
<1>5. ASSUME flash # NoFlash
      PROVE  /\ Liabilities' = Liabilities /\ bal[Contract] <= bal'[Contract]
             /\ flash.entry[Contract] \in Nat
  <2>1. lock /\ flash \in FlashCall BY <1>5 DEF Books, FlashTypeOK
  <2> QED BY <2>1 DEF Settled, FlashCall, Holders
<1>6. ASSUME flash # NoFlash
      PROVE  /\ Liabilities' + loans' <= flash.entry[Contract]
             /\ flash.kind = "mint" => flash.entry[Contract] <= bal'[Contract]
  BY <1>1, <1>2, <1>5, <1>6 DEF Backed
<1>7. flash # NoFlash => /\ SumOver(flash.entry) = SumOver(Genesis)
                         /\ flash.kind = "loan" => flash.fee >= 1
  BY DEF Backed
<1> QED BY <1>2, <1>3, <1>4, <1>6, <1>7 DEF Backed

-----------------------------------------------------------------------------
(* Flash calls.                                                            *)

\* A flash step that keeps the types keeps all the books: it writes none of them.
LEMMA FlashKeepsBooks ==
  ASSUME Books, SacTypeOK', FlashTypeOK', lock' \in BOOLEAN,
         UNCHANGED <<controlVars, now, orgVars, qfVars, shareVars, timeLockVars>>
  PROVE  Books' /\ Liabilities' = Liabilities
<1>1. QfIInv' BY OtherMoves DEF Books
<1>2. (ShareTypeOK /\ ShareAccounting /\ NobodyGainsFromOthers)'
  BY DEF Books, ShareTypeOK, ShareAccounting, NobodyGainsFromOthers, shareVars
<1>3. (TimeLockTypeOK /\ TimeLockConserved)'
  BY DEF Books, TimeLockTypeOK, TimeLockConserved, timeLockVars
<1>4. Liabilities' = Liabilities
  BY DEF Liabilities, OrgLiabilities, LockedTotal, orgVars, qfVars, shareVars, timeLockVars
<1> QED BY <1>1, <1>2, <1>3, <1>4 DEF Books

\* The fields of a flash call.
LEMMA FlashCallParts ==
  ASSUME FlashTypeOK, flash # NoFlash
  PROVE  /\ flash.kind \in {"loan", "mint"} /\ flash.receiver \in Users
         /\ flash.amount \in Nat \ {0} /\ flash.fee \in Nat
         /\ flash.entry \in [Holders -> Nat] /\ flash.entry[Contract] \in Nat
BY DEF FlashTypeOK, FlashCall, Holders

\* Changing the fee.
LEMMA FeePreserves ==
  ASSUME RegistryIInv, NEW u, NEW bps \in FeeChoices, SetFlashLoanFee(u, bps),
         UNCHANGED <<controlVars, now, orgVars, qfVars, shareVars, timeLockVars>>
  PROVE  RegistryIInv'
<1>1. SacTypeOK' BY DEF RegistryIInv, Books, QfIInv, QfSound, Sound, OrgTypeOK, SacTypeOK,
                        SetFlashLoanFee
<1>2. bps \in 1 .. MaxFeeBps BY FeeChoicesAssumption DEF SetFlashLoanFee, ValidFee, MaxFeeBps
<1>3. UNCHANGED <<flash, loans, lock, bal>> /\ feeBps' = bps BY DEF SetFlashLoanFee
<1>4. FlashTypeOK' /\ lock' \in BOOLEAN
  BY <1>2, <1>3 DEF RegistryIInv, Books, FlashTypeOK, QfIInv, QfSound, Sound, OrgTypeOK,
                    ControlTypeOK
<1>5. Books' /\ Liabilities' = Liabilities BY <1>1, <1>4, FlashKeepsBooks DEF RegistryIInv
<1> QED BY <1>3, <1>5 DEF RegistryIInv, Backed, Minted

\* A loan begins with the registry backed and lets go of what is lent, for a fee.
LEMMA LoanBeginPreserves ==
  ASSUME RegistryIInv, NEW receiver \in Users, NEW amount \in Requests,
         FlashLoanBegin(receiver, amount),
         UNCHANGED <<controlVars, now, orgVars, qfVars, shareVars, timeLockVars>>
  PROVE  RegistryIInv'
<1>1. SacTypeOK /\ FlashTypeOK
  BY DEF RegistryIInv, Books, QfIInv, QfSound, Sound, OrgTypeOK
<1>2. amount \in Nat \ {0} BY RequestsAssumption DEF FlashLoanBegin, ValidAmount
<1>3. ~lock /\ flash = NoFlash BY <1>1 DEF FlashLoanBegin, LockFree, FlashTypeOK
<1>4. FeeFor(amount) \in Nat /\ FeeFor(amount) >= 1
  BY <1>1, <1>2, FeeIsPositive DEF FlashTypeOK
<1> DEFINE call == [kind |-> "loan", receiver |-> receiver, amount |-> amount,
                    fee |-> FeeFor(amount), entry |-> bal]
<1>5. /\ flash' = call /\ lock' = TRUE /\ UNCHANGED <<feeBps, loans>>
      /\ SacTransfer(Contract, receiver, amount)
  BY DEF FlashLoanBegin
<1>6. call \in FlashCall BY <1>1, <1>2, <1>4 DEF SacTypeOK, FlashCall
<1>7. call.entry = bal /\ call.kind = "loan" /\ call.fee = FeeFor(amount) OBVIOUS
<1> HIDE DEF call
<1>8. call # NoFlash BY <1>6, NoFlashAssumption
<1>9. SacTypeOK' /\ SumOver(bal') = SumOver(bal)
  <2>1. Contract \in Holders /\ receiver \in Holders /\ Contract # receiver
    BY UsersAssumption DEF Holders
  <2> QED BY <1>1, <1>2, <1>5, <2>1, TransferKeepsTypes, TransferKeepsSupply
<1>10. FlashTypeOK' BY <1>1, <1>5, <1>6, <1>8 DEF FlashTypeOK
<1>11. Books' /\ Liabilities' = Liabilities BY <1>5, <1>9, <1>10, FlashKeepsBooks DEF RegistryIInv
<1>12. /\ SumOver(bal) = SumOver(Genesis) + Minted /\ Minted = 0 /\ Minted' = 0
       /\ Liabilities + loans <= bal[Contract]
  BY <1>3, <1>5, <1>7 DEF RegistryIInv, Backed, Minted
<1>13. SumOver(Genesis) \in Nat BY GenesisAssumption, UsersAssumption, SumOverType
<1>14. flash'.kind # "mint" BY <1>5, <1>7
<1> QED BY <1>4, <1>5, <1>7, <1>8, <1>9, <1>11, <1>12, <1>13, <1>14 DEF RegistryIInv, Backed

\* A loan that ends has brought back what was lent and its fee, so that one more
\* repaid loan is backed by one more stroop.
LEMMA LoanEndPreserves ==
  ASSUME RegistryIInv, FlashLoanEnd,
         UNCHANGED <<controlVars, now, orgVars, qfVars, shareVars, timeLockVars>>
  PROVE  RegistryIInv'
<1>1. SacTypeOK /\ FlashTypeOK
  BY DEF RegistryIInv, Books, QfIInv, QfSound, Sound, OrgTypeOK
<1>2. /\ flash # NoFlash /\ flash.kind = "loan" /\ bal[Contract] >= flash.entry[Contract] + flash.fee
      /\ flash' = NoFlash /\ loans' = loans + 1 /\ lock' = FALSE /\ UNCHANGED <<feeBps, bal>>
  BY DEF FlashLoanEnd, RepaidWithFee
<1>3. SacTypeOK' /\ FlashTypeOK' BY <1>1, <1>2 DEF SacTypeOK, FlashTypeOK
<1>4. Books' /\ Liabilities' = Liabilities BY <1>2, <1>3, FlashKeepsBooks DEF RegistryIInv
<1>5. /\ SumOver(bal) = SumOver(Genesis) + Minted /\ Minted = 0 /\ Minted' = 0
      /\ Liabilities + loans <= flash.entry[Contract] /\ flash.fee >= 1
  BY <1>2 DEF RegistryIInv, Backed, Minted
<1>6. /\ flash.fee \in Nat /\ flash.entry[Contract] \in Nat /\ Liabilities \in Nat
      /\ loans \in Nat /\ bal[Contract] \in Nat
  BY <1>1, <1>2, FlashCallParts, LiabilitiesType DEF RegistryIInv
<1>7. Liabilities + loans + 1 <= bal[Contract] BY <1>2, <1>5, <1>6
<1>8. Liabilities' + loans' <= bal'[Contract] BY <1>2, <1>4, <1>6, <1>7
<1>9. SumOver(bal') = SumOver(Genesis) + Minted' BY <1>2, <1>5
<1> QED BY <1>2, <1>4, <1>8, <1>9 DEF RegistryIInv, Backed

\* A mint begins with the registry backed and adds tokens to the receiver's.
LEMMA MintBeginPreserves ==
  ASSUME RegistryIInv, NEW receiver \in Users, NEW amount \in Requests,
         FlashMintBegin(receiver, amount),
         UNCHANGED <<controlVars, now, orgVars, qfVars, shareVars, timeLockVars>>
  PROVE  RegistryIInv'
<1>1. SacTypeOK /\ FlashTypeOK
  BY DEF RegistryIInv, Books, QfIInv, QfSound, Sound, OrgTypeOK
<1>2. amount \in Nat \ {0} BY RequestsAssumption DEF FlashMintBegin
<1>3. ~lock /\ flash = NoFlash BY <1>1 DEF FlashMintBegin, LockFree, FlashTypeOK
<1> DEFINE call == [kind |-> "mint", receiver |-> receiver, amount |-> amount, fee |-> 0,
                    entry |-> bal]
<1>4. /\ flash' = call /\ lock' = TRUE /\ UNCHANGED <<feeBps, loans>>
      /\ bal' = [bal EXCEPT ![receiver] = bal[receiver] + amount]
  BY DEF FlashMintBegin
<1>5. call \in FlashCall BY <1>1, <1>2 DEF SacTypeOK, FlashCall
<1>6. call.entry = bal /\ call.kind = "mint" /\ call.amount = amount OBVIOUS
<1> HIDE DEF call
<1>7. call # NoFlash BY <1>5, NoFlashAssumption
<1>8. /\ receiver \in Holders /\ Contract \in Holders /\ receiver # Contract
      /\ bal \in [Holders -> Nat] /\ bal[receiver] + amount \in Nat
  BY <1>1, <1>2, UsersAssumption DEF SacTypeOK, Holders
<1>9. /\ SumOver(bal) \in Nat
      /\ SumOver(bal') = SumOver(bal) - bal[receiver] + (bal[receiver] + amount)
  BY <1>4, <1>8, SupplyExcept
<1>10. SumOver(bal') = SumOver(bal) + amount BY <1>1, <1>2, <1>8, <1>9
<1>11. SacTypeOK' /\ bal'[Contract] = bal[Contract] BY <1>4, <1>8 DEF SacTypeOK
<1>12. FlashTypeOK' BY <1>1, <1>4, <1>5, <1>7 DEF FlashTypeOK
<1>13. Books' /\ Liabilities' = Liabilities BY <1>4, <1>11, <1>12, FlashKeepsBooks DEF RegistryIInv
<1>14. /\ SumOver(bal) = SumOver(Genesis) + Minted /\ Minted = 0 /\ Minted' = amount
       /\ Liabilities + loans <= bal[Contract]
  BY <1>3, <1>4, <1>6, <1>7 DEF RegistryIInv, Backed, Minted
<1>15. SumOver(Genesis) \in Nat BY GenesisAssumption, UsersAssumption, SumOverType
<1>16. flash'.entry = bal /\ flash'.kind = "mint" /\ flash' # NoFlash BY <1>4, <1>6, <1>7
<1>17. SumOver(bal') = SumOver(Genesis) + Minted' BY <1>10, <1>14, <1>15
<1>18. bal[Contract] \in Nat BY <1>8
<1>19. SumOver(bal) = SumOver(Genesis) BY <1>14, <1>15
<1> QED BY <1>4, <1>11, <1>13, <1>14, <1>16, <1>17, <1>18, <1>19 DEF RegistryIInv, Backed

\* A mint that ends has burnt what it minted, and none of it from the registry.
LEMMA MintEndPreserves ==
  ASSUME RegistryIInv, FlashMintEnd,
         UNCHANGED <<controlVars, now, orgVars, qfVars, shareVars, timeLockVars>>
  PROVE  RegistryIInv'
<1>1. SacTypeOK /\ FlashTypeOK
  BY DEF RegistryIInv, Books, QfIInv, QfSound, Sound, OrgTypeOK
<1> DEFINE receiver == flash.receiver
           amount == flash.amount
<1>2. /\ flash # NoFlash /\ flash.kind = "mint" /\ amount <= bal[receiver]
      /\ bal' = [bal EXCEPT ![receiver] = bal[receiver] - amount]
      /\ flash' = NoFlash /\ lock' = FALSE /\ UNCHANGED <<feeBps, loans>>
  BY DEF FlashMintEnd, Burn
<1>3. receiver \in Users /\ amount \in Nat /\ flash.entry[Contract] \in Nat
  BY <1>1, <1>2, FlashCallParts
<1>4. /\ SumOver(bal) = SumOver(Genesis) + Minted /\ Minted = amount /\ Minted' = 0
      /\ Liabilities + loans <= flash.entry[Contract] /\ flash.entry[Contract] <= bal[Contract]
  BY <1>2 DEF RegistryIInv, Backed, Minted
<1> HIDE DEF receiver, amount
<1>5. /\ receiver \in Holders /\ Contract \in Holders /\ receiver # Contract
      /\ bal \in [Holders -> Nat] /\ bal[receiver] - amount \in Nat
  BY <1>1, <1>2, <1>3, UsersAssumption DEF SacTypeOK, Holders
<1>6. /\ SumOver(bal) \in Nat
      /\ SumOver(bal') = SumOver(bal) - bal[receiver] + (bal[receiver] - amount)
  BY <1>2, <1>5, SupplyExcept
<1>7. SumOver(bal') = SumOver(bal) - amount BY <1>3, <1>5, <1>6
<1>8. SacTypeOK' /\ bal'[Contract] = bal[Contract] BY <1>2, <1>5 DEF SacTypeOK
<1>9. FlashTypeOK' BY <1>1, <1>2 DEF FlashTypeOK
<1>10. Books' /\ Liabilities' = Liabilities BY <1>2, <1>8, <1>9, FlashKeepsBooks DEF RegistryIInv
<1>11. SumOver(Genesis) \in Nat BY GenesisAssumption, UsersAssumption, SumOverType
<1>12. SumOver(bal') = SumOver(Genesis) + Minted' BY <1>3, <1>4, <1>7, <1>11
<1>13. Liabilities' + loans' <= bal'[Contract]
  <2>1. Liabilities \in Nat /\ loans \in Nat /\ bal[Contract] \in Nat
    BY LiabilitiesType DEF RegistryIInv
  <2> QED BY <1>2, <1>3, <1>4, <1>8, <1>10, <2>1
<1> QED BY <1>2, <1>10, <1>12, <1>13 DEF RegistryIInv, Backed

\* A reverted call puts every balance back.
LEMMA RevertPreserves ==
  ASSUME RegistryIInv, FlashRevert,
         UNCHANGED <<controlVars, now, orgVars, qfVars, shareVars, timeLockVars>>
  PROVE  RegistryIInv'
<1>1. FlashTypeOK BY DEF RegistryIInv, Books
<1>2. /\ flash # NoFlash /\ bal' = flash.entry /\ flash' = NoFlash /\ lock' = FALSE
      /\ UNCHANGED <<feeBps, loans>>
  BY DEF FlashRevert
<1>3. SacTypeOK' /\ FlashTypeOK' BY <1>1, <1>2, FlashCallParts DEF SacTypeOK, FlashTypeOK
<1>4. Books' /\ Liabilities' = Liabilities BY <1>2, <1>3, FlashKeepsBooks DEF RegistryIInv
<1>5. SumOver(Genesis) \in Nat BY GenesisAssumption, UsersAssumption, SumOverType
<1>6. Minted' = 0 BY <1>2 DEF Minted
<1>7. Liabilities + loans <= flash.entry[Contract] /\ SumOver(flash.entry) = SumOver(Genesis)
  BY <1>2 DEF RegistryIInv, Backed
<1> QED BY <1>2, <1>4, <1>5, <1>6, <1>7 DEF RegistryIInv, Backed

-----------------------------------------------------------------------------
(* The invariant.                                                          *)

\* The first state.
LEMMA RegistryInitInv ==
  ASSUME RegistryInit
  PROVE  RegistryIInv
<1>1. Init /\ QfInit /\ ShareInit /\ TimeLockInit /\ FlashInit /\ SacInit /\ ControlInit
  BY DEF RegistryInit, Init
<1>2. QfIInv /\ OrgSolvency /\ SacTypeOK
  BY <1>1, QfInitInv, InitIInv DEF IInv, Sound, OrgTypeOK
<1>3. ShareTypeOK /\ ShareAccounting /\ NobodyGainsFromOthers
  BY <1>1, ShareInitInv DEF VaultInv
<1>4. TimeLockTypeOK /\ TimeLockConserved
  BY <1>1 DEF TimeLockInit, TimeLockTypeOK, TimeLockConserved, NoAmounts, VaultAmounts
<1>5. FlashTypeOK
  BY <1>1 DEF FlashInit, ControlInit, FlashTypeOK, DefaultFeeBps, MaxFeeBps
<1>6. Books BY <1>2, <1>3, <1>4, <1>5 DEF Books
<1>7. bal[Contract] = 0 BY <1>1 DEF SacInit, Holders
<1>8. Liabilities + loans <= bal[Contract]
  <2>1. Locked(vault) = [key \in Users \X Maturities |-> 0]
    BY <1>1 DEF Locked, TimeLockInit, NoAmounts
  <2>2. SumOver(Locked(vault)) = 0 BY <2>1, SumOverZero
  <2>3. Funds(budget, payout) <= 0
    BY <1>2, <1>7 DEF OrgSolvency, OrgLiabilities, Funds, Dues
  <2>4. matchingPool = 0 /\ totalAssets = 0 /\ loans = 0
    BY <1>1 DEF QfInit, ShareInit, FlashInit
  <2> QED BY <1>6, <1>7, <2>2, <2>3, <2>4, LiabilitiesSplit
<1>9. SumOver(bal) = SumOver(Genesis)
  <2>1. bal \in [Holders -> Nat] /\ Users \in SUBSET Holders BY <1>2 DEF SacTypeOK, Holders
  <2>2. \A h \in Holders \ Users : bal[h] = 0 BY <1>7 DEF Holders
  <2>3. [u \in Users |-> bal[u]] = Genesis
    BY <1>1, UsersAssumption, GenesisAssumption DEF SacInit, Holders
  <2> QED BY <2>1, <2>2, <2>3, SumOverSupport
<1>10. flash = NoFlash /\ Minted = 0 BY <1>1 DEF FlashInit, Minted
<1>11. SumOver(Genesis) \in Nat BY GenesisAssumption, UsersAssumption, SumOverType
<1> QED BY <1>6, <1>8, <1>9, <1>10, <1>11 DEF RegistryIInv, Backed

\* The part of the flash loans.
LEMMA FlashPart ==
  ASSUME RegistryIInv, FlashStep,
         UNCHANGED <<controlVars, now, orgVars, qfVars, shareVars, timeLockVars>>
  PROVE  RegistryIInv'
BY FeePreserves, LoanBeginPreserves, LoanEndPreserves, MintBeginPreserves, MintEndPreserves,
   RevertPreserves DEF FlashStep

\* Every step of the registry.
LEMMA RegistryStepPreserves ==
  ASSUME RegistryIInv, [RegistryNext]_registryVars
  PROVE  RegistryIInv'
<1> USE DEF RegistryIInv
<1>1. CASE [QfNext]_qfAllVars /\ UNCHANGED <<shareVars, timeLockVars, flashVars>>
  BY <1>1, QfPart, SettledStaysBacked
<1>2. CASE ShareStep /\ UNCHANGED <<controlVars, lock, now, orgVars, qfVars, timeLockVars,
                                    flashVars>>
  <2>1. VaultSolvency
    <3>1. ~lock BY <1>2 DEF ShareStep, VaultDeposit, VaultWithdraw, LockFree
    <3>2. Liabilities + loans <= bal[Contract] BY <3>1 DEF Books, FlashTypeOK, Backed
    <3> QED BY <3>2, LiabilitiesSplit DEF VaultSolvency
  <2> QED BY <1>2, <2>1, SharePart, SettledStaysBacked
<1>3. CASE TimeLockStep /\ UNCHANGED <<controlVars, lock, now, orgVars, qfVars, shareVars,
                                       flashVars>>
  BY <1>3, TimeLockPart, SettledStaysBacked
<1>4. CASE FlashStep /\ UNCHANGED <<controlVars, now, orgVars, qfVars, shareVars, timeLockVars>>
  BY <1>4, FlashPart
<1>5. CASE UNCHANGED registryVars BY <1>1, <1>5 DEF registryVars, qfAllVars, vars
<1> QED BY <1>1, <1>2, <1>3, <1>4, <1>5 DEF RegistryNext

\* The books are right and backed in every behaviour of the contract.
THEOREM RegistryInductive == RegistrySpec => []RegistryIInv
<1>1. RegistryInit => RegistryIInv BY RegistryInitInv
<1>2. RegistryIInv /\ [RegistryNext]_registryVars => RegistryIInv' BY RegistryStepPreserves
<1> QED BY <1>1, <1>2, PTL DEF RegistrySpec

\* What the invariant says of the properties.
LEMMA RegistryImplies ==
  ASSUME RegistryIInv
  PROVE  /\ RegistrySolvency /\ SupplyIsConserved /\ BorrowingIsNeverFree
         /\ ShareAccounting /\ NobodyGainsFromOthers /\ TimeLockConserved
         /\ RegistryTypeOK
<1>1. /\ Liabilities \in Nat /\ bal[Contract] \in Nat /\ loans \in Nat
      /\ ~lock => flash = NoFlash
  BY LiabilitiesType DEF RegistryIInv, Books, FlashTypeOK
<1>2. ~lock => Liabilities <= bal[Contract] /\ loans <= bal[Contract]
  BY <1>1 DEF RegistryIInv, Backed
<1>3. SumOver(Genesis) \in Nat BY GenesisAssumption, UsersAssumption, SumOverType
<1>4. ~lock => SumOver(bal) = SumOver(Genesis) BY <1>1, <1>3 DEF RegistryIInv, Backed, Minted
<1>5. RegistryTypeOK BY DEF RegistryIInv, Books, QfIInv, QfSound, Sound, RegistryTypeOK
<1> QED BY <1>2, <1>4, <1>5 DEF RegistryIInv, Books, RegistrySolvency, SupplyIsConserved,
                               BorrowingIsNeverFree

\* Every state of the whole contract is well typed: nothing it keeps goes negative.
THEOREM RegistryTypeCorrect == RegistrySpec => []RegistryTypeOK
<1>1. RegistryIInv => RegistryTypeOK BY RegistryImplies
<1> QED BY <1>1, RegistryInductive, PTL

\* Between transactions the registry can pay everybody at once: budgets, payouts,
\* the matching pool, the share vault and every time-lock vault.
THEOREM RegistryIsSolvent == RegistrySpec => []RegistrySolvency
<1>1. RegistryIInv => RegistrySolvency BY RegistryImplies
<1> QED BY <1>1, RegistryInductive, PTL

\* Flash-minted tokens never outlive their call, whatever its callback did.
THEOREM NoMintSurvives == RegistrySpec => []SupplyIsConserved
<1>1. RegistryIInv => SupplyIsConserved BY RegistryImplies
<1> QED BY <1>1, RegistryInductive, PTL

\* Each repaid loan left a stroop that nothing the registry pays later takes away.
THEOREM LoansLeaveTheirFee == RegistrySpec => []BorrowingIsNeverFree
<1>1. RegistryIInv => BorrowingIsNeverFree BY RegistryImplies
<1> QED BY <1>1, RegistryInductive, PTL

\* What was ever locked under a key is in its vault or was released to its owner.
THEOREM LockedTokensAreKept == RegistrySpec => []TimeLockConserved
<1>1. RegistryIInv => TimeLockConserved BY RegistryImplies
<1> QED BY <1>1, RegistryInductive, PTL

\* Flash calls and vaults share the token balance with the organizations and with
\* quadratic funding, and disturb the accounts of neither.
THEOREM AccountsHoldTogether ==
  RegistrySpec => [](OrgConservation /\ StatsMatchContributions /\ MatchingConserved)
<1>1. RegistryIInv => OrgConservation /\ StatsMatchContributions /\ MatchingConserved
  BY DEF RegistryIInv, Books, QfIInv, Balanced
<1> QED BY <1>1, RegistryInductive, PTL

\* The share vault stays at par inside the whole contract too, where flash calls,
\* claims and matching move the same token balance.
THEOREM SharesStayAtParInside == RegistrySpec => [](ShareAccounting /\ NobodyGainsFromOthers)
<1>1. RegistryIInv => ShareAccounting /\ NobodyGainsFromOthers BY RegistryImplies
<1> QED BY <1>1, RegistryInductive, PTL
=============================================================================
