------------------------- MODULE OrgPayouts_proofs --------------------------
(***************************************************************************)
(* Proofs about organizations and payouts: type correctness, the           *)
(* agreement of a payout record with its schedule, and solvency.  The      *)
(* three hold one another up (a claim stays within the amount owed only    *)
(* because the record agrees with its schedule), so the inductive          *)
(* invariant is their conjunction.  On top of it: who may act, that every  *)
(* credited stroop is accounted for, who is enrolled where, and what a     *)
(* schedule in order pays.                                                 *)
(***************************************************************************)
EXTENDS OrgPayouts, AmountSums_proofs

Agrees(p) == p.amount + p.claimed = Total(p.tranches)

Dues(p) == [m \in Users |-> p[m].amount]

Funds(b, p) == SumOver(b) + SumOver(Dues(p))

PositiveBatch(batch) ==
  /\ batch \in Seq(PayoutParams)
  /\ \A i \in DOMAIN batch : batch[i].amount \in Nat \ {0}

Sound == OrgTypeOK /\ AmountAccounting

IInv == Sound /\ OrgSolvency

\* A step that adds no more to what the registry owes than to what it holds.
Covered ==
  Funds(budget', payout') + bal[Contract] <= Funds(budget, payout) + bal'[Contract]

-----------------------------------------------------------------------------
\* The tranches of a schedule sum to a natural number.
LEMMA GoodTotal ==
  ASSUME NEW ts \in Seq(GoodTranche)
  PROVE  Total(ts) \in Nat
<1>1. \A r \in GoodTranche : r.amount \in Nat BY DEF GoodTranche
<1> QED BY <1>1, TotalType

\* A maintainer can be paid at most what the schedule promises, wherever the
\* bisection ends.
LEMMA VestedAmountBound ==
  ASSUME NEW ts \in Seq(GoodTranche), NEW t
  PROVE  VestedAmount(ts, t) \in Nat /\ VestedAmount(ts, t) <= Total(ts)
<1> DEFINE D == DOMAIN ts
           f == [i \in D |-> ts[i].amount]
           R == {j \in D : j <= LastUnlocked(ts, t)}
<1>1. IsFiniteSet(D) /\ IsFiniteSet(R) BY FS_Interval, FS_Subset
<1>2. f \in [D -> Nat]
  <2>1. \A i \in D : ts[i] \in GoodTranche OBVIOUS
  <2> QED BY <2>1 DEF GoodTranche
<1>3. R \in SUBSET D OBVIOUS
<1>4. [i \in R |-> ts[i].amount] = [i \in R |-> f[i]] OBVIOUS
<1>5. [i \in R |-> f[i]] \in [R -> Nat] BY <1>2, <1>3
<1>6. VestedAmount(ts, t) = SumOver([i \in R |-> f[i]]) BY <1>4 DEF VestedAmount, SumPrefix
<1>7. Total(ts) = SumOver(f) BY DEF Total
<1> HIDE DEF D, f, R
<1>8. SumOver([i \in R |-> f[i]]) <= SumOver(f) BY <1>1, <1>2, <1>3, SumOverSubset
<1>9. SumOver([i \in R |-> f[i]]) \in Nat BY <1>1, <1>5, SumOverType
<1> QED BY <1>6, <1>7, <1>8, <1>9

\* A new maintainer's record promises nothing and owes nothing.
LEMMA EmptyPayoutAgrees == EmptyPayout \in MaintainerPayout /\ Agrees(EmptyPayout)
<1>1. [i \in DOMAIN <<>> |-> <<>>[i].amount] = [i \in DOMAIN <<>> |-> 0] OBVIOUS
<1>2. Total(<<>>) = 0 BY <1>1, SumOverZero DEF Total
<1> QED BY <1>2 DEF EmptyPayout, MaintainerPayout, Agrees

\* Allocating a schedule adds its total to what is owed and to what the schedule
\* promises alike.
LEMMA AddTranchesAgrees ==
  ASSUME NEW p \in MaintainerPayout, NEW ts \in Seq(GoodTranche)
  PROVE  /\ AddTranches(p, ts) \in MaintainerPayout
         /\ AddTranches(p, ts).amount = p.amount + Total(ts)
         /\ Total(AddTranches(p, ts).tranches) = Total(p.tranches) + Total(ts)
         /\ Agrees(p) => Agrees(AddTranches(p, ts))
<1>1. Total(ts) \in Nat BY GoodTotal
<1>2. p.tranches \in Seq(GoodTranche) /\ p.amount \in Nat /\ p.claimed \in Nat
  BY DEF MaintainerPayout
<1>3. Total(p.tranches) \in Nat BY <1>2, GoodTotal
<1>4. Total(p.tranches \o ts) = Total(p.tranches) + Total(ts)
  <2>1. \A r \in GoodTranche : r.amount \in Nat BY DEF GoodTranche
  <2> QED BY <1>2, <2>1, TotalConcat
<1>5. p.tranches \o ts \in Seq(GoodTranche) BY <1>2
<1>6. AddTranches(p, ts) = [amount |-> p.amount + Total(ts), claimed |-> p.claimed,
                            tranches |-> p.tranches \o ts]
  BY DEF AddTranches
<1>7. AddTranches(p, ts) \in MaintainerPayout BY <1>1, <1>2, <1>5, <1>6 DEF MaintainerPayout
<1>8. Agrees(p) => Agrees(AddTranches(p, ts))
  BY <1>1, <1>2, <1>3, <1>4, <1>6 DEF Agrees
<1> QED BY <1>4, <1>6, <1>7, <1>8

\* Replacing one maintainer's record changes the sum of dues by the difference.
LEMMA DuesExcept ==
  ASSUME NEW p \in [Users -> MaintainerPayout], NEW m \in Users, NEW q \in MaintainerPayout
  PROVE  /\ SumOver(Dues(p)) \in Nat
         /\ SumOver(Dues([p EXCEPT ![m] = q])) = SumOver(Dues(p)) - p[m].amount + q.amount
<1>1. Dues(p) \in [Users -> Nat] BY DEF Dues, MaintainerPayout
<1>2. IsFiniteSet(Users) BY UsersAssumption
<1>3. q.amount \in Nat BY DEF MaintainerPayout
<1>4. Dues([p EXCEPT ![m] = q]) = [Dues(p) EXCEPT ![m] = q.amount]
  <2>1. \A u \in Users :
          Dues([p EXCEPT ![m] = q])[u] = [Dues(p) EXCEPT ![m] = q.amount][u]
    BY DEF Dues
  <2> QED BY <2>1 DEF Dues
<1>5. Dues(p)[m] = p[m].amount BY DEF Dues
<1>6. SumOver(Dues(p)) \in Nat BY <1>1, <1>2, SumOverType
<1>7. SumOver([Dues(p) EXCEPT ![m] = q.amount]) = SumOver(Dues(p)) - Dues(p)[m] + q.amount
  BY <1>1, <1>2, <1>3, SumOverExcept
<1> QED BY <1>4, <1>5, <1>6, <1>7

\* Changing one organization's budget changes the sum of budgets by the difference.
LEMMA BudgetExcept ==
  ASSUME NEW b \in [Orgs -> Nat], NEW o \in Orgs, NEW v \in Nat
  PROVE  /\ SumOver(b) \in Nat
         /\ SumOver([b EXCEPT ![o] = v]) = SumOver(b) - b[o] + v
BY ZenonT(60), OrgsAssumption, SumOverType, SumOverExcept

\* Budgets and dues add up to a natural number.
LEMMA FundsType ==
  ASSUME NEW b \in [Orgs -> Nat], NEW p \in [Users -> MaintainerPayout]
  PROVE  Funds(b, p) \in Nat
<1>1. Dues(p) \in [Users -> Nat] BY DEF Dues, MaintainerPayout
<1>2. SumOver(b) \in Nat /\ SumOver(Dues(p)) \in Nat
  BY <1>1, OrgsAssumption, UsersAssumption, SumOverType
<1> QED BY <1>2 DEF Funds

\* A batch splits into its maintainers' parts without loss: what it adds to the
\* dues of all of them is what it takes from the budget.
LEMMA BatchTranchesTotal ==
  ASSUME NEW batch \in Seq(PayoutParams), NEW m \in Users,
         \A i \in DOMAIN batch : batch[i].amount \in Nat \ {0}
  PROVE  /\ BatchTranches(batch, m) \in Seq(GoodTranche)
         /\ Total(BatchTranches(batch, m)) =
              SumOver([i \in {j \in DOMAIN batch : batch[j].maintainer = m} |-> batch[i].amount])
<1> DEFINE D == DOMAIN batch
           mine == {i \in D : batch[i].maintainer = m}
           n == Cardinality(mine)
           Upto(i) == {j \in mine : j <= i}
           rank == [i \in mine |-> Cardinality(Upto(i))]
           nth(k) == CHOOSE i \in mine : Cardinality(Upto(i)) = k
           K == 1 .. n
           f == [i \in mine |-> batch[i].amount]
           g == [k \in K |-> batch[nth(k)].amount]
<1>1. IsFiniteSet(mine) /\ n \in Nat /\ \A i \in mine : i \in Nat
  <2>1. IsFiniteSet(D) /\ mine \subseteq D BY SMTT(60), FS_Interval
  <2> QED BY <2>1, FS_Subset, FS_CardinalityType
<1>2. ASSUME NEW i \in mine
      PROVE  IsFiniteSet(Upto(i)) /\ Cardinality(Upto(i)) \in K
  <2>1. Upto(i) \subseteq mine /\ i \in Upto(i) BY <1>1
  <2>2. IsFiniteSet(Upto(i)) /\ Cardinality(Upto(i)) <= n BY <1>1, <2>1, FS_Subset
  <2>3. Cardinality(Upto(i)) # 0 BY <2>1, <2>2, FS_EmptySet
  <2>4. Cardinality(Upto(i)) \in Nat BY <2>2, FS_CardinalityType
  <2> QED BY <1>1, <2>2, <2>3, <2>4
<1>3. ASSUME NEW i \in mine, NEW j \in mine, i < j
      PROVE  Cardinality(Upto(i)) # Cardinality(Upto(j))
  <2>1. Upto(i) \subseteq Upto(j) /\ j \in Upto(j) /\ j \notin Upto(i) BY <1>1, <1>3
  <2>2. IsFiniteSet(Upto(i)) /\ IsFiniteSet(Upto(j)) BY <1>2
  <2>3. Upto(i) # Upto(j) BY <2>1
  <2> HIDE DEF Upto
  <2> QED BY <2>1, <2>2, <2>3, FS_Subset
<1>4. rank \in Bijection(mine, K)
  <2>1. rank \in [mine -> K]
    <3> HIDE DEF Upto, mine, K
    <3> QED BY <1>2
  <2>2. ASSUME NEW i \in mine, NEW j \in mine, rank[i] = rank[j] PROVE i = j
    <3> HIDE DEF Upto
    <3>1. ~(i < j) /\ ~(j < i) BY <1>3, <2>2
    <3> QED BY <1>1, <3>1
  <2>3. rank \in Injection(mine, K)
    <3> HIDE DEF rank, mine, K
    <3> QED BY <2>1, <2>2 DEF Injection, IsInjective
  <2>4. IsFiniteSet(K) /\ Cardinality(K) = Cardinality(mine)
    <3>1. 1 \in Int /\ n \in Int /\ n - 1 + 1 = n /\ (1 > n => n = 0) BY <1>1
    <3> HIDE DEF n
    <3>2. IsFiniteSet(1 .. n) /\ Cardinality(1 .. n) = n BY <1>1, <3>1, FS_Interval
    <3> QED BY <3>2 DEF n
  <2> HIDE DEF rank, mine, K, n
  <2>5. rank \in Surjection(mine, K) BY <1>1, <2>3, <2>4, FS_Injection
  <2> QED BY <2>3, <2>5 DEF Bijection
<1>5. ASSUME NEW k \in K PROVE nth(k) \in mine
  <2>1. \E i \in mine : rank[i] = k
    <3> HIDE DEF rank, mine, K
    <3> QED BY <1>4 DEF Bijection, Surjection
  <2> HIDE DEF Upto, mine, K
  <2> QED BY <2>1
<1>6. ASSUME NEW i \in mine PROVE nth(rank[i]) = i
  <2>1. \A j \in mine : rank[j] = rank[i] => j = i
    <3> HIDE DEF rank, mine, K
    <3> QED BY <1>4 DEF Bijection, Injection, IsInjective
  <2> HIDE DEF Upto, mine, K
  <2> QED BY <2>1
<1>7. f \in [mine -> Nat] /\ g \in [K -> Nat]
  <2>1. \A i \in mine : batch[i].amount \in Nat OBVIOUS
  <2> HIDE DEF mine, nth, K
  <2> QED BY <1>5, <2>1
<1>8. \A i \in mine : f[i] = g[rank[i]]
  <2>1. \A i \in mine : rank[i] \in K
    <3> HIDE DEF mine, K
    <3> QED BY <1>2
  <2> HIDE DEF mine, nth, K, rank
  <2> QED BY <1>6, <2>1
<1>9. SumOver(f) = SumOver(g)
  <2> HIDE DEF f, g, mine, K, rank
  <2> QED BY <1>1, <1>4, <1>7, <1>8, SumOverReindex
<1>10. BatchTranches(batch, m) = [k \in K |-> [unlock |-> 0, amount |-> batch[nth(k)].amount]]
  BY DEF BatchTranches
<1>11. BatchTranches(batch, m) \in [K -> GoodTranche]
  <2>1. 0 \in Timestamps BY MaxTimeAssumption DEF Timestamps
  <2>2. \A i \in mine : [unlock |-> 0, amount |-> batch[i].amount] \in GoodTranche
    BY <2>1 DEF GoodTranche
  <2> HIDE DEF mine, nth, K
  <2> QED BY <1>5, <1>10, <2>2
<1>12. BatchTranches(batch, m) \in Seq(GoodTranche)
  <2> HIDE DEF n
  <2> QED BY <1>1, <1>11
<1>13. Total(BatchTranches(batch, m)) = SumOver(g)
  <2> DEFINE bt == BatchTranches(batch, m)
  <2>1. DOMAIN bt = K /\ \A k \in K : bt[k].amount = batch[nth(k)].amount
    <3> HIDE DEF nth, K
    <3> QED BY <1>10
  <2> HIDE DEF bt, nth, K
  <2>2. [k \in DOMAIN bt |-> bt[k].amount] = g BY <2>1
  <2> QED BY <2>2 DEF Total, bt
<1> QED BY <1>9, <1>12, <1>13

\* Sums of what is kept per maintainer are sums of the whole.
LEMMA SumByMaintainer ==
  ASSUME NEW D, IsFiniteSet(D), NEW f \in [D -> Nat], NEW key \in [D -> Users],
         NEW h \in [Users -> Nat], \A m \in Users : h[m] = SumOver(PartOf(f, key, m))
  PROVE  SumOver(h) = SumOver(f)
BY UsersAssumption, SumOverPartition

\* The total of a batch is the sum of what its maintainers get.
LEMMA BatchTotal ==
  ASSUME NEW batch, PositiveBatch(batch)
  PROVE  /\ Total(batch) \in Nat
         /\ \A m \in Users : Total(BatchTranches(batch, m)) \in Nat
         /\ SumOver([m \in Users |-> Total(BatchTranches(batch, m))]) = Total(batch)
<1> DEFINE D == DOMAIN batch
           f == [i \in D |-> batch[i].amount]
           key == [i \in D |-> batch[i].maintainer]
           h == [m \in Users |-> Total(BatchTranches(batch, m))]
<1>1. IsFiniteSet(D)
  <2>1. D = 1 .. Len(batch) /\ 1 \in Int /\ Len(batch) \in Int BY DEF PositiveBatch
  <2> HIDE DEF D
  <2> QED BY <2>1, FS_Interval
<1>2. f \in [D -> Nat] BY DEF PositiveBatch
<1>3. key \in [D -> Users]
  <2>1. \A i \in D : batch[i] \in PayoutParams BY DEF PositiveBatch
  <2> QED BY <2>1 DEF PayoutParams
<1>4. Total(batch) = SumOver(f) BY DEF Total
<1>5. ASSUME NEW m \in Users
      PROVE  /\ Total(BatchTranches(batch, m)) = SumOver(PartOf(f, key, m))
             /\ Total(BatchTranches(batch, m)) \in Nat
  <2> DEFINE mine == {j \in D : batch[j].maintainer = m}
  <2>1. /\ BatchTranches(batch, m) \in Seq(GoodTranche)
        /\ Total(BatchTranches(batch, m)) = SumOver([i \in mine |-> batch[i].amount])
    BY BatchTranchesTotal DEF PositiveBatch
  <2>2. {j \in DOMAIN f : key[j] = m} = mine OBVIOUS
  <2>3. [i \in mine |-> batch[i].amount] = PartOf(f, key, m) BY <2>2 DEF PartOf
  <2> QED BY <2>1, <2>3, GoodTotal
<1>6. h \in [Users -> Nat] /\ \A m \in Users : h[m] = SumOver(PartOf(f, key, m)) BY <1>5
<1>7. SumOver(h) = SumOver(f)
  <2> HIDE DEF D, f, key, h
  <2> QED BY <1>1, <1>2, <1>3, <1>6, SumByMaintainer
<1>8. SumOver(f) \in Nat BY <1>1, <1>2, SumOverType
<1> QED BY <1>4, <1>5, <1>7, <1>8

-----------------------------------------------------------------------------
(* The inductive invariant.                                                *)

\* The first state.
LEMMA InitIInv ==
  ASSUME Init
  PROVE  IInv
<1> USE DEF Init, SacInit, ControlInit, OrgVarsInit
<1>1. SacTypeOK BY GenesisAssumption, UsersAssumption DEF SacTypeOK, Holders
<1>2. ControlTypeOK
  <2>1. 0 \in Timestamps BY MaxTimeAssumption DEF Timestamps
  <2>2. ControlInit OBVIOUS
  <2> HIDE DEF Init, SacInit, OrgVarsInit
  <2> QED BY <2>1, <2>2, WasmsAssumption DEF ControlTypeOK
<1>3. EmptyPayout \in MaintainerPayout /\ Agrees(EmptyPayout) BY EmptyPayoutAgrees
<1>4. OrgTypeOK BY <1>1, <1>2, <1>3 DEF OrgTypeOK
<1>5. AmountAccounting BY <1>3 DEF AmountAccounting, Agrees
<1>6. OrgSolvency
  <2>1. SumOver(budget) = 0 BY SumOverZero
  <2>2. Dues(payout) = [m \in Users |-> 0] BY DEF Dues, EmptyPayout
  <2>3. SumOver(Dues(payout)) = 0 BY <2>2, SumOverZero
  <2>4. bal[Contract] = 0 BY DEF Holders
  <2> QED BY <2>1, <2>3, <2>4 DEF OrgSolvency, OrgLiabilities, Dues
<1> QED BY <1>4, <1>5, <1>6 DEF IInv, Sound

\* What the invariant says of the sums the money steps change.
LEMMA SoundSums ==
  ASSUME Sound
  PROVE  /\ SumOver(budget) \in Nat /\ SumOver(Dues(payout)) \in Nat /\ bal[Contract] \in Nat
         /\ \A x \in Users : payout[x] \in MaintainerPayout /\ Agrees(payout[x])
<1>1. budget \in [Orgs -> Nat] /\ Dues(payout) \in [Users -> Nat]
  BY DEF Sound, OrgTypeOK, Dues, MaintainerPayout
<1>2. bal[Contract] \in Nat BY DEF Sound, OrgTypeOK, SacTypeOK, Holders
<1>3. \A x \in Users : payout[x] \in MaintainerPayout BY DEF Sound, OrgTypeOK
<1>4. \A x \in Users : Agrees(payout[x]) BY DEF Sound, AmountAccounting, Agrees
<1>5. SumOver(budget) \in Nat /\ SumOver(Dues(payout)) \in Nat
  BY <1>1, OrgsAssumption, UsersAssumption, SumOverType
<1> QED BY <1>2, <1>3, <1>4, <1>5

\* Who is who may change freely: the invariant reads only balances, budgets and
\* payout records, besides the types.
LEMMA SameMoney ==
  ASSUME Sound, OrgTypeOK', UNCHANGED <<bal, budget, payout>>
  PROVE  Sound' /\ Covered
<1>1. Sound' BY DEF Sound, AmountAccounting
<1> QED BY <1>1, SoundSums DEF Covered, Funds

\* The steps of the protocol control.
LEMMA ControlPreserves ==
  ASSUME Sound, ControlStep, UNCHANGED <<bal, now, orgVars>>
  PROVE  Sound' /\ Covered
<1> USE DEF Sound, OrgTypeOK, SacTypeOK, ControlTypeOK, orgVars, ControlStep
<1>1. PICK u \in Users :
        \/ InitProtocol(u) \/ PauseProtocol(u) \/ UnpauseProtocol(u) \/ AcceptAdmin(u)
        \/ \E v \in Nominees : ProposeAdmin(u, v)
        \/ \E w \in Wasms : Upgrade(u, w)
  OBVIOUS
<1>2. ControlTypeOK'
  <2>1. CASE InitProtocol(u) BY <2>1 DEF InitProtocol
  <2>2. CASE PauseProtocol(u) BY <2>2 DEF PauseProtocol
  <2>3. CASE UnpauseProtocol(u) BY <2>3 DEF UnpauseProtocol
  <2>4. CASE AcceptAdmin(u) BY <2>4 DEF AcceptAdmin
  <2>5. CASE \E v \in Nominees : ProposeAdmin(u, v)
    BY <2>5, NomineesAssumption DEF ProposeAdmin
  <2>6. CASE \E w \in Wasms : Upgrade(u, w) BY <2>6 DEF Upgrade
  <2> QED BY <1>1, <2>1, <2>2, <2>3, <2>4, <2>5, <2>6
<1>3. OrgTypeOK' BY <1>2
<1> QED BY <1>3, SameMoney

\* A ledger closes.
LEMMA TickPreserves ==
  ASSUME Sound, Tick, UNCHANGED <<bal, controlVars, lock, orgVars>>
  PROVE  Sound' /\ Covered
<1>1. OrgTypeOK'
  BY MaxTimeAssumption
  DEF Sound, OrgTypeOK, SacTypeOK, ControlTypeOK, orgVars, controlVars, Tick, Timestamps
<1> QED BY <1>1, SameMoney DEF orgVars

\* Moving tokens between accounts keeps every balance a natural number and, when
\* the registry is not the sender, does not lower what it holds.
LEMMA TransferKeepsTypes ==
  ASSUME SacTypeOK, NEW from \in Holders, NEW to \in Holders, from # to,
         NEW amount \in Nat, SacTransfer(from, to, amount)
  PROVE  /\ SacTypeOK'
         /\ bal'[from] = bal[from] - amount
         /\ bal'[to] = bal[to] + amount
         /\ \A h \in Holders : h # from /\ h # to => bal'[h] = bal[h]
BY DEF SacTypeOK, SacTransfer

\* The steps of the token.
LEMMA TokenPreserves ==
  ASSUME Sound, TokenStep, UNCHANGED <<controlVars, lock, now, orgVars>>
  PROVE  Sound' /\ Covered
<1>1. PICK from \in Users, to \in Holders, amount \in Requests : TokenTransfer(from, to, amount)
  BY DEF TokenStep
<1>2. amount \in Nat /\ from # to /\ from \in Holders /\ SacTransfer(from, to, amount)
  BY <1>1, RequestsAssumption DEF TokenTransfer, Holders
<1>3. SacTypeOK BY DEF Sound, OrgTypeOK
<1>4. SacTypeOK' /\ bal'[to] = bal[to] + amount
      /\ \A h \in Holders : h # from /\ h # to => bal'[h] = bal[h]
  BY <1>2, <1>3, TransferKeepsTypes
<1>5. bal[Contract] \in Nat /\ Contract \in Holders /\ from # Contract
  BY <1>3, UsersAssumption DEF SacTypeOK, Holders
<1>6. bal'[Contract] >= bal[Contract] /\ bal'[Contract] \in Nat
  BY <1>2, <1>4, <1>5 DEF SacTypeOK
<1>7. OrgTypeOK'
  BY <1>4 DEF Sound, OrgTypeOK, ControlTypeOK, controlVars, orgVars
<1>8. AmountAccounting' BY DEF Sound, AmountAccounting, orgVars
<1>9. SumOver(budget) \in Nat /\ SumOver(Dues(payout)) \in Nat BY SoundSums
<1>10. Covered
  <2>1. UNCHANGED <<budget, payout>> BY DEF orgVars
  <2> QED BY <1>5, <1>6, <1>9, <2>1 DEF Covered, Funds
<1> QED BY <1>7, <1>8, <1>10 DEF Sound

\* Registration, the admin list and enrolment touch no money, except that a
\* registration starts its budget at zero and an enrolment starts an empty payout.
LEMMA PeoplePreserves ==
  ASSUME Sound, PeopleStep, UNCHANGED <<controlVars, lock, now>>
  PROVE  Sound' /\ Covered
<1> USE DEF PeopleStep
<1>1. PICK o \in Orgs, u \in Users :
        \/ RegisterOrg(o, u)
        \/ \E cid \in Cids : UpdateOrgMetadata(o, u, cid)
        \/ \E v \in Users : AddAdmin(o, u, v)
        \/ \E v \in Users : RemoveAdmin(o, u, v)
        \/ \E m \in Users : AddMaintainer(o, u, m)
  OBVIOUS
<1>2. SacTypeOK' /\ ControlTypeOK'
  BY <1>1 DEF Sound, OrgTypeOK, SacTypeOK, ControlTypeOK, controlVars, RegisterOrg,
     UpdateOrgMetadata, AddAdmin, RemoveAdmin, AddMaintainer
<1>3. SumOver(budget) \in Nat /\ SumOver(Dues(payout)) \in Nat /\ bal[Contract] \in Nat
  BY SoundSums
<1>4. CASE RegisterOrg(o, u)
  <2>1. budget \in [Orgs -> Nat] /\ budget' = [budget EXCEPT ![o] = 0]
    BY <1>4 DEF Sound, OrgTypeOK, RegisterOrg
  <2>2. 0 \in Nat /\ budget[o] \in Nat BY <2>1
  <2>3. SumOver(budget') = SumOver(budget) - budget[o] + 0 BY <2>1, <2>2, BudgetExcept
  <2>4. OrgTypeOK' BY <1>2, <1>4 DEF Sound, OrgTypeOK, RegisterOrg
  <2>5. AmountAccounting' BY <1>4 DEF Sound, AmountAccounting, RegisterOrg
  <2>6. Covered
    <3>1. UNCHANGED <<bal, payout>> BY <1>4 DEF RegisterOrg
    <3> QED BY <1>3, <2>2, <2>3, <3>1 DEF Covered, Funds
  <2> QED BY <2>4, <2>5, <2>6 DEF Sound
<1>5. CASE \E cid \in Cids : UpdateOrgMetadata(o, u, cid)
  BY <1>2, <1>5, SameMoney DEF Sound, OrgTypeOK, UpdateOrgMetadata
<1>6. CASE \E v \in Users : AddAdmin(o, u, v)
  BY <1>2, <1>6, SameMoney DEF Sound, OrgTypeOK, AddAdmin
<1>7. CASE \E v \in Users : RemoveAdmin(o, u, v)
  BY <1>2, <1>7, SameMoney DEF Sound, OrgTypeOK, RemoveAdmin
<1>8. CASE \E m \in Users : AddMaintainer(o, u, m)
  <2>1. PICK m \in Users : AddMaintainer(o, u, m) BY <1>8
  <2>2. EmptyPayout \in MaintainerPayout /\ EmptyPayout.amount = 0
    BY EmptyPayoutAgrees DEF EmptyPayout
  <2>3. Agrees(EmptyPayout) BY EmptyPayoutAgrees
  <2>4. payout \in [Users -> MaintainerPayout] /\ payout' = [payout EXCEPT ![m] = EmptyPayout]
    BY <2>1 DEF Sound, OrgTypeOK, AddMaintainer
  <2>5. payout[m].amount \in Nat BY <2>4 DEF MaintainerPayout
  <2>6. SumOver(Dues(payout')) = SumOver(Dues(payout)) - payout[m].amount + 0
    BY <2>2, <2>4, DuesExcept
  <2>7. OrgTypeOK' BY <1>2, <2>1, <2>2, <2>4 DEF Sound, OrgTypeOK, AddMaintainer
  <2>8. AmountAccounting'
    <3>1. \A x \in Users : Agrees(payout[x]) BY DEF Sound, AmountAccounting, Agrees
    <3>2. \A x \in Users : Agrees(payout'[x]) BY <2>3, <2>4, <3>1
    <3> QED BY <3>2 DEF AmountAccounting, Agrees
  <2>9. Covered
    <3>1. UNCHANGED <<bal, budget>> BY <2>1 DEF AddMaintainer
    <3> QED BY <1>3, <2>5, <2>6, <3>1 DEF Covered, Funds
  <2> QED BY <2>7, <2>8, <2>9 DEF Sound
<1> QED BY <1>1, <1>4, <1>5, <1>6, <1>7, <1>8

\* Money credited to an organization comes in with the tokens that back it.
LEMMA CreditPreserves ==
  ASSUME Sound, NEW o \in Orgs, NEW from \in Users, NEW amount \in Nat,
         CreditOrg(o, amount), SacTransfer(from, Contract, amount),
         UNCHANGED <<controlVars, lock, now, orgAdmin, admins, metadata, maintainerOrg,
                     orgMaintainers, payout>>
  PROVE  Sound' /\ Covered
<1>1. from # Contract /\ from \in Holders /\ Contract \in Holders
  BY UsersAssumption DEF Holders
<1>2. SacTypeOK' /\ bal'[Contract] = bal[Contract] + amount
  BY <1>1, TransferKeepsTypes DEF Sound, OrgTypeOK
<1>3. budget \in [Orgs -> Nat] /\ budget' = [budget EXCEPT ![o] = budget[o] + amount]
  BY DEF Sound, OrgTypeOK, CreditOrg
<1>4. budget[o] \in Nat /\ budget[o] + amount \in Nat BY <1>3
<1>5. SumOver(budget') = SumOver(budget) - budget[o] + (budget[o] + amount)
  BY <1>3, <1>4, BudgetExcept
<1>6. funded' \in [Orgs -> Nat] BY DEF Sound, OrgTypeOK, CreditOrg
<1>7. budget' \in [Orgs -> Nat] BY <1>3, <1>4
<1>8. OrgTypeOK'
  BY <1>2, <1>6, <1>7 DEF Sound, OrgTypeOK, ControlTypeOK, controlVars
<1>9. AmountAccounting' BY DEF Sound, AmountAccounting
<1>10. Covered BY <1>2, <1>4, <1>5, SoundSums DEF Covered, Funds
<1> QED BY <1>8, <1>9, <1>10 DEF Sound

\* Funding an organization.
LEMMA FundPreserves ==
  ASSUME Sound, NEW o \in Orgs, NEW from \in Users, NEW amount \in Requests,
         FundOrg(o, from, amount), UNCHANGED <<controlVars, lock, now>>
  PROVE  Sound' /\ Covered
<1>1. amount \in Nat BY RequestsAssumption DEF FundOrg, ValidAmount
<1> QED BY <1>1, CreditPreserves DEF FundOrg

\* A deduction that succeeds leaves the budget a natural number, less the amount.
LEMMA DeductSum ==
  ASSUME Sound, NEW o \in Orgs, NEW amount \in Nat, DeductOrgBudget(o, amount)
  PROVE  /\ budget' \in [Orgs -> Nat]
         /\ SumOver(budget') = SumOver(budget) - amount
<1>1. budget \in [Orgs -> Nat] /\ budget' = [budget EXCEPT ![o] = budget[o] - amount]
  BY DEF Sound, OrgTypeOK, DeductOrgBudget
<1>2. budget[o] \in Nat /\ budget[o] - amount \in Nat
  BY <1>1 DEF DeductOrgBudget
<1>3. SumOver(budget') = SumOver(budget) - budget[o] + (budget[o] - amount)
  BY <1>1, <1>2, BudgetExcept
<1> QED BY <1>1, <1>2, <1>3, SoundSums

\* Every tranche of a schedule that passes the checks of allocate_payout_vesting
\* has a positive amount.
LEMMA GoodSchedule ==
  ASSUME NEW ts \in Seq(Tranche), NEW o, NEW caller, NEW m,
         AllocatePayoutVesting(o, caller, m, ts)
  PROVE  ts \in Seq(GoodTranche)
<1>1. ASSUME NEW i \in 1 .. Len(ts) PROVE ts[i] \in GoodTranche
  <2>1. ts[i] \in Tranche OBVIOUS
  <2>2. 0 < ts[i].amount BY DEF AllocatePayoutVesting, ValidAmount
  <2> QED BY <2>1, <2>2 DEF Tranche, GoodTranche
<1>2. Len(ts) \in Nat /\ ts = [i \in 1 .. Len(ts) |-> ts[i]] OBVIOUS
<1>3. ts \in [1 .. Len(ts) -> GoodTranche] BY <1>1, <1>2
<1> QED BY <1>2, <1>3

\* Every entry of a batch that passes the checks of batch_allocate has a positive
\* amount.
LEMMA GoodBatch ==
  ASSUME NEW batch \in Batches, NEW o, NEW caller, BatchAllocate(o, caller, batch)
  PROVE  PositiveBatch(batch)
<1>1. batch \in Seq(PayoutParams) BY BatchesAssumption
<1>2. \A i \in DOMAIN batch : batch[i] \in PayoutParams BY <1>1
<1>3. \A i \in DOMAIN batch : batch[i].amount \in Int BY <1>2 DEF PayoutParams
<1>4. \A i \in DOMAIN batch : 0 < batch[i].amount BY DEF BatchAllocate, ValidAmount
<1> QED BY <1>1, <1>3, <1>4 DEF PositiveBatch

\* One allocation.
LEMMA AllocatePreserves ==
  ASSUME Sound, NEW o \in Orgs, NEW caller \in Users, NEW m \in Users, NEW ts \in Seq(Tranche),
         AllocatePayoutVesting(o, caller, m, ts), UNCHANGED <<controlVars, lock, now>>
  PROVE  Sound' /\ Covered
<1>1. ts \in Seq(GoodTranche) BY GoodSchedule
<1>2. Total(ts) \in Nat BY <1>1, GoodTotal
<1> DEFINE q == AddTranches(payout[m], ts)
<1>3. payout \in [Users -> MaintainerPayout] /\ payout' = [payout EXCEPT ![m] = q]
  BY DEF Sound, OrgTypeOK, AllocatePayoutVesting
<1>4. payout[m] \in MaintainerPayout /\ Agrees(payout[m]) BY SoundSums
<1>5. q \in MaintainerPayout /\ q.amount = payout[m].amount + Total(ts) /\ Agrees(q)
  BY <1>1, <1>4, AddTranchesAgrees
<1> HIDE DEF q
<1>6. payout' \in [Users -> MaintainerPayout] /\ \A x \in Users : Agrees(payout'[x])
  BY <1>3, <1>5, SoundSums
<1>7. SumOver(Dues(payout')) = SumOver(Dues(payout)) - payout[m].amount + q.amount
  BY <1>3, <1>5, DuesExcept
<1>8. budget' \in [Orgs -> Nat] /\ SumOver(budget') = SumOver(budget) - Total(ts)
  BY <1>2, DeductSum DEF AllocatePayoutVesting
<1>9. OrgTypeOK'
  BY <1>6, <1>8
  DEF Sound, OrgTypeOK, SacTypeOK, ControlTypeOK, controlVars, AllocatePayoutVesting
<1>10. AmountAccounting' BY <1>6 DEF AmountAccounting, Agrees
<1>11. Covered
  <2>1. payout[m].amount \in Nat BY <1>4 DEF MaintainerPayout
  <2>2. UNCHANGED bal BY DEF AllocatePayoutVesting
  <2> QED BY SMTT(60), <1>2, <1>5, <1>7, <1>8, <2>1, <2>2, SoundSums DEF Covered, Funds
<1> QED BY <1>9, <1>10, <1>11 DEF Sound

\* A batch of allocations.
LEMMA BatchPreserves ==
  ASSUME Sound, NEW o \in Orgs, NEW caller \in Users, NEW batch \in Batches,
         BatchAllocate(o, caller, batch), UNCHANGED <<controlVars, lock, now>>
  PROVE  Sound' /\ Covered
<1> DEFINE add == [m \in Users |-> Total(BatchTranches(batch, m))]
<1>1. PositiveBatch(batch) BY GoodBatch
<1>2. batch \in Seq(PayoutParams) /\ \A i \in DOMAIN batch : batch[i].amount \in Nat \ {0}
  BY <1>1 DEF PositiveBatch
<1>3. Total(batch) \in Nat /\ SumOver(add) = Total(batch) /\ add \in [Users -> Nat]
  BY <1>1, BatchTotal
<1>4. ASSUME NEW m \in Users
      PROVE  /\ payout'[m] \in MaintainerPayout /\ Agrees(payout'[m])
             /\ payout'[m].amount = Dues(payout)[m] + add[m]
  <2>1. BatchTranches(batch, m) \in Seq(GoodTranche) BY <1>2, BatchTranchesTotal
  <2>2. payout'[m] = AddTranches(payout[m], BatchTranches(batch, m)) BY DEF BatchAllocate
  <2>3. payout[m] \in MaintainerPayout /\ Agrees(payout[m]) BY SoundSums
  <2>4. Dues(payout)[m] = payout[m].amount BY DEF Dues
  <2> QED BY <2>1, <2>2, <2>3, <2>4, AddTranchesAgrees
<1>5. payout' \in [Users -> MaintainerPayout] BY <1>4 DEF BatchAllocate
<1>6. Dues(payout) \in [Users -> Nat] BY SoundSums DEF Dues, MaintainerPayout
<1> HIDE DEF add
<1>7. Dues(payout') = [m \in Users |-> Dues(payout)[m] + add[m]] BY <1>4 DEF Dues
<1>8. SumOver([m \in Users |-> Dues(payout)[m] + add[m]]) = SumOver(Dues(payout)) + SumOver(add)
  BY <1>3, <1>6, UsersAssumption, SumOverAdd
<1>9. budget' \in [Orgs -> Nat] /\ SumOver(budget') = SumOver(budget) - Total(batch)
  BY <1>3, DeductSum DEF BatchAllocate
<1>10. OrgTypeOK'
  BY <1>5, <1>9
  DEF Sound, OrgTypeOK, SacTypeOK, ControlTypeOK, controlVars, BatchAllocate
<1>11. AmountAccounting' BY <1>4 DEF AmountAccounting, Agrees
<1>12. Covered
  <2>1. UNCHANGED bal BY DEF BatchAllocate
  <2> QED BY <1>3, <1>7, <1>8, <1>9, <2>1, SoundSums DEF Covered, Funds
<1> QED BY <1>10, <1>11, <1>12 DEF Sound

\* A claim never pays more than is owed: what has vested is bounded by the
\* schedule, and the schedule is what was claimed plus what is owed.
LEMMA ClaimPreserves ==
  ASSUME Sound, NEW m \in Users, ClaimPayout(m), UNCHANGED <<controlVars, lock, now>>
  PROVE  Sound' /\ Covered
<1> DEFINE p == payout[m]
           vested == VestedAmount(p.tranches, now)
           due == vested - p.claimed
           q == [amount |-> p.amount - due, claimed |-> vested, tranches |-> p.tranches]
<1>1. /\ p \in MaintainerPayout /\ Agrees(p) /\ p.amount \in Nat /\ p.claimed \in Nat
      /\ p.tranches \in Seq(GoodTranche)
  BY SoundSums DEF MaintainerPayout
<1>2. vested \in Nat /\ vested <= Total(p.tranches) /\ Total(p.tranches) \in Nat
  BY <1>1, VestedAmountBound, GoodTotal
<1>3. /\ payout \in [Users -> MaintainerPayout] /\ payout' = [payout EXCEPT ![m] = q]
      /\ vested > p.claimed /\ SacTransfer(Contract, m, due)
  BY DEF Sound, OrgTypeOK, ClaimPayout
<1> HIDE DEF vested
<1>4. due \in Nat /\ p.amount - due \in Nat BY <1>1, <1>2, <1>3 DEF Agrees
<1>5. q \in MaintainerPayout /\ Agrees(q)
  BY <1>1, <1>2, <1>4 DEF MaintainerPayout, Agrees
<1>6. q.amount = p.amount - due OBVIOUS
<1> HIDE DEF p, due, q
<1>7. payout' \in [Users -> MaintainerPayout] /\ \A x \in Users : Agrees(payout'[x])
  BY <1>3, <1>5, SoundSums
<1>8. SumOver(Dues(payout')) = SumOver(Dues(payout)) - p.amount + q.amount
  BY <1>3, <1>5, DuesExcept DEF p
<1>9. SacTypeOK' /\ bal'[Contract] = bal[Contract] - due
  <2>1. Contract \in Holders /\ m \in Holders /\ Contract # m BY UsersAssumption DEF Holders
  <2> QED BY <1>3, <1>4, <2>1, TransferKeepsTypes DEF Sound, OrgTypeOK
<1>10. OrgTypeOK'
  BY <1>7, <1>9 DEF Sound, OrgTypeOK, ControlTypeOK, controlVars, ClaimPayout
<1>11. AmountAccounting' BY <1>7 DEF AmountAccounting, Agrees
<1>12. Covered
  <2>1. UNCHANGED budget BY DEF ClaimPayout
  <2> QED BY SMTT(60), <1>1, <1>4, <1>6, <1>8, <1>9, <2>1, SoundSums DEF Covered, Funds
<1> QED BY <1>10, <1>11, <1>12 DEF Sound

\* Every step that moves money.
LEMMA MoneyPreserves ==
  ASSUME Sound, MoneyStep, UNCHANGED <<controlVars, lock, now>>
  PROVE  Sound' /\ Covered
<1>1. PICK u \in Users :
        \/ ClaimPayout(u)
        \/ \E o \in Orgs :
             \/ \E amount \in Requests : FundOrg(o, u, amount)
             \/ \E m \in Users, amount \in Requests, unlock \in Timestamps :
                  AllocatePayout(o, u, m, amount, unlock)
             \/ \E m \in Users, ts \in Schedules : AllocatePayoutVesting(o, u, m, ts)
             \/ \E batch \in Batches : BatchAllocate(o, u, batch)
  BY DEF MoneyStep
<1>2. CASE ClaimPayout(u) BY <1>2, ClaimPreserves
<1>3. ASSUME NEW o \in Orgs, NEW amount \in Requests, FundOrg(o, u, amount)
      PROVE  Sound' /\ Covered
  BY <1>3, FundPreserves
<1>4. ASSUME NEW o \in Orgs, NEW m \in Users, NEW amount \in Requests,
             NEW unlock \in Timestamps, AllocatePayout(o, u, m, amount, unlock)
      PROVE  Sound' /\ Covered
  <2>1. <<[unlock |-> unlock, amount |-> amount]>> \in Seq(Tranche)
    BY RequestsAssumption DEF Tranche
  <2> QED BY <1>4, <2>1, AllocatePreserves DEF AllocatePayout
<1>5. ASSUME NEW o \in Orgs, NEW m \in Users, NEW ts \in Schedules,
             AllocatePayoutVesting(o, u, m, ts)
      PROVE  Sound' /\ Covered
  BY <1>5, SchedulesAssumption, AllocatePreserves
<1>6. ASSUME NEW o \in Orgs, NEW batch \in Batches, BatchAllocate(o, u, batch)
      PROVE  Sound' /\ Covered
  BY <1>6, BatchPreserves
<1> QED BY <1>1, <1>2, <1>3, <1>4, <1>5, <1>6

\* Every step of the registry keeps its books sound and its debts covered.
LEMMA StepPreserves ==
  ASSUME Sound, [Next]_vars
  PROVE  Sound' /\ Covered
<1>1. CASE UNCHANGED vars
  <2>1. OrgTypeOK'
    BY <1>1 DEF Sound, vars, OrgTypeOK, SacTypeOK, ControlTypeOK, controlVars, orgVars
  <2> QED BY <1>1, <2>1, SameMoney DEF vars, orgVars
<1>2. CASE ControlStep /\ UNCHANGED <<bal, now, orgVars>> BY <1>2, ControlPreserves
<1>3. CASE Tick /\ UNCHANGED <<bal, controlVars, lock, orgVars>> BY <1>3, TickPreserves
<1>4. CASE TokenStep /\ UNCHANGED <<controlVars, lock, now, orgVars>>
  BY <1>4, TokenPreserves
<1>5. CASE PeopleStep /\ UNCHANGED <<controlVars, lock, now>> BY <1>5, PeoplePreserves
<1>6. CASE MoneyStep /\ UNCHANGED <<controlVars, lock, now>> BY <1>6, MoneyPreserves
<1> QED BY <1>1, <1>2, <1>3, <1>4, <1>5, <1>6 DEF Next

\* Covered steps keep a solvent registry solvent.
LEMMA CoveredKeepsSolvency ==
  ASSUME Sound, Sound', Covered, OrgSolvency
  PROVE  OrgSolvency'
<1>1. /\ Funds(budget, payout) \in Nat /\ Funds(budget', payout') \in Nat
      /\ bal[Contract] \in Nat /\ bal'[Contract] \in Nat
  BY FundsType DEF Sound, OrgTypeOK, SacTypeOK, Holders
<1>2. Funds(budget, payout) <= bal[Contract]
  BY DEF OrgSolvency, OrgLiabilities, Funds, Dues
<1>3. Funds(budget', payout') <= bal'[Contract] BY <1>1, <1>2 DEF Covered
<1> QED BY <1>3 DEF OrgSolvency, OrgLiabilities, Funds, Dues

\* The conjunction is an invariant of every behaviour of the registry.
THEOREM Inductive == Spec => []IInv
<1>1. Init => IInv BY InitIInv
<1>2. IInv /\ [Next]_vars => IInv'
  BY StepPreserves, CoveredKeepsSolvency DEF IInv
<1> QED BY <1>1, <1>2, PTL DEF Spec

\* The books are sound in every behaviour.
LEMMA AlwaysSound == Spec => []Sound
<1>1. IInv => Sound BY DEF IInv
<1> QED BY <1>1, Inductive, PTL

\* Every reachable state is well typed: no budget, due or balance goes negative.
THEOREM TypeCorrect == Spec => []OrgTypeOK
<1>1. IInv => OrgTypeOK BY DEF IInv, Sound
<1> QED BY <1>1, Inductive, PTL

\* Whatever the order of allocations, batches and claims, a payout record agrees
\* with its schedule.
THEOREM RecordsAgree == Spec => []AmountAccounting
<1>1. IInv => AmountAccounting BY DEF IInv, Sound
<1> QED BY <1>1, Inductive, PTL

\* The registry can always pay every budget and every due at once.
THEOREM Solvent == Spec => []OrgSolvency
<1>1. IInv => OrgSolvency BY DEF IInv
<1> QED BY <1>1, Inductive, PTL

-----------------------------------------------------------------------------
(* Who may act.                                                            *)

\* Before init there is no admin and no nomination; afterwards a nomination is
\* its admin's own.
NominationInv ==
  /\ protocolState = "Uninitialized" => protocolAdmin = Nobody /\ pendingAdmin = Nobody
  /\ NominationIsCurrent

\* No nomination outlives the admin who made it, through any sequence of
\* proposals, hand-overs, pauses and upgrades.
THEOREM NominationsAreCurrent == Spec => []NominationIsCurrent
<1>1. Init => NominationInv
  BY DEF Init, ControlInit, NominationInv, NominationIsCurrent
<1>2. NominationInv /\ [Next]_vars => NominationInv'
  <2> SUFFICES ASSUME NominationInv, [Next]_vars PROVE NominationInv'
    OBVIOUS
  <2>1. CASE UNCHANGED controlVars
    BY <2>1 DEF controlVars, NominationInv, NominationIsCurrent
  <2>2. ASSUME NEW u \in Users,
               \/ InitProtocol(u) \/ PauseProtocol(u) \/ UnpauseProtocol(u) \/ AcceptAdmin(u)
               \/ \E v \in Nominees : ProposeAdmin(u, v)
               \/ \E w \in Wasms : Upgrade(u, w)
        PROVE  NominationInv'
    <3> USE DEF NominationInv, NominationIsCurrent
    <3>1. CASE InitProtocol(u) BY <3>1 DEF InitProtocol
    <3>2. CASE PauseProtocol(u) BY <3>2 DEF PauseProtocol, AuthorisedBy
    <3>3. CASE UnpauseProtocol(u) BY <3>3 DEF UnpauseProtocol, AuthorisedBy
    <3>4. CASE AcceptAdmin(u) BY <3>4, NobodyAssumption DEF AcceptAdmin
    <3>5. CASE \E v \in Nominees : ProposeAdmin(u, v)
      BY <3>5 DEF ProposeAdmin, AuthorisedBy
    <3>6. CASE \E w \in Wasms : Upgrade(u, w) BY <3>6 DEF Upgrade, AuthorisedBy
    <3> QED BY <2>2, <3>1, <3>2, <3>3, <3>4, <3>5, <3>6
  <2>3. ControlStep \/ UNCHANGED controlVars BY DEF Next, vars
  <2> QED BY <2>1, <2>2, <2>3 DEF ControlStep
<1>3. NominationInv => NominationIsCurrent BY DEF NominationInv
<1> QED BY <1>1, <1>2, <1>3, PTL DEF Spec

\* However admins are added and removed, a registered organization keeps one.
THEOREM OrgsKeepAnAdmin == Spec => []EveryOrgHasAnAdmin
<1>1. Init => EveryOrgHasAnAdmin
  BY DEF Init, OrgVarsInit, EveryOrgHasAnAdmin, Registered
<1>2. OrgTypeOK /\ EveryOrgHasAnAdmin /\ [Next]_vars => EveryOrgHasAnAdmin'
  <2> SUFFICES ASSUME OrgTypeOK, EveryOrgHasAnAdmin, [Next]_vars PROVE EveryOrgHasAnAdmin'
    OBVIOUS
  <2>1. CASE UNCHANGED <<orgAdmin, admins>> BY <2>1 DEF EveryOrgHasAnAdmin, Registered
  <2>2. ASSUME NEW o \in Orgs, NEW u \in Users, RegisterOrg(o, u) PROVE EveryOrgHasAnAdmin'
    BY <2>2 DEF OrgTypeOK, RegisterOrg, EveryOrgHasAnAdmin, Registered
  <2>3. ASSUME NEW o \in Orgs, NEW u \in Users, NEW v \in Users, AddAdmin(o, u, v)
        PROVE  EveryOrgHasAnAdmin'
    BY <2>3 DEF OrgTypeOK, AddAdmin, EveryOrgHasAnAdmin, Registered
  <2>4. ASSUME NEW o \in Orgs, NEW u \in Users, NEW v \in Users, RemoveAdmin(o, u, v)
        PROVE  EveryOrgHasAnAdmin'
    <3>1. admins[o] # {v}
      <4>1. Cardinality({v}) = 1 BY FS_Singleton
      <4> QED BY <2>4, <4>1 DEF RemoveAdmin, LastAdmin
    <3>2. v \in admins[o] /\ admins' = [admins EXCEPT ![o] = admins[o] \ {v}]
      BY <2>4 DEF RemoveAdmin
    <3>3. admins[o] \ {v} # {} BY <3>1, <3>2
    <3> QED BY <2>4, <3>2, <3>3 DEF OrgTypeOK, RemoveAdmin, EveryOrgHasAnAdmin, Registered
  <2>5. UNCHANGED <<orgAdmin, admins>> \/ PeopleStep
    <3>1. ASSUME MoneyStep PROVE UNCHANGED <<orgAdmin, admins>>
      <4>1. \A u : ClaimPayout(u) => UNCHANGED <<orgAdmin, admins>> BY DEF ClaimPayout
      <4>2. \A o, u, a : FundOrg(o, u, a) => UNCHANGED <<orgAdmin, admins>> BY DEF FundOrg
      <4>3. \A o, u, m, ts : AllocatePayoutVesting(o, u, m, ts) => UNCHANGED <<orgAdmin, admins>>
        BY DEF AllocatePayoutVesting
      <4>4. \A o, u, b : BatchAllocate(o, u, b) => UNCHANGED <<orgAdmin, admins>>
        BY DEF BatchAllocate
      <4> HIDE DEF ClaimPayout, FundOrg, AllocatePayoutVesting, BatchAllocate
      <4> QED BY <3>1, <4>1, <4>2, <4>3, <4>4 DEF MoneyStep, AllocatePayout
    <3> QED BY <3>1 DEF Next, vars, orgVars
  <2>6. ASSUME PeopleStep PROVE EveryOrgHasAnAdmin'
    BY <2>1, <2>2, <2>3, <2>4, <2>6 DEF PeopleStep, UpdateOrgMetadata, AddMaintainer
  <2> QED BY <2>1, <2>5, <2>6
<1> QED BY <1>1, <1>2, TypeCorrect, PTL DEF Spec

-----------------------------------------------------------------------------
(* Where an organization's money went.                                     *)

\* What organization o has promised each user: nothing unless it enrolled them.
PromisedBy(o, mo, p) == [u \in Users |-> IF mo[u] = o THEN Total(p[u].tranches) ELSE 0]

\* Only a registered organization has a budget, since registering resets it.
BudgetNeedsOrg == \A o \in Orgs : ~Registered(o) => budget[o] = 0

Balanced == OrgConservation /\ BudgetNeedsOrg

\* Summing over an organization's own maintainers is summing what it promised
\* over all users.
LEMMA AllocatedSum ==
  ASSUME NEW mo, NEW p \in [Users -> MaintainerPayout], NEW o
  PROVE  /\ PromisedBy(o, mo, p) \in [Users -> Nat]
         /\ SumOver([m \in {u \in Users : mo[u] = o} |-> Total(p[m].tranches)]) =
              SumOver(PromisedBy(o, mo, p))
<1> DEFINE S == {u \in Users : mo[u] = o}
           f == PromisedBy(o, mo, p)
<1>1. \A u \in Users : Total(p[u].tranches) \in Nat
  BY GoodTotal DEF MaintainerPayout
<1>2. f \in [Users -> Nat] BY <1>1 DEF PromisedBy
<1>3. [m \in S |-> Total(p[m].tranches)] = [m \in S |-> f[m]] BY DEF PromisedBy
<1>4. \A u \in Users \ S : f[u] = 0 BY DEF PromisedBy
<1>5. S \in SUBSET Users OBVIOUS
<1> HIDE DEF f, S
<1>6. SumOver([m \in S |-> f[m]]) = SumOver(f) BY <1>2, <1>4, <1>5, SumOverSupport
<1> QED BY <1>2, <1>3, <1>6 DEF f, S

\* The conservation law in terms of what was promised, now and after a step.
LEMMA ConservationLaw ==
  ASSUME Sound, Sound'
  PROVE  /\ OrgConservation <=>
              \A o \in Orgs : funded[o] = budget[o] + SumOver(PromisedBy(o, maintainerOrg, payout))
         /\ OrgConservation' <=>
              \A o \in Orgs : funded'[o] = budget'[o] + SumOver(PromisedBy(o, maintainerOrg', payout'))
<1>1. payout \in [Users -> MaintainerPayout] /\ payout' \in [Users -> MaintainerPayout]
  BY DEF Sound, OrgTypeOK
<1>2. \A o : AllocatedTo(o) = SumOver(PromisedBy(o, maintainerOrg, payout))
  BY <1>1, AllocatedSum DEF AllocatedTo
<1>3. \A o : AllocatedTo(o)' = SumOver(PromisedBy(o, maintainerOrg', payout'))
  BY <1>1, AllocatedSum DEF AllocatedTo
<1> QED BY <1>2, <1>3 DEF OrgConservation

\* A step that touches neither enrolments nor schedules keeps every promise; if
\* it treats budgets and credits alike it keeps the balance.
LEMMA SamePromises ==
  ASSUME Sound, Sound', Balanced, UNCHANGED maintainerOrg,
         \A u \in Users : payout'[u].tranches = payout[u].tranches,
         \A o \in Orgs : /\ funded'[o] - budget'[o] = funded[o] - budget[o]
                         /\ orgAdmin'[o] = Nobody => orgAdmin[o] = Nobody /\ budget'[o] = budget[o]
  PROVE  Balanced'
<1>1. \A o : PromisedBy(o, maintainerOrg', payout') = PromisedBy(o, maintainerOrg, payout)
  BY DEF PromisedBy
<1>2. ASSUME NEW o \in Orgs
      PROVE  funded'[o] = budget'[o] + SumOver(PromisedBy(o, maintainerOrg, payout))
  <2>1. funded[o] = budget[o] + SumOver(PromisedBy(o, maintainerOrg, payout))
    BY ConservationLaw DEF Balanced
  <2>2. PromisedBy(o, maintainerOrg, payout) \in [Users -> Nat]
    BY AllocatedSum DEF Sound, OrgTypeOK
  <2>3. SumOver(PromisedBy(o, maintainerOrg, payout)) \in Nat
    BY <2>2, UsersAssumption, SumOverType
  <2>4. /\ funded[o] \in Nat /\ budget[o] \in Nat
        /\ funded'[o] \in Nat /\ budget'[o] \in Nat
    BY DEF Sound, OrgTypeOK
  <2> QED BY <2>1, <2>3, <2>4
<1>3. OrgConservation' BY <1>1, <1>2, ConservationLaw
<1>4. BudgetNeedsOrg' BY DEF Balanced, BudgetNeedsOrg, Registered
<1> QED BY <1>3, <1>4 DEF Balanced

\* A deduction from o's budget that goes, whole, to o's own maintainers keeps the
\* balance of o and leaves every other organization's alone.
LEMMA AllocationBalances ==
  ASSUME Sound, Sound', Balanced, UNCHANGED <<orgAdmin, maintainerOrg, funded>>,
         NEW o \in Orgs, NEW amount \in Nat, DeductOrgBudget(o, amount),
         NEW add \in [Users -> Nat], SumOver(add) = amount,
         \A u \in Users :
           /\ Total(payout'[u].tranches) = Total(payout[u].tranches) + add[u]
           /\ ~MemberOf(u, o) => add[u] = 0
  PROVE  Balanced'
<1> DEFINE before(x) == PromisedBy(x, maintainerOrg, payout)
           after(x) == PromisedBy(x, maintainerOrg', payout')
<1>1. \A x : before(x) \in [Users -> Nat] /\ after(x) \in [Users -> Nat]
  BY AllocatedSum DEF Sound, OrgTypeOK
<1>2. after(o) = [u \in Users |-> before(o)[u] + add[u]]
  <2>1. ASSUME NEW u \in Users PROVE after(o)[u] = before(o)[u] + add[u]
    BY <1>1 DEF PromisedBy, MemberOf
  <2> HIDE DEF before
  <2>2. DOMAIN after(o) = Users BY DEF PromisedBy
  <2> HIDE DEF after
  <2> QED BY <1>1, <2>1, <2>2
<1>3. SumOver(after(o)) = SumOver(before(o)) + amount
  <2> HIDE DEF before, after
  <2> QED BY <1>1, <1>2, UsersAssumption, SumOverAdd
<1>4. ASSUME NEW x \in Orgs, x # o PROVE after(x) = before(x)
  <2>1. ASSUME NEW u \in Users PROVE after(x)[u] = before(x)[u]
    <3>1. Total(payout[u].tranches) \in Nat
      BY GoodTotal DEF Sound, OrgTypeOK, MaintainerPayout
    <3> QED BY <1>4, <3>1 DEF PromisedBy, MemberOf
  <2> QED BY <2>1 DEF PromisedBy
<1>5. budget \in [Orgs -> Nat] /\ budget' = [budget EXCEPT ![o] = budget[o] - amount]
      /\ amount <= budget[o]
  BY DEF Sound, OrgTypeOK, DeductOrgBudget
<1>6. ASSUME NEW x \in Orgs PROVE funded'[x] = budget'[x] + SumOver(after(x))
  <2>1. funded[x] = budget[x] + SumOver(before(x)) BY ConservationLaw DEF Balanced
  <2>2. SumOver(before(x)) \in Nat
    <3> HIDE DEF before
    <3> QED BY <1>1, UsersAssumption, SumOverType
  <2> HIDE DEF before, after
  <2>3. CASE x = o BY <1>3, <1>5, <2>1, <2>2, <2>3
  <2>4. CASE x # o BY <1>4, <1>5, <2>1, <2>4
  <2> QED BY <2>3, <2>4
<1>7. OrgConservation' BY <1>6, ConservationLaw
<1>8. BudgetNeedsOrg'
  <2>1. ASSUME NEW x \in Orgs, budget[x] = 0 PROVE budget'[x] = 0 BY <1>5, <2>1
  <2> QED BY <2>1 DEF Balanced, BudgetNeedsOrg, Registered
<1> QED BY <1>7, <1>8 DEF Balanced

\* The steps of registering and administering move no money.
LEMMA PeopleBalance ==
  ASSUME Sound, Sound', Balanced, PeopleStep
  PROVE  Balanced'
<1>1. PICK o \in Orgs, u \in Users :
        \/ RegisterOrg(o, u)
        \/ \E cid \in Cids : UpdateOrgMetadata(o, u, cid)
        \/ \E v \in Users : AddAdmin(o, u, v)
        \/ \E v \in Users : RemoveAdmin(o, u, v)
        \/ \E m \in Users : AddMaintainer(o, u, m)
  BY DEF PeopleStep
<1>2. CASE RegisterOrg(o, u)
  <2>1. budget \in [Orgs -> Nat] /\ budget[o] = 0 /\ budget' = [budget EXCEPT ![o] = 0]
    BY <1>2 DEF Sound, OrgTypeOK, RegisterOrg, Balanced, BudgetNeedsOrg
  <2>2. budget' = budget BY <2>1
  <2>3. orgAdmin' = [orgAdmin EXCEPT ![o] = u] /\ DOMAIN orgAdmin = Orgs /\ u # Nobody
    BY <1>2, NobodyAssumption DEF Sound, OrgTypeOK, RegisterOrg
  <2>4. UNCHANGED <<maintainerOrg, payout, funded>> BY <1>2 DEF RegisterOrg
  <2> QED BY <2>2, <2>3, <2>4, SamePromises
<1>3. CASE UNCHANGED <<orgAdmin, budget, maintainerOrg, payout, funded>>
  BY <1>3, SamePromises
<1>4. CASE \E m \in Users : AddMaintainer(o, u, m)
  <2>1. PICK m \in Users : AddMaintainer(o, u, m) BY <1>4
  <2>2. /\ maintainerOrg[m] = NoOrg /\ maintainerOrg' = [maintainerOrg EXCEPT ![m] = o]
        /\ payout' = [payout EXCEPT ![m] = EmptyPayout]
        /\ UNCHANGED <<orgAdmin, budget, funded>>
    BY <2>1 DEF AddMaintainer, Enrolled
  <2>3. DOMAIN maintainerOrg = Users /\ DOMAIN payout = Users BY DEF Sound, OrgTypeOK
  <2>4. Total(EmptyPayout.tranches) = 0 BY EmptyPayoutAgrees DEF Agrees, EmptyPayout
  <2>5. ASSUME NEW x \in Orgs
        PROVE  PromisedBy(x, maintainerOrg', payout') = PromisedBy(x, maintainerOrg, payout)
    <3>1. ASSUME NEW w \in Users
          PROVE  PromisedBy(x, maintainerOrg', payout')[w] =
                   PromisedBy(x, maintainerOrg, payout)[w]
      <4>1. CASE w = m
        <5>1. maintainerOrg[w] # x BY <2>2, <4>1, OrgsAssumption
        <5>2. payout'[w] = EmptyPayout BY <2>2, <2>3, <4>1
        <5> QED BY <2>4, <5>1, <5>2 DEF PromisedBy
      <4>2. CASE w # m BY <2>2, <2>3, <4>2 DEF PromisedBy
      <4> QED BY <4>1, <4>2
    <3> QED BY <3>1 DEF PromisedBy
  <2>6. OrgConservation' BY <2>2, <2>5, ConservationLaw DEF Balanced
  <2>7. BudgetNeedsOrg' BY <2>2 DEF Balanced, BudgetNeedsOrg, Registered
  <2> QED BY <2>6, <2>7 DEF Balanced
<1> QED BY <1>1, <1>2, <1>3, <1>4 DEF UpdateOrgMetadata, AddAdmin, RemoveAdmin

\* What an allocation of schedule ts, well formed, does to the balance.
LEMMA VestingBalances ==
  ASSUME Sound, Sound', Balanced, NEW o \in Orgs, NEW caller, NEW m \in Users,
         NEW ts \in Seq(Tranche), AllocatePayoutVesting(o, caller, m, ts)
  PROVE  Balanced'
<1> DEFINE add == [u \in Users |-> IF u = m THEN Total(ts) ELSE 0]
<1>1. ts \in Seq(GoodTranche) BY GoodSchedule
<1>2. Total(ts) \in Nat BY <1>1, GoodTotal
<1>3. add \in [Users -> Nat] /\ SumOver(add) = Total(ts) BY <1>2, SumOverPoint
<1>4. ASSUME NEW u \in Users
      PROVE  Total(payout'[u].tranches) = Total(payout[u].tranches) + add[u]
  <2>1. payout' = [payout EXCEPT ![m] = AddTranches(payout[m], ts)]
        /\ payout \in [Users -> MaintainerPayout]
    BY DEF AllocatePayoutVesting, Sound, OrgTypeOK
  <2>2. Total(payout[u].tranches) \in Nat BY <2>1, GoodTotal DEF MaintainerPayout
  <2>3. CASE u # m BY <2>1, <2>2, <2>3
  <2>4. CASE u = m BY <1>1, <2>1, <2>4, AddTranchesAgrees
  <2> QED BY <2>3, <2>4
<1>5. \A u \in Users : ~MemberOf(u, o) => add[u] = 0 BY DEF AllocatePayoutVesting
<1>6. DeductOrgBudget(o, Total(ts)) /\ UNCHANGED <<orgAdmin, maintainerOrg, funded>>
  BY DEF AllocatePayoutVesting
<1> HIDE DEF add
<1> QED BY <1>2, <1>3, <1>4, <1>5, <1>6, AllocationBalances

\* A batch names only the organization's own maintainers, so nobody else's
\* schedule grows, and the parts add up to what left the budget.
LEMMA BatchBalances ==
  ASSUME Sound, Sound', Balanced, NEW o \in Orgs, NEW caller, NEW batch \in Batches,
         BatchAllocate(o, caller, batch)
  PROVE  Balanced'
<1> DEFINE add == [m \in Users |-> Total(BatchTranches(batch, m))]
<1>1. PositiveBatch(batch) BY GoodBatch
<1>2. Total(batch) \in Nat /\ SumOver(add) = Total(batch) /\ add \in [Users -> Nat]
  BY <1>1, BatchTotal
<1>3. ASSUME NEW u \in Users
      PROVE  Total(payout'[u].tranches) = Total(payout[u].tranches) + add[u]
  <2>1. BatchTranches(batch, u) \in Seq(GoodTranche)
    BY <1>1, BatchTranchesTotal DEF PositiveBatch
  <2>2. payout'[u] = AddTranches(payout[u], BatchTranches(batch, u)) BY DEF BatchAllocate
  <2>3. payout[u] \in MaintainerPayout BY SoundSums
  <2> QED BY <2>1, <2>2, <2>3, AddTranchesAgrees
<1>4. ASSUME NEW u \in Users, ~MemberOf(u, o) PROVE add[u] = 0
  <2>1. {j \in DOMAIN batch : batch[j].maintainer = u} = {}
    BY <1>4 DEF BatchAllocate
  <2>2. Total(BatchTranches(batch, u)) =
          SumOver([i \in {j \in DOMAIN batch : batch[j].maintainer = u} |-> batch[i].amount])
    BY <1>1, BatchTranchesTotal DEF PositiveBatch
  <2>3. [i \in {} |-> batch[i].amount] = [i \in {} |-> 0] OBVIOUS
  <2> QED BY <2>1, <2>2, <2>3, SumOverZero
<1>5. DeductOrgBudget(o, Total(batch)) /\ UNCHANGED <<orgAdmin, maintainerOrg, funded>>
  BY DEF BatchAllocate
<1> HIDE DEF add
<1> QED BY <1>2, <1>3, <1>4, <1>5, AllocationBalances

\* A credit raises the budget of a registered organization and its history alike.
LEMMA CreditBalances ==
  ASSUME Sound, Sound', Balanced, NEW o \in Orgs, NEW amount \in Int, Registered(o),
         CreditOrg(o, amount), UNCHANGED <<orgAdmin, maintainerOrg, payout>>
  PROVE  Balanced'
<1>1. /\ budget' = [budget EXCEPT ![o] = budget[o] + amount]
      /\ funded' = [funded EXCEPT ![o] = funded[o] + amount]
      /\ orgAdmin[o] # Nobody
  BY DEF CreditOrg, Registered
<1>2. budget \in [Orgs -> Nat] /\ funded \in [Orgs -> Nat] BY DEF Sound, OrgTypeOK
<1>3. ASSUME NEW x \in Orgs
      PROVE  /\ funded'[x] - budget'[x] = funded[x] - budget[x]
             /\ orgAdmin'[x] = Nobody => budget'[x] = budget[x]
  BY <1>1, <1>2
<1> QED BY <1>3, SamePromises

\* The steps that move money.
LEMMA MoneyBalances ==
  ASSUME Sound, Sound', Balanced, MoneyStep
  PROVE  Balanced'
<1>1. PICK u \in Users :
        \/ ClaimPayout(u)
        \/ \E o \in Orgs :
             \/ \E amount \in Requests : FundOrg(o, u, amount)
             \/ \E m \in Users, amount \in Requests, unlock \in Timestamps :
                  AllocatePayout(o, u, m, amount, unlock)
             \/ \E m \in Users, ts \in Schedules : AllocatePayoutVesting(o, u, m, ts)
             \/ \E batch \in Batches : BatchAllocate(o, u, batch)
  BY DEF MoneyStep
<1>2. CASE ClaimPayout(u)
  <2>1. DOMAIN payout = Users BY DEF Sound, OrgTypeOK
  <2>2. \A x \in Users : payout'[x].tranches = payout[x].tranches
    BY <1>2, <2>1 DEF ClaimPayout
  <2>3. UNCHANGED <<orgAdmin, budget, maintainerOrg, funded>> BY <1>2 DEF ClaimPayout
  <2> QED BY <2>2, <2>3, SamePromises
<1>3. ASSUME NEW o \in Orgs, NEW amount \in Requests, FundOrg(o, u, amount) PROVE Balanced'
  <2>1. amount \in Int BY RequestsAssumption
  <2> QED BY <1>3, <2>1, CreditBalances DEF FundOrg
<1>4. ASSUME NEW o \in Orgs, NEW m \in Users, NEW amount \in Requests,
             NEW unlock \in Timestamps, AllocatePayout(o, u, m, amount, unlock)
      PROVE  Balanced'
  <2>1. <<[unlock |-> unlock, amount |-> amount]>> \in Seq(Tranche)
    BY RequestsAssumption DEF Tranche
  <2> QED BY <1>4, <2>1, VestingBalances DEF AllocatePayout
<1>5. ASSUME NEW o \in Orgs, NEW m \in Users, NEW ts \in Schedules,
             AllocatePayoutVesting(o, u, m, ts)
      PROVE  Balanced'
  BY <1>5, SchedulesAssumption, VestingBalances
<1>6. ASSUME NEW o \in Orgs, NEW batch \in Batches, BatchAllocate(o, u, batch)
      PROVE  Balanced'
  BY <1>6, BatchBalances
<1> QED BY <1>1, <1>2, <1>3, <1>4, <1>5, <1>6

\* A registration is for ever.
LEMMA RegistrationStays ==
  ASSUME Sound, [Next]_vars, NEW o \in Orgs, orgAdmin'[o] = Nobody
  PROVE  orgAdmin[o] = Nobody
<1>1. CASE UNCHANGED orgAdmin BY <1>1
<1>2. ASSUME NEW x \in Orgs, NEW u \in Users, RegisterOrg(x, u) PROVE orgAdmin[o] = Nobody
  BY <1>2, NobodyAssumption DEF RegisterOrg, Sound, OrgTypeOK
<1>3. CASE PeopleStep
  BY <1>1, <1>2, <1>3 DEF PeopleStep, UpdateOrgMetadata, AddAdmin, RemoveAdmin, AddMaintainer
<1>4. CASE MoneyStep
  <2>1. \A u : ClaimPayout(u) => UNCHANGED orgAdmin BY DEF ClaimPayout
  <2>2. \A x, u, a : FundOrg(x, u, a) => UNCHANGED orgAdmin BY DEF FundOrg
  <2>3. \A x, u, m, ts : AllocatePayoutVesting(x, u, m, ts) => UNCHANGED orgAdmin
    BY DEF AllocatePayoutVesting
  <2>4. \A x, u, b : BatchAllocate(x, u, b) => UNCHANGED orgAdmin BY DEF BatchAllocate
  <2> HIDE DEF ClaimPayout, FundOrg, AllocatePayoutVesting, BatchAllocate
  <2> QED BY <1>1, <1>4, <2>1, <2>2, <2>3, <2>4 DEF MoneyStep, AllocatePayout
<1> QED BY <1>1, <1>3, <1>4 DEF Next, vars, orgVars

\* No step of the registry loses track of an organization's money.
LEMMA StepBalances ==
  ASSUME Sound, Sound', Balanced, [Next]_vars
  PROVE  Balanced'
<1>1. CASE UNCHANGED orgVars BY <1>1, SamePromises DEF orgVars
<1>2. CASE PeopleStep BY <1>2, PeopleBalance
<1>3. CASE MoneyStep BY <1>3, MoneyBalances
<1> QED BY <1>1, <1>2, <1>3 DEF Next, vars

\* The first state.
LEMMA InitBalanced == ASSUME Init PROVE Balanced
<1>1. ASSUME NEW o \in Orgs PROVE funded[o] = 0 /\ budget[o] = 0 /\ AllocatedTo(o) = 0
  <2>1. {u \in Users : maintainerOrg[u] = o} = {} BY OrgsAssumption DEF Init, OrgVarsInit
  <2>2. [m \in {} |-> Total(payout[m].tranches)] = [m \in {} |-> 0] OBVIOUS
  <2>3. AllocatedTo(o) = 0 BY <2>1, <2>2, SumOverZero DEF AllocatedTo
  <2> QED BY <2>3 DEF Init, OrgVarsInit
<1> QED BY <1>1 DEF Balanced, OrgConservation, BudgetNeedsOrg

\* Whatever is funded, allocated, batched, claimed or enrolled and in whatever
\* order, an organization's credits are its budget plus what its own maintainers
\* were promised: no step spends one organization's money on another's people.
THEOREM EveryStroopAccounted == Spec => []OrgConservation
<1>1. Init => Balanced BY InitBalanced
<1>2. Sound /\ Sound' /\ Balanced /\ [Next]_vars => Balanced' BY StepBalances
<1>3. Balanced => OrgConservation BY DEF Balanced
<1> QED BY <1>1, <1>2, <1>3, AlwaysSound, PTL DEF Spec

-----------------------------------------------------------------------------
(* Who is enrolled where.                                                  *)

Listed(s) == {s[i] : i \in DOMAIN s}

Repeats(s) == \E i, j \in DOMAIN s : s[i] = s[j] /\ i # j

\* Appending an address that is not listed lists it once more and nobody twice.
LEMMA ListOneMore ==
  ASSUME NEW s \in Seq(Users), NEW m \in Users, m \notin Listed(s), ~Repeats(s)
  PROVE  Listed(Append(s, m)) = Listed(s) \union {m} /\ ~Repeats(Append(s, m))
<1> DEFINE t == Append(s, m)
<1>1. /\ Len(s) \in Nat /\ DOMAIN s = 1 .. Len(s)
      /\ DOMAIN t = 1 .. Len(s) + 1
      /\ t[Len(s) + 1] = m /\ \A i \in 1 .. Len(s) : t[i] = s[i]
  OBVIOUS
<1> HIDE DEF t
<1>2. DOMAIN t = DOMAIN s \union {Len(s) + 1} BY <1>1
<1>3. Listed(t) = Listed(s) \union {m}
  <2>1. ASSUME NEW x \in Listed(t) PROVE x \in Listed(s) \union {m} BY <1>1, <1>2 DEF Listed
  <2>2. ASSUME NEW x \in Listed(s) \union {m} PROVE x \in Listed(t) BY <1>1, <1>2 DEF Listed
  <2> QED BY <2>1, <2>2
<1>4. ASSUME NEW i \in DOMAIN t, NEW j \in DOMAIN t, t[i] = t[j] PROVE i = j
  <2>1. \A k \in DOMAIN s : s[k] # m BY DEF Listed
  <2>2. CASE i \in DOMAIN s /\ j \in DOMAIN s BY <1>1, <1>4, <2>2 DEF Repeats
  <2>3. CASE i \notin DOMAIN s \/ j \notin DOMAIN s BY <1>1, <1>2, <1>4, <2>1, <2>3
  <2> QED BY <2>2, <2>3
<1> QED BY <1>3, <1>4 DEF Repeats, t

\* The list of an organization and the key of an address agree after any sequence
\* of calls: enrolment writes both, and nothing enrols an address twice.
THEOREM IndexAgrees == Spec => []MaintainerIndex
<1> DEFINE Row(o, list, mo) == Listed(list[o]) = {m \in Users : mo[m] = o} /\ ~Repeats(list[o])
<1>1. /\ MaintainerIndex <=> \A o \in Orgs : Row(o, orgMaintainers, maintainerOrg)
      /\ MaintainerIndex' <=> \A o \in Orgs : Row(o, orgMaintainers', maintainerOrg')
  BY DEF MaintainerIndex, Listed, Repeats
<1>2. Init => MaintainerIndex
  <2> SUFFICES ASSUME Init, NEW o \in Orgs PROVE Row(o, orgMaintainers, maintainerOrg)
    BY <1>1
  <2>1. orgMaintainers[o] = <<>> /\ {m \in Users : maintainerOrg[m] = o} = {}
    BY OrgsAssumption DEF Init, OrgVarsInit
  <2> QED BY <2>1 DEF Listed, Repeats
<1>3. Sound /\ MaintainerIndex /\ [Next]_vars => MaintainerIndex'
  <2> SUFFICES ASSUME Sound, MaintainerIndex, [Next]_vars PROVE MaintainerIndex'
    OBVIOUS
  <2>1. CASE UNCHANGED <<maintainerOrg, orgMaintainers>> BY <2>1 DEF MaintainerIndex
  <2>2. ASSUME NEW o \in Orgs, NEW u \in Users, NEW m \in Users, AddMaintainer(o, u, m)
        PROVE  MaintainerIndex'
    <3>1. /\ maintainerOrg \in [Users -> Orgs \union {NoOrg}]
          /\ orgMaintainers \in [Orgs -> Seq(Users)]
      BY DEF Sound, OrgTypeOK
    <3>2. /\ maintainerOrg[m] = NoOrg
          /\ maintainerOrg' = [maintainerOrg EXCEPT ![m] = o]
          /\ orgMaintainers' = [orgMaintainers EXCEPT ![o] = Append(orgMaintainers[o], m)]
      BY <2>2 DEF AddMaintainer, Enrolled
    <3>3. Row(o, orgMaintainers, maintainerOrg) BY <1>1
    <3>4. m \notin Listed(orgMaintainers[o]) BY <3>2, <3>3, OrgsAssumption
    <3>5. orgMaintainers'[o] = Append(orgMaintainers[o], m) BY <3>1, <3>2
    <3>6. /\ Listed(orgMaintainers'[o]) = Listed(orgMaintainers[o]) \union {m}
          /\ ~Repeats(orgMaintainers'[o])
      BY <3>1, <3>3, <3>4, <3>5, ListOneMore
    <3>7. Row(o, orgMaintainers', maintainerOrg')
      <4>1. {w \in Users : maintainerOrg'[w] = o} = {w \in Users : maintainerOrg[w] = o} \union {m}
        BY <3>1, <3>2
      <4> QED BY <3>3, <3>6, <4>1
    <3>8. ASSUME NEW x \in Orgs, x # o PROVE Row(x, orgMaintainers', maintainerOrg')
      <4>1. {w \in Users : maintainerOrg'[w] = x} = {w \in Users : maintainerOrg[w] = x}
        BY <3>1, <3>2, <3>8, OrgsAssumption
      <4>2. orgMaintainers'[x] = orgMaintainers[x] BY <3>1, <3>2, <3>8
      <4>3. Row(x, orgMaintainers, maintainerOrg) BY <1>1
      <4> QED BY <4>1, <4>2, <4>3
    <3> HIDE DEF Row
    <3> QED BY <1>1, <3>7, <3>8
  <2>3. ASSUME PeopleStep PROVE MaintainerIndex'
    BY <2>1, <2>2, <2>3
    DEF PeopleStep, RegisterOrg, UpdateOrgMetadata, AddAdmin, RemoveAdmin
  <2>4. PeopleStep \/ UNCHANGED <<maintainerOrg, orgMaintainers>>
    <3>1. ASSUME MoneyStep PROVE UNCHANGED <<maintainerOrg, orgMaintainers>>
      <4>1. \A u : ClaimPayout(u) => UNCHANGED <<maintainerOrg, orgMaintainers>>
        BY DEF ClaimPayout
      <4>2. \A o, u, a : FundOrg(o, u, a) => UNCHANGED <<maintainerOrg, orgMaintainers>>
        BY DEF FundOrg
      <4>3. \A o, u, m, ts : AllocatePayoutVesting(o, u, m, ts)
                                => UNCHANGED <<maintainerOrg, orgMaintainers>>
        BY DEF AllocatePayoutVesting
      <4>4. \A o, u, b : BatchAllocate(o, u, b) => UNCHANGED <<maintainerOrg, orgMaintainers>>
        BY DEF BatchAllocate
      <4> HIDE DEF ClaimPayout, FundOrg, AllocatePayoutVesting, BatchAllocate
      <4> QED BY <3>1, <4>1, <4>2, <4>3, <4>4 DEF MoneyStep, AllocatePayout
    <3> QED BY <3>1 DEF Next, vars, orgVars
  <2> QED BY <2>1, <2>3, <2>4
<1> QED BY <1>2, <1>3, AlwaysSound, PTL DEF Spec

-----------------------------------------------------------------------------
(* What a schedule in order pays.                                          *)

\* One round of the bisection, with f for the rounds after it.
BisectRound(ts, t, f, bounds) ==
  LET lo == bounds[1]
      hi == bounds[2]
      mid == lo + (hi - lo) \div 2
  IN  IF lo + 1 >= hi THEN lo
      ELSE IF ts[mid].unlock <= t THEN f[<<mid, hi>>]
      ELSE f[<<lo, mid>>]

Bisects(ts, t, f) ==
  f = [bounds \in (DOMAIN ts) \X (DOMAIN ts) |-> BisectRound(ts, t, f, bounds)]

\* Such a function is one round after the other, wherever it starts.
LEMMA BisectsUnfold ==
  ASSUME NEW ts, NEW t, NEW f, Bisects(ts, t, f), NEW lo \in DOMAIN ts, NEW hi \in DOMAIN ts
  PROVE  f[<<lo, hi>>] = BisectRound(ts, t, f, <<lo, hi>>)
<1> DEFINE P == (DOMAIN ts) \X (DOMAIN ts)
           b(bounds) == BisectRound(ts, t, f, bounds)
<1>1. f = [bounds \in P |-> b(bounds)] BY DEF Bisects
<1>2. <<lo, hi>> \in P OBVIOUS
<1> HIDE DEF P, b
<1>3. f[<<lo, hi>>] = b(<<lo, hi>>) BY <1>1, <1>2
<1> QED BY <1>3 DEF b

\* And a function that goes by rounds is a bisection.
LEMMA BisectsFold ==
  ASSUME NEW ts, NEW t, NEW e,
         NEW f, f = [bounds \in (DOMAIN ts) \X (DOMAIN ts) |-> e[bounds]],
         \A bounds \in (DOMAIN ts) \X (DOMAIN ts) : e[bounds] = BisectRound(ts, t, f, bounds)
  PROVE  Bisects(ts, t, f)
<1> DEFINE P == (DOMAIN ts) \X (DOMAIN ts)
           b(bounds) == BisectRound(ts, t, f, bounds)
<1>1. f = [bounds \in P |-> e[bounds]] /\ \A bounds \in P : e[bounds] = b(bounds) OBVIOUS
<1> HIDE DEF P, b
<1>2. f = [bounds \in P |-> b(bounds)] BY <1>1
<1> QED BY <1>2 DEF b, P, Bisects

\* The tranche at which a bisection between lo and hi may end: the bounds themselves
\* are trusted, and what is beside the tranche is as it should be.
EndsAt(ts, t, lo, hi, k) ==
  /\ k \in lo .. hi - 1
  /\ k = lo \/ ts[k].unlock <= t
  /\ k + 1 = hi \/ ts[k + 1].unlock > t

\* The middle of two bounds lies between them.
LEMMA MiddleLaw ==
  ASSUME NEW lo \in Nat, NEW hi \in Nat, ~(lo + 1 >= hi)
  PROVE  lo + (hi - lo) \div 2 \in (lo + 1) .. (hi - 1)
<1> DEFINE d == hi - lo
           h == d \div 2
<1>1. d \in Nat /\ d >= 2 /\ hi = lo + d OBVIOUS
<1> HIDE DEF d
<1>2. h \in Nat /\ 2 * h <= d /\ d <= 2 * h + 1 BY <1>1
<1> HIDE DEF h
<1>3. lo + h \in (lo + 1) .. (hi - 1) BY <1>1, <1>2
<1> QED BY <1>3 DEF h, d

\* Narrowing the bounds loses no end.
LEMMA NarrowedEnds ==
  ASSUME NEW ts \in Seq(GoodTranche), NEW t, NEW lo \in Nat, NEW hi \in Nat,
         NEW mid \in (lo + 1) .. (hi - 1), NEW k
  PROVE  /\ ts[mid].unlock <= t /\ EndsAt(ts, t, mid, hi, k) => EndsAt(ts, t, lo, hi, k)
         /\ ts[mid].unlock > t /\ EndsAt(ts, t, lo, mid, k) => EndsAt(ts, t, lo, hi, k)
BY DEF EndsAt

\* Unlock times are numbers.
LEMMA UnlockType ==
  ASSUME NEW ts \in Seq(GoodTranche), NEW i \in DOMAIN ts
  PROVE  ts[i] \in GoodTranche /\ ts[i].unlock \in Int /\ ts[i].amount \in Nat
<1>1. ts[i] \in GoodTranche OBVIOUS
<1>2. ts[i].unlock \in Timestamps /\ ts[i].amount \in Nat BY <1>1 DEF GoodTranche
<1>3. ts[i].unlock \in Int BY <1>2, MaxTimeAssumption DEF Timestamps
<1> QED BY <1>1, <1>2, <1>3

\* In a schedule in order a bisection can end at one tranche only, and there is one.
LEMMA OneEnd ==
  ASSUME NEW ts \in Seq(GoodTranche), NonDecreasing(ts), NEW t \in Timestamps,
         NEW lo \in DOMAIN ts, NEW hi \in DOMAIN ts, lo < hi
  PROVE  /\ \E k : EndsAt(ts, t, lo, hi, k)
         /\ \A j, k : EndsAt(ts, t, lo, hi, j) /\ EndsAt(ts, t, lo, hi, k) => j = k
<1>1. /\ DOMAIN ts = 1 .. Len(ts) /\ Len(ts) \in Nat /\ t \in Int
      /\ \A i \in DOMAIN ts : ts[i].unlock \in Int
      /\ \A i, j \in DOMAIN ts : i < j => ts[i].unlock <= ts[j].unlock
  <2>1. \A i \in DOMAIN ts : ts[i].unlock \in Int BY UnlockType
  <2>2. t \in Int BY MaxTimeAssumption DEF Timestamps
  <2> QED BY <2>1, <2>2 DEF NonDecreasing
<1>2. lo \in Nat /\ hi \in Nat /\ \A i \in lo .. hi : i \in DOMAIN ts BY <1>1
<1>3. \E k : EndsAt(ts, t, lo, hi, k)
  <2> DEFINE S == {i \in lo .. hi - 1 : i = lo \/ ts[i].unlock <= t}
  <2>1. S \in SUBSET (0 .. hi) /\ S # {}
    <3>1. lo \in S BY <1>2
    <3> QED BY <1>2, <3>1
  <2>2. PICK k \in S : \A i \in S : i <= k
    <3> HIDE DEF S
    <3> QED BY <1>2, <2>1, LargestExists
  <2>3. k \in lo .. hi - 1 /\ (k = lo \/ ts[k].unlock <= t) OBVIOUS
  <2>4. k + 1 = hi \/ ts[k + 1].unlock > t
    <3> SUFFICES ASSUME k + 1 # hi PROVE ts[k + 1].unlock > t OBVIOUS
    <3>1. k + 1 \in lo .. hi - 1 /\ ~(k + 1 <= k) BY <1>2, <2>3
    <3>2. k + 1 \notin S BY <2>2, <3>1
    <3>3. ~(ts[k + 1].unlock <= t) BY <3>1, <3>2
    <3>4. ts[k + 1].unlock \in Int BY <1>1, <1>2, <3>1
    <3> QED BY <1>1, <3>3, <3>4
  <2> QED BY <2>3, <2>4 DEF EndsAt
<1>4. ASSUME NEW j, NEW k, EndsAt(ts, t, lo, hi, j), EndsAt(ts, t, lo, hi, k), j < k
      PROVE  FALSE
  <2>1. j \in lo .. hi - 1 /\ k \in lo .. hi - 1 /\ j + 1 # hi /\ k # lo
    BY <1>2, <1>4 DEF EndsAt
  <2>2. ts[j + 1].unlock > t /\ ts[k].unlock <= t BY <1>4, <2>1 DEF EndsAt
  <2>3. j + 1 \in DOMAIN ts /\ k \in DOMAIN ts /\ (j + 1 = k \/ j + 1 < k) BY <1>2, <1>4, <2>1
  <2>4. ts[j + 1].unlock \in Int /\ ts[k].unlock \in Int /\ ts[j + 1].unlock <= ts[k].unlock
    BY <1>1, <2>3
  <2> QED BY <1>1, <2>2, <2>4
<1>5. ASSUME NEW j, NEW k, EndsAt(ts, t, lo, hi, j), EndsAt(ts, t, lo, hi, k) PROVE j = k
  <2>1. j \in Int /\ k \in Int BY <1>2, <1>5 DEF EndsAt
  <2>2. ~(j < k) /\ ~(k < j) BY <1>4, <1>5
  <2> QED BY <2>1, <2>2
<1> QED BY <1>3, <1>5

\* In a schedule in order, the bisection is one.
LEMMA BisectionExists ==
  ASSUME NEW ts \in Seq(GoodTranche), NonDecreasing(ts), NEW t \in Timestamps
  PROVE  Bisects(ts, t, Bisection(ts, t))
<1> DEFINE D == DOMAIN ts
           End(lo, hi) == IF lo < hi THEN CHOOSE k : EndsAt(ts, t, lo, hi, k) ELSE lo
           g == [bounds \in D \X D |-> End(bounds[1], bounds[2])]
<1>1. DOMAIN ts = 1 .. Len(ts) /\ Len(ts) \in Nat OBVIOUS
<1>2. ASSUME NEW lo \in D, NEW hi \in D, lo < hi PROVE EndsAt(ts, t, lo, hi, End(lo, hi))
  <2>1. \E k : EndsAt(ts, t, lo, hi, k) BY <1>2, OneEnd
  <2> QED BY <1>2, <2>1
<1>3. ASSUME NEW lo \in D, NEW hi \in D, lo < hi, NEW k, EndsAt(ts, t, lo, hi, k)
      PROVE  End(lo, hi) = k
  <2>1. EndsAt(ts, t, lo, hi, End(lo, hi)) BY <1>2, <1>3
  <2> HIDE DEF End
  <2> QED BY <1>3, <2>1, OneEnd
<1> HIDE DEF End
<1>4. ASSUME NEW bounds \in D \X D
      PROVE  g[bounds] = BisectRound(ts, t, g, bounds)
  <2>1. PICK lo \in D, hi \in D : bounds = <<lo, hi>> OBVIOUS
  <2>2. g[bounds] = End(lo, hi) BY <2>1
  <2>3. lo \in Nat /\ hi \in Nat BY <1>1
  <2>4. CASE lo + 1 >= hi
    <3>1. BisectRound(ts, t, g, bounds) = lo BY <2>1, <2>4 DEF BisectRound
    <3>2. End(lo, hi) = lo
      <4>1. CASE lo < hi
        <5>1. EndsAt(ts, t, lo, hi, lo) BY <2>3, <2>4, <4>1 DEF EndsAt
        <5> QED BY <1>3, <4>1, <5>1
      <4>2. CASE ~(lo < hi) BY <4>2 DEF End
      <4> QED BY <4>1, <4>2
    <3> QED BY <2>2, <3>1, <3>2
  <2>5. CASE ~(lo + 1 >= hi)
    <3> DEFINE mid == lo + (hi - lo) \div 2
    <3>1. mid \in (lo + 1) .. (hi - 1) BY <2>3, <2>5, MiddleLaw
    <3>2. BisectRound(ts, t, g, bounds) =
            IF ts[mid].unlock <= t THEN g[<<mid, hi>>] ELSE g[<<lo, mid>>]
      BY <2>1, <2>5 DEF BisectRound
    <3> HIDE DEF mid
    <3>3. mid \in D /\ mid < hi /\ lo < mid /\ lo < hi BY <1>1, <2>3, <3>1
    <3>4. g[<<mid, hi>>] = End(mid, hi) /\ g[<<lo, mid>>] = End(lo, mid) BY <3>3
    <3>5. EndsAt(ts, t, mid, hi, End(mid, hi)) /\ EndsAt(ts, t, lo, mid, End(lo, mid))
      BY <1>2, <3>3
    <3> HIDE DEF g
    <3>6. CASE ts[mid].unlock <= t
      <4>1. EndsAt(ts, t, lo, hi, End(mid, hi)) BY <2>3, <3>1, <3>5, <3>6, NarrowedEnds
      <4>2. End(lo, hi) = End(mid, hi) BY <1>3, <3>3, <4>1
      <4> QED BY <2>2, <3>2, <3>4, <3>6, <4>2
    <3>7. CASE ~(ts[mid].unlock <= t)
      <4>1. ts[mid].unlock > t
        <5>1. ts[mid].unlock \in Int /\ t \in Int
          BY <3>3, UnlockType, MaxTimeAssumption DEF Timestamps
        <5> QED BY <3>7, <5>1
      <4>2. EndsAt(ts, t, lo, hi, End(lo, mid)) BY <2>3, <3>1, <3>5, <4>1, NarrowedEnds
      <4>3. End(lo, hi) = End(lo, mid) BY <1>3, <3>3, <4>2
      <4> QED BY <2>2, <3>2, <3>4, <3>7, <4>3
    <3> QED BY <3>6, <3>7
  <2> QED BY <2>4, <2>5
<1>5. Bisects(ts, t, g)
  <2>1. g = [bounds \in D \X D |-> g[bounds]] OBVIOUS
  <2> HIDE DEF g
  <2>2. g = [bounds \in (DOMAIN ts) \X (DOMAIN ts) |-> g[bounds]] BY <2>1
  <2>3. \A bounds \in (DOMAIN ts) \X (DOMAIN ts) : g[bounds] = BisectRound(ts, t, g, bounds) BY <1>4
  <2> HIDE DEF D
  <2> QED BY <2>2, <2>3, BisectsFold
<1>6. Bisection(ts, t) = CHOOSE f : Bisects(ts, t, f) BY DEF Bisection, Bisects, BisectRound
<1> HIDE DEF g
<1> QED BY <1>5, <1>6

\* It ends where a bisection can end.
LEMMA BisectionEnds ==
  ASSUME NEW ts \in Seq(GoodTranche), NonDecreasing(ts), NEW t \in Timestamps,
         NEW lo \in DOMAIN ts, NEW hi \in DOMAIN ts, lo < hi
  PROVE  EndsAt(ts, t, lo, hi, Bisection(ts, t)[<<lo, hi>>])
<1> DEFINE D == DOMAIN ts
           f == Bisection(ts, t)
           Good == {m \in Nat : \A i, j \in D :
                      i < j /\ j - i <= m => EndsAt(ts, t, i, j, f[<<i, j>>])}
<1>1. D = 1 .. Len(ts) /\ Len(ts) \in Nat OBVIOUS
<1>2. ASSUME NEW i \in D, NEW j \in D PROVE f[<<i, j>>] = BisectRound(ts, t, f, <<i, j>>)
  <2>1. Bisects(ts, t, f) BY BisectionExists
  <2> HIDE DEF f
  <2> QED BY <2>1, BisectsUnfold
<1> HIDE DEF f
<1>3. 0 \in Good BY <1>1
<1>4. ASSUME NEW m \in Good PROVE m + 1 \in Good
  <2>1. m \in Nat OBVIOUS
  <2>2. ASSUME NEW i \in D, NEW j \in D, i < j, j - i <= m + 1
        PROVE  EndsAt(ts, t, i, j, f[<<i, j>>])
    <3>1. i \in Nat /\ j \in Nat BY <1>1
    <3>5. i < j BY <2>2
    <3>2. f[<<i, j>>] = BisectRound(ts, t, f, <<i, j>>) BY <1>2
    <3>3. CASE i + 1 >= j
      <4>1. f[<<i, j>>] = i BY <3>2, <3>3 DEF BisectRound
      <4>2. i + 1 = j /\ i \in i .. j - 1 BY <3>1, <3>3, <3>5
      <4> QED BY <4>1, <4>2 DEF EndsAt
    <3>4. CASE ~(i + 1 >= j)
      <4> DEFINE mid == i + (j - i) \div 2
      <4>1. mid \in (i + 1) .. (j - 1) BY <3>1, <3>4, MiddleLaw
      <4>2. BisectRound(ts, t, f, <<i, j>>) =
              IF ts[mid].unlock <= t THEN f[<<mid, j>>] ELSE f[<<i, mid>>]
        BY <3>4 DEF BisectRound
      <4> HIDE DEF mid
      <4>3. mid \in D /\ mid < j /\ i < mid /\ j - mid <= m /\ mid - i <= m
        BY <1>1, <2>1, <2>2, <3>1, <4>1
      <4>4. \A x, y \in D : x < y /\ y - x <= m => EndsAt(ts, t, x, y, f[<<x, y>>])
        BY <1>4
      <4>5. EndsAt(ts, t, mid, j, f[<<mid, j>>]) /\ EndsAt(ts, t, i, mid, f[<<i, mid>>])
        BY <4>3, <4>4
      <4>6. CASE ts[mid].unlock <= t
        BY <3>1, <3>2, <4>1, <4>2, <4>5, <4>6, NarrowedEnds
      <4>7. CASE ~(ts[mid].unlock <= t)
        <5>1. ts[mid].unlock > t
          <6>1. ts[mid].unlock \in Int /\ t \in Int
            BY <4>3, UnlockType, MaxTimeAssumption DEF Timestamps
          <6> QED BY <4>7, <6>1
        <5> QED BY <3>1, <3>2, <4>1, <4>2, <4>5, <4>7, <5>1, NarrowedEnds
      <4> QED BY <4>6, <4>7
    <3> QED BY <3>3, <3>4
  <2> QED BY <2>1, <2>2
<1>5. Good = Nat
  <2>1. Good \in SUBSET Nat OBVIOUS
  <2> HIDE DEF Good
  <2> QED BY <1>3, <1>4, <2>1, NatSetInduction
<1>6. hi - lo \in Good BY <1>1, <1>5
<1> QED BY <1>6 DEF f

\* What the bisection counts of a schedule in order is what a full scan finds unlocked.
LEMMA OrderedVesting ==
  ASSUME NEW ts \in Seq(GoodTranche), NonDecreasing(ts), NEW t \in Timestamps
  PROVE  VestedAmount(ts, t) = UnlockedTotal(ts, t)
<1> DEFINE last == Len(ts)
           k == LastUnlocked(ts, t)
<1>1. last \in Nat /\ DOMAIN ts = 1 .. last OBVIOUS
<1>2. t \in Int BY MaxTimeAssumption DEF Timestamps
<1>3. /\ \A i \in 1 .. last : ts[i].unlock \in Int
      /\ \A i, j \in 1 .. last : i <= j => ts[i].unlock <= ts[j].unlock
  <2>1. \A i \in 1 .. last : ts[i].unlock \in Int BY UnlockType
  <2>2. \A i, j \in 1 .. last : i < j => ts[i].unlock <= ts[j].unlock BY DEF NonDecreasing
  <2>3. ASSUME NEW i \in 1 .. last, NEW j \in 1 .. last, i <= j
        PROVE  ts[i].unlock <= ts[j].unlock
    <3>1. CASE i = j BY <2>1, <3>1
    <3>2. CASE i # j
      <4>1. i < j BY <2>3, <3>2
      <4> QED BY <2>2, <4>1
    <3> QED BY <3>1, <3>2
  <2> QED BY <2>1, <2>3
<1>4. /\ k \in 0 .. last
      /\ k > 0 => ts[k].unlock <= t
      /\ k < last => ts[k + 1].unlock > t
  <2>1. CASE last = 0
    <3>1. k = 0 BY <2>1 DEF LastUnlocked
    <3> QED BY <2>1, <3>1
  <2>2. CASE last # 0 /\ ts[1].unlock > t
    <3>1. k = 0 BY <2>2 DEF LastUnlocked
    <3> QED BY <1>1, <2>2, <3>1
  <2>3. CASE last # 0 /\ ~(ts[1].unlock > t) /\ ts[last].unlock <= t
    <3>1. k = last BY <2>3 DEF LastUnlocked
    <3> QED BY <1>1, <2>3, <3>1
  <2>4. CASE last # 0 /\ ~(ts[1].unlock > t) /\ ~(ts[last].unlock <= t)
    <3>1. k = Bisection(ts, t)[<<1, last>>] BY <2>4 DEF LastUnlocked
    <3>2. 1 \in DOMAIN ts /\ last \in DOMAIN ts BY <1>1, <2>4
    <3>3. ts[1].unlock \in Int /\ ts[last].unlock \in Int BY <1>3, <1>1, <3>2
    <3>4. ts[1].unlock <= t /\ ts[last].unlock > t BY <1>2, <2>4, <3>3
    <3>5. 1 < last
      <4>1. last # 1 BY <1>2, <3>3, <3>4
      <4> QED BY <1>1, <2>4, <4>1
    <3>6. EndsAt(ts, t, 1, last, k) BY <3>1, <3>2, <3>5, BisectionEnds
    <3> HIDE DEF k
    <3>7. k \in 1 .. last - 1 /\ (k = 1 \/ ts[k].unlock <= t)
          /\ (k + 1 = last \/ ts[k + 1].unlock > t)
      BY <3>6 DEF EndsAt
    <3>8. ts[k].unlock <= t BY <3>4, <3>7
    <3>9. ts[k + 1].unlock > t BY <3>4, <3>7
    <3>11. k \in 1 .. last - 1 BY <3>7
    <3>10. k \in 0 .. last BY <1>1, <3>11
    <3> QED BY <3>8, <3>9, <3>10
  <2> QED BY <2>1, <2>2, <2>3, <2>4
<1> HIDE DEF k
<1>5. ASSUME NEW j \in 1 .. last PROVE j <= k <=> ts[j].unlock <= t
  <2>1. ts[j].unlock \in Int BY <1>3
  <2>2. CASE j <= k
    <3>1. k \in 1 .. last /\ k > 0 BY <1>1, <1>4, <2>2
    <3>2. ts[j].unlock <= ts[k].unlock /\ ts[k].unlock \in Int BY <1>3, <2>2, <3>1
    <3> QED BY <1>2, <1>4, <2>1, <2>2, <3>1, <3>2
  <2>3. CASE ~(j <= k)
    <3>1. k + 1 \in 1 .. last /\ k < last /\ k + 1 <= j BY <1>1, <1>4, <2>3
    <3>2. ts[k + 1].unlock <= ts[j].unlock /\ ts[k + 1].unlock \in Int BY <1>3, <3>1
    <3>3. ts[k + 1].unlock > t BY <1>4, <3>1
    <3>4. ~(ts[j].unlock <= t) BY <1>2, <2>1, <3>2, <3>3
    <3> QED BY <2>3, <3>4
  <2> QED BY <2>2, <2>3
<1>6. {j \in DOMAIN ts : j <= k} = {i \in DOMAIN ts : ts[i].unlock <= t} BY <1>1, <1>5
<1> QED BY <1>6 DEF VestedAmount, SumPrefix, UnlockedTotal, k

\* As time passes and tranches are appended, more is unlocked and never less; and the
\* front of a schedule in order is in order.
LEMMA UnlockedGrows ==
  ASSUME NEW ts \in Seq(GoodTranche), NEW us \in Seq(GoodTranche),
         NEW t \in Timestamps, NEW u \in Timestamps, t <= u
  PROVE  /\ UnlockedTotal(ts, t) \in Nat /\ UnlockedTotal(ts \o us, u) \in Nat
         /\ UnlockedTotal(ts, t) <= UnlockedTotal(ts \o us, u)
         /\ NonDecreasing(ts \o us) => NonDecreasing(ts)
<1> DEFINE all == ts \o us
           T == {i \in DOMAIN ts : ts[i].unlock <= t}
           S == {i \in DOMAIN all : all[i].unlock <= u}
           f == [i \in S |-> all[i].amount]
           g == [i \in T |-> ts[i].amount]
<1>1. /\ all \in Seq(GoodTranche) /\ DOMAIN ts = 1 .. Len(ts) /\ Len(ts) \in Nat
      /\ DOMAIN all = 1 .. Len(ts) + Len(us) /\ Len(us) \in Nat
      /\ \A i \in DOMAIN ts : i \in DOMAIN all /\ all[i] = ts[i]
  OBVIOUS
<1>2. t \in Int /\ u \in Int BY MaxTimeAssumption DEF Timestamps
<1> HIDE DEF all
<1>3. /\ \A i \in DOMAIN ts : ts[i].unlock \in Int /\ ts[i].amount \in Nat
      /\ \A i \in DOMAIN all : all[i].unlock \in Int /\ all[i].amount \in Nat
  BY <1>1, UnlockType
<1>4. T \in SUBSET S
  <2>1. ASSUME NEW i \in DOMAIN ts, ts[i].unlock <= t
        PROVE  i \in DOMAIN all /\ all[i].unlock <= u
    <3>1. ts[i].unlock \in Int BY <1>3
    <3>2. ts[i].unlock <= u BY <1>2, <2>1, <3>1
    <3> QED BY <1>1, <3>2
  <2> QED BY <2>1
<1>5. IsFiniteSet(S)
  <2>1. IsFiniteSet(DOMAIN all) /\ S \subseteq DOMAIN all BY <1>1, FS_Interval
  <2> HIDE DEF S
  <2> QED BY <2>1, FS_Subset
<1>6. f \in [S -> Nat] BY <1>3
<1>7. [i \in T |-> f[i]] = g BY <1>1, <1>4
<1>8. SumOver(g) <= SumOver(f) /\ SumOver(g) \in Nat /\ SumOver(f) \in Nat
  <2>1. g \in [T -> Nat] BY <1>3
  <2>2. IsFiniteSet(T) BY <1>4, <1>5, FS_Subset
  <2> HIDE DEF S, T, f, g
  <2>3. SumOver([i \in T |-> f[i]]) <= SumOver(f) BY <1>4, <1>5, <1>6, SumOverSubset
  <2>4. SumOver(f) \in Nat BY <1>5, <1>6, SumOverType
  <2>5. SumOver(g) \in Nat BY <2>1, <2>2, SumOverType
  <2> QED BY <1>7, <2>3, <2>4, <2>5
<1>9. SumOver(g) = UnlockedTotal(ts, t) /\ SumOver(f) = UnlockedTotal(all, u)
  BY DEF UnlockedTotal
<1>10. NonDecreasing(all) => NonDecreasing(ts)
  <2>1. ASSUME NonDecreasing(all), NEW i \in DOMAIN ts, NEW j \in DOMAIN ts, i < j
        PROVE  ts[i].unlock <= ts[j].unlock
    <3>1. i \in DOMAIN all /\ all[i] = ts[i] /\ j \in DOMAIN all /\ all[j] = ts[j] BY <1>1
    <3>2. all[i].unlock <= all[j].unlock BY <2>1, <3>1 DEF NonDecreasing
    <3> QED BY <3>1, <3>2
  <2> QED BY <2>1 DEF NonDecreasing
<1> HIDE DEF f, g
<1> QED BY <1>8, <1>9, <1>10 DEF all

\* While a schedule is in order, no more was claimed under it than is unlocked.
ClaimedInOrder ==
  \A m \in Users :
    NonDecreasing(payout[m].tranches) =>
      payout[m].claimed <= UnlockedTotal(payout[m].tranches, now)

\* A record that kept its claims and at most grew its schedule.
LEMMA GrownInOrder ==
  ASSUME Sound, Sound', ClaimedInOrder, now <= now', NEW m \in Users,
         NEW us \in Seq(GoodTranche),
         payout'[m].tranches = payout[m].tranches \o us,
         payout'[m].claimed = payout[m].claimed,
         NonDecreasing(payout'[m].tranches)
  PROVE  payout'[m].claimed <= UnlockedTotal(payout'[m].tranches, now')
<1>1. /\ payout[m].tranches \in Seq(GoodTranche) /\ payout[m].claimed \in Nat
      /\ now \in Timestamps /\ now' \in Timestamps
  BY DEF Sound, OrgTypeOK, ControlTypeOK, MaintainerPayout
<1> DEFINE ts == payout[m].tranches
<1>2. /\ UnlockedTotal(ts, now) \in Nat /\ UnlockedTotal(ts \o us, now') \in Nat
      /\ UnlockedTotal(ts, now) <= UnlockedTotal(ts \o us, now')
      /\ NonDecreasing(ts \o us) => NonDecreasing(ts)
  BY <1>1, UnlockedGrows
<1>3. NonDecreasing(ts) BY <1>2
<1>4. payout[m].claimed <= UnlockedTotal(ts, now) BY <1>3 DEF ClaimedInOrder
<1>5. payout[m].claimed <= UnlockedTotal(ts \o us, now')
  <2> DEFINE a == UnlockedTotal(ts, now)
             b == UnlockedTotal(ts \o us, now')
             c == payout[m].claimed
  <2>1. a \in Nat /\ b \in Nat /\ c \in Nat /\ a <= b /\ c <= a BY <1>1, <1>2, <1>4
  <2> HIDE DEF a, b, c
  <2>2. c <= b BY <2>1
  <2> QED BY <2>2 DEF b, c
<1> QED BY <1>5

\* A record that nothing happened to, while time may have passed.
LEMMA RestingInOrder ==
  ASSUME Sound, Sound', ClaimedInOrder, now <= now', NEW m \in Users,
         payout'[m] = payout[m], NonDecreasing(payout'[m].tranches)
  PROVE  payout'[m].claimed <= UnlockedTotal(payout'[m].tranches, now')
<1>1. payout[m].tranches \in Seq(GoodTranche)
  BY DEF Sound, OrgTypeOK, MaintainerPayout
<1>2. <<>> \in Seq(GoodTranche) /\ payout[m].tranches \o <<>> = payout[m].tranches BY <1>1
<1> QED BY <1>2, GrownInOrder

\* A claim takes what is unlocked, an allocation appends, an enrolment starts afresh.
LEMMA StepClaimsInOrder ==
  ASSUME Sound, Sound', ClaimedInOrder, [Next]_vars
  PROVE  ClaimedInOrder'
<1> SUFFICES ASSUME NEW m \in Users, NonDecreasing(payout'[m].tranches)
             PROVE  payout'[m].claimed <= UnlockedTotal(payout'[m].tranches, now')
  BY DEF ClaimedInOrder
<1>1. /\ now \in Timestamps /\ now \in Int /\ now <= now
      /\ payout \in [Users -> MaintainerPayout] /\ payout' \in [Users -> MaintainerPayout]
  BY MaxTimeAssumption DEF Sound, OrgTypeOK, ControlTypeOK, Timestamps
<1>2. CASE now <= now' /\ payout' = payout BY <1>2, RestingInOrder
<1>3. CASE PeopleStep /\ now' = now
  <2>1. ASSUME NEW o \in Orgs, NEW u \in Users, NEW x \in Users, AddMaintainer(o, u, x)
        PROVE  payout' = [payout EXCEPT ![x] = EmptyPayout]
    BY <2>1 DEF AddMaintainer
  <2>2. payout' = payout \/ \E x \in Users : payout' = [payout EXCEPT ![x] = EmptyPayout]
    BY <1>3, <2>1 DEF PeopleStep, RegisterOrg, UpdateOrgMetadata, AddAdmin, RemoveAdmin
  <2>3. CASE payout'[m] = EmptyPayout
    <3>1. payout'[m].tranches = <<>> /\ payout'[m].claimed = 0 BY <2>3 DEF EmptyPayout
    <3>2. UnlockedTotal(<<>>, now) \in Nat
      <4>1. <<>> \in Seq(GoodTranche) OBVIOUS
      <4> QED BY <1>1, <4>1, UnlockedGrows
    <3> DEFINE b == UnlockedTotal(<<>>, now)
    <3> HIDE DEF b
    <3>3. b \in Nat BY <3>2 DEF b
    <3>4. 0 <= b BY <3>3
    <3> QED BY <1>3, <3>1, <3>4 DEF b
  <2>4. CASE payout'[m] = payout[m] BY <1>1, <1>3, <2>4, RestingInOrder
  <2> QED BY <1>1, <2>2, <2>3, <2>4
<1>4. CASE MoneyStep /\ now' = now
  <2>7. now <= now' BY <1>1, <1>4
  <2>1. ASSUME NEW u \in Users, ClaimPayout(u)
        PROVE  payout'[m].claimed <= UnlockedTotal(payout'[m].tranches, now')
    <3>1. /\ payout'[u].claimed = VestedAmount(payout[u].tranches, now)
          /\ payout'[u].tranches = payout[u].tranches
          /\ m # u => payout'[m] = payout[m]
      BY <1>1, <2>1 DEF ClaimPayout
    <3>2. CASE m = u
      <4>1. payout[u].tranches \in Seq(GoodTranche) BY <1>1 DEF MaintainerPayout
      <4>2. NonDecreasing(payout[u].tranches) BY <3>1, <3>2
      <4>3. VestedAmount(payout[u].tranches, now) = UnlockedTotal(payout[u].tranches, now)
        BY <1>1, <4>1, <4>2, OrderedVesting
      <4>4. UnlockedTotal(payout[u].tranches, now) \in Nat
        <5>1. <<>> \in Seq(GoodTranche) OBVIOUS
        <5> QED BY <1>1, <4>1, <5>1, UnlockedGrows
      <4> DEFINE b == UnlockedTotal(payout[u].tranches, now)
      <4> HIDE DEF b
      <4>5. b <= b BY <4>4 DEF b
      <4> QED BY <1>4, <3>1, <3>2, <4>3, <4>5 DEF b
    <3>3. CASE m # u BY <1>1, <1>4, <3>1, <3>3, RestingInOrder
    <3> QED BY <3>2, <3>3
  <2>2. ASSUME NEW o \in Orgs, NEW u \in Users, NEW amount \in Requests, FundOrg(o, u, amount)
        PROVE  payout' = payout
    BY <2>2 DEF FundOrg
  <2>3. ASSUME NEW o \in Orgs, NEW u \in Users, NEW x \in Users, NEW ts \in Seq(Tranche),
               AllocatePayoutVesting(o, u, x, ts)
        PROVE  payout'[m].claimed <= UnlockedTotal(payout'[m].tranches, now')
    <3>1. ts \in Seq(GoodTranche) BY <2>3, GoodSchedule
    <3>2. /\ payout'[x].tranches = payout[x].tranches \o ts
          /\ payout'[x].claimed = payout[x].claimed
          /\ m # x => payout'[m] = payout[m]
      BY <1>1, <2>3 DEF AllocatePayoutVesting, AddTranches
    <3>3. CASE m = x BY <2>7, <3>1, <3>2, <3>3, GrownInOrder
    <3>4. CASE m # x BY <1>1, <1>4, <3>2, <3>4, RestingInOrder
    <3> QED BY <3>3, <3>4
  <2>4. ASSUME NEW o \in Orgs, NEW u \in Users, NEW batch \in Batches, BatchAllocate(o, u, batch)
        PROVE  payout'[m].claimed <= UnlockedTotal(payout'[m].tranches, now')
    <3>1. PositiveBatch(batch) BY <2>4, GoodBatch
    <3>2. BatchTranches(batch, m) \in Seq(GoodTranche)
      BY <3>1, BatchTranchesTotal DEF PositiveBatch
    <3>3. /\ payout'[m].tranches = payout[m].tranches \o BatchTranches(batch, m)
          /\ payout'[m].claimed = payout[m].claimed
      BY <2>4 DEF BatchAllocate, AddTranches
    <3> QED BY <2>7, <3>2, <3>3, GrownInOrder
  <2>5. ASSUME NEW o \in Orgs, NEW u \in Users, NEW x \in Users, NEW amount \in Requests,
               NEW unlock \in Timestamps, AllocatePayout(o, u, x, amount, unlock)
        PROVE  payout'[m].claimed <= UnlockedTotal(payout'[m].tranches, now')
    <3>1. <<[unlock |-> unlock, amount |-> amount]>> \in Seq(Tranche)
      BY RequestsAssumption DEF Tranche
    <3> QED BY <2>3, <2>5, <3>1 DEF AllocatePayout
  <2>6. ASSUME NEW o \in Orgs, NEW u \in Users, NEW x \in Users, NEW ts \in Schedules,
               AllocatePayoutVesting(o, u, x, ts)
        PROVE  payout'[m].claimed <= UnlockedTotal(payout'[m].tranches, now')
    BY <2>3, <2>6, SchedulesAssumption
  <2> QED BY <1>1, <1>2, <1>4, <2>1, <2>2, <2>4, <2>5, <2>6 DEF MoneyStep
<1>5. CASE Tick /\ UNCHANGED <<bal, controlVars, lock, orgVars>>
  <2>1. now <= now' /\ payout' = payout BY <1>1, <1>5 DEF Tick, orgVars
  <2> QED BY <1>2, <2>1
<1>6. CASE now' = now /\ payout' = payout BY <1>1, <1>2, <1>6
<1> QED BY <1>3, <1>4, <1>5, <1>6 DEF Next, vars, orgVars

\* While a maintainer's schedule is in order, claim_payout pays for exactly what a full
\* scan finds unlocked: the bisection of vested_amount_binary releases nothing early and
\* withholds nothing, whatever allocations, batches and claims the schedule came about by.
THEOREM OrderedSchedulesPayExactly == Spec => []OrderedSchedulePaysExactly
<1>1. ASSUME Init PROVE ClaimedInOrder
  <2>1. ASSUME NEW m \in Users
        PROVE  payout[m].claimed <= UnlockedTotal(payout[m].tranches, now)
    <3>1. payout[m].claimed = 0 /\ payout[m].tranches = <<>>
      BY <1>1 DEF Init, OrgVarsInit, EmptyPayout
    <3>2. <<>> \in Seq(GoodTranche) /\ now \in Timestamps /\ now \in Int
      BY <1>1, MaxTimeAssumption DEF Init, ControlInit, Timestamps
    <3>3. UnlockedTotal(<<>>, now) \in Nat
      <4>1. now <= now BY <3>2
      <4> QED BY <3>2, <4>1, UnlockedGrows
    <3> DEFINE b == UnlockedTotal(<<>>, now)
    <3> HIDE DEF b
    <3>4. 0 <= b BY <3>3 DEF b
    <3> QED BY <3>1, <3>4 DEF b
  <2> QED BY <2>1 DEF ClaimedInOrder
<1>2. Sound /\ Sound' /\ ClaimedInOrder /\ [Next]_vars => ClaimedInOrder'
  BY StepClaimsInOrder
<1>3. ASSUME Sound, ClaimedInOrder PROVE OrderedSchedulePaysExactly
  <2>1. ASSUME NEW m \in Users, NonDecreasing(payout[m].tranches)
        PROVE  VestedAmount(payout[m].tranches, now) = UnlockedTotal(payout[m].tranches, now)
    <3>1. payout[m].tranches \in Seq(GoodTranche) /\ now \in Timestamps
      BY <1>3 DEF Sound, OrgTypeOK, ControlTypeOK, MaintainerPayout
    <3> QED BY <2>1, <3>1, OrderedVesting
  <2> QED BY <1>3, <2>1 DEF OrderedSchedulePaysExactly, ClaimedInOrder
<1> QED BY <1>1, <1>2, <1>3, AlwaysSound, PTL DEF Spec
=============================================================================
