---------------------- MODULE QuadraticFunding_proofs -----------------------
(***************************************************************************)
(* Proofs about quadratic funding and the signed calls that reach it: the  *)
(* incrementally kept statistics are those of all contributions, and a     *)
(* round of matching, for any number of projects and any weights, pays out *)
(* no more than the pool and leaves less than a stroop per project.        *)
(***************************************************************************)
EXTENDS NonceCalls, OrgPayouts_proofs

QfSound == Sound /\ QfTypeOK

\* A project that nobody registered has attracted no contribution.
WeightNeedsOrg == \A p \in Orgs : ~Registered(p) => stats[p].weight = 0

QfIInv ==
  QfSound /\ StatsMatchContributions /\ MatchingConserved /\ Balanced /\ WeightNeedsOrg

\* A step that adds no more to what the registry owes than to what it holds, the
\* matching pool included.
QfCovered ==
  Funds(budget', payout') + matchingPool' + bal[Contract]
    <= Funds(budget, payout) + matchingPool + bal'[Contract]

MatchedTo(s) == [p \in Orgs |-> s[p].matched]

\* What the statistics of a project are to be, from its contributions c.
Describes(s, c) ==
  /\ s.direct = SumOver(c)
  /\ s.sqrtSum = SumOver([u \in Users |-> Isqrt(c[u])])
  /\ s.weight = s.sqrtSum * s.sqrtSum
  /\ s.count = Cardinality({u \in Users : c[u] > 0})

-----------------------------------------------------------------------------
(* Roots, statistics and shares.                                           *)

\* Every natural number has an integer square root: otherwise the numbers whose
\* square it is not below would have no largest.
LEMMA IsqrtIsRoot ==
  ASSUME NEW n \in Nat
  PROVE  /\ Isqrt(n) \in Nat
         /\ Isqrt(n) * Isqrt(n) <= n
         /\ n < (Isqrt(n) + 1) * (Isqrt(n) + 1)
<1> DEFINE Small == {r \in Nat : r * r <= n}
<1>1. \E r \in Small : r + 1 \notin Small
  <2> SUFFICES ASSUME \A r \in Small : r + 1 \in Small PROVE FALSE
    OBVIOUS
  <2>1. 0 \in Small OBVIOUS
  <2>2. n + 1 \notin Small
    <3>1. (n + 1) * (n + 1) = n * n + 2 * n + 1 /\ n * n >= 0 BY SMT
    <3> QED BY <3>1
  <2>3. Small \subseteq Nat OBVIOUS
  <2> HIDE DEF Small
  <2>4. Small = Nat BY <2>1, <2>3, NatSetInduction
  <2> QED BY <2>2, <2>4
<1>2. PICK r \in Nat : r * r <= n /\ n < (r + 1) * (r + 1) BY <1>1
<1>3. r \in 0 .. n
  <2>1. r = 0 \/ r <= r * r BY SMT
  <2> QED BY <1>2, <2>1
<1>4. /\ Isqrt(n) \in 0 .. n /\ Isqrt(n) * Isqrt(n) <= n
      /\ n < (Isqrt(n) + 1) * (Isqrt(n) + 1)
  <2> DEFINE Root(x) == x * x <= n /\ n < (x + 1) * (x + 1)
  <2>1. Isqrt(n) = CHOOSE x \in 0 .. n : Root(x) BY DEF Isqrt
  <2>2. Root(r) BY <1>2
  <2> HIDE DEF Root
  <2>3. Isqrt(n) \in 0 .. n /\ Root(Isqrt(n)) BY <1>3, <2>1, <2>2
  <2> QED BY <2>3 DEF Root
<1> QED BY <1>4

\* The root of nothing is nothing.
LEMMA IsqrtOfZero == Isqrt(0) = 0
<1>1. \E x \in 0 .. 0 : x * x <= 0 /\ 0 < (x + 1) * (x + 1) OBVIOUS
<1>2. Isqrt(0) \in 0 .. 0 BY <1>1 DEF Isqrt
<1> QED BY <1>2

\* The fields that a contribution changes, and the one that it does not.
LEMMA ContributedEffect ==
  ASSUME NEW s \in ProjectStats, NEW old \in Nat, NEW new \in Nat
  PROVE  LET t == Contributed(s, old, new)
             root == s.sqrtSum + (Isqrt(new) - Isqrt(old))
         IN  /\ t.direct = s.direct + (new - old)
             /\ t.sqrtSum = root
             /\ t.weight = root * root
             /\ t.count = IF old = 0 THEN s.count + 1 ELSE s.count
             /\ t.matched = s.matched
             /\ t.direct \in Nat /\ t.sqrtSum \in Nat /\ t.weight \in Nat => t \in ProjectStats
<1> DEFINE root == s.sqrtSum + (Isqrt(new) - Isqrt(old))
           count == IF old = 0 THEN s.count + 1 ELSE s.count
           t == Contributed(s, old, new)
<1>1. s.matched \in Nat /\ s.count \in Nat /\ count \in Nat BY DEF ProjectStats
<1>2. t = [direct |-> s.direct + (new - old), matched |-> s.matched, sqrtSum |-> root,
           count |-> count, weight |-> root * root]
  <2>1. s = [direct |-> s.direct, matched |-> s.matched, sqrtSum |-> s.sqrtSum,
             count |-> s.count, weight |-> s.weight]
    BY DEF ProjectStats
  <2> DEFINE x == s.direct + (new - old)
             w == root * root
             t1 == [s EXCEPT !.direct = x]
             t2 == [t1 EXCEPT !.sqrtSum = root]
             t3 == [t2 EXCEPT !.count = count]
  <2>2. t = [t3 EXCEPT !.weight = w] BY DEF Contributed
  <2> HIDE DEF x, w, root, count, t
  <2>3. t1 = [direct |-> x, matched |-> s.matched, sqrtSum |-> s.sqrtSum,
              count |-> s.count, weight |-> s.weight]
    BY <2>1
  <2> HIDE DEF t1
  <2>4. t2 = [direct |-> x, matched |-> s.matched, sqrtSum |-> root,
              count |-> s.count, weight |-> s.weight]
    BY <2>3
  <2> HIDE DEF t2
  <2>5. t3 = [direct |-> x, matched |-> s.matched, sqrtSum |-> root,
              count |-> count, weight |-> s.weight]
    BY <2>4
  <2> HIDE DEF t3
  <2> QED BY <2>2, <2>5 DEF x, w
<1> HIDE DEF root, count
<1>3. /\ t.direct = s.direct + (new - old) /\ t.sqrtSum = root /\ t.weight = root * root
      /\ t.count = count /\ t.matched = s.matched
  BY <1>2
<1>4. t.direct \in Nat /\ t.sqrtSum \in Nat /\ t.weight \in Nat => t \in ProjectStats
  BY <1>1, <1>2, <1>3 DEF ProjectStats
<1> QED BY <1>3, <1>4 DEF root, count

\* One more contributor, or the same ones.
LEMMA OneMoreContributor ==
  ASSUME NEW c \in [Users -> Nat], NEW u \in Users, NEW new \in Nat \ {0}
  PROVE  Cardinality({v \in Users : [c EXCEPT ![u] = new][v] > 0}) =
           IF c[u] = 0 THEN Cardinality({v \in Users : c[v] > 0}) + 1
           ELSE Cardinality({v \in Users : c[v] > 0})
<1> DEFINE S == {v \in Users : c[v] > 0}
           T == {v \in Users : [c EXCEPT ![u] = new][v] > 0}
<1>1. T = S \union {u} BY DEF S, T
<1>2. u \in S <=> c[u] # 0 BY DEF S
<1>3. IsFiniteSet(S) /\ S \subseteq Users BY UsersAssumption, FS_Subset
<1> HIDE DEF S, T
<1>4. CASE c[u] = 0 BY <1>1, <1>2, <1>3, <1>4, FS_AddElement DEF S, T
<1>5. CASE c[u] # 0
  <2>1. T = S BY <1>1, <1>2, <1>5
  <2> QED BY <1>5, <2>1 DEF S, T
<1> QED BY <1>4, <1>5

\* Changing what one user has changes the sum over users by the difference.
LEMMA UserSumExcept ==
  ASSUME NEW f \in [Users -> Nat], NEW u \in Users, NEW v \in Nat
  PROVE  /\ SumOver(f) \in Nat
         /\ SumOver([f EXCEPT ![u] = v]) = SumOver(f) - f[u] + v
BY ZenonT(60), UsersAssumption, SumOverType, SumOverExcept

\* The statistics still describe the contributions after one more.
LEMMA ContributedDescribes ==
  ASSUME NEW s \in ProjectStats, NEW c \in [Users -> Nat], Describes(s, c),
         NEW u \in Users, NEW amount \in Nat \ {0}
  PROVE  LET t == Contributed(s, c[u], c[u] + amount)
         IN  /\ t \in ProjectStats /\ t.matched = s.matched
             /\ Describes(t, [c EXCEPT ![u] = c[u] + amount])
<1> DEFINE old == c[u]
           new == c[u] + amount
           d == [c EXCEPT ![u] = new]
           t == Contributed(s, old, new)
           before == [v \in Users |-> Isqrt(c[v])]
           after == [v \in Users |-> Isqrt(d[v])]
<1>1. old \in Nat /\ new \in Nat \ {0} OBVIOUS
<1>2. Isqrt(old) \in Nat /\ Isqrt(new) \in Nat BY <1>1, IsqrtIsRoot
<1>3. IsFiniteSet(Users) BY UsersAssumption
<1>4. SumOver(d) = SumOver(c) - old + new /\ SumOver(c) \in Nat /\ SumOver(d) \in Nat
  <2>1. d \in [Users -> Nat] /\ d = [c EXCEPT ![u] = new] OBVIOUS
  <2> HIDE DEF d, new
  <2>2. SumOver(d) = SumOver(c) - c[u] + new BY ZenonT(60), <1>1, <2>1, UserSumExcept
  <2>3. SumOver(c) \in Nat /\ SumOver(d) \in Nat BY <1>3, <2>1, SumOverType
  <2> QED BY <2>2, <2>3
<1>5. SumOver(after) = SumOver(before) - Isqrt(old) + Isqrt(new)
      /\ SumOver(after) \in Nat /\ SumOver(before) \in Nat
  <2>1. before \in [Users -> Nat] /\ after \in [Users -> Nat]
    <3>1. \A v \in Users : c[v] \in Nat /\ d[v] \in Nat OBVIOUS
    <3> HIDE DEF d
    <3> QED BY <3>1, IsqrtIsRoot
  <2>2. after = [before EXCEPT ![u] = Isqrt(new)] OBVIOUS
  <2>3. before[u] = Isqrt(old) OBVIOUS
  <2> HIDE DEF before, after, d, new, old
  <2>4. SumOver(after) = SumOver(before) - before[u] + Isqrt(new)
    BY ZenonT(60), <1>2, <2>1, <2>2, UserSumExcept
  <2>5. SumOver(after) \in Nat /\ SumOver(before) \in Nat BY <1>3, <2>1, SumOverType
  <2> QED BY <2>3, <2>4, <2>5
<1>6. Cardinality({v \in Users : d[v] > 0}) =
        IF old = 0 THEN Cardinality({v \in Users : c[v] > 0}) + 1
        ELSE Cardinality({v \in Users : c[v] > 0})
  BY ZenonT(60), <1>1, OneMoreContributor
<1> HIDE DEF old, new, d
<1>7. /\ t.direct = s.direct + (new - old)
      /\ t.sqrtSum = s.sqrtSum + (Isqrt(new) - Isqrt(old))
      /\ t.weight = t.sqrtSum * t.sqrtSum
      /\ t.count = IF old = 0 THEN s.count + 1 ELSE s.count
      /\ t.matched = s.matched
      /\ t.direct \in Nat /\ t.sqrtSum \in Nat /\ t.weight \in Nat => t \in ProjectStats
  BY <1>1, ContributedEffect
<1> HIDE DEF t
<1>8. t.direct = SumOver(d) BY <1>1, <1>4, <1>7 DEF Describes
<1>9. t.sqrtSum = SumOver(after) BY <1>2, <1>5, <1>7 DEF Describes
<1>10. t.count = Cardinality({v \in Users : d[v] > 0}) BY <1>6, <1>7 DEF Describes
<1>11. t.weight \in Nat BY <1>5, <1>7, <1>9
<1>12. t \in ProjectStats BY <1>4, <1>5, <1>7, <1>8, <1>9, <1>11
<1>13. Describes(t, d) BY <1>7, <1>8, <1>9, <1>10 DEF Describes
<1> QED BY <1>7, <1>12, <1>13 DEF old, new, d, t

\* Rounding down loses less than one divisor.
LEMMA FloorLoss ==
  ASSUME NEW a \in Nat, NEW d \in Nat \ {0}
  PROVE  a \div d \in Nat /\ d * (a \div d) <= a /\ a <= d * (a \div d) + (d - 1)
BY SMT

\* A positive factor may be cancelled.
LEMMA CancelFactor ==
  ASSUME NEW a \in Int, NEW b \in Int, NEW d \in Nat \ {0}
  PROVE  /\ d * a <= d * b => a <= b
         /\ d * a < d * b => a < b
<1>1. CASE a <= b
  <2>1. d * a <= d * b BY <1>1, SMT
  <2>2. a = b \/ a < b BY <1>1
  <2> QED BY <1>1, <2>1, <2>2
<1>2. CASE b + 1 <= a
  <2>1. d * (b + 1) <= d * a BY <1>2, SMT
  <2>2. d * (b + 1) = d * b + d BY SMT
  <2>3. d * a \in Int /\ d * b \in Int BY SMT
  <2> QED BY <2>1, <2>2, <2>3
<1> QED BY <1>1, <1>2

\* Shares rounded down from a pool, by weights that sum to d, take no more than
\* the pool and leave less than one unit a share.
LEMMA RoundedShares ==
  ASSUME NEW L, IsFiniteSet(L), NEW w \in [L -> Nat], NEW pool \in Nat,
         NEW d \in Nat \ {0}, d = SumOver(w)
  PROVE  LET m == [p \in L |-> (pool * w[p]) \div d]
         IN  /\ m \in [L -> Nat] /\ SumOver(m) \in Nat
             /\ SumOver(m) <= pool
             /\ pool < SumOver(m) + Cardinality(L)
<1> DEFINE m == [p \in L |-> (pool * w[p]) \div d]
           scaled == [p \in L |-> d * m[p]]
           exact == [p \in L |-> pool * w[p]]
           slack == [p \in L |-> d - 1]
           above == [p \in L |-> scaled[p] + slack[p]]
           sum == SumOver(m)
           card == Cardinality(L)
<1>1. ASSUME NEW p \in L
      PROVE  m[p] \in Nat /\ d * m[p] <= pool * w[p] /\ pool * w[p] <= d * m[p] + (d - 1)
             /\ pool * w[p] \in Nat /\ d * m[p] \in Nat
  <2>1. pool * w[p] \in Nat BY SMT
  <2>2. m[p] = (pool * w[p]) \div d OBVIOUS
  <2> HIDE DEF m
  <2>3. m[p] \in Nat /\ d * m[p] <= pool * w[p] /\ pool * w[p] <= d * m[p] + (d - 1)
    BY <2>1, <2>2, FloorLoss
  <2> QED BY <2>1, <2>3, SMT
<1>2. m \in [L -> Nat] BY <1>1
<1>3. d - 1 \in Nat OBVIOUS
<1> HIDE DEF m
<1>4. /\ scaled \in [L -> Nat] /\ exact \in [L -> Nat] /\ slack \in [L -> Nat]
      /\ above \in [L -> Nat]
      /\ \A p \in L : scaled[p] <= exact[p] /\ exact[p] <= above[p]
  BY <1>1, <1>3
<1>5. sum \in Nat /\ card \in Nat BY <1>2, SumOverType, FS_CardinalityType
<1>6. SumOver(scaled) = d * sum BY <1>2, SumOverScale
<1>7. SumOver(exact) = pool * d BY SumOverScale
<1>8. SumOver(slack) = (d - 1) * card BY <1>3, SumOverSame
<1>9. SumOver(above) = SumOver(scaled) + SumOver(slack)
  <2> HIDE DEF scaled, slack
  <2> QED BY <1>4, SumOverAdd
<1>10. SumOver(scaled) <= SumOver(exact) /\ SumOver(exact) <= SumOver(above)
  <2> HIDE DEF scaled, exact, above
  <2> QED BY <1>4, SumOverMonotone
<1> HIDE DEF scaled, exact, slack, above
<1>11. SumOver(m) <= pool
  <2>1. d * sum <= d * pool BY <1>6, <1>7, <1>10, SMT
  <2> HIDE DEF sum
  <2>2. sum <= pool BY <1>5, <2>1, CancelFactor
  <2> QED BY <2>2 DEF sum
<1>12. card > 0
  <2>1. CASE L = {}
    <3>1. w = [p \in L |-> 0] BY <2>1
    <3>2. d = 0 BY <3>1, SumOverZero
    <3> QED BY <3>2
  <2>2. CASE L # {} BY <1>5, <2>2, FS_EmptySet
  <2> QED BY <2>1, <2>2
<1>13. pool < SumOver(m) + Cardinality(L)
  <2>1. pool * d <= d * sum + (d - 1) * card BY <1>6, <1>7, <1>8, <1>9, <1>10
  <2> HIDE DEF sum, card
  <2>2. d * (sum + card) = d * sum + (d - 1) * card + card BY <1>5, SMT
  <2>3. d * pool = pool * d BY SMT
  <2>4. /\ pool * d \in Int /\ d * sum \in Int /\ (d - 1) * card \in Int
        /\ d * (sum + card) \in Int /\ d * pool \in Int
    BY <1>3, <1>5, SMT
  <2> DEFINE a == pool * d
             b == d * sum
             c == (d - 1) * card
             e == d * (sum + card)
             f == d * pool
  <2>5. a <= b + c /\ e = b + c + card /\ f = a BY <2>1, <2>2, <2>3
  <2>6. a \in Int /\ b \in Int /\ c \in Int /\ e \in Int /\ f \in Int BY <2>4
  <2> HIDE DEF a, b, c, e, f
  <2>7. f < e BY <1>5, <1>12, <2>5, <2>6
  <2>8. d * pool < d * (sum + card) BY <2>7 DEF e, f
  <2>9. pool < sum + card BY <1>5, <2>8, CancelFactor
  <2> QED BY <2>9 DEF sum, card
<1> QED BY <1>2, <1>5, <1>11, <1>13 DEF m

\* What a round that qf_distribute accepts pays out.
LEMMA RoundPays ==
  ASSUME QfTypeOK, NEW projects \in Rounds, ValidRound(projects)
  PROVE  LET match == Matching(projects)
         IN  /\ match \in [Orgs -> Nat] /\ SumOver(match) \in Nat
             /\ SumOver(match) <= matchingPool
             /\ matchingPool < SumOver(match) + Len(projects)
<1> DEFINE D == DOMAIN projects
           L == {projects[i] : i \in D}
           w == [p \in L |-> stats[p].weight]
           byPlace == [i \in D |-> stats[projects[i]].weight]
           d == WeightOf(projects)
           m == [p \in L |-> (matchingPool * w[p]) \div d]
           match == Matching(projects)
<1>1. projects \in Seq(Orgs) /\ D = 1 .. Len(projects) /\ Len(projects) \in Nat
  BY RoundsAssumption
<1>2. L \subseteq Orgs /\ IsFiniteSet(D) /\ Cardinality(D) = Len(projects)
  <2>1. L \subseteq Orgs BY <1>1
  <2>2. 1 \in Int /\ Len(projects) \in Int /\ (1 > Len(projects) => Len(projects) = 0)
        /\ Len(projects) - 1 + 1 = Len(projects)
    BY <1>1
  <2>3. IsFiniteSet(1 .. Len(projects)) /\ Cardinality(1 .. Len(projects)) = Len(projects)
    BY <2>2, FS_Interval
  <2> QED BY <1>1, <2>1, <2>3
<1>3. IsFiniteSet(L) BY <1>2, OrgsAssumption, FS_Subset
<1>4. \A p \in Orgs : stats[p].weight \in Nat BY DEF QfTypeOK, ProjectStats
<1>5. w \in [L -> Nat] /\ byPlace \in [D -> Nat] BY <1>2, <1>4
<1>6. projects \in Bijection(D, L)
  <2>1. projects \in [D -> L] BY <1>1
  <2>2. \A i, j \in D : projects[i] = projects[j] => i = j BY DEF ValidRound
  <2>3. \A p \in L : \E i \in D : projects[i] = p OBVIOUS
  <2> HIDE DEF D, L
  <2> QED BY <2>1, <2>2, <2>3 DEF Bijection, Injection, Surjection, IsInjective
<1>7. d = SumOver(byPlace) BY DEF WeightOf
<1>8. d \in Nat \ {0} /\ matchingPool \in Nat
  <2>1. d \in 1 .. MaxI128 BY DEF ValidRound
  <2> HIDE DEF d
  <2> QED BY <2>1, WidthAssumption DEF QfTypeOK
<1>9. \A i \in D : byPlace[i] = w[projects[i]] OBVIOUS
<1>10. match = [p \in Orgs |-> IF p \in L THEN m[p] ELSE 0]
  BY DEF Matching, Match
<1> HIDE DEF D, L, w, byPlace, d, match
<1>11. d = SumOver(w) BY <1>2, <1>5, <1>6, <1>7, <1>9, SumOverReindex
<1>12. Cardinality(L) = Len(projects) BY <1>2, <1>3, <1>6, FS_Bijection DEF ExistsBijection
<1>13. /\ m \in [L -> Nat] /\ SumOver(m) \in Nat /\ SumOver(m) <= matchingPool
       /\ matchingPool < SumOver(m) + Cardinality(L)
  BY <1>3, <1>5, <1>8, <1>11, RoundedShares
<1> HIDE DEF m
<1>14. match \in [Orgs -> Nat] BY <1>10, <1>13
<1>15. m = [p \in L |-> match[p]] /\ \A p \in Orgs \ L : match[p] = 0
  BY <1>2, <1>10, <1>13
<1>16. SumOver(m) = SumOver(match)
  <2>1. L \in SUBSET Orgs BY <1>2
  <2> QED BY <1>14, <1>15, <2>1, SumOverSupport
<1> QED BY <1>12, <1>13, <1>14, <1>16 DEF match

-----------------------------------------------------------------------------
(* The inductive invariant.                                                *)

\* The fields of the statistics of a project.
LEMMA StatsParts ==
  ASSUME QfTypeOK, NEW p \in Orgs
  PROVE  /\ stats[p] \in ProjectStats /\ stats[p].matched \in Nat /\ stats[p].weight \in Nat
         /\ contribution[p] \in [Users -> Nat]
BY DEF QfTypeOK, ProjectStats

\* The property, said project by project.
LEMMA StatsAreDescribed ==
  StatsMatchContributions <=> \A p \in Orgs : Describes(stats[p], contribution[p])
BY DEF StatsMatchContributions, Describes, Contributors

\* The first state.
LEMMA QfInitInv ==
  ASSUME Init, QfInit
  PROVE  QfIInv
<1>1. Sound /\ Balanced BY InitIInv, InitBalanced DEF IInv
<1>2. EmptyStats \in ProjectStats BY DEF EmptyStats, ProjectStats
<1>3. QfTypeOK BY <1>2 DEF QfInit, QfTypeOK
<1>4. StatsMatchContributions
  <2> SUFFICES ASSUME NEW p \in Orgs PROVE Describes(stats[p], contribution[p])
    BY StatsAreDescribed
  <2> DEFINE c == [u \in Users |-> 0]
  <2>1. stats[p] = EmptyStats /\ contribution[p] = c BY DEF QfInit
  <2>2. [u \in Users |-> Isqrt(c[u])] = [u \in Users |-> 0] BY IsqrtOfZero
  <2>3. SumOver(c) = 0 /\ SumOver([u \in Users |-> Isqrt(c[u])]) = 0 BY <2>2, SumOverZero
  <2>4. {u \in Users : c[u] > 0} = {} OBVIOUS
  <2> HIDE DEF c
  <2> QED BY <2>1, <2>3, <2>4, FS_EmptySet DEF Describes, EmptyStats
<1>5. MatchingConserved
  <2>1. MatchedTo(stats) = [p \in Orgs |-> 0] BY DEF QfInit, MatchedTo, EmptyStats
  <2> QED BY <2>1, SumOverZero DEF QfInit, MatchingConserved, MatchedTo
<1>6. WeightNeedsOrg BY DEF QfInit, WeightNeedsOrg, EmptyStats
<1> QED BY <1>1, <1>3, <1>4, <1>5, <1>6 DEF QfIInv, QfSound

\* Verifying humans, and every step that leaves quadratic funding alone.
LEMMA SameFunding ==
  ASSUME QfIInv, [Next]_vars, UNCHANGED <<matchingPool, contribution, stats, poolFunded>>,
         humans' \subseteq Users
  PROVE  QfIInv' /\ QfCovered
<1>1. Sound' /\ Covered /\ Balanced' BY StepPreserves, StepBalances DEF QfIInv, QfSound
<1>2. QfTypeOK' BY DEF QfIInv, QfSound, QfTypeOK
<1>3. StatsMatchContributions' /\ MatchingConserved'
  BY DEF QfIInv, StatsMatchContributions, Contributors, MatchingConserved
<1>4. matchingPool \in Nat /\ bal[Contract] \in Nat /\ bal'[Contract] \in Nat
  BY <1>1 DEF QfIInv, QfSound, Sound, OrgTypeOK, SacTypeOK, Holders, QfTypeOK
<1>5. Funds(budget, payout) \in Nat /\ Funds(budget', payout') \in Nat
  BY <1>1, FundsType DEF QfIInv, QfSound, Sound, OrgTypeOK
<1>6. QfCovered BY <1>1, <1>4, <1>5 DEF Covered, QfCovered
<1>7. WeightNeedsOrg'
  BY RegistrationStays DEF QfIInv, QfSound, WeightNeedsOrg, Registered
<1> QED BY <1>1, <1>2, <1>3, <1>6, <1>7 DEF QfIInv, QfSound

\* A deposit for matching brings the tokens it adds to the pool.
LEMMA PoolDepositPreserves ==
  ASSUME QfIInv, NEW from \in Users, NEW amount \in Requests,
         QfDepositMatchingPool(from, amount), UNCHANGED <<controlVars, lock, now>>
  PROVE  QfIInv' /\ QfCovered
<1>1. amount \in Nat /\ amount > 0 BY RequestsAssumption DEF QfDepositMatchingPool, ValidAmount
<1>2. from \in Holders /\ Contract \in Holders /\ from # Contract
  BY UsersAssumption DEF Holders
<1>3. /\ SacTransfer(from, Contract, amount)
      /\ matchingPool' = matchingPool + amount /\ poolFunded' = poolFunded + amount
      /\ UNCHANGED <<humans, contribution, stats, orgVars>>
  BY DEF QfDepositMatchingPool
<1>4. [Next]_vars
  <2>1. TokenTransfer(from, Contract, amount) BY <1>1, <1>2, <1>3 DEF TokenTransfer
  <2>2. TokenStep BY <1>2, <2>1 DEF TokenStep
  <2> QED BY <1>3, <2>2 DEF Next
<1>5. Sound' /\ Balanced' BY <1>4, StepPreserves, StepBalances DEF QfIInv, QfSound
<1>6. bal'[Contract] = bal[Contract] + amount /\ bal[Contract] \in Nat
  <2>1. SacTypeOK BY DEF QfIInv, QfSound, Sound, OrgTypeOK
  <2> QED BY <1>1, <1>2, <1>3, <2>1, TransferKeepsTypes DEF SacTypeOK
<1>7. QfTypeOK' BY <1>1, <1>3 DEF QfIInv, QfSound, QfTypeOK
<1>8. StatsMatchContributions'
  BY <1>3 DEF QfIInv, StatsMatchContributions, Contributors
<1>9. matchingPool \in Nat /\ poolFunded \in Nat /\ SumOver(MatchedTo(stats)) \in Nat
  <2>1. MatchedTo(stats) \in [Orgs -> Nat] BY StatsParts DEF MatchedTo, QfIInv, QfSound
  <2> QED BY <2>1, OrgsAssumption, SumOverType DEF QfIInv, QfSound, QfTypeOK
<1>10. MatchingConserved'
  <2>1. poolFunded = matchingPool + SumOver(MatchedTo(stats))
    BY DEF QfIInv, MatchingConserved, MatchedTo
  <2>2. poolFunded' = matchingPool' + SumOver(MatchedTo(stats')) BY <1>1, <1>3, <1>9, <2>1
  <2> QED BY <2>2 DEF MatchingConserved, MatchedTo
<1>11. QfCovered
  <2>1. UNCHANGED <<budget, payout>> BY <1>3 DEF orgVars
  <2>2. Funds(budget, payout) \in Nat BY FundsType DEF QfIInv, QfSound, Sound, OrgTypeOK
  <2> QED BY <1>1, <1>3, <1>6, <1>9, <2>1, <2>2 DEF QfCovered
<1>12. WeightNeedsOrg' BY <1>3 DEF QfIInv, WeightNeedsOrg, Registered, orgVars
<1> QED BY <1>5, <1>7, <1>8, <1>10, <1>11, <1>12 DEF QfIInv, QfSound

\* A contribution adds as much to the pool as to its project.
LEMMA ContributionPreserves ==
  ASSUME QfIInv, NEW p \in Orgs, NEW u \in Users, NEW amount \in Requests,
         QfContribute(p, u, amount), UNCHANGED <<controlVars, lock, now>>
  PROVE  QfIInv' /\ QfCovered
<1> DEFINE old == contribution[p][u]
           t == Contributed(stats[p], old, old + amount)
           c == [contribution[p] EXCEPT ![u] = old + amount]
<1>1. amount \in Nat \ {0} BY RequestsAssumption DEF QfContribute, ValidAmount
<1>2. /\ contribution' = [contribution EXCEPT ![p] = c]
      /\ stats' = [stats EXCEPT ![p] = t]
      /\ CreditOrg(p, amount) /\ SacTransfer(u, Contract, amount) /\ Registered(p)
      /\ UNCHANGED <<humans, matchingPool, poolFunded, orgAdmin, admins, metadata,
                     maintainerOrg, orgMaintainers, payout>>
  BY DEF QfContribute
<1>3. Sound' /\ Covered BY <1>1, <1>2, CreditPreserves DEF QfIInv, QfSound
<1>4. Balanced' BY <1>1, <1>2, <1>3, CreditBalances DEF QfIInv, QfSound
<1>5. t \in ProjectStats /\ t.matched = stats[p].matched /\ Describes(t, c)
  <2>1. stats[p] \in ProjectStats /\ contribution[p] \in [Users -> Nat]
        /\ Describes(stats[p], contribution[p])
    BY StatsParts, StatsAreDescribed DEF QfIInv, QfSound
  <2> QED BY <1>1, <2>1, ContributedDescribes
<1>6. c \in [Users -> Nat] BY <1>1, StatsParts DEF QfIInv, QfSound
<1>7. /\ contribution \in [Orgs -> [Users -> Nat]] /\ stats \in [Orgs -> ProjectStats]
      /\ matchingPool \in Nat
  BY DEF QfIInv, QfSound, QfTypeOK
<1> HIDE DEF t, c
<1>8. QfTypeOK' BY <1>2, <1>5, <1>6, <1>7 DEF QfIInv, QfSound, QfTypeOK
<1>9. StatsMatchContributions'
  <2>1. \A x \in Orgs : Describes(stats'[x], contribution'[x])
    <3>1. \A x \in Orgs : Describes(stats[x], contribution[x])
      BY StatsAreDescribed DEF QfIInv
    <3> QED BY <1>2, <1>5, <1>7, <3>1
  <2> QED BY <2>1 DEF StatsMatchContributions, Describes, Contributors
<1>10. MatchingConserved'
  <2>1. MatchedTo(stats') = MatchedTo(stats) BY <1>2, <1>5, <1>7 DEF MatchedTo
  <2> QED BY <1>2, <2>1 DEF QfIInv, MatchingConserved, MatchedTo
<1>11. QfCovered
  <2>1. bal[Contract] \in Nat /\ bal'[Contract] \in Nat
    BY <1>3 DEF QfIInv, QfSound, Sound, OrgTypeOK, SacTypeOK, Holders
  <2>2. Funds(budget, payout) \in Nat /\ Funds(budget', payout') \in Nat
    BY <1>3, FundsType DEF QfIInv, QfSound, Sound, OrgTypeOK
  <2> QED BY <1>2, <1>3, <1>7, <2>1, <2>2 DEF Covered, QfCovered
<1>12. WeightNeedsOrg'
  BY <1>2, <1>7 DEF QfIInv, WeightNeedsOrg, Registered
<1> QED BY <1>3, <1>4, <1>8, <1>9, <1>10, <1>11, <1>12 DEF QfIInv, QfSound

\* A round passes over projects nobody registered.
LEMMA UnregisteredGetNothing ==
  ASSUME QfIInv, NEW projects \in Rounds, ValidRound(projects), NEW p \in Orgs, ~Registered(p)
  PROVE  Matching(projects)[p] = 0
<1> DEFINE d == WeightOf(projects)
<1>1. d \in Nat \ {0} /\ matchingPool \in Nat
  <2>1. d \in 1 .. MaxI128 BY DEF ValidRound
  <2> HIDE DEF d
  <2> QED BY <2>1, WidthAssumption DEF QfIInv, QfSound, QfTypeOK
<1>2. stats[p].weight = 0 BY DEF QfIInv, WeightNeedsOrg
<1> HIDE DEF d
<1>3. (matchingPool * 0) \div d = 0 BY <1>1, SMT
<1> QED BY <1>2, <1>3 DEF Matching, Match, d

\* Distribution moves what it takes from the pool, and no more, to budgets.
LEMMA DistributionPreserves ==
  ASSUME QfIInv, NEW u \in Users, NEW projects \in Rounds,
         QfDistribute(u, projects), UNCHANGED <<controlVars, lock, now>>
  PROVE  QfIInv' /\ QfCovered
<1> DEFINE match == Matching(projects)
<1>1. match \in [Orgs -> Nat] /\ SumOver(match) \in Nat /\ SumOver(match) <= matchingPool
  BY RoundPays DEF QfDistribute, QfIInv, QfSound
<1>2. /\ stats' = [p \in Orgs |-> [stats[p] EXCEPT !.matched = stats[p].matched + match[p]]]
      /\ budget' = [p \in Orgs |-> budget[p] + match[p]]
      /\ funded' = [p \in Orgs |-> funded[p] + match[p]]
      /\ matchingPool' = matchingPool - SumOver(match)
      /\ UNCHANGED <<humans, contribution, poolFunded, bal, orgAdmin, admins, metadata,
                     maintainerOrg, orgMaintainers, payout>>
  BY DEF QfDistribute, PoolLeft
<1> HIDE DEF match
<1>3. /\ budget \in [Orgs -> Nat] /\ funded \in [Orgs -> Nat] /\ matchingPool \in Nat
      /\ bal[Contract] \in Nat /\ IsFiniteSet(Orgs)
      /\ MatchedTo(stats) \in [Orgs -> Nat] /\ SumOver(MatchedTo(stats)) \in Nat
  <2>1. MatchedTo(stats) \in [Orgs -> Nat] BY StatsParts DEF MatchedTo, QfIInv, QfSound
  <2> QED BY <2>1, OrgsAssumption, SumOverType
      DEF QfIInv, QfSound, Sound, OrgTypeOK, QfTypeOK, SacTypeOK, Holders
<1>4. budget' \in [Orgs -> Nat] /\ funded' \in [Orgs -> Nat] /\ matchingPool' \in Nat
  BY <1>1, <1>2, <1>3
<1>5. SumOver(budget') = SumOver(budget) + SumOver(match) BY <1>1, <1>2, <1>3, SumOverAdd
<1>6. Sound'
  <2>1. OrgTypeOK'
    BY <1>2, <1>4 DEF QfIInv, QfSound, Sound, OrgTypeOK, SacTypeOK, ControlTypeOK, controlVars
  <2> QED BY <1>2, <2>1 DEF QfIInv, QfSound, Sound, AmountAccounting
<1>7. ASSUME NEW p \in Orgs
      PROVE  /\ stats'[p] \in ProjectStats
             /\ stats'[p].matched = stats[p].matched + match[p]
             /\ stats'[p].weight = stats[p].weight
             /\ Describes(stats[p], contribution[p]) => Describes(stats'[p], contribution[p])
  <2> DEFINE s == stats[p]
             v == stats[p].matched + match[p]
  <2>1. s \in ProjectStats /\ v \in Nat BY <1>1, StatsParts DEF QfIInv, QfSound
  <2>2. stats'[p] = [s EXCEPT !.matched = v] BY <1>2
  <2> HIDE DEF s, v
  <2>3. stats'[p] \in ProjectStats /\ stats'[p].matched = v
        /\ stats'[p].direct = s.direct /\ stats'[p].sqrtSum = s.sqrtSum
        /\ stats'[p].weight = s.weight /\ stats'[p].count = s.count
    BY <2>1, <2>2 DEF ProjectStats
  <2> QED BY <2>3 DEF Describes, s, v
<1>8. stats' \in [Orgs -> ProjectStats] BY <1>2, <1>7
<1>9. QfTypeOK' BY <1>2, <1>4, <1>8 DEF QfIInv, QfSound, QfTypeOK
<1>10. StatsMatchContributions'
  <2>1. \A p \in Orgs : Describes(stats'[p], contribution'[p])
    BY <1>2, <1>7, StatsAreDescribed DEF QfIInv
  <2> QED BY <2>1 DEF StatsMatchContributions, Describes, Contributors
<1>11. MatchingConserved'
  <2>1. MatchedTo(stats') = [p \in Orgs |-> MatchedTo(stats)[p] + match[p]]
    BY <1>7 DEF MatchedTo
  <2>2. SumOver(MatchedTo(stats')) = SumOver(MatchedTo(stats)) + SumOver(match)
    BY <1>1, <1>3, <2>1, SumOverAdd
  <2>3. poolFunded = matchingPool + SumOver(MatchedTo(stats))
    BY DEF QfIInv, MatchingConserved, MatchedTo
  <2>4. poolFunded' = matchingPool' + SumOver(MatchedTo(stats'))
    BY <1>1, <1>2, <1>3, <2>2, <2>3
  <2> QED BY <2>4 DEF MatchingConserved, MatchedTo
<1>12. Balanced'
  <2>1. ASSUME NEW p \in Orgs
        PROVE  funded'[p] - budget'[p] = funded[p] - budget[p]
    BY <1>1, <1>2, <1>3
  <2>2. ASSUME NEW p \in Orgs, orgAdmin'[p] = Nobody
        PROVE  orgAdmin[p] = Nobody /\ budget'[p] = budget[p]
    <3>1. ~Registered(p) BY <1>2, <2>2 DEF Registered
    <3>2. match[p] = 0 BY <3>1, UnregisteredGetNothing DEF match, QfDistribute
    <3> QED BY <1>1, <1>2, <1>3, <2>2, <3>2
  <2> QED BY <1>2, <1>6, <2>1, <2>2, SamePromises DEF QfIInv, QfSound
<1>13. QfCovered
  <2>1. SumOver(budget) \in Nat /\ SumOver(Dues(payout)) \in Nat BY SoundSums DEF QfIInv, QfSound
  <2> QED BY <1>1, <1>2, <1>3, <1>5, <2>1 DEF QfCovered, Funds
<1>14. WeightNeedsOrg' BY <1>2, <1>7 DEF QfIInv, WeightNeedsOrg, Registered
<1> QED BY <1>6, <1>9, <1>10, <1>11, <1>12, <1>13, <1>14 DEF QfIInv, QfSound

\* Every step of quadratic funding.
LEMMA QfStepPreserves ==
  ASSUME QfIInv, [QfNext]_qfAllVars
  PROVE  QfIInv' /\ QfCovered
<1>1. CASE [Next]_vars /\ UNCHANGED qfVars
  <2>1. humans' \subseteq Users BY <1>1 DEF qfVars, QfIInv, QfSound, QfTypeOK
  <2> QED BY <1>1, <2>1, SameFunding DEF qfVars
<1>2. CASE QfStep /\ UNCHANGED <<controlVars, lock, now>>
  <2>1. PICK u \in Users :
          \/ \E h \in Users : VerifyHumanity(u, h) \/ RevokeHumanity(u, h)
          \/ \E amount \in Requests : QfDepositMatchingPool(u, amount)
          \/ \E amount \in Requests, p \in Orgs : QfContribute(p, u, amount)
          \/ \E projects \in Rounds : QfDistribute(u, projects)
    BY <1>2 DEF QfStep
  <2>2. ASSUME NEW h \in Users, VerifyHumanity(u, h) \/ RevokeHumanity(u, h)
        PROVE  QfIInv' /\ QfCovered
    <3>1. humans' \subseteq Users
      BY <2>2 DEF VerifyHumanity, RevokeHumanity, QfIInv, QfSound, QfTypeOK
    <3>2. UNCHANGED <<vars, matchingPool, contribution, stats, poolFunded>>
      BY <1>2, <2>2 DEF VerifyHumanity, RevokeHumanity, vars
    <3> QED BY <3>1, <3>2, SameFunding
  <2> QED BY <1>2, <2>1, <2>2, PoolDepositPreserves, ContributionPreserves,
             DistributionPreserves
<1> QED BY <1>1, <1>2 DEF QfNext, qfAllVars

\* The invariant holds throughout.
LEMMA QfInductive == QfSpec => []QfIInv
<1>1. Init /\ QfInit => QfIInv BY QfInitInv
<1>2. QfIInv /\ [QfNext]_qfAllVars => QfIInv' BY QfStepPreserves
<1> QED BY <1>1, <1>2, PTL DEF QfSpec

\* The statistics of a project are those of all its contributions, in however many
\* payments they came and whoever was verified or revoked in between.
THEOREM StatsAreExact == QfSpec => []StatsMatchContributions
<1>1. QfIInv => StatsMatchContributions BY DEF QfIInv
<1> QED BY <1>1, QfInductive, PTL

\* No rounding of any round creates or loses a stroop of the matching pool.
THEOREM PoolIsConserved == QfSpec => []MatchingConserved
<1>1. QfIInv => MatchingConserved BY DEF QfIInv
<1> QED BY <1>1, QfInductive, PTL

\* A round leaves less dust than it lists projects, whatever their weights.
THEOREM RoundsLeaveDust == QfSpec => DustIsBounded
<1>1. QfIInv /\ [QfNext]_qfAllVars =>
        [\A u \in Users, projects \in Rounds :
           QfDistribute(u, projects) => matchingPool' < Len(projects)]_qfAllVars
  <2> SUFFICES ASSUME QfIInv, NEW projects \in Rounds, NEW u \in Users,
                      QfDistribute(u, projects)
               PROVE  matchingPool' < Len(projects)
    OBVIOUS
  <2> DEFINE match == Matching(projects)
  <2>1. SumOver(match) \in Nat /\ matchingPool < SumOver(match) + Len(projects)
    BY RoundPays DEF QfDistribute, QfIInv, QfSound
  <2>2. matchingPool' = matchingPool - SumOver(match) BY DEF QfDistribute, PoolLeft
  <2>3. matchingPool \in Nat BY DEF QfIInv, QfSound, QfTypeOK
  <2>4. Len(projects) \in Nat BY RoundsAssumption
  <2> HIDE DEF match
  <2> QED BY <2>1, <2>2, <2>3, <2>4
<1> QED BY <1>1, QfInductive, PTL DEF QfSpec, DustIsBounded

\* Matching and contributions credit organizations as funding does: every stroop
\* of theirs is still budget or was promised to their own maintainers.
THEOREM FundingIsAccounted == QfSpec => []OrgConservation
<1>1. QfIInv => OrgConservation BY DEF QfIInv, Balanced
<1> QED BY <1>1, QfInductive, PTL

-----------------------------------------------------------------------------
(* Signed calls.                                                           *)

NonceTypeOK ==
  /\ nonce \in [Users -> Nat]
  /\ signed \subseteq SignedCalls
  /\ executed \in Seq(SignedCalls)

NonceInv == NonceTypeOK /\ CallsTakeEffectInOrder

\* Whose call it is and, if it credits an organization, which one and how much.
LEMMA CallParts ==
  ASSUME NEW call \in SignedCalls
  PROVE  /\ call.who \in Users /\ call.nonce \in Nat
         /\ call.kind \in {"fund_org", "qf_contribute"} =>
              call.org \in Orgs /\ call.amount \in Requests
<1>1. call.who \in Users /\ call.nonce \in Nonces BY DEF SignedCalls
<1>2. call.kind \in {"fund_org", "qf_contribute"} => call.org \in Orgs /\ call.amount \in Requests
  BY DEF SignedCalls
<1>3. Nonces \subseteq Nat BY MaxNonceAssumption DEF Nonces
<1> QED BY <1>1, <1>2, <1>3

\* A submitted call does what the entry point without a nonce does.
LEMMA SubmitIsAStep ==
  ASSUME NEW call \in SignedCalls, Submit(call)
  PROVE  QfNext
<1>1. /\ call.who \in Users
      /\ call.kind \in {"fund_org", "qf_contribute"} =>
           call.org \in Orgs /\ call.amount \in Requests
  BY CallParts
<1>2. UNCHANGED <<controlVars, lock, now>> BY DEF Submit
<1>3. CASE FundOrgWithNonce(call)
  <2>1. call.org \in Orgs /\ call.amount \in Requests /\ UNCHANGED qfVars
        /\ FundOrg(call.org, call.who, call.amount)
    BY <1>1, <1>3 DEF FundOrgWithNonce
  <2>2. MoneyStep BY <1>1, <2>1 DEF MoneyStep
  <2> QED BY <1>2, <2>1, <2>2 DEF QfNext, Next
<1>4. CASE ClaimPayoutWithNonce(call)
  <2>1. ClaimPayout(call.who) /\ UNCHANGED qfVars BY <1>4 DEF ClaimPayoutWithNonce
  <2>2. MoneyStep BY <1>1, <2>1 DEF MoneyStep
  <2> QED BY <1>2, <2>1, <2>2 DEF QfNext, Next
<1>5. CASE QfContributeWithNonce(call)
  <2>1. call.org \in Orgs /\ call.amount \in Requests
        /\ QfContribute(call.org, call.who, call.amount)
    BY <1>1, <1>5 DEF QfContributeWithNonce
  <2>2. QfStep BY <1>1, <2>1 DEF QfStep
  <2> QED BY <1>2, <2>2 DEF QfNext
<1> QED BY <1>3, <1>4, <1>5 DEF Submit

\* A call that takes effect consumes the nonce it was signed with.
LEMMA SubmitConsumes ==
  ASSUME NEW call \in SignedCalls, Submit(call)
  PROVE  /\ nonce[call.who] = call.nonce
         /\ nonce' = [nonce EXCEPT ![call.who] = call.nonce + 1]
         /\ executed' = Append(executed, call)
         /\ UNCHANGED signed
<1>1. VerifyAndConsumeNonce(call)
  BY DEF Submit, FundOrgWithNonce, ClaimPayoutWithNonce, QfContributeWithNonce
<1> QED BY <1>1 DEF Submit, VerifyAndConsumeNonce

\* Appending a call leaves everyone's earlier calls where they were.
LEMMA OneMoreCall ==
  ASSUME NonceTypeOK, NEW call \in SignedCalls, executed' = Append(executed, call)
  PROVE  LET last == Len(executed) + 1
         IN  /\ executed'[last] = call
             /\ \A i \in DOMAIN executed : i < last /\ i \in Nat /\ executed'[i] = executed[i]
             /\ CallsOf(call.who)' = CallsOf(call.who) \union {last}
             /\ \A u \in Users \ {call.who} : CallsOf(u)' = CallsOf(u)
<1> DEFINE last == Len(executed) + 1
<1>1. /\ executed'[last] = call /\ DOMAIN executed' = DOMAIN executed \union {last}
      /\ \A i \in DOMAIN executed : i < last /\ i \in Nat /\ executed'[i] = executed[i]
  BY DEF NonceTypeOK
<1> HIDE DEF last
<1>2. CallsOf(call.who)' = CallsOf(call.who) \union {last} BY <1>1 DEF CallsOf
<1>3. \A u \in Users \ {call.who} : CallsOf(u)' = CallsOf(u) BY <1>1 DEF CallsOf
<1> QED BY <1>1, <1>2, <1>3 DEF last

\* Submitting a call appends it with the next nonce.
LEMMA SubmitKeepsOrder ==
  ASSUME NonceInv, NEW call \in SignedCalls, Submit(call)
  PROVE  NonceInv'
<1> DEFINE last == Len(executed) + 1
           who == call.who
           Rank(S, i) == Cardinality({j \in S : j < i})
<1>1. /\ nonce[who] = call.nonce /\ nonce' = [nonce EXCEPT ![who] = call.nonce + 1]
      /\ executed' = Append(executed, call) /\ UNCHANGED signed
  BY SubmitConsumes
<1>2. who \in Users /\ call.nonce \in Nat BY CallParts
<1>3. NonceTypeOK' BY <1>1, <1>2 DEF NonceInv, NonceTypeOK
<1>4. nonce \in [Users -> Nat] BY DEF NonceInv, NonceTypeOK
<1>5. /\ executed'[last] = call
      /\ \A i \in DOMAIN executed : i < last /\ i \in Nat /\ executed'[i] = executed[i]
      /\ CallsOf(who)' = CallsOf(who) \union {last}
      /\ \A u \in Users \ {who} : CallsOf(u)' = CallsOf(u)
  BY <1>1, OneMoreCall DEF NonceInv
<1>6. \A u : CallsOf(u) \subseteq DOMAIN executed /\ IsFiniteSet(CallsOf(u))
  <2>1. IsFiniteSet(DOMAIN executed)
    <3>1. DOMAIN executed = 1 .. Len(executed) /\ 1 \in Int /\ Len(executed) \in Int
      BY DEF NonceInv, NonceTypeOK
    <3> QED BY <3>1, FS_Interval
  <2>2. \A u : CallsOf(u) \subseteq DOMAIN executed BY DEF CallsOf
  <2> QED BY <2>1, <2>2, FS_Subset
<1>7. last \in Nat BY DEF NonceInv, NonceTypeOK
<1>8. ASSUME NEW u \in Users
      PROVE  /\ nonce[u] = Cardinality(CallsOf(u))
             /\ \A i \in CallsOf(u) : executed[i].nonce = Rank(CallsOf(u), i)
  BY DEF NonceInv, CallsTakeEffectInOrder
<1> HIDE DEF last, who
<1>9. ASSUME NEW u \in Users \ {who}
      PROVE  /\ nonce'[u] = Cardinality(CallsOf(u)')
             /\ \A i \in CallsOf(u)' : executed'[i].nonce = Rank(CallsOf(u)', i)
  <2>1. nonce'[u] = nonce[u] /\ CallsOf(u)' = CallsOf(u) BY <1>1, <1>4, <1>5
  <2>2. \A i \in CallsOf(u) : executed'[i] = executed[i] BY <1>5, <1>6
  <2> HIDE DEF Rank
  <2> QED BY <1>8, <2>1, <2>2
<1>10. /\ nonce'[who] = Cardinality(CallsOf(who)')
       /\ \A i \in CallsOf(who)' : executed'[i].nonce = Rank(CallsOf(who)', i)
  <2> DEFINE S == CallsOf(who)
             T == S \union {last}
  <2>1. IsFiniteSet(S) /\ last \notin S /\ \A i \in S : i < last /\ i \in Nat
    BY <1>5, <1>6
  <2>2. CallsOf(who)' = T BY <1>5
  <2>3. nonce[who] = Cardinality(S) BY <1>2, <1>8
  <2>4. nonce'[who] = Cardinality(S) + 1 BY <1>1, <1>2, <1>4, <2>3
  <2> HIDE DEF S
  <2>5. Cardinality(T) = Cardinality(S) + 1 BY <2>1, FS_AddElement
  <2>6. {j \in T : j < last} = S BY <1>7, <2>1
  <2>7. ASSUME NEW i \in S PROVE {j \in T : j < i} = {j \in S : j < i} BY <1>7, <2>1
  <2>8. executed'[last].nonce = Rank(T, last) BY <1>1, <1>5, <2>3, <2>6
  <2>9. ASSUME NEW i \in S PROVE executed'[i].nonce = Rank(T, i)
    <3>1. executed'[i] = executed[i] BY <1>5, <1>6 DEF S
    <3>2. executed[i].nonce = Rank(S, i) BY <1>2, <1>8 DEF S
    <3> QED BY <2>7, <3>1, <3>2
  <2> HIDE DEF Rank
  <2>10. \A i \in T : executed'[i].nonce = Rank(T, i) BY <2>8, <2>9
  <2> HIDE DEF T
  <2> QED BY <2>2, <2>4, <2>5, <2>10 DEF T
<1>11. CallsTakeEffectInOrder'
  <2>1. \A u \in Users :
          /\ nonce'[u] = Cardinality(CallsOf(u)')
          /\ \A i \in CallsOf(u)' : executed'[i].nonce = Rank(CallsOf(u)', i)
    <3> HIDE DEF Rank
    <3> QED BY <1>9, <1>10
  <2> QED BY <2>1 DEF CallsTakeEffectInOrder
<1> QED BY <1>3, <1>11 DEF NonceInv

\* The invariant of the nonces holds throughout.
LEMMA NonceInductive == NonceSpec => []NonceInv
<1>1. NonceInit => NonceInv
  <2> SUFFICES ASSUME NonceInit PROVE NonceInv
    OBVIOUS
  <2>1. \A u : CallsOf(u) = {} BY DEF NonceInit, CallsOf
  <2>2. CallsTakeEffectInOrder
    BY <2>1, FS_EmptySet DEF NonceInit, CallsTakeEffectInOrder
  <2> QED BY <2>2 DEF NonceInit, NonceInv, NonceTypeOK
<1>2. NonceInv /\ [NonceNext]_nonceAllVars => NonceInv'
  <2> SUFFICES ASSUME NonceInv, [NonceNext]_nonceAllVars PROVE NonceInv'
    OBVIOUS
  <2>1. CASE UNCHANGED nonceVars
    BY ZenonT(60), <2>1 DEF NonceInv, NonceTypeOK, CallsTakeEffectInOrder, CallsOf, nonceVars
  <2>2. ASSUME NEW call \in SignedCalls, Sign(call) PROVE NonceInv'
    <3>1. UNCHANGED <<nonce, executed>> /\ signed' = signed \union {call} BY <2>2 DEF Sign
    <3>2. NonceTypeOK' BY <3>1 DEF NonceInv, NonceTypeOK
    <3>3. CallsTakeEffectInOrder' BY <3>1 DEF NonceInv, CallsTakeEffectInOrder, CallsOf
    <3> QED BY <3>2, <3>3 DEF NonceInv
  <2>3. ASSUME NEW call \in signed, Submit(call) PROVE NonceInv'
    BY <2>3, SubmitKeepsOrder DEF NonceInv, NonceTypeOK
  <2> QED BY <2>1, <2>2, <2>3 DEF NonceNext, nonceAllVars
<1> QED BY <1>1, <1>2, PTL DEF NonceSpec

\* However signed calls are delayed, reordered, repeated or signed twice with one
\* nonce, each caller's calls take effect once each in the order of their nonces.
THEOREM CallsKeepTheirOrder == NonceSpec => []CallsTakeEffectInOrder
<1>1. NonceInv => CallsTakeEffectInOrder BY DEF NonceInv
<1> QED BY <1>1, NonceInductive, PTL

\* Signing and submitting add no behaviour to the registry: the contract with
\* nonces implements the one without, so what is proved of QfSpec is true of it.
THEOREM SignedCallsRefine == NonceSpec => QfSpec
<1>1. NonceInv /\ [NonceNext]_nonceAllVars => [QfNext]_qfAllVars
  <2> SUFFICES ASSUME NonceInv, [NonceNext]_nonceAllVars PROVE [QfNext]_qfAllVars
    OBVIOUS
  <2>1. ASSUME NEW call \in signed, Submit(call) PROVE QfNext
    BY <2>1, SubmitIsAStep DEF NonceInv, NonceTypeOK
  <2>2. ASSUME NEW call \in SignedCalls, Sign(call) PROVE UNCHANGED qfAllVars
    BY <2>2 DEF Sign
  <2> QED BY <2>1, <2>2 DEF NonceNext, nonceAllVars
<1> QED BY <1>1, NonceInductive, PTL DEF NonceSpec, QfSpec
=============================================================================
