-------------------------- MODULE QuadraticFunding --------------------------
(***************************************************************************)
(* Quadratic funding on top of the organizations: proof of humanity, the   *)
(* matching pool, contributions with their incrementally kept statistics,  *)
(* and the distribution of the pool by quadratic weight.                   *)
(***************************************************************************)
EXTENDS OrgPayouts

CONSTANTS Rounds,      \* lists of projects the admin asks to distribute to
          MaxRound,    \* 100
          MaxI128      \* i128::MAX, where checked arithmetic panics

ASSUME RoundsAssumption == Rounds \subseteq Seq(Orgs)
ASSUME WidthAssumption == MaxRound \in Nat /\ MaxI128 \in Nat

VARIABLES humans,        \* addresses with a DataKey::HumanityVerification
          matchingPool,  \* DataKey::QfMatchingPool
          contribution,  \* DataKey::QfContribution
          stats,         \* DataKey::QfProjectStats
          poolFunded     \* history: all that was ever deposited for matching

qfVars == <<humans, matchingPool, contribution, stats, poolFunded>>

EmptyStats == [direct |-> 0, matched |-> 0, sqrtSum |-> 0, count |-> 0, weight |-> 0]

ProjectStats == [direct : Nat, matched : Nat, sqrtSum : Nat, count : Nat, weight : Nat]

QfTypeOK ==
  /\ humans \subseteq Users
  /\ matchingPool \in Nat
  /\ contribution \in [Orgs -> [Users -> Nat]]
  /\ stats \in [Orgs -> ProjectStats]
  /\ poolFunded \in Nat

QfInit ==
  /\ humans = {}
  /\ matchingPool = 0
  /\ contribution = [p \in Orgs |-> [u \in Users |-> 0]]
  /\ stats = [p \in Orgs |-> EmptyStats]
  /\ poolFunded = 0

\* checked_isqrt_i128: module IntegerSqrt shows that its loop computes this.
Isqrt(n) == CHOOSE r \in 0 .. n : r * r <= n /\ n < (r + 1) * (r + 1)

-----------------------------------------------------------------------------
(* Humanity proofs are the protocol admin's, whether paused or not.        *)

VerifyHumanity(caller, human) ==
  /\ LockFree
  /\ AuthorisedBy(caller)
  /\ humans' = humans \union {human}
  /\ UNCHANGED <<matchingPool, contribution, stats, poolFunded, orgVars, bal>>

RevokeHumanity(caller, human) ==
  /\ LockFree
  /\ AuthorisedBy(caller)
  /\ humans' = humans \ {human}
  /\ UNCHANGED <<matchingPool, contribution, stats, poolFunded, orgVars, bal>>

QfDepositMatchingPool(from, amount) ==
  /\ LockFree
  /\ AssertActive
  /\ ValidAmount(amount)
  /\ matchingPool' = matchingPool + amount
  /\ poolFunded' = poolFunded + amount
  /\ SacTransfer(from, Contract, amount)
  /\ UNCHANGED <<humans, contribution, stats, orgVars>>

\* A slip this must not make: rooting the payment instead of the total.
ContributedPerPayment(s, old, new) ==
  LET root == s.sqrtSum + Isqrt(new - old)
  IN  [s EXCEPT !.direct = @ + (new - old), !.sqrtSum = root,
                !.count = IF old = 0 THEN @ + 1 ELSE @, !.weight = root * root]

\* The statistics after a contributor's total for a project goes from old to new.
Contributed(s, old, new) ==
  LET root == s.sqrtSum + (Isqrt(new) - Isqrt(old))
  IN  [s EXCEPT !.direct = @ + (new - old), !.sqrtSum = root,
                !.count = IF old = 0 THEN @ + 1 ELSE @, !.weight = root * root]

QfContribute(project, contributor, amount) ==
  LET old == contribution[project][contributor]
      new == old + amount
  IN  /\ LockFree
      /\ AssertActive
      /\ ValidAmount(amount)
      /\ contributor \in humans
      /\ Registered(project)
      /\ contribution' = [contribution EXCEPT ![project][contributor] = new]
      /\ stats' = [stats EXCEPT ![project] = Contributed(@, old, new)]
      /\ stats'[project].weight <= MaxI128
      /\ CreditOrg(project, amount)
      /\ SacTransfer(contributor, Contract, amount)
      /\ UNCHANGED <<humans, matchingPool, poolFunded, orgAdmin, admins, metadata,
                     maintainerOrg, orgMaintainers, payout>>

-----------------------------------------------------------------------------
(* Distribution.                                                           *)

WeightOf(projects) == SumOver([i \in DOMAIN projects |-> stats[projects[i]].weight])

\* qf_preview_distribution refuses these rounds; a product beyond i128 panics.
ValidRound(projects) ==
  /\ projects # <<>>
  /\ Len(projects) <= MaxRound
  /\ \A i, j \in DOMAIN projects : projects[i] = projects[j] => i = j
  /\ matchingPool > 0
  /\ WeightOf(projects) \in 1 .. MaxI128
  /\ \A i \in DOMAIN projects : matchingPool * stats[projects[i]].weight <= MaxI128

\* A slip: dividing before multiplying.
MatchDividedFirst(weight, total) == (matchingPool \div total) * weight
\* safe_mul_div, rounded down.
Match(weight, total) == (matchingPool * weight) \div total

\* A slip: dropping the dust.
PoolLeftNothing(match) == 0
\* dust_remainder: what the floors leave stays in the pool for the next round.
PoolLeft(match) == matchingPool - SumOver(match)

\* What each organization gets: a share for the listed ones, nothing for the rest.
Matching(projects) ==
  [p \in Orgs |-> IF \E i \in DOMAIN projects : projects[i] = p
                  THEN Match(stats[p].weight, WeightOf(projects)) ELSE 0]

QfDistribute(caller, projects) ==
  LET match == Matching(projects)
  IN  /\ LockFree
      /\ AssertActive
      /\ AuthorisedBy(caller)
      /\ ValidRound(projects)
      /\ stats' = [p \in Orgs |-> [stats[p] EXCEPT !.matched = @ + match[p]]]
      /\ budget' = [p \in Orgs |-> budget[p] + match[p]]
      /\ funded' = [p \in Orgs |-> funded[p] + match[p]]
      /\ matchingPool' = PoolLeft(match)
      /\ UNCHANGED <<humans, contribution, poolFunded, bal, orgAdmin, admins, metadata,
                     maintainerOrg, orgMaintainers, payout>>

QfStep ==
  \E u \in Users :
    \/ \E h \in Users : VerifyHumanity(u, h) \/ RevokeHumanity(u, h)
    \/ \E amount \in Requests : QfDepositMatchingPool(u, amount)
    \/ \E amount \in Requests, p \in Orgs : QfContribute(p, u, amount)
    \/ \E projects \in Rounds : QfDistribute(u, projects)

qfAllVars == <<vars, qfVars>>

QfNext ==
  \/ Next /\ UNCHANGED qfVars
  \/ QfStep /\ UNCHANGED <<controlVars, lock, now>>

QfSpec == Init /\ QfInit /\ [][QfNext]_qfAllVars

-----------------------------------------------------------------------------
(* Properties.                                                             *)

Contributors(p) == {u \in Users : contribution[p][u] > 0}

\* A project's statistics, kept one contribution at a time, are those of all its
\* contributions: giving in one payment or in several weighs the same.
StatsMatchContributions ==
  \A p \in Orgs :
    /\ stats[p].direct = SumOver(contribution[p])
    /\ stats[p].sqrtSum = SumOver([u \in Users |-> Isqrt(contribution[p][u])])
    /\ stats[p].weight = stats[p].sqrtSum * stats[p].sqrtSum
    /\ stats[p].count = Cardinality(Contributors(p))

\* Every stroop deposited for matching is in the pool or was matched to a
\* project: flooring loses nothing and gives away nothing.
MatchingConserved ==
  poolFunded = matchingPool + SumOver([p \in Orgs |-> stats[p].matched])

\* A round leaves fewer stroops in the pool than the projects it lists: "at most
\* N-1 dust stroops" (qf_distribute).
DustIsBounded ==
  [][\A u \in Users, projects \in Rounds :
       QfDistribute(u, projects) => matchingPool' < Len(projects)]_qfAllVars
=============================================================================
