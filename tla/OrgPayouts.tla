----------------------------- MODULE OrgPayouts -----------------------------
(***************************************************************************)
(* The core of PayoutRegistry: organizations and their admins, maintainer  *)
(* enrolment, funding, allocation under a vesting schedule, batch          *)
(* allocation and claiming.                                                *)
(***************************************************************************)
EXTENDS ProtocolControl

CONSTANTS Orgs,          \* organization ids
          NoOrg,
          Cids, NoCid,   \* metadata content ids
          Schedules,     \* vesting schedules admins ask for, legal or not
          Batches,       \* batches admins ask for, legal or not
          MaxAdmins,     \* 10
          MaxBatch,      \* 100
          MaxTranches    \* bound: tranches one maintainer accumulates

Tranche == [unlock : Timestamps, amount : Int]
PayoutParams == [maintainer : Users, amount : Int]

ASSUME OrgsAssumption == IsFiniteSet(Orgs) /\ NoOrg \notin Orgs
ASSUME CidsAssumption == NoCid \notin Cids
ASSUME SchedulesAssumption == Schedules \subseteq Seq(Tranche)
ASSUME BatchesAssumption == Batches \subseteq Seq(PayoutParams)
ASSUME LimitsAssumption ==
  MaxAdmins \in Nat \ {0} /\ MaxBatch \in Nat /\ MaxTranches \in Nat

VARIABLES orgAdmin,        \* DataKey::OrgAdmin: the registrant
          admins,          \* Organization.admins
          metadata,        \* Organization.metadata_cid
          budget,          \* DataKey::OrgBudget
          maintainerOrg,   \* DataKey::MaintainerOrg
          orgMaintainers,  \* DataKey::OrgMaintainers
          payout,          \* DataKey::MaintainerBalance
          funded           \* history: all that was ever credited to the org

orgVars == <<orgAdmin, admins, metadata, budget, maintainerOrg, orgMaintainers,
             payout, funded>>

EmptyPayout == [amount |-> 0, claimed |-> 0, tranches |-> <<>>]

GoodTranche == [unlock : Timestamps, amount : Nat \ {0}]
MaintainerPayout == [amount : Nat, claimed : Nat, tranches : Seq(GoodTranche)]

OrgTypeOK ==
  /\ SacTypeOK
  /\ ControlTypeOK
  /\ orgAdmin \in [Orgs -> Users \union {Nobody}]
  /\ admins \in [Orgs -> SUBSET Users]
  /\ metadata \in [Orgs -> Cids \union {NoCid}]
  /\ budget \in [Orgs -> Nat]
  /\ maintainerOrg \in [Users -> Orgs \union {NoOrg}]
  /\ orgMaintainers \in [Orgs -> Seq(Users)]
  /\ payout \in [Users -> MaintainerPayout]
  /\ funded \in [Orgs -> Nat]

OrgVarsInit ==
  /\ orgAdmin = [o \in Orgs |-> Nobody]
  /\ admins = [o \in Orgs |-> {}]
  /\ metadata = [o \in Orgs |-> NoCid]
  /\ budget = [o \in Orgs |-> 0]
  /\ maintainerOrg = [u \in Users |-> NoOrg]
  /\ orgMaintainers = [o \in Orgs |-> <<>>]
  /\ payout = [u \in Users |-> EmptyPayout]
  /\ funded = [o \in Orgs |-> 0]

-----------------------------------------------------------------------------
(* Organizations and their people.  None of these looks at ProtocolState.  *)

Registered(o) == orgAdmin[o] # Nobody

\* A slip: forgetting that one address serves one organization.
EnrolledNever(m) == FALSE
Enrolled(m) == maintainerOrg[m] # NoOrg

\* A slip: taking any maintainer for a member of this organization.
MemberOfAny(m, o) == Enrolled(m)
MemberOf(m, o) == maintainerOrg[m] = o

LastAdmin(o) == Cardinality(admins[o]) <= 1

RegisterOrg(o, admin) ==
  /\ LockFree
  /\ ~Registered(o)
  /\ orgAdmin' = [orgAdmin EXCEPT ![o] = admin]
  /\ admins' = [admins EXCEPT ![o] = {admin}]
  /\ metadata' = [metadata EXCEPT ![o] = NoCid]
  /\ budget' = [budget EXCEPT ![o] = 0]
  /\ UNCHANGED <<maintainerOrg, orgMaintainers, payout, funded, bal>>

UpdateOrgMetadata(o, caller, cid) ==
  /\ LockFree
  /\ caller \in admins[o]
  /\ metadata' = [metadata EXCEPT ![o] = cid]
  /\ UNCHANGED <<orgAdmin, admins, budget, maintainerOrg, orgMaintainers, payout,
                 funded, bal>>

AddAdmin(o, caller, newAdmin) ==
  /\ LockFree
  /\ caller \in admins[o]
  /\ Cardinality(admins[o]) < MaxAdmins
  /\ newAdmin \notin admins[o]
  /\ admins' = [admins EXCEPT ![o] = @ \union {newAdmin}]
  /\ UNCHANGED <<orgAdmin, metadata, budget, maintainerOrg, orgMaintainers, payout,
                 funded, bal>>

\* The removed admin may be the caller.  OrgAdmin is left as it was, so the
\* registrant still enrols maintainers after leaving the admin list.
RemoveAdmin(o, caller, removed) ==
  /\ LockFree
  /\ caller \in admins[o]
  /\ ~LastAdmin(o)
  /\ removed \in admins[o]
  /\ admins' = [admins EXCEPT ![o] = @ \ {removed}]
  /\ UNCHANGED <<orgAdmin, metadata, budget, maintainerOrg, orgMaintainers, payout,
                 funded, bal>>

AddMaintainer(o, caller, m) ==
  /\ LockFree
  /\ Registered(o) /\ caller = orgAdmin[o]
  /\ ~Enrolled(m)
  /\ maintainerOrg' = [maintainerOrg EXCEPT ![m] = o]
  /\ payout' = [payout EXCEPT ![m] = EmptyPayout]
  /\ orgMaintainers' = [orgMaintainers EXCEPT ![o] = Append(@, m)]
  /\ UNCHANGED <<orgAdmin, admins, metadata, budget, funded, bal>>

-----------------------------------------------------------------------------
(* Money in, promises, money out.                                          *)

CreditOrg(o, amount) ==
  /\ budget' = [budget EXCEPT ![o] = @ + amount]
  /\ funded' = [funded EXCEPT ![o] = @ + amount]

FundOrg(o, from, amount) ==
  /\ LockFree
  /\ AssertActive
  /\ ValidAmount(amount)
  /\ Registered(o)
  /\ CreditOrg(o, amount)
  /\ SacTransfer(from, Contract, amount)
  /\ UNCHANGED <<orgAdmin, admins, metadata, maintainerOrg, orgMaintainers, payout>>

\* Slips: not writing the budget back; not checking that it suffices.
DeductNothing(o, amount) ==
  /\ amount <= budget[o]
  /\ UNCHANGED budget

DeductUnchecked(o, amount) ==
  budget' = [budget EXCEPT ![o] = @ - amount]

DeductOrgBudget(o, amount) ==
  /\ amount <= budget[o]
  /\ budget' = [budget EXCEPT ![o] = @ - amount]

NonDecreasing(ts) ==
  \A i, j \in DOMAIN ts : i < j => ts[i].unlock <= ts[j].unlock

\* A slip: appending the tranches without adding to the amount.
AddTranchesOnly(p, ts) ==
  [amount |-> p.amount, claimed |-> p.claimed, tranches |-> p.tranches \o ts]

AddTranches(p, ts) ==
  [amount |-> p.amount + Total(ts), claimed |-> p.claimed, tranches |-> p.tranches \o ts]

AllocatePayoutVesting(o, caller, m, ts) ==
  /\ LockFree
  /\ AssertActive
  /\ caller \in admins[o]
  /\ ts # <<>>
  /\ \A i \in DOMAIN ts : ValidAmount(ts[i].amount)
  /\ NonDecreasing(ts)
  /\ Total(ts) <= MaxAmount
  /\ MemberOf(m, o)
  /\ DeductOrgBudget(o, Total(ts))
  /\ payout' = [payout EXCEPT ![m] = AddTranches(@, ts)]
  /\ Len(payout'[m].tranches) <= MaxTranches
  /\ UNCHANGED <<orgAdmin, admins, metadata, maintainerOrg, orgMaintainers, funded, bal>>

AllocatePayout(o, caller, m, amount, unlock) ==
  AllocatePayoutVesting(o, caller, m, <<[unlock |-> unlock, amount |-> amount]>>)

\* The tranches a batch appends to maintainer m's schedule: its k-th tranche is
\* the k-th entry that names m, unlocked from timestamp 0 on.
BatchTranches(batch, m) ==
  LET mine == {i \in DOMAIN batch : batch[i].maintainer = m}
      nth(k) == CHOOSE i \in mine : Cardinality({j \in mine : j <= i}) = k
  IN  [k \in 1 .. Cardinality(mine) |-> [unlock |-> 0, amount |-> batch[nth(k)].amount]]

BatchAllocate(o, caller, batch) ==
  /\ LockFree
  /\ caller \in admins[o]
  /\ Len(batch) <= MaxBatch
  /\ batch # <<>>
  /\ \A i \in DOMAIN batch : /\ ValidAmount(batch[i].amount)
                             /\ MemberOf(batch[i].maintainer, o)
  /\ DeductOrgBudget(o, Total(batch))
  /\ payout' = [m \in Users |-> AddTranches(payout[m], BatchTranches(batch, m))]
  /\ \A m \in Users : Len(payout'[m].tranches) <= MaxTranches
  /\ UNCHANGED <<orgAdmin, admins, metadata, maintainerOrg, orgMaintainers, funded, bal>>

\* The loop of vested_amount_binary, from every pair of bounds lo and hi it can have.
Bisection(ts, t) ==
  LET bisect[bounds \in (DOMAIN ts) \X (DOMAIN ts)] ==
        LET lo == bounds[1]
            hi == bounds[2]
            mid == lo + (hi - lo) \div 2
        IN  IF lo + 1 >= hi THEN lo
            ELSE IF ts[mid].unlock <= t THEN bisect[<<mid, hi>>]
            ELSE bisect[<<lo, mid>>]
  IN  bisect

\* The last of the leading tranches that vested_amount_binary counts at time t:
\* 0 when the first is locked, all when the last is unlocked, and otherwise the
\* tranche its bisection ends on, wherever that is in an unsorted schedule.
LastUnlocked(ts, t) ==
  LET n == Len(ts)
  IN  IF n = 0 THEN 0
      ELSE IF ts[1].unlock > t THEN 0
      ELSE IF ts[n].unlock <= t THEN n
      ELSE Bisection(ts, t)[<<1, n>>]

\* The amounts of the tranches up to the given one.
SumPrefix(ts, last) == SumOver([i \in {j \in DOMAIN ts : j <= last} |-> ts[i].amount])

\* Slips: an upper bound one too high, one too low.
VestedPastLast(ts, t) == SumPrefix(ts, LastUnlocked(ts, t) + 1)

VestedBeforeLast(ts, t) == SumPrefix(ts, LastUnlocked(ts, t) - 1)

VestedAmount(ts, t) == SumPrefix(ts, LastUnlocked(ts, t))

ClaimPayout(m) ==
  LET vested == VestedAmount(payout[m].tranches, now)
      due == vested - payout[m].claimed
  IN  /\ LockFree
      /\ AssertActive
      /\ payout[m].amount # 0
      /\ vested > payout[m].claimed
      /\ payout' = [payout EXCEPT ![m] =
                     [amount |-> @.amount - due, claimed |-> vested, tranches |-> @.tranches]]
      /\ SacTransfer(Contract, m, due)
      /\ UNCHANGED <<orgAdmin, admins, metadata, budget, maintainerOrg,
                     orgMaintainers, funded>>

-----------------------------------------------------------------------------
PeopleStep ==
  \E o \in Orgs, u \in Users :
    \/ RegisterOrg(o, u)
    \/ \E cid \in Cids : UpdateOrgMetadata(o, u, cid)
    \/ \E v \in Users : AddAdmin(o, u, v)
    \/ \E v \in Users : RemoveAdmin(o, u, v)
    \/ \E m \in Users : AddMaintainer(o, u, m)

MoneyStep ==
  \E u \in Users :
    \/ ClaimPayout(u)
    \/ \E o \in Orgs :
         \/ \E amount \in Requests : FundOrg(o, u, amount)
         \/ \E m \in Users, amount \in Requests, unlock \in Timestamps :
              AllocatePayout(o, u, m, amount, unlock)
         \/ \E m \in Users, ts \in Schedules : AllocatePayoutVesting(o, u, m, ts)
         \/ \E batch \in Batches : BatchAllocate(o, u, batch)

vars == <<bal, controlVars, lock, now, orgVars>>

Init == SacInit /\ ControlInit /\ OrgVarsInit

Next ==
  \/ ControlStep /\ UNCHANGED <<bal, now, orgVars>>
  \/ Tick /\ UNCHANGED <<bal, controlVars, lock, orgVars>>
  \/ TokenStep /\ UNCHANGED <<controlVars, lock, now, orgVars>>
  \/ PeopleStep /\ UNCHANGED <<controlVars, lock, now>>
  \/ MoneyStep /\ UNCHANGED <<controlVars, lock, now>>

Spec == Init /\ [][Next]_vars

-----------------------------------------------------------------------------
(* Properties.                                                             *)

AllocatedTo(o) ==
  SumOver([m \in {u \in Users : maintainerOrg[u] = o} |-> Total(payout[m].tranches)])

OrgLiabilities ==
  SumOver(budget) + SumOver([m \in Users |-> payout[m].amount])

\* What a scan of the whole schedule finds unlocked at time t.
UnlockedTotal(ts, t) ==
  LET unlocked == {i \in DOMAIN ts : ts[i].unlock <= t}
  IN  SumOver([i \in unlocked |-> ts[i].amount])

\* The two halves of a payout record never drift from the schedule they
\* summarise: allocate and batch_allocate add to amount, claim_payout moves from
\* amount to claimed_amount, and together they are what was ever allocated.
AmountAccounting ==
  \A m \in Users : payout[m].amount + payout[m].claimed = Total(payout[m].tranches)

\* Every stroop credited to an organization is still in its budget or was
\* allocated to one of its own maintainers; no allocation, batch or enrolment
\* spends one organization's money on another's people or forgets any.
OrgConservation ==
  \A o \in Orgs : funded[o] = budget[o] + AllocatedTo(o)

\* The registry holds every token it owes: unspent budgets and unclaimed
\* payouts are covered by its token balance, so no claim can fail for funds.
OrgSolvency == OrgLiabilities <= bal[Contract]

\* The per-org list and the per-address key that enrol a maintainer agree: each
\* enrolled address is listed once, by its organization and by no other.
MaintainerIndex ==
  \A o \in Orgs :
    /\ {orgMaintainers[o][i] : i \in DOMAIN orgMaintainers[o]}
         = {m \in Users : maintainerOrg[m] = o}
    /\ \A i, j \in DOMAIN orgMaintainers[o] :
         orgMaintainers[o][i] = orgMaintainers[o][j] => i = j

\* No sequence of removals, of others or of oneself, leaves a registered
\* organization without an admin who can spend its budget.
EveryOrgHasAnAdmin == \A o \in Orgs : Registered(o) => admins[o] # {}

\* While a maintainer's whole schedule is in order, claim_payout pays for
\* exactly what a full scan finds unlocked: nothing early, nothing withheld.
OrderedSchedulePaysExactly ==
  \A m \in Users :
    LET p == payout[m]
    IN  NonDecreasing(p.tranches) =>
          /\ p.claimed <= UnlockedTotal(p.tranches, now)
          /\ VestedAmount(p.tranches, now) = UnlockedTotal(p.tranches, now)

\* The balance "remains locked until `unlock_timestamp`" (allocate_payout's
\* comment): what was claimed never exceeds what is unlocked.
LockedUntilUnlockTimestamp ==
  \A m \in Users : payout[m].claimed <= UnlockedTotal(payout[m].tranches, now)

\* Fairness: ledgers keep closing, the admin ends a pause, and a maintainer with
\* something to claim keeps submitting claim_payout.
Fairness ==
  /\ WF_vars(Tick /\ UNCHANGED <<bal, controlVars, lock, orgVars>>)
  /\ WF_vars(/\ protocolState = "Paused" /\ (\E u \in Users : UnpauseProtocol(u))
             /\ UNCHANGED <<bal, lock, now, orgVars>>)
  /\ \A m \in Users : SF_vars(ClaimPayout(m) /\ UNCHANGED <<controlVars, lock, now>>)

FairSpec == Spec /\ Fairness

\* Nothing in the registry can hold an allocated payout back for ever: pauses,
\* later allocations and unordered schedules only delay it.
EveryPayoutIsPaid ==
  \A m \in Users : payout[m].amount > 0 ~> payout[m].amount = 0
=============================================================================
