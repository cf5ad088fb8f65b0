---------------------------- MODULE MCOrgPayouts ----------------------------
EXTENDS OrgPayouts, TLC, SequencesExt

CONSTANTS u1, u2, o1, o2

\* Tokens: u1 starts with the whole supply.
SupplyOfTwo == [u \in Users |-> IF u = u1 THEN 2 ELSE 0]
OneEach == [u \in Users |-> 1]

T(unlock, amount) == [unlock |-> unlock, amount |-> amount]
E(maintainer, amount) == [maintainer |-> maintainer, amount |-> amount]

\* Legal and illegal schedules: in order, out of order, a zero tranche, empty.
TwoStepSchedules == {<<T(0, 1), T(1, 1)>>, <<T(1, 1), T(0, 1)>>, <<T(0, 0)>>, <<>>}

\* One entry, two entries for one maintainer, two maintainers, zero, empty.
SmallBatches ==
  {<<E(u2, 1)>>, <<E(u2, 1), E(u2, 1)>>, <<E(u2, 1), E(u1, 1)>>, <<E(u2, 0)>>, <<>>}
SingleBatches == {<<E(m, 1)>> : m \in Users}
OneBatch == {<<E(u2, 1)>>, <<E(u2, 1), E(u2, 1), E(u2, 1)>>}

\* The state after init by u1, register_org by each organization's admin and the
\* enrolment of the given maintainers: where the money runs start.
Established(adminOf, orgOf) ==
  /\ SacInit
  /\ protocolState = "Active" /\ protocolAdmin = u1
  /\ pendingAdmin = Nobody /\ nominatedBy = Nobody
  /\ wasm = InitialWasm /\ lock = FALSE /\ now = 0
  /\ orgAdmin = adminOf
  /\ admins = [o \in Orgs |-> {adminOf[o]}]
  /\ metadata = [o \in Orgs |-> NoCid]
  /\ budget = [o \in Orgs |-> 0]
  /\ maintainerOrg = orgOf
  /\ orgMaintainers = [o \in Orgs |-> SetToSeq({u \in Users : orgOf[u] = o})]
  /\ payout = [u \in Users |-> EmptyPayout]
  /\ funded = [o \in Orgs |-> 0]

OneOrgSpec ==
  Established(o1 :> u1, [u \in Users |-> o1]) /\ [][Next]_vars
FairOneOrgSpec == OneOrgSpec /\ Fairness

PeopleSymmetry == Permutations(Users) \union Permutations(Orgs)
=============================================================================
