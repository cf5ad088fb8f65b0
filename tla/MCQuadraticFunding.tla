------------------------ MODULE MCQuadraticFunding --------------------------
EXTENDS NonceCalls, TLC

CONSTANTS u1, u2, o1, o2

Supply == u1 :> 4 @@ u2 :> 2

\* Both orders of two projects, one alone, a duplicate, none.
SmallRounds == {<<o1, o2>>, <<o2>>, <<o1, o1>>, <<>>}

\* The run starts after init by u1 and the registration of o1.  In the rounds of
\* matching no maintainer is paid, so no money leaves the budgets; the signed
\* calls come when u1 is verified as a human.
Started ==
  /\ SacInit /\ QfInit /\ NonceInit
  /\ protocolState = "Active" /\ protocolAdmin = u1
  /\ pendingAdmin = Nobody /\ nominatedBy = Nobody
  /\ wasm = InitialWasm /\ lock = FALSE /\ now = 0
  /\ orgAdmin = [o \in Orgs |-> IF o = o1 THEN u1 ELSE Nobody]
  /\ admins = [o \in Orgs |-> IF o = o1 THEN {u1} ELSE {}]
  /\ metadata = [o \in Orgs |-> NoCid]
  /\ budget = [o \in Orgs |-> 0]
  /\ maintainerOrg = [u \in Users |-> o1]
  /\ orgMaintainers = [o \in Orgs |-> IF o = o1 THEN <<u1, u2>> ELSE <<>>]
  /\ payout = [u \in Users |-> EmptyPayout]
  /\ funded = [o \in Orgs |-> 0]

VARIABLE scenario

ScenarioInit == Started /\ scenario \in {"rounds", "signed calls"}

\* Calls of one unit for o1, and allocations to claim; pauses, hand-overs and
\* transfers between users do not bear on nonces.
SmallCalls ==
  {call \in SignedCalls : call.kind = "claim_payout" \/ (call.org = o1 /\ call.amount = 1)}

CallStep ==
  \/ \E call \in SmallCalls : Sign(call)
  \/ \E call \in signed : Submit(call)
  \/ /\ \/ VerifyHumanity(u1, u1)
        \/ /\ \E m \in Users : AllocatePayout(o1, u1, m, 1, 0)
           /\ UNCHANGED qfVars
     /\ UNCHANGED <<controlVars, lock, now, nonceVars>>

ScenarioNext ==
  /\ UNCHANGED scenario
  /\ \/ scenario = "rounds" /\ QfNext /\ UNCHANGED nonceVars
     \/ scenario = "signed calls" /\ CallStep

ScenarioSpec == ScenarioInit /\ [][ScenarioNext]_<<scenario, nonceAllVars>>
=============================================================================
