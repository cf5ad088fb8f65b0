-------------------------- MODULE MCPayoutRegistry --------------------------
EXTENDS PayoutRegistry, TLC

CONSTANTS u1, u2, o1

Supply == u1 :> 2 @@ u2 :> 0

OneRound == {<<o1>>}

\* The money moves after init by u1, register_org(o1) by u1 and the enrolment of
\* u2.
Started ==
  /\ SacInit /\ QfInit /\ ShareInit /\ TimeLockInit /\ FlashInit
  /\ protocolState = "Active" /\ protocolAdmin = u1
  /\ pendingAdmin = Nobody /\ nominatedBy = Nobody
  /\ wasm = InitialWasm /\ lock = FALSE /\ now = 0
  /\ orgAdmin = [o \in Orgs |-> u1]
  /\ admins = [o \in Orgs |-> {u1}]
  /\ metadata = [o \in Orgs |-> NoCid]
  /\ budget = [o \in Orgs |-> 0]
  /\ maintainerOrg = [u \in Users |-> IF u = u2 THEN o1 ELSE NoOrg]
  /\ orgMaintainers = [o \in Orgs |-> <<u2>>]
  /\ payout = [u \in Users |-> EmptyPayout]
  /\ funded = [o \in Orgs |-> 0]

\* The only donor the admin verifies is u1, as a second one doubles the states.
StartedNext == RegistryNext /\ humans' \subseteq {u1}

StartedSpec == Started /\ [][StartedNext]_registryVars
=============================================================================
