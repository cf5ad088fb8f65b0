--------------------------- MODULE ProtocolControl --------------------------
(***************************************************************************)
(* What every entry point of PayoutRegistry shares: initialization, the    *)
(* Active/Paused switch, the two-step hand-over of the protocol admin,     *)
(* contract upgrade, the reentrancy lock and the ledger clock.             *)
(*                                                                         *)
(* A call that panics reverts every write of its transaction, so a check   *)
(* that fails is a disabled action.  A call authorised by require_auth     *)
(* carries the signing address as its caller parameter.                    *)
(***************************************************************************)
EXTENDS SacToken

CONSTANTS Nobody,        \* no address: an empty storage slot
          Nominees,      \* addresses an admin proposes as its successor
          MaxTime,       \* bound: the last ledger timestamp
          MaxAmount,     \* MAX_AMOUNT_LIMIT
          Wasms,         \* contract code hashes
          InitialWasm

ASSUME NobodyAssumption == Nobody \notin Users /\ Nobody # Contract
ASSUME NomineesAssumption == Nominees \subseteq Users
ASSUME MaxTimeAssumption == MaxTime \in Nat
ASSUME MaxAmountAssumption == MaxAmount \in Nat
ASSUME WasmsAssumption == InitialWasm \in Wasms

VARIABLES protocolState,  \* DataKey::ProtocolState; "Uninitialized" before init
          protocolAdmin,  \* DataKey::MultisigAdmin, admins[0]
          pendingAdmin,   \* DataKey::PendingAdmin
          nominatedBy,    \* history: who made the pending nomination
          wasm,           \* code hash installed on the instance
          lock,           \* DataKey::ReentrancyLock is present
          now             \* env.ledger().timestamp()

controlVars == <<protocolState, protocolAdmin, pendingAdmin, nominatedBy, wasm>>

Timestamps == 0 .. MaxTime

ControlTypeOK ==
  /\ protocolState \in {"Uninitialized", "Active", "Paused"}
  /\ protocolAdmin \in Users \union {Nobody}
  /\ pendingAdmin \in Users \union {Nobody}
  /\ nominatedBy \in Users \union {Nobody}
  /\ wasm \in Wasms
  /\ lock \in BOOLEAN
  /\ now \in Timestamps

ControlInit ==
  /\ protocolState = "Uninitialized"
  /\ protocolAdmin = Nobody
  /\ pendingAdmin = Nobody
  /\ nominatedBy = Nobody
  /\ wasm = InitialWasm
  /\ lock = FALSE
  /\ now = 0

\* A slip this must not make: a call that never takes the guard.
NoGuard == TRUE

\* ReentrancyGuard::acquire: the call is refused while another one is running.
\* A call that returns in the same step has dropped its guard by then.
LockFree == ~lock

AssertActive == protocolState = "Active"

\* The amounts every entry point that takes money in accepts.
ValidAmount(amount) == 0 < amount /\ amount <= MaxAmount

AuthorisedBy(caller) == caller = protocolAdmin /\ protocolAdmin # Nobody

InitProtocol(admin) ==
  /\ LockFree
  /\ protocolState = "Uninitialized"
  /\ protocolState' = "Active"
  /\ protocolAdmin' = admin
  /\ UNCHANGED <<pendingAdmin, nominatedBy, wasm>>

PauseProtocol(caller) ==
  /\ LockFree
  /\ AuthorisedBy(caller)
  /\ protocolState' = "Paused"
  /\ UNCHANGED <<protocolAdmin, pendingAdmin, nominatedBy, wasm>>

UnpauseProtocol(caller) ==
  /\ LockFree
  /\ AuthorisedBy(caller)
  /\ protocolState' = "Active"
  /\ UNCHANGED <<protocolAdmin, pendingAdmin, nominatedBy, wasm>>

ProposeAdmin(caller, newAdmin) ==
  /\ LockFree
  /\ AuthorisedBy(caller)
  /\ pendingAdmin' = newAdmin
  /\ nominatedBy' = caller
  /\ UNCHANGED <<protocolState, protocolAdmin, wasm>>

\* A slip AcceptAdmin must not make: leaving PendingAdmin in storage.
AcceptAdminKeepsNomination(newAdmin) ==
  /\ LockFree
  /\ pendingAdmin = newAdmin
  /\ protocolAdmin' = newAdmin
  /\ UNCHANGED <<protocolState, pendingAdmin, nominatedBy, wasm>>

AcceptAdmin(newAdmin) ==
  /\ LockFree
  /\ pendingAdmin = newAdmin
  /\ protocolAdmin' = newAdmin
  /\ pendingAdmin' = Nobody
  /\ nominatedBy' = Nobody
  /\ UNCHANGED <<protocolState, wasm>>

Upgrade(caller, hash) ==
  /\ LockFree
  /\ AuthorisedBy(caller)
  /\ wasm' = hash
  /\ UNCHANGED <<protocolState, protocolAdmin, pendingAdmin, nominatedBy>>

\* Ledgers close between transactions, never inside one.
Tick ==
  /\ LockFree
  /\ now < MaxTime
  /\ now' = now + 1

ControlStep ==
  /\ \E u \in Users :
       \/ InitProtocol(u)
       \/ PauseProtocol(u)
       \/ UnpauseProtocol(u)
       \/ \E v \in Nominees : ProposeAdmin(u, v)
       \/ AcceptAdmin(u)
       \/ \E w \in Wasms : Upgrade(u, w)
  /\ UNCHANGED lock

-----------------------------------------------------------------------------
\* A nomination that can still be accepted was made by the admin in office:
\* accept_admin clears PendingAdmin, so no nomination survives a hand-over and
\* lets a former admin's candidate take the protocol.
NominationIsCurrent ==
  pendingAdmin # Nobody => nominatedBy = protocolAdmin
=============================================================================
