----------------------------- MODULE NonceCalls -----------------------------
(***************************************************************************)
(* The nonce-protected entry points.  A caller signs a call together with  *)
(* the nonce it expects; whoever holds the signed call may submit it,      *)
(* late, out of order or again, and the stored nonce decides.              *)
(***************************************************************************)
EXTENDS QuadraticFunding

CONSTANT MaxNonce  \* bound: the last nonce a caller signs

ASSUME MaxNonceAssumption == MaxNonce \in Nat

VARIABLES nonce,     \* DataKey::Nonce
          signed,    \* the calls callers have signed: in flight for ever
          executed   \* history: the calls that took effect, in order

nonceVars == <<nonce, signed, executed>>
nonceAllVars == <<qfAllVars, nonceVars>>

Nonces == 0 .. MaxNonce

SignedCalls ==
  [kind : {"fund_org", "qf_contribute"}, who : Users, nonce : Nonces, org : Orgs,
   amount : Requests]
    \union [kind : {"claim_payout"}, who : Users, nonce : Nonces]

NonceInit ==
  /\ nonce = [u \in Users |-> 0]
  /\ signed = {}
  /\ executed = <<>>

\* A client reads get_nonce and signs the next call; it may sign another one
\* before the first is confirmed, with the same nonce or with the next.
Sign(call) ==
  /\ call.nonce \in {nonce[call.who], nonce[call.who] + 1}
  /\ call \notin signed
  /\ signed' = signed \union {call}
  /\ UNCHANGED <<nonce, executed, qfAllVars>>

\* A slip: accepting any nonce not behind.
NonceNotBehind(call) ==
  /\ nonce[call.who] <= call.nonce
  /\ nonce' = [nonce EXCEPT ![call.who] = call.nonce + 1]

VerifyAndConsumeNonce(call) ==
  /\ nonce[call.who] = call.nonce
  /\ nonce' = [nonce EXCEPT ![call.who] = call.nonce + 1]

FundOrgWithNonce(call) ==
  /\ call.kind = "fund_org"
  /\ VerifyAndConsumeNonce(call)
  /\ FundOrg(call.org, call.who, call.amount)
  /\ UNCHANGED qfVars

ClaimPayoutWithNonce(call) ==
  /\ call.kind = "claim_payout"
  /\ VerifyAndConsumeNonce(call)
  /\ ClaimPayout(call.who)
  /\ UNCHANGED qfVars

QfContributeWithNonce(call) ==
  /\ call.kind = "qf_contribute"
  /\ VerifyAndConsumeNonce(call)
  /\ QfContribute(call.org, call.who, call.amount)

Submit(call) ==
  /\ \/ FundOrgWithNonce(call)
     \/ ClaimPayoutWithNonce(call)
     \/ QfContributeWithNonce(call)
  /\ executed' = Append(executed, call)
  /\ UNCHANGED <<signed, controlVars, lock, now>>

NonceNext ==
  \/ QfNext /\ UNCHANGED nonceVars
  \/ \E call \in SignedCalls : Sign(call)
  \/ \E call \in signed : Submit(call)

NonceSpec == Init /\ QfInit /\ NonceInit /\ [][NonceNext]_nonceAllVars

-----------------------------------------------------------------------------
(* Properties.                                                             *)

CallsOf(u) == {i \in DOMAIN executed : executed[i].who = u}

\* However often and in whatever order signed calls are submitted, each caller's
\* calls take effect once, in the order of their nonces, with none left out; of
\* two calls signed with one nonce only one ever does.
CallsTakeEffectInOrder ==
  \A u \in Users :
    /\ nonce[u] = Cardinality(CallsOf(u))
    /\ \A i \in CallsOf(u) :
         executed[i].nonce = Cardinality({j \in CallsOf(u) : j < i})
=============================================================================
