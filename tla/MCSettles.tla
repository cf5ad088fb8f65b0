------------------------------ MODULE MCSettles ------------------------------
(***************************************************************************)
(* The two components of the backend that promise to come to an end, side  *)
(* by side.  While one of them rests nothing is submitted or queued in it  *)
(* and none of its fair actions is enabled, so that each fairness bears on *)
(* the behaviours that exercise its component only.                        *)
(***************************************************************************)
EXTENDS ClaimSaga, WebhookDelivery

VARIABLE exercised

SettlesInit ==
  /\ exercised \in {"claims", "webhooks"}
  /\ SagaInit /\ HookInit
  /\ exercised = "claims" => provider = "sqs" /\ ~dlqEnabled

SettlesNext ==
  /\ UNCHANGED exercised
  /\ \/ exercised = "claims" /\ SagaNext /\ UNCHANGED hookVars
     \/ exercised = "webhooks" /\ HookNext /\ UNCHANGED sagaVars

SettlesSpec ==
  SettlesInit /\ [][SettlesNext]_<<exercised, sagaVars, hookVars>> /\ Fairness /\ HookFairness
=============================================================================
