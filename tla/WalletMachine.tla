--------------------------- MODULE WalletMachine ----------------------------
(***************************************************************************)
(* The wallet of one browser tab: the state machine of walletMachine.ts,   *)
(* the promise-based calls WalletContext.tsx builds on it, and the claims  *)
(* of useUnifiedWallet.ts that wait for a signature.                       *)
(*                                                                         *)
(* A transition of the machine is one step.  An answer of the extension    *)
(* counts only in the state that asked for it: leaving the state stops the *)
(* actor.  The network events of the machine are left out, as nothing in   *)
(* the application sends them.                                             *)
(*                                                                         *)
(* External: the extension and its user, and page reloads.                 *)
(***************************************************************************)
CONSTANTS Wallets, Freighter, Accounts, Claims, Nobody

ASSUME WalletAssumption ==
  /\ Freighter \in Wallets
  /\ Nobody \notin Wallets \union Accounts \union Claims

VARIABLES fsm,           \* the state of the machine
          providers,     \* wallets discovered so far
          selectedRdns, publicKey,
          silentRestore, restoreAttempted,
          pendingSign, lastSigned,    \* the transaction, named by its claim
          session,       \* localStorage: the persisted wallet and account
          claim,         \* what each claim is waiting for
          signedFor      \* the claim whose signature it went on with

machineContext == <<providers, selectedRdns, publicKey, silentRestore, restoreAttempted>>
signing == <<pendingSign, lastSigned>>
claiming == <<claim, signedFor>>
walletVars == <<fsm, machineContext, signing, session, claiming>>

NoSession == [rdns |-> Nobody, publicKey |-> Nobody]

WalletInit ==
  /\ fsm = "disconnected"
  /\ providers = {} /\ selectedRdns = Nobody /\ publicKey = Nobody
  /\ silentRestore = FALSE /\ restoreAttempted = FALSE
  /\ pendingSign = Nobody /\ lastSigned = Nobody
  /\ session = NoSession
  /\ claim = [c \in Claims |-> "new"]
  /\ signedFor = [c \in Claims |-> Nobody]

-----------------------------------------------------------------------------
(* Connecting.                                                             *)

ProviderDiscovered(w) ==
  /\ w \notin providers
  /\ providers' = providers \union {w}
  /\ UNCHANGED <<fsm, selectedRdns, publicKey, silentRestore, restoreAttempted,
                 signing, session, claiming>>

\* Freighter unless another wallet was chosen, or only others were discovered.
PreferredRdns ==
  IF selectedRdns # Nobody THEN {selectedRdns}
  ELSE IF providers = {} \/ Freighter \in providers THEN {Freighter} ELSE providers

MayRestore == ~restoreAttempted /\ session # NoSession

\* A stored session is restored without being asked, once.
RestoreSession ==
  /\ fsm = "disconnected" /\ MayRestore
  /\ fsm' = "connecting"
  /\ selectedRdns' = session.rdns
  /\ silentRestore' = TRUE /\ restoreAttempted' = TRUE
  /\ UNCHANGED <<providers, publicKey, signing, session, claiming>>

ConnectWallet ==
  /\ fsm = "disconnected" /\ ~MayRestore
  /\ fsm' = "connecting"
  /\ selectedRdns' \in PreferredRdns \union providers
  /\ UNCHANGED <<providers, publicKey, silentRestore, restoreAttempted,
                 signing, session, claiming>>

\* The claims waiting for the machine to be idle with nothing pending go on: with
\* the last signature, or with an error.
Settle(last) ==
  /\ claim' = [c \in Claims |-> IF claim[c] # "wait" THEN claim[c]
                                ELSE IF last # Nobody THEN "submit" ELSE "failed"]
  /\ signedFor' = [c \in Claims |-> IF claim[c] = "wait" THEN last ELSE signedFor[c]]

\* Only Freighter can connect.
Connected(account) ==
  /\ fsm = "connecting" /\ selectedRdns = Freighter
  /\ fsm' = "idle"
  /\ publicKey' = account
  /\ session' = [rdns |-> selectedRdns, publicKey |-> account]
  /\ silentRestore' = FALSE
  /\ Settle(lastSigned)
  /\ UNCHANGED <<providers, selectedRdns, restoreAttempted, signing>>

\* Refused, not installed, wrong network, not supported; after a silent restore
\* without an error message.
ConnectFails ==
  /\ fsm = "connecting"
  /\ fsm' = "disconnected"
  /\ publicKey' = IF silentRestore THEN Nobody ELSE publicKey
  /\ session' = NoSession
  /\ silentRestore' = FALSE
  /\ UNCHANGED <<providers, selectedRdns, restoreAttempted, signing, claiming>>

HardwareTimeout ==
  /\ \/ fsm = "connecting" /\ fsm' = "hardwareTimeoutConnect"
     \/ fsm = "signing" /\ fsm' = "hardwareTimeoutSign"
  /\ UNCHANGED <<machineContext, signing, session, claiming>>

Retry ==
  /\ \/ fsm = "hardwareTimeoutConnect" /\ fsm' = "connecting"
     \/ fsm = "hardwareTimeoutSign" /\ fsm' = "signing"
  /\ UNCHANGED <<machineContext, signing, session, claiming>>

CancelConnect ==
  /\ fsm = "hardwareTimeoutConnect"
  /\ fsm' = "disconnected"
  /\ session' = NoSession /\ silentRestore' = FALSE
  /\ UNCHANGED <<providers, selectedRdns, publicKey, restoreAttempted, signing, claiming>>

-----------------------------------------------------------------------------
(* Connected.                                                              *)

IsConnected == fsm \in {"idle", "signing", "hardwareTimeoutSign"}

\* By the user or by the extension.
Disconnect ==
  /\ IsConnected
  /\ fsm' = "disconnected"
  /\ publicKey' = Nobody
  /\ pendingSign' = Nobody /\ lastSigned' = Nobody
  /\ session' = NoSession
  /\ UNCHANGED <<providers, selectedRdns, silentRestore, restoreAttempted, claiming>>

AccountChanged(account) ==
  /\ IsConnected /\ account # publicKey
  /\ publicKey' = account
  /\ session' = IF account # Nobody THEN [rdns |-> selectedRdns, publicKey |-> account]
                ELSE session
  /\ UNCHANGED <<fsm, providers, selectedRdns, silentRestore, restoreAttempted,
                 signing, claiming>>

Signed ==
  /\ fsm = "signing"
  /\ fsm' = "idle"
  /\ lastSigned' = pendingSign /\ pendingSign' = Nobody
  /\ Settle(pendingSign)
  /\ UNCHANGED <<machineContext, session>>

\* Refused, or cancelled after a timeout.
SignFails ==
  /\ fsm \in {"signing", "hardwareTimeoutSign"}
  /\ fsm' = "idle"
  /\ lastSigned' = Nobody /\ pendingSign' = Nobody
  /\ Settle(Nobody)
  /\ UNCHANGED <<machineContext, session>>

-----------------------------------------------------------------------------
(* Claims.                                                                 *)

\* The backend builds the transaction for the connected account.
BuildClaim(c) ==
  /\ claim[c] = "new" /\ fsm = "idle" /\ publicKey # Nobody
  /\ claim' = [claim EXCEPT ![c] = "built"]
  /\ UNCHANGED <<fsm, machineContext, signing, session, signedFor>>

Throw(c) ==
  /\ claim' = [claim EXCEPT ![c] = "failed"]
  /\ UNCHANGED <<fsm, machineContext, signing, session, signedFor>>

\* Slip: any connected state will do; the machine ignores the second request.
AskWhileConnected(c) ==
  /\ claim[c] = "built"
  /\ IF IsConnected
     THEN /\ fsm' = IF fsm = "idle" THEN "signing" ELSE fsm
          /\ pendingSign' = IF fsm = "idle" THEN c ELSE pendingSign
          /\ lastSigned' = IF fsm = "idle" THEN Nobody ELSE lastSigned
          /\ claim' = [claim EXCEPT ![c] = "wait"]
          /\ UNCHANGED <<machineContext, session, signedFor>>
     ELSE Throw(c)

SignTransaction(c) ==
  /\ claim[c] = "built"
  /\ IF fsm = "idle"
     THEN /\ fsm' = "signing"
          /\ pendingSign' = c /\ lastSigned' = Nobody
          /\ claim' = [claim EXCEPT ![c] = "wait"]
          /\ UNCHANGED <<machineContext, session, signedFor>>
     ELSE Throw(c)

SubmitClaim(c) ==
  /\ claim[c] = "submit"
  /\ claim' = [claim EXCEPT ![c] = "submitted"]
  /\ UNCHANGED <<fsm, machineContext, signing, session, signedFor>>

\* A reload keeps the stored session only.
Reload ==
  /\ fsm # "disconnected" \/ restoreAttempted
  /\ fsm' = "disconnected"
  /\ providers' = {} /\ selectedRdns' = Nobody /\ publicKey' = Nobody
  /\ silentRestore' = FALSE /\ restoreAttempted' = FALSE
  /\ pendingSign' = Nobody /\ lastSigned' = Nobody
  /\ claim' = [c \in Claims |-> "new"]
  /\ signedFor' = [c \in Claims |-> Nobody]
  /\ UNCHANGED session

WalletNext ==
  \/ RestoreSession \/ ConnectWallet \/ ConnectFails \/ HardwareTimeout \/ Retry
  \/ CancelConnect \/ Disconnect \/ Signed \/ SignFails \/ Reload
  \/ \E w \in Wallets : ProviderDiscovered(w)
  \/ \E a \in Accounts : Connected(a)
  \/ \E a \in Accounts \union {Nobody} : AccountChanged(a)
  \/ \E c \in Claims : BuildClaim(c) \/ SignTransaction(c) \/ SubmitClaim(c)

WalletSpec == WalletInit /\ [][WalletNext]_walletVars

-----------------------------------------------------------------------------
(* Whatever timeouts, retries, cancellations, disconnects and reconnections  *)
(* come between, a claim goes on with the signature of its own transaction:  *)
(* never with that of another claim, nor with one left over from before.     *)
SignatureIsForTheAsker ==
  \A c \in Claims : claim[c] \in {"submit", "submitted"} => signedFor[c] = c
=============================================================================
