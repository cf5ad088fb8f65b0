----------------------------- MODULE FlashLoans -----------------------------
(***************************************************************************)
(* flash_loan and flash_mint: the two calls of PayoutRegistry that hand    *)
(* control to another contract while they hold the reentrancy lock.  The   *)
(* call is split where control leaves the registry.  Between its begin and *)
(* its end the receiver may move tokens and call back in; the call ends,   *)
(* or it panics and the whole transaction is reverted.                     *)
(***************************************************************************)
EXTENDS ProtocolControl

CONSTANTS NoFlash,     \* no flash call is running
          FeeChoices   \* the fees in basis points the admin asks for

ASSUME FeeChoicesAssumption == FeeChoices \subseteq Nat

VARIABLES feeBps,  \* DataKey::FlashLoanFeeBps, 30 until it is set
          flash,   \* the running flash call and the balances at its entry
          loans    \* history: how many loans were repaid since init

flashVars == <<feeBps, flash, loans>>

BasisPoints == 10000
DefaultFeeBps == 30
MaxFeeBps == 1000

FlashCall ==
  [kind : {"loan", "mint"}, receiver : Users, amount : Nat \ {0}, fee : Nat,
   entry : [Holders -> Nat]]

ASSUME NoFlashAssumption == NoFlash \notin FlashCall

FlashTypeOK ==
  /\ feeBps \in 1 .. MaxFeeBps
  /\ flash \in FlashCall \union {NoFlash}
  /\ loans \in Nat
  /\ lock <=> flash # NoFlash

FlashInit ==
  /\ feeBps = DefaultFeeBps
  /\ flash = NoFlash
  /\ loans = 0

ValidFee(bps) == 0 < bps /\ bps <= MaxFeeBps

SetFlashLoanFee(caller, bps) ==
  /\ LockFree
  /\ AuthorisedBy(caller)
  /\ ValidFee(bps)
  /\ feeBps' = bps
  /\ UNCHANGED <<flash, loans, lock, bal>>

\* A slip: rounding down, which lends small amounts for nothing.
FeeRoundedDown(amount) == (amount * feeBps) \div BasisPoints
FeeFor(amount) == (amount * feeBps + 9999) \div BasisPoints

FlashLoanBegin(receiver, amount) ==
  /\ LockFree
  /\ AssertActive
  /\ ValidAmount(amount)
  /\ amount <= bal[Contract]
  /\ SacTransfer(Contract, receiver, amount)
  /\ flash' = [kind |-> "loan", receiver |-> receiver, amount |-> amount,
               fee |-> FeeFor(amount), entry |-> bal]
  /\ lock' = TRUE
  /\ UNCHANGED <<feeBps, loans>>

RepaidWithFee == bal[Contract] >= flash.entry[Contract] + flash.fee

FlashLoanEnd ==
  /\ flash # NoFlash /\ flash.kind = "loan"
  /\ RepaidWithFee
  /\ flash' = NoFlash
  /\ loans' = loans + 1
  /\ lock' = FALSE
  /\ UNCHANGED <<feeBps, bal>>

\* flash_mint looks at neither ProtocolState nor MAX_AMOUNT_LIMIT.
FlashMintBegin(receiver, amount) ==
  /\ LockFree
  /\ amount > 0
  /\ bal' = [bal EXCEPT ![receiver] = @ + amount]
  /\ flash' = [kind |-> "mint", receiver |-> receiver, amount |-> amount, fee |-> 0,
               entry |-> bal]
  /\ lock' = TRUE
  /\ UNCHANGED <<feeBps, loans>>

\* A slip: burning what the receiver still has, however little.
BurnWhatIsLeft ==
  bal' = [bal EXCEPT ![flash.receiver] = IF flash.amount <= @ THEN @ - flash.amount ELSE 0]
Burn ==
  /\ flash.amount <= bal[flash.receiver]
  /\ bal' = [bal EXCEPT ![flash.receiver] = @ - flash.amount]

FlashMintEnd ==
  /\ flash # NoFlash /\ flash.kind = "mint"
  /\ Burn
  /\ flash' = NoFlash
  /\ lock' = FALSE
  /\ UNCHANGED <<feeBps, loans>>

\* The callback or a check after it panics: the transaction leaves no trace.
FlashRevert ==
  /\ flash # NoFlash
  /\ bal' = flash.entry
  /\ flash' = NoFlash
  /\ lock' = FALSE
  /\ UNCHANGED <<feeBps, loans>>

FlashStep ==
  \/ \E u \in Users :
       \/ \E bps \in FeeChoices : SetFlashLoanFee(u, bps)
       \/ \E amount \in Requests : FlashLoanBegin(u, amount) \/ FlashMintBegin(u, amount)
  \/ FlashLoanEnd
  \/ FlashMintEnd
  \/ FlashRevert

flashAllVars == <<bal, controlVars, lock, now, flashVars>>

FlashNext ==
  \/ ControlStep /\ UNCHANGED <<bal, now, flashVars>>
  \/ TokenStep /\ UNCHANGED <<controlVars, lock, now, flashVars>>
  \/ FlashStep /\ UNCHANGED <<controlVars, now>>

FlashSpec == SacInit /\ ControlInit /\ FlashInit /\ [][FlashNext]_flashAllVars

-----------------------------------------------------------------------------
(* Properties.                                                             *)

\* A flash mint leaves the token supply as it found it, and so does every other
\* call: whatever the callback does with the minted tokens, they are burnt or the
\* transaction never happened.
SupplyIsConserved == ~lock => SumOver(bal) = SumOver(Genesis)

\* Every repaid loan, however small, left at least one stroop behind: borrowing
\* is never free, and what a loan earned never leaves with a later one.
BorrowingIsNeverFree == ~lock => loans <= bal[Contract]
=============================================================================
