------------------------- MODULE Components_proofs -------------------------
(***************************************************************************)
(* The library modules of the contract crate and the browser's components: *)
(* the square root rounds down in a word of any even width, the list stays *)
(* whole, the oracle's averages are averages, the wallet signs for the     *)
(* claim that asked, no link is prefetched twice, a transaction's verdict  *)
(* stands, and a stored draft is not lost.                                 *)
(***************************************************************************)
EXTENDS IntegerSqrt, TwapOracle, WalletMachine, PrefetchEngine, BrowserTx, SortedList,
        OfflineDrafts, BatchBuilder, AmountSums_proofs

-----------------------------------------------------------------------------
(* The integer square root: the loop invariant, in a word of any even width. *)

\* What is true of the variables besides the loop invariant.
SqrtTypeOK ==
  /\ n \in 0 .. WordSize - 1
  /\ op \in Nat /\ res \in Nat /\ one \in Nat
  /\ loop \in {"align", "digit", "done"}
  /\ loop = "align" => res = 0 /\ op = n
  /\ loop = "done" => one = 0

SqrtInv == SqrtTypeOK /\ LoopInvariant

\* The invariant's two cases as operators of the numbers they relate.
AtPlace(nn, oo, rr, ww, p, r) ==
  /\ ww = p * p
  /\ rr = 2 * (r * p)
  /\ oo = nn - r * r
  /\ 0 <= oo
  /\ nn < (r + 2 * p) * (r + 2 * p)
  /\ r + 2 * p <= 2 * TopPlace

-----------------------------------------------------------------------------
(* Arithmetic.                                                             *)

\* Squaring keeps the order of natural numbers.
LEMMA SquareOrder ==
  ASSUME NEW a \in Nat, NEW b \in Nat, a <= b
  PROVE  a * a <= b * b
<1>1. a * a <= a * b BY SMT
<1>2. a * b <= b * b BY SMT
<1> QED BY <1>1, <1>2, SMT

\* The next place is half the present one.
LEMMA HalfPlace ==
  ASSUME NEW q \in Nat
  PROVE  /\ (2 * q) * (2 * q) = 4 * (q * q)
         /\ (4 * (q * q)) \div 4 = q * q
<1>1. q * q \in Nat BY SMT
<1>2. (2 * q) * (2 * q) = 4 * (q * q) BY SMT
<1>3. ASSUME NEW x \in Nat PROVE (4 * x) \div 4 = x BY SMT
<1> QED BY <1>1, <1>2, <1>3

\* The square of a sum.
LEMMA SquareOfSum ==
  ASSUME NEW a \in Int, NEW b \in Int
  PROVE  (a + b) * (a + b) = a * a + 2 * (a * b) + b * b
BY SMT

\* Halving twice a product with an even factor.
LEMMA HalfProduct ==
  ASSUME NEW r \in Nat, NEW q \in Nat
  PROVE  (2 * (r * (2 * q))) \div 2 = 2 * (r * q)
<1>1. r * q \in Nat BY SMT
<1>2. 2 * (r * (2 * q)) = 4 * (r * q) BY SMT
<1>3. ASSUME NEW x \in Nat PROVE (4 * x) \div 2 = 2 * x BY SMT
<1> QED BY <1>1, <1>2, <1>3

-----------------------------------------------------------------------------
(* One round of the second loop, at place p with the root r found so far.   *)

\* The last round leaves the root itself.
LEMMA LastDigit ==
  ASSUME SqrtTypeOK, NEW r \in Nat, AtPlace(n, op, res, one, 1, r), Digit
  PROVE  LoopInvariant'
<1>1. one = 1 /\ res = 2 * r /\ op = n - r * r
  BY SMT DEF AtPlace, SqrtTypeOK
<1>2. one' = 0 BY <1>1, SMT DEF Digit, Shifted
<1>3. n' = n /\ n \in Nat /\ TopPlace \in Nat
  BY PlacesAssumption, SMT DEF Digit, SqrtTypeOK, WordSize
<1>4. (r + 1) * (r + 1) = r * r + 2 * r + 1 BY SMT
<1>5. r + 2 <= 2 * TopPlace /\ n < (r + 2) * (r + 2) BY SMT DEF AtPlace
<1>6. CASE DigitFits
  <2>1. res' = r + 1 BY <1>1, <1>6, SMT DEF Digit
  <2>2. op' = n - (r + 1) * (r + 1) /\ 0 <= op'
    BY <1>1, <1>3, <1>4, <1>6, SMT DEF Digit, DigitFits
  <2>3. res' + 1 = r + 2 BY <2>1, SMT
  <2> QED BY <1>2, <1>3, <1>5, <2>1, <2>2, <2>3 DEF LoopInvariant
<1>7. CASE ~DigitFits
  <2>1. res' = r /\ op' = op BY <1>1, <1>7, SMT DEF Digit
  <2>2. n < (r + 1) * (r + 1) BY <1>1, <1>3, <1>4, <1>7, SMT DEF DigitFits
  <2>3. r + 1 <= 2 * TopPlace BY <1>5, <1>3, SMT
  <2>4. 0 <= op BY DEF AtPlace
  <2> QED BY <1>1, <1>2, <1>3, <2>1, <2>2, <2>3, <2>4 DEF LoopInvariant
<1> QED BY <1>6, <1>7

\* Any other round moves to the place below with one more digit decided.
LEMMA NextDigit ==
  ASSUME SqrtTypeOK, NEW r \in Nat, NEW q \in Places,
         AtPlace(n, op, res, one, 2 * q, r), Digit
  PROVE  LoopInvariant'
<1>1. q \in Nat /\ n \in Nat /\ TopPlace \in Nat /\ n' = n
  BY PlacesAssumption, SMT DEF Digit, SqrtTypeOK, WordSize
<1>2. one = 4 * (q * q) /\ one' = q * q
  BY <1>1, HalfPlace DEF AtPlace, Digit, Shifted
<1>3. res \div 2 = 2 * (r * q)
  BY <1>1, HalfProduct DEF AtPlace
<1>4. (r + 2 * q) * (r + 2 * q) = r * r + 4 * (r * q) + 4 * (q * q)
  BY <1>1, SMT
<1>5. res = 4 * (r * q) BY <1>1, SMT DEF AtPlace
<1>6. r * q \in Nat /\ q * q \in Nat /\ r * r \in Nat BY <1>1, SMT
<1>7. r + 4 * q <= 2 * TopPlace BY <1>1, SMT DEF AtPlace
<1>8. n < (r + 4 * q) * (r + 4 * q)
  <2>1. r + 2 * (2 * q) = r + 4 * q BY <1>1, SMT
  <2> QED BY <2>1 DEF AtPlace
<1>9. op = n - r * r /\ 0 <= op BY DEF AtPlace
<1>10. CASE DigitFits
  <2> DEFINE s == r + 2 * q
  <2>1. s \in Nat /\ s + 2 * q = r + 4 * q BY <1>1, SMT
  <2>2. res' = 2 * (s * q)
    <3>1. s * q = r * q + 2 * (q * q) BY <1>1, SMT
    <3>2. res' = 2 * (r * q) + 4 * (q * q) BY <1>2, <1>3, <1>10 DEF Digit
    <3> QED BY <1>6, <3>1, <3>2, SMT
  <2>3. op' = n - s * s /\ 0 <= op'
    <3>1. op' = op - (res + one) /\ op >= res + one
      BY <1>10 DEF Digit, DigitFits
    <3>2. s * s = r * r + 4 * (r * q) + 4 * (q * q) BY <1>4
    <3> HIDE DEF s
    <3>3. s * s \in Nat BY <2>1, SMT
    <3> QED BY <1>1, <1>2, <1>5, <1>6, <1>9, <3>1, <3>2, <3>3, SMT
  <2>4. n < (s + 2 * q) * (s + 2 * q) BY <1>8, <2>1
  <2>5. s + 2 * q <= 2 * TopPlace BY <1>7, <2>1
  <2> HIDE DEF s
  <2> QED BY <1>1, <1>2, <2>1, <2>2, <2>3, <2>4, <2>5 DEF LoopInvariant
<1>11. CASE ~DigitFits
  <2>1. res' = 2 * (r * q) /\ op' = op BY <1>3, <1>11 DEF Digit
  <2>2. n < (r + 2 * q) * (r + 2 * q)
    BY <1>1, <1>2, <1>4, <1>5, <1>6, <1>9, <1>11, SMT DEF DigitFits
  <2>3. r + 2 * q <= 2 * TopPlace BY <1>1, <1>7, SMT
  <2> QED BY <1>1, <1>2, <1>9, <2>1, <2>2, <2>3 DEF LoopInvariant
<1> QED BY <1>10, <1>11

\* A round of the first loop only lowers the first place tried.
LEMMA AlignKeeps ==
  ASSUME SqrtTypeOK, LoopInvariant, Align, one > op
  PROVE  LoopInvariant'
<1>1. res = 0 /\ op = n /\ n \in Nat /\ TopPlace \in Nat \ {0}
  BY PlacesAssumption, SMT DEF SqrtTypeOK, Align, WordSize
<1>2. n' = n /\ op' = op /\ res' = res /\ one' = one \div 4
  BY DEF Align, Shifted
<1>3. PICK p \in Places, r \in Nat : AtPlace(n, op, res, one, p, r)
  BY <1>1, SMT DEF LoopInvariant, AtPlace
<1>4. p \in Nat \ {0} BY PlacesAssumption
<1>5. CASE p = 1
  <2>1. one = 1 BY <1>3, <1>5, SMT DEF AtPlace
  <2>2. one' = 0 /\ n = 0 BY <1>1, <1>2, <2>1, SMT
  <2> QED BY <1>1, <1>2, <2>2, SMT DEF LoopInvariant
<1>6. ASSUME NEW q \in Places, p = 2 * q PROVE LoopInvariant'
  <2>1. q \in Nat BY PlacesAssumption
  <2>2. one = 4 * (q * q) /\ one' = q * q
    BY <1>2, <1>3, <1>6, <2>1, HalfPlace DEF AtPlace
  <2>3. n < (0 + 2 * q) * (0 + 2 * q)
    BY <1>1, <2>1, <2>2, SMT
  <2>4. 0 + 2 * q <= 2 * TopPlace
    BY <1>1, <1>3, <1>6, <2>1, SMT DEF AtPlace
  <2>5. res' = 2 * (0 * q) /\ op' = n' - 0 * 0 /\ 0 <= op'
    BY <1>1, <1>2, <2>1, SMT
  <2> QED BY <1>2, <2>2, <2>3, <2>4, <2>5 DEF LoopInvariant
<1> QED BY <1>4, <1>5, <1>6, PlacesAssumption

-----------------------------------------------------------------------------
(* The invariant and what follows from it.                                 *)

\* The first state.
LEMMA SqrtInitInv == SqrtInit => SqrtInv
<1> SUFFICES ASSUME SqrtInit PROVE SqrtInv OBVIOUS
<1>1. TopPlace \in Places /\ TopPlace \in Nat BY PlacesAssumption
<1>2. TopPlace * TopPlace \in Nat BY <1>1, SMT
<1>3. SqrtTypeOK BY <1>2, SMT DEF SqrtInit, SqrtTypeOK, WordSize
<1>4. n < (0 + 2 * TopPlace) * (0 + 2 * TopPlace)
  BY <1>1, SMT DEF SqrtInit, WordSize
<1>5. res = 2 * (0 * TopPlace) /\ op = n - 0 * 0 /\ 0 <= op
  BY <1>1, <1>2, SMT DEF SqrtInit, WordSize
<1>6. 0 + 2 * TopPlace <= 2 * TopPlace BY <1>1, SMT
<1>7. LoopInvariant BY <1>1, <1>4, <1>5, <1>6 DEF SqrtInit, LoopInvariant
<1> QED BY <1>3, <1>7 DEF SqrtInv

\* Every step of the iteration.
LEMMA SqrtStepInv == SqrtInv /\ [SqrtNext]_sqrtVars => SqrtInv'
<1> SUFFICES ASSUME SqrtInv, [SqrtNext]_sqrtVars PROVE SqrtInv'
  OBVIOUS
<1> USE DEF SqrtInv
<1>0. WordSize' = WordSize /\ TopPlace \in Nat /\ n \in Nat
  BY PlacesAssumption, SMT DEF SqrtTypeOK, WordSize
<1>1. CASE Align
  <2>1. CASE one > op
    <3>1. LoopInvariant' BY <1>1, <2>1, AlignKeeps
    <3>2. SqrtTypeOK' BY <1>0, <1>1, <2>1, SMT DEF Align, Shifted, SqrtTypeOK
    <3> QED BY <3>1, <3>2
  <2>2. CASE ~(one > op)
    <3>1. n' = n /\ op' = op /\ res' = res /\ one' = one /\ loop' = "digit"
      BY <1>1, <2>2 DEF Align
    <3> QED BY <1>0, <3>1 DEF SqrtTypeOK, LoopInvariant
  <2> QED BY <2>1, <2>2
<1>2. CASE Digit
  <2>1. PICK p \in Places, r \in Nat : AtPlace(n, op, res, one, p, r)
    BY <1>2 DEF LoopInvariant, AtPlace, Digit
  <2>2. LoopInvariant'
    <3>1. CASE p = 1 BY <1>2, <2>1, <3>1, LastDigit
    <3>2. CASE \E q \in Places : p = 2 * q BY <1>2, <2>1, <3>2, NextDigit
    <3> QED BY <3>1, <3>2, PlacesAssumption
  <2>3. SqrtTypeOK'
    <3>1. n' = n /\ loop' = "digit" /\ one' \in Nat
      BY <1>2, SMT DEF Digit, Shifted, SqrtTypeOK
    <3>2. res' \in Nat /\ op' \in Nat
      BY <1>2, SMT DEF Digit, DigitFits, SqrtTypeOK
    <3> QED BY <1>0, <3>1, <3>2 DEF SqrtTypeOK
  <2> QED BY <2>2, <2>3
<1>3. CASE Return
  BY <1>0, <1>3 DEF Return, SqrtTypeOK, LoopInvariant
<1>4. CASE UNCHANGED sqrtVars
  BY <1>0, <1>4 DEF sqrtVars, SqrtTypeOK, LoopInvariant
<1> QED BY <1>1, <1>2, <1>3, <1>4 DEF SqrtNext, Finished

\* isqrt_u128 returns the floor of the square root of every word.
THEOREM RootIsCorrect == SqrtSpec => []RootIsFloor
<1>1. SqrtInv => RootIsFloor
  <2> SUFFICES ASSUME SqrtInv, loop = "done" PROVE res * res <= n /\ n < (res + 1) * (res + 1)
    BY DEF RootIsFloor
  <2>1. one = 0 /\ res \in Nat /\ n \in Nat
    BY PlacesAssumption, SMT DEF SqrtInv, SqrtTypeOK, WordSize
  <2>2. \A p \in Places : p * p # 0
    <3>1. \A p \in Nat \ {0} : p * p # 0 BY SMT
    <3> QED BY <3>1, PlacesAssumption
  <2>3. op = n - res * res /\ 0 <= op /\ n < (res + 1) * (res + 1)
    BY <2>1, <2>2 DEF SqrtInv, LoopInvariant
  <2>4. res * res \in Nat BY <2>1, SMT
  <2> QED BY <2>1, <2>3, <2>4, SMT
<1> QED BY <1>1, SqrtInitInv, SqrtStepInv, PTL DEF SqrtSpec

\* Nothing isqrt_u128 computes leaves its word.
THEOREM SqrtNeverWraps == SqrtSpec => []NoWrap
<1>1. SqrtInv => NoWrap
  <2> SUFFICES ASSUME SqrtInv PROVE NoWrap OBVIOUS
  <2>1. /\ n \in Nat /\ n < WordSize /\ op \in Nat /\ res \in Nat /\ one \in Nat
        /\ TopPlace \in Nat \ {0} /\ WordSize \in Nat
    BY PlacesAssumption, SMT DEF SqrtInv, SqrtTypeOK, WordSize
  <2>2. res + one < WordSize /\ op <= n
    <3>1. CASE one = 0 /\ op = n - res * res /\ 0 <= op /\ res + 1 <= 2 * TopPlace
      <4>1. res <= res * res /\ res * res \in Nat BY <2>1, SMT
      <4> QED BY <2>1, <3>1, <4>1, SMT
    <3>2. ASSUME NEW p \in Places, NEW r \in Nat, AtPlace(n, op, res, one, p, r)
          PROVE  res + one < WordSize /\ op <= n
      <4>1. p \in Nat \ {0} BY PlacesAssumption
      <4> DEFINE a == r + p
                 b == 2 * TopPlace
      <4>2. a * a = r * r + 2 * (r * p) + p * p BY <4>1, SMT
      <4>3. r * r \in Nat /\ r * p \in Nat /\ p * p \in Nat BY <4>1, SMT
      <4>4. res + one <= a * a BY <3>2, <4>2, <4>3, SMT DEF AtPlace
      <4>5. a + 1 <= b /\ a \in Nat /\ b \in Nat BY <2>1, <3>2, <4>1, SMT DEF AtPlace
      <4>6. b * b = WordSize BY <2>1, SMT DEF WordSize
      <4> HIDE DEF a, b
      <4>7. a * a < b * b
        <5>1. (a + 1) * (a + 1) <= b * b BY <4>5, SquareOrder
        <5>2. (a + 1) * (a + 1) = a * a + 2 * a + 1 BY <4>5, SMT
        <5>3. a * a \in Nat /\ b * b \in Nat BY <4>5, SMT
        <5> QED BY <4>5, <5>1, <5>2, <5>3, SMT
      <4>8. op <= n BY <2>1, <3>2, <4>3, SMT DEF AtPlace
      <4>9. a * a \in Nat BY <4>5, SMT
      <4> QED BY <2>1, <4>4, <4>6, <4>7, <4>8, <4>9, SMT
    <3> QED BY <3>1, <3>2 DEF SqrtInv, LoopInvariant, AtPlace
  <2> QED BY <2>1, <2>2, SMT DEF NoWrap
<1> QED BY <1>1, SqrtInitInv, SqrtStepInv, PTL DEF SqrtSpec

-----------------------------------------------------------------------------
(* The wallet: whom the machine signs for.                                 *)

Away == {"disconnected", "connecting", "hardwareTimeoutConnect"}
Asked == {"signing", "hardwareTimeoutSign"}

\* Nobody waits on an idle machine; who waits while it signs asked for that signature;
\* and a machine that is not connected keeps no signature.
WaitersAreKnown ==
  /\ fsm \in {"idle"} \union Away \union Asked
  /\ fsm = "idle" => \A c \in Claims : claim[c] # "wait"
  /\ fsm \in Asked => \A c \in Claims : claim[c] = "wait" => c = pendingSign
  /\ fsm \in Away => lastSigned = Nobody

WalletInv ==
  /\ claim \in [Claims -> {"new", "built", "wait", "submit", "submitted", "failed"}]
  /\ signedFor \in [Claims -> Claims \union {Nobody}]
  /\ pendingSign \in Claims \union {Nobody} /\ lastSigned \in Claims \union {Nobody}
  /\ WaitersAreKnown
  /\ SignatureIsForTheAsker

\* A settled wait is a failure, or goes on with the signature it asked for.
LEMMA SettleKeeps ==
  ASSUME WalletInv, NEW last \in Claims \union {Nobody}, Settle(last),
         last # Nobody => \A c \in Claims : claim[c] = "wait" => c = last
  PROVE  /\ claim' \in [Claims -> {"new", "built", "wait", "submit", "submitted", "failed"}]
         /\ signedFor' \in [Claims -> Claims \union {Nobody}]
         /\ \A c \in Claims : claim'[c] # "wait"
         /\ SignatureIsForTheAsker'
<1>1. \A c \in Claims :
        /\ claim'[c] = IF claim[c] # "wait" THEN claim[c]
                       ELSE IF last # Nobody THEN "submit" ELSE "failed"
        /\ signedFor'[c] = IF claim[c] = "wait" THEN last ELSE signedFor[c]
  BY DEF Settle
<1>2. claim' \in [Claims -> {"new", "built", "wait", "submit", "submitted", "failed"}]
  BY DEF Settle, WalletInv
<1>3. signedFor' \in [Claims -> Claims \union {Nobody}] BY DEF Settle, WalletInv
<1>4. SignatureIsForTheAsker' BY <1>1 DEF SignatureIsForTheAsker, WalletInv
<1> QED BY <1>1, <1>2, <1>3, <1>4

\* The steps that bring the machine to where nobody waits.
LEMMA ReturnKeeps ==
  ASSUME WalletInv, (\E a \in Accounts : Connected(a)) \/ Signed \/ SignFails
  PROVE  WalletInv'
<1>1. CASE \E a \in Accounts : Connected(a)
  <2>1. fsm = "connecting" /\ fsm' = "idle" /\ Settle(lastSigned) /\ UNCHANGED signing
    BY <1>1 DEF Connected
  <2>2. lastSigned = Nobody BY <2>1 DEF WalletInv, WaitersAreKnown, Away
  <2>3. lastSigned \in Claims \union {Nobody} BY <2>2
  <2> QED BY <2>1, <2>2, <2>3, SettleKeeps DEF WalletInv, WaitersAreKnown, Away, Asked, signing
<1>2. CASE Signed
  <2>1. /\ fsm = "signing" /\ fsm' = "idle" /\ lastSigned' = pendingSign
        /\ pendingSign' = Nobody /\ Settle(pendingSign)
    BY <1>2 DEF Signed
  <2>2. /\ pendingSign \in Claims \union {Nobody}
        /\ \A c \in Claims : claim[c] = "wait" => c = pendingSign
    BY <2>1 DEF WalletInv, WaitersAreKnown, Asked
  <2>3. /\ claim' \in [Claims -> {"new", "built", "wait", "submit", "submitted", "failed"}]
        /\ signedFor' \in [Claims -> Claims \union {Nobody}]
        /\ \A c \in Claims : claim'[c] # "wait"
        /\ SignatureIsForTheAsker'
    BY <2>1, <2>2, SettleKeeps
  <2> QED BY <2>1, <2>2, <2>3 DEF WalletInv, WaitersAreKnown, Away, Asked
<1>3. CASE SignFails
  <2>1. /\ fsm' = "idle" /\ lastSigned' = Nobody /\ pendingSign' = Nobody /\ Settle(Nobody)
    BY <1>3 DEF SignFails
  <2>2. Nobody \in Claims \union {Nobody} OBVIOUS
  <2>3. /\ claim' \in [Claims -> {"new", "built", "wait", "submit", "submitted", "failed"}]
        /\ signedFor' \in [Claims -> Claims \union {Nobody}]
        /\ \A c \in Claims : claim'[c] # "wait"
        /\ SignatureIsForTheAsker'
    BY <2>1, <2>2, SettleKeeps
  <2> QED BY <2>1, <2>3 DEF WalletInv, WaitersAreKnown, Away, Asked
<1> QED BY <1>1, <1>2, <1>3

\* The steps of the machine that no claim waits for.
LEMMA MachineKeeps ==
  ASSUME WalletInv,
         \/ RestoreSession \/ ConnectWallet \/ ConnectFails \/ HardwareTimeout \/ Retry
         \/ CancelConnect \/ Disconnect
         \/ \E w \in Wallets : ProviderDiscovered(w)
         \/ \E a \in Accounts \union {Nobody} : AccountChanged(a)
  PROVE  WalletInv'
<1>1. UNCHANGED claiming
  BY DEF RestoreSession, ConnectWallet, ConnectFails, HardwareTimeout, Retry, CancelConnect,
     Disconnect, ProviderDiscovered, AccountChanged
<1>2. SignatureIsForTheAsker' BY <1>1 DEF claiming, SignatureIsForTheAsker, WalletInv
<1>3. /\ WaitersAreKnown'
      /\ pendingSign' \in Claims \union {Nobody} /\ lastSigned' \in Claims \union {Nobody}
  <2> USE <1>1 DEF claiming, signing, WalletInv, WaitersAreKnown, Away, Asked
  <2>1. CASE RestoreSession BY <2>1 DEF RestoreSession
  <2>2. CASE ConnectWallet BY <2>2 DEF ConnectWallet
  <2>3. CASE ConnectFails BY <2>3 DEF ConnectFails
  <2>4. CASE HardwareTimeout BY <2>4 DEF HardwareTimeout
  <2>5. CASE Retry BY <2>5 DEF Retry
  <2>6. CASE CancelConnect BY <2>6 DEF CancelConnect
  <2>7. CASE Disconnect BY <2>7 DEF Disconnect, IsConnected
  <2>8. CASE \E w \in Wallets : ProviderDiscovered(w) BY <2>8 DEF ProviderDiscovered
  <2>9. CASE \E a \in Accounts \union {Nobody} : AccountChanged(a) BY <2>9 DEF AccountChanged
  <2> QED BY <2>1, <2>2, <2>3, <2>4, <2>5, <2>6, <2>7, <2>8, <2>9
<1> QED BY <1>1, <1>2, <1>3 DEF claiming, WalletInv

\* The steps of a claim: only an idle machine is asked for a signature.
LEMMA ClaimKeeps ==
  ASSUME WalletInv, NEW c \in Claims, BuildClaim(c) \/ SignTransaction(c) \/ SubmitClaim(c)
  PROVE  WalletInv'
<1>1. claim \in [Claims -> {"new", "built", "wait", "submit", "submitted", "failed"}]
  BY DEF WalletInv
<1>2. ASSUME NEW to \in {"built", "submitted", "failed"}, claim' = [claim EXCEPT ![c] = to],
             to = "submitted" => claim[c] = "submit", UNCHANGED <<fsm, signing, signedFor>>
      PROVE  WalletInv'
  <2>1. /\ claim' \in [Claims -> {"new", "built", "wait", "submit", "submitted", "failed"}]
        /\ \A d \in Claims : /\ claim'[d] = "wait" => claim[d] = "wait"
                             /\ claim'[d] \in {"submit", "submitted"}
                                  => claim[d] \in {"submit", "submitted"}
    BY <1>1, <1>2
  <2> QED BY <1>2, <2>1 DEF WalletInv, WaitersAreKnown, SignatureIsForTheAsker, signing
<1>3. CASE BuildClaim(c) BY <1>2, <1>3 DEF BuildClaim
<1>4. CASE SubmitClaim(c) BY <1>2, <1>4 DEF SubmitClaim
<1>5. CASE SignTransaction(c) /\ fsm # "idle" BY <1>2, <1>5 DEF SignTransaction, Throw
<1>6. CASE SignTransaction(c) /\ fsm = "idle"
  <2>1. /\ fsm' = "signing" /\ pendingSign' = c /\ lastSigned' = Nobody
        /\ claim' = [claim EXCEPT ![c] = "wait"] /\ signedFor' = signedFor
    BY <1>6 DEF SignTransaction
  <2>2. \A d \in Claims : claim[d] # "wait" BY <1>6 DEF WalletInv, WaitersAreKnown
  <2>3. /\ claim' \in [Claims -> {"new", "built", "wait", "submit", "submitted", "failed"}]
        /\ \A d \in Claims : /\ claim'[d] = "wait" => d = c
                             /\ claim'[d] \in {"submit", "submitted"}
                                  => claim[d] \in {"submit", "submitted"}
    BY <1>1, <2>1, <2>2
  <2> QED BY <2>1, <2>3
      DEF WalletInv, WaitersAreKnown, SignatureIsForTheAsker, Away, Asked
<1> QED BY <1>3, <1>4, <1>5, <1>6

\* A claim goes on only with the signature of its own transaction.
THEOREM SignaturesReachTheirClaim == WalletSpec => []SignatureIsForTheAsker
<1>1. WalletInit => WalletInv
  BY DEF WalletInit, WalletInv, WaitersAreKnown, SignatureIsForTheAsker, Away, Asked
<1>2. WalletInv /\ [WalletNext]_walletVars => WalletInv'
  <2> SUFFICES ASSUME WalletInv, [WalletNext]_walletVars PROVE WalletInv' OBVIOUS
  <2>1. CASE Reload
    BY <2>1 DEF Reload, WalletInv, WaitersAreKnown, SignatureIsForTheAsker, Away, Asked
  <2>2. CASE UNCHANGED walletVars
    BY <2>2 DEF walletVars, signing, claiming, WalletInv, WaitersAreKnown,
       SignatureIsForTheAsker
  <2> QED BY <2>1, <2>2, ReturnKeeps, MachineKeeps, ClaimKeeps DEF WalletNext
<1>3. WalletInv => SignatureIsForTheAsker BY DEF WalletInv
<1> QED BY <1>1, <1>2, <1>3, PTL DEF WalletSpec

-----------------------------------------------------------------------------
(* The prefetch engine: what the map and the set of those fired remember.  *)

Flight == [mount : Nat, target : Links, live : BOOLEAN, settled : BOOLEAN]

PrefetchTypes ==
  /\ mounts \in Nat /\ targets \subseteq Links
  /\ inFlight \in [Links -> Nat]
  /\ flights \in Seq(Flight)

Current(f) == flights[f].live /\ flights[f].mount = mounts

\* The engine may have lost a live request from its map, but never from those fired.
LiveOnesAreRemembered ==
  \A f \in DOMAIN flights :
    /\ flights[f].mount <= mounts
    /\ Current(f) => /\ flights[f].target \in prefetchedOnce
                     /\ inFlight[flights[f].target] \in {0, f}

PrefetchInv == PrefetchTypes /\ LiveOnesAreRemembered /\ NoPrefetchTwice

\* The flights are a sequence of flights.
LEMMA FlightParts ==
  ASSUME PrefetchTypes
  PROVE  /\ DOMAIN flights = 1 .. Len(flights) /\ Len(flights) \in Nat
         /\ \A f \in DOMAIN flights :
              /\ flights[f] \in Flight /\ flights[f].mount \in Nat
              /\ flights[f].target \in Links
<1>1. flights \in Seq(Flight) BY DEF PrefetchTypes
<1>2. DOMAIN flights = 1 .. Len(flights) /\ Len(flights) \in Nat
      /\ \A f \in DOMAIN flights : flights[f] \in Flight
  BY <1>1
<1> QED BY <1>2 DEF Flight

\* Aborting ends the requests that the map holds, and changes nothing else about any.
LEMMA AbortLaws ==
  ASSUME PrefetchTypes, NEW ts \in SUBSET Links
  PROVE  /\ Aborted(ts) \in Seq(Flight) /\ Len(Aborted(ts)) = Len(flights)
         /\ \A f \in DOMAIN flights :
              /\ Aborted(ts)[f].mount = flights[f].mount
              /\ Aborted(ts)[f].target = flights[f].target
              /\ Aborted(ts)[f].live => flights[f].live
              /\ \A t \in Tracked(ts) : Aborted(ts)[f].live => inFlight[t] # f
<1>1. DOMAIN flights = 1 .. Len(flights) /\ Len(flights) \in Nat
      /\ \A f \in DOMAIN flights : flights[f] \in Flight
  BY FlightParts
<1>2. ASSUME NEW f \in DOMAIN flights
      PROVE  /\ Aborted(ts)[f] \in Flight
             /\ Aborted(ts)[f].mount = flights[f].mount
             /\ Aborted(ts)[f].target = flights[f].target
             /\ Aborted(ts)[f].live => flights[f].live
             /\ \A t \in Tracked(ts) : Aborted(ts)[f].live => inFlight[t] # f
  <2>1. flights[f] \in Flight BY <1>1
  <2>2. CASE f \in {inFlight[t] : t \in Tracked(ts)}
    <3>1. Aborted(ts)[f] = [flights[f] EXCEPT !.live = FALSE] BY <2>2 DEF Aborted
    <3> QED BY <2>1, <3>1 DEF Flight
  <2>3. CASE f \notin {inFlight[t] : t \in Tracked(ts)}
    <3>1. Aborted(ts)[f] = flights[f] BY <2>3 DEF Aborted
    <3> QED BY <2>1, <2>3, <3>1
  <2> QED BY <2>2, <2>3
<1>3. DOMAIN Aborted(ts) = 1 .. Len(flights) BY <1>1 DEF Aborted
<1>4. Aborted(ts) = [f \in 1 .. Len(flights) |-> Aborted(ts)[f]] BY <1>1 DEF Aborted
<1>5. Aborted(ts) \in [1 .. Len(flights) -> Flight] BY <1>1, <1>2, <1>4
<1>6. Aborted(ts) \in Seq(Flight) /\ Len(Aborted(ts)) = Len(flights)
  <2> DEFINE a == Aborted(ts)
  <2>1. a \in [1 .. Len(flights) -> Flight] BY <1>5
  <2> HIDE DEF a
  <2>2. a \in Seq(Flight) /\ Len(a) = Len(flights) BY <1>1, <2>1
  <2> QED BY <2>2 DEF a
<1> QED BY <1>2, <1>6

\* Cancelling: what leaves the set of those fired is no longer under way.
LEMMA CancelKeeps ==
  ASSUME PrefetchInv, NEW ts \in SUBSET Links, flights' = Aborted(ts),
         inFlight' = [l \in Links |-> IF l \in ts THEN 0 ELSE inFlight[l]],
         prefetchedOnce' = prefetchedOnce \ Tracked(ts), mounts' = mounts,
         targets' \subseteq Links
  PROVE  PrefetchInv'
<1>1. PrefetchTypes /\ LiveOnesAreRemembered /\ NoPrefetchTwice BY DEF PrefetchInv
<1>2. /\ flights' \in Seq(Flight) /\ Len(flights') = Len(flights)
      /\ \A f \in DOMAIN flights :
           /\ flights'[f].mount = flights[f].mount /\ flights'[f].target = flights[f].target
           /\ flights'[f].live => flights[f].live
           /\ \A t \in Tracked(ts) : flights'[f].live => inFlight[t] # f
  BY <1>1, AbortLaws
<1>3. DOMAIN flights' = DOMAIN flights
  <2>1. DOMAIN flights' = 1 .. Len(flights') BY <1>2
  <2> QED BY <1>1, <1>2, <2>1, FlightParts
<1>4. PrefetchTypes' BY <1>1, <1>2 DEF PrefetchTypes
<1>5. LiveOnesAreRemembered'
  <2> SUFFICES ASSUME NEW f \in DOMAIN flights
               PROVE  /\ flights'[f].mount <= mounts
                      /\ flights'[f].live /\ flights'[f].mount = mounts =>
                           /\ flights'[f].target \in prefetchedOnce'
                           /\ inFlight'[flights'[f].target] \in {0, f}
    BY <1>3 DEF LiveOnesAreRemembered, Current
  <2> DEFINE t == flights[f].target
  <2>1. t \in Links /\ flights'[f].target = t BY <1>1, <1>2, FlightParts
  <2>2. flights'[f].mount <= mounts BY <1>1, <1>2 DEF LiveOnesAreRemembered
  <2>3. ASSUME flights'[f].live, flights'[f].mount = mounts
        PROVE  t \in prefetchedOnce' /\ inFlight'[t] \in {0, f}
    <3>1. t \in prefetchedOnce /\ inFlight[t] \in {0, f}
      BY <1>1, <1>2, <2>3 DEF LiveOnesAreRemembered, Current
    <3>2. t \notin Tracked(ts) BY <1>2, <2>3, <3>1 DEF Tracked
    <3> QED BY <2>1, <3>1, <3>2
  <2> QED BY <2>1, <2>2, <2>3
<1>6. NoPrefetchTwice' BY <1>1, <1>2, <1>3 DEF NoPrefetchTwice
<1> QED BY <1>4, <1>5, <1>6 DEF PrefetchInv

\* A prefetch is fired for a target that has none under way.
LEMMA FireKeeps ==
  ASSUME PrefetchInv, NEW fallen \in SUBSET targets, NEW t \in targets \ fallen,
         Fire(t, fallen)
  PROVE  PrefetchInv'
<1>1. PrefetchTypes /\ LiveOnesAreRemembered /\ NoPrefetchTwice BY DEF PrefetchInv
<1> DEFINE next == Len(flights) + 1
           old == Aborted(fallen)
<1>2. PICK thrown \in BOOLEAN :
        /\ flights' = Append(old, [mount |-> mounts, target |-> t,
                                   live |-> ~thrown, settled |-> thrown])
        /\ inFlight' = [l \in Links |-> IF l \in fallen \/ (l = t /\ thrown) THEN 0
                                        ELSE IF l = t THEN next ELSE inFlight[l]]
  BY DEF Fire
<1>3. /\ t \notin prefetchedOnce /\ mounts' = mounts /\ targets' = targets
      /\ prefetchedOnce' = (prefetchedOnce \ Tracked(fallen)) \union {t}
  BY DEF Fire, MayPrefetch
<1>4. t \in Links /\ fallen \in SUBSET Links /\ mounts \in Nat /\ t \notin fallen
  BY <1>1 DEF PrefetchTypes
<1> DEFINE new == [mount |-> mounts, target |-> t, live |-> ~thrown, settled |-> thrown]
<1>5. new \in Flight /\ new.mount = mounts /\ new.target = t /\ new.live = ~thrown
  BY <1>4 DEF Flight
<1>6. /\ old \in Seq(Flight) /\ Len(old) = Len(flights)
      /\ \A f \in DOMAIN flights :
           /\ old[f].mount = flights[f].mount /\ old[f].target = flights[f].target
           /\ old[f].live => flights[f].live
           /\ \A l \in Tracked(fallen) : old[f].live => inFlight[l] # f
  BY <1>1, <1>4, AbortLaws
<1>7. flights' = Append(old, new) BY <1>2
<1>8. DOMAIN flights = 1 .. Len(flights) /\ Len(flights) \in Nat
      /\ \A f \in DOMAIN flights : flights[f].target \in Links
  BY <1>1, FlightParts
<1> HIDE DEF new, old
<1>9. /\ flights' \in Seq(Flight) /\ DOMAIN flights' = DOMAIN flights \union {next}
      /\ flights'[next] = new /\ \A f \in DOMAIN flights : flights'[f] = old[f] /\ f # next
  <2>1. flights' \in Seq(Flight) /\ Len(flights') = next BY <1>5, <1>6, <1>7, <1>8
  <2>2. DOMAIN flights' = 1 .. next BY <1>8, <2>1
  <2>3. DOMAIN flights' = DOMAIN flights \union {next} BY <1>8, <2>2
  <2>4. flights'[next] = new BY <1>5, <1>6, <1>7, <1>8
  <2>5. \A f \in DOMAIN flights : flights'[f] = old[f] /\ f # next BY <1>5, <1>6, <1>7, <1>8
  <2> QED BY <2>1, <2>3, <2>4, <2>5
<1>10. next \in Nat BY <1>8
<1> HIDE DEF next
<1>11. PrefetchTypes'
  <2>1. inFlight' \in [Links -> Nat] BY <1>1, <1>2, <1>10 DEF PrefetchTypes
  <2> QED BY <1>1, <1>3, <1>9, <2>1 DEF PrefetchTypes
<1>12. ASSUME NEW f \in DOMAIN flights
       PROVE  /\ flights'[f].mount <= mounts
              /\ flights'[f].live /\ flights'[f].mount = mounts =>
                   /\ flights'[f].target # t
                   /\ flights'[f].target \in prefetchedOnce'
                   /\ inFlight'[flights'[f].target] \in {0, f}
  <2> DEFINE l == flights[f].target
  <2>1. l \in Links /\ flights'[f].target = l BY <1>6, <1>8, <1>9
  <2>2. flights'[f].mount <= mounts BY <1>1, <1>6, <1>9 DEF LiveOnesAreRemembered
  <2>3. ASSUME flights'[f].live, flights'[f].mount = mounts
        PROVE  l # t /\ l \in prefetchedOnce' /\ inFlight'[l] \in {0, f}
    <3>1. l \in prefetchedOnce /\ inFlight[l] \in {0, f}
      BY <1>1, <1>6, <1>9, <2>3 DEF LiveOnesAreRemembered, Current
    <3>2. l \notin Tracked(fallen) BY <1>6, <1>9, <2>3, <3>1 DEF Tracked
    <3>3. l # t BY <1>3, <3>1
    <3> QED BY <1>2, <1>3, <2>1, <3>1, <3>2, <3>3
  <2> QED BY <2>1, <2>2, <2>3
<1>13. /\ flights'[next].mount = mounts /\ flights'[next].target = t
       /\ flights'[next].live => inFlight'[t] = next
  BY <1>2, <1>4, <1>5, <1>9
<1>14. LiveOnesAreRemembered'
  <2>1. ASSUME NEW f \in DOMAIN flights'
        PROVE  /\ flights'[f].mount <= mounts'
               /\ flights'[f].live /\ flights'[f].mount = mounts' =>
                    /\ flights'[f].target \in prefetchedOnce'
                    /\ inFlight'[flights'[f].target] \in {0, f}
    <3>1. CASE f \in DOMAIN flights BY <1>3, <1>12, <3>1
    <3>2. CASE f = next BY <1>3, <1>4, <1>13, <3>2
    <3> QED BY <1>9, <3>1, <3>2
  <2> QED BY <2>1 DEF LiveOnesAreRemembered, Current
<1>15. NoPrefetchTwice'
  <2> SUFFICES ASSUME NEW f \in DOMAIN flights', NEW g \in DOMAIN flights',
                      flights'[f].live, flights'[g].live,
                      flights'[f].target = flights'[g].target,
                      flights'[f].mount = flights'[g].mount
               PROVE  f = g
    BY DEF NoPrefetchTwice
  <2>1. CASE f \in DOMAIN flights /\ g \in DOMAIN flights
    BY <1>1, <1>6, <1>9, <2>1 DEF NoPrefetchTwice
  <2>2. CASE f = next /\ g \in DOMAIN flights BY <1>12, <1>13, <2>2
  <2>3. CASE g = next /\ f \in DOMAIN flights BY <1>12, <1>13, <2>3
  <2> QED BY <1>9, <2>1, <2>2, <2>3
<1> QED BY <1>11, <1>14, <1>15 DEF PrefetchInv

\* A request that is over leaves the map, whichever request the map held.
LEMMA SettledKeeps == ASSUME PrefetchInv, NEW f \in DOMAIN flights, Settled(f) PROVE PrefetchInv'
<1>1. PrefetchTypes /\ LiveOnesAreRemembered /\ NoPrefetchTwice BY DEF PrefetchInv
<1>2. /\ flights' = [flights EXCEPT ![f].settled = TRUE, ![f].live = FALSE]
      /\ UNCHANGED <<mounts, targets, prefetchedOnce>>
  BY DEF Settled
<1>3. /\ flights \in Seq(Flight) /\ \A g \in DOMAIN flights : flights[g] \in Flight
      /\ \A g \in DOMAIN flights : flights[g].target \in Links
  BY <1>1, FlightParts DEF PrefetchTypes
<1>4. /\ flights' \in Seq(Flight) /\ DOMAIN flights' = DOMAIN flights
      /\ ~flights'[f].live /\ flights'[f].mount = flights[f].mount
      /\ \A g \in DOMAIN flights : g # f => flights'[g] = flights[g]
  <2> DEFINE over == [flights[f] EXCEPT !.settled = TRUE, !.live = FALSE]
  <2>1. over \in Flight /\ ~over.live /\ over.mount = flights[f].mount BY <1>3 DEF Flight
  <2>2. flights' = [flights EXCEPT ![f] = over] BY <1>2
  <2> HIDE DEF over
  <2> QED BY <1>3, <2>1, <2>2
<1>5. /\ inFlight' \in [Links -> Nat]
      /\ \A l \in Links : inFlight'[l] \in {0, inFlight[l]}
  BY <1>1, <1>3 DEF Settled, PrefetchTypes
<1>6. PrefetchTypes' BY <1>1, <1>2, <1>4, <1>5 DEF PrefetchTypes
<1>7. LiveOnesAreRemembered'
  <2>1. ASSUME NEW g \in DOMAIN flights
        PROVE  /\ flights'[g].mount <= mounts
               /\ flights'[g].live /\ flights'[g].mount = mounts =>
                    /\ flights'[g].target \in prefetchedOnce
                    /\ inFlight'[flights'[g].target] \in {0, g}
    <3>1. CASE g = f BY <1>1, <1>4, <3>1 DEF LiveOnesAreRemembered
    <3>2. CASE g # f BY <1>1, <1>3, <1>4, <1>5, <3>2 DEF LiveOnesAreRemembered, Current
    <3> QED BY <3>1, <3>2
  <2> QED BY <1>2, <1>4, <2>1 DEF LiveOnesAreRemembered, Current
<1>8. NoPrefetchTwice' BY <1>1, <1>4 DEF NoPrefetchTwice
<1> QED BY <1>6, <1>7, <1>8 DEF PrefetchInv

\* A new mount forgets the flights of the one before it.
LEMMA StartEngineKeeps == ASSUME PrefetchInv, StartEngine PROVE PrefetchInv'
<1>1. PrefetchTypes /\ LiveOnesAreRemembered /\ NoPrefetchTwice BY DEF PrefetchInv
<1>2. /\ mounts' = mounts + 1 /\ flights' = flights /\ targets' \subseteq Links
      /\ inFlight' = [t \in Links |-> 0]
  BY DEF StartEngine, Blank
<1>3. mounts \in Nat /\ \A f \in DOMAIN flights : flights[f].mount \in Nat
  BY <1>1, FlightParts DEF PrefetchTypes
<1>4. PrefetchTypes' BY <1>1, <1>2, <1>3 DEF PrefetchTypes
<1>5. LiveOnesAreRemembered' BY <1>1, <1>2, <1>3 DEF LiveOnesAreRemembered, Current
<1>6. NoPrefetchTwice' BY <1>1, <1>2 DEF NoPrefetchTwice
<1> QED BY <1>4, <1>5, <1>6 DEF PrefetchInv

\* Every step of the engine keeps what it remembers.
LEMMA PrefetchStep == ASSUME PrefetchInv, [PrefetchNext]_prefetchVars PROVE PrefetchInv'
<1>1. CASE StartEngine BY <1>1, StartEngineKeeps
<1>2. CASE SetTargets \/ NextFrame \/ UNCHANGED prefetchVars
  <2>1. UNCHANGED <<mounts, inFlight, prefetchedOnce, flights>> /\ targets' \subseteq Links
    BY <1>2 DEF SetTargets, NextFrame, prefetchVars, engine, PrefetchInv, PrefetchTypes
  <2> QED BY <2>1 DEF PrefetchInv, PrefetchTypes, LiveOnesAreRemembered, Current,
                      NoPrefetchTwice
<1>3. CASE StopEngine \/ OnPointerDown
  <2>1. CancelAll BY <1>3 DEF StopEngine, OnPointerDown
  <2>2. /\ flights' = Aborted(Links) /\ mounts' = mounts /\ targets' = targets
        /\ inFlight' = [t \in Links |-> 0]
        /\ prefetchedOnce' = prefetchedOnce \ Tracked(Links)
    BY <2>1 DEF CancelAll
  <2>3. inFlight' = [l \in Links |-> IF l \in Links THEN 0 ELSE inFlight[l]] BY <2>2
  <2>4. Links \in SUBSET Links /\ targets' \subseteq Links
    BY <2>2 DEF PrefetchInv, PrefetchTypes
  <2> QED BY <2>2, <2>3, <2>4, CancelKeeps
<1>4. CASE HandleIntersection
  <2>1. PICK t \in targets : Fire(t, {}) BY <1>4 DEF HandleIntersection
  <2>2. {} \in SUBSET targets /\ t \in targets \ {} OBVIOUS
  <2> QED BY <2>1, <2>2, FireKeeps
<1>5. CASE Evaluate
  <2>1. PICK fallen \in SUBSET targets :
          \/ \E best \in targets \ fallen : Fire(best, fallen)
          \/ /\ flights' = Aborted(fallen)
             /\ inFlight' = [l \in Links |-> IF l \in fallen THEN 0 ELSE inFlight[l]]
             /\ prefetchedOnce' = prefetchedOnce \ Tracked(fallen)
             /\ UNCHANGED <<mounts, targets>>
    BY <1>5 DEF Evaluate
  <2>2. CASE \E best \in targets \ fallen : Fire(best, fallen) BY <2>2, FireKeeps
  <2>3. CASE /\ flights' = Aborted(fallen)
             /\ inFlight' = [l \in Links |-> IF l \in fallen THEN 0 ELSE inFlight[l]]
             /\ prefetchedOnce' = prefetchedOnce \ Tracked(fallen)
             /\ UNCHANGED <<mounts, targets>>
    <3>1. fallen \in SUBSET Links /\ targets' \subseteq Links
      BY <2>3 DEF PrefetchInv, PrefetchTypes
    <3> QED BY <2>3, <3>1, CancelKeeps
  <2> QED BY <2>1, <2>2, <2>3
<1>6. CASE \E f \in DOMAIN flights : Settled(f) BY <1>6, SettledKeeps
<1> QED BY <1>1, <1>2, <1>3, <1>4, <1>5, <1>6 DEF PrefetchNext

\* However late aborted requests settle, no engine has two requests for one target under way.
THEOREM OneRequestPerTarget == PrefetchSpec => []NoPrefetchTwice
<1>1. PrefetchInit => PrefetchInv
  <2> SUFFICES ASSUME PrefetchInit PROVE PrefetchInv OBVIOUS
  <2>1. flights = <<>> /\ DOMAIN flights = {} /\ flights \in Seq(Flight) BY DEF PrefetchInit
  <2>2. PrefetchTypes BY <2>1 DEF PrefetchInit, PrefetchTypes
  <2> QED BY <2>1, <2>2 DEF PrefetchInv, LiveOnesAreRemembered, NoPrefetchTwice
<1>2. PrefetchInv /\ [PrefetchNext]_prefetchVars => PrefetchInv' BY PrefetchStep
<1>3. PrefetchInv => NoPrefetchTwice BY DEF PrefetchInv
<1> QED BY <1>1, <1>2, <1>3, PTL DEF PrefetchSpec

-----------------------------------------------------------------------------
(* The dashboard's transactions: what their submissions know of them.      *)

BuiltTx ==
  [of : Submissions \union {"nobody"},
   call : {"nothing", "fund_org", "claim_payout", "allocate_payout"},
   sequence : Nat, until : Int]

Unsent == {"idle", "building", "simulating", "signing", "sending"}

SubState ==
  [step : Unsent \union {"polling", "done"}, handler : Handlers \union {"none"},
   tx : BuiltTx, attempts : Nat, nextPoll : Nat,
   asked : SUBSET {"SUCCESS", "FAILED", "NOT_FOUND"},
   told : {"nothing", "closed", "not sent", "refused", "unknown", "timed out",
           "confirmed", "failed"}]

TxTypes ==
  /\ now \in Nat /\ ahead \in 0 .. MaxAhead /\ sequence \in Nat
  /\ pool \in SUBSET BuiltTx /\ \A tx \in pool : tx.sequence >= 1
  /\ applied \in [success : SUBSET BuiltTx, failed : SUBSET BuiltTx]
  /\ sub \in [Submissions -> SubState]

\* A transaction that has not been applied and never will be.
Over(tx) == tx.sequence <= sequence \/ now > tx.until

\* The transaction of a submission: made for it, of a number and with a bound that its
\* account and its clock allow, and not on the way before it is sent.
OwnTx(s, b) ==
  /\ b.tx.sequence <= sequence + 1
  /\ b.step \in {"idle", "building"} => b.tx = NoTx
  /\ b.tx = NoTx \/ b.tx.of = s
  /\ b.step \in {"simulating", "signing", "sending"} =>
       b.tx.sequence >= 1 /\ b.tx.until <= now + ahead + TimeBound
  /\ b.step \in Unsent \/ b.told = "not sent" => \A tx \in pool : tx.of # s

\* The polls: each at least an interval after the one before.
Polling(b) ==
  /\ b.step \in Unsent => b.attempts = 0 /\ b.asked = {}
  /\ b.step = "polling" =>
       /\ b.attempts <= MaxAttempts
       /\ b.tx.until + PollEvery * b.attempts + PollEvery <= b.nextPoll + ahead + TimeBound

\* What was answered and told.
Answers(b) ==
  /\ "SUCCESS" \in b.asked \/ b.told = "confirmed" => b.tx \in applied.success
  /\ "FAILED" \in b.asked \/ b.told = "failed" => b.tx \in applied.failed
  /\ b.told \in {"refused", "timed out"} => Over(b.tx)
  /\ b.step # "done" => b.told \in {"nothing", "closed"}

Right(s, b) == OwnTx(s, b) /\ Polling(b) /\ Answers(b)

TxInv == TxTypes /\ \A s \in Submissions : Right(s, sub[s])

\* The fields of a submission and of its transaction.
LEMMA SubParts ==
  ASSUME NEW b \in SubState
  PROVE  /\ b.tx \in BuiltTx /\ b.tx.sequence \in Nat /\ b.tx.until \in Int
         /\ b.attempts \in Nat /\ b.nextPoll \in Nat
         /\ b.asked \subseteq {"SUCCESS", "FAILED", "NOT_FOUND"}
         /\ b.step \in Unsent \union {"polling", "done"}
BY DEF SubState, BuiltTx

\* The bounds on time are numbers.
LEMMA TimesAreNumbers ==
  /\ TimeBound \in Nat /\ PollEvery \in Nat /\ MaxAttempts \in Nat /\ MaxAhead \in Nat
BY PollingOutlivesTheTransaction

\* What the network did: time and numbers go up, what is applied stays, and at most one
\* transaction entered the pool.
Progress(tx) ==
  /\ now' \in Nat /\ now <= now' /\ ahead' = ahead
  /\ sequence' \in Nat /\ sequence <= sequence'
  /\ pool' \subseteq pool \union {tx}
  /\ applied' \in [success : SUBSET BuiltTx, failed : SUBSET BuiltTx]
  /\ applied.success \subseteq applied'.success /\ applied.failed \subseteq applied'.failed

\* What is over stays over.
LEMMA OverStays ==
  ASSUME TxTypes, NEW tx \in BuiltTx, Over(tx), NEW sent, Progress(sent)
  PROVE  Over(tx)'
<1>1. tx.sequence \in Nat /\ tx.until \in Int BY DEF BuiltTx
<1>2. /\ now \in Nat /\ sequence \in Nat /\ now' \in Nat /\ sequence' \in Nat
      /\ now <= now' /\ sequence <= sequence'
  BY DEF TxTypes, Progress
<1> QED BY <1>1, <1>2 DEF Over

\* A submission that did nothing stays right, whatever the network did to others.
LEMMA RightStays ==
  ASSUME TxTypes, NEW s \in Submissions, NEW b \in SubState, Right(s, b),
         NEW sent, Progress(sent),
         pool' \subseteq pool \/ sent.of # s
  PROVE  Right(s, b)'
<1>1. /\ b.tx \in BuiltTx /\ b.tx.sequence \in Nat /\ b.tx.until \in Int
  BY SubParts
<1>2. /\ now \in Nat /\ sequence \in Nat /\ now' \in Nat /\ sequence' \in Nat
      /\ now <= now' /\ sequence <= sequence' /\ ahead \in Nat /\ ahead' = ahead
      /\ TimeBound \in Nat
  BY TimesAreNumbers DEF TxTypes, Progress
<1>3. OwnTx(s, b)'
  <2>0. /\ b.tx.sequence <= sequence + 1
        /\ b.step \in {"simulating", "signing", "sending"} =>
             b.tx.sequence >= 1 /\ b.tx.until <= now + ahead + TimeBound
    BY DEF Right, OwnTx
  <2>1. b.tx.sequence <= sequence' + 1 BY <1>1, <1>2, <2>0
  <2>2. b.step \in {"simulating", "signing", "sending"} =>
          b.tx.sequence >= 1 /\ b.tx.until <= now' + ahead' + TimeBound
    BY <1>1, <1>2, <2>0
  <2>3. (\A tx \in pool : tx.of # s) => \A tx \in pool' : tx.of # s BY DEF Progress
  <2> QED BY <2>1, <2>2, <2>3 DEF Right, OwnTx
<1>4. Polling(b)' BY <1>2 DEF Right, Polling
<1>5. Answers(b)'
  <2>1. b.told \in {"refused", "timed out"} => Over(b.tx)'
    BY <1>1, OverStays DEF Right, Answers
  <2> QED BY <2>1 DEF Right, Answers, Progress
<1> QED BY <1>3, <1>4, <1>5 DEF Right

\* A step of one submission, with what it makes the network do.
LEMMA SubMoves ==
  ASSUME TxInv, NEW s \in Submissions, NEW next \in SubState,
         sub' = [sub EXCEPT ![s] = next], Right(s, next)',
         NEW sent \in BuiltTx, Progress(sent),
         pool' \subseteq pool \/ (sent.sequence >= 1 /\ sent.of = s)
  PROVE  TxInv'
<1>1. TxTypes /\ \A r \in Submissions : Right(r, sub[r]) BY DEF TxInv
<1>2. /\ sub' \in [Submissions -> SubState] /\ sub'[s] = next
      /\ \A r \in Submissions : r # s => sub'[r] = sub[r] /\ sub[r] \in SubState
  BY <1>1 DEF TxTypes
<1>3. TxTypes' BY <1>1, <1>2 DEF TxTypes, Progress
<1>4. ASSUME NEW r \in Submissions PROVE Right(r, sub[r])'
  <2>1. CASE r = s BY <1>2, <2>1 DEF Right, OwnTx, Polling, Answers, Over
  <2>2. CASE r # s
    <3>1. PICK b \in SubState : b = sub[r] /\ Right(r, b) /\ sub'[r] = b
      BY <1>1, <1>2, <2>2
    <3>2. Right(r, b)' BY <1>1, <2>2, <3>1, RightStays
    <3> QED BY <3>1, <3>2 DEF Right, OwnTx, Polling, Answers, Over
  <2> QED BY <2>1, <2>2
<1> QED BY <1>3, <1>4 DEF TxInv

\* A step of one submission that the network does not notice.
LEMMA QuietMove ==
  ASSUME TxInv, NEW s \in Submissions, NEW next \in SubState,
         sub' = [sub EXCEPT ![s] = next], UNCHANGED Network, Right(s, next)
  PROVE  TxInv'
<1>1. NoTx \in BuiltTx BY DEF NoTx, BuiltTx
<1>2. /\ now' = now /\ ahead' = ahead /\ sequence' = sequence /\ pool' = pool
      /\ applied' = applied
  BY DEF Network
<1>3. Progress(NoTx) BY <1>2 DEF Progress, TxInv, TxTypes
<1>4. Right(s, next)' BY <1>2 DEF Right, OwnTx, Polling, Answers, Over
<1> QED BY <1>1, <1>2, <1>3, <1>4, SubMoves

\* A step of the network alone.
LEMMA NetworkMoves ==
  ASSUME TxInv, sub' = sub, Progress(NoTx), pool' \subseteq pool
  PROVE  TxInv'
<1>1. TxTypes /\ \A r \in Submissions : Right(r, sub[r]) BY DEF TxInv
<1>2. TxTypes' BY <1>1 DEF TxTypes, Progress
<1>3. ASSUME NEW r \in Submissions PROVE Right(r, sub[r])'
  <2>1. PICK b \in SubState : b = sub[r] /\ Right(r, b) BY <1>1 DEF TxTypes
  <2>2. Right(r, b)' BY <1>1, <2>1, RightStays
  <2> QED BY <2>1, <2>2 DEF Right, OwnTx, Polling, Answers, Over
<1> QED BY <1>2, <1>3 DEF TxInv

\* Where a submission stands.
LEMMA Standing ==
  ASSUME TxInv, NEW s \in Submissions
  PROVE  /\ sub[s] \in SubState /\ Right(s, sub[s]) /\ sub \in [Submissions -> SubState]
         /\ now \in Nat /\ sequence \in Nat /\ ahead \in 0 .. MaxAhead
BY DEF TxInv, TxTypes

\* The steps of a submission before it is sent.
LEMMA PressKeeps ==
  ASSUME TxInv, NEW s \in Submissions, NEW handler, Press(s, handler)
  PROVE  TxInv'
<1>1. sub[s] \in SubState /\ Right(s, sub[s]) /\ sub \in [Submissions -> SubState]
  BY Standing
<1>2. /\ sub[s].step = "idle" /\ handler \in Handlers /\ UNCHANGED Network
      /\ sub' = [sub EXCEPT ![s].step = "building", ![s].handler = handler]
  BY DEF Press, At
<1> DEFINE next == [sub[s] EXCEPT !.step = "building", !.handler = handler]
<1>3. sub' = [sub EXCEPT ![s] = next] BY <1>1, <1>2
<1>4. next \in SubState BY <1>1, <1>2 DEF SubState, Unsent
<1>5. /\ next.step = "building" /\ next.tx = sub[s].tx /\ next.attempts = sub[s].attempts
      /\ next.asked = sub[s].asked /\ next.told = sub[s].told
  BY <1>1 DEF SubState
<1> HIDE DEF next
<1>6. Right(s, next) BY <1>1, <1>2, <1>5 DEF Right, OwnTx, Polling, Answers, Unsent
<1> QED BY <1>2, <1>3, <1>4, <1>6, QuietMove

\* A submission that gives up before it is sent.
LEMMA GivesUpKeeps == ASSUME TxInv, NEW s \in Submissions, GivesUp(s) PROVE TxInv'
<1>1. sub[s] \in SubState /\ Right(s, sub[s]) /\ sub \in [Submissions -> SubState]
  BY Standing
<1>2. /\ sub[s].step \in {"building", "simulating", "signing"} /\ UNCHANGED Network
      /\ sub' = [sub EXCEPT ![s].step = "done", ![s].told = "not sent", ![s].asked = {}]
  BY DEF GivesUp, Tell
<1> DEFINE next == [sub[s] EXCEPT !.step = "done", !.told = "not sent", !.asked = {}]
<1>3. sub' = [sub EXCEPT ![s] = next] BY <1>1, <1>2
<1>4. next \in SubState BY <1>1 DEF SubState
<1>5. /\ next.step = "done" /\ next.tx = sub[s].tx /\ next.asked = {}
      /\ next.told = "not sent"
  BY <1>1 DEF SubState
<1> HIDE DEF next
<1>6. Right(s, next) BY <1>1, <1>2, <1>5 DEF Right, OwnTx, Polling, Answers, Unsent
<1> QED BY <1>2, <1>3, <1>4, <1>6, QuietMove

\* A transaction is built on the sequence the account has now.
LEMMA BuildKeeps ==
  ASSUME TxInv, NEW s \in Submissions,
         NEW call \in {"fund_org", "claim_payout", "allocate_payout"}, Build(s, call)
  PROVE  TxInv'
<1>1. /\ sub[s] \in SubState /\ Right(s, sub[s]) /\ sub \in [Submissions -> SubState]
      /\ now \in Nat /\ sequence \in Nat /\ ahead \in Nat
  BY Standing, TimesAreNumbers
<1>2. PICK reported \in {sequence, sequence - 1} \cap Nat :
        sub' = [sub EXCEPT ![s].step = "simulating",
                           ![s].tx = [of |-> s, call |-> call, sequence |-> reported + 1,
                                      until |-> now + ahead + TimeBound]]
  BY DEF Build
<1>3. sub[s].step = "building" /\ UNCHANGED Network BY DEF Build, At
<1> DEFINE tx == [of |-> s, call |-> call, sequence |-> reported + 1,
                  until |-> now + ahead + TimeBound]
<1>4. /\ tx \in BuiltTx /\ tx.of = s /\ tx.sequence >= 1 /\ tx.sequence <= sequence + 1
      /\ tx.until <= now + ahead + TimeBound
  <2>1. reported + 1 \in Nat /\ reported + 1 >= 1 /\ reported + 1 <= sequence + 1 BY <1>1
  <2>2. now + ahead + TimeBound \in Int BY <1>1, TimesAreNumbers
  <2> QED BY <2>1, <2>2 DEF BuiltTx
<1>5. sub' = [sub EXCEPT ![s].step = "simulating", ![s].tx = tx] BY <1>2
<1> HIDE DEF tx
<1> DEFINE next == [sub[s] EXCEPT !.step = "simulating", !.tx = tx]
<1>6. sub' = [sub EXCEPT ![s] = next] BY <1>1, <1>5
<1>7. next \in SubState BY <1>1, <1>4 DEF SubState, Unsent
<1>8. /\ next.step = "simulating" /\ next.tx = tx /\ next.attempts = sub[s].attempts
      /\ next.asked = sub[s].asked /\ next.told = sub[s].told
  BY <1>1 DEF SubState
<1> HIDE DEF next
<1>9. Right(s, next)
  BY <1>1, <1>3, <1>4, <1>8 DEF Right, OwnTx, Polling, Answers, Unsent
<1> QED BY <1>3, <1>6, <1>7, <1>9, QuietMove

\* Simulating and signing only move the submission on.
LEMMA WalletStepKeeps ==
  ASSUME TxInv, NEW s \in Submissions, Simulated(s) \/ SignedByWallet(s)
  PROVE  TxInv'
<1>1. sub[s] \in SubState /\ Right(s, sub[s]) /\ sub \in [Submissions -> SubState]
  BY Standing
<1>2. PICK step \in {"signing", "sending"}, told \in {"closed", sub[s].told} :
        /\ sub[s].step \in {"simulating", "signing"} /\ UNCHANGED Network
        /\ sub' = [sub EXCEPT ![s] = [sub[s] EXCEPT !.step = step, !.told = told]]
  <2>1. CASE Simulated(s)
    <3>1. sub' = [sub EXCEPT ![s] = [sub[s] EXCEPT !.step = "signing", !.told = sub[s].told]]
      <4>1. [sub[s] EXCEPT !.step = "signing"]
              = [sub[s] EXCEPT !.step = "signing", !.told = sub[s].told]
        BY <1>1 DEF SubState
      <4> QED BY <2>1, <1>1, <4>1 DEF Simulated, Becomes
    <3> QED BY <2>1, <3>1 DEF Simulated, At
  <2>2. CASE SignedByWallet(s)
    <3> DEFINE told == IF sub[s].handler = "allocate" THEN "closed" ELSE sub[s].told
    <3>1. sub' = [sub EXCEPT ![s].step = "sending", ![s].told = told]
      BY <2>2, <1>1 DEF SignedByWallet
    <3>2. told \in {"closed", sub[s].told} OBVIOUS
    <3> HIDE DEF told
    <3>3. sub' = [sub EXCEPT ![s] = [sub[s] EXCEPT !.step = "sending", !.told = told]]
      BY <1>1, <3>1
    <3> QED BY <2>2, <3>2, <3>3 DEF SignedByWallet, At
  <2> QED BY <2>1, <2>2
<1> DEFINE next == [sub[s] EXCEPT !.step = step, !.told = told]
<1>3. next \in SubState BY <1>1, <1>2 DEF SubState, Unsent
<1>4. /\ next.step = step /\ next.tx = sub[s].tx /\ next.attempts = sub[s].attempts
      /\ next.asked = sub[s].asked /\ next.told = told
  BY <1>1 DEF SubState
<1>5. sub' = [sub EXCEPT ![s] = next] BY <1>2
<1> HIDE DEF next
<1>6. Right(s, next) BY <1>1, <1>2, <1>4 DEF Right, OwnTx, Polling, Answers, Unsent
<1> QED BY <1>2, <1>3, <1>5, <1>6, QuietMove

\* The network takes the transaction, or does not; what it refuses is over.
LEMMA Sending ==
  ASSUME TxInv, NEW s \in Submissions, sub[s].step = "sending",
         NEW answer, SendTransaction(sub[s].tx, answer) \/ UNCHANGED pool,
         UNCHANGED <<now, ahead, sequence, applied>>
  PROVE  /\ Progress(sub[s].tx) /\ sub[s].tx \in BuiltTx
         /\ sub[s].tx.sequence >= 1 /\ sub[s].tx.of = s
<1>1. sub[s] \in SubState /\ Right(s, sub[s]) BY Standing
<1>2. sub[s].tx \in BuiltTx /\ sub[s].tx.sequence >= 1 BY <1>1, SubParts DEF Right, OwnTx
<1>3. sub[s].tx.of = s
  <2>1. sub[s].tx # NoTx BY <1>2 DEF NoTx
  <2> QED BY <1>1, <2>1 DEF Right, OwnTx
<1>4. pool' \subseteq pool \union {sub[s].tx} BY DEF SendTransaction
<1>5. Progress(sub[s].tx) BY <1>4 DEF Progress, TxInv, TxTypes
<1> QED BY <1>2, <1>3, <1>5

\* A transaction reaches the network, which takes it or not.
LEMMA SendKeeps == ASSUME TxInv, NEW s \in Submissions, Send(s) PROVE TxInv'
<1>1. /\ sub[s] \in SubState /\ Right(s, sub[s]) /\ sub \in [Submissions -> SubState]
      /\ now \in Nat /\ sequence \in Nat /\ ahead \in Nat
  BY Standing, TimesAreNumbers
<1>2. sub[s].step = "sending" /\ UNCHANGED <<now, ahead, sequence, applied>> BY DEF Send, At
<1>3. PICK answer \in {"PENDING", "TRY_AGAIN_LATER", "ERROR"} :
        /\ SendTransaction(sub[s].tx, answer)
        /\ IF answer = "ERROR" THEN Tell(s, "refused")
           ELSE sub' = [sub EXCEPT ![s].step = "polling", ![s].nextPoll = now + PollEvery]
  BY DEF Send
<1>4. /\ Progress(sub[s].tx) /\ sub[s].tx \in BuiltTx
      /\ sub[s].tx.sequence >= 1 /\ sub[s].tx.of = s
  BY <1>2, <1>3, Sending
<1>5. /\ sub[s].tx.sequence \in Nat /\ sub[s].tx.until \in Int
      /\ sub[s].tx.sequence <= sequence + 1 /\ sub[s].attempts = 0 /\ sub[s].asked = {}
      /\ sub[s].told \in {"nothing", "closed"}
      /\ sub[s].tx.until <= now + ahead + TimeBound
  BY <1>1, <1>2, SubParts DEF Right, OwnTx, Polling, Answers, Unsent
<1>6. CASE answer = "ERROR"
  <2> DEFINE next == [sub[s] EXCEPT !.step = "done", !.told = "refused", !.asked = {}]
  <2>1. sub' = [sub EXCEPT ![s] = next] BY <1>1, <1>3, <1>6 DEF Tell
  <2>2. next \in SubState BY <1>1 DEF SubState
  <2>3. PICK b \in SubState :
          /\ sub' = [sub EXCEPT ![s] = b]
          /\ b.step = "done" /\ b.tx = sub[s].tx /\ b.asked = {} /\ b.told = "refused"
    <3>1. next.step = "done" /\ next.tx = sub[s].tx /\ next.asked = {} /\ next.told = "refused"
      BY <1>1 DEF SubState
    <3> HIDE DEF next
    <3> QED BY <2>1, <2>2, <3>1
  <2>4. Over(b.tx)
    <3>1. ~MayStillApply(sub[s].tx) BY <1>3, <1>6 DEF SendTransaction
    <3> QED BY <1>1, <1>5, <2>3, <3>1 DEF MayStillApply, Over
  <2>5. Over(b.tx)' BY <1>2, <2>4 DEF Over
  <2>6. OwnTx(s, b)' BY <1>1, <1>2, <2>3 DEF Right, OwnTx, Unsent
  <2>7. Right(s, b)'
    <3>1. Polling(b)' BY <2>3 DEF Polling, Unsent
    <3>2. Answers(b)' BY <2>3, <2>5 DEF Answers
    <3> QED BY <2>6, <3>1, <3>2 DEF Right
  <2> QED BY <1>4, <2>3, <2>7, SubMoves
<1>7. CASE answer # "ERROR"
  <2> DEFINE poll == now + PollEvery
             next == [sub[s] EXCEPT !.step = "polling", !.nextPoll = poll]
  <2>1. sub' = [sub EXCEPT ![s].step = "polling", ![s].nextPoll = poll] BY <1>3, <1>7
  <2>2. poll \in Nat BY <1>1, TimesAreNumbers
  <2>3. sub[s].tx.until + PollEvery * 0 + PollEvery <= poll + ahead + TimeBound
        /\ 0 <= MaxAttempts
    BY <1>1, <1>5, TimesAreNumbers
  <2> HIDE DEF poll
  <2>4. sub' = [sub EXCEPT ![s] = next] /\ next \in SubState BY <1>1, <2>1, <2>2 DEF SubState
  <2>5. PICK b \in SubState :
          /\ sub' = [sub EXCEPT ![s] = b]
          /\ b.step = "polling" /\ b.tx = sub[s].tx /\ b.asked = {}
          /\ b.told = sub[s].told /\ b.attempts = 0 /\ b.nextPoll = poll
    <3>1. /\ next.step = "polling" /\ next.tx = sub[s].tx /\ next.asked = {}
          /\ next.told = sub[s].told /\ next.attempts = 0 /\ next.nextPoll = poll
      BY <1>1, <1>5 DEF SubState
    <3> HIDE DEF next
    <3> QED BY <2>4, <3>1
  <2>6. OwnTx(s, b)' BY <1>1, <1>2, <1>5, <2>5 DEF Right, OwnTx, Unsent
  <2>7. Polling(b)' BY <1>2, <2>3, <2>5 DEF Polling, Unsent
  <2>8. Answers(b)' BY <1>5, <2>5 DEF Answers
  <2> QED BY <1>4, <2>5, <2>6, <2>7, <2>8, SubMoves DEF Right
<1> QED BY <1>6, <1>7

\* The answer to a submission is lost, whatever the network made of it.
LEMMA LostKeeps == ASSUME TxInv, NEW s \in Submissions, SendIsLost(s) PROVE TxInv'
<1>1. sub[s] \in SubState /\ Right(s, sub[s]) /\ sub \in [Submissions -> SubState]
  BY Standing
<1>2. /\ sub[s].step = "sending" /\ UNCHANGED <<now, ahead, sequence, applied>>
      /\ sub' = [sub EXCEPT ![s].step = "done", ![s].told = "unknown", ![s].asked = {}]
  BY DEF SendIsLost, At, Tell
<1>3. PICK answer \in {"PENDING", "TRY_AGAIN_LATER", "ERROR"} :
        SendTransaction(sub[s].tx, answer) \/ UNCHANGED pool
  BY DEF SendIsLost
<1>4. /\ Progress(sub[s].tx) /\ sub[s].tx \in BuiltTx
      /\ sub[s].tx.sequence >= 1 /\ sub[s].tx.of = s
  BY <1>2, <1>3, Sending
<1> DEFINE next == [sub[s] EXCEPT !.step = "done", !.told = "unknown", !.asked = {}]
<1>5. sub' = [sub EXCEPT ![s] = next] /\ next \in SubState BY <1>1, <1>2 DEF SubState
<1>6. PICK b \in SubState :
        /\ sub' = [sub EXCEPT ![s] = b]
        /\ b.step = "done" /\ b.tx = sub[s].tx /\ b.asked = {} /\ b.told = "unknown"
  <2>1. next.step = "done" /\ next.tx = sub[s].tx /\ next.asked = {} /\ next.told = "unknown"
    BY <1>1 DEF SubState
  <2> HIDE DEF next
  <2> QED BY <1>5, <2>1
<1>7. OwnTx(s, b)' BY <1>1, <1>2, <1>6 DEF Right, OwnTx, Unsent
<1>8. Right(s, b)'
  <2>1. Polling(b)' BY <1>6 DEF Polling, Unsent
  <2>2. Answers(b)' BY <1>6 DEF Answers
  <2> QED BY <1>7, <2>1, <2>2 DEF Right
<1> QED BY <1>4, <1>6, <1>8, SubMoves

\* The last poll comes after the bound of the transaction.
LEMMA PollKeeps == ASSUME TxInv, NEW s \in Submissions, Poll(s) PROVE TxInv'
<1>1. /\ sub[s] \in SubState /\ Right(s, sub[s]) /\ sub \in [Submissions -> SubState]
      /\ now \in Nat /\ sequence \in Nat /\ ahead \in 0 .. MaxAhead
  BY Standing
<1>2. sub[s].step = "polling" /\ now >= sub[s].nextPoll /\ UNCHANGED Network BY DEF Poll, At
<1>3. /\ sub[s].tx.until \in Int /\ sub[s].attempts \in Nat /\ sub[s].nextPoll \in Nat
      /\ sub[s].asked \subseteq {"SUCCESS", "FAILED", "NOT_FOUND"}
  BY <1>1, SubParts
<1>4. /\ sub[s].attempts <= MaxAttempts
      /\ sub[s].tx.until + PollEvery * sub[s].attempts + PollEvery
           <= sub[s].nextPoll + ahead + TimeBound
  BY <1>1, <1>2 DEF Right, Polling
<1> DEFINE p == PollEvery * sub[s].attempts
<1>5. p \in Nat /\ sub[s].attempts <= MaxAttempts BY <1>3, <1>4, TimesAreNumbers
<1>6. CASE sub[s].attempts + 1 > MaxAttempts
  <2>1. sub[s].attempts = MaxAttempts
    <3> HIDE DEF p
    <3> QED BY <1>3, <1>5, <1>6, TimesAreNumbers
  <2>2. TimeBound + MaxAhead < p + PollEvery
    <3>1. PollEvery * (MaxAttempts + 1) = PollEvery * MaxAttempts + PollEvery
      BY TimesAreNumbers
    <3> QED BY <2>1, <3>1, PollingOutlivesTheTransaction
  <2>3. sub[s].tx.until + p + PollEvery <= sub[s].nextPoll + ahead + TimeBound BY <1>4
  <2> HIDE DEF p
  <2>4. now > sub[s].tx.until BY <1>1, <1>2, <1>3, <1>5, <2>2, <2>3, TimesAreNumbers
  <2> DEFINE next == [sub[s] EXCEPT !.step = "done", !.told = "timed out", !.asked = {}]
  <2>5. sub' = [sub EXCEPT ![s] = next] /\ next \in SubState
    BY <1>1, <1>6 DEF Poll, Tell, SubState
  <2>6. next.step = "done" /\ next.tx = sub[s].tx /\ next.asked = {} /\ next.told = "timed out"
    BY <1>1 DEF SubState
  <2> HIDE DEF next
  <2>7. Right(s, next)
    BY <1>1, <2>4, <2>6 DEF Right, OwnTx, Polling, Answers, Unsent, Over
  <2> QED BY <1>2, <2>5, <2>7, QuietMove
<1>7. CASE ~(sub[s].attempts + 1 > MaxAttempts)
  <2> DEFINE attempts == sub[s].attempts + 1
             poll == now + PollEvery
             answer == TransactionStatus(sub[s].tx)
             asked == sub[s].asked \union {answer}
             next == [sub[s] EXCEPT !.attempts = attempts, !.nextPoll = poll, !.asked = asked]
  <2>1. sub' = [sub EXCEPT ![s].attempts = attempts, ![s].nextPoll = poll, ![s].asked = asked]
    BY <1>1, <1>7 DEF Poll
  <2>2. /\ attempts \in Nat /\ attempts <= MaxAttempts /\ poll \in Nat
        /\ PollEvery * attempts = p + PollEvery
    <3>1. attempts \in Nat /\ attempts <= MaxAttempts /\ poll \in Nat
      <4> HIDE DEF p
      <4> QED BY <1>1, <1>3, <1>7, TimesAreNumbers
    <3>2. \A a, b \in Nat : b * (a + 1) = b * a + b OBVIOUS
    <3> QED BY <1>3, <3>1, <3>2, TimesAreNumbers
  <2>3. sub[s].tx.until + PollEvery * attempts + PollEvery <= poll + ahead + TimeBound
    <3>1. sub[s].tx.until + p + PollEvery <= sub[s].nextPoll + ahead + TimeBound BY <1>4
    <3>2. poll = now + PollEvery OBVIOUS
    <3> HIDE DEF p, poll, attempts
    <3> QED BY <1>1, <1>2, <1>3, <1>5, <2>2, <3>1, <3>2, TimesAreNumbers
  <2>4. /\ answer \in {"SUCCESS", "FAILED", "NOT_FOUND"}
        /\ answer = "SUCCESS" => sub[s].tx \in applied.success
        /\ answer = "FAILED" => sub[s].tx \in applied.failed
    BY DEF TransactionStatus
  <2>5. /\ asked \subseteq {"SUCCESS", "FAILED", "NOT_FOUND"}
        /\ "SUCCESS" \in asked => sub[s].tx \in applied.success
        /\ "FAILED" \in asked => sub[s].tx \in applied.failed
    BY <1>1, <1>3, <2>4 DEF Right, Answers
  <2> HIDE DEF attempts, poll, asked, answer
  <2>6. sub' = [sub EXCEPT ![s] = next] /\ next \in SubState
    BY <1>1, <2>1, <2>2, <2>5 DEF SubState
  <2>7. /\ next.step = "polling" /\ next.tx = sub[s].tx /\ next.asked = asked
        /\ next.told = sub[s].told /\ next.attempts = attempts /\ next.nextPoll = poll
    BY <1>1, <1>2 DEF SubState
  <2> HIDE DEF next
  <2>8. OwnTx(s, next) BY <1>1, <1>2, <2>7 DEF Right, OwnTx, Unsent
  <2>9. Polling(next) BY <2>2, <2>3, <2>7 DEF Polling, Unsent
  <2>10. Answers(next) BY <1>1, <1>2, <2>5, <2>7 DEF Right, Answers
  <2> QED BY <1>2, <2>6, <2>8, <2>9, <2>10, QuietMove DEF Right
<1> QED BY <1>6, <1>7

\* A poll is answered with what the network knew when it was asked.
LEMMA AnsweredKeeps ==
  ASSUME TxInv, NEW s \in Submissions, NEW answer \in sub[s].asked, Answered(s, answer)
  PROVE  TxInv'
<1>1. sub[s] \in SubState /\ Right(s, sub[s]) /\ sub \in [Submissions -> SubState]
  BY Standing
<1>2. sub[s].step = "polling" /\ UNCHANGED Network BY DEF Answered, At
<1>3. answer \in {"SUCCESS", "FAILED", "NOT_FOUND"} BY <1>1, SubParts
<1>4. ASSUME NEW verdict \in {"confirmed", "failed"}, Tell(s, verdict),
             verdict = "confirmed" => sub[s].tx \in applied.success,
             verdict = "failed" => sub[s].tx \in applied.failed
      PROVE  TxInv'
  <2> DEFINE next == [sub[s] EXCEPT !.step = "done", !.told = verdict, !.asked = {}]
  <2>1. sub' = [sub EXCEPT ![s] = next] BY <1>1, <1>4 DEF Tell
  <2>2. next \in SubState BY <1>1 DEF SubState
  <2>3. next.step = "done" /\ next.tx = sub[s].tx /\ next.asked = {} /\ next.told = verdict
    BY <1>1 DEF SubState
  <2> HIDE DEF next
  <2>4. Right(s, next)
    BY <1>1, <1>4, <2>3 DEF Right, OwnTx, Polling, Answers, Unsent
  <2> QED BY <1>2, <2>1, <2>2, <2>4, QuietMove
<1>5. CASE answer = "SUCCESS"
  <2>1. Tell(s, "confirmed") BY <1>5 DEF Answered
  <2>2. sub[s].tx \in applied.success BY <1>1, <1>5 DEF Right, Answers
  <2> QED BY <1>4, <2>1, <2>2
<1>6. CASE answer = "FAILED"
  <2>1. Tell(s, "failed") BY <1>6 DEF Answered
  <2>2. sub[s].tx \in applied.failed BY <1>1, <1>6 DEF Right, Answers
  <2> QED BY <1>4, <2>1, <2>2
<1>7. CASE answer = "NOT_FOUND"
  <2> DEFINE asked == sub[s].asked \ {answer}
             next == [sub[s] EXCEPT !.asked = asked]
  <2>1. sub' = [sub EXCEPT ![s].asked = asked] BY <1>1, <1>7 DEF Answered
  <2>2. asked \subseteq sub[s].asked /\ asked \subseteq {"SUCCESS", "FAILED", "NOT_FOUND"}
    BY <1>1, SubParts
  <2> HIDE DEF asked
  <2>3. sub' = [sub EXCEPT ![s] = next] /\ next \in SubState BY <1>1, <2>1, <2>2 DEF SubState
  <2>4. /\ next.step = "polling" /\ next.tx = sub[s].tx /\ next.asked = asked
        /\ next.told = sub[s].told /\ next.attempts = sub[s].attempts
        /\ next.nextPoll = sub[s].nextPoll
    BY <1>1, <1>2 DEF SubState
  <2> HIDE DEF next
  <2>5. Right(s, next)
    BY <1>1, <1>2, <2>2, <2>4 DEF Right, OwnTx, Polling, Answers, Unsent
  <2> QED BY <1>2, <2>3, <2>5, QuietMove
<1> QED BY <1>3, <1>5, <1>6, <1>7

\* The steps of the network.
LEMMA LedgerKeeps ==
  ASSUME TxInv, NEW tx \in pool,
         Expires(tx) \/ \E outcome \in {"success", "failed"} : ClosesLedger(tx, outcome)
  PROVE  TxInv'
<1>1. /\ tx \in BuiltTx /\ now \in Nat /\ sequence \in Nat /\ ahead \in 0 .. MaxAhead
      /\ applied \in [success : SUBSET BuiltTx, failed : SUBSET BuiltTx]
  BY DEF TxInv, TxTypes
<1>2. /\ sub' = sub /\ now' = now /\ ahead' = ahead /\ pool' \subseteq pool
      /\ sequence' \in {sequence, sequence + 1}
      /\ \/ applied' = applied
         \/ \E outcome \in {"success", "failed"} :
              applied' = [applied EXCEPT ![outcome] = @ \cup {tx}]
  BY DEF Expires, ClosesLedger, MayStillApply
<1>3. /\ applied' \in [success : SUBSET BuiltTx, failed : SUBSET BuiltTx]
      /\ applied.success \subseteq applied'.success /\ applied.failed \subseteq applied'.failed
  BY <1>1, <1>2
<1>4. Progress(NoTx) BY <1>1, <1>2, <1>3 DEF Progress
<1> QED BY <1>2, <1>4, NetworkMoves

\* Time passes, and transactions run out of it.
LEMMA TimeKeeps == ASSUME TxInv, TimePasses PROVE TxInv'
<1>1. now \in Nat /\ now' = now + 1 BY DEF TxInv, TxTypes, TimePasses
<1>2. Progress(NoTx) /\ sub' = sub /\ pool' \subseteq pool
  BY <1>1 DEF TimePasses, Progress, TxInv, TxTypes
<1> QED BY <1>2, NetworkMoves

\* Every step keeps what submissions know of their transactions.
LEMMA TxStep == ASSUME TxInv, [TxNext]_txVars PROVE TxInv'
<1>1. CASE TimePasses BY <1>1, TimeKeeps
<1>2. CASE UNCHANGED txVars
  BY <1>2 DEF txVars, TxInv, TxTypes, Right, OwnTx, Polling, Answers, Over
<1>3. ASSUME NEW tx \in pool,
             Expires(tx) \/ \E outcome \in {"success", "failed"} : ClosesLedger(tx, outcome)
      PROVE  TxInv'
  BY <1>3, LedgerKeeps
<1>4. ASSUME NEW s \in Submissions,
             \/ FundOrg(s) \/ HandleClaim(s) \/ AllocateSubmit(s)
             \/ BuildFundOrgTransaction(s) \/ BuildClaimPayoutTransaction(s)
             \/ BuildAllocatePayoutTransaction(s)
      PROVE  TxInv'
  <2>1. CASE \E handler : Press(s, handler) BY <2>1, PressKeeps
  <2>2. CASE \E call \in {"fund_org", "claim_payout", "allocate_payout"} : Build(s, call)
    BY <2>2, BuildKeeps
  <2> QED BY <1>4, <2>1, <2>2
      DEF FundOrg, HandleClaim, AllocateSubmit, BuildFundOrgTransaction,
          BuildClaimPayoutTransaction, BuildAllocatePayoutTransaction
<1>5. ASSUME NEW s \in Submissions,
             \/ Simulated(s) \/ SignedByWallet(s) \/ GivesUp(s)
             \/ Send(s) \/ SendIsLost(s) \/ Poll(s)
             \/ \E answer \in sub[s].asked : Answered(s, answer)
      PROVE  TxInv'
  BY <1>5, WalletStepKeeps, GivesUpKeeps, SendKeeps, LostKeeps, PollKeeps, AnsweredKeeps
<1> QED BY <1>1, <1>2, <1>3, <1>4, <1>5 DEF TxNext

\* Nothing has been submitted at first.
LEMMA TxStart == ASSUME TxInit PROVE TxInv
<1>1. NoTx \in BuiltTx BY DEF NoTx, BuiltTx
<1>2. Idle \in SubState BY <1>1 DEF Idle, SubState, Unsent
<1>3. TxTypes BY <1>2 DEF TxInit, TxTypes
<1>4. NoTx.sequence = 0 BY DEF NoTx
<1>5. ASSUME NEW s \in Submissions PROVE Right(s, Idle)
  BY <1>4 DEF TxInit, Idle, Right, OwnTx, Polling, Answers, Unsent
<1> QED BY <1>3, <1>5 DEF TxInit, TxInv

\* What the user is told of a transaction is what becomes of it.
THEOREM VerdictsAreFinal == TxSpec => []VerdictIsFinal
<1>1. TxInit => TxInv BY TxStart
<1>2. TxInv /\ [TxNext]_txVars => TxInv' BY TxStep
<1>3. TxInv => VerdictIsFinal
  <2> SUFFICES ASSUME TxInv, NEW s \in Submissions
               PROVE  /\ sub[s].told = "confirmed" => sub[s].tx \in applied.success
                      /\ sub[s].told = "failed" => sub[s].tx \in applied.failed
                      /\ sub[s].told \in {"refused", "timed out", "not sent"} =>
                           (sub[s].tx \in pool => ~MayStillApply(sub[s].tx))
    BY DEF VerdictIsFinal
  <2>1. sub[s] \in SubState /\ Right(s, sub[s]) /\ now \in Nat /\ sequence \in Nat
    BY Standing
  <2>2. sub[s].tx.sequence \in Nat /\ sub[s].tx.until \in Int BY <2>1, SubParts
  <2>3. Over(sub[s].tx) => ~MayStillApply(sub[s].tx) BY <2>1, <2>2 DEF Over, MayStillApply
  <2>4. sub[s].told = "not sent" => sub[s].tx \notin pool
    <3>1. NoTx \notin pool
      <4>1. NoTx.sequence = 0 /\ ~(0 >= 1) BY DEF NoTx
      <4> QED BY <4>1 DEF TxInv, TxTypes
    <3> QED BY <2>1, <3>1 DEF Right, OwnTx
  <2> QED BY <2>1, <2>3, <2>4 DEF Right, Answers
<1> QED BY <1>1, <1>2, <1>3, PTL DEF TxSpec

-----------------------------------------------------------------------------
(* The oracle: the ring holds the latest ticks, and what they say.         *)

Entry == [obs : PriceObservation, live : Int]

OracleTypes ==
  /\ capacity \in 0 .. 100 /\ count \in 0 .. capacity
  /\ head \in Nat /\ (capacity > 0 => head < capacity)
  /\ ledger \in Nat /\ time \in Nat
  /\ ticks \in Seq(PriceObservation)
  /\ DOMAIN ring = 0 .. capacity - 1
  /\ \A s \in DOMAIN ring : ring[s] = NoObservation \/ ring[s] \in Entry
  /\ capacity = 0 => ticks = <<>>

\* The ring holds the latest ticks, as many as it has room for.
RingHoldsTicks ==
  /\ count <= Len(ticks) /\ (count < capacity => count = Len(ticks))
  /\ \A i \in 0 .. count - 1 :
       ring[Slot(i)] \in Entry /\ ring[Slot(i)].obs = ticks[Len(ticks) - i]

\* Ticks are recorded one after the other, each charging the time since the last one to
\* the price of that one.
TicksFollow ==
  /\ \A k \in DOMAIN ticks : ticks[k].time <= time /\ ticks[k].ledger <= ledger
  /\ \A j, k \in DOMAIN ticks :
       j < k => ticks[j].time < ticks[k].time /\ ticks[j].ledger <= ticks[k].ledger
  /\ \A k \in DOMAIN ticks : k > 1 =>
       ticks[k].cumulative = ticks[k - 1].cumulative
                               + ticks[k - 1].price * (ticks[k].time - ticks[k - 1].time)

\* Ticks that were in the ring together are calm.
TicksAreCalm ==
  \A j, k \in DOMAIN ticks :
    j < k /\ k - j < capacity /\ ticks[j].ledger >= ticks[k].ledger - FlashWindow
      => DeviationBps(ticks[k].price, ticks[j].price) <= FlashBps

OracleInv == OracleTypes /\ RingHoldsTicks /\ TicksFollow /\ TicksAreCalm

\* Remainders of numbers below twice the divisor.
LEMMA SmallRemainder ==
  ASSUME NEW x \in Nat, NEW c \in Nat \ {0}, x < c + c
  PROVE  x % c = IF x < c THEN x ELSE x - c
<1> DEFINE q == x \div c
           r == x % c
<1>1. q \in Nat /\ x = c * q + r /\ r \in 0 .. c - 1 OBVIOUS
<1> HIDE DEF q, r
<1>2. CASE q = 0 BY <1>1, <1>2 DEF r
<1>3. CASE q = 1 BY <1>1, <1>3 DEF r
<1>4. CASE q # 0 /\ q # 1
  <2>1. PICK p \in Nat : q = p + 2
    <3>1. q - 2 \in Nat /\ q = (q - 2) + 2 BY <1>1, <1>4
    <3> QED BY <3>1
  <2>2. c * (p + 2) = c * p + c + c /\ c * p \in Nat OBVIOUS
  <2> DEFINE m == c * p
  <2>3. x = m + c + c + r /\ m \in Nat BY <1>1, <2>1, <2>2
  <2> HIDE DEF m
  <2> QED BY <1>1, <2>3
<1> QED BY <1>2, <1>3, <1>4

\* Where the observation of an age is, counting back from the head round the ring.
LEMMA RingLaw ==
  ASSUME NEW c \in Nat \ {0}, NEW h \in 0 .. c - 1, NEW i \in 0 .. c - 1
  PROVE  ((IF h = 0 THEN c - 1 ELSE h - 1) + c - i) % c
            = IF h > i THEN h - 1 - i ELSE h + c - 1 - i
<1> DEFINE newest == IF h = 0 THEN c - 1 ELSE h - 1
           x == newest + c - i
<1>1. newest \in 0 .. c - 1 OBVIOUS
<1>2. x \in Nat /\ x < c + c BY <1>1
<1>3. x = IF h = 0 THEN c + c - 1 - i ELSE h + c - 1 - i OBVIOUS
<1> HIDE DEF newest
<1> HIDE DEF x
<1>4. x % c = IF x < c THEN x ELSE x - c BY <1>2, SmallRemainder
<1>5. x % c = IF h > i THEN h - 1 - i ELSE h + c - 1 - i BY <1>2, <1>3, <1>4
<1> QED BY <1>5 DEF x, newest

\* The same of the ring as it is.
LEMMA SlotLaw ==
  ASSUME OracleTypes, capacity > 0, NEW i \in 0 .. capacity - 1
  PROVE  /\ Slot(i) \in 0 .. capacity - 1
         /\ Slot(i) = IF head > i THEN head - 1 - i ELSE head + capacity - 1 - i
<1>1. capacity \in Nat \ {0} /\ head \in 0 .. capacity - 1 BY DEF OracleTypes
<1>2. Slot(i) = IF head > i THEN head - 1 - i ELSE head + capacity - 1 - i
  BY <1>1, RingLaw DEF Slot, NewestIndex
<1> QED BY <1>1, <1>2

\* The fields of a tick.
LEMMA TickParts ==
  ASSUME OracleTypes
  PROVE  /\ Len(ticks) \in Nat /\ DOMAIN ticks = 1 .. Len(ticks)
         /\ \A k \in DOMAIN ticks :
              /\ ticks[k] \in PriceObservation
              /\ ticks[k].time \in Nat /\ ticks[k].ledger \in Nat
              /\ ticks[k].price \in Nat \ {0} /\ ticks[k].cumulative \in Nat
<1>1. ticks \in Seq(PriceObservation) BY DEF OracleTypes
<1>2. Len(ticks) \in Nat /\ DOMAIN ticks = 1 .. Len(ticks)
      /\ \A k \in DOMAIN ticks : ticks[k] \in PriceObservation
  BY <1>1
<1> QED BY <1>2 DEF PriceObservation

\* What an age stands for.
LEMMA AgeOfTick ==
  ASSUME OracleInv, NEW i \in 0 .. count - 1
  PROVE  /\ Obs(i) = ticks[Len(ticks) - i] /\ Len(ticks) - i \in DOMAIN ticks
         /\ ring[Slot(i)] \in Entry /\ i \in Nat
<1>1. count \in Nat /\ count <= Len(ticks) /\ Len(ticks) \in Nat
      /\ DOMAIN ticks = 1 .. Len(ticks)
  BY TickParts DEF OracleInv, OracleTypes, RingHoldsTicks
<1>2. i \in Nat /\ Len(ticks) - i \in 1 .. Len(ticks) BY <1>1
<1>3. ring[Slot(i)] \in Entry /\ ring[Slot(i)].obs = ticks[Len(ticks) - i]
  BY DEF OracleInv, RingHoldsTicks
<1> QED BY <1>1, <1>2, <1>3 DEF Obs

\* Loading observations changes how long they live, and nothing else of them.
LEMMA LoadsKeep ==
  ASSUME OracleInv, NEW ages, ages \subseteq 0 .. count - 1
  PROVE  /\ DOMAIN Touched(ages) = DOMAIN ring
         /\ \A s \in DOMAIN ring : Touched(ages)[s] = NoObservation \/ Touched(ages)[s] \in Entry
         /\ \A s \in DOMAIN ring : ring[s] \in Entry =>
              Touched(ages)[s] \in Entry /\ Touched(ages)[s].obs = ring[s].obs
<1>1. DOMAIN Touched(ages) = DOMAIN ring BY DEF Touched
<1>2. ASSUME NEW e \in Entry
      PROVE  [e EXCEPT !.live = Extended(@)] \in Entry
             /\ [e EXCEPT !.live = Extended(@)].obs = e.obs
  <2>1. Extended(e.live) \in Int
    <3>1. e.live \in Int BY <1>2 DEF Entry
    <3>2. ledger \in Nat /\ TtlBump \in Nat BY OracleAssumption DEF OracleInv, OracleTypes
    <3> QED BY <3>1, <3>2 DEF Extended
  <2> DEFINE lives == Extended(e.live)
  <2> HIDE DEF lives
  <2>2. [e EXCEPT !.live = lives] \in Entry /\ [e EXCEPT !.live = lives].obs = e.obs
    BY <1>2, <2>1 DEF Entry, lives
  <2> QED BY <2>2 DEF lives
<1>3. ASSUME NEW i \in ages PROVE ring[Slot(i)] \in Entry
  BY AgeOfTick
<1>4. ASSUME NEW s \in DOMAIN ring
      PROVE  \/ Touched(ages)[s] = ring[s]
             \/ /\ ring[s] \in Entry
                /\ Touched(ages)[s] = [ring[s] EXCEPT !.live = Extended(@)]
  <2>1. CASE \E i \in ages : s = Slot(i) BY <1>3, <2>1 DEF Touched
  <2>2. CASE ~\E i \in ages : s = Slot(i) BY <2>2 DEF Touched
  <2> QED BY <2>1, <2>2
<1>5. \A s \in DOMAIN ring : ring[s] = NoObservation \/ ring[s] \in Entry
  BY DEF OracleInv, OracleTypes
<1> QED BY <1>1, <1>2, <1>4, <1>5

\* A step that leaves the ticks alone, and of the ring all but its lives.
LEMMA TicksRest ==
  ASSUME OracleInv, UNCHANGED <<capacity, head, count, ticks>>,
         DOMAIN ring' = DOMAIN ring,
         \A s \in DOMAIN ring : ring'[s] = NoObservation \/ ring'[s] \in Entry,
         \A s \in DOMAIN ring : ring[s] \in Entry =>
           ring'[s] \in Entry /\ ring'[s].obs = ring[s].obs,
         ledger' \in Nat, ledger <= ledger', time' \in Nat, time <= time'
  PROVE  OracleInv'
<1>1. OracleTypes' BY DEF OracleInv, OracleTypes
<1>2. \A i : Slot(i)' = Slot(i) BY DEF Slot, NewestIndex
<1>3. ASSUME NEW i \in 0 .. count - 1
      PROVE  ring'[Slot(i)] \in Entry /\ ring'[Slot(i)].obs = ring[Slot(i)].obs
  <2>1. ring[Slot(i)] \in Entry BY AgeOfTick
  <2>2. capacity > 0 /\ i \in 0 .. capacity - 1 BY DEF OracleInv, OracleTypes
  <2>3. Slot(i) \in DOMAIN ring BY <2>2, SlotLaw DEF OracleInv, OracleTypes
  <2> QED BY <2>1, <2>3
<1>4. RingHoldsTicks' BY <1>2, <1>3 DEF OracleInv, RingHoldsTicks
<1>5. TicksFollow'
  <2>1. \A k \in DOMAIN ticks : ticks[k].time <= time' /\ ticks[k].ledger <= ledger'
    <3>1. \A k \in DOMAIN ticks : ticks[k].time \in Nat /\ ticks[k].ledger \in Nat
      BY TickParts DEF OracleInv
    <3> QED BY <3>1 DEF OracleInv, OracleTypes, TicksFollow
  <2> QED BY <2>1 DEF OracleInv, TicksFollow
<1>6. TicksAreCalm' BY DEF OracleInv, TicksAreCalm, DeviationBps
<1> QED BY <1>1, <1>4, <1>5, <1>6 DEF OracleInv

\* The reads, the breaker and the clock.
LEMMA ReadsKeep ==
  ASSUME OracleInv,
         \/ \E window \in Windows : GetTwap(window)
         \/ GetSpotPrice \/ TripCircuitBreaker \/ ResetCircuitBreaker
         \/ \E span \in LedgerSpans : CloseLedger(span)
         \/ UNCHANGED oracleVars
  PROVE  OracleInv'
<1>1. ledger \in Nat /\ time \in Nat /\ count \in Nat BY DEF OracleInv, OracleTypes
<1>2. ASSUME NEW ages, ages \subseteq 0 .. count - 1, ring' = Touched(ages),
             UNCHANGED <<capacity, head, count, clock, ticks>>
      PROVE  OracleInv'
  <2>1. /\ DOMAIN ring' = DOMAIN ring
        /\ \A s \in DOMAIN ring : ring'[s] = NoObservation \/ ring'[s] \in Entry
        /\ \A s \in DOMAIN ring : ring[s] \in Entry =>
             ring'[s] \in Entry /\ ring'[s].obs = ring[s].obs
    BY <1>2, LoadsKeep
  <2>2. UNCHANGED <<capacity, head, count, ticks>> /\ ledger' = ledger /\ time' = time
    BY <1>2 DEF clock
  <2>3. ledger <= ledger' /\ time <= time' /\ ledger' \in Nat /\ time' \in Nat
    BY <1>1, <2>2
  <2> QED BY <2>1, <2>2, <2>3, TicksRest
<1>3. ASSUME UNCHANGED <<capacity, head, count, ring, ticks>>,
             ledger' \in Nat, ledger <= ledger', time' \in Nat, time <= time'
      PROVE  OracleInv'
  BY <1>3, TicksRest DEF OracleInv, OracleTypes
<1>4. ASSUME NEW window \in Windows, GetTwap(window) PROVE OracleInv'
  <2>1. VisitedByTwap(window) \subseteq 0 .. count - 1 BY DEF VisitedByTwap
  <2> QED BY <1>2, <1>4, <2>1 DEF GetTwap
<1>5. CASE GetSpotPrice
  <2>1. {0} \subseteq 0 .. count - 1 BY <1>1, <1>5 DEF GetSpotPrice
  <2> QED BY <1>2, <1>5, <2>1 DEF GetSpotPrice
<1>6. CASE TripCircuitBreaker \/ ResetCircuitBreaker \/ UNCHANGED oracleVars
  BY <1>1, <1>3, <1>6 DEF TripCircuitBreaker, ResetCircuitBreaker, oracleVars, clock
<1>7. ASSUME NEW span \in LedgerSpans, CloseLedger(span) PROVE OracleInv'
  <2>1. span \in Nat BY OracleAssumption
  <2>2. ledger' \in Nat /\ ledger <= ledger' /\ time' \in Nat /\ time <= time'
    BY <1>1, <1>7, <2>1 DEF CloseLedger
  <2> QED BY <1>3, <1>7, <2>2 DEF CloseLedger
<1> QED BY <1>4, <1>5, <1>6, <1>7

\* An asset starts with an empty ring.
LEMMA InitializeKeeps ==
  ASSUME OracleInv, NEW cap \in Capacities, InitializeAsset(cap)
  PROVE  OracleInv'
<1>1. /\ capacity = 0 /\ capacity' = cap /\ head' = 0 /\ count' = 0
      /\ ring' = [i \in 0 .. cap - 1 |-> NoObservation]
      /\ ledger' = ledger /\ time' = time /\ ticks' = ticks
  BY DEF InitializeAsset, clock
<1>2. cap \in 1 .. 100 BY OracleAssumption
<1>3. Len(ticks) = 0 /\ DOMAIN ticks = {}
  <2>1. ticks = <<>> BY <1>1 DEF OracleInv, OracleTypes
  <2> QED BY <2>1
<1>4. OracleTypes' BY <1>1, <1>2 DEF OracleInv, OracleTypes
<1>5. RingHoldsTicks' BY <1>1, <1>2, <1>3 DEF RingHoldsTicks
<1>6. TicksFollow' /\ TicksAreCalm' BY <1>1, <1>3 DEF TicksFollow, TicksAreCalm
<1> QED BY <1>4, <1>5, <1>6 DEF OracleInv

\* What is visited of the ring when a price comes in, and that it is there.
LEMMA VisitedParts ==
  ASSUME OracleInv
  PROVE  /\ VisitedByFlash \subseteq 0 .. count - 1
         /\ \A i \in 0 .. count - 1 :
              ticks[Len(ticks) - i].ledger >= ledger - FlashWindow => i \in VisitedByFlash
<1>1. /\ Len(ticks) \in Nat /\ count \in Nat /\ count <= Len(ticks)
      /\ DOMAIN ticks = 1 .. Len(ticks) /\ ledger \in Nat
      /\ \A k \in DOMAIN ticks : ticks[k].ledger \in Nat
  BY TickParts DEF OracleInv, OracleTypes, RingHoldsTicks
<1>2. FlashWindow \in Nat BY OracleAssumption
<1>3. ASSUME NEW i \in 0 .. count - 1, ticks[Len(ticks) - i].ledger >= ledger - FlashWindow,
             NEW j \in 0 .. i - 1
      PROVE  Obs(j).ledger >= ledger - FlashWindow
  <2>1. j \in 0 .. count - 1 BY <1>1
  <2>2. /\ Obs(j) = ticks[Len(ticks) - j] /\ Len(ticks) - j \in DOMAIN ticks
        /\ Len(ticks) - i \in DOMAIN ticks
    BY <2>1, AgeOfTick
  <2>3. Len(ticks) - i < Len(ticks) - j BY <1>1
  <2>4. ticks[Len(ticks) - i].ledger <= ticks[Len(ticks) - j].ledger
    BY <2>2, <2>3 DEF OracleInv, TicksFollow
  <2> DEFINE older == ticks[Len(ticks) - i].ledger
             newer == ticks[Len(ticks) - j].ledger
  <2>5. older \in Nat /\ newer \in Nat BY <1>1, <2>2
  <2>6. older >= ledger - FlashWindow /\ older <= newer BY <1>3, <2>4
  <2> HIDE DEF older, newer
  <2>7. newer >= ledger - FlashWindow BY <1>1, <1>2, <2>5, <2>6
  <2> QED BY <2>2, <2>7 DEF newer
<1>4. VisitedByFlash \subseteq 0 .. count - 1 BY DEF VisitedByFlash
<1>5. ASSUME NEW i \in 0 .. count - 1, ticks[Len(ticks) - i].ledger >= ledger - FlashWindow
      PROVE  i \in VisitedByFlash
  BY <1>3, <1>5 DEF VisitedByFlash
<1> QED BY <1>4, <1>5

\* Charging an interval to a price.
LEMMA ChargeLaw ==
  ASSUME NEW total \in Nat, NEW price \in Nat, NEW from \in Nat, NEW to \in Nat, from <= to
  PROVE  total + price * (to - from) \in Nat
<1>1. to - from \in Nat OBVIOUS
<1>2. \A a, b \in Nat : a * b \in Nat OBVIOUS
<1>3. price * (to - from) \in Nat BY <1>1, <1>2
<1> DEFINE m == price * (to - from)
<1>4. m \in Nat BY <1>3
<1> HIDE DEF m
<1>5. total + m \in Nat BY <1>4
<1> QED BY <1>5 DEF m

\* What an accepted price finds.
LEMMA UpdateFinds ==
  ASSUME OracleInv, NEW price \in Prices, Acceptable(price)
  PROVE  /\ price \in Nat \ {0} /\ capacity \in Nat \ {0} /\ count \in Nat
         /\ time \in Nat /\ ledger \in Nat
         /\ count > 0 => /\ 0 \in 0 .. count - 1 /\ time > Obs(0).time
                         /\ Obs(0) = ticks[Len(ticks)] /\ Len(ticks) \in DOMAIN ticks
                         /\ CumulativeAt(price) \in Nat
<1>1. price \in Nat \ {0} BY OracleAssumption DEF Acceptable
<1>2. time \in Nat /\ ledger \in Nat /\ count \in Nat /\ capacity \in Nat \ {0}
  BY DEF OracleInv, OracleTypes, Acceptable
<1>3. ASSUME count > 0
      PROVE  /\ 0 \in 0 .. count - 1 /\ time > Obs(0).time
             /\ Obs(0) = ticks[Len(ticks)] /\ Len(ticks) \in DOMAIN ticks
             /\ CumulativeAt(price) \in Nat
  <2>1. 0 \in 0 .. count - 1 BY <1>2, <1>3
  <2>2. time > Obs(0).time BY <1>3 DEF Acceptable
  <2>3. Obs(0) = ticks[Len(ticks) - 0] /\ Len(ticks) - 0 \in DOMAIN ticks
    BY <2>1, AgeOfTick
  <2>4. Obs(0) = ticks[Len(ticks)] /\ Len(ticks) \in DOMAIN ticks
    BY <2>3, TickParts DEF OracleInv
  <2>5. Obs(0).time \in Nat /\ Obs(0).cumulative \in Nat /\ Obs(0).price \in Nat
    BY <2>4, TickParts DEF OracleInv
  <2>6. CumulativeAt(price) \in Nat
    BY <1>2, <2>2, <2>5, ChargeLaw DEF CumulativeAt
  <2> QED BY <2>1, <2>2, <2>4, <2>6
<1> QED BY <1>1, <1>2, <1>3

\* The ring as the circuit breaker left it: reading an observation prolongs its life.
Loaded == IF count = 0 THEN ring ELSE Touched(VisitedByFlash)

\* What an accepted price leaves.
LEMMA UpdateParts ==
  ASSUME OracleInv, NEW price \in Prices, UpdatePrice(price)
  PROVE  \E obs \in PriceObservation, entry \in Entry :
           /\ entry.obs = obs
           /\ obs.time = time /\ obs.ledger = ledger /\ obs.price = price
           /\ count > 0 => obs.cumulative = CumulativeAt(price)
           /\ ring' = [Loaded EXCEPT ![head] = entry]
           /\ ticks' = Append(ticks, obs)
<1> DEFINE obs == [time |-> time, ledger |-> ledger, price |-> price,
                   cumulative |-> IF count = 0 THEN 0 ELSE CumulativeAt(price)]
           old == Loaded[head]
           kept == IF old # NoObservation /\ ledger <= old.live THEN old.live ELSE ledger
           entry == [obs |-> obs, live |-> Extended(kept)]
<1>1. Acceptable(price) /\ ticks' = Append(ticks, obs) BY DEF UpdatePrice
<1>2. ring' = [Loaded EXCEPT ![head] = entry] BY DEF UpdatePrice, Store, Loaded
<1>3. /\ price \in Nat \ {0} /\ time \in Nat /\ ledger \in Nat /\ count \in Nat
      /\ count > 0 => CumulativeAt(price) \in Nat
  BY <1>1, UpdateFinds
<1>4. obs \in PriceObservation
  <2>1. (IF count = 0 THEN 0 ELSE CumulativeAt(price)) \in Nat BY <1>3
  <2> QED BY <1>3, <2>1 DEF PriceObservation
<1>5. Extended(kept) \in Int
  <2>1. head \in DOMAIN ring BY <1>1 DEF Acceptable, OracleInv, OracleTypes
  <2>2. old = NoObservation \/ old \in Entry
    BY <2>1, LoadsKeep, VisitedParts DEF OracleInv, OracleTypes, Loaded
  <2>3. kept \in Int BY <1>3, <2>2 DEF Entry
  <2> HIDE DEF kept
  <2>4. TtlBump \in Nat BY OracleAssumption
  <2> QED BY <1>3, <2>3, <2>4 DEF Extended
<1>6. /\ obs.time = time /\ obs.ledger = ledger /\ obs.price = price
      /\ count > 0 => obs.cumulative = CumulativeAt(price)
  BY <1>3
<1> DEFINE lives == Extended(kept)
<1>7. entry \in Entry /\ entry.obs = obs
  <2>1. lives \in Int BY <1>5
  <2>2. entry = [obs |-> obs, live |-> lives] OBVIOUS
  <2> HIDE DEF obs, lives, entry
  <2> QED BY <1>4, <2>1, <2>2 DEF Entry
<1> HIDE DEF obs, entry, kept
<1> QED BY <1>1, <1>2, <1>4, <1>6, <1>7

\* The new tick takes the slot at the head, and every other one is a place older.
LEMMA RingTurns ==
  ASSUME OracleInv, NEW price \in Prices, UpdatePrice(price)
  PROVE  /\ capacity' = capacity /\ head' = NextHead /\ head' \in 0 .. capacity - 1
         /\ Slot(0)' = head
         /\ \A i \in 1 .. capacity - 1 :
              Slot(i)' = Slot(i - 1) /\ Slot(i - 1) # head /\ Slot(i - 1) \in 0 .. capacity - 1
<1>1. capacity \in Nat \ {0} /\ head \in 0 .. capacity - 1 /\ Acceptable(price)
  BY UpdateFinds DEF UpdatePrice, OracleInv, OracleTypes
<1>2. capacity' = capacity /\ head' = NextHead BY DEF UpdatePrice
<1>3. NextHead = IF head + 1 < capacity THEN head + 1 ELSE 0
  <2> DEFINE x == head + 1
             c == capacity
  <2>1. x \in Nat /\ c \in Nat \ {0} /\ x < c + c BY <1>1
  <2>2. NextHead = x % c BY DEF NextHead
  <2> HIDE DEF x, c
  <2>3. x % c = IF x < c THEN x ELSE x - c BY <2>1, SmallRemainder
  <2>4. NextHead = IF x < c THEN x ELSE x - c BY <2>2, <2>3
  <2> QED BY <1>1, <2>4 DEF x, c
<1>4. head' \in 0 .. capacity - 1 BY <1>1, <1>2, <1>3
<1>5. ASSUME NEW i \in 0 .. capacity - 1
      PROVE  Slot(i)' = IF head' > i THEN head' - 1 - i ELSE head' + capacity - 1 - i
  <2> DEFINE h == head'
  <2>1. h \in 0 .. capacity - 1 BY <1>4
  <2>2. Slot(i)' = ((IF h = 0 THEN capacity - 1 ELSE h - 1) + capacity - i) % capacity
    BY <1>2 DEF Slot, NewestIndex
  <2> HIDE DEF h
  <2>3. Slot(i)' = IF h > i THEN h - 1 - i ELSE h + capacity - 1 - i
    BY <1>1, <2>1, <2>2, RingLaw
  <2> QED BY <2>3 DEF h
<1>6. Slot(0)' = head
  <2>1. 0 \in 0 .. capacity - 1 BY <1>1
  <2> QED BY <1>1, <1>2, <1>3, <1>5, <2>1
<1>7. ASSUME NEW i \in 1 .. capacity - 1
      PROVE  Slot(i)' = Slot(i - 1) /\ Slot(i - 1) # head /\ Slot(i - 1) \in 0 .. capacity - 1
  <2>1. i \in 0 .. capacity - 1 /\ i - 1 \in 0 .. capacity - 1 BY <1>1
  <2>2. Slot(i - 1) \in 0 .. capacity - 1
        /\ Slot(i - 1) = IF head > i - 1 THEN head - 1 - (i - 1) ELSE head + capacity - 1 - (i - 1)
    BY <1>1, <2>1, SlotLaw DEF OracleInv
  <2>3. Slot(i)' = IF head' > i THEN head' - 1 - i ELSE head' + capacity - 1 - i
    BY <1>5, <2>1
  <2> QED BY <1>1, <1>2, <1>3, <2>1, <2>2, <2>3
<1> QED BY <1>2, <1>4, <1>6, <1>7

\* The ring after an accepted price holds the latest ticks.
LEMMA RingAfterUpdate ==
  ASSUME OracleInv, NEW price \in Prices, UpdatePrice(price)
  PROVE  /\ OracleTypes' /\ RingHoldsTicks'
         /\ Len(ticks') = Len(ticks) + 1
         /\ \A k \in DOMAIN ticks : k \in DOMAIN ticks' /\ ticks'[k] = ticks[k]
<1>1. PICK obs \in PriceObservation, entry \in Entry :
           /\ entry.obs = obs
           /\ ring' = [Loaded EXCEPT ![head] = entry]
           /\ ticks' = Append(ticks, obs)
  BY UpdateParts
<1>2. /\ capacity \in 1 .. 100 /\ head \in 0 .. capacity - 1 /\ count \in 0 .. capacity
      /\ DOMAIN ring = 0 .. capacity - 1 /\ ticks \in Seq(PriceObservation)
      /\ ledger \in Nat /\ time \in Nat
  BY DEF UpdatePrice, Acceptable, OracleInv, OracleTypes
<1>3. /\ count' = IF count < capacity THEN count + 1 ELSE count
      /\ ledger' = ledger /\ time' = time
  BY DEF UpdatePrice, clock
<1>4. /\ DOMAIN Loaded = DOMAIN ring
      /\ \A s \in DOMAIN ring : Loaded[s] = NoObservation \/ Loaded[s] \in Entry
      /\ \A s \in DOMAIN ring : ring[s] \in Entry =>
           Loaded[s] \in Entry /\ Loaded[s].obs = ring[s].obs
  BY LoadsKeep, VisitedParts DEF OracleInv, OracleTypes, Loaded
<1>5. /\ DOMAIN ring' = 0 .. capacity - 1 /\ ring'[head] = entry
      /\ \A s \in DOMAIN ring : s # head => ring'[s] = Loaded[s]
  BY <1>1, <1>2, <1>4
<1>6. /\ Len(ticks') = Len(ticks) + 1 /\ ticks' \in Seq(PriceObservation)
      /\ DOMAIN ticks' = 1 .. Len(ticks) + 1 /\ DOMAIN ticks = 1 .. Len(ticks)
      /\ ticks'[Len(ticks) + 1] = obs /\ Len(ticks) \in Nat
      /\ \A k \in DOMAIN ticks : ticks'[k] = ticks[k]
  BY <1>1, <1>2
<1>7. \A k \in DOMAIN ticks : k \in DOMAIN ticks' /\ ticks'[k] = ticks[k] BY <1>6
<1>8. OracleTypes'
  <2>1. capacity' = capacity /\ head' \in 0 .. capacity - 1 BY RingTurns
  <2>2. \A s \in DOMAIN ring' : ring'[s] = NoObservation \/ ring'[s] \in Entry
    BY <1>2, <1>4, <1>5
  <2>3. count' \in 0 .. capacity BY <1>2, <1>3
  <2> QED BY <1>2, <1>3, <1>5, <1>6, <2>1, <2>2, <2>3 DEF OracleTypes
<1>9. RingHoldsTicks'
  <2>1. count <= Len(ticks) /\ (count < capacity => count = Len(ticks))
    BY DEF OracleInv, RingHoldsTicks
  <2>2. count' <= Len(ticks') /\ (count' < capacity' => count' = Len(ticks'))
    <3>1. capacity' = capacity BY RingTurns
    <3> DEFINE m == Len(ticks)
    <3>2. m \in Nat /\ Len(ticks') = m + 1 /\ count <= m /\ (count < capacity => count = m)
      BY <1>6, <2>1
    <3> HIDE DEF m
    <3> QED BY <1>2, <1>3, <3>1, <3>2
  <2>3. ASSUME NEW i \in 0 .. count' - 1
        PROVE  ring'[Slot(i)'] \in Entry /\ ring'[Slot(i)'].obs = ticks'[Len(ticks') - i]
    <3>1. CASE i = 0 BY <1>1, <1>5, <1>6, <3>1, RingTurns
    <3>2. CASE i # 0
      <4>1. i \in 1 .. capacity - 1 /\ i - 1 \in 0 .. count - 1 BY <1>2, <1>3, <3>2
      <4>2. Slot(i)' = Slot(i - 1) /\ Slot(i - 1) # head /\ Slot(i - 1) \in DOMAIN ring
        BY <1>2, <4>1, RingTurns
      <4>3. /\ Obs(i - 1) = ticks[Len(ticks) - (i - 1)]
            /\ Len(ticks) - (i - 1) \in DOMAIN ticks
            /\ ring[Slot(i - 1)] \in Entry
        BY <4>1, AgeOfTick
      <4>4. Len(ticks) - (i - 1) = Len(ticks') - i BY <1>6, <4>1
      <4>5. ring'[Slot(i)'] = Loaded[Slot(i - 1)] BY <1>5, <4>2
      <4>6. Loaded[Slot(i - 1)] \in Entry /\ Loaded[Slot(i - 1)].obs = ring[Slot(i - 1)].obs
        BY <1>4, <4>2, <4>3
      <4>7. ring[Slot(i - 1)].obs = ticks'[Len(ticks') - i]
        BY <1>7, <4>3, <4>4 DEF Obs
      <4> QED BY <4>5, <4>6, <4>7
    <3> QED BY <3>1, <3>2
  <2> QED BY <2>2, <2>3 DEF RingHoldsTicks
<1> QED BY <1>6, <1>7, <1>8, <1>9

\* An accepted price follows the newest tick, and is calm beside what shared the ring.
LEMMA TicksAfterUpdate ==
  ASSUME OracleInv, NEW price \in Prices, UpdatePrice(price)
  PROVE  TicksFollow' /\ TicksAreCalm'
<1>1. PICK obs \in PriceObservation :
           /\ obs.time = time /\ obs.ledger = ledger /\ obs.price = price
           /\ count > 0 => obs.cumulative = CumulativeAt(price)
           /\ ticks' = Append(ticks, obs)
  BY UpdateParts
<1> DEFINE last == Len(ticks)
<1>2. /\ last \in Nat /\ DOMAIN ticks = 1 .. last /\ DOMAIN ticks' = 1 .. last + 1
      /\ ticks'[last + 1] = obs /\ \A k \in 1 .. last : ticks'[k] = ticks[k]
  BY <1>1 DEF OracleInv, OracleTypes
<1>3. /\ count \in 0 .. capacity /\ count <= last /\ (count < capacity => count = last)
      /\ capacity \in Nat \ {0} /\ price \in Nat \ {0} /\ time \in Nat /\ ledger \in Nat
  BY UpdateFinds DEF OracleInv, OracleTypes, RingHoldsTicks, UpdatePrice
<1>4. /\ \A k \in 1 .. last : /\ ticks[k].time \in Nat /\ ticks[k].ledger \in Nat
                             /\ ticks[k].price \in Nat \ {0}
                             /\ ticks[k].time <= time /\ ticks[k].ledger <= ledger
      /\ time' = time /\ ledger' = ledger /\ capacity' = capacity
  BY <1>2, TickParts DEF OracleInv, TicksFollow, UpdatePrice, clock
<1>5. ASSUME last > 0
      PROVE  /\ obs.cumulative = ticks[last].cumulative + ticks[last].price * (time - ticks[last].time)
             /\ ticks[last].time < time
  <2>1. count > 0 BY <1>3, <1>5
  <2>2. Obs(0) = ticks[last] /\ Obs(0).time < time
    <3>1. ASSUME TRUE PROVE Acceptable(price) BY DEF UpdatePrice
    <3>2. /\ time > Obs(0).time /\ Obs(0) = ticks[Len(ticks)] BY <2>1, <3>1, UpdateFinds
    <3>3. Obs(0).time \in Nat BY <1>2, <1>4, <1>5, <3>2
    <3> QED BY <1>3, <3>2, <3>3
  <2> QED BY <1>1, <2>1, <2>2 DEF CumulativeAt
<1> HIDE DEF last
<1>6. \A k \in 1 .. last : ticks'[k].time < time
  <2>1. ASSUME NEW k \in 1 .. last PROVE ticks[k].time < time
    <3>1. CASE k = last BY <1>2, <1>5, <3>1
    <3>2. CASE k # last
      <4>1. k < last /\ last \in 1 .. last /\ last > 0 BY <1>2, <3>2
      <4>2. ticks[k].time < ticks[last].time BY <1>2, <4>1 DEF OracleInv, TicksFollow
      <4>3. ticks[last].time < time BY <1>5, <4>1
      <4> QED BY <1>3, <1>4, <4>1, <4>2, <4>3
    <3> QED BY <3>1, <3>2
  <2> QED BY <1>2, <2>1
<1>7. TicksFollow'
  <2>1. \A k \in DOMAIN ticks' : ticks'[k].time <= time' /\ ticks'[k].ledger <= ledger'
    BY <1>1, <1>2, <1>3, <1>4
  <2>2. ASSUME NEW j \in DOMAIN ticks', NEW k \in DOMAIN ticks', j < k
        PROVE  ticks'[j].time < ticks'[k].time /\ ticks'[j].ledger <= ticks'[k].ledger
    <3>1. j \in 1 .. last BY <1>2, <2>2
    <3>2. CASE k = last + 1 BY <1>1, <1>2, <1>4, <1>6, <3>1, <3>2
    <3>3. CASE k # last + 1
      <4>1. k \in 1 .. last BY <1>2, <3>3
      <4> QED BY <1>2, <2>2, <3>1, <4>1 DEF OracleInv, TicksFollow
    <3> QED BY <3>2, <3>3
  <2>3. ASSUME NEW k \in DOMAIN ticks', k > 1
        PROVE  ticks'[k].cumulative = ticks'[k - 1].cumulative
                 + ticks'[k - 1].price * (ticks'[k].time - ticks'[k - 1].time)
    <3>1. k - 1 \in 1 .. last BY <1>2, <2>3
    <3>2. CASE k = last + 1
      <4>1. k - 1 = last /\ last > 0 BY <1>2, <3>1, <3>2
      <4>2. ticks'[k - 1] = ticks[last] /\ ticks'[k] = obs BY <1>2, <3>1, <3>2, <4>1
      <4> QED BY <1>1, <1>5, <4>1, <4>2
    <3>3. CASE k # last + 1
      <4>1. k \in 1 .. last BY <1>2, <3>3
      <4>2. ticks'[k] = ticks[k] /\ ticks'[k - 1] = ticks[k - 1] BY <1>2, <3>1, <4>1
      <4>3. ticks[k].cumulative = ticks[k - 1].cumulative
              + ticks[k - 1].price * (ticks[k].time - ticks[k - 1].time)
        BY <1>2, <2>3, <4>1 DEF OracleInv, TicksFollow
      <4> QED BY <4>2, <4>3
    <3> QED BY <3>2, <3>3
  <2> QED BY <2>1, <2>2, <2>3 DEF TicksFollow
<1>8. ASSUME NEW j \in 1 .. last, last + 1 - j < capacity,
             ticks[j].ledger >= ledger - FlashWindow
      PROVE  DeviationBps(price, ticks[j].price) <= FlashBps
  <2> DEFINE i == last - j
  <2>1. i \in 0 .. count - 1 /\ last - i = j BY <1>2, <1>3, <1>8
  <2>2. i \in VisitedByFlash BY <1>8, <2>1, VisitedParts DEF last
  <2>3. Obs(i) = ticks[j] BY <2>1, AgeOfTick DEF last
  <2>4. count > 0 BY <1>3, <2>1
  <2>5. ~SwingsAt(i, price) BY <2>2, <2>4 DEF UpdatePrice
  <2>6. ~(DeviationBps(price, ticks[j].price) > FlashBps) BY <1>8, <2>3, <2>5 DEF SwingsAt
  <2>7. DeviationBps(price, ticks[j].price) \in Int
    <3>1. ticks[j].price \in Nat \ {0} BY <1>4
    <3> DEFINE p == ticks[j].price
    <3> HIDE DEF p
    <3>2. p \in Nat \ {0} BY <3>1 DEF p
    <3>3. ((IF price > p THEN price - p ELSE p - price) * 10000) \div p \in Int BY <1>3, <3>2
    <3> QED BY <3>3 DEF DeviationBps, p
  <2>8. FlashBps \in Int BY OracleAssumption
  <2> QED BY <2>6, <2>7, <2>8
<1>9. TicksAreCalm'
  <2>1. ASSUME NEW j \in DOMAIN ticks', NEW k \in DOMAIN ticks',
               j < k, k - j < capacity, ticks'[j].ledger >= ticks'[k].ledger - FlashWindow
        PROVE  DeviationBps(ticks'[k].price, ticks'[j].price) <= FlashBps
    <3>1. j \in 1 .. last /\ ticks'[j] = ticks[j] BY <1>2, <2>1
    <3>2. CASE k = last + 1
      <4>1. ticks'[k].price = price /\ ticks'[k].ledger = ledger BY <1>1, <1>2, <3>2
      <4>2. last + 1 - j < capacity BY <1>2, <1>3, <2>1, <3>1, <3>2
      <4>4. ticks[j].ledger >= ledger - FlashWindow BY <2>1, <3>1, <4>1
      <4>3. DeviationBps(price, ticks[j].price) <= FlashBps BY <1>8, <3>1, <4>2, <4>4
      <4> QED BY <3>1, <4>1, <4>3
    <3>3. CASE k # last + 1
      <4>1. k \in 1 .. last /\ ticks'[k] = ticks[k] BY <1>2, <3>3
      <4>2. ticks[j].ledger >= ticks[k].ledger - FlashWindow BY <2>1, <3>1, <4>1
      <4>3. DeviationBps(ticks[k].price, ticks[j].price) <= FlashBps
        BY <1>2, <2>1, <3>1, <4>1, <4>2 DEF OracleInv, TicksAreCalm
      <4> QED BY <3>1, <4>1, <4>3
    <3> QED BY <3>2, <3>3
  <2> QED BY <1>4, <2>1 DEF TicksAreCalm, DeviationBps
<1> QED BY <1>7, <1>9

\* Every step keeps the oracle's invariant.
LEMMA OracleStep == OracleInv /\ [OracleNext]_oracleVars => OracleInv'
<1> SUFFICES ASSUME OracleInv, [OracleNext]_oracleVars PROVE OracleInv'
  OBVIOUS
<1>1. ASSUME NEW price \in Prices, UpdatePrice(price) PROVE OracleInv'
  BY <1>1, RingAfterUpdate, TicksAfterUpdate DEF OracleInv
<1>2. ASSUME NEW cap \in Capacities, InitializeAsset(cap) PROVE OracleInv'
  BY <1>2, InitializeKeeps
<1>3. CASE \/ \E window \in Windows : GetTwap(window)
           \/ GetSpotPrice \/ TripCircuitBreaker \/ ResetCircuitBreaker
           \/ \E span \in LedgerSpans : CloseLedger(span)
           \/ UNCHANGED oracleVars
  BY <1>3, ReadsKeep
<1> QED BY <1>1, <1>2, <1>3 DEF OracleNext

\* An oracle starts with nothing recorded.
LEMMA OracleStart == OracleInit => OracleInv
<1> SUFFICES ASSUME OracleInit PROVE OracleInv
  OBVIOUS
<1>1. ticks = <<>> /\ Len(ticks) = 0 /\ DOMAIN ticks = {} BY DEF OracleInit
<1>2. OracleTypes BY <1>1 DEF OracleInit, OracleTypes
<1>3. RingHoldsTicks BY <1>1 DEF OracleInit, RingHoldsTicks
<1>4. TicksFollow /\ TicksAreCalm BY <1>1 DEF TicksFollow, TicksAreCalm
<1> QED BY <1>2, <1>3, <1>4 DEF OracleInv

\* No two observations in the ring recorded within one flash window of each other are
\* further apart than the threshold (flash_volatility_triggered).
THEOREM TheWindowIsCalm == OracleSpec => []WindowIsCalm
<1>1. ASSUME OracleInv PROVE WindowIsCalm
  <2>1. ASSUME NEW i \in 0 .. count - 1, NEW j \in 0 .. count - 1,
               i < j, Obs(j).ledger >= Obs(i).ledger - FlashWindow
        PROVE  DeviationBps(Obs(i).price, Obs(j).price) <= FlashBps
    <3>1. /\ Obs(i) = ticks[Len(ticks) - i] /\ Len(ticks) - i \in DOMAIN ticks
          /\ Obs(j) = ticks[Len(ticks) - j] /\ Len(ticks) - j \in DOMAIN ticks
      BY <1>1, AgeOfTick
    <3>2. Len(ticks) \in Nat /\ count \in 0 .. capacity /\ capacity \in Nat
      <4>1. OracleTypes BY <1>1 DEF OracleInv
      <4>2. Len(ticks) \in Nat BY <4>1, TickParts
      <4>3. count \in 0 .. capacity /\ capacity \in Nat BY <4>1 DEF OracleTypes
      <4> QED BY <4>2, <4>3
    <3>3. Len(ticks) - j < Len(ticks) - i /\ (Len(ticks) - i) - (Len(ticks) - j) < capacity
      BY <2>1, <3>2
    <3> QED BY <1>1, <2>1, <3>1, <3>3 DEF OracleInv, TicksAreCalm
  <2> QED BY <2>1 DEF WindowIsCalm
<1> QED BY <1>1, OracleStart, OracleStep, PTL DEF OracleSpec

\* How long the price of a tick was in force, at what it was charged.
Charge(k) ==
  ticks[k].price * ((IF k = Len(ticks) THEN time ELSE ticks[k + 1].time) - ticks[k].time)

\* The charges are amounts, and each but the last is what its tick added.
LEMMA ChargeParts ==
  ASSUME OracleInv
  PROVE  /\ \A k \in DOMAIN ticks : Charge(k) \in Nat
         /\ \A k \in DOMAIN ticks : k # Len(ticks) =>
              k + 1 \in DOMAIN ticks /\ ticks[k + 1].cumulative = ticks[k].cumulative + Charge(k)
<1>1. /\ Len(ticks) \in Nat /\ DOMAIN ticks = 1 .. Len(ticks) /\ time \in Nat
      /\ \A k \in DOMAIN ticks : ticks[k].time \in Nat /\ ticks[k].price \in Nat
      /\ \A k \in DOMAIN ticks : ticks[k].time <= time
      /\ \A j, k \in DOMAIN ticks : j < k => ticks[j].time < ticks[k].time
  BY TickParts DEF OracleInv, OracleTypes, TicksFollow
<1>2. ASSUME NEW k \in DOMAIN ticks
      PROVE  (IF k = Len(ticks) THEN time ELSE ticks[k + 1].time) - ticks[k].time \in Nat
  <2>1. CASE k = Len(ticks) BY <1>1, <2>1
  <2>2. CASE k # Len(ticks)
    <3>1. k + 1 \in DOMAIN ticks /\ k < k + 1 BY <1>1, <2>2
    <3>2. ticks[k].time < ticks[k + 1].time BY <1>1, <3>1
    <3>3. ticks[k].time \in Nat /\ ticks[k + 1].time \in Nat BY <1>1, <3>1
    <3> QED BY <2>2, <3>2, <3>3
  <2> QED BY <2>1, <2>2
<1>3. \A a, b \in Nat : a * b \in Nat OBVIOUS
<1>4. \A k \in DOMAIN ticks : Charge(k) \in Nat BY <1>1, <1>2, <1>3 DEF Charge
<1>5. ASSUME NEW k \in DOMAIN ticks, k # Len(ticks)
      PROVE  k + 1 \in DOMAIN ticks /\ ticks[k + 1].cumulative = ticks[k].cumulative + Charge(k)
  <2>1. k + 1 \in DOMAIN ticks /\ k + 1 > 1 /\ (k + 1) - 1 = k BY <1>1, <1>5
  <2>2. ticks[k + 1].cumulative = ticks[(k + 1) - 1].cumulative
          + ticks[(k + 1) - 1].price * (ticks[k + 1].time - ticks[(k + 1) - 1].time)
    BY <2>1 DEF OracleInv, TicksFollow
  <2>3. Charge(k) = ticks[k].price * (ticks[k + 1].time - ticks[k].time) BY <1>5 DEF Charge
  <2> QED BY <2>1, <2>2, <2>3
<1> QED BY <1>4, <1>5

\* The cumulative prices of two ticks differ by what was charged from the one to the other.
LEMMA ChargesAddUp ==
  ASSUME OracleInv, NEW first \in DOMAIN ticks
  PROVE  SumOver([k \in first .. Len(ticks) |-> Charge(k)])
           = ticks[Len(ticks)].cumulative - ticks[first].cumulative + Charge(Len(ticks))
<1> DEFINE Upto(m) == first .. (first + m - 1)
           Sum(m) == SumOver([k \in Upto(m) |-> Charge(k)])
           Good == {m \in Nat : first + m <= Len(ticks) =>
                      Sum(m) = ticks[first + m].cumulative - ticks[first].cumulative}
<1>1. Len(ticks) \in Nat /\ DOMAIN ticks = 1 .. Len(ticks) /\ first \in Nat /\ first > 0
  BY TickParts DEF OracleInv
<1>2. \A k \in DOMAIN ticks : ticks[k].cumulative \in Nat /\ Charge(k) \in Nat
  BY TickParts, ChargeParts DEF OracleInv
<1>3. ASSUME NEW m \in Nat, first + m <= Len(ticks)
      PROVE  Sum(m + 1) = Sum(m) + Charge(first + m)
  <2>1. IsFiniteSet(Upto(m)) BY <1>1, FS_Interval
  <2>2. first + m \notin Upto(m) /\ Upto(m + 1) = Upto(m) \union {first + m}
        /\ Upto(m) \subseteq Upto(m + 1) /\ Upto(m + 1) \subseteq DOMAIN ticks
    BY <1>1, <1>3
  <2> DEFINE f == [k \in Upto(m + 1) |-> Charge(k)]
             a == first + m
             S == Upto(m)
  <2>3. f \in [S \union {a} -> Nat] BY <1>2, <2>2
  <2>4. f[a] = Charge(first + m) /\ [k \in S |-> f[k]] = [k \in Upto(m) |-> Charge(k)] BY <2>2
  <2>5. SumOver(f) = SumOver([k \in S |-> f[k]]) + f[a]
    <3>1. IsFiniteSet(S) /\ a \notin S BY <2>1, <2>2
    <3> HIDE DEF f, a, S
    <3> QED BY <2>3, <3>1, SumOverInsert
  <2> QED BY <2>4, <2>5
<1>4. 0 \in Good
  <2>1. Upto(0) = {} BY <1>1
  <2>2. SumOver([k \in {} |-> 0]) = 0 BY SumOverZero
  <2>3. [k \in Upto(0) |-> Charge(k)] = [k \in {} |-> 0] BY <2>1
  <2>4. first + 0 = first /\ ticks[first].cumulative - ticks[first].cumulative = 0 BY <1>1, <1>2
  <2> QED BY <2>2, <2>3, <2>4
<1>5. ASSUME NEW m \in Good PROVE m + 1 \in Good
  <2>1. ASSUME first + (m + 1) <= Len(ticks)
        PROVE  Sum(m + 1) = ticks[first + (m + 1)].cumulative - ticks[first].cumulative
    <3>1. m \in Nat /\ first + m <= Len(ticks) /\ first + m \in DOMAIN ticks
          /\ first + m # Len(ticks) /\ first + m + 1 = first + (m + 1)
      BY <1>1, <2>1
    <3>2. Sum(m) = ticks[first + m].cumulative - ticks[first].cumulative BY <1>5, <3>1
    <3>3. ticks[first + (m + 1)].cumulative = ticks[first + m].cumulative + Charge(first + m)
      BY <3>1, ChargeParts
    <3>4. Sum(m + 1) = Sum(m) + Charge(first + m) BY <1>3, <3>1
    <3>5. ticks[first + m].cumulative \in Nat /\ ticks[first].cumulative \in Nat
          /\ Charge(first + m) \in Nat
      BY <1>2, <3>1
    <3> HIDE DEF Sum
    <3> QED BY <3>2, <3>3, <3>4, <3>5
  <2>2. m + 1 \in Nat BY <1>5
  <2> QED BY <2>1, <2>2
<1>6. Good = Nat
  <2>1. Good \in SUBSET Nat OBVIOUS
  <2> HIDE DEF Good
  <2> QED BY <1>4, <1>5, <2>1, NatSetInduction
<1> DEFINE d == Len(ticks) - first
<1>7. d \in Nat /\ first + d = Len(ticks) BY <1>1
<1>8. Sum(d) = ticks[first + d].cumulative - ticks[first].cumulative
  <2>1. d \in Good BY <1>6, <1>7
  <2> QED BY <1>1, <1>7, <2>1
<1>9. Sum(d + 1) = Sum(d) + Charge(first + d)
  <2>1. first + d <= Len(ticks) BY <1>1, <1>7
  <2> HIDE DEF d, Sum
  <2> QED BY <1>3, <1>7, <2>1
<1>10. Upto(d + 1) = first .. Len(ticks) BY <1>1, <1>7
<1>11. ticks[Len(ticks)].cumulative \in Nat /\ ticks[first].cumulative \in Nat
       /\ Charge(Len(ticks)) \in Nat
  <2>1. Len(ticks) \in DOMAIN ticks BY <1>1
  <2> QED BY <1>2, <2>1
<1>12. Sum(d + 1) = ticks[Len(ticks)].cumulative - ticks[first].cumulative + Charge(Len(ticks))
  <2> HIDE DEF Sum, d
  <2> QED BY <1>7, <1>8, <1>9, <1>11
<1> QED BY <1>10, <1>12

\* The largest and the least member of a set of integers, when there is one.
LEMMA ExtremesLaw ==
  ASSUME NEW S \in SUBSET Int, NEW m \in S
  PROVE  /\ (\A x \in S : x <= m) => Max(S) = m
         /\ (\A x \in S : m <= x) => Min(S) = m
<1>1. ASSUME \A x \in S : x <= m PROVE Max(S) = m
  <2>1. m \in S /\ \A x \in S : m >= x BY <1>1
  <2>2. Max(S) \in S /\ \A x \in S : Max(S) >= x BY <2>1 DEF Max
  <2>3. Max(S) >= m /\ m >= Max(S) /\ Max(S) \in Int /\ m \in Int BY <2>1, <2>2
  <2> QED BY <2>3
<1>2. ASSUME \A x \in S : m <= x PROVE Min(S) = m
  <2>1. m \in S /\ \A x \in S : m =< x BY <1>2
  <2>2. Min(S) \in S /\ \A x \in S : Min(S) =< x BY <2>1 DEF Min
  <2>3. Min(S) <= m /\ m <= Min(S) /\ Min(S) \in Int /\ m \in Int BY <2>1, <2>2
  <2> QED BY <2>3
<1> QED BY <1>1, <1>2

\* The tick a window starts at: the newest kept one at least a window older than the
\* newest of all, or the oldest kept.
StartsAt(window, first) ==
  LET newest == Len(ticks)
      low == newest - count + 1
  IN  /\ first \in low .. newest
      /\ \A k \in first + 1 .. newest : ticks[k].time > ticks[newest].time - window
      /\ first = low \/ ticks[first].time <= ticks[newest].time - window

\* The ages a read visits go back to the start of its window.
LEMMA ReadStopsAtStart ==
  ASSUME OracleInv, count > 0, NEW window \in Windows, NEW first, StartsAt(window, first)
  PROVE  /\ Max(VisitedByTwap(window)) = Len(ticks) - first
         /\ Obs(Len(ticks) - first) = ticks[first] /\ first \in DOMAIN ticks
         /\ Obs(0) = ticks[Len(ticks)] /\ Len(ticks) \in DOMAIN ticks
<1> DEFINE last == Len(ticks)
           age == last - first
<1>1. /\ last \in Nat /\ DOMAIN ticks = 1 .. last /\ count \in Nat /\ count <= last
      /\ window \in Nat
      /\ \A k \in DOMAIN ticks : ticks[k].time \in Nat
  BY TickParts, OracleAssumption DEF OracleInv, OracleTypes, RingHoldsTicks
<1>2. /\ first \in (last - count + 1) .. last
      /\ \A k \in first + 1 .. last : ticks[k].time > ticks[last].time - window
      /\ first = last - count + 1 \/ ticks[first].time <= ticks[last].time - window
  BY DEF StartsAt
<1>3. age \in 0 .. count - 1 /\ last - age = first /\ 0 \in 0 .. count - 1 BY <1>1, <1>2
<1>4. /\ Obs(0) = ticks[last - 0] /\ last - 0 \in DOMAIN ticks
      /\ Obs(age) = ticks[last - age] /\ last - age \in DOMAIN ticks
  BY <1>3, AgeOfTick
<1>5. /\ Obs(0) = ticks[last] /\ last \in DOMAIN ticks
      /\ Obs(age) = ticks[first] /\ first \in DOMAIN ticks
  BY <1>1, <1>3, <1>4
<1>6. \A j \in 0 .. count - 1 : Obs(j) = ticks[last - j] BY AgeOfTick
<1>7. age \in VisitedByTwap(window)
  <2>1. ASSUME NEW j \in 0 .. age - 1 PROVE Obs(j).time > Obs(0).time - window
    <3>1. j \in 0 .. count - 1 /\ last - j \in first + 1 .. last BY <1>1, <1>2, <1>3
    <3> QED BY <1>2, <1>5, <1>6, <3>1
  <2> QED BY <1>3, <2>1 DEF VisitedByTwap
<1>8. ASSUME NEW i \in VisitedByTwap(window) PROVE i <= age
  <2>1. i \in 0 .. count - 1 /\ \A j \in 0 .. i - 1 : Obs(j).time > Obs(0).time - window
    BY <1>8 DEF VisitedByTwap
  <2>2. CASE first = last - count + 1 BY <1>1, <2>1, <2>2
  <2>3. CASE ticks[first].time <= ticks[last].time - window
    <3> SUFFICES ASSUME ~(i <= age) PROVE FALSE OBVIOUS
    <3>1. age \in 0 .. i - 1 BY <1>1, <1>3, <2>1
    <3>2. Obs(age).time > Obs(0).time - window BY <2>1, <3>1
    <3>3. ticks[first].time > ticks[last].time - window BY <1>5, <3>2
    <3>4. ticks[first].time \in Nat /\ ticks[last].time \in Nat BY <1>1, <1>5
    <3> QED BY <1>1, <2>3, <3>3, <3>4
  <2> QED BY <1>2, <2>2, <2>3
<1>9. VisitedByTwap(window) \in SUBSET Int BY <1>1 DEF VisitedByTwap
<1>10. Max(VisitedByTwap(window)) = age
  <2> HIDE DEF age
  <2> QED BY <1>7, <1>8, <1>9, ExtremesLaw
<1> QED BY <1>5, <1>10

\* A read from the start of its window is what was charged since, over the time since.
LEMMA TwapOfWindow ==
  ASSUME OracleInv, count > 0, NEW window \in Windows, NEW first, StartsAt(window, first)
  PROVE  Twap(window) = SumOver([k \in first .. Len(ticks) |-> Charge(k)])
                          \div (time - ticks[first].time)
<1> DEFINE last == Len(ticks)
<1>1. /\ Max(VisitedByTwap(window)) = last - first
      /\ Obs(last - first) = ticks[first] /\ first \in DOMAIN ticks
      /\ Obs(0) = ticks[last] /\ last \in DOMAIN ticks
  BY ReadStopsAtStart
<1>2. SumOver([k \in first .. last |-> Charge(k)])
        = ticks[last].cumulative - ticks[first].cumulative + Charge(last)
  BY <1>1, ChargesAddUp
<1>3. CumulativeAt(Obs(0).price) = ticks[last].cumulative + Charge(last)
  BY <1>1 DEF CumulativeAt, Charge
<1>4. /\ ticks[last].cumulative \in Nat /\ ticks[first].cumulative \in Nat /\ Charge(last) \in Nat
  BY <1>1, TickParts, ChargeParts DEF OracleInv
<1>5. CumulativeAt(Obs(0).price) - ticks[first].cumulative
        = SumOver([k \in first .. last |-> Charge(k)])
  BY <1>2, <1>3, <1>4
<1>6. Twap(window) = (CumulativeAt(Obs(0).price) - ticks[first].cumulative)
                       \div (time - ticks[first].time)
  BY <1>1 DEF Twap
<1> QED BY <1>5, <1>6

\* A read of the feed is the time-weighted average of the prices that were really in force
\* over its window (get_twap): for any ring size, and however the ring wrapped.
THEOREM ReadsAreTheAverage == OracleSpec => []TwapIsTheAverage
<1>1. ASSUME OracleInv PROVE TwapIsTheAverage
  <2>1. ASSUME NEW window \in Windows, GetTwapSucceeds(window)
        PROVE
          LET newest == Len(ticks)
              kept == Max({1, newest - capacity + 1}) .. newest
              before == {k \in kept : ticks[k].time <= ticks[newest].time - window}
              first == IF before = {} THEN Min(kept) ELSE Max(before)
              End(k) == IF k = newest THEN time ELSE ticks[k + 1].time
              area == SumOver([k \in first .. newest |-> ticks[k].price * (End(k) - ticks[k].time)])
          IN  Twap(window) = area \div (time - ticks[first].time)
    <3> DEFINE newest == Len(ticks)
               kept == Max({1, newest - capacity + 1}) .. newest
               before == {k \in kept : ticks[k].time <= ticks[newest].time - window}
               first == IF before = {} THEN Min(kept) ELSE Max(before)
               low == newest - count + 1
    <3>1. /\ newest \in Nat /\ DOMAIN ticks = 1 .. newest /\ count \in 0 .. capacity
          /\ count <= newest /\ (count < capacity => count = newest) /\ capacity \in Nat
          /\ count > 0 /\ window \in Nat
          /\ \A k \in DOMAIN ticks : ticks[k].time \in Nat
      BY <1>1, <2>1, TickParts, OracleAssumption
      DEF OracleInv, OracleTypes, RingHoldsTicks, GetTwapSucceeds, CanReadTwap
    <3> HIDE DEF newest
    <3>2. Max({1, newest - capacity + 1}) = low
      <4>1. {1, newest - capacity + 1} \in SUBSET Int BY <3>1
      <4>2. low \in {1, newest - capacity + 1} BY <3>1
      <4>3. \A x \in {1, newest - capacity + 1} : x <= low BY <3>1
      <4> HIDE DEF low
      <4> QED BY <4>1, <4>2, <4>3, ExtremesLaw
    <3>7. kept = low .. newest BY <3>2
    <3> HIDE DEF kept
    <3>8. low \in Nat \ {0} /\ low <= newest BY <3>1
    <3> HIDE DEF low
    <3>3. /\ kept = low .. newest /\ kept \in SUBSET Int /\ kept \subseteq DOMAIN ticks
          /\ low \in kept /\ newest \in kept /\ low \in Nat
      BY <3>1, <3>7, <3>8
    <3>4. Min(kept) = low
      <4>1. \A x \in kept : low <= x BY <3>1, <3>3
      <4> QED BY <3>3, <4>1, ExtremesLaw
    <3>5. StartsAt(window, first)
      <4>1. CASE before = {}
        <5>1. first = low BY <3>4, <4>1
        <5>2. \A k \in kept : ~(ticks[k].time <= ticks[newest].time - window) BY <4>1
        <5>3. newest \in kept BY <3>1, <3>3
        <5>4. \A k \in kept : ticks[k].time > ticks[newest].time - window
          <6>1. \A k \in kept : ticks[k].time \in Nat /\ ticks[newest].time \in Nat
            BY <3>1, <3>3, <5>3
          <6> QED BY <3>1, <5>2, <6>1
        <5>5. low + 1 .. newest \subseteq kept BY <3>1, <3>3
        <5>6. first + 1 .. newest \subseteq kept /\ first \in low .. newest
          BY <3>3, <5>1, <5>5
        <5> HIDE DEF first
        <5> QED BY <5>1, <5>4, <5>6 DEF StartsAt, newest, low
      <4>2. CASE before # {}
        <5>1. before \in SUBSET (0 .. newest) BY <3>1, <3>3
        <5>2. PICK top \in before : \A x \in before : x <= top
          <6> HIDE DEF before
          <6> QED BY <3>1, <4>2, <5>1, LargestExists
        <5>3. first = top
          <6>1. before \in SUBSET Int BY <5>1
          <6> HIDE DEF before
          <6> QED BY <4>2, <5>2, <6>1, ExtremesLaw
        <5>4. top \in kept /\ ticks[top].time <= ticks[newest].time - window BY <5>2
        <5>5. ASSUME NEW k \in top + 1 .. newest
              PROVE  ticks[k].time > ticks[newest].time - window
          <6>1. k \in kept /\ ~(k <= top) /\ newest \in kept BY <3>1, <3>3, <5>4
          <6>2. ~(ticks[k].time <= ticks[newest].time - window) BY <5>2, <6>1
          <6>3. ticks[k].time \in Nat /\ ticks[newest].time \in Nat BY <3>1, <3>3, <6>1
          <6> QED BY <3>1, <6>2, <6>3
        <5> HIDE DEF first, before
        <5> QED BY <3>3, <5>3, <5>4, <5>5 DEF StartsAt, newest, low
      <4> QED BY <4>1, <4>2
    <3>6. Twap(window) = SumOver([k \in first .. newest |-> Charge(k)]) \div (time - ticks[first].time)
      <4> HIDE DEF first
      <4> QED BY <1>1, <3>1, <3>5, TwapOfWindow DEF newest
    <3> QED BY <3>6 DEF Charge, newest, kept
  <2> QED BY <2>1 DEF TwapIsTheAverage
<1> QED BY <1>1, OracleStart, OracleStep, PTL DEF OracleSpec

-----------------------------------------------------------------------------
(* The priority list: the links hold one chain of all nodes.               *)

\* What stands at a place of a chain; before and after it there is nothing.
Place(s, i) == IF i \in 1 .. Len(s) THEN s[i] ELSE None

\* The sequence s is what the links say, read either way.
Chain(s) ==
  /\ s \in Seq(Nat)
  /\ Ids = {s[i] : i \in 1 .. Len(s)}
  /\ \A i, j \in 1 .. Len(s) : s[i] = s[j] => i = j
  /\ \A i \in 1 .. Len(s) : /\ node[s[i]].next = Place(s, i + 1)
                            /\ node[s[i]].prev = Place(s, i - 1)
  /\ \A i \in 1 .. Len(s) - 1 : node[s[i]].priority >= node[s[i + 1]].priority
  /\ listHead = Place(s, 1) /\ listTail = Place(s, Len(s))
  /\ size = Len(s)

ListTypes ==
  /\ nextId \in Nat /\ \A id \in Ids : id \in Nat /\ id < nextId
  /\ \A id \in Ids : node[id].priority \in Int

ListInv == ListTypes /\ \E s : Chain(s)

\* The places of a chain tell its nodes apart.
LEMMA PlaceLaw ==
  ASSUME NEW s, Chain(s), NEW i \in Int, NEW j \in 1 .. Len(s)
  PROVE  /\ s[j] \in Nat /\ s[j] \in Ids /\ s[j] # None
         /\ s[j] = Place(s, i) <=> j = i
         /\ Place(s, i) \in Link
         /\ Len(s) \in Nat /\ DOMAIN s = 1 .. Len(s)
<1>1. s \in Seq(Nat) /\ Len(s) \in Nat /\ DOMAIN s = 1 .. Len(s) BY DEF Chain
<1>2. s[j] \in Nat /\ s[j] \in Ids BY <1>1 DEF Chain
<1>3. s[j] # None BY <1>2, ListAssumption
<1>4. s[j] = Place(s, i) <=> j = i
  <2>1. CASE i \in 1 .. Len(s) BY <2>1 DEF Place, Chain
  <2>2. CASE i \notin 1 .. Len(s) BY <1>3, <2>2 DEF Place
  <2> QED BY <2>1, <2>2
<1>5. Place(s, i) \in Link
  <2>1. CASE i \in 1 .. Len(s) BY <2>1 DEF Place, Chain, Link
  <2>2. CASE i \notin 1 .. Len(s) BY <2>2 DEF Place, Link
  <2> QED BY <2>1, <2>2
<1> QED BY <1>1, <1>2, <1>3, <1>4, <1>5

\* Every link leads to a place of the chain.
LEMMA LinkPlace ==
  ASSUME NEW s, Chain(s), NEW id \in Ids
  PROVE  \E i \in 1 .. Len(s) : id = s[i]
BY DEF Chain

\* A node with its neighbours' links, as they are after a step.
LEMMA RelinkedParts ==
  ASSUME NEW p, NEW a, NEW q, NEW b, NEW id \in Ids
  PROVE  /\ Relinked(p, a, q, b)[id].priority = node[id].priority
         /\ Relinked(p, a, q, b)[id].prev = IF id = q THEN b ELSE node[id].prev
         /\ Relinked(p, a, q, b)[id].next = IF id = p THEN a ELSE node[id].next
BY DEF Relinked

\* An insertion between two neighbours, wherever the hint came from.
LEMMA InsertKeeps ==
  ASSUME ListInv, NEW priority \in Priorities, NEW p \in Link, NEW q \in Link,
         Insert(priority, p, q)
  PROVE  ListInv'
<1>1. PICK s : Chain(s) BY DEF ListInv
<1> DEFINE last == Len(s)
<1>2. /\ last \in Nat /\ DOMAIN s = 1 .. last /\ s \in Seq(Nat)
      /\ \A i \in 1 .. last : s[i] \in Nat /\ s[i] \in Ids /\ s[i] # None
      /\ \A i \in 1 .. last, j \in Int : s[i] = Place(s, j) <=> i = j
  <2>1. last \in Nat /\ DOMAIN s = 1 .. last /\ s \in Seq(Nat) BY <1>1 DEF Chain
  <2>2. \A i \in 1 .. last : s[i] \in Nat /\ s[i] \in Ids /\ s[i] # None BY <1>1, PlaceLaw
  <2>3. \A i \in 1 .. last, j \in Int : s[i] = Place(s, j) <=> i = j BY <1>1, PlaceLaw
  <2> QED BY <2>1, <2>2, <2>3
<1>3. PICK i \in 0 .. last : p = Place(s, i) /\ q = Place(s, i + 1)
  <2>1. CASE p = None
    <3>1. q = listHead BY <2>1 DEF Insert, PrevFits
    <3>2. p = Place(s, 0) /\ q = Place(s, 0 + 1) BY <1>1, <2>1, <3>1 DEF Chain, Place
    <3> QED BY <1>2, <3>2
  <2>2. CASE p # None
    <3>1. PICK i \in 1 .. last : p = s[i] BY <1>1, <2>2, LinkPlace DEF Link
    <3>2. node[p].next = q BY <2>2 DEF Insert, PrevFits
    <3>3. node[s[i]].next = Place(s, i + 1) BY <1>1 DEF Chain
    <3>4. p = Place(s, i) BY <3>1 DEF Place
    <3> QED BY <1>2, <3>1, <3>2, <3>3, <3>4
  <2> QED BY <2>1, <2>2
<1>4. /\ nextId \in Nat /\ nextId \notin Ids /\ nextId # None /\ priority \in Int
      /\ \A id \in Ids : id \in Nat /\ id < nextId /\ node[id].priority \in Int
  BY ListAssumption DEF ListInv, ListTypes
<1>5. /\ DOMAIN node' = Ids \union {nextId}
      /\ node'[nextId] = [priority |-> priority, prev |-> p, next |-> q]
      /\ \A id \in Ids : node'[id] = Relinked(p, nextId, q, nextId)[id]
      /\ listHead' = IF p = None THEN nextId ELSE listHead
      /\ listTail' = IF q = None THEN nextId ELSE listTail
      /\ size' = size + 1 /\ nextId' = nextId + 1
  BY <1>4 DEF Insert
<1>6. \A j \in 1 .. last :
        /\ node'[s[j]].priority = node[s[j]].priority
        /\ node'[s[j]].prev = IF j = i + 1 THEN nextId ELSE Place(s, j - 1)
        /\ node'[s[j]].next = IF j = i THEN nextId ELSE Place(s, j + 1)
  <2> SUFFICES ASSUME NEW j \in 1 .. last
               PROVE  /\ node'[s[j]].priority = node[s[j]].priority
                      /\ node'[s[j]].prev = IF j = i + 1 THEN nextId ELSE Place(s, j - 1)
                      /\ node'[s[j]].next = IF j = i THEN nextId ELSE Place(s, j + 1)
    OBVIOUS
  <2>1. s[j] \in Ids BY <1>2
  <2>2. /\ node'[s[j]].priority = node[s[j]].priority
        /\ node'[s[j]].prev = IF s[j] = q THEN nextId ELSE node[s[j]].prev
        /\ node'[s[j]].next = IF s[j] = p THEN nextId ELSE node[s[j]].next
    BY <1>5, <2>1, RelinkedParts
  <2>3. (s[j] = p <=> j = i) /\ (s[j] = q <=> j = i + 1) BY <1>2, <1>3
  <2>4. node[s[j]].prev = Place(s, j - 1) /\ node[s[j]].next = Place(s, j + 1)
    BY <1>1 DEF Chain
  <2> QED BY <2>2, <2>3, <2>4
<1> DEFINE t == [k \in 1 .. last + 1 |->
                   IF k <= i THEN s[k] ELSE IF k = i + 1 THEN nextId ELSE s[k - 1]]
<1>7. /\ t \in Seq(Nat) /\ Len(t) = last + 1
      /\ \A k \in 1 .. i : t[k] = s[k]
      /\ t[i + 1] = nextId
      /\ \A k \in i + 2 .. last + 1 : t[k] = s[k - 1]
  <2>1. \A k \in 1 .. last + 1 :
          (IF k <= i THEN s[k] ELSE IF k = i + 1 THEN nextId ELSE s[k - 1]) \in Nat
    BY <1>2, <1>4
  <2>2. last + 1 \in Nat BY <1>2
  <2>3. t \in Seq(Nat) /\ Len(t) = last + 1 BY <2>1, <2>2
  <2> QED BY <1>2, <2>3
<1> HIDE DEF t
<1>8. /\ \A k \in 0 .. i : Place(t, k) = Place(s, k)
      /\ Place(t, i + 1) = nextId
      /\ \A k \in i + 2 .. last + 2 : Place(t, k) = Place(s, k - 1)
  BY <1>2, <1>7 DEF Place
<1>9. ListTypes'
  <2>1. \A id \in DOMAIN node' : id \in Nat /\ id < nextId + 1 BY <1>4, <1>5
  <2>2. \A id \in Ids : node'[id].priority \in Int BY <1>4, <1>5, RelinkedParts
  <2>3. node'[nextId].priority \in Int BY <1>4, <1>5
  <2> QED BY <1>4, <1>5, <2>1, <2>2, <2>3 DEF ListTypes, Ids
<1>10. Ids' = {t[k] : k \in 1 .. Len(t)}
  <2>1. Ids' = Ids \union {nextId} BY <1>5 DEF Ids
  <2>2. Ids = {s[k] : k \in 1 .. last} BY <1>1 DEF Chain
  <2>3. ASSUME NEW k \in 1 .. last PROVE \E m \in 1 .. last + 1 : s[k] = t[m]
    <3>1. CASE k <= i
      <4>1. k \in 1 .. last + 1 /\ s[k] = t[k] BY <1>2, <1>7, <3>1
      <4> QED BY <4>1
    <3>2. CASE ~(k <= i)
      <4>1. k + 1 \in i + 2 .. last + 1 /\ k + 1 \in 1 .. last + 1 /\ (k + 1) - 1 = k
        BY <1>2, <3>2
      <4>2. s[k] = t[k + 1] BY <1>7, <4>1
      <4> QED BY <4>1, <4>2
    <3> QED BY <3>1, <3>2
  <2>4. i + 1 \in 1 .. last + 1 BY <1>2
  <2>5. ASSUME NEW m \in 1 .. last + 1 PROVE t[m] = nextId \/ \E k \in 1 .. last : t[m] = s[k]
    <3>1. CASE m <= i BY <1>2, <1>7, <3>1
    <3>2. CASE m = i + 1 BY <1>7, <3>2
    <3>3. CASE ~(m <= i) /\ m # i + 1
      <4>1. m \in i + 2 .. last + 1 /\ m - 1 \in 1 .. last BY <1>2, <3>3
      <4> QED BY <1>7, <4>1
    <3> QED BY <3>1, <3>2, <3>3
  <2>6. Len(t) = last + 1 /\ t[i + 1] = nextId BY <1>7
  <2>7. ASSUME NEW x \in Ids' PROVE \E m \in 1 .. last + 1 : x = t[m]
    BY <2>1, <2>2, <2>3, <2>4, <2>6
  <2>8. ASSUME NEW m \in 1 .. last + 1 PROVE t[m] \in Ids' BY <2>1, <2>2, <2>5
  <2> QED BY <2>6, <2>7, <2>8
<1>11. \A j, k \in 1 .. Len(t) : t[j] = t[k] => j = k
  <2> DEFINE From(m) == IF m <= i THEN m ELSE m - 1
  <2>1. ASSUME NEW m \in 1 .. last + 1, m # i + 1
        PROVE  From(m) \in 1 .. last /\ t[m] = s[From(m)] /\ t[m] # nextId
    <3>1. CASE m <= i BY <1>2, <1>4, <1>7, <3>1
    <3>2. CASE ~(m <= i)
      <4>1. m \in i + 2 .. last + 1 /\ m - 1 \in 1 .. last BY <1>2, <2>1, <3>2
      <4>2. t[m] = s[m - 1] /\ s[m - 1] \in Ids BY <1>2, <1>7, <4>1
      <4> QED BY <1>4, <3>2, <4>1, <4>2
    <3> QED BY <3>1, <3>2
  <2>2. \A a, b \in 1 .. last : s[a] = s[b] => a = b BY <1>1 DEF Chain
  <2>3. ASSUME NEW j \in 1 .. last + 1, NEW k \in 1 .. last + 1, t[j] = t[k] PROVE j = k
    <3>1. CASE j = i + 1 BY <1>7, <2>1, <2>3, <3>1
    <3>2. CASE k = i + 1 BY <1>7, <2>1, <2>3, <3>2
    <3>3. CASE j # i + 1 /\ k # i + 1
      <4>1. From(j) = From(k) BY <2>1, <2>2, <2>3, <3>3
      <4> QED BY <1>2, <3>3, <4>1
    <3> QED BY <3>1, <3>2, <3>3
  <2> QED BY <1>7, <2>3
<1>12. \A k \in 1 .. Len(t) : /\ node'[t[k]].next = Place(t, k + 1)
                              /\ node'[t[k]].prev = Place(t, k - 1)
  <2> SUFFICES ASSUME NEW k \in 1 .. last + 1
               PROVE  node'[t[k]].next = Place(t, k + 1) /\ node'[t[k]].prev = Place(t, k - 1)
    BY <1>7
  <2>1. CASE k <= i
    <3>1. t[k] = s[k] /\ k \in 1 .. last /\ k - 1 \in 0 .. i BY <1>2, <1>7, <2>1
    <3>2. node'[t[k]].prev = Place(s, k - 1) /\ k # i + 1 BY <1>2, <1>6, <2>1, <3>1
    <3>3. node'[t[k]].next = IF k = i THEN nextId ELSE Place(s, k + 1) BY <1>6, <3>1
    <3>4. Place(t, k - 1) = Place(s, k - 1) BY <1>8, <3>1
    <3>5. CASE k = i BY <1>8, <3>2, <3>3, <3>4, <3>5
    <3>6. CASE k # i
      <4>1. k + 1 \in 0 .. i BY <1>2, <2>1, <3>6
      <4>2. Place(t, k + 1) = Place(s, k + 1) BY <1>8, <4>1
      <4> QED BY <3>2, <3>3, <3>4, <3>6, <4>2
    <3> QED BY <3>5, <3>6
  <2>2. CASE k = i + 1
    <3>1. t[k] = nextId BY <1>7, <2>2
    <3>2. node'[t[k]].prev = Place(s, i) /\ node'[t[k]].next = Place(s, i + 1)
      BY <1>3, <1>5, <3>1
    <3>3. i \in 0 .. i /\ i + 2 \in i + 2 .. last + 2 /\ (i + 2) - 1 = i + 1 BY <1>2
    <3>4. Place(t, i) = Place(s, i) /\ Place(t, i + 2) = Place(s, i + 1) BY <1>8, <3>3
    <3>5. k - 1 = i /\ k + 1 = i + 2 BY <1>2, <2>2
    <3> QED BY <3>2, <3>4, <3>5
  <2>3. CASE ~(k <= i) /\ k # i + 1
    <3> DEFINE m == k - 1
    <3>1. k \in i + 2 .. last + 1 /\ m \in 1 .. last /\ m # i /\ k = m + 1 /\ m >= i + 1
      BY <1>2, <2>3
    <3> HIDE DEF m
    <3>2. t[k] = s[m] BY <1>7, <3>1 DEF m
    <3>3. node'[t[k]].next = Place(s, m + 1) BY <1>6, <3>1, <3>2
    <3>4. node'[t[k]].prev = IF m = i + 1 THEN nextId ELSE Place(s, m - 1) BY <1>6, <3>1, <3>2
    <3>5. k + 1 \in i + 2 .. last + 2 /\ (k + 1) - 1 = m + 1 BY <1>2, <3>1
    <3>6. Place(t, k + 1) = Place(s, m + 1) BY <1>8, <3>5
    <3>7. CASE m = i + 1
      <4>1. k - 1 = i + 1 BY <1>2, <3>1, <3>7
      <4> QED BY <1>8, <3>3, <3>4, <3>6, <3>7, <4>1
    <3>8. CASE m # i + 1
      <4>1. k - 1 \in i + 2 .. last + 2 /\ (k - 1) - 1 = m - 1 BY <1>2, <3>1, <3>8
      <4>2. Place(t, k - 1) = Place(s, m - 1) BY <1>8, <4>1
      <4> QED BY <3>3, <3>4, <3>6, <3>8, <4>2
    <3> QED BY <3>7, <3>8
  <2> QED BY <2>1, <2>2, <2>3
<1>13. \A k \in 1 .. Len(t) - 1 : node'[t[k]].priority >= node'[t[k + 1]].priority
  <2> SUFFICES ASSUME NEW k \in 1 .. last
               PROVE  node'[t[k]].priority >= node'[t[k + 1]].priority
    <3>1. Len(t) - 1 = last BY <1>2, <1>7
    <3> QED BY <3>1
  <2>1. \A j \in 1 .. last - 1 : node[s[j]].priority >= node[s[j + 1]].priority
    BY <1>1 DEF Chain
  <2>2. CASE k < i
    <3>1. k \in 1 .. i /\ k + 1 \in 1 .. i /\ k \in 1 .. last - 1 /\ k + 1 \in 1 .. last
      BY <1>2, <2>2
    <3>2. t[k] = s[k] /\ t[k + 1] = s[k + 1] BY <1>7, <3>1
    <3> QED BY <1>6, <2>1, <3>1, <3>2
  <2>3. CASE k = i
    <3>1. t[k] = s[i] /\ t[k + 1] = nextId /\ i \in 1 .. last BY <1>2, <1>7, <2>3
    <3>2. p = s[i] /\ p # None BY <1>2, <1>3, <3>1
    <3>3. node[p].priority >= priority BY <3>2 DEF Insert, PrevFits
    <3>4. node'[nextId].priority = priority BY <1>5
    <3> QED BY <1>6, <3>1, <3>2, <3>3, <3>4
  <2>4. CASE k = i + 1
    <3>1. k \in 1 .. last /\ k + 1 \in i + 2 .. last + 1 /\ (k + 1) - 1 = k BY <1>2, <2>4
    <3>2. t[k] = nextId /\ t[k + 1] = s[k] BY <1>7, <2>4, <3>1
    <3>3. q = s[k] /\ q # None BY <1>2, <1>3, <2>4, <3>1
    <3>4. node[q].priority <= priority BY <3>3 DEF Insert, NextFits
    <3>5. node'[nextId].priority = priority /\ node[q].priority \in Int
      BY <1>2, <1>4, <1>5, <3>1, <3>3
    <3>6. priority >= node[q].priority BY <1>4, <3>4, <3>5
    <3> QED BY <1>6, <3>1, <3>2, <3>3, <3>5, <3>6
  <2>5. CASE k > i + 1
    <3> DEFINE m == k - 1
    <3>1. /\ k \in i + 2 .. last + 1 /\ k + 1 \in i + 2 .. last + 1
          /\ m \in 1 .. last - 1 /\ m + 1 = k /\ (k + 1) - 1 = k /\ m \in 1 .. last
      BY <1>2, <2>5
    <3>2. t[k] = s[m]
      <4>1. t[k] = s[k - 1] BY <1>7, <3>1
      <4> QED BY <4>1
    <3>3. t[k + 1] = s[m + 1]
      <4>1. t[k + 1] = s[(k + 1) - 1] BY <1>7, <3>1
      <4> QED BY <3>1, <4>1
    <3> HIDE DEF m
    <3> QED BY <1>6, <2>1, <3>1, <3>2, <3>3
  <2> QED BY <1>2, <2>2, <2>3, <2>4, <2>5
<1>14. listHead' = Place(t, 1) /\ listTail' = Place(t, Len(t))
  <2>1. listHead' = Place(t, 1)
    <3>1. CASE i = 0
      <4>1. p = None BY <1>3, <3>1 DEF Place
      <4>2. 0 + 1 = 1 OBVIOUS
      <4> QED BY <1>5, <1>8, <3>1, <4>1, <4>2
    <3>2. CASE i # 0
      <4>1. i \in 1 .. last /\ 1 \in 0 .. i BY <1>2, <3>2
      <4>2. p # None BY <1>2, <1>3, <4>1
      <4>3. listHead = Place(s, 1) BY <1>1 DEF Chain
      <4> QED BY <1>5, <1>8, <4>1, <4>2, <4>3
    <3> QED BY <3>1, <3>2
  <2>2. listTail' = Place(t, Len(t))
    <3>1. CASE i = last
      <4>1. q = None
        <5>1. last + 1 \notin 1 .. last BY <1>2
        <5> QED BY <1>3, <3>1, <5>1 DEF Place
      <4> QED BY <1>5, <1>7, <1>8, <3>1, <4>1
    <3>2. CASE i # last
      <4>0. i \in 0 .. last /\ i # last /\ last \in Nat BY <1>2, <3>2
      <4>1. i + 1 \in 1 .. last /\ last + 1 \in i + 2 .. last + 2 /\ (last + 1) - 1 = last
        <5>1. i < last BY <4>0
        <5> QED BY <4>0, <5>1
      <4>2. q # None BY <1>2, <1>3, <4>1
      <4>3. listTail = Place(s, last) BY <1>1 DEF Chain
      <4> QED BY <1>5, <1>7, <1>8, <4>1, <4>2, <4>3
    <3> QED BY <3>1, <3>2
  <2> QED BY <2>1, <2>2
<1>15. size' = Len(t) BY <1>1, <1>5, <1>7 DEF Chain
<1>16. t \in Seq(Nat) BY <1>7
<1>17. PICK u : u = t OBVIOUS
<1>18. Chain(u)'
  BY <1>10, <1>11, <1>12, <1>13, <1>14, <1>15, <1>16, <1>17 DEF Chain, Place
<1> QED BY <1>9, <1>18 DEF ListInv

\* A removal, wherever in the list the node stood.
LEMMA RemoveKeeps ==
  ASSUME ListInv, NEW id \in Ids, Remove(id)
  PROVE  ListInv'
<1>1. PICK s : Chain(s) BY DEF ListInv
<1> DEFINE last == Len(s)
<1>2. /\ last \in Nat /\ DOMAIN s = 1 .. last /\ s \in Seq(Nat)
      /\ \A k \in 1 .. last : s[k] \in Nat /\ s[k] \in Ids /\ s[k] # None
      /\ \A k \in 1 .. last, j \in Int : s[k] = Place(s, j) <=> k = j
  <2>1. last \in Nat /\ DOMAIN s = 1 .. last /\ s \in Seq(Nat) BY <1>1 DEF Chain
  <2>2. \A k \in 1 .. last : s[k] \in Nat /\ s[k] \in Ids /\ s[k] # None BY <1>1, PlaceLaw
  <2>3. \A k \in 1 .. last, j \in Int : s[k] = Place(s, j) <=> k = j BY <1>1, PlaceLaw
  <2> QED BY <2>1, <2>2, <2>3
<1>3. PICK i \in 1 .. last : id = s[i] BY <1>1, LinkPlace
<1> DEFINE p == Place(s, i - 1)
           q == Place(s, i + 1)
<1>4. node[id].prev = p /\ node[id].next = q BY <1>1, <1>3 DEF Chain
<1> HIDE DEF p, q
<1>5. /\ DOMAIN node' = Ids \ {id}
      /\ \A other \in Ids \ {id} : node'[other] = Relinked(p, q, q, p)[other]
      /\ listHead' = IF p = None THEN q ELSE listHead
      /\ listTail' = IF q = None THEN p ELSE listTail
      /\ size' = size - 1 /\ nextId' = nextId
  BY <1>4 DEF Remove, Unlinked, TailAfterRemove
<1>6. \A j \in 1 .. last : j # i =>
        /\ node'[s[j]].priority = node[s[j]].priority
        /\ node'[s[j]].prev = IF j = i + 1 THEN p ELSE Place(s, j - 1)
        /\ node'[s[j]].next = IF j = i - 1 THEN q ELSE Place(s, j + 1)
        /\ s[j] # id
  <2> SUFFICES ASSUME NEW j \in 1 .. last, j # i
               PROVE  /\ node'[s[j]].priority = node[s[j]].priority
                      /\ node'[s[j]].prev = IF j = i + 1 THEN p ELSE Place(s, j - 1)
                      /\ node'[s[j]].next = IF j = i - 1 THEN q ELSE Place(s, j + 1)
                      /\ s[j] # id
    OBVIOUS
  <2>0. \A a, b \in 1 .. last : s[a] = s[b] => a = b BY <1>1 DEF Chain
  <2>1. s[j] \in Ids \ {id} BY <1>2, <1>3, <2>0
  <2>2. /\ node'[s[j]].priority = node[s[j]].priority
        /\ node'[s[j]].prev = IF s[j] = q THEN p ELSE node[s[j]].prev
        /\ node'[s[j]].next = IF s[j] = p THEN q ELSE node[s[j]].next
    BY <1>5, <2>1, RelinkedParts
  <2>3. (s[j] = p <=> j = i - 1) /\ (s[j] = q <=> j = i + 1) BY <1>2, <1>3 DEF p, q
  <2>4. node[s[j]].prev = Place(s, j - 1) /\ node[s[j]].next = Place(s, j + 1)
    BY <1>1 DEF Chain
  <2> QED BY <2>1, <2>2, <2>3, <2>4
<1> DEFINE t == [k \in 1 .. last - 1 |-> IF k < i THEN s[k] ELSE s[k + 1]]
<1>7. /\ t \in Seq(Nat) /\ Len(t) = last - 1
      /\ \A k \in 1 .. i - 1 : t[k] = s[k]
      /\ \A k \in i .. last - 1 : t[k] = s[k + 1]
  <2>0. last - 1 \in Nat BY <1>2, <1>3
  <2>1. \A k \in 1 .. last - 1 : (IF k < i THEN s[k] ELSE s[k + 1]) \in Nat
    BY <1>2, <1>3, <2>0
  <2>3. t \in Seq(Nat) /\ Len(t) = last - 1 BY <2>0, <2>1
  <2> QED BY <1>2, <1>3, <2>3
<1> HIDE DEF t
<1>8. /\ \A k \in 0 .. i - 1 : Place(t, k) = Place(s, k)
      /\ \A k \in i .. last : Place(t, k) = Place(s, k + 1)
  <2>1. ASSUME NEW k \in 0 .. i - 1 PROVE Place(t, k) = Place(s, k)
    <3>1. k \in 1 .. last - 1 <=> k \in 1 .. last BY <1>2, <1>3
    <3>2. k \in 1 .. last => k \in 1 .. i - 1 BY <1>2, <1>3
    <3> QED BY <1>7, <3>1, <3>2 DEF Place
  <2>2. ASSUME NEW k \in i .. last PROVE Place(t, k) = Place(s, k + 1)
    <3>1. k \in 1 .. last - 1 <=> k + 1 \in 1 .. last BY <1>2, <1>3
    <3>2. k \in 1 .. last - 1 => k \in i .. last - 1 BY <1>2, <1>3
    <3> QED BY <1>7, <3>1, <3>2 DEF Place
  <2> QED BY <2>1, <2>2
<1>9. ListTypes'
  <2>1. \A other \in Ids \ {id} : node'[other].priority \in Int
    BY <1>5, RelinkedParts DEF ListInv, ListTypes
  <2> QED BY <1>5, <2>1 DEF ListInv, ListTypes, Ids
<1> DEFINE From(m) == IF m < i THEN m ELSE m + 1
<1>10. \A m \in 1 .. last - 1 :
         From(m) \in 1 .. last /\ From(m) # i /\ t[m] = s[From(m)]
  <2> SUFFICES ASSUME NEW m \in 1 .. last - 1
               PROVE  From(m) \in 1 .. last /\ From(m) # i /\ t[m] = s[From(m)]
    OBVIOUS
  <2>1. CASE m < i
    <3>1. m \in 1 .. i - 1 /\ m \in 1 .. last BY <1>2, <1>3, <2>1
    <3> QED BY <1>7, <2>1, <3>1
  <2>2. CASE ~(m < i)
    <3>1. m \in i .. last - 1 /\ m + 1 \in 1 .. last /\ m + 1 # i BY <1>2, <1>3, <2>2
    <3> QED BY <1>7, <2>2, <3>1
  <2> QED BY <2>1, <2>2
<1>11. \A j \in 1 .. last : j # i => \E m \in 1 .. last - 1 : From(m) = j
  <2> SUFFICES ASSUME NEW j \in 1 .. last, j # i
               PROVE  \E m \in 1 .. last - 1 : From(m) = j
    OBVIOUS
  <2>1. CASE j < i
    <3>1. j \in 1 .. last - 1 /\ From(j) = j BY <1>2, <1>3, <2>1
    <3> QED BY <3>1
  <2>2. CASE ~(j < i)
    <3>1. j - 1 \in 1 .. last - 1 /\ From(j - 1) = j BY <1>2, <1>3, <2>2
    <3> QED BY <3>1
  <2> QED BY <2>1, <2>2
<1>12. \A j, k \in 1 .. last - 1 : From(j) = From(k) => j = k BY <1>2, <1>3
<1>13. \A k \in 1 .. last - 1 : From(k + 1) = IF k + 1 = i THEN i + 1 ELSE From(k) + 1
  BY <1>2, <1>3
<1>14. Ids' = {t[k] : k \in 1 .. Len(t)}
  <2>1. Ids' = Ids \ {id} BY <1>5 DEF Ids
  <2>2. Ids = {s[k] : k \in 1 .. last} BY <1>1 DEF Chain
  <2>3. ASSUME NEW x \in Ids' PROVE \E m \in 1 .. last - 1 : x = t[m]
    <3>1. PICK j \in 1 .. last : x = s[j] /\ j # i BY <1>3, <2>1, <2>2
    <3> QED BY <1>10, <1>11, <3>1
  <2>4. ASSUME NEW m \in 1 .. last - 1 PROVE t[m] \in Ids'
    <3>1. From(m) \in 1 .. last /\ From(m) # i /\ t[m] = s[From(m)] BY <1>10
    <3> HIDE DEF From
    <3> QED BY <1>2, <1>6, <2>1, <3>1
  <2> QED BY <1>7, <2>3, <2>4
<1>15. \A j, k \in 1 .. Len(t) : t[j] = t[k] => j = k
  <2>1. \A a, b \in 1 .. last : s[a] = s[b] => a = b BY <1>1 DEF Chain
  <2>2. ASSUME NEW j \in 1 .. last - 1, NEW k \in 1 .. last - 1, t[j] = t[k] PROVE j = k
    <3>1. From(j) \in 1 .. last /\ From(k) \in 1 .. last BY <1>10
    <3>2. s[From(j)] = s[From(k)] BY <1>10, <2>2
    <3> HIDE DEF From
    <3>3. From(j) = From(k) BY <2>1, <3>1, <3>2
    <3> QED BY <1>12, <3>3
  <2> QED BY <1>7, <2>2
<1>16. \A k \in 1 .. Len(t) : /\ node'[t[k]].next = Place(t, k + 1)
                              /\ node'[t[k]].prev = Place(t, k - 1)
  <2> SUFFICES ASSUME NEW k \in 1 .. last - 1
               PROVE  node'[t[k]].next = Place(t, k + 1) /\ node'[t[k]].prev = Place(t, k - 1)
    BY <1>7
  <2>1. CASE k < i
    <3>1. k \in 1 .. i - 1 /\ k \in 1 .. last /\ k - 1 \in 0 .. i - 1 /\ k # i /\ k # i + 1
      BY <1>2, <1>3, <2>1
    <3>2. t[k] = s[k] /\ Place(t, k - 1) = Place(s, k - 1) BY <1>7, <1>8, <3>1
    <3>3. node'[t[k]].prev = Place(s, k - 1) BY <1>6, <3>1, <3>2
    <3>4. node'[t[k]].next = IF k = i - 1 THEN q ELSE Place(s, k + 1) BY <1>6, <3>1, <3>2
    <3>5. CASE k = i - 1
      <4>1. k + 1 = i /\ i \in i .. last BY <1>2, <1>3, <3>5
      <4>2. Place(t, k + 1) = q BY <1>8, <4>1 DEF q
      <4> QED BY <3>2, <3>3, <3>4, <3>5, <4>2
    <3>6. CASE k # i - 1
      <4>1. k + 1 \in 0 .. i - 1 BY <1>2, <1>3, <2>1, <3>6
      <4>2. Place(t, k + 1) = Place(s, k + 1) BY <1>8, <4>1
      <4> QED BY <3>2, <3>3, <3>4, <3>6, <4>2
    <3> QED BY <3>5, <3>6
  <2>2. CASE ~(k < i)
    <3> DEFINE m == k + 1
    <3>1. /\ k \in i .. last - 1 /\ m \in 1 .. last /\ m # i /\ m # i - 1
          /\ m \in i .. last /\ m = k + 1 /\ m - 1 = k
      BY <1>2, <1>3, <2>2
    <3>2. t[k] = s[m] BY <1>7, <3>1
    <3>3. Place(t, k + 1) = Place(s, m + 1) BY <1>8, <3>1
    <3> HIDE DEF m
    <3>4. node'[t[k]].next = Place(s, m + 1) BY <1>6, <3>1, <3>2
    <3>5. node'[t[k]].prev = IF m = i + 1 THEN p ELSE Place(s, m - 1) BY <1>6, <3>1, <3>2
    <3>6. CASE m = i + 1
      <4>1. k - 1 = i - 1 /\ i - 1 \in 0 .. i - 1 BY <1>2, <1>3, <3>1, <3>6
      <4>2. Place(t, k - 1) = p BY <1>8, <4>1 DEF p
      <4> QED BY <3>1, <3>3, <3>4, <3>5, <3>6, <4>2
    <3>7. CASE m # i + 1
      <4>1. k - 1 \in i .. last /\ (k - 1) + 1 = m - 1 BY <1>2, <1>3, <2>2, <3>1, <3>7
      <4>2. Place(t, k - 1) = Place(s, (k - 1) + 1) BY <1>8, <4>1
      <4> QED BY <3>3, <3>4, <3>5, <3>7, <4>1, <4>2
    <3> QED BY <3>6, <3>7
  <2> QED BY <2>1, <2>2
<1>17. \A k \in 1 .. Len(t) - 1 : node'[t[k]].priority >= node'[t[k + 1]].priority
  <2> SUFFICES ASSUME NEW k \in 1 .. last - 2
               PROVE  node'[t[k]].priority >= node'[t[k + 1]].priority
    <3>1. Len(t) - 1 = last - 2 BY <1>2, <1>7
    <3> QED BY <3>1
  <2>1. \A j \in 1 .. last - 1 : node[s[j]].priority >= node[s[j + 1]].priority
    BY <1>1 DEF Chain
  <2>2. k \in 1 .. last - 1 /\ k + 1 \in 1 .. last - 1 BY <1>2
  <2> DEFINE a == From(k)
             b == From(k + 1)
  <2>3. a \in 1 .. last /\ a # i /\ b \in 1 .. last /\ b # i BY <1>10, <2>2
  <2>4. t[k] = s[a] /\ t[k + 1] = s[b] BY <1>10, <2>2
  <2>5. node'[t[k]].priority = node[s[a]].priority BY <1>6, <2>3, <2>4
  <2>6. node'[t[k + 1]].priority = node[s[b]].priority BY <1>6, <2>3, <2>4
  <2>7. CASE k + 1 = i
    <3>1. a = k /\ b = i + 1 /\ a = i - 1 BY <1>2, <1>3, <2>7
    <3>2. i \in 1 .. last - 1 /\ a \in 1 .. last - 1 /\ a + 1 = i BY <1>2, <1>3, <2>3, <3>1
    <3>3. node[s[a]].priority >= node[s[i]].priority BY <2>1, <3>2
    <3>4. node[s[i]].priority >= node[s[b]].priority BY <2>1, <3>1, <3>2
    <3>5. /\ node[s[a]].priority \in Int /\ node[s[i]].priority \in Int
          /\ node[s[b]].priority \in Int
      BY <1>2, <1>3, <2>3 DEF ListInv, ListTypes
    <3> QED BY <2>5, <2>6, <3>3, <3>4, <3>5
  <2>8. CASE k + 1 # i
    <3>1. b = a + 1 BY <1>13, <2>2, <2>8
    <3>2. a \in 1 .. last - 1 BY <1>2, <2>3, <3>1
    <3> HIDE DEF a, b
    <3> QED BY <2>1, <2>5, <2>6, <3>1, <3>2
  <2> QED BY <2>7, <2>8
<1>18. listHead' = Place(t, 1) /\ listTail' = Place(t, Len(t))
  <2>1. listHead' = Place(t, 1)
    <3>1. CASE i = 1
      <4>1. p = None BY <3>1 DEF p, Place
      <4>2. 1 \in i .. last /\ 1 + 1 = i + 1 BY <1>2, <1>3, <3>1
      <4>3. Place(t, 1) = q BY <1>8, <4>2 DEF q
      <4> QED BY <1>5, <4>1, <4>3
    <3>2. CASE i # 1
      <4>1. i - 1 \in 1 .. last /\ 1 \in 0 .. i - 1 BY <1>2, <1>3, <3>2
      <4>2. p # None BY <1>2, <4>1 DEF p, Place
      <4>3. listHead = Place(s, 1) BY <1>1 DEF Chain
      <4> QED BY <1>5, <1>8, <4>1, <4>2, <4>3
    <3> QED BY <3>1, <3>2
  <2>2. listTail' = Place(t, Len(t))
    <3>1. CASE i = last
      <4>1. q = None
        <5>1. i + 1 \notin 1 .. last BY <1>2, <3>1
        <5> QED BY <5>1 DEF q, Place
      <4>2. last - 1 = i - 1 /\ i - 1 \in 0 .. i - 1 BY <1>2, <1>3, <3>1
      <4>3. Place(t, last - 1) = p BY <1>8, <4>2 DEF p
      <4> QED BY <1>5, <1>7, <4>1, <4>3
    <3>2. CASE i # last
      <4>0. i \in 1 .. last /\ i # last /\ last \in Nat BY <1>2, <1>3, <3>2
      <4>1. i + 1 \in 1 .. last /\ last - 1 \in i .. last /\ (last - 1) + 1 = last
        <5>1. i < last BY <4>0
        <5> QED BY <4>0, <5>1
      <4>2. q # None BY <1>2, <4>1 DEF q, Place
      <4>3. listTail = Place(s, last) BY <1>1 DEF Chain
      <4>4. Place(t, last - 1) = Place(s, last)
        <5>1. Place(t, last - 1) = Place(s, (last - 1) + 1) BY <1>8, <4>1
        <5> QED BY <4>1, <5>1
      <4> QED BY <1>5, <1>7, <4>2, <4>3, <4>4
    <3> QED BY <3>1, <3>2
  <2> QED BY <2>1, <2>2
<1>19. size' = Len(t) BY <1>1, <1>5, <1>7 DEF Chain
<1>20. t \in Seq(Nat) BY <1>7
<1>21. PICK u : u = t OBVIOUS
<1>22. Chain(u)'
  BY <1>14, <1>15, <1>16, <1>17, <1>18, <1>19, <1>20, <1>21 DEF Chain, Place
<1> QED BY <1>9, <1>22 DEF ListInv

\* The list stays one chain through every insertion and removal.
LEMMA ListInductive == ListSpec => []ListInv
<1>1. ListInit => ListInv
  <2> SUFFICES ASSUME ListInit PROVE ListInv OBVIOUS
  <2>1. Ids = {} /\ nextId = 1 /\ size = 0 /\ listHead = None /\ listTail = None
    BY DEF ListInit, Ids
  <2>2. Chain(<<>>) BY <2>1 DEF Chain, Place
  <2> QED BY <2>1, <2>2 DEF ListInv, ListTypes
<1>2. ListInv /\ [ListNext]_listVars => ListInv'
  <2> SUFFICES ASSUME ListInv, [ListNext]_listVars PROVE ListInv' OBVIOUS
  <2>1. ASSUME NEW priority \in Priorities, NEW p \in Link, NEW q \in Link,
               Insert(priority, p, q)
        PROVE  ListInv'
    BY <2>1, InsertKeeps
  <2>2. ASSUME NEW id \in Ids, Remove(id) PROVE ListInv' BY <2>2, RemoveKeeps
  <2>3. CASE UNCHANGED listVars
    BY <2>3 DEF listVars, ListInv, ListTypes, Chain, Ids
  <2> QED BY <2>1, <2>2, <2>3 DEF ListNext, ListGetPage
<1> QED BY <1>1, <1>2, PTL DEF ListSpec

-----------------------------------------------------------------------------
(* Walks along the links.                                                  *)

\* One round of a walk, from what the rounds before it made.
WalkRound(f, from, k) ==
  IF k = 0 THEN [seen |-> <<>>, at |-> from]
  ELSE LET w == f[k - 1]
       IN  IF w.at = None THEN w
           ELSE [seen |-> Append(w.seen, w.at), at |-> node[w.at].next]

Walks(from, m, f) == f = [k \in 0 .. m |-> WalkRound(f, from, k)]

\* What a walk is: the last round of a function that fits its equation.
LEMMA WalkUnfold ==
  ASSUME NEW from, NEW m \in Nat
  PROVE  Walk(from, m) = (CHOOSE f : Walks(from, m, f))[m]
BY DEF Walk, Walks, WalkRound

\* A round that has not met the end takes one node more.
LEMMA RoundGoesOn ==
  ASSUME NEW f, NEW from, NEW k, k # 0, f[k - 1].at # None
  PROVE  WalkRound(f, from, k) = [seen |-> Append(f[k - 1].seen, f[k - 1].at),
                                  at |-> node[f[k - 1].at].next]
BY DEF WalkRound

\* A stretch of a chain, and how far a walk of k rounds gets from place i.
Cut(s, i, k) == [j \in 1 .. k |-> s[i + j - 1]]
Reach(s, i, k) == IF k <= Len(s) + 1 - i THEN k ELSE Len(s) + 1 - i
WalkEnd(s, i, k) ==
  [seen |-> Cut(s, i, Reach(s, i, k)), at |-> Place(s, i + Reach(s, i, k))]

\* A stretch of a chain grows by the node after it.
LEMMA CutLaw ==
  ASSUME NEW s \in Seq(Nat), NEW i \in Nat \ {0}, NEW k \in Nat, i + k <= Len(s) + 1
  PROVE  /\ Cut(s, i, k) \in Seq(Nat) /\ Len(Cut(s, i, k)) = k
         /\ Cut(s, i, 0) = <<>>
         /\ i + k \in 1 .. Len(s) => Append(Cut(s, i, k), s[i + k]) = Cut(s, i, k + 1)
<1>1. Len(s) \in Nat /\ DOMAIN s = 1 .. Len(s) /\ \A j \in 1 .. Len(s) : s[j] \in Nat
  OBVIOUS
<1>2. \A j \in 1 .. k : i + j - 1 \in 1 .. Len(s) BY <1>1
<1>3. Cut(s, i, k) \in Seq(Nat) /\ Len(Cut(s, i, k)) = k BY <1>1, <1>2 DEF Cut
<1>4. Cut(s, i, 0) = <<>> BY DEF Cut
<1>5. ASSUME i + k \in 1 .. Len(s)
      PROVE  Append(Cut(s, i, k), s[i + k]) = Cut(s, i, k + 1)
  <2> DEFINE a == Append(Cut(s, i, k), s[i + k])
             b == Cut(s, i, k + 1)
  <2>0. s[i + k] \in Nat BY <1>1, <1>5
  <2>1. a \in Seq(Nat) /\ Len(a) = k + 1 BY <1>3, <2>0
  <2>2. \A j \in 1 .. k + 1 : s[i + j - 1] \in Nat /\ k + 1 \in Nat
    <3> SUFFICES ASSUME NEW j \in 1 .. k + 1
                 PROVE  i + j - 1 \in 1 .. Len(s) /\ k + 1 \in Nat
      BY <1>1
    <3> QED BY <1>1, <1>5
  <2>3. b \in Seq(Nat) /\ Len(b) = k + 1
    <3> DEFINE most == k + 1
               E(j) == s[i + j - 1]
    <3>1. b = [j \in 1 .. most |-> E(j)] BY DEF Cut
    <3>2. most \in Nat /\ \A j \in 1 .. most : E(j) \in Nat
      <4>1. most \in Nat OBVIOUS
      <4>2. ASSUME NEW j \in 1 .. most PROVE E(j) \in Nat BY <2>2
      <4> QED BY <4>1, <4>2
    <3>3. most = k + 1 OBVIOUS
    <3> HIDE DEF b, most, E
    <3> QED BY <3>1, <3>2, <3>3
  <2>4. ASSUME NEW j \in 1 .. k + 1 PROVE a[j] = b[j]
    <3>1. b[j] = s[i + j - 1] BY DEF Cut
    <3>2. CASE j = k + 1
      <4>1. a[j] = s[i + k] BY <1>1, <1>3, <1>5, <3>2
      <4>2. i + j - 1 = i + k BY <3>2
      <4> QED BY <3>1, <4>1, <4>2
    <3>3. CASE j # k + 1
      <4>1. j \in 1 .. k BY <3>3
      <4>2. a[j] = Cut(s, i, k)[j] BY <1>1, <1>3, <1>5, <4>1
      <4>3. Cut(s, i, k)[j] = s[i + j - 1] BY <4>1 DEF Cut
      <4> QED BY <3>1, <4>2, <4>3
    <3> QED BY <3>2, <3>3
  <2> HIDE DEF a, b
  <2>5. a = b BY <2>1, <2>3, <2>4
  <2> QED BY <2>5 DEF a, b
<1> QED BY <1>3, <1>4, <1>5

\* A walk from a place of the chain reads the chain from there, and stops at its end.
LEMMA WalkLaw ==
  ASSUME NEW s, Chain(s), NEW i \in 1 .. Len(s) + 1, NEW m \in Nat
  PROVE  Walk(Place(s, i), m) = WalkEnd(s, i, m)
<1> DEFINE from == Place(s, i)
           last == Len(s)
<1>1. last \in Nat /\ s \in Seq(Nat) BY DEF Chain
<1> DEFINE g == [k \in 0 .. m |-> WalkEnd(s, i, k)]
<1>2. \A k \in 0 .. m : WalkRound(g, from, k) = WalkEnd(s, i, k)
  <2> SUFFICES ASSUME NEW k \in 0 .. m PROVE WalkRound(g, from, k) = WalkEnd(s, i, k)
    OBVIOUS
  <2>1. CASE k = 0
    <3>1. Reach(s, i, 0) = 0 BY <1>1 DEF Reach
    <3>2. Cut(s, i, 0) = <<>> BY <1>1, CutLaw
    <3>3. i + 0 = i OBVIOUS
    <3>4. WalkEnd(s, i, k) = [seen |-> <<>>, at |-> from] BY <2>1, <3>1, <3>2, <3>3 DEF WalkEnd
    <3> QED BY <2>1, <3>4 DEF WalkRound
  <2>2. CASE k # 0 /\ k <= last + 1 - i
    <3> DEFINE h == k - 1
    <3>1. /\ h \in Nat /\ h \in 0 .. m /\ h + 1 = k /\ i + h \in 1 .. last
          /\ i + h <= last + 1 /\ i \in Nat \ {0} /\ h <= last + 1 - i
      BY <1>1, <2>2
    <3> HIDE DEF h
    <3>2. Reach(s, i, h) = h /\ Reach(s, i, k) = k BY <2>2, <3>1 DEF Reach
    <3>3. Place(s, i + h) = s[i + h] BY <3>1 DEF Place
    <3>4. g[h] = [seen |-> Cut(s, i, h), at |-> s[i + h]] BY <3>1, <3>2, <3>3 DEF WalkEnd
    <3>5. s[i + h] # None BY <3>1, PlaceLaw
    <3>6. Append(Cut(s, i, h), s[i + h]) = Cut(s, i, k) BY <1>1, <3>1, CutLaw
    <3>7. node[s[i + h]].next = Place(s, i + k)
      <4>1. node[s[i + h]].next = Place(s, (i + h) + 1) BY <3>1 DEF Chain
      <4>2. (i + h) + 1 = i + k BY <3>1
      <4> QED BY <4>1, <4>2
    <3>8. k - 1 = h BY <3>1
    <3> HIDE DEF g
    <3>9. WalkRound(g, from, k)
            = [seen |-> Append(Cut(s, i, h), s[i + h]), at |-> node[s[i + h]].next]
      <4>1. g[k - 1].at = s[i + h] /\ g[k - 1].seen = Cut(s, i, h) BY <3>4, <3>8
      <4> QED BY <2>2, <3>5, <4>1, RoundGoesOn
    <3> QED BY <3>2, <3>6, <3>7, <3>9 DEF WalkEnd
  <2>3. CASE k # 0 /\ ~(k <= last + 1 - i)
    <3> DEFINE h == k - 1
    <3>1. h \in 0 .. m /\ last + 1 - i <= h BY <1>1, <2>3
    <3>2. Reach(s, i, h) = last + 1 - i /\ Reach(s, i, k) = last + 1 - i
      BY <1>1, <2>3, <3>1 DEF Reach
    <3>3. WalkEnd(s, i, h) = WalkEnd(s, i, k) BY <3>2 DEF WalkEnd
    <3>4. i + (last + 1 - i) \notin 1 .. last BY <1>1
    <3>5. WalkEnd(s, i, h).at = None BY <3>2, <3>4 DEF WalkEnd, Place
    <3>6. g[h] = WalkEnd(s, i, h) BY <3>1
    <3> HIDE DEF g
    <3> QED BY <2>3, <3>3, <3>5, <3>6 DEF WalkRound
  <2> QED BY <2>1, <2>2, <2>3
<1>3. Walks(from, m, g) BY <1>2 DEF Walks
<1> DEFINE f == CHOOSE w : Walks(from, m, w)
<1>4. Walks(from, m, f) BY <1>3
<1>5. Walk(from, m) = f[m] BY WalkUnfold
<1> HIDE DEF f, g
<1>6. \A k \in 0 .. m : f[k] = WalkRound(f, from, k) BY <1>4 DEF Walks
<1>7. \A k \in 0 .. m : g[k] = WalkRound(g, from, k) BY <1>3 DEF Walks
<1> DEFINE Same == {k \in Nat : k \in 0 .. m => f[k] = g[k]}
<1>8. 0 \in Same
  <2>1. 0 \in 0 .. m OBVIOUS
  <2>2. WalkRound(f, from, 0) = WalkRound(g, from, 0) BY DEF WalkRound
  <2> HIDE DEF from
  <2>3. f[0] = g[0] BY <1>6, <1>7, <2>1, <2>2
  <2> QED BY <2>3
<1>9. ASSUME NEW k \in Same PROVE k + 1 \in Same
  <2> SUFFICES ASSUME k + 1 \in 0 .. m PROVE f[k + 1] = g[k + 1] OBVIOUS
  <2>1. k \in Nat /\ k \in 0 .. m /\ k + 1 # 0 /\ (k + 1) - 1 = k OBVIOUS
  <2>2. f[k] = g[k] BY <2>1
  <2> HIDE DEF Same
  <2>3. WalkRound(f, from, k + 1) = WalkRound(g, from, k + 1) BY <2>1, <2>2 DEF WalkRound
  <2> QED BY <1>6, <1>7, <2>3
<1>10. Nat \subseteq Same
  <2>1. Same \subseteq Nat OBVIOUS
  <2> HIDE DEF Same
  <2> QED BY <1>8, <1>9, <2>1, NatSetInduction
<1>11. f[m] = g[m] BY <1>10
<1> QED BY <1>5, <1>11 DEF g

\* A chain holds as many nodes as it has places, and the walk from the head reads it all.
LEMMA ForwardLaw ==
  ASSUME NEW s, Chain(s)
  PROVE  /\ Cardinality(Ids) = Len(s)
         /\ Forward = s
         /\ listHead = Place(s, 1)
<1> DEFINE last == Len(s)
<1>1. last \in Nat /\ s \in Seq(Nat) /\ DOMAIN s = 1 .. last BY DEF Chain
<1>2. Cardinality(Ids) = last
  <2>1. IsFiniteSet(1 .. last) /\ Cardinality(1 .. last) = last BY SMTT(60), <1>1, FS_Interval
  <2>2. s \in [1 .. last -> Ids] BY <1>1 DEF Chain
  <2>3. \A p, q \in 1 .. last : s[p] = s[q] => p = q BY DEF Chain
  <2>4. \A id \in Ids : \E p \in 1 .. last : s[p] = id BY DEF Chain
  <2> HIDE DEF last
  <2> QED BY <2>1, <2>2, <2>3, <2>4, SameCount
<1>3. listHead = Place(s, 1) BY DEF Chain
<1>4. Forward = WalkEnd(s, 1, last + 1).seen
  <2>1. 1 \in 1 .. last + 1 /\ last + 1 \in Nat BY <1>1
  <2>2. Walk(Place(s, 1), last + 1) = WalkEnd(s, 1, last + 1) BY <2>1, WalkLaw
  <2> QED BY <1>2, <1>3, <2>2 DEF Forward
<1>5. Reach(s, 1, last + 1) = last
  <2>1. last \in Nat => (~(last + 1 <= last + 1 - 1) /\ last + 1 - 1 = last) OBVIOUS
  <2> QED BY <1>1, <2>1 DEF Reach
<1>6. Forward = Cut(s, 1, last) BY <1>4, <1>5 DEF WalkEnd
<1>7. Cut(s, 1, last) = s
  <2>1. \A j \in 1 .. last : 1 + j - 1 = j BY <1>1
  <2>2. Cut(s, 1, last) = [j \in 1 .. last |-> s[j]] BY <2>1 DEF Cut
  <2> QED BY <1>1, <2>2
<1> QED BY <1>2, <1>3, <1>6, <1>7

\* What the invariant says of the list as a caller reads it.
LEMMA ChainIsWhole ==
  ASSUME ListInv
  PROVE  ListIsWhole
<1>1. PICK s : Chain(s) BY DEF ListInv
<1> DEFINE last == Len(s)
<1>2. last \in Nat /\ DOMAIN s = 1 .. last BY <1>1 DEF Chain
<1>3. Cardinality(Ids) = last /\ Forward = s /\ size = last BY <1>1, ForwardLaw DEF Chain
<1>4. {s[i] : i \in DOMAIN s} = Ids BY <1>1, <1>2 DEF Chain
<1>5. ASSUME NEW i \in 1 .. last - 1
      PROVE  /\ node[s[i]].priority >= node[s[i + 1]].priority
             /\ node[s[i + 1]].prev = s[i]
  <2>1. i + 1 \in 1 .. last /\ (i + 1) - 1 = i /\ i \in 1 .. last BY <1>2
  <2>2. node[s[i + 1]].prev = Place(s, (i + 1) - 1) BY <1>1, <2>1 DEF Chain
  <2>3. node[s[i + 1]].prev = s[i] BY <2>1, <2>2 DEF Place
  <2> QED BY <1>1, <2>3 DEF Chain
<1>6. IF Ids = {} THEN listHead = None /\ listTail = None
      ELSE node[listHead].prev = None /\ listTail = s[last]
  <2>1. listHead = Place(s, 1) /\ listTail = Place(s, last) BY <1>1 DEF Chain
  <2>2. CASE last = 0
    <3>1. Ids = {} BY <1>1, <2>2 DEF Chain
    <3>2. Place(s, 1) = None /\ Place(s, last) = None BY <2>2 DEF Place
    <3> QED BY <2>1, <3>1, <3>2
  <2>3. CASE last # 0
    <3>1. 1 \in 1 .. last /\ last \in 1 .. last BY <1>2, <2>3
    <3>2. Ids # {} BY <1>1, <3>1 DEF Chain
    <3>3. listHead = s[1] /\ listTail = s[last] BY <2>1, <3>1 DEF Place
    <3>4. node[s[1]].prev = Place(s, 1 - 1) BY <1>1, <3>1 DEF Chain
    <3>5. Place(s, 1 - 1) = None BY DEF Place
    <3> QED BY <3>2, <3>3, <3>4, <3>5
  <2> QED BY <2>2, <2>3
<1> HIDE DEF last
<1>7. Len(s) = last BY DEF last
<1> QED BY <1>3, <1>4, <1>5, <1>6, <1>7 DEF ListIsWhole

\* One page, and the pages from there on.
PagesRound(f, from, limit) ==
  IF from = None THEN <<>>
  ELSE GetPage(from, limit).seen \o f[GetPage(from, limit).at]

AllPages(limit, f) == f = [from \in Link |-> PagesRound(f, from, limit)]

\* What the pages are: a function that fits their equation.
LEMMA PagesUnfold ==
  ASSUME \A limit \in PageLimits : limit \in 1 .. MaxDepth - 1 =>
           (CHOOSE f : AllPages(limit, f))[listHead] = Forward
  PROVE  PagesCoverTheList
BY DEF PagesCoverTheList, AllPages, PagesRound

\* A page from a place of the chain, below the traversal limit.
LEMMA PageLaw ==
  ASSUME NEW s, Chain(s), NEW i \in 1 .. Len(s) + 1, NEW limit \in 1 .. MaxDepth - 1
  PROVE  GetPage(Place(s, i), limit) = WalkEnd(s, i, limit)
<1>1. Len(s) \in Nat /\ s \in Seq(Nat) BY DEF Chain
<1>2. Least(limit, MaxDepth) = limit /\ limit \in Nat BY ListAssumption DEF Least
<1>3. Walk(Place(s, i), limit) = WalkEnd(s, i, limit) BY <1>2, WalkLaw
<1>4. Reach(s, i, limit) \in Nat /\ Reach(s, i, limit) < MaxDepth
      /\ i + Reach(s, i, limit) <= Len(s) + 1
  BY <1>1, <1>2, ListAssumption DEF Reach
<1>5. Len(Cut(s, i, Reach(s, i, limit))) = Reach(s, i, limit)
  BY <1>1, <1>4, CutLaw
<1>6. ~(Len(WalkEnd(s, i, limit).seen) >= MaxDepth)
  BY <1>4, <1>5, ListAssumption DEF WalkEnd
<1> QED BY <1>2, <1>3, <1>6 DEF GetPage

\* The pages of a whole chain, from each of its nodes and from beyond its end.
Rest(s, from) ==
  IF from = None THEN <<>>
  ELSE LET i == CHOOSE k \in 1 .. Len(s) : s[k] = from IN Cut(s, i, Len(s) + 1 - i)

\* What stands where in two sequences joined.
LEMMA JoinLaw ==
  ASSUME NEW u \in Seq(Nat), NEW v \in Seq(Nat)
  PROVE  /\ u \o v \in Seq(Nat) /\ Len(u \o v) = Len(u) + Len(v)
         /\ \A j \in 1 .. Len(u) + Len(v) :
              (u \o v)[j] = IF j <= Len(u) THEN u[j] ELSE v[j - Len(u)]
OBVIOUS

\* Sequences that agree at every place are one.
LEMMA SameSequence ==
  ASSUME NEW u \in Seq(Nat), NEW v \in Seq(Nat), Len(u) = Len(v),
         \A j \in 1 .. Len(u) : u[j] = v[j]
  PROVE  u = v
OBVIOUS

\* The rest of a chain is a page of it and the rest after that page.
LEMMA RestLaw ==
  ASSUME NEW s, Chain(s), NEW i \in 1 .. Len(s), NEW r \in 1 .. Len(s) + 1 - i
  PROVE  /\ Rest(s, Place(s, i)) = Cut(s, i, r) \o Rest(s, Place(s, i + r))
         /\ Place(s, i) # None /\ Place(s, i) \in Link /\ Place(s, i + r) \in Link
<1> DEFINE last == Len(s)
<1>1. last \in Nat /\ s \in Seq(Nat) /\ DOMAIN s = 1 .. last BY DEF Chain
<1>2. ASSUME NEW k \in 1 .. last
      PROVE  Place(s, k) # None /\ Rest(s, Place(s, k)) = Cut(s, k, last + 1 - k)
  <2>1. Place(s, k) = s[k] /\ s[k] # None BY PlaceLaw DEF Place
  <2>2. \A m \in 1 .. last : s[m] = s[k] => m = k BY DEF Chain
  <2>3. (CHOOSE m \in 1 .. last : s[m] = s[k]) = k BY <2>2
  <2> QED BY <2>1, <2>3 DEF Rest
<1>3. Place(s, i) \in Link /\ Place(s, i + r) \in Link
  <2>1. i \in Int /\ i + r \in Int BY <1>1
  <2> QED BY <2>1, PlaceLaw
<1> DEFINE d == last + 1 - i - r
           a == Cut(s, i, r)
           b == Cut(s, i + r, d)
           c == Cut(s, i, last + 1 - i)
<1>4. /\ d \in Nat /\ i + r \in Nat \ {0} /\ (i + r) + d <= last + 1 /\ i \in Nat \ {0}
      /\ r \in Nat /\ i + r <= last + 1 /\ last + 1 - i \in Nat /\ i + (last + 1 - i) <= last + 1
      /\ last + 1 - i = r + d
  BY <1>1
<1>5. a \in Seq(Nat) /\ Len(a) = r BY <1>1, <1>4, CutLaw
<1>6. b \in Seq(Nat) /\ Len(b) = d BY <1>1, <1>4, CutLaw
<1>7. c \in Seq(Nat) /\ Len(c) = r + d BY <1>1, <1>4, CutLaw
<1>8. a \o b \in Seq(Nat) /\ Len(a \o b) = r + d
  <2> HIDE DEF a, b, d
  <2> QED BY <1>5, <1>6, JoinLaw
<1>9. ASSUME NEW j \in 1 .. r + d PROVE (a \o b)[j] = c[j]
  <2>1. c[j] = s[i + j - 1] BY <1>4 DEF Cut
  <2>2. CASE j <= r
    <3>1. j \in 1 .. r BY <1>4, <2>2
    <3>2. (a \o b)[j] = a[j] BY <1>5, <1>6, <3>1
    <3> QED BY <2>1, <3>1, <3>2 DEF Cut
  <2>3. CASE ~(j <= r)
    <3>1. j - r \in 1 .. d /\ (i + r) + (j - r) - 1 = i + j - 1 BY <1>4, <2>3
    <3>2. (a \o b)[j] = b[j - r]
      <4> HIDE DEF a, b, d
      <4> QED BY <1>5, <1>6, <2>3, JoinLaw
    <3>3. b[j - r] = s[(i + r) + (j - r) - 1] BY <3>1 DEF Cut
    <3> QED BY <2>1, <3>1, <3>2, <3>3
  <2> QED BY <2>2, <2>3
<1>10. c = a \o b
  <2> HIDE DEF a, b, c, d
  <2> QED BY <1>7, <1>8, <1>9, SameSequence
<1>11. Rest(s, Place(s, i)) = c /\ Place(s, i) # None BY <1>2
<1>12. Rest(s, Place(s, i + r)) = b
  <2>1. CASE i + r \in 1 .. last
    <3>1. last + 1 - (i + r) = d BY <1>4
    <3> QED BY <1>2, <2>1, <3>1
  <2>2. CASE i + r \notin 1 .. last
    <3>1. d = 0 /\ Place(s, i + r) = None BY <1>1, <1>4, <2>2 DEF Place
    <3>2. b = <<>> BY <3>1 DEF Cut
    <3> QED BY <3>1, <3>2 DEF Rest
  <2> QED BY <2>1, <2>2
<1> QED BY <1>3, <1>10, <1>11, <1>12

\* Pages that follow one another put the whole list together.
LEMMA ChainIsPaged ==
  ASSUME ListInv
  PROVE  PagesCoverTheList
<1>1. PICK s : Chain(s) BY DEF ListInv
<1> DEFINE last == Len(s)
<1>2. last \in Nat /\ s \in Seq(Nat) BY <1>1 DEF Chain
<1>3. Forward = s /\ listHead = Place(s, 1) BY <1>1, ForwardLaw
<1> SUFFICES ASSUME NEW limit \in PageLimits, limit \in 1 .. MaxDepth - 1
             PROVE  (CHOOSE f : AllPages(limit, f))[listHead] = Forward
  BY PagesUnfold
<1> DEFINE r(i) == Reach(s, i, limit)
<1>4. ASSUME NEW i \in 1 .. last
      PROVE  /\ r(i) \in 1 .. last + 1 - i
             /\ GetPage(Place(s, i), limit).seen = Cut(s, i, r(i))
             /\ GetPage(Place(s, i), limit).at = Place(s, i + r(i))
  <2>1. r(i) \in 1 .. last + 1 - i BY <1>2, ListAssumption DEF Reach
  <2>2. i \in 1 .. last + 1 BY <1>2
  <2>3. GetPage(Place(s, i), limit) = WalkEnd(s, i, limit) BY <1>1, <2>2, PageLaw
  <2> QED BY <2>1, <2>3 DEF WalkEnd
<1> DEFINE g == [from \in Link |-> Rest(s, from)]
<1>5. AllPages(limit, g)
  <2>1. ASSUME NEW from \in Link PROVE Rest(s, from) = PagesRound(g, from, limit)
    <3>1. CASE from = None BY <3>1 DEF PagesRound, Rest
    <3>2. CASE from # None
      <4>1. PICK i \in 1 .. last : from = s[i] BY <1>1, <3>2, LinkPlace DEF Link
      <4>2. from = Place(s, i) BY <4>1 DEF Place
      <4>3. r(i) \in 1 .. last + 1 - i BY <1>4
      <4> HIDE DEF r
      <4>4. /\ Rest(s, Place(s, i)) = Cut(s, i, r(i)) \o Rest(s, Place(s, i + r(i)))
            /\ Place(s, i + r(i)) \in Link
        BY <1>1, <4>3, RestLaw
      <4>5. g[Place(s, i + r(i))] = Rest(s, Place(s, i + r(i))) BY <4>4
      <4> HIDE DEF g
      <4> QED BY <1>4, <3>2, <4>2, <4>4, <4>5 DEF PagesRound
    <3> QED BY <3>1, <3>2
  <2> QED BY <2>1 DEF AllPages
<1> DEFINE f == CHOOSE h : AllPages(limit, h)
<1>6. AllPages(limit, f) BY <1>5
<1> HIDE DEF f, g
<1>7. \A from \in Link : f[from] = PagesRound(f, from, limit) BY <1>6 DEF AllPages
<1> DEFINE Good(e) == e <= last => f[Place(s, last + 1 - e)] = Rest(s, Place(s, last + 1 - e))
           Same == {d \in Nat : \A e \in 0 .. d : Good(e)}
<1>8. Good(0)
  <2>1. Place(s, last + 1 - 0) = None BY <1>2 DEF Place
  <2>2. f[None] = <<>> BY <1>7 DEF Link, PagesRound
  <2>3. Rest(s, None) = <<>> BY DEF Rest
  <2> QED BY <2>1, <2>2, <2>3
<1>9. ASSUME NEW d \in Nat, \A e \in 0 .. d : Good(e) PROVE Good(d + 1)
  <2> SUFFICES ASSUME d + 1 <= last
               PROVE  f[Place(s, last + 1 - (d + 1))] = Rest(s, Place(s, last + 1 - (d + 1)))
    OBVIOUS
  <2> DEFINE i == last + 1 - (d + 1)
             e == d + 1 - r(i)
  <2>1. i \in 1 .. last BY <1>2
  <2>2. r(i) \in 1 .. last + 1 - i BY <1>4, <2>1
  <2> HIDE DEF r
  <2>3. e \in 0 .. d /\ e <= last /\ last + 1 - e = i + r(i)
    <3>1. PICK k : k = r(i) OBVIOUS
    <3>2. k \in 1 .. last + 1 - i BY <2>2, <3>1
    <3>3. last + 1 - i = d + 1 BY <1>2
    <3>4. k \in Nat /\ 1 <= k /\ k <= d + 1 BY <1>2, <3>2, <3>3
    <3>5. e = d + 1 - k BY <3>1
    <3>6. d + 1 - k \in 0 .. d /\ d + 1 - k <= last /\ last + 1 - (d + 1 - k) = i + k
      BY <1>2, <3>4
    <3> HIDE DEF e, i
    <3> QED BY <3>1, <3>5, <3>6
  <2>4. f[Place(s, last + 1 - e)] = Rest(s, Place(s, last + 1 - e)) BY <1>9, <2>3
  <2> HIDE DEF Good, Same, e
  <2>5. f[Place(s, i + r(i))] = Rest(s, Place(s, i + r(i))) BY <2>3, <2>4
  <2> HIDE DEF i
  <2>6. /\ Rest(s, Place(s, i)) = Cut(s, i, r(i)) \o Rest(s, Place(s, i + r(i)))
        /\ Place(s, i) # None /\ Place(s, i) \in Link
    BY <1>1, <2>1, <2>2, RestLaw
  <2>7. f[Place(s, i)] = PagesRound(f, Place(s, i), limit) BY <1>7, <2>6
  <2>8. f[Place(s, i)] = Rest(s, Place(s, i)) BY <1>4, <2>1, <2>5, <2>6, <2>7 DEF PagesRound
  <2> QED BY <2>8 DEF i
<1>10. Nat \subseteq Same
  <2>1. 0 \in Same
    <3>1. \A e \in 0 .. 0 : e = 0 OBVIOUS
    <3> HIDE DEF Good
    <3> QED BY <1>8, <3>1
  <2>2. ASSUME NEW d \in Same PROVE d + 1 \in Same
    <3>1. \A e \in 0 .. d + 1 : e \in 0 .. d \/ e = d + 1 OBVIOUS
    <3> HIDE DEF Good
    <3>2. d \in Nat /\ \A e \in 0 .. d : Good(e) OBVIOUS
    <3>3. Good(d + 1) BY <1>9, <3>2
    <3> QED BY <3>1, <3>2, <3>3
  <2>3. Same \subseteq Nat OBVIOUS
  <2> HIDE DEF Same
  <2> QED BY <2>1, <2>2, <2>3, NatSetInduction
<1>11. f[listHead] = s
  <2>1. Good(last)
    <3>1. last \in 0 .. last /\ last \in Same BY <1>2, <1>10
    <3> HIDE DEF Good
    <3> QED BY <3>1
  <2>2. last + 1 - last = 1 BY <1>2
  <2>3. f[Place(s, 1)] = Rest(s, Place(s, 1)) BY <1>2, <2>1, <2>2
  <2>4. Rest(s, Place(s, 1)) = s
    <3>1. CASE last = 0
      <4>1. Place(s, 1) = None /\ s = <<>> BY <1>2, <3>1 DEF Place
      <4> QED BY <4>1 DEF Rest
    <3>2. CASE last # 0
      <4>1. 1 \in 1 .. last /\ last \in 1 .. last + 1 - 1 BY <1>2, <3>2
      <4>2. Rest(s, Place(s, 1)) = Cut(s, 1, last) \o Rest(s, Place(s, 1 + last))
        BY <1>1, <4>1, RestLaw
      <4>3. 1 + last \notin 1 .. last BY <1>2
      <4>4. Rest(s, Place(s, 1 + last)) = <<>> BY <4>3 DEF Place, Rest
      <4>5. Cut(s, 1, last) = s
        <5>1. \A j \in 1 .. last : 1 + j - 1 = j BY <1>2
        <5>2. Cut(s, 1, last) = [j \in 1 .. last |-> s[j]] BY <5>1 DEF Cut
        <5> QED BY SMTT(60), <1>2, <5>2
      <4> QED BY <1>2, <4>2, <4>4, <4>5
    <3> QED BY <3>1, <3>2
  <2> QED BY <1>3, <2>3, <2>4
<1> QED BY <1>3, <1>11 DEF f

\* linked_list.rs: whatever hints the callers of insert gave, and in whatever order
\* nodes went, the links hold every node once, in order, the same both ways.
THEOREM TheListStaysWhole == ListSpec => []ListIsWhole
BY ListInductive, ChainIsWhole, PTL

\* get_page: pages asked one after another put together the list as it stands.
THEOREM PagesMakeTheList == ListSpec => []PagesCoverTheList
BY ListInductive, ChainIsPaged, PTL

-----------------------------------------------------------------------------
(* Offline drafts: what is under way makes up for what the row lacks.      *)

EditRecord == [tab : Tabs \union {"any"}, session : Nat, nr : Nat]
RowRecord == [exists : BOOLEAN, state : SUBSET EditRecord, deleted : BOOLEAN]
Message == [kind : {"delta", "answer", "merged"}, state : SUBSET EditRecord]
Job == [kind : {"delta", "answer", "merged", "clear"}, state : SUBSET EditRecord,
        read : BOOLEAN, existing : RowRecord]

DraftTypes ==
  /\ edits \in SUBSET EditRecord /\ IsFiniteSet(edits)
  /\ doc \in [Tabs -> SUBSET EditRecord]
  /\ channel \in [Tabs -> Seq(SUBSET EditRecord)]
  /\ toMain \in [Tabs -> Seq(Message)]
  /\ jobs \in [Tabs -> Seq(Job)]
  /\ row \in RowRecord
  /\ loads \in [Tabs -> Nat] /\ reloads \in Nat

\* An edit is in a tab's document or on its way there.
EditsArrive ==
  \A t \in Tabs :
    /\ doc[t] \subseteq edits
    /\ \A i \in 1 .. Len(channel[t]) : channel[t][i] \subseteq edits
    /\ \A e \in edits : e \in doc[t] \/ \E i \in 1 .. Len(channel[t]) : e \in channel[t][i]

\* The row stays there, and every write that has read it found it.
RowIsFound ==
  /\ row.exists
  /\ \A t \in Tabs : \A i \in 1 .. Len(jobs[t]) :
       jobs[t][i].read /\ jobs[t][i].kind # "answer" => jobs[t][i].existing.exists

\* The write at this place is the last of its tab but for deletions.
LastWrite(writes, i) ==
  writes[i].kind # "clear" /\ \A k \in i + 1 .. Len(writes) : writes[k].kind = "clear"

\* What reports the whole of a tab's document.
Whole(t, report) == report.kind # "delta" /\ report.state = doc[t]

\* A tab's last report that is still to be written is a whole one, or one will follow.
ReportIsWhole(t) ==
  channel[t] = <<>> =>
    IF toMain[t] # <<>> THEN Whole(t, toMain[t][Len(toMain[t])])
    ELSE \A i \in 1 .. Len(jobs[t]) : LastWrite(jobs[t], i) => Whole(t, jobs[t][i])

LastReportIsWhole == \A t \in Tabs : ReportIsWhole(t)

ToBeWritten(t) ==
  \/ channel[t] # <<>> \/ toMain[t] # <<>>
  \/ \E i \in 1 .. Len(jobs[t]) : jobs[t][i].kind # "clear"

\* Unless it is marked deleted, the row holds a whole document or will be written.
RowCatchesUp ==
  \/ row.deleted
  \/ \E t \in Tabs : ToBeWritten(t)
  \/ row.state \in {edits} \union {doc[t] : t \in Tabs}

DraftInv ==
  /\ DraftTypes
  /\ resumed /\ reloads = 0 =>
       EditsArrive /\ RowIsFound /\ (~lost => LastReportIsWhole /\ RowCatchesUp)

\* What is left of a writes once its head is taken.
LEMMA TakeHead ==
  ASSUME NEW S, NEW q \in Seq(S), q # <<>>
  PROVE  /\ Head(q) = q[1] /\ Head(q) \in S /\ Len(q) \in Nat /\ Len(q) >= 1
         /\ Tail(q) \in Seq(S) /\ Len(Tail(q)) = Len(q) - 1
         /\ \A i \in 1 .. Len(q) - 1 : Tail(q)[i] = q[i + 1]
         /\ Tail(q) = <<>> <=> Len(q) = 1
<1>1. Len(q) \in Nat /\ Len(q) >= 1 OBVIOUS
<1>2. Tail(q) \in Seq(S) /\ Len(Tail(q)) = Len(q) - 1 OBVIOUS
<1>3. Head(q) = q[1] /\ Head(q) \in S OBVIOUS
<1>4. \A i \in 1 .. Len(q) - 1 : Tail(q)[i] = q[i + 1] OBVIOUS
<1>5. Tail(q) = <<>> <=> Len(Tail(q)) = 0
  <2>1. PICK r \in Seq(S) : r = Tail(q) BY <1>2
  <2>2. r = <<>> <=> Len(r) = 0 OBVIOUS
  <2> QED BY <2>1, <2>2
<1> QED BY <1>1, <1>2, <1>3, <1>4, <1>5

\* What stands where in a writes with one more at its end.
LEMMA PutLast ==
  ASSUME NEW S, NEW q \in Seq(S), NEW x \in S
  PROVE  /\ Append(q, x) \in Seq(S) /\ Len(Append(q, x)) = Len(q) + 1 /\ Len(q) \in Nat
         /\ \A i \in 1 .. Len(q) : Append(q, x)[i] = q[i]
         /\ Append(q, x)[Len(q) + 1] = x
OBVIOUS

\* A local edit: applied, sent to the other tabs and reported twice.
LEMMA SetFieldKeeps ==
  ASSUME DraftInv, NEW t \in Tabs, SetField(t)
  PROVE  DraftInv'
<1>0. DraftTypes BY DEF DraftInv
<1> DEFINE mine == {f \in edits : f.tab = t /\ f.session = loads[t]}
<1> DEFINE e == [tab |-> t, session |-> loads[t], nr |-> Cardinality(mine)]
           whole == doc[t] \union {e}
           delta == [kind |-> "delta", state |-> {e}]
           answer == [kind |-> "answer", state |-> whole]
<1>1. e \in EditRecord
  <2>1. IsFiniteSet(mine) BY <1>0, FS_Subset DEF DraftTypes
  <2>2. Cardinality(mine) \in Nat BY <2>1, FS_CardinalityType
  <2> HIDE DEF mine
  <2>3. loads[t] \in Nat BY <1>0 DEF DraftTypes
  <2> QED BY <2>2, <2>3 DEF EditRecord
<1>2. /\ edits' = edits \union {e} /\ doc' = [doc EXCEPT ![t] = whole]
      /\ toMain' = [toMain EXCEPT ![t] = @ \o <<delta, answer>>]
      /\ channel' = [u \in Tabs |-> IF u = t THEN channel[u] ELSE Append(channel[u], {e})]
      /\ jobs' = jobs /\ row' = row /\ resumed' = resumed /\ reloads' = reloads /\ loads' = loads
  BY DEF SetField
<1> HIDE DEF e
<1>3. whole \in SUBSET EditRecord BY <1>0, <1>1 DEF DraftTypes
<1>4. delta \in Message /\ answer \in Message BY <1>1, <1>3 DEF Message
<1> HIDE DEF delta
<1>5. /\ toMain[t] \in Seq(Message) /\ Len(toMain[t]) \in Nat
      /\ toMain'[t] = toMain[t] \o <<delta, answer>>
      /\ \A u \in Tabs : u # t => toMain'[u] = toMain[u]
  BY <1>0, <1>2 DEF DraftTypes
<1>6. /\ toMain'[t] \in Seq(Message) /\ toMain'[t] # <<>>
      /\ toMain'[t][Len(toMain'[t])] = answer
  <2> DEFINE q == toMain[t]
             r == q \o <<delta, answer>>
  <2>1. q \in Seq(Message) /\ Len(q) \in Nat BY <1>5
  <2> HIDE DEF q, answer
  <2>2. r \in Seq(Message) /\ Len(r) = Len(q) + 2 BY <1>4, <2>1
  <2>3. r[Len(q) + 2] = answer BY <1>4, <2>1
  <2>4. r # <<>> BY <2>1, <2>2
  <2> HIDE DEF r
  <2>5. r[Len(r)] = answer BY <2>2, <2>3
  <2> QED BY <1>5, <2>2, <2>4, <2>5 DEF q, r
<1>7. \A u \in Tabs : /\ doc'[u] = IF u = t THEN whole ELSE doc[u]
                      /\ channel'[u] = IF u = t THEN channel[u] ELSE Append(channel[u], {e})
  BY <1>0, <1>2 DEF DraftTypes
<1>8. ASSUME NEW u \in Tabs, u # t
      PROVE  /\ channel'[u] \in Seq(SUBSET EditRecord)
             /\ Len(channel'[u]) = Len(channel[u]) + 1 /\ Len(channel[u]) \in Nat
             /\ \A i \in 1 .. Len(channel[u]) : channel'[u][i] = channel[u][i]
             /\ channel'[u][Len(channel[u]) + 1] = {e}
  <2>1. channel[u] \in Seq(SUBSET EditRecord) /\ {e} \in SUBSET EditRecord
    BY <1>0, <1>1 DEF DraftTypes
  <2>2. channel'[u] = Append(channel[u], {e}) BY <1>7, <1>8
  <2> QED BY <2>1, <2>2, PutLast
<1>9. DraftTypes'
  <2>1. edits' \in SUBSET EditRecord BY <1>0, <1>1, <1>2 DEF DraftTypes
  <2>2. IsFiniteSet(edits') BY <1>0, <1>2, FS_AddElement DEF DraftTypes
  <2>3. doc' \in [Tabs -> SUBSET EditRecord] BY <1>0, <1>2, <1>3 DEF DraftTypes
  <2>4. channel' \in [Tabs -> Seq(SUBSET EditRecord)]
    <3>1. \A u \in Tabs : channel'[u] \in Seq(SUBSET EditRecord)
      BY <1>0, <1>7, <1>8 DEF DraftTypes
    <3>2. channel' = [u \in Tabs |-> channel'[u]] BY <1>2
    <3> QED BY <3>1, <3>2
  <2>5. toMain' \in [Tabs -> Seq(Message)]
    BY <1>0, <1>2, <1>5, <1>6 DEF DraftTypes
  <2> QED BY <1>0, <1>2, <2>1, <2>2, <2>3, <2>4, <2>5 DEF DraftTypes
<1>10. ASSUME EditsArrive PROVE EditsArrive'
  <2> SUFFICES ASSUME NEW u \in Tabs
               PROVE  /\ doc'[u] \subseteq edits'
                      /\ \A i \in 1 .. Len(channel'[u]) : channel'[u][i] \subseteq edits'
                      /\ \A f \in edits' : \/ f \in doc'[u]
                                           \/ \E i \in 1 .. Len(channel'[u]) : f \in channel'[u][i]
    BY DEF EditsArrive
  <2>1. /\ doc[u] \subseteq edits
        /\ \A i \in 1 .. Len(channel[u]) : channel[u][i] \subseteq edits
        /\ \A f \in edits : f \in doc[u] \/ \E i \in 1 .. Len(channel[u]) : f \in channel[u][i]
    BY <1>10 DEF EditsArrive
  <2>2. CASE u = t
    <3>1. doc'[u] = doc[u] \union {e} /\ channel'[u] = channel[u] BY <1>7, <2>2
    <3> QED BY <1>2, <2>1, <3>1
  <2>3. CASE u # t
    <3>1. doc'[u] = doc[u] BY <1>7, <2>3
    <3>2. ASSUME NEW i \in 1 .. Len(channel'[u]) PROVE channel'[u][i] \subseteq edits'
      <4>1. i \in 1 .. Len(channel[u]) \/ i = Len(channel[u]) + 1 BY <1>8, <2>3
      <4> QED BY <1>2, <1>8, <2>1, <2>3, <4>1
    <3>3. ASSUME NEW f \in edits'
          PROVE  f \in doc[u] \/ \E i \in 1 .. Len(channel'[u]) : f \in channel'[u][i]
      <4>1. \A i \in 1 .. Len(channel[u]) : i \in 1 .. Len(channel'[u]) BY <1>8, <2>3
      <4>2. Len(channel[u]) + 1 \in 1 .. Len(channel'[u]) BY <1>8, <2>3
      <4>3. CASE f = e BY <1>8, <2>3, <4>2, <4>3
      <4>4. CASE f \in edits BY <1>8, <2>1, <2>3, <4>1, <4>4
      <4> QED BY <1>2, <4>3, <4>4
    <3> QED BY <1>2, <2>1, <3>1, <3>2, <3>3
  <2> QED BY <2>2, <2>3
<1>11. RowIsFound => RowIsFound' BY <1>2 DEF RowIsFound
<1>12. LastReportIsWhole'
  <2>1. ReportIsWhole(t)'
    <3>1. answer.kind # "delta" /\ answer.state = doc'[t] BY <1>7
    <3> HIDE DEF answer
    <3> QED BY <1>6, <3>1 DEF ReportIsWhole, Whole
  <2>2. ASSUME NEW u \in Tabs, u # t PROVE ReportIsWhole(u)'
    <3>1. channel'[u] # <<>> BY <1>8, <2>2
    <3> QED BY <3>1 DEF ReportIsWhole
  <2> QED BY <2>1, <2>2 DEF LastReportIsWhole
<1>13. RowCatchesUp'
  <2>1. ToBeWritten(t)' BY <1>6 DEF ToBeWritten
  <2> QED BY <2>1 DEF RowCatchesUp
<1> QED BY <1>2, <1>9, <1>10, <1>11, <1>12, <1>13 DEF DraftInv

\* Another tab's edit: merged and reported.
LEMMA ReceiveKeeps ==
  ASSUME DraftInv, NEW t \in Tabs, ReceiveBroadcast(t)
  PROVE  DraftInv'
<1>0. DraftTypes BY DEF DraftInv
<1> DEFINE got == Head(channel[t])
           whole == doc[t] \union got
           merged == [kind |-> "merged", state |-> whole]
<1>1. /\ channel[t] \in Seq(SUBSET EditRecord) /\ channel[t] # <<>>
      /\ toMain[t] \in Seq(Message)
  BY <1>0 DEF DraftTypes, ReceiveBroadcast
<1>2. /\ got = channel[t][1] /\ got \in SUBSET EditRecord
      /\ Len(channel[t]) \in Nat /\ Len(channel[t]) >= 1
      /\ Tail(channel[t]) \in Seq(SUBSET EditRecord)
      /\ Len(Tail(channel[t])) = Len(channel[t]) - 1
      /\ \A i \in 1 .. Len(channel[t]) - 1 : Tail(channel[t])[i] = channel[t][i + 1]
  BY <1>1, TakeHead
<1>3. /\ lost' = lost /\ doc' = [doc EXCEPT ![t] = whole]
      /\ toMain' = [toMain EXCEPT ![t] = Append(@, merged)]
      /\ channel' = [channel EXCEPT ![t] = Tail(@)]
      /\ edits' = edits /\ jobs' = jobs /\ row' = row /\ resumed' = resumed
      /\ reloads' = reloads /\ loads' = loads
  BY DEF ReceiveBroadcast, Say
<1> HIDE DEF got
<1>4. merged \in Message /\ whole \in SUBSET EditRecord BY <1>0, <1>2 DEF DraftTypes, Message
<1>5. /\ Append(toMain[t], merged) \in Seq(Message) /\ Len(toMain[t]) \in Nat
      /\ Len(Append(toMain[t], merged)) = Len(toMain[t]) + 1
      /\ Append(toMain[t], merged)[Len(toMain[t]) + 1] = merged
  <2> HIDE DEF merged
  <2> QED BY <1>1, <1>4, PutLast
<1>6. /\ toMain'[t] = Append(toMain[t], merged) /\ doc'[t] = whole
      /\ channel'[t] = Tail(channel[t])
      /\ \A u \in Tabs : u # t => /\ toMain'[u] = toMain[u] /\ doc'[u] = doc[u]
                                  /\ channel'[u] = channel[u]
  BY <1>0, <1>3 DEF DraftTypes
<1>7. toMain'[t] # <<>> /\ toMain'[t][Len(toMain'[t])] = merged
  <2> HIDE DEF merged
  <2>1. toMain'[t] # <<>> BY <1>5, <1>6
  <2> QED BY <1>5, <1>6, <2>1
<1>8. DraftTypes'
  <2> HIDE DEF merged, whole
  <2> QED BY <1>0, <1>2, <1>3, <1>4, <1>5 DEF DraftTypes
<1>9. ASSUME EditsArrive PROVE EditsArrive'
  <2> SUFFICES ASSUME NEW u \in Tabs
               PROVE  /\ doc'[u] \subseteq edits
                      /\ \A i \in 1 .. Len(channel'[u]) : channel'[u][i] \subseteq edits
                      /\ \A f \in edits : \/ f \in doc'[u]
                                          \/ \E i \in 1 .. Len(channel'[u]) : f \in channel'[u][i]
    BY <1>3 DEF EditsArrive
  <2>1. /\ doc[u] \subseteq edits
        /\ \A i \in 1 .. Len(channel[u]) : channel[u][i] \subseteq edits
        /\ \A f \in edits : f \in doc[u] \/ \E i \in 1 .. Len(channel[u]) : f \in channel[u][i]
    BY <1>9 DEF EditsArrive
  <2>2. CASE u = t
    <3>1. 1 \in 1 .. Len(channel[t]) BY <1>2
    <3>2. doc'[t] = doc[t] \union channel[t][1] BY <1>2, <1>6
    <3>3. ASSUME NEW i \in 1 .. Len(channel[t]) - 1
          PROVE  channel'[t][i] = channel[t][i + 1] /\ i + 1 \in 1 .. Len(channel[t])
      BY <1>2, <1>6
    <3>4. Len(channel'[t]) = Len(channel[t]) - 1 BY <1>2, <1>6
    <3>5. ASSUME NEW f \in edits, f \notin doc'[t]
          PROVE  \E i \in 1 .. Len(channel'[t]) : f \in channel'[t][i]
      <4>1. PICK k \in 1 .. Len(channel[t]) : f \in channel[t][k] BY <2>1, <2>2, <3>2, <3>5
      <4>2. k # 1 BY <3>2, <3>5, <4>1
      <4>3. k - 1 \in 1 .. Len(channel[t]) - 1 /\ (k - 1) + 1 = k BY <1>2, <4>2
      <4>4. channel'[t][k - 1] = channel[t][(k - 1) + 1] BY <3>3, <4>3
      <4> QED BY <3>4, <4>1, <4>3, <4>4
    <3> QED BY <2>1, <2>2, <3>1, <3>2, <3>3, <3>4, <3>5
  <2>3. CASE u # t BY <1>6, <2>1, <2>3
  <2> QED BY <2>2, <2>3
<1>10. RowIsFound => RowIsFound' BY <1>3 DEF RowIsFound
<1>11. LastReportIsWhole => LastReportIsWhole'
  <2>1. ReportIsWhole(t)'
    <3>1. merged.kind # "delta" /\ merged.state = doc'[t] BY <1>6
    <3> HIDE DEF merged
    <3> QED BY <1>7, <3>1 DEF ReportIsWhole, Whole
  <2>2. ASSUME NEW u \in Tabs, u # t, ReportIsWhole(u) PROVE ReportIsWhole(u)'
    <3>1. /\ toMain'[u] = toMain[u] /\ doc'[u] = doc[u] /\ jobs'[u] = jobs[u]
          /\ channel'[u] = channel[u]
      BY <1>3, <1>6, <2>2
    <3> QED BY <2>2, <3>1 DEF ReportIsWhole, Whole, LastWrite
  <2> QED BY <2>1, <2>2 DEF LastReportIsWhole
<1>12. RowCatchesUp'
  <2>1. ToBeWritten(t)' BY <1>7 DEF ToBeWritten
  <2> QED BY <2>1 DEF RowCatchesUp
<1> QED BY <1>3, <1>8, <1>9, <1>10, <1>11, <1>12 DEF DraftInv

\* The main thread starts a write for a message.
LEMMA OnMessageKeeps ==
  ASSUME DraftInv, NEW t \in Tabs, OnWorkerMessage(t)
  PROVE  DraftInv'
<1>0. DraftTypes BY DEF DraftInv
<1> DEFINE m == Head(toMain[t])
           job == [kind |-> m.kind, state |-> m.state, read |-> FALSE, existing |-> NoRow]
<1>1. toMain[t] \in Seq(Message) /\ toMain[t] # <<>> /\ jobs[t] \in Seq(Job)
  BY <1>0 DEF DraftTypes, OnWorkerMessage
<1>2. /\ m = toMain[t][1] /\ m \in Message /\ Len(toMain[t]) \in Nat /\ Len(toMain[t]) >= 1
      /\ Tail(toMain[t]) \in Seq(Message) /\ Len(Tail(toMain[t])) = Len(toMain[t]) - 1
      /\ \A i \in 1 .. Len(toMain[t]) - 1 : Tail(toMain[t])[i] = toMain[t][i + 1]
      /\ Tail(toMain[t]) = <<>> <=> Len(toMain[t]) = 1
  BY <1>1, TakeHead
<1>3. /\ jobs' = [jobs EXCEPT ![t] = Append(@, job)]
      /\ toMain' = [toMain EXCEPT ![t] = Tail(@)]
      /\ doc' = doc /\ channel' = channel /\ row' = row /\ edits' = edits /\ lost' = lost
      /\ resumed' = resumed /\ reloads' = reloads /\ loads' = loads
  BY DEF OnWorkerMessage
<1> HIDE DEF m
<1>4. /\ job \in Job /\ job.kind # "clear" /\ job.read = FALSE
      /\ job.kind = m.kind /\ job.state = m.state
  BY <1>2 DEF Message, Job, NoRow, RowRecord
<1> HIDE DEF job
<1>5. /\ Append(jobs[t], job) \in Seq(Job) /\ Len(Append(jobs[t], job)) = Len(jobs[t]) + 1
      /\ Len(jobs[t]) \in Nat
      /\ \A i \in 1 .. Len(jobs[t]) : Append(jobs[t], job)[i] = jobs[t][i]
      /\ Append(jobs[t], job)[Len(jobs[t]) + 1] = job
  BY <1>1, <1>4, PutLast
<1>6. /\ jobs'[t] = Append(jobs[t], job) /\ toMain'[t] = Tail(toMain[t])
      /\ \A u \in Tabs : u # t => jobs'[u] = jobs[u] /\ toMain'[u] = toMain[u]
  BY <1>0, <1>3 DEF DraftTypes
<1>7. DraftTypes' BY <1>0, <1>2, <1>3, <1>5 DEF DraftTypes
<1>8. EditsArrive => EditsArrive' BY <1>3 DEF EditsArrive
<1>9. ASSUME RowIsFound PROVE RowIsFound'
  <2> SUFFICES ASSUME NEW u \in Tabs, NEW i \in 1 .. Len(jobs'[u]),
                      jobs'[u][i].read, jobs'[u][i].kind # "answer"
               PROVE  jobs'[u][i].existing.exists
    BY <1>3, <1>9 DEF RowIsFound
  <2>1. CASE u # t BY <1>6, <1>9, <2>1 DEF RowIsFound
  <2>2. CASE u = t
    <3>1. i \in 1 .. Len(jobs[t]) \/ i = Len(jobs[t]) + 1 BY <1>5, <1>6, <2>2
    <3>2. i # Len(jobs[t]) + 1 BY <1>4, <1>5, <1>6, <2>2
    <3> QED BY SMTT(60), <1>5, <1>6, <1>9, <2>2, <3>1, <3>2 DEF RowIsFound
  <2> QED BY <2>1, <2>2
<1>10. ASSUME LastReportIsWhole PROVE LastReportIsWhole'
  <2>1. ASSUME NEW u \in Tabs, u # t PROVE ReportIsWhole(u)'
    <3>1. toMain'[u] = toMain[u] /\ jobs'[u] = jobs[u] BY <1>6, <2>1
    <3>2. ReportIsWhole(u) BY <1>10 DEF LastReportIsWhole
    <3> QED BY <1>3, <3>1, <3>2 DEF ReportIsWhole, Whole, LastWrite
  <2>0. CASE channel[t] # <<>>
    <3>1. ReportIsWhole(t)' BY <1>3, <2>0 DEF ReportIsWhole
    <3> QED BY <2>1, <3>1 DEF LastReportIsWhole
  <2> SUFFICES ASSUME channel[t] = <<>> PROVE LastReportIsWhole' BY <2>0
  <2>2. Whole(t, toMain[t][Len(toMain[t])])
    BY <1>1, <1>10 DEF LastReportIsWhole, ReportIsWhole
  <2>3. CASE Tail(toMain[t]) # <<>>
    <3> DEFINE last == Len(toMain[t])
    <3>1. last \in Nat /\ last >= 1 /\ last # 1 BY <1>2, <2>3
    <3>2. Len(toMain'[t]) = last - 1 BY <1>2, <1>6
    <3>3. last - 1 \in 1 .. last - 1 /\ (last - 1) + 1 = last
      <4> HIDE DEF last
      <4>1. last > 1 BY <3>1
      <4> QED BY <3>1, <4>1
    <3>4. toMain'[t][last - 1] = toMain[t][(last - 1) + 1] BY <1>2, <1>6, <3>3
    <3>5. Whole(t, toMain'[t][Len(toMain'[t])]) BY <2>2, <3>2, <3>3, <3>4
    <3>6. toMain'[t] # <<>> BY <1>6, <2>3
    <3>7. ReportIsWhole(t)' BY <1>3, <3>5, <3>6 DEF ReportIsWhole, Whole
    <3> QED BY <2>1, <3>7 DEF LastReportIsWhole
  <2>4. CASE Tail(toMain[t]) = <<>>
    <3>1. Whole(t, m) BY <1>2, <2>2, <2>4
    <3>2. ASSUME NEW i \in 1 .. Len(jobs'[t]), LastWrite(jobs'[t], i)
          PROVE  Whole(t, jobs'[t][i])
      <4>1. i \in 1 .. Len(jobs[t]) \/ i = Len(jobs[t]) + 1 BY <1>5, <1>6
      <4>2. CASE i \in 1 .. Len(jobs[t])
        <5>1. Len(jobs[t]) + 1 \in i + 1 .. Len(jobs'[t]) BY <1>5, <1>6, <4>2
        <5>2. jobs'[t][Len(jobs[t]) + 1].kind = "clear" BY <3>2, <5>1 DEF LastWrite
        <5> QED BY <1>4, <1>5, <1>6, <5>2
      <4>3. CASE i = Len(jobs[t]) + 1 BY <1>4, <1>5, <1>6, <3>1, <4>3 DEF Whole
      <4> QED BY <4>1, <4>2, <4>3
    <3>3. toMain'[t] = <<>> BY <1>6, <2>4
    <3>4. ReportIsWhole(t)' BY <1>3, <3>2, <3>3 DEF ReportIsWhole, Whole, LastWrite
    <3> QED BY <2>1, <3>4 DEF LastReportIsWhole
  <2> QED BY <2>3, <2>4
<1>11. RowCatchesUp'
  <2>1. Len(jobs[t]) + 1 \in 1 .. Len(jobs'[t]) BY <1>5, <1>6
  <2>2. jobs'[t][Len(jobs[t]) + 1].kind # "clear" BY <1>4, <1>5, <1>6
  <2>3. ToBeWritten(t)' BY <2>1, <2>2 DEF ToBeWritten
  <2> QED BY <2>3 DEF RowCatchesUp
<1> QED BY <1>3, <1>7, <1>8, <1>9, <1>10, <1>11 DEF DraftInv

\* A write that has read the row.
LEMMA ReadParts ==
  ASSUME NEW j \in Job, NEW r \in RowRecord
  PROVE  /\ [j EXCEPT !.read = TRUE, !.existing = r] \in Job
         /\ [j EXCEPT !.read = TRUE, !.existing = r].kind = j.kind
         /\ [j EXCEPT !.read = TRUE, !.existing = r].state = j.state
         /\ [j EXCEPT !.read = TRUE, !.existing = r].existing = r
BY DEF Job

\* A write reads the row.
LEMMA ReadKeeps ==
  ASSUME DraftInv, NEW t \in Tabs, NEW i \in DOMAIN jobs[t], ReadRow(t, i)
  PROVE  DraftInv'
<1>0. DraftTypes BY DEF DraftInv
<1>1. /\ jobs[t] \in Seq(Job) /\ Len(jobs[t]) \in Nat /\ DOMAIN jobs[t] = 1 .. Len(jobs[t])
      /\ i \in 1 .. Len(jobs[t]) /\ jobs[t][i] \in Job
  BY <1>0 DEF DraftTypes
<1> DEFINE old == jobs[t][i]
           seen == IF old.kind = "answer" THEN old.existing ELSE row
           job == [old EXCEPT !.read = TRUE, !.existing = seen]
<1>2. seen \in RowRecord BY <1>0, <1>1 DEF DraftTypes, Job
<1>3. /\ jobs' = [jobs EXCEPT ![t][i] = job]
      /\ doc' = doc /\ channel' = channel /\ toMain' = toMain /\ row' = row /\ edits' = edits
      /\ resumed' = resumed /\ reloads' = reloads /\ lost' = lost /\ loads' = loads
  BY DEF ReadRow
<1>4. job \in Job /\ job.kind = old.kind /\ job.state = old.state /\ job.existing = seen
  <2> HIDE DEF seen
  <2> QED BY <1>1, <1>2, ReadParts
<1> HIDE DEF job
<1> DEFINE q == [jobs[t] EXCEPT ![i] = job]
<1>5. /\ q \in Seq(Job) /\ Len(q) = Len(jobs[t])
      /\ \A k \in 1 .. Len(jobs[t]) : q[k] = IF k = i THEN job ELSE jobs[t][k]
  BY <1>1, <1>4
<1>6. jobs' = [jobs EXCEPT ![t] = q] BY <1>0, <1>3 DEF DraftTypes
<1> HIDE DEF q
<1>7. jobs'[t] = q /\ \A u \in Tabs : u # t => jobs'[u] = jobs[u] BY <1>0, <1>6 DEF DraftTypes
<1>8. DraftTypes' BY <1>0, <1>3, <1>5, <1>6 DEF DraftTypes
<1>9. EditsArrive => EditsArrive' BY <1>3 DEF EditsArrive
<1>10. ASSUME RowIsFound PROVE RowIsFound'
  <2> SUFFICES ASSUME NEW u \in Tabs, NEW k \in 1 .. Len(jobs'[u]),
                      jobs'[u][k].read, jobs'[u][k].kind # "answer"
               PROVE  jobs'[u][k].existing.exists
    BY <1>3, <1>10 DEF RowIsFound
  <2>1. CASE u = t /\ k = i
    <3>1. jobs'[t][i] = job BY <1>1, <1>5, <1>7
    <3>2. job.existing = row BY <1>4, <2>1, <3>1
    <3> QED BY <1>10, <2>1, <3>1, <3>2 DEF RowIsFound
  <2>2. CASE u = t /\ k # i
    <3>1. k \in 1 .. Len(jobs[t]) /\ jobs'[t][k] = jobs[t][k] BY <1>5, <1>7, <2>2
    <3> QED BY <1>10, <2>2, <3>1 DEF RowIsFound
  <2>3. CASE u # t BY <1>7, <1>10, <2>3 DEF RowIsFound
  <2> QED BY <2>1, <2>2, <2>3
<1>11. ASSUME NEW u \in Tabs
       PROVE  /\ Len(jobs'[u]) = Len(jobs[u])
              /\ \A k \in 1 .. Len(jobs[u]) : /\ jobs'[u][k].kind = jobs[u][k].kind
                                              /\ jobs'[u][k].state = jobs[u][k].state
  BY <1>4, <1>5, <1>7
<1>12. ASSUME LastReportIsWhole PROVE LastReportIsWhole'
  <2> SUFFICES ASSUME NEW u \in Tabs PROVE ReportIsWhole(u)' BY DEF LastReportIsWhole
  <2>1. ReportIsWhole(u) BY <1>12 DEF LastReportIsWhole
  <2> SUFFICES ASSUME channel[u] = <<>> PROVE ReportIsWhole(u)' BY <1>3 DEF ReportIsWhole
  <2>2. CASE toMain[u] # <<>> BY <1>3, <2>1, <2>2 DEF ReportIsWhole, Whole
  <2>3. CASE toMain[u] = <<>>
    <3>1. ASSUME NEW k \in 1 .. Len(jobs[u]), LastWrite(jobs'[u], k)
          PROVE  Whole(u, jobs'[u][k])
      <4>1. \A m \in k + 1 .. Len(jobs[u]) : m \in 1 .. Len(jobs[u]) OBVIOUS
      <4>2. LastWrite(jobs[u], k) BY <1>11, <3>1, <4>1 DEF LastWrite
      <4> QED BY <1>11, <2>1, <2>3, <4>2 DEF ReportIsWhole, Whole
    <3> QED BY <1>3, <1>11, <2>3, <3>1 DEF ReportIsWhole, Whole, LastWrite
  <2> QED BY <2>2, <2>3
<1>13. RowCatchesUp => RowCatchesUp' BY <1>3, <1>11 DEF RowCatchesUp, ToBeWritten
<1> QED BY <1>3, <1>8, <1>9, <1>10, <1>12, <1>13 DEF DraftInv

\* A write is through: its tab has one less under way, and only the row differs.
Done(t) ==
  /\ jobs[t] # <<>> /\ jobs' = [jobs EXCEPT ![t] = Tail(@)]
  /\ doc' = doc /\ channel' = channel /\ toMain' = toMain /\ edits' = edits
  /\ resumed' = resumed /\ reloads' = reloads /\ loads' = loads

\* What holds of the writes still under way when one is through.
LEMMA DoneKeeps ==
  ASSUME DraftTypes, NEW t \in Tabs, Done(t), row' \in RowRecord
  PROVE  /\ DraftTypes'
         /\ EditsArrive => EditsArrive'
         /\ RowIsFound /\ row'.exists => RowIsFound'
         /\ LastReportIsWhole => LastReportIsWhole'
         /\ Head(jobs[t]) = jobs[t][1] /\ Head(jobs[t]) \in Job
         /\ Len(jobs[t]) \in Nat /\ 1 \in 1 .. Len(jobs[t])
         /\ Len(jobs'[t]) = Len(jobs[t]) - 1
         /\ \A i \in 1 .. Len(jobs[t]) - 1 : jobs'[t][i] = jobs[t][i + 1]
<1>1. jobs[t] \in Seq(Job) /\ jobs[t] # <<>> BY DEF DraftTypes, Done
<1>2. /\ Head(jobs[t]) = jobs[t][1] /\ Head(jobs[t]) \in Job
      /\ Len(jobs[t]) \in Nat /\ Len(jobs[t]) >= 1
      /\ Tail(jobs[t]) \in Seq(Job) /\ Len(Tail(jobs[t])) = Len(jobs[t]) - 1
      /\ \A i \in 1 .. Len(jobs[t]) - 1 : Tail(jobs[t])[i] = jobs[t][i + 1]
  BY <1>1, TakeHead
<1>3. jobs'[t] = Tail(jobs[t]) /\ \A u \in Tabs : u # t => jobs'[u] = jobs[u]
  BY DEF DraftTypes, Done
<1>4. DraftTypes' BY <1>2 DEF DraftTypes, Done
<1>5. EditsArrive => EditsArrive' BY DEF EditsArrive, Done
<1>6. /\ Len(jobs'[t]) = Len(jobs[t]) - 1
      /\ \A i \in 1 .. Len(jobs[t]) - 1 : jobs'[t][i] = jobs[t][i + 1]
  BY <1>2, <1>3
<1>7. ASSUME RowIsFound, row'.exists PROVE RowIsFound'
  <2> SUFFICES ASSUME NEW u \in Tabs, NEW i \in 1 .. Len(jobs'[u]),
                      jobs'[u][i].read, jobs'[u][i].kind # "answer"
               PROVE  jobs'[u][i].existing.exists
    BY <1>7 DEF RowIsFound
  <2>1. CASE u # t BY <1>3, <1>7, <2>1 DEF RowIsFound
  <2>2. CASE u = t
    <3>1. i + 1 \in 1 .. Len(jobs[t]) /\ jobs'[t][i] = jobs[t][i + 1] BY <1>2, <1>6, <2>2
    <3> QED BY <1>7, <2>2, <3>1 DEF RowIsFound
  <2> QED BY <2>1, <2>2
<1>8. ASSUME LastReportIsWhole PROVE LastReportIsWhole'
  <2> SUFFICES ASSUME NEW u \in Tabs PROVE ReportIsWhole(u)' BY DEF LastReportIsWhole
  <2>1. ReportIsWhole(u) BY <1>8 DEF LastReportIsWhole
  <2> SUFFICES ASSUME channel[u] = <<>> PROVE ReportIsWhole(u)' BY DEF ReportIsWhole, Done
  <2>2. CASE toMain[u] # <<>> BY <2>1, <2>2 DEF ReportIsWhole, Whole, Done
  <2>3. CASE toMain[u] = <<>> /\ u # t
    <3>1. jobs'[u] = jobs[u] BY <1>3, <2>3
    <3> QED BY <2>1, <2>3, <3>1 DEF ReportIsWhole, Whole, LastWrite, Done
  <2>4. CASE toMain[u] = <<>> /\ u = t
    <3>1. ASSUME NEW i \in 1 .. Len(jobs'[t]), LastWrite(jobs'[t], i)
          PROVE  Whole(t, jobs'[t][i])
      <4>1. i + 1 \in 1 .. Len(jobs[t]) /\ jobs'[t][i] = jobs[t][i + 1] BY <1>2, <1>6
      <4>2. ASSUME NEW k \in (i + 1) + 1 .. Len(jobs[t]) PROVE jobs[t][k].kind = "clear"
        <5>1. k - 1 \in i + 1 .. Len(jobs'[t]) /\ k - 1 \in 1 .. Len(jobs[t]) - 1
              /\ (k - 1) + 1 = k
          BY <1>2, <1>6
        <5>2. jobs'[t][k - 1] = jobs[t][(k - 1) + 1] BY <1>6, <5>1
        <5> QED BY <3>1, <5>1, <5>2 DEF LastWrite
      <4>3. LastWrite(jobs[t], i + 1) BY <3>1, <4>1, <4>2 DEF LastWrite
      <4> QED BY <2>1, <2>4, <4>1, <4>3 DEF ReportIsWhole
    <3> QED BY <2>4, <3>1 DEF ReportIsWhole, Whole, LastWrite, Done
  <2> QED BY <2>2, <2>3, <2>4
<1>9. 1 \in 1 .. Len(jobs[t]) BY <1>2
<1> QED BY <1>2, <1>4, <1>5, <1>6, <1>7, <1>8, <1>9

\* A write ahead of all others is followed by another, or reports the whole document.
LEMMA HeadIsNotAll ==
  ASSUME DraftTypes, NEW t \in Tabs, Done(t), row' \in RowRecord,
         LastReportIsWhole, Head(jobs[t]).kind # "clear"
  PROVE  ToBeWritten(t)' \/ Whole(t, Head(jobs[t]))
<1>1. /\ Head(jobs[t]) = jobs[t][1]
      /\ Len(jobs[t]) \in Nat /\ 1 \in 1 .. Len(jobs[t])
      /\ Len(jobs'[t]) = Len(jobs[t]) - 1
      /\ \A i \in 1 .. Len(jobs[t]) - 1 : jobs'[t][i] = jobs[t][i + 1]
  BY DoneKeeps
<1>2. CASE channel[t] # <<>> \/ toMain[t] # <<>> BY <1>2 DEF ToBeWritten, Done
<1>3. CASE \E k \in 1 + 1 .. Len(jobs[t]) : jobs[t][k].kind # "clear"
  <2>1. PICK k \in 1 + 1 .. Len(jobs[t]) : jobs[t][k].kind # "clear" BY <1>3
  <2>2. k - 1 \in 1 .. Len(jobs[t]) - 1 /\ (k - 1) + 1 = k BY <1>1
  <2>3. jobs'[t][k - 1] = jobs[t][(k - 1) + 1] BY <1>1, <2>2
  <2>4. k - 1 \in 1 .. Len(jobs'[t]) /\ jobs'[t][k - 1].kind # "clear" BY <1>1, <2>1, <2>2, <2>3
  <2> QED BY <2>4 DEF ToBeWritten
<1>4. CASE /\ channel[t] = <<>> /\ toMain[t] = <<>>
           /\ \A k \in 1 + 1 .. Len(jobs[t]) : jobs[t][k].kind = "clear"
  <2>1. LastWrite(jobs[t], 1) BY <1>1, <1>4 DEF LastWrite
  <2> QED BY <1>1, <1>4, <2>1 DEF LastReportIsWhole, ReportIsWhole
<1> QED BY <1>2, <1>3, <1>4

\* A report that has been written leaves the row whole, or another to come.
LEMMA WriteKeeps ==
  ASSUME DraftInv, NEW t \in Tabs, Done(t), row' \in RowRecord, lost' = lost,
         Head(jobs[t]).kind # "clear",
         resumed /\ reloads = 0 => row'.exists /\ row'.state = Head(jobs[t]).state
  PROVE  DraftInv'
<1>1. /\ DraftTypes'
      /\ EditsArrive => EditsArrive'
      /\ RowIsFound /\ row'.exists => RowIsFound'
      /\ LastReportIsWhole => LastReportIsWhole'
  BY DoneKeeps DEF DraftInv
<1>2. ASSUME LastReportIsWhole, row'.state = Head(jobs[t]).state PROVE RowCatchesUp'
  <2>1. CASE ToBeWritten(t)' BY <2>1 DEF RowCatchesUp
  <2>2. CASE Whole(t, Head(jobs[t]))
    <3>1. row'.state = doc'[t] BY <1>2, <2>2 DEF Done, Whole
    <3> QED BY <3>1 DEF RowCatchesUp
  <2>3. DraftTypes BY DEF DraftInv
  <2> QED BY <1>2, <2>1, <2>2, <2>3, HeadIsNotAll
<1> QED BY <1>1, <1>2 DEF DraftInv, Done

\* A request that was rejected: a delta is made up for by what follows it; if a whole
\* state was to be written, nothing is claimed until the next edit.
LEMMA FailKeeps ==
  ASSUME DraftInv, NEW t \in Tabs, RequestFails(t)
  PROVE  DraftInv'
<1> DEFINE kind == Head(jobs[t]).kind
<1>0. DraftTypes BY DEF DraftInv
<1>1. Done(t) /\ row' = row /\ row' \in RowRecord
  BY <1>0 DEF RequestFails, Done, DraftTypes
<1>2. lost' = IF kind \in {"answer", "merged"} THEN TRUE ELSE lost BY DEF RequestFails
<1>3. /\ DraftTypes'
      /\ EditsArrive => EditsArrive'
      /\ RowIsFound /\ row'.exists => RowIsFound'
      /\ LastReportIsWhole => LastReportIsWhole'
      /\ Head(jobs[t]) = jobs[t][1] /\ Head(jobs[t]) \in Job
      /\ Len(jobs[t]) \in Nat /\ 1 \in 1 .. Len(jobs[t])
      /\ Len(jobs'[t]) = Len(jobs[t]) - 1
      /\ \A i \in 1 .. Len(jobs[t]) - 1 : jobs'[t][i] = jobs[t][i + 1]
  BY <1>0, <1>1, DoneKeeps
<1>4. RowIsFound => row'.exists BY <1>1 DEF RowIsFound
<1>5. CASE kind \in {"answer", "merged"} BY <1>1, <1>2, <1>3, <1>4, <1>5 DEF DraftInv, Done
<1>6. CASE kind = "delta"
  <2>1. ~Whole(t, Head(jobs[t])) BY <1>6 DEF Whole
  <2>2. LastReportIsWhole => RowCatchesUp'
    <3>1. LastReportIsWhole => ToBeWritten(t)' BY <1>0, <1>1, <1>6, <2>1, HeadIsNotAll
    <3> QED BY <3>1 DEF RowCatchesUp
  <2> QED BY <1>1, <1>2, <1>3, <1>4, <1>6, <2>2 DEF DraftInv, Done
<1>7. CASE kind = "clear"
  <2>1. ASSUME NEW u \in Tabs, ToBeWritten(u) PROVE ToBeWritten(u)'
    <3>1. CASE u # t
      <4>1. jobs'[u] = jobs[u] BY <1>0, <1>1, <3>1 DEF DraftTypes, Done
      <4> QED BY <1>1, <2>1, <4>1 DEF ToBeWritten, Done
    <3>2. CASE u = t /\ (channel[t] # <<>> \/ toMain[t] # <<>>)
      BY <1>1, <3>2 DEF ToBeWritten, Done
    <3>3. CASE u = t /\ \E i \in 1 .. Len(jobs[t]) : jobs[t][i].kind # "clear"
      <4>1. PICK i \in 1 .. Len(jobs[t]) : jobs[t][i].kind # "clear" BY <3>3
      <4>2. i # 1 BY <1>3, <1>7, <4>1
      <4>3. i - 1 \in 1 .. Len(jobs[t]) - 1 /\ (i - 1) + 1 = i BY <1>3, <4>2
      <4>4. jobs'[t][i - 1] = jobs[t][(i - 1) + 1] BY <1>3, <4>3
      <4>5. i - 1 \in 1 .. Len(jobs'[t]) /\ jobs'[t][i - 1].kind # "clear"
        BY <1>3, <4>1, <4>3, <4>4
      <4> QED BY <3>3, <4>5 DEF ToBeWritten
    <3> QED BY <2>1, <3>1, <3>2, <3>3 DEF ToBeWritten
  <2>2. RowCatchesUp => RowCatchesUp' BY <1>1, <2>1 DEF RowCatchesUp, Done
  <2> QED BY <1>1, <1>2, <1>3, <1>4, <1>7, <2>2 DEF DraftInv, Done
<1>8. kind \in {"delta", "answer", "merged", "clear"} BY <1>3 DEF Job
<1> QED BY <1>5, <1>6, <1>7, <1>8

\* An answer that comes late: nothing is claimed until the next edit.
LEMMA LateKeeps ==
  ASSUME DraftInv, NEW t \in Tabs, AnswerComesLate(t)
  PROVE  DraftInv'
<1>1. toMain[t] \in Seq(Message) /\ toMain[t] # <<>> BY DEF DraftInv, DraftTypes, AnswerComesLate
<1>2. Tail(toMain[t]) \in Seq(Message) BY <1>1, TakeHead
<1>3. /\ toMain' = [toMain EXCEPT ![t] = Tail(@)] /\ lost' = TRUE
      /\ doc' = doc /\ channel' = channel /\ jobs' = jobs /\ row' = row /\ edits' = edits
      /\ resumed' = resumed /\ reloads' = reloads /\ loads' = loads
  BY DEF AnswerComesLate
<1>4. DraftTypes' BY <1>2, <1>3 DEF DraftInv, DraftTypes
<1>5. EditsArrive => EditsArrive' BY <1>3 DEF EditsArrive
<1>6. RowIsFound => RowIsFound' BY <1>3 DEF RowIsFound
<1> QED BY <1>3, <1>4, <1>5, <1>6 DEF DraftInv

\* A deletion that has been written leaves the row marked.
LEMMA DeleteKeeps ==
  ASSUME DraftInv, NEW t \in Tabs, DeleteDocument(t)
  PROVE  DraftInv'
<1> DEFINE old == Head(jobs[t]).existing
<1>0. Done(t) /\ row \in RowRecord /\ lost' = lost
  BY DEF DraftInv, DraftTypes, DeleteDocument, Done
<1>1. Head(jobs[t]) \in Job /\ Head(jobs[t]) = jobs[t][1] /\ 1 \in 1 .. Len(jobs[t])
  <2>1. jobs[t] \in Seq(Job) /\ jobs[t] # <<>> BY <1>0 DEF DraftInv, DraftTypes, Done
  <2>2. Head(jobs[t]) \in Job /\ Head(jobs[t]) = jobs[t][1]
        /\ Len(jobs[t]) \in Nat /\ Len(jobs[t]) >= 1
    BY <2>1, TakeHead
  <2> QED BY <2>2
<1>2. old \in RowRecord BY <1>1 DEF Job
<1>3. /\ row' = IF old.exists THEN [old EXCEPT !.deleted = TRUE] ELSE row
      /\ Head(jobs[t]).read /\ Head(jobs[t]).kind = "clear"
  BY DEF DeleteDocument
<1>4. /\ [old EXCEPT !.deleted = TRUE] \in RowRecord
      /\ [old EXCEPT !.deleted = TRUE].deleted
      /\ [old EXCEPT !.deleted = TRUE].exists = old.exists
  BY <1>2 DEF RowRecord
<1> HIDE DEF old
<1>5. row' \in RowRecord BY <1>0, <1>3, <1>4
<1>6. /\ DraftTypes'
      /\ EditsArrive => EditsArrive'
      /\ RowIsFound /\ row'.exists => RowIsFound'
      /\ LastReportIsWhole => LastReportIsWhole'
  BY <1>0, <1>5, DoneKeeps DEF DraftInv
<1>7. ASSUME RowIsFound PROVE row'.exists /\ row'.deleted
  <2>1. old.exists BY <1>1, <1>3, <1>7 DEF RowIsFound, old
  <2> QED BY <1>3, <1>4, <2>1
<1> QED BY <1>0, <1>6, <1>7 DEF DraftInv, Done, RowCatchesUp

\* Clearing the draft only adds a deletion to what is under way.
LEMMA ClearKeeps ==
  ASSUME DraftInv, NEW t \in Tabs, ClearDraft(t)
  PROVE  DraftInv'
<1>0. DraftTypes BY DEF DraftInv
<1> DEFINE job == [kind |-> "clear", state |-> {}, read |-> FALSE, existing |-> NoRow]
<1>1. jobs[t] \in Seq(Job) BY <1>0 DEF DraftTypes
<1>2. job \in Job /\ job.kind = "clear" /\ job.read = FALSE
  BY DEF Job, NoRow, RowRecord
<1>3. /\ jobs' = [jobs EXCEPT ![t] = Append(@, job)]
      /\ toMain' = toMain /\ doc' = doc /\ channel' = channel /\ row' = row /\ edits' = edits
      /\ resumed' = resumed /\ reloads' = reloads /\ lost' = lost /\ loads' = loads
  BY DEF ClearDraft
<1> HIDE DEF job
<1>4. /\ Append(jobs[t], job) \in Seq(Job) /\ Len(Append(jobs[t], job)) = Len(jobs[t]) + 1
      /\ Len(jobs[t]) \in Nat
      /\ \A i \in 1 .. Len(jobs[t]) : Append(jobs[t], job)[i] = jobs[t][i]
      /\ Append(jobs[t], job)[Len(jobs[t]) + 1] = job
  BY <1>1, <1>2, PutLast
<1>5. /\ jobs'[t] = Append(jobs[t], job)
      /\ \A u \in Tabs : u # t => jobs'[u] = jobs[u]
  BY <1>0, <1>3 DEF DraftTypes
<1>6. DraftTypes' BY <1>0, <1>3, <1>4 DEF DraftTypes
<1>7. EditsArrive => EditsArrive' BY <1>3 DEF EditsArrive
<1>8. ASSUME RowIsFound PROVE RowIsFound'
  <2> SUFFICES ASSUME NEW u \in Tabs, NEW i \in 1 .. Len(jobs'[u]),
                      jobs'[u][i].read, jobs'[u][i].kind # "answer"
               PROVE  jobs'[u][i].existing.exists
    BY <1>3, <1>8 DEF RowIsFound
  <2>1. CASE u # t BY <1>5, <1>8, <2>1 DEF RowIsFound
  <2>2. CASE u = t
    <3>1. i \in 1 .. Len(jobs[t]) \/ i = Len(jobs[t]) + 1 BY <1>4, <1>5, <2>2
    <3>2. i # Len(jobs[t]) + 1 BY <1>2, <1>4, <1>5, <2>2
    <3> QED BY <1>4, <1>5, <1>8, <2>2, <3>1, <3>2 DEF RowIsFound
  <2> QED BY <2>1, <2>2
<1>9. ASSUME LastReportIsWhole PROVE LastReportIsWhole'
  <2> SUFFICES ASSUME NEW u \in Tabs PROVE ReportIsWhole(u)' BY DEF LastReportIsWhole
  <2>1. ReportIsWhole(u) BY <1>9 DEF LastReportIsWhole
  <2> SUFFICES ASSUME channel[u] = <<>> PROVE ReportIsWhole(u)' BY <1>3 DEF ReportIsWhole
  <2>2. CASE toMain[u] # <<>> BY <1>3, <2>1, <2>2 DEF ReportIsWhole, Whole
  <2>3. CASE toMain[u] = <<>> /\ u # t
    <3>1. jobs'[u] = jobs[u] BY <1>5, <2>3
    <3> QED BY <1>3, <2>1, <2>3, <3>1 DEF ReportIsWhole, Whole, LastWrite
  <2>4. CASE toMain[u] = <<>> /\ u = t
    <3>1. ASSUME NEW i \in 1 .. Len(jobs'[t]), LastWrite(jobs'[t], i)
          PROVE  Whole(t, jobs'[t][i])
      <4>1. i # Len(jobs[t]) + 1 BY <1>2, <1>4, <1>5, <3>1 DEF LastWrite
      <4>2. i \in 1 .. Len(jobs[t]) BY <1>4, <1>5, <4>1
      <4>3. \A k \in i + 1 .. Len(jobs[t]) : k \in 1 .. Len(jobs[t])
                                            /\ k \in i + 1 .. Len(jobs'[t])
        BY <1>4, <1>5, <4>2
      <4>4. LastWrite(jobs[t], i) BY <1>4, <1>5, <3>1, <4>2, <4>3 DEF LastWrite
      <4> QED BY <1>4, <1>5, <2>1, <2>4, <4>2, <4>4 DEF ReportIsWhole
    <3> QED BY <1>3, <2>4, <3>1 DEF ReportIsWhole, Whole, LastWrite
  <2> QED BY <2>2, <2>3, <2>4
<1>10. ASSUME RowCatchesUp PROVE RowCatchesUp'
  <2>1. ASSUME NEW u \in Tabs, ToBeWritten(u) PROVE ToBeWritten(u)'
    <3>1. CASE u # t BY <1>3, <1>5, <2>1, <3>1 DEF ToBeWritten
    <3>2. CASE u = t
      <4>1. \A i \in 1 .. Len(jobs[t]) : i \in 1 .. Len(jobs'[t]) /\ jobs'[t][i] = jobs[t][i]
        BY <1>4, <1>5
      <4> QED BY <1>3, <2>1, <3>2, <4>1 DEF ToBeWritten
    <3> QED BY <3>1, <3>2
  <2> QED BY <1>3, <1>10, <2>1 DEF RowCatchesUp
<1> QED BY <1>3, <1>6, <1>7, <1>8, <1>9, <1>10 DEF DraftInv

\* Whatever step is taken, what is under way makes up for what the row lacks.
LEMMA DraftStep == DraftInv /\ [DraftNext]_draftVars => DraftInv'
<1> SUFFICES ASSUME DraftInv, [DraftNext]_draftVars PROVE DraftInv' OBVIOUS
<1>1. ASSUME NEW t \in Tabs, PersistDocument(t) PROVE DraftInv'
  <2>1. Done(t) BY <1>1 DEF PersistDocument, Done
  <2>2. jobs[t] \in Seq(Job) /\ jobs[t] # <<>> BY <2>1 DEF DraftInv, DraftTypes, Done
  <2>3. Head(jobs[t]) \in Job BY <2>2, TakeHead
  <2>4. Head(jobs[t]).kind # "clear" BY <1>1 DEF PersistDocument
  <2>5. row' = [exists |-> TRUE, state |-> Head(jobs[t]).state, deleted |-> FALSE]
    BY <1>1 DEF PersistDocument
  <2>6. row' \in RowRecord BY <2>3, <2>5 DEF RowRecord, Job
  <2>7. row'.exists /\ row'.state = Head(jobs[t]).state BY <2>5
  <2>8. lost' = lost BY <1>1 DEF PersistDocument
  <2> QED BY <2>1, <2>4, <2>6, <2>7, <2>8, WriteKeeps
<1>2. ASSUME NEW t \in Tabs, PersistIncrementalUpdate(t) PROVE DraftInv'
  <2> DEFINE job == Head(jobs[t])
  <2>1. Done(t) BY <1>2 DEF PersistIncrementalUpdate, Done
  <2>2. jobs[t] \in Seq(Job) /\ jobs[t] # <<>> BY <2>1 DEF DraftInv, DraftTypes, Done
  <2>3. job \in Job /\ job = jobs[t][1] /\ 1 \in 1 .. Len(jobs[t])
    <3>1. Head(jobs[t]) \in Job /\ Head(jobs[t]) = jobs[t][1]
          /\ Len(jobs[t]) \in Nat /\ Len(jobs[t]) >= 1
      BY <2>2, TakeHead
    <3> QED BY <3>1
  <2>4. /\ job.kind # "clear" /\ job.kind # "answer" /\ job.read /\ lost' = lost
        /\ row' = IF job.existing.exists THEN [job.existing EXCEPT !.state = job.state] ELSE row
    BY <1>2 DEF PersistIncrementalUpdate
  <2>5. job.existing \in RowRecord /\ job.state \in SUBSET EditRecord BY <2>3 DEF Job
  <2>6. row \in RowRecord BY DEF DraftInv, DraftTypes
  <2> HIDE DEF job
  <2>7. /\ [job.existing EXCEPT !.state = job.state] \in RowRecord
        /\ [job.existing EXCEPT !.state = job.state].state = job.state
        /\ [job.existing EXCEPT !.state = job.state].exists = job.existing.exists
    BY <2>5 DEF RowRecord
  <2>8. row' \in RowRecord BY <2>4, <2>6, <2>7
  <2>9. ASSUME resumed, reloads = 0 PROVE row'.exists /\ row'.state = job.state
    <3>1. job.existing.exists BY <2>3, <2>4, <2>9 DEF DraftInv, RowIsFound
    <3> QED BY <2>4, <2>7, <3>1
  <2> QED BY <2>1, <2>4, <2>8, <2>9, WriteKeeps DEF job
<1>3. ASSUME NEW t \in Tabs, ReloadTab(t) PROVE DraftInv'
  <2>1. Shown(row.state) \in SUBSET EditRecord /\ {} \in SUBSET EditRecord
    BY DEF DraftInv, DraftTypes, RowRecord, Shown
  <2>2. PICK state \in SUBSET EditRecord : \E shown, restored : Restart(t, state, shown, restored)
    BY <1>3, <2>1 DEF ReloadTab
  <2>3. /\ reloads' = reloads + 1 /\ loads' = [loads EXCEPT ![t] = @ + 1]
        /\ doc' = [doc EXCEPT ![t] = state]
        /\ channel' = [channel EXCEPT ![t] = <<>>]
        /\ toMain' = [toMain EXCEPT ![t] = <<>>] /\ jobs' = [jobs EXCEPT ![t] = <<>>]
        /\ row' = row /\ edits' = edits
    BY <2>2 DEF Restart
  <2>4. <<>> \in Seq(SUBSET EditRecord) /\ <<>> \in Seq(Message) /\ <<>> \in Seq(Job) OBVIOUS
  <2>5. loads' \in [Tabs -> Nat] /\ reloads' \in Nat /\ reloads' # 0
    BY <2>3 DEF DraftInv, DraftTypes
  <2>6. /\ channel' \in [Tabs -> Seq(SUBSET EditRecord)]
        /\ toMain' \in [Tabs -> Seq(Message)] /\ jobs' \in [Tabs -> Seq(Job)]
    BY <2>3, <2>4 DEF DraftInv, DraftTypes
  <2>7. doc' \in [Tabs -> SUBSET EditRecord] BY <2>3 DEF DraftInv, DraftTypes
  <2> QED BY <2>3, <2>5, <2>6, <2>7 DEF DraftInv, DraftTypes
<1>4. CASE UNCHANGED draftVars
  <2>1. /\ doc' = doc /\ channel' = channel /\ toMain' = toMain /\ jobs' = jobs /\ row' = row
        /\ edits' = edits /\ resumed' = resumed /\ reloads' = reloads /\ lost' = lost
        /\ loads' = loads
    BY <1>4 DEF draftVars
  <2>2. DraftTypes => DraftTypes' BY <2>1 DEF DraftTypes
  <2>3. EditsArrive => EditsArrive' BY <2>1 DEF EditsArrive
  <2>4. RowIsFound => RowIsFound' BY <2>1 DEF RowIsFound
  <2>5. LastReportIsWhole => LastReportIsWhole'
    BY <2>1 DEF LastReportIsWhole, ReportIsWhole, Whole, LastWrite
  <2>6. RowCatchesUp => RowCatchesUp' BY <2>1 DEF RowCatchesUp, ToBeWritten
  <2> QED BY <2>1, <2>2, <2>3, <2>4, <2>5, <2>6 DEF DraftInv
<1> QED BY <1>1, <1>2, <1>3, <1>4, SetFieldKeeps, ReceiveKeeps, OnMessageKeeps, ReadKeeps,
           DeleteKeeps, ClearKeeps, FailKeeps, LateKeeps
        DEF DraftNext

\* The tabs open a draft with nothing under way.
LEMMA DraftStart == DraftInit => DraftInv
<1> SUFFICES ASSUME DraftInit PROVE DraftInv OBVIOUS
<1>1. /\ edits = IF resumed THEN {OldEdit} ELSE {}
      /\ row = [exists |-> resumed, state |-> edits, deleted |-> FALSE] /\ resumed \in BOOLEAN
      /\ doc = [t \in Tabs |-> edits]
      /\ channel = [t \in Tabs |-> <<>>] /\ toMain = channel /\ jobs = channel
      /\ reloads = 0 /\ loads = [t \in Tabs |-> 0]
  BY DEF DraftInit
<1>2. OldEdit \in EditRecord BY DEF OldEdit, EditRecord
<1>3. edits \in SUBSET EditRecord /\ IsFiniteSet(edits)
  <2>1. IsFiniteSet({OldEdit}) /\ IsFiniteSet({}) BY FS_Singleton, FS_EmptySet
  <2> QED BY <1>1, <1>2, <2>1
<1>4. row \in RowRecord BY <1>1, <1>3 DEF RowRecord
<1>5. <<>> \in Seq(SUBSET EditRecord) /\ <<>> \in Seq(Message) /\ <<>> \in Seq(Job) OBVIOUS
<1>6. DraftTypes BY <1>1, <1>3, <1>4, <1>5 DEF DraftTypes
<1>7. \A t \in Tabs : /\ doc[t] = edits /\ channel[t] = <<>> /\ toMain[t] = <<>>
                      /\ jobs[t] = <<>> /\ Len(channel[t]) = 0 /\ Len(jobs[t]) = 0
  BY <1>1
<1>8. EditsArrive BY <1>7 DEF EditsArrive
<1>9. resumed => RowIsFound BY <1>1, <1>7 DEF RowIsFound
<1>10. LastReportIsWhole BY <1>7 DEF LastReportIsWhole, ReportIsWhole
<1>11. row.state = edits BY <1>1
<1>12. RowCatchesUp BY <1>11 DEF RowCatchesUp
<1> QED BY <1>6, <1>8, <1>9, <1>10, <1>12 DEF DraftInv

\* Once nothing is under way, the invariant says that nothing is missing.
LEMMA QuietIsComplete == DraftInv => StoredDraftIsComplete
<1> SUFFICES ASSUME DraftInv, resumed, reloads = 0, Quiet
             PROVE  /\ \A t \in Tabs : doc[t] = edits
                    /\ lost \/ row.deleted \/ row.state = edits
  BY DEF StoredDraftIsComplete
<1>1. EditsArrive /\ (~lost => RowCatchesUp) BY DEF DraftInv
<1>2. \A t \in Tabs : Len(channel[t]) = 0 /\ Len(jobs[t]) = 0 /\ toMain[t] = <<>>
                       /\ channel[t] = <<>>
  BY DEF Quiet
<1>3. \A t \in Tabs : doc[t] = edits
  <2>1. \A t \in Tabs : 1 .. Len(channel[t]) = {} BY <1>2
  <2> QED BY <1>1, <2>1 DEF EditsArrive
<1>4. \A t \in Tabs : ~ToBeWritten(t) BY <1>2 DEF ToBeWritten
<1> QED BY <1>1, <1>3, <1>4 DEF RowCatchesUp

\* crdtManager.ts: however the tabs' edits, deltas, merges and writes interleave and
\* whatever requests are given up, every tab gets every edit, and a draft that was
\* stored already is stored whole once nothing is under way, unless a whole state
\* could not be written since the last edit.
THEOREM DraftsAreNotLost == DraftSpec => []StoredDraftIsComplete
BY DraftStart, DraftStep, QuietIsComplete, PTL DEF DraftSpec

-----------------------------------------------------------------------------
(* The batch page: what the sort has taken, and what still waits.          *)

Names == OperationIds \union {"fund", "allocate", "claim", "metadata"}
Operation == [id : Names, dependencies : Seq(Names)]

OnceEach(ops) == \A i, j \in DOMAIN ops : ops[i].id = ops[j].id => i = j

\* The dependencies of an operation that are not sorted yet.
Waiting(act) ==
  {i \in DOMAIN act.dependencies : act.dependencies[i] \notin IdSet(sorted)}

\* Every operation is sorted, queued, or waits for exactly what its degree counts.
Sorting ==
  /\ building # <<>> /\ DOMAIN degree = IdSet(building)
  /\ \A act \in Range(building) : Range(act.dependencies) \subseteq IdSet(building)
  /\ sorted \in Seq(Operation) /\ Range(sorted) \subseteq Range(building)
  /\ queue \in Seq(Operation) /\ Range(queue) \subseteq Range(building)
  /\ OnceEach(queue) /\ IdSet(queue) \intersect IdSet(sorted) = {}
  /\ Runnable(sorted)
  /\ \A act \in Range(building) :
       /\ degree[act.id] = Cardinality(Waiting(act))
       /\ degree[act.id] = 0 <=> act \in Range(sorted) \union Range(queue)

BatchInv ==
  /\ intents \in Seq(Operation) /\ OnceEach(intents)
  /\ building \in Seq(Operation) /\ OnceEach(building)
  /\ Runnable(generated)
  /\ IF degree = <<>> THEN sorted = <<>> /\ queue = <<>> ELSE Sorting

\* One round of a filter, from what the rounds before it kept.
KeptRound(f, s, places, k) ==
  IF k = 0 THEN <<>>
  ELSE IF k \in places THEN Append(f[k - 1], s[k]) ELSE f[k - 1]

Keeps(f, s, places, m) == f = [k \in 0 .. m |-> KeptRound(f, s, places, k)]

\* What a filter keeps: the last round of a function that fits its equation.
LEMMA KeptUnfold ==
  ASSUME NEW s, NEW places
  PROVE  Kept(s, places) = (CHOOSE f : Keeps(f, s, places, Len(s)))[Len(s)]
BY DEF Kept, Keeps, KeptRound

\* There is such a function, for any number of rounds.
LEMMA KeptExists ==
  ASSUME NEW s, NEW places, NEW m \in Nat
  PROVE  \E f : Keeps(f, s, places, m)
<1> DEFINE Some == {k \in Nat : \E f : Keeps(f, s, places, k)}
<1>1. 0 \in Some
  <2> DEFINE f == [k \in 0 .. 0 |-> <<>>]
  <2>1. \A k \in 0 .. 0 : KeptRound(f, s, places, k) = <<>> BY DEF KeptRound
  <2>2. Keeps(f, s, places, 0) BY <2>1 DEF Keeps
  <2> QED BY <2>2
<1>2. ASSUME NEW k \in Some PROVE k + 1 \in Some
  <2>1. PICK f : Keeps(f, s, places, k) OBVIOUS
  <2>2. k \in Nat OBVIOUS
  <2> HIDE DEF Some
  <2> DEFINE most == k + 1
             x == KeptRound(f, s, places, most)
             g == [j \in 0 .. most |-> IF j = most THEN x ELSE f[j]]
  <2>3. \A j \in 0 .. k : f[j] = KeptRound(f, s, places, j) BY <2>1 DEF Keeps
  <2>4. \A j \in 0 .. k : g[j] = f[j] BY <2>2
  <2>5. ASSUME NEW j \in 0 .. most PROVE g[j] = KeptRound(g, s, places, j)
    <3>1. CASE j = 0
      <4>1. g[0] = f[0] /\ f[0] = KeptRound(f, s, places, 0) BY <2>2, <2>3, <2>4
      <4> QED BY <3>1, <4>1 DEF KeptRound
    <3>2. CASE j # 0
      <4>1. j - 1 \in 0 .. k BY <2>2, <3>2
      <4>2. g[j - 1] = f[j - 1] BY <2>4, <4>1
      <4>3. KeptRound(g, s, places, j) = KeptRound(f, s, places, j) BY <3>2, <4>2 DEF KeptRound
      <4>4. CASE j = most
        <5>1. g[j] = x BY <2>2, <4>4
        <5> QED BY <4>3, <4>4, <5>1
      <4>5. CASE j # most
        <5>1. j \in 0 .. k BY <2>2, <4>5
        <5> QED BY <2>3, <2>4, <4>3, <5>1
      <4> QED BY <4>4, <4>5
    <3> QED BY <3>1, <3>2
  <2>6. g = [j \in 0 .. most |-> g[j]] OBVIOUS
  <2> HIDE DEF g
  <2>7. Keeps(g, s, places, most) BY <2>5, <2>6 DEF Keeps
  <2> QED BY <2>2, <2>7 DEF Some
<1>3. Some \in SUBSET Nat OBVIOUS
<1> HIDE DEF Some
<1>4. Some = Nat BY <1>1, <1>2, <1>3, NatSetInduction
<1> QED BY <1>4 DEF Some

\* What the first k rounds of a filter have kept.
KeptSoFar(t, s, places, k) ==
  /\ \A i \in 1 .. k : i \in places => \E j \in 1 .. Len(t) : t[j] = s[i]
  /\ \A j \in 1 .. Len(t) : \E i \in 1 .. k : i \in places /\ t[j] = s[i]
  /\ OnceEach(s) => OnceEach(t)

\* One more place of a filter.
LEMMA KeptGrows ==
  ASSUME NEW S, NEW s \in Seq(S), NEW places, NEW t \in Seq(S), NEW k \in Nat,
         k + 1 <= Len(s), KeptSoFar(t, s, places, k)
  PROVE  /\ k + 1 \in places => /\ Append(t, s[k + 1]) \in Seq(S)
                                /\ KeptSoFar(Append(t, s[k + 1]), s, places, k + 1)
         /\ k + 1 \notin places => KeptSoFar(t, s, places, k + 1)
<1>1. Len(s) \in Nat /\ DOMAIN s = 1 .. Len(s) /\ Len(t) \in Nat /\ DOMAIN t = 1 .. Len(t)
  OBVIOUS
<1>2. k + 1 \in 1 .. Len(s) /\ s[k + 1] \in S BY <1>1
<1>3. ASSUME k + 1 \notin places PROVE KeptSoFar(t, s, places, k + 1)
  <2>1. \A i \in 1 .. k + 1 : i \in places => i \in 1 .. k BY <1>3
  <2>2. \A i \in 1 .. k : i \in 1 .. k + 1 OBVIOUS
  <2> QED BY <2>1, <2>2 DEF KeptSoFar
<1>4. ASSUME k + 1 \in places
      PROVE  /\ Append(t, s[k + 1]) \in Seq(S)
             /\ KeptSoFar(Append(t, s[k + 1]), s, places, k + 1)
  <2> DEFINE x == s[k + 1]
             u == Append(t, x)
             last == Len(t) + 1
  <2>1. x \in S BY <1>2
  <2> HIDE DEF x
  <2>2. /\ u \in Seq(S) /\ Len(u) = last /\ DOMAIN u = 1 .. last
        /\ \A j \in 1 .. Len(t) : u[j] = t[j]
        /\ u[last] = x
    BY <1>1, <2>1
  <2> HIDE DEF u
  <2>3. last \in Nat /\ last \in 1 .. last /\ \A j \in 1 .. Len(t) : j \in 1 .. last BY <1>1
  <2>4. \A j \in 1 .. last : j \in 1 .. Len(t) \/ j = last BY <1>1
  <2> HIDE DEF last
  <2>5. ASSUME NEW i \in 1 .. k + 1, i \in places PROVE \E j \in 1 .. last : u[j] = s[i]
    <3>1. CASE i = k + 1 BY <2>2, <2>3, <3>1 DEF x
    <3>2. CASE i # k + 1
      <4>1. i \in 1 .. k BY <3>2
      <4> QED BY <2>2, <2>3, <2>5, <4>1 DEF KeptSoFar
    <3> QED BY <3>1, <3>2
  <2>6. ASSUME NEW j \in 1 .. last
        PROVE  \E i \in 1 .. k + 1 : i \in places /\ u[j] = s[i]
    <3>1. CASE j = last
      <4>1. k + 1 \in 1 .. k + 1 OBVIOUS
      <4> QED BY <1>4, <2>2, <3>1, <4>1 DEF x
    <3>2. CASE j # last
      <4>1. j \in 1 .. Len(t) BY <2>4, <3>2
      <4>2. PICK i \in 1 .. k : i \in places /\ t[j] = s[i] BY <4>1 DEF KeptSoFar
      <4>3. i \in 1 .. k + 1 OBVIOUS
      <4> QED BY <2>2, <4>1, <4>2, <4>3
    <3> QED BY <3>1, <3>2
  <2>7. ASSUME OnceEach(s), NEW a \in 1 .. last, NEW b \in 1 .. last, u[a].id = u[b].id
        PROVE  a = b
    <3>1. OnceEach(t) BY <2>7 DEF KeptSoFar
    <3>2. ASSUME NEW j \in 1 .. Len(t) PROVE t[j].id # x.id
      <4>1. PICK i \in 1 .. k : t[j] = s[i] BY DEF KeptSoFar
      <4>2. i \in DOMAIN s /\ k + 1 \in DOMAIN s /\ i # k + 1 BY <1>1, <1>2
      <4> QED BY <2>7, <4>1, <4>2 DEF OnceEach, x
    <3>3. CASE a = last /\ b = last BY <3>3
    <3>4. CASE a = last /\ b \in 1 .. Len(t) BY <2>2, <2>7, <3>2, <3>4
    <3>5. CASE a \in 1 .. Len(t) /\ b = last BY <2>2, <2>7, <3>2, <3>5
    <3>6. CASE a \in 1 .. Len(t) /\ b \in 1 .. Len(t)
      BY <1>1, <2>2, <2>7, <3>1, <3>6 DEF OnceEach
    <3> QED BY <2>4, <3>3, <3>4, <3>5, <3>6
  <2>8. OnceEach(s) => OnceEach(u) BY <2>2, <2>7 DEF OnceEach
  <2>9. KeptSoFar(u, s, places, k + 1) BY <2>2, <2>5, <2>6, <2>8 DEF KeptSoFar
  <2> QED BY <2>2, <2>9 DEF u, x
<1> QED BY <1>3, <1>4

\* A filter keeps what stands at its places, once each if it stood there once.
LEMMA KeptLaw ==
  ASSUME NEW S, NEW s \in Seq(S), NEW places
  PROVE  /\ Kept(s, places) \in Seq(S)
         /\ \A i \in DOMAIN s : i \in places => s[i] \in Range(Kept(s, places))
         /\ \A x \in Range(Kept(s, places)) : \E i \in DOMAIN s : i \in places /\ x = s[i]
         /\ OnceEach(s) => OnceEach(Kept(s, places))
<1> DEFINE last == Len(s)
           f == CHOOSE g : Keeps(g, s, places, last)
<1>1. last \in Nat /\ DOMAIN s = 1 .. last OBVIOUS
<1>2. Keeps(f, s, places, last) BY <1>1, KeptExists
<1>3. Kept(s, places) = f[last] BY KeptUnfold
<1> HIDE DEF f
<1>4. \A k \in 0 .. last : f[k] = KeptRound(f, s, places, k) BY <1>2 DEF Keeps
<1> DEFINE Good(k) == k <= last => f[k] \in Seq(S) /\ KeptSoFar(f[k], s, places, k)
           All == {k \in Nat : Good(k)}
<1>5. 0 \in All
  <2>1. f[0] = <<>>
    <3>1. 0 \in 0 .. last BY <1>1
    <3> QED BY <1>4, <3>1 DEF KeptRound
  <2>2. KeptSoFar(<<>>, s, places, 0) BY DEF KeptSoFar, OnceEach
  <2>3. <<>> \in Seq(S) OBVIOUS
  <2>4. Good(0) BY <2>1, <2>2, <2>3
  <2> HIDE DEF Good
  <2> QED BY <2>4
<1>6. ASSUME NEW k \in All PROVE k + 1 \in All
  <2>1. k \in Nat /\ Good(k) OBVIOUS
  <2> SUFFICES ASSUME k + 1 <= last PROVE f[k + 1] \in Seq(S) /\ KeptSoFar(f[k + 1], s, places, k + 1)
    BY <2>1
  <2>2. f[k] \in Seq(S) /\ KeptSoFar(f[k], s, places, k) BY <1>1, <2>1
  <2>3. k + 1 \in 0 .. last /\ k + 1 # 0 /\ (k + 1) - 1 = k BY <1>1, <2>1
  <2>4. f[k + 1] = IF k + 1 \in places THEN Append(f[k], s[k + 1]) ELSE f[k]
    BY <1>4, <2>3 DEF KeptRound
  <2> HIDE DEF Good, All
  <2>5. /\ k + 1 \in places => /\ Append(f[k], s[k + 1]) \in Seq(S)
                               /\ KeptSoFar(Append(f[k], s[k + 1]), s, places, k + 1)
        /\ k + 1 \notin places => KeptSoFar(f[k], s, places, k + 1)
    BY <2>1, <2>2, KeptGrows
  <2> QED BY <2>2, <2>4, <2>5
<1>7. last \in All
  <2>1. All \in SUBSET Nat OBVIOUS
  <2> HIDE DEF All
  <2>2. All = Nat BY <1>5, <1>6, <2>1, NatSetInduction
  <2> QED BY <1>1, <2>2
<1>8. f[last] \in Seq(S) /\ KeptSoFar(f[last], s, places, last) BY <1>1, <1>7
<1> DEFINE t == Kept(s, places)
<1>9. t \in Seq(S) /\ KeptSoFar(t, s, places, last) BY <1>3, <1>8
<1> HIDE DEF t, f, last
<1>10. DOMAIN t = 1 .. Len(t) BY <1>9
<1>11. \A i \in DOMAIN s : i \in places => s[i] \in Range(t)
  BY <1>1, <1>9, <1>10 DEF KeptSoFar, Range
<1>12. \A x \in Range(t) : \E i \in DOMAIN s : i \in places /\ x = s[i]
  <2> SUFFICES ASSUME NEW x \in Range(t) PROVE \E i \in DOMAIN s : i \in places /\ x = s[i]
    OBVIOUS
  <2>1. PICK j \in DOMAIN t : x = t[j] BY DEF Range
  <2> QED BY <1>1, <1>9, <1>10, <2>1 DEF KeptSoFar
<1> QED BY <1>9, <1>11, <1>12 DEF KeptSoFar, t

\* What a sequence holds, and the ids there, as members of sets.
LEMMA RangeLaw ==
  ASSUME NEW S, NEW s \in Seq(S)
  PROVE  /\ \A i \in DOMAIN s : s[i] \in Range(s) /\ s[i] \in S /\ s[i].id \in IdSet(s)
         /\ \A x \in Range(s) : x \in S /\ x.id \in IdSet(s) /\ \E i \in DOMAIN s : x = s[i]
         /\ \A id \in IdSet(s) : \E x \in Range(s) : x.id = id
BY DEF Range, IdSet

\* What a sequence with one more at its end holds.
LEMMA AppendLaw ==
  ASSUME NEW S, NEW s \in Seq(S), NEW x \in S
  PROVE  /\ Append(s, x) \in Seq(S)
         /\ Range(Append(s, x)) = Range(s) \union {x}
         /\ IdSet(Append(s, x)) = IdSet(s) \union {x.id}
<1> DEFINE u == Append(s, x)
           last == Len(s) + 1
<1>1. /\ u \in Seq(S) /\ Len(s) \in Nat /\ DOMAIN u = 1 .. last /\ DOMAIN s = 1 .. Len(s)
      /\ \A i \in 1 .. Len(s) : u[i] = s[i]
      /\ u[last] = x
  OBVIOUS
<1> HIDE DEF u
<1>2. \A i \in 1 .. Len(s) : i \in 1 .. last BY <1>1
<1>3. last \in 1 .. last /\ \A i \in 1 .. last : i \in 1 .. Len(s) \/ i = last BY <1>1
<1> HIDE DEF last
<1>4. Range(u) = Range(s) \union {x} BY <1>1, <1>2, <1>3 DEF Range
<1>5. IdSet(u) = IdSet(s) \union {x.id} BY <1>1, <1>2, <1>3 DEF IdSet
<1> QED BY <1>1, <1>4, <1>5 DEF u

\* What two sequences joined hold.
LEMMA JoinedLaw ==
  ASSUME NEW S, NEW s \in Seq(S), NEW t \in Seq(S)
  PROVE  /\ s \o t \in Seq(S)
         /\ Range(s \o t) = Range(s) \union Range(t)
         /\ IdSet(s \o t) = IdSet(s) \union IdSet(t)
         /\ OnceEach(s) /\ OnceEach(t) /\ IdSet(s) \intersect IdSet(t) = {} => OnceEach(s \o t)
<1> DEFINE u == s \o t
           p == Len(s)
           q == Len(t)
<1>1. /\ u \in Seq(S) /\ p \in Nat /\ q \in Nat /\ DOMAIN u = 1 .. p + q
      /\ DOMAIN s = 1 .. p /\ DOMAIN t = 1 .. q
      /\ \A i \in 1 .. p + q : u[i] = IF i <= p THEN s[i] ELSE t[i - p]
  OBVIOUS
<1> HIDE DEF u, p, q
<1>2. \A i \in DOMAIN s : i \in DOMAIN u /\ u[i] = s[i] BY <1>1
<1>3. ASSUME NEW i \in DOMAIN t PROVE i + p \in DOMAIN u /\ u[i + p] = t[i]
  <2>1. i + p \in 1 .. p + q /\ ~(i + p <= p) /\ (i + p) - p = i BY <1>1
  <2> QED BY <1>1, <2>1
<1>4. ASSUME NEW i \in DOMAIN u
      PROVE  \/ i \in DOMAIN s /\ u[i] = s[i]
             \/ i - p \in DOMAIN t /\ u[i] = t[i - p] /\ i = (i - p) + p
  <2>1. CASE i <= p
    <3>1. i \in 1 .. p BY <1>1, <2>1
    <3> QED BY <1>1, <2>1, <3>1
  <2>2. CASE ~(i <= p)
    <3>1. i - p \in 1 .. q /\ i = (i - p) + p BY <1>1, <2>2
    <3> QED BY <1>1, <2>2, <3>1
  <2> QED BY <2>1, <2>2
<1>5. Range(u) = Range(s) \union Range(t) BY <1>2, <1>3, <1>4 DEF Range
<1>6. IdSet(u) = IdSet(s) \union IdSet(t) BY <1>2, <1>3, <1>4 DEF IdSet
<1>7. ASSUME OnceEach(s), OnceEach(t), IdSet(s) \intersect IdSet(t) = {} PROVE OnceEach(u)
  <2> SUFFICES ASSUME NEW i \in DOMAIN u, NEW j \in DOMAIN u, u[i].id = u[j].id PROVE i = j
    BY DEF OnceEach
  <2>1. CASE i \in DOMAIN s /\ u[i] = s[i] /\ j \in DOMAIN s /\ u[j] = s[j]
    BY <1>7, <2>1 DEF OnceEach
  <2>2. CASE i \in DOMAIN s /\ u[i] = s[i] /\ j - p \in DOMAIN t /\ u[j] = t[j - p]
    <3>1. u[i].id \in IdSet(s) /\ u[j].id \in IdSet(t) BY <2>2 DEF IdSet
    <3> QED BY <1>7, <3>1
  <2>3. CASE i - p \in DOMAIN t /\ u[i] = t[i - p] /\ j \in DOMAIN s /\ u[j] = s[j]
    <3>1. u[i].id \in IdSet(t) /\ u[j].id \in IdSet(s) BY <2>3 DEF IdSet
    <3> QED BY <1>7, <3>1
  <2>4. CASE /\ i - p \in DOMAIN t /\ u[i] = t[i - p] /\ i = (i - p) + p
             /\ j - p \in DOMAIN t /\ u[j] = t[j - p] /\ j = (j - p) + p
    <3>1. i - p = j - p BY <1>7, <2>4 DEF OnceEach
    <3> QED BY <2>4, <3>1
  <2> QED BY <1>4, <2>1, <2>2, <2>3, <2>4
<1> QED BY <1>1, <1>5, <1>6, <1>7 DEF u

\* The queue without its head.
LEMMA TailLaw ==
  ASSUME NEW S, NEW s \in Seq(S), s # <<>>
  PROVE  /\ Tail(s) \in Seq(S) /\ Head(s) \in S /\ Head(s) \in Range(s)
         /\ Range(Tail(s)) \subseteq Range(s) /\ Range(s) \subseteq Range(Tail(s)) \union {Head(s)}
         /\ OnceEach(s) => OnceEach(Tail(s)) /\ Head(s).id \notin IdSet(Tail(s))
<1> DEFINE t == Tail(s)
           last == Len(s)
<1>1. /\ last \in Nat /\ last >= 1 /\ DOMAIN s = 1 .. last
      /\ t \in Seq(S) /\ DOMAIN t = 1 .. last - 1
      /\ \A i \in 1 .. last - 1 : t[i] = s[i + 1]
      /\ Head(s) = s[1] /\ Head(s) \in S
  OBVIOUS
<1> HIDE DEF t, last
<1>2. 1 \in DOMAIN s BY <1>1
<1>3. ASSUME NEW i \in DOMAIN t
      PROVE  i + 1 \in DOMAIN s /\ t[i] = s[i + 1] /\ i + 1 # 1 /\ i \in Int
  BY <1>1
<1>4. ASSUME NEW i \in DOMAIN s, i # 1 PROVE i - 1 \in DOMAIN t /\ s[i] = t[i - 1]
  <2>1. i - 1 \in 1 .. last - 1 /\ (i - 1) + 1 = i BY <1>1, <1>4
  <2>2. t[i - 1] = s[(i - 1) + 1] BY <1>1, <2>1
  <2> QED BY <1>1, <2>1, <2>2
<1>5. Head(s) \in Range(s) BY <1>1, <1>2 DEF Range
<1>6. Range(t) \subseteq Range(s) BY <1>3 DEF Range
<1>7. Range(s) \subseteq Range(t) \union {Head(s)} BY <1>1, <1>4 DEF Range
<1>8. ASSUME OnceEach(s) PROVE OnceEach(t) /\ Head(s).id \notin IdSet(t)
  <2>1. ASSUME NEW i \in DOMAIN t, NEW j \in DOMAIN t, t[i].id = t[j].id PROVE i = j
    <3>1. i + 1 = j + 1 BY <1>3, <1>8, <2>1 DEF OnceEach
    <3> QED BY <1>3, <3>1
  <2>2. ASSUME NEW i \in DOMAIN t PROVE t[i].id # Head(s).id
    BY <1>1, <1>2, <1>3, <1>8 DEF OnceEach
  <2> QED BY <2>1, <2>2 DEF OnceEach, IdSet
<1> QED BY <1>1, <1>5, <1>6, <1>7, <1>8 DEF t

\* In a list of different ids, an id stands for its operation.
LEMMA IdsName ==
  ASSUME NEW ops \in Seq(Operation), OnceEach(ops)
  PROVE  /\ \A x, y \in Range(ops) : x.id = y.id => x = y
         /\ \A x \in Range(ops) : (CHOOSE act \in Range(ops) : act.id = x.id) = x
         /\ \A id \in IdSet(ops) : \E x \in Range(ops) : x.id = id
<1>1. \A x, y \in Range(ops) : x.id = y.id => x = y BY DEF OnceEach, Range
<1>2. ASSUME NEW x \in Range(ops)
      PROVE  (CHOOSE act \in Range(ops) : act.id = x.id) = x
  <2> DEFINE c == CHOOSE act \in Range(ops) : act.id = x.id
  <2>1. c \in Range(ops) /\ c.id = x.id OBVIOUS
  <2> HIDE DEF c
  <2>2. c = x BY <1>1, <2>1
  <2> QED BY <2>2 DEF c
<1> QED BY <1>1, <1>2, RangeLaw

\* An operation whose dependencies are sorted may come next.
LEMMA RunnableGrows ==
  ASSUME NEW s \in Seq(Operation), Runnable(s), NEW u \in Operation, u.id \notin IdSet(s),
         Range(u.dependencies) \subseteq IdSet(s)
  PROVE  Runnable(Append(s, u))
<1> DEFINE t == Append(s, u)
           last == Len(s) + 1
<1>1. /\ t \in Seq(Operation) /\ Len(s) \in Nat /\ DOMAIN t = 1 .. last
      /\ DOMAIN s = 1 .. Len(s) /\ last - 1 = Len(s)
      /\ \A i \in 1 .. Len(s) : t[i] = s[i] /\ i \in 1 .. last
      /\ t[last] = u
  OBVIOUS
<1> HIDE DEF t
<1>2. \A i \in 1 .. last : i \in 1 .. Len(s) \/ i = last BY <1>1
<1>3. \A i \in 1 .. Len(s) : \A j \in 1 .. i - 1 : j \in 1 .. Len(s) BY <1>1
<1> HIDE DEF last
<1>4. \A i \in 1 .. Len(s) : s[i].id # u.id BY <1>1 DEF IdSet
<1>5. ASSUME NEW i \in 1 .. last, NEW j \in 1 .. last, t[i].id = t[j].id PROVE i = j
  <2>1. CASE i \in 1 .. Len(s) /\ j \in 1 .. Len(s) BY <1>1, <1>5, <2>1 DEF Runnable
  <2>2. CASE i \in 1 .. Len(s) /\ j = last BY <1>1, <1>4, <1>5, <2>2
  <2>3. CASE i = last /\ j \in 1 .. Len(s) BY <1>1, <1>4, <1>5, <2>3
  <2>4. CASE i = last /\ j = last BY <2>4
  <2> QED BY <1>2, <2>1, <2>2, <2>3, <2>4
<1>6. ASSUME NEW i \in 1 .. last, NEW d \in Range(t[i].dependencies)
      PROVE  \E j \in 1 .. i - 1 : t[j].id = d
  <2>1. CASE i \in 1 .. Len(s)
    <3>1. \E j \in 1 .. i - 1 : s[j].id = d BY <1>1, <1>6, <2>1 DEF Runnable
    <3> QED BY <1>1, <1>3, <2>1, <3>1
  <2>2. CASE i = last
    <3>1. d \in IdSet(s) BY <1>1, <1>6, <2>2
    <3>2. PICK j \in 1 .. Len(s) : s[j].id = d BY <1>1, <3>1 DEF IdSet
    <3> QED BY <1>1, <2>2, <3>2
  <2> QED BY <1>2, <2>1, <2>2
<1>7. Runnable(t) BY <1>1, <1>5, <1>6 DEF Runnable
<1> QED BY <1>7 DEF t

\* What an operation waits for can be counted.
LEMMA WaitingIsFinite ==
  ASSUME NEW act \in Operation
  PROVE  /\ IsFiniteSet(Waiting(act)) /\ Cardinality(Waiting(act)) \in Nat
         /\ Cardinality(Waiting(act)) = 0 <=> Waiting(act) = {}
<1>1. act.dependencies \in Seq(Names) BY DEF Operation
<1>2. DOMAIN act.dependencies = 1 .. Len(act.dependencies) /\ Len(act.dependencies) \in Nat
  BY <1>1
<1>3. IsFiniteSet(DOMAIN act.dependencies) BY <1>2, FS_Interval
<1>4. Waiting(act) \subseteq DOMAIN act.dependencies BY DEF Waiting
<1>5. IsFiniteSet(Waiting(act)) BY <1>3, <1>4, FS_Subset
<1> QED BY <1>5, FS_CardinalityType, FS_EmptySet

\* While the sort runs, an operation's degree says how many dependencies it waits for.
LEMMA Counted ==
  ASSUME BatchInv, degree # <<>>, NEW act \in Range(building)
  PROVE  /\ act \in Operation /\ act.id \in DOMAIN degree
         /\ degree[act.id] = Cardinality(Waiting(act))
         /\ degree[act.id] = 0 <=> Waiting(act) = {}
         /\ degree[act.id] = 0 <=> act \in Range(sorted) \union Range(queue)
<1>1. building \in Seq(Operation) /\ Sorting BY DEF BatchInv
<1>2. act \in Operation /\ act.id \in IdSet(building) BY <1>1, RangeLaw
<1> QED BY <1>1, <1>2, WaitingIsFinite DEF Sorting

\* When the queue is empty, what is not sorted waits for each other, and only then.
LEMMA NothingLeft ==
  ASSUME BatchInv, degree # <<>>, queue = <<>>
  PROVE  Range(sorted) = Range(building) <=> ~WaitForEachOther(building)
<1>1. /\ building \in Seq(Operation) /\ OnceEach(building) /\ Sorting BY DEF BatchInv
<1>2. Range(queue) = {} BY DEF Range
<1>3. sorted \in Seq(Operation) /\ Range(sorted) \subseteq Range(building) BY <1>1 DEF Sorting
<1>4. ASSUME Range(sorted) # Range(building) PROVE WaitForEachOther(building)
  <2> DEFINE S == Range(building) \ Range(sorted)
  <2>1. S \in (SUBSET Range(building)) \ {{}} BY <1>3, <1>4
  <2>2. ASSUME NEW x \in S PROVE \E y \in S : DependsOn(x, y.id)
    <3>1. Waiting(x) # {} BY <1>2, Counted
    <3>2. PICK i \in DOMAIN x.dependencies : x.dependencies[i] \notin IdSet(sorted)
      BY <3>1 DEF Waiting
    <3>3. x.dependencies[i] \in Range(x.dependencies) BY DEF Range
    <3>4. x.dependencies[i] \in IdSet(building) BY <1>1, <3>3 DEF Sorting
    <3>5. PICK y \in Range(building) : y.id = x.dependencies[i] BY <1>1, <3>4, IdsName
    <3>6. y \notin Range(sorted) BY <1>3, <3>2, <3>5, RangeLaw
    <3> QED BY <3>3, <3>5, <3>6 DEF DependsOn
  <2> HIDE DEF S
  <2> QED BY <2>1, <2>2 DEF WaitForEachOther
<1>5. ASSUME Range(sorted) = Range(building), WaitForEachOther(building) PROVE FALSE
  <2>1. PICK S \in (SUBSET Range(building)) \ {{}} : \A x \in S : \E y \in S : DependsOn(x, y.id)
    BY <1>5 DEF WaitForEachOther
  <2> DEFINE Spots == {i \in DOMAIN sorted : sorted[i] \in S}
  <2>2. Spots \subseteq Nat /\ Spots # {}
    <3>1. PICK x \in S : TRUE BY <2>1
    <3>2. PICK i \in DOMAIN sorted : x = sorted[i] BY <1>5, <2>1, <3>1 DEF Range
    <3>3. DOMAIN sorted \subseteq Nat BY <1>3
    <3> QED BY <3>1, <3>2, <3>3
  <2>3. PICK i \in Spots : \A j \in Spots : i <= j BY <2>2, LeastExists
  <2>4. i \in DOMAIN sorted /\ sorted[i] \in S /\ i \in Nat BY <2>2
  <2>5. PICK y \in S : DependsOn(sorted[i], y.id) BY <2>1, <2>4
  <2>6. PICK j \in 1 .. i - 1 : sorted[j].id = y.id
    BY <1>1, <2>4, <2>5 DEF Sorting, Runnable, DependsOn
  <2>7. j \in DOMAIN sorted /\ j < i
    <3>1. DOMAIN sorted = 1 .. Len(sorted) /\ Len(sorted) \in Nat BY <1>3
    <3> QED BY <2>4, <3>1
  <2>8. sorted[j] \in Range(building) /\ y \in Range(building)
    BY <1>5, <2>1, <2>7 DEF Range
  <2>9. sorted[j] = y BY <1>1, <2>6, <2>8, IdsName
  <2>10. j \in Spots BY <2>7, <2>9
  <2>11. i <= j BY <2>3, <2>10
  <2>12. j \in Nat BY <2>2, <2>10
  <2> QED BY <2>4, <2>7, <2>11, <2>12
<1> QED BY <1>4, <1>5

\* An operation freed by u has waited for it until now.
LEMMA FreedHaveWaited ==
  ASSUME BatchInv, degree # <<>>, NEW u, u.id \notin IdSet(sorted)
  PROVE  /\ Freed(u) \in Seq(Operation) /\ OnceEach(Freed(u))
         /\ \A act \in Range(building) :
              act \in Range(Freed(u)) <=> DependsOn(act, u.id) /\ Left(act, u) = 0
         /\ \A act \in Range(Freed(u)) : act \in Range(building) /\ degree[act.id] # 0
<1>1. building \in Seq(Operation) /\ OnceEach(building) BY DEF BatchInv
<1> DEFINE places == {i \in DOMAIN building :
                        DependsOn(building[i], u.id) /\ Left(building[i], u) = 0}
           t == Kept(building, places)
<1>2. t = Freed(u) BY DEF Freed
<1>3. /\ t \in Seq(Operation) /\ OnceEach(t)
      /\ \A i \in DOMAIN building : i \in places => building[i] \in Range(t)
      /\ \A x \in Range(t) : \E i \in DOMAIN building : i \in places /\ x = building[i]
  <2> HIDE DEF places
  <2> QED BY <1>1, KeptLaw
<1> HIDE DEF t
<1>4. ASSUME NEW act \in Range(t)
      PROVE  act \in Range(building) /\ DependsOn(act, u.id) /\ Left(act, u) = 0
  BY <1>3 DEF Range
<1>5. ASSUME NEW act \in Range(building), DependsOn(act, u.id), Left(act, u) = 0
      PROVE  act \in Range(t)
  <2>1. PICK i \in DOMAIN building : act = building[i] BY DEF Range
  <2> QED BY <1>3, <1>5, <2>1
<1>6. ASSUME NEW act \in Range(building), DependsOn(act, u.id) PROVE degree[act.id] # 0
  <2>1. PICK i \in DOMAIN act.dependencies : act.dependencies[i] = u.id
    BY <1>6 DEF DependsOn, Range
  <2>2. i \in Waiting(act) BY <2>1 DEF Waiting
  <2> QED BY <2>2, Counted
<1> HIDE DEF places
<1> QED BY <1>2, <1>3, <1>4, <1>5, <1>6

\* Sorting u takes it off what the others wait for.
LEMMA WaitsForLess ==
  ASSUME BatchInv, degree # <<>>, NEW u, u.id \notin IdSet(sorted),
         IdSet(sorted') = IdSet(sorted) \union {u.id}, NEW act \in Range(building)
  PROVE  /\ Left(act, u) = Cardinality(Waiting(act)')
         /\ ~DependsOn(act, u.id) => Waiting(act)' = Waiting(act)
<1> DEFINE taken == {i \in DOMAIN act.dependencies : act.dependencies[i] = u.id}
           before == Waiting(act)
           after == {i \in DOMAIN act.dependencies : act.dependencies[i] \notin IdSet(sorted')}
<1>1. after = Waiting(act)' BY DEF Waiting
<1>2. taken \subseteq before BY DEF Waiting
<1>3. after = before \ taken BY DEF Waiting
<1>4. IsFiniteSet(before) /\ degree[act.id] = Cardinality(before) BY Counted, WaitingIsFinite
<1>5. Left(act, u) = Cardinality(before) - Cardinality(taken) BY <1>4 DEF Left
<1>6. ~DependsOn(act, u.id) => taken = {} BY DEF DependsOn, Range
<1> HIDE DEF taken, before, after
<1>7. before \cap taken = taken BY <1>2
<1>8. Cardinality(after) = Cardinality(before) - Cardinality(before \cap taken)
  BY <1>3, <1>4, FS_Difference
<1>9. ~DependsOn(act, u.id) => after = before BY <1>3, <1>6
<1> QED BY <1>1, <1>5, <1>7, <1>8, <1>9 DEF before

\* One round of the sort keeps its account of what waits for what.
LEMMA TakeNextSorts ==
  ASSUME BatchInv, TakeNext
  PROVE  Sorting'
<1>1. degree # <<>> /\ queue # <<>> BY DEF BatchInv, TakeNext
<1>2. /\ building \in Seq(Operation) /\ OnceEach(building) /\ Sorting
      /\ building' = building /\ building # <<>>
  BY <1>1 DEF BatchInv, TakeNext, Sorting
<1>3. PICK u : u = Head(queue) OBVIOUS
<1>4. /\ sorted' = Append(sorted, u)
      /\ degree' = [id \in DOMAIN degree |->
                       Left(CHOOSE act \in Range(building) : act.id = id, u)]
      /\ queue' = Tail(queue) \o Freed(u)
  BY <1>3 DEF TakeNext
<1>5. /\ sorted \in Seq(Operation) /\ Range(sorted) \subseteq Range(building)
      /\ queue \in Seq(Operation) /\ Range(queue) \subseteq Range(building)
      /\ OnceEach(queue) /\ IdSet(queue) \intersect IdSet(sorted) = {}
      /\ Runnable(sorted) /\ DOMAIN degree = IdSet(building)
      /\ \A act \in Range(building) : Range(act.dependencies) \subseteq IdSet(building)
  BY <1>2 DEF Sorting
<1>6. /\ Tail(queue) \in Seq(Operation) /\ u \in Operation /\ u \in Range(queue)
      /\ Range(Tail(queue)) \subseteq Range(queue)
      /\ Range(queue) \subseteq Range(Tail(queue)) \union {u}
      /\ OnceEach(Tail(queue)) /\ u.id \notin IdSet(Tail(queue))
  BY <1>1, <1>3, <1>5, TailLaw
<1>7. u \in Range(building) /\ u.id \in IdSet(queue) /\ u.id \notin IdSet(sorted)
  BY <1>5, <1>6, RangeLaw
<1>8. degree[u.id] = 0 /\ Waiting(u) = {} BY <1>1, <1>6, <1>7, Counted
<1>9. Range(u.dependencies) \subseteq IdSet(sorted) BY <1>8 DEF Waiting, Range
<1>10. /\ sorted' \in Seq(Operation) /\ Range(sorted') = Range(sorted) \union {u}
       /\ IdSet(sorted') = IdSet(sorted) \union {u.id}
  BY <1>4, <1>5, <1>6, AppendLaw
<1>11. Runnable(sorted') BY <1>4, <1>5, <1>6, <1>7, <1>9, RunnableGrows
<1>12. /\ Freed(u) \in Seq(Operation) /\ OnceEach(Freed(u))
       /\ \A act \in Range(building) :
            act \in Range(Freed(u)) <=> DependsOn(act, u.id) /\ Left(act, u) = 0
       /\ \A act \in Range(Freed(u)) : act \in Range(building) /\ degree[act.id] # 0
  BY <1>1, <1>7, FreedHaveWaited
<1>13. \A id \in IdSet(Freed(u)) : id \in DOMAIN degree /\ degree[id] # 0
  <2> SUFFICES ASSUME NEW id \in IdSet(Freed(u)) PROVE id \in DOMAIN degree /\ degree[id] # 0
    OBVIOUS
  <2>1. PICK x \in Range(Freed(u)) : x.id = id BY <1>12, RangeLaw
  <2> QED BY <1>1, <1>12, <2>1, Counted
<1>14. \A id \in IdSet(queue) \union IdSet(sorted) : degree[id] = 0
  <2> SUFFICES ASSUME NEW id \in IdSet(queue) \union IdSet(sorted) PROVE degree[id] = 0
    OBVIOUS
  <2>1. PICK x \in Range(queue) \union Range(sorted) : x.id = id BY <1>5, RangeLaw
  <2> QED BY <1>1, <1>5, <2>1, Counted
<1>15. IdSet(Tail(queue)) \subseteq IdSet(queue)
  <2> DEFINE t == Tail(queue)
  <2>1. t \in Seq(Operation) /\ Range(t) \subseteq Range(queue) BY <1>6
  <2> HIDE DEF t
  <2>2. ASSUME NEW id \in IdSet(t) PROVE id \in IdSet(queue)
    <3>1. PICK x \in Range(t) : x.id = id BY <2>1, RangeLaw
    <3> QED BY <1>5, <2>1, <3>1, RangeLaw
  <2> QED BY <2>2 DEF t
<1>16. /\ queue' \in Seq(Operation) /\ Range(queue') = Range(Tail(queue)) \union Range(Freed(u))
       /\ IdSet(queue') = IdSet(Tail(queue)) \union IdSet(Freed(u))
       /\ OnceEach(queue')
  <2>1. IdSet(Tail(queue)) \intersect IdSet(Freed(u)) = {} BY <1>13, <1>14, <1>15
  <2> DEFINE t == Tail(queue)
             f == Freed(u)
  <2>2. t \in Seq(Operation) /\ OnceEach(t) /\ f \in Seq(Operation) /\ OnceEach(f)
        /\ queue' = t \o f
    BY <1>4, <1>6, <1>12
  <2>3. IdSet(t) \intersect IdSet(f) = {} BY <2>1
  <2> HIDE DEF t, f
  <2>4. /\ t \o f \in Seq(Operation) /\ Range(t \o f) = Range(t) \union Range(f)
        /\ IdSet(t \o f) = IdSet(t) \union IdSet(f) /\ OnceEach(t \o f)
    BY <2>2, <2>3, JoinedLaw
  <2> QED BY <2>2, <2>4 DEF t, f
<1>17. IdSet(queue') \intersect IdSet(sorted') = {}
  BY <1>5, <1>6, <1>7, <1>10, <1>13, <1>14, <1>15, <1>16
<1>18. ASSUME NEW act \in Range(building)
       PROVE  /\ degree'[act.id] = Cardinality(Waiting(act)')
              /\ degree'[act.id] = 0 <=> act \in Range(sorted') \union Range(queue')
  <2>1. act.id \in DOMAIN degree /\ act \in Operation BY <1>1, Counted
  <2>2. degree'[act.id] = Left(act, u) BY <1>2, <1>4, <2>1, IdsName
  <2>3. /\ Left(act, u) = Cardinality(Waiting(act)')
        /\ ~DependsOn(act, u.id) => Waiting(act)' = Waiting(act)
    BY <1>1, <1>7, <1>10, WaitsForLess
  <2>4. Waiting(act)' \subseteq Waiting(act) BY <1>10 DEF Waiting
  <2>5. degree'[act.id] = 0 <=> Waiting(act)' = {}
    <3>1. IsFiniteSet(Waiting(act)) BY <2>1, WaitingIsFinite
    <3>2. IsFiniteSet(Waiting(act)') BY <2>4, <3>1, FS_Subset
    <3> QED BY <2>2, <2>3, <3>2, FS_EmptySet
  <2>6. act \in Range(sorted) \union Range(queue) <=> Waiting(act) = {} BY <1>1, Counted
  <2>7. act \in Range(sorted') \union Range(queue')
          <=> act \in Range(sorted) \union Range(queue) \/ act \in Range(Freed(u))
    BY <1>6, <1>10, <1>16
  <2>8. act \in Range(Freed(u)) <=> DependsOn(act, u.id) /\ Left(act, u) = 0 BY <1>12
  <2>9. degree'[act.id] = 0 <=> act \in Range(sorted') \union Range(queue')
    <3>1. CASE act \in Range(sorted) \union Range(queue)
      BY <2>4, <2>5, <2>6, <2>7, <3>1
    <3>2. CASE act \notin Range(sorted) \union Range(queue)
      BY <2>2, <2>3, <2>5, <2>6, <2>7, <2>8, <3>2
    <3> QED BY <3>1, <3>2
  <2> QED BY <2>2, <2>3, <2>9
<1>19. DOMAIN degree' = IdSet(building') BY <1>2, <1>4, <1>5
<1>20. Range(sorted') \subseteq Range(building') /\ Range(queue') \subseteq Range(building')
  BY <1>2, <1>5, <1>6, <1>7, <1>10, <1>12, <1>16
<1> QED BY <1>2, <1>5, <1>10, <1>11, <1>16, <1>17, <1>18, <1>19, <1>20 DEF Sorting

\* Counting the degrees starts the account.
LEMMA CountDegreesSorts ==
  ASSUME BatchInv, CountDegrees, degree' # <<>>
  PROVE  Sorting'
<1>1. /\ building \in Seq(Operation) /\ OnceEach(building) /\ building # <<>>
      /\ degree = <<>> /\ sorted = <<>> /\ queue = <<>>
  BY DEF BatchInv, CountDegrees
<1> DEFINE free == {i \in DOMAIN building : building[i].dependencies = <<>>}
           t == Kept(building, free)
<1>2. /\ \A act \in Range(building) : Range(act.dependencies) \subseteq IdSet(building)
      /\ degree' = [id \in IdSet(building) |->
                       Len((CHOOSE act \in Range(building) : act.id = id).dependencies)]
      /\ queue' = t /\ building' = building /\ sorted' = sorted
  BY DEF CountDegrees, WorkerRests
<1>3. /\ t \in Seq(Operation) /\ OnceEach(t)
      /\ \A i \in DOMAIN building : i \in free => building[i] \in Range(t)
      /\ \A x \in Range(t) : \E i \in DOMAIN building : i \in free /\ x = building[i]
  <2> HIDE DEF free
  <2> QED BY <1>1, KeptLaw
<1> HIDE DEF t
<1>4. \A act \in Range(building) : act \in Range(t) <=> act.dependencies = <<>>
  BY <1>3 DEF Range
<1>5. Range(t) \subseteq Range(building) BY <1>3 DEF Range
<1> HIDE DEF free
<1>6. IdSet(sorted') = {} /\ Range(sorted') = {} /\ sorted' \in Seq(Operation)
  BY <1>1, <1>2 DEF IdSet, Range
<1>7. Runnable(sorted') BY <1>1, <1>2 DEF Runnable
<1>8. ASSUME NEW act \in Range(building)
      PROVE  /\ degree'[act.id] = Cardinality(Waiting(act)')
             /\ degree'[act.id] = 0 <=> act \in Range(sorted') \union Range(queue')
  <2>1. act \in Operation /\ act.id \in IdSet(building) BY <1>1, RangeLaw
  <2>2. act.dependencies \in Seq(Names) BY <2>1 DEF Operation
  <2>3. degree'[act.id] = Len(act.dependencies) BY <1>1, <1>2, <2>1, IdsName
  <2> DEFINE far == Len(act.dependencies)
  <2>4. DOMAIN act.dependencies = 1 .. far /\ far \in Nat /\ (far = 0 <=> act.dependencies = <<>>)
    BY <2>2
  <2>5. Waiting(act)' = 1 .. far BY <1>6, <2>4 DEF Waiting
  <2> HIDE DEF far
  <2>6. Cardinality(1 .. far) = far BY <2>4, FS_Interval
  <2> QED BY <1>2, <1>4, <1>6, <2>3, <2>4, <2>5, <2>6 DEF far
<1>9. DOMAIN degree' = IdSet(building') BY <1>2
<1>10. IdSet(queue') \intersect IdSet(sorted') = {} BY <1>6
<1> QED BY <1>1, <1>2, <1>3, <1>5, <1>6, <1>7, <1>8, <1>9, <1>10 DEF Sorting

\* The three demonstrations are lists of different operations.
LEMMA DemosAreLists ==
  ASSUME NEW demo \in {LinearDemo, BranchingDemo, CyclicDemo}
  PROVE  demo \in Seq(Operation) /\ OnceEach(demo)
<1>1. /\ "fund" \in Names /\ "allocate" \in Names /\ "claim" \in Names
      /\ "metadata" \in Names
  BY DEF Names
<1>2. /\ <<>> \in Seq(Names) /\ <<"fund">> \in Seq(Names) /\ <<"allocate">> \in Seq(Names)
  BY <1>1
<1>3. \A id \in Names, ds \in Seq(Names) : [id |-> id, dependencies |-> ds] \in Operation
  BY DEF Operation
<1>4. CASE demo = LinearDemo
  <2>1. /\ [id |-> "fund", dependencies |-> <<>>] \in Operation
        /\ [id |-> "allocate", dependencies |-> <<"fund">>] \in Operation
        /\ [id |-> "claim", dependencies |-> <<"allocate">>] \in Operation
    BY <1>1, <1>2, <1>3
  <2>2. \A a, b, c \in Operation : <<a, b, c>> \in Seq(Operation) OBVIOUS
  <2>3. demo \in Seq(Operation) BY <1>4, <2>1, <2>2 DEF LinearDemo
  <2>4. OnceEach(demo) BY <1>4 DEF LinearDemo, OnceEach
  <2> QED BY <2>3, <2>4
<1>5. CASE demo = BranchingDemo
  <2>1. /\ [id |-> "metadata", dependencies |-> <<"fund">>] \in Operation
        /\ [id |-> "claim", dependencies |-> <<"allocate">>] \in Operation
        /\ [id |-> "allocate", dependencies |-> <<"fund">>] \in Operation
        /\ [id |-> "fund", dependencies |-> <<>>] \in Operation
    BY <1>1, <1>2, <1>3
  <2>2. \A a, b, c, d \in Operation : <<a, b, c, d>> \in Seq(Operation) OBVIOUS
  <2>3. demo \in Seq(Operation) BY <1>5, <2>1, <2>2 DEF BranchingDemo
  <2>4. OnceEach(demo) BY <1>5 DEF BranchingDemo, OnceEach
  <2> QED BY <2>3, <2>4
<1>6. CASE demo = CyclicDemo
  <2>1. demo \in Seq(Operation) BY <1>1, <1>2, <1>3, <1>6 DEF CyclicDemo
  <2>2. OnceEach(demo) BY <1>6 DEF CyclicDemo, OnceEach
  <2> QED BY <2>1, <2>2
<1> QED BY <1>4, <1>5, <1>6

\* However the list is edited, it is one of different operations.
LEMMA EditsKeepTheList ==
  ASSUME BatchInv, NEW id \in OperationIds,
         \/ HandleRemoveOperation(id)
         \/ \E far \in 0 .. MaxDependencies : \E ds \in [1 .. far -> OperationIds] :
              HandleAddOperation(id, ds)
  PROVE  intents' \in Seq(Operation) /\ OnceEach(intents') /\ UNCHANGED <<worker, generated>>
<1>1. intents \in Seq(Operation) /\ OnceEach(intents) BY DEF BatchInv
<1>2. CASE HandleRemoveOperation(id)
  <2> DEFINE places == {i \in DOMAIN intents : intents[i].id # id}
  <2>1. intents' = Kept(intents, places) /\ UNCHANGED <<worker, generated>>
    BY <1>2 DEF HandleRemoveOperation, Edit
  <2> HIDE DEF places
  <2> QED BY <1>1, <2>1, KeptLaw
<1>3. CASE \E far \in 0 .. MaxDependencies : \E ds \in [1 .. far -> OperationIds] :
             HandleAddOperation(id, ds)
  <2>1. PICK far \in 0 .. MaxDependencies : \E ds \in [1 .. far -> OperationIds] :
          HandleAddOperation(id, ds)
    BY <1>3
  <2>2. PICK ds \in [1 .. far -> OperationIds] : HandleAddOperation(id, ds) BY <2>1
  <2> DEFINE x == [id |-> id, dependencies |-> ds]
  <2>3. far \in Nat BY <2>1
  <2>4. ds \in Seq(Names) BY <2>3 DEF Names
  <2>5. x \in Operation /\ x.id = id BY <2>4 DEF Operation, Names
  <2>6. intents' = Append(intents, x) /\ UNCHANGED <<worker, generated>> /\ id \notin IdSet(intents)
    BY <2>2 DEF HandleAddOperation, Edit
  <2> HIDE DEF x
  <2> DEFINE t == Append(intents, x)
             last == Len(intents) + 1
  <2>7. /\ t \in Seq(Operation) /\ DOMAIN t = 1 .. last /\ DOMAIN intents = 1 .. Len(intents)
        /\ \A i \in 1 .. Len(intents) : t[i] = intents[i]
        /\ t[last] = x /\ Len(intents) \in Nat
    BY <1>1, <2>5
  <2> HIDE DEF t
  <2>8. \A i \in 1 .. last : i \in 1 .. Len(intents) \/ i = last BY <2>7
  <2> HIDE DEF last
  <2>9. \A i \in 1 .. Len(intents) : intents[i].id # id BY <2>6, <2>7 DEF IdSet
  <2>10. OnceEach(t) BY <1>1, <2>5, <2>7, <2>8, <2>9 DEF OnceEach
  <2> QED BY <2>6, <2>7, <2>10 DEF t
<1> QED BY <1>2, <1>3

\* A step that leaves the worker and what it made alone.
LEMMA WorkerUndisturbed ==
  ASSUME BatchInv, UNCHANGED worker, Runnable(generated'),
         intents' \in Seq(Operation), OnceEach(intents')
  PROVE  BatchInv'
<1>1. building' = building /\ degree' = degree /\ queue' = queue /\ sorted' = sorted
  BY DEF worker
<1>2. ASSUME Sorting PROVE Sorting' BY <1>1, <1>2 DEF Sorting, Waiting
<1> QED BY <1>1, <1>2 DEF BatchInv

\* Every step of the page and of its worker keeps the account.
LEMMA BatchStep ==
  ASSUME BatchInv, [BatchNext]_batchVars
  PROVE  BatchInv'
<1>1. /\ intents \in Seq(Operation) /\ OnceEach(intents) /\ Runnable(generated)
      /\ building \in Seq(Operation) /\ OnceEach(building)
  BY DEF BatchInv
<1>2. Runnable(<<>>) /\ OnceEach(<<>>) /\ <<>> \in Seq(Operation) BY DEF Runnable, OnceEach
<1>3. ASSUME NEW id \in OperationIds,
             \/ HandleRemoveOperation(id)
             \/ \E far \in 0 .. MaxDependencies : \E ds \in [1 .. far -> OperationIds] :
                  HandleAddOperation(id, ds)
      PROVE  BatchInv'
  <2>1. intents' \in Seq(Operation) /\ OnceEach(intents') /\ UNCHANGED <<worker, generated>>
    BY <1>3, EditsKeepTheList
  <2> QED BY <1>1, <2>1, WorkerUndisturbed
<1>4. ASSUME NEW demo \in {LinearDemo, BranchingDemo, CyclicDemo}, LoadDemo(demo)
      PROVE  BatchInv'
  <2>1. demo \in Seq(Operation) /\ OnceEach(demo) BY DemosAreLists
  <2>2. intents' = demo /\ generated' = <<>> /\ UNCHANGED worker BY <1>4 DEF LoadDemo, Edit
  <2> QED BY <1>2, <2>1, <2>2, WorkerUndisturbed
<1>5. CASE HandleBuildTransaction
  <2>1. /\ building = <<>> /\ intents' = intents /\ generated' = <<>>
        /\ degree' = degree /\ queue' = queue /\ sorted' = sorted
        /\ building' = intents \/ building' = building
    BY <1>5 DEF HandleBuildTransaction
  <2>2. degree = <<>> BY <2>1 DEF BatchInv, Sorting
  <2>3. sorted = <<>> /\ queue = <<>> BY <2>2 DEF BatchInv
  <2> QED BY <1>1, <1>2, <2>1, <2>2, <2>3 DEF BatchInv
<1>6. CASE CountDegrees
  <2>1. intents' = intents /\ generated' = generated BY <1>6 DEF CountDegrees
  <2>2. CASE degree' # <<>>
    <3>1. Sorting' BY <1>6, <2>2, CountDegreesSorts
    <3>2. building' = building BY <1>6, <2>2 DEF CountDegrees, WorkerRests
    <3> QED BY <1>1, <2>1, <2>2, <3>1, <3>2 DEF BatchInv
  <2>3. CASE degree' = <<>>
    <3>1. CASE WorkerRests
      BY <1>1, <1>2, <2>1, <3>1 DEF BatchInv, WorkerRests
    <3>2. CASE ~WorkerRests
      <4>1. DOMAIN degree' = IdSet(building) BY <1>6, <3>2 DEF CountDegrees
      <4>2. building # <<>> BY <1>6 DEF CountDegrees
      <4>3. 1 \in DOMAIN building BY <1>1, <4>2
      <4>4. IdSet(building) # {} BY <4>3 DEF IdSet
      <4> QED BY <2>3, <4>1, <4>4
    <3> QED BY <3>1, <3>2
  <2> QED BY <2>2, <2>3
<1>7. CASE TakeNext
  <2>1. Sorting' BY <1>7, TakeNextSorts
  <2>2. intents' = intents /\ generated' = generated /\ building' = building
    BY <1>7 DEF TakeNext
  <2>3. degree' # <<>>
    <3>1. DOMAIN degree' = IdSet(building') /\ building' # <<>> BY <2>1 DEF Sorting
    <3>2. 1 \in DOMAIN building BY <1>1, <2>2, <3>1
    <3>3. IdSet(building') # {} BY <2>2, <3>2 DEF IdSet
    <3> QED BY <3>1, <3>3
  <2> QED BY <1>1, <2>1, <2>2, <2>3 DEF BatchInv
<1>8. CASE SortEnds
  <2>1. /\ intents' = intents /\ degree # <<>> /\ WorkerRests
        /\ generated' = generated \/ generated' = sorted
    BY <1>8 DEF SortEnds
  <2>2. Runnable(sorted) BY <2>1 DEF BatchInv, Sorting
  <2> QED BY <1>1, <1>2, <2>1, <2>2 DEF BatchInv, WorkerRests
<1>9. CASE BatchSubmit \/ BatchRefused
  <2>1. intents' = intents /\ generated' = generated /\ UNCHANGED worker
    BY <1>9 DEF BatchSubmit, BatchRefused
  <2> QED BY <1>1, <2>1, WorkerUndisturbed
<1>10. CASE BatchConfirmed
  <2>1. intents' = <<>> /\ generated' = <<>> /\ UNCHANGED worker BY <1>10 DEF BatchConfirmed
  <2> QED BY <1>2, <2>1, WorkerUndisturbed
<1>11. CASE UNCHANGED batchVars
  <2>1. intents' = intents /\ generated' = generated /\ UNCHANGED worker
    BY <1>11 DEF batchVars, worker
  <2> QED BY <1>1, <2>1, WorkerUndisturbed
<1> QED
  BY <1>3, <1>4, <1>5, <1>6, <1>7, <1>8, <1>9, <1>10, <1>11 DEF BatchNext

\* What the user signs is in an order that respects the dependencies as they were when
\* sorting began, and a list of any length is refused only when it has no such order.
THEOREM BatchesAreInOrder == BatchSpec => []SortIsRight
<1>1. BatchInit => BatchInv
  BY DEF BatchInit, BatchInv, OnceEach, Runnable
<1>2. BatchInv /\ [BatchNext]_batchVars => BatchInv' BY BatchStep
<1>3. BatchInv => SortIsRight
  <2> SUFFICES ASSUME BatchInv PROVE SortIsRight OBVIOUS
  <2>1. Runnable(<<>>) BY DEF Runnable
  <2>2. Runnable(generated) BY DEF BatchInv
  <2>3. Runnable(sorted) BY <2>1 DEF BatchInv, Sorting
  <2>4. degree # <<>> /\ queue = <<>> =>
          (Range(sorted) = Range(building) <=> ~WaitForEachOther(building))
    BY NothingLeft
  <2> QED BY <2>2, <2>3, <2>4 DEF SortIsRight
<1> QED BY <1>1, <1>2, <1>3, PTL DEF BatchSpec
=============================================================================
