------------------------- MODULE ToggleGuardsProofs -------------------------
(* What stands in an instruction's way.  Each instruction is split into what   *)
(* it asks of the state it finds and what it makes of it; the second part only *)
(* gives every variable its next value, so the first decides alone whether the *)
(* instruction goes through.  The theorems show that a few things a caller can *)
(* see for himself are all that is ever asked, and for settle one thing more:  *)
(* that no lamports lie at the address of the record it has to make.  The      *)
(* inductive invariant provides the rest.                                      *)
EXTENDS ToggleProofs

USE KeysAssumption, AmountsAssumption, WidthAssumption

-----------------------------------------------------------------------------
(* settle() *)

\* What settle asks of the state, and what it makes of it.
SettleReady(caller, burn_target) ==
  LET split == compute_split(top_bid_amount, FEE_BPS) IN
  /\ initialized
  /\ burn_target = burn_address
  /\ WindowElapsed
  /\ escrowed_amount >= top_bid_amount
  /\ FitsU64(treasury_balance + split.fee)
  /\ FitsU64(total_challenges + 1)
  /\ lamports[Vault] >= split.burn
  /\ flipped => /\ FitsU64(holder_count + 1)
                /\ lamports[caller] >= RentWin
                /\ AddressFree(holder_count)

SettleMakes(caller, burn_target) ==
  LET split == compute_split(top_bid_amount, FEE_BPS) IN
  /\ holder' = IF flipped THEN top_bidder ELSE holder
  /\ is_on' = IF flipped THEN ~is_on ELSE is_on
  /\ holder_since' = IF flipped THEN now ELSE holder_since
  /\ holder_count' = IF flipped THEN holder_count + 1 ELSE holder_count
  /\ win_record' = IF flipped
                   THEN Put(win_record, holder_count,
                            WinRecord(top_bidder, holder_count + 1, top_bid_amount, now))
                   ELSE win_record
  /\ current_price' = top_bid_amount
  /\ escrowed_amount' = escrowed_amount - top_bid_amount
  /\ treasury_balance' = treasury_balance + split.fee
  /\ window_active' = FALSE /\ window_end_ts' = 0
  /\ top_bidder' = NoKey /\ top_bid_amount' = 0
  /\ total_challenges' = total_challenges + 1
  /\ lamports' = Pay(Debit(lamports, caller, IF flipped THEN RentWin ELSE 0),
                     Vault, burn_target, split.burn)
  /\ UNCHANGED <<standingVars, burn_address, refund, now>>

LEMMA SettleSplits ==
  ASSUME NEW c, NEW d
  PROVE  Settle(c, d) <=> SettleReady(c, d) /\ SettleMakes(c, d)
<1>1. CASE flipped
  BY <1>1, Zenon DEF Settle, SettleReady, SettleMakes, FlipHolder, RecordWin
<1>2. CASE ~flipped
  BY <1>2, Zenon DEF Settle, SettleReady, SettleMakes, FlipHolder, RecordWin
<1> QED
  BY <1>1, <1>2

\* Whatever fits the balance of an account fits the width of a balance.
LEMMA SettleIsReady ==
  ASSUME IInv, NEW k \in Keys, WindowElapsed, lamports[k] >= RentWin,
         FitsU64(lamports[Vault]), FitsU64(total_challenges + 1), FitsU64(holder_count + 1)
  PROVE  SettleReady(k, burn_address) <=> ~SettleStuck
<1> DEFINE split == compute_split(top_bid_amount, FEE_BPS)
<1>1. initialized /\ window_active
  BY DEF WindowElapsed, IInv, Dormant
<1>2. /\ top_bid_amount \in Nat /\ treasury_balance \in Nat
      /\ RentVault \in Nat /\ MAX_U64 \in Nat
      /\ escrowed_amount = top_bid_amount
      /\ lamports[Vault] = RentVault + escrowed_amount + treasury_balance
  BY <1>1 DEF IInv, TypeOK, VaultSolvent, EscrowIsTopBid
<1>3. /\ split.fee \in Nat /\ split.burn \in Nat /\ split.fee + split.burn = top_bid_amount
  BY <1>2, SplitIsExact
<1> HIDE DEF split
<1>4. /\ escrowed_amount >= top_bid_amount
      /\ FitsU64(treasury_balance + split.fee)
      /\ lamports[Vault] >= split.burn
  <2> DEFINE balance == lamports[Vault]
             fee == split.fee
             burn == split.burn
  <2>1. /\ fee \in Nat /\ burn \in Nat /\ fee + burn = top_bid_amount
        /\ balance = RentVault + top_bid_amount + treasury_balance
        /\ balance <= MAX_U64
    BY <1>2, <1>3 DEF FitsU64
  <2> HIDE DEF balance, fee, burn
  <2>2. /\ 0 <= treasury_balance + fee /\ treasury_balance + fee <= MAX_U64
        /\ balance >= burn
    BY <1>2, <2>1
  <2>3. escrowed_amount >= top_bid_amount
    BY <1>2
  <2>4. FitsU64(treasury_balance + fee)
    BY <2>2, Zenon DEF FitsU64
  <2> QED
    BY <2>2, <2>3, <2>4, Zenon DEF balance, fee, burn
<1>5. holder_count \notin DOMAIN win_record
  <2>1. holder_count \in Nat /\ DOMAIN win_record = 0 .. (holder_count - 1)
    BY DEF IInv, TypeOK, WinRecordsDense
  <2> QED
    BY <2>1
<1>6. (flipped => AddressFree(holder_count)) <=> ~SettleStuck
  BY <1>5 DEF AddressFree, SettleStuck
<1> QED
  BY <1>1, <1>4, <1>6 DEF SettleReady, split

-----------------------------------------------------------------------------
(* challenge() *)

\* What challenge asks of the state, and what it makes of it.
ChallengeReady(challenger, bid_amount, pending_refund) ==
  LET slot == InitIfNeeded(pending_refund)[pending_refund] IN
  /\ initialized
  /\ SlotOfTopBidder(pending_refund)
  /\ IF window_active
     THEN /\ now < window_end_ts
          /\ challenger # top_bidder
          /\ require_min_raise(top_bid_amount, bid_amount, DEFAULT_MIN_RAISE_BPS)
     ELSE /\ challenger # holder
          /\ require_min_raise(current_price, bid_amount, DEFAULT_MIN_RAISE_BPS)
  /\ FitsI64(compute_window_reset(DEFAULT_BASE_WINDOW_SECS, now))
  /\ IF top_bidder # NoKey
     THEN /\ pending_refund # Omitted
          /\ slot.bidder \in {NoKey, top_bidder}
          /\ FitsU64(slot.amount + top_bid_amount)
          /\ lamports[Vault] >= top_bid_amount
          /\ escrowed_amount >= top_bid_amount
     ELSE pending_refund = Omitted
  /\ lamports[challenger] >= InitRent(pending_refund) + bid_amount
  /\ FitsU64(escrowed_amount - Refunded + bid_amount)

ChallengeMakes(challenger, bid_amount, pending_refund) ==
  LET slot  == InitIfNeeded(pending_refund)[pending_refund]
      fresh == compute_window_reset(DEFAULT_BASE_WINDOW_SECS, now)
  IN
  /\ window_end_ts' = IF window_active /\ ~(fresh > window_end_ts) THEN window_end_ts ELSE fresh
  /\ refund' = IF top_bidder # NoKey
               THEN Put(refund, pending_refund, CreditRefund(slot, challenger))
               ELSE InitIfNeeded(pending_refund)
  /\ window_active' = TRUE
  /\ top_bidder' = challenger
  /\ top_bid_amount' = bid_amount
  /\ escrowed_amount' = escrowed_amount - Refunded + bid_amount
  /\ lamports' = Pay(Debit(Debit(lamports, challenger, InitRent(pending_refund)),
                           Vault, Refunded), challenger, Vault, bid_amount)
  /\ UNCHANGED <<holderVars, standingVars, burn_address, treasury_balance, now>>

LEMMA ChallengeSplits ==
  ASSUME NEW c, NEW b, NEW r
  PROVE  Challenge(c, b, r) <=> ChallengeReady(c, b, r) /\ ChallengeMakes(c, b, r)
<1>1. CASE window_active /\ top_bidder # NoKey
  BY <1>1, Zenon DEF Challenge, ChallengeReady, ChallengeMakes, ColdOpen, Outbid, RefundPrevious
<1>2. CASE window_active /\ top_bidder = NoKey
  BY <1>2, Zenon DEF Challenge, ChallengeReady, ChallengeMakes, ColdOpen, Outbid, RefundPrevious
<1>3. CASE ~window_active /\ top_bidder # NoKey
  BY <1>3, Zenon DEF Challenge, ChallengeReady, ChallengeMakes, ColdOpen, Outbid, RefundPrevious
<1>4. CASE ~window_active /\ top_bidder = NoKey
  BY <1>4, Zenon DEF Challenge, ChallengeReady, ChallengeMakes, ColdOpen, Outbid, RefundPrevious
<1> QED
  BY <1>1, <1>2, <1>3, <1>4

\* Lamports in the slot of a key, none while there is no slot.
Held(key) == IF key \in DOMAIN refund THEN refund[key].lamports ELSE 0

LEMMA OutbidIsReady ==
  ASSUME IInv, NEW k \in Bidders, k # top_bidder, NEW b \in BidAmounts,
         window_active, now < window_end_ts, FitsI64(now + DEFAULT_BASE_WINDOW_SECS),
         100 * b >= 105 * top_bid_amount, lamports[k] >= b + RentRefund,
         FitsU64(lamports[k]), FitsU64(lamports[Vault] + Held(top_bidder))
  PROVE  ChallengeReady(k, b, top_bidder)
<1> DEFINE slot == InitIfNeeded(top_bidder)[top_bidder]
<1>1. /\ initialized /\ top_bidder \in Keys /\ top_bidder # NoKey /\ top_bidder # Omitted
      /\ top_bid_amount \in Nat /\ treasury_balance \in Nat /\ RentVault \in Nat
      /\ RentRefund \in Nat /\ MAX_U64 \in Nat /\ b \in Nat /\ lamports[k] \in Nat
      /\ escrowed_amount = top_bid_amount
      /\ lamports[Vault] = RentVault + escrowed_amount + treasury_balance
  <2>1. initialized
    BY DEF IInv, Dormant
  <2>2. top_bidder \in Keys /\ top_bidder # NoKey /\ top_bidder # Omitted
    BY DEF IInv, TypeOK, EscrowIsTopBid, Accounts, KeysAssumption
  <2>3. k \in Accounts /\ lamports \in [Accounts -> Nat]
    BY DEF IInv, TypeOK, Accounts, KeysAssumption
  <2> QED
    BY <2>1, <2>2, <2>3 DEF IInv, TypeOK, EscrowIsTopBid, VaultSolvent, AmountsAssumption
<1>2. /\ slot.bidder \in {NoKey, top_bidder}
      /\ slot.amount \in Nat
      /\ slot.amount + top_bid_amount <= lamports[Vault] + Held(top_bidder)
      /\ InitRent(top_bidder) <= RentRefund /\ InitRent(top_bidder) \in Nat
      /\ Held(top_bidder) \in Nat
  <2>1. CASE top_bidder \in DOMAIN refund
    <3>1. slot = refund[top_bidder] /\ InitRent(top_bidder) = 0
      BY <2>1 DEF InitIfNeeded, NeedsInit, InitRent
    <3>2. /\ refund[top_bidder].bidder = top_bidder /\ refund[top_bidder].amount \in Nat
          /\ refund[top_bidder].lamports = RentRefund + refund[top_bidder].amount
      BY <2>1 DEF IInv, TypeOK, RefundSlot, RefundsBacked
    <3>3. Held(top_bidder) = RentRefund + refund[top_bidder].amount
      BY <2>1, <3>2 DEF Held
    <3> QED
      BY <1>1, <3>1, <3>2, <3>3
  <2>2. CASE top_bidder \notin DOMAIN refund
    <3>1. /\ slot = FreshRefund /\ InitRent(top_bidder) = RentRefund
          /\ Held(top_bidder) = 0
      BY <1>1, <2>2 DEF InitIfNeeded, NeedsInit, InitRent, Held, Put
    <3>2. slot.bidder = NoKey /\ slot.amount = 0
      BY <3>1 DEF FreshRefund
    <3> HIDE DEF slot
    <3> QED
      BY <1>1, <3>1, <3>2
  <2> QED
    BY <2>1, <2>2
<1> HIDE DEF slot
<1>3. /\ FitsU64(slot.amount + top_bid_amount)
      /\ lamports[Vault] >= top_bid_amount /\ escrowed_amount >= top_bid_amount
      /\ lamports[k] >= InitRent(top_bidder) + b
      /\ FitsU64(escrowed_amount - Refunded + b)
  BY <1>1, <1>2 DEF FitsU64, Refunded
<1>4. require_min_raise(top_bid_amount, b, DEFAULT_MIN_RAISE_BPS)
  BY <1>1 DEF require_min_raise, DEFAULT_MIN_RAISE_BPS
<1> QED
  BY <1>1, <1>2, <1>3, <1>4
  DEF ChallengeReady, SlotOfTopBidder, compute_window_reset, slot

\* Between two windows the holder is the only key that may not bid.
LEMMA ColdOpenIsReady ==
  ASSUME IInv, initialized, ~window_active, NEW k \in Bidders, k # holder, NEW b \in BidAmounts,
         FitsI64(now + DEFAULT_BASE_WINDOW_SECS), 100 * b >= 105 * current_price,
         lamports[k] >= b, FitsU64(lamports[k])
  PROVE  ChallengeReady(k, b, Omitted)
<1>1. /\ top_bidder = NoKey /\ escrowed_amount = 0 /\ current_price \in Nat /\ b \in Nat
      /\ MAX_U64 \in Nat
  BY DEF IInv, TypeOK, EscrowIsTopBid, AmountsAssumption
<1>2. lamports[k] \in Nat
  BY DEF IInv, TypeOK, Accounts, KeysAssumption
<1>3. /\ SlotOfTopBidder(Omitted) /\ InitRent(Omitted) = 0 /\ Refunded = 0
  BY <1>1 DEF SlotOfTopBidder, InitRent, NeedsInit, Refunded
<1>4. require_min_raise(current_price, b, DEFAULT_MIN_RAISE_BPS)
  BY <1>1 DEF require_min_raise, DEFAULT_MIN_RAISE_BPS
<1>5. /\ FitsU64(escrowed_amount - Refunded + b) /\ lamports[k] >= InitRent(Omitted) + b
  BY <1>1, <1>2, <1>3 DEF FitsU64
<1> QED
  BY <1>1, <1>3, <1>4, <1>5 DEF ChallengeReady, compute_window_reset

-----------------------------------------------------------------------------
(* claim_refund() and withdraw_treasury() *)

\* What they ask of the state, and what they make of it.
ClaimReady(claimant, key, rent_payer) ==
  /\ key \in DOMAIN refund
  /\ refund[key].bidder = key
  /\ refund[key].bidder = claimant
  /\ refund[key].rent_payer = rent_payer
  /\ refund[key].amount > 0
  /\ refund[key].lamports >= refund[key].amount

ClaimMakes(claimant, key, rent_payer) ==
  /\ lamports' = Credit(Credit(lamports, claimant, refund[key].amount),
                        rent_payer, refund[key].lamports - refund[key].amount)
  /\ refund' = Close(refund, key)
  /\ UNCHANGED <<holderVars, standingVars, burn_address, windowVars,
                 escrowed_amount, treasury_balance, now>>

LEMMA ClaimSplits ==
  ASSUME NEW c, NEW k, NEW p
  PROVE  ClaimRefund(c, k, p) <=> ClaimReady(c, k, p) /\ ClaimMakes(c, k, p)
  BY Zenon DEF ClaimRefund, ClaimReady, ClaimMakes

LEMMA ClaimIsReady ==
  ASSUME IInv, NEW k \in DOMAIN refund
  PROVE  /\ k \in Keys /\ refund[k].rent_payer \in Keys
         /\ ClaimReady(k, k, refund[k].rent_payer)
<1>1. /\ k \in Keys /\ refund[k].bidder = k /\ refund[k].amount > 0
      /\ refund[k].lamports = RentRefund + refund[k].amount
      /\ refund[k].amount \in Nat /\ refund[k].rent_payer \in Keys /\ RentRefund \in Nat
  BY DEF IInv, TypeOK, RefundSlot, RefundsBacked, AmountsAssumption
<1>2. refund[k].lamports >= refund[k].amount
  BY <1>1
<1> QED
  BY <1>1, <1>2 DEF ClaimReady

WithdrawReady(signer, destination) ==
  /\ initialized
  /\ signer = admin
  /\ destination = treasury
  /\ treasury_balance > 0
  /\ lamports[Vault] >= treasury_balance

WithdrawMakes(signer, destination) ==
  /\ treasury_balance' = 0
  /\ lamports' = Pay(lamports, Vault, destination, treasury_balance)
  /\ UNCHANGED <<holderVars, standingVars, burn_address, windowVars,
                 escrowed_amount, refund, now>>

LEMMA WithdrawSplits ==
  ASSUME NEW s, NEW d
  PROVE  WithdrawTreasury(s, d) <=> WithdrawReady(s, d) /\ WithdrawMakes(s, d)
  BY Zenon DEF WithdrawTreasury, WithdrawReady, WithdrawMakes

LEMMA WithdrawIsReady ==
  ASSUME IInv, initialized, treasury_balance > 0
  PROVE  WithdrawReady(admin, treasury)
  BY DEF IInv, TypeOK, VaultSolvent, WithdrawReady, AmountsAssumption

-----------------------------------------------------------------------------
(* The theorems *)

\* A closed window can be settled by whoever can pay the rent of a win record,
\* as long as the vault's balance and the two counters have room in u64, unless
\* lamports lie at the address of its record; and then by nobody.
SettleWaitsForItsRecord ==
  \A k \in Keys :
    /\ WindowElapsed /\ lamports[k] >= RentWin
    /\ FitsU64(lamports[Vault]) /\ FitsU64(total_challenges + 1) /\ FitsU64(holder_count + 1)
    => (SettleReady(k, burn_address) <=> ~SettleStuck)

\* In an open window any key but the standing bidder can outbid him, and between
\* two windows any key but the holder can open one, with enough lamports: no
\* refund claimed or piled up, no fee drawn or left stands in the way.
BidsWaitForNobody ==
  /\ \A k \in Bidders \ {top_bidder}, b \in BidAmounts :
       /\ window_active /\ now < window_end_ts
       /\ FitsI64(now + DEFAULT_BASE_WINDOW_SECS)
       /\ 100 * b >= 105 * top_bid_amount
       /\ lamports[k] >= b + RentRefund
       /\ FitsU64(lamports[k]) /\ FitsU64(lamports[Vault] + Held(top_bidder))
       => ChallengeReady(k, b, top_bidder)
  /\ \A k \in Bidders \ {holder}, b \in BidAmounts :
       /\ initialized /\ ~window_active
       /\ FitsI64(now + DEFAULT_BASE_WINDOW_SECS)
       /\ 100 * b >= 105 * current_price
       /\ lamports[k] >= b /\ FitsU64(lamports[k])
       => ChallengeReady(k, b, Omitted)

\* Whoever is owed a refund can claim it, and the admin can draw the fees there
\* are, at any time and whatever the auction is doing.
ClaimsWaitForNobody ==
  /\ \A k \in DOMAIN refund : \E p \in Keys : ClaimReady(k, k, p)
  /\ initialized /\ treasury_balance > 0 => WithdrawReady(admin, treasury)

\* Proved of the invariant, so that a composition that keeps it has them too.
LEMMA WhatIsWaitedFor == IInv => SettleWaitsForItsRecord /\ BidsWaitForNobody /\ ClaimsWaitForNobody
<1> SUFFICES ASSUME IInv
             PROVE  SettleWaitsForItsRecord /\ BidsWaitForNobody /\ ClaimsWaitForNobody
  OBVIOUS
<1>1. SettleWaitsForItsRecord
  BY SettleIsReady DEF SettleWaitsForItsRecord
<1>2. BidsWaitForNobody
  BY OutbidIsReady, ColdOpenIsReady DEF BidsWaitForNobody
<1>3. ClaimsWaitForNobody
  BY ClaimIsReady, WithdrawIsReady DEF ClaimsWaitForNobody
<1> QED
  BY <1>1, <1>2, <1>3

\* No history of the auction makes a guard of settle fail on an elapsed window,
\* but for lamports sent to the address of the record: the vault holds the burn leg
\* and the next ordinal is unused (SettleNeverBlocked).
THEOREM OnlyItsRecordBlocksSettle == Spec => []SettleWaitsForItsRecord
  BY WhatIsWaitedFor, Invariance, PTL

\* No history makes a guard of challenge fail on a high enough bid of somebody
\* else in time: not the refund slot of the outbid key, nor the money refunded to it
\* (OutbidNeverBlocked).
THEOREM BidsAreNeverBlocked == Spec => []BidsWaitForNobody
  BY WhatIsWaitedFor, Invariance, PTL

\* No history makes a guard of claim_refund or withdraw_treasury fail on money that
\* is owed (ClaimNeverBlocked).
THEOREM ClaimsAreNeverBlocked == Spec => []ClaimsWaitForNobody
  BY WhatIsWaitedFor, Invariance, PTL

-----------------------------------------------------------------------------
(* Steps, for the compositions *)

RaiseStep ==
  initialized /\ current_price' # current_price => 100 * current_price' >= 105 * current_price

DeadlineStep ==
  window_active => IF window_active' THEN window_end_ts' >= window_end_ts
                                     ELSE now >= window_end_ts

AnswerStep ==
  top_bid_amount' > top_bid_amount => window_end_ts' >= now + DEFAULT_BASE_WINDOW_SECS

\* A step of the auction moves price and deadline as it should.
LEMMA AuctionSteps ==
  ASSUME IInv, [Next]_vars
  PROVE  [RaiseStep]_vars /\ [DeadlineStep]_vars /\ [AnswerStep]_vars
<1> SUFFICES ASSUME Next PROVE RaiseStep /\ DeadlineStep /\ AnswerStep
  OBVIOUS
<1>1. AnswerStep
  BY BidStep DEF AnswerStep
<1>2. CASE initialized
  <2>1. RaiseStep /\ DeadlineStep
    BY <1>2, StepEffects DEF RaiseStep, DeadlineStep, IInv, TopBidClearsRaise
  <2> QED
    BY <2>1, <1>1
<1>3. CASE ~initialized
  <2>1. RaiseStep /\ DeadlineStep
    BY <1>3 DEF RaiseStep, DeadlineStep, IInv, Dormant
  <2> QED
    BY <2>1, <1>1
<1> QED
  BY <1>2, <1>3

\* So does a step that leaves them alone.
LEMMA QuietSteps ==
  ASSUME IInv, UNCHANGED <<current_price, window_active, window_end_ts, top_bid_amount>>
  PROVE  [RaiseStep]_vars /\ [DeadlineStep]_vars /\ [AnswerStep]_vars
<1>1. window_end_ts \in Nat /\ top_bid_amount \in Nat
  BY DEF IInv, TypeOK
<1> QED
  BY <1>1 DEF RaiseStep, DeadlineStep, AnswerStep

-----------------------------------------------------------------------------
(* What waits for its caller stays *)

\* An elapsed window is decided: it stays as it is until it settles, and then
\* its top bidder holds the toggle at its bid, on record if he did not before.
ElapsedIsDecided ==
  WindowElapsed =>
    \/ UNCHANGED windowVars /\ WindowElapsed'
    \/ /\ ~window_active' /\ holder' = top_bidder /\ current_price' = top_bid_amount
       /\ top_bidder # holder => win_record'[holder_count].winner = top_bidder

\* A refund slot only grows, and keeps the payer of its rent, until its bidder
\* claims it: he gets all of it and the payer all of the rent.
RefundStands ==
  \A k \in DOMAIN refund :
    IF k \in DOMAIN refund'
    THEN /\ refund'[k].amount >= refund[k].amount
         /\ refund'[k].rent_payer = refund[k].rent_payer
    ELSE /\ lamports'[k] = lamports[k] + refund[k].amount
         /\ lamports'[refund[k].rent_payer] = lamports[refund[k].rent_payer] + RentRefund

\* However late settle is called, and by whom, the outcome of the window is the one
\* of its deadline: the crank's schedule cannot change a winner (settle.rs,
\* challenge.rs WindowExpired; half of WindowSettles).
THEOREM OutcomeWaitsForSettle ==
  ASSUME MaxSkew = 0
  PROVE  Spec => [][ElapsedIsDecided]_vars
<1>1. IInv /\ [Next]_vars => [ElapsedIsDecided]_vars
  <2> SUFFICES ASSUME IInv, Next, WindowElapsed PROVE ElapsedIsDecided
    BY DEF ElapsedIsDecided
  <2>1. window_active /\ initialized /\ window_end_ts \in Nat /\ now \in Nat
    BY DEF WindowElapsed, IInv, TypeOK, Dormant, AmountsAssumption
  <2>2. now >= window_end_ts
    BY DEF WindowElapsed
  <2>3. ASSUME UNCHANGED windowVars, now' = now \/ (now' \in Nat /\ now' >= now)
        PROVE  ElapsedIsDecided
    BY <2>1, <2>2, <2>3 DEF ElapsedIsDecided, WindowElapsed, windowVars
  <2>4. ~ \E p \in Keys, t \in Treasuries, a \in Admins, g \in GenesisPrices :
            Initialize(p, t, a, g)
    BY <2>1 DEF Initialize
  <2>5. ~ \E c \in Bidders, b \in BidAmounts, r \in Keys \cup {NoKey, Omitted} :
            Challenge(c, b, r)
    <3>1. ~(now < window_end_ts)
      BY <2>1, <2>2
    <3> QED
      BY <2>1, <3>1 DEF Challenge, ColdOpen, Outbid
  <2>6. ASSUME NEW c \in Keys, NEW d \in Accounts, Settle(c, d)
        PROVE  ElapsedIsDecided
    <3>1. ~window_active' /\ current_price' = top_bid_amount
      BY <2>6 DEF Settle
    <3>2. CASE ~flipped
      <4>1. holder' = holder /\ top_bidder = holder
        BY <2>6, <3>2, Zenon DEF Settle, FlipHolder, flipped
      <4> QED
        BY <3>1, <4>1 DEF ElapsedIsDecided
    <3>3. CASE flipped
      <4>1. /\ holder' = top_bidder
            /\ win_record' = Put(win_record, holder_count,
                                 WinRecord(top_bidder, holder_count + 1, top_bid_amount, now))
        BY <2>6, <3>3, Zenon DEF Settle, FlipHolder, RecordWin
      <4>2. win_record'[holder_count].winner = top_bidder
        BY <4>1 DEF Put, WinRecord
      <4> QED
        BY <3>1, <4>1, <4>2 DEF ElapsedIsDecided
    <3> QED
      BY <3>2, <3>3
  <2>7. CASE \E c, k, p \in Keys : ClaimRefund(c, k, p)
    BY <2>3, <2>7 DEF ClaimRefund
  <2>8. CASE \E s, d \in Keys : WithdrawTreasury(s, d)
    BY <2>3, <2>8 DEF WithdrawTreasury
  <2>9. ASSUME NEW t \in Instants, Tick(t) PROVE ElapsedIsDecided
    <3>1. now' = t /\ t \in Nat /\ t >= now /\ UNCHANGED windowVars
      BY <2>1, <2>9 DEF Tick, AmountsAssumption
    <3> QED
      BY <2>3, <3>1
  <2>10. CASE \E k \in Keys, n \in StrayOrdinals : SendLamports(k, n)
    BY <2>3, <2>10 DEF SendLamports
  <2> QED
    BY <2>4, <2>5, <2>6, <2>7, <2>8, <2>9, <2>10 DEF Next, Instruction, Stray
<1> QED
  BY <1>1, Invariance, PTL DEF Spec

\* A window whose record cannot be made for lamports at its address stays that way
\* on a forward clock: nothing takes them out, settle fails for every caller, and
\* challenge is refused after the deadline (settle.rs, create_account; the case that
\* WindowSettles and SettleNeverBlocked leave out).
THEOREM StuckForGood ==
  ASSUME MaxSkew = 0
  PROVE  Spec => [][SettleStuck => SettleStuck']_vars
<1>1. IInv /\ [Next]_vars => [SettleStuck => SettleStuck']_vars
  <2> SUFFICES ASSUME IInv, Next, SettleStuck PROVE SettleStuck'
    OBVIOUS
  <2>1. /\ window_active /\ initialized /\ window_end_ts \in Nat /\ now \in Nat
        /\ now >= window_end_ts /\ flipped /\ holder_count \in prefunded
    BY DEF SettleStuck, WindowElapsed, IInv, TypeOK, Dormant, AmountsAssumption
  <2>2. ASSUME UNCHANGED <<windowVars, holder, holder_count>>,
               prefunded \subseteq prefunded', now' \in Nat, now' >= now
        PROVE  SettleStuck'
    BY <2>1, <2>2 DEF SettleStuck, WindowElapsed, flipped, windowVars
  <2>3. ASSUME UNCHANGED <<windowVars, holder, holder_count, prefunded, now>>
        PROVE  SettleStuck'
    BY <2>1, <2>2, <2>3
  <2>4. ~ \E p \in Keys, t \in Treasuries, a \in Admins, g \in GenesisPrices :
            Initialize(p, t, a, g)
    BY <2>1 DEF Initialize
  <2>5. ~ \E c \in Bidders, b \in BidAmounts, r \in Keys \cup {NoKey, Omitted} :
            Challenge(c, b, r)
    <3>1. ~(now < window_end_ts)
      BY <2>1
    <3> QED
      BY <2>1, <3>1 DEF Challenge, ColdOpen, Outbid
  <2>6. ~ \E c \in Keys, d \in Accounts : Settle(c, d)
    BY <2>1, SettleSplits, Zenon DEF SettleReady, AddressFree
  <2>7. CASE \E c, k, p \in Keys : ClaimRefund(c, k, p)
    BY <2>3, <2>7 DEF ClaimRefund, holderVars, standingVars
  <2>8. CASE \E s, d \in Keys : WithdrawTreasury(s, d)
    BY <2>3, <2>8 DEF WithdrawTreasury, holderVars, standingVars
  <2>9. ASSUME NEW t \in Instants, Tick(t) PROVE SettleStuck'
    <3>1. now' = t /\ t \in Nat /\ t >= now
      BY <2>1, <2>9 DEF Tick, AmountsAssumption
    <3> QED
      BY <2>2, <2>9, <3>1 DEF Tick, holderVars, standingVars
  <2>10. CASE \E k \in Keys, n \in StrayOrdinals : SendLamports(k, n)
    <3>1. /\ UNCHANGED <<windowVars, holder, holder_count, now>>
          /\ prefunded \subseteq prefunded'
      BY <2>10 DEF SendLamports, holderVars
    <3> QED
      BY <2>1, <2>2, <3>1
  <2> QED
    BY <2>4, <2>5, <2>6, <2>7, <2>8, <2>9, <2>10 DEF Next, Instruction, Stray
<1> QED
  BY <1>1, Invariance, PTL DEF Spec

\* Nobody but its bidder takes a refund, no later outbid overwrites it or the payer
\* of its rent, and one claim pays both in full (challenge.rs, claim_refund.rs; half
\* of RefundsPaid).
THEOREM RefundsWaitForTheirBidder == Spec => [][RefundStands]_vars
<1>1. IInv /\ [Next]_vars => [RefundStands]_vars
  <2> SUFFICES ASSUME IInv, Next, NEW k \in DOMAIN refund
               PROVE  IF k \in DOMAIN refund'
                      THEN /\ refund'[k].amount >= refund[k].amount
                           /\ refund'[k].rent_payer = refund[k].rent_payer
                      ELSE /\ lamports'[k] = lamports[k] + refund[k].amount
                           /\ lamports'[refund[k].rent_payer]
                                = lamports[refund[k].rent_payer] + RentRefund
    BY DEF RefundStands
  <2> DEFINE Goal ==
        IF k \in DOMAIN refund'
        THEN /\ refund'[k].amount >= refund[k].amount
             /\ refund'[k].rent_payer = refund[k].rent_payer
        ELSE /\ lamports'[k] = lamports[k] + refund[k].amount
             /\ lamports'[refund[k].rent_payer] = lamports[refund[k].rent_payer] + RentRefund
  <2>1. /\ k \in Keys /\ refund[k].amount \in Nat /\ refund[k].lamports \in Nat
        /\ refund[k].bidder = k /\ refund[k].rent_payer \in Keys \ {k}
        /\ refund[k].lamports = RentRefund + refund[k].amount /\ RentRefund \in Nat
        /\ top_bid_amount \in Nat /\ lamports \in [Accounts -> Nat]
    BY DEF IInv, TypeOK, RefundSlot, RefundsBacked, AmountsAssumption
  <2>2. ASSUME k \in DOMAIN refund', refund'[k] = refund[k] PROVE Goal
    BY <2>1, <2>2
  <2>3. ASSUME NEW c \in Bidders, NEW b \in BidAmounts, NEW r \in Keys \cup {NoKey, Omitted},
               Challenge(c, b, r)
        PROVE  Goal
    <3>1. CASE top_bidder = NoKey
      <4>1. r = Omitted /\ refund' = InitIfNeeded(r)
        BY <2>3, <3>1 DEF Challenge, RefundPrevious
      <4>2. refund' = refund
        BY <4>1 DEF InitIfNeeded, NeedsInit
      <4> QED
        BY <2>2, <4>2
    <3>2. CASE top_bidder # NoKey
      <4> DEFINE slot == InitIfNeeded(r)[r]
      <4>1. /\ r = top_bidder /\ r # Omitted
            /\ refund' = Put(refund, r, CreditRefund(slot, c))
        BY <2>3, <3>2 DEF Challenge, RefundPrevious, SlotOfTopBidder
      <4>2. CASE k # r
        BY <2>2, <4>1, <4>2 DEF Put
      <4>3. CASE k = r
        <5>1. slot = refund[k] /\ refund[k].bidder # NoKey
          <6>1. ~NeedsInit(r)
            BY <4>3 DEF NeedsInit
          <6>2. slot = refund[k]
            BY <4>3, <6>1 DEF InitIfNeeded
          <6>3. NoKey \notin Keys
            BY DEF KeysAssumption, Accounts
          <6> QED
            BY <2>1, <6>2, <6>3
        <5>2. k \in DOMAIN refund' /\ refund'[k] = CreditRefund(refund[k], c)
          BY <4>1, <4>3, <5>1 DEF Put
        <5>3. /\ refund'[k].amount = refund[k].amount + top_bid_amount
              /\ refund'[k].rent_payer = refund[k].rent_payer
          BY <5>1, <5>2 DEF CreditRefund
        <5> QED
          BY <2>1, <5>2, <5>3
      <4> QED
        BY <4>2, <4>3
    <3> QED
      BY <3>1, <3>2
  <2>4. ASSUME NEW c \in Keys, NEW j \in Keys, NEW p \in Keys, ClaimRefund(c, j, p)
        PROVE  Goal
    <3>1. /\ refund' = Close(refund, j) /\ j \in DOMAIN refund
          /\ c = refund[j].bidder /\ p = refund[j].rent_payer
          /\ lamports' = Credit(Credit(lamports, c, refund[j].amount), p,
                                refund[j].lamports - refund[j].amount)
      BY <2>4 DEF ClaimRefund
    <3>2. CASE k # j
      BY <2>2, <3>1, <3>2 DEF Close
    <3>3. CASE k = j
      <4>1. k \notin DOMAIN refund'
        BY <3>1, <3>3 DEF Close
      <4> DEFINE amount == refund[k].amount
                 paid == Credit(lamports, k, amount)
      <4>2. /\ k \in Accounts /\ p \in Accounts /\ p # k /\ p = refund[k].rent_payer
            /\ amount \in Nat /\ refund[k].lamports - amount = RentRefund
        BY <2>1, <3>1, <3>3 DEF Accounts
      <4>3. lamports' = Credit(paid, p, RentRefund)
        BY <2>1, <3>1, <3>3, <4>2
      <4>4. DOMAIN paid = Accounts /\ paid[k] = lamports[k] + amount /\ paid[p] = lamports[p]
        BY <2>1, <4>2 DEF Credit
      <4> HIDE DEF paid
      <4>5. lamports'[k] = paid[k] /\ lamports'[p] = paid[p] + RentRefund
        BY <4>2, <4>3, <4>4 DEF Credit
      <4> QED
        BY <4>1, <4>2, <4>4, <4>5
    <3> QED
      BY <3>2, <3>3
  <2>5. CASE UNCHANGED refund
    BY <2>2, <2>5
  <2>6. CASE \E p \in Keys, t \in Treasuries, a \in Admins, g \in GenesisPrices :
               Initialize(p, t, a, g)
    BY <2>5, <2>6 DEF Initialize
  <2>7. CASE \E c \in Keys, d \in Accounts : Settle(c, d)
    BY <2>5, <2>7 DEF Settle
  <2>8. CASE \E s, d \in Keys : WithdrawTreasury(s, d)
    BY <2>5, <2>8 DEF WithdrawTreasury
  <2>9. CASE \E t \in Instants : Tick(t)
    BY <2>5, <2>9 DEF Tick, moneyVars
  <2>10. CASE \E j \in Keys, n \in StrayOrdinals : SendLamports(j, n)
    BY <2>5, <2>10 DEF SendLamports
  <2> QED
    BY <2>3, <2>4, <2>6, <2>7, <2>8, <2>9, <2>10 DEF Next, Instruction, Stray
<1> QED
  BY <1>1, Invariance, PTL DEF Spec
=============================================================================
