-------------------------- MODULE ToggleLedgerProofs --------------------------
(* The auction implements the entitlement ledger, for every instance.          *)
EXTENDS ToggleLedger, ToggleProofs, FiniteSetTheorems

\* Only finitely many refund slots exist at a time, whatever the number of keys.
FiniteSlots == IsFiniteSet(DOMAIN refund)

LInv == IInv /\ FiniteSlots

USE KeysAssumption, AmountsAssumption

-----------------------------------------------------------------------------
(* Rent advanced for other bidders' slots *)

LEMMA TimesPlusOne ==
  ASSUME NEW r \in Nat, NEW n \in Nat
  PROVE  r * n \in Nat /\ r * (n + 1) = r * n + r
  OBVIOUS

LEMMA SlotsFundedFinite ==
  ASSUME LInv, NEW k
  PROVE  /\ IsFiniteSet(SlotsFunded(k)) /\ Cardinality(SlotsFunded(k)) \in Nat
         /\ RentOwed(k) \in Nat
<1>1. IsFiniteSet(SlotsFunded(k))
  BY FS_Subset DEF LInv, FiniteSlots, SlotsFunded
<1>2. Cardinality(SlotsFunded(k)) \in Nat
  BY <1>1, FS_CardinalityType
<1>3. RentRefund \in Nat
  BY DEF AmountsAssumption
<1>4. RentRefund * Cardinality(SlotsFunded(k)) \in Nat
  BY <1>2, <1>3, TimesPlusOne, Zenon
<1> QED
  BY <1>1, <1>2, <1>4 DEF RentOwed

\* Nothing owed changes in the slots' rent while their payers stay.
LEMMA SamePayersSameRent ==
  ASSUME DOMAIN refund' = DOMAIN refund,
         \A x \in DOMAIN refund : refund'[x].rent_payer = refund[x].rent_payer,
         NEW k
  PROVE  RentOwed(k)' = RentOwed(k)
<1>1. SlotsFunded(k)' = SlotsFunded(k)
  BY DEF SlotsFunded
<1> QED
  BY <1>1 DEF RentOwed

\* A new slot is owed to its payer, and to nobody else.
LEMMA NewSlotRent ==
  ASSUME LInv, NEW r, r \notin DOMAIN refund, NEW p,
         DOMAIN refund' = DOMAIN refund \cup {r}, refund'[r].rent_payer = p,
         \A x \in DOMAIN refund : refund'[x].rent_payer = refund[x].rent_payer,
         NEW k
  PROVE  RentOwed(k)' = RentOwed(k) + (IF k = p THEN RentRefund ELSE 0)
<1>1. CASE k = p
  <2>1. SlotsFunded(k)' = SlotsFunded(k) \cup {r} /\ r \notin SlotsFunded(k)
    BY <1>1 DEF SlotsFunded
  <2>2. Cardinality(SlotsFunded(k)') = Cardinality(SlotsFunded(k)) + 1
    BY <2>1, SlotsFundedFinite, FS_AddElement
  <2>3. Cardinality(SlotsFunded(k)) \in Nat /\ RentRefund \in Nat
    BY SlotsFundedFinite DEF AmountsAssumption
  <2>4. RentRefund * (Cardinality(SlotsFunded(k)) + 1)
          = RentRefund * Cardinality(SlotsFunded(k)) + RentRefund
    BY <2>3, TimesPlusOne, Zenon
  <2> QED
    BY <1>1, <2>2, <2>4 DEF RentOwed
<1>2. CASE k # p
  <2>1. SlotsFunded(k)' = SlotsFunded(k)
    BY <1>2 DEF SlotsFunded
  <2> QED
    BY <1>2, <2>1, SlotsFundedFinite DEF RentOwed
<1> QED
  BY <1>1, <1>2

\* A closed slot is owed no longer to its payer.
LEMMA ClosedSlotRent ==
  ASSUME LInv, NEW r \in DOMAIN refund, DOMAIN refund' = DOMAIN refund \ {r},
         \A x \in DOMAIN refund' : refund'[x] = refund[x],
         NEW k
  PROVE  /\ RentOwed(k)' \in Nat
         /\ RentOwed(k) = RentOwed(k)' + (IF k = refund[r].rent_payer THEN RentRefund ELSE 0)
<1>1. CASE k = refund[r].rent_payer
  <2>1. SlotsFunded(k)' = SlotsFunded(k) \ {r} /\ r \in SlotsFunded(k)
    BY <1>1 DEF SlotsFunded
  <2>2. Cardinality(SlotsFunded(k)') = Cardinality(SlotsFunded(k)) - 1
    <3>1. Cardinality(SlotsFunded(k) \ {r}) = Cardinality(SlotsFunded(k)) - 1
      BY <2>1, SlotsFundedFinite, FS_RemoveElement, Zenon
    <3> QED
      BY <2>1, <3>1
  <2>3. IsFiniteSet(SlotsFunded(k)')
    BY <2>1, SlotsFundedFinite, FS_RemoveElement
  <2>4. Cardinality(SlotsFunded(k)') \in Nat /\ Cardinality(SlotsFunded(k)) \in Nat
    BY <2>3, SlotsFundedFinite, FS_CardinalityType
  <2>5. RentRefund \in Nat
    BY DEF AmountsAssumption
  <2> DEFINE n == Cardinality(SlotsFunded(k)')
  <2>6. Cardinality(SlotsFunded(k)) = n + 1
    BY <2>2, <2>4
  <2>7. RentRefund * n \in Nat /\ RentRefund * (n + 1) = RentRefund * n + RentRefund
    BY <2>4, <2>5, TimesPlusOne, Zenon
  <2> QED
    BY <1>1, <2>6, <2>7 DEF RentOwed
<1>2. CASE k # refund[r].rent_payer
  <2>1. SlotsFunded(k)' = SlotsFunded(k)
    BY <1>2 DEF SlotsFunded
  <2> QED
    BY <1>2, <2>1, SlotsFundedFinite DEF RentOwed
<1> QED
  BY <1>1, <1>2

-----------------------------------------------------------------------------
(* Every step keeps the slots finitely many *)

LEMMA SlotsStayFinite == LInv /\ [Next]_vars => FiniteSlots'
<1> SUFFICES ASSUME LInv, [Next]_vars PROVE IsFiniteSet(DOMAIN refund')
  BY DEF FiniteSlots
<1>0. IsFiniteSet(DOMAIN refund)
  BY DEF LInv, FiniteSlots
<1>1. CASE refund' = refund
  BY <1>0, <1>1
<1>2. ASSUME NEW c \in Bidders, NEW b \in BidAmounts,
             NEW r \in Keys \cup {NoKey, Omitted}, Challenge(c, b, r)
      PROVE  IsFiniteSet(DOMAIN refund')
  <2>1. refund' = refund \/ DOMAIN refund' = DOMAIN refund \cup {r}
    BY <1>2 DEF Challenge, RefundPrevious, InitIfNeeded, NeedsInit, Put
  <2> QED
    BY <1>0, <1>1, <2>1, FS_AddElement
<1>3. ASSUME NEW c \in Keys, NEW k \in Keys, NEW p \in Keys, ClaimRefund(c, k, p)
      PROVE  IsFiniteSet(DOMAIN refund')
  <2>1. DOMAIN refund' = DOMAIN refund \ {k}
    BY <1>3 DEF ClaimRefund, Close
  <2> QED
    BY <1>0, <2>1, FS_RemoveElement
<1>4. ASSUME NEW p \in Keys, NEW t \in Treasuries, NEW a \in Admins, NEW g \in GenesisPrices,
             Initialize(p, t, a, g)
      PROVE  refund' = refund
  BY <1>4 DEF Initialize
<1>5. ASSUME NEW c \in Keys, NEW d \in Accounts, Settle(c, d)
      PROVE  refund' = refund
  BY <1>5 DEF Settle
<1>6. ASSUME NEW s \in Keys, NEW d \in Keys, WithdrawTreasury(s, d)
      PROVE  refund' = refund
  BY <1>6 DEF WithdrawTreasury
<1>7. ASSUME NEW t \in Instants, Tick(t)
      PROVE  refund' = refund
  BY <1>7 DEF Tick, moneyVars
<1>8. CASE UNCHANGED vars
  BY <1>1, <1>8 DEF vars, moneyVars
<1>9. ASSUME NEW k \in Keys, NEW n \in StrayOrdinals, SendLamports(k, n)
      PROVE  refund' = refund
  BY <1>9 DEF SendLamports
<1> QED
  BY <1>1, <1>2, <1>3, <1>4, <1>5, <1>6, <1>7, <1>8, <1>9, Zenon DEF Next, Instruction, Stray

\* The slots stay finitely many, so the rent a key has advanced is a number.
THEOREM SlotsAreFinite == Spec => []LInv
<1>1. Init => LInv
  <2>1. Init => FiniteSlots
    BY FS_EmptySet DEF Init, FiniteSlots
  <2> QED
    BY <2>1, InitIInv DEF LInv
<1>2. LInv /\ [Next]_vars => LInv'
  BY NextIInv, SlotsStayFinite DEF LInv
<1> QED
  BY <1>1, <1>2, PTL DEF Spec

-----------------------------------------------------------------------------
(* A key's entitlement *)

LEMMA EntitlementParts ==
  ASSUME LInv, NEW k \in Keys
  PROVE  /\ lamports[k] \in Nat /\ RefundOwed(k) \in Nat /\ StandingBid(k) \in Nat
         /\ FeesOwed(k) \in Nat /\ RentOwed(k) \in Nat /\ Entitlement(k) \in Nat
<1>1. lamports[k] \in Nat /\ StandingBid(k) \in Nat /\ FeesOwed(k) \in Nat
  BY DEF LInv, IInv, TypeOK, Accounts, StandingBid, FeesOwed
<1>2. RefundOwed(k) \in Nat
  BY DEF LInv, IInv, TypeOK, RefundSlot, RefundOwed
<1>3. RentOwed(k) \in Nat
  BY SlotsFundedFinite
<1> QED
  BY <1>1, <1>2, <1>3 DEF Entitlement

LEMMA TickWealth ==
  ASSUME NEW t \in Instants, Tick(t), NEW k \in Keys
  PROVE  Entitlement(k)' = Entitlement(k)
  BY DEF Tick, Entitlement, RefundOwed, StandingBid, FeesOwed, RentOwed, SlotsFunded,
     moneyVars, windowVars, standingVars

\* Who sends lamports to an address gives up that much of his own.
LEMMA StrayWealth ==
  ASSUME LInv, NEW s \in Keys, NEW n \in StrayOrdinals, SendLamports(s, n), NEW k \in Keys
  PROVE  Entitlement(k)' = Entitlement(k) - (IF k = s THEN RentVault ELSE 0)
<1>1. /\ RefundOwed(k)' = RefundOwed(k) /\ StandingBid(k)' = StandingBid(k)
      /\ FeesOwed(k)' = FeesOwed(k) /\ RentOwed(k)' = RentOwed(k)
  BY DEF SendLamports, RefundOwed, StandingBid, FeesOwed, RentOwed, SlotsFunded, windowVars
<1>2. lamports'[k] = lamports[k] - (IF k = s THEN RentVault ELSE 0)
  <2>1. k \in Accounts /\ lamports \in [Accounts -> Nat]
    BY DEF LInv, IInv, TypeOK, Accounts
  <2>2. lamports[k] \in Nat
    BY <2>1
  <2> QED
    BY <2>1, <2>2, StrayEffect
<1>3. RentVault \in Nat
  BY DEF AmountsAssumption
<1> QED
  BY <1>1, <1>2, <1>3, EntitlementParts DEF Entitlement

LEMMA WithdrawTreasuryWealth ==
  ASSUME LInv, NEW s \in Keys, NEW d \in Keys, WithdrawTreasury(s, d), NEW k \in Keys
  PROVE  Entitlement(k)' = Entitlement(k)
<1>1. /\ RefundOwed(k)' = RefundOwed(k) /\ StandingBid(k)' = StandingBid(k)
      /\ RentOwed(k)' = RentOwed(k)
  BY DEF WithdrawTreasury, RefundOwed, StandingBid, RentOwed, SlotsFunded, windowVars
<1>2. /\ lamports \in [Accounts -> Int] /\ treasury_balance \in Nat /\ d = treasury
      /\ k \in Accounts /\ d \in Accounts /\ Vault \in Accounts /\ Vault \notin {k, d}
  BY DEF LInv, IInv, TypeOK, Accounts, WithdrawTreasury, KeysAssumption
<1>3. lamports'[k] = lamports[k] + (IF k = treasury THEN treasury_balance ELSE 0)
  BY <1>2 DEF WithdrawTreasury, Pay, Debit, Credit
<1>4. FeesOwed(k)' = 0 /\ FeesOwed(k) = IF k = treasury THEN treasury_balance ELSE 0
  BY DEF FeesOwed, WithdrawTreasury, standingVars
<1> QED
  BY <1>1, <1>2, <1>3, <1>4, EntitlementParts DEF Entitlement

LEMMA ClaimRefundWealth ==
  ASSUME LInv, NEW c \in Keys, NEW r \in Keys, NEW p \in Keys, ClaimRefund(c, r, p),
         NEW k \in Keys
  PROVE  Entitlement(k)' = Entitlement(k)
<1> DEFINE owed == refund[r].amount
           paid == Credit(lamports, c, owed)
<1>1. StandingBid(k)' = StandingBid(k) /\ FeesOwed(k)' = FeesOwed(k)
  BY DEF ClaimRefund, StandingBid, FeesOwed, windowVars, standingVars
<1>2. /\ r \in DOMAIN refund /\ c = r /\ refund[r].rent_payer = p
      /\ lamports' = Credit(paid, p, refund[r].lamports - owed)
  BY DEF ClaimRefund
<1>3. /\ DOMAIN refund' = DOMAIN refund \ {r}
      /\ \A x \in DOMAIN refund' : refund'[x] = refund[x]
  BY DEF ClaimRefund, Close
<1>4. owed \in Nat /\ RentRefund \in Nat /\ refund[r].lamports - owed = RentRefund
  BY <1>2 DEF LInv, IInv, TypeOK, RefundSlot, RefundsBacked, AmountsAssumption
<1>5. lamports \in [Accounts -> Int] /\ {k, c, p} \subseteq Accounts
  BY DEF LInv, IInv, TypeOK, Accounts
<1> HIDE DEF owed
<1>6. /\ paid \in [Accounts -> Int]
      /\ paid[k] = lamports[k] + (IF k = r THEN owed ELSE 0)
  BY <1>2, <1>4, <1>5 DEF Credit
<1> HIDE DEF paid
<1>7. lamports'[k] = paid[k] + (IF k = p THEN RentRefund ELSE 0)
  BY <1>2, <1>4, <1>5, <1>6 DEF Credit
<1>8. /\ RefundOwed(k)' \in Nat
      /\ RefundOwed(k) = RefundOwed(k)' + (IF k = r THEN owed ELSE 0)
  <2>1. RefundOwed(k) \in Nat
    BY EntitlementParts
  <2> QED
    BY <1>2, <1>3, <1>4, <2>1 DEF RefundOwed, owed
<1>9. /\ RentOwed(k)' \in Nat
      /\ RentOwed(k) = RentOwed(k)' + (IF k = p THEN RentRefund ELSE 0)
  BY <1>2, <1>3, ClosedSlotRent
<1> QED
  BY <1>1, <1>4, <1>6, <1>7, <1>8, <1>9, EntitlementParts DEF Entitlement

\* With a bid standing, its bidder's slot takes it over from the escrow, and
\* the challenger funds the slot if it has to be created.
LEMMA OutbidSlot ==
  ASSUME LInv, NEW c \in Bidders, NEW b \in BidAmounts, NEW r \in Keys \cup {NoKey, Omitted},
         Challenge(c, b, r), top_bidder # NoKey, NEW k \in Keys
  PROVE  /\ RefundOwed(k)' = RefundOwed(k) + StandingBid(k)
         /\ RentOwed(k)' = RentOwed(k) + (IF k = c THEN InitRent(r) ELSE 0)
<1> DEFINE slot == InitIfNeeded(r)[r]
<1>1. /\ r = top_bidder /\ r # Omitted /\ r \in Keys
      /\ refund' = Put(refund, r, CreditRefund(slot, c))
  BY DEF LInv, IInv, TypeOK, Challenge, SlotOfTopBidder, RefundPrevious
<1>2. /\ DOMAIN refund' = DOMAIN refund \cup {r}
      /\ refund'[r] = CreditRefund(slot, c)
      /\ \A x \in DOMAIN refund : x # r => refund'[x] = refund[x]
  <2>1. InitIfNeeded(r) = refund \/ DOMAIN InitIfNeeded(r) = DOMAIN refund \cup {r}
    BY DEF InitIfNeeded, NeedsInit, Put
  <2> HIDE DEF slot
  <2> QED
    BY <1>1 DEF Put
<1>3. CASE r \in DOMAIN refund
  <2>1. slot = refund[r] /\ InitRent(r) = 0
    BY <1>3 DEF InitIfNeeded, InitRent, NeedsInit
  <2> HIDE DEF slot
  <2>2. refund[r].bidder # NoKey /\ refund[r].amount \in Nat /\ top_bid_amount \in Nat
    BY <1>3 DEF LInv, IInv, TypeOK, RefundSlot, KeysAssumption, Accounts
  <2>3. /\ refund'[r].amount = refund[r].amount + top_bid_amount
        /\ refund'[r].rent_payer = refund[r].rent_payer
    BY <1>2, <2>1, <2>2 DEF CreditRefund
  <2>4. RentOwed(k)' = RentOwed(k)
    <3>1. DOMAIN refund' = DOMAIN refund
      BY <1>2, <1>3
    <3>2. \A x \in DOMAIN refund : refund'[x].rent_payer = refund[x].rent_payer
      BY <1>2, <2>3
    <3> QED
      BY <3>1, <3>2, SamePayersSameRent
  <2>5. RefundOwed(k)' = RefundOwed(k) + StandingBid(k)
    <3>1. CASE k = r
      BY <1>1, <1>2, <1>3, <2>2, <2>3, <3>1 DEF RefundOwed, StandingBid
    <3>2. CASE k # r
      <4>1. RefundOwed(k)' = RefundOwed(k) /\ StandingBid(k) = 0
        BY <1>1, <1>2, <3>2 DEF RefundOwed, StandingBid
      <4> QED
        BY <4>1, EntitlementParts
    <3> QED
      BY <3>1, <3>2
  <2> QED
    BY <2>1, <2>4, <2>5, EntitlementParts
<1>4. CASE r \notin DOMAIN refund
  <2>1. slot = FreshRefund /\ InitRent(r) = RentRefund
    BY <1>1, <1>4 DEF InitIfNeeded, InitRent, NeedsInit, Put
  <2> HIDE DEF slot
  <2>2. top_bid_amount \in Nat
    BY DEF LInv, IInv, TypeOK
  <2>3. refund'[r].amount = top_bid_amount /\ refund'[r].rent_payer = c
    BY <1>2, <2>1, <2>2 DEF CreditRefund, FreshRefund
  <2>4. RentOwed(k)' = RentOwed(k) + (IF k = c THEN RentRefund ELSE 0)
    BY <1>2, <1>4, <2>3, NewSlotRent
  <2>5. RefundOwed(k)' = RefundOwed(k) + StandingBid(k)
    <3>1. CASE k = r
      BY <1>1, <1>2, <1>4, <2>2, <2>3, <3>1 DEF RefundOwed, StandingBid
    <3>2. CASE k # r
      <4>1. RefundOwed(k)' = RefundOwed(k) /\ StandingBid(k) = 0
        BY <1>1, <1>2, <3>2 DEF RefundOwed, StandingBid
      <4> QED
        BY <4>1, EntitlementParts
    <3> QED
      BY <3>1, <3>2
  <2> QED
    BY <2>1, <2>4, <2>5
<1> QED
  BY <1>3, <1>4

LEMMA ChallengeWealth ==
  ASSUME LInv, NEW c \in Bidders, NEW b \in BidAmounts, NEW r \in Keys \cup {NoKey, Omitted},
         Challenge(c, b, r), NEW k \in Keys
  PROVE  Entitlement(k)' = Entitlement(k)
<1> DEFINE rent == InitRent(r)
           mid == Debit(Debit(lamports, c, rent), Vault, Refunded)
<1>1. /\ FeesOwed(k)' = FeesOwed(k)
      /\ StandingBid(k)' = IF k = c THEN b ELSE 0
  BY DEF Challenge, FeesOwed, StandingBid, standingVars
<1>2. /\ lamports \in [Accounts -> Int] /\ {k, c, Vault} \subseteq Accounts
      /\ Vault \notin {k, c} /\ b \in Nat /\ rent \in Nat /\ Refunded \in Nat
  BY DEF LInv, IInv, TypeOK, Accounts, KeysAssumption, AmountsAssumption, InitRent, Refunded
<1>3. lamports' = Pay(mid, c, Vault, b)
  BY DEF Challenge
<1> HIDE DEF rent
<1>4. /\ mid \in [Accounts -> Int]
      /\ mid[k] = lamports[k] - (IF k = c THEN rent ELSE 0)
  BY <1>2 DEF Debit
<1> HIDE DEF mid
<1>5. lamports'[k] = mid[k] - (IF k = c THEN b ELSE 0)
  BY <1>2, <1>3, <1>4 DEF Pay, Debit, Credit
<1>6. /\ RefundOwed(k)' = RefundOwed(k) + StandingBid(k)
      /\ RentOwed(k)' = RentOwed(k) + (IF k = c THEN rent ELSE 0)
  <2>1. CASE top_bidder # NoKey
    BY <2>1, OutbidSlot DEF rent
  <2>2. CASE top_bidder = NoKey
    <3>1. r = Omitted /\ refund' = refund /\ rent = 0
      BY <2>2 DEF Challenge, RefundPrevious, InitIfNeeded, NeedsInit, InitRent, rent
    <3>2. StandingBid(k) = 0
      BY <2>2 DEF StandingBid, KeysAssumption, Accounts
    <3>3. RefundOwed(k)' = RefundOwed(k) /\ RentOwed(k)' = RentOwed(k)
      BY <3>1 DEF RefundOwed, RentOwed, SlotsFunded
    <3> QED
      BY <3>1, <3>2, <3>3, EntitlementParts
  <2> QED
    BY <2>1, <2>2
<1> QED
  BY <1>1, <1>2, <1>4, <1>5, <1>6, EntitlementParts DEF Entitlement

\* What an award changes: the leader's bid, the treasury's cut, and the price of
\* the win record.
LEMMA SettleWealth ==
  ASSUME LInv, NEW c \in Keys, NEW d \in Accounts, Settle(c, d), NEW k \in Keys
  PROVE  Entitlement(k)' = Entitlement(k)
           - (IF k = top_bidder THEN top_bid_amount ELSE 0)
           + (IF k = treasury THEN (top_bid_amount * 1500) \div 10000 ELSE 0)
           - (IF k = c THEN (IF top_bidder = holder THEN 0 ELSE RentWin) ELSE 0)
<1> DEFINE split == compute_split(top_bid_amount, FEE_BPS)
           cost == IF flipped THEN RentWin ELSE 0
           mid == Debit(lamports, c, cost)
<1>1. RefundOwed(k)' = RefundOwed(k) /\ RentOwed(k)' = RentOwed(k)
  BY DEF Settle, RefundOwed, RentOwed, SlotsFunded
<1>2. /\ lamports' = Pay(mid, Vault, d, split.burn)
      /\ treasury_balance' = treasury_balance + split.fee
      /\ treasury' = treasury /\ top_bidder' = NoKey
      /\ d = burn_address /\ initialized
  BY DEF Settle, standingVars
<1>3. split.fee \in Nat /\ split.burn \in Nat /\ split.fee = (top_bid_amount * 1500) \div 10000
  <2>1. top_bid_amount \in Nat
    BY DEF LInv, IInv, TypeOK
  <2>2. split.fee \in Nat /\ split.burn \in Nat
    BY <2>1, SplitIsExact, Zenon
  <2>3. split.fee = (top_bid_amount * 1500) \div 10000
    BY DEF compute_split, FEE_BPS
  <2> QED
    BY <2>2, <2>3
<1>4. /\ lamports \in [Accounts -> Int] /\ {k, c, d, Vault} \subseteq Accounts
      /\ Vault \notin {k, c} /\ k # d /\ cost \in Nat /\ treasury_balance \in Nat
  BY <1>2 DEF LInv, IInv, TypeOK, Accounts, KeysAssumption, AmountsAssumption
<1>5. cost = IF top_bidder = holder THEN 0 ELSE RentWin
  BY DEF flipped
<1> HIDE DEF split, cost
<1>6. /\ mid \in [Accounts -> Int]
      /\ mid[k] = lamports[k] - (IF k = c THEN cost ELSE 0)
  BY <1>4 DEF Debit
<1> HIDE DEF mid
<1>7. lamports'[k] = mid[k]
  BY <1>2, <1>3, <1>4, <1>6 DEF Pay, Debit, Credit
<1>8. FeesOwed(k)' = FeesOwed(k) + (IF k = treasury THEN split.fee ELSE 0)
  BY <1>2, <1>3, <1>4 DEF FeesOwed
<1>9. StandingBid(k)' = 0 /\ StandingBid(k) = IF k = top_bidder THEN top_bid_amount ELSE 0
  BY <1>2 DEF StandingBid, KeysAssumption, Accounts
<1>10. Entitlement(k)' = Entitlement(k) - StandingBid(k)
         + (IF k = treasury THEN split.fee ELSE 0) - (IF k = c THEN cost ELSE 0)
  BY <1>1, <1>3, <1>4, <1>6, <1>7, <1>8, <1>9, EntitlementParts DEF Entitlement
<1> QED
  BY <1>3, <1>5, <1>9, <1>10, EntitlementParts

LEMMA InitializeWealth ==
  ASSUME LInv, NEW p \in Keys, NEW t \in Treasuries, NEW a \in Admins, NEW g \in GenesisPrices,
         Initialize(p, t, a, g), NEW k \in Keys
  PROVE  Entitlement(k)' = Entitlement(k)
           - (IF k = p THEN RentState + RentVault + RentWin ELSE 0)
<1> DEFINE rent == RentState + RentVault + RentWin
<1>1. RefundOwed(k)' = RefundOwed(k) /\ RentOwed(k)' = RentOwed(k)
  BY DEF Initialize, RefundOwed, RentOwed, SlotsFunded
<1>2. StandingBid(k)' = 0 /\ FeesOwed(k)' = 0
  BY DEF Initialize, StandingBid, FeesOwed, KeysAssumption, Accounts
<1>3. StandingBid(k) = 0 /\ FeesOwed(k) = 0
  BY DEF Initialize, LInv, IInv, TypeOK, Dormant, EscrowIsTopBid, StandingBid, FeesOwed,
     KeysAssumption, Accounts
<1>4. /\ lamports \in [Accounts -> Int] /\ {k, p, Vault} \subseteq Accounts
      /\ Vault \notin {k, p} /\ rent \in Nat /\ RentVault \in Nat
  BY DEF LInv, IInv, TypeOK, Accounts, KeysAssumption, AmountsAssumption
<1>5. lamports' = Credit(Debit(lamports, p, rent), Vault, RentVault)
  BY DEF Initialize
<1> HIDE DEF rent
<1>6. lamports'[k] = lamports[k] - (IF k = p THEN rent ELSE 0)
  BY <1>4, <1>5 DEF Debit, Credit
<1>7. Entitlement(k)' = Entitlement(k) - (IF k = p THEN rent ELSE 0)
  BY <1>1, <1>2, <1>3, <1>4, <1>6, EntitlementParts DEF Entitlement
<1> QED
  BY <1>7 DEF rent

-----------------------------------------------------------------------------
(* What has been burned *)

burnedLamports == lamports[Incinerator] + lamports[BurnVault]

\* Only a settlement burns, and then exactly the winning price less the fee.
LEMMA SettleBurns ==
  ASSUME LInv, NEW c \in Keys, NEW d \in Accounts, Settle(c, d)
  PROVE  burnedLamports' = burnedLamports
           + (top_bid_amount - (top_bid_amount * 1500) \div 10000)
<1> DEFINE split == compute_split(top_bid_amount, FEE_BPS)
           cost == IF flipped THEN RentWin ELSE 0
           mid == Debit(lamports, c, cost)
<1>1. lamports' = Pay(mid, Vault, d, split.burn) /\ d = burn_address /\ initialized
  BY DEF Settle
<1>2. split.burn = top_bid_amount - (top_bid_amount * 1500) \div 10000
  BY DEF compute_split, FEE_BPS
<1>3. split.burn \in Nat
  BY SplitIsExact, Zenon DEF LInv, IInv, TypeOK
<1>4. /\ lamports \in [Accounts -> Int] /\ {c, d, Vault, Incinerator, BurnVault} \subseteq Accounts
      /\ d \in {Incinerator, BurnVault} /\ Incinerator # BurnVault
      /\ {c, Vault} \cap {Incinerator, BurnVault} = {}
  BY <1>1 DEF LInv, IInv, TypeOK, Accounts, KeysAssumption
<1>5. cost \in Int
  BY DEF AmountsAssumption
<1> HIDE DEF split, cost
<1>6. /\ mid \in [Accounts -> Int]
      /\ mid[Incinerator] = lamports[Incinerator] /\ mid[BurnVault] = lamports[BurnVault]
  BY <1>4, <1>5 DEF Debit
<1> HIDE DEF mid
<1>7. lamports'[Incinerator] + lamports'[BurnVault]
        = mid[Incinerator] + mid[BurnVault] + split.burn
  BY <1>1, <1>3, <1>4, <1>6 DEF Pay, Debit, Credit
<1> QED
  BY <1>2, <1>6, <1>7 DEF burnedLamports

LEMMA OthersBurnNothing ==
  ASSUME LInv,
         \/ \E p \in Keys, t \in Treasuries, a \in Admins, g \in GenesisPrices :
              Initialize(p, t, a, g)
         \/ \E c \in Bidders, b \in BidAmounts, r \in Keys \cup {NoKey, Omitted} :
              Challenge(c, b, r)
         \/ \E c, k, p \in Keys : ClaimRefund(c, k, p)
         \/ \E s, d \in Keys : WithdrawTreasury(s, d)
  PROVE  burnedLamports' = burnedLamports
<1> DEFINE burnable == {Incinerator, BurnVault}
<1>0. /\ lamports \in [Accounts -> Int] /\ burnable \subseteq Accounts /\ Vault \notin burnable
      /\ Keys \cap burnable = {} /\ Keys \subseteq Accounts /\ Bidders \subseteq Keys
      /\ Vault \in Accounts
  BY DEF LInv, IInv, TypeOK, Accounts, KeysAssumption
<1> SUFFICES ASSUME NEW x \in burnable PROVE lamports'[x] = lamports[x]
  BY DEF burnedLamports
<1>1. ASSUME NEW p \in Keys, NEW t \in Treasuries, NEW a \in Admins, NEW g \in GenesisPrices,
             Initialize(p, t, a, g)
      PROVE  lamports'[x] = lamports[x]
  BY <1>0, <1>1 DEF Initialize, Debit, Credit
<1>2. ASSUME NEW c \in Bidders, NEW b \in BidAmounts,
             NEW r \in Keys \cup {NoKey, Omitted}, Challenge(c, b, r)
      PROVE  lamports'[x] = lamports[x]
  BY <1>0, <1>2 DEF Challenge, Pay, Debit, Credit
<1>3. ASSUME NEW c \in Keys, NEW k \in Keys, NEW p \in Keys, ClaimRefund(c, k, p)
      PROVE  lamports'[x] = lamports[x]
  BY <1>0, <1>3 DEF ClaimRefund, Credit
<1>4. ASSUME NEW s \in Keys, NEW d \in Keys, WithdrawTreasury(s, d)
      PROVE  lamports'[x] = lamports[x]
  BY <1>0, <1>4 DEF WithdrawTreasury, Pay, Debit, Credit
<1> QED
  BY <1>1, <1>2, <1>3, <1>4, Zenon

-----------------------------------------------------------------------------
(* The refinement: every step is a step of the ledger, or a stutter *)

wealthOf == [k \in Keys |-> Entitlement(k)]

LEMMA InitMaps == Init => Ledger!Init
<1> SUFFICES ASSUME Init PROVE Ledger!Init
  OBVIOUS
<1>1. ASSUME NEW k \in Keys PROVE Entitlement(k) = Wallet[k]
  <2>1. SlotsFunded(k) = {}
    BY DEF Init, SlotsFunded
  <2>2. RentOwed(k) = 0
    BY <2>1, FS_EmptySet DEF RentOwed, AmountsAssumption
  <2>3. RefundOwed(k) = 0 /\ StandingBid(k) = 0 /\ FeesOwed(k) = 0
    BY DEF Init, RefundOwed, StandingBid, FeesOwed
  <2>4. lamports[k] = Wallet[k] /\ Wallet[k] \in Nat
    BY DEF Init, Accounts, AmountsAssumption
  <2> QED
    BY <2>2, <2>3, <2>4 DEF Entitlement
<1>2. wealthOf = Wallet
  BY <1>1 DEF wealthOf, AmountsAssumption
<1>3. lamports[Incinerator] + lamports[BurnVault] = 0
  BY DEF Init, Accounts, KeysAssumption
<1> QED
  BY <1>2, <1>3 DEF Init, Ledger!Init, wealthOf

LEMMA OpenMaps ==
  ASSUME LInv, NEW p \in Keys, NEW t \in Treasuries, NEW a \in Admins, NEW g \in GenesisPrices,
         Initialize(p, t, a, g)
  PROVE  Ledger!Open
<1>1. ~initialized /\ initialized' = TRUE
  BY DEF Initialize
<1>2. treasury' = t /\ holder' = treasury' /\ treasury' \in Keys
  BY DEF Initialize, KeysAssumption
<1>3. current_price' \in GenesisPrices \ {0}
  BY DEF Initialize, AmountsAssumption
<1>4. wealthOf' = [wealthOf EXCEPT ![p] = @ - (RentState + RentVault + RentWin)]
  <2>1. ASSUME NEW k \in Keys
        PROVE  wealthOf'[k] = wealthOf[k] - (IF k = p THEN RentState + RentVault + RentWin ELSE 0)
    BY InitializeWealth DEF wealthOf
  <2>2. wealthOf \in [Keys -> Nat]
    BY EntitlementParts DEF wealthOf
  <2>3. wealthOf' = [k \in Keys |-> wealthOf'[k]]
    BY DEF wealthOf
  <2>4. RentState + RentVault + RentWin \in Nat
    BY DEF AmountsAssumption
  <2> HIDE DEF wealthOf
  <2> QED
    BY <2>1, <2>2, <2>3, <2>4
<1>5. top_bidder' = top_bidder /\ top_bid_amount' = top_bid_amount
  BY DEF Initialize, LInv, IInv, TypeOK, Dormant, EscrowIsTopBid
<1>6. burnedLamports' = burnedLamports
  BY OthersBurnNothing
<1> QED
  BY <1>1, <1>2, <1>3, <1>4, <1>5, <1>6 DEF Ledger!Open, wealthOf, burnedLamports

LEMMA BidMaps ==
  ASSUME LInv, NEW c \in Bidders, NEW b \in BidAmounts, NEW r \in Keys \cup {NoKey, Omitted},
         Challenge(c, b, r)
  PROVE  Ledger!Bid
<1> DEFINE toBeat == IF top_bidder = NoKey THEN current_price ELSE top_bid_amount
<1>1. initialized /\ top_bidder' = c /\ top_bid_amount' = b /\ c \in Keys /\ b \in Nat
  BY DEF Challenge, KeysAssumption, AmountsAssumption
<1>2. c # (IF top_bidder = NoKey THEN holder ELSE top_bidder)
  BY DEF Challenge, ColdOpen, Outbid, LInv, IInv, EscrowIsTopBid
<1>3. 100 * b >= 105 * toBeat
  <2>1. require_min_raise(toBeat, b, DEFAULT_MIN_RAISE_BPS)
    BY DEF Challenge, ColdOpen, Outbid, LInv, IInv, EscrowIsTopBid
  <2>2. toBeat \in Nat
    BY DEF LInv, IInv, TypeOK
  <2> HIDE DEF toBeat
  <2> QED
    BY <1>1, <2>1, <2>2 DEF require_min_raise, DEFAULT_MIN_RAISE_BPS
<1>4. wealthOf[c] >= b
  <2>1. lamports[c] >= b
    <3>1. lamports[c] >= InitRent(r) + b
      BY DEF Challenge
    <3>2. InitRent(r) \in Nat /\ lamports[c] \in Nat
      BY <1>1 DEF InitRent, AmountsAssumption, LInv, IInv, TypeOK, Accounts
    <3> QED
      BY <1>1, <3>1, <3>2
  <2>2. Entitlement(c) >= b
    BY <1>1, <2>1, EntitlementParts DEF Entitlement
  <2> QED
    BY <1>1, <2>2 DEF wealthOf
<1>5. /\ initialized' = initialized /\ treasury' = treasury /\ holder' = holder
      /\ current_price' = current_price
  BY DEF Challenge, standingVars, holderVars
<1>6. wealthOf' = wealthOf
  BY ChallengeWealth DEF wealthOf
<1>7. burnedLamports' = burnedLamports
  BY OthersBurnNothing
<1> QED
  BY <1>1, <1>2, <1>3, <1>4, <1>5, <1>6, <1>7 DEF Ledger!Bid, wealthOf, burnedLamports

LEMMA AwardMaps ==
  ASSUME LInv, NEW c \in Keys, NEW d \in Accounts, Settle(c, d)
  PROVE  Ledger!Award
<1> DEFINE cut == (top_bid_amount * 1500) \div 10000
           cost == IF top_bidder = holder THEN 0 ELSE RentWin
<1>1. top_bidder # NoKey
  BY DEF Settle, WindowElapsed, LInv, IInv, EscrowIsTopBid
<1>2. /\ holder' = top_bidder /\ current_price' = top_bid_amount
      /\ top_bidder' = NoKey /\ top_bid_amount' = 0
      /\ initialized' = initialized /\ treasury' = treasury
  BY DEF Settle, FlipHolder, flipped, standingVars
<1>3. wealthOf' = [k \in Keys |-> wealthOf[k]
                    - (IF k = top_bidder THEN top_bid_amount ELSE 0)
                    + (IF k = treasury THEN cut ELSE 0)
                    - (IF k = c THEN cost ELSE 0)]
  BY SettleWealth DEF wealthOf
<1>4. burnedLamports' = burnedLamports + (top_bid_amount - cut)
  BY SettleBurns
<1> QED
  BY <1>1, <1>2, <1>3, <1>4 DEF Ledger!Award, wealthOf, burnedLamports

LEMMA GiveAwayMaps ==
  ASSUME LInv, NEW s \in Keys, NEW n \in StrayOrdinals, SendLamports(s, n)
  PROVE  Ledger!GiveAway
<1>1. wealthOf[s] >= RentVault
  <2>1. lamports[s] >= RentVault /\ lamports[s] \in Nat /\ RentVault \in Nat
    BY DEF SendLamports, LInv, IInv, TypeOK, Accounts, AmountsAssumption
  <2>2. Entitlement(s) >= RentVault
    BY <2>1, EntitlementParts DEF Entitlement
  <2> QED
    BY <2>2 DEF wealthOf
<1>2. wealthOf' = [wealthOf EXCEPT ![s] = @ - RentVault]
  <2>1. ASSUME NEW k \in Keys
        PROVE  Entitlement(k)' = IF k = s THEN Entitlement(k) - RentVault ELSE Entitlement(k)
    <3>1. Entitlement(k)' = Entitlement(k) - (IF k = s THEN RentVault ELSE 0)
      BY StrayWealth
    <3>2. Entitlement(k) \in Nat
      BY EntitlementParts
    <3> QED
      BY <3>1, <3>2
  <2>2. wealthOf' = [k \in Keys |-> IF k = s THEN Entitlement(k) - RentVault ELSE Entitlement(k)]
    BY <2>1 DEF wealthOf
  <2> QED
    BY <2>2 DEF wealthOf
<1>3. /\ initialized' = initialized /\ treasury' = treasury /\ holder' = holder
      /\ current_price' = current_price
      /\ top_bidder' = top_bidder /\ top_bid_amount' = top_bid_amount
  BY DEF SendLamports, holderVars, windowVars
<1>4. burnedLamports' = burnedLamports
  BY StrayEffect DEF LInv, IInv, TypeOK, Accounts, burnedLamports
<1> QED
  BY <1>1, <1>2, <1>3, <1>4 DEF Ledger!GiveAway, wealthOf, burnedLamports

\* Claims, withdrawals and the clock leave the ledger as it is.
LEMMA StutterMaps ==
  ASSUME LInv,
         \/ \E c, k, p \in Keys : ClaimRefund(c, k, p)
         \/ \E s, d \in Keys : WithdrawTreasury(s, d)
         \/ \E t \in Instants : Tick(t)
         \/ UNCHANGED vars
  PROVE  UNCHANGED Ledger!ledgerVars
<1>1. /\ initialized' = initialized /\ treasury' = treasury /\ holder' = holder
      /\ current_price' = current_price
      /\ top_bidder' = top_bidder /\ top_bid_amount' = top_bid_amount
  BY DEF ClaimRefund, WithdrawTreasury, Tick, vars, holderVars, standingVars, windowVars
<1>2. wealthOf' = wealthOf
  <2> SUFFICES ASSUME NEW x \in Keys PROVE Entitlement(x)' = Entitlement(x)
    BY DEF wealthOf
  <2>1. CASE UNCHANGED vars
    BY <2>1 DEF vars, Entitlement, RefundOwed, StandingBid, FeesOwed, RentOwed, SlotsFunded,
       moneyVars, windowVars, standingVars
  <2> QED
    BY <2>1, ClaimRefundWealth, WithdrawTreasuryWealth, TickWealth
<1>3. burnedLamports' = burnedLamports
  <2>1. CASE lamports' = lamports
    BY <2>1 DEF burnedLamports
  <2>2. (\E t \in Instants : Tick(t)) \/ UNCHANGED vars => lamports' = lamports
    BY DEF Tick, vars, moneyVars
  <2> QED
    BY <2>1, <2>2, OthersBurnNothing
<1> QED
  BY <1>1, <1>2, <1>3 DEF Ledger!ledgerVars, wealthOf, burnedLamports

LEMMA StepMaps == LInv /\ [Next]_vars => [Ledger!Next]_Ledger!ledgerVars
<1> SUFFICES ASSUME LInv, [Next]_vars PROVE Ledger!Next \/ UNCHANGED Ledger!ledgerVars
  OBVIOUS
<1>1. ASSUME NEW p \in Keys, NEW t \in Treasuries, NEW a \in Admins, NEW g \in GenesisPrices,
             Initialize(p, t, a, g)
      PROVE  Ledger!Next
  BY <1>1, OpenMaps DEF Ledger!Next
<1>2. ASSUME NEW c \in Bidders, NEW b \in BidAmounts,
             NEW r \in Keys \cup {NoKey, Omitted}, Challenge(c, b, r)
      PROVE  Ledger!Next
  BY <1>2, BidMaps DEF Ledger!Next
<1>3. ASSUME NEW c \in Keys, NEW d \in Accounts, Settle(c, d)
      PROVE  Ledger!Next
  BY <1>3, AwardMaps DEF Ledger!Next
<1>4. \/ \E p \in Keys, t \in Treasuries, a \in Admins, g \in GenesisPrices :
           Initialize(p, t, a, g)
      \/ \E c \in Bidders, b \in BidAmounts, r \in Keys \cup {NoKey, Omitted} :
           Challenge(c, b, r)
      \/ \E c \in Keys, d \in Accounts : Settle(c, d)
      \/ \E c, k, p \in Keys : ClaimRefund(c, k, p)
      \/ \E s, d \in Keys : WithdrawTreasury(s, d)
      \/ \E t \in Instants : Tick(t)
      \/ \E k \in Keys, n \in StrayOrdinals : SendLamports(k, n)
      \/ UNCHANGED vars
  BY Zenon DEF Next, Instruction, Stray
<1>5. ASSUME NEW k \in Keys, NEW n \in StrayOrdinals, SendLamports(k, n)
      PROVE  Ledger!Next
  BY <1>5, GiveAwayMaps DEF Ledger!Next
<1> QED
  BY <1>1, <1>2, <1>3, <1>4, <1>5, StutterMaps, Zenon

\* Whatever the keys, amounts, rents and clock readings, the auction implements
\* the entitlement ledger: only an award changes what belongs to a key, and it
\* takes the winning bid, pays 15% of it to the treasury and burns the rest; what a
\* key sends to an address is its own loss.
THEOREM AuctionImplementsLedger == Spec => ImplementsLedger
<1>1. Init => Ledger!Init
  BY InitMaps
<1>2. LInv /\ [Next]_vars => [Ledger!Next]_Ledger!ledgerVars
  BY StepMaps
<1> QED
  BY <1>1, <1>2, SlotsAreFinite, PTL DEF Spec, ImplementsLedger, Ledger!Spec
=============================================================================
