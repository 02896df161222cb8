------------------------- MODULE ToggleSupplyProofs -------------------------
(* Conservation of lamports, for any finite set of keys, and what follows from *)
(* it: with a supply that fits a u64, no checked sum of the program ever fails *)
(* in the auction, so nothing stands in the way of an instruction but lamports *)
(* sent ahead to the address of the record that settle is to create.           *)
EXTENDS ToggleSupply, ToggleGuardsProofs, FiniteSetTheorems

USE KeysAssumption, AmountsAssumption, WidthAssumption

-----------------------------------------------------------------------------
(* Sums of balances *)

LEMMA PurseSize ==
  ASSUME NEW bal, NEW a, AmountIn(bal, a) \in Nat
  PROVE  IsFiniteSet(Purse(bal, a)) /\ Cardinality(Purse(bal, a)) = AmountIn(bal, a)
<1> DEFINE n == AmountIn(bal, a)
<1>1. IsFiniteSet({a}) /\ Cardinality({a}) = 1
  BY FS_Singleton
<1>2. IsFiniteSet(1 .. n) /\ Cardinality(1 .. n) = n
  BY FS_Interval
<1> HIDE DEF n
<1>3. /\ IsFiniteSet({a} \X (1 .. n))
      /\ Cardinality({a} \X (1 .. n)) = Cardinality({a}) * Cardinality(1 .. n)
  BY <1>1, <1>2, FS_Product
<1>4. n \in Nat
  BY DEF n
<1>5. Cardinality({a} \X (1 .. n)) = n
  BY <1>1, <1>2, <1>3, <1>4
<1> QED
  BY <1>3, <1>5 DEF Purse, n

LEMMA AmountsAreNaturals ==
  ASSUME NEW bal, bal \in [DOMAIN bal -> Nat], NEW a
  PROVE  AmountIn(bal, a) \in Nat
  BY DEF AmountIn

LEMMA UnitsFinite ==
  ASSUME NEW bal, bal \in [DOMAIN bal -> Nat], IsFiniteSet(DOMAIN bal)
  PROVE  IsFiniteSet(Units(bal)) /\ TotalOf(bal) \in Nat
<1> DEFINE P == {Purse(bal, a) : a \in DOMAIN bal}
           f == [a \in DOMAIN bal |-> Purse(bal, a)]
<1>1. f \in Surjection(DOMAIN bal, P)
  BY DEF Surjection
<1>2. IsFiniteSet(P)
  BY <1>1, FS_Surjection
<1>3. \A T \in P : IsFiniteSet(T)
  BY PurseSize, AmountsAreNaturals
<1>4. IsFiniteSet(UNION P)
  BY <1>2, <1>3, FS_UNION
<1>5. IsFiniteSet(Units(bal))
  BY <1>4 DEF Units
<1> QED
  BY <1>5, FS_CardinalityType DEF TotalOf

\* What is not in the purse of account a, and that the purse takes its size off.
LEMMA TotalSplits ==
  ASSUME NEW bal, bal \in [DOMAIN bal -> Nat], IsFiniteSet(DOMAIN bal), NEW a
  PROVE  /\ Cardinality(Units(bal) \ Purse(bal, a)) = TotalOf(bal) - AmountIn(bal, a)
         /\ AmountIn(bal, a) <= TotalOf(bal)
<1>1. IsFiniteSet(Units(bal)) /\ TotalOf(bal) \in Nat
  BY UnitsFinite
<1>2. Purse(bal, a) \subseteq Units(bal)
  <2>1. CASE a \in DOMAIN bal
    BY <2>1 DEF Units
  <2>2. CASE a \notin DOMAIN bal
    BY <2>2 DEF Purse, AmountIn
  <2> QED
    BY <2>1, <2>2
<1>3. Units(bal) \cap Purse(bal, a) = Purse(bal, a)
  BY <1>2
<1>4. Cardinality(Purse(bal, a)) = AmountIn(bal, a) /\ IsFiniteSet(Purse(bal, a))
  BY PurseSize, AmountsAreNaturals
<1>5. Cardinality(Units(bal) \ Purse(bal, a))
        = Cardinality(Units(bal)) - Cardinality(Units(bal) \cap Purse(bal, a))
  BY <1>1, FS_Difference
<1>6. Cardinality(Purse(bal, a)) <= Cardinality(Units(bal))
  BY <1>1, <1>2, FS_Subset
<1> QED
  BY <1>3, <1>4, <1>5, <1>6 DEF TotalOf

\* When only account a changes, is created or is closed, the sum changes by what
\* its balance does.
LEMMA OnePurseChanges ==
  ASSUME NEW old, old \in [DOMAIN old -> Nat], IsFiniteSet(DOMAIN old),
         NEW new, new \in [DOMAIN new -> Nat], IsFiniteSet(DOMAIN new), NEW a,
         DOMAIN old \ {a} = DOMAIN new \ {a},
         \A x \in DOMAIN old \ {a} : new[x] = old[x]
  PROVE  TotalOf(new) = TotalOf(old) - AmountIn(old, a) + AmountIn(new, a)
<1>1. \A x \in DOMAIN old \ {a} : Purse(new, x) = Purse(old, x)
  BY DEF Purse, AmountIn
<1>2. ASSUME NEW bal
      PROVE  Units(bal) \ Purse(bal, a) = UNION {Purse(bal, x) : x \in DOMAIN bal \ {a}}
  BY DEF Units, Purse
<1>3. Units(new) \ Purse(new, a) = Units(old) \ Purse(old, a)
  BY <1>1, <1>2
<1>4. /\ TotalOf(old) \in Nat /\ TotalOf(new) \in Nat
      /\ AmountIn(old, a) \in Nat /\ AmountIn(new, a) \in Nat
  BY UnitsFinite, AmountsAreNaturals
<1>5. TotalOf(new) - AmountIn(new, a) = TotalOf(old) - AmountIn(old, a)
  BY <1>3, TotalSplits, Zenon
<1> QED
  BY <1>4, <1>5

\* A debit that the balance covers, a credit, and a payment.
LEMMA DebitTotal ==
  ASSUME NEW S, IsFiniteSet(S), NEW bal \in [S -> Nat], NEW a \in S, NEW n \in Nat,
         bal[a] >= n
  PROVE  TotalOf(Debit(bal, a, n)) = TotalOf(bal) - n
<1> DEFINE new == Debit(bal, a, n)
<1>1. /\ new \in [S -> Nat] /\ DOMAIN bal = S /\ DOMAIN new = S
      /\ new[a] = bal[a] - n /\ \A x \in S \ {a} : new[x] = bal[x]
  BY DEF Debit
<1> HIDE DEF new
<1>2. TotalOf(new) = TotalOf(bal) - AmountIn(bal, a) + AmountIn(new, a)
  BY <1>1, OnePurseChanges
<1>3. AmountIn(bal, a) = bal[a] /\ AmountIn(new, a) = bal[a] - n
  BY <1>1 DEF AmountIn
<1>4. TotalOf(bal) \in Nat /\ bal[a] \in Nat
  BY <1>1, UnitsFinite
<1> QED
  BY <1>2, <1>3, <1>4 DEF new

LEMMA CreditTotal ==
  ASSUME NEW S, IsFiniteSet(S), NEW bal \in [S -> Nat], NEW a \in S, NEW n \in Nat
  PROVE  TotalOf(Credit(bal, a, n)) = TotalOf(bal) + n
<1> DEFINE new == Credit(bal, a, n)
<1>1. /\ new \in [S -> Nat] /\ DOMAIN bal = S /\ DOMAIN new = S
      /\ new[a] = bal[a] + n /\ \A x \in S \ {a} : new[x] = bal[x]
  BY DEF Credit
<1> HIDE DEF new
<1>2. TotalOf(new) = TotalOf(bal) - AmountIn(bal, a) + AmountIn(new, a)
  BY <1>1, OnePurseChanges
<1>3. AmountIn(bal, a) = bal[a] /\ AmountIn(new, a) = bal[a] + n
  BY <1>1 DEF AmountIn
<1>4. TotalOf(bal) \in Nat /\ bal[a] \in Nat
  BY <1>1, UnitsFinite
<1> QED
  BY <1>2, <1>3, <1>4 DEF new

LEMMA PayTotal ==
  ASSUME NEW S, IsFiniteSet(S), NEW bal \in [S -> Nat], NEW a \in S, NEW b \in S,
         NEW n \in Nat, bal[a] >= n
  PROVE  TotalOf(Pay(bal, a, b, n)) = TotalOf(bal)
<1> DEFINE paid == Debit(bal, a, n)
<1>1. TotalOf(paid) = TotalOf(bal) - n
  BY DebitTotal
<1>2. paid \in [S -> Nat] /\ Pay(bal, a, b, n) = Credit(paid, b, n)
  BY DEF Pay, Debit
<1> HIDE DEF paid
<1>3. TotalOf(Credit(paid, b, n)) = TotalOf(paid) + n
  BY <1>2, CreditTotal
<1>4. TotalOf(bal) \in Nat
  BY UnitsFinite
<1> QED
  BY <1>1, <1>2, <1>3, <1>4

-----------------------------------------------------------------------------
(* What each instruction does to the sums *)

LEMMA Finiteness ==
  ASSUME IInv, IsFiniteSet(Keys)
  PROVE  /\ IsFiniteSet(Accounts) /\ TotalOf(lamports) \in Nat
         /\ DOMAIN SlotLamports = DOMAIN refund /\ IsFiniteSet(DOMAIN refund)
         /\ SlotLamports \in [DOMAIN refund -> Nat] /\ TotalOf(SlotLamports) \in Nat
<1>1. IsFiniteSet(Accounts)
  <2>1. IsFiniteSet(((Keys \cup {Vault}) \cup {Incinerator}) \cup {BurnVault})
    BY FS_AddElement
  <2>2. Accounts = ((Keys \cup {Vault}) \cup {Incinerator}) \cup {BurnVault}
    BY DEF Accounts
  <2> QED
    BY <2>1, <2>2
<1>2. lamports \in [Accounts -> Nat]
  BY DEF IInv, TypeOK
<1>3. TotalOf(lamports) \in Nat
  BY <1>1, <1>2, UnitsFinite
<1>4. DOMAIN refund \subseteq Keys /\ refund \in [DOMAIN refund -> RefundSlot]
  BY DEF IInv, TypeOK
<1>5. IsFiniteSet(DOMAIN refund)
  BY <1>4, FS_Subset
<1>6. SlotLamports \in [DOMAIN refund -> Nat] /\ DOMAIN SlotLamports = DOMAIN refund
  BY <1>4 DEF SlotLamports, RefundSlot
<1>7. TotalOf(SlotLamports) \in Nat
  BY <1>5, <1>6, UnitsFinite
<1> QED
  BY <1>1, <1>3, <1>5, <1>6, <1>7

LEMMA InitializeTotals ==
  ASSUME IInv, IsFiniteSet(Keys), NEW payer \in Keys, NEW t \in Treasuries,
         NEW a \in Admins, NEW g \in GenesisPrices, Initialize(payer, t, a, g)
  PROVE  TotalOf(lamports') = TotalOf(lamports) - (RentState + RentWin)
<1> DEFINE rent == RentState + RentVault + RentWin
           paid == Debit(lamports, payer, rent)
<1>1. /\ lamports \in [Accounts -> Nat] /\ payer \in Accounts /\ Vault \in Accounts
      /\ rent \in Nat /\ lamports[payer] >= rent /\ RentVault \in Nat
      /\ RentState \in Nat /\ RentWin \in Nat
      /\ lamports' = Credit(paid, Vault, RentVault)
  BY DEF IInv, TypeOK, Initialize, Accounts, AmountsAssumption
<1>2. IsFiniteSet(Accounts) /\ TotalOf(lamports) \in Nat
  BY Finiteness
<1> HIDE DEF rent
<1>3. paid \in [Accounts -> Nat] /\ TotalOf(paid) = TotalOf(lamports) - rent
  <2>1. TotalOf(paid) = TotalOf(lamports) - rent
    BY <1>1, <1>2, DebitTotal
  <2> QED
    BY <1>1, <2>1 DEF Debit
<1> HIDE DEF paid
<1>4. TotalOf(lamports') = TotalOf(paid) + RentVault
  BY <1>1, <1>2, <1>3, CreditTotal
<1> QED
  BY <1>1, <1>2, <1>3, <1>4 DEF rent

\* challenge(): the rent of a new slot and the outbid bid leave the balances, the
\* new bid stays among them.
LEMMA ChallengeTotals ==
  ASSUME IInv, IsFiniteSet(Keys), NEW c \in Bidders, NEW b \in BidAmounts,
         NEW r \in Keys \cup {NoKey, Omitted}, Challenge(c, b, r)
  PROVE  TotalOf(lamports') = TotalOf(lamports) - InitRent(r) - Refunded
<1> DEFINE one == Debit(lamports, c, InitRent(r))
           two == Debit(one, Vault, Refunded)
<1>1. /\ lamports \in [Accounts -> Nat] /\ c \in Accounts /\ Vault \in Accounts
      /\ c # Vault /\ b \in Nat
  BY DEF IInv, TypeOK, Accounts, KeysAssumption, AmountsAssumption
<1>2. InitRent(r) \in Nat /\ Refunded \in Nat
  BY DEF IInv, TypeOK, InitRent, Refunded, AmountsAssumption
<1>3. /\ lamports[c] >= InitRent(r) + b /\ lamports[Vault] >= Refunded
      /\ lamports' = Pay(two, c, Vault, b)
  <2>1. lamports[Vault] >= Refunded
    BY <1>1 DEF Challenge, RefundPrevious, Refunded
  <2> QED
    BY <2>1 DEF Challenge
<1>4. IsFiniteSet(Accounts) /\ TotalOf(lamports) \in Nat
  BY Finiteness
<1>5. lamports[c] \in Nat /\ lamports[c] >= InitRent(r) /\ lamports[c] - InitRent(r) >= b
  BY <1>1, <1>2, <1>3
<1>6. /\ one \in [Accounts -> Nat] /\ TotalOf(one) = TotalOf(lamports) - InitRent(r)
      /\ one[c] = lamports[c] - InitRent(r) /\ one[Vault] = lamports[Vault]
  <2>1. TotalOf(one) = TotalOf(lamports) - InitRent(r)
    BY <1>1, <1>2, <1>4, <1>5, DebitTotal
  <2> QED
    BY <1>1, <1>2, <1>5, <2>1 DEF Debit
<1> HIDE DEF one
<1>7. /\ two \in [Accounts -> Nat] /\ TotalOf(two) = TotalOf(one) - Refunded
      /\ two[c] = one[c]
  <2>1. TotalOf(two) = TotalOf(one) - Refunded
    BY <1>1, <1>2, <1>3, <1>4, <1>6, DebitTotal
  <2> QED
    BY <1>1, <1>2, <1>3, <1>6, <2>1 DEF Debit
<1> HIDE DEF two
<1>8. TotalOf(lamports') = TotalOf(two)
  BY <1>1, <1>3, <1>4, <1>5, <1>6, <1>7, PayTotal
<1> QED
  BY <1>6, <1>7, <1>8

\* settle(): a flip takes the rent of its record, the burn leg stays among them.
LEMMA SettleTotals ==
  ASSUME IInv, IsFiniteSet(Keys), NEW c \in Keys, NEW d \in Accounts, Settle(c, d)
  PROVE  TotalOf(lamports') = TotalOf(lamports) - (IF flipped THEN RentWin ELSE 0)
<1> DEFINE burn == compute_split(top_bid_amount, FEE_BPS).burn
           cost == IF flipped THEN RentWin ELSE 0
           paid == Debit(lamports, c, cost)
<1>1. /\ lamports \in [Accounts -> Nat] /\ c \in Accounts /\ Vault \in Accounts /\ c # Vault
      /\ cost \in Nat /\ top_bid_amount \in Nat
  BY DEF IInv, TypeOK, Accounts, KeysAssumption, AmountsAssumption
<1>2. burn \in Nat
  BY <1>1, SplitIsExact
<1>3. /\ lamports[c] >= cost /\ lamports[Vault] >= burn
      /\ lamports' = Pay(paid, Vault, d, burn)
  BY <1>1 DEF Settle, RecordWin
<1>4. IsFiniteSet(Accounts) /\ TotalOf(lamports) \in Nat
  BY Finiteness
<1> HIDE DEF burn, cost
<1>5. /\ paid \in [Accounts -> Nat] /\ TotalOf(paid) = TotalOf(lamports) - cost
      /\ paid[Vault] = lamports[Vault]
  <2>1. TotalOf(paid) = TotalOf(lamports) - cost
    BY <1>1, <1>3, <1>4, DebitTotal
  <2> QED
    BY <1>1, <1>3, <2>1 DEF Debit
<1> HIDE DEF paid
<1>6. TotalOf(lamports') = TotalOf(paid)
  BY <1>1, <1>2, <1>3, <1>4, <1>5, PayTotal
<1> QED
  BY <1>5, <1>6 DEF cost

\* claim_refund(): the whole slot comes back.
LEMMA ClaimTotals ==
  ASSUME IInv, IsFiniteSet(Keys), NEW c \in Keys, NEW k \in Keys, NEW p \in Keys,
         ClaimRefund(c, k, p)
  PROVE  /\ k \in DOMAIN refund /\ refund[k].lamports \in Nat
         /\ TotalOf(lamports') = TotalOf(lamports) + refund[k].lamports
<1> DEFINE owed == refund[k].amount
           rest == refund[k].lamports - owed
           paid == Credit(lamports, c, owed)
<1>1. /\ k \in DOMAIN refund /\ refund[k].lamports >= owed
      /\ lamports' = Credit(paid, p, rest)
  BY DEF ClaimRefund
<1>2. /\ lamports \in [Accounts -> Nat] /\ c \in Accounts /\ p \in Accounts
      /\ refund[k].amount \in Nat /\ refund[k].lamports \in Nat
  BY <1>1 DEF IInv, TypeOK, RefundSlot, Accounts
<1>3. rest \in Nat
  BY <1>1, <1>2
<1>4. IsFiniteSet(Accounts) /\ TotalOf(lamports) \in Nat
  BY Finiteness
<1>5. paid \in [Accounts -> Nat] /\ TotalOf(paid) = TotalOf(lamports) + owed
  <2>1. TotalOf(paid) = TotalOf(lamports) + owed
    BY <1>2, <1>4, CreditTotal
  <2> QED
    BY <1>2, <2>1 DEF Credit
<1> HIDE DEF paid
<1> HIDE DEF rest
<1>6. TotalOf(lamports') = TotalOf(paid) + rest
  <2>1. TotalOf(Credit(paid, p, rest)) = TotalOf(paid) + rest
    BY <1>2, <1>3, <1>4, <1>5, CreditTotal
  <2> QED
    BY <1>1, <2>1
<1> QED
  BY <1>1, <1>2, <1>4, <1>5, <1>6 DEF rest

\* withdraw_treasury(): the fees stay among the balances.
LEMMA WithdrawTotals ==
  ASSUME IInv, IsFiniteSet(Keys), NEW s \in Keys, NEW d \in Keys, WithdrawTreasury(s, d)
  PROVE  TotalOf(lamports') = TotalOf(lamports)
<1>1. /\ lamports \in [Accounts -> Nat] /\ d \in Accounts /\ Vault \in Accounts
      /\ treasury_balance \in Nat /\ lamports[Vault] >= treasury_balance
      /\ lamports' = Pay(lamports, Vault, d, treasury_balance)
  BY DEF IInv, TypeOK, WithdrawTreasury, Accounts
<1>2. IsFiniteSet(Accounts)
  BY Finiteness
<1> QED
  BY <1>1, <1>2, PayTotal

\* Lamports sent ahead to a win record's address leave the balances for good.
LEMMA StrayTotals ==
  ASSUME IInv, IsFiniteSet(Keys), IsFiniteSet(prefunded),
         NEW k \in Keys, NEW n \in StrayOrdinals, SendLamports(k, n)
  PROVE  /\ TotalOf(lamports') = TotalOf(lamports) - RentVault
         /\ StrayLamports' = StrayLamports + RentVault
<1>1. /\ lamports \in [Accounts -> Nat] /\ k \in Accounts /\ RentVault \in Nat
      /\ lamports[k] >= RentVault /\ lamports' = Debit(lamports, k, RentVault)
      /\ n \notin prefunded /\ prefunded' = prefunded \cup {n}
  BY DEF IInv, TypeOK, SendLamports, AddressFree, Accounts, AmountsAssumption
<1>2. TotalOf(lamports') = TotalOf(lamports) - RentVault
  BY <1>1, Finiteness, DebitTotal
<1>3. /\ Cardinality(prefunded) \in Nat
      /\ Cardinality(prefunded') = Cardinality(prefunded) + 1
  BY <1>1, FS_CardinalityType, FS_AddElement
<1> DEFINE count == Cardinality(prefunded)
<1>4. RentVault * (count + 1) = RentVault * count + RentVault
  <2> HIDE DEF count
  <2>1. count \in Nat
    BY <1>3 DEF count
  <2> QED
    BY <1>1, <2>1
<1>5. StrayLamports' = StrayLamports + RentVault
  BY <1>3, <1>4 DEF StrayLamports
<1> QED
  BY <1>2, <1>5

LEMMA StrayIsNatural ==
  ASSUME IsFiniteSet(prefunded)
  PROVE  StrayLamports \in Nat
<1> DEFINE count == Cardinality(prefunded)
<1>1. count \in Nat
  BY FS_CardinalityType
<1> HIDE DEF count
<1>2. RentVault * count \in Nat
  BY <1>1 DEF AmountsAssumption
<1> QED
  BY <1>2 DEF StrayLamports, count

-----------------------------------------------------------------------------
(* The refund slots *)

LEMMA ChallengeSlots ==
  ASSUME IInv, IsFiniteSet(Keys), NEW c \in Bidders, NEW b \in BidAmounts,
         NEW r \in Keys \cup {NoKey, Omitted}, Challenge(c, b, r)
  PROVE  TotalOf(SlotLamports') = TotalOf(SlotLamports) + InitRent(r) + Refunded
<1>1. /\ DOMAIN SlotLamports = DOMAIN refund /\ IsFiniteSet(DOMAIN refund)
      /\ SlotLamports \in [DOMAIN refund -> Nat] /\ TotalOf(SlotLamports) \in Nat
  BY Finiteness
<1>2. CASE top_bidder = NoKey
  <2>1. refund' = refund /\ r = Omitted
    BY <1>2 DEF Challenge, RefundPrevious, InitIfNeeded, NeedsInit
  <2>2. SlotLamports' = SlotLamports
    BY <2>1 DEF SlotLamports
  <2>3. InitRent(r) = 0 /\ Refunded = 0
    BY <1>2, <2>1 DEF InitRent, NeedsInit, Refunded
  <2> QED
    BY <1>1, <2>2, <2>3
<1>3. CASE top_bidder # NoKey
  <2> DEFINE slot == InitIfNeeded(r)[r]
             credited == CreditRefund(slot, c)
  <2>1. /\ r = top_bidder /\ r # NoKey /\ r # Omitted
        /\ refund' = Put(refund, r, credited)
        /\ top_bid_amount \in Nat /\ Refunded = top_bid_amount
    BY <1>3 DEF IInv, TypeOK, Challenge, SlotOfTopBidder, RefundPrevious, Refunded,
       KeysAssumption, Accounts
  <2>2. credited.lamports = slot.lamports + top_bid_amount
    BY DEF CreditRefund
  <2>3. slot.lamports = AmountIn(SlotLamports, r) + InitRent(r) /\ slot.lamports \in Nat
    <3>1. CASE r \in DOMAIN refund
      <4>1. slot = refund[r] /\ InitRent(r) = 0
        BY <3>1 DEF InitIfNeeded, NeedsInit, InitRent
      <4>2. AmountIn(SlotLamports, r) = refund[r].lamports /\ refund[r].lamports \in Nat
        BY <3>1, <1>1 DEF AmountIn, SlotLamports
      <4> QED
        BY <4>1, <4>2
    <3>2. CASE r \notin DOMAIN refund
      <4>1. slot = FreshRefund /\ InitRent(r) = RentRefund
        BY <3>2, <2>1 DEF InitIfNeeded, NeedsInit, Put, InitRent
      <4>2. AmountIn(SlotLamports, r) = 0
        BY <3>2, <1>1 DEF AmountIn
      <4> QED
        BY <4>1, <4>2 DEF FreshRefund, AmountsAssumption
    <3> QED
      BY <3>1, <3>2
  <2> HIDE DEF credited, slot
  <2>4. /\ DOMAIN refund' = DOMAIN refund \cup {r} /\ refund'[r] = credited
        /\ \A x \in DOMAIN refund : x # r => refund'[x] = refund[x]
    BY <2>1 DEF Put
  <2>5. /\ DOMAIN SlotLamports' = DOMAIN refund \cup {r}
        /\ SlotLamports'[r] = slot.lamports + top_bid_amount
        /\ \A x \in DOMAIN refund \ {r} : SlotLamports'[x] = SlotLamports[x]
    BY <2>2, <2>4 DEF SlotLamports
  <2>6. SlotLamports' \in [DOMAIN refund \cup {r} -> Nat]
    <3>1. SlotLamports' = [k \in DOMAIN refund \cup {r} |-> SlotLamports'[k]]
      BY <2>4 DEF SlotLamports
    <3>2. \A k \in DOMAIN refund \cup {r} : SlotLamports'[k] \in Nat
      BY <1>1, <2>1, <2>3, <2>5
    <3> QED
      BY <3>1, <3>2
  <2>7. IsFiniteSet(DOMAIN refund \cup {r})
    BY <1>1, FS_AddElement
  <2>8. TotalOf(SlotLamports')
          = TotalOf(SlotLamports) - AmountIn(SlotLamports, r) + AmountIn(SlotLamports', r)
    <3>1. DOMAIN SlotLamports \ {r} = DOMAIN SlotLamports' \ {r}
      BY <1>1, <2>5
    <3> QED
      BY <1>1, <2>5, <2>6, <2>7, <3>1, OnePurseChanges
  <2>9. AmountIn(SlotLamports', r) = slot.lamports + top_bid_amount
    BY <2>5 DEF AmountIn
  <2>10. AmountIn(SlotLamports, r) \in Nat /\ InitRent(r) \in Nat
    BY <1>1, AmountsAreNaturals DEF InitRent, AmountsAssumption
  <2> QED
    BY <1>1, <2>1, <2>3, <2>8, <2>9, <2>10
<1> QED
  BY <1>2, <1>3

LEMMA ClaimSlots ==
  ASSUME IInv, IsFiniteSet(Keys), NEW c \in Keys, NEW k \in Keys, NEW p \in Keys,
         ClaimRefund(c, k, p)
  PROVE  TotalOf(SlotLamports') = TotalOf(SlotLamports) - refund[k].lamports
<1>1. /\ DOMAIN SlotLamports = DOMAIN refund /\ IsFiniteSet(DOMAIN refund)
      /\ SlotLamports \in [DOMAIN refund -> Nat] /\ TotalOf(SlotLamports) \in Nat
  BY Finiteness
<1>2. /\ k \in DOMAIN refund /\ DOMAIN refund' = DOMAIN refund \ {k}
      /\ \A x \in DOMAIN refund \ {k} : refund'[x] = refund[x]
  BY DEF ClaimRefund, Close
<1>3. /\ SlotLamports' \in [DOMAIN refund \ {k} -> Nat]
      /\ DOMAIN SlotLamports' = DOMAIN refund \ {k}
      /\ \A x \in DOMAIN refund \ {k} : SlotLamports'[x] = SlotLamports[x]
  BY <1>1, <1>2 DEF SlotLamports
<1>4. IsFiniteSet(DOMAIN refund \ {k})
  BY <1>1, FS_RemoveElement
<1>5. TotalOf(SlotLamports')
        = TotalOf(SlotLamports) - AmountIn(SlotLamports, k) + AmountIn(SlotLamports', k)
  <2>1. DOMAIN SlotLamports \ {k} = DOMAIN SlotLamports' \ {k}
    BY <1>1, <1>3
  <2> QED
    BY <1>1, <1>3, <1>4, <2>1, OnePurseChanges
<1>6. AmountIn(SlotLamports', k) = 0
  BY <1>3 DEF AmountIn
<1>7. AmountIn(SlotLamports, k) = refund[k].lamports /\ refund[k].lamports \in Nat
  BY <1>1, <1>2 DEF AmountIn, SlotLamports
<1> QED
  BY <1>1, <1>5, <1>6, <1>7

-----------------------------------------------------------------------------
(* Conservation *)

\* Rents that stay: one for each ordinal, and one for the game's own account.
LEMMA RentSpentFacts ==
  ASSUME IInv
  PROVE  /\ RentSpent \in Nat
         /\ RentWin * holder_count \in Nat
         /\ RentWin * (holder_count + 1) = RentWin * holder_count + RentWin
<1>1. holder_count \in Nat /\ RentWin \in Nat /\ RentState \in Nat
  BY DEF IInv, TypeOK, AmountsAssumption
<1>2. /\ RentWin * holder_count \in Nat
      /\ RentWin * (holder_count + 1) = RentWin * holder_count + RentWin
  BY <1>1
<1> QED
  BY <1>1, <1>2 DEF RentSpent

LEMMA InitConserves ==
  ASSUME Init, IsFiniteSet(Keys)
  PROVE  LamportsConserved /\ CountersBelowPrice /\ IsFiniteSet(prefunded)
<1>1. /\ initialized = FALSE /\ holder_count = 0 /\ prefunded = {}
      /\ lamports = [a \in Accounts |-> IF a \in Keys THEN Wallet[a] ELSE 0]
      /\ refund = [k \in {} |-> FreshRefund]
  BY DEF Init
<1>2. TotalOf(lamports) = Supply
  <2>1. DOMAIN Wallet = Keys /\ Keys \subseteq Accounts /\ DOMAIN lamports = Accounts
    BY <1>1 DEF AmountsAssumption, Accounts
  <2>2. \A a \in Keys : Purse(lamports, a) = Purse(Wallet, a)
    BY <1>1, <2>1 DEF Purse, AmountIn
  <2>3. \A a \in Accounts \ Keys : Purse(lamports, a) = {}
    <3> SUFFICES ASSUME NEW a \in Accounts \ Keys PROVE Purse(lamports, a) = {}
      OBVIOUS
    <3>1. AmountIn(lamports, a) = 0
      BY <1>1, <2>1 DEF AmountIn
    <3> QED
      BY <3>1 DEF Purse
  <2>4. Units(lamports) = Units(Wallet)
    BY <2>1, <2>2, <2>3 DEF Units
  <2> QED
    BY <2>4 DEF Supply, TotalOf
<1>3. TotalOf(SlotLamports) = 0
  <2>1. DOMAIN SlotLamports = {}
    BY <1>1 DEF SlotLamports
  <2>2. Units(SlotLamports) = {}
    BY <2>1 DEF Units
  <2> QED
    BY <2>2, FS_EmptySet DEF TotalOf
<1>4. RentSpent = 0
  BY <1>1 DEF RentSpent, AmountsAssumption
<1>5. TotalOf(lamports) \in Nat
  BY InitIInv, Finiteness
<1>6. IsFiniteSet(prefunded) /\ StrayLamports = 0
  BY <1>1, FS_EmptySet DEF StrayLamports, AmountsAssumption
<1> QED
  BY <1>1, <1>2, <1>3, <1>4, <1>5, <1>6 DEF LamportsConserved, InTheAuction, CountersBelowPrice

\* No instruction touches what was sent ahead, and each transfer adds one address.
LEMMA StepKeepsStray ==
  ASSUME IsFiniteSet(prefunded), Next
  PROVE  IsFiniteSet(prefunded') /\ (Stray \/ StrayLamports' = StrayLamports)
<1>1. CASE Stray
  <2>1. PICK k \in Keys, n \in StrayOrdinals : SendLamports(k, n)
    BY <1>1 DEF Stray
  <2>2. prefunded' = prefunded \cup {n}
    BY <2>1 DEF SendLamports
  <2> QED
    BY <1>1, <2>2, FS_AddElement
<1>2. CASE ~Stray
  <2>1. prefunded' = prefunded
    BY <1>2 DEF Next, Instruction, Initialize, Challenge, Settle, ClaimRefund, WithdrawTreasury,
       Tick, standingVars
  <2> QED
    BY <2>1 DEF StrayLamports
<1> QED
  BY <1>1, <1>2

\* What the lamports and the slots lose, the rents and the strays gain.
LEMMA StepConserves ==
  ASSUME IInv, IsFiniteSet(Keys), IsFiniteSet(prefunded), Next
  PROVE  InTheAuction' = InTheAuction
<1>1. /\ TotalOf(lamports) \in Nat /\ TotalOf(SlotLamports) \in Nat /\ RentSpent \in Nat
      /\ StrayLamports \in Nat
  BY Finiteness, RentSpentFacts, StrayIsNatural
<1>2. RentState \in Nat /\ RentWin \in Nat /\ RentRefund \in Nat
  BY DEF AmountsAssumption
<1>3. refund' = refund => SlotLamports' = SlotLamports
  BY DEF SlotLamports
<1>4. UNCHANGED <<initialized, holder_count>> => RentSpent' = RentSpent
  BY DEF RentSpent
<1>0. UNCHANGED standingVars => StrayLamports' = StrayLamports
  BY DEF standingVars, StrayLamports
<1>5. ASSUME NEW p \in Keys, NEW t \in Treasuries, NEW a \in Admins, NEW g \in GenesisPrices,
             Initialize(p, t, a, g)
      PROVE  InTheAuction' = InTheAuction
  <2>1. TotalOf(lamports') = TotalOf(lamports) - (RentState + RentWin)
    BY <1>5, InitializeTotals
  <2>2. /\ ~initialized /\ initialized' = TRUE /\ holder_count = 0 /\ holder_count' = 1
        /\ refund' = refund
    BY <1>5 DEF Initialize, IInv, Dormant
  <2>3. RentSpent = 0 /\ RentSpent' = RentWin + RentState
    BY <1>2, <2>2 DEF RentSpent
  <2>4. StrayLamports' = StrayLamports
    BY <1>5 DEF Initialize, StrayLamports
  <2> QED
    BY <2>4, <1>1, <1>2, <1>3, <2>1, <2>2, <2>3 DEF InTheAuction
<1>6. ASSUME NEW c \in Bidders, NEW b \in BidAmounts, NEW r \in Keys \cup {NoKey, Omitted},
             Challenge(c, b, r)
      PROVE  InTheAuction' = InTheAuction
  <2>1. /\ TotalOf(lamports') = TotalOf(lamports) - InitRent(r) - Refunded
        /\ TotalOf(SlotLamports') = TotalOf(SlotLamports) + InitRent(r) + Refunded
    BY <1>6, ChallengeTotals, ChallengeSlots
  <2>2. InitRent(r) \in Nat /\ Refunded \in Nat
    BY <1>2 DEF InitRent, Refunded, IInv, TypeOK
  <2>3. RentSpent' = RentSpent
    BY <1>4, <1>6 DEF Challenge, holderVars, standingVars
  <2>4. StrayLamports' = StrayLamports
    BY <1>0, <1>6 DEF Challenge
  <2> QED
    BY <1>1, <2>1, <2>2, <2>3, <2>4 DEF InTheAuction
<1>7. ASSUME NEW c \in Keys, NEW d \in Accounts, Settle(c, d)
      PROVE  InTheAuction' = InTheAuction
  <2>1. TotalOf(lamports') = TotalOf(lamports) - (IF flipped THEN RentWin ELSE 0)
    BY <1>7, SettleTotals
  <2>2. /\ initialized' = initialized /\ refund' = refund
        /\ holder_count' = IF flipped THEN holder_count + 1 ELSE holder_count
    BY <1>7 DEF Settle, FlipHolder, standingVars
  <2>3. RentSpent' = RentSpent + (IF flipped THEN RentWin ELSE 0)
    <3>1. CASE flipped
      <4> DEFINE rents == RentWin * holder_count
      <4>1. rents \in Nat /\ RentWin * holder_count' = rents + RentWin
        BY <2>2, <3>1, RentSpentFacts
      <4>2. RentSpent = rents + (IF initialized THEN RentState ELSE 0)
        BY DEF RentSpent
      <4>3. RentSpent' = RentWin * holder_count' + (IF initialized THEN RentState ELSE 0)
        BY <2>2 DEF RentSpent
      <4> HIDE DEF rents
      <4>4. RentSpent' = rents + RentWin + (IF initialized THEN RentState ELSE 0)
        BY <4>1, <4>3
      <4> QED
        BY <1>2, <3>1, <4>1, <4>2, <4>4
    <3>2. CASE ~flipped
      BY <1>1, <1>4, <2>2, <3>2
    <3> QED
      BY <3>1, <3>2
  <2>4. StrayLamports' = StrayLamports
    BY <1>0, <1>7 DEF Settle
  <2> QED
    BY <1>1, <1>2, <1>3, <2>1, <2>2, <2>3, <2>4 DEF InTheAuction
<1>8. ASSUME NEW c \in Keys, NEW k \in Keys, NEW p \in Keys, ClaimRefund(c, k, p)
      PROVE  InTheAuction' = InTheAuction
  <2>1. /\ TotalOf(lamports') = TotalOf(lamports) + refund[k].lamports
        /\ TotalOf(SlotLamports') = TotalOf(SlotLamports) - refund[k].lamports
        /\ refund[k].lamports \in Nat
    BY <1>8, ClaimTotals, ClaimSlots
  <2>2. RentSpent' = RentSpent /\ StrayLamports' = StrayLamports
    BY <1>0, <1>4, <1>8 DEF ClaimRefund, holderVars, standingVars
  <2> QED
    BY <1>1, <2>1, <2>2 DEF InTheAuction
<1>9. ASSUME NEW s \in Keys, NEW d \in Keys, WithdrawTreasury(s, d)
      PROVE  InTheAuction' = InTheAuction
  <2>1. TotalOf(lamports') = TotalOf(lamports)
    BY <1>9, WithdrawTotals
  <2>2. RentSpent' = RentSpent /\ SlotLamports' = SlotLamports /\ StrayLamports' = StrayLamports
    BY <1>0, <1>3, <1>4, <1>9 DEF WithdrawTreasury, holderVars, standingVars
  <2> QED
    BY <1>1, <2>1, <2>2 DEF InTheAuction
<1>10. ASSUME NEW t \in Instants, Tick(t)
       PROVE  InTheAuction' = InTheAuction
  BY <1>0, <1>1, <1>3, <1>4, <1>10 DEF InTheAuction, Tick, holderVars, standingVars, moneyVars
<1>11. ASSUME NEW k \in Keys, NEW n \in StrayOrdinals, SendLamports(k, n)
       PROVE  InTheAuction' = InTheAuction
  <2>1. /\ TotalOf(lamports') = TotalOf(lamports) - RentVault
        /\ StrayLamports' = StrayLamports + RentVault
    BY <1>11, StrayTotals
  <2>2. RentSpent' = RentSpent /\ SlotLamports' = SlotLamports
    BY <1>3, <1>4, <1>11 DEF SendLamports, holderVars
  <2>3. RentVault \in Nat
    BY DEF AmountsAssumption
  <2> QED
    BY <1>1, <2>1, <2>2, <2>3 DEF InTheAuction
<1> QED
  BY <1>5, <1>6, <1>7, <1>8, <1>9, <1>10, <1>11 DEF Next, Instruction, Stray

-----------------------------------------------------------------------------
(* The counters *)

\* A settlement counts one, and the price rises by one at least.
LEMMA StepKeepsCounters ==
  ASSUME IInv, CountersBelowPrice, Next
  PROVE  CountersBelowPrice'
<1>1. /\ current_price \in Nat /\ total_challenges \in Nat /\ holder_count \in Nat
      /\ top_bid_amount \in Nat
  BY DEF IInv, TypeOK
<1>2. ASSUME NEW p \in Keys, NEW t \in Treasuries, NEW a \in Admins, NEW g \in GenesisPrices,
             Initialize(p, t, a, g)
      PROVE  CountersBelowPrice'
  BY <1>2 DEF Initialize, CountersBelowPrice, AmountsAssumption
<1>3. ASSUME NEW c \in Keys, NEW d \in Accounts, Settle(c, d)
      PROVE  CountersBelowPrice'
  <2>1. /\ initialized /\ current_price' = top_bid_amount
        /\ total_challenges' = total_challenges + 1
        /\ holder_count' = holder_count + 1 \/ holder_count' = holder_count
    BY <1>3 DEF Settle, FlipHolder
  <2>2. top_bid_amount > current_price
    <3>1. current_price > 0 /\ 100 * top_bid_amount >= 105 * current_price
      BY <1>3 DEF Settle, WindowElapsed, IInv, TopBidClearsRaise
    <3> QED
      BY <1>1, <3>1
  <2> QED
    BY <1>1, <2>1, <2>2 DEF CountersBelowPrice
<1>4. CASE UNCHANGED <<initialized, current_price, total_challenges, holder_count>>
  BY <1>4 DEF CountersBelowPrice
<1>5. CASE \E c \in Bidders, b \in BidAmounts, r \in Keys \cup {NoKey, Omitted} :
             Challenge(c, b, r)
  BY <1>4, <1>5 DEF Challenge, holderVars, standingVars
<1>6. CASE \E c, k, p \in Keys : ClaimRefund(c, k, p)
  BY <1>4, <1>6 DEF ClaimRefund, holderVars, standingVars
<1>7. CASE \E s, d \in Keys : WithdrawTreasury(s, d)
  BY <1>4, <1>7 DEF WithdrawTreasury, holderVars, standingVars
<1>8. CASE \E t \in Instants : Tick(t)
  BY <1>4, <1>8 DEF Tick, holderVars, standingVars
<1>9. CASE Stray
  BY <1>4, <1>9 DEF Stray, SendLamports, holderVars
<1> QED
  BY <1>2, <1>3, <1>5, <1>6, <1>7, <1>8, <1>9 DEF Next, Instruction

-----------------------------------------------------------------------------
(* What the supply bounds *)

\* The inductive invariant.
SupplyInv == IInv /\ LamportsConserved /\ CountersBelowPrice /\ IsFiniteSet(prefunded)

\* No balance, with or without a slot's, exceeds the supply, and while a window is
\* open neither do the counters with one more.
LEMMA SupplyBounds ==
  ASSUME IInv, CountersBelowPrice, IsFiniteSet(Keys), IsFiniteSet(prefunded), NEW supply \in Nat,
         InTheAuction <= supply
  PROVE  /\ \A a \in Accounts, k \in Keys : lamports[a] + Held(k) <= supply
         /\ \A a \in Accounts : lamports[a] \in Nat /\ lamports[a] <= supply
         /\ \A k \in Keys : Held(k) \in Nat
         /\ window_active => /\ total_challenges + 1 <= supply
                             /\ holder_count + 1 <= supply
<1>1. /\ IsFiniteSet(Accounts) /\ TotalOf(lamports) \in Nat
      /\ DOMAIN SlotLamports = DOMAIN refund /\ IsFiniteSet(DOMAIN refund)
      /\ SlotLamports \in [DOMAIN refund -> Nat] /\ TotalOf(SlotLamports) \in Nat
      /\ RentSpent \in Nat /\ lamports \in [Accounts -> Nat]
      /\ TotalOf(lamports) + TotalOf(SlotLamports) + RentSpent <= supply
  BY Finiteness, RentSpentFacts, StrayIsNatural DEF InTheAuction, IInv, TypeOK
<1>2. ASSUME NEW a \in Accounts
      PROVE  lamports[a] \in Nat /\ lamports[a] <= TotalOf(lamports)
  <2>1. AmountIn(lamports, a) = lamports[a]
    BY <1>1 DEF AmountIn
  <2>2. AmountIn(lamports, a) <= TotalOf(lamports)
    BY <1>1, TotalSplits
  <2> QED
    BY <1>1, <2>1, <2>2
<1>3. ASSUME NEW k \in Keys
      PROVE  Held(k) \in Nat /\ Held(k) <= TotalOf(SlotLamports)
  <2>1. AmountIn(SlotLamports, k) = Held(k)
    BY <1>1 DEF AmountIn, Held, SlotLamports
  <2>2. AmountIn(SlotLamports, k) <= TotalOf(SlotLamports) /\ AmountIn(SlotLamports, k) \in Nat
    BY <1>1, TotalSplits, AmountsAreNaturals
  <2> QED
    BY <2>1, <2>2
<1>4. ASSUME NEW a \in Accounts
      PROVE  lamports[a] \in Nat /\ lamports[a] <= supply
  <2>1. lamports[a] \in Nat /\ lamports[a] <= TotalOf(lamports)
    BY <1>2
  <2> QED
    BY <1>1, <2>1
<1>5. ASSUME NEW a \in Accounts, NEW k \in Keys
      PROVE  lamports[a] + Held(k) <= supply
  <2>1. lamports[a] \in Nat /\ lamports[a] <= TotalOf(lamports)
    BY <1>2
  <2>2. Held(k) \in Nat /\ Held(k) <= TotalOf(SlotLamports)
    BY <1>3
  <2> QED
    BY <1>1, <2>1, <2>2
<1>6. ASSUME window_active
      PROVE  total_challenges + 1 <= supply /\ holder_count + 1 <= supply
  <2>1. /\ initialized /\ current_price \in Nat /\ total_challenges \in Nat
        /\ holder_count \in Nat /\ top_bid_amount \in Nat /\ treasury_balance \in Nat
        /\ current_price > 0 /\ 100 * top_bid_amount >= 105 * current_price
        /\ escrowed_amount = top_bid_amount
        /\ lamports[Vault] = RentVault + escrowed_amount + treasury_balance
        /\ total_challenges < current_price /\ holder_count <= total_challenges + 1
    BY <1>6 DEF IInv, TypeOK, Dormant, TopBidClearsRaise, EscrowIsTopBid,
       VaultSolvent, CountersBelowPrice
  <2>2. RentVault \in Nat /\ Vault \in Accounts
    BY DEF AmountsAssumption, Accounts
  <2>3. top_bid_amount <= lamports[Vault]
    BY <2>1, <2>2
  <2>4. lamports[Vault] \in Nat /\ lamports[Vault] <= supply
    BY <1>4, <2>2
  <2>5. supply \in Nat
    BY <1>1
  <2>6. top_bid_amount <= supply
    BY <2>1, <2>3, <2>4, <2>5
  <2> QED
    BY <2>1, <2>5, <2>6
<1> QED
  BY <1>3, <1>4, <1>5, <1>6

\* What a caller sees for himself, a deadline, a raise, the lamports he needs, is
\* all that stands in the way of a bid, a claim or a withdrawal; a settlement can
\* also be stuck, on lamports sent ahead to the address of its own record.
OnlyTheRecordBlocks ==
  /\ \A k \in Keys :
       WindowElapsed /\ lamports[k] >= RentWin =>
         (SettleReady(k, burn_address) <=> ~SettleStuck)
  /\ \A k \in Bidders \ {top_bidder}, b \in BidAmounts :
       /\ window_active /\ now < window_end_ts
       /\ FitsI64(now + DEFAULT_BASE_WINDOW_SECS)
       /\ 100 * b >= 105 * top_bid_amount
       /\ lamports[k] >= b + RentRefund
       => ChallengeReady(k, b, top_bidder)
  /\ \A k \in Bidders \ {holder}, b \in BidAmounts :
       /\ initialized /\ ~window_active
       /\ FitsI64(now + DEFAULT_BASE_WINDOW_SECS)
       /\ 100 * b >= 105 * current_price
       /\ lamports[k] >= b
       => ChallengeReady(k, b, Omitted)
  /\ \A k \in DOMAIN refund : \E p \in Keys : ClaimReady(k, k, p)
  /\ initialized /\ treasury_balance > 0 => WithdrawReady(admin, treasury)

LEMMA SupplyUnblocks ==
  ASSUME IInv, CountersBelowPrice, IsFiniteSet(Keys), IsFiniteSet(prefunded),
         FitsU64(InTheAuction)
  PROVE  OnlyTheRecordBlocks
<1>1. /\ MAX_U64 \in Nat /\ InTheAuction <= MAX_U64
      /\ SettleWaitsForItsRecord /\ BidsWaitForNobody /\ ClaimsWaitForNobody
  BY WhatIsWaitedFor DEF FitsU64, WidthAssumption
<1>2. /\ \A a \in Accounts, k \in Keys : lamports[a] + Held(k) <= MAX_U64
      /\ \A a \in Accounts : lamports[a] \in Nat /\ lamports[a] <= MAX_U64
      /\ \A k \in Keys : Held(k) \in Nat
      /\ window_active => /\ total_challenges + 1 <= MAX_U64
                          /\ holder_count + 1 <= MAX_U64
  BY <1>1, SupplyBounds
<1>3. Vault \in Accounts /\ \A k \in Bidders : k \in Accounts
  BY DEF Accounts, KeysAssumption
<1>4. window_active => /\ FitsU64(total_challenges + 1) /\ FitsU64(holder_count + 1)
                       /\ FitsU64(lamports[Vault] + Held(top_bidder))
  <2> SUFFICES ASSUME window_active
               PROVE  /\ FitsU64(total_challenges + 1) /\ FitsU64(holder_count + 1)
                      /\ FitsU64(lamports[Vault] + Held(top_bidder))
    OBVIOUS
  <2>1. /\ top_bidder \in Keys /\ total_challenges \in Nat /\ holder_count \in Nat
    BY <1>1 DEF IInv, TypeOK, EscrowIsTopBid
  <2>2. /\ lamports[Vault] \in Nat /\ Held(top_bidder) \in Nat
        /\ lamports[Vault] + Held(top_bidder) <= MAX_U64
        /\ total_challenges + 1 <= MAX_U64 /\ holder_count + 1 <= MAX_U64
    BY <1>2, <1>3, <2>1
  <2> QED
    BY <1>1, <2>1, <2>2 DEF FitsU64
<1>5. \A a \in Accounts : FitsU64(lamports[a])
  BY <1>2 DEF FitsU64
<1>6. \A k \in Keys :
        WindowElapsed /\ lamports[k] >= RentWin =>
          (SettleReady(k, burn_address) <=> ~SettleStuck)
  BY <1>1, <1>3, <1>4, <1>5 DEF SettleWaitsForItsRecord, WindowElapsed
<1>7. \A k \in Bidders \ {top_bidder}, b \in BidAmounts :
        /\ window_active /\ now < window_end_ts
        /\ FitsI64(now + DEFAULT_BASE_WINDOW_SECS)
        /\ 100 * b >= 105 * top_bid_amount
        /\ lamports[k] >= b + RentRefund
        => ChallengeReady(k, b, top_bidder)
  BY <1>1, <1>3, <1>4, <1>5 DEF BidsWaitForNobody
<1>8. \A k \in Bidders \ {holder}, b \in BidAmounts :
        /\ initialized /\ ~window_active
        /\ FitsI64(now + DEFAULT_BASE_WINDOW_SECS)
        /\ 100 * b >= 105 * current_price
        /\ lamports[k] >= b
        => ChallengeReady(k, b, Omitted)
  BY <1>1, <1>3, <1>5 DEF BidsWaitForNobody
<1> QED
  BY <1>1, <1>6, <1>7, <1>8 DEF ClaimsWaitForNobody, OnlyTheRecordBlocks

-----------------------------------------------------------------------------
(* The theorems *)

LEMMA NextSupplyInv ==
  ASSUME IsFiniteSet(Keys)
  PROVE  SupplyInv /\ [Next]_vars => SupplyInv'
<1> SUFFICES ASSUME SupplyInv, [Next]_vars PROVE SupplyInv'
  OBVIOUS
<1>1. IInv'
  BY NextIInv DEF SupplyInv
<1>2. CASE Next
  BY <1>1, <1>2, StepConserves, StepKeepsCounters, StepKeepsStray DEF SupplyInv, LamportsConserved
<1>3. CASE UNCHANGED vars
  <2>1. LamportsConserved'
    BY <1>3 DEF SupplyInv, LamportsConserved, InTheAuction, SlotLamports, RentSpent, StrayLamports,
       vars, holderVars, standingVars, moneyVars
  <2>2. CountersBelowPrice'
    BY <1>3 DEF SupplyInv, CountersBelowPrice, vars, holderVars, standingVars
  <2>3. IsFiniteSet(prefunded)'
    BY <1>3 DEF SupplyInv, vars, standingVars
  <2> QED
    BY <1>1, <2>1, <2>2, <2>3 DEF SupplyInv
<1> QED
  BY <1>2, <1>3

\* The inductive invariant holds in every reachable state.
THEOREM SupplyInvariance ==
  ASSUME IsFiniteSet(Keys)
  PROVE  Spec => []SupplyInv
<1>1. Init => SupplyInv
  BY InitIInv, InitConserves DEF SupplyInv
<1> QED
  BY <1>1, NextSupplyInv, PTL DEF Spec

\* No order of bids, outbids, claims, withdrawals and settlements creates or loses a
\* lamport: their debits and credits of up to four accounts always add up.
THEOREM LamportsAreConserved ==
  ASSUME IsFiniteSet(Keys)
  PROVE  Spec => []LamportsConserved
<1>1. SupplyInv => LamportsConserved
  BY DEF SupplyInv
<1> QED
  BY <1>1, SupplyInvariance, PTL

\* settle's counters stay below the price.
THEOREM CountersStayBelowPrice ==
  ASSUME IsFiniteSet(Keys)
  PROVE  Spec => []CountersBelowPrice
<1>1. SupplyInv => CountersBelowPrice
  BY DEF SupplyInv
<1> QED
  BY <1>1, SupplyInvariance, PTL

\* If the supply fits a u64, no checked addition of challenge or settle ever fails,
\* and no other guard does that its caller could not see (OutbidNeverBlocked,
\* ClaimNeverBlocked), except that a settlement which hands the toggle over fails,
\* for everybody, while lamports lie at the address of its record
\* (SettleNeverBlocked).
THEOREM OnlyStrayLamportsBlock ==
  ASSUME IsFiniteSet(Keys), FitsU64(Supply)
  PROVE  Spec => []OnlyTheRecordBlocks
<1>1. SupplyInv => OnlyTheRecordBlocks
  BY SupplyUnblocks DEF SupplyInv, LamportsConserved
<1> QED
  BY <1>1, SupplyInvariance, PTL
=============================================================================
