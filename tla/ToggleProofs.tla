---------------------------- MODULE ToggleProofs ----------------------------
(* The safety invariants of the auction, proved for every set of keys, every   *)
(* amount, every clock and every rent.                                         *)
EXTENDS Toggle, TLAPS

-----------------------------------------------------------------------------
(* The pure business rules *)

\* The split neither creates nor loses a lamport, and its rounding favours the
\* burn: the fee is at most 15 parts to the 85 burned.
THEOREM SplitIsExact ==
  ASSUME NEW price \in Nat
  PROVE  LET split == compute_split(price, FEE_BPS) IN
         /\ split.fee \in Nat /\ split.burn \in Nat
         /\ split.fee + split.burn = price
         /\ 85 * split.fee <= 15 * split.burn
  BY DEF compute_split, FEE_BPS

\* The program's integer check is the 5% raise, with no rounding either way.
THEOREM MinRaiseIsFivePercent ==
  ASSUME NEW base \in Nat, NEW bid \in Nat
  PROVE  require_min_raise(base, bid, DEFAULT_MIN_RAISE_BPS) <=> 100 * bid >= 105 * base
  BY DEF require_min_raise, DEFAULT_MIN_RAISE_BPS

\* No u64 amount and no u16 of basis points overflow the u128 products ("so no
\* lamport amount can overflow the multiplication", pure.rs), and for every fee of at
\* most 100% the fee fits a u64 and leaves the burn a share: the checks of
\* require_min_raise and compute_split never fail.
THEOREM ProductsFitU128 ==
  ASSUME NEW amount \in 0 .. MAX_U64, NEW bps \in 0 .. 65535, 75535 <= MAX_U64
  PROVE  /\ amount * (10000 + bps) < (MAX_U64 + 1) * (MAX_U64 + 1)
         /\ amount * bps < (MAX_U64 + 1) * (MAX_U64 + 1)
         /\ bps <= 10000 => compute_split(amount, bps).fee \in 0 .. amount
<1>1. amount \in Nat /\ amount <= MAX_U64 /\ MAX_U64 \in Nat /\ bps \in Nat
  BY WidthAssumption
<1>2. ASSUME NEW k \in Nat, k <= MAX_U64
      PROVE  amount * k < (MAX_U64 + 1) * (MAX_U64 + 1)
  <2>1. ASSUME NEW x \in Nat, NEW y \in Nat, NEW z \in Nat, x <= y
        PROVE  x * z <= y * z /\ z * x <= z * y
    BY <2>1
  <2>2. amount * k <= MAX_U64 * k /\ MAX_U64 * k <= MAX_U64 * MAX_U64
    BY <1>1, <1>2, <2>1
  <2> DEFINE a == amount * k
             b == MAX_U64 * k
             c == MAX_U64 * MAX_U64
             d == (MAX_U64 + 1) * (MAX_U64 + 1)
  <2>3. /\ a \in Nat /\ b \in Nat /\ c \in Nat /\ d = c + MAX_U64 + MAX_U64 + 1
        /\ a <= b /\ b <= c
    BY <1>1, <1>2, <2>2
  <2> HIDE DEF a, b, c, d
  <2>4. a < d
    BY <1>1, <2>3
  <2> QED
    BY <2>4 DEF a, d
<1>3. amount * (10000 + bps) < (MAX_U64 + 1) * (MAX_U64 + 1)
  <2> DEFINE k == 10000 + bps
  <2>1. k \in Nat /\ k <= MAX_U64
    BY <1>1
  <2> HIDE DEF k
  <2>2. amount * k < (MAX_U64 + 1) * (MAX_U64 + 1)
    BY <1>2, <2>1
  <2> QED
    BY <2>2 DEF k
<1>4. amount * bps < (MAX_U64 + 1) * (MAX_U64 + 1)
  <2>1. bps \in Nat /\ bps <= MAX_U64
    BY <1>1
  <2> QED
    BY <1>2, <2>1
<1>5. ASSUME bps <= 10000
      PROVE  compute_split(amount, bps).fee \in 0 .. amount
  <2> DEFINE p == amount * bps
             fee == p \div 10000
  <2>1. p \in Nat /\ p <= amount * 10000
    BY <1>1, <1>5
  <2>2. compute_split(amount, bps).fee = fee
    BY DEF compute_split
  <2> HIDE DEF p
  <2>3. fee \in Nat /\ fee <= amount
    BY <1>1, <2>1
  <2> QED
    BY <1>1, <2>2, <2>3
<1> QED
  BY <1>3, <1>4, <1>5

\* So a price that is not zero strictly rises.
THEOREM RaiseIsStrict ==
  ASSUME NEW base \in Nat, NEW bid \in Nat, base > 0,
         require_min_raise(base, bid, DEFAULT_MIN_RAISE_BPS)
  PROVE  bid > base
  BY DEF require_min_raise, DEFAULT_MIN_RAISE_BPS

\* A fresh deadline is a full window after the bid.
THEOREM ResetIsAFullWindow ==
  ASSUME NEW ts \in Nat
  PROVE  /\ compute_window_reset(DEFAULT_BASE_WINDOW_SECS, ts) \in Nat
         /\ compute_window_reset(DEFAULT_BASE_WINDOW_SECS, ts) = ts + 30
  BY DEF compute_window_reset, DEFAULT_BASE_WINDOW_SECS

-----------------------------------------------------------------------------
(* The inductive invariant *)

\* Before the game is initialized there is no holder and no window.
Dormant == ~initialized => holder_count = 0 /\ ~window_active

\* The inductive invariant: an instruction keeps one part only because the
\* others hold when it runs.
IInv ==
  /\ TypeOK
  /\ Dormant
  /\ VaultSolvent
  /\ EscrowIsTopBid
  /\ RefundsBacked
  /\ WinRecordsDense
  /\ WinsAlternate
  /\ TopBidClearsRaise

USE KeysAssumption, AmountsAssumption, WidthAssumption

-----------------------------------------------------------------------------
(* Accounts and balances *)

\* Creating or overwriting an account touches no other account.
LEMMA PutFacts ==
  ASSUME NEW S, NEW f, f \in [DOMAIN f -> S], NEW k, NEW r \in S
  PROVE  /\ DOMAIN Put(f, k, r) = DOMAIN f \cup {k}
         /\ Put(f, k, r) \in [DOMAIN f \cup {k} -> S]
         /\ Put(f, k, r)[k] = r
         /\ \A x \in DOMAIN f : x # k => Put(f, k, r)[x] = f[x]
  BY DEF Put

\* Closing an account touches no other account.
LEMMA CloseFacts ==
  ASSUME NEW S, NEW f, f \in [DOMAIN f -> S], NEW k
  PROVE  /\ DOMAIN Close(f, k) = DOMAIN f \ {k}
         /\ Close(f, k) \in [DOMAIN f \ {k} -> S]
         /\ \A x \in DOMAIN f \ {k} : Close(f, k)[x] = f[x]
  BY DEF Close

\* Lamports of the burn addresses move in settle only.
LEMMA BurnAddressesAside ==
  ASSUME DOMAIN lamports = Accounts
  PROVE  /\ \A c \in Bidders, b \in BidAmounts, r \in Keys \cup {NoKey, Omitted} :
              Challenge(c, b, r) => lamports'[Incinerator] = lamports[Incinerator]
                                    /\ lamports'[BurnVault] = lamports[BurnVault]
         /\ \A c, k, p \in Keys :
              ClaimRefund(c, k, p) => lamports'[Incinerator] = lamports[Incinerator]
                                      /\ lamports'[BurnVault] = lamports[BurnVault]
         /\ \A s, d \in Keys :
              WithdrawTreasury(s, d) => lamports'[Incinerator] = lamports[Incinerator]
                                        /\ lamports'[BurnVault] = lamports[BurnVault]
         /\ \A p \in Keys, t \in Treasuries, a \in Admins, g \in GenesisPrices :
              Initialize(p, t, a, g) => lamports'[Incinerator] = lamports[Incinerator]
                                        /\ lamports'[BurnVault] = lamports[BurnVault]
<1>1. /\ DOMAIN lamports = Accounts /\ Incinerator \in Accounts /\ BurnVault \in Accounts
      /\ Vault \notin {Incinerator, BurnVault}
      /\ \A k \in Keys : k \notin {Incinerator, BurnVault}
      /\ Bidders \subseteq Keys
  BY DEF Accounts, KeysAssumption
<1>2. ASSUME NEW bal, DOMAIN bal = Accounts, NEW x \in Keys \cup {Vault}, NEW amount
      PROVE  /\ DOMAIN Debit(bal, x, amount) = Accounts
             /\ DOMAIN Credit(bal, x, amount) = Accounts
             /\ \A a \in {Incinerator, BurnVault} :
                  Debit(bal, x, amount)[a] = bal[a] /\ Credit(bal, x, amount)[a] = bal[a]
  BY <1>1, <1>2 DEF Debit, Credit
<1>3. ASSUME NEW bal, DOMAIN bal = Accounts, NEW x \in Keys \cup {Vault},
             NEW y \in Keys \cup {Vault}, NEW amount
      PROVE  \A a \in {Incinerator, BurnVault} : Pay(bal, x, y, amount)[a] = bal[a]
  BY <1>1, <1>2, <1>3 DEF Pay
<1>4. ASSUME NEW c \in Bidders, NEW b \in BidAmounts, NEW r \in Keys \cup {NoKey, Omitted},
             Challenge(c, b, r)
      PROVE  lamports'[Incinerator] = lamports[Incinerator]
             /\ lamports'[BurnVault] = lamports[BurnVault]
  <2> DEFINE one == Debit(lamports, c, InitRent(r))
             two == Debit(one, Vault, Refunded)
  <2>1. lamports' = Pay(two, c, Vault, b)
    BY <1>4 DEF Challenge
  <2>2. DOMAIN one = Accounts /\ \A a \in {Incinerator, BurnVault} : one[a] = lamports[a]
    BY <1>1, <1>2
  <2> HIDE DEF one
  <2>3. DOMAIN two = Accounts /\ \A a \in {Incinerator, BurnVault} : two[a] = one[a]
    BY <1>2, <2>2
  <2> HIDE DEF two
  <2>4. \A a \in {Incinerator, BurnVault} : lamports'[a] = two[a]
    BY <1>1, <1>3, <2>1, <2>3
  <2> QED
    BY <2>2, <2>3, <2>4
<1>5. ASSUME NEW c \in Keys, NEW k \in Keys, NEW p \in Keys, ClaimRefund(c, k, p)
      PROVE  lamports'[Incinerator] = lamports[Incinerator]
             /\ lamports'[BurnVault] = lamports[BurnVault]
  <2> DEFINE one == Credit(lamports, c, refund[k].amount)
  <2>1. lamports' = Credit(one, p, refund[k].lamports - refund[k].amount)
    BY <1>5 DEF ClaimRefund
  <2>2. DOMAIN one = Accounts /\ \A a \in {Incinerator, BurnVault} : one[a] = lamports[a]
    BY <1>1, <1>2
  <2> HIDE DEF one
  <2>3. \A a \in {Incinerator, BurnVault} : lamports'[a] = one[a]
    BY <1>2, <2>1, <2>2
  <2> QED
    BY <2>2, <2>3
<1>6. ASSUME NEW s \in Keys, NEW d \in Keys, WithdrawTreasury(s, d)
      PROVE  lamports'[Incinerator] = lamports[Incinerator]
             /\ lamports'[BurnVault] = lamports[BurnVault]
  BY <1>1, <1>3, <1>6 DEF WithdrawTreasury
<1>7. ASSUME NEW p \in Keys, NEW t \in Treasuries, NEW a \in Admins, NEW g \in GenesisPrices,
             Initialize(p, t, a, g)
      PROVE  lamports'[Incinerator] = lamports[Incinerator]
             /\ lamports'[BurnVault] = lamports[BurnVault]
  <2> DEFINE one == Debit(lamports, p, RentState + RentVault + RentWin)
  <2>1. lamports' = Credit(one, Vault, RentVault)
    BY <1>7 DEF Initialize
  <2>2. DOMAIN one = Accounts /\ \A x \in {Incinerator, BurnVault} : one[x] = lamports[x]
    BY <1>1, <1>2
  <2> HIDE DEF one
  <2>3. \A x \in {Incinerator, BurnVault} : lamports'[x] = one[x]
    BY <1>2, <2>1, <2>2
  <2> QED
    BY <2>2, <2>3
<1> QED
  BY <1>4, <1>5, <1>6, <1>7

\* Lamports sent to the address of a win record leave their sender, and nothing
\* else moves.
LEMMA StrayEffect ==
  ASSUME lamports \in [Accounts -> Nat],
         NEW k \in Keys, NEW n \in StrayOrdinals, SendLamports(k, n)
  PROVE  /\ k \in Accounts \ {Vault, Incinerator, BurnVault}
         /\ lamports' \in [Accounts -> Nat]
         /\ lamports'[k] = lamports[k] - RentVault
         /\ \A a \in Accounts \ {k} : lamports'[a] = lamports[a]
<1>1. k \in Accounts \ {Vault, Incinerator, BurnVault}
  BY DEF Accounts, KeysAssumption
<1>2. /\ lamports[k] \in Nat /\ RentVault \in Nat /\ lamports[k] >= RentVault
      /\ lamports' = [lamports EXCEPT ![k] = @ - RentVault]
  BY <1>1 DEF SendLamports, Debit, AmountsAssumption
<1> QED
  BY <1>1, <1>2

-----------------------------------------------------------------------------
(* The initial states *)

LEMMA InitIInv == Init => IInv
<1> SUFFICES ASSUME Init PROVE IInv
  OBVIOUS
<1>1. TypeOK
  <2>1. refund \in [DOMAIN refund -> RefundSlot] /\ DOMAIN refund = {}
    BY DEF Init
  <2>2. win_record \in [DOMAIN win_record -> WinRecords] /\ DOMAIN win_record = {}
    BY DEF Init
  <2>3. lamports \in [Accounts -> Nat]
    BY DEF Init
  <2> QED
    BY <2>1, <2>2, <2>3 DEF Init, TypeOK
<1>2. Dormant /\ VaultSolvent
  BY DEF Init, Dormant, VaultSolvent, Accounts
<1>3. EscrowIsTopBid /\ RefundsBacked /\ TopBidClearsRaise
  BY DEF Init, EscrowIsTopBid, RefundsBacked, TopBidClearsRaise
<1>4. WinRecordsDense /\ WinsAlternate
  BY DEF Init, WinRecordsDense, WinsAlternate
<1> QED
  BY <1>1, <1>2, <1>3, <1>4 DEF IInv

-----------------------------------------------------------------------------
(* Steps that leave a part of the state alone keep what is said of it *)

LEMMA KeepWins ==
  ASSUME IInv, UNCHANGED <<holderVars, initialized>>,
         initialized \/ UNCHANGED windowVars
  PROVE  Dormant' /\ WinRecordsDense' /\ WinsAlternate'
  BY DEF IInv, Dormant, WinRecordsDense, WinsAlternate, holderVars, windowVars

LEMMA KeepWindow ==
  ASSUME IInv, UNCHANGED <<holderVars, initialized, windowVars, escrowed_amount>>
  PROVE  EscrowIsTopBid' /\ TopBidClearsRaise'
  BY DEF IInv, EscrowIsTopBid, TopBidClearsRaise, holderVars, windowVars

\* The clock
LEMMA TickInv ==
  ASSUME IInv, NEW t \in Instants, Tick(t)
  PROVE  IInv'
<1>1. Dormant' /\ WinRecordsDense' /\ WinsAlternate'
  BY KeepWins DEF Tick, standingVars
<1>2. EscrowIsTopBid' /\ TopBidClearsRaise'
  BY KeepWindow DEF Tick, moneyVars, standingVars
<1>3. TypeOK'
  BY DEF IInv, TypeOK, Tick, holderVars, standingVars, windowVars, moneyVars
<1>4. VaultSolvent' /\ RefundsBacked'
  BY DEF IInv, VaultSolvent, RefundsBacked, Tick, standingVars, moneyVars
<1> QED
  BY <1>1, <1>2, <1>3, <1>4 DEF IInv

\* Transfers to the address of a win record
LEMMA SendLamportsInv ==
  ASSUME IInv, NEW k \in Keys, NEW n \in StrayOrdinals, SendLamports(k, n)
  PROVE  IInv'
<1>1. Dormant' /\ WinRecordsDense' /\ WinsAlternate'
  BY KeepWins DEF SendLamports
<1>2. EscrowIsTopBid' /\ TopBidClearsRaise'
  BY KeepWindow DEF SendLamports
<1>3. /\ lamports' \in [Accounts -> Nat]
      /\ Vault \in Accounts /\ lamports'[Vault] = lamports[Vault]
  BY StrayEffect DEF IInv, TypeOK, Accounts
<1>4. prefunded' \subseteq Nat
  BY DEF IInv, TypeOK, SendLamports, AmountsAssumption
<1>5. TypeOK'
  BY <1>3, <1>4 DEF IInv, TypeOK, SendLamports, holderVars, windowVars
<1>6. VaultSolvent' /\ RefundsBacked'
  BY <1>3 DEF IInv, VaultSolvent, RefundsBacked, SendLamports
<1> QED
  BY <1>1, <1>2, <1>5, <1>6 DEF IInv

\* withdraw_treasury()
LEMMA WithdrawTreasuryInv ==
  ASSUME IInv, NEW s \in Keys, NEW d \in Keys, WithdrawTreasury(s, d)
  PROVE  IInv'
<1>1. Dormant' /\ WinRecordsDense' /\ WinsAlternate'
  BY KeepWins DEF WithdrawTreasury, standingVars
<1>2. EscrowIsTopBid' /\ TopBidClearsRaise'
  BY KeepWindow DEF WithdrawTreasury, standingVars
<1>3. /\ lamports \in [Accounts -> Nat] /\ lamports \in [Accounts -> Int]
      /\ treasury_balance \in Nat
      /\ d \in Accounts /\ Vault \in Accounts /\ d # Vault
      /\ d \notin {Incinerator, BurnVault} /\ Vault \notin {Incinerator, BurnVault}
      /\ Incinerator \in Accounts /\ BurnVault \in Accounts
  BY DEF IInv, TypeOK, Accounts, KeysAssumption
<1>4. /\ lamports' \in [Accounts -> Int]
      /\ lamports'[Vault] = lamports[Vault] - treasury_balance
      /\ lamports'[d] = lamports[d] + treasury_balance
      /\ \A a \in Accounts \ {Vault, d} : lamports'[a] = lamports[a]
  BY <1>3 DEF WithdrawTreasury, Pay, Debit, Credit
<1>5. lamports' \in [Accounts -> Nat]
  BY <1>3, <1>4 DEF WithdrawTreasury
<1>6. TypeOK'
  BY <1>5 DEF IInv, TypeOK, WithdrawTreasury, holderVars, standingVars, windowVars
<1>7. VaultSolvent'
  BY <1>3, <1>4 DEF IInv, TypeOK, VaultSolvent, WithdrawTreasury,
     standingVars, AmountsAssumption
<1>8. RefundsBacked'
  BY DEF IInv, RefundsBacked, WithdrawTreasury
<1> QED
  BY <1>1, <1>2, <1>6, <1>7, <1>8 DEF IInv

\* claim_refund()
LEMMA ClaimRefundInv ==
  ASSUME IInv, NEW c \in Keys, NEW k \in Keys, NEW p \in Keys, ClaimRefund(c, k, p)
  PROVE  IInv'
<1> DEFINE rest == refund[k].lamports - refund[k].amount
           paid == Credit(lamports, c, refund[k].amount)
<1>1. Dormant' /\ WinRecordsDense' /\ WinsAlternate'
  BY KeepWins DEF ClaimRefund, standingVars
<1>2. EscrowIsTopBid' /\ TopBidClearsRaise'
  BY KeepWindow DEF ClaimRefund, standingVars
<1>3. /\ lamports \in [Accounts -> Nat] /\ lamports \in [Accounts -> Int]
      /\ k \in DOMAIN refund
      /\ refund[k].amount \in Nat /\ rest \in Nat
      /\ c \in Accounts /\ p \in Accounts
      /\ {Vault, Incinerator, BurnVault} \subseteq Accounts \ {c, p}
  BY DEF IInv, TypeOK, Accounts, KeysAssumption, ClaimRefund, RefundSlot
<1>4. /\ paid \in [Accounts -> Int] /\ paid[c] = lamports[c] + refund[k].amount
      /\ \A a \in Accounts \ {c} : paid[a] = lamports[a]
  BY <1>3 DEF Credit
<1>5. /\ lamports' \in [Accounts -> Int] /\ lamports'[p] = paid[p] + rest
      /\ \A a \in Accounts \ {p} : lamports'[a] = paid[a]
  <2>1. lamports' = Credit(paid, p, rest)
    BY DEF ClaimRefund
  <2> HIDE DEF paid, rest
  <2> QED
    BY <1>3, <1>4, <2>1 DEF Credit
<1>6. lamports' \in [Accounts -> Nat]
  <2> SUFFICES ASSUME NEW a \in Accounts PROVE lamports'[a] \in Nat
    BY <1>5
  <2>1. lamports[a] \in Nat
    BY <1>3
  <2>2. paid[a] \in Nat
    BY <1>3, <1>4, <2>1
  <2> QED
    BY <1>3, <1>5, <2>2
<1>7. \A a \in {Vault, Incinerator, BurnVault} : lamports'[a] = lamports[a]
  BY <1>3, <1>4, <1>5
<1>8. refund \in [DOMAIN refund -> RefundSlot] /\ refund' = Close(refund, k)
  BY DEF IInv, TypeOK, ClaimRefund
<1>9. /\ DOMAIN refund' = DOMAIN refund \ {k}
      /\ \A x \in DOMAIN refund' : refund'[x] = refund[x]
      /\ refund' \in [DOMAIN refund' -> RefundSlot]
  BY <1>8, CloseFacts
<1>10. TypeOK'
  BY <1>6, <1>9 DEF IInv, TypeOK, ClaimRefund, holderVars, standingVars, windowVars
<1>11. VaultSolvent'
  BY <1>7 DEF IInv, VaultSolvent, ClaimRefund, standingVars
<1>12. RefundsBacked'
  BY <1>9 DEF IInv, RefundsBacked
<1> QED
  BY <1>1, <1>2, <1>10, <1>11, <1>12 DEF IInv

\* initialize()
LEMMA InitializeInv ==
  ASSUME IInv, NEW payer \in Keys, NEW t \in Treasuries, NEW a \in Admins,
         NEW g \in GenesisPrices, Initialize(payer, t, a, g)
  PROVE  IInv'
<1> DEFINE rent == RentState + RentVault + RentWin
           paid == Debit(lamports, payer, rent)
           first == WinRecord(t, 1, 0, now)
<1>1. /\ t \in Keys /\ a \in Keys /\ g \in Nat /\ g > 0 /\ now \in Nat /\ rent \in Nat
      /\ lamports[payer] >= rent
      /\ lamports \in [Accounts -> Nat] /\ lamports \in [Accounts -> Int]
      /\ payer \in Accounts /\ Vault \in Accounts /\ payer # Vault
      /\ {Incinerator, BurnVault} \subseteq Accounts \ {payer, Vault}
  BY DEF IInv, TypeOK, Initialize, Accounts, KeysAssumption, AmountsAssumption
<1>2. /\ paid \in [Accounts -> Int] /\ paid[payer] = lamports[payer] - rent
      /\ \A x \in Accounts \ {payer} : paid[x] = lamports[x]
  BY <1>1 DEF Debit
<1>3. /\ lamports' \in [Accounts -> Int] /\ lamports'[Vault] = paid[Vault] + RentVault
      /\ \A x \in Accounts \ {Vault} : lamports'[x] = paid[x]
  <2>1. lamports' = Credit(paid, Vault, RentVault)
    BY DEF Initialize
  <2> QED
    BY <1>1, <1>2, <2>1 DEF AmountsAssumption, Credit
<1>4. lamports' \in [Accounts -> Nat]
  <2> SUFFICES ASSUME NEW x \in Accounts PROVE lamports'[x] \in Nat
    BY <1>3
  <2>1. lamports[x] \in Nat
    BY <1>1
  <2>2. paid[x] \in Nat
    BY <1>1, <1>2, <2>1
  <2> QED
    BY <1>3, <2>2 DEF AmountsAssumption
<1>5. DOMAIN win_record = {} /\ lamports[Vault] = 0
  BY DEF IInv, TypeOK, Dormant, WinRecordsDense, VaultSolvent, Initialize
<1>6. first \in WinRecords /\ first.holder_count = 1 /\ first.winner = t
      /\ first.won_at = now /\ first.price_paid = 0
  BY <1>1 DEF WinRecord, WinRecords
<1>7. DOMAIN win_record' = {0} /\ win_record'[0] = first
      /\ win_record' \in [{0} -> WinRecords]
  <2>1. win_record \in [DOMAIN win_record -> WinRecords] /\ win_record' = Put(win_record, 0, first)
    BY DEF IInv, TypeOK, Initialize
  <2> QED
    BY <2>1, <1>5, <1>6 DEF Put
<1>8. TypeOK'
  <2>1. win_record' \in [DOMAIN win_record' -> WinRecords] /\ DOMAIN win_record' \subseteq Nat
    BY <1>6, <1>7
  <2> QED
    BY <1>1, <1>4, <2>1 DEF IInv, TypeOK, Initialize
<1>9. VaultSolvent'
  BY <1>1, <1>2, <1>3, <1>5 DEF Initialize, VaultSolvent, AmountsAssumption
<1>10. Dormant' /\ EscrowIsTopBid' /\ TopBidClearsRaise'
  BY <1>1 DEF Initialize, Dormant, EscrowIsTopBid, TopBidClearsRaise
<1>11. RefundsBacked'
  BY DEF IInv, RefundsBacked, Initialize
<1>12. /\ holder' = t /\ holder_since' = now /\ holder_count' = 1
       /\ is_on' = FALSE /\ current_price' = g
  BY DEF Initialize
<1>13. WinRecordsDense'
  <2>1. DOMAIN win_record' = 0 .. (holder_count' - 1)
    BY <1>7, <1>12
  <2> QED
    BY <1>6, <1>7, <1>12, <2>1 DEF WinRecordsDense
<1>14. WinsAlternate'
  <2>1. is_on' <=> holder_count' % 2 = 0
    BY <1>12
  <2> QED
    BY <1>1, <1>6, <1>7, <1>12, <2>1 DEF WinsAlternate
<1> QED
  BY <1>8, <1>9, <1>10, <1>11, <1>13, <1>14 DEF IInv

\* challenge(): the slot of the outbid bidder
LEMMA RefundSlotAfterOutbid ==
  ASSUME IInv, NEW c \in Bidders, NEW b \in BidAmounts,
         NEW r \in Keys \cup {NoKey, Omitted}, Challenge(c, b, r)
  PROVE  /\ DOMAIN refund' \subseteq Keys
         /\ refund' \in [DOMAIN refund' -> RefundSlot]
         /\ RefundsBacked'
<1>1. CASE top_bidder = NoKey
  <2>1. refund' = refund
    BY <1>1 DEF Challenge, RefundPrevious, InitIfNeeded, NeedsInit
  <2> QED
    BY <2>1 DEF IInv, TypeOK, RefundsBacked
<1>2. CASE top_bidder # NoKey
  <2> DEFINE slot == InitIfNeeded(r)[r]
             credited == CreditRefund(slot, c)
  <2>1. /\ r = top_bidder /\ r \in Keys /\ r # NoKey /\ r # Omitted
        /\ refund' = Put(refund, r, credited)
    BY <1>2 DEF IInv, TypeOK, Challenge, SlotOfTopBidder, RefundPrevious, KeysAssumption, Accounts
  <2>2. c \in Keys /\ c # r /\ top_bid_amount \in Nat /\ top_bid_amount > 0
    <3>1. window_active
      BY <1>2 DEF IInv, EscrowIsTopBid
    <3>2. current_price > 0 /\ 100 * top_bid_amount >= 105 * current_price
      BY <3>1 DEF IInv, TopBidClearsRaise, Challenge
    <3>3. c # top_bidder
      BY <3>1 DEF Challenge, ColdOpen, Outbid
    <3> QED
      BY <3>2, <3>3, <2>1 DEF IInv, TypeOK, KeysAssumption
  <2>3. /\ slot.amount \in Nat /\ slot.lamports = RentRefund + slot.amount
        /\ IF slot.bidder = NoKey THEN TRUE ELSE slot.rent_payer \in Keys \ {r}
    <3>1. CASE r \in DOMAIN refund
      <4>1. slot = refund[r]
        BY <3>1 DEF InitIfNeeded, NeedsInit
      <4> QED
        BY <3>1, <4>1 DEF IInv, TypeOK, RefundSlot, RefundsBacked
    <3>2. CASE r \notin DOMAIN refund
      <4>1. slot = FreshRefund
        BY <3>2, <2>1 DEF InitIfNeeded, NeedsInit, Put
      <4> QED
        BY <4>1 DEF FreshRefund, AmountsAssumption
    <3> QED
      BY <3>1, <3>2
  <2>4. /\ credited.bidder = r /\ credited.amount = slot.amount + top_bid_amount
        /\ credited.lamports = slot.lamports + top_bid_amount
        /\ credited.rent_payer \in Keys \ {r}
        /\ credited \in RefundSlot
    <3> HIDE DEF slot
    <3>1. RentRefund \in Nat
      BY DEF AmountsAssumption
    <3> QED
      BY <3>1, <2>1, <2>2, <2>3 DEF CreditRefund, RefundSlot
  <2> HIDE DEF credited, slot
  <2>5. /\ DOMAIN refund' = DOMAIN refund \cup {r}
        /\ refund' \in [DOMAIN refund' -> RefundSlot]
        /\ refund'[r] = credited
        /\ \A x \in DOMAIN refund : x # r => refund'[x] = refund[x]
    <3>1. refund \in [DOMAIN refund -> RefundSlot]
      BY DEF IInv, TypeOK
    <3> QED
      BY <3>1, <2>1, <2>4 DEF Put
  <2>6. RefundsBacked'
    <3> SUFFICES ASSUME NEW k \in DOMAIN refund'
                 PROVE  /\ refund'[k].bidder = k /\ refund'[k].amount > 0
                        /\ refund'[k].lamports = RentRefund + refund'[k].amount
                        /\ refund'[k].rent_payer \in Keys \ {k}
      BY DEF RefundsBacked
    <3>1. CASE k = r
      BY <3>1, <2>2, <2>3, <2>4, <2>5 DEF AmountsAssumption
    <3>2. CASE k # r
      BY <3>2, <2>5 DEF IInv, RefundsBacked
    <3> QED
      BY <3>1, <3>2
  <2> QED
    BY <2>1, <2>5, <2>6 DEF IInv, TypeOK
<1> QED
  BY <1>1, <1>2

LEMMA ChallengeInv ==
  ASSUME IInv, NEW c \in Bidders, NEW b \in BidAmounts,
         NEW r \in Keys \cup {NoKey, Omitted}, Challenge(c, b, r)
  PROVE  IInv'
<1> DEFINE rent == InitRent(r)
           afterRent == Debit(lamports, c, rent)
           afterRefund == Debit(afterRent, Vault, Refunded)
<1>1. Dormant' /\ WinRecordsDense' /\ WinsAlternate'
  BY KeepWins DEF Challenge, standingVars
<1>2. /\ c \in Keys /\ b \in Nat /\ rent \in Nat /\ now \in Nat
      /\ lamports \in [Accounts -> Nat] /\ lamports \in [Accounts -> Int]
      /\ c \in Accounts /\ Vault \in Accounts /\ c # Vault
      /\ {Incinerator, BurnVault} \subseteq Accounts \ {c, Vault}
      /\ top_bid_amount \in Nat
  BY DEF IInv, TypeOK, Accounts, KeysAssumption, AmountsAssumption, InitRent
<1>3. Refunded = top_bid_amount /\ escrowed_amount = top_bid_amount
  BY DEF IInv, EscrowIsTopBid, Refunded
<1>4. /\ window_end_ts' \in Nat
      /\ 100 * b >= 105 * (IF window_active THEN top_bid_amount ELSE current_price)
  <2>1. current_price \in Nat /\ window_end_ts \in Nat
    BY DEF IInv, TypeOK
  <2>2. CASE ColdOpen(c, b)
    BY <1>2, <2>1, <2>2, MinRaiseIsFivePercent, ResetIsAFullWindow DEF ColdOpen
  <2>3. CASE Outbid(c, b)
    BY <1>2, <2>1, <2>3, MinRaiseIsFivePercent, ResetIsAFullWindow DEF Outbid
  <2> QED
    BY <2>2, <2>3 DEF Challenge
<1>5. EscrowIsTopBid' /\ TopBidClearsRaise'
  <2>1. /\ window_active' = TRUE /\ top_bidder' = c /\ top_bid_amount' = b
        /\ escrowed_amount' = escrowed_amount - Refunded + b
        /\ current_price' = current_price /\ initialized' = initialized
        /\ initialized /\ c # NoKey
    BY <1>2 DEF Challenge, holderVars, standingVars, KeysAssumption, Accounts
  <2>2. current_price > 0 /\ current_price \in Nat
    BY <2>1 DEF IInv, TopBidClearsRaise, TypeOK
  <2>3. 100 * b >= 105 * current_price
    BY <1>2, <1>4, <2>2 DEF IInv, TopBidClearsRaise
  <2> QED
    BY <1>2, <1>3, <2>1, <2>2, <2>3 DEF EscrowIsTopBid, TopBidClearsRaise
<1>6. /\ lamports' \in [Accounts -> Nat]
      /\ lamports'[Vault] = lamports[Vault] - top_bid_amount + b
      /\ lamports'[Incinerator] = lamports[Incinerator]
      /\ lamports'[BurnVault] = lamports[BurnVault]
  <2>1. /\ lamports' = Pay(afterRefund, c, Vault, b)
        /\ lamports[c] >= rent + b
    BY DEF Challenge
  <2>2. lamports[Vault] >= top_bid_amount
    BY DEF IInv, TypeOK, VaultSolvent, EscrowIsTopBid, Challenge, AmountsAssumption
  <2> HIDE DEF rent
  <2>3. /\ afterRent \in [Accounts -> Int] /\ afterRent[c] = lamports[c] - rent
        /\ \A a \in Accounts \ {c} : afterRent[a] = lamports[a]
    BY <1>2 DEF Debit
  <2>4. /\ afterRefund \in [Accounts -> Int]
        /\ afterRefund[Vault] = lamports[Vault] - top_bid_amount
        /\ \A a \in Accounts \ {Vault} : afterRefund[a] = afterRent[a]
    <3> HIDE DEF afterRent
    <3> QED
      BY <1>2, <1>3, <2>3 DEF Debit
  <2> HIDE DEF afterRent, afterRefund
  <2>5. /\ lamports' \in [Accounts -> Int]
        /\ lamports'[c] = lamports[c] - rent - b
        /\ lamports'[Vault] = lamports[Vault] - top_bid_amount + b
        /\ \A a \in Accounts \ {c, Vault} : lamports'[a] = lamports[a]
    BY <1>2, <2>1, <2>3, <2>4 DEF Pay, Debit, Credit
  <2> QED
    BY <1>2, <2>1, <2>2, <2>5
<1>7. /\ DOMAIN refund' \subseteq Keys /\ refund' \in [DOMAIN refund' -> RefundSlot]
      /\ RefundsBacked'
  BY RefundSlotAfterOutbid
<1>8. TypeOK'
  <2>1. escrowed_amount' = b
    BY <1>2, <1>3 DEF Challenge
  <2> QED
    BY <1>2, <1>4, <1>6, <1>7, <2>1 DEF IInv, TypeOK, Challenge, holderVars, standingVars
<1>9. VaultSolvent'
  BY <1>2, <1>3, <1>6 DEF IInv, TypeOK, VaultSolvent, Challenge,
     standingVars, AmountsAssumption
<1> QED
  BY <1>1, <1>5, <1>7, <1>8, <1>9 DEF IInv

\* settle(): the history of wins
LEMMA WinsAfterSettle ==
  ASSUME IInv, NEW c \in Keys, NEW d \in Accounts, Settle(c, d)
  PROVE  /\ Dormant' /\ WinRecordsDense' /\ WinsAlternate'
         /\ holder' \in Keys /\ holder_since' \in Nat /\ holder_count' \in Nat
         /\ is_on' \in BOOLEAN
         /\ DOMAIN win_record' \subseteq Nat
         /\ win_record' \in [DOMAIN win_record' -> WinRecords]
<1>0. initialized /\ initialized' /\ window_active
  BY DEF IInv, EscrowIsTopBid, Settle, WindowElapsed, standingVars
<1>1. /\ top_bidder \in Keys /\ top_bid_amount \in Nat /\ current_price \in Nat
      /\ current_price' = top_bid_amount
      /\ 100 * top_bid_amount >= 105 * current_price
  BY <1>0 DEF IInv, TypeOK, EscrowIsTopBid, TopBidClearsRaise, Settle
<1>2. /\ holder \in Keys /\ holder_count \in Nat /\ holder_count >= 1
      /\ holder_since \in Nat /\ now \in Nat
  BY <1>0 DEF IInv, TypeOK, WinRecordsDense, AmountsAssumption
<1>3. DOMAIN win_record = 0 .. (holder_count - 1)
  BY DEF IInv, WinRecordsDense
<1>4. win_record \in [DOMAIN win_record -> WinRecords]
  BY DEF IInv, TypeOK
<1>5. /\ win_record[holder_count - 1].winner = holder
      /\ win_record[holder_count - 1].price_paid \in Nat
      /\ win_record[holder_count - 1].price_paid <= current_price
  <2>1. win_record[holder_count - 1] \in WinRecords
    BY <1>2, <1>3, <1>4
  <2> QED
    BY <1>0, <2>1 DEF IInv, WinRecordsDense, WinsAlternate, WinRecords
<1>6. current_price <= current_price' /\ current_price' \in Nat
  BY <1>1
<1>7. CASE ~flipped
  <2>1. /\ holder' = holder /\ is_on' = is_on /\ holder_since' = holder_since
        /\ holder_count' = holder_count /\ win_record' = win_record
    BY <1>7, Zenon DEF Settle, FlipHolder, RecordWin
  <2>2. win_record[holder_count - 1].price_paid <= current_price'
    BY <1>1, <1>5, <1>6
  <2>3. WinsAlternate'
    BY <1>0, <2>1, <2>2 DEF IInv, WinsAlternate
  <2>4. WinRecordsDense' /\ Dormant'
    BY <1>0, <2>1 DEF IInv, Dormant, WinRecordsDense
  <2>5. is_on \in BOOLEAN
    BY DEF IInv, TypeOK
  <2> QED
    BY <1>2, <1>3, <1>4, <2>1, <2>3, <2>4, <2>5
<1>8. CASE flipped
  <2> DEFINE n == holder_count
             won == WinRecord(top_bidder, n + 1, top_bid_amount, now)
  <2>1. /\ holder' = top_bidder /\ is_on' = ~is_on /\ holder_since' = now
        /\ holder_count' = n + 1 /\ win_record' = Put(win_record, n, won)
        /\ top_bidder # holder
    BY <1>8, Zenon DEF Settle, FlipHolder, RecordWin, flipped
  <2>2. /\ won \in WinRecords /\ won.winner = top_bidder /\ won.holder_count = n + 1
        /\ won.won_at = now /\ won.price_paid = top_bid_amount
    BY <1>1, <1>2 DEF WinRecord, WinRecords
  <2> HIDE DEF won
  <2>3. /\ DOMAIN win_record' = DOMAIN win_record \cup {n}
        /\ win_record' \in [DOMAIN win_record' -> WinRecords]
        /\ win_record'[n] = won
        /\ \A x \in DOMAIN win_record : x # n => win_record'[x] = win_record[x]
    BY <1>4, <2>1, <2>2 DEF Put
  <2>4. DOMAIN win_record' = 0 .. (holder_count' - 1)
    <3>1. (0 .. (n - 1)) \cup {n} = 0 .. n
      BY <1>2
    <3>2. holder_count' - 1 = n
      BY <1>2, <2>1
    <3> QED
      BY <1>3, <2>3, <3>1, <3>2
  <2>5. \A x \in 0 .. (n - 1) : win_record'[x] = win_record[x]
    BY <1>2, <1>3, <2>3
  <2>6. WinRecordsDense'
    <3>1. win_record'[holder_count' - 1] = won
      BY <1>2, <2>1, <2>3
    <3>2. \A x \in DOMAIN win_record' : win_record'[x].holder_count = x + 1
      BY <1>2, <1>3, <2>2, <2>3, <2>5 DEF IInv, WinRecordsDense
    <3> QED
      BY <1>2, <2>1, <2>2, <2>4, <3>1, <3>2 DEF WinRecordsDense
  <2>7. WinsAlternate'
    <3>1. /\ win_record'[n].winner # win_record'[n - 1].winner
          /\ 100 * win_record'[n].price_paid >= 105 * win_record'[n - 1].price_paid
      <4>1. win_record'[n - 1] = win_record[n - 1] /\ win_record'[n] = won
        BY <1>2, <2>3, <2>5
      <4> QED
        BY <1>1, <1>5, <2>1, <2>2, <4>1
    <3>2. ASSUME NEW x \in DOMAIN win_record', x > 0
          PROVE  /\ win_record'[x].winner # win_record'[x - 1].winner
                 /\ 100 * win_record'[x].price_paid >= 105 * win_record'[x - 1].price_paid
      <4>1. CASE x = n
        BY <4>1, <3>1
      <4>2. CASE x # n
        <5>1. x \in 0 .. (n - 1) /\ x - 1 \in 0 .. (n - 1)
          BY <4>2, <3>2, <1>2, <1>3, <2>3
        <5> QED
          BY <5>1, <3>2, <1>3, <2>5 DEF IInv, WinsAlternate
      <4> QED
        BY <4>1, <4>2
    <3>3. is_on' <=> holder_count' % 2 = 0
      <4>1. is_on <=> n % 2 = 0
        BY <1>0 DEF IInv, WinsAlternate
      <4>2. (n + 1) % 2 = 0 <=> ~(n % 2 = 0)
        BY <1>2
      <4> HIDE DEF n
      <4> QED
        BY <4>1, <4>2, <2>1, Zenon
    <3>4. win_record'[holder_count' - 1].price_paid <= current_price'
      <4>1. win_record'[holder_count' - 1] = won
        BY <1>2, <2>1, <2>3
      <4> QED
        BY <1>1, <2>2, <4>1
    <3> QED
      BY <3>2, <3>3, <3>4 DEF WinsAlternate
  <2>8. Dormant' /\ is_on' \in BOOLEAN
    BY <1>0, <2>1 DEF Dormant
  <2>9. /\ holder' \in Keys /\ holder_since' \in Nat /\ holder_count' \in Nat
        /\ DOMAIN win_record' \subseteq Nat
    BY <1>1, <1>2, <2>1, <2>4
  <2> QED
    BY <2>3, <2>6, <2>7, <2>8, <2>9
<1> QED
  BY <1>7, <1>8

\* settle(): the lamports
LEMMA LamportsAfterSettle ==
  ASSUME IInv, NEW c \in Keys, NEW d \in Accounts, Settle(c, d)
  PROVE  LET split == compute_split(top_bid_amount, FEE_BPS) IN
         /\ lamports' \in [Accounts -> Nat]
         /\ lamports'[Vault] = lamports[Vault] - split.burn
         /\ lamports'[Incinerator] + lamports'[BurnVault]
              = lamports[Incinerator] + lamports[BurnVault] + split.burn
<1> DEFINE split == compute_split(top_bid_amount, FEE_BPS)
           cost == IF flipped THEN RentWin ELSE 0
           paid == Debit(lamports, c, cost)
<1>1. /\ top_bid_amount \in Nat /\ cost \in Nat
      /\ lamports \in [Accounts -> Nat] /\ lamports \in [Accounts -> Int]
      /\ c \in Accounts /\ Vault \in Accounts /\ c # Vault
      /\ {Incinerator, BurnVault} \subseteq Accounts \ {c, Vault}
      /\ Incinerator # BurnVault
  BY DEF IInv, TypeOK, Accounts, KeysAssumption, AmountsAssumption
<1>2. d \in {Incinerator, BurnVault}
  BY DEF IInv, TypeOK, Settle
<1>3. split.burn \in Nat
  BY <1>1, SplitIsExact
<1>4. /\ lamports' = Pay(paid, Vault, d, split.burn)
      /\ lamports[Vault] >= split.burn /\ lamports[c] >= cost
  BY <1>1 DEF Settle, RecordWin
<1> HIDE DEF split, cost
<1>5. /\ paid \in [Accounts -> Int] /\ paid[c] = lamports[c] - cost
      /\ \A a \in Accounts \ {c} : paid[a] = lamports[a]
  BY <1>1 DEF Debit
<1> HIDE DEF paid
<1>6. /\ lamports' \in [Accounts -> Int]
      /\ lamports'[Vault] = lamports[Vault] - split.burn
      /\ lamports'[d] = lamports[d] + split.burn
      /\ lamports'[c] = lamports[c] - cost
      /\ \A a \in Accounts \ {c, d, Vault} : lamports'[a] = lamports[a]
  BY <1>1, <1>2, <1>3, <1>4, <1>5 DEF Pay, Debit, Credit
<1>7. lamports' \in [Accounts -> Nat]
  BY <1>1, <1>2, <1>3, <1>4, <1>6
<1>8. lamports'[Incinerator] + lamports'[BurnVault]
        = lamports[Incinerator] + lamports[BurnVault] + split.burn
  BY <1>1, <1>2, <1>3, <1>6
<1> QED
  BY <1>6, <1>7, <1>8 DEF split

LEMMA SettleInv ==
  ASSUME IInv, NEW c \in Keys, NEW d \in Accounts, Settle(c, d)
  PROVE  IInv'
<1> DEFINE split == compute_split(top_bid_amount, FEE_BPS)
<1>1. /\ initialized /\ window_active /\ top_bid_amount \in Nat /\ top_bid_amount > 0
      /\ escrowed_amount = top_bid_amount /\ treasury_balance \in Nat
      /\ lamports \in [Accounts -> Nat]
  BY DEF IInv, TypeOK, EscrowIsTopBid, TopBidClearsRaise, Settle, WindowElapsed
<1>2. /\ split.fee \in Nat /\ split.burn \in Nat
      /\ split.fee + split.burn = top_bid_amount
      /\ 85 * split.fee <= 15 * split.burn
  BY <1>1, SplitIsExact
<1>3. /\ lamports' \in [Accounts -> Nat]
      /\ lamports'[Vault] = lamports[Vault] - split.burn
      /\ lamports'[Incinerator] + lamports'[BurnVault]
           = lamports[Incinerator] + lamports[BurnVault] + split.burn
  BY LamportsAfterSettle
<1>4. /\ Dormant' /\ WinRecordsDense' /\ WinsAlternate'
      /\ holder' \in Keys /\ holder_since' \in Nat /\ holder_count' \in Nat
      /\ is_on' \in BOOLEAN
      /\ DOMAIN win_record' \subseteq Nat
      /\ win_record' \in [DOMAIN win_record' -> WinRecords]
  BY WinsAfterSettle
<1>5. /\ escrowed_amount' = 0 /\ treasury_balance' = treasury_balance + split.fee
      /\ window_active' = FALSE /\ window_end_ts' = 0 /\ top_bidder' = NoKey
      /\ top_bid_amount' = 0 /\ current_price' = top_bid_amount
      /\ total_challenges' = total_challenges + 1
      /\ UNCHANGED <<initialized, treasury, admin, prefunded, burn_address, refund, now>>
  BY <1>1 DEF Settle, standingVars
<1> HIDE DEF split
<1>6. TypeOK'
  <2>1. treasury_balance' \in Nat /\ total_challenges' \in Nat
    BY <1>1, <1>2, <1>5 DEF IInv, TypeOK
  <2> QED
    BY <1>1, <1>3, <1>4, <1>5, <2>1 DEF IInv, TypeOK
<1>7. VaultSolvent'
  BY <1>1, <1>2, <1>3, <1>5 DEF IInv, VaultSolvent, AmountsAssumption
<1>8. EscrowIsTopBid' /\ TopBidClearsRaise'
  BY <1>1, <1>5 DEF EscrowIsTopBid, TopBidClearsRaise
<1>9. RefundsBacked'
  BY <1>5 DEF IInv, RefundsBacked
<1> QED
  BY <1>4, <1>6, <1>7, <1>8, <1>9 DEF IInv

-----------------------------------------------------------------------------
(* The theorems *)

LEMMA NextIInv == IInv /\ [Next]_vars => IInv'
<1> SUFFICES ASSUME IInv, [Next]_vars PROVE IInv'
  OBVIOUS
<1>1. CASE UNCHANGED vars
  BY <1>1 DEF vars, holderVars, standingVars, windowVars, moneyVars, IInv, TypeOK, Dormant,
     VaultSolvent, EscrowIsTopBid, RefundsBacked, WinRecordsDense, WinsAlternate,
     TopBidClearsRaise
<1>2. CASE \E p \in Keys, t \in Treasuries, a \in Admins, g \in GenesisPrices :
             Initialize(p, t, a, g)
  BY <1>2, InitializeInv
<1>3. CASE \E c \in Bidders, b \in BidAmounts, r \in Keys \cup {NoKey, Omitted} :
             Challenge(c, b, r)
  BY <1>3, ChallengeInv
<1>4. CASE \E c \in Keys, d \in Accounts : Settle(c, d)
  BY <1>4, SettleInv
<1>5. CASE \E c, k, p \in Keys : ClaimRefund(c, k, p)
  BY <1>5, ClaimRefundInv
<1>6. CASE \E s, d \in Keys : WithdrawTreasury(s, d)
  BY <1>6, WithdrawTreasuryInv
<1>7. CASE \E t \in Instants : Tick(t)
  BY <1>7, TickInv
<1>8. CASE \E k \in Keys, n \in StrayOrdinals : SendLamports(k, n)
  BY <1>8, SendLamportsInv
<1> QED
  BY <1>1, <1>2, <1>3, <1>4, <1>5, <1>6, <1>7, <1>8 DEF Next, Instruction, Stray

\* The inductive invariant holds in every reachable state.
THEOREM Invariance == Spec => []IInv
<1> QED
  BY InitIInv, NextIInv, PTL DEF Spec

\* Every field keeps its type, and a game once initialized has a holder, a
\* treasury and an admin that can sign.
THEOREM TypeCorrect == Spec => []TypeOK
<1>1. IInv => TypeOK
  BY DEF IInv
<1> QED
  BY <1>1, Invariance, PTL

\* The vault holds its rent, the escrow and the fees to the lamport.
THEOREM VaultIsSolvent == Spec => []VaultSolvent
<1>1. IInv => VaultSolvent
  BY DEF IInv
<1> QED
  BY <1>1, Invariance, PTL

\* Exactly the standing bid is in escrow.
THEOREM EscrowHoldsTopBid == Spec => []EscrowIsTopBid
<1>1. IInv => EscrowIsTopBid
  BY DEF IInv
<1> QED
  BY <1>1, Invariance, PTL

\* Every refund owed lies in its bidder's slot, above a rent somebody else paid.
THEOREM RefundsAreBacked == Spec => []RefundsBacked
<1>1. IInv => RefundsBacked
  BY DEF IInv
<1> QED
  BY <1>1, Invariance, PTL

\* The win records have no gap, and the next ordinal is always unused.
THEOREM WinRecordsAreDense == Spec => []WinRecordsDense
<1>1. IInv => WinRecordsDense
  BY DEF IInv
<1> QED
  BY <1>1, Invariance, PTL

\* Consecutive wins are by different keys, at prices at least 5% apart.
THEOREM WinsDoAlternate == Spec => []WinsAlternate
<1>1. IInv => WinsAlternate
  BY DEF IInv
<1> QED
  BY <1>1, Invariance, PTL

\* The burn's share: settle alone adds to the fees, and to the burn with them;
\* every other instruction at most takes fees out.
LEMMA NextShare ==
  ASSUME IInv, BurnKeepsItsShare, [Next]_vars
  PROVE  BurnKeepsItsShare'
<1>1. /\ lamports \in [Accounts -> Nat] /\ DOMAIN lamports = Accounts
      /\ lamports[Incinerator] \in Nat /\ lamports[BurnVault] \in Nat
      /\ treasury_balance \in Nat /\ top_bid_amount \in Nat
      /\ 85 * treasury_balance <= 15 * (lamports[Incinerator] + lamports[BurnVault])
  BY DEF IInv, TypeOK, BurnKeepsItsShare, Accounts
<1>2. ASSUME lamports'[Incinerator] = lamports[Incinerator],
             lamports'[BurnVault] = lamports[BurnVault],
             treasury_balance' \in {treasury_balance, 0}
      PROVE  BurnKeepsItsShare'
  BY <1>1, <1>2 DEF BurnKeepsItsShare
<1>3. CASE UNCHANGED vars
  BY <1>2, <1>3 DEF vars, moneyVars
<1>4. ASSUME NEW p \in Keys, NEW t \in Treasuries, NEW a \in Admins, NEW g \in GenesisPrices,
             Initialize(p, t, a, g)
      PROVE  BurnKeepsItsShare'
  <2>1. treasury_balance' \in {treasury_balance, 0}
    BY <1>4 DEF Initialize
  <2> QED
    BY <1>1, <1>2, <1>4, <2>1, BurnAddressesAside
<1>5. ASSUME NEW c \in Bidders, NEW b \in BidAmounts, NEW r \in Keys \cup {NoKey, Omitted},
             Challenge(c, b, r)
      PROVE  BurnKeepsItsShare'
  <2>1. treasury_balance' = treasury_balance
    BY <1>5 DEF Challenge
  <2> QED
    BY <1>1, <1>2, <1>5, <2>1, BurnAddressesAside
<1>6. ASSUME NEW c \in Keys, NEW d \in Accounts, Settle(c, d)
      PROVE  BurnKeepsItsShare'
  <2> DEFINE split == compute_split(top_bid_amount, FEE_BPS)
  <2>1. /\ split.fee \in Nat /\ split.burn \in Nat /\ 85 * split.fee <= 15 * split.burn
    BY <1>1, SplitIsExact
  <2>2. /\ lamports'[Incinerator] + lamports'[BurnVault]
             = lamports[Incinerator] + lamports[BurnVault] + split.burn
    BY <1>6, LamportsAfterSettle
  <2>3. treasury_balance' = treasury_balance + split.fee
    BY <1>6 DEF Settle
  <2> HIDE DEF split
  <2> QED
    BY <1>1, <2>1, <2>2, <2>3 DEF BurnKeepsItsShare
<1>7. ASSUME NEW c \in Keys, NEW k \in Keys, NEW p \in Keys, ClaimRefund(c, k, p)
      PROVE  BurnKeepsItsShare'
  <2>1. treasury_balance' = treasury_balance
    BY <1>7 DEF ClaimRefund
  <2> QED
    BY <1>1, <1>2, <1>7, <2>1, BurnAddressesAside
<1>8. ASSUME NEW s \in Keys, NEW d \in Keys, WithdrawTreasury(s, d)
      PROVE  BurnKeepsItsShare'
  <2>1. treasury_balance' = 0
    BY <1>8 DEF WithdrawTreasury
  <2> QED
    BY <1>1, <1>2, <1>8, <2>1, BurnAddressesAside
<1>9. ASSUME NEW t \in Instants, Tick(t)
      PROVE  BurnKeepsItsShare'
  BY <1>2, <1>9 DEF Tick, moneyVars
<1>10. ASSUME NEW k \in Keys, NEW n \in StrayOrdinals, SendLamports(k, n)
       PROVE  BurnKeepsItsShare'
  <2>1. treasury_balance' = treasury_balance
    BY <1>10 DEF SendLamports
  <2>2. /\ lamports'[Incinerator] = lamports[Incinerator]
        /\ lamports'[BurnVault] = lamports[BurnVault]
    BY <1>1, <1>10, StrayEffect DEF Accounts
  <2> QED
    BY <1>2, <2>1, <2>2
<1> QED
  BY <1>3, <1>4, <1>5, <1>6, <1>7, <1>8, <1>9, <1>10, Zenon DEF Next, Instruction, Stray

\* The fees in the vault never exceed 15 parts to the 85 burned.
THEOREM BurnShareIsKept == Spec => []BurnKeepsItsShare
<1>1. Init => BurnKeepsItsShare
  BY DEF Init, BurnKeepsItsShare, Accounts
<1>2. IInv /\ BurnKeepsItsShare /\ [Next]_vars => BurnKeepsItsShare'
  BY NextShare
<1> QED
  BY <1>1, <1>2, Invariance, PTL DEF Spec

\* The standing bid clears the raise over the resting price.
THEOREM TopBidIsARaise == Spec => []TopBidClearsRaise
<1>1. IInv => TopBidClearsRaise
  BY DEF IInv
<1> QED
  BY <1>1, Invariance, PTL

-----------------------------------------------------------------------------
(* What no step may do *)

\* Only settle changes the price and closes a window; only challenge and the
\* steps that leave the window alone keep one open.
LEMMA StepEffects ==
  ASSUME IInv, Next, initialized
  PROVE  /\ \/ current_price' = current_price
            \/ window_active /\ current_price' = top_bid_amount
         /\ window_active =>
              \/ window_active' /\ window_end_ts' >= window_end_ts
              \/ ~window_active' /\ now >= window_end_ts
<1>1. window_end_ts \in Nat /\ window_active \in BOOLEAN
  BY DEF IInv, TypeOK
<1>2. ASSUME NEW p \in Keys, NEW t \in Treasuries, NEW a \in Admins, NEW g \in GenesisPrices
      PROVE  ~Initialize(p, t, a, g)
  BY DEF Initialize
<1>3. ASSUME NEW c \in Bidders, NEW b \in BidAmounts, NEW r \in Keys \cup {NoKey, Omitted},
             Challenge(c, b, r)
      PROVE  /\ current_price' = current_price
             /\ window_active => window_active' /\ window_end_ts' >= window_end_ts
  <2>1. current_price' = current_price /\ window_active' = TRUE
    BY <1>3 DEF Challenge, holderVars
  <2>2. ASSUME window_active PROVE window_end_ts' >= window_end_ts
    <3>1. now \in Nat
      BY DEF IInv, TypeOK, AmountsAssumption
    <3>2. Outbid(c, b)
      BY <1>3, <2>2 DEF Challenge, ColdOpen
    <3> QED
      BY <1>1, <3>1, <3>2, ResetIsAFullWindow DEF Outbid
  <2> QED
    BY <2>1, <2>2
<1>4. ASSUME NEW c \in Keys, NEW d \in Accounts, Settle(c, d)
      PROVE  /\ window_active /\ current_price' = top_bid_amount
             /\ ~window_active' /\ now >= window_end_ts
  BY <1>4 DEF Settle, WindowElapsed
<1>5. ASSUME NEW c \in Keys, NEW k \in Keys, NEW p \in Keys, ClaimRefund(c, k, p)
      PROVE  UNCHANGED <<current_price, window_active, window_end_ts>>
  BY <1>5 DEF ClaimRefund, holderVars, windowVars
<1>6. ASSUME NEW s \in Keys, NEW d \in Keys, WithdrawTreasury(s, d)
      PROVE  UNCHANGED <<current_price, window_active, window_end_ts>>
  BY <1>6 DEF WithdrawTreasury, holderVars, windowVars
<1>7. ASSUME NEW t \in Instants, Tick(t)
      PROVE  UNCHANGED <<current_price, window_active, window_end_ts>>
  BY <1>7 DEF Tick, holderVars, windowVars
<1>8. ASSUME NEW k \in Keys, NEW n \in StrayOrdinals, SendLamports(k, n)
      PROVE  UNCHANGED <<current_price, window_active, window_end_ts>>
  BY <1>8 DEF SendLamports, holderVars, windowVars
<1>9. ASSUME UNCHANGED <<current_price, window_active, window_end_ts>>
      PROVE  /\ current_price' = current_price
             /\ window_active => window_active' /\ window_end_ts' >= window_end_ts
  BY <1>1, <1>9
<1> QED
  BY <1>2, <1>3, <1>4, <1>5, <1>6, <1>7, <1>8, <1>9, Zenon DEF Next, Instruction, Stray

\* The price of an initialized toggle only moves up, by at least 5%.
THEOREM PriceOnlyRises == Spec => PriceRisesByMinRaise
<1>1. IInv /\ [Next]_vars =>
        [initialized /\ current_price' # current_price
           => 100 * current_price' >= 105 * current_price]_vars
  <2> SUFFICES ASSUME IInv, Next, initialized, current_price' # current_price
               PROVE  100 * current_price' >= 105 * current_price
    OBVIOUS
  <2>1. window_active /\ current_price' = top_bid_amount
    BY StepEffects
  <2> QED
    BY <2>1 DEF IInv, TopBidClearsRaise
<1> QED
  BY <1>1, Invariance, PTL DEF Spec, PriceRisesByMinRaise

\* An open window's deadline never moves back, for any skew of the clock, and
\* the window closes only after it.
THEOREM DeadlineIsMonotone == Spec => DeadlineNeverMovesBack
<1>1. IInv /\ [Next]_vars =>
        [window_active => IF window_active' THEN window_end_ts' >= window_end_ts
                                            ELSE now >= window_end_ts]_vars
  <2> SUFFICES ASSUME IInv, Next, window_active
               PROVE  IF window_active' THEN window_end_ts' >= window_end_ts
                                        ELSE now >= window_end_ts
    OBVIOUS
  <2>1. CASE initialized
    BY <2>1, StepEffects
  <2>2. CASE ~initialized
    BY <2>2 DEF IInv, Dormant
  <2> QED
    BY <2>1, <2>2
<1> QED
  BY <1>1, Invariance, PTL DEF Spec, DeadlineNeverMovesBack

\* Only challenge raises the top bid, and it sets a deadline a full window away.
LEMMA BidStep ==
  ASSUME IInv, Next, top_bid_amount' > top_bid_amount
  PROVE  window_end_ts' >= now + DEFAULT_BASE_WINDOW_SECS
<1>1. top_bid_amount \in Nat /\ now \in Nat /\ window_end_ts \in Nat
  BY DEF IInv, TypeOK, AmountsAssumption
<1>2. top_bid_amount' # 0 /\ top_bid_amount' # top_bid_amount
  BY <1>1
<1>3. ASSUME NEW c \in Bidders, NEW b \in BidAmounts, NEW r \in Keys \cup {NoKey, Omitted},
             Challenge(c, b, r)
      PROVE  window_end_ts' >= now + DEFAULT_BASE_WINDOW_SECS
  <2>1. ColdOpen(c, b) \/ Outbid(c, b)
    BY <1>3 DEF Challenge
  <2> QED
    BY <1>1, <2>1, ResetIsAFullWindow DEF ColdOpen, Outbid, DEFAULT_BASE_WINDOW_SECS
<1>4. ASSUME NEW p \in Keys, NEW t \in Treasuries, NEW a \in Admins, NEW g \in GenesisPrices
      PROVE  ~Initialize(p, t, a, g)
  BY <1>2 DEF Initialize
<1>5. ASSUME NEW c \in Keys, NEW d \in Accounts
      PROVE  ~Settle(c, d)
  BY <1>2 DEF Settle
<1>6. ASSUME NEW c \in Keys, NEW k \in Keys, NEW p \in Keys
      PROVE  ~ClaimRefund(c, k, p)
  BY <1>2 DEF ClaimRefund, windowVars
<1>7. ASSUME NEW s \in Keys, NEW d \in Keys
      PROVE  ~WithdrawTreasury(s, d)
  BY <1>2 DEF WithdrawTreasury, windowVars
<1>8. ASSUME NEW t \in Instants
      PROVE  ~Tick(t)
  BY <1>2 DEF Tick, windowVars
<1>9. ASSUME NEW k \in Keys, NEW n \in StrayOrdinals
      PROVE  ~SendLamports(k, n)
  BY <1>2 DEF SendLamports, windowVars
<1> QED
  BY <1>3, <1>4, <1>5, <1>6, <1>7, <1>8, <1>9, Zenon DEF Next, Instruction, Stray

\* Every bid stands for a full window after it was taken, for any skew of the
\* clock.
THEOREM BidsStandAFullWindow == Spec => EveryBidIsAnswerable
<1>1. IInv /\ [Next]_vars =>
        [top_bid_amount' > top_bid_amount =>
           window_end_ts' >= now + DEFAULT_BASE_WINDOW_SECS]_vars
  BY BidStep
<1> QED
  BY <1>1, Invariance, PTL DEF Spec, EveryBidIsAnswerable

-----------------------------------------------------------------------------
(* A clock that never steps back *)

\* Beside the wins: the holder's win is not in the future, and a window's
\* deadline is a full window after it.
ClockInv ==
  /\ initialized => holder_since <= now
  /\ window_active => window_end_ts >= holder_since + DEFAULT_BASE_WINDOW_SECS
  /\ HolderKeepsAFullWindow

\* A step that leaves wins and window alone, at the same instant or a later one.
LEMMA LaterKeepsClockInv ==
  ASSUME IInv, ClockInv, now' \in Nat, now' >= now,
         UNCHANGED <<holderVars, initialized, windowVars>>
  PROVE  ClockInv'
<1>1. now \in Nat /\ holder_since \in Nat
  BY DEF IInv, TypeOK, AmountsAssumption
<1> QED
  BY <1>1 DEF ClockInv, HolderKeepsAFullWindow, holderVars, windowVars

LEMMA ChallengeClockInv ==
  ASSUME IInv, ClockInv, NEW c \in Bidders, NEW b \in BidAmounts,
         NEW r \in Keys \cup {NoKey, Omitted}, Challenge(c, b, r)
  PROVE  ClockInv'
<1>1. /\ now \in Nat /\ holder_since \in Nat /\ window_end_ts \in Nat
      /\ initialized /\ holder_since <= now
  BY DEF IInv, TypeOK, AmountsAssumption, ClockInv, Challenge
<1>2. UNCHANGED <<holderVars, standingVars, now>>
  BY DEF Challenge
<1>3. window_end_ts' >= holder_since + DEFAULT_BASE_WINDOW_SECS
  <2>1. CASE ColdOpen(c, b)
    BY <1>1, <2>1 DEF ColdOpen, compute_window_reset, DEFAULT_BASE_WINDOW_SECS
  <2>2. CASE Outbid(c, b)
    BY <1>1, <2>2 DEF Outbid, ClockInv, compute_window_reset, DEFAULT_BASE_WINDOW_SECS
  <2> QED
    BY <2>1, <2>2 DEF Challenge
<1> QED
  BY <1>1, <1>2, <1>3 DEF ClockInv, HolderKeepsAFullWindow, holderVars, standingVars

LEMMA SettleClockInv ==
  ASSUME IInv, ClockInv, NEW c \in Keys, NEW d \in Accounts, Settle(c, d)
  PROVE  ClockInv'
<1>1. /\ initialized /\ window_active /\ now >= window_end_ts
      /\ window_end_ts >= holder_since + DEFAULT_BASE_WINDOW_SECS
      /\ now' = now /\ window_active' = FALSE /\ initialized' = initialized
  BY DEF ClockInv, Settle, WindowElapsed, standingVars
<1>2. /\ now \in Nat /\ holder_since \in Nat /\ window_end_ts \in Nat
      /\ holder_count \in Nat /\ holder_count >= 1
      /\ DOMAIN win_record = 0 .. (holder_count - 1)
      /\ win_record[holder_count - 1].won_at = holder_since
  BY <1>1 DEF IInv, TypeOK, WinRecordsDense, AmountsAssumption
<1>3. DEFAULT_BASE_WINDOW_SECS \in Nat
  BY DEF DEFAULT_BASE_WINDOW_SECS
<1>4. now >= holder_since + DEFAULT_BASE_WINDOW_SECS /\ holder_since <= now
  BY <1>1, <1>2, <1>3
<1>5. CASE ~flipped
  <2>1. holder_since' = holder_since /\ win_record' = win_record
    BY <1>5, Zenon DEF Settle, FlipHolder, RecordWin
  <2> QED
    BY <1>1, <1>4, <2>1 DEF ClockInv, HolderKeepsAFullWindow
<1>6. CASE flipped
  <2> DEFINE n == holder_count
             won == WinRecord(top_bidder, n + 1, top_bid_amount, now)
  <2>1. holder_since' = now /\ win_record' = Put(win_record, n, won)
    BY <1>6, Zenon DEF Settle, FlipHolder, RecordWin
  <2>2. won.won_at = now
    BY DEF WinRecord
  <2> HIDE DEF won
  <2>3. /\ DOMAIN win_record' = DOMAIN win_record \cup {n}
        /\ win_record'[n] = won
        /\ \A x \in DOMAIN win_record : x # n => win_record'[x] = win_record[x]
    BY <2>1 DEF Put
  <2>4. \A x \in 0 .. (n - 1) : win_record'[x] = win_record[x]
    BY <1>2, <2>3
  <2>5. win_record'[n].won_at >= win_record'[n - 1].won_at + DEFAULT_BASE_WINDOW_SECS
    <3>1. win_record'[n - 1] = win_record[n - 1]
      BY <1>2, <2>4
    <3> QED
      BY <1>2, <1>4, <2>2, <2>3, <3>1
  <2>6. ASSUME NEW x \in DOMAIN win_record', x > 0
        PROVE  win_record'[x].won_at >= win_record'[x - 1].won_at + DEFAULT_BASE_WINDOW_SECS
    <3>1. CASE x = n
      BY <2>5, <3>1
    <3>2. CASE x # n
      <4>1. x \in 0 .. (n - 1) /\ x - 1 \in 0 .. (n - 1)
        BY <1>2, <2>3, <2>6, <3>2
      <4> QED
        BY <1>2, <2>4, <2>6, <4>1 DEF ClockInv, HolderKeepsAFullWindow
    <3> QED
      BY <3>1, <3>2
  <2>7. holder_since' <= now'
    BY <1>1, <1>2, <2>1
  <2> QED
    BY <1>1, <2>6, <2>7 DEF ClockInv, HolderKeepsAFullWindow
<1> QED
  BY <1>5, <1>6

LEMMA NextClockInv ==
  ASSUME MaxSkew = 0, IInv, ClockInv, [Next]_vars
  PROVE  ClockInv'
<1>1. now \in Nat
  BY DEF IInv, TypeOK, AmountsAssumption
<1>2. CASE UNCHANGED vars
  BY <1>1, <1>2, LaterKeepsClockInv DEF vars, standingVars
<1>3. ASSUME NEW p \in Keys, NEW t \in Treasuries, NEW a \in Admins, NEW g \in GenesisPrices,
             Initialize(p, t, a, g)
      PROVE  ClockInv'
  <2>1. DOMAIN win_record = {}
    BY <1>3 DEF IInv, TypeOK, Dormant, WinRecordsDense, Initialize
  <2>2. DOMAIN win_record' = {0}
    BY <1>3, <2>1 DEF Initialize, Put
  <2>3. holder_since' = now /\ now' = now /\ window_active' = FALSE
    BY <1>3 DEF Initialize
  <2> QED
    BY <1>1, <2>2, <2>3 DEF ClockInv, HolderKeepsAFullWindow
<1>4. CASE \E c \in Bidders, b \in BidAmounts, r \in Keys \cup {NoKey, Omitted} :
             Challenge(c, b, r)
  BY <1>4, ChallengeClockInv
<1>5. CASE \E c \in Keys, d \in Accounts : Settle(c, d)
  BY <1>5, SettleClockInv
<1>6. ASSUME NEW c \in Keys, NEW k \in Keys, NEW p \in Keys, ClaimRefund(c, k, p)
      PROVE  ClockInv'
  BY <1>1, <1>6, LaterKeepsClockInv DEF ClaimRefund, standingVars
<1>7. ASSUME NEW s \in Keys, NEW d \in Keys, WithdrawTreasury(s, d)
      PROVE  ClockInv'
  BY <1>1, <1>7, LaterKeepsClockInv DEF WithdrawTreasury, standingVars
<1>8. ASSUME NEW t \in Instants, Tick(t)
      PROVE  ClockInv'
  <2>1. now' = t /\ t \in Nat /\ t >= now /\ UNCHANGED <<holderVars, standingVars, windowVars>>
    BY <1>1, <1>8 DEF Tick, AmountsAssumption
  <2> QED
    BY <2>1, LaterKeepsClockInv DEF standingVars
<1>9. ASSUME NEW k \in Keys, NEW n \in StrayOrdinals, SendLamports(k, n)
      PROVE  ClockInv'
  BY <1>1, <1>9, LaterKeepsClockInv DEF SendLamports
<1> QED
  BY <1>2, <1>3, <1>4, <1>5, <1>6, <1>7, <1>8, <1>9 DEF Next, Instruction, Stray

\* On a clock that never steps back, every holder holds for a full window.
THEOREM HoldersKeepAFullWindow ==
  ASSUME MaxSkew = 0
  PROVE  Spec => []HolderKeepsAFullWindow
<1>1. Init => ClockInv
  BY DEF Init, ClockInv, HolderKeepsAFullWindow
<1>2. IInv /\ ClockInv /\ [Next]_vars => ClockInv'
  BY NextClockInv
<1>3. ClockInv => HolderKeepsAFullWindow
  BY DEF ClockInv
<1> QED
  BY <1>1, <1>2, <1>3, Invariance, PTL DEF Spec
=============================================================================
