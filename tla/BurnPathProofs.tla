--------------------------- MODULE BurnPathProofs ---------------------------
(* The burn path, proved for every price, depth and answer of the venues, any  *)
(* number of sweeps and promotions, and whatever strangers send in between.    *)
EXTENDS BurnPath, ToggleSupplyProofs

\* What a sweep needs of the auction, and what it needs of itself.
SweepInv ==
  /\ DOMAIN lamports = Accounts /\ lamports[BurnVault] \in Nat
  /\ top_bid_amount \in Nat
  /\ token_config \in TokenConfigs
  /\ burn_vault_toggld_ata \in Int /\ burn_vault_wsol_ata \in Nat
  /\ mint_supply \in Int /\ swapped \in Int
  /\ quote \in Quotes
  /\ IF Configured THEN initialized ELSE token_config.total_tokens_burned = 0
  /\ BurnVaultLive

USE KeysAssumption, AmountsAssumption, WidthAssumption, BurnAssumption

-----------------------------------------------------------------------------
(* Arithmetic of a sweep *)

\* A quotient rounded down is within one of what it divides, rounded up likewise.
LEMMA RoundedDown ==
  ASSUME NEW x \in Nat, NEW d \in Nat \ {0}
  PROVE  /\ x \div d \in Nat
         /\ d * (x \div d) <= x
         /\ x + 1 <= d * (x \div d) + d
  OBVIOUS

LEMMA RoundedUp ==
  ASSUME NEW x \in Nat, NEW d \in Nat \ {0}
  PROVE  (x + d - 1) \div d \in Nat /\ x <= d * ((x + d - 1) \div d)
<1> DEFINE y == x + d - 1
<1>1. y \in Nat
  OBVIOUS
<1> HIDE DEF y
<1>2. y \div d \in Nat /\ y + 1 <= d * (y \div d) + d
  BY <1>1, RoundedDown
<1> QED
  BY <1>1, <1>2 DEF y

LEMMA ProductsKeepOrder ==
  ASSUME NEW x \in Int, NEW y \in Int, x <= y, NEW k \in Nat
  PROVE  x * k <= y * k /\ k * x <= k * y
  OBVIOUS

\* Two quotients rounded down lose less than one token of price s * s and one
\* lamport's worth of the first quotient.
LEMMA TwoDivisions ==
  ASSUME NEW sweep \in Nat, NEW s \in Nat \ {0}
  PROVE  /\ expected_out(sweep, s) \in Nat
         /\ Price(s) \in Nat
         /\ sweep * Q64 <= (expected_out(sweep, s) + 1) * Price(s) + s
<1> DEFINE q1 == QuotedOnce(sweep, s)
           out == expected_out(sweep, s)
<1>1. Q64 \in Nat \ {0}
  BY DEF Q64, WidthAssumption
<1> DEFINE Q == Q64
<1>2. Q \in Nat \ {0}
  BY <1>1
<1> HIDE DEF Q
<1>3. sweep * Q \in Nat /\ s * s \in Nat
  BY <1>2
<1>4. q1 \in Nat /\ sweep * Q + 1 <= s * q1 + s
  <2> DEFINE x == sweep * Q
  <2>1. q1 = x \div s
    BY DEF QuotedOnce, Q
  <2>2. x \in Nat
    BY <1>3
  <2> HIDE DEF x, q1
  <2>3. x \div s \in Nat /\ x + 1 <= s * (x \div s) + s
    BY <2>2, RoundedDown
  <2> QED
    BY <2>1, <2>3 DEF x
<1>5. out \in Nat /\ q1 * Q + 1 <= s * out + s
  <2> DEFINE x == q1 * Q
  <2>1. out = x \div s
    BY DEF expected_out, Q
  <2> HIDE DEF q1
  <2>2. x \in Nat
    BY <1>2, <1>4
  <2> HIDE DEF x, out
  <2>3. x \div s \in Nat /\ x + 1 <= s * (x \div s) + s
    BY <2>2, RoundedDown
  <2> QED
    BY <2>1, <2>3 DEF x
<1>6. Price(s) \in Nat /\ s * s <= Q * Price(s)
  <2> DEFINE x == s * s
  <2>1. x \in Nat
    BY <1>3
  <2>2. Price(s) = (x + Q - 1) \div Q
    BY DEF Price, Q
  <2> HIDE DEF x
  <2>3. (x + Q - 1) \div Q \in Nat /\ x <= Q * ((x + Q - 1) \div Q)
    BY <1>2, <2>1, RoundedUp
  <2> QED
    BY <2>2, <2>3 DEF x
<1> DEFINE P == Price(s)
<1> HIDE DEF q1, out, P
<1>7. P \in Nat /\ s * s <= Q * P
  BY <1>6 DEF P
<1>8. sweep * Q <= (out + 1) * P + s
  <2>1. Q * (sweep * Q) + Q <= Q * (s * q1) + Q * s
    <3> DEFINE l == sweep * Q + 1
               r == s * q1 + s
    <3>1. l \in Int /\ r \in Int /\ l <= r
      BY <1>2, <1>4
    <3> HIDE DEF l, r
    <3>2. Q * l <= Q * r
      BY <1>2, <3>1, ProductsKeepOrder
    <3>3. Q * l = Q * (sweep * Q) + Q /\ Q * r = Q * (s * q1) + Q * s
      BY <1>2, <1>4 DEF l, r
    <3> QED
      BY <3>2, <3>3
  <2>2. s * (q1 * Q) + s <= s * (s * out) + s * s
    <3> DEFINE l == q1 * Q + 1
               r == s * out + s
    <3>1. l \in Int /\ r \in Int /\ l <= r
      BY <1>2, <1>4, <1>5
    <3> HIDE DEF l, r
    <3>2. s * l <= s * r
      BY <3>1, ProductsKeepOrder
    <3>3. s * l = s * (q1 * Q) + s /\ s * r = s * (s * out) + s * s
      BY <1>2, <1>4, <1>5 DEF l, r
    <3> QED
      BY <3>2, <3>3
  <2>3. Q * (s * q1) = s * (q1 * Q)
    BY <1>2, <1>4
  <2>4. s * (s * out) + s * s = (s * s) * (out + 1)
    BY <1>5
  <2>5. (s * s) * (out + 1) <= (Q * P) * (out + 1)
    <3> DEFINE l == s * s
               r == Q * P
               k == out + 1
    <3>1. l \in Int /\ r \in Int /\ l <= r /\ k \in Nat
      BY <1>2, <1>3, <1>5, <1>7
    <3> HIDE DEF l, r, k
    <3>2. l * k <= r * k
      BY <3>1, ProductsKeepOrder
    <3> QED
      BY <3>2 DEF l, r, k
  <2>6. (Q * P) * (out + 1) = Q * ((out + 1) * P)
    BY <1>2, <1>5, <1>7
  <2> DEFINE a == sweep * Q
             b == (out + 1) * P
             c == s * (q1 * Q)
  <2>7. a \in Int /\ b \in Int /\ c \in Int /\ Q * a \in Int /\ Q * b \in Int /\ Q * s \in Int
    BY <1>2, <1>4, <1>5, <1>7
  <2>8. Q * a <= c + Q * s /\ c <= Q * b
    <3>1. s * (s * out) + s * s <= Q * b
      BY <2>4, <2>5, <2>6 DEF b
    <3>2. /\ s * (s * out) + s * s \in Int /\ Q * (sweep * Q) \in Int
      BY <1>2, <1>5
    <3> HIDE DEF b
    <3> QED
      BY <1>2, <2>1, <2>2, <2>3, <2>7, <3>1, <3>2
  <2> HIDE DEF a, b, c
  <2>9. Q * a <= Q * (b + s)
    BY <1>2, <2>7, <2>8
  <2>10. a <= b + s
    <3> SUFFICES ASSUME a >= b + s + 1 PROVE FALSE
      BY <2>7
    <3>1. Q * (b + s + 1) <= Q * a
      BY <1>2, <2>7, ProductsKeepOrder
    <3>2. Q * (b + s + 1) = Q * (b + s) + Q
      BY <1>2, <2>7
    <3>3. Q * (b + s) \in Int
      BY <1>2, <2>7
    <3> QED
      BY <1>2, <2>7, <2>9, <3>1, <3>2, <3>3
  <2> QED
    BY <2>10 DEF a, b
<1> QED
  BY <1>5, <1>7, <1>8 DEF out, P, Q

\* A sweep that gets at least the floor keeps 95% of the price, but for rounding.
LEMMA FloorKeepsThePrice ==
  ASSUME NEW sweep \in Nat, NEW s \in Nat \ {0},
         NEW bps \in 0 .. MAX_SLIPPAGE_BPS_CEILING, NEW received \in Nat,
         received >= SlippageFloor(sweep, s, bps)
  PROVE  100 * ((received + 2) * Price(s) + s) >= 95 * (sweep * Q64)
<1> DEFINE out == expected_out(sweep, s)
           P == Price(s)
           worth == sweep * Q64
<1>1. /\ out \in Nat /\ P \in Nat /\ worth <= (out + 1) * P + s
  BY TwoDivisions
<1>2. worth \in Nat
  BY DEF Q64, WidthAssumption
<1>3. SlippageFloor(sweep, s, bps) = (out * (10000 - bps)) \div 10000
  BY DEF SlippageFloor
<1> HIDE DEF out, P, worth
<1>4. bps \in Nat /\ 9500 <= 10000 - bps /\ 10000 - bps \in Nat
  BY DEF MAX_SLIPPAGE_BPS_CEILING
<1>5. 95 * out <= 100 * (received + 1)
  <2> DEFINE x == out * (10000 - bps)
  <2>1. x \in Nat
    BY <1>1, <1>4
  <2>2. out * 9500 <= x
    <3> DEFINE k == 10000 - bps
    <3>1. k \in Int /\ 9500 <= k
      BY <1>4
    <3> HIDE DEF k
    <3>2. out * 9500 <= out * k
      BY <1>1, <3>1, ProductsKeepOrder
    <3> QED
      BY <3>2 DEF k
  <2> HIDE DEF x
  <2>3. x \div 10000 \in Nat /\ x + 1 <= 10000 * (x \div 10000) + 10000
    BY <2>1
  <2>4. x \div 10000 <= received
    <3>1. SlippageFloor(sweep, s, bps) = x \div 10000
      BY <1>3 DEF x
    <3> QED
      BY <2>3, <3>1
  <2> QED
    BY <1>1, <2>1, <2>2, <2>3, <2>4
<1>6. 95 * (out + 1) <= 100 * (received + 2)
  BY <1>1, <1>5
<1>7. (95 * (out + 1)) * P <= (100 * (received + 2)) * P
  <2> DEFINE l == 95 * (out + 1)
             r == 100 * (received + 2)
  <2>1. l \in Int /\ r \in Int /\ l <= r
    BY <1>1, <1>6
  <2> HIDE DEF l, r
  <2>2. l * P <= r * P
    BY <1>1, <2>1, ProductsKeepOrder
  <2> QED
    BY <2>2 DEF l, r
<1> DEFINE b == (out + 1) * P
           c == (received + 2) * P
<1>8. b \in Nat /\ c \in Nat /\ 95 * b <= 100 * c
  <2>1. (95 * (out + 1)) * P = 95 * b /\ (100 * (received + 2)) * P = 100 * c
    BY <1>1
  <2>2. b \in Nat /\ c \in Nat
    BY <1>1
  <2> HIDE DEF b, c
  <2> QED
    BY <1>7, <2>1, <2>2
<1>9. worth <= b + s
  BY <1>1
<1> HIDE DEF b, c
<1>10. 95 * worth <= 100 * (c + s)
  BY <1>2, <1>8, <1>9
<1> QED
  BY <1>10 DEF worth, c, P

LEMMA QuoteIsNatural ==
  ASSUME NEW sweep \in Nat, NEW sqrt_price \in Nat, sqrt_price > 0
  PROVE  expected_out(sweep, sqrt_price) \in Nat
  BY TwoDivisions

\* Whatever a venue is asked for and answers is a number of tokens.
LEMMA MinOutsAreNatural ==
  ASSUME SweepInv, Configured, Sweep \in Nat, NEW min_out \in MinOuts
  PROVE  min_out \in Nat
<1>1. \A q \in Quotes : q.sqrt_price \in Nat /\ q.reserve \in Nat
  BY DEF BurnAssumption
<1>2. token_config.max_slippage_bps \in 0 .. 500
  BY DEF SweepInv, TokenConfigs, MAX_SLIPPAGE_BPS_CEILING
<1>3. \A q \in Quotes, bps \in Nat :
        Quotable(Sweep, q.sqrt_price, bps) => expected_out(Sweep, q.sqrt_price) \in Nat
  BY <1>1, QuoteIsNatural DEF Quotable
<1>4. min_out \in Nat
  <2>1. CASE min_out \in {0, 1}
    BY <2>1
  <2>2. CASE min_out \notin {0, 1}
    <3>1. PICK q \in Quotes :
            /\ Quotable(Sweep, q.sqrt_price, token_config.max_slippage_bps)
            /\ \/ min_out = SlippageFloor(Sweep, q.sqrt_price, token_config.max_slippage_bps)
               \/ min_out = expected_out(Sweep, q.sqrt_price)
      BY <2>2 DEF MinOuts
    <3>2. expected_out(Sweep, q.sqrt_price) \in Nat
      BY <1>2, <1>3, <3>1
    <3> DEFINE kept == 10000 - token_config.max_slippage_bps
               out == expected_out(Sweep, q.sqrt_price)
    <3>3. kept \in Nat
      BY <1>2
    <3> HIDE DEF kept, out
    <3>4. out \in Nat
      BY <3>2 DEF out
    <3>5. out * kept \in Nat
      BY <3>3, <3>4
    <3> DEFINE product == out * kept
    <3> HIDE DEF product
    <3>6. product \div 10000 \in Nat
      BY <3>5 DEF product
    <3>7. SlippageFloor(Sweep, q.sqrt_price, token_config.max_slippage_bps) = product \div 10000
      BY DEF SlippageFloor, product, kept, out
    <3> QED
      BY <3>1, <3>2, <3>6, <3>7
  <2> QED
    BY <2>1, <2>2
<1> QED
  BY <1>4

LEMMA AnswersAreNatural ==
  ASSUME SweepInv, Configured, Sweep \in Nat, NEW min_out \in MinOuts,
         NEW received \in Answers(min_out)
  PROVE  received \in Nat
<1>1. quote \in Quotes /\ quote.sqrt_price \in Nat /\ quote.reserve \in Nat
  BY DEF SweepInv, BurnAssumption
<1>2. Quotable(Sweep, quote.sqrt_price, 0) => expected_out(Sweep, quote.sqrt_price) \in Nat
  BY <1>1, QuoteIsNatural DEF Quotable
<1> QED
  BY <1>1, <1>2, MinOutsAreNatural DEF Answers

-----------------------------------------------------------------------------
(* Steps of the auction *)

\* The auction never takes from the burn vault, and pays it only where settle
\* sends the burn leg.
LEMMA AuctionStep ==
  ASSUME SweepInv, Next
  PROVE  /\ DOMAIN lamports' = Accounts
         /\ lamports'[BurnVault] \in Nat /\ lamports'[BurnVault] >= lamports[BurnVault]
         /\ burn_address # BurnVault => lamports'[BurnVault] = lamports[BurnVault]
         /\ burn_address = BurnVault => lamports'[Incinerator] = lamports[Incinerator]
         /\ top_bid_amount' \in Nat
         /\ initialized => initialized' /\ burn_address' = burn_address
         /\ burn_address' = BurnVault => burn_address = BurnVault
<1> DEFINE Fine ==
         /\ DOMAIN lamports' = Accounts
         /\ lamports'[BurnVault] \in Nat /\ lamports'[BurnVault] >= lamports[BurnVault]
         /\ burn_address # BurnVault => lamports'[BurnVault] = lamports[BurnVault]
         /\ burn_address = BurnVault => lamports'[Incinerator] = lamports[Incinerator]
         /\ top_bid_amount' \in Nat
         /\ initialized => initialized' /\ burn_address' = burn_address
         /\ burn_address' = BurnVault => burn_address = BurnVault
<1>1. /\ DOMAIN lamports = Accounts /\ lamports[BurnVault] \in Nat /\ top_bid_amount \in Nat
      /\ Incinerator # BurnVault
  BY DEF SweepInv, KeysAssumption
<1>2. ASSUME DOMAIN lamports' = Accounts, lamports'[BurnVault] = lamports[BurnVault],
             lamports'[Incinerator] = lamports[Incinerator], top_bid_amount' \in Nat,
             initialized => initialized' /\ burn_address' = burn_address,
             burn_address' = BurnVault => burn_address = BurnVault
      PROVE  Fine
  BY <1>1, <1>2
<1>3. ASSUME NEW bal, DOMAIN bal = Accounts, NEW x, NEW y, NEW amount
      PROVE  /\ DOMAIN Debit(bal, x, amount) = Accounts
             /\ DOMAIN Credit(bal, x, amount) = Accounts
             /\ DOMAIN Pay(bal, x, y, amount) = Accounts
  BY <1>3 DEF Debit, Credit, Pay
<1>4. ASSUME NEW p \in Keys, NEW t \in Treasuries, NEW a \in Admins, NEW g \in GenesisPrices,
             Initialize(p, t, a, g)
      PROVE  Fine
  <2>1. /\ ~initialized /\ top_bid_amount' = 0 /\ burn_address' = Incinerator
        /\ lamports' = Credit(Debit(lamports, p, RentState + RentVault + RentWin), Vault, RentVault)
    BY <1>4 DEF Initialize
  <2>2. DOMAIN lamports' = Accounts
    BY <1>1, <1>3, <2>1
  <2>3. lamports'[BurnVault] = lamports[BurnVault] /\ lamports'[Incinerator] = lamports[Incinerator]
    BY <1>1, <1>4, BurnAddressesAside
  <2> QED
    BY <1>1, <1>2, <2>1, <2>2, <2>3
<1>5. ASSUME NEW c \in Bidders, NEW b \in BidAmounts, NEW r \in Keys \cup {NoKey, Omitted},
             Challenge(c, b, r)
      PROVE  Fine
  <2>1. /\ top_bid_amount' \in Nat /\ UNCHANGED <<initialized, burn_address>>
        /\ lamports' = Pay(Debit(Debit(lamports, c, InitRent(r)), Vault, Refunded), c, Vault, b)
    BY <1>5 DEF Challenge, standingVars, AmountsAssumption
  <2>2. DOMAIN lamports' = Accounts
    BY <1>1, <1>3, <2>1
  <2>3. lamports'[BurnVault] = lamports[BurnVault] /\ lamports'[Incinerator] = lamports[Incinerator]
    BY <1>1, <1>5, BurnAddressesAside
  <2> QED
    BY <1>2, <2>1, <2>2, <2>3
<1>6. ASSUME NEW c \in Keys, NEW d \in Accounts, Settle(c, d)
      PROVE  Fine
  <2> DEFINE burn == compute_split(top_bid_amount, FEE_BPS).burn
             paid == Debit(lamports, c, IF flipped THEN RentWin ELSE 0)
             drawn == Debit(paid, Vault, burn)
  <2>1. /\ d = burn_address /\ top_bid_amount' = 0
        /\ UNCHANGED <<initialized, burn_address>>
        /\ lamports' = Credit(drawn, d, burn)
    BY <1>6 DEF Settle, standingVars, Pay
  <2>2. burn \in Nat
    BY <1>1, SplitIsExact
  <2>3. /\ Incinerator \in Accounts /\ BurnVault \in Accounts
        /\ c \notin {Incinerator, BurnVault} /\ Vault \notin {Incinerator, BurnVault}
    BY DEF Accounts, KeysAssumption
  <2>4. DOMAIN paid = Accounts /\ \A a \in {Incinerator, BurnVault} : paid[a] = lamports[a]
    BY <1>1, <2>3 DEF Debit
  <2> HIDE DEF paid, burn
  <2>5. DOMAIN drawn = Accounts /\ \A a \in {Incinerator, BurnVault} : drawn[a] = paid[a]
    BY <2>3, <2>4 DEF Debit
  <2> HIDE DEF drawn
  <2>6. /\ DOMAIN lamports' = Accounts /\ lamports'[d] = drawn[d] + burn
        /\ \A a \in {Incinerator, BurnVault} \ {d} : lamports'[a] = drawn[a]
    BY <2>1, <2>3, <2>5 DEF Credit
  <2>7. /\ d # BurnVault => lamports'[BurnVault] = lamports[BurnVault]
        /\ d = BurnVault => lamports'[BurnVault] = lamports[BurnVault] + burn
                            /\ lamports'[Incinerator] = lamports[Incinerator]
    BY <1>1, <2>4, <2>5, <2>6
  <2> QED
    BY <1>1, <2>1, <2>2, <2>6, <2>7
<1>7. ASSUME NEW c \in Keys, NEW k \in Keys, NEW p \in Keys, ClaimRefund(c, k, p)
      PROVE  Fine
  <2>1. /\ UNCHANGED <<initialized, burn_address, top_bid_amount>>
        /\ lamports' = Credit(Credit(lamports, c, refund[k].amount), p,
                              refund[k].lamports - refund[k].amount)
    BY <1>7 DEF ClaimRefund, standingVars, windowVars
  <2>2. DOMAIN lamports' = Accounts
    BY <1>1, <1>3, <2>1
  <2>3. lamports'[BurnVault] = lamports[BurnVault] /\ lamports'[Incinerator] = lamports[Incinerator]
    BY <1>1, <1>7, BurnAddressesAside
  <2> QED
    BY <1>1, <1>2, <2>1, <2>2, <2>3
<1>8. ASSUME NEW s \in Keys, NEW d \in Keys, WithdrawTreasury(s, d)
      PROVE  Fine
  <2>1. /\ UNCHANGED <<initialized, burn_address, top_bid_amount>>
        /\ lamports' = Pay(lamports, Vault, d, treasury_balance)
    BY <1>8 DEF WithdrawTreasury, standingVars, windowVars
  <2>2. DOMAIN lamports' = Accounts
    BY <1>1, <1>3, <2>1
  <2>3. lamports'[BurnVault] = lamports[BurnVault] /\ lamports'[Incinerator] = lamports[Incinerator]
    BY <1>1, <1>8, BurnAddressesAside
  <2> QED
    BY <1>1, <1>2, <2>1, <2>2, <2>3
<1>9. ASSUME NEW t \in Instants, Tick(t)
      PROVE  Fine
  BY <1>1, <1>9 DEF Tick, standingVars, windowVars, moneyVars
<1>10. ASSUME NEW k \in Keys, NEW n \in StrayOrdinals, SendLamports(k, n)
       PROVE  Fine
  <2>1. /\ UNCHANGED <<initialized, burn_address, top_bid_amount>>
        /\ lamports' = Debit(lamports, k, RentVault)
    BY <1>10 DEF SendLamports, windowVars
  <2>2. /\ BurnVault \in Accounts \ {k} /\ Incinerator \in Accounts \ {k}
    BY DEF Accounts, KeysAssumption
  <2>3. /\ DOMAIN lamports' = Accounts
        /\ lamports'[BurnVault] = lamports[BurnVault]
        /\ lamports'[Incinerator] = lamports[Incinerator]
    BY <1>1, <2>1, <2>2 DEF Debit
  <2> QED
    BY <1>1, <1>2, <2>1, <2>3
<1> HIDE DEF Fine
<1>11. Fine
  BY <1>4, <1>5, <1>6, <1>7, <1>8, <1>9, <1>10, Zenon DEF Next, Instruction, Stray
<1> QED
  BY <1>11 DEF Fine

-----------------------------------------------------------------------------
(* One sweep *)

\* A sweep in numbers: what leaves the burn vault, what comes back to it, what
\* it burns and what it counts.
LEMMA SweepEffects ==
  ASSUME SweepInv, NEW caller \in Keys, SomeSweep(caller)
  PROVE  /\ DOMAIN lamports' = Accounts
         /\ lamports'[BurnVault] \in Nat /\ lamports'[BurnVault] >= RentVault
         /\ lamports'[Incinerator] = lamports[Incinerator]
         /\ lamports'[BurnVault] + burn_vault_wsol_ata' + swapped'
              >= lamports[BurnVault] + burn_vault_wsol_ata + swapped
         /\ burn_vault_wsol_ata' = 0 /\ swapped' \in Int
         /\ burn_vault_toggld_ata' = burn_vault_toggld_ata
         /\ token_config' \in TokenConfigs /\ mint_supply' \in Int
         /\ token_config'.toggld_mint = token_config.toggld_mint
         /\ mint_supply' + token_config'.total_tokens_burned
              = mint_supply + token_config.total_tokens_burned
         /\ Configured /\ quote' \in Quotes
         /\ UNCHANGED <<initialized, burn_address, top_bid_amount>>
<1>0. PICK route \in Routes, unspent \in Dusts, min_out \in MinOuts :
        \E received \in Answers(min_out) :
          BurnTokens(caller, route, min_out, received, unspent)
  BY DEF SomeSweep
<1>1. PICK received \in Answers(min_out) :
        BurnTokens(caller, route, min_out, received, unspent) /\ Configured
  BY <1>0 DEF BurnTokens
<1>2. /\ lamports[BurnVault] \in Nat /\ lamports[BurnVault] >= RentVault /\ RentVault \in Nat
      /\ DOMAIN lamports = Accounts /\ caller \in Accounts /\ caller # BurnVault
      /\ BurnVault \in Accounts /\ Incinerator \in Accounts
      /\ Incinerator \notin {caller, BurnVault}
      /\ burn_vault_wsol_ata \in Nat /\ swapped \in Int /\ mint_supply \in Int
      /\ burn_vault_toggld_ata \in Int
  BY <1>1 DEF SweepInv, BurnVaultLive, Accounts, KeysAssumption, AmountsAssumption
<1>3. Sweep \in Nat /\ lamports[BurnVault] - Sweep = RentVault /\ Sweep \in Int
  BY <1>2 DEF Sweep
<1>4. unspent \in Nat /\ WsolRent \in Nat
  BY DEF BurnAssumption, WsolRent
<1>5. received \in Nat
  BY <1>1, <1>3, AnswersAreNatural
<1> DEFINE back == burn_vault_wsol_ata + WsolRent + unspent
           one == Debit(lamports, caller, WsolRent)
           two == Debit(one, BurnVault, Sweep)
<1>6. back \in Nat /\ back = burn_vault_wsol_ata + WsolRent + unspent
  BY <1>2, <1>4
<1>7. lamports' = Credit(two, BurnVault, back)
  BY <1>1 DEF BurnTokens, CloseTo
<1> HIDE DEF back
<1>8. /\ DOMAIN one = Accounts /\ one[BurnVault] = lamports[BurnVault]
      /\ one[Incinerator] = lamports[Incinerator]
  BY <1>2 DEF Debit
<1> HIDE DEF one
<1>9. /\ DOMAIN two = Accounts /\ two[BurnVault] = RentVault
      /\ two[Incinerator] = lamports[Incinerator]
  BY <1>2, <1>3, <1>8 DEF Debit
<1> HIDE DEF two
<1>10. /\ DOMAIN lamports' = Accounts /\ lamports'[BurnVault] = RentVault + back
       /\ lamports'[Incinerator] = lamports[Incinerator]
  BY <1>2, <1>7, <1>9 DEF Credit
<1>11. /\ swapped' = swapped + Sweep - unspent /\ burn_vault_wsol_ata' = 0
       /\ UNCHANGED <<initialized, burn_address, top_bid_amount>>
  BY <1>1 DEF BurnTokens, standingVars, windowVars
<1>12. /\ lamports'[BurnVault] \in Nat /\ lamports'[BurnVault] >= RentVault /\ swapped' \in Int
       /\ lamports'[BurnVault] + burn_vault_wsol_ata' + swapped'
            >= lamports[BurnVault] + burn_vault_wsol_ata + swapped
  BY <1>2, <1>3, <1>4, <1>6, <1>10, <1>11
<1>13. /\ mint_supply' = mint_supply - received
       /\ burn_vault_toggld_ata' = burn_vault_toggld_ata + received - received
       /\ token_config' = [token_config EXCEPT !.total_tokens_burned = @ + received]
       /\ quote' \in Quotes
  BY <1>1 DEF BurnTokens, Burned, Swap2, VenueAnswers
<1>14. /\ token_config' \in TokenConfigs
       /\ token_config'.toggld_mint = token_config.toggld_mint
       /\ token_config'.total_tokens_burned = token_config.total_tokens_burned + received
       /\ token_config.total_tokens_burned \in Nat
  <2>1. token_config \in TokenConfigs
    BY DEF SweepInv
  <2> QED
    BY <1>5, <1>13, <2>1 DEF TokenConfigs
<1>15. /\ burn_vault_toggld_ata' = burn_vault_toggld_ata /\ mint_supply' \in Int
       /\ mint_supply' + token_config'.total_tokens_burned
            = mint_supply + token_config.total_tokens_burned
  BY <1>2, <1>5, <1>13, <1>14
<1> QED
  BY <1>1, <1>10, <1>11, <1>12, <1>13, <1>14, <1>15

-----------------------------------------------------------------------------
(* Steps of the admin and of outsiders *)

LEMMA SetupTokenEffects ==
  ASSUME SweepInv, NEW s \in Keys, NEW m \in Mints, NEW routing \in SetupRoutings,
         NEW bps \in Slippages, SetupToken(s, m, routing, bps)
  PROVE  /\ ~Configured /\ Configured' /\ initialized /\ initialized'
         /\ burn_address' = BurnVault
         /\ DOMAIN lamports' = Accounts /\ lamports'[BurnVault] = RentVault
         /\ token_config' \in TokenConfigs
         /\ token_config'.total_tokens_burned = 0
         /\ UNCHANGED <<top_bid_amount, burn_vault_toggld_ata, burn_vault_wsol_ata,
                        mint_supply, swapped, quote>>
<1> DEFINE rent == RentConfig + RentVault + RentAta
           one == Debit(lamports, s, rent)
<1>1. /\ DOMAIN lamports = Accounts /\ BurnVault \in Accounts /\ s # BurnVault
      /\ lamports[BurnVault] = 0 /\ RentVault \in Nat
  BY DEF SweepInv, SetupToken, Accounts, KeysAssumption, AmountsAssumption
<1>2. DOMAIN one = Accounts /\ one[BurnVault] = 0
  BY <1>1 DEF Debit
<1>3. lamports' = Credit(one, BurnVault, RentVault)
  BY DEF SetupToken
<1> HIDE DEF one
<1>4. DOMAIN lamports' = Accounts /\ lamports'[BurnVault] = RentVault
  BY <1>1, <1>2, <1>3 DEF Credit
<1>5. /\ routing.venue \in {VENUE_DBC_CURVE, VENUE_DAMM_V1, VENUE_DAMM_V2}
      /\ bps \in Nat /\ bps <= MAX_SLIPPAGE_BPS_CEILING
      /\ routing.pool_address \in Pools /\ routing.venue_config \in PoolConfigs
      /\ m # NoKey
  BY DEF SetupToken, SlippageAllowed, BurnAssumption, Routing
<1>6. /\ token_config' = [toggld_mint |-> m, venue |-> routing.venue,
                          pool_address |-> routing.pool_address,
                          venue_config |-> routing.venue_config,
                          max_slippage_bps |-> bps, total_tokens_burned |-> 0]
      /\ ~Configured /\ initialized /\ initialized' = initialized /\ burn_address' = BurnVault
      /\ UNCHANGED <<top_bid_amount, burn_vault_toggld_ata, burn_vault_wsol_ata,
                     mint_supply, swapped, quote>>
  BY DEF SetupToken, Repointed, standingVars, windowVars, marketVars
<1>7. /\ token_config' \in TokenConfigs /\ token_config'.total_tokens_burned = 0
      /\ token_config'.toggld_mint = m
  BY <1>5, <1>6 DEF TokenConfigs, MAX_SLIPPAGE_BPS_CEILING
<1> QED
  BY <1>4, <1>5, <1>6, <1>7 DEF Configured

\* Promotions and what outsiders do touch neither the burn vault's lamports nor
\* the supply, and take nothing out of the vault's token accounts.
LEMMA OtherEffects ==
  ASSUME SweepInv,
         \/ \E s \in Keys, r \in PromotedRoutings : PromoteBurnVenue(s, r)
         \/ OutsideStep
         \/ UNCHANGED allVars
  PROVE  /\ DOMAIN lamports' = Accounts
         /\ lamports'[BurnVault] = lamports[BurnVault]
         /\ lamports'[Incinerator] = lamports[Incinerator]
         /\ UNCHANGED <<initialized, burn_address, top_bid_amount, mint_supply, swapped>>
         /\ token_config' \in TokenConfigs
         /\ token_config'.toggld_mint = token_config.toggld_mint
         /\ token_config'.total_tokens_burned = token_config.total_tokens_burned
         /\ burn_vault_wsol_ata' \in Nat /\ burn_vault_wsol_ata' >= burn_vault_wsol_ata
         /\ burn_vault_toggld_ata' \in Int /\ quote' \in Quotes
<1> DEFINE Untouched == UNCHANGED <<initialized, burn_address, top_bid_amount, mint_supply, swapped>>
<1>1. /\ DOMAIN lamports = Accounts /\ token_config \in TokenConfigs
      /\ burn_vault_toggld_ata \in Int /\ burn_vault_wsol_ata \in Nat /\ quote \in Quotes
  BY DEF SweepInv
<1>2. CASE UNCHANGED allVars
  BY <1>1, <1>2 DEF allVars, burnVars, marketVars, vars, standingVars, windowVars, moneyVars
<1>3. ASSUME NEW s \in Keys, NEW r \in PromotedRoutings, PromoteBurnVenue(s, r)
      PROVE  /\ token_config' \in TokenConfigs
             /\ token_config'.toggld_mint = token_config.toggld_mint
             /\ token_config'.total_tokens_burned = token_config.total_tokens_burned
             /\ UNCHANGED <<vars, burn_vault_toggld_ata, burn_vault_wsol_ata, mint_supply,
                            swapped, quote>>
  <2>1. /\ r.venue = VENUE_DAMM_V2 /\ r.pool_address \in Pools /\ r.venue_config \in PoolConfigs
    BY <1>3 DEF PromoteBurnVenue, BurnAssumption, Routing
  <2> QED
    BY <1>1, <1>3, <2>1 DEF PromoteBurnVenue, TokenConfigs, marketVars
<1>4. ASSUME NEW k \in Keys, NEW g \in WsolGifts, OpenWsolAta(k, g)
      PROVE  /\ DOMAIN lamports' = Accounts
             /\ lamports'[BurnVault] = lamports[BurnVault]
             /\ lamports'[Incinerator] = lamports[Incinerator]
             /\ Untouched
             /\ burn_vault_wsol_ata' \in Nat /\ burn_vault_wsol_ata' >= burn_vault_wsol_ata
             /\ UNCHANGED <<token_config, burn_vault_toggld_ata, quote>>
  <2>1. /\ RentAta + g \in Nat /\ burn_vault_wsol_ata = 0 /\ burn_vault_wsol_ata' = RentAta + g
        /\ lamports' = Debit(lamports, k, RentAta + g)
        /\ UNCHANGED <<token_config, burn_vault_toggld_ata, quote>> /\ Untouched
    BY <1>4 DEF OpenWsolAta, BurnAssumption, standingVars, windowVars, marketVars
  <2>2. /\ BurnVault \in Accounts \ {k} /\ Incinerator \in Accounts \ {k}
    BY DEF Accounts, KeysAssumption
  <2>3. /\ DOMAIN lamports' = Accounts
        /\ lamports'[BurnVault] = lamports[BurnVault]
        /\ lamports'[Incinerator] = lamports[Incinerator]
    BY <1>1, <2>1, <2>2 DEF Debit
  <2> QED
    BY <2>1, <2>3
<1>12. ASSUME NEW k \in Keys, NEW m \in StrayMints, OpenToggldAta(k, m)
      PROVE  /\ DOMAIN lamports' = Accounts
             /\ lamports'[BurnVault] = lamports[BurnVault]
             /\ lamports'[Incinerator] = lamports[Incinerator]
             /\ Untouched
             /\ UNCHANGED <<token_config, burn_vault_toggld_ata, burn_vault_wsol_ata, quote>>
  <2>1. /\ lamports' = Debit(lamports, k, RentAta)
        /\ UNCHANGED <<token_config, burn_vault_toggld_ata, burn_vault_wsol_ata, quote>>
        /\ Untouched
    BY <1>12 DEF OpenToggldAta, standingVars, windowVars
  <2>2. /\ BurnVault \in Accounts \ {k} /\ Incinerator \in Accounts \ {k}
    BY DEF Accounts, KeysAssumption
  <2>3. /\ DOMAIN lamports' = Accounts
        /\ lamports'[BurnVault] = lamports[BurnVault]
        /\ lamports'[Incinerator] = lamports[Incinerator]
    BY <1>1, <2>1, <2>2 DEF Debit
  <2> QED
    BY <2>1, <2>3
<1>5. ASSUME NEW g \in TokenGifts, SendTokens(g)
      PROVE  /\ burn_vault_toggld_ata' \in Int
             /\ UNCHANGED <<vars, token_config, burn_vault_wsol_ata, mint_supply, swapped, quote>>
  BY <1>5 DEF SendTokens, BurnAssumption, marketVars
<1>6. ASSUME \/ \E q \in Quotes : Trade(q)
             \/ Graduate
      PROVE  /\ quote' \in Quotes
             /\ UNCHANGED <<vars, token_config, burn_vault_toggld_ata, burn_vault_wsol_ata,
                            mint_supply, swapped>>
  BY <1>6 DEF Trade, Graduate
<1>7. ASSUME UNCHANGED vars
      PROVE  UNCHANGED <<lamports, initialized, burn_address, top_bid_amount>>
  BY <1>7 DEF vars, standingVars, windowVars, moneyVars
<1>8. CASE \E s \in Keys, r \in PromotedRoutings : PromoteBurnVenue(s, r)
  BY <1>1, <1>3, <1>7, <1>8
<1>9. CASE \E k \in Keys, g \in WsolGifts : OpenWsolAta(k, g)
  BY <1>1, <1>4, <1>9
<1>10. CASE \E g \in TokenGifts : SendTokens(g)
  BY <1>1, <1>5, <1>7, <1>10
<1>11. CASE (\E q \in Quotes : Trade(q)) \/ Graduate
  BY <1>1, <1>6, <1>7, <1>11
<1>13. CASE \E k \in Keys, m \in StrayMints : OpenToggldAta(k, m)
  BY <1>1, <1>12, <1>13
<1> QED
  BY <1>2, <1>8, <1>9, <1>10, <1>11, <1>13 DEF OutsideStep

-----------------------------------------------------------------------------
(* The invariant *)

LEMMA BurnInitInv == BurnInit => SweepInv
<1> SUFFICES ASSUME BurnInit PROVE SweepInv
  OBVIOUS
<1>1. /\ DOMAIN lamports = Accounts /\ lamports[BurnVault] = 0 /\ top_bid_amount = 0
      /\ burn_address = NoKey
  BY DEF BurnInit, Init, Accounts, KeysAssumption
<1>2. token_config \in TokenConfigs /\ ~Configured
  BY DEF BurnInit, TokenConfigs, Configured, BurnAssumption, Pools, PoolConfigs,
     VENUE_DBC_CURVE, MAX_SLIPPAGE_BPS_CEILING
<1>3. burn_address # BurnVault
  BY <1>1 DEF KeysAssumption, Accounts
<1> QED
  BY <1>1, <1>2, <1>3 DEF BurnInit, SweepInv, BurnVaultLive, BurnAssumption

LEMMA BurnNextInv == SweepInv /\ [BurnNext]_allVars => SweepInv'
<1> SUFFICES ASSUME SweepInv, [BurnNext]_allVars PROVE SweepInv'
  OBVIOUS
<1>0. RentVault \in Nat
  BY DEF AmountsAssumption
<1>1. CASE Next /\ UNCHANGED burnVars
  <2>1. UNCHANGED <<token_config, burn_vault_toggld_ata, burn_vault_wsol_ata, mint_supply,
                    swapped, quote>>
    BY <1>1 DEF burnVars, marketVars
  <2>2. /\ DOMAIN lamports' = Accounts
        /\ lamports'[BurnVault] \in Nat /\ lamports'[BurnVault] >= lamports[BurnVault]
        /\ burn_address # BurnVault => lamports'[BurnVault] = lamports[BurnVault]
        /\ top_bid_amount' \in Nat
        /\ initialized => initialized' /\ burn_address' = burn_address
        /\ burn_address' = BurnVault => burn_address = BurnVault
    BY <1>1, AuctionStep
  <2>3. /\ Configured <=> burn_address = BurnVault
        /\ IF Configured THEN lamports[BurnVault] >= RentVault ELSE lamports[BurnVault] = 0
        /\ lamports[BurnVault] \in Nat
        /\ Configured => initialized
    BY DEF SweepInv, BurnVaultLive
  <2>4. Configured' <=> Configured
    BY <2>1 DEF Configured
  <2>5. BurnVaultLive'
    <3>1. CASE Configured
      <4>1. burn_address = BurnVault /\ burn_address' = BurnVault /\ Configured'
        BY <2>2, <2>3, <2>4, <3>1, Zenon
      <4>2. lamports'[BurnVault] >= RentVault
        BY <1>0, <2>2, <2>3, <3>1
      <4> QED
        BY <4>1, <4>2 DEF BurnVaultLive
    <3>2. CASE ~Configured
      <4>1. burn_address # BurnVault /\ burn_address' # BurnVault /\ ~Configured'
        BY <2>2, <2>3, <2>4, <3>2, Zenon
      <4>2. lamports'[BurnVault] = 0
        BY <2>2, <2>3, <3>2, <4>1
      <4> QED
        BY <4>1, <4>2 DEF BurnVaultLive
    <3> QED
      BY <3>1, <3>2
  <2> QED
    BY <2>1, <2>2, <2>3, <2>4, <2>5 DEF SweepInv
<1>2. CASE \E s \in Keys, m \in Mints, r \in SetupRoutings, b \in Slippages :
             SetupToken(s, m, r, b)
  <2>1. /\ Configured' /\ initialized' /\ burn_address' = BurnVault
        /\ DOMAIN lamports' = Accounts /\ lamports'[BurnVault] = RentVault
        /\ token_config' \in TokenConfigs
        /\ UNCHANGED <<top_bid_amount, burn_vault_toggld_ata, burn_vault_wsol_ata,
                       mint_supply, swapped, quote>>
    BY <1>2, SetupTokenEffects
  <2> QED
    BY <1>0, <2>1 DEF SweepInv, BurnVaultLive
<1>3. CASE \E k \in Keys : SomeSweep(k)
  <2>1. PICK k \in Keys : SomeSweep(k)
    BY <1>3
  <2>2. /\ DOMAIN lamports' = Accounts
        /\ lamports'[BurnVault] \in Nat /\ lamports'[BurnVault] >= RentVault
        /\ burn_vault_wsol_ata' = 0 /\ swapped' \in Int
        /\ burn_vault_toggld_ata' = burn_vault_toggld_ata
        /\ token_config' \in TokenConfigs /\ mint_supply' \in Int
        /\ token_config'.toggld_mint = token_config.toggld_mint
        /\ Configured /\ quote' \in Quotes
        /\ UNCHANGED <<initialized, burn_address, top_bid_amount>>
    BY <2>1, SweepEffects
  <2>3. Configured' <=> Configured
    BY <2>2 DEF Configured
  <2> QED
    BY <2>2, <2>3 DEF SweepInv, BurnVaultLive
<1>4. CASE \/ \E s \in Keys, r \in PromotedRoutings : PromoteBurnVenue(s, r)
           \/ OutsideStep
           \/ UNCHANGED allVars
  <2>1. /\ DOMAIN lamports' = Accounts
        /\ lamports'[BurnVault] = lamports[BurnVault]
        /\ UNCHANGED <<initialized, burn_address, top_bid_amount, mint_supply, swapped>>
        /\ token_config' \in TokenConfigs
        /\ token_config'.toggld_mint = token_config.toggld_mint
        /\ token_config'.total_tokens_burned = token_config.total_tokens_burned
        /\ burn_vault_wsol_ata' \in Nat /\ burn_vault_toggld_ata' \in Int /\ quote' \in Quotes
    BY <1>4, OtherEffects
  <2>2. Configured' <=> Configured
    BY <2>1 DEF Configured
  <2> QED
    BY <2>1, <2>2 DEF SweepInv, BurnVaultLive
<1> QED
  BY <1>1, <1>2, <1>3, <1>4 DEF BurnNext, AdminStep, Next

-----------------------------------------------------------------------------
(* The auction beside the burn path *)

\* Only what the auction does not look at has changed: lamports outside its
\* vault, and the burn address once, from the incinerator to the burn vault.
LEMMA AuctionUntouched ==
  ASSUME IInv, lamports' \in [Accounts -> Nat], lamports'[Vault] = lamports[Vault],
         UNCHANGED <<holderVars, standingVars, windowVars, escrowed_amount,
                     treasury_balance, refund, now>>,
         burn_address' = burn_address \/ (initialized /\ burn_address' = BurnVault)
  PROVE  IInv'
<1>1. Dormant' /\ WinRecordsDense' /\ WinsAlternate'
  BY KeepWins DEF standingVars
<1>2. EscrowIsTopBid' /\ TopBidClearsRaise'
  BY KeepWindow DEF standingVars
<1>3. TypeOK'
  BY DEF IInv, TypeOK, holderVars, standingVars, windowVars
<1>4. VaultSolvent' /\ RefundsBacked'
  BY DEF IInv, VaultSolvent, RefundsBacked, standingVars
<1> QED
  BY <1>1, <1>2, <1>3, <1>4 DEF IInv

\* The burn vault's account never holds more tokens than there are.
BurnInv ==
  /\ IInv
  /\ SweepInv
  /\ BurnTypeOK
  /\ burn_vault_toggld_ata <= mint_supply

LEMMA BurnInitBurnInv == BurnInit => BurnInv
<1> SUFFICES ASSUME BurnInit PROVE BurnInv
  OBVIOUS
<1>1. IInv /\ SweepInv
  BY InitIInv, BurnInitInv DEF BurnInit
<1>2. TypeOK /\ token_config \in TokenConfigs
  BY <1>1 DEF IInv, SweepInv
<1>3. /\ burn_vault_toggld_ata = 0 /\ burn_vault_wsol_ata = 0 /\ swapped = 0
      /\ mint_supply \in Nat /\ quote \in Quotes /\ graduated \in BOOLEAN
      /\ opened_atas \subseteq Mints
  BY DEF BurnInit, BurnAssumption
<1>4. BurnTypeOK
  BY <1>2, <1>3 DEF BurnTypeOK
<1> QED
  BY <1>1, <1>3, <1>4 DEF BurnInv

LEMMA SetupTokenBurnInv ==
  ASSUME BurnInv, NEW s \in Keys, NEW m \in Mints, NEW routing \in SetupRoutings,
         NEW bps \in Slippages, SetupToken(s, m, routing, bps)
  PROVE  IInv' /\ BurnTypeOK' /\ burn_vault_toggld_ata' <= mint_supply'
<1> DEFINE rent == RentConfig + RentVault + RentAta
           one == Debit(lamports, s, rent)
<1>1. /\ lamports \in [Accounts -> Nat] /\ lamports[s] >= rent /\ rent \in Nat
      /\ s \in Accounts /\ BurnVault \in Accounts /\ Vault \in Accounts
      /\ s # BurnVault /\ Vault \notin {s, BurnVault} /\ RentVault \in Nat
  BY DEF BurnInv, IInv, TypeOK, SetupToken, Accounts, KeysAssumption, AmountsAssumption,
     BurnAssumption
<1>2. lamports' = Credit(one, BurnVault, RentVault)
  BY DEF SetupToken
<1> HIDE DEF rent
<1>3. one \in [Accounts -> Nat] /\ one[Vault] = lamports[Vault]
  BY <1>1 DEF Debit
<1> HIDE DEF one
<1>4. lamports' \in [Accounts -> Nat] /\ lamports'[Vault] = lamports[Vault]
  BY <1>1, <1>2, <1>3 DEF Credit
<1>5. IInv'
  BY <1>4, AuctionUntouched DEF BurnInv, SetupToken, Repointed
<1>6. token_config' \in TokenConfigs
  BY SetupTokenEffects DEF BurnInv
<1>7. UNCHANGED <<burn_vault_toggld_ata, burn_vault_wsol_ata, mint_supply, swapped, quote,
                  graduated, opened_atas>>
  BY DEF SetupToken, marketVars
<1>8. TypeOK'
  BY <1>5 DEF IInv
<1> QED
  BY <1>5, <1>6, <1>7, <1>8 DEF BurnInv, BurnTypeOK

LEMMA SweepBurnInv ==
  ASSUME BurnInv, NEW caller \in Keys, SomeSweep(caller)
  PROVE  IInv' /\ BurnTypeOK' /\ burn_vault_toggld_ata' <= mint_supply'
<1>0. PICK route \in Routes, unspent \in Dusts, min_out \in MinOuts :
        \E received \in Answers(min_out) :
          BurnTokens(caller, route, min_out, received, unspent)
  BY DEF SomeSweep
<1>1. PICK received \in Answers(min_out) :
        BurnTokens(caller, route, min_out, received, unspent) /\ Configured
  BY <1>0 DEF BurnTokens
<1>2. /\ lamports \in [Accounts -> Nat] /\ RentVault \in Nat
      /\ caller \in Accounts /\ BurnVault \in Accounts /\ Vault \in Accounts
      /\ caller # BurnVault /\ Vault \notin {caller, BurnVault}
      /\ lamports[BurnVault] >= RentVault
      /\ burn_vault_wsol_ata \in Nat /\ burn_vault_toggld_ata \in Nat
      /\ mint_supply \in Nat /\ swapped \in Nat /\ graduated \in BOOLEAN
  BY <1>1 DEF BurnInv, IInv, TypeOK, SweepInv, BurnVaultLive, BurnTypeOK, Accounts,
     KeysAssumption, AmountsAssumption
<1>3. Sweep \in Nat /\ lamports[BurnVault] - Sweep = RentVault
  BY <1>2 DEF Sweep
<1>4. unspent \in Nat /\ unspent <= Sweep /\ WsolRent \in Nat /\ lamports[caller] >= WsolRent
  BY <1>1 DEF BurnAssumption, WsolRent, BurnTokens, Swap2, VenueAnswers
<1>5. received \in Nat /\ received <= mint_supply - burn_vault_toggld_ata
  <2>1. received \in Nat
    BY <1>1, <1>3, AnswersAreNatural DEF BurnInv
  <2> QED
    BY <1>1, <2>1 DEF BurnTokens, Swap2, VenueAnswers, Circulating
<1> DEFINE back == burn_vault_wsol_ata + WsolRent + unspent
           one == Debit(lamports, caller, WsolRent)
           two == Debit(one, BurnVault, Sweep)
<1>6. back \in Nat
  BY <1>2, <1>4
<1>7. lamports' = Credit(two, BurnVault, back)
  BY <1>1 DEF BurnTokens, CloseTo
<1> HIDE DEF back
<1>8. /\ one \in [Accounts -> Nat] /\ one[BurnVault] = lamports[BurnVault]
      /\ one[Vault] = lamports[Vault]
  BY <1>2, <1>4 DEF Debit
<1> HIDE DEF one
<1>9. two \in [Accounts -> Nat] /\ two[Vault] = lamports[Vault]
  BY <1>2, <1>3, <1>8 DEF Debit
<1> HIDE DEF two
<1>10. lamports' \in [Accounts -> Nat] /\ lamports'[Vault] = lamports[Vault]
  BY <1>2, <1>6, <1>7, <1>9 DEF Credit
<1>11. IInv'
  BY <1>1, <1>10, AuctionUntouched DEF BurnInv, BurnTokens
<1>12. /\ mint_supply' = mint_supply - received /\ graduated' = graduated
       /\ opened_atas' \subseteq Mints
       /\ swapped' = swapped + Sweep - unspent /\ burn_vault_wsol_ata' = 0
       /\ burn_vault_toggld_ata' = burn_vault_toggld_ata
       /\ token_config' \in TokenConfigs /\ quote' \in Quotes
  <2>1. opened_atas' = opened_atas /\ opened_atas \subseteq Mints
    BY <1>1 DEF BurnInv, BurnTypeOK, BurnTokens, Swap2, VenueAnswers
  <2> QED
    BY <1>1, <2>1, SweepEffects DEF BurnInv, BurnTokens, Burned, Swap2, VenueAnswers
<1>13. mint_supply' \in Nat /\ swapped' \in Nat /\ burn_vault_toggld_ata' <= mint_supply'
  BY <1>2, <1>3, <1>4, <1>5, <1>12
<1>14. TypeOK'
  BY <1>11 DEF IInv
<1> QED
  BY <1>2, <1>11, <1>12, <1>13, <1>14 DEF BurnTypeOK

LEMMA OutsideBurnInv ==
  ASSUME BurnInv, OutsideStep
  PROVE  IInv' /\ BurnTypeOK' /\ burn_vault_toggld_ata' <= mint_supply'
<1>1. /\ token_config' \in TokenConfigs /\ quote' \in Quotes
      /\ burn_vault_wsol_ata' \in Nat /\ UNCHANGED <<mint_supply, swapped>>
  BY OtherEffects DEF BurnInv
<1>2. graduated' \in BOOLEAN /\ opened_atas' \subseteq Mints
  BY DEF OutsideStep, OpenToggldAta, OpenWsolAta, SendTokens, Trade, Graduate, marketVars,
     BurnInv, BurnTypeOK, BurnAssumption
<1>3. burn_vault_toggld_ata' \in Nat /\ burn_vault_toggld_ata' <= mint_supply
  BY DEF OutsideStep, OpenToggldAta, OpenWsolAta, SendTokens, Trade, Graduate, Circulating,
     BurnInv, BurnTypeOK, BurnAssumption
<1>4. IInv'
  <2>1. CASE UNCHANGED vars
    BY <2>1, NextIInv DEF BurnInv
  <2>2. ASSUME NEW k \in Keys, NEW g \in WsolGifts, OpenWsolAta(k, g)
        PROVE  IInv'
    <3>1. /\ lamports \in [Accounts -> Nat] /\ RentAta + g \in Nat
          /\ lamports[k] >= RentAta + g /\ k \in Accounts /\ Vault \in Accounts /\ Vault # k
      BY <2>2 DEF BurnInv, IInv, TypeOK, OpenWsolAta, Accounts, KeysAssumption, BurnAssumption
    <3>2. lamports' = Debit(lamports, k, RentAta + g)
      BY <2>2 DEF OpenWsolAta
    <3>3. lamports' \in [Accounts -> Nat] /\ lamports'[Vault] = lamports[Vault]
      BY <3>1, <3>2 DEF Debit
    <3> QED
      BY <2>2, <3>3, AuctionUntouched DEF BurnInv, OpenWsolAta
  <2>3. ASSUME NEW k \in Keys, NEW m \in StrayMints, OpenToggldAta(k, m)
        PROVE  IInv'
    <3>1. /\ lamports \in [Accounts -> Nat] /\ RentAta \in Nat
          /\ lamports[k] >= RentAta /\ k \in Accounts /\ Vault \in Accounts /\ Vault # k
      BY <2>3 DEF BurnInv, IInv, TypeOK, OpenToggldAta, Accounts, KeysAssumption, BurnAssumption
    <3>2. lamports' = Debit(lamports, k, RentAta)
      BY <2>3 DEF OpenToggldAta
    <3>3. lamports' \in [Accounts -> Nat] /\ lamports'[Vault] = lamports[Vault]
      BY <3>1, <3>2 DEF Debit
    <3> QED
      BY <2>3, <3>3, AuctionUntouched DEF BurnInv, OpenToggldAta
  <2> QED
    BY <2>1, <2>2, <2>3 DEF OutsideStep, SendTokens, Trade, Graduate
<1>5. TypeOK'
  BY <1>4 DEF IInv
<1>6. swapped' \in Nat /\ mint_supply' \in Nat /\ burn_vault_toggld_ata' <= mint_supply'
  BY <1>1, <1>3 DEF BurnInv, BurnTypeOK
<1> QED
  BY <1>1, <1>2, <1>3, <1>4, <1>5, <1>6 DEF BurnTypeOK

LEMMA BurnNextBurnInv == BurnInv /\ [BurnNext]_allVars => BurnInv'
<1> SUFFICES ASSUME BurnInv, [BurnNext]_allVars PROVE BurnInv'
  OBVIOUS
<1>1. SweepInv'
  BY BurnNextInv DEF BurnInv
<1> DEFINE Rest == IInv' /\ BurnTypeOK' /\ burn_vault_toggld_ata' <= mint_supply'
<1> SUFFICES Rest
  BY <1>1 DEF BurnInv
<1>2. ASSUME [Next]_vars, UNCHANGED <<burn_vault_toggld_ata, burn_vault_wsol_ata, mint_supply,
                                      swapped, marketVars>>,
             token_config' \in TokenConfigs
      PROVE  Rest
  <2>1. IInv'
    BY <1>2, NextIInv DEF BurnInv
  <2>2. TypeOK'
    BY <2>1 DEF IInv
  <2> QED
    BY <1>2, <2>1, <2>2 DEF BurnInv, BurnTypeOK, marketVars
<1>3. token_config \in TokenConfigs
  BY DEF BurnInv, BurnTypeOK
<1>4. CASE Next /\ UNCHANGED burnVars
  BY <1>2, <1>3, <1>4 DEF burnVars
<1>5. CASE UNCHANGED allVars
  BY <1>2, <1>3, <1>5 DEF allVars, burnVars
<1>6. CASE \E s \in Keys, m \in Mints, r \in SetupRoutings, b \in Slippages :
             SetupToken(s, m, r, b)
  BY <1>6, SetupTokenBurnInv
<1>7. CASE \E s \in Keys, r \in PromotedRoutings : PromoteBurnVenue(s, r)
  <2>1. token_config' \in TokenConfigs
    BY <1>7, OtherEffects DEF BurnInv
  <2>2. UNCHANGED <<vars, burn_vault_toggld_ata, burn_vault_wsol_ata, mint_supply, swapped,
                    marketVars>>
    BY <1>7 DEF PromoteBurnVenue
  <2> QED
    BY <1>2, <2>1, <2>2
<1>8. CASE \E k \in Keys : SomeSweep(k)
  BY <1>8, SweepBurnInv
<1>9. CASE OutsideStep
  BY <1>9, OutsideBurnInv
<1> QED
  BY <1>4, <1>5, <1>6, <1>7, <1>8, <1>9, Zenon DEF BurnNext, AdminStep, Next

-----------------------------------------------------------------------------
(* The theorems *)

\* The inductive invariant holds in every reachable state.
THEOREM SweepInvariance == BurnSpec => []SweepInv
<1> QED
  BY BurnInitInv, BurnNextInv, PTL DEF BurnSpec

\* The burn leg points at the burn vault from the launch on, which keeps its rent.
THEOREM BurnVaultStaysLive == BurnSpec => []BurnVaultLive
<1>1. SweepInv => BurnVaultLive
  BY DEF SweepInv
<1> QED
  BY <1>1, SweepInvariance, PTL

\* The supply and the counter tell the same story, and a sweep burns what it
\* bought and no token that was there before.
THEOREM SweepsBurnWhatTheyBuy == BurnSpec => BurnsExactlyWhatItBuys
<1> DEFINE Story ==
      /\ mint_supply' + token_config'.total_tokens_burned
           = mint_supply + token_config.total_tokens_burned
      /\ mint_supply' # mint_supply => burn_vault_toggld_ata' = burn_vault_toggld_ata
<1>1. SweepInv /\ [BurnNext]_allVars => [Story]_allVars
  <2> SUFFICES ASSUME SweepInv, BurnNext PROVE Story
    OBVIOUS
  <2>1. CASE Next /\ UNCHANGED burnVars
    BY <2>1 DEF burnVars
  <2>2. CASE \E s \in Keys, m \in Mints, r \in SetupRoutings, b \in Slippages :
               SetupToken(s, m, r, b)
    BY <2>2, SetupTokenEffects DEF SweepInv
  <2>3. CASE \E k \in Keys : SomeSweep(k)
    BY <2>3, SweepEffects
  <2>4. CASE (\E s \in Keys, r \in PromotedRoutings : PromoteBurnVenue(s, r)) \/ OutsideStep
    BY <2>4, OtherEffects
  <2> QED
    BY <2>1, <2>2, <2>3, <2>4 DEF BurnNext, AdminStep, Next
<1> QED
  BY <1>1, SweepInvariance, PTL DEF BurnSpec, BurnsExactlyWhatItBuys

\* No sweep burns less than 95% of what the pool's price promises for it, but
\* for two roundings: at every price, depth, slippage on record and min_out.
THEOREM SweepsKeepTheFloor == BurnSpec => SweepsAtTheFloor
<1> DEFINE Floor ==
      mint_supply' # mint_supply =>
        100 * ((mint_supply - mint_supply' + 2) * Price(quote.sqrt_price) + quote.sqrt_price)
          >= 95 * (Sweep * Q64)
<1>1. SweepInv /\ [BurnNext]_allVars => [Floor]_allVars
  <2> SUFFICES ASSUME SweepInv, BurnNext, mint_supply' # mint_supply
               PROVE  100 * ((mint_supply - mint_supply' + 2) * Price(quote.sqrt_price)
                             + quote.sqrt_price) >= 95 * (Sweep * Q64)
    OBVIOUS
  <2>1. ~ (Next /\ UNCHANGED burnVars)
    BY DEF burnVars
  <2>2. ~ \E s \in Keys, m \in Mints, r \in SetupRoutings, b \in Slippages :
            SetupToken(s, m, r, b)
    BY SetupTokenEffects
  <2>3. ~ ((\E s \in Keys, r \in PromotedRoutings : PromoteBurnVenue(s, r)) \/ OutsideStep)
    BY OtherEffects
  <2>4. PICK caller \in Keys : SomeSweep(caller)
    BY <2>1, <2>2, <2>3, Zenon DEF BurnNext, AdminStep, Next
  <2>5. PICK route \in Routes, unspent \in Dusts, min_out \in MinOuts :
          \E received \in Answers(min_out) :
            BurnTokens(caller, route, min_out, received, unspent)
    BY <2>4 DEF SomeSweep
  <2>6. PICK received \in Answers(min_out) :
          BurnTokens(caller, route, min_out, received, unspent)
    BY <2>5
  <2> DEFINE bps == token_config.max_slippage_bps
             price == quote.sqrt_price
  <2>7. /\ Configured /\ Quotable(Sweep, price, bps)
        /\ min_out >= SlippageFloor(Sweep, price, bps)
        /\ min_out <= received /\ mint_supply' = mint_supply - received
    BY <2>6 DEF BurnTokens, Swap2, VenueAnswers, Burned
  <2>8. Sweep \in Nat /\ mint_supply \in Int
    BY <2>7 DEF SweepInv, BurnVaultLive, Sweep, AmountsAssumption
  <2>9. received \in Nat
    BY <2>7, <2>8, AnswersAreNatural
  <2>10. price \in Nat \ {0}
    <3>1. price \in Nat
      BY DEF SweepInv, BurnAssumption
    <3> QED
      BY <2>7, <3>1 DEF Quotable
  <2>11. bps \in 0 .. MAX_SLIPPAGE_BPS_CEILING
    BY DEF SweepInv, TokenConfigs
  <2>12. received >= SlippageFloor(Sweep, price, bps)
    <3> DEFINE x == expected_out(Sweep, price) * (10000 - bps)
               fl == x \div 10000
    <3>1. x \in Nat
      <4>1. expected_out(Sweep, price) \in Nat
        BY <2>8, <2>10, TwoDivisions
      <4> HIDE DEF price, bps
      <4> QED
        BY <2>11, <4>1 DEF MAX_SLIPPAGE_BPS_CEILING
    <3>2. SlippageFloor(Sweep, price, bps) = x \div 10000
      BY DEF SlippageFloor
    <3> HIDE DEF x
    <3>3. x \div 10000 \in Nat
      BY <3>1
    <3>4. min_out \in Nat
      BY <2>7, <2>8, MinOutsAreNatural
    <3> QED
      BY <2>7, <2>9, <3>2, <3>3, <3>4
  <2>13. 100 * ((received + 2) * Price(price) + price) >= 95 * (Sweep * Q64)
    BY <2>8, <2>9, <2>10, <2>11, <2>12, FloorKeepsThePrice
  <2>14. mint_supply - mint_supply' = received
    BY <2>7, <2>8, <2>9
  <2> QED
    BY <2>13, <2>14
<1> QED
  BY <1>1, SweepInvariance, PTL DEF BurnSpec, SweepsAtTheFloor

\* The whole state's invariant: auction, launch and burn path together.
THEOREM BurnInvariance == BurnSpec => []BurnInv
  BY BurnInitBurnInv, BurnNextBurnInv, PTL DEF BurnSpec

\* Every field keeps its type: no sweep burns more tokens than there are, and
\* the slippage on record stays under its ceiling.
THEOREM BurnTypeCorrect == BurnSpec => []BurnTypeOK
<1>1. BurnInv => BurnTypeOK
  BY DEF BurnInv
<1> QED
  BY <1>1, BurnInvariance, PTL

\* While the launch is wired, venues are promoted and the burn vault is swept,
\* the auction keeps what it promises about its vault, its refunds and its wins.
THEOREM AuctionStaysSound ==
  BurnSpec => [](/\ VaultSolvent /\ EscrowIsTopBid /\ RefundsBacked
                 /\ WinRecordsDense /\ WinsAlternate /\ TopBidClearsRaise)
<1>1. BurnInv => /\ VaultSolvent /\ EscrowIsTopBid /\ RefundsBacked
                 /\ WinRecordsDense /\ WinsAlternate /\ TopBidClearsRaise
  BY DEF BurnInv, IInv
<1> QED
  BY <1>1, BurnInvariance, PTL

\* Once the launch is wired nothing leaks out of the burn path, and nothing
\* goes to the incinerator any more.
THEOREM NothingLeaksOut == BurnSpec => BurnPathKeepsItsMoney
<1> DEFINE Kept ==
      Configured =>
        /\ lamports'[BurnVault] + burn_vault_wsol_ata' + swapped'
             >= lamports[BurnVault] + burn_vault_wsol_ata + swapped
        /\ lamports'[Incinerator] = lamports[Incinerator]
<1>1. SweepInv /\ [BurnNext]_allVars => [Kept]_allVars
  <2> SUFFICES ASSUME SweepInv, BurnNext, Configured
               PROVE  /\ lamports'[BurnVault] + burn_vault_wsol_ata' + swapped'
                           >= lamports[BurnVault] + burn_vault_wsol_ata + swapped
                      /\ lamports'[Incinerator] = lamports[Incinerator]
    OBVIOUS
  <2>0. /\ burn_vault_wsol_ata \in Nat /\ swapped \in Int /\ lamports[BurnVault] \in Nat
        /\ burn_address = BurnVault
    BY DEF SweepInv, BurnVaultLive
  <2>1. CASE Next /\ UNCHANGED burnVars
    <3>1. /\ lamports'[BurnVault] \in Nat /\ lamports'[BurnVault] >= lamports[BurnVault]
          /\ lamports'[Incinerator] = lamports[Incinerator]
      BY <2>0, <2>1, AuctionStep
    <3>2. burn_vault_wsol_ata' = burn_vault_wsol_ata /\ swapped' = swapped
      BY <2>1 DEF burnVars
    <3> QED
      BY <2>0, <3>1, <3>2
  <2>2. CASE \E s \in Keys, m \in Mints, r \in SetupRoutings, b \in Slippages :
               SetupToken(s, m, r, b)
    BY <2>2, SetupTokenEffects
  <2>3. CASE \E k \in Keys : SomeSweep(k)
    BY <2>3, SweepEffects
  <2>4. CASE (\E s \in Keys, r \in PromotedRoutings : PromoteBurnVenue(s, r)) \/ OutsideStep
    <3>1. /\ lamports'[BurnVault] = lamports[BurnVault]
          /\ lamports'[Incinerator] = lamports[Incinerator] /\ swapped' = swapped
          /\ burn_vault_wsol_ata' \in Nat /\ burn_vault_wsol_ata' >= burn_vault_wsol_ata
      BY <2>4, OtherEffects
    <3> QED
      BY <2>0, <3>1
  <2> QED
    BY <2>1, <2>2, <2>3, <2>4 DEF BurnNext, AdminStep, Next
<1> QED
  BY <1>1, SweepInvariance, PTL DEF BurnSpec, BurnPathKeepsItsMoney

-----------------------------------------------------------------------------
(* What stands in a sweep's way *)

\* The supply at launch is what is left of it and what was burned.
SupplyStory == mint_supply + token_config.total_tokens_burned = InitialSupply

\* The accounts swap2 wants of the pool that trades.
LiveRoute ==
  IF graduated
  THEN [program |-> DAMM_V2_PROGRAM_ID, pool |-> Damm, config |-> Omitted]
  ELSE [program |-> DBC_PROGRAM_ID, pool |-> Curve, config |-> CurveConfig]

\* What a sweep asks of the state and of the venue, and what it makes of them;
\* q is the state the market is left in.
SweepReady(caller, route, min_out, received, unspent) ==
  /\ Configured
  /\ RouteAccepted(route)
  /\ Sweep >= MIN_SWEEP_LAMPORTS
  /\ min_out > 0
  /\ SlippageAllowed(token_config.max_slippage_bps)
  /\ Quotable(Sweep, quote.sqrt_price, token_config.max_slippage_bps)
  /\ min_out >= SlippageFloor(Sweep, quote.sqrt_price, token_config.max_slippage_bps)
  /\ lamports[caller] >= WsolRent
  /\ token_config.toggld_mint = TOGGLD
  /\ route = LiveRoute
  /\ min_out <= received
  /\ received <= expected_out(Sweep, quote.sqrt_price)
  /\ received <= quote.reserve /\ received <= Circulating /\ unspent <= Sweep
  /\ FitsU64(token_config.total_tokens_burned + received)

SweepMakes(caller, received, unspent, q) ==
  /\ token_config' = [token_config EXCEPT !.total_tokens_burned = @ + received]
  /\ mint_supply' = mint_supply - received
  /\ burn_vault_toggld_ata' = burn_vault_toggld_ata + received - received
  /\ swapped' = swapped + Sweep - unspent
  /\ lamports' = Credit(Debit(Debit(lamports, caller, WsolRent), BurnVault, Sweep),
                        BurnVault, burn_vault_wsol_ata + WsolRent + unspent)
  /\ burn_vault_wsol_ata' = 0
  /\ quote' = q
  /\ UNCHANGED <<holderVars, standingVars, windowVars, burn_address, escrowed_amount,
                 treasury_balance, refund, now, graduated, opened_atas>>

LEMMA SweepSplits ==
  ASSUME NEW c, NEW route, NEW min_out, NEW received, NEW unspent
  PROVE  BurnTokens(c, route, min_out, received, unspent)
           <=> /\ SweepReady(c, route, min_out, received, unspent)
               /\ \E q \in {p \in Quotes : p.sqrt_price >= quote.sqrt_price} :
                    SweepMakes(c, received, unspent, q)
  BY Zenon DEF BurnTokens, SweepReady, SweepMakes, Swap2, VenueAnswers, Burned, CloseTo, LiveRoute

\* A smaller divisor gives no smaller quotient.
LEMMA SmallerDivisor ==
  ASSUME NEW x \in Nat, NEW d \in Nat \ {0}, NEW e \in Nat \ {0}, e <= d
  PROVE  x \div d <= x \div e
<1> DEFINE m == x \div d
           n == x \div e
<1>1. m \in Nat /\ d * m <= x
  BY RoundedDown
<1>2. n \in Nat /\ x + 1 <= e * n + e
  BY RoundedDown
<1> HIDE DEF m, n
<1> SUFFICES ASSUME m >= n + 1 PROVE FALSE
  BY <1>1, <1>2 DEF m, n
<1>3. e * (n + 1) <= e * m
  BY <1>1, <1>2, ProductsKeepOrder
<1>4. e * m <= d * m
  BY <1>1, ProductsKeepOrder
<1>5. e * (n + 1) = e * n + e
  BY <1>2
<1>6. e * m \in Int /\ d * m \in Int /\ e * n \in Int
  BY <1>1, <1>2
<1> QED
  BY <1>1, <1>2, <1>3, <1>4, <1>5, <1>6

\* What a whole sweep is worth can be computed under any slippage there is, and
\* lies above the floor that slippage sets.
LEMMA FullQuoteClearsTheFloor ==
  ASSUME NEW sweep \in Nat, NEW s \in Nat, Quotable(sweep, s, 0),
         NEW bps \in 0 .. MAX_SLIPPAGE_BPS_CEILING
  PROVE  /\ Quotable(sweep, s, bps)
         /\ expected_out(sweep, s) \in Nat
         /\ SlippageFloor(sweep, s, bps) <= expected_out(sweep, s)
<1> DEFINE out == expected_out(sweep, s)
           kept == 10000 - bps
<1>1. s > 0 /\ out \in Nat
  BY QuoteIsNatural DEF Quotable
<1>2. kept \in Nat \ {0} /\ kept <= 10000
  BY DEF MAX_SLIPPAGE_BPS_CEILING
<1>3. MAX_U128 \in Nat
  BY DEF MAX_U128, Q64, WidthAssumption
<1>4. out <= MAX_U128 \div 10000
  BY DEF Quotable
<1>5. SlippageFloor(sweep, s, bps) = (out * kept) \div 10000
  BY DEF SlippageFloor
<1>6. Quotable(sweep, s, bps) <=> out <= MAX_U128 \div kept
  BY DEF Quotable
<1> HIDE DEF out, kept
<1>7. MAX_U128 \div 10000 <= MAX_U128 \div kept
  <2> DEFINE whole == 10000
  <2>1. whole \in Nat \ {0} /\ kept <= whole
    BY <1>2
  <2> HIDE DEF whole
  <2>2. \A e \in Nat \ {0} : e <= whole => MAX_U128 \div whole <= MAX_U128 \div e
    BY <1>3, <2>1, SmallerDivisor
  <2>3. MAX_U128 \div whole <= MAX_U128 \div kept
    BY <1>2, <2>1, <2>2
  <2> QED
    BY <2>3 DEF whole
<1>8. MAX_U128 \div 10000 \in Int /\ MAX_U128 \div kept \in Int
  BY <1>2, <1>3
<1>9. (out * kept) \div 10000 <= out
  <2> DEFINE x == out * kept
  <2>1. x \in Nat
    BY <1>1, <1>2
  <2>2. x <= out * 10000
    BY <1>1, <1>2, ProductsKeepOrder DEF x
  <2> HIDE DEF x
  <2>3. x \div 10000 <= out
    BY <1>1, <2>1, <2>2
  <2> QED
    BY <2>3 DEF x
<1> QED
  BY <1>1, <1>4, <1>5, <1>6, <1>7, <1>8, <1>9 DEF out

\* Anyone who can advance the rent of the WSOL account can sweep, as long as
\* TokenConfig leads to the pool that trades, its depth takes the whole sweep
\* and the supply at launch was a u64: asking for all the price shows, and
\* getting it, is always among what the caller may ask and the venue may answer.
SweepWaitsForNobody ==
  \A k \in Keys :
    /\ Sweepable /\ WellRouted /\ MarketFills /\ lamports[k] >= RentAta
    /\ FitsU64(InitialSupply)
    => LET out == expected_out(Sweep, quote.sqrt_price) IN
       /\ LiveRoute \in Routes /\ out \in MinOuts /\ out \in Answers(out)
       /\ SweepReady(k, LiveRoute, out, out, 0)

LEMMA NobodyWaitsForASweep ==
  ASSUME BurnInv, SupplyStory
  PROVE  SweepWaitsForNobody
<1> SUFFICES ASSUME NEW k \in Keys, Sweepable, WellRouted, MarketFills, lamports[k] >= RentAta,
                    FitsU64(InitialSupply)
             PROVE  LET out == expected_out(Sweep, quote.sqrt_price) IN
                    /\ LiveRoute \in Routes /\ out \in MinOuts /\ out \in Answers(out)
                    /\ SweepReady(k, LiveRoute, out, out, 0)
  BY DEF SweepWaitsForNobody
<1> DEFINE bps == token_config.max_slippage_bps
           out == expected_out(Sweep, quote.sqrt_price)
<1>1. /\ Configured /\ Sweep >= MIN_SWEEP_LAMPORTS
      /\ Quotable(Sweep, quote.sqrt_price, 0)
      /\ 0 < out /\ out <= quote.reserve /\ out <= Circulating
  BY DEF Sweepable, MarketFills
<1>2. /\ quote \in Quotes /\ quote.sqrt_price \in Nat /\ Sweep \in Nat
      /\ bps \in 0 .. MAX_SLIPPAGE_BPS_CEILING
      /\ token_config.total_tokens_burned \in Nat /\ mint_supply \in Nat
      /\ burn_vault_toggld_ata \in Nat /\ MAX_U64 \in Nat
  <2>1. lamports[BurnVault] \in Nat /\ RentVault \in Nat /\ lamports[BurnVault] >= RentVault
    BY <1>1 DEF BurnInv, SweepInv, BurnVaultLive, AmountsAssumption
  <2> QED
    BY <2>1 DEF BurnInv, SweepInv, BurnTypeOK, TokenConfigs, BurnAssumption, Sweep
<1>3. /\ Quotable(Sweep, quote.sqrt_price, bps) /\ out \in Nat
      /\ SlippageFloor(Sweep, quote.sqrt_price, bps) <= out
  BY <1>1, <1>2, FullQuoteClearsTheFloor
<1>4. SlippageFloor(Sweep, quote.sqrt_price, bps) \in Int
  <2> DEFINE x == out * (10000 - bps)
  <2>1. SlippageFloor(Sweep, quote.sqrt_price, bps) = x \div 10000
    BY DEF SlippageFloor
  <2> HIDE DEF out
  <2>2. x \in Int
    BY <1>2, <1>3
  <2> HIDE DEF x
  <2> QED
    BY <2>1, <2>2
<1>5. LiveRoute \in Routes /\ RouteAccepted(LiveRoute)
  BY DEF LiveRoute, Routes, RouteAccepted, WellRouted, LivePool, Pools, PoolConfigs,
     BurnAssumption
<1>6. out \in MinOuts /\ out \in Answers(out)
  BY <1>1, <1>2, <1>3 DEF MinOuts, Answers
<1>7. lamports[k] >= WsolRent
  BY DEF WsolRent, BurnInv, IInv, TypeOK, Accounts, BurnAssumption
<1>8. FitsU64(token_config.total_tokens_burned + out)
  <2> HIDE DEF out
  <2> QED
    BY <1>1, <1>2, <1>3 DEF FitsU64, SupplyStory, Circulating, BurnAssumption
<1>9. SlippageAllowed(bps) /\ token_config.toggld_mint = TOGGLD /\ 0 <= Sweep
  BY <1>2 DEF SlippageAllowed, MAX_SLIPPAGE_BPS_CEILING, WellRouted
<1> HIDE DEF out, bps
<1>10. out > 0 /\ out <= out /\ out >= SlippageFloor(Sweep, quote.sqrt_price, bps)
  BY <1>1, <1>3, <1>4
<1>11. SweepReady(k, LiveRoute, out, out, 0)
  BY <1>1, <1>3, <1>5, <1>7, <1>8, <1>9, <1>10 DEF SweepReady, out, bps
<1> QED
  BY <1>5, <1>6, <1>11 DEF out

\* The supply and the counter add up to the supply at launch, for ever.
THEOREM SupplyIsAccountedFor == BurnSpec => []SupplyStory
<1>1. BurnInit => SupplyStory
  BY DEF BurnInit, SupplyStory, BurnAssumption
<1>2. SupplyStory /\ [/\ mint_supply' + token_config'.total_tokens_burned
                           = mint_supply + token_config.total_tokens_burned
                      /\ mint_supply' # mint_supply
                           => burn_vault_toggld_ata' = burn_vault_toggld_ata]_allVars
        => SupplyStory'
  BY DEF SupplyStory, allVars, burnVars
<1> QED
  BY <1>1, <1>2, SweepsBurnWhatTheyBuy, PTL DEF BurnSpec, BurnsExactlyWhatItBuys

\* The burn path never stalls for want of anything but the market.
THEOREM SweepIsNeverBlocked == BurnSpec => []SweepWaitsForNobody
  BY NobodyWaitsForASweep, BurnInvariance, SupplyIsAccountedFor, PTL

\* While the launch is wired and the burn vault is swept, bids and claims still
\* wait for nobody, and settle only for the address of its own record.
THEOREM AuctionWaitsForNothingNew ==
  BurnSpec => [](SettleWaitsForItsRecord /\ BidsWaitForNobody /\ ClaimsWaitForNobody)
<1>1. BurnInv => SettleWaitsForItsRecord /\ BidsWaitForNobody /\ ClaimsWaitForNobody
  BY WhatIsWaitedFor DEF BurnInv
<1> QED
  BY <1>1, BurnInvariance, PTL

-----------------------------------------------------------------------------
(* The auction's course beside the burn path *)

\* A step that is not the auction's leaves its price, its window, its wins and
\* its clock alone.
LEMMA BurnStepsAside ==
  ASSUME BurnNext, ~Next
  PROVE  UNCHANGED <<holderVars, standingVars, windowVars, now>>
<1>1. ASSUME UNCHANGED vars PROVE UNCHANGED <<holderVars, standingVars, windowVars, now>>
  BY <1>1 DEF vars
<1>2. CASE AdminStep
  BY <1>1, <1>2, Zenon DEF AdminStep, SetupToken, PromoteBurnVenue
<1>3. CASE \E k \in Keys : SomeSweep(k)
  BY <1>3 DEF SomeSweep, BurnTokens
<1>4. CASE OutsideStep
  BY <1>1, <1>4, Zenon DEF OutsideStep, OpenToggldAta, OpenWsolAta, SendTokens, Trade, Graduate
<1> QED
  BY <1>2, <1>3, <1>4, Zenon DEF BurnNext, Next

\* Neither a launch nor a sweep moves the price or a deadline.
THEOREM SweepsMoveNoPriceNorDeadline ==
  BurnSpec => PriceRisesByMinRaise /\ DeadlineNeverMovesBack /\ EveryBidIsAnswerable
<1>1. BurnInv /\ [BurnNext]_allVars => [RaiseStep]_vars /\ [DeadlineStep]_vars /\ [AnswerStep]_vars
  <2> SUFFICES ASSUME BurnInv, [BurnNext]_allVars
               PROVE  [RaiseStep]_vars /\ [DeadlineStep]_vars /\ [AnswerStep]_vars
    OBVIOUS
  <2>1. CASE Next \/ UNCHANGED allVars
    <3>1. [Next]_vars
      BY <2>1 DEF allVars
    <3> QED
      BY <3>1, AuctionSteps DEF BurnInv
  <2>2. CASE BurnNext /\ ~Next
    <3>1. UNCHANGED <<current_price, window_active, window_end_ts, top_bid_amount>>
      BY <2>2, BurnStepsAside DEF holderVars, windowVars
    <3> QED
      BY <3>1, QuietSteps DEF BurnInv
  <2> QED
    BY <2>1, <2>2
<1> QED
  BY <1>1, BurnInvariance, PTL
  DEF BurnSpec, PriceRisesByMinRaise, DeadlineNeverMovesBack, EveryBidIsAnswerable,
      RaiseStep, DeadlineStep, AnswerStep

\* On a clock that never steps back a holder keeps a full window, swept or not.
THEOREM SweepsLeaveTheHolderHisWindow ==
  ASSUME MaxSkew = 0
  PROVE  BurnSpec => []HolderKeepsAFullWindow
<1>1. BurnInit => ClockInv
  BY DEF BurnInit, Init, ClockInv, HolderKeepsAFullWindow
<1>2. BurnInv /\ ClockInv /\ [BurnNext]_allVars => ClockInv'
  <2> SUFFICES ASSUME BurnInv, ClockInv, [BurnNext]_allVars PROVE ClockInv'
    OBVIOUS
  <2>1. CASE Next \/ UNCHANGED allVars
    <3>1. [Next]_vars
      BY <2>1 DEF allVars
    <3> QED
      BY <3>1, NextClockInv DEF BurnInv
  <2>2. CASE BurnNext /\ ~Next
    <3>1. UNCHANGED <<holderVars, standingVars, windowVars, now>>
      BY <2>2, BurnStepsAside
    <3>2. now \in Nat
      BY DEF BurnInv, IInv, TypeOK, AmountsAssumption
    <3> QED
      BY <3>1, <3>2, LaterKeepsClockInv DEF BurnInv, standingVars
  <2> QED
    BY <2>1, <2>2
<1>3. ClockInv => HolderKeepsAFullWindow
  BY DEF ClockInv
<1> QED
  BY <1>1, <1>2, <1>3, BurnInvariance, PTL DEF BurnSpec

-----------------------------------------------------------------------------
(* Every lamport, the launch's and the market's included *)

\* setup_token adds two rents that stay; a sweep and the venue move the rest.
LaunchRents == IF Configured THEN RentConfig + RentAta ELSE 0

\* The rents of the token accounts strangers opened for the burn vault.
OpenedRents == RentAta * Cardinality(opened_atas)

\* What is in the auction, in the burn vault's WSOL account, in the rents of the
\* launch and of strangers' token accounts, or has gone into a venue's swap.
AllLamports == InTheAuction + burn_vault_wsol_ata + swapped + LaunchRents + OpenedRents
AllLamportsConserved == AllLamports = Supply

\* The inductive invariant.
BurnSupplyInv ==
  /\ BurnInv /\ AllLamportsConserved /\ CountersBelowPrice
  /\ IsFiniteSet(prefunded) /\ IsFiniteSet(opened_atas)

LEMMA OpenedRentsIsNatural ==
  ASSUME IsFiniteSet(opened_atas)
  PROVE  OpenedRents \in Nat
<1> DEFINE count == Cardinality(opened_atas)
<1>1. count \in Nat
  BY FS_CardinalityType
<1> HIDE DEF count
<1>2. RentAta * count \in Nat
  BY <1>1 DEF BurnAssumption
<1> QED
  BY <1>2 DEF OpenedRents, count

LEMMA OpenedRentsGrow ==
  ASSUME IsFiniteSet(opened_atas), NEW m, m \notin opened_atas,
         opened_atas' = opened_atas \cup {m}
  PROVE  OpenedRents' = OpenedRents + RentAta
<1> DEFINE count == Cardinality(opened_atas)
<1>1. count \in Nat /\ Cardinality(opened_atas') = count + 1
  BY FS_CardinalityType, FS_AddElement
<1>2. RentAta * (count + 1) = RentAta * count + RentAta
  <2> HIDE DEF count
  <2> QED
    BY <1>1 DEF BurnAssumption
<1> QED
  BY <1>1, <1>2 DEF OpenedRents

LEMMA BurnFiniteness ==
  ASSUME BurnInv, IsFiniteSet(Keys), IsFiniteSet(prefunded)
  PROVE  /\ IsFiniteSet(Accounts) /\ lamports \in [Accounts -> Nat]
         /\ TotalOf(lamports) \in Nat /\ TotalOf(SlotLamports) \in Nat /\ RentSpent \in Nat
         /\ InTheAuction \in Nat /\ burn_vault_wsol_ata \in Nat /\ swapped \in Nat
         /\ RentConfig \in Nat /\ RentAta \in Nat /\ RentVault \in Nat
         /\ LaunchRents \in Nat /\ StrayLamports \in Nat
<1>1. /\ IsFiniteSet(Accounts) /\ TotalOf(lamports) \in Nat
      /\ TotalOf(SlotLamports) \in Nat /\ RentSpent \in Nat /\ StrayLamports \in Nat
  BY Finiteness, RentSpentFacts, StrayIsNatural DEF BurnInv
<1>2. /\ lamports \in [Accounts -> Nat] /\ burn_vault_wsol_ata \in Nat /\ swapped \in Nat
      /\ RentConfig \in Nat /\ RentAta \in Nat /\ RentVault \in Nat
  BY DEF BurnInv, BurnTypeOK, IInv, TypeOK, BurnAssumption, AmountsAssumption
<1> QED
  BY <1>1, <1>2 DEF InTheAuction, LaunchRents

\* Where no slot, no counter and no rent changes, the auction's lamports change
\* as the balances do.
LEMMA OnlyBalances ==
  ASSUME UNCHANGED <<refund, holder_count, initialized, prefunded>>
  PROVE  InTheAuction' = TotalOf(lamports') + TotalOf(SlotLamports) + RentSpent + StrayLamports
  BY DEF InTheAuction, SlotLamports, RentSpent, StrayLamports

\* setup_token(): the admin pays the three rents, the burn vault gets its own.
LEMMA SetupTokenConserves ==
  ASSUME BurnInv, IsFiniteSet(Keys), IsFiniteSet(prefunded), NEW s \in Keys, NEW m \in Mints,
         NEW routing \in SetupRoutings, NEW bps \in Slippages, SetupToken(s, m, routing, bps)
  PROVE  /\ InTheAuction' = InTheAuction - (RentConfig + RentAta)
         /\ LaunchRents = 0 /\ LaunchRents' = RentConfig + RentAta
         /\ OpenedRents' = OpenedRents
<1> DEFINE rent == RentConfig + RentVault + RentAta
           one == Debit(lamports, s, rent)
<1>1. /\ IsFiniteSet(Accounts) /\ lamports \in [Accounts -> Nat]
      /\ TotalOf(lamports) \in Nat /\ TotalOf(SlotLamports) \in Nat /\ RentSpent \in Nat
      /\ RentConfig \in Nat /\ RentAta \in Nat /\ RentVault \in Nat /\ StrayLamports \in Nat
  BY BurnFiniteness
<1>2. rent \in Nat /\ lamports[s] >= rent /\ s \in Accounts /\ BurnVault \in Accounts
  BY <1>1 DEF SetupToken, Accounts
<1>3. lamports' = Credit(one, BurnVault, RentVault)
  BY DEF SetupToken
<1> HIDE DEF rent
<1>4. TotalOf(one) = TotalOf(lamports) - rent
  BY <1>1, <1>2, DebitTotal
<1>5. one \in [Accounts -> Nat]
  BY <1>1, <1>2 DEF Debit
<1> HIDE DEF one
<1>6. TotalOf(Credit(one, BurnVault, RentVault)) = TotalOf(one) + RentVault
  BY <1>1, <1>2, <1>5, CreditTotal
<1>7. UNCHANGED <<refund, holder_count, initialized, prefunded>>
  BY DEF SetupToken, holderVars, standingVars
<1>8. InTheAuction' = TotalOf(lamports') + TotalOf(SlotLamports) + RentSpent + StrayLamports
  BY <1>7, OnlyBalances
<1>9. ~Configured /\ Configured'
  BY SetupTokenEffects DEF BurnInv
<1>10. InTheAuction' = InTheAuction - (RentConfig + RentAta)
  BY <1>1, <1>2, <1>3, <1>4, <1>6, <1>8 DEF rent, InTheAuction
<1>11. OpenedRents' = OpenedRents
  BY DEF SetupToken, marketVars, OpenedRents
<1> QED
  BY <1>9, <1>10, <1>11 DEF LaunchRents

\* burn_tokens(): what leaves the balances and the WSOL account is what the venue
\* took; the rent of the WSOL account comes back in the same call.
LEMMA SweepConserves ==
  ASSUME BurnInv, IsFiniteSet(Keys), IsFiniteSet(prefunded),
         NEW caller \in Keys, SomeSweep(caller)
  PROVE  /\ InTheAuction' + burn_vault_wsol_ata' + swapped'
              = InTheAuction + burn_vault_wsol_ata + swapped
         /\ UNCHANGED <<LaunchRents, OpenedRents, opened_atas>>
<1>0. PICK route \in Routes, unspent \in Dusts, min_out \in MinOuts :
        \E received \in Answers(min_out) :
          BurnTokens(caller, route, min_out, received, unspent)
  BY DEF SomeSweep
<1>1. PICK received \in Answers(min_out) :
        BurnTokens(caller, route, min_out, received, unspent) /\ Configured
  BY <1>0 DEF BurnTokens
<1>2. /\ IsFiniteSet(Accounts) /\ lamports \in [Accounts -> Nat]
      /\ TotalOf(lamports) \in Nat /\ TotalOf(SlotLamports) \in Nat /\ RentSpent \in Nat
      /\ burn_vault_wsol_ata \in Nat /\ swapped \in Nat /\ RentVault \in Nat
      /\ StrayLamports \in Nat
  BY BurnFiniteness
<1>3. /\ caller \in Accounts /\ BurnVault \in Accounts /\ caller # BurnVault
      /\ lamports[BurnVault] >= RentVault
  BY <1>1 DEF BurnInv, SweepInv, BurnVaultLive, Accounts, KeysAssumption
<1>4. Sweep \in Nat /\ lamports[BurnVault] >= Sweep
  BY <1>2, <1>3 DEF Sweep
<1>5. unspent \in Nat /\ WsolRent \in Nat /\ lamports[caller] >= WsolRent
  BY <1>1 DEF BurnAssumption, WsolRent, BurnTokens
<1> DEFINE back == burn_vault_wsol_ata + WsolRent + unspent
           one == Debit(lamports, caller, WsolRent)
           two == Debit(one, BurnVault, Sweep)
<1>6. back \in Nat
  BY <1>2, <1>5
<1>7. lamports' = Credit(two, BurnVault, back)
  BY <1>1 DEF BurnTokens, CloseTo
<1>8. swapped' = swapped + Sweep - unspent /\ burn_vault_wsol_ata' = 0
  BY <1>1 DEF BurnTokens
<1>9. UNCHANGED <<refund, holder_count, initialized, prefunded>>
  BY <1>1 DEF BurnTokens, holderVars, standingVars
<1>10. TotalOf(one) = TotalOf(lamports) - WsolRent
  BY <1>2, <1>3, <1>5, DebitTotal
<1>11. one \in [Accounts -> Nat] /\ one[BurnVault] = lamports[BurnVault]
  BY <1>2, <1>3, <1>5 DEF Debit
<1> DEFINE wsol == WsolRent
           sweep == Sweep
<1>12. TotalOf(two) = TotalOf(one) - Sweep
  <2> HIDE DEF one
  <2> QED
    BY <1>2, <1>3, <1>4, <1>11, DebitTotal
<1>13. two \in [Accounts -> Nat]
  <2> HIDE DEF one
  <2> QED
    BY <1>2, <1>3, <1>4, <1>11 DEF Debit
<1> HIDE DEF one, two
<1>14. TotalOf(Credit(two, BurnVault, back)) = TotalOf(two) + back
  <2> HIDE DEF back
  <2> QED
    BY <1>2, <1>3, <1>6, <1>13, CreditTotal
<1>15. InTheAuction' = TotalOf(lamports') + TotalOf(SlotLamports) + RentSpent + StrayLamports
  BY <1>9, OnlyBalances
<1>16. TotalOf(lamports') = TotalOf(lamports) - Sweep + burn_vault_wsol_ata + unspent
  BY <1>2, <1>4, <1>5, <1>7, <1>10, <1>12, <1>14
<1>17. Configured'
  BY <1>1, SweepEffects DEF BurnInv, Configured
<1>18. LaunchRents' = LaunchRents
  BY <1>1, <1>17 DEF LaunchRents
<1>19. opened_atas' = opened_atas /\ OpenedRents' = OpenedRents
  BY <1>1 DEF BurnTokens, Swap2, VenueAnswers, OpenedRents
<1> QED
  BY <1>2, <1>4, <1>5, <1>8, <1>15, <1>16, <1>18, <1>19 DEF InTheAuction

\* What strangers and the market do.
LEMMA OutsideConserves ==
  ASSUME BurnInv, IsFiniteSet(Keys), IsFiniteSet(prefunded), IsFiniteSet(opened_atas),
         OutsideStep
  PROVE  AllLamports' = AllLamports /\ IsFiniteSet(opened_atas')
<1>1. LaunchRents' = LaunchRents
  BY DEF OutsideStep, OpenToggldAta, OpenWsolAta, SendTokens, Trade, Graduate, LaunchRents, Configured
<1>3. ASSUME NEW k \in Keys, NEW g \in WsolGifts, OpenWsolAta(k, g)
      PROVE  /\ InTheAuction' + burn_vault_wsol_ata' + swapped'
                  = InTheAuction + burn_vault_wsol_ata + swapped
             /\ UNCHANGED <<opened_atas, OpenedRents>>
  <2> DEFINE n == RentAta + g
  <2>1. /\ IsFiniteSet(Accounts) /\ lamports \in [Accounts -> Nat]
        /\ TotalOf(lamports) \in Nat /\ TotalOf(SlotLamports) \in Nat /\ RentSpent \in Nat
        /\ swapped \in Nat /\ StrayLamports \in Nat
    BY BurnFiniteness
  <2>6. n \in Nat
    BY DEF BurnAssumption
  <2>2. /\ n \in Nat /\ k \in Accounts /\ lamports[k] >= n
        /\ lamports' = Debit(lamports, k, n)
        /\ burn_vault_wsol_ata = 0 /\ burn_vault_wsol_ata' = n /\ swapped' = swapped
    BY <1>3, <2>6 DEF OpenWsolAta, Accounts
  <2> HIDE DEF n
  <2>3. TotalOf(lamports') = TotalOf(lamports) - n
    BY <2>1, <2>2, DebitTotal
  <2>4. InTheAuction' = TotalOf(lamports') + TotalOf(SlotLamports) + RentSpent + StrayLamports
    BY <1>3, OnlyBalances DEF OpenWsolAta, holderVars, standingVars
  <2>5. UNCHANGED <<opened_atas, OpenedRents>>
    BY <1>3 DEF OpenWsolAta, marketVars, OpenedRents
  <2> QED
    BY <2>1, <2>2, <2>3, <2>4, <2>5 DEF InTheAuction
<1>4. ASSUME NEW k \in Keys, NEW m \in StrayMints, OpenToggldAta(k, m)
      PROVE  /\ InTheAuction' = InTheAuction - RentAta
             /\ OpenedRents' = OpenedRents + RentAta
             /\ UNCHANGED <<burn_vault_wsol_ata, swapped>> /\ IsFiniteSet(opened_atas')
  <2>1. /\ IsFiniteSet(Accounts) /\ lamports \in [Accounts -> Nat]
        /\ TotalOf(lamports) \in Nat /\ TotalOf(SlotLamports) \in Nat /\ RentSpent \in Nat
        /\ RentAta \in Nat /\ StrayLamports \in Nat
    BY BurnFiniteness
  <2>2. /\ k \in Accounts /\ lamports[k] >= RentAta
        /\ lamports' = Debit(lamports, k, RentAta)
        /\ m \notin opened_atas /\ opened_atas' = opened_atas \cup {m}
        /\ UNCHANGED <<burn_vault_wsol_ata, swapped>>
    BY <1>4 DEF OpenToggldAta, Accounts
  <2>3. TotalOf(lamports') = TotalOf(lamports) - RentAta
    BY <2>1, <2>2, DebitTotal
  <2>4. InTheAuction' = TotalOf(lamports') + TotalOf(SlotLamports) + RentSpent + StrayLamports
    BY <1>4, OnlyBalances DEF OpenToggldAta, holderVars, standingVars
  <2>5. OpenedRents' = OpenedRents + RentAta /\ IsFiniteSet(opened_atas')
    BY <2>2, OpenedRentsGrow, FS_AddElement
  <2> QED
    BY <2>1, <2>2, <2>3, <2>4, <2>5 DEF InTheAuction
<1>5. /\ InTheAuction \in Nat /\ burn_vault_wsol_ata \in Nat /\ swapped \in Nat
      /\ RentAta \in Nat /\ OpenedRents \in Nat /\ LaunchRents \in Nat
  BY BurnFiniteness, OpenedRentsIsNatural
<1>6. CASE \E k \in Keys, m \in StrayMints : OpenToggldAta(k, m)
  BY <1>1, <1>4, <1>5, <1>6 DEF AllLamports
<1>7. CASE \E k \in Keys, g \in WsolGifts : OpenWsolAta(k, g)
  BY <1>1, <1>3, <1>7 DEF AllLamports
<1>8. CASE ~(\E k \in Keys, m \in StrayMints : OpenToggldAta(k, m))
           /\ ~(\E k \in Keys, g \in WsolGifts : OpenWsolAta(k, g))
  <2>1. UNCHANGED <<vars, burn_vault_wsol_ata, swapped, opened_atas>>
    BY <1>8 DEF OutsideStep, SendTokens, Trade, Graduate, marketVars
  <2>2. InTheAuction' = InTheAuction /\ OpenedRents' = OpenedRents
    BY <2>1 DEF InTheAuction, SlotLamports, RentSpent, StrayLamports, OpenedRents, vars,
       holderVars, standingVars, moneyVars
  <2> QED
    BY <1>1, <2>1, <2>2 DEF AllLamports
<1> QED
  BY <1>6, <1>7, <1>8

LEMMA BurnNextConserves ==
  ASSUME BurnSupplyInv, IsFiniteSet(Keys), BurnNext
  PROVE  AllLamportsConserved' /\ IsFiniteSet(prefunded') /\ IsFiniteSet(opened_atas')
<1> DEFINE Kept == AllLamportsConserved' /\ IsFiniteSet(prefunded') /\ IsFiniteSet(opened_atas')
<1>1. /\ InTheAuction \in Nat /\ burn_vault_wsol_ata \in Nat /\ swapped \in Nat
      /\ LaunchRents \in Nat /\ RentConfig \in Nat /\ RentAta \in Nat /\ OpenedRents \in Nat
      /\ IsFiniteSet(prefunded) /\ IsFiniteSet(opened_atas)
  BY BurnFiniteness, OpenedRentsIsNatural DEF BurnSupplyInv
<1>2. InTheAuction + burn_vault_wsol_ata + swapped + LaunchRents + OpenedRents = Supply
  BY DEF BurnSupplyInv, AllLamportsConserved, AllLamports
<1>3. Supply' = Supply
  BY DEF Supply
<1>4. CASE Next /\ UNCHANGED burnVars
  <2>1. InTheAuction' = InTheAuction /\ IsFiniteSet(prefunded')
    BY <1>4, StepConserves, StepKeepsStray DEF BurnSupplyInv, BurnInv
  <2>2. UNCHANGED <<burn_vault_wsol_ata, swapped, LaunchRents, opened_atas, OpenedRents>>
    BY <1>4 DEF burnVars, marketVars, LaunchRents, OpenedRents, Configured
  <2> QED
    BY <1>1, <1>2, <1>3, <2>1, <2>2 DEF AllLamportsConserved, AllLamports
<1>5. CASE \E s \in Keys, m \in Mints, r \in SetupRoutings, b \in Slippages :
             SetupToken(s, m, r, b)
  <2>1. /\ InTheAuction' = InTheAuction - (RentConfig + RentAta)
        /\ LaunchRents = 0 /\ LaunchRents' = RentConfig + RentAta /\ OpenedRents' = OpenedRents
    BY <1>1, <1>5, SetupTokenConserves DEF BurnSupplyInv
  <2>2. UNCHANGED <<burn_vault_wsol_ata, swapped, prefunded, opened_atas>>
    BY <1>5 DEF SetupToken, standingVars, marketVars
  <2> QED
    BY <1>1, <1>2, <1>3, <2>1, <2>2 DEF AllLamportsConserved, AllLamports
<1>6. CASE \E s \in Keys, r \in PromotedRoutings : PromoteBurnVenue(s, r)
  <2>1. UNCHANGED <<vars, burn_vault_wsol_ata, swapped, LaunchRents, opened_atas>>
    BY <1>6 DEF PromoteBurnVenue, LaunchRents, Configured, BurnSupplyInv, BurnInv, BurnTypeOK,
       TokenConfigs, marketVars
  <2>2. InTheAuction' = InTheAuction /\ OpenedRents' = OpenedRents /\ prefunded' = prefunded
    BY <2>1 DEF InTheAuction, SlotLamports, RentSpent, StrayLamports, OpenedRents, vars,
       holderVars, standingVars, moneyVars
  <2> QED
    BY <1>1, <1>2, <1>3, <2>1, <2>2 DEF AllLamportsConserved, AllLamports
<1>7. CASE \E k \in Keys : SomeSweep(k)
  <2>1. /\ InTheAuction' + burn_vault_wsol_ata' + swapped'
             = InTheAuction + burn_vault_wsol_ata + swapped
        /\ UNCHANGED <<LaunchRents, OpenedRents, opened_atas>>
    BY <1>1, <1>7, SweepConserves DEF BurnSupplyInv
  <2>2. prefunded' = prefunded
    BY <1>7 DEF SomeSweep, BurnTokens, standingVars
  <2> QED
    BY <1>1, <1>2, <1>3, <2>1, <2>2 DEF AllLamportsConserved, AllLamports
<1>8. CASE OutsideStep
  <2>1. AllLamports' = AllLamports /\ IsFiniteSet(opened_atas')
    BY <1>1, <1>8, OutsideConserves DEF BurnSupplyInv
  <2>2. prefunded' = prefunded
    BY <1>8 DEF OutsideStep, OpenToggldAta, OpenWsolAta, SendTokens, Trade, Graduate, vars,
       standingVars
  <2> QED
    BY <1>1, <1>2, <1>3, <2>1, <2>2 DEF AllLamportsConserved, AllLamports
<1> HIDE DEF Kept
<1>9. Kept
  BY <1>4, <1>5, <1>6, <1>7, <1>8, Zenon DEF BurnNext, AdminStep, Next, Kept
<1> QED
  BY <1>9 DEF Kept

LEMMA BurnNextSupplyInv ==
  ASSUME IsFiniteSet(Keys)
  PROVE  BurnSupplyInv /\ [BurnNext]_allVars => BurnSupplyInv'
<1> SUFFICES ASSUME BurnSupplyInv, [BurnNext]_allVars PROVE BurnSupplyInv'
  OBVIOUS
<1>1. BurnInv'
  BY BurnNextBurnInv DEF BurnSupplyInv
<1>2. CountersBelowPrice'
  <2>1. CASE Next
    BY <2>1, StepKeepsCounters DEF BurnSupplyInv, BurnInv
  <2>2. ASSUME UNCHANGED <<holderVars, standingVars, windowVars, now>>
        PROVE  CountersBelowPrice'
    BY <2>2 DEF BurnSupplyInv, CountersBelowPrice, holderVars, standingVars
  <2>3. CASE BurnNext /\ ~Next
    BY <2>2, <2>3, BurnStepsAside
  <2>4. CASE UNCHANGED allVars
    BY <2>2, <2>4 DEF allVars, vars
  <2> QED
    BY <2>1, <2>3, <2>4
<1>3. AllLamportsConserved' /\ IsFiniteSet(prefunded') /\ IsFiniteSet(opened_atas')
  <2>1. CASE BurnNext
    BY <2>1, BurnNextConserves
  <2>2. CASE UNCHANGED allVars
    BY <2>2 DEF BurnSupplyInv, AllLamportsConserved, AllLamports, InTheAuction, SlotLamports, RentSpent,
       StrayLamports, LaunchRents, OpenedRents, Configured, allVars, vars, burnVars, marketVars,
       holderVars, standingVars, moneyVars
  <2> QED
    BY <2>1, <2>2
<1> QED
  BY <1>1, <1>2, <1>3 DEF BurnSupplyInv

\* The inductive invariant holds in every reachable state.
THEOREM BurnSupplyInvariance ==
  ASSUME IsFiniteSet(Keys)
  PROVE  BurnSpec => []BurnSupplyInv
<1>1. BurnInit => BurnSupplyInv
  <2> SUFFICES ASSUME BurnInit PROVE BurnSupplyInv
    OBVIOUS
  <2>1. BurnInv
    BY BurnInitBurnInv
  <2>2. LamportsConserved /\ CountersBelowPrice /\ IsFiniteSet(prefunded)
    BY InitConserves DEF BurnInit
  <2>3. InTheAuction \in Nat
    BY <2>1, <2>2, BurnFiniteness
  <2>4. burn_vault_wsol_ata = 0 /\ swapped = 0 /\ LaunchRents = 0
    BY DEF BurnInit, LaunchRents, Configured
  <2>5. IsFiniteSet(opened_atas) /\ OpenedRents = 0
    BY FS_EmptySet DEF BurnInit, OpenedRents, BurnAssumption
  <2> QED
    BY <2>1, <2>2, <2>3, <2>4, <2>5 DEF BurnSupplyInv, AllLamportsConserved, AllLamports,
       LamportsConserved
<1> QED
  BY <1>1, BurnNextSupplyInv, PTL DEF BurnSpec

\* Settlements, the launch, strangers' gifts and sweeps that lend, wrap, swap and
\* unwrap move lamports and never make or lose one: what is gone from all accounts
\* is what the venues took in for the tokens burned.
THEOREM AllLamportsAreConserved ==
  ASSUME IsFiniteSet(Keys)
  PROVE  BurnSpec => []AllLamportsConserved
<1>1. BurnSupplyInv => AllLamportsConserved
  BY DEF BurnSupplyInv
<1> QED
  BY <1>1, BurnSupplyInvariance, PTL

\* With a supply that fits a u64, nothing the launch or a sweep does can bring the
\* auction to a checked sum that fails: what blocks a settlement is still only what
\* was sent to the address of its record.
THEOREM SweepsBlockNothing ==
  ASSUME IsFiniteSet(Keys), FitsU64(Supply)
  PROVE  BurnSpec => []OnlyTheRecordBlocks
<1>1. BurnSupplyInv => OnlyTheRecordBlocks
  <2> SUFFICES ASSUME BurnSupplyInv PROVE OnlyTheRecordBlocks
    OBVIOUS
  <2>1. /\ InTheAuction \in Nat /\ burn_vault_wsol_ata \in Nat /\ swapped \in Nat
        /\ LaunchRents \in Nat /\ OpenedRents \in Nat
        /\ InTheAuction + burn_vault_wsol_ata + swapped + LaunchRents + OpenedRents = Supply
    BY BurnFiniteness, OpenedRentsIsNatural DEF BurnSupplyInv, AllLamportsConserved, AllLamports
  <2>2. FitsU64(InTheAuction)
    BY <2>1 DEF FitsU64
  <2> QED
    BY <2>2, SupplyUnblocks DEF BurnSupplyInv, BurnInv
<1> QED
  BY <1>1, BurnSupplyInvariance, PTL
=============================================================================
