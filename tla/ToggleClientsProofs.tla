------------------------- MODULE ToggleClientsProofs -------------------------
(* The events and the clients of the auction, proved for any number of bidders *)
(* and any bids: what the events tell is the state, and a transaction that     *)
(* reaches the program again and again is taken once, and only as it was meant. *)
EXTENDS ToggleClients, ToggleSupplyProofs

Views == [holder : Keys \cup {NoKey}, price : Nat, flips : Int,
          window : [end_ts : Nat, bidder : Keys \cup {NoKey}, bid : Nat],
          owed : [Keys -> Int], fees : Int, burned : Int]

\* Before the game is initialized nothing is owed and nothing is burned.
NothingYet ==
  ~initialized => /\ DOMAIN refund = {}
                  /\ lamports[Incinerator] = 0 /\ lamports[BurnVault] = 0

\* What the reader knows is what is so.
EventInv ==
  /\ IInv
  /\ NothingYet
  /\ view \in Views
  /\ EventsTellTheState

\* The bid to beat, which no step lowers.
Standing == IF window_active THEN top_bid_amount ELSE current_price

\* A bid that was taken is never above the bid to beat again.
LandedBidsAreBeaten ==
  \A k \in Bidders :
    sent[k] # NoTransaction /\ sent[k].landed >= 1
    => initialized /\ sent[k].bid_amount <= Standing

Transactions == [bid_amount : BidAmounts, pending_refund : Keys \cup {Omitted},
                 landed : 0 .. 2]

ClientInv ==
  /\ EventInv
  /\ sent \in [Bidders -> Transactions \cup {NoTransaction}]
  /\ LandedBidsAreBeaten
  /\ BidsLandOnce

USE KeysAssumption, AmountsAssumption, WidthAssumption, NoTransactionAssumption

-----------------------------------------------------------------------------
(* The events *)

LEMMA AccountsKept == IInv => DOMAIN lamports = Accounts
  BY DEF IInv, TypeOK

LEMMA EventInitInv == EventInit => EventInv
<1> SUFFICES ASSUME EventInit PROVE EventInv
  OBVIOUS
<1>1. IInv
  BY InitIInv DEF EventInit
<1>2. NothingYet /\ ~initialized
  BY DEF EventInit, Init, NothingYet, Accounts
<1>3. view \in Views
  BY DEF EventInit, FreshView, NoWindow, Views
<1> QED
  BY <1>1, <1>2, <1>3 DEF EventInv, EventsTellTheState

\* initialize()
LEMMA InitializeReadInv ==
  ASSUME EventInv, InitializeRead
  PROVE  EventInv'
<1>1. PICK p \in Keys, t \in Treasuries, a \in Admins, g \in GenesisPrices :
        Initialize(p, t, a, g) /\ view' = ReadGenesis
  BY DEF InitializeRead
<1>2. IInv' /\ initialized' /\ holder' \in Keys /\ current_price' \in Nat
  <2>1. IInv'
    BY <1>1, InitializeInv DEF EventInv
  <2> QED
    BY <1>1, <2>1 DEF Initialize, IInv, TypeOK
<1>3. /\ ~initialized /\ holder_count' = 1 /\ window_end_ts' = 0 /\ top_bidder' = NoKey
      /\ top_bid_amount' = 0 /\ treasury_balance' = 0 /\ refund' = refund
  BY <1>1 DEF Initialize
<1>4. /\ DOMAIN refund = {}
      /\ lamports'[Incinerator] = 0 /\ lamports'[BurnVault] = 0
  BY <1>1, <1>3, BurnAddressesAside, AccountsKept DEF EventInv, NothingYet
<1>5. view' \in Views
  BY <1>1, <1>2 DEF ReadGenesis, FreshView, NoWindow, Views
<1>6. EventsTellTheState'
  BY <1>1, <1>3, <1>4 DEF EventsTellTheState, ReadGenesis, FreshView, NoWindow, Owed
<1> QED
  BY <1>2, <1>5, <1>6 DEF EventInv, NothingYet

\* challenge(): what is owed after it
LEMMA OwedAfterChallenge ==
  ASSUME IInv, NEW c \in Bidders, NEW b \in BidAmounts,
         NEW r \in Keys \cup {NoKey, Omitted}, Challenge(c, b, r)
  PROVE  /\ ~window_active => refund' = refund
         /\ window_active =>
              /\ top_bidder \in Keys
              /\ \A k \in Keys : Owed(k)' = IF k = top_bidder THEN Owed(k) + top_bid_amount
                                                             ELSE Owed(k)
<1>1. window_active <=> top_bidder # NoKey
  BY DEF IInv, EscrowIsTopBid
<1>2. CASE ~window_active
  BY <1>1, <1>2 DEF Challenge, RefundPrevious, InitIfNeeded, NeedsInit
<1>3. CASE window_active
  <2> DEFINE slot == InitIfNeeded(r)[r]
             credited == CreditRefund(slot, c)
  <2>1. r = top_bidder /\ r \in Keys /\ r # Omitted /\ refund' = Put(refund, r, credited)
    BY <1>1, <1>3 DEF IInv, TypeOK, Challenge, SlotOfTopBidder, RefundPrevious,
       KeysAssumption, Accounts
  <2>2. slot.amount = Owed(r)
    <3>1. CASE r \in DOMAIN refund
      BY <3>1 DEF InitIfNeeded, NeedsInit, Owed
    <3>2. CASE r \notin DOMAIN refund
      BY <3>2, <2>1 DEF InitIfNeeded, NeedsInit, Put, FreshRefund, Owed
    <3> QED
      BY <3>1, <3>2
  <2>3. credited.amount = Owed(r) + top_bid_amount
    BY <2>2 DEF CreditRefund
  <2> HIDE DEF credited
  <2>4. DOMAIN refund' = DOMAIN refund \cup {r} /\ refund'[r] = credited
        /\ \A k \in DOMAIN refund \ {r} : refund'[k] = refund[k]
    BY <2>1 DEF Put
  <2> QED
    BY <1>3, <2>1, <2>3, <2>4 DEF Owed
<1> QED
  BY <1>2, <1>3

LEMMA ChallengeReadInv ==
  ASSUME EventInv, NEW c \in Bidders, NEW b \in BidAmounts,
         NEW r \in Keys \cup {NoKey, Omitted}, ChallengeRead(c, b, r)
  PROVE  EventInv'
<1> DEFINE e == ChallengeEvent(c, b)
           owed == IF window_active
                   THEN [view.owed EXCEPT ![top_bidder] = @ + top_bid_amount]
                   ELSE view.owed
<1>1. /\ IInv /\ IInv' /\ Challenge(c, b, r) /\ view' = ReadChallenge(e)
      /\ initialized /\ initialized' /\ EventsTellTheState /\ view \in Views
  BY ChallengeInv DEF EventInv, ChallengeRead, Challenge, standingVars
<1>2. /\ window_active' = TRUE /\ top_bidder' = c /\ top_bid_amount' = b
      /\ UNCHANGED <<holderVars, treasury_balance>>
      /\ lamports'[Incinerator] = lamports[Incinerator]
      /\ lamports'[BurnVault] = lamports[BurnVault]
  BY <1>1, BurnAddressesAside, AccountsKept DEF Challenge
<1>3. /\ e.window_end_ts = window_end_ts' /\ e.challenger = c /\ e.bid_amount = b
      /\ e.extended = window_active
  BY DEF ChallengeEvent
<1> HIDE DEF e
<1>4. /\ view.holder = holder /\ view.price = current_price /\ view.flips = holder_count - 1
      /\ view.window.bidder = top_bidder /\ view.window.bid = top_bid_amount
      /\ view.fees = treasury_balance
      /\ view.burned = lamports[Incinerator] + lamports[BurnVault]
      /\ view.owed \in [Keys -> Int] /\ \A k \in Keys : view.owed[k] = Owed(k)
  BY <1>1 DEF EventsTellTheState, Views
<1>5. view' = [view EXCEPT !.window = [end_ts |-> window_end_ts', bidder |-> c, bid |-> b],
                           !.owed = owed]
  <2> DEFINE window == [end_ts |-> e.window_end_ts, bidder |-> e.challenger,
                        bid |-> e.bid_amount]
             toldOwed == IF e.extended
                         THEN [view.owed EXCEPT ![view.window.bidder] = @ + view.window.bid]
                         ELSE view.owed
  <2>1. window = [end_ts |-> window_end_ts', bidder |-> c, bid |-> b]
    BY <1>3
  <2>2. toldOwed = owed
    BY <1>3, <1>4
  <2>3. view' = [view EXCEPT !.window = window, !.owed = toldOwed]
    BY <1>1 DEF ReadChallenge, Views
  <2> QED
    BY <2>1, <2>2, <2>3, Zenon
<1>6. /\ owed \in [Keys -> Int]
      /\ \A k \in Keys : owed[k] = Owed(k)'
  <2>1. CASE ~window_active
    <3>1. refund' = refund
      BY <1>1, <2>1, OwedAfterChallenge
    <3> QED
      BY <1>4, <2>1, <3>1 DEF Owed
  <2>2. CASE window_active
    <3>1. /\ top_bidder \in Keys /\ top_bid_amount \in Nat
          /\ \A k \in Keys : Owed(k)' = IF k = top_bidder THEN Owed(k) + top_bid_amount
                                                         ELSE Owed(k)
      BY <1>1, <2>2, OwedAfterChallenge DEF IInv, TypeOK
    <3>2. /\ owed \in [Keys -> Int]
          /\ owed[top_bidder] = view.owed[top_bidder] + top_bid_amount
          /\ \A k \in Keys \ {top_bidder} : owed[k] = view.owed[k]
      BY <1>4, <2>2, <3>1
    <3> HIDE DEF owed
    <3> QED
      BY <1>4, <3>1, <3>2
  <2> QED
    BY <2>1, <2>2
<1> HIDE DEF owed
<1>7. /\ view' \in Views /\ view'.holder = view.holder /\ view'.price = view.price
      /\ view'.flips = view.flips /\ view'.fees = view.fees /\ view'.burned = view.burned
      /\ view'.window = [end_ts |-> window_end_ts', bidder |-> c, bid |-> b]
      /\ view'.owed = owed
  <2>1. window_end_ts' \in Nat /\ c \in Keys /\ b \in Nat
    BY <1>1 DEF IInv, TypeOK, KeysAssumption, AmountsAssumption
  <2> DEFINE window == [end_ts |-> window_end_ts', bidder |-> c, bid |-> b]
  <2>2. window \in [end_ts : Nat, bidder : Keys \cup {NoKey}, bid : Nat]
    BY <2>1
  <2> HIDE DEF window
  <2>3. view' = [view EXCEPT !.window = window, !.owed = owed]
    BY <1>5 DEF window
  <2>4. /\ view' \in Views /\ view'.holder = view.holder /\ view'.price = view.price
        /\ view'.flips = view.flips /\ view'.fees = view.fees /\ view'.burned = view.burned
        /\ view'.window = window /\ view'.owed = owed
    BY <1>1, <1>6, <2>2, <2>3 DEF Views
  <2> QED
    BY <2>4 DEF window
<1>8. EventsTellTheState'
  BY <1>2, <1>4, <1>6, <1>7 DEF EventsTellTheState, holderVars
<1> QED
  BY <1>1, <1>7, <1>8 DEF EventInv, NothingYet

\* settle()
LEMMA SettleReadInv ==
  ASSUME EventInv, NEW c \in Keys, SettleRead(c)
  PROVE  EventInv'
<1> DEFINE split == compute_split(top_bid_amount, FEE_BPS)
           e == SettleEvent
<1>1. PICK d \in Accounts : Settle(c, d) /\ view' = ReadSettle(e)
  BY DEF SettleRead
<1>2. /\ IInv /\ IInv' /\ initialized /\ initialized' /\ EventsTellTheState /\ view \in Views
      /\ window_active /\ top_bidder \in Keys /\ holder_count \in Nat
      /\ top_bid_amount \in Nat /\ treasury_balance \in Nat
  <2>1. IInv /\ IInv'
    BY <1>1, SettleInv DEF EventInv
  <2> QED
    BY <1>1, <2>1 DEF EventInv, Settle, WindowElapsed, standingVars, IInv, TypeOK, EscrowIsTopBid
<1>3. /\ split.fee \in Nat /\ split.burn \in Nat
  BY <1>2, SplitIsExact
<1>4. /\ current_price' = top_bid_amount /\ treasury_balance' = treasury_balance + split.fee
      /\ window_end_ts' = 0 /\ top_bidder' = NoKey /\ top_bid_amount' = 0 /\ refund' = refund
  BY <1>1 DEF Settle
<1>5. lamports'[Incinerator] + lamports'[BurnVault]
        = lamports[Incinerator] + lamports[BurnVault] + split.burn
  BY <1>1, <1>2, LamportsAfterSettle
<1>6. /\ holder' = top_bidder
      /\ holder_count' = IF flipped THEN holder_count + 1 ELSE holder_count
  BY <1>1, Zenon DEF Settle, FlipHolder, flipped
<1>7. /\ e.winner = top_bidder /\ e.winning_price = top_bid_amount
      /\ e.flipped = flipped /\ e.treasury_cut = split.fee /\ e.burned_amount = split.burn
  BY DEF SettleEvent
<1> HIDE DEF e, split
<1>8. /\ view.flips = holder_count - 1 /\ view.fees = treasury_balance
      /\ view.burned = lamports[Incinerator] + lamports[BurnVault]
      /\ view.owed \in [Keys -> Int] /\ \A k \in Keys : view.owed[k] = Owed(k)
      /\ view.burned \in Int
  BY <1>2 DEF EventsTellTheState, Views
<1>9. /\ view' \in Views /\ view'.holder = top_bidder /\ view'.price = top_bid_amount
      /\ view'.flips = (IF flipped THEN view.flips + 1 ELSE view.flips)
      /\ view'.fees = view.fees + split.fee /\ view'.burned = view.burned + split.burn
      /\ view'.window = NoWindow /\ view'.owed = view.owed
  <2>1. NoWindow \in [end_ts : Nat, bidder : Keys \cup {NoKey}, bid : Nat]
    BY DEF NoWindow
  <2> DEFINE flips == IF flipped THEN view.flips + 1 ELSE view.flips
  <2>2. flips \in Int /\ view.fees + split.fee \in Int /\ view.burned + split.burn \in Int
    BY <1>2, <1>3 DEF Views
  <2>3. view' = [view EXCEPT !.holder = top_bidder, !.price = top_bid_amount,
                             !.window = NoWindow, !.flips = flips,
                             !.fees = view.fees + split.fee,
                             !.burned = view.burned + split.burn]
    BY <1>1, <1>2, <1>7, Zenon DEF ReadSettle
  <2> HIDE DEF flips
  <2>4. /\ view' \in Views /\ view'.holder = top_bidder /\ view'.price = top_bid_amount
        /\ view'.flips = flips
        /\ view'.fees = view.fees + split.fee /\ view'.burned = view.burned + split.burn
        /\ view'.window = NoWindow /\ view'.owed = view.owed
    BY <1>2, <2>1, <2>2, <2>3 DEF Views
  <2> QED
    BY <2>4 DEF flips
<1>10. view'.flips = holder_count' - 1
  BY <1>2, <1>6, <1>8, <1>9
<1>11. \A k \in Keys : view'.owed[k] = Owed(k)'
  BY <1>4, <1>8, <1>9 DEF Owed
<1>12. view'.fees = treasury_balance' /\ view'.burned = lamports'[Incinerator] + lamports'[BurnVault]
  BY <1>4, <1>5, <1>8, <1>9
<1>13. EventsTellTheState'
  BY <1>4, <1>6, <1>9, <1>10, <1>11, <1>12 DEF EventsTellTheState, NoWindow
<1> QED
  BY <1>2, <1>9, <1>13 DEF EventInv, NothingYet

\* claim_refund()
LEMMA ClaimReadInv ==
  ASSUME EventInv, NEW c \in Keys, ClaimRead(c)
  PROVE  EventInv'
<1>1. PICK k \in Keys, p \in Keys :
        ClaimRefund(c, k, p) /\ view' = ReadRefundClaimed(RefundClaimedEvent(c))
  BY DEF ClaimRead
<1>2. /\ k = c /\ c \in DOMAIN refund /\ refund' = Close(refund, c)
      /\ UNCHANGED <<holderVars, standingVars, windowVars, treasury_balance>>
  BY <1>1 DEF ClaimRefund
<1>3. /\ IInv /\ IInv' /\ initialized /\ initialized' /\ EventsTellTheState /\ view \in Views
  BY <1>1, <1>2, ClaimRefundInv DEF EventInv, NothingYet, standingVars
<1>4. /\ view.owed \in [Keys -> Int] /\ \A x \in Keys : view.owed[x] = Owed(x)
      /\ refund[c].amount \in Nat
  BY <1>2, <1>3 DEF EventsTellTheState, Views, IInv, TypeOK, RefundSlot
<1>5. \A x \in Keys : Owed(x)' = IF x = c THEN 0 ELSE Owed(x)
  BY <1>2 DEF Owed, Close
<1> DEFINE owed == [view.owed EXCEPT ![c] = @ - refund[c].amount]
<1>6. owed \in [Keys -> Int] /\ \A x \in Keys : owed[x] = Owed(x)'
  <2>1. /\ owed \in [Keys -> Int] /\ owed[c] = view.owed[c] - refund[c].amount
        /\ \A x \in Keys \ {c} : owed[x] = view.owed[x]
    BY <1>4
  <2>2. view.owed[c] = refund[c].amount
    BY <1>2, <1>4 DEF Owed
  <2> HIDE DEF owed
  <2> QED
    BY <1>4, <1>5, <2>1, <2>2
<1>7. view' = [view EXCEPT !.owed = owed]
  BY <1>1, <1>3 DEF ReadRefundClaimed, RefundClaimedEvent, Views
<1> HIDE DEF owed
<1>8. /\ view' \in Views /\ view'.owed = owed /\ view'.holder = view.holder
      /\ view'.price = view.price /\ view'.flips = view.flips /\ view'.window = view.window
      /\ view'.fees = view.fees /\ view'.burned = view.burned
  BY <1>3, <1>6, <1>7 DEF Views
<1>9. lamports'[Incinerator] = lamports[Incinerator] /\ lamports'[BurnVault] = lamports[BurnVault]
  BY <1>1, <1>3, BurnAddressesAside, AccountsKept
<1>10. EventsTellTheState'
  BY <1>2, <1>3, <1>6, <1>8, <1>9 DEF EventsTellTheState, holderVars, windowVars
<1> QED
  BY <1>3, <1>8, <1>10 DEF EventInv, NothingYet

\* withdraw_treasury()
LEMMA WithdrawReadInv ==
  ASSUME EventInv, WithdrawRead
  PROVE  EventInv'
<1>1. PICK s \in Keys, d \in Keys :
        WithdrawTreasury(s, d) /\ view' = ReadWithdraw(TreasuryWithdrawEvent)
  BY DEF WithdrawRead
<1>2. /\ treasury_balance' = 0 /\ initialized
      /\ UNCHANGED <<holderVars, standingVars, windowVars, refund>>
  BY <1>1 DEF WithdrawTreasury
<1>3. /\ IInv /\ IInv' /\ initialized' /\ EventsTellTheState /\ view \in Views
      /\ treasury_balance \in Nat
  BY <1>1, <1>2, WithdrawTreasuryInv DEF EventInv, IInv, TypeOK, standingVars
<1>4. view' = [view EXCEPT !.fees = @ - treasury_balance]
  BY <1>1 DEF ReadWithdraw, TreasuryWithdrawEvent
<1>5. /\ view' \in Views /\ view'.fees = view.fees - treasury_balance
      /\ view'.owed = view.owed /\ view'.holder = view.holder
      /\ view'.price = view.price /\ view'.flips = view.flips /\ view'.window = view.window
      /\ view'.burned = view.burned
  BY <1>3, <1>4 DEF Views
<1>6. view'.fees = 0
  BY <1>2, <1>3, <1>5 DEF EventsTellTheState
<1>7. lamports'[Incinerator] = lamports[Incinerator] /\ lamports'[BurnVault] = lamports[BurnVault]
  BY <1>1, <1>3, BurnAddressesAside, AccountsKept
<1>8. EventsTellTheState'
  BY <1>2, <1>3, <1>5, <1>6, <1>7 DEF EventsTellTheState, Owed, holderVars, windowVars
<1> QED
  BY <1>3, <1>5, <1>8 DEF EventInv, NothingYet

\* A transfer to a record's address comes out of a wallet and emits nothing.
LEMMA StrayEventInv ==
  ASSUME EventInv, StrayUnread
  PROVE  EventInv'
<1>1. IInv /\ IInv'
  BY NextIInv DEF EventInv, StrayUnread, Next
<1>2. PICK k \in Keys, n \in StrayOrdinals : SendLamports(k, n)
  BY DEF StrayUnread, Stray
<1>3. UNCHANGED <<view, initialized, holderVars, windowVars, treasury_balance, refund>>
  BY <1>2 DEF StrayUnread, SendLamports
<1>4. lamports'[Incinerator] = lamports[Incinerator] /\ lamports'[BurnVault] = lamports[BurnVault]
  BY <1>1, <1>2, StrayEffect DEF IInv, TypeOK, Accounts
<1> QED
  BY <1>1, <1>3, <1>4 DEF EventInv, NothingYet, EventsTellTheState, Owed, holderVars, windowVars

LEMMA StillEventInv ==
  ASSUME EventInv, UNCHANGED eventVars \/ TickRead
  PROVE  EventInv'
<1>1. IInv'
  BY NextIInv DEF EventInv, eventVars, TickRead, Next
<1>2. UNCHANGED <<view, initialized, holderVars, windowVars, treasury_balance, refund, lamports>>
  BY DEF eventVars, vars, TickRead, Tick, standingVars, moneyVars
<1> QED
  BY <1>1, <1>2 DEF EventInv, NothingYet, EventsTellTheState, Owed, holderVars, windowVars

-----------------------------------------------------------------------------
(* The clients *)

\* A taken bid is at least 5% above the bid to beat, and becomes it.
LEMMA TakenBidClearsStanding ==
  ASSUME IInv, NEW c \in Bidders, NEW b \in BidAmounts,
         NEW r \in Keys \cup {NoKey, Omitted}, Challenge(c, b, r)
  PROVE  /\ Standing \in Nat /\ Standing > 0
         /\ 100 * b >= 105 * Standing
         /\ initialized' /\ Standing' = b
<1>1. /\ b \in Nat /\ current_price \in Nat /\ top_bid_amount \in Nat
      /\ current_price > 0
      /\ window_active => 100 * top_bid_amount >= 105 * current_price
      /\ initialized' /\ window_active' = TRUE /\ top_bid_amount' = b
  BY DEF IInv, TypeOK, TopBidClearsRaise, Challenge, standingVars, AmountsAssumption
<1>2. Standing \in Nat /\ Standing > 0 /\ Standing' = b
  BY <1>1 DEF Standing
<1>3. 100 * b >= 105 * Standing
  <2>1. CASE ColdOpen(c, b)
    BY <1>1, <2>1, MinRaiseIsFivePercent DEF ColdOpen, Standing
  <2>2. CASE Outbid(c, b)
    BY <1>1, <2>2, MinRaiseIsFivePercent DEF Outbid, Standing
  <2> QED
    BY <2>1, <2>2 DEF Challenge
<1> QED
  BY <1>1, <1>2, <1>3

\* Nothing else changes the bid to beat of a game once initialized.
LEMMA StandingStays ==
  ASSUME IInv, initialized,
         \/ \E c \in Keys : SettleRead(c) \/ ClaimRead(c)
         \/ InitializeRead \/ WithdrawRead \/ TickRead \/ StrayUnread \/ UNCHANGED eventVars
  PROVE  initialized' /\ Standing' = Standing
<1>1. ASSUME NEW c \in Keys, NEW d \in Accounts, Settle(c, d)
      PROVE  initialized' /\ Standing' = Standing
  BY <1>1 DEF Settle, WindowElapsed, Standing, standingVars
<1>2. ASSUME UNCHANGED <<initialized, current_price, window_active, top_bid_amount>>
      PROVE  initialized' /\ Standing' = Standing
  BY <1>2 DEF Standing
<1>3. ASSUME NEW c \in Keys, NEW k \in Keys, NEW p \in Keys, ClaimRefund(c, k, p)
      PROVE  UNCHANGED <<initialized, current_price, window_active, top_bid_amount>>
  BY <1>3 DEF ClaimRefund, holderVars, standingVars, windowVars
<1>4. ASSUME NEW s \in Keys, NEW d \in Keys, WithdrawTreasury(s, d)
      PROVE  UNCHANGED <<initialized, current_price, window_active, top_bid_amount>>
  BY <1>4 DEF WithdrawTreasury, holderVars, standingVars, windowVars
<1>5. ASSUME NEW t \in Instants, Tick(t)
      PROVE  UNCHANGED <<initialized, current_price, window_active, top_bid_amount>>
  BY <1>5 DEF Tick, holderVars, standingVars, windowVars
<1>6. ~InitializeRead
  BY DEF InitializeRead, Initialize
<1>7. ASSUME UNCHANGED eventVars
      PROVE  UNCHANGED <<initialized, current_price, window_active, top_bid_amount>>
  BY <1>7 DEF eventVars, vars, holderVars, standingVars, windowVars
<1>8. ASSUME NEW k \in Keys, NEW n \in StrayOrdinals, SendLamports(k, n)
      PROVE  UNCHANGED <<initialized, current_price, window_active, top_bid_amount>>
  BY <1>8 DEF SendLamports, holderVars, windowVars
<1> QED
  BY <1>1, <1>2, <1>3, <1>4, <1>5, <1>6, <1>7, <1>8, Zenon
     DEF SettleRead, ClaimRead, WithdrawRead, TickRead, StrayUnread, Stray

LEMMA ClientInitInv == ClientInit => ClientInv
<1> SUFFICES ASSUME ClientInit PROVE ClientInv
  OBVIOUS
<1>1. EventInv
  BY EventInitInv DEF ClientInit
<1>2. \A k \in Bidders : sent[k] = NoTransaction
  BY DEF ClientInit
<1>3. sent \in [Bidders -> Transactions \cup {NoTransaction}]
  BY DEF ClientInit
<1> QED
  BY <1>1, <1>2, <1>3 DEF ClientInv, LandedBidsAreBeaten, BidsLandOnce

LEMMA ComposeInv ==
  ASSUME ClientInv, NEW k \in Bidders, Compose(k)
  PROVE  ClientInv'
<1>1. EventInv' /\ Standing' = Standing /\ initialized' /\ initialized
  <2>1. EventInv /\ IInv /\ UNCHANGED eventVars /\ initialized
    BY DEF ClientInv, EventInv, Compose
  <2> QED
    BY <2>1, StillEventInv, StandingStays
<1>2. SlotToSupply \in Keys \cup {Omitted}
  BY DEF ClientInv, EventInv, Views, SlotToSupply
<1>3. PICK b \in BidAmounts :
        sent' = [sent EXCEPT ![k] = [bid_amount |-> b, pending_refund |-> SlotToSupply,
                                     landed |-> 0]]
  BY DEF Compose, Affordable
<1> DEFINE tx == [bid_amount |-> b, pending_refund |-> SlotToSupply, landed |-> 0]
<1>4. tx \in Transactions /\ tx.landed = 0
  BY <1>2 DEF Transactions
<1>5. sent' = [sent EXCEPT ![k] = tx]
  BY <1>3
<1> HIDE DEF tx
<1>6. /\ sent' \in [Bidders -> Transactions \cup {NoTransaction}]
      /\ sent'[k] = tx /\ \A x \in Bidders \ {k} : sent'[x] = sent[x]
  BY <1>4, <1>5 DEF ClientInv
<1> QED
  BY <1>1, <1>4, <1>6 DEF ClientInv, LandedBidsAreBeaten, BidsLandOnce

\* A bid that was taken once is no raise any more.
LEMMA LandInv ==
  ASSUME ClientInv, NEW k \in Bidders, Land(k)
  PROVE  ClientInv'
<1> DEFINE b == sent[k].bid_amount
           r == sent[k].pending_refund
           n == sent[k].landed
<1>1. /\ b \in BidAmounts /\ r \in Keys \cup {Omitted} /\ n \in 0 .. 2
      /\ sent[k] # NoTransaction /\ ChallengeRead(k, b, r) /\ Challenge(k, b, r)
  BY DEF ClientInv, Transactions, Land, ChallengeRead
<1>2. EventInv' /\ IInv
  BY <1>1, ChallengeReadInv DEF ClientInv, EventInv
<1>3. /\ Standing \in Nat /\ Standing > 0 /\ 100 * b >= 105 * Standing
      /\ initialized' /\ Standing' = b
  <2> HIDE DEF b, r
  <2> QED
    BY <1>1, <1>2, TakenBidClearsStanding
<1>4. b \in Nat
  BY <1>1 DEF AmountsAssumption
<1>5. n = 0
  <2>1. ASSUME n >= 1 PROVE FALSE
    <3>1. b <= Standing
      BY <1>1, <2>1 DEF ClientInv, LandedBidsAreBeaten
    <3> HIDE DEF b
    <3> QED
      BY <1>3, <1>4, <3>1
  <2> QED
    BY <1>1, <2>1
<1>6. /\ sent' \in [Bidders -> Transactions \cup {NoTransaction}]
      /\ sent'[k] # NoTransaction /\ sent'[k].landed = 1 /\ sent'[k].bid_amount = b
      /\ \A x \in Bidders \ {k} : sent'[x] = sent[x]
  <2> DEFINE tx == [sent[k] EXCEPT !.landed = n + 1]
  <2>1. sent' = [sent EXCEPT ![k] = tx]
    BY DEF Land
  <2>2. sent[k] \in Transactions
    BY <1>1 DEF ClientInv
  <2>3. tx \in Transactions /\ tx.landed = 1 /\ tx.bid_amount = b
    BY <1>5, <2>2 DEF Transactions
  <2>4. tx # NoTransaction
    BY <2>3 DEF Transactions, NoTransactionAssumption
  <2> HIDE DEF tx, b, n
  <2> QED
    BY <2>1, <2>3, <2>4 DEF ClientInv
<1>7. BidsLandOnce'
  BY <1>6 DEF ClientInv, BidsLandOnce
<1>8. LandedBidsAreBeaten'
  <2> SUFFICES ASSUME NEW x \in Bidders, sent'[x] # NoTransaction, sent'[x].landed >= 1
               PROVE  initialized' /\ sent'[x].bid_amount <= Standing'
    BY DEF LandedBidsAreBeaten
  <2>1. CASE x = k
    <3> HIDE DEF b
    <3> QED
      BY <2>1, <1>3, <1>4, <1>6
  <2>2. CASE x # k
    <3>1. sent[x].bid_amount <= Standing /\ sent[x] = sent'[x]
      BY <1>6, <2>2 DEF ClientInv, LandedBidsAreBeaten
    <3>2. sent[x].bid_amount \in Nat
      <4>1. sent[x] \in Transactions
        BY <1>6, <2>2 DEF ClientInv
      <4> QED
        BY <4>1 DEF Transactions, AmountsAssumption
    <3> HIDE DEF b
    <3> QED
      BY <1>3, <1>4, <3>1, <3>2
  <2> QED
    BY <2>1, <2>2
<1> QED
  BY <1>2, <1>6, <1>7, <1>8 DEF ClientInv

LEMMA ForgetInv ==
  ASSUME ClientInv, NEW k \in Bidders, Forget(k)
  PROVE  ClientInv'
<1>1. EventInv' /\ UNCHANGED eventVars
  BY StillEventInv DEF ClientInv, Forget
<1>2. /\ sent' \in [Bidders -> Transactions \cup {NoTransaction}]
      /\ sent'[k] = NoTransaction /\ \A x \in Bidders \ {k} : sent'[x] = sent[x]
  BY DEF ClientInv, Forget
<1>3. initialized => initialized' /\ Standing' = Standing
  BY <1>1, StandingStays DEF ClientInv, EventInv
<1>4. LandedBidsAreBeaten' /\ BidsLandOnce'
  BY <1>2, <1>3 DEF ClientInv, LandedBidsAreBeaten, BidsLandOnce
<1> QED
  BY <1>1, <1>2, <1>4 DEF ClientInv

LEMMA OtherStepInv ==
  ASSUME ClientInv, UNCHANGED sent,
         \/ \E k \in Keys : SettleRead(k) \/ ClaimRead(k)
         \/ InitializeRead \/ WithdrawRead \/ TickRead \/ StrayUnread \/ UNCHANGED eventVars
  PROVE  ClientInv'
<1>1. EventInv'
  BY InitializeReadInv, SettleReadInv, ClaimReadInv, WithdrawReadInv, StrayEventInv, StillEventInv
     DEF ClientInv
<1>2. initialized => initialized' /\ Standing' = Standing
  BY StandingStays DEF ClientInv, EventInv
<1>3. LandedBidsAreBeaten' /\ BidsLandOnce'
  BY <1>2 DEF ClientInv, LandedBidsAreBeaten, BidsLandOnce
<1> QED
  BY <1>1, <1>3 DEF ClientInv

LEMMA ClientNextInv == ClientInv /\ [ClientNext]_clientVars => ClientInv'
<1> SUFFICES ASSUME ClientInv, [ClientNext]_clientVars PROVE ClientInv'
  OBVIOUS
<1>1. CASE \E k \in Bidders : Compose(k) \/ Land(k) \/ Forget(k)
  BY <1>1, ComposeInv, LandInv, ForgetInv
<1>2. CASE UNCHANGED clientVars
  BY <1>2, OtherStepInv DEF clientVars
<1>3. CASE \/ \E k \in Keys : (SettleRead(k) \/ ClaimRead(k)) /\ UNCHANGED sent
           \/ InitializeRead /\ UNCHANGED sent
           \/ WithdrawRead /\ UNCHANGED sent
           \/ (TickRead \/ StrayUnread) /\ UNCHANGED sent
  BY <1>3, OtherStepInv
<1> QED
  BY <1>1, <1>2, <1>3 DEF ClientNext

-----------------------------------------------------------------------------
(* The theorems *)

\* The inductive invariant holds in every reachable state.
THEOREM ClientInvariance == ClientSpec => []ClientInv
<1> QED
  BY ClientInitInv, ClientNextInv, PTL DEF ClientSpec

\* The events tell who holds the toggle, the window, every refund, the fees and
\* what was burned, whatever the instructions and their order.
THEOREM EventsAreFaithful == ClientSpec => []EventsTellTheState
<1>1. ClientInv => EventsTellTheState
  BY DEF ClientInv, EventInv
<1> QED
  BY <1>1, ClientInvariance, PTL

\* A transaction that reaches the program several times bids once.
THEOREM ResentBidsAreTakenOnce == ClientSpec => []BidsLandOnce
<1>1. ClientInv => BidsLandOnce
  BY DEF ClientInv
<1> QED
  BY <1>1, ClientInvariance, PTL

\* A late transaction bids against the bidder it was meant for, or not at all.
THEOREM LateBidsLandAsMeant == ClientSpec => BidsLandAsMeant
<1> DEFINE AsMeant ==
      \A k \in Bidders :
        sent[k] # NoTransaction /\ sent'[k] # NoTransaction /\ sent'[k].landed # sent[k].landed
        => top_bidder = IF sent[k].pending_refund = Omitted THEN NoKey
                                                            ELSE sent[k].pending_refund
<1>1. ClientInv /\ [ClientNext]_clientVars => [AsMeant]_clientVars
  <2> SUFFICES ASSUME ClientInv, ClientNext, NEW k \in Bidders,
                      sent[k] # NoTransaction, sent'[k] # NoTransaction,
                      sent'[k].landed # sent[k].landed
               PROVE  top_bidder = IF sent[k].pending_refund = Omitted
                                   THEN NoKey ELSE sent[k].pending_refund
    OBVIOUS
  <2>1. Land(k)
    BY DEF ClientNext, ClientInv, Compose, Land, Forget
  <2>2. Challenge(k, sent[k].bid_amount, sent[k].pending_refund)
    BY <2>1 DEF Land, ChallengeRead
  <2> QED
    BY <2>2 DEF Challenge, SlotOfTopBidder, RefundPrevious
<1> QED
  BY <1>1, ClientInvariance, PTL DEF ClientSpec, BidsLandAsMeant

-----------------------------------------------------------------------------
(* The auction under its clients *)

LEMMA ClientStepsAreAuctionSteps == ClientInv /\ [ClientNext]_clientVars => [Next]_vars
<1> SUFFICES ASSUME ClientInv, [ClientNext]_clientVars PROVE [Next]_vars
  OBVIOUS
<1>1. ASSUME UNCHANGED eventVars PROVE [Next]_vars
  BY <1>1 DEF eventVars
<1>2. CASE UNCHANGED clientVars
  BY <1>1, <1>2 DEF clientVars
<1>3. ASSUME NEW k \in Bidders, Land(k) PROVE Next
  <2>1. /\ sent[k].bid_amount \in BidAmounts
        /\ sent[k].pending_refund \in Keys \cup {NoKey, Omitted}
    <3>1. sent[k] \in Transactions
      BY <1>3 DEF Land, ClientInv
    <3> QED
      BY <3>1 DEF Transactions
  <2>2. Challenge(k, sent[k].bid_amount, sent[k].pending_refund)
    BY <1>3 DEF Land, ChallengeRead
  <2> QED
    BY <2>1, <2>2, Zenon DEF Next, Instruction
<1>4. ASSUME NEW k \in Bidders, Compose(k) \/ Forget(k) PROVE [Next]_vars
  BY <1>1, <1>4 DEF Compose, Forget
<1>5. ASSUME InitializeRead \/ WithdrawRead \/ TickRead \/ StrayUnread PROVE Next
  BY <1>5, Zenon DEF InitializeRead, WithdrawRead, TickRead, StrayUnread, Next, Instruction
<1>6. ASSUME NEW k \in Keys, SettleRead(k) \/ ClaimRead(k) PROVE Next
  BY <1>6, Zenon DEF SettleRead, ClaimRead, Next, Instruction
<1> QED
  BY <1>2, <1>3, <1>4, <1>5, <1>6, Zenon DEF ClientNext

\* Whatever clients compose, lose and send again, the program sees a behaviour
\* of the auction: every theorem about Spec is one about ClientSpec.
THEOREM ClientsDriveTheAuction == ClientSpec => Spec
<1>1. ClientInit => Init
  BY DEF ClientInit, EventInit
<1> QED
  BY <1>1, ClientStepsAreAuctionSteps, ClientInvariance, PTL DEF ClientSpec, Spec

\* The auction under its clients: its promises about money, refunds and wins,
\* its price and its deadline; bids and claims wait for nobody, and a settlement
\* is stuck exactly while lamports lie at the address of its own record.
THEOREM AuctionSoundUnderClients ==
  ClientSpec => /\ [](/\ VaultSolvent /\ EscrowIsTopBid /\ RefundsBacked /\ WinRecordsDense
                      /\ WinsAlternate /\ TopBidClearsRaise /\ BurnKeepsItsShare
                      /\ SettleWaitsForItsRecord /\ BidsWaitForNobody /\ ClaimsWaitForNobody)
                /\ PriceRisesByMinRaise /\ DeadlineNeverMovesBack /\ EveryBidIsAnswerable
<1>1. IInv => /\ VaultSolvent /\ EscrowIsTopBid /\ RefundsBacked /\ WinRecordsDense
              /\ WinsAlternate /\ TopBidClearsRaise
              /\ SettleWaitsForItsRecord /\ BidsWaitForNobody /\ ClaimsWaitForNobody
  BY WhatIsWaitedFor DEF IInv
<1> QED
  BY <1>1, ClientsDriveTheAuction, Invariance, BurnShareIsKept, PriceOnlyRises,
     DeadlineIsMonotone, BidsStandAFullWindow, PTL

\* What the events tell is all a client needs: a bid composed from them goes
\* through if nobody else's instruction comes first, in time and with room for
\* the amounts in u64.
BidsFromEventsAreGood ==
  \A k \in Bidders : \A b \in Affordable(k) :
    /\ initialized /\ k # KeyToBeat
    /\ view.window.bidder # NoKey => now < view.window.end_ts
    /\ FitsI64(now + DEFAULT_BASE_WINDOW_SECS)
    /\ FitsU64(lamports[k]) /\ FitsU64(lamports[Vault] + Held(top_bidder))
    => ChallengeReady(k, b, SlotToSupply)

\* After every history, whatever was lost or repeated, the events hold everything
\* a client needs to write a challenge whose guards all hold.
THEOREM EventsSuffice == ClientSpec => []BidsFromEventsAreGood
<1>1. ClientInv => BidsFromEventsAreGood
  <2> SUFFICES ASSUME ClientInv, NEW k \in Bidders, NEW b \in Affordable(k),
                      initialized, k # KeyToBeat,
                      view.window.bidder # NoKey => now < view.window.end_ts,
                      FitsI64(now + DEFAULT_BASE_WINDOW_SECS),
                      FitsU64(lamports[k]), FitsU64(lamports[Vault] + Held(top_bidder))
               PROVE  ChallengeReady(k, b, SlotToSupply)
    BY DEF BidsFromEventsAreGood
  <2>1. /\ view.holder = holder /\ view.price = current_price
        /\ view.window.end_ts = window_end_ts /\ view.window.bidder = top_bidder
        /\ view.window.bid = top_bid_amount
    BY DEF ClientInv, EventInv, EventsTellTheState
  <2>2. /\ IInv /\ (window_active <=> top_bidder # NoKey)
    BY DEF ClientInv, EventInv, IInv, EscrowIsTopBid
  <2>3. /\ b \in BidAmounts /\ 100 * b >= 105 * BidToBeat /\ lamports[k] >= b + RentRefund
    BY DEF Affordable
  <2>4. CASE top_bidder = NoKey
    <3>1. BidToBeat = current_price /\ KeyToBeat = holder /\ SlotToSupply = Omitted
      BY <2>1, <2>4 DEF BidToBeat, KeyToBeat, SlotToSupply
    <3>2. lamports[k] >= b
      BY <2>2, <2>3 DEF IInv, TypeOK, Accounts
    <3> QED
      BY <2>2, <2>3, <2>4, <3>1, <3>2, ColdOpenIsReady
  <2>5. CASE top_bidder # NoKey
    <3>1. BidToBeat = top_bid_amount /\ KeyToBeat = top_bidder /\ SlotToSupply = top_bidder
      BY <2>1, <2>5 DEF BidToBeat, KeyToBeat, SlotToSupply
    <3> QED
      BY <2>1, <2>2, <2>3, <2>5, <3>1, OutbidIsReady
  <2> QED
    BY <2>4, <2>5
<1> QED
  BY <1>1, ClientInvariance, PTL

-----------------------------------------------------------------------------
(* With a supply that fits a u64 *)

\* As BidsFromEventsAreGood, with nothing asked of the amounts.
BidsFromEventsGoThrough ==
  \A k \in Bidders : \A b \in Affordable(k) :
    /\ initialized /\ k # KeyToBeat
    /\ view.window.bidder # NoKey => now < view.window.end_ts
    /\ FitsI64(now + DEFAULT_BASE_WINDOW_SECS)
    => ChallengeReady(k, b, SlotToSupply)

\* Clients that lose, delay and repeat what they send leave every lamport where the
\* auction accounts for it; if the supply fits a u64, a bid composed from the events
\* is good but for the clock, no bid, claim or withdrawal is blocked by anybody, and
\* a settlement only by lamports sent ahead to the address of its record.
THEOREM ClientsBidUnblocked ==
  ASSUME IsFiniteSet(Keys), FitsU64(Supply)
  PROVE  ClientSpec => [](LamportsConserved /\ OnlyTheRecordBlocks /\ BidsFromEventsGoThrough)
<1>1. SupplyInv => LamportsConserved /\ OnlyTheRecordBlocks
  BY SupplyUnblocks DEF SupplyInv, LamportsConserved
<1>2. SupplyInv /\ BidsFromEventsAreGood => BidsFromEventsGoThrough
  <2> SUFFICES ASSUME SupplyInv, BidsFromEventsAreGood,
                      NEW k \in Bidders, NEW b \in Affordable(k),
                      initialized, k # KeyToBeat,
                      view.window.bidder # NoKey => now < view.window.end_ts,
                      FitsI64(now + DEFAULT_BASE_WINDOW_SECS)
               PROVE  ChallengeReady(k, b, SlotToSupply)
    BY DEF BidsFromEventsGoThrough
  <2>1. /\ MAX_U64 \in Nat /\ InTheAuction <= MAX_U64 /\ IInv /\ CountersBelowPrice
        /\ IsFiniteSet(prefunded)
    BY DEF SupplyInv, LamportsConserved, FitsU64, WidthAssumption
  <2>2. /\ \A a \in Accounts, x \in Keys : lamports[a] + Held(x) <= MAX_U64
        /\ \A a \in Accounts : lamports[a] \in Nat /\ lamports[a] <= MAX_U64
        /\ \A x \in Keys : Held(x) \in Nat
    BY <2>1, SupplyBounds
  <2>3. k \in Accounts /\ Vault \in Accounts
    BY DEF Accounts, KeysAssumption
  <2>4. FitsU64(lamports[k])
    BY <2>2, <2>3 DEF FitsU64
  <2>5. FitsU64(lamports[Vault] + Held(top_bidder))
    <3>1. CASE top_bidder \in Keys
      <4>1. /\ lamports[Vault] \in Nat /\ Held(top_bidder) \in Nat
            /\ lamports[Vault] + Held(top_bidder) <= MAX_U64
        BY <2>2, <2>3, <3>1
      <4> QED
        BY <4>1 DEF FitsU64
    <3>2. CASE top_bidder \notin Keys
      <4>1. Held(top_bidder) = 0
        BY <2>1, <3>2 DEF Held, IInv, TypeOK
      <4> QED
        BY <2>2, <2>3, <4>1 DEF FitsU64
    <3> QED
      BY <3>1, <3>2
  <2> QED
    BY <2>4, <2>5 DEF BidsFromEventsAreGood
<1> QED
  BY <1>1, <1>2, ClientsDriveTheAuction, SupplyInvariance, EventsSuffice, PTL
=============================================================================
