---------------------------- MODULE ToggleEvents ----------------------------
(* The events the auction emits, and a reader that knows the auction only      *)
(* through them, as an indexer does.  An instruction and its event are one     *)
(* transaction; initialize emits none, so the reader starts from the account   *)
(* it made.                                                                    *)
EXTENDS Toggle

VARIABLE view    \* what the reader makes of the events so far

eventVars == <<vars, view>>

-----------------------------------------------------------------------------
(* What each instruction tells *)

\* extended is read before the window is opened, the deadline after it is set.
ChallengeEvent(challenger, bid_amount) ==
  [challenger |-> challenger, bid_amount |-> bid_amount,
   window_end_ts |-> window_end_ts', extended |-> window_active]

\* Fault: the winner is compared with the holder after the flip.
SettleEventAfterFlip ==
  [winner |-> top_bidder, previous_holder |-> holder, flipped |-> top_bidder # holder',
   winning_price |-> top_bid_amount,
   treasury_cut |-> compute_split(top_bid_amount, FEE_BPS).fee,
   burned_amount |-> compute_split(top_bid_amount, FEE_BPS).burn]

\* Winner, previous holder and price are read before the window is reset.
SettleEvent ==
  [winner |-> top_bidder, previous_holder |-> holder, flipped |-> flipped,
   winning_price |-> top_bid_amount,
   treasury_cut |-> compute_split(top_bid_amount, FEE_BPS).fee,
   burned_amount |-> compute_split(top_bid_amount, FEE_BPS).burn]

TreasuryWithdrawEvent == [admin |-> admin, treasury |-> treasury,
                          amount |-> treasury_balance, timestamp |-> now]

RefundClaimedEvent(claimant) == [claimant |-> claimant, amount |-> refund[claimant].amount]

-----------------------------------------------------------------------------
(* What the reader makes of it *)

NoWindow == [end_ts |-> 0, bidder |-> NoKey, bid |-> 0]

\* A toggle that holder_key has had from the start, at this price.
FreshView(holder_key, price) ==
  [holder |-> holder_key, price |-> price, flips |-> 0, window |-> NoWindow,
   owed |-> [k \in Keys |-> 0], fees |-> 0, burned |-> 0]

ReadGenesis == FreshView(holder', current_price')

\* An extending bid means that the one before it is now owed.
ReadChallenge(e) ==
  [view EXCEPT !.window = [end_ts |-> e.window_end_ts, bidder |-> e.challenger,
                           bid |-> e.bid_amount],
               !.owed = IF e.extended
                        THEN [view.owed EXCEPT ![view.window.bidder] = @ + view.window.bid]
                        ELSE view.owed]

ReadSettle(e) ==
  [view EXCEPT !.holder = e.winner, !.price = e.winning_price, !.window = NoWindow,
               !.flips = IF e.flipped THEN @ + 1 ELSE @,
               !.fees = @ + e.treasury_cut, !.burned = @ + e.burned_amount]

ReadWithdraw(e) == [view EXCEPT !.fees = @ - e.amount]

ReadRefundClaimed(e) == [view EXCEPT !.owed[e.claimant] = @ - e.amount]

-----------------------------------------------------------------------------
EventInit == Init /\ view = FreshView(NoKey, 0)

InitializeRead ==
  \E p \in Keys, t \in Treasuries, a \in Admins, g \in GenesisPrices :
    Initialize(p, t, a, g) /\ view' = ReadGenesis

ChallengeRead(c, b, r) ==
  Challenge(c, b, r) /\ view' = ReadChallenge(ChallengeEvent(c, b))

SettleRead(c) ==
  \E d \in Accounts : Settle(c, d) /\ view' = ReadSettle(SettleEvent)

ClaimRead(c) ==
  \E k, p \in Keys : ClaimRefund(c, k, p) /\ view' = ReadRefundClaimed(RefundClaimedEvent(c))

WithdrawRead ==
  \E s, d \in Keys : WithdrawTreasury(s, d) /\ view' = ReadWithdraw(TreasuryWithdrawEvent)

TickRead == \E t \in Instants : Tick(t) /\ UNCHANGED view

\* Lamports sent to an address emit nothing.
StrayUnread == Stray /\ UNCHANGED view

-----------------------------------------------------------------------------
Owed(k) == IF k \in DOMAIN refund THEN refund[k].amount ELSE 0

\* The events alone tell a reader who holds the toggle and at what price, the
\* standing bid and its deadline, every refund owed, the fees not yet drawn and
\* all that was burned: each is emitted from the values its instruction acted
\* on, none from values it has already reset.
EventsTellTheState ==
  initialized =>
    /\ view.holder = holder /\ view.price = current_price
    /\ view.flips = holder_count - 1
    /\ view.window = [end_ts |-> window_end_ts, bidder |-> top_bidder, bid |-> top_bid_amount]
    /\ \A k \in Keys : view.owed[k] = Owed(k)
    /\ view.fees = treasury_balance
    /\ view.burned = lamports[Incinerator] + lamports[BurnVault]
=============================================================================
