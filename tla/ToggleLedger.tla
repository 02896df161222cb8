---------------------------- MODULE ToggleLedger ----------------------------
(* The auction implements the entitlement ledger.  What belongs to a key is    *)
(* its wallet, the refund that waits for it, its standing bid, the fees it may *)
(* withdraw as treasury, and the rent it advanced for other bidders' slots.    *)
EXTENDS Toggle

RefundOwed(k)  == IF k \in DOMAIN refund THEN refund[k].amount ELSE 0
StandingBid(k) == IF k = top_bidder THEN top_bid_amount ELSE 0
FeesOwed(k)    == IF k = treasury THEN treasury_balance ELSE 0

\* The refund slots whose rent key k has advanced, and that rent.
SlotsFunded(k) == {b \in DOMAIN refund : refund[b].rent_payer = k}
RentOwed(k)    == RentRefund * Cardinality(SlotsFunded(k))

Entitlement(k) ==
  lamports[k] + RefundOwed(k) + StandingBid(k) + FeesOwed(k) + RentOwed(k)

Ledger == INSTANCE EntitlementLedger WITH
  InitialWealth <- Wallet,
  SetupCost  <- RentState + RentVault + RentWin,
  RecordCost <- RentWin,
  Gift       <- RentVault,
  opened <- initialized,
  price  <- current_price,
  leader <- top_bidder,
  bid    <- top_bid_amount,
  wealth <- [k \in Keys |-> Entitlement(k)],
  burned <- lamports[Incinerator] + lamports[BurnVault]

\* No interleaving of bids, outbids, claims, withdrawals and settlements moves
\* money from one key to another or loses it, except as an award does ("no
\* direct user-to-user transfer", state.rs, PendingRefund::rent_payer).
ImplementsLedger == Ledger!Spec
=============================================================================
