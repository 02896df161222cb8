--------------------------- MODULE ToggleClients ---------------------------
(* Bidders as clients of the auction.  A client composes a challenge from what *)
(* the events have told it: the bid to beat, and the refund slot of the bidder *)
(* it is about to outbid.  The transaction lands later, when all of that may   *)
(* have changed; it may be lost, and a client that saw no answer sends the     *)
(* same one again, so it may reach the program more than once.                 *)
EXTENDS ToggleEvents

CONSTANT NoTransaction

VARIABLE sent   \* by bidder, the transaction it has sent, if any

clientVars == <<eventVars, sent>>

ASSUME NoTransactionAssumption ==
  NoTransaction \notin [bid_amount : BidAmounts, pending_refund : Keys \cup {Omitted},
                        landed : 0 .. 2]

-----------------------------------------------------------------------------
\* The slot a client derives for the standing bidder, if it knows of one.
SlotToSupply == IF view.window.bidder = NoKey THEN Omitted ELSE view.window.bidder

BidToBeat == IF view.window.bidder = NoKey THEN view.price ELSE view.window.bid
KeyToBeat == IF view.window.bidder = NoKey THEN view.holder ELSE view.window.bidder

Affordable(k) ==
  {b \in BidAmounts : 100 * b >= 105 * BidToBeat /\ lamports[k] >= b + RentRefund}

Compose(k) ==
  /\ initialized
  /\ sent[k] = NoTransaction
  /\ k # KeyToBeat
  /\ \E b \in Affordable(k) :
       sent' = [sent EXCEPT ![k] = [bid_amount |-> b, pending_refund |-> SlotToSupply,
                                    landed |-> 0]]
  /\ UNCHANGED eventVars

\* The transaction goes through, and is still out to be tried again.
Land(k) ==
  /\ sent[k] # NoTransaction
  /\ sent[k].landed < 2
  /\ ChallengeRead(k, sent[k].bid_amount, sent[k].pending_refund)
  /\ sent' = [sent EXCEPT ![k].landed = @ + 1]

\* It failed, got lost or expired, or the client has its answer.
Forget(k) ==
  /\ sent[k] # NoTransaction
  /\ sent' = [sent EXCEPT ![k] = NoTransaction]
  /\ UNCHANGED eventVars

-----------------------------------------------------------------------------
ClientInit == EventInit /\ sent = [k \in Bidders |-> NoTransaction]

ClientNext ==
  \/ \E k \in Bidders : Compose(k) \/ Land(k) \/ Forget(k)
  \/ InitializeRead /\ UNCHANGED sent
  \/ \E k \in Keys : (SettleRead(k) \/ ClaimRead(k)) /\ UNCHANGED sent
  \/ WithdrawRead /\ UNCHANGED sent
  \/ (TickRead \/ StrayUnread) /\ UNCHANGED sent

ClientSpec == ClientInit /\ [][ClientNext]_clientVars

\* A persistent client composes again when its transaction came to nothing, and
\* of a transaction tried again and again one gets through when it could; the
\* crank settles.  Nobody has to bid against it, and time may stand still.
ClientFairness ==
  /\ \A k \in Bidders : /\ WF_clientVars(Compose(k))
                        /\ SF_clientVars(Land(k))
                        /\ WF_clientVars(Forget(k))
  /\ WF_clientVars(SettleRead(Keeper) /\ UNCHANGED sent)

FairClientSpec == ClientSpec /\ ClientFairness

-----------------------------------------------------------------------------
\* However often a transaction reaches the program, its bid is taken once:
\* every landed bid clears the raise over all the bids before it, in this
\* window and in the earlier ones, so the same amount never passes again.
BidsLandOnce == \A k \in Bidders : sent[k] # NoTransaction => sent[k].landed <= 1

\* A bid lands only against the bidder its sender meant to outbid, or on no
\* window if it saw none; whatever happened in between, it is refused and not
\* turned into another kind of bid.
BidsLandAsMeant ==
  [][\A k \in Bidders :
       sent[k] # NoTransaction /\ sent'[k] # NoTransaction /\ sent'[k].landed # sent[k].landed
       => top_bidder = IF sent[k].pending_refund = Omitted THEN NoKey
                                                           ELSE sent[k].pending_refund]_clientVars

OutOfReach(k) == Affordable(k) = {} \/ ~FitsI64(now + DEFAULT_BASE_WINDOW_SECS)

\* A bidder that keeps trying is never kept out while settlements go through:
\* again and again it has the standing bid or the toggle, or the price has risen
\* out of its reach, however often others are faster and its refunds pile up.
PersistenceWins ==
  \A k \in Bidders :
    []<>(~initialized \/ k \in {top_bidder, holder} \/ OutOfReach(k) \/ SettleStuck)
=============================================================================
