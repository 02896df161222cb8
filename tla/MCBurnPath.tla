----------------------------- MODULE MCBurnPath -----------------------------
(* Small instances of BurnPath: a short auction whose wins feed the burn vault, *)
(* with wrong wirings the admin may send, and a market that is deep, shallow,   *)
(* without a price or priced out of u128.                                       *)
EXTENDS BurnPath

CONSTANTS A, T, OtherMint

MCWallet == [k \in Keys |-> 100]

CurveRouting == [venue |-> VENUE_DBC_CURVE, pool_address |-> Curve, venue_config |-> CurveConfig]
MisconfiguredRouting == [CurveRouting EXCEPT !.venue_config = DammConfig]
OldDammRouting == [DammRouting EXCEPT !.venue = VENUE_DAMM_V1]
StaleRouting == [DammRouting EXCEPT !.pool_address = Curve]
UnknownRouting == [CurveRouting EXCEPT !.venue = 3]

\* What the admin may wire at launch and at a promotion, right and wrong.
MCSetupRoutings == {CurveRouting, MisconfiguredRouting, OldDammRouting, UnknownRouting}
MCPromotedRoutings == {DammRouting, StaleRouting, CurveRouting}
MCCurveOnly == {CurveRouting}
MCCurveRoutings == {CurveRouting, MisconfiguredRouting}

\* Prices 1 and 1/4 lamport a token; the cheap pool is deep enough for the smaller
\* sweeps only, one price is too low for u128 and one is missing.
Deep == [sqrt_price |-> Q64, reserve |-> 1000]
Cheap == [sqrt_price |-> Q64 \div 2, reserve |-> 75]
TooCheap == [sqrt_price |-> 16, reserve |-> 1000]
Unpriced == [sqrt_price |-> 0, reserve |-> 1000]

MCQuotes == {Deep, Cheap, TooCheap, Unpriced}
MCFewQuotes == {Deep, Cheap, Unpriced}
=============================================================================
