-------------------------- MODULE EntitlementLedger --------------------------
(* What the auction promises about money, with no vault, escrow, refund        *)
(* account or withdrawal in sight: every key has a wealth, the lamports that   *)
(* are its own wherever the program keeps them.  Bidding, being outbid,        *)
(* claiming and withdrawing never change anybody's wealth.  Only an award      *)
(* does: the leader pays the bid, the treasury earns the fee, the rest is      *)
(* burned, and the caller pays for the record of a change of holder.  What a   *)
(* key sends to an address nobody can draw on is its own loss alone.           *)
EXTENDS Integers

CONSTANTS Keys, NoKey, InitialWealth, GenesisPrices, SetupCost, RecordCost, Gift

VARIABLES
  opened,     \* the game has been set up
  treasury,   \* the key that earns the fees
  holder, price,
  leader, bid,  \* the standing bid, NoKey and 0 when there is none
  wealth, burned

ledgerVars == <<opened, treasury, holder, price, leader, bid, wealth, burned>>

Init ==
  /\ opened = FALSE /\ treasury = NoKey /\ holder = NoKey /\ price = 0
  /\ leader = NoKey /\ bid = 0
  /\ wealth = InitialWealth
  /\ burned = 0

Open ==
  /\ ~opened
  /\ opened' = TRUE
  /\ treasury' \in Keys /\ holder' = treasury'
  /\ price' \in GenesisPrices \ {0}
  /\ \E payer \in Keys :
       wealth' = [wealth EXCEPT ![payer] = @ - SetupCost]
  /\ UNCHANGED <<leader, bid, burned>>

\* Somebody other than the leader raises the standing bid, or the resting price.
Bid ==
  /\ opened
  /\ leader' \in Keys \ {IF leader = NoKey THEN holder ELSE leader}
  /\ bid' \in Nat
  /\ 100 * bid' >= 105 * (IF leader = NoKey THEN price ELSE bid)
  /\ wealth[leader'] >= bid'
  /\ UNCHANGED <<opened, treasury, holder, price, wealth, burned>>

\* What an award changes in the wealth of key k.
Award ==
  LET cut  == (bid * 1500) \div 10000
      cost == IF leader = holder THEN 0 ELSE RecordCost
  IN
  /\ leader # NoKey
  /\ holder' = leader /\ price' = bid
  /\ leader' = NoKey /\ bid' = 0
  /\ \E caller \in Keys :
       wealth' = [k \in Keys |-> wealth[k]
                    - (IF k = leader THEN bid ELSE 0)
                    + (IF k = treasury THEN cut ELSE 0)
                    - (IF k = caller THEN cost ELSE 0)]
  /\ burned' = burned + (bid - cut)
  /\ UNCHANGED <<opened, treasury>>

GiveAway ==
  /\ \E giver \in Keys :
       /\ wealth[giver] >= Gift
       /\ wealth' = [wealth EXCEPT ![giver] = @ - Gift]
  /\ UNCHANGED <<opened, treasury, holder, price, leader, bid, burned>>

Next == Open \/ Bid \/ Award \/ GiveAway

Spec == Init /\ [][Next]_ledgerVars
=============================================================================
