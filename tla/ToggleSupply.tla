---------------------------- MODULE ToggleSupply ----------------------------
(* Where every lamport is.  The chain keeps the sum of all balances; here that *)
(* sum is spelled out over the accounts of the auction, so that what a state   *)
(* holds is bounded by the supply the keys started with.                       *)
EXTENDS Toggle

\* What account a holds, nothing if it does not exist.
AmountIn(bal, a) == IF a \in DOMAIN bal THEN bal[a] ELSE 0

\* The lamports of a set of accounts, numbered account by account, and how many
\* they are.
Purse(bal, a) == {a} \X (1 .. AmountIn(bal, a))
Units(bal)    == UNION {Purse(bal, a) : a \in DOMAIN bal}
TotalOf(bal)  == Cardinality(Units(bal))

\* The balances of the refund slots.
SlotLamports == [k \in DOMAIN refund |-> refund[k].lamports]

\* The rents that initialize and settle have put into accounts nobody closes.
RentSpent == RentWin * holder_count + (IF initialized THEN RentState ELSE 0)

Supply == TotalOf(Wallet)

\* What was sent to the addresses of win records that do not exist.
StrayLamports == RentVault * Cardinality(prefunded)

\* What lies in a wallet, the vault, a burn address, a refund slot, in the rent
\* of an account that stays, or where a win record is still to be made.
InTheAuction == TotalOf(lamports) + TotalOf(SlotLamports) + RentSpent + StrayLamports

\* No lamport is made or lost, in any order of instructions.  Each of them moves
\* lamports among up to four accounts in separate debits and credits, some by an
\* external transfer and some by hand (challenge.rs, settle.rs, claim_refund.rs,
\* withdraw_treasury.rs); that they add up is what this says.
LamportsConserved == InTheAuction = Supply

\* The two counters stay below the price, which every settlement raises by a
\* lamport at least: they overflow only if the price does (settle.rs, checked_add).
CountersBelowPrice ==
  initialized => /\ total_challenges < current_price
                 /\ holder_count <= total_challenges + 1
=============================================================================
