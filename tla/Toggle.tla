------------------------------- MODULE Toggle -------------------------------
(* The auction itself: the GlobalState account, the lamport vault, the        *)
(* PendingRefund and WinRecord accounts, and the five instructions that       *)
(* change them: initialize, challenge, settle, claim_refund and               *)
(* withdraw_treasury.  A transaction is atomic on this chain, so one          *)
(* instruction is one step; what interleaves is the order in which several    *)
(* signers' transactions land and the clock each of them reads.               *)
(*                                                                            *)
(* A variable carries the name of the GlobalState field it stands for.  The   *)
(* fields that never change after initialize (fee_bps, min_raise_bps,         *)
(* base_window_secs, genesis_price, params_locked, vault_bump) are the        *)
(* constants the program copies them from.  Accounts a client supplies are    *)
(* parameters of an action: a client may have read them from an older state.  *)
EXTENDS TogglePure, FiniteSets

CONSTANTS
  Keys,              \* public keys that can sign
  NoKey,             \* Pubkey::default(): no private key, never signs
  Omitted,           \* an optional account the client left out
  Vault, Incinerator, BurnVault,  \* addresses that hold lamports, sign nothing
  UpgradeAuthority,  \* the only signer initialize accepts
  Bidders, Keeper,   \* the keys that challenge; the key of the settle crank
  Treasuries, Admins, GenesisPrices,  \* arguments initialize may be given
  BidAmounts,        \* arguments challenge may be given
  Wallet,            \* initial lamports of every key
  Instants, MaxSkew, \* clock readings, and how far a reading may step back
  StrayOrdinals,     \* win records to whose address lamports may be sent early
  RentState, RentVault, RentRefund, RentWin  \* rent-exempt reserves

Accounts == Keys \cup {Vault, Incinerator, BurnVault}

ASSUME KeysAssumption ==
  /\ NoKey \notin Accounts /\ Omitted \notin Accounts \cup {NoKey}
  /\ Vault \notin Keys \cup {Incinerator, BurnVault}
  /\ Incinerator \notin Keys \cup {BurnVault} /\ BurnVault \notin Keys
  /\ UpgradeAuthority \in Keys /\ Keeper \in Keys /\ Bidders \subseteq Keys
  /\ Treasuries \subseteq Keys \cup {NoKey} /\ Admins \subseteq Keys \cup {NoKey}

ASSUME AmountsAssumption ==
  /\ GenesisPrices \subseteq Nat /\ BidAmounts \subseteq Nat
  /\ Wallet \in [Keys -> Nat]
  /\ Instants \subseteq Nat /\ Instants # {} /\ MaxSkew \in Nat
  /\ StrayOrdinals \subseteq Nat
  /\ RentState \in Nat /\ RentVault \in Nat /\ RentRefund \in Nat /\ RentWin \in Nat

VARIABLES
  initialized,       \* the GlobalState account exists
  holder, holder_since, current_price, is_on, total_challenges, holder_count,
  treasury, admin, burn_address,
  window_active, window_end_ts, top_bidder, top_bid_amount,
  escrowed_amount, treasury_balance,
  lamports,          \* balances of Accounts
  refund,            \* PendingRefund PDAs that exist, by the key that seeds them
  win_record,        \* WinRecord PDAs that exist, by the ordinal that seeds them
  prefunded,         \* ordinals whose WinRecord address holds lamports, no record
  now                \* the Clock sysvar

holderVars == <<holder, holder_since, current_price, is_on, total_challenges,
                holder_count, win_record>>
standingVars == <<initialized, treasury, admin, prefunded>>
windowVars == <<window_active, window_end_ts, top_bidder, top_bid_amount>>
moneyVars  == <<escrowed_amount, treasury_balance, lamports, refund>>
vars == <<holderVars, standingVars, windowVars, moneyVars, burn_address, now>>

-----------------------------------------------------------------------------
(* Accounts *)

\* f with the account at key k created or overwritten; f with it closed.
Put(f, k, r) == [x \in DOMAIN f \cup {k} |-> IF x = k THEN r ELSE f[x]]
Close(f, k)  == [x \in DOMAIN f \ {k} |-> f[x]]

\* Lamports move between two balances, which may be the same one.
Debit(bal, from, amount) == [bal EXCEPT ![from] = @ - amount]
Credit(bal, to, amount)  == [bal EXCEPT ![to] = @ + amount]
Pay(bal, from, to, amount) == Credit(Debit(bal, from, amount), to, amount)

\* Anchor allocates a PendingRefund zeroed, holding its rent.
FreshRefund == [bidder |-> NoKey, amount |-> 0, rent_payer |-> NoKey,
                lamports |-> RentRefund]

\* init_if_needed: the slots after the accounts of challenge are validated,
\* and the rent its signer has paid for them.
NeedsInit(key) == key # Omitted /\ key \notin DOMAIN refund
InitIfNeeded(key) == IF NeedsInit(key) THEN Put(refund, key, FreshRefund) ELSE refund
InitRent(key) == IF NeedsInit(key) THEN RentRefund ELSE 0

\* system_program::create_account takes an address for a win record only if
\* nothing lies there: neither a record nor lamports somebody has sent.
AddressFree(n) == n \notin DOMAIN win_record \cup prefunded

WinRecord(winner, nth, price, at) ==
  [winner |-> winner, holder_count |-> nth, price_paid |-> price,
   won_at |-> at, minted |-> FALSE]

-----------------------------------------------------------------------------
(* initialize() *)

Initialize(payer, treasury_arg, admin_arg, genesis_price) ==
  LET rent == RentState + RentVault + RentWin IN
  /\ ~initialized
  /\ payer = UpgradeAuthority
  /\ genesis_price > 0
  /\ treasury_arg # NoKey
  /\ admin_arg # NoKey
  /\ lamports[payer] >= rent
  /\ lamports[Vault] = 0
  /\ AddressFree(0)
  /\ initialized' = TRUE
  /\ holder' = treasury_arg
  /\ holder_since' = now
  /\ current_price' = genesis_price
  /\ is_on' = FALSE
  /\ total_challenges' = 0
  /\ holder_count' = 1
  /\ treasury' = treasury_arg
  /\ admin' = admin_arg
  /\ burn_address' = Incinerator
  /\ window_active' = FALSE
  /\ window_end_ts' = 0
  /\ top_bidder' = NoKey
  /\ top_bid_amount' = 0
  /\ escrowed_amount' = 0
  /\ treasury_balance' = 0
  /\ lamports' = Credit(Debit(lamports, payer, rent), Vault, RentVault)
  /\ win_record' = Put(win_record, 0, WinRecord(treasury_arg, 1, 0, now))
  /\ UNCHANGED <<refund, prefunded, now>>

-----------------------------------------------------------------------------
(* challenge() *)

\* Faults: a window opened without a deadline; a deadline that follows the clock
\* even when the clock steps back; an outbid of the resting price only.
ColdOpenWithoutDeadline(challenger, bid_amount) ==
  /\ ~window_active
  /\ challenger # holder
  /\ require_min_raise(current_price, bid_amount, DEFAULT_MIN_RAISE_BPS)
  /\ UNCHANGED window_end_ts

OutbidFollowingClock(challenger, bid_amount) ==
  /\ window_active
  /\ now < window_end_ts
  /\ challenger # top_bidder
  /\ require_min_raise(top_bid_amount, bid_amount, DEFAULT_MIN_RAISE_BPS)
  /\ window_end_ts' = compute_window_reset(DEFAULT_BASE_WINDOW_SECS, now)

OutbidRestingPrice(challenger, bid_amount) ==
  LET fresh == compute_window_reset(DEFAULT_BASE_WINDOW_SECS, now) IN
  /\ window_active
  /\ now < window_end_ts
  /\ challenger # top_bidder
  /\ require_min_raise(current_price, bid_amount, DEFAULT_MIN_RAISE_BPS)
  /\ window_end_ts' = IF fresh > window_end_ts THEN fresh ELSE window_end_ts

\* No window: the resting price is the bid to beat, and the holder may not.
ColdOpen(challenger, bid_amount) ==
  /\ ~window_active
  /\ challenger # holder
  /\ require_min_raise(current_price, bid_amount, DEFAULT_MIN_RAISE_BPS)
  /\ window_end_ts' = compute_window_reset(DEFAULT_BASE_WINDOW_SECS, now)

\* Fault: an outbid does not extend the window.
OutbidKeepingDeadline(challenger, bid_amount) ==
  /\ window_active
  /\ now < window_end_ts
  /\ challenger # top_bidder
  /\ require_min_raise(top_bid_amount, bid_amount, DEFAULT_MIN_RAISE_BPS)
  /\ UNCHANGED window_end_ts

\* Mid-window: outbid somebody else before the deadline, which only moves on.
Outbid(challenger, bid_amount) ==
  LET fresh == compute_window_reset(DEFAULT_BASE_WINDOW_SECS, now) IN
  /\ window_active
  /\ now < window_end_ts
  /\ challenger # top_bidder
  /\ require_min_raise(top_bid_amount, bid_amount, DEFAULT_MIN_RAISE_BPS)
  /\ window_end_ts' = IF fresh > window_end_ts THEN fresh ELSE window_end_ts

\* Faults: a later outbid overwrites the rent's payer; the payer is never
\* recorded.
CreditRefundToLastPayer(slot, challenger) ==
  [bidder |-> top_bidder, amount |-> slot.amount + top_bid_amount,
   rent_payer |-> challenger, lamports |-> slot.lamports + top_bid_amount]

CreditRefundWithoutPayer(slot, challenger) ==
  [bidder |-> top_bidder, amount |-> slot.amount + top_bid_amount,
   rent_payer |-> slot.rent_payer, lamports |-> slot.lamports + top_bid_amount]

\* The outbid bidder's slot after the outbid: the first one claims the slot
\* and records who paid its rent, later ones only accumulate.
CreditRefund(slot, challenger) ==
  [bidder |-> top_bidder,
   amount |-> slot.amount + top_bid_amount,
   rent_payer |-> IF slot.bidder = NoKey THEN challenger ELSE slot.rent_payer,
   lamports |-> slot.lamports + top_bid_amount]

\* Fault: only a slot that was just created is credited.
RefundPreviousOnce(challenger, pending_refund) ==
  IF top_bidder # NoKey
  THEN LET slot == InitIfNeeded(pending_refund)[pending_refund] IN
       /\ pending_refund # Omitted
       /\ slot.bidder = NoKey
       /\ refund' = Put(refund, pending_refund, CreditRefund(slot, challenger))
  ELSE /\ pending_refund = Omitted
       /\ refund' = InitIfNeeded(pending_refund)

\* Fault: a slot supplied on a cold open is ignored, so it stays created.
RefundPreviousIgnoringExtra(challenger, pending_refund) ==
  IF top_bidder # NoKey
  THEN LET slot == InitIfNeeded(pending_refund)[pending_refund] IN
       /\ pending_refund # Omitted
       /\ slot.bidder \in {NoKey, top_bidder}
       /\ refund' = Put(refund, pending_refund, CreditRefund(slot, challenger))
  ELSE refund' = InitIfNeeded(pending_refund)

\* The previous top bid leaves the vault for its bidder's slot; with nobody to
\* refund, no slot may have been supplied.
RefundPrevious(challenger, pending_refund) ==
  IF top_bidder # NoKey
  THEN LET slot == InitIfNeeded(pending_refund)[pending_refund] IN
       /\ pending_refund # Omitted
       /\ slot.bidder \in {NoKey, top_bidder}
       /\ FitsU64(slot.amount + top_bid_amount)
       /\ lamports[Vault] >= top_bid_amount
       /\ escrowed_amount >= top_bid_amount
       /\ refund' = Put(refund, pending_refund, CreditRefund(slot, challenger))
  ELSE /\ pending_refund = Omitted
       /\ refund' = InitIfNeeded(pending_refund)

\* Fault: the outbid bid stays on the books.
RefundedNothing == 0

\* What the previous bidder gets back.
Refunded == IF top_bidder # NoKey THEN top_bid_amount ELSE 0

\* Fault: the slot is taken as the client supplies it.
AnySlot(pending_refund) == TRUE

\* The seeds of a supplied slot are those of the bidder standing by now.
SlotOfTopBidder(pending_refund) == pending_refund # Omitted => pending_refund = top_bidder

Challenge(challenger, bid_amount, pending_refund) ==
  LET rent == InitRent(pending_refund) IN
  /\ initialized
  /\ SlotOfTopBidder(pending_refund)
  /\ ColdOpen(challenger, bid_amount) \/ Outbid(challenger, bid_amount)
  /\ FitsI64(compute_window_reset(DEFAULT_BASE_WINDOW_SECS, now))
  /\ RefundPrevious(challenger, pending_refund)
  /\ lamports[challenger] >= rent + bid_amount
  /\ FitsU64(escrowed_amount - Refunded + bid_amount)
  /\ window_active' = TRUE
  /\ top_bidder' = challenger
  /\ top_bid_amount' = bid_amount
  /\ escrowed_amount' = escrowed_amount - Refunded + bid_amount
  /\ lamports' = Pay(Debit(Debit(lamports, challenger, rent), Vault, Refunded),
                     challenger, Vault, bid_amount)
  /\ UNCHANGED <<holderVars, standingVars, burn_address, treasury_balance, now>>

-----------------------------------------------------------------------------
(* settle() *)

\* Faults: settling without a window, and taking every win for a flip.
UnopenedWindowElapsed == now >= window_end_ts
EveryWinFlips == TRUE

WindowElapsed == window_active /\ now >= window_end_ts

flipped == top_bidder # holder

\* The holder changes hands; nothing here moves on a successful defence.
FlipHolder ==
  IF flipped
  THEN /\ FitsU64(holder_count + 1)
       /\ holder' = top_bidder
       /\ is_on' = ~is_on
       /\ holder_since' = now
       /\ holder_count' = holder_count + 1
  ELSE UNCHANGED <<holder, is_on, holder_since, holder_count>>

\* Fault: the record is seeded by the ordinal after the increment.
RecordWinAfterIncrement(caller) ==
  IF flipped
  THEN /\ lamports[caller] >= RentWin
       /\ AddressFree(holder_count + 1)
       /\ win_record' = Put(win_record, holder_count + 1,
                            WinRecord(top_bidder, holder_count + 1, top_bid_amount, now))
  ELSE UNCHANGED win_record

\* Fault: the first ordinals are numbered from the genesis record's.
RecordWinAtGenesisOrdinal(caller) ==
  IF flipped
  THEN /\ lamports[caller] >= RentWin
       /\ AddressFree(holder_count - 1)
       /\ win_record' = Put(win_record, holder_count - 1,
                            WinRecord(top_bidder, holder_count + 1, top_bid_amount, now))
  ELSE UNCHANGED win_record

\* The record of the win is seeded by the ordinal before the increment; the
\* caller pays its rent, and create_account fails on an address in use.
RecordWin(caller) ==
  IF flipped
  THEN /\ lamports[caller] >= RentWin
       /\ AddressFree(holder_count)
       /\ win_record' = Put(win_record, holder_count,
                            WinRecord(top_bidder, holder_count + 1, top_bid_amount, now))
  ELSE UNCHANGED win_record

Settle(caller, supplied_burn_address) ==
  LET split == compute_split(top_bid_amount, FEE_BPS) IN
  /\ initialized
  /\ supplied_burn_address = burn_address
  /\ WindowElapsed
  /\ escrowed_amount >= top_bid_amount
  /\ FitsU64(treasury_balance + split.fee)
  /\ FitsU64(total_challenges + 1)
  /\ lamports[Vault] >= split.burn
  /\ FlipHolder
  /\ RecordWin(caller)
  /\ current_price' = top_bid_amount
  /\ escrowed_amount' = escrowed_amount - top_bid_amount
  /\ treasury_balance' = treasury_balance + split.fee
  /\ window_active' = FALSE
  /\ window_end_ts' = 0
  /\ top_bidder' = NoKey
  /\ top_bid_amount' = 0
  /\ total_challenges' = total_challenges + 1
  /\ lamports' = Pay(Debit(lamports, caller, IF flipped THEN RentWin ELSE 0),
                     Vault, supplied_burn_address, split.burn)
  /\ UNCHANGED <<standingVars, burn_address, refund, now>>

-----------------------------------------------------------------------------
(* claim_refund() *)

ClaimRefund(claimant, key, rent_payer) ==
  /\ key \in DOMAIN refund
  /\ refund[key].bidder = key
  /\ refund[key].bidder = claimant
  /\ refund[key].rent_payer = rent_payer
  /\ refund[key].amount > 0
  /\ refund[key].lamports >= refund[key].amount
  /\ lamports' = Credit(Credit(lamports, claimant, refund[key].amount),
                        rent_payer, refund[key].lamports - refund[key].amount)
  /\ refund' = Close(refund, key)
  /\ UNCHANGED <<holderVars, standingVars, burn_address, windowVars,
                 escrowed_amount, treasury_balance, now>>

-----------------------------------------------------------------------------
(* withdraw_treasury() *)

WithdrawTreasury(signer, destination) ==
  /\ initialized
  /\ signer = admin
  /\ destination = treasury
  /\ treasury_balance > 0
  /\ lamports[Vault] >= treasury_balance
  /\ treasury_balance' = 0
  /\ lamports' = Pay(lamports, Vault, destination, treasury_balance)
  /\ UNCHANGED <<holderVars, standingVars, burn_address, windowVars,
                 escrowed_amount, refund, now>>

-----------------------------------------------------------------------------
(* Outside the program: the clock, and transfers of lamports *)

Tick(t) ==
  /\ t # now
  /\ t + MaxSkew >= now
  /\ now' = t
  /\ UNCHANGED <<holderVars, standingVars, burn_address, windowVars, moneyVars>>

\* Anyone may send lamports to an address that follows from public seeds, also
\* to that of a win record that is still to be made; the runtime takes no less
\* than the rent of an empty account, which is the vault's.
SendLamports(sender, n) ==
  /\ AddressFree(n)
  /\ lamports[sender] >= RentVault
  /\ lamports' = Debit(lamports, sender, RentVault)
  /\ prefunded' = prefunded \cup {n}
  /\ UNCHANGED <<holderVars, initialized, treasury, admin, burn_address, windowVars,
                 escrowed_amount, treasury_balance, refund, now>>

-----------------------------------------------------------------------------
Init ==
  /\ initialized = FALSE
  /\ holder = NoKey /\ holder_since = 0 /\ current_price = 0 /\ is_on = FALSE
  /\ total_challenges = 0 /\ holder_count = 0
  /\ treasury = NoKey /\ admin = NoKey /\ burn_address = NoKey
  /\ window_active = FALSE /\ window_end_ts = 0
  /\ top_bidder = NoKey /\ top_bid_amount = 0
  /\ escrowed_amount = 0 /\ treasury_balance = 0
  /\ lamports = [a \in Accounts |-> IF a \in Keys THEN Wallet[a] ELSE 0]
  /\ refund = [k \in {} |-> FreshRefund]
  /\ win_record = [n \in {} |-> WinRecord(NoKey, 0, 0, 0)]
  /\ prefunded = {}
  /\ now \in Instants

\* The instructions, with the accounts and arguments a client may send.
Instruction ==
  \/ \E p \in Keys, t \in Treasuries, a \in Admins, g \in GenesisPrices :
       Initialize(p, t, a, g)
  \/ \E c \in Bidders, b \in BidAmounts, r \in Keys \cup {NoKey, Omitted} :
       Challenge(c, b, r)
  \/ \E c \in Keys, d \in Accounts : Settle(c, d)
  \/ \E c, k, p \in Keys : ClaimRefund(c, k, p)
  \/ \E s, d \in Keys : WithdrawTreasury(s, d)

Stray == \E k \in Keys, n \in StrayOrdinals : SendLamports(k, n)

Next == Instruction \/ (\E t \in Instants : Tick(t)) \/ Stray

Spec == Init /\ [][Next]_vars

\* The clock runs on, the crank keeps calling settle, and a bidder who is owed
\* a refund eventually claims it.
Fairness ==
  /\ WF_vars(\E t \in Instants : Tick(t))
  /\ WF_vars(Settle(Keeper, burn_address))
  /\ \A k \in Bidders : WF_vars(\E p \in Keys : ClaimRefund(k, k, p))

FairSpec == Spec /\ Fairness

-----------------------------------------------------------------------------
(* What is true of every reachable state *)

RefundSlot == [bidder : Keys, amount : Nat, rent_payer : Keys, lamports : Nat]
WinRecords == [winner : Keys, holder_count : Nat, price_paid : Nat, won_at : Nat,
               minted : BOOLEAN]

\* Every field has its type, and once the game is initialized its holder,
\* treasury and admin are keys somebody can sign with.
TypeOK ==
  /\ initialized \in BOOLEAN /\ is_on \in BOOLEAN /\ window_active \in BOOLEAN
  /\ IF initialized
     THEN /\ holder \in Keys /\ treasury \in Keys /\ admin \in Keys
          /\ burn_address \in {Incinerator, BurnVault}
     ELSE holder = NoKey /\ treasury = NoKey /\ admin = NoKey /\ burn_address = NoKey
  /\ top_bidder \in Keys \cup {NoKey}
  /\ holder_since \in Nat /\ current_price \in Nat /\ total_challenges \in Nat
  /\ holder_count \in Nat /\ window_end_ts \in Nat /\ top_bid_amount \in Nat
  /\ escrowed_amount \in Nat /\ treasury_balance \in Nat
  /\ now \in Instants
  /\ lamports \in [Accounts -> Nat]
  /\ DOMAIN refund \subseteq Keys
  /\ refund \in [DOMAIN refund -> RefundSlot]
  /\ DOMAIN win_record \subseteq Nat
  /\ win_record \in [DOMAIN win_record -> WinRecords]
  /\ prefunded \subseteq Nat

\* The vault holds its rent, the escrowed bid and the treasury's fees, to the
\* lamport, whatever bids, refunds, settlements and withdrawals interleave
\* (tests/toggld.rs assert_vault_invariant, on a few scripted sequences).
VaultSolvent ==
  lamports[Vault] = IF initialized THEN RentVault + escrowed_amount + treasury_balance
                                   ELSE 0

\* Exactly the standing bid is in escrow: an outbid bid leaves it at once, a
\* settled one is spent, and no window means no bidder and no deadline.
EscrowIsTopBid ==
  /\ escrowed_amount = top_bid_amount
  /\ window_active <=> top_bidder # NoKey
  /\ ~window_active => top_bid_amount = 0 /\ window_end_ts = 0

\* A refund slot belongs to the bidder whose key seeds it, owes something,
\* holds just that above its rent, and its rent came from somebody else; so
\* one claim by its bidder pays everybody and empties it (claim_refund.rs).
RefundsBacked ==
  \A k \in DOMAIN refund :
    /\ refund[k].bidder = k
    /\ refund[k].amount > 0
    /\ refund[k].lamports = RentRefund + refund[k].amount
    /\ refund[k].rent_payer \in Keys \ {k}

\* The win records are numbered 0 .. holder_count - 1 without a gap, each
\* names the ordinal after its seed, and the last one is the holder's, so the
\* next flip's record never collides with one that exists (settle.rs, state.rs).
WinRecordsDense ==
  /\ DOMAIN win_record = 0 .. (holder_count - 1)
  /\ \A n \in DOMAIN win_record : win_record[n].holder_count = n + 1
  /\ initialized => /\ holder_count >= 1
                    /\ win_record[holder_count - 1].winner = holder
                    /\ win_record[holder_count - 1].won_at = holder_since

\* The records tell the story of a switch: consecutive wins are by different
\* keys, every auction win paid at least 5% more than the one before it, and
\* the switch is on after an odd number of flips.
WinsAlternate ==
  /\ \A n \in DOMAIN win_record : n > 0 =>
       /\ win_record[n].winner # win_record[n - 1].winner
       /\ 100 * win_record[n].price_paid >= 105 * win_record[n - 1].price_paid
  /\ initialized => /\ (is_on <=> holder_count % 2 = 0)
                    /\ win_record[holder_count - 1].price_paid <= current_price

\* While the clock does not step back, a holder holds for at least a full
\* window: two consecutive wins are that far apart.
HolderKeepsAFullWindow ==
  \A n \in DOMAIN win_record : n > 0 =>
    win_record[n].won_at >= win_record[n - 1].won_at + DEFAULT_BASE_WINDOW_SECS

\* Over any number of settlements rounding never favours the treasury: what it
\* may still draw is at most 15 parts to the 85 that were burned.
BurnKeepsItsShare ==
  85 * treasury_balance <= 15 * (lamports[Incinerator] + lamports[BurnVault])

\* The standing bid clears the raise over the resting price, however many bids
\* the window has seen.
TopBidClearsRaise ==
  /\ initialized => current_price > 0
  /\ window_active => 100 * top_bid_amount >= 105 * current_price

\* The window is over, the toggle changes hands, and the record of the win
\* cannot be made because lamports lie at its address.
SettleStuck == WindowElapsed /\ flipped /\ holder_count \in prefunded

\* A closed window can be settled by whoever can pay the rent of a win record,
\* unless lamports were sent to the address of that very record: no balance,
\* counter or existing account stands in the way.
SettleNeverBlocked ==
  \A k \in Keys : WindowElapsed /\ ~SettleStuck /\ lamports[k] >= RentWin =>
    ENABLED Settle(k, burn_address)

\* "challenge() is unconditional": nothing the standing bidder did before, with
\* refunds claimed or left to pile up, keeps another key with enough lamports
\* from outbidding in time.
OutbidNeverBlocked ==
  \A k \in Bidders \ {top_bidder}, b \in BidAmounts :
    /\ window_active /\ now < window_end_ts
    /\ FitsI64(now + DEFAULT_BASE_WINDOW_SECS)
    /\ 100 * b >= 105 * top_bid_amount
    /\ lamports[k] >= b + RentRefund
    => ENABLED Challenge(k, b, top_bidder)

\* Whoever is owed a refund can claim it, at any time and whatever the auction
\* is doing.
ClaimNeverBlocked ==
  \A k \in DOMAIN refund : ENABLED (\E p \in Keys : ClaimRefund(k, k, p))

-----------------------------------------------------------------------------
(* What no step may do *)

\* The price of the toggle only ever moves up, by 5% or more at a time.
PriceRisesByMinRaise ==
  [][initialized /\ current_price' # current_price
       => 100 * current_price' >= 105 * current_price]_vars

\* While a window is open its deadline never moves back, even when the clock
\* does ("max makes the deadline never moves backward structural",
\* challenge.rs), and it closes only once the deadline has passed.
DeadlineNeverMovesBack ==
  [][window_active => IF window_active' THEN window_end_ts' >= window_end_ts
                                        ELSE now >= window_end_ts]_vars

\* A bid stands for a full window from the moment it is taken, even when an
\* outbid comes so late or the clock steps back: everybody has that long to
\* answer it (compute_window_reset, pure.rs: "always a fresh full window").
EveryBidIsAnswerable ==
  [][top_bid_amount' > top_bid_amount =>
       window_end_ts' >= now + DEFAULT_BASE_WINDOW_SECS]_vars

-----------------------------------------------------------------------------
(* What eventually happens *)

\* Every window is settled in the end, or waits for a win record that cannot be
\* made because lamports lie at its address.
WindowSettles == window_active ~> (~window_active \/ SettleStuck)

\* Every refund is paid out in the end.
RefundsPaid == \A k \in Bidders : (k \in DOMAIN refund) ~> (k \notin DOMAIN refund)

-----------------------------------------------------------------------------
(* What a comment says of settle: "Permissionless: anyone can trigger          *)
(* settlement once the window has closed", funding the record's rent          *)
(* (settle.rs, Settle::caller).                                               *)
AnyoneCanSettle ==
  \A k \in Keys : WindowElapsed /\ lamports[k] >= RentWin =>
    ENABLED Settle(k, burn_address)

(* What a comment says of holder_count: "Count of distinct holders this       *)
(* toggle has ever had, genesis included" (state.rs, GlobalState).            *)
HolderCountIsDistinctHolders ==
  holder_count = Cardinality({win_record[n].winner : n \in DOMAIN win_record})
=============================================================================
