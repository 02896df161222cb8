# toggld-program in TLA+

A verification development for the Toggld on-chain program
(`src/programs/toggld`): an auction for one global switch, played by anybody
with a key. Models that TLC checks on small instances, and theorems that TLAPS
proves for every instance.

## 1. The system

One Solana program. A transaction is atomic and its instructions run one after
the other, so nothing interleaves *inside* an instruction. What is hard lies
between them: many signers act on the same accounts in an order nobody chooses,
each with accounts it looked up earlier; the time they race against is the clock
of the block they land in; money moves through five kinds of accounts, and what
is owed to whom depends on a long history.

| component | state it keeps | operations |
|---|---|---|
| business rules (`pure.rs`, `constants.rs`) | none | `require_min_raise`, `compute_window_reset`, `compute_split`, `compute_vested_unlocked` |
| auction (`initialize.rs`, `challenge.rs`, `settle.rs`) | `GlobalState`: holder, price, switch, counters, the window and its top bid, the vault's books; the lamport vault; one `WinRecord` per change of holder | `initialize`, `challenge`, `settle` |
| refunds (`challenge.rs`, `claim_refund.rs`) | one `PendingRefund` per outbid bidder: what is owed, and who paid the account's rent | credited by `challenge`, closed by `claim_refund` |
| treasury (`withdraw_treasury.rs`) | `treasury_balance` in `GlobalState` | `withdraw_treasury` |
| win NFT (`init_nft_collection.rs`, `mint_win_nft.rs`) | `NftCollectionConfig`, `minted` in `WinRecord`, assets in mpl-core | `init_nft_collection`, `mint_win_nft` |
| team vesting (`init_team_vesting.rs`, `claim_vested.rs`) | `TeamVesting` and its token account | `init_team_vesting`, `claim_vested` |
| token launch (`setup_token.rs`, `promote_burn_venue.rs`) | `TokenConfig`, `GlobalState.burn_address` | `setup_token`, `promote_burn_venue` |
| burn path (`burn_tokens.rs`, `dbc_cpi.rs`) | the burn vault's lamports, `TokenConfig` counters | `burn_tokens` |
| events (`events.rs`) | none; the log is what a reader makes of it | one event per instruction, but for `initialize` |
| clients (outside the repository) | what they have read, what they have sent | compose, send again, give up |
| entry and errors (`lib.rs`, `error.rs`) | none | dispatch, error codes |

How they interact: `challenge` opens a window at the resting price, or outbids
the top bid before the deadline, moving the outbid lamports from the vault into
the previous bidder's refund slot. `settle`, which anybody may call once the
deadline has passed, makes the top bidder the holder, books 15% for the
treasury, sends the rest to `burn_address` and records the win. `claim_refund`
and `withdraw_treasury` pay out at any time in between. `mint_win_nft` reads the
records `settle` left. `setup_token` repoints `burn_address` from the
incinerator to the burn vault, which `burn_tokens` sweeps: it wraps the lamports
as WSOL, swaps them on the venue `TokenConfig` names (the bonding curve, and
after the graduation, once `promote_burn_venue` has said so, a DAMM v2 pool) and
burns what it got, all in one transaction. Clients see the auction through its
events and act on what they saw then.

What makes each part correct:

* money: the vault holds its rent, the escrow and the fees to the lamport; every
  refund slot is backed; nobody's money becomes anybody else's except by an award;
* the auction: the price only rises, by 5% or more; the deadline never moves
  back and every bid is answerable for a full window; wins alternate between keys
  and are numbered without gaps; no history blocks an outbid or a claim, and one
  thing only blocks a settlement, lamports at the address of its record (a finding);
* progress: refunds are paid if somebody does his part, and windows are settled
  with the same exception;
* vesting: never ahead of the schedule, funded to the last unit, nothing stranded;
* win NFTs: one per win, with the facts of the record, at any later time, and
  only with a metadata hash the metadata signer has attested;
* the burn path: what is burned is what was bought, at the pool's price but for
  the slippage; no lamport leaks; a sweep is open to anybody whenever the market
  would fill it; whatever settlements put in is swept in the end;
* events and clients: the log tells the state; a transaction that arrives late
  or twice does what its sender meant or nothing; who keeps trying gets a turn.

The hazards behind these are listed at their lines in `PROJECT.json`.

## 2. The modules

| module | models | role |
|---|---|---|
| `TogglePure` | `pure.rs`, `constants.rs` | operators; `MAX_U64`, `MAX_I64` are constants |
| `Toggle` | `initialize`, `challenge`, `settle`, `claim_refund`, `withdraw_treasury` and the clock | the auction |
| `EntitlementLedger` | the promise about money | abstract specification |
| `ToggleLedger` | the refinement mapping from `Toggle` to it | `ImplementsLedger` |
| `ToggleSupply` | where every lamport of the auction is: `LamportsConserved` | sums over `Toggle`'s accounts |
| `Vesting` | `init_team_vesting`, `claim_vested` | the team's lock |
| `WinNft` | `init_nft_collection`, `mint_win_nft` with the parsing of the attestation, beside all of `Toggle` | composition with the auction |
| `AwardChain` | the promise about history: awards, defences, certificates | abstract specification |
| `WinChain` | the refinement mapping from `WinNft` to it | `ImplementsChain` |
| `BurnPath` | `setup_token`, `promote_burn_venue`, `burn_tokens`, beside all of `Toggle` | composition with the auction that feeds it; market and strangers are external |
| `ToggleEvents` | the events of `challenge`, `settle`, `claim_refund` and `withdraw_treasury`, and a reader that knows nothing else | extends `Toggle` |
| `ToggleClients` | bidders that act on what the events told them, over a network that loses, delays and repeats | composition with the events |
| `ToggleProofs`, `ToggleGuardsProofs`, `ToggleSupplyProofs`, `ToggleLedgerProofs`, `VestingProofs`, `WinNftProofs`, `BurnPathProofs`, `ToggleClientsProofs` | theorems | |
| `MCToggle`, `MCToggleLedger`, `MCVesting`, `MCWinNft`, `MCBurnPath`, `MCToggleClients` | instances for TLC | |

**Correspondence.** A variable has the name of the field it stands for. Accounts
that are created and closed are functions whose domain is the set of those that
exist: `refund` by the bidder whose key seeds the address, `win_record` by its
ordinal. `lamports` holds the balances of the keys and of the vault, the
incinerator and the burn vault; a refund slot's lamports are a field of the slot
(its balance and its recorded `amount` are different things, and `RefundsBacked`
relates them). One instruction is one action, with the arguments and accounts
its client supplies as parameters; a failed `require!`, checked operation or
account constraint is a conjunct that is false, since a failed transaction
leaves nothing behind. `Challenge` joins `ColdOpen` or `Outbid` with
`RefundPrevious`; `init_if_needed` happens first (`InitIfNeeded`), as in the
code, whether or not the handler then accepts the slot. `Settle` joins
`FlipHolder` and `RecordWin`. `Pubkey::default()` is `NoKey`; the client's
"account omitted" sentinel is `Omitted`. Actions take *any* key as the refund
slot, the rent payer, the burn address or the withdrawal's destination: the
guards have to refuse the wrong ones.

**Addresses and stray lamports.** Anchor's `init` and
`system_program::create_account` refuse an address in use, and the latter counts
lamports as use: a win record can be made only where nothing lies
(`AddressFree`). The address of a record follows from its ordinal, so anybody
can compute it and send lamports there first: `SendLamports`, for the ordinals
of the constant `StrayOrdinals`, takes the least a transfer may leave (the rent
of an empty account) out of a key's wallet for good. `prefunded` is the set of
ordinals with such lamports. `settle` with a new holder, and `initialize`, need
the address of their record free, and `initialize` the vault's; a settlement
that meets the other case is `SettleStuck`. A token account that Anchor's `init`
is to make may have been opened by a stranger in the same way: `OpenToggldAta`
before `setup_token`, `OpenAta` before `init_team_vesting`, each with its
`opened_atas`, and both instructions then fail for that mint. `burn_tokens` uses
`init_if_needed`, and its WSOL account may be open or not.

The values `fee_bps`, `min_raise_bps` and `base_window_secs` are copied from
constants by `initialize` and never change, so the model uses the constants.
Addresses of derived accounts are their seeds.

The definitions that start with a comment "Fault" are not the program: each is
the way a definition next to it could plausibly be wrong, and is used to check
that the properties notice.

**The attestation.** An instruction that may precede a mint is the record of
what `parse_ed25519_instruction_data` reads from it: the program it is for, the
number of signatures, the instruction each of the three offsets counts from,
whether they stay inside the data, and the key and hash found there. `Genuine`
is what the runtime's Ed25519 program guarantees of it (external): a key and a
message in the instruction's own bytes have been verified, and everything else
may read like anything. `WellFormed` and `Attested` are the program's checks. An
asset carries the hash and the uri of its mint. They are two arguments: the
program bounds the uri's length (`UriLength`), looks at nothing else of it, and
relates it to the hash nowhere. Two uris of the same length, or the attested
content moved away from under one, are the same to every instruction.

**The burn path.** `BurnTokens` is the whole instruction: route checks, the
sweep (all the burn vault holds above its rent), the quote at the pool's present
price in two staged products that may overflow, the floor, the wrapping, the
swap, the burn of what was received, the counter and the closing of the WSOL
account. `Swap2` stands for the two venues: the call succeeds on the pool that
trades, in the account layout of its program, and returns any amount from
`min_out` to what its price shows, its depth allows and the supply contains.
What lies between two sweeps is external: `Trade` moves price and depth
(`quote`), `Graduate` closes the curve, `SendTokens` and `OpenWsolAta` are
strangers that use the burn vault's token accounts. `swapped` is a history
variable, the lamports the venues took in. Modelling assumptions: nothing lies
at the burn vault's address before `setup_token` creates it; the price read from
the pool's account is the one the swap starts from; a purchase does not lower
the price. `Q64` and `MAX_U128` follow `MAX_U64`, so that the overflows of
`u128` are where TLC's 32-bit integers can reach them.

**Events and clients.** An event is emitted in the transaction of its
instruction, from the values the handler has at that point: `SettleEvent` uses
those from before the reset of the window. `view` is what a reader makes of the
log. A client composes a challenge (`Compose`) from `view` as it is then, and it
lands (`Land`) in a later state, twice or never; `Forget` is a loss, an expiry
or an answer. `landed` counts how often one transaction was taken (bounded by 2,
which `BidsLandOnce` never lets it reach).

**The clock.** `Tick` moves `now` to any other instant that is at most `MaxSkew`
earlier. The program does not move the clock and no instruction depends on how
far it moves. The runs with `MaxSkew = 0` show what holds on a clock that runs
forward only, the others what holds even if readings step back.

## 3. What is checked

The passing runs are exhaustive. `CHECK_DEADLOCK FALSE` throughout: the clock
has a last instant, the keys can run out of lamports, and a vesting lock can be
empty; the system may stop there.

| run | question | instance |
|---|---|---|
| `toggle_safety` | do money and history stay consistent, and what can block an outbid, a settlement or a claim? | 3 bidding keys, one of them treasury, admin and genesis holder; 7 bids; 6 instants; lamports sent to records 0 and 2; `MAX_U64` is the whole supply of 300 lamports; about 585,000 states |
| `toggle_steps` | do price, deadline and the time to answer a bid hold with a clock that steps back, and does each step keep to the ledger? | the same keys with 5 bids (four raises in a row, so that a key is outbid twice and by different payers), 5 instants and steps back of up to 15 s; about 480,000 states |
| `toggle_liveness` | are windows settled and refunds paid? | 2 bidders and a crank, lamports sent to record 2, weak fairness |
| `toggle_distinct` | is `holder_count` the count of distinct holders? | **no**, see below |
| `settle_anyone` | can anyone settle a closed window? | **no**, see below |
| `vesting` | is the lock funded, never ahead of schedule, and emptied in the end? | totals 7 and 720, durations at and beyond both limits, steps back of up to 10 days, weak fairness |
| `win_nft` | one NFT per win, the record's facts, an attested hash, mintable for good? do auction and mints implement the chain of awards? | the auction with 3 bids, 2 assets, 2 hashes, 2 collection keys, uris of 0, 200 and 201 bytes, all shapes of a preceding instruction; about 129,000 states |
| `attestation_replay` | does an attestation serve one mint only? | **no**, see below |
| `burn_path` | does each sweep burn what it bought, at the floor or better, leak nothing, and what blocks it? | 2 keys, 2 bids, 3 instants; right and wrong routings, slippage 500 and 501, 2 mints, 4 quotes, dust 0 and 1, gifts of tokens and lamports, the burn vault's token account opened early, lamports sent to record 1; about 960,000 states |
| `burn_liveness` | is the burn vault swept in the end, through graduation and wrong promotions? | the same auction, 3 quotes, the curve wired right at launch, no token account opened early; about 129,000 states |
| `promote_once` | is `promote_burn_venue` one-time? | **no**, see below |
| `toggle_clients` | do late, lost and repeated transactions of clients that read the events do what was meant, and does a persistent client get a turn? | 3 clients, 3 bids, 3 instants, lamports sent to records 1 and 2; about 280,000 states |

What the properties mean is stated above each of them. The ones to look at
first:

* `VaultSolvent`, `EscrowIsTopBid`, `RefundsBacked`: the books against the
  balances, over every interleaving.
* `LamportsConserved`: each instruction moves lamports among up to four accounts in
  separate debits and credits; over all accounts they add up to the supply.
* `ImplementsLedger`: the strongest one about money. The wealth of a key is its
  wallet, its refund, its standing bid, the fees it may withdraw and the rent it
  advanced for slots of others. Bids, outbids, claims and withdrawals change
  nobody's wealth. It is what catches a slot whose rent goes to the wrong player.
* `WinRecordsDense` and `SettleNeverBlocked`: `settle` creates an account at an
  address computed from a counter. The first says that no earlier record has the
  ordinal; the second, that but for lamports sent to that address (`SettleStuck`)
  nothing keeps a closed window from being settled: not its caller, a balance, a
  counter, a withdrawal or a stale burn address.
* `OutbidNeverBlocked`: the code's claim that `challenge` is unconditional with
  respect to the previous bidder. Enabledness is evaluated in every state.
* `EveryBidIsAnswerable`: whoever is outbid, even in the last second, has a full
  window to answer, whatever the clock did before. `DeadlineNeverMovesBack` alone
  would let an outbid keep the old deadline.
* `HolderKeepsAFullWindow`: wins are a full window apart, as read from the
  records. It needs a clock that does not step back.
* `ClaimsFollowSchedule`, `EverythingVests`: rounding of repeated claims, from
  above and from below.
* `WinsAreForever`, `WinStaysMintable`: later settlements and mints take nothing
  away from a recorded win.
* `ImplementsChain`: `settle`'s records and the NFTs together, against the chain of
  awards of `AwardChain`, which knows no window, bid, slot or flag. An award goes to
  somebody who does not hold the toggle yet, at a raise; a defence only raises the
  price; an award is certified once, with its own facts, however late.
* `OnlyAttestedHashes`: over every instruction that may stand before a mint, in
  particular those that verify nothing or verify bytes of another instruction. It
  is about the hash an NFT carries, not about what its uri leads to.
* `SweepsAtTheFloor`, `BurnPathKeepsItsMoney`, `BurnsExactlyWhatItBuys`: a sweep
  with a stale quote, a swap that leaves something over, and accounts strangers
  have opened and funded, together.
* `SweepNeverBlocked`, `BurnIsSwept`: what a sweep needs, spelled out, and nothing
  else. `WellRouted` is what the admin has to get right and `MarketFills` what the
  market has to offer: a sweep takes the whole balance or nothing, so a pool too
  shallow for it stops it. `Quotable` and `MarketFills` are premises: a price whose
  square overflows and a pool without the depth occur in the runs, and there these
  properties say nothing, since the code refuses such a sweep and promises no
  other.
* `BidsLandOnce`, `BidsLandAsMeant`, `EventsTellTheState`, `PersistenceWins`: no
  nonce, no sequence number and no expiry protects a challenge; that the raise
  and the refund slot do is what these properties say.

**Findings.** `settle.rs:12` says of `settle` "Permissionless: anyone can
trigger settlement once the window has closed". With a new holder it creates the
win record by `system_program::create_account` (`settle.rs:145`), which fails if
the address holds lamports, and nothing in the program funds, takes over or
empties that address. Once lamports lie there, `settle` fails for every caller,
`challenge` is refused because the deadline has passed, and the window stays
open with its bid in escrow. The run `settle_anyone` shows the shortest history:
`initialize`, one bid, one transfer, and the clock. The other properties name
the case and leave it out (`SettleStuck`), and `StuckForGood` proves that it
lasts. An allocation that tolerates a funded address (transfer what is missing
of the rent, `allocate`, `assign`, as Anchor's own `init` does) would remove the
exception.

`mint_win_nft.rs:142` says the attestation has to come immediately before the
mint, since one found anywhere in the transaction "would let a
stale-but-validly-signed attestation from an unrelated prior mint be replayed".
An attestation is a signed hash; it names neither win nor asset and nothing
records its use, so the same one can stand immediately before any number of
mints (`attestation_replay`). What the position check does ensure is
`OnlyAttestedHashes`.

`state.rs:11` says `holder_count` is the "count of distinct holders this toggle
has ever had". `settle` counts changes of holder: when a key wins the toggle
back, it is counted again. The run `toggle_distinct` shows the shortest such
history. The rest of the comment, and the use of the field as a record ordinal,
agree with the code.

`lib.rs:110` calls `promote_burn_venue` "one-time, admin-gated". The handler
refuses only a promotion that changes nothing, so a venue that is DAMM v2
already can be given another pool or config, any number of times
(`promote_once`). That is what lets the admin mend a wrong promotion:
`BurnIsSwept` relies on it, and its mutant, a promotion that is really one-time,
breaks it.

**Bounds, and why they are enough.** Three keys give a holder, a top bidder and
an outbid third party, all distinct, and the treasury bids too, so every
coincidence of roles occurs. The bids 20 to 29 over a price of 20 straddle the
5% raise exactly (20 fails, 21 passes; 22 over 21 fails by rounding and 23
passes), allow chains of up to five raises, and make the 15% fee round differently for
most of them. The instants are multiples of 15 s or 30 s around the 30 s window,
so bids and settlements fall before, at and after deadlines, up to three full
windows. `MAX_I64` is the last instant: there `checked_add` refuses further
bids, and the windows already open must still settle. 100 lamports a key are
enough for every chain of bids and few enough for some keys to run dry. Rents
are distinct small numbers so that a rent paid to the wrong account shows. In
the burn path, bids of 21 and 23 make burn legs of 18 and 20 lamports, so the
cheap pool, which has 75 tokens at a quarter of a lamport, fills the first and
not the second, and two wins that nobody sweeps in between exceed both;
`TooCheap` overflows the second product of the quote and `Unpriced` divides by
zero; with `MAX_U64` at 32767 the products of a sweep, and the ceiling they are
checked against, fit TLC's 32-bit integers. Among the clients, three bids, each
a raise over the one before, allow a bidder to be outbid and to come back; time
may stand still, and the run reaches the instant where no deadline can be set
any more. `StrayOrdinals` holds the ordinal of the genesis record, of the first
win or of a later one, so that the first setup, or a settlement after several
good ones, meets lamports at its address, while others find theirs empty. In
vesting, 720 units over 30 days make the first hour worth a unit and most
divisions inexact; TLC's 32-bit integers bound the product of total and time, so
the ten-year schedule is checked near its start and at its end. `A` and `B`, the
assets, the hashes and the collection keys are symmetric, no property that is
checked under symmetry is temporal beyond a step, and the fair runs use none.

**Fairness.** `FairSpec` of `Toggle`: the clock goes on; the crank (`Keeper`, a
service outside this repository that the program is built for; `settle` takes
any caller) keeps calling `settle`; and each bidder eventually claims what he is
owed. Weak fairness suffices: once a deadline has passed nothing but `settle`,
or lamports at its record's address, disables it, and a claim stays possible
until it is made. Where they lie, no fairness of the crank helps, and
`WindowSettles` says so: a window is settled or stuck. Nothing is assumed of
bidders or of the admin. The keeper can pay the rents (it does not bid in that
run). `FairSpec` of `Vesting`: the admin claims; that the clock comes to stay
after the end is a premise of `EverythingVests`, since readings may step back in
that run. `FairBurnSpec`: strong fairness of the keeper's sweep, since every
move of the market may disable it between two attempts (a keeper that tries
again and again lands one), and weak fairness of the right promotion once the
curve has graduated. Nothing is assumed of the market; `BurnIsSwept` says under
which market it promises anything (`MarketStaysOpen`). `FairClientSpec`: a
client composes again and gives up in time (weak), a transaction it keeps
sending gets through if it could again and again (strong, since every other bid
that lands first makes it stale), and the crank settles. Nothing is assumed of
the clock. `PersistenceWins` is about runs in which no window is stuck for good:
a stuck one keeps everybody out.

## 4. What is proved

For every set of keys, every amount, rent and clock, under the `ASSUME`s of the
modules only (addresses are distinct, amounts and instants are naturals, the
authority is a key; `NoInstruction` and `NoTransaction` stand for the absence of
one; in `Vesting`, times fit an `i64` and the clock does not read the very last
one). The assumptions are evaluated by every TLC run.

**The pure rules** (head of `ToggleProofs`): the split is exact and never
favours the treasury; the division-free check is the 5% raise; a raise is strict
above zero. `ProductsFitU128` and, for the vesting schedule,
`ReleaseNeverOverflows` (`VestingProofs`) prove what the comments of `pure.rs`
claim of its casts and products: no lamport amount, and no combination of times
and total, overflows, for any width of `u64` that holds a `u16` of basis points,
and of `i64` no wider.

**The auction** (`ToggleProofs`): the invariant `IInv`, with a lemma per
instruction. `TypeOK`, `VaultSolvent`, `EscrowIsTopBid`, `RefundsBacked`,
`WinRecordsDense`, `WinsAlternate` and `TopBidClearsRaise` are conjuncts of it,
since none is inductive alone: the price rises because the standing bid clears
the resting price; the vault stays solvent because the escrow *is* the standing
bid, so an outbid and a settlement take out what is there; a record's ordinal is
free because the existing ones end at `holder_count - 1`; wins alternate because
the last record is the holder's. `Dormant` adds that nothing moves before
`initialize`. Hence `TypeCorrect`, `VaultIsSolvent`, `EscrowHoldsTopBid`,
`RefundsAreBacked`, `WinRecordsAreDense`, `WinsDoAlternate`, `BurnShareIsKept`,
`TopBidIsARaise`, and from the same invariant the three action properties
`PriceOnlyRises`, `DeadlineIsMonotone` and `BidsStandAFullWindow`, for any clock
skew. `BurnShareIsKept` is an induction of its own over `IInv` (`NextShare`): it
speaks of what lies at the burn addresses, so it is a fact about the auction
alone and is left out of `IInv`, which must survive sweeps.
`HoldersKeepAFullWindow` assumes `MaxSkew = 0` and needs `ClockInv` beside
`IInv`: the holder's win is not in the future, and an open deadline is a full
window after it, so the next win, which comes after that deadline, is too.

**What stands in an instruction's way** (`ToggleGuardsProofs`, and the last part
of the other proof modules). `ENABLED` is beyond the prover, so the runs'
`...NeverBlocked` invariants are proved in another form. Each instruction is
shown equivalent to a state predicate, its guards, and an action without guards
that only says what every variable becomes (`SettleSplits`, `ChallengeSplits`,
`ClaimSplits`, `WithdrawSplits`, `MintSplits`, `SweepSplits`). Then the guards
hold in every reachable state in which they should: `OnlyItsRecordBlocksSettle`
(an equivalence: the guards of `settle` hold exactly if the window is not
stuck), `BidsAreNeverBlocked`, `ClaimsAreNeverBlocked`, `WinIsNeverBlocked`,
`SweepIsNeverBlocked`, and `AdminIsNeverBlocked` for the vesting lock. What the
theorems leave to their readers is the step from "guards hold and every variable
is given a value" to `ENABLED`. The checked sums are part of the guards. In this
first form of the theorems it is a premise that the sums fit `u64`, spelled out
for each balance and counter; for the sweep, it is the supply at launch. Two
action properties are the safety halves of the auction's liveness:
`OutcomeWaitsForSettle` (`MaxSkew = 0`), that an elapsed window stays as it is
until it settles, in favour of its top bidder, so the time of the call changes
nothing and weak fairness of it is enough unless it is stuck; `StuckForGood`
(`MaxSkew = 0`), that a stuck one remains so; and `RefundsWaitForTheirBidder`,
that a slot only grows and keeps its rent payer until its own bidder's claim,
which pays both in full.

**Conservation** (`ToggleSupplyProofs`). `LamportsAreConserved` discharges those
premises: the lamports in all wallets, the vault, the burn addresses, the refund
slots, the rents of accounts that stay and the addresses of records to come add
up to what the keys started with, so no balance and no price exceeds the supply.
A sum over an arbitrary set of keys is a fold, and facts about folds need
induction over data; so `TotalOf` counts lamports instead of adding balances:
each account is a set of numbered lamports, the total is the cardinality of
their union, and the lemmas take the union apart account by account. `SupplyInv`
is `IInv` with the conservation and `CountersBelowPrice` (every settlement
raises the price by a lamport at least, so the counters of `settle` can only
overflow after the price has). The result is `OnlyStrayLamportsBlock`: for
finitely many keys whose lamports together fit a `u64`, which the chain's own
supply guarantees, no history of any length blocks an outbid or a claim, and an
elapsed window can be settled exactly if no lamports lie at the address of its
record, with no premise on a balance or counter. The same is carried through the
compositions, with what each adds to the books: nothing for the clients
(`ClientsBidUnblocked`); the rents paid to mpl-core for the mints
(`MintsConserveLamports`, `MintsBlockNothing`, on the way to which there are
never more NFTs than changes of holder, by the injection of assets into win
records); the WSOL account, the rents of the launch and what the venues have
taken in for the sweeps, and the token accounts strangers have opened
(`AllLamportsAreConserved`, `SweepsBlockNothing`).

**The money ledger** (`ToggleLedgerProofs`): `AuctionImplementsLedger`, the
refinement. The key lemma is about the rent each key has advanced, a cardinality
that changes by one when a slot is created or closed; so slots must be finitely
many (`SlotsAreFinite`). Lamports sent to the address of a record leave the
wealth of their sender and nobody else's (`GiveAway` in the ledger). Then one
lemma per instruction gives every key's entitlement after it, and one per
abstract step maps it.

**Vesting** (`VestingProofs`): what has unlocked is at most the total and at
most the straight line (`VestedBounds`, over all `i64` arguments); from it
`VestingTypeCorrect`, `LockStaysFunded`, `ClaimsKeepToSchedule` and
`NewLocksAreLocked`. `ReleaseNeverShrinks`, that a later reading unlocks no
less, carries `NothingIsClaimedAhead`: on a forward clock the subtraction in
`claim_vested` never underflows, so `MathOverflow` there means the clock stepped
back. `AdminIsNeverBlocked` is the safety half of `EverythingVests`: whatever
has unlocked can be claimed, and after the end a single claim empties the lock.

**Win NFTs** (`WinNftProofs`): `NftInv` is `IInv` with the four invariants of
the NFTs, the last of which is that the hash on an NFT was attested
(`HashesAreAttested`). The auction's part is needed: an NFT names its win by the
ordinal, and only `WinRecordsDense` says that no later settlement takes that
ordinal again. Since a mint also moves lamports and marks a record, `IInv` is
shown again for `WinNft`'s own steps; `MintsLeaveTheAuctionSound`,
`MintsMoveNoPriceNorDeadline` and `MintsLeaveTheHolderHisWindow` say what the
auction keeps beside them. `AuctionImplementsChain` is the second refinement:
`initialize` founds the chain, a settlement that flips the switch awards
(`WinsAlternate`'s last record gives the holder to differ from,
`TopBidClearsRaise` the raise, `WinRecordsDense` the end of the chain), one that
does not is a defence, a mint certifies (a second certificate for the award
would be an asset whose record is not marked), and everything else is a stutter.

**Events and clients** (`ToggleClientsProofs`): `EventInv` (the reader's view is
the state; before `initialize` nothing is owed or burned), and `ClientInv`,
which adds `LandedBidsAreBeaten`: a bid that was taken is never above
`Standing`, the bid to beat, which no step lowers. That is why a transaction
sent twice is taken once, for any number of bidders and bids and any clock.
`ClientsDriveTheAuction` shows that the composition implements `Toggle`, so all
the auction's theorems hold of it (`AuctionSoundUnderClients`); `EventsSuffice`,
that a bid composed from the events alone passes every guard of `challenge`.

**The burn path** (`BurnPathProofs`): `SweepInv`, what a sweep needs of the
auction (balances are naturals where the burn leg goes, and the auction never
takes from the burn vault) and of itself (the burn vault keeps its rent; nothing
is counted before the launch). From it `BurnVaultStaysLive`,
`SweepsBurnWhatTheyBuy` and `NothingLeaksOut`, for every price, depth and answer
of the venues, and `SupplyIsAccountedFor`. `SweepsKeepTheFloor` is arithmetic:
the quote divides twice and the floor a third time, each rounding down, and a
slippage of at most 5% is on record. From `out >= floor` the proof climbs back
through the three divisions (`RoundedDown`, `TwoDivisions`,
`FloorKeepsThePrice`): each costs less than one unit of what it divides, which
is where the `+ 2` tokens and the one `sqrt_price` of the property come from.
`BurnInv` adds `IInv` and that the burn vault's account never holds more tokens
than there are: the launch repoints the burn leg, and beyond that it, the sweeps
and the strangers change nothing the auction looks at (`AuctionUntouched`), so
the whole system keeps its types (`BurnTypeCorrect`) and the auction its
promises beside the burn path (`AuctionStaysSound`, `AuctionWaitsForNothingNew`,
`SweepsMoveNoPriceNorDeadline`, `SweepsLeaveTheHolderHisWindow`).

**Only model-checked**: the properties with `ENABLED` as such
(`SettleNeverBlocked`, `OutbidNeverBlocked`, `ClaimNeverBlocked`,
`WinStaysMintable`, `SweepNeverBlocked`), whose guards are proved as above, and
liveness (`WindowSettles`, `RefundsPaid`, `EverythingVests`, `BurnIsSwept`,
`PersistenceWins`). Every other property of a passing run is a theorem. The
types of the vesting lock, which no run needs to check any more, are a theorem
only (`VestingTypeCorrect`).

## 5. What is not modelled, and not claimed

* Direct transfers by outsiders to the vault, the burn vault once it exists, a
  refund slot or the vesting account: the program does not see them, and the
  balances would then exceed the books. Transfers to the address of a win record,
  and gifts to the burn vault's two token accounts, are modelled.
* Transfers to the address of the vault before `initialize` and of the burn vault
  before `setup_token`. `create_account` would refuse them as it does the win
  record's, and both instructions have that guard, but no action of the model sends
  them: these are one-time setups before which nothing is at stake. (The
  genesis record's address is among those that `SendLamports` reaches.) Addresses
  made by Anchor's `init` tolerate lamports.
* What the uri of an NFT leads to, which no instruction ever reads; what the
  collection's authority may do to assets through mpl-core itself; burns of tokens
  by their holders, so `BurnsExactlyWhatItBuys` and `SupplyIsAccountedFor` are about
  a supply that only sweeps reduce.
* The runtime's rule that a wallet ends at zero or above its rent exemption, and
  transaction fees.
* In vesting, the lamports the admin pays for the accounts. In the win NFT, the
  byte offsets of the Ed25519 instruction (which instruction they count from and
  whether they stay inside it is modelled), royalties and listing plugins.
* The events of launch, sweep, vesting and win NFT, which repeat arguments and
  results of their instruction and carry no state from before to after.
* Error codes and the dispatch in `lib.rs`: a failed check is a step that is not
  taken, whatever it is called. The integration tests were read as a statement of
  what the program promises; they are not part of the program.
* The venues' own arithmetic, fees and accounts (`dbc_cpi.rs` is modelled by what
  its call demands and returns), and how lamports a swap may leave over arise: it
  is the choice of `unspent`.
* A launch with the wrong mint: nothing can change `toggld_mint` later. The model
  contains it, the sweep properties are about the launched mint, and no comment
  or test promises more, so it is a hazard without a property.

## 6. Plan

1. An abstract specification of the lock (what has unlocked, and what was taken
   of it) with `Vesting` as its implementation.
2. The money ledger beside the sweeps and the mints: conservation is proved there,
   but `AuctionImplementsLedger`, which also says *whose* a lamport is, is about the
   auction alone; a mint's rent or the WSOL account's would be a further kind of
   payment in it.
3. The clients beside the burn path: a `settle` composed with the old
   `burn_address`, a sweep composed on a venue that has been promoted since.
