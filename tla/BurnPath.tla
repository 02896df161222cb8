------------------------------ MODULE BurnPath ------------------------------
(* The token launch and the burn path, beside the auction that feeds them:     *)
(* setup_token and promote_burn_venue wire a swap venue into TokenConfig, and  *)
(* burn_tokens sweeps the lamports settle has sent to the burn vault through   *)
(* that venue and burns what it buys.  One sweep is one transaction, so its    *)
(* three external programs are parts of one step; what is external is how the  *)
(* venue answers, and everything that may happen between two sweeps: the price *)
(* moves, the bonding curve graduates into a DAMM v2 pool, somebody opens or   *)
(* funds the burn vault's token accounts.                                      *)
EXTENDS Toggle

CONSTANTS
  TOGGLD, Mints,               \* the launched mint, and those setup may be given
  StrayMints,                  \* mints whose account strangers may open early
  Curve, Damm,                 \* the bonding curve's pool, and its DAMM v2 successor
  CurveConfig, DammConfig,     \* the configs those two pools were made with
  DBC_PROGRAM_ID, DAMM_V2_PROGRAM_ID,
  SetupRoutings, PromotedRoutings,  \* routings the admin may send
  Slippages,                   \* bounds on slippage the admin may send
  Quotes, Dusts,               \* states of the market; lamports a swap leaves over
  TokenGifts, WsolGifts,       \* what strangers put into the vault's token accounts
  InitialSupply,               \* tokens minted at launch
  MIN_SWEEP_LAMPORTS,          \* 0.01 SOL; instances shrink it
  RentConfig, RentAta          \* rent-exempt reserves

VENUE_DBC_CURVE == 0
VENUE_DAMM_V1 == 1
VENUE_DAMM_V2 == 2
MAX_SLIPPAGE_BPS_CEILING == 500

\* 1 in the Q64.64 format of prices, and the ceiling of u128: both follow the
\* width of u64, so an instance that shrinks one shrinks them all.
Q64 == MAX_U64 + 1
MAX_U128 == Q64 * Q64 - 1

Pools == {Curve, Damm}
PoolConfigs == {CurveConfig, DammConfig}
Routing == [venue : Nat, pool_address : Pools, venue_config : PoolConfigs]

ASSUME BurnAssumption ==
  /\ TOGGLD \in Mints /\ NoKey \notin Mints /\ StrayMints \subseteq Mints
  /\ Curve # Damm /\ CurveConfig # DammConfig /\ Omitted \notin PoolConfigs
  /\ DBC_PROGRAM_ID # DAMM_V2_PROGRAM_ID
  /\ SetupRoutings \subseteq Routing /\ PromotedRoutings \subseteq Routing
  /\ Slippages \subseteq Nat /\ Dusts \subseteq Nat
  /\ Quotes \subseteq [sqrt_price : Nat, reserve : Nat] /\ Quotes # {}
  /\ TokenGifts \subseteq Nat /\ WsolGifts \subseteq Nat /\ InitialSupply \in Nat
  /\ MIN_SWEEP_LAMPORTS \in Nat \ {0}
  /\ RentConfig \in Nat /\ RentAta \in Nat \ {0}

VARIABLES
  token_config,           \* the TokenConfig account; no mint until it exists
  burn_vault_toggld_ata,  \* tokens in the burn vault's token account
  burn_vault_wsol_ata,    \* lamports in its WSOL account, 0 while there is none
  mint_supply,            \* the supply on the TOGGLD mint
  swapped,                \* lamports the venues have taken in, ever
  quote,                  \* price and depth of the pool that trades
  graduated,              \* the curve has closed and the DAMM v2 pool trades
  opened_atas             \* mints the burn vault had a token account of before launch

marketVars == <<quote, graduated, opened_atas>>
burnVars == <<token_config, burn_vault_toggld_ata, burn_vault_wsol_ata, mint_supply,
              swapped, marketVars>>
allVars == <<vars, burnVars>>

Configured == token_config.toggld_mint # NoKey

\* Tokens outside the burn vault's account.
Circulating == mint_supply - burn_vault_toggld_ata

-----------------------------------------------------------------------------
(* setup_token() *)

\* Fault: the bound is taken as it comes.
AnySlippage(max_slippage_bps) == TRUE

SlippageAllowed(max_slippage_bps) == max_slippage_bps <= MAX_SLIPPAGE_BPS_CEILING

\* Fault: the burn leg is left where it was.
RepointedNowhere == Incinerator

\* Where settle sends the burn leg from now on.
Repointed == BurnVault

\* create_account refuses the address of the burn vault if it holds anything,
\* and init a token account that exists.
SetupToken(signer, mint, routing, max_slippage_bps) ==
  LET rent == RentConfig + RentVault + RentAta IN
  /\ initialized
  /\ signer = admin
  /\ ~Configured
  /\ burn_address = Incinerator
  /\ routing.venue \in {VENUE_DBC_CURVE, VENUE_DAMM_V1, VENUE_DAMM_V2}
  /\ SlippageAllowed(max_slippage_bps)
  /\ lamports[BurnVault] = 0
  /\ mint \notin opened_atas
  /\ lamports[signer] >= rent
  /\ lamports' = Credit(Debit(lamports, signer, rent), BurnVault, RentVault)
  /\ token_config' = [toggld_mint |-> mint, venue |-> routing.venue,
                      pool_address |-> routing.pool_address,
                      venue_config |-> routing.venue_config,
                      max_slippage_bps |-> max_slippage_bps, total_tokens_burned |-> 0]
  /\ burn_address' = Repointed
  /\ UNCHANGED <<holderVars, standingVars, windowVars, escrowed_amount, treasury_balance,
                 refund, now, burn_vault_toggld_ata, burn_vault_wsol_ata, mint_supply,
                 swapped, marketVars>>

-----------------------------------------------------------------------------
(* promote_burn_venue() *)

\* Fault: one promotion and no more.
VenueDiffers(new) == token_config.venue # new.venue

\* Something must change; the venue itself may be the one it already is.
RoutingDiffers(new) ==
  \/ token_config.venue # new.venue
  \/ token_config.pool_address # new.pool_address
  \/ token_config.venue_config # new.venue_config

PromoteBurnVenue(signer, new) ==
  /\ Configured
  /\ signer = admin
  /\ new.venue = VENUE_DAMM_V2
  /\ RoutingDiffers(new)
  /\ token_config' = [token_config EXCEPT !.venue = new.venue,
                                          !.pool_address = new.pool_address,
                                          !.venue_config = new.venue_config]
  /\ UNCHANGED <<vars, burn_vault_toggld_ata, burn_vault_wsol_ata, mint_supply,
                 swapped, marketVars>>

-----------------------------------------------------------------------------
(* burn_tokens() *)

\* All the burn vault holds above its own rent; nothing less can be swept.
Sweep == lamports[BurnVault] - RentVault

\* Fault: the config account is demanded from every venue.
RouteWithConfig(route) ==
  /\ route.pool = token_config.pool_address
  /\ route.config = token_config.venue_config
  /\ \/ token_config.venue = VENUE_DBC_CURVE /\ route.program = DBC_PROGRAM_ID
     \/ token_config.venue = VENUE_DAMM_V2 /\ route.program = DAMM_V2_PROGRAM_ID

\* The accounts a client supplies agree with the configured venue: its
\* program, its pool and, on the curve only, its config.
RouteAccepted(route) ==
  /\ route.pool = token_config.pool_address
  /\ route.config # Omitted => route.config = token_config.venue_config
  /\ \/ /\ token_config.venue = VENUE_DBC_CURVE
        /\ route.program = DBC_PROGRAM_ID
        /\ route.config # Omitted
     \/ /\ token_config.venue = VENUE_DAMM_V2
        /\ route.program = DAMM_V2_PROGRAM_ID

\* read_pool_sqrt_price, and what the sweep is worth at that price, in two
\* divisions.  Each product must fit u128: Quotable says they all do.
QuotedOnce(sweep, sqrt_price) == (sweep * Q64) \div sqrt_price
expected_out(sweep, sqrt_price) == (QuotedOnce(sweep, sqrt_price) * Q64) \div sqrt_price

Quotable(sweep, sqrt_price, bps) ==
  /\ sqrt_price > 0
  /\ sweep <= MAX_U128 \div Q64
  /\ QuotedOnce(sweep, sqrt_price) <= MAX_U128 \div Q64
  /\ expected_out(sweep, sqrt_price) <= MAX_U128 \div (10000 - bps)

\* Fault: the caller's min_out is all that protects the price.
NoFloor(sweep, sqrt_price, bps) == 0

\* The least min_out a sweep may ask for.
SlippageFloor(sweep, sqrt_price, bps) ==
  (expected_out(sweep, sqrt_price) * (10000 - bps)) \div 10000

\* Fault: init, which fails where somebody has opened the account before.
WsolRentOfInit == IF burn_vault_wsol_ata = 0 THEN RentAta ELSE Wallet[Keeper] + 1

\* init_if_needed: what the caller pays for the WSOL account.
WsolRent == IF burn_vault_wsol_ata = 0 THEN RentAta ELSE 0

\* The venue's answer: any amount from min_out to what its price shows, as far
\* as its depth and the tokens there are go, and what it did not need of the
\* sweep.  A purchase does not lower the price.
VenueAnswers(sweep, min_out, received, unspent) ==
  /\ min_out <= received
  /\ received <= expected_out(sweep, quote.sqrt_price)
  /\ received <= quote.reserve /\ received <= Circulating /\ unspent <= sweep
  /\ quote' \in {q \in Quotes : q.sqrt_price >= quote.sqrt_price}
  /\ UNCHANGED <<graduated, opened_atas>>

\* swap2: the call succeeds on the live pool of the right mint, in the account
\* layout of its program: with the pool's config on the curve, without on DAMM v2.
Swap2(route, sweep, min_out, received, unspent) ==
  /\ token_config.toggld_mint = TOGGLD
  /\ route = IF graduated
             THEN [program |-> DAMM_V2_PROGRAM_ID, pool |-> Damm, config |-> Omitted]
             ELSE [program |-> DBC_PROGRAM_ID, pool |-> Curve, config |-> CurveConfig]
  /\ VenueAnswers(sweep, min_out, received, unspent)

\* Faults: only the amount asked for is burned; everything held is burned.
BurnMinOut(received, min_out) == min_out
BurnWholeAta(received, min_out) == burn_vault_toggld_ata + received

\* What this sweep received, no more and no less.
Burned(received, min_out) == received

\* Fault: the caller gets the WSOL account's lamports back.
CloseToCaller(caller) == caller

\* Where the lamports of the closed WSOL account go.
CloseTo(caller) == BurnVault

BurnTokens(caller, route, min_out, received, unspent) ==
  /\ Configured
  /\ RouteAccepted(route)
  /\ Sweep >= MIN_SWEEP_LAMPORTS
  /\ min_out > 0
  /\ SlippageAllowed(token_config.max_slippage_bps)
  /\ Quotable(Sweep, quote.sqrt_price, token_config.max_slippage_bps)
  /\ min_out >= SlippageFloor(Sweep, quote.sqrt_price, token_config.max_slippage_bps)
  /\ lamports[caller] >= WsolRent
  /\ Swap2(route, Sweep, min_out, received, unspent)
  /\ FitsU64(token_config.total_tokens_burned + Burned(received, min_out))
  /\ token_config' = [token_config EXCEPT !.total_tokens_burned = @ + Burned(received, min_out)]
  /\ mint_supply' = mint_supply - Burned(received, min_out)
  /\ burn_vault_toggld_ata' = burn_vault_toggld_ata + received - Burned(received, min_out)
  /\ swapped' = swapped + Sweep - unspent
  /\ lamports' = Credit(Debit(Debit(lamports, caller, WsolRent), BurnVault, Sweep),
                        CloseTo(caller), burn_vault_wsol_ata + WsolRent + unspent)
  /\ burn_vault_wsol_ata' = 0
  /\ UNCHANGED <<holderVars, standingVars, windowVars, burn_address, escrowed_amount,
                 treasury_balance, refund, now>>

-----------------------------------------------------------------------------
(* What strangers and the market do between two sweeps *)

\* Anyone may open a token account of the burn vault, whose address is known
\* before it exists itself.
OpenToggldAta(payer, mint) ==
  /\ ~Configured
  /\ mint \notin opened_atas
  /\ lamports[payer] >= RentAta
  /\ lamports' = Debit(lamports, payer, RentAta)
  /\ opened_atas' = opened_atas \cup {mint}
  /\ UNCHANGED <<holderVars, standingVars, windowVars, burn_address, escrowed_amount,
                 treasury_balance, refund, now, token_config, burn_vault_toggld_ata,
                 burn_vault_wsol_ata, mint_supply, swapped, quote, graduated>>

\* Anyone may open the burn vault's WSOL account, and put lamports into it.
OpenWsolAta(payer, gift) ==
  /\ burn_vault_wsol_ata = 0
  /\ lamports[payer] >= RentAta + gift
  /\ burn_vault_wsol_ata' = RentAta + gift
  /\ lamports' = Debit(lamports, payer, RentAta + gift)
  /\ UNCHANGED <<holderVars, standingVars, windowVars, burn_address, escrowed_amount,
                 treasury_balance, refund, now, token_config, burn_vault_toggld_ata,
                 mint_supply, swapped, marketVars>>

\* Anyone may send the burn vault tokens; one gift is enough to tell them from
\* the tokens a sweep buys.
SendTokens(gift) ==
  /\ Configured
  /\ burn_vault_toggld_ata = 0 /\ gift <= Circulating
  /\ burn_vault_toggld_ata' = gift
  /\ UNCHANGED <<vars, token_config, burn_vault_wsol_ata, mint_supply, swapped,
                 marketVars>>

Trade(q) ==
  /\ quote' = q
  /\ UNCHANGED <<vars, token_config, burn_vault_toggld_ata, burn_vault_wsol_ata,
                 mint_supply, swapped, graduated, opened_atas>>

\* Meteora's migrator moves the curve's liquidity into the DAMM v2 pool, once.
Graduate ==
  /\ ~graduated
  /\ graduated' = TRUE
  /\ quote' \in Quotes
  /\ UNCHANGED <<vars, token_config, burn_vault_toggld_ata, burn_vault_wsol_ata,
                 mint_supply, swapped, opened_atas>>

-----------------------------------------------------------------------------
BurnInit ==
  /\ Init
  /\ token_config = [toggld_mint |-> NoKey, venue |-> VENUE_DBC_CURVE,
                     pool_address |-> Curve, venue_config |-> CurveConfig,
                     max_slippage_bps |-> 0, total_tokens_burned |-> 0]
  /\ burn_vault_toggld_ata = 0 /\ burn_vault_wsol_ata = 0
  /\ mint_supply = InitialSupply /\ swapped = 0
  /\ quote \in Quotes /\ graduated = FALSE /\ opened_atas = {}

Routes == [program : {DBC_PROGRAM_ID, DAMM_V2_PROGRAM_ID}, pool : Pools,
           config : PoolConfigs \cup {Omitted}]

\* What a caller may ask for: nothing much, or the floor or the full quote of a
\* price it has read, which need not be the price of the pool by now.
MinOuts ==
  {0, 1} \cup
  UNION {{SlippageFloor(Sweep, q.sqrt_price, token_config.max_slippage_bps),
          expected_out(Sweep, q.sqrt_price)} :
         q \in {p \in Quotes : Quotable(Sweep, p.sqrt_price, token_config.max_slippage_bps)}}

\* The venue's worst and best answer to a sweep.
Answers(min_out) ==
  IF Quotable(Sweep, quote.sqrt_price, 0)
  THEN {min_out, expected_out(Sweep, quote.sqrt_price), quote.reserve}
  ELSE {}

SomeSweep(caller) ==
  \E route \in {r \in Routes : Configured /\ RouteAccepted(r)}, unspent \in Dusts :
    \E min_out \in MinOuts : \E received \in Answers(min_out) :
      BurnTokens(caller, route, min_out, received, unspent)

AdminStep ==
  \/ \E s \in Keys, m \in Mints, r \in SetupRoutings, b \in Slippages : SetupToken(s, m, r, b)
  \/ \E s \in Keys, r \in PromotedRoutings : PromoteBurnVenue(s, r)

OutsideStep ==
  \/ \E k \in Keys, m \in StrayMints : OpenToggldAta(k, m)
  \/ \E k \in Keys, g \in WsolGifts : OpenWsolAta(k, g)
  \/ \E g \in TokenGifts : SendTokens(g)
  \/ \E q \in Quotes : Trade(q)
  \/ Graduate

BurnNext ==
  \/ (Instruction \/ (\E t \in Instants : Tick(t)) \/ Stray) /\ UNCHANGED burnVars
  \/ AdminStep
  \/ \E k \in Keys : SomeSweep(k)
  \/ OutsideStep

BurnSpec == BurnInit /\ [][BurnNext]_allVars

\* The keeper keeps trying to sweep, and the admin promotes the venue once the
\* curve has graduated, again if the promotion was a wrong one.
DammRouting == [venue |-> VENUE_DAMM_V2, pool_address |-> Damm, venue_config |-> DammConfig]

BurnFairness ==
  /\ SF_allVars(SomeSweep(Keeper))
  /\ WF_allVars(graduated /\ PromoteBurnVenue(admin, DammRouting))

FairBurnSpec == BurnSpec /\ BurnFairness

-----------------------------------------------------------------------------
(* What is true of every reachable state *)

TokenConfigs ==
  [toggld_mint : Mints \cup {NoKey}, venue : {VENUE_DBC_CURVE, VENUE_DAMM_V1, VENUE_DAMM_V2},
   pool_address : Pools, venue_config : PoolConfigs,
   max_slippage_bps : 0 .. MAX_SLIPPAGE_BPS_CEILING, total_tokens_burned : Nat]

\* The auction keeps its types while its burn leg is swept, and the slippage
\* stored stays under the ceiling.
BurnTypeOK ==
  /\ TypeOK
  /\ token_config \in TokenConfigs
  /\ burn_vault_toggld_ata \in Nat /\ burn_vault_wsol_ata \in Nat
  /\ mint_supply \in Nat /\ swapped \in Nat
  /\ quote \in Quotes /\ graduated \in BOOLEAN /\ opened_atas \subseteq Mints

\* The burn leg points at the burn vault exactly from the launch on, and the
\* burn vault keeps its rent through any number of sweeps: settle can always
\* pay it, and a sweep never turns it into an account that is gone.
BurnVaultLive ==
  /\ Configured <=> burn_address = BurnVault
  /\ IF Configured THEN lamports[BurnVault] >= RentVault ELSE lamports[BurnVault] = 0

LivePool == IF graduated THEN Damm ELSE Curve

\* TokenConfig leads to the pool that trades.
WellRouted ==
  /\ token_config.toggld_mint = TOGGLD
  /\ token_config.pool_address = LivePool
  /\ IF graduated THEN token_config.venue = VENUE_DAMM_V2
     ELSE token_config.venue = VENUE_DBC_CURVE /\ token_config.venue_config = CurveConfig

Sweepable == Configured /\ Sweep >= MIN_SWEEP_LAMPORTS

\* The market would fill a whole sweep at the price it shows.
MarketFills ==
  /\ Quotable(Sweep, quote.sqrt_price, 0)
  /\ 0 < expected_out(Sweep, quote.sqrt_price)
  /\ expected_out(Sweep, quote.sqrt_price) <= quote.reserve
  /\ expected_out(Sweep, quote.sqrt_price) <= Circulating

\* Anyone who can advance the rent of the WSOL account can sweep what settle
\* has sent, whatever strangers opened or sent before, as long as TokenConfig
\* leads to the pool that trades and its depth takes the whole sweep.
SweepNeverBlocked ==
  \A k \in Keys :
    Sweepable /\ WellRouted /\ MarketFills /\ lamports[k] >= RentAta => ENABLED SomeSweep(k)

-----------------------------------------------------------------------------
(* What no step may do *)

\* Every sweep burns what it bought and counts it, so the counter and the
\* supply tell the same story, and tokens a stranger sent are left alone.
BurnsExactlyWhatItBuys ==
  [][/\ mint_supply' + token_config'.total_tokens_burned
          = mint_supply + token_config.total_tokens_burned
     /\ mint_supply' # mint_supply => burn_vault_toggld_ata' = burn_vault_toggld_ata]_allVars

\* The price of a token in Q64ths of a lamport, rounded up.
Price(sqrt_price) == (sqrt_price * sqrt_price + Q64 - 1) \div Q64

\* No sweep burns less than 95% of what the pool's price promises for it, but
\* for rounding down twice, whoever sends it and whatever it asks for.
SweepsAtTheFloor ==
  [][mint_supply' # mint_supply =>
       100 * ((mint_supply - mint_supply' + 2) * Price(quote.sqrt_price) + quote.sqrt_price)
         >= 95 * (Sweep * Q64)]_allVars

\* Once the launch is wired, no lamport leaves the burn path but into a venue's
\* swap ("nothing leaks out of the burn path", burn_tokens.rs), and none goes
\* to the incinerator any more.
BurnPathKeepsItsMoney ==
  [][Configured =>
       /\ lamports'[BurnVault] + burn_vault_wsol_ata' + swapped'
            >= lamports[BurnVault] + burn_vault_wsol_ata + swapped
       /\ lamports'[Incinerator] = lamports[Incinerator]]_allVars

-----------------------------------------------------------------------------
(* What eventually happens *)

\* From some time on the market fills sweeps, the keeper can advance the rent,
\* and the sweeps go to the curve it traded on or the curve has graduated.
MarketStaysOpen ==
  MarketFills /\ lamports[Keeper] >= RentAta /\ (WellRouted \/ graduated)

\* What settle sends to the burn vault is swept in the end if the market stays
\* open, also after a graduation and after promotions to a wrong pool.
BurnIsSwept ==
  <>[](Sweepable => MarketStaysOpen) =>
    (Sweepable /\ token_config.toggld_mint = TOGGLD ~> ~Sweepable)

-----------------------------------------------------------------------------
(* What a comment says of promote_burn_venue: "One-time, admin-gated" (lib.rs). *)
PromotedOnce ==
  [][token_config.venue = VENUE_DAMM_V2 =>
       /\ token_config'.pool_address = token_config.pool_address
       /\ token_config'.venue_config = token_config.venue_config]_allVars
=============================================================================
