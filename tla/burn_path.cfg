SPECIFICATION BurnSpec
CONSTANTS
  A = A  T = T
  NoKey = NoKey  Omitted = Omitted
  Vault = Vault  Incinerator = Incinerator  BurnVault = BurnVault
  Keys = {A, T}
  Bidders = {A, T}
  Keeper = T
  UpgradeAuthority = T
  Treasuries = {T}
  Admins = {T}
  GenesisPrices = {20}
  BidAmounts = {21, 23}
  Wallet <- MCWallet
  Instants = {0, 30, 60}
  MaxSkew = 0
  StrayOrdinals = {1}
  MAX_U64 = 32767
  MAX_I64 = 90
  RentState = 1  RentVault = 2  RentRefund = 2  RentWin = 3
  TOGGLD = TOGGLD  OtherMint = OtherMint
  Mints = {TOGGLD, OtherMint}
  StrayMints = {TOGGLD}
  Curve = Curve  Damm = Damm
  CurveConfig = CurveConfig  DammConfig = DammConfig
  DBC_PROGRAM_ID = DbcProgram  DAMM_V2_PROGRAM_ID = DammV2Program
  SetupRoutings <- MCSetupRoutings
  PromotedRoutings <- MCPromotedRoutings
  Slippages = {500, 501}
  Quotes <- MCQuotes
  Dusts = {0, 1}
  TokenGifts = {7}
  WsolGifts = {1}
  InitialSupply = 2000
  MIN_SWEEP_LAMPORTS = 10
  RentConfig = 4  RentAta = 5
INVARIANTS
  BurnTypeOK
  BurnVaultLive
  SweepNeverBlocked
PROPERTIES
  BurnsExactlyWhatItBuys
  SweepsAtTheFloor
  BurnPathKeepsItsMoney
CHECK_DEADLOCK FALSE
