SPECIFICATION BurnSpec
CONSTANTS
  A = A  T = T
  NoKey = NoKey  Omitted = Omitted
  Vault = Vault  Incinerator = Incinerator  BurnVault = BurnVault
  Keys = {A, T}
  Bidders = {A, T}
  Keeper = T
  UpgradeAuthority = T
  Treasuries = {T}
  Admins = {T}
  GenesisPrices = {20}
  BidAmounts = {21}
  Wallet <- MCWallet
  Instants = {0, 30}
  MaxSkew = 0
  StrayOrdinals = {1}
  MAX_U64 = 32767
  MAX_I64 = 90
  RentState = 1  RentVault = 2  RentRefund = 2  RentWin = 3
  TOGGLD = TOGGLD  OtherMint = OtherMint
  Mints = {TOGGLD}
  StrayMints = {}
  Curve = Curve  Damm = Damm
  CurveConfig = CurveConfig  DammConfig = DammConfig
  DBC_PROGRAM_ID = DbcProgram  DAMM_V2_PROGRAM_ID = DammV2Program
  SetupRoutings <- MCCurveOnly
  PromotedRoutings <- MCPromotedRoutings
  Slippages = {500}
  Quotes <- MCFewQuotes
  Dusts = {0}
  TokenGifts = {7}
  WsolGifts = {0}
  InitialSupply = 2000
  MIN_SWEEP_LAMPORTS = 10
  RentConfig = 4  RentAta = 5
PROPERTIES
  PromotedOnce
CHECK_DEADLOCK FALSE
