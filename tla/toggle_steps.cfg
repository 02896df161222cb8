SPECIFICATION Spec
CONSTANTS
  A = A  B = B  C = C  T = T
  NoKey = NoKey  Omitted = Omitted
  Vault = Vault  Incinerator = Incinerator  BurnVault = BurnVault
  Keys = {A, B, T}
  Bidders = {A, B, T}
  Keeper = T
  UpgradeAuthority = T
  Treasuries = {T, NoKey}
  Admins = {T, NoKey}
  GenesisPrices = {0, 20}
  BidAmounts = {21, 22, 23, 25, 27}
  Wallet <- MCWallet
  Instants = {0, 15, 29, 30, 60}
  MaxSkew = 15
  StrayOrdinals = {2}
  MAX_U64 = 1000
  MAX_I64 = 60
  RentState = 1  RentVault = 2  RentRefund = 2  RentWin = 3
SYMMETRY MCSymmetry
PROPERTIES
  PriceRisesByMinRaise
  DeadlineNeverMovesBack
  EveryBidIsAnswerable
  ImplementsLedger
CHECK_DEADLOCK FALSE
