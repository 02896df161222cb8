SPECIFICATION Spec
CONSTANTS
  A = A  B = B  C = C  T = T
  NoKey = NoKey  Omitted = Omitted
  Vault = Vault  Incinerator = Incinerator  BurnVault = BurnVault
  Keys = {A, B, T}
  Bidders = {A, B, T}
  Keeper = T
  UpgradeAuthority = T
  Treasuries = {T}
  Admins = {T}
  GenesisPrices = {20}
  BidAmounts = {20, 21, 22, 23, 25, 27, 29}
  Wallet <- MCWallet
  Instants = {0, 15, 30, 45, 60, 90}
  MaxSkew = 0
  StrayOrdinals = {1}
  MAX_U64 = 1000
  MAX_I64 = 90
  RentState = 1  RentVault = 2  RentRefund = 2  RentWin = 3
INVARIANT AnyoneCanSettle
CHECK_DEADLOCK FALSE
