SPECIFICATION FairSpec
CONSTANTS
  A = A  B = B  C = C  T = T
  NoKey = NoKey  Omitted = Omitted
  Vault = Vault  Incinerator = Incinerator  BurnVault = BurnVault
  Keys = {A, B, T}
  Bidders = {A, B}
  Keeper = T
  UpgradeAuthority = T
  Treasuries = {T, NoKey}
  Admins = {T, NoKey}
  GenesisPrices = {0, 20}
  BidAmounts = {20, 21, 22, 23, 25}
  Wallet <- MCWallet
  Instants = {0, 15, 30, 45, 60}
  MaxSkew = 0
  StrayOrdinals = {2}
  MAX_U64 = 1000
  MAX_I64 = 60
  RentState = 1  RentVault = 2  RentRefund = 2  RentWin = 3
PROPERTIES
  WindowSettles
  RefundsPaid
CHECK_DEADLOCK FALSE
