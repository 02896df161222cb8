SPECIFICATION FairClientSpec
CONSTANTS
  A = A  B = B  T = T
  NoKey = NoKey  Omitted = Omitted  NoTransaction = NoTransaction
  Vault = Vault  Incinerator = Incinerator  BurnVault = BurnVault
  Keys = {A, B, T}
  Bidders = {A, B, T}
  Keeper = T
  UpgradeAuthority = T
  Treasuries = {T}
  Admins = {T}
  GenesisPrices = {20}
  BidAmounts = {21, 23, 25}
  Wallet <- MCWallet
  Instants = {0, 30, 60}
  MaxSkew = 0
  StrayOrdinals = {1, 2}
  MAX_U64 = 1000
  MAX_I64 = 60
  RentState = 1  RentVault = 2  RentRefund = 2  RentWin = 3
INVARIANTS
  EventsTellTheState
  BidsLandOnce
PROPERTIES
  BidsLandAsMeant
  PersistenceWins
CHECK_DEADLOCK FALSE
