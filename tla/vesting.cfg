SPECIFICATION FairSpec
CONSTANTS
  TOGGLD = TOGGLD  WSOL = WSOL  NoMint = NoMint
  Mints = {TOGGLD, WSOL}
  Signers = {admin, other}
  Admin = admin
  Holdings <- MCHoldings
  TotalAmounts = {0, 7, 720, 721}
  StartTimes = {0, 3599, 3600, 7200}
  Durations = {0, 2591999, 2592000, 315360000, 315360001}
  Instants = {0, 3600, 7200, 864000, 1296000, 1728000, 2592000, 2599200, 315367200}
  MaxSkew = 864000
  MAX_U64 = 1000
  MAX_I64 = 1000000000
INVARIANTS
  LockIsFunded
PROPERTIES
  NothingUnlocksAtOnce
  ClaimsFollowSchedule
  EverythingVests
CHECK_DEADLOCK FALSE
