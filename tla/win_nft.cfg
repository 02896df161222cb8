SPECIFICATION NftSpec
CONSTANTS
  A = A  B = B  T = T
  NoKey = NoKey  Omitted = Omitted
  Vault = Vault  Incinerator = Incinerator  BurnVault = BurnVault
  Keys = {A, B, T}
  Bidders = {A, B, T}
  Keeper = T
  UpgradeAuthority = T
  Treasuries = {T}
  Admins = {T}
  GenesisPrices = {20}
  BidAmounts = {21, 23, 25}
  Wallet <- MCWallet
  Instants = {0, 30, 60, 90}
  MaxSkew = 0
  StrayOrdinals = {2}
  MAX_U64 = 1000
  MAX_I64 = 90
  RentState = 1  RentVault = 2  RentRefund = 2  RentWin = 3
  Asset1 = Asset1  Asset2 = Asset2  Hash1 = Hash1  Hash2 = Hash2
  AssetKeys = {Asset1, Asset2}
  Collection1 = Collection1  Collection2 = Collection2
  CollectionKeys = {Collection1, Collection2}
  Hashes = {Hash1, Hash2}
  METADATA_SIGNER = MetadataSigner  OtherSigner = OtherSigner
  Ed25519Program = Ed25519Program  OtherProgram = OtherProgram
  NoInstruction = NoInstruction
  SAME_INSTRUCTION = SameInstruction  AnotherInstruction = AnotherInstruction
  NoUri = NoUri  Uri200 = Uri200  Uri201 = Uri201
  Uris = {NoUri, Uri200, Uri201}
  UriLength <- MCUriLength
  NameLengths = {0, 32, 33}
  AssetRent = 4  CollectionRent = 5
SYMMETRY MCSymmetry
INVARIANTS
  NftTypeOK
  NftsMatchWins
  OneNftPerWin
  OnlyAttestedHashes
  WinStaysMintable
PROPERTIES
  ImplementsChain
  WinsAreForever
CHECK_DEADLOCK FALSE
