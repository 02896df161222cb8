---------------------------- MODULE WinNftProofs ----------------------------
(* The Win NFTs, proved for every number of wins, minters and attestations: an *)
(* NFT tells a recorded win and no two tell the same one.  The auction's own   *)
(* invariant is part of the argument, since a win is told by its ordinal.      *)
EXTENDS WinChain, ToggleSupplyProofs

\* The auction's invariant also holds while wins are minted, and the assets
\* match its records.
NftInv ==
  /\ IInv
  /\ NftTypeOK
  /\ NftsMatchWins
  /\ OneNftPerWin
  /\ OnlyAttestedHashes

USE KeysAssumption, AmountsAssumption, NftAssumption

-----------------------------------------------------------------------------
(* The records the auction leaves *)

\* An instruction of the auction, or the clock, rewrites no record and adds
\* none that is minted.
LEMMA AuctionKeepsRecords ==
  ASSUME IInv, Next
  PROVE  /\ \A n \in DOMAIN win_record : n \in DOMAIN win_record' /\ win_record'[n] = win_record[n]
         /\ \A n \in DOMAIN win_record' \ DOMAIN win_record : win_record'[n].minted = FALSE
<1> DEFINE Kept ==
      /\ \A n \in DOMAIN win_record : n \in DOMAIN win_record' /\ win_record'[n] = win_record[n]
      /\ \A n \in DOMAIN win_record' \ DOMAIN win_record : win_record'[n].minted = FALSE
<1>1. ASSUME UNCHANGED win_record PROVE Kept
  BY <1>1
<1>2. ASSUME NEW n, NEW r, n \notin DOMAIN win_record, r.minted = FALSE,
             win_record' = Put(win_record, n, r)
      PROVE  Kept
  BY <1>2 DEF Put
<1>3. ASSUME NEW p \in Keys, NEW t \in Treasuries, NEW a \in Admins, NEW g \in GenesisPrices,
             Initialize(p, t, a, g)
      PROVE  Kept
  <2>1. WinRecord(t, 1, 0, now).minted = FALSE
    BY DEF WinRecord
  <2>2. /\ 0 \notin DOMAIN win_record
        /\ win_record' = Put(win_record, 0, WinRecord(t, 1, 0, now))
    BY <1>3 DEF Initialize, AddressFree
  <2> QED
    BY <2>1, <2>2, <1>2
<1>4. ASSUME NEW c \in Bidders, NEW b \in BidAmounts, NEW r \in Keys \cup {NoKey, Omitted},
             Challenge(c, b, r)
      PROVE  Kept
  BY <1>1, <1>4 DEF Challenge, holderVars
<1>5. ASSUME NEW c \in Keys, NEW d \in Accounts, Settle(c, d)
      PROVE  Kept
  <2>1. CASE ~flipped
    BY <1>1, <1>5, <2>1 DEF Settle, RecordWin
  <2>2. CASE flipped
    <3> DEFINE won == WinRecord(top_bidder, holder_count + 1, top_bid_amount, now)
    <3>1. won.minted = FALSE
      BY DEF WinRecord
    <3>2. holder_count \notin DOMAIN win_record /\ win_record' = Put(win_record, holder_count, won)
      BY <1>5, <2>2 DEF Settle, RecordWin, AddressFree
    <3> QED
      BY <3>1, <3>2, <1>2
  <2> QED
    BY <2>1, <2>2
<1>6. ASSUME NEW c \in Keys, NEW k \in Keys, NEW p \in Keys, ClaimRefund(c, k, p)
      PROVE  Kept
  BY <1>1, <1>6 DEF ClaimRefund, holderVars
<1>7. ASSUME NEW s \in Keys, NEW d \in Keys, WithdrawTreasury(s, d)
      PROVE  Kept
  BY <1>1, <1>7 DEF WithdrawTreasury, holderVars
<1>8. ASSUME NEW t \in Instants, Tick(t)
      PROVE  Kept
  BY <1>1, <1>8 DEF Tick, holderVars
<1>9. ASSUME NEW k \in Keys, NEW n \in StrayOrdinals, SendLamports(k, n)
      PROVE  Kept
  BY <1>1, <1>9 DEF SendLamports, holderVars
<1> HIDE DEF Kept
<1>10. Kept
  BY <1>3, <1>4, <1>5, <1>6, <1>7, <1>8, <1>9, Zenon DEF Next, Instruction, Stray
<1> QED
  BY <1>10 DEF Kept

\* A record's ordinal tells it from every other record.
LEMMA OrdinalsDiffer ==
  ASSUME IInv, NEW m \in DOMAIN win_record, NEW n \in DOMAIN win_record,
         win_record[m].holder_count = win_record[n].holder_count
  PROVE  m = n
<1>1. m \in Int /\ n \in Int
  BY DEF IInv, TypeOK
<1>2. win_record[m].holder_count = m + 1 /\ win_record[n].holder_count = n + 1
  BY DEF IInv, WinRecordsDense
<1>3. m + 1 = n + 1
  BY <1>2
<1> QED
  BY <1>1, <1>3

-----------------------------------------------------------------------------
(* The initial states, and steps of the auction *)

LEMMA NftInitInv == NftInit => NftInv
<1> SUFFICES ASSUME NftInit PROVE NftInv
  OBVIOUS
<1>1. IInv /\ DOMAIN win_record = {}
  BY InitIInv DEF NftInit, Init
<1>2. /\ DOMAIN assets = {}
      /\ assets \in [DOMAIN assets -> [owner : Keys, collection : {collection} \ {NoKey},
                                       uri : Uris, facts : Facts, metadata_hash : Hashes]]
  BY DEF NftInit
<1> QED
  BY <1>1, <1>2 DEF NftInit, NftInv, IInv, NftTypeOK, NftsMatchWins, OneNftPerWin, OnlyAttestedHashes

LEMMA AuctionNftInv ==
  ASSUME NftInv, Next, UNCHANGED nftVars
  PROVE  NftInv'
<1>1. IInv'
  BY NextIInv DEF NftInv
<1>2. /\ \A n \in DOMAIN win_record : n \in DOMAIN win_record' /\ win_record'[n] = win_record[n]
      /\ \A n \in DOMAIN win_record' \ DOMAIN win_record : win_record'[n].minted = FALSE
  BY AuctionKeepsRecords DEF NftInv
<1>3. collection' = collection /\ assets' = assets /\ signed' = signed
  BY DEF nftVars
<1>4. NftTypeOK' /\ OnlyAttestedHashes'
  BY <1>1, <1>3 DEF NftInv, IInv, NftTypeOK, OnlyAttestedHashes
<1>5. NftsMatchWins'
  <2> SUFFICES ASSUME NEW a \in DOMAIN assets
               PROVE  \E n \in DOMAIN win_record' :
                        /\ win_record'[n].minted
                        /\ assets[a].facts = WinFacts(n)'
                        /\ assets[a].owner = win_record'[n].winner
    BY <1>3 DEF NftsMatchWins
  <2>1. PICK n \in DOMAIN win_record : /\ win_record[n].minted
                                       /\ assets[a].facts = WinFacts(n)
                                       /\ assets[a].owner = win_record[n].winner
    BY DEF NftInv, NftsMatchWins
  <2> QED
    BY <1>2, <2>1 DEF WinFacts
<1>6. OneNftPerWin'
  BY <1>2, <1>3 DEF NftInv, OneNftPerWin
<1> QED
  BY <1>1, <1>4, <1>5, <1>6 DEF NftInv

-----------------------------------------------------------------------------
(* init_nft_collection(), and attestations *)

\* A key that pays leaves the balances of the program's addresses alone.
LEMMA PayerOnly ==
  ASSUME IInv, NEW k \in Keys, NEW amount \in Nat, lamports[k] >= amount,
         lamports' = Debit(lamports, k, amount),
         UNCHANGED <<standingVars, escrowed_amount, treasury_balance>>
  PROVE  /\ lamports' \in [Accounts -> Nat] /\ VaultSolvent'
         /\ lamports'[Incinerator] = lamports[Incinerator]
         /\ lamports'[BurnVault] = lamports[BurnVault]
<1>0. lamports \in [Accounts -> Nat]
  BY DEF IInv, TypeOK
<1>1. /\ lamports \in [Accounts -> Int]
      /\ k \in Accounts /\ {Vault, Incinerator, BurnVault} \subseteq Accounts \ {k}
  BY <1>0, KeysAssumption DEF Accounts
<1>2. /\ lamports' \in [Accounts -> Int] /\ lamports'[k] = lamports[k] - amount
      /\ \A a \in Accounts \ {k} : lamports'[a] = lamports[a]
  BY <1>1 DEF Debit
<1>3. lamports' \in [Accounts -> Nat]
  BY <1>0, <1>1, <1>2
<1>4. VaultSolvent'
  BY <1>1, <1>2 DEF IInv, VaultSolvent, standingVars
<1> QED
  BY <1>1, <1>2, <1>3, <1>4

LEMMA InitNftCollectionInv ==
  ASSUME NftInv, NEW s \in Keys, NEW k \in CollectionKeys, NEW m \in NameLengths,
         NEW u \in Uris, InitNftCollection(s, k, m, u)
  PROVE  NftInv'
<1>1. IInv /\ CollectionRent \in Nat
  BY DEF NftInv
<1>2. lamports' \in [Accounts -> Nat] /\ VaultSolvent'
  BY <1>1, PayerOnly DEF InitNftCollection, auctionVars
<1>3. UNCHANGED <<holderVars, standingVars, windowVars, escrowed_amount, refund, burn_address,
                  treasury_balance, now, assets, signed>>
  BY DEF InitNftCollection, auctionVars
<1>4. Dormant' /\ WinRecordsDense' /\ WinsAlternate' /\ EscrowIsTopBid' /\ TopBidClearsRaise'
  BY <1>1, <1>3, KeepWins, KeepWindow DEF standingVars
<1>5. TypeOK' /\ RefundsBacked'
  BY <1>1, <1>2, <1>3 DEF IInv, TypeOK, RefundsBacked, holderVars, standingVars, windowVars
<1>6. DOMAIN assets = {}
  <2>1. collection = NoKey
    BY DEF InitNftCollection, NoCollectionYet
  <2> QED
    BY <2>1 DEF NftInv, NftTypeOK
<1>7. NftTypeOK'
  <2>1. collection' = k
    BY DEF InitNftCollection
  <2> QED
    BY <1>3, <1>5, <1>6, <2>1 DEF NftInv, NftTypeOK
<1>8. NftsMatchWins' /\ OneNftPerWin' /\ OnlyAttestedHashes'
  BY <1>3, <1>6 DEF NftInv, NftsMatchWins, OneNftPerWin, OnlyAttestedHashes, holderVars
<1> QED
  BY <1>2, <1>4, <1>5, <1>7, <1>8 DEF NftInv, IInv

LEMMA SignMetadataInv ==
  ASSUME NftInv, NEW h \in Hashes, SignMetadata(h)
  PROVE  NftInv'
<1>1. UNCHANGED <<vars, collection, assets>> /\ signed' = signed \cup {h}
  BY DEF SignMetadata
<1>2. IInv'
  BY <1>1, NextIInv DEF NftInv
<1>3. NftsMatchWins' /\ OneNftPerWin'
  BY <1>1 DEF NftInv, NftsMatchWins, OneNftPerWin, WinFacts, vars, holderVars
<1>4. NftTypeOK' /\ OnlyAttestedHashes'
  BY <1>1, <1>2 DEF NftInv, IInv, NftTypeOK, OnlyAttestedHashes
<1> QED
  BY <1>2, <1>3, <1>4 DEF NftInv

-----------------------------------------------------------------------------
(* mint_win_nft() *)

\* What the parser accepts, the Ed25519 program has verified.
LEMMA AttestedIsSigned ==
  ASSUME NEW p \in Preceding, NEW h \in Hashes, Attested(p, h)
  PROVE  h \in signed
  BY DEF Preceding, Attested, WellFormed, Genuine, Instructions

\* Marking a record as minted changes nothing else of it, nor any other record.
LEMMA MarkFacts ==
  ASSUME NEW n \in DOMAIN win_record, win_record \in [DOMAIN win_record -> WinRecords],
         win_record' = RecordMarked(n)
  PROVE  /\ DOMAIN win_record' = DOMAIN win_record
         /\ win_record' \in [DOMAIN win_record' -> WinRecords]
         /\ win_record'[n].minted = TRUE
         /\ \A x \in DOMAIN win_record :
              /\ win_record'[x].winner = win_record[x].winner
              /\ win_record'[x].holder_count = win_record[x].holder_count
              /\ win_record'[x].price_paid = win_record[x].price_paid
              /\ win_record'[x].won_at = win_record[x].won_at
              /\ x # n => win_record'[x].minted = win_record[x].minted
<1> DEFINE marked == [win_record[n] EXCEPT !.minted = TRUE]
<1>1. win_record' = [win_record EXCEPT ![n] = marked]
  BY DEF RecordMarked
<1>2. /\ marked \in WinRecords /\ marked.minted = TRUE
      /\ marked.winner = win_record[n].winner
      /\ marked.holder_count = win_record[n].holder_count
      /\ marked.price_paid = win_record[n].price_paid
      /\ marked.won_at = win_record[n].won_at
  <2>1. win_record[n] \in WinRecords
    OBVIOUS
  <2> QED
    BY <2>1 DEF WinRecords
<1> HIDE DEF marked
<1> QED
  BY <1>1, <1>2

LEMMA MintWinNftInv ==
  ASSUME NftInv, NEW c \in Keys, NEW n \in DOMAIN win_record, NEW a \in AssetKeys,
         NEW u \in Uris, NEW p \in Preceding, NEW h \in Hashes,
         MintWinNft(c, n, a, u, p, h)
  PROVE  NftInv'
<1> DEFINE minted == [owner |-> c, collection |-> collection, uri |-> u, facts |-> WinFacts(n),
                      metadata_hash |-> h]
<1>1. /\ IInv /\ AssetRent \in Nat
      /\ win_record \in [DOMAIN win_record -> WinRecords]
      /\ win_record' = RecordMarked(n)
      /\ win_record[n].winner = c /\ ~win_record[n].minted
      /\ collection # NoKey /\ collection' = collection /\ signed' = signed
      /\ a \notin DOMAIN assets /\ assets' = Put(assets, a, minted)
  BY DEF NftInv, IInv, TypeOK, MintWinNft, MayMint
<1>2. /\ DOMAIN win_record' = DOMAIN win_record
      /\ win_record' \in [DOMAIN win_record' -> WinRecords]
      /\ win_record'[n].minted = TRUE
      /\ \A x \in DOMAIN win_record :
           /\ win_record'[x].winner = win_record[x].winner
           /\ win_record'[x].holder_count = win_record[x].holder_count
           /\ win_record'[x].price_paid = win_record[x].price_paid
           /\ win_record'[x].won_at = win_record[x].won_at
           /\ x # n => win_record'[x].minted = win_record[x].minted
  BY <1>1, MarkFacts
<1>3. \A x \in DOMAIN win_record : WinFacts(x)' = WinFacts(x)
  BY <1>2 DEF WinFacts
<1>4. UNCHANGED <<standingVars, windowVars, burn_address, escrowed_amount, treasury_balance,
                  refund, now, holder, holder_since, current_price, is_on,
                  total_challenges, holder_count>>
  BY DEF MintWinNft, auctionVars
<1>5. lamports' \in [Accounts -> Nat] /\ VaultSolvent'
  BY <1>1, <1>4, PayerOnly DEF MintWinNft
<1>6. EscrowIsTopBid' /\ TopBidClearsRaise' /\ Dormant' /\ RefundsBacked'
  BY <1>1, <1>4 DEF IInv, EscrowIsTopBid, TopBidClearsRaise, Dormant, RefundsBacked,
     standingVars, windowVars
<1>7. TypeOK'
  <2>1. DOMAIN win_record' \subseteq Nat
    BY <1>1, <1>2 DEF IInv, TypeOK
  <2> QED
    BY <1>1, <1>2, <1>4, <1>5, <2>1 DEF IInv, TypeOK, standingVars, windowVars
<1>8. WinRecordsDense' /\ WinsAlternate'
  <2>1. initialized => holder_count - 1 \in DOMAIN win_record
    <3>1. initialized => holder_count >= 1 /\ holder_count \in Nat
      BY <1>1 DEF IInv, TypeOK, WinRecordsDense
    <3>2. DOMAIN win_record = 0 .. (holder_count - 1)
      BY <1>1 DEF IInv, WinRecordsDense
    <3> QED
      BY <3>1, <3>2
  <2>2. WinRecordsDense'
    BY <1>1, <1>2, <1>4, <2>1 DEF IInv, WinRecordsDense, standingVars
  <2>3. \A x \in DOMAIN win_record : x > 0 => x - 1 \in DOMAIN win_record
    <3>1. holder_count \in Nat /\ DOMAIN win_record = 0 .. (holder_count - 1)
      BY <1>1 DEF IInv, TypeOK, WinRecordsDense
    <3> QED
      BY <3>1
  <2>4. WinsAlternate'
    BY <1>1, <1>2, <1>4, <2>1, <2>3 DEF IInv, WinsAlternate, standingVars
  <2> QED
    BY <2>2, <2>4
<1>9. /\ minted \in [owner : Keys, collection : {collection} \ {NoKey}, uri : Uris, facts : Facts,
                     metadata_hash : Hashes]
      /\ minted.facts = WinFacts(n) /\ minted.owner = c /\ minted.metadata_hash = h
  <2>1. win_record[n] \in WinRecords
    BY <1>1
  <2>2. WinFacts(n) \in Facts
    BY <2>1 DEF WinFacts, Facts, WinRecords
  <2> QED
    BY <1>1, <2>2
<1> HIDE DEF minted
<1>10. /\ DOMAIN assets' = DOMAIN assets \cup {a}
       /\ assets' \in [DOMAIN assets' -> [owner : Keys, collection : {collection} \ {NoKey},
                                          uri : Uris, facts : Facts, metadata_hash : Hashes]]
       /\ assets'[a] = minted
       /\ \A x \in DOMAIN assets : assets'[x] = assets[x]
  <2>1. assets \in [DOMAIN assets -> [owner : Keys, collection : {collection} \ {NoKey}, uri : Uris,
                                      facts : Facts, metadata_hash : Hashes]]
    BY DEF NftInv, NftTypeOK
  <2> QED
    BY <1>1, <1>9, <2>1 DEF Put
<1>11. NftTypeOK'
  BY <1>1, <1>7, <1>10 DEF NftInv, NftTypeOK
<1>12. NftsMatchWins'
  <2> SUFFICES ASSUME NEW x \in DOMAIN assets'
               PROVE  \E m \in DOMAIN win_record' :
                        /\ win_record'[m].minted
                        /\ assets'[x].facts = WinFacts(m)'
                        /\ assets'[x].owner = win_record'[m].winner
    BY DEF NftsMatchWins
  <2>1. CASE x = a
    BY <2>1, <1>1, <1>2, <1>3, <1>9, <1>10
  <2>2. CASE x # a
    <3>1. PICK m \in DOMAIN win_record : /\ win_record[m].minted
                                         /\ assets[x].facts = WinFacts(m)
                                         /\ assets[x].owner = win_record[m].winner
      BY <1>10, <2>2 DEF NftInv, NftsMatchWins
    <3> QED
      BY <1>2, <1>3, <1>10, <2>2, <3>1
  <2> QED
    BY <2>1, <2>2
<1>13. OneNftPerWin'
  <2>1. \A x \in DOMAIN assets : assets[x].facts.holder_count # win_record[n].holder_count
    <3> SUFFICES ASSUME NEW x \in DOMAIN assets,
                        assets[x].facts.holder_count = win_record[n].holder_count
                 PROVE  FALSE
      OBVIOUS
    <3>1. PICK m \in DOMAIN win_record : win_record[m].minted /\ assets[x].facts = WinFacts(m)
      BY DEF NftInv, NftsMatchWins
    <3>2. win_record[m].holder_count = win_record[n].holder_count
      BY <3>1 DEF WinFacts
    <3> QED
      BY <1>1, <3>1, <3>2, OrdinalsDiffer
  <2>2. assets'[a].facts.holder_count = win_record[n].holder_count
    BY <1>9, <1>10 DEF WinFacts
  <2>3. \A x, y \in DOMAIN assets' :
          assets'[x].facts.holder_count = assets'[y].facts.holder_count => x = y
    BY <1>10, <2>1, <2>2 DEF NftInv, OneNftPerWin
  <2>4. ASSUME NEW m \in DOMAIN win_record', win_record'[m].minted
        PROVE  \E x \in DOMAIN assets' :
                 assets'[x].facts.holder_count = win_record'[m].holder_count
    <3>1. CASE m = n
      BY <3>1, <1>2, <1>10, <2>2
    <3>2. CASE m # n
      <4>1. m \in DOMAIN win_record /\ win_record[m].minted
        BY <1>2, <2>4, <3>2
      <4>2. PICK x \in DOMAIN assets : assets[x].facts.holder_count = win_record[m].holder_count
        BY <4>1 DEF NftInv, OneNftPerWin
      <4> QED
        BY <1>2, <1>10, <4>1, <4>2
    <3> QED
      BY <3>1, <3>2
  <2> QED
    BY <2>3, <2>4 DEF OneNftPerWin
<1>14. OnlyAttestedHashes'
  <2>1. h \in signed
    BY AttestedIsSigned DEF MintWinNft
  <2> QED
    BY <1>1, <1>9, <1>10, <2>1 DEF NftInv, OnlyAttestedHashes
<1> QED
  BY <1>5, <1>6, <1>7, <1>8, <1>11, <1>12, <1>13, <1>14 DEF NftInv, IInv

-----------------------------------------------------------------------------
(* The theorems *)

LEMMA NftNextInv == NftInv /\ [NftNext]_<<vars, nftVars>> => NftInv'
<1> SUFFICES ASSUME NftInv, [NftNext]_<<vars, nftVars>> PROVE NftInv'
  OBVIOUS
<1>1. CASE UNCHANGED <<vars, nftVars>>
  <2>1. IInv'
    BY <1>1, NextIInv DEF NftInv
  <2> QED
    BY <1>1, <2>1 DEF NftInv, IInv, NftTypeOK, NftsMatchWins, OneNftPerWin,
       OnlyAttestedHashes, WinFacts, vars, holderVars, nftVars
<1>2. CASE (Instruction \/ (\E t \in Instants : Tick(t)) \/ Stray) /\ UNCHANGED nftVars
  BY <1>2, AuctionNftInv DEF Next
<1>3. CASE \E s \in Keys, k \in CollectionKeys, m \in NameLengths, u \in Uris :
             InitNftCollection(s, k, m, u)
  BY <1>3, InitNftCollectionInv
<1>4. CASE \E h \in Hashes : SignMetadata(h)
  BY <1>4, SignMetadataInv
<1>5. CASE \E c \in Keys : \E n \in {m \in DOMAIN win_record : MayMint(c, m)} : SomeMint(c, n)
  <2>1. PICK c \in Keys, n \in DOMAIN win_record : SomeMint(c, n)
    BY <1>5
  <2>2. PICK h \in Hashes, p \in Preceding, a \in AssetKeys, u \in Uris :
          MintWinNft(c, n, a, u, p, h)
    BY <2>1 DEF SomeMint
  <2> QED
    BY <2>2, MintWinNftInv
<1> QED
  BY <1>1, <1>2, <1>3, <1>4, <1>5 DEF NftNext

\* The inductive invariant holds in every reachable state.
THEOREM NftInvariance == NftSpec => []NftInv
<1> QED
  BY NftInitInv, NftNextInv, PTL DEF NftSpec

\* The auction and the NFTs keep their types beside each other.
THEOREM NftTypeCorrect == NftSpec => []NftTypeOK
<1>1. NftInv => NftTypeOK
  BY DEF NftInv
<1> QED
  BY <1>1, NftInvariance, PTL

\* Every NFT tells the facts of a win on record, and belongs to its winner.
THEOREM NftsTellRecordedWins == NftSpec => []NftsMatchWins
<1>1. NftInv => NftsMatchWins
  BY DEF NftInv
<1> QED
  BY <1>1, NftInvariance, PTL

\* A win is minted at most once, and its record says so exactly when it was.
THEOREM EachWinMintsOnce == NftSpec => []OneNftPerWin
<1>1. NftInv => OneNftPerWin
  BY DEF NftInv
<1> QED
  BY <1>1, NftInvariance, PTL

\* No NFT carries a hash the metadata signer never attested, whatever instruction
\* a client puts before the mint (verify_metadata_signature).  It speaks of the
\* hash alone: the uri beside it is the client's and is bound to nothing.
THEOREM HashesAreAttested == NftSpec => []OnlyAttestedHashes
<1>1. NftInv => OnlyAttestedHashes
  BY DEF NftInv
<1> QED
  BY <1>1, NftInvariance, PTL

\* No step erases or rewrites a recorded win, or makes a minted one mintable.
THEOREM WinsStay == NftSpec => WinsAreForever
<1> DEFINE Stay == \A n \in DOMAIN win_record :
                     /\ n \in DOMAIN win_record'
                     /\ WinFacts(n)' = WinFacts(n)
                     /\ win_record[n].minted => win_record'[n].minted
<1>1. NftInv /\ [NftNext]_<<vars, nftVars>> => [Stay]_<<vars, nftVars>>
  <2> SUFFICES ASSUME NftInv, NftNext PROVE Stay
    OBVIOUS
  <2>1. ASSUME Next PROVE Stay
    BY <2>1, AuctionKeepsRecords DEF NftInv, WinFacts
  <2>2. ASSUME UNCHANGED win_record PROVE Stay
    BY <2>2 DEF WinFacts
  <2>3. ASSUME NEW c \in Keys, NEW n \in DOMAIN win_record, SomeMint(c, n) PROVE Stay
    <3>1. win_record' = RecordMarked(n)
      BY <2>3 DEF SomeMint, MintWinNft
    <3> QED
      BY <3>1, MarkFacts DEF NftInv, IInv, TypeOK, WinFacts
  <2> QED
    BY <2>1, <2>2, <2>3 DEF NftNext, Next, InitNftCollection, SignMetadata, vars, holderVars
<1> QED
  BY <1>1, NftInvariance, PTL DEF NftSpec, WinsAreForever

-----------------------------------------------------------------------------
(* The auction beside the NFTs *)

\* A step that only collects, attests or mints leaves the auction's course alone.
LEMMA NftStepsAside ==
  ASSUME NftInv, [NftNext]_<<vars, nftVars>>, ~[Next]_vars
  PROVE  /\ UNCHANGED <<standingVars, windowVars, burn_address, escrowed_amount, treasury_balance,
                        refund, now, holder, holder_since, current_price, holder_count,
                        total_challenges>>
         /\ lamports'[Incinerator] = lamports[Incinerator]
         /\ lamports'[BurnVault] = lamports[BurnVault]
         /\ DOMAIN win_record' = DOMAIN win_record
         /\ \A n \in DOMAIN win_record : win_record'[n].won_at = win_record[n].won_at
<1>1. IInv /\ CollectionRent \in Nat /\ AssetRent \in Nat
  BY DEF NftInv
<1>2. CASE \E s \in Keys, k \in CollectionKeys, m \in NameLengths, u \in Uris :
             InitNftCollection(s, k, m, u)
  <2>1. PICK s \in Keys, k \in CollectionKeys, m \in NameLengths, u \in Uris :
          InitNftCollection(s, k, m, u)
    BY <1>2
  <2>2. UNCHANGED <<auctionVars, holderVars>>
    BY <2>1 DEF InitNftCollection
  <2>3. /\ lamports'[Incinerator] = lamports[Incinerator]
        /\ lamports'[BurnVault] = lamports[BurnVault]
    BY <1>1, <2>1, <2>2, PayerOnly DEF InitNftCollection, auctionVars
  <2> QED
    BY <2>2, <2>3 DEF auctionVars, holderVars
<1>3. CASE \E c \in Keys : \E n \in {m \in DOMAIN win_record : MayMint(c, m)} : SomeMint(c, n)
  <2>1. PICK c \in Keys, n \in DOMAIN win_record, h \in Hashes, p \in Preceding,
             a \in AssetKeys, u \in Uris : MintWinNft(c, n, a, u, p, h)
    BY <1>3 DEF SomeMint
  <2>2. /\ UNCHANGED <<auctionVars, holder, holder_since, current_price, holder_count,
                        total_challenges>>
        /\ win_record' = RecordMarked(n)
    BY <2>1 DEF MintWinNft
  <2>3. /\ lamports'[Incinerator] = lamports[Incinerator]
        /\ lamports'[BurnVault] = lamports[BurnVault]
    BY <1>1, <2>1, <2>2, PayerOnly DEF MintWinNft, auctionVars
  <2>4. /\ DOMAIN win_record' = DOMAIN win_record
        /\ \A x \in DOMAIN win_record : win_record'[x].won_at = win_record[x].won_at
    <3>1. win_record \in [DOMAIN win_record -> WinRecords]
      BY <1>1 DEF IInv, TypeOK
    <3> QED
      BY <2>2, <3>1, MarkFacts
  <2> QED
    BY <2>2, <2>3, <2>4 DEF auctionVars
<1>4. ~ \E h \in Hashes : SignMetadata(h)
  BY DEF SignMetadata
<1>5. ~ UNCHANGED <<vars, nftVars>>
  BY DEF vars
<1> QED
  BY <1>2, <1>3, <1>4, <1>5, Zenon DEF NftNext, Next

\* What the auction promises of its vault, its refunds, its wins and the burn's
\* share holds while wins are minted.  A bid and a claim wait for nobody still, and
\* a settlement for nothing but the address of its record: no mint makes it wait.
THEOREM MintsLeaveTheAuctionSound ==
  NftSpec => [](/\ VaultSolvent /\ EscrowIsTopBid /\ RefundsBacked /\ WinRecordsDense
                /\ WinsAlternate /\ TopBidClearsRaise /\ BurnKeepsItsShare
                /\ SettleWaitsForItsRecord /\ BidsWaitForNobody /\ ClaimsWaitForNobody)
<1>1. NftInit => BurnKeepsItsShare
  BY DEF NftInit, Init, BurnKeepsItsShare, Accounts
<1>2. NftInv /\ BurnKeepsItsShare /\ [NftNext]_<<vars, nftVars>> => BurnKeepsItsShare'
  <2> SUFFICES ASSUME NftInv, BurnKeepsItsShare, [NftNext]_<<vars, nftVars>>
               PROVE  BurnKeepsItsShare'
    OBVIOUS
  <2>1. CASE [Next]_vars
    BY <2>1, NextShare DEF NftInv
  <2>2. CASE ~[Next]_vars
    BY <2>2, NftStepsAside DEF BurnKeepsItsShare
  <2> QED
    BY <2>1, <2>2
<1>3. NftInv => /\ VaultSolvent /\ EscrowIsTopBid /\ RefundsBacked /\ WinRecordsDense
                /\ WinsAlternate /\ TopBidClearsRaise
                /\ SettleWaitsForItsRecord /\ BidsWaitForNobody /\ ClaimsWaitForNobody
  BY WhatIsWaitedFor DEF NftInv, IInv
<1> QED
  BY <1>1, <1>2, <1>3, NftInvariance, PTL DEF NftSpec

\* Minting moves neither the price nor a deadline.
THEOREM MintsMoveNoPriceNorDeadline ==
  NftSpec => PriceRisesByMinRaise /\ DeadlineNeverMovesBack /\ EveryBidIsAnswerable
<1>1. NftInv /\ [NftNext]_<<vars, nftVars>>
        => [RaiseStep]_vars /\ [DeadlineStep]_vars /\ [AnswerStep]_vars
  <2> SUFFICES ASSUME NftInv, [NftNext]_<<vars, nftVars>>
               PROVE  [RaiseStep]_vars /\ [DeadlineStep]_vars /\ [AnswerStep]_vars
    OBVIOUS
  <2>1. CASE [Next]_vars
    BY <2>1, AuctionSteps DEF NftInv
  <2>2. CASE ~[Next]_vars
    <3>1. UNCHANGED <<current_price, window_active, window_end_ts, top_bid_amount>>
      BY <2>2, NftStepsAside DEF windowVars
    <3> QED
      BY <3>1, QuietSteps DEF NftInv
  <2> QED
    BY <2>1, <2>2
<1> QED
  BY <1>1, NftInvariance, PTL
  DEF NftSpec, PriceRisesByMinRaise, DeadlineNeverMovesBack, EveryBidIsAnswerable,
      RaiseStep, DeadlineStep, AnswerStep

\* On a clock that never steps back a holder keeps a full window, mints or not.
THEOREM MintsLeaveTheHolderHisWindow ==
  ASSUME MaxSkew = 0
  PROVE  NftSpec => []HolderKeepsAFullWindow
<1>1. NftInit => ClockInv
  BY DEF NftInit, Init, ClockInv, HolderKeepsAFullWindow
<1>2. NftInv /\ ClockInv /\ [NftNext]_<<vars, nftVars>> => ClockInv'
  <2> SUFFICES ASSUME NftInv, ClockInv, [NftNext]_<<vars, nftVars>> PROVE ClockInv'
    OBVIOUS
  <2>1. CASE [Next]_vars
    BY <2>1, NextClockInv DEF NftInv
  <2>2. CASE ~[Next]_vars
    <3>1. /\ UNCHANGED <<initialized, window_active, window_end_ts, holder_since, now>>
          /\ DOMAIN win_record' = DOMAIN win_record
          /\ \A n \in DOMAIN win_record : win_record'[n].won_at = win_record[n].won_at
      BY <2>2, NftStepsAside DEF standingVars, windowVars
    <3>2. \A n \in DOMAIN win_record : n > 0 => n - 1 \in DOMAIN win_record
      <4>1. holder_count \in Nat /\ DOMAIN win_record = 0 .. (holder_count - 1)
        BY DEF NftInv, IInv, TypeOK, WinRecordsDense
      <4> QED
        BY <4>1
    <3> QED
      BY <3>1, <3>2 DEF ClockInv, HolderKeepsAFullWindow
  <2> QED
    BY <2>1, <2>2
<1>3. ClockInv => HolderKeepsAFullWindow
  BY DEF ClockInv
<1> QED
  BY <1>1, <1>2, <1>3, NftInvariance, PTL DEF NftSpec

-----------------------------------------------------------------------------
(* What stands in a mint's way *)

\* What mint_win_nft asks of the state and its transaction, and what it makes of
\* the state.
MintReady(caller, n, asset, uri, preceding, content_hash) ==
  /\ collection # NoKey
  /\ n \in DOMAIN win_record
  /\ MayMint(caller, n)
  /\ Bounded(UriLength[uri], MAX_NFT_URI_LEN)
  /\ Attested(preceding, content_hash)
  /\ asset \notin DOMAIN assets
  /\ lamports[caller] >= AssetRent

MintMakes(caller, n, asset, uri, content_hash) ==
  /\ lamports' = Debit(lamports, caller, AssetRent)
  /\ assets' = Put(assets, asset, [owner |-> caller, collection |-> collection, uri |-> uri,
                                   facts |-> WinFacts(n), metadata_hash |-> content_hash])
  /\ win_record' = RecordMarked(n)
  /\ UNCHANGED <<collection, signed, auctionVars, holder, holder_since, current_price, is_on,
                 total_challenges, holder_count>>

LEMMA MintSplits ==
  ASSUME NEW c, NEW n, NEW a, NEW u, NEW p, NEW h
  PROVE  MintWinNft(c, n, a, u, p, h)
           <=> MintReady(c, n, a, u, p, h) /\ MintMakes(c, n, a, u, h)
  BY Zenon DEF MintWinNft, MintReady, MintMakes

\* The winner of any win not minted yet can mint it into any fresh asset with any
\* metadata attested so far, if its URI has a length the program takes and he can
\* pay for the asset: whoever holds the toggle and whatever was minted since.
WinWaitsForNobody ==
  \A n \in DOMAIN win_record, a \in AssetKeys \ DOMAIN assets, h \in signed, u \in Uris :
    /\ collection # NoKey /\ ~win_record[n].minted
    /\ lamports[win_record[n].winner] >= AssetRent
    /\ Bounded(UriLength[u], MAX_NFT_URI_LEN)
    => /\ win_record[n].winner \in Keys /\ h \in Hashes
       /\ \E p \in Preceding : MintReady(win_record[n].winner, n, a, u, p, h)

\* No history, of the auction or of other mints, makes a guard of mint_win_nft fail
\* on a recorded win that was not minted yet (WinStaysMintable).
THEOREM WinIsNeverBlocked == NftSpec => []WinWaitsForNobody
<1>1. NftInv => WinWaitsForNobody
  <2> SUFFICES ASSUME NftInv, NEW n \in DOMAIN win_record, NEW a \in AssetKeys \ DOMAIN assets,
                      NEW h \in signed, NEW u \in Uris,
                      collection # NoKey, ~win_record[n].minted,
                      lamports[win_record[n].winner] >= AssetRent,
                      Bounded(UriLength[u], MAX_NFT_URI_LEN)
               PROVE  /\ win_record[n].winner \in Keys /\ h \in Hashes
                      /\ \E p \in Preceding : MintReady(win_record[n].winner, n, a, u, p, h)
    BY DEF WinWaitsForNobody
  <2> DEFINE ix == [program |-> Ed25519Program, num_signatures |-> 1,
                    signature_instruction_index |-> SAME_INSTRUCTION,
                    public_key_instruction_index |-> SAME_INSTRUCTION,
                    message_instruction_index |-> SAME_INSTRUCTION, within_data |-> TRUE,
                    signer |-> METADATA_SIGNER, message |-> h]
  <2>1. h \in Hashes /\ win_record[n].winner \in Keys
    BY DEF NftInv, NftTypeOK, IInv, TypeOK, WinRecords
  <2>2. ix \in Instructions /\ ix \in Preceding
    BY <2>1 DEF Preceding, Instructions, Indexes, Genuine
  <2>3. Attested(ix, h)
    <3>1. /\ ix.program = Ed25519Program /\ WellFormed(ix)
          /\ ix.signer = METADATA_SIGNER /\ ix.message = h
      BY DEF WellFormed
    <3> HIDE DEF ix
    <3>2. ix # NoInstruction
      BY <2>2, NoInstructionAssumption
    <3> QED
      BY <3>1, <3>2 DEF Attested
  <2>4. MintReady(win_record[n].winner, n, a, u, ix, h)
    BY <2>3 DEF MintReady, MayMint
  <2> QED
    BY <2>1, <2>2, <2>4
<1> QED
  BY <1>1, NftInvariance, PTL

-----------------------------------------------------------------------------
(* The refinement: every step extends the chain, certifies, or is a stutter *)

certificateSet == {CertificateOf(a) : a \in DOMAIN assets}

\* A step that keeps the facts of every record and all the assets is a stutter,
\* as far as the price is kept too.
LEMMA QuietChain ==
  ASSUME UNCHANGED <<holder_count, current_price, assets>>,
         DOMAIN win_record' = DOMAIN win_record,
         \A n \in DOMAIN win_record :
           /\ win_record'[n].winner = win_record[n].winner
           /\ win_record'[n].price_paid = win_record[n].price_paid
  PROVE  UNCHANGED Chain!chainVars
<1>1. Awarded' = Awarded
  BY DEF Awarded
<1>2. certificateSet' = certificateSet
  BY DEF certificateSet, CertificateOf
<1> QED
  BY <1>1, <1>2 DEF Chain!chainVars, certificateSet

\* A record put at the next ordinal is an award at the end of the chain.
LEMMA AwardedGrows ==
  ASSUME holder_count \in Nat, DOMAIN win_record = 0 .. (holder_count - 1),
         NEW r, win_record' = Put(win_record, holder_count, r)
  PROVE  Awarded' = Chain!Extended([winner |-> r.winner, price |-> r.price_paid])
<1> DEFINE n == holder_count
           award == [winner |-> r.winner, price |-> r.price_paid]
<1>1. /\ DOMAIN win_record' = 0 .. n
      /\ win_record'[n] = r
      /\ \A x \in 0 .. (n - 1) : win_record'[x] = win_record[x]
  BY DEF Put
<1>2. Awarded' = [x \in 0 .. n |-> [winner |-> win_record'[x].winner,
                                     price  |-> win_record'[x].price_paid]]
  BY <1>1 DEF Awarded
<1>3. ASSUME NEW x \in 0 .. n
      PROVE  [winner |-> win_record'[x].winner, price |-> win_record'[x].price_paid]
               = IF x = n THEN award ELSE Awarded[x]
  <2>1. CASE x = n
    BY <1>1, <2>1
  <2>2. CASE x # n
    <3>1. x \in 0 .. (n - 1)
      BY <2>2
    <3> QED
      BY <1>1, <2>2, <3>1 DEF Awarded
  <2> QED
    BY <2>1, <2>2
<1> QED
  BY <1>2, <1>3 DEF Chain!Extended

LEMMA FoundMaps ==
  ASSUME NftInv, UNCHANGED nftVars, NEW p \in Keys, NEW t \in Treasuries, NEW a \in Admins,
         NEW g \in GenesisPrices, Initialize(p, t, a, g)
  PROVE  Chain!Next
<1> DEFINE r == WinRecord(t, 1, 0, now)
<1>1. /\ holder_count = 0 /\ DOMAIN win_record = 0 .. (holder_count - 1)
  BY DEF NftInv, IInv, Dormant, WinRecordsDense, Initialize
<1>2. win_record' = Put(win_record, holder_count, r)
  BY <1>1 DEF Initialize
<1>3. r.winner = t /\ r.price_paid = 0
  BY DEF WinRecord
<1> HIDE DEF r
<1>4. Awarded' = Chain!Extended([winner |-> t, price |-> 0])
  BY <1>1, <1>2, <1>3, AwardedGrows
<1>5. holder_count' = 1 /\ current_price' \in Nat \ {0} /\ t \in Keys
  BY DEF Initialize, AmountsAssumption, KeysAssumption
<1>6. certificateSet' = certificateSet
  BY DEF nftVars, certificateSet, CertificateOf
<1>7. Chain!Found(t)
  BY <1>1, <1>4, <1>5, <1>6 DEF Chain!Found, certificateSet
<1> QED
  BY <1>5, <1>7 DEF Chain!Next

LEMMA AwardMaps ==
  ASSUME NftInv, UNCHANGED nftVars, NEW c \in Keys, NEW d \in Accounts, Settle(c, d)
  PROVE  Chain!Next
<1>1. /\ initialized /\ window_active /\ top_bidder # NoKey
      /\ holder_count \in Nat /\ holder_count >= 1
      /\ DOMAIN win_record = 0 .. (holder_count - 1)
      /\ win_record[holder_count - 1].winner = holder
      /\ top_bidder \in Keys /\ top_bid_amount \in Nat
      /\ 100 * top_bid_amount >= 105 * current_price
  BY DEF NftInv, IInv, TypeOK, WinRecordsDense, EscrowIsTopBid, TopBidClearsRaise, Settle,
     WindowElapsed
<1>2. current_price' = top_bid_amount /\ certificateSet' = certificateSet
  BY DEF Settle, nftVars, certificateSet, CertificateOf
<1>3. Chain!Raised
  BY <1>1, <1>2 DEF Chain!Raised
<1>4. CASE flipped
  <2> DEFINE r == WinRecord(top_bidder, holder_count + 1, top_bid_amount, now)
  <2>1. holder_count' = holder_count + 1 /\ win_record' = Put(win_record, holder_count, r)
    BY <1>4, Zenon DEF Settle, FlipHolder, RecordWin
  <2>2. r.winner = top_bidder /\ r.price_paid = top_bid_amount
    BY DEF WinRecord
  <2> HIDE DEF r
  <2>3. Awarded' = Chain!Extended([winner |-> top_bidder, price |-> top_bid_amount])
    BY <1>1, <2>1, <2>2, AwardedGrows
  <2>4. top_bidder # Awarded[holder_count - 1].winner
    <3>1. holder_count - 1 \in DOMAIN win_record
      BY <1>1
    <3> QED
      BY <1>1, <1>4, <3>1 DEF Awarded, flipped
  <2>5. holder_count > 0 /\ current_price' = top_bid_amount
    BY <1>1, <1>2
  <2>6. UNCHANGED {CertificateOf(a) : a \in DOMAIN assets}
    BY <1>2 DEF certificateSet
  <2>7. Awarded' = Chain!Extended([winner |-> top_bidder, price |-> current_price'])
    BY <2>3, <2>5
  <2>8. Chain!Award(top_bidder)
    BY <1>3, <2>1, <2>4, <2>5, <2>6, <2>7, Zenon DEF Chain!Award
  <2> QED
    BY <1>1, <2>8 DEF Chain!Next
<1>5. CASE ~flipped
  <2>1. UNCHANGED <<holder_count, win_record>>
    BY <1>5, Zenon DEF Settle, FlipHolder, RecordWin
  <2>2. Awarded' = Awarded
    BY <2>1 DEF Awarded
  <2>3. holder_count > 0
    BY <1>1
  <2>4. UNCHANGED {CertificateOf(a) : a \in DOMAIN assets}
    BY <1>2 DEF certificateSet
  <2>5. Chain!Defend
    BY <1>3, <2>1, <2>2, <2>3, <2>4, Zenon DEF Chain!Defend
  <2> QED
    BY <2>5 DEF Chain!Next
<1> QED
  BY <1>4, <1>5

LEMMA CertifyMaps ==
  ASSUME NftInv, NEW c \in Keys, NEW n \in DOMAIN win_record, NEW a \in AssetKeys,
         NEW u \in Uris, NEW p \in Preceding, NEW h \in Hashes,
         MintWinNft(c, n, a, u, p, h)
  PROVE  Chain!Next
<1> DEFINE minted == [owner |-> c, collection |-> collection, uri |-> u, facts |-> WinFacts(n),
                      metadata_hash |-> h]
           certificate == [id |-> a, nth |-> n, owner |-> Awarded[n].winner,
                           price |-> Awarded[n].price]
<1>1. /\ IInv /\ win_record \in [DOMAIN win_record -> WinRecords]
      /\ win_record' = RecordMarked(n)
      /\ win_record[n].winner = c /\ ~win_record[n].minted
      /\ a \notin DOMAIN assets /\ assets' = Put(assets, a, minted)
      /\ UNCHANGED <<holder_count, current_price>>
  BY DEF NftInv, IInv, TypeOK, MintWinNft, MayMint
<1>2. /\ holder_count \in Nat /\ DOMAIN win_record = 0 .. (holder_count - 1) /\ n \in Int
      /\ win_record[n].holder_count = n + 1
  BY <1>1 DEF IInv, TypeOK, WinRecordsDense
<1>3. Awarded' = Awarded
  <2>1. /\ DOMAIN win_record' = DOMAIN win_record
        /\ \A x \in DOMAIN win_record :
             /\ win_record'[x].winner = win_record[x].winner
             /\ win_record'[x].price_paid = win_record[x].price_paid
    BY <1>1, MarkFacts
  <2> QED
    BY <2>1 DEF Awarded
<1>4. /\ minted.owner = c /\ minted.facts.holder_count = n + 1
      /\ minted.facts.price_paid = win_record[n].price_paid
  BY <1>2 DEF WinFacts
<1> HIDE DEF minted
<1>5. /\ DOMAIN assets' = DOMAIN assets \cup {a}
      /\ assets'[a] = minted
      /\ \A x \in DOMAIN assets : assets'[x] = assets[x]
  BY <1>1 DEF Put
<1>6. CertificateOf(a)' = certificate
  <2>1. minted.facts.holder_count - 1 = n
    BY <1>2, <1>4
  <2> QED
    BY <1>1, <1>4, <1>5, <2>1 DEF CertificateOf, Awarded
<1>7. \A x \in DOMAIN assets : CertificateOf(x)' = CertificateOf(x)
  BY <1>5 DEF CertificateOf
<1>8. certificateSet' = certificateSet \cup {certificate}
  <2>1. certificateSet' = {CertificateOf(x)' : x \in DOMAIN assets \cup {a}}
    BY <1>5 DEF certificateSet
  <2> QED
    BY <1>6, <1>7, <2>1 DEF certificateSet
<1>9. \A x \in certificateSet : x.nth # n /\ x.id # a
  <2> SUFFICES ASSUME NEW x \in DOMAIN assets
               PROVE  CertificateOf(x).nth # n /\ CertificateOf(x).id # a
    BY DEF certificateSet
  <2>1. CertificateOf(x).id = x /\ CertificateOf(x).nth = assets[x].facts.holder_count - 1
    BY DEF CertificateOf
  <2>2. PICK m \in DOMAIN win_record : win_record[m].minted /\ assets[x].facts = WinFacts(m)
    BY DEF NftInv, NftsMatchWins
  <2>3. win_record[m].holder_count = m + 1 /\ m \in Int
    BY <1>1, <1>2, <2>2 DEF IInv, WinRecordsDense
  <2>4. assets[x].facts.holder_count = m + 1
    BY <2>2, <2>3 DEF WinFacts
  <2>5. m # n
    BY <1>1, <2>2
  <2>6. CertificateOf(x).nth = m /\ CertificateOf(x).id # a
    BY <1>1, <2>1, <2>3, <2>4
  <2> QED
    BY <2>5, <2>6
<1>10. Chain!Certify(n, a)
  BY <1>1, <1>3, <1>8, <1>9 DEF Chain!Certify, certificateSet
<1> QED
  BY <1>2, <1>10 DEF Chain!Next

LEMMA ChainStepMaps ==
  NftInv /\ [NftNext]_<<vars, nftVars>> => [Chain!Next]_Chain!chainVars
<1> SUFFICES ASSUME NftInv, [NftNext]_<<vars, nftVars>>
             PROVE  Chain!Next \/ UNCHANGED Chain!chainVars
  OBVIOUS
<1>1. ASSUME UNCHANGED <<holderVars, assets>> PROVE UNCHANGED Chain!chainVars
  BY <1>1, QuietChain DEF holderVars
<1>2. CASE UNCHANGED <<vars, nftVars>>
  BY <1>1, <1>2 DEF vars, nftVars
<1>3. CASE Next /\ UNCHANGED nftVars
  <2>1. ASSUME NEW p \in Keys, NEW t \in Treasuries, NEW a \in Admins, NEW g \in GenesisPrices,
               Initialize(p, t, a, g)
        PROVE  Chain!Next
    BY <1>3, <2>1, FoundMaps
  <2>2. ASSUME NEW c \in Keys, NEW d \in Accounts, Settle(c, d)
        PROVE  Chain!Next
    BY <1>3, <2>2, AwardMaps
  <2>3. ASSUME \/ \E c \in Bidders, b \in BidAmounts, r \in Keys \cup {NoKey, Omitted} :
                    Challenge(c, b, r)
               \/ \E c, k, p \in Keys : ClaimRefund(c, k, p)
               \/ \E s, d \in Keys : WithdrawTreasury(s, d)
               \/ \E t \in Instants : Tick(t)
               \/ Stray
        PROVE  UNCHANGED Chain!chainVars
    <3>1. UNCHANGED holderVars
      BY <2>3 DEF Challenge, ClaimRefund, WithdrawTreasury, Tick, Stray, SendLamports
    <3> QED
      BY <1>1, <1>3, <3>1 DEF nftVars
  <2> QED
    BY <1>3, <2>1, <2>2, <2>3, Zenon DEF Next, Instruction
<1>4. CASE \E s \in Keys, k \in CollectionKeys, m \in NameLengths, u \in Uris :
             InitNftCollection(s, k, m, u)
  BY <1>1, <1>4 DEF InitNftCollection
<1>5. CASE \E h \in Hashes : SignMetadata(h)
  BY <1>1, <1>5 DEF SignMetadata, vars
<1>6. CASE \E c \in Keys : \E n \in {m \in DOMAIN win_record : MayMint(c, m)} : SomeMint(c, n)
  <2>1. PICK c \in Keys, n \in DOMAIN win_record, h \in Hashes, p \in Preceding,
             a \in AssetKeys, u \in Uris : MintWinNft(c, n, a, u, p, h)
    BY <1>6 DEF SomeMint
  <2> QED
    BY <2>1, CertifyMaps
<1> QED
  BY <1>2, <1>3, <1>4, <1>5, <1>6, Zenon DEF NftNext, Next

\* Whatever the keys, amounts, mints and attestations, history only grows: an
\* award at its end, a raise in a defence, or one certificate for one award.
THEOREM AuctionImplementsChain == NftSpec => ImplementsChain
<1>1. NftInit => Chain!Init
  <2> SUFFICES ASSUME NftInit PROVE Chain!Init
    OBVIOUS
  <2>1. DOMAIN win_record = {} /\ DOMAIN assets = {} /\ holder_count = 0 /\ current_price = 0
    BY DEF NftInit, Init
  <2>2. Awarded = [n \in {} |-> 0]
    BY <2>1 DEF Awarded
  <2>3. certificateSet = {}
    BY <2>1 DEF certificateSet
  <2> QED
    BY <2>1, <2>2, <2>3 DEF Chain!Init, certificateSet
<1> QED
  BY <1>1, ChainStepMaps, NftInvariance, PTL DEF NftSpec, ImplementsChain, Chain!Spec

-----------------------------------------------------------------------------
(* Every lamport, the collection's and the assets' included *)

\* There are no more NFTs than wins.
LEMMA NoMoreNftsThanWins ==
  ASSUME NftInv
  PROVE  IsFiniteSet(DOMAIN assets) /\ Cardinality(DOMAIN assets) <= holder_count
<1> DEFINE Wins == 0 .. (holder_count - 1)
           nth == [a \in DOMAIN assets |-> assets[a].facts.holder_count - 1]
<1>1. /\ holder_count \in Nat /\ DOMAIN win_record = Wins
      /\ \A n \in Wins : win_record[n].holder_count = n + 1
  BY DEF NftInv, IInv, TypeOK, WinRecordsDense
<1>2. \A a \in DOMAIN assets : assets[a].facts.holder_count \in Nat
  BY DEF NftInv, NftTypeOK, Facts
<1>3. \A a \in DOMAIN assets : nth[a] \in Wins
  <2> SUFFICES ASSUME NEW a \in DOMAIN assets PROVE assets[a].facts.holder_count - 1 \in Wins
    OBVIOUS
  <2>1. PICK n \in DOMAIN win_record : assets[a].facts = WinFacts(n)
    BY DEF NftInv, NftsMatchWins
  <2>2. assets[a].facts.holder_count = n + 1
    BY <1>1, <2>1 DEF WinFacts
  <2> QED
    BY <1>1, <2>2
<1>4. \A a, b \in DOMAIN assets : nth[a] = nth[b] => a = b
  BY <1>2 DEF NftInv, OneNftPerWin
<1>5. nth \in Injection(DOMAIN assets, Wins)
  BY <1>3, <1>4 DEF Injection, IsInjective
<1>6. IsFiniteSet(Wins) /\ Cardinality(Wins) = holder_count
  BY <1>1, FS_Interval
<1> HIDE DEF Wins, nth
<1>7. IsFiniteSet(DOMAIN assets) /\ Cardinality(DOMAIN assets) <= Cardinality(Wins)
  BY <1>5, <1>6, FS_Injection
<1> QED
  BY <1>6, <1>7

\* What the admin and the minters have paid for accounts of mpl-core.
CorePaid ==
  (IF collection # NoKey THEN CollectionRent ELSE 0) + AssetRent * Cardinality(DOMAIN assets)

\* What is in the auction, or was paid for the collection or an NFT.
MintLamportsConserved == InTheAuction + CorePaid = Supply

\* The inductive invariant.
NftSupplyInv ==
  NftInv /\ MintLamportsConserved /\ CountersBelowPrice /\ IsFiniteSet(prefunded)

LEMMA NftFiniteness ==
  ASSUME NftInv, IsFiniteSet(Keys), IsFiniteSet(prefunded)
  PROVE  /\ IsFiniteSet(Accounts) /\ lamports \in [Accounts -> Nat]
         /\ TotalOf(lamports) \in Nat /\ TotalOf(SlotLamports) \in Nat /\ RentSpent \in Nat
         /\ StrayLamports \in Nat /\ InTheAuction \in Nat /\ CorePaid \in Nat
         /\ IsFiniteSet(DOMAIN assets) /\ Cardinality(DOMAIN assets) \in Nat
         /\ AssetRent * Cardinality(DOMAIN assets) \in Nat
<1>1. /\ IsFiniteSet(Accounts) /\ TotalOf(lamports) \in Nat
      /\ TotalOf(SlotLamports) \in Nat /\ RentSpent \in Nat /\ StrayLamports \in Nat
  BY Finiteness, RentSpentFacts, StrayIsNatural DEF NftInv
<1>2. lamports \in [Accounts -> Nat]
  BY DEF NftInv, IInv, TypeOK
<1>3. IsFiniteSet(DOMAIN assets) /\ Cardinality(DOMAIN assets) \in Nat
  BY NoMoreNftsThanWins, FS_CardinalityType
<1> DEFINE n == Cardinality(DOMAIN assets)
<1>4. n \in Nat /\ AssetRent \in Nat /\ CollectionRent \in Nat
  BY <1>3
<1> HIDE DEF n
<1>5. AssetRent * n \in Nat
  BY <1>4
<1> QED
  BY <1>1, <1>2, <1>3, <1>4, <1>5 DEF InTheAuction, CorePaid, n

\* A payer's balance is all that a collection or a mint takes.
LEMMA PayerTotals ==
  ASSUME NftInv, IsFiniteSet(Keys), IsFiniteSet(prefunded), NEW k \in Keys, NEW amount \in Nat,
         lamports[k] >= amount, lamports' = Debit(lamports, k, amount),
         UNCHANGED <<refund, holder_count, initialized, prefunded>>
  PROVE  InTheAuction' = InTheAuction - amount
<1>1. /\ IsFiniteSet(Accounts) /\ lamports \in [Accounts -> Nat] /\ k \in Accounts
      /\ TotalOf(lamports) \in Nat /\ TotalOf(SlotLamports) \in Nat /\ RentSpent \in Nat
      /\ StrayLamports \in Nat
  BY NftFiniteness DEF Accounts
<1>2. TotalOf(lamports') = TotalOf(lamports) - amount
  BY <1>1, DebitTotal
<1>3. InTheAuction' = TotalOf(lamports') + TotalOf(SlotLamports) + RentSpent + StrayLamports
  BY DEF InTheAuction, SlotLamports, RentSpent, StrayLamports
<1> QED
  BY <1>1, <1>2, <1>3 DEF InTheAuction

LEMMA NftNextConserves ==
  ASSUME NftSupplyInv, IsFiniteSet(Keys), NftNext
  PROVE  MintLamportsConserved' /\ IsFiniteSet(prefunded')
<1>1. /\ NftInv /\ InTheAuction \in Nat /\ CorePaid \in Nat
      /\ InTheAuction + CorePaid = Supply
      /\ IsFiniteSet(DOMAIN assets) /\ Cardinality(DOMAIN assets) \in Nat
      /\ AssetRent * Cardinality(DOMAIN assets) \in Nat
      /\ AssetRent \in Nat /\ CollectionRent \in Nat
      /\ IsFiniteSet(prefunded)
  BY NftFiniteness DEF NftSupplyInv, MintLamportsConserved
<1>0. ASSUME prefunded' = prefunded PROVE IsFiniteSet(prefunded')
  BY <1>0, <1>1
<1>2. Supply' = Supply
  BY DEF Supply
<1>3. CASE Next /\ UNCHANGED nftVars
  <2>1. InTheAuction' = InTheAuction
    BY <1>1, <1>3, StepConserves DEF NftInv
  <2>2. CorePaid' = CorePaid
    BY <1>3 DEF nftVars, CorePaid
  <2>3. IsFiniteSet(prefunded')
    BY <1>1, <1>3, StepKeepsStray
  <2> QED
    BY <1>1, <1>2, <2>1, <2>2, <2>3 DEF MintLamportsConserved
<1>4. CASE \E s \in Keys, k \in CollectionKeys, m \in NameLengths, u \in Uris :
             InitNftCollection(s, k, m, u)
  <2>1. PICK s \in Keys, k \in CollectionKeys, m \in NameLengths, u \in Uris :
          InitNftCollection(s, k, m, u)
    BY <1>4
  <2>2. /\ lamports[s] >= CollectionRent /\ lamports' = Debit(lamports, s, CollectionRent)
        /\ UNCHANGED <<refund, holder_count, initialized, prefunded>>
    BY <2>1 DEF InitNftCollection, auctionVars, standingVars, holderVars
  <2>3. InTheAuction' = InTheAuction - CollectionRent
    BY <1>1, <2>2, PayerTotals
  <2>4. collection = NoKey /\ collection' # NoKey /\ assets' = assets
    BY <2>1 DEF InitNftCollection, NoCollectionYet
  <2> DEFINE paid == AssetRent * Cardinality(DOMAIN assets)
  <2>5. paid \in Nat /\ CorePaid = paid /\ CorePaid' = CollectionRent + paid
    BY <1>1, <2>4 DEF CorePaid
  <2> HIDE DEF paid
  <2> QED
    BY <1>0, <1>1, <1>2, <2>2, <2>3, <2>5 DEF MintLamportsConserved
<1>5. CASE \E h \in Hashes : SignMetadata(h)
  <2>1. UNCHANGED <<vars, collection, assets>>
    BY <1>5 DEF SignMetadata
  <2>2. InTheAuction' = InTheAuction /\ CorePaid' = CorePaid /\ prefunded' = prefunded
    BY <2>1 DEF InTheAuction, SlotLamports, RentSpent, StrayLamports, CorePaid, vars,
       holderVars, standingVars, moneyVars
  <2> QED
    BY <1>0, <1>1, <1>2, <2>2 DEF MintLamportsConserved
<1>6. CASE \E c \in Keys : \E n \in {m \in DOMAIN win_record : MayMint(c, m)} : SomeMint(c, n)
  <2>1. PICK c \in Keys, n \in DOMAIN win_record, h \in Hashes, p \in Preceding,
             a \in AssetKeys, u \in Uris : MintWinNft(c, n, a, u, p, h)
    BY <1>6 DEF SomeMint
  <2>2. /\ lamports[c] >= AssetRent /\ lamports' = Debit(lamports, c, AssetRent)
        /\ UNCHANGED <<refund, holder_count, initialized, prefunded, collection>>
        /\ collection # NoKey /\ a \notin DOMAIN assets
        /\ DOMAIN assets' = DOMAIN assets \cup {a}
    BY <2>1 DEF MintWinNft, auctionVars, standingVars, Put
  <2>3. InTheAuction' = InTheAuction - AssetRent
    BY <1>1, <2>2, PayerTotals
  <2> DEFINE n0 == Cardinality(DOMAIN assets)
             n1 == Cardinality(DOMAIN assets')
  <2>4. n0 \in Nat /\ n1 = n0 + 1
    BY <1>1, <2>2, FS_AddElement
  <2>5. CorePaid = CollectionRent + AssetRent * n0 /\ CorePaid' = CollectionRent + AssetRent * n1
    BY <2>2 DEF CorePaid
  <2> HIDE DEF n0, n1
  <2>6. AssetRent * n1 = AssetRent * n0 + AssetRent /\ AssetRent * n0 \in Nat
    <3>1. AssetRent \in Nat
      BY <1>1
    <3> QED
      BY <2>4, <3>1, SMT
  <2>7. CorePaid' = CorePaid + AssetRent
    BY <1>1, <2>5, <2>6
  <2> QED
    BY <1>0, <1>1, <1>2, <2>2, <2>3, <2>7 DEF MintLamportsConserved
<1> QED
  BY <1>3, <1>4, <1>5, <1>6, Zenon DEF NftNext, Next

LEMMA NftNextSupplyInv ==
  ASSUME IsFiniteSet(Keys)
  PROVE  NftSupplyInv /\ [NftNext]_<<vars, nftVars>> => NftSupplyInv'
<1> SUFFICES ASSUME NftSupplyInv, [NftNext]_<<vars, nftVars>> PROVE NftSupplyInv'
  OBVIOUS
<1>1. NftInv'
  BY NftNextInv DEF NftSupplyInv
<1>2. ASSUME UNCHANGED <<initialized, current_price, total_challenges, holder_count>>
      PROVE  CountersBelowPrice'
  BY <1>2 DEF NftSupplyInv, CountersBelowPrice
<1>3. CountersBelowPrice'
  <2>1. CASE [Next]_vars
    BY <1>2, <2>1, StepKeepsCounters DEF NftSupplyInv, NftInv, vars, holderVars, standingVars
  <2>2. CASE ~[Next]_vars
    BY <1>2, <2>2, NftStepsAside DEF NftSupplyInv, standingVars
  <2> QED
    BY <2>1, <2>2
<1>4. MintLamportsConserved' /\ IsFiniteSet(prefunded')
  <2>1. CASE NftNext
    BY <2>1, NftNextConserves
  <2>2. CASE UNCHANGED <<vars, nftVars>>
    BY <2>2 DEF NftSupplyInv, MintLamportsConserved, InTheAuction, SlotLamports, RentSpent,
       StrayLamports, CorePaid, vars, nftVars, holderVars, standingVars, moneyVars
  <2> QED
    BY <2>1, <2>2
<1> QED
  BY <1>1, <1>3, <1>4 DEF NftSupplyInv

\* The inductive invariant holds in every reachable state.
THEOREM NftSupplyInvariance ==
  ASSUME IsFiniteSet(Keys)
  PROVE  NftSpec => []NftSupplyInv
<1>1. NftInit => NftSupplyInv
  <2> SUFFICES ASSUME NftInit PROVE NftSupplyInv
    OBVIOUS
  <2>1. NftInv /\ LamportsConserved /\ CountersBelowPrice /\ IsFiniteSet(prefunded)
    BY NftInitInv, InitConserves DEF NftInit
  <2>2. InTheAuction \in Nat
    BY <2>1, NftFiniteness
  <2>3. collection = NoKey /\ DOMAIN assets = {}
    BY DEF NftInit
  <2>4. Cardinality(DOMAIN assets) = 0
    BY <2>3, FS_EmptySet
  <2>5. CorePaid = 0
    BY <2>3, <2>4 DEF CorePaid
  <2> QED
    BY <2>1, <2>2, <2>5 DEF NftSupplyInv, MintLamportsConserved, LamportsConserved
<1> QED
  BY <1>1, NftNextSupplyInv, PTL DEF NftSpec

\* Bids, settlements, a collection and late mints move lamports and never make or
\* lose one, and there are never more NFTs than wins.
THEOREM MintsConserveLamports ==
  ASSUME IsFiniteSet(Keys)
  PROVE  NftSpec => [](MintLamportsConserved /\ Cardinality(DOMAIN assets) <= holder_count)
<1>1. NftSupplyInv => MintLamportsConserved /\ Cardinality(DOMAIN assets) <= holder_count
  BY NoMoreNftsThanWins DEF NftSupplyInv
<1> QED
  BY <1>1, NftSupplyInvariance, PTL

\* With a supply that fits a u64, mints bring no checked sum of the auction to fail:
\* they block neither a bid nor a claim, and a settlement is blocked by lamports at
\* its record's address or not at all.
THEOREM MintsBlockNothing ==
  ASSUME IsFiniteSet(Keys), FitsU64(Supply)
  PROVE  NftSpec => []OnlyTheRecordBlocks
<1>1. NftSupplyInv => OnlyTheRecordBlocks
  <2> SUFFICES ASSUME NftSupplyInv PROVE OnlyTheRecordBlocks
    OBVIOUS
  <2>1. InTheAuction \in Nat /\ CorePaid \in Nat /\ InTheAuction + CorePaid = Supply
    BY NftFiniteness DEF NftSupplyInv, MintLamportsConserved
  <2>2. FitsU64(InTheAuction)
    BY <2>1, WidthAssumption DEF FitsU64
  <2> QED
    BY <2>2, SupplyUnblocks DEF NftSupplyInv, NftInv
<1> QED
  BY <1>1, NftSupplyInvariance, PTL
=============================================================================
