------------------------------- MODULE WinNft -------------------------------
(* The Win NFT: init_nft_collection and mint_win_nft, beside the auction whose *)
(* win records they read.  The mpl-core program that keeps the collection and  *)
(* its assets is external: a create refuses an address in use, and what it     *)
(* creates is locked by the plugins of the call.                               *)
EXTENDS Toggle

CONSTANTS
  AssetKeys, CollectionKeys,   \* fresh keypairs for mpl-core accounts
  Hashes,                      \* SHA-256 hashes of metadata
  METADATA_SIGNER, OtherSigner,
  Ed25519Program, OtherProgram, NoInstruction,
  SAME_INSTRUCTION, AnotherInstruction,  \* what an offset counts from
  NameLengths,                 \* lengths of a collection's name, in bytes
  Uris, UriLength,             \* uris a client may send, and their lengths
  AssetRent, CollectionRent    \* what a minter and the admin pay for accounts

ASSUME NftAssumption ==
  /\ NoKey \notin CollectionKeys /\ AssetKeys \cap CollectionKeys = {}
  /\ METADATA_SIGNER # OtherSigner /\ Ed25519Program # OtherProgram
  /\ SAME_INSTRUCTION # AnotherInstruction
  /\ NameLengths \subseteq Nat /\ UriLength \in [Uris -> Nat]
  /\ AssetRent \in Nat /\ CollectionRent \in Nat

MAX_NFT_URI_LEN == 200
MAX_COLLECTION_NAME_LEN == 32
MAX_COLLECTION_URI_LEN == 200

VARIABLES
  collection,  \* the address in NftCollectionConfig, NoKey until it exists
  assets,      \* the assets minted into it, by their address
  signed       \* the hashes the metadata signer has attested, off chain

nftVars == <<collection, assets, signed>>
auctionVars == <<standingVars, windowVars, burn_address, escrowed_amount,
                 treasury_balance, refund, now>>

Bounded(length, max) == 0 < length /\ length <= max

-----------------------------------------------------------------------------
(* init_nft_collection() *)

\* Fault: the collection may be replaced.
AnotherCollection == TRUE

\* Anchor's init refuses a NftCollectionConfig that exists.
NoCollectionYet == collection = NoKey

InitNftCollection(signer, key, name_length, uri) ==
  /\ initialized
  /\ signer = admin
  /\ NoCollectionYet
  /\ Bounded(name_length, MAX_COLLECTION_NAME_LEN)
  /\ Bounded(UriLength[uri], MAX_COLLECTION_URI_LEN)
  /\ lamports[signer] >= CollectionRent
  /\ lamports' = Debit(lamports, signer, CollectionRent)
  /\ collection' = key
  /\ UNCHANGED <<assets, signed, auctionVars, holderVars>>

-----------------------------------------------------------------------------
(* mint_win_nft() *)

\* The metadata signer vouches for the hash of metadata it has seen.
SignMetadata(content_hash) ==
  /\ content_hash \notin signed
  /\ signed' = signed \cup {content_hash}
  /\ UNCHANGED <<vars, collection, assets>>

\* An instruction just before the mint, as its data reads at the offsets it
\* gives.  Each offset comes with the instruction it counts from: this one, or
\* another one of the transaction, whose bytes the reader does not see.
Indexes == {SAME_INSTRUCTION, AnotherInstruction}
Instructions ==
  [program : {Ed25519Program, OtherProgram}, num_signatures : 0 .. 2,
   signature_instruction_index : Indexes, public_key_instruction_index : Indexes,
   message_instruction_index : Indexes, within_data : BOOLEAN,
   signer : {METADATA_SIGNER, OtherSigner}, message : Hashes]

\* A mint that comes first in its transaction has no instruction before it.
ASSUME NoInstructionAssumption == NoInstruction \notin Instructions

\* The Ed25519 program has verified what its offsets point at, or the
\* transaction would not have got this far.  Without a signature it verifies
\* nothing, and the data of another program may look like anything.
Genuine(ix) ==
  ix.program = Ed25519Program /\ ix.num_signatures > 0
              /\ ix.public_key_instruction_index = SAME_INSTRUCTION
              /\ ix.message_instruction_index = SAME_INSTRUCTION
  => /\ ix.within_data
     /\ ix.signer = METADATA_SIGNER => ix.message \in signed

\* What may come just before the mint in its transaction.
Preceding == {NoInstruction} \cup {ix \in Instructions : Genuine(ix)}

\* Faults: an instruction that verified nothing, or something that is not in
\* its own data, is read like any other.
ParseWithoutSignature(ix) ==
  /\ ix.within_data
  /\ ix.signature_instruction_index = SAME_INSTRUCTION
  /\ ix.public_key_instruction_index = SAME_INSTRUCTION
  /\ ix.message_instruction_index = SAME_INSTRUCTION

ParseIgnoringIndexes(ix) == ix.num_signatures = 1 /\ ix.within_data

\* parse_ed25519_instruction_data: one signature, over bytes of this very
\* instruction, or it is malformed.
WellFormed(ix) ==
  /\ ix.num_signatures = 1
  /\ ix.signature_instruction_index = SAME_INSTRUCTION
  /\ ix.public_key_instruction_index = SAME_INSTRUCTION
  /\ ix.message_instruction_index = SAME_INSTRUCTION
  /\ ix.within_data

\* verify_metadata_signature: the metadata signer vouches for this very hash.
Attested(preceding, content_hash) ==
  /\ preceding # NoInstruction
  /\ preceding.program = Ed25519Program
  /\ WellFormed(preceding)
  /\ preceding.signer = METADATA_SIGNER
  /\ preceding.message = content_hash

\* Faults: the toggle's present state instead of the recorded win; only the
\* current holder may mint; the record is not marked, or is closed instead.
FactsOfToday(n) ==
  [winner |-> holder, holder_count |-> holder_count, price_paid |-> current_price,
   won_at |-> holder_since]

CurrentHolderMayMint(caller, n) ==
  caller = holder /\ win_record[n].winner = caller /\ ~win_record[n].minted

RecordUnmarked(n) == win_record
RecordClosed(n) == Close(win_record, n)

\* The facts an asset carries are the record's, frozen by their plugin.
WinFacts(n) ==
  [winner |-> win_record[n].winner, holder_count |-> win_record[n].holder_count,
   price_paid |-> win_record[n].price_paid, won_at |-> win_record[n].won_at]

\* The winner on the record mints it, once, whoever holds the toggle by then.
MayMint(caller, n) == win_record[n].winner = caller /\ ~win_record[n].minted

RecordMarked(n) == [win_record EXCEPT ![n].minted = TRUE]

\* The client says where the metadata lies, and nothing here relates that uri
\* to the content the hash was made of.
MintWinNft(caller, n, asset, uri, preceding, content_hash) ==
  /\ collection # NoKey
  /\ n \in DOMAIN win_record
  /\ MayMint(caller, n)
  /\ Bounded(UriLength[uri], MAX_NFT_URI_LEN)
  /\ Attested(preceding, content_hash)
  /\ asset \notin DOMAIN assets
  /\ lamports[caller] >= AssetRent
  /\ lamports' = Debit(lamports, caller, AssetRent)
  /\ assets' = Put(assets, asset, [owner |-> caller, collection |-> collection, uri |-> uri,
                                   facts |-> WinFacts(n), metadata_hash |-> content_hash])
  /\ win_record' = RecordMarked(n)
  /\ UNCHANGED <<collection, signed, auctionVars, holder, holder_since, current_price, is_on,
                 total_challenges, holder_count>>

-----------------------------------------------------------------------------
NftInit ==
  /\ Init
  /\ collection = NoKey
  /\ assets = [k \in {} |-> NoKey]
  /\ signed = {}

\* A mint may be sent with any attestation, hash and uri; the ones that fail
\* the checks on caller and attestation are left out early.
SomeMint(caller, n) ==
  \E h \in Hashes : \E p \in {q \in Preceding : Attested(q, h)} :
    \E a \in AssetKeys, u \in Uris : MintWinNft(caller, n, a, u, p, h)

NftNext ==
  \/ (Instruction \/ (\E t \in Instants : Tick(t)) \/ Stray) /\ UNCHANGED nftVars
  \/ \E s \in Keys, k \in CollectionKeys, m \in NameLengths, u \in Uris :
       InitNftCollection(s, k, m, u)
  \/ \E h \in Hashes : SignMetadata(h)
  \/ \E c \in Keys : \E n \in {m \in DOMAIN win_record : MayMint(c, m)} : SomeMint(c, n)

NftSpec == NftInit /\ [][NftNext]_<<vars, nftVars>>

-----------------------------------------------------------------------------
Facts == [winner : Keys, holder_count : Nat, price_paid : Nat, won_at : Nat]

\* The auction keeps its types while wins are minted, and every asset is in the
\* one collection.
NftTypeOK ==
  /\ TypeOK
  /\ collection \in CollectionKeys \cup {NoKey}
  /\ DOMAIN assets \subseteq AssetKeys /\ signed \subseteq Hashes
  /\ assets \in [DOMAIN assets -> [owner : Keys, collection : {collection} \ {NoKey}, uri : Uris,
                                   facts : Facts, metadata_hash : Hashes]]

\* Every NFT tells the facts of a win that is still on record, and belongs to
\* its winner, however many settlements came between the win and the mint.
NftsMatchWins ==
  \A a \in DOMAIN assets : \E n \in DOMAIN win_record :
    /\ win_record[n].minted
    /\ assets[a].facts = WinFacts(n)
    /\ assets[a].owner = win_record[n].winner

\* A win is minted at most once, and a record says so exactly when it was.
OneNftPerWin ==
  /\ \A a, b \in DOMAIN assets :
       assets[a].facts.holder_count = assets[b].facts.holder_count => a = b
  /\ \A n \in DOMAIN win_record : win_record[n].minted =>
       \E a \in DOMAIN assets : assets[a].facts.holder_count = win_record[n].holder_count

\* No NFT carries a metadata hash the metadata signer never attested, although
\* any client composes the transaction around the mint.  What the NFT's uri
\* leads to is another matter: no instruction ever looks at it.
OnlyAttestedHashes == \A a \in DOMAIN assets : assets[a].metadata_hash \in signed

\* A winner can mint a win at any later time, whoever holds the toggle by then
\* and whatever else was minted ("even after being outbid again", state.rs).
WinStaysMintable ==
  \A n \in DOMAIN win_record :
    /\ collection # NoKey /\ ~win_record[n].minted
    /\ lamports[win_record[n].winner] >= AssetRent
    /\ AssetKeys \ DOMAIN assets # {} /\ signed # {}
    /\ \E u \in Uris : Bounded(UriLength[u], MAX_NFT_URI_LEN)
    => ENABLED SomeMint(win_record[n].winner, n)

\* No settlement and no mint erases or rewrites a recorded win, and a minted
\* one never becomes mintable again.
WinsAreForever ==
  [][\A n \in DOMAIN win_record :
       /\ n \in DOMAIN win_record'
       /\ WinFacts(n)' = WinFacts(n)
       /\ win_record[n].minted => win_record'[n].minted]_<<vars, nftVars>>

-----------------------------------------------------------------------------
(* What a comment says of the attestation: it must come immediately before    *)
(* the mint, since one found anywhere "would let a stale-but-validly-signed   *)
(* attestation from an unrelated prior mint be replayed" (mint_win_nft.rs,    *)
(* verify_metadata_signature).                                                *)
AttestationsServeOnce ==
  \A a, b \in DOMAIN assets :
    assets[a].metadata_hash = assets[b].metadata_hash => a = b
=============================================================================
