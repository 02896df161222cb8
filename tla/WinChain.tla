------------------------------ MODULE WinChain ------------------------------
(* The auction and its Win NFTs implement the chain of awards: the records     *)
(* settle leaves behind are the chain, the assets mint_win_nft has created are *)
(* the certificates.                                                           *)
EXTENDS WinNft

Awarded == [n \in DOMAIN win_record |-> [winner |-> win_record[n].winner,
                                         price  |-> win_record[n].price_paid]]

\* An asset certifies the win whose ordinal it carries.
CertificateOf(a) == [id    |-> a,
                     nth   |-> assets[a].facts.holder_count - 1,
                     owner |-> assets[a].owner,
                     price |-> assets[a].facts.price_paid]

Chain == INSTANCE AwardChain WITH
  Ids          <- AssetKeys,
  count        <- holder_count,
  awards       <- Awarded,
  price        <- current_price,
  certificates <- {CertificateOf(a) : a \in DOMAIN assets}

\* No interleaving of bids, settlements, failed defences, collections and late
\* mints does more to history than add an award at its end, raise the price in
\* a defence, or certify an award to its winner. A record is made "One per FLIP
\* (never created for a defend), plus exactly one more for the genesis holder"
\* (state.rs:95), and "a holder can mint their own recorded win at any later
\* time, even after being outbid again" (state.rs:118).
ImplementsChain == Chain!Spec
=============================================================================
