------------------------------ MODULE MCWinNft ------------------------------
(* A small instance of WinNft: the auction of MCToggle with fewer bids, and    *)
(* fewer asset keys than the wins it can reach.                                *)
EXTENDS WinChain, TLC

CONSTANTS A, B, T, Asset1, Asset2, Hash1, Hash2, Collection1, Collection2,
          NoUri, Uri200, Uri201

MCWallet == [k \in Keys |-> 100]

\* One uri is missing, one is as long as it may be, one is longer.
MCUriLength == NoUri :> 0 @@ Uri200 :> 200 @@ Uri201 :> 201

MCSymmetry == Permutations({A, B}) \cup Permutations({Asset1, Asset2})
                \cup Permutations({Hash1, Hash2})
                \cup Permutations({Collection1, Collection2})
=============================================================================
