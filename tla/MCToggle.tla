------------------------------ MODULE MCToggle ------------------------------
(* Small instances of Toggle: the treasury T (also admin, upgrade authority   *)
(* and crank), and two or three bidders.  Prices are small, but the 5% raise, *)
(* the 15% fee and its rounding, and the 30 second window are the program's.  *)
EXTENDS ToggleSupply, TLC

CONSTANTS A, B, C, T

MCWallet == [k \in Keys |-> 100]

\* The whole supply of lamports, where toggle_safety puts the ceiling of u64.
MCSupply == 3 * 100

MCSymmetry == Permutations({A, B})
=============================================================================
