------------------------------ MODULE MCVesting ------------------------------
(* A small instance of Vesting: few tokens, so that most divisions round, and  *)
(* the program's own hour, 30 days and 10 years.                               *)
EXTENDS Vesting

CONSTANTS TOGGLD, WSOL

MCHoldings == [m \in Mints |-> IF m = TOGGLD THEN 720 ELSE 7]
=============================================================================
