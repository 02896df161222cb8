--------------------------- MODULE MCToggleLedger ---------------------------
(* The instances of MCToggle, with the ledger the auction must implement.     *)
EXTENDS ToggleLedger, MCToggle
=============================================================================
