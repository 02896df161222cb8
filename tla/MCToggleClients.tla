-------------------------- MODULE MCToggleClients --------------------------
(* A small instance of ToggleClients: three clients, one of which holds the    *)
(* toggle at first, turns the crank and defends like any other bidder.         *)
EXTENDS ToggleClients

CONSTANTS A, B, T

MCWallet == [k \in Keys |-> 100]
=============================================================================
