------------------------------ MODULE MCTrader ------------------------------
(* Instances of Trader for TLC. *)
EXTENDS Trader

\* ETH is listed under the id of the table; DOGE is not in it.
TwoCoins == [ETH |-> 2, DOGE |-> 5]
=============================================================================
