---------------------------- MODULE MCTradingApi ----------------------------
(* Instances of TradingApi for TLC. *)
EXTENDS TradingApi

\* Small stand-ins for the exchange's asset ids and for 2^31: with TinyInt the
\* second order already has an id that "%d" does not read.
OneId == {0}
TwoIds == {0, 1}
TinyInt == 2
SmallInt == 8
=============================================================================
