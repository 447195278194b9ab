---------------------------- MODULE MCMarketData ----------------------------
(* Instances of MarketData for TLC. *)
EXTENDS MarketData

\* A spot market whose index is the id of a swap, and one without an index.
TwoSpots == <<[base |-> "PURR", index |-> 0], [base |-> "BTC", index |-> None]>>
SomeGarbage == {1, 7}
OneInTable == [BTC |-> 1]
TwoFrames == [short |-> 2, long |-> 3]
SomeHighs == [t \in 0..8 |-> ((5 * t) % 7) + 3]
SomeLows == [t \in 0..8 |-> (4 * t) % 5]
SomeCloses == [t \in 0..8 |-> ((2 * t) % 5) + 3]
=============================================================================
