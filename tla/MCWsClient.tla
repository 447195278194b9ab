----------------------------- MODULE MCWsClient -----------------------------
(* Instances of WsClient for TLC. *)
EXTENDS WsClient, TLC

EveryCall == AllCalls
=============================================================================
