------------------------- MODULE MCWsSubscriptions -------------------------
(* Instances of WsSubscriptions for TLC. *)
EXTENDS WsSubscriptions

\* What the functions of websocket.c call.
LibraryCalls == {"setOther", "setConnect", "connect", "disconnect", "destroy"}
=============================================================================
