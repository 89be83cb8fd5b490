---------------------------- MODULE MCWsSession ----------------------------
(* WsSession for TLC: nothing to add but numbers.                           *)
EXTENDS WsSession
=============================================================================
