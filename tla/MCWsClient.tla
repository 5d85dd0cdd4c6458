----------------------------- MODULE MCWsClient -----------------------------
(* Small instance of WsClient for TLC: two connections, so that a late sender  *)
(* meets a new one, and a stop at any time.                                    *)
EXTENDS WsClient
==============================================================================
