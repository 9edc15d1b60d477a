----------------------------- MODULE WsClientMC -----------------------------
(* A small instance of WsClient.                                             *)
EXTENDS WsClient
=============================================================================
