---------------------------- MODULE MCRpcClient ----------------------------
(* Three endpoints and four attempts: the last attempt is the first        *)
(* endpoint again.                                                         *)
EXTENDS RpcClient
=============================================================================
