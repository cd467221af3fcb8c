----------------------------- MODULE MCRpcClient ----------------------------
(* RpcClient with two calls at once.                                       *)
EXTENDS RpcClient
=============================================================================
