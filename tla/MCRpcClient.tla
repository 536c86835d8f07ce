----------------------------- MODULE MCRpcClient -----------------------------
(* Instances of RpcClient for TLC: main and two other tasks. *)
EXTENDS RpcClient

CONSTANTS main, c1, c2
=============================================================================
