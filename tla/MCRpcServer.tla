---------------------------- MODULE MCRpcServer -----------------------------
(* The server for TLC: connections and workers are interchangeable.        *)
EXTENDS RpcServer

Symmetry == Permutations(Conns) \cup Permutations(Workers)
=============================================================================
