---------------------------- MODULE MCRpcStruct ----------------------------
(* RpcStruct with the addresses and the keys interchangeable. *)
EXTENDS RpcStruct, TLC

Symmetry == Permutations(Objs) \cup Permutations(Keys)
=============================================================================
