----------------------------- MODULE MCRpcCalls -----------------------------
(* RpcCalls with two objects whose prototypes differ, and calls with    *)
(* parameters that fit, that are too few, and that are more than enough.  *)
EXTENDS RpcCalls

CONSTANTS o1, o2

MCProto  == o1 :> <<"number">> @@ o2 :> <<"number", "real">>
MCParams == {<<"number">>, <<"number", "real">>}
Symmetry == Permutations(Threads) \cup Permutations(Sessions)
=============================================================================
