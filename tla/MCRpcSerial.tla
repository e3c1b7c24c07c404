------------------------------ MODULE MCRpcSerial ------------------------------
(* A root, two structs below it and a leaf that all of them may share.       *)
EXTENDS RpcSerial

CONSTANTS r, a, b, f, n, k1, k2, k3

KeysInOrder == <<k1, k2, k3>>
Graphs ==
  (r :> {Null, Unknown, n, a, b, f}) @@ (a :> {Null, b, f}) @@ (b :> {f})
=============================================================================
