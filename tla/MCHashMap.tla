------------------------------ MODULE MCHashMap ------------------------------
(* HashMap with keys that share homes in the tables of 8 and of 16 slots, *)
(* among them the last slot, where chains wrap around.                     *)
EXTENDS HashMap

Symmetry == Permutations(Keys) \cup Permutations(Data)
=============================================================================
