--------------------------- MODULE BoundedInduction ---------------------------
(***************************************************************************)
(* Induction over the numbers up to a bound, for the proofs about the      *)
(* loops of the hash map and about the paths in a graph of structs.        *)
(***************************************************************************)
EXTENDS Integers, FiniteSetsExt, WellFoundedInduction, TLAPS

\* A set of numbers that is not empty has a smallest member.
LEMMA SmallestOf ==
  ASSUME NEW T \in SUBSET Nat, T # {}
  PROVE  /\ Min(T) \in T
         /\ \A m \in T : Min(T) <= m
<1>. DEFINE Less == {p \in Nat \X Nat : p[1] < p[2]}
<1>1. IsWellFoundedOn(Less, Nat)
  BY NatLessThanWellFounded, SMT DEF OpToRel
<1>2. PICK n \in T : \A m \in T : <<m, n>> \notin Less
  BY <1>1, WFMin, Zenon
<1>3. ASSUME NEW m \in T  PROVE n <= m
  <2>1. m \in Nat /\ n \in Nat /\ <<m, n>> \in Nat \X Nat
    OBVIOUS
  <2>2. ~(m < n)
    BY <1>2, <2>1
  <2>. QED  BY <2>1, <2>2
<1>4. \E i \in T : \A m \in T : i <= m
  BY <1>3
<1>. QED  BY <1>4, Zenon DEF Min

\* Induction up to a bound, over the set of the numbers of which something holds.
LEMMA UpTo ==
  ASSUME NEW n \in Nat, NEW S, 0 \in S,
         \A i \in 0 .. n - 1 : i \in S => i + 1 \in S
  PROVE  \A i \in 0 .. n : i \in S
<1>. DEFINE Bad == {i \in 0 .. n : i \notin S}
<1>. SUFFICES ASSUME Bad # {}  PROVE FALSE
  OBVIOUS
<1>1. PICK b \in Bad : \A m \in Bad : b <= m
  <2>1. Bad \in SUBSET Nat
    OBVIOUS
  <2>. QED  BY <2>1, SmallestOf, Zenon
<1>2. b # 0 /\ b - 1 \in 0 .. n - 1
  OBVIOUS
<1>3. b - 1 \in S
  BY <1>1, <1>2
<1>4. (b - 1) + 1 = b
  OBVIOUS
<1>. QED  BY <1>2, <1>3, <1>4
=============================================================================
