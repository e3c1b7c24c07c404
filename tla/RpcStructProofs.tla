--------------------------- MODULE RpcStructProofs ---------------------------
(***************************************************************************)
(* Proofs about RpcStruct, for any number of structs and keys and any      *)
(* shape of what the structs hold, cycles included: its type invariant,    *)
(* the origins that the tracker keeps and their free indices, the counts,  *)
(* and that a recursive free neither leaves an element behind that refers  *)
(* to a freed value nor frees anything twice.                              *)
(***************************************************************************)
EXTENDS RpcStruct, SequenceTheorems, FiniteSetTheorems, WellFoundedInduction, TLAPS

TearsDown == {"zero", "contents"}
OnElement == {"remove", "unlink"}

\* The recorded holders of x under k.
Recorded(x, k) == ToSet(origins[x][k]) \ {Null}

\* Who holds x under k.
Holders(x, k) == {s \in Objs : map[s][k] = x}

\* The calls have the shape of the recursion: a call of rpc_struct_remove has
\* nothing above it, and a value that leaves its origins has at most the call
\* that takes it out of one.
StackInv ==
  \A i \in DOMAIN stack :
    /\ stack[i].op \in OnElement => stack[i].k \in Keys
    /\ stack[i].op = "remove" => i = Len(stack)
    /\ stack[i].op = "zero" /\ i # Len(stack) =>
         /\ i = Len(stack) - 1
         /\ stack[i + 1].op = "remove"
         /\ map[stack[i + 1].s][stack[i + 1].k] = stack[i].s

\* A call on an element was made for the contents of its struct, unless it is
\* the first call or takes a value out of an origin.
CallerInv ==
  \A i \in DOMAIN stack :
    i # 1 =>
      /\ stack[i].op = "remove" =>
           \/ stack[i - 1].op = "zero"
           \/ stack[i - 1].op = "contents" /\ stack[i - 1].s = stack[i].s
      /\ stack[i].op = "unlink" =>
           stack[i - 1].op = "contents" /\ stack[i - 1].s = stack[i].s

\* A value that is torn down, or about to be unlinked as gone, has no record.
UntrackedInv ==
  \A i \in DOMAIN stack :
    /\ stack[i].op \in TearsDown => stack[i].s \notin tracked
    /\ stack[i].op = "unlink" => map[stack[i].s][stack[i].k] \notin tracked

\* The origins that a value has yet to leave still hold it, and the one it is
\* leaving is not among them.
LeftInv ==
  \A i \in DOMAIN stack :
    stack[i].op = "zero" =>
      /\ \A p \in stack[i].left : map[p[2]][p[1]] = stack[i].s
      /\ i # Len(stack) => <<stack[i + 1].k, stack[i + 1].s>> \notin stack[i].left

\* Only allocated structs have elements or a record.
LiveInv ==
  /\ tracked \subseteq live
  /\ \A s \in Objs \ live : \A k \in Keys : map[s][k] = Null

\* The record of a tracked value names exactly its holders.
RecordInv == \A x \in tracked : \A k \in Keys : Recorded(x, k) = Holders(x, k)

\* A value without record has no data in the tracker, unless it is still to
\* leave its origins.
NoRecordInv ==
  \A x \in Objs \ tracked :
    \/ \E i \in DOMAIN stack : stack[i].op = "zero" /\ stack[i].s = x
    \/ /\ refcount[x] = 0
       /\ \A k \in Keys : origins[x][k] = <<>>

\* A value without record is still held only by an element that a call under
\* way is going to unlink.
HeldInv ==
  \A s \in Objs, k \in Keys :
    map[s][k] \notin tracked \cup {Null} =>
      \E i \in DOMAIN stack :
        \/ stack[i].op \in OnElement /\ stack[i].s = s /\ stack[i].k = k
        \/ /\ stack[i].op = "zero" /\ stack[i].s = map[s][k]
           /\ <<k, s>> \in stack[i].left

\* A call that is about to unlink has only the struct and the key.
UnlinksInv == \A i \in DOMAIN stack : stack[i].op = "unlink" => stack[i].left = {}

\* The count of a tracked value covers the places that hold it.
CountInv ==
  \A x \in tracked :
    /\ refcount[x] > 0
    /\ refcount[x] >= Cardinality(Refs(x))
    /\ x \notin shared => refcount[x] = Cardinality(Refs(x))

\* Nothing that is torn down in a removal leads back to the struct of the
\* element that is removed.
AwayInv ==
  (stack # <<>> /\ stack[1].op \in OnElement) =>
    \E S \in SUBSET (Objs \ {stack[1].s}) :
      /\ \A a \in S, k \in Keys : map[a][k] \in S \cup {Null}
      /\ map[stack[1].s][stack[1].k] \in S \cup {Null}
      /\ \A i \in DOMAIN stack : i # 1 /\ stack[i].op # "remove" => stack[i].s \in S

CallsInv == StackInv /\ CallerInv /\ UntrackedInv /\ TornDownOnce /\ LeftInv

Inv ==
  /\ TypeOK /\ CallsInv
  /\ LiveInv /\ RecordInv /\ NoRecordInv /\ HeldInv /\ CountInv
  /\ SlotsAccounted /\ UnlinksInv /\ NoDangling

-----------------------------------------------------------------------------
(* Sequences and sets.                                                     *)

\* A set of numbers that is not empty has a smallest member.
LEMMA SmallestNat ==
  ASSUME NEW T \in SUBSET Nat, T # {}
  PROVE  \E n \in T : \A m \in T : n <= m
<1>. DEFINE Less == {p \in Nat \X Nat : p[1] < p[2]}
<1>1. IsWellFoundedOn(Less, Nat)
  BY NatLessThanWellFounded, SMT DEF OpToRel
<1>2. PICK n \in T : \A m \in T : <<m, n>> \notin Less
  BY <1>1, WFMin, Zenon
<1>3. ASSUME NEW m \in T  PROVE n <= m
  <2>1. m \in Nat /\ n \in Nat /\ <<m, n>> \in Nat \X Nat
    OBVIOUS
  <2>2. ~(m < n)
    BY <1>2, <2>1
  <2>. QED  BY <2>1, <2>2
<1>. QED  BY <1>3

\* A finite set of positions can be listed in order.
LEMMA AscendingExists ==
  ASSUME NEW b \in Nat, NEW S \in SUBSET (1 .. b)
  PROVE  \E q \in [1 .. Cardinality(S) -> S] :
           /\ Range(q) = S
           /\ \A i, j \in DOMAIN q : i < j => q[i] < q[j]
<1>. DEFINE Good(c) == \A U \in SUBSET (1 .. c) :
              \E q \in [1 .. Cardinality(U) -> U] :
                /\ Range(q) = U
                /\ \A i, j \in DOMAIN q : i < j => q[i] < q[j]
            Bad == {c \in Nat : ~Good(c)}
<1>1. Good(0)
  <2>. SUFFICES ASSUME NEW U \in SUBSET (1 .. 0)
                PROVE  \E q \in [1 .. Cardinality(U) -> U] :
                         /\ Range(q) = U
                         /\ \A i, j \in DOMAIN q : i < j => q[i] < q[j]
    OBVIOUS
  <2>1. U = {} /\ 1 .. 0 = {}
    OBVIOUS
  <2>0. Cardinality(U) = 0
    BY <2>1, FS_EmptySet
  <2>. DEFINE q == [i \in {} |-> 0]
  <2>2. q \in [1 .. Cardinality(U) -> U] /\ Range(q) = U /\ DOMAIN q = {}
    BY <2>0, <2>1 DEF Range
  <2>. QED  BY <2>2
<1>2. ASSUME NEW c \in Nat, Good(c)  PROVE Good(c + 1)
  <2>. SUFFICES ASSUME NEW U \in SUBSET (1 .. c + 1)
                PROVE  \E q \in [1 .. Cardinality(U) -> U] :
                         /\ Range(q) = U
                         /\ \A i, j \in DOMAIN q : i < j => q[i] < q[j]
    OBVIOUS
  <2>. DEFINE V == U \ {c + 1}
              m == Cardinality(V)
  <2>1. V \in SUBSET (1 .. c)
    OBVIOUS
  <2>2. IsFiniteSet(V) /\ m \in Nat
    <3>1. IsFiniteSet(1 .. c)
      BY FS_Interval
    <3>2. IsFiniteSet(V)
      BY <2>1, <3>1, FS_Subset
    <3>. QED  BY <3>2, FS_CardinalityType
  <2>3. PICK p \in [1 .. m -> V] :
          Range(p) = V /\ \A i, j \in DOMAIN p : i < j => p[i] < p[j]
    BY <1>2, <2>1
  <2>4. CASE c + 1 \notin U
    <3>1. U = V
      BY <2>4
    <3>. QED  BY <2>3, <3>1
  <2>5. CASE c + 1 \in U
    <3>. HIDE DEF m
    <3>1. U = V \cup {c + 1} /\ c + 1 \notin V
      BY <2>5
    <3>2. Cardinality(U) = m + 1
      BY <2>2, <3>1, FS_AddElement DEF m
    <3>. DEFINE q == [i \in 1 .. m + 1 |-> IF i = m + 1 THEN c + 1 ELSE p[i]]
    <3>3. q \in [1 .. Cardinality(U) -> U]
      BY <2>2, <2>3, <3>1, <3>2
    <3>4. Range(q) = U
      <4>1. \A i \in 1 .. m : q[i] = p[i]
        BY <2>2
      <4>2. q[m + 1] = c + 1
        BY <2>2
      <4>3. \A y \in V : \E i \in 1 .. m : y = q[i]
        BY <2>3, <4>1 DEF Range
      <4>4. \A y \in U : \E i \in DOMAIN q : y = q[i]
        BY <2>2, <4>2, <4>3, <3>1
      <4>5. \A i \in DOMAIN q : q[i] \in U
        BY <3>2, <3>3
      <4>6. Range(q) = {q[i] : i \in DOMAIN q}
        BY DEF Range
      <4>. HIDE DEF q
      <4>. QED  BY <4>4, <4>5, <4>6
    <3>5. \A i, j \in DOMAIN q : i < j => q[i] < q[j]
      <4>. SUFFICES ASSUME NEW i \in 1 .. m + 1, NEW j \in 1 .. m + 1, i < j
                    PROVE  q[i] < q[j]
        OBVIOUS
      <4>1. CASE j = m + 1
        <5>1. i \in 1 .. m
          BY <2>2, <4>1
        <5>2. p[i] \in 1 .. c
          BY <2>1, <2>3, <5>1
        <5>. QED  BY <2>2, <4>1, <5>1, <5>2
      <4>2. CASE j # m + 1
        <5>1. i \in 1 .. m /\ j \in 1 .. m
          BY <2>2, <4>2
        <5>2. q[i] = p[i] /\ q[j] = p[j]
          BY <2>2, <5>1
        <5>. HIDE DEF q
        <5>. QED  BY <2>3, <5>1, <5>2
      <4>. QED  BY <4>1, <4>2
    <3>. QED  BY <3>3, <3>4, <3>5
  <2>. QED  BY <2>4, <2>5
<1>3. Bad = {}
  <2>. SUFFICES ASSUME Bad # {} PROVE FALSE
    OBVIOUS
  <2>1. PICK c \in Bad : \A m \in Bad : c <= m
    BY SmallestNat
  <2>. HIDE DEF Good
  <2>2. c # 0
    BY <1>1, <2>1
  <2>3. c - 1 \in Nat /\ Good(c - 1)
    BY <2>1, <2>2
  <2>4. Good((c - 1) + 1)
    BY <1>2, <2>3
  <2>. QED  BY <2>1, <2>4
<1>. QED  BY <1>3

\* What Ascending returns: every position of the set, once.
LEMMA AscendingProperties ==
  ASSUME NEW b \in Nat, NEW S \in SUBSET (1 .. b)
  PROVE  /\ Ascending(S) \in Seq(Nat)
         /\ ToSet(Ascending(S)) = S
         /\ IsInjective(Ascending(S))
<1>. DEFINE q == Ascending(S)
<1>0. \A x \in S : x \in Nat
  OBVIOUS
<1>1. /\ q \in [1 .. Cardinality(S) -> S]
      /\ Range(q) = S
      /\ \A i, j \in DOMAIN q : i < j => q[i] < q[j]
  BY AscendingExists DEF Ascending
<1>2. Cardinality(S) \in Nat
  <2>1. IsFiniteSet(1 .. b)
    BY FS_Interval
  <2>2. IsFiniteSet(S)
    BY <2>1, FS_Subset
  <2>. QED  BY <2>2, FS_CardinalityType
<1>. HIDE DEF q
<1>3. q \in Seq(Nat)
  <2>. DEFINE n == Cardinality(S)
  <2>2. q \in [1 .. n -> Nat]
    BY <1>0, <1>1
  <2>. HIDE DEF n
  <2>. QED  BY <1>2, <2>2 DEF n
<1>4. ToSet(q) = S
  BY <1>1 DEF ToSet, Range
<1>5. IsInjective(q)
  <2>. SUFFICES ASSUME NEW i \in 1 .. Cardinality(S), NEW j \in 1 .. Cardinality(S),
                       q[i] = q[j], i < j
                PROVE  FALSE
    BY <1>1, <1>2 DEF IsInjective
  <2>1. q[i] < q[j]
    BY <1>1
  <2>2. q[i] \in S
    BY <1>1
  <2>3. q[i] \in Nat
    BY <1>0, <2>2
  <2>. QED  BY <2>1, <2>3
<1>. QED  BY <1>3, <1>4, <1>5 DEF q

\* The entries of a sequence.
LEMMA EntriesOf ==
  ASSUME NEW S, NEW s \in Seq(S)
  PROVE  ToSet(s) = {s[i] : i \in 1 .. Len(s)}
BY LenProperties DEF ToSet

\* A sequence without its last entry, and its last entry.
LEMMA FrontProperties ==
  ASSUME NEW S, NEW s \in Seq(S), s # <<>>
  PROVE  /\ Front(s) \in Seq(S)
         /\ Len(Front(s)) = Len(s) - 1
         /\ \A i \in 1 .. Len(s) - 1 : Front(s)[i] = s[i]
         /\ Last(s) = s[Len(s)]
         /\ Last(s) \in S
         /\ Len(s) \in Nat \ {0}
<1>1. Len(s) \in Nat \ {0}
  BY EmptySeq
<1>2. \A i \in 1 .. Len(s) : s[i] \in S
  BY ElementOfSeq
<1>3. \A i \in 1 .. Len(s) - 1 : s[i] \in S
  BY <1>1, <1>2
<1>. DEFINE n == Len(s) - 1
<1>4. n \in Nat /\ \A i \in 1 .. n : s[i] \in S
  BY <1>1, <1>3
<1>5. /\ SubSeq(s, 1, n) \in Seq(S)
      /\ Len(SubSeq(s, 1, n)) = IF 1 <= n THEN n - 1 + 1 ELSE 0
      /\ \A i \in 1 .. n - 1 + 1 : SubSeq(s, 1, n)[i] = s[1 + i - 1]
  <2>. HIDE DEF n
  <2>. QED  BY <1>4, SubSeqProperties
<1>6. Front(s) = SubSeq(s, 1, n)
  BY DEF Front
<1>. HIDE DEF n
<1>7. Len(Front(s)) = n
  BY <1>4, <1>5, <1>6
<1>8. \A i \in 1 .. n : Front(s)[i] = s[i]
  BY <1>4, <1>5, <1>6
<1>9. Last(s) = s[Len(s)]
  BY DEF Last
<1>. QED  BY <1>1, <1>2, <1>5, <1>6, <1>7, <1>8, <1>9 DEF n

\* A stack whose innermost call is replaced by another.
LEMMA ReplaceTop ==
  ASSUME NEW S, NEW s \in Seq(S), s # <<>>, NEW e \in S
  PROVE  /\ Append(Front(s), e) \in Seq(S)
         /\ Len(Append(Front(s), e)) = Len(s)
         /\ \A i \in 1 .. Len(s) - 1 : Append(Front(s), e)[i] = s[i]
         /\ Append(Front(s), e)[Len(s)] = e
<1>. DEFINE r == Front(s)
<1>1. /\ r \in Seq(S) /\ Len(r) = Len(s) - 1 /\ Len(s) \in Nat \ {0}
      /\ \A i \in 1 .. Len(s) - 1 : r[i] = s[i]
  BY FrontProperties
<1>. HIDE DEF r
<1>2. /\ Append(r, e) \in Seq(S)
      /\ Len(Append(r, e)) = Len(r) + 1
      /\ \A i \in 1.. Len(r) : Append(r, e)[i] = r[i]
      /\ Append(r, e)[Len(r) + 1] = e
  BY <1>1, AppendProperties
<1>. QED  BY <1>1, <1>2 DEF r

\* A stack whose innermost call is replaced by another that makes a call.
LEMMA ReplaceTopAndCall ==
  ASSUME NEW S, NEW s \in Seq(S), s # <<>>, NEW e \in S, NEW g \in S
  PROVE  /\ Front(s) \o <<e, g>> \in Seq(S)
         /\ Len(Front(s) \o <<e, g>>) = Len(s) + 1
         /\ \A i \in 1 .. Len(s) - 1 : (Front(s) \o <<e, g>>)[i] = s[i]
         /\ (Front(s) \o <<e, g>>)[Len(s)] = e
         /\ (Front(s) \o <<e, g>>)[Len(s) + 1] = g
<1>. DEFINE r == Front(s)
            q == <<e, g>>
<1>1. /\ r \in Seq(S) /\ Len(r) = Len(s) - 1 /\ Len(s) \in Nat \ {0}
      /\ \A i \in 1 .. Len(s) - 1 : r[i] = s[i]
  BY FrontProperties
<1>2. q \in Seq(S) /\ Len(q) = 2 /\ q[1] = e /\ q[2] = g
  OBVIOUS
<1>. HIDE DEF r, q
<1>3. /\ r \o q \in Seq(S)
      /\ Len(r \o q) = Len(r) + Len(q)
      /\ \A i \in 1 .. Len(r) + Len(q) :
           (r \o q)[i] = IF i <= Len(r) THEN r[i] ELSE q[i - Len(r)]
  BY <1>1, <1>2, ConcatProperties
<1>4. \A i \in 1 .. Len(s) - 1 : (r \o q)[i] = s[i]
  BY <1>1, <1>2, <1>3
<1>5. (r \o q)[Len(s)] = e
  BY <1>1, <1>2, <1>3
<1>6. (r \o q)[Len(s) + 1] = g
  BY <1>1, <1>2, <1>3
<1>. QED  BY <1>1, <1>2, <1>3, <1>4, <1>5, <1>6 DEF r, q

\* Of two sequences without repetitions that share nothing, the concatenation
\* has no repetition, and the members of both.
LEMMA ConcatInjective ==
  ASSUME NEW S, NEW s \in Seq(S), NEW t \in Seq(S),
         IsInjective(s), IsInjective(t), ToSet(s) \cap ToSet(t) = {}
  PROVE  IsInjective(s \o t) /\ ToSet(s \o t) = ToSet(s) \cup ToSet(t)
<1>. DEFINE c == s \o t
            m == Len(s)
            n == Len(t)
<1>1. /\ c \in Seq(S) /\ Len(c) = m + n /\ m \in Nat /\ n \in Nat
      /\ \A i \in 1 .. m + n : c[i] = IF i <= m THEN s[i] ELSE t[i - m]
  BY ConcatProperties, LenProperties
<1>2. /\ ToSet(s) = {s[i] : i \in 1 .. m} /\ ToSet(t) = {t[i] : i \in 1 .. n}
      /\ ToSet(c) = {c[i] : i \in 1 .. m + n}
      /\ DOMAIN c = 1 .. m + n /\ DOMAIN s = 1 .. m /\ DOMAIN t = 1 .. n
  BY <1>1, EntriesOf, LenProperties
<1>. HIDE DEF c, m, n
<1>3. \A i \in 1 .. m : i \in 1 .. m + n /\ c[i] = s[i]
  BY <1>1
<1>4. \A i \in 1 .. n : i + m \in 1 .. m + n /\ c[i + m] = t[i]
  BY <1>1
<1>5. \A i \in 1 .. m + n :
        (i \in 1 .. m /\ c[i] = s[i]) \/ (i - m \in 1 .. n /\ c[i] = t[i - m])
  BY <1>1
<1>6. ToSet(c) = ToSet(s) \cup ToSet(t)
  BY <1>2, <1>3, <1>4, <1>5
<1>7. IsInjective(c)
  <2>. SUFFICES ASSUME NEW i \in 1 .. m + n, NEW j \in 1 .. m + n, c[i] = c[j]
                PROVE  i = j
    BY <1>2 DEF IsInjective
  <2>1. CASE i \in 1 .. m /\ c[i] = s[i] /\ j \in 1 .. m /\ c[j] = s[j]
    BY <1>2, <2>1 DEF IsInjective
  <2>2. CASE i - m \in 1 .. n /\ c[i] = t[i - m] /\ j - m \in 1 .. n /\ c[j] = t[j - m]
    <3>1. i - m = j - m
      BY <1>2, <2>2 DEF IsInjective
    <3>. QED  BY <1>1, <3>1
  <2>3. CASE i \in 1 .. m /\ c[i] = s[i] /\ j - m \in 1 .. n /\ c[j] = t[j - m]
    BY <1>2, <2>3
  <2>4. CASE i - m \in 1 .. n /\ c[i] = t[i - m] /\ j \in 1 .. m /\ c[j] = s[j]
    BY <1>2, <2>4
  <2>. QED  BY <1>5, <2>1, <2>2, <2>3, <2>4
<1>. QED  BY <1>6, <1>7 DEF c

-----------------------------------------------------------------------------
(* The origins of one value under one key.                                 *)

\* The free indices are the NULL entries, each once.
Slots(o) ==
  /\ o.seq \in Seq(Objs \cup {Null})
  /\ o.empty \in Seq(Nat)
  /\ IsInjective(o.empty)
  /\ ToSet(o.empty) = {i \in DOMAIN o.seq : o.seq[i] = Null}

Named(o) == ToSet(o.seq) \ {Null}

\* rpc_struct_increment_cb adds a holder, overwrites none, and leaves the free
\* indices right.
LEMMA AddedSlots ==
  ASSUME NEW o, Slots(o), NEW s \in Objs
  PROVE  Slots(Added(o, s)) /\ Named(Added(o, s)) = Named(o) \cup {s}
<1>. DEFINE T == Objs \cup {Null}
            q == o.seq
            e == o.empty
            n == Len(q)
<1>1. /\ q \in Seq(T) /\ e \in Seq(Nat) /\ IsInjective(e)
      /\ ToSet(e) = {i \in DOMAIN q : q[i] = Null}
  BY DEF Slots
<1>2. n \in Nat /\ DOMAIN q = 1 .. n /\ ToSet(q) = {q[i] : i \in 1 .. n}
  BY <1>1, LenProperties, EntriesOf
<1>3. s \in T /\ s # Null
  BY StructAssumption
<1>4. CASE e = <<>>
  <2>. DEFINE r == Append(q, s)
  <2>1. Added(o, s).seq = r /\ Added(o, s).empty = <<>>
    BY <1>4 DEF Added
  <2>2. ToSet(<<>>) = {} /\ IsInjective(<<>>)
    BY DEF ToSet, IsInjective
  <2>3. /\ r \in Seq(T) /\ Len(r) = n + 1
        /\ \A i \in 1 .. n : r[i] = q[i]
        /\ r[n + 1] = s
    <3>. HIDE DEF q, T
    <3>. QED  BY <1>1, <1>3, AppendProperties
  <2>4. DOMAIN r = 1 .. n + 1 /\ ToSet(r) = {r[i] : i \in 1 .. n + 1}
    BY <2>3, LenProperties, EntriesOf
  <2>. HIDE DEF q, e, n, r, T
  <2>5. \A i \in 1 .. n : q[i] # Null
    BY <1>1, <1>2, <1>4, <2>2
  <2>6. \A i \in 1 .. n + 1 : r[i] # Null
    BY <1>2, <1>3, <2>3, <2>5
  <2>7. Slots(Added(o, s))
    BY <2>1, <2>2, <2>3, <2>4, <2>6 DEF Slots, T
  <2>8. ToSet(r) = ToSet(q) \cup {s}
    <3>1. \A i \in 1 .. n : i \in 1 .. n + 1
      BY <1>2
    <3>2. \A i \in 1 .. n + 1 : i \in 1 .. n \/ i = n + 1
      BY <1>2
    <3>3. n + 1 \in 1 .. n + 1
      BY <1>2
    <3>. QED  BY <1>2, <2>3, <2>4, <3>1, <3>2, <3>3
  <2>. QED  BY <1>3, <2>1, <2>7, <2>8 DEF Named, q
<1>5. CASE e # <<>>
  <2>. DEFINE h == Head(e)
              r == [q EXCEPT ![h] = s]
              f == Tail(e)
              m == Len(e)
  <2>1. Added(o, s).seq = r /\ Added(o, s).empty = f
    BY <1>5 DEF Added
  <2>2. /\ f \in Seq(Nat) /\ Len(f) = m - 1 /\ m \in Nat \ {0}
        /\ \A i \in 1 .. Len(f) : f[i] = e[i + 1]
        /\ h = e[1]
    BY <1>1, <1>5, HeadTailProperties, EmptySeq
  <2>3. /\ DOMAIN e = 1 .. m /\ ToSet(e) = {e[i] : i \in 1 .. m}
        /\ DOMAIN f = 1 .. m - 1 /\ ToSet(f) = {f[i] : i \in 1 .. m - 1}
    <3>1. DOMAIN e = 1 .. m /\ ToSet(e) = {e[i] : i \in 1 .. m}
      BY <1>1, LenProperties, EntriesOf
    <3>. HIDE DEF f, m
    <3>2. DOMAIN f = 1 .. Len(f) /\ ToSet(f) = {f[i] : i \in 1 .. Len(f)}
      BY <2>2, LenProperties, EntriesOf
    <3>. QED  BY <2>2, <3>1, <3>2
  <2>. HIDE DEF e, f, m, h
  <2>4. h \in 1 .. n /\ q[h] = Null
    <3>1. 1 \in 1 .. m
      BY <2>2
    <3>2. h \in ToSet(e)
      BY <2>2, <2>3, <3>1
    <3>. QED  BY <1>1, <1>2, <3>2
  <2>5. IsInjective(f)
    <3>. SUFFICES ASSUME NEW i \in 1 .. m - 1, NEW j \in 1 .. m - 1, f[i] = f[j]
                  PROVE  i = j
      BY <2>3 DEF IsInjective
    <3>1. i + 1 \in 1 .. m /\ j + 1 \in 1 .. m /\ e[i + 1] = e[j + 1]
      BY <2>2
    <3>2. i + 1 = j + 1
      BY <1>1, <2>3, <3>1 DEF IsInjective
    <3>. QED  BY <3>2
  <2>6. ToSet(f) = ToSet(e) \ {h}
    <3>1. \A i \in 1 .. m - 1 : i + 1 \in 1 .. m /\ f[i] = e[i + 1] /\ i + 1 # 1
      BY <2>2
    <3>2. \A i \in 1 .. m : i = 1 \/ (i - 1 \in 1 .. m - 1 /\ f[i - 1] = e[i])
      BY <2>2
    <3>3. \A i \in 1 .. m - 1 : f[i] # h
      <4>1. 1 \in 1 .. m
        BY <2>2
      <4>. QED  BY <1>1, <2>2, <2>3, <3>1, <4>1 DEF IsInjective
    <3>. QED  BY <2>2, <2>3, <3>1, <3>2, <3>3
  <2>7. /\ r \in Seq(T) /\ Len(r) = n
        /\ \A j \in 1 .. n : r[j] = IF j = h THEN s ELSE q[j]
    <3>. HIDE DEF q, T
    <3>. QED  BY <1>1, <1>3, <2>4, ExceptSeq
  <2>8. DOMAIN r = 1 .. n /\ ToSet(r) = {r[i] : i \in 1 .. n}
    <3>. HIDE DEF r, n
    <3>. QED  BY <2>7, LenProperties, EntriesOf
  <2>. HIDE DEF q, n, r, T
  <2>9. ToSet(f) = {i \in DOMAIN r : r[i] = Null}
    BY <1>1, <1>2, <1>3, <2>4, <2>6, <2>7, <2>8
  <2>10. ToSet(r) \ {Null} = (ToSet(q) \ {Null}) \cup {s}
    BY <1>2, <1>3, <2>4, <2>7, <2>8
  <2>. QED  BY <2>1, <2>2, <2>5, <2>7, <2>9, <2>10 DEF Named, Slots, q, T
<1>. QED  BY <1>4, <1>5

\* rpc_struct_decrement_cb takes a holder out and leaves the free indices right.
LEMMA DroppedSlots ==
  ASSUME NEW o, Slots(o), NEW s \in Objs
  PROVE  Slots(Dropped(o, s)) /\ Named(Dropped(o, s)) = Named(o) \ {s}
<1>. DEFINE T == Objs \cup {Null}
            q == o.seq
            e == o.empty
            gone == {i \in DOMAIN q : q[i] = s}
            r == [i \in DOMAIN q |-> IF i \in gone THEN Null ELSE q[i]]
            n == Len(r)
            a == Ascending(gone)
            b == Ascending(gone \ {n})
<1>1. /\ q \in Seq(T) /\ e \in Seq(Nat) /\ IsInjective(e)
      /\ ToSet(e) = {i \in DOMAIN q : q[i] = Null}
  BY DEF Slots
<1>2. Len(q) \in Nat /\ DOMAIN q = 1 .. Len(q) /\ ToSet(q) = {q[i] : i \in 1 .. Len(q)}
  BY <1>1, LenProperties, EntriesOf
<1>3. s # Null /\ Null \in T
  BY StructAssumption
<1>4. \A i \in 1 .. Len(q) : q[i] \in T
  BY <1>1, ElementOfSeq
<1>5. r \in Seq(T) /\ n = Len(q)
  BY <1>2, <1>4
<1>6. /\ n \in Nat /\ DOMAIN q = 1 .. n /\ ToSet(q) = {q[i] : i \in 1 .. n}
      /\ DOMAIN r = 1 .. n /\ ToSet(r) = {r[i] : i \in 1 .. n}
  BY <1>2, <1>5, EntriesOf
<1>7. /\ gone = {i \in 1 .. n : q[i] = s}
      /\ \A i \in 1 .. n : r[i] = IF i \in gone THEN Null ELSE q[i]
  BY <1>6
<1>8. Dropped(o, s) = IF n \notin gone THEN [seq |-> r, empty |-> e \o a]
                      ELSE IF n = 1 THEN [seq |-> <<>>, empty |-> <<>>]
                      ELSE [seq |-> Front(r), empty |-> e \o b]
  BY DEF Dropped
<1>. HIDE DEF T, q, e, gone, r, n, a, b
<1>9. /\ a \in Seq(Nat) /\ IsInjective(a) /\ ToSet(a) = gone
      /\ b \in Seq(Nat) /\ IsInjective(b) /\ ToSet(b) = gone \ {n}
  BY <1>6, <1>7, AscendingProperties DEF a, b
<1>10. CASE n \notin gone
  <2>1. Dropped(o, s).seq = r /\ Dropped(o, s).empty = e \o a
    BY <1>8, <1>10
  <2>2. ToSet(e) \cap gone = {}
    BY <1>1, <1>3, <1>7
  <2>3. /\ e \o a \in Seq(Nat) /\ IsInjective(e \o a)
        /\ ToSet(e \o a) = ToSet(e) \cup gone
    BY <1>1, <1>9, <2>2, ConcatInjective, ConcatProperties
  <2>4. ToSet(e) \cup gone = {i \in DOMAIN r : r[i] = Null}
    BY <1>1, <1>6, <1>7
  <2>5. ToSet(r) \ {Null} = (ToSet(q) \ {Null}) \ {s}
    BY <1>3, <1>6, <1>7
  <2>. QED  BY <1>5, <2>1, <2>3, <2>4, <2>5 DEF Slots, Named, T, q
<1>11. CASE n \in gone /\ n = 1
  <2>1. Dropped(o, s).seq = <<>> /\ Dropped(o, s).empty = <<>>
    BY <1>8, <1>11
  <2>2. ToSet(<<>>) = {} /\ IsInjective(<<>>) /\ DOMAIN <<>> = {}
    BY DEF ToSet, IsInjective
  <2>3. ToSet(q) = {s}
    BY <1>6, <1>7, <1>11
  <2>. QED  BY <1>3, <2>1, <2>2, <2>3 DEF Slots, Named, q
<1>12. CASE n \in gone /\ n # 1
  <2>. DEFINE t == Front(r)
  <2>1. Dropped(o, s).seq = t /\ Dropped(o, s).empty = e \o b
    BY <1>8, <1>12
  <2>2. n \in 1 .. n /\ r # <<>>
    BY <1>6, <1>7, <1>12
  <2>3. t \in Seq(T) /\ Len(t) = n - 1 /\ \A i \in 1 .. n - 1 : t[i] = r[i]
    BY <1>5, <2>2, FrontProperties DEF n
  <2>4. DOMAIN t = 1 .. n - 1 /\ ToSet(t) = {t[i] : i \in 1 .. n - 1}
    BY <2>3, LenProperties, EntriesOf
  <2>. HIDE DEF t
  <2>5. ToSet(e) \cap (gone \ {n}) = {}
    BY <1>1, <1>3, <1>7
  <2>6. /\ e \o b \in Seq(Nat) /\ IsInjective(e \o b)
        /\ ToSet(e \o b) = ToSet(e) \cup (gone \ {n})
    BY <1>1, <1>9, <2>5, ConcatInjective, ConcatProperties
  <2>7. \A i \in 1 .. n : i = n \/ i \in 1 .. n - 1
    BY <1>6
  <2>8. \A i \in 1 .. n - 1 : i \in 1 .. n /\ i # n
    BY <1>6
  <2>9. q[n] = s
    BY <1>7, <1>12
  <2>10. ToSet(e) \cup (gone \ {n}) = {i \in DOMAIN t : t[i] = Null}
    <3>1. \A i \in ToSet(e) : i \in 1 .. n - 1
      BY <1>1, <1>3, <1>6, <2>7, <2>9
    <3>2. \A i \in 1 .. n - 1 : t[i] = Null <=> (q[i] = Null \/ i \in gone)
      BY <1>7, <2>3, <2>8
    <3>. QED  BY <1>1, <1>6, <1>7, <2>4, <2>7, <2>8, <3>1, <3>2
  <2>11. ToSet(t) \ {Null} = (ToSet(q) \ {Null}) \ {s}
    <3>1. \A i \in 1 .. n - 1 : t[i] = IF q[i] = s THEN Null ELSE q[i]
      BY <1>7, <2>3, <2>8
    <3>. QED  BY <1>3, <1>6, <2>4, <2>7, <2>8, <2>9, <3>1
  <2>. QED  BY <2>1, <2>3, <2>6, <2>10, <2>11 DEF Slots, Named, T, q
<1>. QED  BY <1>10, <1>11, <1>12

-----------------------------------------------------------------------------
(* The actions, in terms of what the invariants speak of.                  *)

\* How a step changes the stack.
Pops == /\ Len(stack') = Len(stack) - 1
        /\ \A i \in 1 .. Len(stack) - 1 : stack'[i] = stack[i]
Replaces(e) == /\ Len(stack') = Len(stack)
               /\ \A i \in 1 .. Len(stack) - 1 : stack'[i] = stack[i]
               /\ stack'[Len(stack)] = e
Calls(e) == /\ Len(stack') = Len(stack) + 1
            /\ \A i \in 1 .. Len(stack) : stack'[i] = stack[i]
            /\ stack'[Len(stack) + 1] = e
ReplacesAndCalls(e, g) == /\ Len(stack') = Len(stack) + 1
                          /\ \A i \in 1 .. Len(stack) - 1 : stack'[i] = stack[i]
                          /\ stack'[Len(stack)] = e
                          /\ stack'[Len(stack) + 1] = g

\* f is the innermost call, of operation op.
AtTop(f, op) == /\ Len(stack) \in Nat \ {0}
                /\ f = stack[Len(stack)]
                /\ f \in Frame
                /\ f.op = op

\* What the type invariant says of the stack.
LEMMA StackType ==
  ASSUME TypeOK
  PROVE  /\ Len(stack) \in Nat
         /\ DOMAIN stack = 1 .. Len(stack)
         /\ ToSet(stack) = {stack[i] : i \in 1 .. Len(stack)}
         /\ \A i \in DOMAIN stack : /\ stack[i] \in Frame
                                    /\ stack[i].op \in Ops
                                    /\ stack[i].s \in Objs
                                    /\ stack[i].k \in Keys \cup {NoKey}
                                    /\ stack[i].left \subseteq Keys \X Objs
<1>1. stack \in Seq(Frame)
  BY DEF TypeOK
<1>2. Len(stack) \in Nat /\ DOMAIN stack = 1 .. Len(stack)
  BY <1>1, LenProperties
<1>3. \A i \in DOMAIN stack : stack[i] \in Frame
  BY <1>1, <1>2, ElementOfSeq
<1>4. ToSet(stack) = {stack[i] : i \in 1 .. Len(stack)}
  BY <1>1, EntriesOf
<1>5. \A f \in Frame : /\ f.op \in Ops /\ f.s \in Objs
                       /\ f.k \in Keys \cup {NoKey} /\ f.left \subseteq Keys \X Objs
  BY DEF Frame
<1>. QED  BY <1>2, <1>3, <1>4, <1>5

\* The calls that the actions make are calls.
LEMMA CallTypes ==
  /\ \A s \in Objs, k \in Keys : RemoveCall(s, k) \in Frame /\ UnlinkCall(s, k) \in Frame
  /\ \A x \in Objs : ContentsCall(x) \in Frame
  /\ \A x \in Objs : \A o : ZeroCall(x, o) \in Frame
<1>1. \A s \in Objs, k \in Keys : RemoveCall(s, k) \in Frame /\ UnlinkCall(s, k) \in Frame
  BY DEF RemoveCall, UnlinkCall, Frame, Ops
<1>2. \A x \in Objs : ContentsCall(x) \in Frame
  BY DEF ContentsCall, Frame, Ops
<1>3. ASSUME NEW x \in Objs, NEW o  PROVE ZeroCall(x, o) \in Frame
  <2>. DEFINE l == OriginsToLeave(o)
  <2>0. \A A, B : A \cap B \in SUBSET B
    OBVIOUS
  <2>1. l \in SUBSET (Keys \X Objs)
    BY <2>0, Zenon DEF OriginsToLeave
  <2>. HIDE DEF l
  <2>2. ZeroCall(x, o) = [op |-> "zero", s |-> x, k |-> NoKey, left |-> l]
    BY DEF ZeroCall, l
  <2>. QED  BY <2>1, <2>2 DEF Frame, Ops
<1>. QED  BY <1>1, <1>2, <1>3

\* The fields of those calls.
LEMMA CallFields ==
  /\ \A s, k : /\ RemoveCall(s, k).op = "remove" /\ RemoveCall(s, k).s = s
               /\ RemoveCall(s, k).k = k
               /\ UnlinkCall(s, k).op = "unlink" /\ UnlinkCall(s, k).s = s
               /\ UnlinkCall(s, k).k = k
  /\ \A x : ContentsCall(x).op = "contents" /\ ContentsCall(x).s = x
  /\ \A x, o : /\ ZeroCall(x, o).op = "zero" /\ ZeroCall(x, o).s = x
               /\ ZeroCall(x, o).left = OriginsToLeave(o)
BY DEF RemoveCall, UnlinkCall, ContentsCall, ZeroCall

\* The innermost call.
LEMMA RunningTop ==
  ASSUME TypeOK, NEW f, NEW op, Running(f, op)
  PROVE  AtTop(f, op) /\ stack # <<>> /\ stack \in Seq(Frame)
<1>1. stack \in Seq(Frame) /\ stack # <<>>
  BY DEF TypeOK, Running
<1>. QED  BY <1>1, FrontProperties DEF Running, AtTop

\* The structs and keys that a call of rpc_struct_onzero_cb leaves are those
\* that the origins name.
LEMMA ToLeave ==
  ASSUME NEW o \in [Keys -> Seq(Objs \cup {Null})], NEW s \in Objs, NEW k \in Keys
  PROVE  <<k, s>> \in OriginsToLeave(o) <=> s \in ToSet(o[k])
<1>. DEFINE F(j) == {<<j, o[j][i]>> : i \in DOMAIN o[j]}
<1>1. ToSet(o[k]) = {o[k][i] : i \in DOMAIN o[k]}
  BY DEF ToSet
<1>2. OriginsToLeave(o) = (UNION {F(j) : j \in Keys}) \cap (Keys \X Objs)
  BY DEF OriginsToLeave
<1>3. <<k, s>> \in F(k) <=> s \in ToSet(o[k])
  BY <1>1
<1>4. \A j \in Keys : <<k, s>> \in F(j) => j = k
  OBVIOUS
<1>. HIDE DEF F
<1>5. <<k, s>> \in UNION {F(j) : j \in Keys} <=> <<k, s>> \in F(k)
  BY <1>4, Zenon
<1>6. <<k, s>> \in Keys \X Objs
  OBVIOUS
<1>. DEFINE U == UNION {F(j) : j \in Keys}
<1>. HIDE DEF U
<1>7. <<k, s>> \in U \cap (Keys \X Objs) <=> s \in ToSet(o[k])
  BY <1>3, <1>5, <1>6, Zenon DEF U
<1>. QED  BY <1>2, <1>7, Zenon DEF U

\* The origins of a value in a state with its types and slots.
LEMMA OriginsSlots ==
  ASSUME TypeOK, SlotsAccounted, NEW x \in Objs, NEW k \in Keys
  PROVE  /\ Slots(OriginsOf(x, k))
         /\ Named(OriginsOf(x, k)) = Recorded(x, k)
         /\ OriginsOf(x, k).seq = origins[x][k] /\ OriginsOf(x, k).empty = empty[x][k]
<1>1. origins[x][k] \in Seq(Objs \cup {Null}) /\ empty[x][k] \in Seq(Nat)
  BY DEF TypeOK
<1>2. OriginsOf(x, k).seq = origins[x][k] /\ OriginsOf(x, k).empty = empty[x][k]
  BY DEF OriginsOf
<1>. QED  BY <1>1, <1>2 DEF SlotsAccounted, Slots, Named, Recorded

\* The innermost call returns.
LEMMA PopsEffect ==
  ASSUME TypeOK, stack # <<>>, stack' = Caller
  PROVE  Pops /\ stack' \in Seq(Frame)
<1>1. stack \in Seq(Frame)
  BY DEF TypeOK
<1>. QED  BY <1>1, FrontProperties DEF Pops, Caller

\* The innermost call goes on as another.
LEMMA ReplacesEffect ==
  ASSUME TypeOK, stack # <<>>, NEW e \in Frame, stack' = Append(Caller, e)
  PROVE  Replaces(e) /\ stack' \in Seq(Frame)
<1>1. stack \in Seq(Frame)
  BY DEF TypeOK
<1>. QED  BY <1>1, ReplaceTop DEF Replaces, Caller

\* The innermost call, or the application, makes a call.
LEMMA CallsEffect ==
  ASSUME TypeOK, NEW e \in Frame,
         stack' = Append(stack, e) \/ (Quiet /\ stack' = <<e>>)
  PROVE  Calls(e) /\ stack' \in Seq(Frame)
<1>1. stack \in Seq(Frame)
  BY DEF TypeOK
<1>2. CASE stack' = Append(stack, e)
  BY <1>1, <1>2, AppendProperties DEF Calls
<1>3. CASE Quiet /\ stack' = <<e>>
  <2>1. Len(stack) = 0 /\ Len(stack') = 1 /\ stack'[1] = e
    BY <1>3 DEF Quiet
  <2>2. stack' \in Seq(Frame)
    BY <1>3
  <2>. QED  BY <2>1, <2>2 DEF Calls
<1>. QED  BY <1>2, <1>3

\* The innermost call goes on as another, which makes a call.
LEMMA ReplacesAndCallsEffect ==
  ASSUME TypeOK, stack # <<>>, NEW e \in Frame, NEW g \in Frame,
         stack' = Caller \o <<e, g>>
  PROVE  ReplacesAndCalls(e, g) /\ stack' \in Seq(Frame)
<1>1. stack \in Seq(Frame)
  BY DEF TypeOK
<1>. QED  BY <1>1, ReplaceTopAndCall DEF ReplacesAndCalls, Caller

\* rpc_struct_remove of a counted value: its origins lose the struct, and the
\* element is unlinked at once or, if that was the last reference, later.
LEMMA RemoveCountedEffect ==
  ASSUME TypeOK, StackInv, SlotsAccounted, NEW f, RemoveCounted(f)
  PROVE  /\ AtTop(f, "remove") /\ f.s \in Objs /\ f.k \in Keys
         /\ map[f.s][f.k] \in Objs /\ map[f.s][f.k] \in tracked
         /\ refcount' = [refcount EXCEPT ![map[f.s][f.k]] = refcount[map[f.s][f.k]] - 1]
         /\ \E o : /\ Slots(o) /\ Named(o) = Recorded(map[f.s][f.k], f.k) \ {f.s}
                   /\ origins' = [origins EXCEPT ![map[f.s][f.k]][f.k] = o.seq]
                   /\ empty' = [empty EXCEPT ![map[f.s][f.k]][f.k] = o.empty]
         /\ \/ /\ refcount[map[f.s][f.k]] - 1 > 0
               /\ map' = ElementRemoved(f.s, f.k)
               /\ Pops /\ tracked' = tracked
            \/ /\ refcount[map[f.s][f.k]] - 1 = 0
               /\ map' = map
               /\ ReplacesAndCalls(UnlinkCall(f.s, f.k),
                                   ZeroCall(map[f.s][f.k], origins'[map[f.s][f.k]]))
               /\ tracked' = tracked \ {map[f.s][f.k]}
         /\ stack' \in Seq(Frame)
         /\ live' = live /\ shared' = shared
<1>. DEFINE x == map[f.s][f.k]
            o == Dropped(OriginsOf(x, f.k), f.s)
<1>1. AtTop(f, "remove") /\ stack # <<>>
  BY RunningTop DEF RemoveCounted
<1>2. f.s \in Objs /\ f.k \in Keys
  <2>1. Len(stack) \in DOMAIN stack
    BY <1>1, StackType DEF AtTop
  <2>. QED  BY <1>1, <2>1, StackType DEF AtTop, StackInv, OnElement
<1>3. x \in tracked /\ x \in Objs
  BY DEF RemoveCounted, TypeOK
<1>4. Slots(o) /\ Named(o) = Recorded(x, f.k) \ {f.s}
  BY <1>2, <1>3, OriginsSlots, DroppedSlots
<1>5. /\ refcount' = [refcount EXCEPT ![x] = refcount[x] - 1]
      /\ origins' = [origins EXCEPT ![x][f.k] = o.seq]
      /\ empty' = [empty EXCEPT ![x][f.k] = o.empty]
      /\ live' = live /\ shared' = shared
      /\ \/ /\ refcount[x] - 1 > 0
            /\ map' = ElementRemoved(f.s, f.k)
            /\ stack' = Caller
            /\ tracked' = tracked
         \/ /\ refcount[x] - 1 = 0
            /\ stack' = Caller \o <<UnlinkCall(f.s, f.k), ZeroCall(x, origins'[x])>>
            /\ tracked' = tracked \ {x}
            /\ map' = map
  BY Zenon DEF RemoveCounted, Untracked
<1>6. UnlinkCall(f.s, f.k) \in Frame /\ ZeroCall(x, origins'[x]) \in Frame
  BY <1>2, <1>3, CallTypes
<1>7. \E p : /\ Slots(p) /\ Named(p) = Recorded(x, f.k) \ {f.s}
             /\ origins' = [origins EXCEPT ![x][f.k] = p.seq]
             /\ empty' = [empty EXCEPT ![x][f.k] = p.empty]
  <2>. HIDE DEF o
  <2>. QED  BY <1>4, <1>5
<1>. HIDE DEF o
<1>8. /\ stack' \in Seq(Frame)
      /\ \/ /\ refcount[x] - 1 > 0
            /\ map' = ElementRemoved(f.s, f.k)
            /\ Pops /\ tracked' = tracked
         \/ /\ refcount[x] - 1 = 0
            /\ map' = map
            /\ ReplacesAndCalls(UnlinkCall(f.s, f.k), ZeroCall(x, origins'[x]))
            /\ tracked' = tracked \ {x}
  BY <1>1, <1>5, <1>6, PopsEffect, ReplacesAndCallsEffect, Zenon
<1>. QED  BY <1>1, <1>2, <1>3, <1>5, <1>7, <1>8, Zenon

\* The end of rpc_struct_remove, and rpc_struct_remove of a value without record.
LEMMA UnlinkedEffect ==
  ASSUME TypeOK, StackInv, NEW f, RemoveUncounted(f) \/ Unlink(f)
  PROVE  /\ \/ AtTop(f, "remove") /\ map[f.s][f.k] \notin tracked
            \/ AtTop(f, "unlink")
         /\ f.s \in Objs /\ f.k \in Keys
         /\ map' = ElementRemoved(f.s, f.k)
         /\ Pops /\ stack' \in Seq(Frame)
         /\ live' = live /\ tracked' = tracked /\ refcount' = refcount
         /\ origins' = origins /\ empty' = empty /\ shared' = shared
<1>1. stack # <<>> /\ (AtTop(f, "unlink") \/ (AtTop(f, "remove") /\ map[f.s][f.k] \notin tracked))
  BY RunningTop DEF RemoveUncounted, Unlink
<1>2. f.s \in Objs /\ f.k \in Keys
  <2>1. Len(stack) \in DOMAIN stack
    BY <1>1, StackType DEF AtTop
  <2>. QED  BY <1>1, <2>1, StackType DEF AtTop, StackInv, OnElement
<1>3. stack' = Caller /\ map' = ElementRemoved(f.s, f.k)
  BY DEF RemoveUncounted, Unlink
<1>4. Pops /\ stack' \in Seq(Frame)
  BY <1>1, <1>3, PopsEffect
<1>. QED  BY <1>1, <1>2, <1>3, <1>4 DEF RemoveUncounted, Unlink

\* rpc_struct_onzero_cb takes the value out of one of the structs that hold it.
LEMMA LeaveOriginEffect ==
  ASSUME TypeOK, NEW f, LeaveOrigin(f)
  PROVE  /\ AtTop(f, "zero") /\ f.s \in Objs
         /\ \E p \in f.left :
              /\ p = <<p[1], p[2]>> /\ p[1] \in Keys /\ p[2] \in Objs
              /\ ReplacesAndCalls([f EXCEPT !.left = f.left \ {p}], RemoveCall(p[2], p[1]))
              /\ [f EXCEPT !.left = f.left \ {p}].op = "zero"
              /\ [f EXCEPT !.left = f.left \ {p}].s = f.s
              /\ [f EXCEPT !.left = f.left \ {p}].left = f.left \ {p}
         /\ stack' \in Seq(Frame)
         /\ live' = live /\ map' = map /\ tracked' = tracked /\ refcount' = refcount
         /\ origins' = origins /\ empty' = empty /\ shared' = shared
<1>1. PICK p \in f.left :
         /\ Running(f, "zero")
         /\ stack' = Caller \o <<[f EXCEPT !.left = f.left \ {p}], RemoveCall(p[2], p[1])>>
         /\ UNCHANGED <<live, map, tracked, refcount, origins, empty, shared>>
  BY DEF LeaveOrigin
<1>2. AtTop(f, "zero") /\ stack # <<>>
  BY <1>1, RunningTop
<1>3. f \in Frame /\ f.op = "zero" /\ f.s \in Objs /\ f.left \in SUBSET (Keys \X Objs)
  BY <1>2 DEF AtTop, Frame
<1>4. p = <<p[1], p[2]>> /\ p[1] \in Keys /\ p[2] \in Objs
  BY <1>3
<1>. DEFINE g == [f EXCEPT !.left = f.left \ {p}]
<1>5. g \in Frame /\ g.op = "zero" /\ g.s = f.s /\ g.left = f.left \ {p}
  BY <1>3 DEF Frame
<1>6. RemoveCall(p[2], p[1]) \in Frame
  BY <1>4, CallTypes
<1>. HIDE DEF g
<1>7. ReplacesAndCalls(g, RemoveCall(p[2], p[1])) /\ stack' \in Seq(Frame)
  BY <1>1, <1>2, <1>5, <1>6, ReplacesAndCallsEffect DEF g
<1>. QED  BY <1>1, <1>2, <1>3, <1>4, <1>5, <1>7 DEF g

\* The record is destroyed, and the value's contents are freed.
LEMMA DestroyRecordEffect ==
  ASSUME TypeOK, NEW f, DestroyRecord(f)
  PROVE  /\ AtTop(f, "zero") /\ f.s \in Objs /\ f.left = {}
         /\ Replaces(ContentsCall(f.s)) /\ stack' \in Seq(Frame)
         /\ refcount' = [refcount EXCEPT ![f.s] = 0]
         /\ origins' = [origins EXCEPT ![f.s] = [k \in Keys |-> <<>>]]
         /\ empty' = [empty EXCEPT ![f.s] = [k \in Keys |-> <<>>]]
         /\ live' = live /\ map' = map /\ tracked' = tracked /\ shared' = shared
<1>1. AtTop(f, "zero") /\ stack # <<>>
  BY RunningTop DEF DestroyRecord
<1>2. f.s \in Objs
  BY <1>1 DEF AtTop, Frame
<1>3. Replaces(ContentsCall(f.s)) /\ stack' \in Seq(Frame)
  BY <1>1, <1>2, CallTypes, ReplacesEffect DEF DestroyRecord
<1>. QED  BY <1>1, <1>2, <1>3 DEF DestroyRecord

\* An element of a struct that is freed is removed.
LEMMA RemoveElementEffect ==
  ASSUME TypeOK, NEW f, RemoveElement(f)
  PROVE  /\ AtTop(f, "contents") /\ f.s \in Objs
         /\ \E k \in Keys : map[f.s][k] # Null /\ Calls(RemoveCall(f.s, k))
         /\ stack' \in Seq(Frame)
         /\ live' = live /\ map' = map /\ tracked' = tracked /\ refcount' = refcount
         /\ origins' = origins /\ empty' = empty /\ shared' = shared
<1>1. PICK k \in Keys :
         /\ Running(f, "contents")
         /\ map[f.s][k] # Null
         /\ stack' = Append(stack, RemoveCall(f.s, k))
         /\ UNCHANGED <<live, map, tracked, refcount, origins, empty, shared>>
  BY DEF RemoveElement
<1>2. AtTop(f, "contents")
  BY <1>1, RunningTop
<1>3. f.s \in Objs
  BY <1>2 DEF AtTop, Frame
<1>4. Calls(RemoveCall(f.s, k)) /\ stack' \in Seq(Frame)
  BY <1>1, <1>3, CallTypes, CallsEffect
<1>. QED  BY <1>1, <1>2, <1>3, <1>4

\* A struct without elements is freed.
LEMMA FreeStructEffect ==
  ASSUME TypeOK, NEW f, FreeStruct(f)
  PROVE  /\ AtTop(f, "contents") /\ f.s \in Objs
         /\ \A k \in Keys : map[f.s][k] = Null
         /\ Pops /\ stack' \in Seq(Frame)
         /\ live' = live \ {f.s} /\ shared' = shared \ {f.s}
         /\ map' = map /\ tracked' = tracked /\ refcount' = refcount
         /\ origins' = origins /\ empty' = empty
<1>1. AtTop(f, "contents") /\ stack # <<>>
  BY RunningTop DEF FreeStruct
<1>2. f.s \in Objs
  BY <1>1 DEF AtTop, Frame
<1>3. Pops /\ stack' \in Seq(Frame)
  BY <1>1, PopsEffect DEF FreeStruct
<1>. QED  BY <1>1, <1>2, <1>3 DEF FreeStruct

\* rpc_struct_set_internal: the value is tracked, and its origins gain the struct.
LEMMA SetEffect ==
  ASSUME TypeOK, SlotsAccounted, NEW s \in Objs, NEW x \in Objs, NEW k \in Keys, Set(s, k, x)
  PROVE  /\ Quiet /\ s \in live /\ x \in live /\ map[s][k] = Null
         /\ map' = [map EXCEPT ![s][k] = x]
         /\ tracked' = tracked \cup {x}
         /\ refcount' = [refcount EXCEPT ![x] = refcount[x] + 1]
         /\ \E o : /\ Slots(o) /\ Named(o) = Recorded(x, k) \cup {s}
                   /\ origins' = [origins EXCEPT ![x][k] = o.seq]
                   /\ empty' = [empty EXCEPT ![x][k] = o.empty]
         /\ live' = live /\ stack' = stack /\ shared' = shared
<1>. DEFINE o == Added(OriginsOf(x, k), s)
<1>1. Slots(o) /\ Named(o) = Recorded(x, k) \cup {s}
  BY OriginsSlots, AddedSlots
<1>2. /\ origins' = [origins EXCEPT ![x][k] = o.seq]
      /\ empty' = [empty EXCEPT ![x][k] = o.empty]
  BY DEF Set
<1>. HIDE DEF o
<1>3. \E q : /\ Slots(q) /\ Named(q) = Recorded(x, k) \cup {s}
             /\ origins' = [origins EXCEPT ![x][k] = q.seq]
             /\ empty' = [empty EXCEPT ![x][k] = q.empty]
  BY <1>1, <1>2
<1>. QED  BY <1>3 DEF Set, Counted

\* rpc_struct_copy: the values' origins gain the copy, in two entries each.
LEMMA CopyEffect ==
  ASSUME TypeOK, SlotsAccounted, NEW s \in Objs, NEW c \in Objs, Copy(s, c)
  PROVE  /\ Quiet /\ s \in live /\ c \notin live
         /\ live' = live \cup {c}
         /\ map' = [map EXCEPT ![c] = map[s]]
         /\ refcount' = [x \in Objs |->
                           refcount[x] + 2 * Cardinality({k \in Keys : map[s][k] = x})]
         /\ DOMAIN origins' = Objs /\ DOMAIN empty' = Objs
         /\ \A x \in Objs :
              /\ origins'[x] = [k \in Keys |-> origins'[x][k]]
              /\ empty'[x] = [k \in Keys |-> empty'[x][k]]
         /\ \A x \in Objs, k \in Keys :
              IF x = map[s][k]
              THEN \E o : /\ Slots(o) /\ Named(o) = Recorded(x, k) \cup {c}
                          /\ origins'[x][k] = o.seq /\ empty'[x][k] = o.empty
              ELSE origins'[x][k] = origins[x][k] /\ empty'[x][k] = empty[x][k]
         /\ shared' = shared \cup ({map[s][k] : k \in Keys} \ {Null})
         /\ tracked' = tracked /\ stack' = stack
<1>. DEFINE twice(x, k) == Added(Added(OriginsOf(x, k), c), c)
            o == [x \in Objs |-> [k \in Keys |->
                    IF x = map[s][k] THEN twice(x, k) ELSE OriginsOf(x, k)]]
<1>1. /\ origins' = [x \in Objs |-> [k \in Keys |-> o[x][k].seq]]
      /\ empty' = [x \in Objs |-> [k \in Keys |-> o[x][k].empty]]
  BY DEF Copy
<1>2. \A x \in Objs, k \in Keys :
        o[x][k] = IF x = map[s][k] THEN twice(x, k) ELSE OriginsOf(x, k)
  OBVIOUS
<1>3. ASSUME NEW x \in Objs, NEW k \in Keys
      PROVE  Slots(twice(x, k)) /\ Named(twice(x, k)) = Recorded(x, k) \cup {c}
  <2>1. Slots(OriginsOf(x, k)) /\ Named(OriginsOf(x, k)) = Recorded(x, k)
    BY OriginsSlots
  <2>2. /\ Slots(Added(OriginsOf(x, k), c))
        /\ Named(Added(OriginsOf(x, k), c)) = Recorded(x, k) \cup {c}
    BY <2>1, AddedSlots
  <2>3. /\ Slots(twice(x, k))
        /\ Named(twice(x, k)) = (Recorded(x, k) \cup {c}) \cup {c}
    BY <2>2, AddedSlots
  <2>. QED  BY <2>3
<1>. HIDE DEF twice, o
<1>4. \A x \in Objs, k \in Keys :
        origins'[x][k] = o[x][k].seq /\ empty'[x][k] = o[x][k].empty
  BY <1>1
<1>5. /\ DOMAIN origins' = Objs /\ DOMAIN empty' = Objs
      /\ \A x \in Objs : /\ origins'[x] = [k \in Keys |-> origins'[x][k]]
                         /\ empty'[x] = [k \in Keys |-> empty'[x][k]]
  BY <1>1
<1>6. ASSUME NEW x \in Objs, NEW k \in Keys
      PROVE  IF x = map[s][k]
             THEN \E q : /\ Slots(q) /\ Named(q) = Recorded(x, k) \cup {c}
                         /\ origins'[x][k] = q.seq /\ empty'[x][k] = q.empty
             ELSE origins'[x][k] = origins[x][k] /\ empty'[x][k] = empty[x][k]
  <2>1. CASE x = map[s][k]
    BY <1>2, <1>3, <1>4, <2>1
  <2>2. CASE x # map[s][k]
    BY <1>2, <1>4, <2>2, OriginsSlots
  <2>. QED  BY <2>1, <2>2
<1>. QED  BY <1>5, <1>6 DEF Copy

\* rpc_struct_remove is called.
LEMMA RemoveKeyEffect ==
  ASSUME TypeOK, NEW s \in Objs, NEW k \in Keys, RemoveKey(s, k)
  PROVE  /\ Quiet /\ s \in live /\ map[s][k] # Null
         /\ RemoveFromCycles \/ ~LeadsTo(map[s][k], s)
         /\ Calls(RemoveCall(s, k)) /\ stack' \in Seq(Frame)
         /\ live' = live /\ map' = map /\ tracked' = tracked /\ refcount' = refcount
         /\ origins' = origins /\ empty' = empty /\ shared' = shared
<1>1. RemoveCall(s, k) \in Frame
  BY CallTypes
<1>. QED  BY <1>1, CallsEffect DEF RemoveKey

\* rpc_struct_free is called.
LEMMA FreeEffect ==
  ASSUME TypeOK, NEW x \in Objs, Free(x)
  PROVE  /\ Quiet /\ x \in live
         /\ \/ x \in tracked /\ Calls(ZeroCall(x, origins[x]))
            \/ x \notin tracked /\ Calls(ContentsCall(x))
         /\ tracked' = tracked \ {x} /\ stack' \in Seq(Frame)
         /\ live' = live /\ map' = map /\ refcount' = refcount
         /\ origins' = origins /\ empty' = empty /\ shared' = shared
<1>1. ZeroCall(x, origins[x]) \in Frame /\ ContentsCall(x) \in Frame
  BY CallTypes
<1>2. CASE x \in tracked
  <2>1. stack' = <<ZeroCall(x, origins[x])>> /\ Quiet
    BY <1>2 DEF Free
  <2>2. Calls(ZeroCall(x, origins[x])) /\ stack' \in Seq(Frame)
    BY <1>1, <2>1, CallsEffect
  <2>. QED  BY <1>2, <2>2 DEF Free, Untracked
<1>3. CASE x \notin tracked
  <2>1. stack' = <<ContentsCall(x)>> /\ Quiet
    BY <1>3 DEF Free
  <2>2. Calls(ContentsCall(x)) /\ stack' \in Seq(Frame)
    BY <1>1, <2>1, CallsEffect
  <2>. QED  BY <1>3, <2>2 DEF Free, Untracked
<1>. QED  BY <1>2, <1>3

\* The steps.
LEMMA NextCases ==
  ASSUME [Next]_vars
  PROVE  \/ \E x \in Objs : Create(x) \/ Free(x)
         \/ \E s, x \in Objs, k \in Keys : Set(s, k, x)
         \/ \E s, c \in Objs : Copy(s, c)
         \/ \E s \in Objs, k \in Keys : RemoveKey(s, k)
         \/ \E f : RemoveCounted(f)
         \/ \E f : RemoveUncounted(f) \/ Unlink(f)
         \/ \E f : LeaveOrigin(f)
         \/ \E f : DestroyRecord(f)
         \/ \E f : RemoveElement(f)
         \/ \E f : FreeStruct(f)
         \/ UNCHANGED vars
BY DEF Next, Call

-----------------------------------------------------------------------------
\* One entry of a table changes.
LEMMA UpdateEntry ==
  ASSUME NEW A, NEW B, NEW C, NEW t \in [A -> [B -> C]], NEW a \in A, NEW b \in B, NEW c \in C
  PROVE  /\ [t EXCEPT ![a][b] = c] \in [A -> [B -> C]]
         /\ \A i \in A, j \in B :
              [t EXCEPT ![a][b] = c][i][j] = IF i = a /\ j = b THEN c ELSE t[i][j]
OBVIOUS

\* An element is removed.
LEMMA ElementRemovedEntries ==
  ASSUME TypeOK, NEW s \in Objs, NEW k \in Keys
  PROVE  /\ ElementRemoved(s, k) \in [Objs -> [Keys -> Objs \cup {Null}]]
         /\ \A a \in Objs, b \in Keys :
              ElementRemoved(s, k)[a][b] = IF a = s /\ b = k THEN Null ELSE map[a][b]
<1>1. map \in [Objs -> [Keys -> Objs \cup {Null}]]
  BY DEF TypeOK
<1>. QED  BY <1>1, UpdateEntry DEF ElementRemoved

\* Every step keeps the types.
LEMMA TypeStep ==
  ASSUME Inv, [Next]_vars
  PROVE  TypeOK'
<1>t. /\ TypeOK /\ StackInv /\ SlotsAccounted /\ CountInv
      /\ live \subseteq Objs
      /\ map \in [Objs -> [Keys -> Objs \cup {Null}]]
      /\ tracked \subseteq Objs
      /\ refcount \in [Objs -> Nat]
      /\ origins \in [Objs -> [Keys -> Seq(Objs \cup {Null})]]
      /\ empty \in [Objs -> [Keys -> Seq(Nat)]]
      /\ stack \in Seq(Frame)
      /\ shared \subseteq Objs
  BY DEF Inv, CallsInv, TypeOK
<1>o. \A o : Slots(o) => o.seq \in Seq(Objs \cup {Null}) /\ o.empty \in Seq(Nat)
  BY DEF Slots
<1>1. ASSUME NEW x \in Objs, Create(x)  PROVE TypeOK'
  BY <1>t, <1>1 DEF Create, TypeOK
<1>2. ASSUME NEW x \in Objs, Free(x)  PROVE TypeOK'
  BY <1>t, <1>2, FreeEffect DEF TypeOK
<1>3. ASSUME NEW s \in Objs, NEW x \in Objs, NEW k \in Keys, Set(s, k, x)  PROVE TypeOK'
  <2>1. map' = [map EXCEPT ![s][k] = x]
    BY <1>t, <1>3, SetEffect
  <2>2. map' \in [Objs -> [Keys -> Objs \cup {Null}]]
    BY <1>t, <2>1
  <2>3. PICK o : /\ Slots(o)
                 /\ origins' = [origins EXCEPT ![x][k] = o.seq]
                 /\ empty' = [empty EXCEPT ![x][k] = o.empty]
    <3>0. TypeOK /\ SlotsAccounted
      BY <1>t
    <3>1. \E o : /\ Slots(o) /\ Named(o) = Recorded(x, k) \cup {s}
                 /\ origins' = [origins EXCEPT ![x][k] = o.seq]
                 /\ empty' = [empty EXCEPT ![x][k] = o.empty]
      BY <1>3, <3>0, SetEffect
    <3>. QED  BY <3>1
  <2>4. origins' \in [Objs -> [Keys -> Seq(Objs \cup {Null})]]
    BY <1>t, <1>o, <2>3
  <2>5. empty' \in [Objs -> [Keys -> Seq(Nat)]]
    BY <1>t, <1>o, <2>3
  <2>8. tracked' = tracked \cup {x} /\ refcount' = [refcount EXCEPT ![x] = refcount[x] + 1]
    BY <1>t, <1>3, SetEffect, Zenon
  <2>6. refcount' \in [Objs -> Nat] /\ tracked' \subseteq Objs
    BY <1>t, <2>8
  <2>7. live' \subseteq Objs /\ stack' \in Seq(Frame) /\ shared' \subseteq Objs
    BY <1>t, <1>3, SetEffect
  <2>. QED  BY <2>2, <2>4, <2>5, <2>6, <2>7 DEF TypeOK
<1>4. ASSUME NEW s \in Objs, NEW c \in Objs, Copy(s, c)  PROVE TypeOK'
  <2>1. /\ map' = [map EXCEPT ![c] = map[s]]
        /\ live' = live \cup {c} /\ tracked' = tracked /\ stack' = stack
        /\ shared' = shared \cup ({map[s][k] : k \in Keys} \ {Null})
    BY <1>t, <1>4, CopyEffect
  <2>2. map' \in [Objs -> [Keys -> Objs \cup {Null}]]
    BY <1>t, <2>1
  <2>3. shared' \subseteq Objs /\ live' \subseteq Objs
    BY <1>t, <2>1
  <2>4. refcount' \in [Objs -> Nat]
    <3>1. \A x \in Objs : Cardinality({k \in Keys : map[s][k] = x}) \in Nat
      <4>1. \A x : IsFiniteSet({k \in Keys : map[s][k] = x})
        BY StructAssumption, FS_Subset
      <4>. QED  BY <4>1, FS_CardinalityType
    <3>2. refcount' = [x \in Objs |->
                         refcount[x] + 2 * Cardinality({k \in Keys : map[s][k] = x})]
      BY <1>t, <1>4, CopyEffect
    <3>3. \A x \in Objs :
            refcount[x] + 2 * Cardinality({k \in Keys : map[s][k] = x}) \in Nat
      BY <1>t, <3>1
    <3>. QED  BY <3>2, <3>3
  <2>5. ASSUME NEW x \in Objs, NEW k \in Keys
        PROVE  origins'[x][k] \in Seq(Objs \cup {Null}) /\ empty'[x][k] \in Seq(Nat)
    <3>1. IF x = map[s][k]
          THEN \E o : Slots(o) /\ origins'[x][k] = o.seq /\ empty'[x][k] = o.empty
          ELSE origins'[x][k] = origins[x][k] /\ empty'[x][k] = empty[x][k]
      BY <1>t, <1>4, CopyEffect
    <3>2. CASE x = map[s][k]
      BY <1>o, <3>1, <3>2
    <3>3. CASE x # map[s][k]
      BY <1>t, <3>1, <3>3
    <3>. QED  BY <3>2, <3>3
  <2>6. /\ DOMAIN origins' = Objs /\ DOMAIN empty' = Objs
        /\ \A x \in Objs :
             /\ origins'[x] = [k \in Keys |-> origins'[x][k]]
             /\ empty'[x] = [k \in Keys |-> empty'[x][k]]
    BY <1>t, <1>4, CopyEffect
  <2>7. \A x \in Objs : /\ origins'[x] \in [Keys -> Seq(Objs \cup {Null})]
                        /\ empty'[x] \in [Keys -> Seq(Nat)]
    BY <2>5, <2>6
  <2>8. /\ origins' = [x \in Objs |-> origins'[x]]
        /\ empty' = [x \in Objs |-> empty'[x]]
    BY <1>t, <1>4 DEF Copy
  <2>9. /\ origins' \in [Objs -> [Keys -> Seq(Objs \cup {Null})]]
        /\ empty' \in [Objs -> [Keys -> Seq(Nat)]]
    BY <2>7, <2>8
  <2>. QED  BY <1>t, <2>1, <2>2, <2>3, <2>4, <2>9 DEF TypeOK
<1>5. ASSUME NEW s \in Objs, NEW k \in Keys, RemoveKey(s, k)  PROVE TypeOK'
  BY <1>t, <1>5, RemoveKeyEffect DEF TypeOK
<1>6. ASSUME NEW f, RemoveCounted(f)  PROVE TypeOK'
  <2>. DEFINE x == map[f.s][f.k]
  <2>1. /\ f.s \in Objs /\ f.k \in Keys /\ x \in Objs /\ x \in tracked
        /\ refcount' = [refcount EXCEPT ![x] = refcount[x] - 1]
        /\ map' = ElementRemoved(f.s, f.k) \/ map' = map
        /\ tracked' \subseteq tracked
        /\ stack' \in Seq(Frame) /\ live' = live /\ shared' = shared
    BY <1>t, <1>6, RemoveCountedEffect
  <2>2. PICK o : /\ Slots(o)
                 /\ origins' = [origins EXCEPT ![x][f.k] = o.seq]
                 /\ empty' = [empty EXCEPT ![x][f.k] = o.empty]
    BY <1>t, <1>6, RemoveCountedEffect
  <2>. HIDE DEF x
  <2>3. origins' \in [Objs -> [Keys -> Seq(Objs \cup {Null})]]
    BY <1>t, <1>o, <2>1, <2>2
  <2>4. empty' \in [Objs -> [Keys -> Seq(Nat)]]
    BY <1>t, <1>o, <2>1, <2>2
  <2>5. refcount[x] - 1 \in Nat
    BY <1>t, <2>1 DEF CountInv
  <2>6. refcount' \in [Objs -> Nat]
    BY <1>t, <2>1, <2>5
  <2>7. map' \in [Objs -> [Keys -> Objs \cup {Null}]]
    BY <1>t, <2>1, ElementRemovedEntries
  <2>. QED  BY <1>t, <2>1, <2>3, <2>4, <2>6, <2>7 DEF TypeOK
<1>7. ASSUME NEW f, RemoveUncounted(f) \/ Unlink(f)  PROVE TypeOK'
  <2>1. map' \in [Objs -> [Keys -> Objs \cup {Null}]]
    <3>1. map' = ElementRemoved(f.s, f.k) /\ f.s \in Objs /\ f.k \in Keys
      BY <1>t, <1>7, UnlinkedEffect
    <3>. QED  BY <1>t, <3>1, ElementRemovedEntries
  <2>. QED  BY <1>t, <1>7, <2>1, UnlinkedEffect DEF TypeOK
<1>8. ASSUME NEW f, LeaveOrigin(f)  PROVE TypeOK'
  BY <1>t, <1>8, LeaveOriginEffect DEF TypeOK
<1>9. ASSUME NEW f, DestroyRecord(f)  PROVE TypeOK'
  <2>1. [k \in Keys |-> <<>>] \in [Keys -> Seq(Objs \cup {Null})]
    OBVIOUS
  <2>2. [k \in Keys |-> <<>>] \in [Keys -> Seq(Nat)]
    OBVIOUS
  <2>3. origins' \in [Objs -> [Keys -> Seq(Objs \cup {Null})]]
    BY <1>t, <1>9, <2>1, DestroyRecordEffect
  <2>4. empty' \in [Objs -> [Keys -> Seq(Nat)]]
    BY <1>t, <1>9, <2>2, DestroyRecordEffect
  <2>6. refcount' = [refcount EXCEPT ![f.s] = 0] /\ f.s \in Objs
    BY <1>t, <1>9, DestroyRecordEffect
  <2>5. refcount' \in [Objs -> Nat]
    BY <1>t, <2>6
  <2>. QED  BY <1>t, <1>9, <2>3, <2>4, <2>5, DestroyRecordEffect DEF TypeOK
<1>10. ASSUME NEW f, RemoveElement(f)  PROVE TypeOK'
  BY <1>t, <1>10, RemoveElementEffect DEF TypeOK
<1>11. ASSUME NEW f, FreeStruct(f)  PROVE TypeOK'
  BY <1>t, <1>11, FreeStructEffect DEF TypeOK
<1>12. CASE UNCHANGED vars
  BY <1>t, <1>12 DEF TypeOK, vars
<1>. QED  BY <1>1, <1>2, <1>3, <1>4, <1>5, <1>6, <1>7, <1>8, <1>9, <1>10, <1>11, <1>12, NextCases

\* Every step keeps the free indices right.
LEMMA SlotsStep ==
  ASSUME Inv, [Next]_vars
  PROVE  SlotsAccounted'
<1>t. /\ TypeOK /\ StackInv /\ SlotsAccounted
      /\ origins \in [Objs -> [Keys -> Seq(Objs \cup {Null})]]
      /\ empty \in [Objs -> [Keys -> Seq(Nat)]]
  BY DEF Inv, CallsInv, TypeOK
<1>. SUFFICES ASSUME NEW y \in Objs, NEW j \in Keys
              PROVE  /\ IsInjective(empty'[y][j])
                     /\ ToSet(empty'[y][j]) =
                          {i \in DOMAIN origins'[y][j] : origins'[y][j][i] = Null}
  BY DEF SlotsAccounted
<1>. DEFINE Kept == origins'[y][j] = origins[y][j] /\ empty'[y][j] = empty[y][j]
            Made == \E o : Slots(o) /\ origins'[y][j] = o.seq /\ empty'[y][j] = o.empty
<1>a. CASE Kept
  BY <1>t, <1>a DEF SlotsAccounted
<1>b. CASE Made
  BY <1>b DEF Slots
<1>. SUFFICES Kept \/ Made
  BY <1>a, <1>b
<1>n. ASSUME NEW s \in Objs, NEW k \in Keys,
             NEW o, Slots(o), origins' = [origins EXCEPT ![s][k] = o.seq],
             empty' = [empty EXCEPT ![s][k] = o.empty]
      PROVE  Kept \/ Made
  <2>1. /\ origins'[y][j] = IF y = s /\ j = k THEN o.seq ELSE origins[y][j]
        /\ empty'[y][j] = IF y = s /\ j = k THEN o.empty ELSE empty[y][j]
    BY <1>t, <1>n
  <2>. QED  BY <1>n, <2>1
<1>1. ASSUME NEW x \in Objs, Create(x) \/ Free(x)  PROVE Kept \/ Made
  BY <1>t, <1>1, FreeEffect DEF Create
<1>3. ASSUME NEW s \in Objs, NEW x \in Objs, NEW k \in Keys, Set(s, k, x)  PROVE Kept \/ Made
  <2>0. TypeOK /\ SlotsAccounted
    BY <1>t
  <2>1. \E o : /\ Slots(o) /\ Named(o) = Recorded(x, k) \cup {s}
               /\ origins' = [origins EXCEPT ![x][k] = o.seq]
               /\ empty' = [empty EXCEPT ![x][k] = o.empty]
    BY <1>3, <2>0, SetEffect
  <2>. HIDE DEF Kept, Made
  <2>. QED  BY <1>n, <2>1
<1>4. ASSUME NEW s \in Objs, NEW c \in Objs, Copy(s, c)  PROVE Kept \/ Made
  BY <1>t, <1>4, CopyEffect
<1>5. ASSUME NEW s \in Objs, NEW k \in Keys, RemoveKey(s, k)  PROVE Kept \/ Made
  BY <1>t, <1>5, RemoveKeyEffect
<1>6. ASSUME NEW f, RemoveCounted(f)  PROVE Kept \/ Made
  <2>1. \E o : /\ Slots(o) /\ Named(o) = Recorded(map[f.s][f.k], f.k) \ {f.s}
               /\ origins' = [origins EXCEPT ![map[f.s][f.k]][f.k] = o.seq]
               /\ empty' = [empty EXCEPT ![map[f.s][f.k]][f.k] = o.empty]
    BY <1>t, <1>6, RemoveCountedEffect
  <2>2. map[f.s][f.k] \in Objs /\ f.k \in Keys
    BY <1>t, <1>6, RemoveCountedEffect
  <2>. HIDE DEF Kept, Made
  <2>. QED  BY <1>n, <2>1, <2>2
<1>7. ASSUME NEW f, RemoveUncounted(f) \/ Unlink(f)  PROVE Kept \/ Made
  BY <1>t, <1>7, UnlinkedEffect
<1>8. ASSUME NEW f, LeaveOrigin(f)  PROVE Kept \/ Made
  BY <1>t, <1>8, LeaveOriginEffect
<1>9. ASSUME NEW f, DestroyRecord(f)  PROVE Kept \/ Made
  <2>1. /\ f.s \in Objs
        /\ origins' = [origins EXCEPT ![f.s] = [k \in Keys |-> <<>>]]
        /\ empty' = [empty EXCEPT ![f.s] = [k \in Keys |-> <<>>]]
    BY <1>t, <1>9, DestroyRecordEffect
  <2>2. CASE y = f.s
    <3>. DEFINE o == [seq |-> <<>>, empty |-> <<>>]
    <3>1. Slots(o)
      <4>1. o.seq = <<>> /\ o.empty = <<>>
        OBVIOUS
      <4>2. <<>> \in Seq(Objs \cup {Null}) /\ <<>> \in Seq(Nat)
        OBVIOUS
      <4>3. IsInjective(<<>>) /\ ToSet(<<>>) = {} /\ DOMAIN <<>> = {}
        BY DEF IsInjective, ToSet
      <4>. HIDE DEF o
      <4>. QED  BY <4>1, <4>2, <4>3 DEF Slots
    <3>2. origins'[y][j] = o.seq /\ empty'[y][j] = o.empty
      BY <1>t, <2>1, <2>2
    <3>. QED  BY <3>1, <3>2
  <2>3. CASE y # f.s
    BY <1>t, <2>1, <2>3
  <2>. QED  BY <2>2, <2>3
<1>10. ASSUME NEW f, RemoveElement(f)  PROVE Kept \/ Made
  BY <1>t, <1>10, RemoveElementEffect
<1>11. ASSUME NEW f, FreeStruct(f)  PROVE Kept \/ Made
  BY <1>t, <1>11, FreeStructEffect
<1>12. CASE UNCHANGED vars
  BY <1>t, <1>12 DEF vars
<1>. HIDE DEF Kept, Made
<1>. QED  BY <1>1, <1>3, <1>4, <1>5, <1>6, <1>7, <1>8, <1>9, <1>10, <1>11, <1>12, NextCases

-----------------------------------------------------------------------------
(* The calls under way.                                                    *)

\* Without calls there is nothing to say of them.
LEMMA NoCalls ==
  ASSUME stack' = <<>>
  PROVE  CallsInv'
<1>1. DOMAIN stack' = {}
  BY DOMAIN <<>> = {}
<1>2. StackInv' /\ CallerInv'
  BY <1>1, Zenon DEF StackInv, CallerInv
<1>3. UntrackedInv' /\ TornDownOnce' /\ LeftInv'
  BY <1>1, Zenon DEF UntrackedInv, TornDownOnce, LeftInv
<1>. QED  BY <1>2, <1>3 DEF CallsInv

\* A single call, of the application.
LEMMA FirstCall ==
  ASSUME TypeOK, Quiet, NEW e \in Frame, Calls(e), stack' \in Seq(Frame),
         e.op \in OnElement => e.k \in Keys,
         e.op \in TearsDown => e.s \notin tracked',
         e.op # "unlink",
         e.op = "zero" => \A p \in e.left : map'[p[2]][p[1]] = e.s
  PROVE  CallsInv'
<1>1. Len(stack') = 1 /\ stack'[1] = e
  BY DEF Quiet, Calls
<1>2. DOMAIN stack' = {1}
  BY <1>1, LenProperties
<1>3. \A i \in DOMAIN stack' : i = 1 /\ stack'[i] = e /\ i = Len(stack')
  BY <1>1, <1>2
<1>4. StackInv'
  BY <1>3, Zenon DEF StackInv
<1>5. CallerInv'
  BY <1>3, Zenon DEF CallerInv
<1>6. UntrackedInv'
  BY <1>3, Zenon DEF UntrackedInv
<1>7. TornDownOnce'
  BY <1>3, Zenon DEF TornDownOnce
<1>8. LeftInv'
  BY <1>3, Zenon DEF LeftInv
<1>. QED  BY <1>4, <1>5, <1>6, <1>7, <1>8 DEF CallsInv

\* What CallsInv says of one call.
CallOK(st, m, tr, i) ==
  /\ st[i].op \in OnElement => st[i].k \in Keys
  /\ st[i].op = "remove" => i = Len(st)
  /\ st[i].op = "zero" /\ i # Len(st) =>
       /\ i = Len(st) - 1
       /\ st[i + 1].op = "remove"
       /\ m[st[i + 1].s][st[i + 1].k] = st[i].s
  /\ i # 1 =>
       /\ st[i].op = "remove" =>
            \/ st[i - 1].op = "zero"
            \/ st[i - 1].op = "contents" /\ st[i - 1].s = st[i].s
       /\ st[i].op = "unlink" =>
            st[i - 1].op = "contents" /\ st[i - 1].s = st[i].s
  /\ st[i].op \in TearsDown => st[i].s \notin tr
  /\ st[i].op = "unlink" => m[st[i].s][st[i].k] \notin tr
  /\ st[i].op = "zero" =>
      /\ \A p \in st[i].left : m[p[2]][p[1]] = st[i].s
      /\ i # Len(st) => <<st[i + 1].k, st[i + 1].s>> \notin st[i].left

\* CallsInv is what it says of each call and of two of them.
LEMMA CallsInvIs ==
  CallsInv <=> (\A i \in DOMAIN stack : CallOK(stack, map, tracked, i)) /\ TornDownOnce
BY DEF CallsInv, CallOK, StackInv, CallerInv, UntrackedInv, LeftInv

\* In the state after a step too.
LEMMA CallsInvNext ==
  ASSUME \A i \in DOMAIN stack' : CallOK(stack', map', tracked', i), TornDownOnce'
  PROVE  CallsInv'
BY DEF CallsInv, CallOK, StackInv, CallerInv, UntrackedInv, LeftInv

\* The innermost call returns.
LEMMA PopsCalls ==
  ASSUME Inv, NEW f, NEW op, AtTop(f, op), Pops, stack' \in Seq(Frame), tracked' = tracked,
         \A a \in Objs, b \in Keys : map'[a][b] = map[a][b] \/ map'[a][b] = Null,
         \A i \in 1 .. Len(stack) - 1 : stack[i].op = "zero" =>
            \A p \in stack[i].left : map'[p[2]][p[1]] = map[p[2]][p[1]]
  PROVE  CallsInv'
<1>. DEFINE n == Len(stack)
<1>1. /\ n \in Nat \ {0} /\ DOMAIN stack = 1 .. n
      /\ \A i \in 1 .. n : stack[i].s \in Objs /\ CallOK(stack, map, tracked, i)
      /\ TornDownOnce /\ Null \notin tracked
  BY StackType, CallsInvIs, StructAssumption DEF Inv, TypeOK, AtTop, CallsInv
<1>2. Len(stack') = n - 1 /\ DOMAIN stack' = 1 .. n - 1
  BY LenProperties DEF Pops
<1>3. \A i \in 1 .. n - 1 : i \in 1 .. n /\ i # n /\ stack'[i] = stack[i]
  BY <1>1 DEF Pops
<1>4. ASSUME NEW i \in 1 .. n - 1  PROVE CallOK(stack', map', tracked', i)
  <2>1. CallOK(stack, map, tracked, i) /\ i \in 1 .. n /\ i # n /\ stack'[i] = stack[i] /\ stack[i].s \in Objs
    BY <1>1, <1>3
  <2>2. /\ stack[i].op # "remove"
        /\ stack[i].op = "zero" => i = n - 1
        /\ stack[i].op \in OnElement => stack[i].k \in Keys
    BY <2>1 DEF CallOK
  <2>3. ASSUME i # 1  PROVE stack'[i - 1] = stack[i - 1]
    <3>1. i - 1 \in 1 .. n - 1
      BY <1>1, <2>3
    <3>. QED  BY <1>3, <3>1
  <2>4. ASSUME stack[i].op = "unlink"
        PROVE  map'[stack[i].s][stack[i].k] \notin tracked
    <3>1. /\ stack[i].k \in Keys
          /\ map[stack[i].s][stack[i].k] \notin tracked
      BY <2>1, <2>4 DEF CallOK, OnElement
    <3>. QED  BY <1>1, <2>1, <3>1
  <2>5. stack[i].op = "zero" => \A p \in stack[i].left : map'[p[2]][p[1]] = stack[i].s
    BY <2>1 DEF CallOK
  <2>. QED  BY <1>2, <2>1, <2>2, <2>3, <2>4, <2>5 DEF CallOK
<1>5. TornDownOnce'
  <2>. SUFFICES ASSUME NEW i \in 1 .. n - 1, NEW j \in 1 .. n - 1, i # j,
                       {stack'[i].op, stack'[j].op} \subseteq TearsDown
                PROVE  stack'[i].s # stack'[j].s
    BY <1>2 DEF TornDownOnce, TearsDown
  <2>1. i \in DOMAIN stack /\ j \in DOMAIN stack /\ stack'[i] = stack[i] /\ stack'[j] = stack[j]
    BY <1>1, <1>3
  <2>. QED  BY <1>1, <2>1 DEF TornDownOnce, TearsDown
<1>. QED  BY <1>2, <1>4, <1>5, CallsInvNext

\* No value that is leaving its origins is below another call but the one that
\* takes it out of one.
LEMMA NoZeroBelow ==
  ASSUME Inv, NEW f, NEW op, AtTop(f, op),
         op # "remove" \/ map[f.s][f.k] \in tracked
  PROVE  \A i \in 1 .. Len(stack) - 1 : stack[i].op # "zero"
<1>. DEFINE n == Len(stack)
<1>1. /\ n \in Nat \ {0} /\ DOMAIN stack = 1 .. n /\ f = stack[n] /\ f.op = op
      /\ \A i \in 1 .. n : CallOK(stack, map, tracked, i)
  BY StackType, CallsInvIs DEF Inv, AtTop
<1>. SUFFICES ASSUME NEW i \in 1 .. n - 1, stack[i].op = "zero" PROVE FALSE
  OBVIOUS
<1>. HIDE DEF n
<1>0. n \in Nat
  BY <1>1
<1>2. i \in 1 .. n /\ i # n
  BY <1>0
<1>3. CallOK(stack, map, tracked, i)
  BY <1>1, <1>2
<1>4. /\ i = n - 1 /\ stack[i + 1].op = "remove"
      /\ map[stack[i + 1].s][stack[i + 1].k] = stack[i].s
      /\ stack[i].s \notin tracked
  BY <1>2, <1>3 DEF CallOK, TearsDown, n
<1>5. i + 1 = n
  BY <1>1, <1>4
<1>. QED  BY <1>1, <1>4, <1>5

\* The innermost call goes on as another, which makes a call.
LEMMA ReplacesAndCallsCalls ==
  ASSUME Inv, NEW f, NEW op, AtTop(f, op), NEW e, NEW g, ReplacesAndCalls(e, g),
         op # "remove" \/ map[f.s][f.k] \in tracked,
         stack' \in Seq(Frame), tracked' \subseteq tracked, map' = map,
         e.op # "remove" /\ e.op # "contents",
         e.op \in OnElement => e.k \in Keys,
         e.op = "zero" => g.op = "remove" /\ map[g.s][g.k] = e.s,
         e.op = "zero" => f.op = "zero" /\ e.s = f.s,
         e.op = "zero" => /\ \A p \in e.left : map[p[2]][p[1]] = e.s
                          /\ <<g.k, g.s>> \notin e.left,
         e.op = "unlink" => op = "remove" /\ e.s = f.s /\ map[e.s][e.k] \notin tracked',
         g.op # "unlink",
         g.op \in OnElement => g.k \in Keys,
         g.op = "remove" => e.op = "zero",
         g.op \in TearsDown => g.s \in tracked \ tracked' /\ e.op = "unlink",
         g.op = "zero" => \A p \in g.left : map[p[2]][p[1]] = g.s
  PROVE  CallsInv'
<1>. DEFINE n == Len(stack)
<1>1. /\ n \in Nat \ {0} /\ DOMAIN stack = 1 .. n
      /\ \A i \in 1 .. n : CallOK(stack, map, tracked, i)
      /\ TornDownOnce
      /\ f = stack[n] /\ f.op = op
  BY StackType, CallsInvIs DEF Inv, AtTop, CallsInv
<1>2. /\ Len(stack') = n + 1 /\ DOMAIN stack' = 1 .. n + 1
      /\ stack'[n] = e /\ stack'[n + 1] = g
      /\ \A i \in 1 .. n - 1 : stack'[i] = stack[i]
  BY LenProperties DEF ReplacesAndCalls
<1>3. \A i \in 1 .. n - 1 : stack[i].op # "zero"
  BY NoZeroBelow
<1>h. Len(stack) = n
  OBVIOUS
<1>. HIDE DEF n
<1>n. n \in Nat \ {0} /\ n \in 1 .. n /\ \A i \in 1 .. n - 1 : i \in 1 .. n /\ i # n
  BY <1>1
<1>c. CallOK(stack, map, tracked, n)
  BY <1>1, <1>n
<1>4. ASSUME NEW i \in 1 .. n - 1  PROVE CallOK(stack', map', tracked', i)
  <2>1. CallOK(stack, map, tracked, i) /\ stack'[i] = stack[i]
    BY <1>1, <1>2, <1>n
  <2>2. i # Len(stack) /\ i # Len(stack')
    BY <1>2, <1>h, <1>n
  <2>3. ASSUME i # 1  PROVE stack'[i - 1] = stack[i - 1]
    <3>1. i - 1 \in 1 .. n - 1
      BY <1>n, <2>3
    <3>. QED  BY <1>2, <3>1
  <2>4. stack[i].op # "zero" /\ stack[i].op # "remove"
    BY <1>3, <2>1, <2>2 DEF CallOK
  <2>. QED  BY <2>1, <2>2, <2>3, <2>4 DEF CallOK
<1>5. CallOK(stack', map', tracked', n)
  <2>1. n # Len(stack') /\ n = Len(stack') - 1 /\ stack'[n] = e /\ stack'[n + 1] = g
    BY <1>2, <1>n
  <2>2. ASSUME n # 1, e.op = "unlink"
        PROVE  stack'[n - 1].op = "contents" /\ stack'[n - 1].s = e.s
    <3>1. n - 1 \in 1 .. n - 1
      BY <1>n, <2>2
    <3>2. stack[n - 1].op # "zero" /\ stack'[n - 1] = stack[n - 1]
      BY <1>2, <1>3, <3>1
    <3>. QED  BY <1>1, <1>c, <2>2, <3>2 DEF CallOK
  <2>3. e.op \in TearsDown => e.op = "zero" /\ e.s \notin tracked
    <3>1. e.op \in TearsDown => e.op = "zero"
      BY DEF TearsDown
    <3>2. e.op = "zero" => e.s \notin tracked
      BY <1>1, <1>c DEF CallOK, TearsDown
    <3>. QED  BY <3>1, <3>2
  <2>4. CASE e.op = "zero"
    BY <2>1, <2>3, <2>4 DEF CallOK, OnElement, TearsDown
  <2>5. CASE e.op # "zero"
    BY <2>1, <2>2, <2>3, <2>5 DEF CallOK, OnElement
  <2>. QED  BY <2>4, <2>5
<1>6. CallOK(stack', map', tracked', n + 1)
  <2>1. n + 1 = Len(stack') /\ n + 1 # 1 /\ (n + 1) - 1 = n /\ stack'[n] = e /\ stack'[n + 1] = g
    BY <1>2, <1>n
  <2>2. CASE g.op = "zero"
    BY <2>1, <2>2 DEF CallOK, OnElement, TearsDown
  <2>3. CASE g.op # "zero"
    BY <2>1, <2>3 DEF CallOK, OnElement
  <2>. QED  BY <2>2, <2>3
<1>7. \A i \in 1 .. n + 1 : i \in 1 .. n - 1 \/ i = n \/ i = n + 1
  BY <1>n
<1>8. \A i \in DOMAIN stack' : CallOK(stack', map', tracked', i)
  BY <1>2, <1>4, <1>5, <1>6, <1>7
<1>9. TornDownOnce'
  <2>1. ASSUME NEW i \in 1 .. n - 1, stack'[i].op \in TearsDown
        PROVE  /\ e.op \in TearsDown => stack'[i].s # e.s
               /\ g.op \in TearsDown => stack'[i].s # g.s
    <3>1. stack'[i] = stack[i] /\ CallOK(stack, map, tracked, i) /\ i \in DOMAIN stack /\ n \in DOMAIN stack /\ i # n
      BY <1>1, <1>2, <1>n
    <3>2. stack[i].s \notin tracked
      BY <2>1, <3>1 DEF CallOK
    <3>3. ASSUME e.op \in TearsDown  PROVE stack[i].s # e.s
      <4>1. e.op = "zero"
        BY <3>3 DEF TearsDown
      <4>. QED  BY <1>1, <2>1, <3>1, <4>1 DEF TornDownOnce, TearsDown
    <3>. QED  BY <3>1, <3>2, <3>3
  <2>2. ASSUME NEW i \in 1 .. n - 1, NEW j \in 1 .. n - 1, i # j,
               {stack'[i].op, stack'[j].op} \subseteq TearsDown
        PROVE  stack'[i].s # stack'[j].s
    <3>1. i \in DOMAIN stack /\ j \in DOMAIN stack /\ stack'[i] = stack[i] /\ stack'[j] = stack[j]
      BY <1>1, <1>2, <1>n
    <3>. QED  BY <1>1, <2>2, <3>1 DEF TornDownOnce, TearsDown
  <2>3. ~(e.op \in TearsDown /\ g.op \in TearsDown)
    BY DEF TearsDown
  <2>. SUFFICES ASSUME NEW i \in 1 .. n + 1, NEW j \in 1 .. n + 1, i # j,
                       {stack'[i].op, stack'[j].op} \subseteq TearsDown
                PROVE  stack'[i].s # stack'[j].s
    BY <1>2 DEF TornDownOnce, TearsDown
  <2>4. stack'[i].op \in TearsDown /\ stack'[j].op \in TearsDown
    OBVIOUS
  <2>5. CASE i \in 1 .. n - 1 /\ j \in 1 .. n - 1
    BY <2>2, <2>5
  <2>6. CASE i \in 1 .. n - 1 /\ j \notin 1 .. n - 1
    BY <1>2, <1>7, <2>1, <2>4, <2>6
  <2>7. CASE i \notin 1 .. n - 1 /\ j \in 1 .. n - 1
    BY <1>2, <1>7, <2>1, <2>4, <2>7
  <2>8. CASE i \notin 1 .. n - 1 /\ j \notin 1 .. n - 1
    BY <1>2, <1>7, <2>3, <2>4, <2>8
  <2>. QED  BY <2>5, <2>6, <2>7, <2>8
<1>. QED  BY <1>8, <1>9, CallsInvNext

\* A value without record goes on to its contents.
LEMMA ContentsCalls ==
  ASSUME Inv, NEW f, AtTop(f, "zero"), Replaces(ContentsCall(f.s)),
         stack' \in Seq(Frame), tracked' = tracked, map' = map
  PROVE  CallsInv'
<1>. DEFINE n == Len(stack)
            e == ContentsCall(f.s)
<1>1. /\ n \in Nat \ {0} /\ DOMAIN stack = 1 .. n
      /\ \A i \in 1 .. n : CallOK(stack, map, tracked, i)
      /\ TornDownOnce
      /\ f = stack[n] /\ f.op = "zero"
  BY StackType, CallsInvIs DEF Inv, AtTop, CallsInv
<1>2. /\ Len(stack') = n /\ DOMAIN stack' = 1 .. n /\ stack'[n] = e
      /\ \A i \in 1 .. n - 1 : stack'[i] = stack[i]
  BY LenProperties DEF Replaces
<1>3. \A i \in 1 .. n - 1 : stack[i].op # "zero"
  BY NoZeroBelow
<1>e. e.op = "contents" /\ e.s = f.s
  BY CallFields
<1>h. Len(stack) = n
  OBVIOUS
<1>. HIDE DEF n, e
<1>n. n \in Nat \ {0} /\ n \in 1 .. n /\ \A i \in 1 .. n - 1 : i \in 1 .. n /\ i # n
  BY <1>1
<1>4. ASSUME NEW i \in 1 .. n - 1  PROVE CallOK(stack', map', tracked', i)
  <2>1. CallOK(stack, map, tracked, i) /\ stack'[i] = stack[i] /\ i # n
    BY <1>1, <1>2, <1>n
  <2>2. i # Len(stack) /\ i # Len(stack')
    BY <1>2, <1>h, <1>n
  <2>3. ASSUME i # 1  PROVE stack'[i - 1] = stack[i - 1]
    <3>1. i - 1 \in 1 .. n - 1
      BY <1>n, <2>3
    <3>. QED  BY <1>2, <3>1
  <2>4. stack[i].op # "zero" /\ stack[i].op # "remove"
    BY <1>3, <2>1, <2>2 DEF CallOK
  <2>. QED  BY <2>1, <2>2, <2>3, <2>4 DEF CallOK
<1>5. CallOK(stack', map', tracked', n)
  <2>1. CallOK(stack, map, tracked, n)
    BY <1>1, <1>n
  <2>2. f.s \notin tracked
    BY <1>1, <2>1 DEF CallOK, TearsDown
  <2>. QED  BY <1>2, <1>e, <2>2 DEF CallOK, OnElement
<1>6. \A i \in DOMAIN stack' : CallOK(stack', map', tracked', i)
  <2>1. \A i \in 1 .. n : i \in 1 .. n - 1 \/ i = n
    BY <1>n
  <2>. QED  BY <1>2, <1>4, <1>5, <2>1
<1>7. TornDownOnce'
  <2>. SUFFICES ASSUME NEW i \in 1 .. n, NEW j \in 1 .. n, i # j,
                       {stack'[i].op, stack'[j].op} \subseteq TearsDown
                PROVE  stack'[i].s # stack'[j].s
    BY <1>2 DEF TornDownOnce, TearsDown
  <2>1. \A l \in 1 .. n : stack'[l].s = stack[l].s /\ (stack'[l].op \in TearsDown =>
                                                        stack[l].op \in TearsDown)
    <3>1. \A l \in 1 .. n : l \in 1 .. n - 1 \/ l = n
      BY <1>n
    <3>. QED  BY <1>1, <1>2, <1>e, <3>1 DEF TearsDown
  <2>2. {stack[i].op, stack[j].op} \subseteq {"zero", "contents"}
    BY <2>1 DEF TearsDown
  <2>. QED  BY <1>1, <2>1, <2>2 DEF TornDownOnce
<1>. QED  BY <1>6, <1>7, CallsInvNext

\* The contents of a struct are removed one by one.
LEMMA ElementCalls ==
  ASSUME Inv, NEW f, AtTop(f, "contents"), NEW k \in Keys, Calls(RemoveCall(f.s, k)),
         stack' \in Seq(Frame), tracked' = tracked, map' = map
  PROVE  CallsInv'
<1>. DEFINE n == Len(stack)
            e == RemoveCall(f.s, k)
<1>1. /\ n \in Nat \ {0} /\ DOMAIN stack = 1 .. n
      /\ \A i \in 1 .. n : CallOK(stack, map, tracked, i)
      /\ TornDownOnce
      /\ f = stack[n] /\ f.op = "contents"
  BY StackType, CallsInvIs DEF Inv, AtTop, CallsInv
<1>2. /\ Len(stack') = n + 1 /\ DOMAIN stack' = 1 .. n + 1 /\ stack'[n + 1] = e
      /\ \A i \in 1 .. n : stack'[i] = stack[i]
  BY LenProperties DEF Calls
<1>3. \A i \in 1 .. n - 1 : stack[i].op # "zero"
  BY NoZeroBelow
<1>e. e.op = "remove" /\ e.s = f.s /\ e.k \in Keys
  BY CallFields
<1>h. Len(stack) = n
  OBVIOUS
<1>. HIDE DEF n, e
<1>n. n \in Nat \ {0} /\ n \in 1 .. n /\ \A i \in 1 .. n : i \in 1 .. n - 1 \/ i = n
  BY <1>1
<1>4. ASSUME NEW i \in 1 .. n  PROVE CallOK(stack', map', tracked', i)
  <2>1. CallOK(stack, map, tracked, i) /\ stack'[i] = stack[i]
    BY <1>1, <1>2
  <2>2. ASSUME i # 1  PROVE stack'[i - 1] = stack[i - 1]
    <3>1. i - 1 \in 1 .. n
      BY <1>n, <2>2
    <3>. QED  BY <1>2, <3>1
  <2>3. stack[i].op # "zero"
    BY <1>1, <1>3, <1>n
  <2>4. stack[i].op # "remove"
    BY <1>1, <1>h, <2>1 DEF CallOK
  <2>. QED  BY <2>1, <2>2, <2>3, <2>4 DEF CallOK
<1>5. CallOK(stack', map', tracked', n + 1)
  <2>1. n + 1 # 1 /\ (n + 1) - 1 = n /\ stack'[n] = f
    BY <1>1, <1>2, <1>n
  <2>. QED  BY <1>1, <1>2, <1>e, <2>1 DEF CallOK, TearsDown
<1>6. \A i \in DOMAIN stack' : CallOK(stack', map', tracked', i)
  <2>1. \A i \in 1 .. n + 1 : i \in 1 .. n \/ i = n + 1
    BY <1>n
  <2>. QED  BY <1>2, <1>4, <1>5, <2>1
<1>7. TornDownOnce'
  <2>. SUFFICES ASSUME NEW i \in 1 .. n + 1, NEW j \in 1 .. n + 1, i # j,
                       {stack'[i].op, stack'[j].op} \subseteq TearsDown
                PROVE  stack'[i].s # stack'[j].s
    BY <1>2 DEF TornDownOnce, TearsDown
  <2>1. \A l \in 1 .. n + 1 : l \in 1 .. n \/ l = n + 1
    BY <1>n
  <2>2. i \in 1 .. n /\ j \in 1 .. n
    BY <1>2, <1>e, <2>1 DEF TearsDown
  <2>3. stack'[i] = stack[i] /\ stack'[j] = stack[j]
    BY <1>2, <2>2
  <2>. QED  BY <1>1, <2>2, <2>3 DEF TornDownOnce, TearsDown
<1>. QED  BY <1>6, <1>7, CallsInvNext

\* Every step keeps what is said of the calls.
LEMMA CallsStep ==
  ASSUME Inv, [Next]_vars
  PROVE  CallsInv'
<1>t. /\ TypeOK /\ CallsInv /\ StackInv /\ SlotsAccounted /\ RecordInv /\ stack \in Seq(Frame)
      /\ map \in [Objs -> [Keys -> Objs \cup {Null}]]
      /\ tracked \subseteq Objs
      /\ origins \in [Objs -> [Keys -> Seq(Objs \cup {Null})]]
  BY DEF Inv, CallsInv, TypeOK
<1>q. ASSUME Quiet, stack' = stack  PROVE CallsInv'
  BY <1>q, NoCalls DEF Quiet
<1>1. ASSUME NEW x \in Objs, Create(x)  PROVE CallsInv'
  BY <1>q, <1>1 DEF Create
<1>2. ASSUME NEW x \in Objs, Free(x)  PROVE CallsInv'
  <2>1. /\ Quiet /\ tracked' = tracked \ {x} /\ stack' \in Seq(Frame) /\ map' = map
        /\ \/ x \in tracked /\ Calls(ZeroCall(x, origins[x]))
           \/ x \notin tracked /\ Calls(ContentsCall(x))
    BY <1>t, <1>2, FreeEffect
  <2>2. CASE x \in tracked /\ Calls(ZeroCall(x, origins[x]))
    <3>. DEFINE e == ZeroCall(x, origins[x])
    <3>1. e \in Frame /\ e.op = "zero" /\ e.s = x /\ e.left = OriginsToLeave(origins[x])
      BY CallTypes, CallFields
    <3>2. ASSUME NEW p \in e.left  PROVE map'[p[2]][p[1]] = e.s
      <4>1. p = <<p[1], p[2]>> /\ p[1] \in Keys /\ p[2] \in Objs
        BY <3>1, <3>2, CallTypes DEF Frame
      <4>2. p[2] \in ToSet(origins[x][p[1]])
        <5>1. origins[x] \in [Keys -> Seq(Objs \cup {Null})]
          BY <1>t
        <5>2. <<p[1], p[2]>> \in OriginsToLeave(origins[x])
          BY <3>1, <3>2, <4>1
        <5>. QED  BY <4>1, <5>1, <5>2, ToLeave
      <4>3. p[2] \in Recorded(x, p[1])
        BY <4>1, <4>2, StructAssumption DEF Recorded
      <4>4. p[2] \in Holders(x, p[1])
        BY <1>t, <2>2, <4>1, <4>3 DEF RecordInv
      <4>. QED  BY <2>1, <3>1, <4>4 DEF Holders
    <3>. HIDE DEF e
    <3>3. Calls(e)
      BY <2>2 DEF e
    <3>. QED  BY <1>t, <2>1, <3>1, <3>2, <3>3, FirstCall DEF OnElement
  <2>3. CASE x \notin tracked /\ Calls(ContentsCall(x))
    <3>. DEFINE e == ContentsCall(x)
    <3>1. e \in Frame /\ e.op = "contents" /\ e.s = x
      BY CallTypes, CallFields
    <3>. HIDE DEF e
    <3>3. Calls(e)
      BY <2>3 DEF e
    <3>. QED  BY <1>t, <2>1, <3>1, <3>3, FirstCall DEF OnElement
  <2>. QED  BY <2>1, <2>2, <2>3
<1>3. ASSUME NEW s \in Objs, NEW x \in Objs, NEW k \in Keys, Set(s, k, x)  PROVE CallsInv'
  BY <1>q, <1>3 DEF Set
<1>4. ASSUME NEW s \in Objs, NEW c \in Objs, Copy(s, c)  PROVE CallsInv'
  BY <1>q, <1>4 DEF Copy
<1>5. ASSUME NEW s \in Objs, NEW k \in Keys, RemoveKey(s, k)  PROVE CallsInv'
  <2>. DEFINE e == RemoveCall(s, k)
  <2>1. e \in Frame /\ e.op = "remove" /\ e.s = s /\ e.k \in Keys
    BY CallTypes, CallFields
  <2>2. Quiet /\ Calls(e) /\ stack' \in Seq(Frame)
    BY <1>t, <1>5, RemoveKeyEffect
  <2>. HIDE DEF e
  <2>. QED  BY <1>t, <2>1, <2>2, FirstCall DEF TearsDown
<1>6. ASSUME NEW f, RemoveCounted(f)  PROVE CallsInv'
  <2>. DEFINE x == map[f.s][f.k]
  <2>1. /\ AtTop(f, "remove") /\ f.s \in Objs /\ f.k \in Keys /\ x \in Objs /\ x \in tracked
        /\ stack' \in Seq(Frame)
        /\ \/ map' = ElementRemoved(f.s, f.k) /\ Pops /\ tracked' = tracked
           \/ /\ map' = map /\ tracked' = tracked \ {x}
              /\ ReplacesAndCalls(UnlinkCall(f.s, f.k), ZeroCall(x, origins'[x]))
    BY <1>t, <1>6, RemoveCountedEffect
  <2>2. CASE map' = ElementRemoved(f.s, f.k) /\ Pops /\ tracked' = tracked
    <3>1. \A a \in Objs, b \in Keys : map'[a][b] = map[a][b] \/ map'[a][b] = Null
      BY <1>t, <2>1, <2>2, ElementRemovedEntries
    <3>2. \A i \in 1 .. Len(stack) - 1 : stack[i].op # "zero"
      BY <2>1, NoZeroBelow
    <3>. QED  BY <2>1, <2>2, <3>1, <3>2, PopsCalls
  <2>3. CASE /\ map' = map /\ tracked' = tracked \ {x}
             /\ ReplacesAndCalls(UnlinkCall(f.s, f.k), ZeroCall(x, origins'[x]))
    <3>. DEFINE e == UnlinkCall(f.s, f.k)
                g == ZeroCall(x, origins'[x])
    <3>1. /\ e.op = "unlink" /\ e.s = f.s /\ e.k = f.k
          /\ g.op = "zero" /\ g.s = x /\ g.left = OriginsToLeave(origins'[x])
          /\ g \in Frame
      BY <2>1, CallFields, CallTypes
    <3>2. ASSUME NEW p \in g.left  PROVE map[p[2]][p[1]] = x
      <4>1. p = <<p[1], p[2]>> /\ p[1] \in Keys /\ p[2] \in Objs
        BY <3>1, <3>2, CallTypes DEF Frame
      <4>2. p[2] \in ToSet(origins'[x][p[1]])
        <5>1. origins'[x] \in [Keys -> Seq(Objs \cup {Null})]
          BY <2>1, TypeStep DEF TypeOK
        <5>2. <<p[1], p[2]>> \in OriginsToLeave(origins'[x])
          BY <3>1, <3>2, <4>1
        <5>. QED  BY <4>1, <5>1, <5>2, ToLeave
      <4>3. PICK o : /\ Named(o) = Recorded(x, f.k) \ {f.s}
                     /\ origins' = [origins EXCEPT ![x][f.k] = o.seq]
        BY <1>t, <1>6, RemoveCountedEffect
      <4>4. origins'[x][p[1]] = IF p[1] = f.k THEN o.seq ELSE origins[x][p[1]]
        BY <1>t, <2>1, <4>1, <4>3
      <4>5. p[2] # Null
        BY <4>1, StructAssumption
      <4>6. p[2] \in Recorded(x, p[1])
        <5>1. CASE p[1] = f.k
          BY <4>2, <4>3, <4>4, <4>5, <5>1 DEF Named
        <5>2. CASE p[1] # f.k
          BY <4>2, <4>4, <4>5, <5>2 DEF Recorded
        <5>. QED  BY <5>1, <5>2
      <4>7. p[2] \in Holders(x, p[1])
        BY <1>t, <2>1, <4>1, <4>6 DEF RecordInv
      <4>. QED  BY <4>7 DEF Holders
    <3>3. ReplacesAndCalls(e, g) /\ map' = map /\ tracked' = tracked \ {x} /\ tracked' \subseteq tracked
      BY <2>3
    <3>4. map[e.s][e.k] \notin tracked' /\ g.s \in tracked \ tracked'
      BY <2>1, <3>1, <3>3
    <3>5. \A p \in g.left : map[p[2]][p[1]] = g.s
      BY <3>1, <3>2
    <3>. HIDE DEF e, g
    <3>6. e.k \in Keys /\ g.op \notin OnElement
      BY <2>1, <3>1 DEF OnElement
    <3>. QED  BY <2>1, <3>1, <3>3, <3>4, <3>5, <3>6, ReplacesAndCallsCalls
  <2>. QED  BY <2>1, <2>2, <2>3
<1>7. ASSUME NEW f, RemoveUncounted(f) \/ Unlink(f)  PROVE CallsInv'
  <2>1. /\ \/ AtTop(f, "remove") /\ map[f.s][f.k] \notin tracked
           \/ AtTop(f, "unlink")
        /\ f.s \in Objs /\ f.k \in Keys
        /\ map' = ElementRemoved(f.s, f.k)
        /\ Pops /\ stack' \in Seq(Frame) /\ tracked' = tracked
    BY <1>t, <1>7, UnlinkedEffect
  <2>2. \A a \in Objs, b \in Keys :
          map'[a][b] = IF a = f.s /\ b = f.k THEN Null ELSE map[a][b]
    BY <1>t, <2>1, ElementRemovedEntries
  <2>3. ASSUME NEW i \in 1 .. Len(stack) - 1, stack[i].op = "zero", NEW p \in stack[i].left
        PROVE  map'[p[2]][p[1]] = map[p[2]][p[1]]
    <3>1. AtTop(f, "remove")
      BY <2>1, <2>3, NoZeroBelow
    <3>2. /\ Len(stack) \in Nat \ {0} /\ f = stack[Len(stack)]
          /\ i \in DOMAIN stack /\ i # Len(stack)
      BY <1>t, <3>1, StackType DEF AtTop
    <3>3. /\ i = Len(stack) - 1
          /\ <<stack[i + 1].k, stack[i + 1].s>> \notin stack[i].left
      BY <1>t, <2>3, <3>2 DEF CallsInv, StackInv, LeftInv
    <3>4. <<f.k, f.s>> \notin stack[i].left
      BY <3>2, <3>3
    <3>5. stack[i].left \subseteq Keys \X Objs
      BY <1>t, <3>2, StackType
    <3>6. p = <<p[1], p[2]>> /\ p[1] \in Keys /\ p[2] \in Objs
      BY <2>3, <3>5
    <3>7. ~(p[2] = f.s /\ p[1] = f.k)
      BY <2>3, <3>4, <3>6
    <3>. QED  BY <2>2, <3>6, <3>7
  <2>. QED  BY <2>1, <2>2, <2>3, PopsCalls
<1>8. ASSUME NEW f, LeaveOrigin(f)  PROVE CallsInv'
  <2>1. AtTop(f, "zero") /\ stack' \in Seq(Frame) /\ map' = map /\ tracked' = tracked
    BY <1>t, <1>8, LeaveOriginEffect
  <2>2. PICK p \in f.left :
          /\ p = <<p[1], p[2]>> /\ p[1] \in Keys /\ p[2] \in Objs
          /\ ReplacesAndCalls([f EXCEPT !.left = f.left \ {p}], RemoveCall(p[2], p[1]))
          /\ [f EXCEPT !.left = f.left \ {p}].op = "zero"
          /\ [f EXCEPT !.left = f.left \ {p}].s = f.s
          /\ [f EXCEPT !.left = f.left \ {p}].left = f.left \ {p}
    BY <1>t, <1>8, LeaveOriginEffect
  <2>. DEFINE e == [f EXCEPT !.left = f.left \ {p}]
              g == RemoveCall(p[2], p[1])
  <2>3. ReplacesAndCalls(e, g) /\ e.op = "zero" /\ e.s = f.s /\ e.left = f.left \ {p}
    BY <2>2
  <2>4. g.op = "remove" /\ g.s = p[2] /\ g.k = p[1]
    BY CallFields
  <2>5. \A q \in f.left : map[q[2]][q[1]] = f.s
    <3>1. Len(stack) \in DOMAIN stack /\ f = stack[Len(stack)] /\ f.op = "zero"
      BY <1>t, <2>1, StackType DEF AtTop
    <3>. QED  BY <1>t, <3>1 DEF CallsInv, LeftInv
  <2>. HIDE DEF e, g
  <2>6. f.op = "zero" /\ <<g.k, g.s>> \notin e.left
    BY <2>1, <2>2, <2>3, <2>4 DEF AtTop
  <2>7. /\ e.op \notin OnElement /\ g.op \notin TearsDown
        /\ map[g.s][g.k] = e.s
        /\ \A q \in e.left : map[q[2]][q[1]] = e.s
        /\ g.k \in Keys
    BY <2>2, <2>3, <2>4, <2>5 DEF OnElement, TearsDown
  <2>. QED  BY <2>1, <2>3, <2>4, <2>6, <2>7, ReplacesAndCallsCalls
<1>9. ASSUME NEW f, DestroyRecord(f)  PROVE CallsInv'
  BY <1>t, <1>9, DestroyRecordEffect, ContentsCalls
<1>10. ASSUME NEW f, RemoveElement(f)  PROVE CallsInv'
  BY <1>t, <1>10, RemoveElementEffect, ElementCalls
<1>11. ASSUME NEW f, FreeStruct(f)  PROVE CallsInv'
  BY <1>t, <1>11, FreeStructEffect, PopsCalls
<1>12. CASE UNCHANGED vars
  <2>1. stack' = stack /\ map' = map /\ tracked' = tracked
    BY <1>12 DEF vars
  <2>2. /\ \A i \in DOMAIN stack' : CallOK(stack', map', tracked', i)
        /\ TornDownOnce
    BY <1>t, <2>1, CallsInvIs
  <2>3. TornDownOnce'
    BY <2>1, <2>2 DEF TornDownOnce
  <2>. QED  BY <2>2, <2>3, CallsInvNext
<1>. QED  BY <1>1, <1>2, <1>3, <1>4, <1>5, <1>6, <1>7, <1>8, <1>9, <1>10, <1>11, <1>12, NextCases

-----------------------------------------------------------------------------
(* The tracker and the structs.                                            *)

\* What CallsInv says of the innermost call.
LEMMA TopFacts ==
  ASSUME Inv, NEW f, NEW op, AtTop(f, op)
  PROVE  /\ Len(stack) \in Nat \ {0} /\ Len(stack) \in DOMAIN stack
         /\ DOMAIN stack = 1 .. Len(stack)
         /\ f = stack[Len(stack)] /\ f.op = op /\ f.s \in Objs
         /\ op \in TearsDown => f.s \notin tracked
         /\ op = "unlink" => map[f.s][f.k] \notin tracked
         /\ op \in OnElement => f.k \in Keys
<1>1. TypeOK /\ StackInv /\ UntrackedInv
  BY DEF Inv, CallsInv
<1>2. /\ Len(stack) \in Nat \ {0} /\ Len(stack) \in DOMAIN stack
      /\ DOMAIN stack = 1 .. Len(stack)
      /\ f = stack[Len(stack)] /\ f.op = op /\ f.s \in Objs
  BY <1>1, StackType DEF AtTop
<1>. QED  BY <1>1, <1>2 DEF StackInv, UntrackedInv

\* Between calls every value that is held has a record, and the records, of the
\* others too, are exact.
LEMMA QuietFacts ==
  ASSUME Inv, Quiet
  PROVE  /\ \A s \in Objs, k \in Keys : map[s][k] \in tracked \cup {Null}
         /\ \A x \in Objs \ tracked :
              /\ refcount[x] = 0
              /\ \A k \in Keys : origins[x][k] = <<>>
         /\ \A x \in Objs, k \in Keys : Recorded(x, k) = Holders(x, k)
<1>1. DOMAIN stack = {}
  BY DOMAIN <<>> = {} DEF Quiet
<1>2. \A s \in Objs, k \in Keys : map[s][k] \in tracked \cup {Null}
  BY <1>1 DEF Inv, HeldInv
<1>3. \A x \in Objs \ tracked : /\ refcount[x] = 0
                                /\ \A k \in Keys : origins[x][k] = <<>>
  BY <1>1 DEF Inv, NoRecordInv
<1>4. ASSUME NEW x \in Objs, NEW k \in Keys  PROVE Recorded(x, k) = Holders(x, k)
  <2>1. CASE x \in tracked
    BY <2>1 DEF Inv, RecordInv
  <2>2. CASE x \notin tracked
    <3>1. Recorded(x, k) = {}
      <4>1. origins[x][k] = <<>>
        BY <1>3, <2>2
      <4>2. ToSet(<<>>) = {}
        BY DEF ToSet
      <4>. QED  BY <4>1, <4>2 DEF Recorded
    <3>2. Holders(x, k) = {}
      BY <1>2, <2>2, StructAssumption DEF Holders
    <3>. QED  BY <3>1, <3>2
  <2>. QED  BY <2>1, <2>2
<1>. QED  BY <1>2, <1>3, <1>4

\* The entries of the structs after a step.
LEMMA MapStep ==
  ASSUME Inv, [Next]_vars
  PROVE  \/ map' = map
         \/ \E s \in live, x \in live, k \in Keys :
              Set(s, k, x) /\ map' = [map EXCEPT ![s][k] = x]
         \/ \E s \in live, c \in Objs \ live :
              Copy(s, c) /\ map' = [map EXCEPT ![c] = map[s]]
         \/ \E f : /\ RemoveCounted(f) \/ RemoveUncounted(f) \/ Unlink(f)
                   /\ f.s \in Objs /\ f.k \in Keys
                   /\ map' = ElementRemoved(f.s, f.k)
<1>t. /\ TypeOK /\ StackInv /\ SlotsAccounted /\ live \subseteq Objs
  BY DEF Inv, CallsInv, TypeOK
<1>1. ASSUME NEW x \in Objs, Create(x) \/ Free(x)  PROVE map' = map
  BY <1>t, <1>1, FreeEffect DEF Create
<1>3. ASSUME NEW s \in Objs, NEW x \in Objs, NEW k \in Keys, Set(s, k, x)
      PROVE  s \in live /\ x \in live /\ map' = [map EXCEPT ![s][k] = x]
  BY <1>3 DEF Set
<1>4. ASSUME NEW s \in Objs, NEW c \in Objs, Copy(s, c)
      PROVE  s \in live /\ c \notin live /\ map' = [map EXCEPT ![c] = map[s]]
  BY <1>4 DEF Copy
<1>5. ASSUME NEW s \in Objs, NEW k \in Keys, RemoveKey(s, k)  PROVE map' = map
  BY <1>5 DEF RemoveKey
<1>6. ASSUME NEW f, RemoveCounted(f)
      PROVE  map' = map \/ (/\ f.s \in Objs /\ f.k \in Keys
                            /\ map' = ElementRemoved(f.s, f.k))
  BY <1>t, <1>6, RemoveCountedEffect
<1>7. ASSUME NEW f, RemoveUncounted(f) \/ Unlink(f)
      PROVE  f.s \in Objs /\ f.k \in Keys /\ map' = ElementRemoved(f.s, f.k)
  BY <1>t, <1>7, UnlinkedEffect
<1>8. ASSUME NEW f, LeaveOrigin(f) \/ DestroyRecord(f) \/ RemoveElement(f) \/ FreeStruct(f)
      PROVE  map' = map
  BY <1>8 DEF LeaveOrigin, DestroyRecord, RemoveElement, FreeStruct
<1>9. CASE UNCHANGED vars
  BY <1>9 DEF vars
<1>. QED  BY <1>1, <1>3, <1>4, <1>5, <1>6, <1>7, <1>8, <1>9, NextCases

\* Every step leaves elements and records to allocated structs only.
LEMMA LiveStep ==
  ASSUME Inv, [Next]_vars
  PROVE  LiveInv'
<1>t. /\ TypeOK /\ StackInv /\ SlotsAccounted
      /\ map \in [Objs -> [Keys -> Objs \cup {Null}]]
      /\ tracked \subseteq live /\ live \subseteq Objs
      /\ \A s \in Objs \ live : \A k \in Keys : map[s][k] = Null
  BY DEF Inv, CallsInv, TypeOK, LiveInv
<1>g. ASSUME live \subseteq live', tracked' \subseteq live',
             \A s \in Objs \ live' : \A k \in Keys : map'[s][k] \in {map[s][k], Null}
      PROVE  LiveInv'
  BY <1>t, <1>g DEF LiveInv
<1>1. ASSUME NEW x \in Objs, Create(x)  PROVE LiveInv'
  BY <1>t, <1>g, <1>1 DEF Create
<1>2. ASSUME NEW x \in Objs, Free(x)  PROVE LiveInv'
  BY <1>t, <1>2, FreeEffect DEF LiveInv
<1>3. ASSUME NEW s \in Objs, NEW x \in Objs, NEW k \in Keys, Set(s, k, x)  PROVE LiveInv'
  <2>1. /\ s \in live /\ x \in live /\ map' = [map EXCEPT ![s][k] = x]
        /\ tracked' = tracked \cup {x} /\ live' = live
    BY <1>3 DEF Set
  <2>2. \A a \in Objs \ live : \A b \in Keys : map'[a][b] = map[a][b]
    BY <1>t, <2>1
  <2>. QED  BY <1>t, <1>g, <2>1, <2>2
<1>4. ASSUME NEW s \in Objs, NEW c \in Objs, Copy(s, c)  PROVE LiveInv'
  <2>1. /\ map' = [map EXCEPT ![c] = map[s]] /\ tracked' = tracked /\ live' = live \cup {c}
    BY <1>4 DEF Copy
  <2>2. \A a \in Objs \ live' : \A b \in Keys : map'[a][b] = map[a][b]
    BY <1>t, <2>1
  <2>. QED  BY <1>t, <1>g, <2>1, <2>2
<1>5. ASSUME NEW s \in Objs, NEW k \in Keys, RemoveKey(s, k)  PROVE LiveInv'
  BY <1>t, <1>5 DEF RemoveKey, LiveInv
<1>6. ASSUME NEW f, RemoveCounted(f)  PROVE LiveInv'
  <2>1. /\ f.s \in Objs /\ f.k \in Keys /\ live' = live /\ tracked' \subseteq tracked
        /\ map' = map \/ map' = ElementRemoved(f.s, f.k)
    BY <1>t, <1>6, RemoveCountedEffect
  <2>2. \A a \in Objs, b \in Keys : map'[a][b] \in {map[a][b], Null}
    BY <1>t, <2>1, ElementRemovedEntries
  <2>. QED  BY <1>t, <1>g, <2>1, <2>2
<1>7. ASSUME NEW f, RemoveUncounted(f) \/ Unlink(f)  PROVE LiveInv'
  <2>1. /\ f.s \in Objs /\ f.k \in Keys /\ live' = live /\ tracked' = tracked
        /\ map' = ElementRemoved(f.s, f.k)
    BY <1>t, <1>7, UnlinkedEffect
  <2>2. \A a \in Objs, b \in Keys : map'[a][b] \in {map[a][b], Null}
    BY <1>t, <2>1, ElementRemovedEntries
  <2>. QED  BY <1>t, <1>g, <2>1, <2>2
<1>8. ASSUME NEW f, LeaveOrigin(f) \/ DestroyRecord(f) \/ RemoveElement(f)  PROVE LiveInv'
  BY <1>t, <1>8 DEF LeaveOrigin, DestroyRecord, RemoveElement, LiveInv
<1>11. ASSUME NEW f, FreeStruct(f)  PROVE LiveInv'
  <2>1. /\ AtTop(f, "contents") /\ \A k \in Keys : map[f.s][k] = Null
        /\ live' = live \ {f.s} /\ map' = map /\ tracked' = tracked
    BY <1>t, <1>11, FreeStructEffect
  <2>2. f.s \notin tracked
    BY <2>1, TopFacts DEF TearsDown
  <2>. QED  BY <1>t, <2>1, <2>2 DEF LiveInv
<1>12. CASE UNCHANGED vars
  BY <1>t, <1>12 DEF vars, LiveInv
<1>. QED  BY <1>1, <1>2, <1>3, <1>4, <1>5, <1>6, <1>7, <1>8, <1>11, <1>12, NextCases

\* Every step keeps the records of the tracked values exact.
LEMMA RecordStep ==
  ASSUME Inv, [Next]_vars
  PROVE  RecordInv'
<1>t. /\ TypeOK /\ StackInv /\ SlotsAccounted /\ RecordInv /\ LiveInv
      /\ map \in [Objs -> [Keys -> Objs \cup {Null}]]
      /\ origins \in [Objs -> [Keys -> Seq(Objs \cup {Null})]]
      /\ tracked \subseteq Objs /\ Null \notin Objs
  BY StructAssumption DEF Inv, CallsInv, TypeOK
<1>r. ASSUME tracked' \subseteq tracked, origins' = origins, map' = map  PROVE RecordInv'
  BY <1>t, <1>r DEF RecordInv, Recorded, Holders
<1>1. ASSUME NEW x \in Objs, Create(x) \/ Free(x)  PROVE RecordInv'
  BY <1>t, <1>r, <1>1, FreeEffect DEF Create
<1>3. ASSUME NEW s \in Objs, NEW x \in Objs, NEW k \in Keys, Set(s, k, x)  PROVE RecordInv'
  <2>0. TypeOK /\ SlotsAccounted
    BY <1>t
  <2>1. /\ Quiet /\ map[s][k] = Null /\ map' = [map EXCEPT ![s][k] = x]
        /\ tracked' = tracked \cup {x}
    BY <1>3 DEF Set
  <2>2. PICK o : /\ Slots(o) /\ Named(o) = Recorded(x, k) \cup {s}
                 /\ origins' = [origins EXCEPT ![x][k] = o.seq]
                 /\ empty' = [empty EXCEPT ![x][k] = o.empty]
    BY <1>3, <2>0, SetEffect
  <2>3. \A y \in Objs, j \in Keys : Recorded(y, j) = Holders(y, j)
    BY <2>1, QuietFacts
  <2>4. ASSUME NEW y \in Objs, NEW j \in Keys  PROVE Recorded(y, j)' = Holders(y, j)'
    <3>1. \A a \in Objs : map'[a][j] = IF a = s /\ j = k THEN x ELSE map[a][j]
      BY <1>t, <2>1
    <3>2. CASE y = x /\ j = k
      <4>1. origins'[y][j] = o.seq
        BY <1>t, <2>2, <3>2
      <4>2. Recorded(y, j)' = Recorded(y, j) \cup {s}
        BY <2>2, <3>2, <4>1 DEF Recorded, Named
      <4>3. Holders(y, j)' = Holders(y, j) \cup {s}
        BY <3>1, <3>2 DEF Holders
      <4>. QED  BY <2>3, <4>2, <4>3
    <3>3. CASE ~(y = x /\ j = k)
      <4>1. origins'[y][j] = origins[y][j]
        BY <1>t, <2>2, <3>3
      <4>2. Recorded(y, j)' = Recorded(y, j)
        BY <4>1 DEF Recorded
      <4>3. Holders(y, j)' = Holders(y, j)
        BY <1>t, <2>1, <3>1, <3>3 DEF Holders
      <4>. QED  BY <2>3, <4>2, <4>3
    <3>. QED  BY <3>2, <3>3
  <2>5. tracked' \subseteq Objs
    BY <1>t, <2>1
  <2>. QED  BY <2>4, <2>5 DEF RecordInv
<1>4. ASSUME NEW s \in Objs, NEW c \in Objs, Copy(s, c)  PROVE RecordInv'
  <2>1. /\ Quiet /\ c \notin live /\ map' = [map EXCEPT ![c] = map[s]] /\ tracked' = tracked
        /\ s \in live
    BY <1>4 DEF Copy
  <2>2. \A y \in Objs, j \in Keys :
          IF y = map[s][j]
          THEN \E o : /\ Slots(o) /\ Named(o) = Recorded(y, j) \cup {c}
                      /\ origins'[y][j] = o.seq /\ empty'[y][j] = o.empty
          ELSE origins'[y][j] = origins[y][j] /\ empty'[y][j] = empty[y][j]
    <3>0. TypeOK /\ SlotsAccounted
      BY <1>t
    <3>. QED  BY <1>4, <3>0, CopyEffect
  <2>3. ASSUME NEW y \in tracked, NEW j \in Keys  PROVE Recorded(y, j)' = Holders(y, j)'
    <3>1. \A a \in Objs : map'[a][j] = IF a = c THEN map[s][j] ELSE map[a][j]
      BY <1>t, <2>1
    <3>2. map[c][j] = Null /\ y \in Objs /\ y # Null
      BY <1>t, <2>1 DEF LiveInv
    <3>3. Recorded(y, j) = Holders(y, j)
      BY <1>t DEF RecordInv
    <3>4. CASE y = map[s][j]
      <4>1. PICK o : Named(o) = Recorded(y, j) \cup {c} /\ origins'[y][j] = o.seq
        BY <2>2, <3>2, <3>4
      <4>2. Recorded(y, j)' = Recorded(y, j) \cup {c}
        BY <4>1 DEF Recorded, Named
      <4>3. Holders(y, j)' = Holders(y, j) \cup {c}
        BY <3>1, <3>4 DEF Holders
      <4>. QED  BY <3>3, <4>2, <4>3
    <3>5. CASE y # map[s][j]
      <4>1. Recorded(y, j)' = Recorded(y, j)
        BY <2>2, <3>2, <3>5 DEF Recorded
      <4>2. Holders(y, j)' = Holders(y, j)
        BY <3>1, <3>2, <3>5 DEF Holders
      <4>. QED  BY <3>3, <4>1, <4>2
    <3>. QED  BY <3>4, <3>5
  <2>. QED  BY <2>1, <2>3 DEF RecordInv
<1>5. ASSUME NEW s \in Objs, NEW k \in Keys, RemoveKey(s, k)  PROVE RecordInv'
  BY <1>r, <1>5 DEF RemoveKey
<1>6. ASSUME NEW f, RemoveCounted(f)  PROVE RecordInv'
  <2>. DEFINE x == map[f.s][f.k]
  <2>1. /\ f.s \in Objs /\ f.k \in Keys /\ x \in tracked /\ x \in Objs
        /\ \/ map' = ElementRemoved(f.s, f.k) /\ tracked' = tracked
           \/ map' = map /\ tracked' = tracked \ {x}
    BY <1>t, <1>6, RemoveCountedEffect
  <2>2. PICK o : /\ Named(o) = Recorded(x, f.k) \ {f.s}
                 /\ origins' = [origins EXCEPT ![x][f.k] = o.seq]
    BY <1>t, <1>6, RemoveCountedEffect
  <2>3. ASSUME NEW y \in tracked', NEW j \in Keys  PROVE Recorded(y, j)' = Holders(y, j)'
    <3>1. y \in tracked /\ y \in Objs /\ y # Null
      BY <1>t, <2>1
    <3>2. Recorded(y, j) = Holders(y, j)
      BY <1>t, <3>1 DEF RecordInv
    <3>3. CASE y = x /\ j = f.k
      <4>1. \A a \in Objs : map'[a][j] = IF a = f.s THEN Null ELSE map[a][j]
        BY <1>t, <2>1, <3>3, ElementRemovedEntries
      <4>2. origins'[y][j] = o.seq
        BY <1>t, <2>1, <2>2, <3>3
      <4>3. Recorded(y, j)' = Recorded(y, j) \ {f.s}
        BY <2>2, <3>3, <4>2 DEF Recorded, Named
      <4>4. Holders(y, j)' = Holders(y, j) \ {f.s}
        BY <3>1, <4>1 DEF Holders
      <4>. QED  BY <3>2, <4>3, <4>4
    <3>4. CASE ~(y = x /\ j = f.k)
      <4>1. \A a \in Objs : /\ a = f.s /\ j = f.k => map[a][j] = x /\ map'[a][j] \in {x, Null}
                            /\ ~(a = f.s /\ j = f.k) => map'[a][j] = map[a][j]
        <5>1. CASE map' = map
          BY <5>1
        <5>2. CASE map' = ElementRemoved(f.s, f.k)
          <6>1. \A a \in Objs, b \in Keys :
                  map'[a][b] = IF a = f.s /\ b = f.k THEN Null ELSE map[a][b]
            <7>1. TypeOK /\ f.s \in Objs /\ f.k \in Keys
              BY <1>t, <2>1
            <7>. QED  BY <5>2, <7>1, ElementRemovedEntries
          <6>. QED  BY <6>1
        <5>. QED  BY <2>1, <5>1, <5>2
      <4>2. Recorded(y, j)' = Recorded(y, j)
        BY <1>t, <2>1, <2>2, <3>1, <3>4 DEF Recorded
      <4>3. Holders(y, j)' = Holders(y, j)
        BY <3>1, <3>4, <4>1 DEF Holders
      <4>. QED  BY <3>2, <4>2, <4>3
    <3>. QED  BY <3>3, <3>4
  <2>. QED  BY <2>3 DEF RecordInv
<1>7. ASSUME NEW f, RemoveUncounted(f) \/ Unlink(f)  PROVE RecordInv'
  <2>1. /\ \/ AtTop(f, "remove") /\ map[f.s][f.k] \notin tracked
           \/ AtTop(f, "unlink")
        /\ f.s \in Objs /\ f.k \in Keys /\ tracked' = tracked /\ origins' = origins
        /\ map' = ElementRemoved(f.s, f.k)
    BY <1>t, <1>7, UnlinkedEffect
  <2>2. map[f.s][f.k] \notin tracked
    BY <2>1, TopFacts
  <2>3. \A a \in Objs, b \in Keys :
          map'[a][b] = IF a = f.s /\ b = f.k THEN Null ELSE map[a][b]
    BY <1>t, <2>1, ElementRemovedEntries
  <2>4. ASSUME NEW y \in tracked, NEW j \in Keys  PROVE Recorded(y, j)' = Holders(y, j)'
    <3>1. Recorded(y, j) = Holders(y, j) /\ y # Null
      BY <1>t DEF RecordInv
    <3>2. Recorded(y, j)' = Recorded(y, j)
      BY <2>1 DEF Recorded
    <3>3. Holders(y, j)' = Holders(y, j)
      BY <2>2, <2>3, <3>1 DEF Holders
    <3>. QED  BY <3>1, <3>2, <3>3
  <2>. QED  BY <2>1, <2>4 DEF RecordInv
<1>8. ASSUME NEW f, LeaveOrigin(f) \/ RemoveElement(f) \/ FreeStruct(f)  PROVE RecordInv'
  BY <1>r, <1>8 DEF LeaveOrigin, RemoveElement, FreeStruct
<1>9. ASSUME NEW f, DestroyRecord(f)  PROVE RecordInv'
  <2>1. /\ AtTop(f, "zero") /\ map' = map /\ tracked' = tracked /\ f.s \in Objs
        /\ origins' = [origins EXCEPT ![f.s] = [k \in Keys |-> <<>>]]
    BY <1>t, <1>9, DestroyRecordEffect
  <2>2. f.s \notin tracked
    BY <2>1, TopFacts DEF TearsDown
  <2>3. \A y \in tracked : origins'[y] = origins[y]
    BY <1>t, <2>1, <2>2
  <2>. QED  BY <1>t, <2>1, <2>3 DEF RecordInv, Recorded, Holders
<1>12. CASE UNCHANGED vars
  BY <1>r, <1>12 DEF vars
<1>. QED  BY <1>1, <1>3, <1>4, <1>5, <1>6, <1>7, <1>8, <1>9, <1>12, NextCases

\* What a step does to the calls below the innermost one: nothing.
LEMMA KeptCalls ==
  ASSUME TypeOK, stack' \in Seq(Frame), NEW i \in DOMAIN stack, i # Len(stack),
         NEW e, NEW g, Pops \/ Replaces(e) \/ Calls(e) \/ ReplacesAndCalls(e, g)
  PROVE  i \in DOMAIN stack' /\ stack'[i] = stack[i]
<1>1. Len(stack) \in Nat /\ DOMAIN stack = 1 .. Len(stack) /\ DOMAIN stack' = 1 .. Len(stack')
  BY StackType, LenProperties
<1>2. i \in 1 .. Len(stack) - 1 /\ i \in 1 .. Len(stack)
  BY <1>1
<1>3. Len(stack') >= Len(stack) - 1 /\ stack'[i] = stack[i]
  <2>1. CASE Pops
    BY <1>1, <1>2, <2>1 DEF Pops
  <2>2. CASE Replaces(e)
    BY <1>1, <1>2, <2>2 DEF Replaces
  <2>3. CASE Calls(e)
    BY <1>1, <1>2, <2>3 DEF Calls
  <2>4. CASE ReplacesAndCalls(e, g)
    BY <1>1, <1>2, <2>4 DEF ReplacesAndCalls
  <2>. QED  BY <2>1, <2>2, <2>3, <2>4
<1>4. Len(stack') \in Nat
  BY LenProperties
<1>. QED  BY <1>1, <1>2, <1>3, <1>4

\* What the calls after a step are.
LEMMA CallsAfter ==
  ASSUME TypeOK, stack' \in Seq(Frame), NEW i \in DOMAIN stack'
  PROVE  /\ i # 0
         /\ Pops => i \in DOMAIN stack /\ i # Len(stack) /\ stack'[i] = stack[i]
         /\ \A e : Replaces(e) =>
              \/ i \in DOMAIN stack /\ i # Len(stack) /\ stack'[i] = stack[i]
              \/ i = Len(stack) /\ stack'[i] = e
         /\ \A e : Calls(e) =>
              \/ i \in DOMAIN stack /\ stack'[i] = stack[i]
              \/ i = Len(stack) + 1 /\ stack'[i] = e
         /\ \A e, g : ReplacesAndCalls(e, g) =>
              \/ i \in DOMAIN stack /\ i # Len(stack) /\ stack'[i] = stack[i]
              \/ i = Len(stack) /\ stack'[i] = e
              \/ i = Len(stack) + 1 /\ stack'[i] = g
<1>1. Len(stack) \in Nat /\ DOMAIN stack = 1 .. Len(stack) /\ DOMAIN stack' = 1 .. Len(stack')
  BY StackType, LenProperties
<1>2. i # 0
  BY <1>1
<1>3. Pops => i \in DOMAIN stack /\ i # Len(stack) /\ stack'[i] = stack[i]
  BY <1>1 DEF Pops
<1>4. ASSUME NEW e, Replaces(e)
      PROVE  \/ i \in DOMAIN stack /\ i # Len(stack) /\ stack'[i] = stack[i]
             \/ i = Len(stack) /\ stack'[i] = e
  BY <1>1, <1>4 DEF Replaces
<1>5. ASSUME NEW e, Calls(e)
      PROVE  \/ i \in DOMAIN stack /\ stack'[i] = stack[i]
             \/ i = Len(stack) + 1 /\ stack'[i] = e
  BY <1>1, <1>5 DEF Calls
<1>6. ASSUME NEW e, NEW g, ReplacesAndCalls(e, g)
      PROVE  \/ i \in DOMAIN stack /\ i # Len(stack) /\ stack'[i] = stack[i]
             \/ i = Len(stack) /\ stack'[i] = e
             \/ i = Len(stack) + 1 /\ stack'[i] = g
  BY <1>1, <1>6 DEF ReplacesAndCalls
<1>. QED  BY <1>2, <1>3, <1>4, <1>5, <1>6

\* The calls that a step makes are on the stack after it.
LEMMA MadeCalls ==
  ASSUME TypeOK, stack' \in Seq(Frame), NEW e, NEW g
  PROVE  /\ Replaces(e) /\ stack # <<>> => Len(stack) \in DOMAIN stack' /\ stack'[Len(stack)] = e
         /\ Calls(e) => Len(stack) + 1 \in DOMAIN stack' /\ stack'[Len(stack) + 1] = e
         /\ Calls(e) => \A i \in DOMAIN stack : i \in DOMAIN stack' /\ stack'[i] = stack[i]
         /\ ReplacesAndCalls(e, g) /\ stack # <<>> =>
              /\ Len(stack) \in DOMAIN stack' /\ stack'[Len(stack)] = e
              /\ Len(stack) + 1 \in DOMAIN stack' /\ stack'[Len(stack) + 1] = g
<1>1. Len(stack) \in Nat /\ DOMAIN stack = 1 .. Len(stack) /\ DOMAIN stack' = 1 .. Len(stack')
  BY StackType, LenProperties
<1>2. stack # <<>> => Len(stack) # 0
  BY EmptySeq DEF TypeOK
<1>3. Replaces(e) /\ stack # <<>> => Len(stack) \in DOMAIN stack' /\ stack'[Len(stack)] = e
  BY <1>1, <1>2 DEF Replaces
<1>4. Calls(e) => Len(stack) + 1 \in DOMAIN stack' /\ stack'[Len(stack) + 1] = e
  BY <1>1 DEF Calls
<1>5. Calls(e) => \A i \in DOMAIN stack : i \in DOMAIN stack' /\ stack'[i] = stack[i]
  BY <1>1 DEF Calls
<1>6. ReplacesAndCalls(e, g) /\ stack # <<>> =>
        /\ Len(stack) \in DOMAIN stack' /\ stack'[Len(stack)] = e
        /\ Len(stack) + 1 \in DOMAIN stack' /\ stack'[Len(stack) + 1] = g
  BY <1>1, <1>2 DEF ReplacesAndCalls
<1>. QED  BY <1>3, <1>4, <1>5, <1>6

\* Every step leaves an unlinking call only the struct and the key.
LEMMA UnlinksStep ==
  ASSUME Inv, [Next]_vars
  PROVE  UnlinksInv'
<1>t. /\ TypeOK /\ StackInv /\ SlotsAccounted /\ UnlinksInv
  BY DEF Inv, CallsInv
<1>q. ASSUME stack' = stack  PROVE UnlinksInv'
  BY <1>t, <1>q DEF UnlinksInv
<1>p. ASSUME Pops, stack' \in Seq(Frame)  PROVE UnlinksInv'
  BY <1>t, <1>p, CallsAfter DEF UnlinksInv
<1>r. ASSUME NEW e, Replaces(e) \/ Calls(e), stack' \in Seq(Frame), e.op # "unlink"  PROVE UnlinksInv'
  BY <1>t, <1>r, CallsAfter DEF UnlinksInv
<1>c. ASSUME NEW e, NEW g, ReplacesAndCalls(e, g), stack' \in Seq(Frame),
             e.op = "unlink" => e.left = {}, g.op # "unlink"
      PROVE  UnlinksInv'
  BY <1>t, <1>c, CallsAfter DEF UnlinksInv
<1>1. ASSUME NEW x \in Objs, Create(x)  PROVE UnlinksInv'
  BY <1>q, <1>1 DEF Create
<1>2. ASSUME NEW x \in Objs, Free(x)  PROVE UnlinksInv'
  <2>1. (Calls(ZeroCall(x, origins[x])) \/ Calls(ContentsCall(x))) /\ stack' \in Seq(Frame)
    BY <1>t, <1>2, FreeEffect
  <2>2. ZeroCall(x, origins[x]).op # "unlink" /\ ContentsCall(x).op # "unlink"
    BY CallFields
  <2>. QED  BY <1>r, <2>1, <2>2
<1>3. ASSUME NEW s \in Objs, NEW x \in Objs, NEW k \in Keys, Set(s, k, x)  PROVE UnlinksInv'
  BY <1>q, <1>3 DEF Set
<1>4. ASSUME NEW s \in Objs, NEW c \in Objs, Copy(s, c)  PROVE UnlinksInv'
  BY <1>q, <1>4 DEF Copy
<1>5. ASSUME NEW s \in Objs, NEW k \in Keys, RemoveKey(s, k)  PROVE UnlinksInv'
  BY <1>t, <1>r, <1>5, RemoveKeyEffect, CallFields
<1>6. ASSUME NEW f, RemoveCounted(f)  PROVE UnlinksInv'
  <2>. DEFINE e == UnlinkCall(f.s, f.k)
              g == ZeroCall(map[f.s][f.k], origins'[map[f.s][f.k]])
  <2>1. (Pops \/ ReplacesAndCalls(e, g)) /\ stack' \in Seq(Frame)
    BY <1>t, <1>6, RemoveCountedEffect
  <2>2. e.left = {} /\ g.op # "unlink"
    BY DEF UnlinkCall, ZeroCall
  <2>. HIDE DEF e, g
  <2>. QED  BY <1>p, <1>c, <2>1, <2>2
<1>7. ASSUME NEW f, RemoveUncounted(f) \/ Unlink(f)  PROVE UnlinksInv'
  BY <1>t, <1>p, <1>7, UnlinkedEffect
<1>8. ASSUME NEW f, LeaveOrigin(f)  PROVE UnlinksInv'
  <2>1. PICK p \in f.left :
          /\ ReplacesAndCalls([f EXCEPT !.left = f.left \ {p}], RemoveCall(p[2], p[1]))
          /\ [f EXCEPT !.left = f.left \ {p}].op = "zero"
    BY <1>t, <1>8, LeaveOriginEffect
  <2>2. stack' \in Seq(Frame)
    BY <1>t, <1>8, LeaveOriginEffect
  <2>3. RemoveCall(p[2], p[1]).op # "unlink"
    BY CallFields
  <2>. QED  BY <1>c, <2>1, <2>2, <2>3
<1>9. ASSUME NEW f, DestroyRecord(f)  PROVE UnlinksInv'
  BY <1>t, <1>r, <1>9, DestroyRecordEffect, CallFields
<1>10. ASSUME NEW f, RemoveElement(f)  PROVE UnlinksInv'
  BY <1>t, <1>r, <1>10, RemoveElementEffect, CallFields
<1>11. ASSUME NEW f, FreeStruct(f)  PROVE UnlinksInv'
  BY <1>t, <1>p, <1>11, FreeStructEffect
<1>12. CASE UNCHANGED vars
  BY <1>q, <1>12 DEF vars
<1>. QED  BY <1>1, <1>2, <1>3, <1>4, <1>5, <1>6, <1>7, <1>8, <1>9, <1>10, <1>11, <1>12, NextCases

\* Every step leaves the values without record without data, but those that are
\* still to leave their origins.
LEMMA NoRecordStep ==
  ASSUME Inv, [Next]_vars
  PROVE  NoRecordInv'
<1>t. /\ TypeOK /\ StackInv /\ SlotsAccounted /\ NoRecordInv
      /\ refcount \in [Objs -> Nat]
      /\ origins \in [Objs -> [Keys -> Seq(Objs \cup {Null})]]
      /\ tracked \subseteq Objs
  BY DEF Inv, CallsInv, TypeOK
<1>. DEFINE Leaving(y) == \E i \in DOMAIN stack' : stack'[i].op = "zero" /\ stack'[i].s = y
            Gone(y) == /\ refcount'[y] = 0
                       /\ \A k \in Keys : origins'[y][k] = <<>>
<1>. SUFFICES ASSUME NEW y \in Objs \ tracked' PROVE Leaving(y) \/ Gone(y)
  BY DEF NoRecordInv
<1>q. ASSUME Quiet, y \notin tracked, refcount' = refcount, origins' = origins  PROVE Gone(y)
  BY <1>q, QuietFacts
<1>k. ASSUME y \notin tracked, refcount'[y] = refcount[y], origins'[y] = origins[y],
             \A i \in DOMAIN stack : stack[i].op = "zero" /\ stack[i].s = y =>
                \E j \in DOMAIN stack' : stack'[j].op = "zero" /\ stack'[j].s = y
      PROVE  Leaving(y) \/ Gone(y)
  <2>1. \/ \E i \in DOMAIN stack : stack[i].op = "zero" /\ stack[i].s = y
        \/ refcount[y] = 0 /\ \A k \in Keys : origins[y][k] = <<>>
    BY <1>t, <1>k DEF NoRecordInv
  <2>. QED  BY <1>k, <2>1
<1>1. ASSUME NEW x \in Objs, Create(x)  PROVE Leaving(y) \/ Gone(y)
  BY <1>q, <1>1 DEF Create
<1>2. ASSUME NEW x \in Objs, Free(x)  PROVE Leaving(y) \/ Gone(y)
  <2>1. /\ Quiet /\ tracked' = tracked \ {x} /\ refcount' = refcount /\ origins' = origins
        /\ stack' \in Seq(Frame)
        /\ x \in tracked => Calls(ZeroCall(x, origins[x]))
    BY <1>t, <1>2, FreeEffect
  <2>2. CASE y \notin tracked
    BY <1>q, <2>1, <2>2
  <2>3. CASE y \in tracked
    <3>1. y = x /\ Calls(ZeroCall(x, origins[x]))
      BY <2>1, <2>3
    <3>2. ZeroCall(x, origins[x]).op = "zero" /\ ZeroCall(x, origins[x]).s = x
      BY CallFields
    <3>3. \E i \in DOMAIN stack' : stack'[i] = ZeroCall(x, origins[x])
      BY <1>t, <2>1, <3>1, MadeCalls
    <3>. QED  BY <3>1, <3>2, <3>3
  <2>. QED  BY <2>2, <2>3
<1>3. ASSUME NEW s \in Objs, NEW x \in Objs, NEW k \in Keys, Set(s, k, x)
      PROVE  Leaving(y) \/ Gone(y)
  <2>0. TypeOK /\ SlotsAccounted
    BY <1>t
  <2>1. /\ Quiet /\ tracked' = tracked \cup {x}
        /\ refcount' = [refcount EXCEPT ![x] = refcount[x] + 1]
    BY <1>3, <2>0, SetEffect
  <2>2. PICK o : origins' = [origins EXCEPT ![x][k] = o.seq]
    BY <1>3, <2>0, SetEffect
  <2>3. y \notin tracked /\ y # x
    BY <2>1
  <2>4. refcount'[y] = refcount[y] /\ origins'[y] = origins[y]
    BY <1>t, <2>1, <2>2, <2>3
  <2>. QED  BY <2>1, <2>3, <2>4, QuietFacts
<1>4. ASSUME NEW s \in Objs, NEW c \in Objs, Copy(s, c)  PROVE Leaving(y) \/ Gone(y)
  <2>0. TypeOK /\ SlotsAccounted
    BY <1>t
  <2>1. /\ Quiet /\ tracked' = tracked
        /\ refcount' = [x \in Objs |->
                          refcount[x] + 2 * Cardinality({k \in Keys : map[s][k] = x})]
    BY <1>4, <2>0, CopyEffect
  <2>2. \A x \in Objs, k \in Keys : x # map[s][k] => origins'[x][k] = origins[x][k]
    <3>1. \A x \in Objs, k \in Keys :
            IF x = map[s][k]
            THEN \E o : /\ Slots(o) /\ Named(o) = Recorded(x, k) \cup {c}
                        /\ origins'[x][k] = o.seq /\ empty'[x][k] = o.empty
            ELSE origins'[x][k] = origins[x][k] /\ empty'[x][k] = empty[x][k]
      BY <1>4, <2>0, CopyEffect
    <3>. QED  BY <3>1
  <2>3. y \notin tracked /\ y # Null
    BY <2>1, StructAssumption
  <2>4. \A k \in Keys : map[s][k] # y
    BY <2>1, <2>3, QuietFacts
  <2>5. refcount[y] = 0 /\ \A k \in Keys : origins[y][k] = <<>>
    BY <2>1, <2>3, QuietFacts
  <2>6. Cardinality({k \in Keys : map[s][k] = y}) = 0
    <3>1. {k \in Keys : map[s][k] = y} = {}
      BY <2>4
    <3>. QED  BY <3>1, FS_EmptySet
  <2>7. refcount'[y] = 0
    BY <2>1, <2>5, <2>6
  <2>. QED  BY <2>2, <2>4, <2>5, <2>7
<1>5. ASSUME NEW s \in Objs, NEW k \in Keys, RemoveKey(s, k)  PROVE Leaving(y) \/ Gone(y)
  BY <1>q, <1>5 DEF RemoveKey
<1>6. ASSUME NEW f, RemoveCounted(f)  PROVE Leaving(y) \/ Gone(y)
  <2>. DEFINE x == map[f.s][f.k]
              e == UnlinkCall(f.s, f.k)
              g == ZeroCall(x, origins'[x])
  <2>1. /\ AtTop(f, "remove") /\ x \in Objs /\ stack' \in Seq(Frame)
        /\ refcount' = [refcount EXCEPT ![x] = refcount[x] - 1]
        /\ \/ Pops /\ tracked' = tracked
           \/ ReplacesAndCalls(e, g) /\ tracked' = tracked \ {x}
        /\ x \in tracked
    BY <1>t, <1>6, RemoveCountedEffect
  <2>2. PICK o : origins' = [origins EXCEPT ![x][f.k] = o.seq]
    BY <1>t, <1>6, RemoveCountedEffect
  <2>3. g.op = "zero" /\ g.s = x
    BY CallFields
  <2>. HIDE DEF x, e, g
  <2>4. f = stack[Len(stack)] /\ f.op = "remove" /\ stack # <<>>
    BY <2>1, EmptySeq, <1>t DEF AtTop, TypeOK
  <2>5. CASE y = x
    <3>1. ReplacesAndCalls(e, g)
      BY <2>1, <2>5
    <3>2. \E i \in DOMAIN stack' : stack'[i] = g
      BY <1>t, <2>1, <2>4, <3>1, MadeCalls
    <3>. QED  BY <2>3, <2>5, <3>2
  <2>6. CASE y # x
    <3>1. refcount'[y] = refcount[y] /\ origins'[y] = origins[y] /\ y \notin tracked
      BY <1>t, <2>1, <2>2, <2>6
    <3>2. ASSUME NEW i \in DOMAIN stack, stack[i].op = "zero", stack[i].s = y
          PROVE  i \in DOMAIN stack' /\ stack'[i] = stack[i]
      <4>1. i # Len(stack)
        BY <2>4, <3>2
      <4>. QED  BY <1>t, <2>1, <4>1, KeptCalls
    <3>. HIDE DEF Leaving, Gone
    <3>. QED  BY <1>k, <3>1, <3>2
  <2>. QED  BY <2>5, <2>6
<1>s. ASSUME NEW f, NEW op, AtTop(f, op), op # "zero", stack' \in Seq(Frame),
             NEW e, Pops \/ Calls(e),
             tracked' = tracked, refcount' = refcount, origins' = origins
      PROVE  Leaving(y) \/ Gone(y)
  <2>1. ASSUME NEW i \in DOMAIN stack, stack[i].op = "zero", stack[i].s = y
        PROVE  i \in DOMAIN stack' /\ stack'[i] = stack[i]
    <3>1. i # Len(stack)
      BY <1>s, <2>1 DEF AtTop
    <3>. QED  BY <1>t, <1>s, <3>1, KeptCalls
  <2>2. refcount'[y] = refcount[y] /\ origins'[y] = origins[y] /\ y \notin tracked
    BY <1>s
  <2>. HIDE DEF Leaving, Gone
  <2>. QED  BY <1>k, <2>1, <2>2
<1>7. ASSUME NEW f, RemoveUncounted(f) \/ Unlink(f)  PROVE Leaving(y) \/ Gone(y)
  <2>1. (AtTop(f, "remove") \/ AtTop(f, "unlink")) /\ Pops /\ stack' \in Seq(Frame)
        /\ tracked' = tracked /\ refcount' = refcount /\ origins' = origins
    BY <1>t, <1>7, UnlinkedEffect
  <2>. HIDE DEF Leaving, Gone
  <2>. QED  BY <1>s, <2>1
<1>8. ASSUME NEW f, LeaveOrigin(f)  PROVE Leaving(y) \/ Gone(y)
  <2>1. PICK p \in f.left :
          /\ ReplacesAndCalls([f EXCEPT !.left = f.left \ {p}], RemoveCall(p[2], p[1]))
          /\ [f EXCEPT !.left = f.left \ {p}].op = "zero"
          /\ [f EXCEPT !.left = f.left \ {p}].s = f.s
    BY <1>t, <1>8, LeaveOriginEffect
  <2>. DEFINE e == [f EXCEPT !.left = f.left \ {p}]
              g == RemoveCall(p[2], p[1])
  <2>2. ReplacesAndCalls(e, g) /\ e.op = "zero" /\ e.s = f.s
    BY <2>1
  <2>. HIDE DEF e, g
  <2>3. /\ AtTop(f, "zero") /\ stack' \in Seq(Frame) /\ tracked' = tracked
        /\ refcount' = refcount /\ origins' = origins
    BY <1>t, <1>8, LeaveOriginEffect
  <2>4. f = stack[Len(stack)] /\ stack # <<>>
    BY <2>3, EmptySeq, <1>t DEF AtTop, TypeOK
  <2>5. ASSUME NEW i \in DOMAIN stack, stack[i].op = "zero", stack[i].s = y
        PROVE  \E j \in DOMAIN stack' : stack'[j].op = "zero" /\ stack'[j].s = y
    <3>1. CASE i = Len(stack)
      BY <1>t, <2>2, <2>3, <2>4, <2>5, <3>1, MadeCalls
    <3>2. CASE i # Len(stack)
      <4>1. i \in DOMAIN stack' /\ stack'[i] = stack[i]
        BY <1>t, <2>2, <2>3, <3>2, KeptCalls
      <4>. QED  BY <2>5, <4>1
    <3>. QED  BY <3>1, <3>2
  <2>6. refcount'[y] = refcount[y] /\ origins'[y] = origins[y] /\ y \notin tracked
    BY <2>3
  <2>. HIDE DEF Leaving, Gone
  <2>. QED  BY <1>k, <2>5, <2>6
<1>9. ASSUME NEW f, DestroyRecord(f)  PROVE Leaving(y) \/ Gone(y)
  <2>1. /\ AtTop(f, "zero") /\ f.s \in Objs /\ stack' \in Seq(Frame)
        /\ Replaces(ContentsCall(f.s)) /\ tracked' = tracked
        /\ refcount' = [refcount EXCEPT ![f.s] = 0]
        /\ origins' = [origins EXCEPT ![f.s] = [k \in Keys |-> <<>>]]
    BY <1>t, <1>9, DestroyRecordEffect
  <2>2. CASE y = f.s
    BY <1>t, <2>1, <2>2
  <2>3. CASE y # f.s
    <3>1. refcount'[y] = refcount[y] /\ origins'[y] = origins[y] /\ y \notin tracked
      BY <1>t, <2>1, <2>3
    <3>2. ASSUME NEW i \in DOMAIN stack, stack[i].op = "zero", stack[i].s = y
          PROVE  i \in DOMAIN stack' /\ stack'[i] = stack[i]
      <4>1. i # Len(stack)
        BY <2>1, <2>3, <3>2 DEF AtTop
      <4>. QED  BY <1>t, <2>1, <4>1, KeptCalls
    <3>. HIDE DEF Leaving, Gone
    <3>. QED  BY <1>k, <3>1, <3>2
  <2>. QED  BY <2>2, <2>3
<1>10. ASSUME NEW f, RemoveElement(f)  PROVE Leaving(y) \/ Gone(y)
  <2>1. PICK k : Calls(RemoveCall(f.s, k))
    BY <1>t, <1>10, RemoveElementEffect
  <2>2. /\ AtTop(f, "contents") /\ stack' \in Seq(Frame) /\ tracked' = tracked
        /\ refcount' = refcount /\ origins' = origins
    BY <1>t, <1>10, RemoveElementEffect
  <2>. HIDE DEF Leaving, Gone
  <2>. QED  BY <1>s, <2>1, <2>2
<1>11. ASSUME NEW f, FreeStruct(f)  PROVE Leaving(y) \/ Gone(y)
  <2>2. /\ AtTop(f, "contents") /\ stack' \in Seq(Frame) /\ tracked' = tracked
        /\ refcount' = refcount /\ origins' = origins /\ Pops
    BY <1>t, <1>11, FreeStructEffect
  <2>. HIDE DEF Leaving, Gone
  <2>. QED  BY <1>s, <2>2
<1>12. CASE UNCHANGED vars
  <2>1. refcount' = refcount /\ origins' = origins /\ tracked' = tracked /\ stack' = stack
    BY <1>12 DEF vars
  <2>. QED  BY <1>k, <2>1
<1>. HIDE DEF Leaving, Gone
<1>. QED  BY <1>1, <1>2, <1>3, <1>4, <1>5, <1>6, <1>7, <1>8, <1>9, <1>10, <1>11, <1>12, NextCases

\* A call that keeps the holding of s under k of a value x without record from
\* lasting.
EndsHolding(f, s, k, x) ==
  \/ f.op \in OnElement /\ f.s = s /\ f.k = k
  \/ /\ f.op = "zero" /\ f.s = x
     /\ <<k, s>> \in f.left

\* Every step keeps it so that the holdings of values without record end.
LEMMA HeldStep ==
  ASSUME Inv, [Next]_vars
  PROVE  HeldInv'
<1>t. /\ TypeOK /\ StackInv /\ SlotsAccounted /\ RecordInv
      /\ map \in [Objs -> [Keys -> Objs \cup {Null}]]
      /\ origins \in [Objs -> [Keys -> Seq(Objs \cup {Null})]]
      /\ tracked \subseteq Objs
      /\ Null \notin Objs
  BY StructAssumption DEF Inv, CallsInv, TypeOK
<1>h. ASSUME NEW a \in Objs, NEW b \in Keys, map[a][b] \notin tracked \cup {Null}
      PROVE  \E i \in DOMAIN stack : EndsHolding(stack[i], a, b, map[a][b])
  BY <1>h DEF Inv, HeldInv, EndsHolding
<1>. SUFFICES ASSUME NEW s \in Objs, NEW k \in Keys, map'[s][k] \notin tracked' \cup {Null}
              PROVE  \E i \in DOMAIN stack' : EndsHolding(stack'[i], s, k, map'[s][k])
  BY DEF HeldInv, EndsHolding
<1>. DEFINE Ends == \E i \in DOMAIN stack' : EndsHolding(stack'[i], s, k, map'[s][k])
<1>q. ASSUME Quiet, map'[s][k] = map[s][k], tracked \subseteq tracked'  PROVE FALSE
  BY <1>q, QuietFacts
<1>k. ASSUME NEW f, NEW op, AtTop(f, op), stack' \in Seq(Frame),
             NEW e, NEW g, Pops \/ Replaces(e) \/ Calls(e) \/ ReplacesAndCalls(e, g),
             map'[s][k] = map[s][k], map[s][k] \notin tracked,
             EndsHolding(f, s, k, map[s][k]) => Ends
      PROVE  Ends
  <2>1. PICK i \in DOMAIN stack : EndsHolding(stack[i], s, k, map[s][k])
    BY <1>h, <1>k
  <2>2. CASE i = Len(stack)
    BY <1>k, <2>1, <2>2 DEF AtTop
  <2>3. CASE i # Len(stack)
    <3>1. i \in DOMAIN stack' /\ stack'[i] = stack[i]
      BY <1>t, <1>k, <2>3, KeptCalls
    <3>. QED  BY <1>k, <2>1, <3>1
  <2>. QED  BY <2>2, <2>3
<1>1. ASSUME NEW x \in Objs, Create(x)  PROVE FALSE
  BY <1>q, <1>1 DEF Create
<1>2. ASSUME NEW x \in Objs, Free(x)  PROVE Ends
  <2>1. /\ Quiet /\ map' = map /\ tracked' = tracked \ {x} /\ stack' \in Seq(Frame)
        /\ x \in tracked => Calls(ZeroCall(x, origins[x]))
    BY <1>t, <1>2, FreeEffect
  <2>2. map[s][k] = x /\ x \in tracked
    <3>1. map[s][k] \in tracked \cup {Null}
      BY <2>1, QuietFacts
    <3>. QED  BY <2>1, <3>1
  <2>3. \E i \in DOMAIN stack' : stack'[i] = ZeroCall(x, origins[x])
    BY <1>t, <2>1, <2>2, MadeCalls
  <2>4. /\ ZeroCall(x, origins[x]).op = "zero" /\ ZeroCall(x, origins[x]).s = x
        /\ ZeroCall(x, origins[x]).left = OriginsToLeave(origins[x])
    BY CallFields
  <2>5. s \in ToSet(origins[x][k])
    <3>1. Recorded(x, k) = Holders(x, k)
      BY <2>1, QuietFacts
    <3>2. s \in Holders(x, k)
      BY <2>2 DEF Holders
    <3>. QED  BY <3>1, <3>2 DEF Recorded
  <2>6. <<k, s>> \in OriginsToLeave(origins[x])
    <3>1. origins[x] \in [Keys -> Seq(Objs \cup {Null})]
      BY <1>t
    <3>. QED  BY <2>5, <3>1, ToLeave
  <2>. QED  BY <2>1, <2>2, <2>3, <2>4, <2>6 DEF EndsHolding
<1>3. ASSUME NEW a \in Objs, NEW x \in Objs, NEW b \in Keys, Set(a, b, x)  PROVE FALSE
  <2>1. Quiet /\ map' = [map EXCEPT ![a][b] = x] /\ tracked' = tracked \cup {x}
    BY <1>3 DEF Set
  <2>2. map'[s][k] = map[s][k] \/ map'[s][k] = x
    BY <1>t, <2>1
  <2>. QED  BY <1>q, <2>1, <2>2
<1>4. ASSUME NEW a \in Objs, NEW c \in Objs, Copy(a, c)  PROVE FALSE
  <2>1. Quiet /\ map' = [map EXCEPT ![c] = map[a]] /\ tracked' = tracked
    BY <1>4 DEF Copy
  <2>2. map'[s][k] = map[s][k] \/ map'[s][k] = map[a][k]
    BY <1>t, <2>1
  <2>. QED  BY <2>1, <2>2, QuietFacts
<1>5. ASSUME NEW a \in Objs, NEW b \in Keys, RemoveKey(a, b)  PROVE FALSE
  BY <1>q, <1>5 DEF RemoveKey
<1>6. ASSUME NEW f, RemoveCounted(f)  PROVE Ends
  <2>. DEFINE x == map[f.s][f.k]
              e == UnlinkCall(f.s, f.k)
              g == ZeroCall(x, origins'[x])
  <2>1. /\ AtTop(f, "remove") /\ x \in Objs /\ stack' \in Seq(Frame)
        /\ f.s \in Objs /\ f.k \in Keys
        /\ \/ map' = ElementRemoved(f.s, f.k) /\ Pops /\ tracked' = tracked
           \/ map' = map /\ ReplacesAndCalls(e, g) /\ tracked' = tracked \ {x}
        /\ x \in tracked
    BY <1>t, <1>6, RemoveCountedEffect
  <2>2. PICK o : /\ Named(o) = Recorded(x, f.k) \ {f.s}
                 /\ origins' = [origins EXCEPT ![x][f.k] = o.seq]
    BY <1>t, <1>6, RemoveCountedEffect
  <2>3. g.op = "zero" /\ g.s = x /\ g.left = OriginsToLeave(origins'[x])
    BY CallFields
  <2>4. e.op = "unlink" /\ e.s = f.s /\ e.k = f.k
    BY CallFields
  <2>r. \A a \in Objs, b \in Keys :
          ElementRemoved(f.s, f.k)[a][b] = IF a = f.s /\ b = f.k THEN Null ELSE map[a][b]
    BY <1>t, <2>1, ElementRemovedEntries
  <2>p. map[f.s][f.k] = x
    OBVIOUS
  <2>. HIDE DEF x, e, g
  <2>5. f = stack[Len(stack)] /\ f.op = "remove" /\ stack # <<>>
    BY <2>1, EmptySeq, <1>t DEF AtTop, TypeOK
  <2>6. map'[s][k] = map[s][k]
    <3>1. map' = map \/ map' = ElementRemoved(f.s, f.k)
      BY <2>1
    <3>2. map'[s][k] # Null
      OBVIOUS
    <3>. QED  BY <2>r, <3>1, <3>2
  <2>7. CASE map[s][k] = x
    <3>1. ReplacesAndCalls(e, g) /\ map' = map
      BY <2>1, <2>6, <2>7
    <3>2. \E i, j \in DOMAIN stack' : stack'[i] = e /\ stack'[j] = g
      BY <1>t, <2>1, <2>5, <3>1, MadeCalls
    <3>3. CASE s = f.s /\ k = f.k
      <4>1. EndsHolding(e, s, k, map'[s][k])
        BY <2>4, <3>3 DEF EndsHolding, OnElement
      <4>. QED  BY <3>2, <4>1
    <3>4. CASE ~(s = f.s /\ k = f.k)
      <4>1. Recorded(x, k) = Holders(x, k) /\ s \in Holders(x, k)
        BY <1>t, <2>1, <2>7 DEF RecordInv, Holders
      <4>2. s \in ToSet(origins'[x][k])
        <5>1. CASE k = f.k
          <6>1. origins'[x][k] = o.seq
            BY <1>t, <2>1, <2>2, <5>1
          <6>2. s \in Named(o)
            BY <2>2, <3>4, <4>1, <5>1
          <6>. QED  BY <6>1, <6>2 DEF Named
        <5>2. CASE k # f.k
          <6>1. origins'[x][k] = origins[x][k]
            BY <1>t, <2>1, <2>2, <5>2
          <6>. QED  BY <4>1, <6>1 DEF Recorded
        <5>. QED  BY <5>1, <5>2
      <4>3. origins'[x] \in [Keys -> Seq(Objs \cup {Null})]
        BY <2>1, TypeStep DEF TypeOK
      <4>4. <<k, s>> \in g.left
        BY <2>3, <4>2, <4>3, ToLeave
      <4>5. EndsHolding(g, s, k, map'[s][k])
        BY <2>3, <2>6, <2>7, <4>4 DEF EndsHolding
      <4>. QED  BY <3>2, <4>5
    <3>. QED  BY <3>3, <3>4
  <2>8. CASE map[s][k] # x
    <3>1. map[s][k] \notin tracked
      BY <2>1, <2>6, <2>8
    <3>2. ~EndsHolding(f, s, k, map[s][k])
      BY <2>5, <2>p, <2>8 DEF EndsHolding
    <3>. QED  BY <1>k, <2>1, <2>6, <3>1, <3>2
  <2>. QED  BY <2>7, <2>8
<1>7. ASSUME NEW f, RemoveUncounted(f) \/ Unlink(f)  PROVE Ends
  <2>1. /\ AtTop(f, "remove") \/ AtTop(f, "unlink")
        /\ f.s \in Objs /\ f.k \in Keys /\ tracked' = tracked
        /\ map' = ElementRemoved(f.s, f.k)
        /\ Pops /\ stack' \in Seq(Frame)
    BY <1>t, <1>7, UnlinkedEffect
  <2>2. \A a \in Objs, b \in Keys :
          map'[a][b] = IF a = f.s /\ b = f.k THEN Null ELSE map[a][b]
    BY <1>t, <2>1, ElementRemovedEntries
  <2>3. map'[s][k] = map[s][k] /\ ~(s = f.s /\ k = f.k)
    BY <2>2
  <2>4. map[s][k] \notin tracked
    BY <2>1, <2>3
  <2>5. ~EndsHolding(f, s, k, map[s][k])
    BY <2>1, <2>3 DEF EndsHolding, AtTop
  <2>. HIDE DEF Ends
  <2>. QED  BY <1>k, <2>1, <2>3, <2>4, <2>5
<1>8. ASSUME NEW f, LeaveOrigin(f)  PROVE Ends
  <2>1. PICK p \in f.left :
          /\ p = <<p[1], p[2]>>
          /\ ReplacesAndCalls([f EXCEPT !.left = f.left \ {p}], RemoveCall(p[2], p[1]))
          /\ [f EXCEPT !.left = f.left \ {p}].op = "zero"
          /\ [f EXCEPT !.left = f.left \ {p}].s = f.s
          /\ [f EXCEPT !.left = f.left \ {p}].left = f.left \ {p}
    BY <1>t, <1>8, LeaveOriginEffect
  <2>. DEFINE e == [f EXCEPT !.left = f.left \ {p}]
              g == RemoveCall(p[2], p[1])
  <2>2. ReplacesAndCalls(e, g) /\ e.op = "zero" /\ e.s = f.s /\ e.left = f.left \ {p}
    BY <2>1
  <2>3. g.op = "remove" /\ g.s = p[2] /\ g.k = p[1]
    BY CallFields
  <2>. HIDE DEF e, g
  <2>4. AtTop(f, "zero") /\ stack' \in Seq(Frame) /\ tracked' = tracked /\ map' = map
    BY <1>t, <1>8, LeaveOriginEffect
  <2>5. f = stack[Len(stack)] /\ f.op = "zero" /\ stack # <<>>
    BY <2>4, EmptySeq, <1>t DEF AtTop, TypeOK
  <2>6. \E i, j \in DOMAIN stack' : stack'[i] = e /\ stack'[j] = g
    BY <1>t, <2>2, <2>4, <2>5, MadeCalls
  <2>7. ASSUME EndsHolding(f, s, k, map[s][k])
        PROVE  EndsHolding(e, s, k, map[s][k]) \/ EndsHolding(g, s, k, map[s][k])
    <3>1. f.s = map[s][k] /\ <<k, s>> \in f.left
      BY <2>5, <2>7 DEF EndsHolding, OnElement
    <3>2. CASE p = <<k, s>>
      BY <2>1, <2>3, <3>2 DEF EndsHolding, OnElement
    <3>3. CASE p # <<k, s>>
      BY <2>2, <3>1, <3>3 DEF EndsHolding
    <3>. QED  BY <3>2, <3>3
  <2>8. EndsHolding(f, s, k, map[s][k]) => Ends
    BY <2>4, <2>6, <2>7
  <2>9. map'[s][k] = map[s][k] /\ map[s][k] \notin tracked
    BY <2>4
  <2>. HIDE DEF Ends
  <2>. QED  BY <1>k, <2>2, <2>4, <2>8, <2>9
<1>9. ASSUME NEW f, DestroyRecord(f)  PROVE Ends
  <2>1. /\ AtTop(f, "zero") /\ f.left = {} /\ stack' \in Seq(Frame)
        /\ Replaces(ContentsCall(f.s)) /\ tracked' = tracked /\ map' = map
    BY <1>t, <1>9, DestroyRecordEffect
  <2>2. ~EndsHolding(f, s, k, map[s][k])
    BY <2>1 DEF EndsHolding, AtTop, OnElement
  <2>3. map'[s][k] = map[s][k] /\ map[s][k] \notin tracked
    BY <2>1
  <2>. HIDE DEF Ends
  <2>. QED  BY <1>k, <2>1, <2>2, <2>3
<1>10. ASSUME NEW f, RemoveElement(f)  PROVE Ends
  <2>1. PICK b : Calls(RemoveCall(f.s, b))
    BY <1>t, <1>10, RemoveElementEffect
  <2>2. AtTop(f, "contents") /\ stack' \in Seq(Frame) /\ tracked' = tracked /\ map' = map
    BY <1>t, <1>10, RemoveElementEffect
  <2>3. ~EndsHolding(f, s, k, map[s][k])
    BY <2>2 DEF EndsHolding, AtTop, OnElement
  <2>4. map'[s][k] = map[s][k] /\ map[s][k] \notin tracked
    BY <2>2
  <2>. HIDE DEF Ends
  <2>. QED  BY <1>k, <2>1, <2>2, <2>3, <2>4
<1>11. ASSUME NEW f, FreeStruct(f)  PROVE Ends
  <2>2. /\ AtTop(f, "contents") /\ stack' \in Seq(Frame) /\ tracked' = tracked
        /\ map' = map /\ Pops
    BY <1>t, <1>11, FreeStructEffect
  <2>3. ~EndsHolding(f, s, k, map[s][k])
    BY <2>2 DEF EndsHolding, AtTop, OnElement
  <2>4. map'[s][k] = map[s][k] /\ map[s][k] \notin tracked
    BY <2>2
  <2>. HIDE DEF Ends
  <2>. QED  BY <1>k, <2>2, <2>3, <2>4
<1>12. ASSUME UNCHANGED vars  PROVE Ends
  <2>1. map' = map /\ tracked' = tracked /\ stack' = stack
    BY <1>12 DEF vars
  <2>. QED  BY <1>h, <2>1
<1>. HIDE DEF Ends
<1>e. Ends
  BY <1>1, <1>2, <1>3, <1>4, <1>5, <1>6, <1>7, <1>8, <1>9, <1>10, <1>11, <1>12, NextCases
<1>. QED  BY <1>e DEF Ends

\* The places that hold a value can be counted.
LEMMA RefsFinite ==
  ASSUME TypeOK, NEW x
  PROVE  /\ IsFiniteSet(Refs(x)) /\ Cardinality(Refs(x)) \in Nat
         /\ Refs(x) = {p \in live \X Keys : map[p[1]][p[2]] = x}
<1>1. IsFiniteSet(live \X Keys)
  <2>1. IsFiniteSet(live) /\ IsFiniteSet(Keys)
    BY StructAssumption, FS_Subset DEF TypeOK
  <2>. QED  BY <2>1, FS_Product
<1>2. Refs(x) = {p \in live \X Keys : map[p[1]][p[2]] = x}
  BY DEF Refs
<1>3. IsFiniteSet(Refs(x))
  BY <1>1, <1>2, FS_Subset
<1>. QED  BY <1>2, <1>3, FS_CardinalityType

\* Every step keeps the counts covering the places.
LEMMA CountStep ==
  ASSUME Inv, [Next]_vars
  PROVE  CountInv'
<1>t. /\ TypeOK /\ StackInv /\ SlotsAccounted /\ CountInv /\ LiveInv
      /\ live \subseteq Objs
      /\ map \in [Objs -> [Keys -> Objs \cup {Null}]]
      /\ refcount \in [Objs -> Nat]
      /\ tracked \subseteq Objs
      /\ Null \notin Objs
  BY StructAssumption DEF Inv, CallsInv, TypeOK
<1>f. ASSUME NEW y  PROVE IsFiniteSet(Refs(y)) /\ Cardinality(Refs(y)) \in Nat
  BY <1>t, RefsFinite
<1>i. \A y : Refs(y)' = {p \in live' \X Keys : map'[p[1]][p[2]] = y}
  BY DEF Refs
<1>j. \A y : Refs(y) = {p \in live \X Keys : map[p[1]][p[2]] = y}
  BY DEF Refs
<1>. SUFFICES ASSUME NEW y \in tracked'
              PROVE  /\ refcount'[y] > 0
                     /\ refcount'[y] >= Cardinality(Refs(y)')
                     /\ y \notin shared' => refcount'[y] = Cardinality(Refs(y)')
  BY DEF CountInv
<1>y. IsFiniteSet(Refs(y)) /\ Cardinality(Refs(y)) \in Nat
  BY <1>f
<1>p. \A p \in live \X Keys : p = <<p[1], p[2]>> /\ p[1] \in Objs /\ p[1] \in live /\ p[2] \in Keys
  BY <1>t
<1>z. ASSUME live' = live,
             \A a \in Objs, b \in Keys : map'[a][b] = y <=> map[a][b] = y
      PROVE  Refs(y)' = Refs(y)
  <2>1. \A p \in live \X Keys : map'[p[1]][p[2]] = y <=> map[p[1]][p[2]] = y
    BY <1>p, <1>z
  <2>. QED  BY <1>i, <1>j, <1>z, <2>1
<1>w. ASSUME live' = live, NEW a \in live, NEW b \in Keys, map[a][b] = y,
             \A c \in Objs, d \in Keys :
                map'[c][d] = y <=> map[c][d] = y /\ ~(c = a /\ d = b)
      PROVE  Refs(y)' = Refs(y) \ {<<a, b>>} /\ <<a, b>> \in Refs(y)
  <2>1. \A p \in live \X Keys :
          map'[p[1]][p[2]] = y <=> map[p[1]][p[2]] = y /\ p # <<a, b>>
    BY <1>p, <1>w
  <2>2. <<a, b>> \in live \X Keys /\ <<a, b>>[1] = a /\ <<a, b>>[2] = b
    OBVIOUS
  <2>. QED  BY <1>i, <1>j, <1>w, <2>1, <2>2
<1>. DEFINE Good == /\ refcount'[y] > 0
                    /\ refcount'[y] >= Cardinality(Refs(y)')
                    /\ y \notin shared' => refcount'[y] = Cardinality(Refs(y)')
<1>k. ASSUME y \in tracked, Refs(y)' = Refs(y), refcount'[y] = refcount[y],
             y \in shared => y \in shared'
      PROVE  Good
  BY <1>t, <1>k DEF CountInv
<1>l. ASSUME live' = live, map' = map  PROVE Refs(y)' = Refs(y)
  BY <1>l, <1>i, <1>j
<1>u. ASSUME live' = live, map' = map, tracked' \subseteq tracked, refcount' = refcount,
             shared' = shared
      PROVE  Good
  BY <1>u, <1>k, <1>l
<1>1. ASSUME NEW x \in Objs, Create(x)  PROVE Good
  <2>1. /\ x \notin live /\ live' = live \cup {x} /\ map' = map /\ tracked' = tracked
        /\ refcount' = refcount /\ shared' = shared
    BY <1>1 DEF Create
  <2>2. \A k \in Keys : map[x][k] = Null
    BY <1>t, <2>1 DEF LiveInv
  <2>3. y # Null
    BY <1>t, <2>1
  <2>4. Refs(y)' = Refs(y)
    BY <1>i, <1>j, <2>1, <2>2, <2>3
  <2>. QED  BY <1>k, <2>1, <2>4
<1>2. ASSUME NEW x \in Objs, Free(x)  PROVE Good
  <2>1. /\ tracked' = tracked \ {x} /\ refcount' = refcount /\ live' = live /\ map' = map
        /\ shared' = shared
    BY <1>t, <1>2, FreeEffect
  <2>. QED  BY <1>u, <2>1
<1>3. ASSUME NEW s \in Objs, NEW x \in Objs, NEW k \in Keys, Set(s, k, x)  PROVE Good
  <2>0. TypeOK /\ SlotsAccounted
    BY <1>t
  <2>1. /\ Quiet /\ s \in live /\ map[s][k] = Null
        /\ map' = [map EXCEPT ![s][k] = x]
        /\ tracked' = tracked \cup {x}
        /\ refcount' = [refcount EXCEPT ![x] = refcount[x] + 1]
        /\ live' = live /\ shared' = shared
    BY <1>3 DEF Set, Counted
  <2>2. \A a \in Objs, b \in Keys : map'[a][b] = IF a = s /\ b = k THEN x ELSE map[a][b]
    BY <1>t, <2>1
  <2>3. \A p \in live \X Keys : p[1] \in Objs /\ p[2] \in Keys /\ p = <<p[1], p[2]>>
    BY <1>t
  <2>4. CASE y = x
    <3>1. Refs(x)' = Refs(x) \cup {<<s, k>>}
      BY <1>i, <1>j, <2>1, <2>2, <2>3
    <3>2. <<s, k>> \notin Refs(x)
      BY <1>j, <1>t, <2>1
    <3>3. Cardinality(Refs(x)') = Cardinality(Refs(x)) + 1
      BY <1>f, <3>1, <3>2, FS_AddElement
    <3>4. refcount[x] >= Cardinality(Refs(x)) /\ (x \notin shared => refcount[x] = Cardinality(Refs(x)))
      <4>1. CASE x \in tracked
        BY <1>t, <4>1 DEF CountInv
      <4>2. CASE x \notin tracked
        <5>1. refcount[x] = 0 /\ \A a \in Objs, b \in Keys : map[a][b] # x
          BY <1>t, <2>1, <4>2, QuietFacts
        <5>2. Refs(x) = {}
          BY <1>j, <2>3, <5>1
        <5>3. Cardinality(Refs(x)) = 0
          BY <5>2, FS_EmptySet
        <5>. QED  BY <5>1, <5>3
      <4>. QED  BY <4>1, <4>2
    <3>5. refcount'[x] = refcount[x] + 1 /\ refcount[x] \in Nat
      BY <1>t, <2>1
    <3>. QED  BY <1>f, <2>1, <2>4, <3>3, <3>4, <3>5
  <2>5. CASE y # x
    <3>1. y \in tracked /\ y \in Objs /\ y # Null
      BY <1>t, <2>1, <2>5
    <3>2. Refs(y)' = Refs(y)
      <4>1. \A a \in Objs, b \in Keys : map'[a][b] = y <=> map[a][b] = y
        BY <2>1, <2>2, <2>5, <3>1
      <4>. QED  BY <1>z, <2>1, <4>1
    <3>3. refcount'[y] = refcount[y]
      BY <1>t, <2>1, <2>5, <3>1
    <3>. QED  BY <1>k, <2>1, <3>1, <3>2, <3>3
  <2>. QED  BY <2>4, <2>5
<1>4. ASSUME NEW s \in Objs, NEW c \in Objs, Copy(s, c)  PROVE Good
  <2>0. TypeOK /\ SlotsAccounted
    BY <1>t
  <2>. DEFINE C == {k \in Keys : map[s][k] = y}
              D == {c} \X C
  <2>1. /\ c \notin live /\ live' = live \cup {c}
        /\ map' = [map EXCEPT ![c] = map[s]]
        /\ tracked' = tracked
        /\ refcount' = [x \in Objs |->
                          refcount[x] + 2 * Cardinality({k \in Keys : map[s][k] = x})]
        /\ shared' = shared \cup ({map[s][k] : k \in Keys} \ {Null})
    BY <1>4, <2>0, CopyEffect
  <2>2. y \in tracked /\ y \in Objs /\ y # Null
    BY <1>t, <2>1
  <2>3. refcount'[y] = refcount[y] + 2 * Cardinality(C)
    BY <2>1, <2>2
  <2>4. IsFiniteSet(C) /\ Cardinality(C) \in Nat
    <3>1. IsFiniteSet(C)
      BY StructAssumption, FS_Subset
    <3>. QED  BY <3>1, FS_CardinalityType
  <2>5. IsFiniteSet(D) /\ Cardinality(D) = Cardinality(C)
    <3>1. IsFiniteSet({c}) /\ Cardinality({c}) = 1
      BY FS_Singleton
    <3>2. IsFiniteSet(D) /\ Cardinality(D) = Cardinality({c}) * Cardinality(C)
      <4>. HIDE DEF C
      <4>. QED  BY <2>4, <3>1, FS_Product
    <3>. QED  BY <2>4, <3>1, <3>2
  <2>6. Refs(y)' = Refs(y) \cup D
    <3>1. \A a \in Objs, b \in Keys : map'[a][b] = IF a = c THEN map[s][b] ELSE map[a][b]
      BY <1>t, <2>1
    <3>2. \A a \in live, b \in Keys : a \in Objs /\ a # c
      BY <1>t, <2>1
    <3>3. \A p : p \in Refs(y)' <=> p \in Refs(y) \cup D
      BY <1>i, <1>j, <2>1, <3>1, <3>2
    <3>. QED  BY <3>3
  <2>7. Refs(y) \cap D = {}
    BY <1>j, <2>1
  <2>8. Cardinality(Refs(y)') = Cardinality(Refs(y)) + Cardinality(C)
    <3>1. IsFiniteSet(Refs(y)) /\ Cardinality(Refs(y)) \in Nat
      BY <1>f
    <3>. HIDE DEF C, D
    <3>2. Cardinality(Refs(y) \cup D) =
            Cardinality(Refs(y)) + Cardinality(D) - Cardinality(Refs(y) \cap D)
      BY <2>5, <3>1, FS_Union
    <3>3. Cardinality(Refs(y) \cap D) = 0
      BY <2>7, FS_EmptySet
    <3>. QED  BY <2>4, <2>5, <2>6, <3>1, <3>2, <3>3
  <2>9. y \notin shared' => y \notin shared /\ C = {}
    BY <2>1, <2>2
  <2>10. y \notin shared' => y \notin shared /\ Cardinality(C) = 0
    BY <2>9, FS_EmptySet
  <2>11. /\ refcount[y] > 0 /\ refcount[y] >= Cardinality(Refs(y)) /\ refcount[y] \in Nat
         /\ y \notin shared => refcount[y] = Cardinality(Refs(y))
         /\ Cardinality(Refs(y)) \in Nat
    BY <1>f, <1>t, <2>2 DEF CountInv
  <2>. HIDE DEF C
  <2>. QED  BY <2>3, <2>4, <2>8, <2>10, <2>11
<1>5. ASSUME NEW s \in Objs, NEW k \in Keys, RemoveKey(s, k)  PROVE Good
  <2>1. /\ tracked' = tracked /\ refcount' = refcount /\ live' = live /\ map' = map
        /\ shared' = shared
    BY <1>5 DEF RemoveKey
  <2>. QED  BY <1>u, <2>1
<1>6. ASSUME NEW f, RemoveCounted(f)  PROVE Good
  <2>. DEFINE x == map[f.s][f.k]
  <2>1. /\ x \in Objs /\ x \in tracked /\ f.s \in Objs /\ f.k \in Keys
        /\ refcount' = [refcount EXCEPT ![x] = refcount[x] - 1]
        /\ \/ refcount[x] - 1 > 0 /\ map' = ElementRemoved(f.s, f.k) /\ tracked' = tracked
           \/ map' = map /\ tracked' = tracked \ {x}
        /\ live' = live /\ shared' = shared
    BY <1>t, <1>6, RemoveCountedEffect
  <2>r. \A a \in Objs, b \in Keys :
          ElementRemoved(f.s, f.k)[a][b] = IF a = f.s /\ b = f.k THEN Null ELSE map[a][b]
    BY <1>t, <2>1, ElementRemovedEntries
  <2>p. map[f.s][f.k] = x
    OBVIOUS
  <2>. HIDE DEF x
  <2>3. \A p \in live \X Keys : p[1] \in Objs /\ p[2] \in Keys /\ p = <<p[1], p[2]>>
    BY <1>t
  <2>4. CASE y = x
    <3>1. refcount[x] - 1 > 0 /\ map' = ElementRemoved(f.s, f.k)
      BY <2>1, <2>4
    <3>2. f.s \in live
      BY <1>t, <2>1, <2>p DEF LiveInv
    <3>4. y # Null /\ y \in Objs /\ y \in tracked
      BY <1>t, <2>1, <2>4
    <3>5. Refs(y)' = Refs(y) \ {<<f.s, f.k>>} /\ <<f.s, f.k>> \in Refs(y)
      <4>1. \A a \in Objs, b \in Keys :
              map'[a][b] = y <=> map[a][b] = y /\ ~(a = f.s /\ b = f.k)
        BY <2>r, <3>1, <3>4
      <4>2. map[f.s][f.k] = y /\ live' = live /\ f.k \in Keys
        BY <2>1, <2>4, <2>p
      <4>. QED  BY <1>w, <3>2, <4>1, <4>2
    <3>6. Cardinality(Refs(y)') = Cardinality(Refs(y)) - 1
      <4>. DEFINE q == <<f.s, f.k>>
                  R == Refs(y)
      <4>1. Refs(y)' = R \ {q} /\ q \in R /\ IsFiniteSet(R)
        BY <1>y, <3>5
      <4>. HIDE DEF q, R
      <4>2. Cardinality(R \ {q}) = Cardinality(R) - 1
        BY <4>1, FS_RemoveElement
      <4>3. Cardinality(Refs(y)') = Cardinality(R) - 1
        BY <4>1, <4>2
      <4>. QED  BY <4>3 DEF R
    <3>7. refcount'[y] = refcount[y] - 1 /\ refcount[y] \in Nat
      BY <1>t, <2>1, <2>4, <3>4
    <3>8. refcount[y] >= Cardinality(Refs(y)) /\ (y \notin shared => refcount[y] = Cardinality(Refs(y)))
      BY <1>t, <3>4 DEF CountInv
    <3>9. refcount[y] - 1 > 0 /\ shared' = shared
      BY <2>1, <2>4, <3>1
    <3>. QED  BY <1>y, <3>6, <3>7, <3>8, <3>9
  <2>5. CASE y # x
    <3>1. y \in tracked /\ y \in Objs /\ y # Null
      BY <1>t, <2>1, <2>5
    <3>2. map' = map \/ map' = ElementRemoved(f.s, f.k)
      BY <2>1
    <3>3. Refs(y)' = Refs(y)
      <4>1. CASE map' = map
        BY <1>l, <2>1, <4>1
      <4>2. CASE map' = ElementRemoved(f.s, f.k)
        <5>1. \A a \in Objs, b \in Keys : map'[a][b] = y <=> map[a][b] = y
          BY <2>r, <2>p, <2>5, <3>1, <4>2
        <5>. QED  BY <1>z, <2>1, <5>1
      <4>. QED  BY <3>2, <4>1, <4>2
    <3>4. refcount'[y] = refcount[y]
      BY <1>t, <2>1, <2>5, <3>1
    <3>. QED  BY <1>k, <2>1, <3>1, <3>3, <3>4
  <2>. QED  BY <2>4, <2>5
<1>7. ASSUME NEW f, RemoveUncounted(f) \/ Unlink(f)  PROVE Good
  <2>1. /\ \/ AtTop(f, "remove") /\ map[f.s][f.k] \notin tracked
           \/ AtTop(f, "unlink")
        /\ f.s \in Objs /\ f.k \in Keys /\ tracked' = tracked /\ live' = live
        /\ shared' = shared /\ refcount' = refcount
        /\ map' = ElementRemoved(f.s, f.k)
    BY <1>t, <1>7, UnlinkedEffect
  <2>2. map[f.s][f.k] \notin tracked
    BY <2>1, TopFacts
  <2>r. \A a \in Objs, b \in Keys :
          map'[a][b] = IF a = f.s /\ b = f.k THEN Null ELSE map[a][b]
    BY <1>t, <2>1, ElementRemovedEntries
  <2>3. \A p \in live \X Keys : p[1] \in Objs /\ p[2] \in Keys /\ p = <<p[1], p[2]>>
    BY <1>t
  <2>4. y \in tracked /\ y # Null /\ y # map[f.s][f.k]
    BY <1>t, <2>1, <2>2
  <2>5. Refs(y)' = Refs(y)
    <3>1. \A a \in Objs, b \in Keys : map'[a][b] = y <=> map[a][b] = y
      BY <2>r, <2>4
    <3>. QED  BY <1>z, <2>1, <3>1
  <2>. QED  BY <1>k, <2>1, <2>4, <2>5
<1>8. ASSUME NEW f, LeaveOrigin(f) \/ RemoveElement(f)  PROVE Good
  <2>1. /\ tracked' = tracked /\ refcount' = refcount /\ live' = live /\ map' = map
        /\ shared' = shared
    BY <1>8 DEF LeaveOrigin, RemoveElement
  <2>. QED  BY <1>u, <2>1
<1>9. ASSUME NEW f, DestroyRecord(f)  PROVE Good
  <2>1. /\ AtTop(f, "zero") /\ map' = map /\ tracked' = tracked /\ f.s \in Objs
        /\ refcount' = [refcount EXCEPT ![f.s] = 0] /\ live' = live /\ shared' = shared
    BY <1>t, <1>9, DestroyRecordEffect
  <2>2. f.s \notin tracked
    BY <2>1, TopFacts DEF TearsDown
  <2>3. refcount'[y] = refcount[y]
    BY <1>t, <2>1, <2>2
  <2>. QED  BY <1>k, <1>l, <2>1, <2>3
<1>11. ASSUME NEW f, FreeStruct(f)  PROVE Good
  <2>1. /\ AtTop(f, "contents") /\ \A k \in Keys : map[f.s][k] = Null
        /\ live' = live \ {f.s} /\ map' = map /\ tracked' = tracked /\ refcount' = refcount
        /\ shared' = shared \ {f.s}
    BY <1>t, <1>11, FreeStructEffect
  <2>2. f.s \notin tracked
    BY <2>1, TopFacts DEF TearsDown
  <2>3. y # Null /\ y # f.s
    BY <1>t, <2>1, <2>2
  <2>4. Refs(y)' = Refs(y)
    BY <1>i, <1>j, <2>1, <2>3
  <2>. QED  BY <1>k, <2>1, <2>3, <2>4
<1>12. ASSUME UNCHANGED vars  PROVE Good
  BY <1>u, <1>12 DEF vars
<1>. HIDE DEF Good
<1>e. Good
  BY <1>1, <1>2, <1>3, <1>4, <1>5, <1>6, <1>7, <1>8, <1>9, <1>11, <1>12, NextCases
<1>. QED  BY <1>e DEF Good

\* No step leaves an element behind that refers to a freed value, unless the
\* call that unlinks it is under way.
LEMMA NoDanglingStep ==
  ASSUME Inv, [Next]_vars
  PROVE  NoDangling'
<1>t. /\ TypeOK /\ StackInv /\ SlotsAccounted /\ NoDangling
      /\ live \subseteq Objs
      /\ map \in [Objs -> [Keys -> Objs \cup {Null}]]
      /\ tracked \subseteq live
      /\ Null \notin Objs
      /\ ToSet(stack) = {stack[i] : i \in DOMAIN stack}
      /\ ToSet(stack') = {stack'[i] : i \in DOMAIN stack'}
  BY StructAssumption DEF Inv, CallsInv, TypeOK, LiveInv, ToSet
<1>. SUFFICES ASSUME NEW s \in live', NEW k \in Keys, map'[s][k] \notin live' \cup {Null}
              PROVE  UnlinkCall(s, k) \in ToSet(stack')
  BY DEF NoDangling
<1>. DEFINE u == UnlinkCall(s, k)
<1>u. u.op = "unlink" /\ u.s = s /\ u.k = k /\ u.left = {}
  BY DEF UnlinkCall
<1>. HIDE DEF u
<1>q. ASSUME Quiet, s \in Objs, map'[s][k] = map[s][k], live \subseteq live'  PROVE FALSE
  BY <1>t, <1>q, QuietFacts
<1>k. ASSUME NEW f, NEW op, AtTop(f, op), stack' \in Seq(Frame), f # u,
             NEW e, NEW g, Pops \/ Replaces(e) \/ Calls(e) \/ ReplacesAndCalls(e, g),
             u \in ToSet(stack)
      PROVE  u \in ToSet(stack')
  <2>1. PICK i \in DOMAIN stack : stack[i] = u
    BY <1>t, <1>k
  <2>2. i # Len(stack)
    BY <1>k, <2>1 DEF AtTop
  <2>3. i \in DOMAIN stack' /\ stack'[i] = stack[i]
    BY <1>t, <1>k, <2>2, KeptCalls
  <2>. QED  BY <1>t, <2>1, <2>3
<1>o. ASSUME live' = live, map'[s][k] = map[s][k]  PROVE u \in ToSet(stack)
  BY <1>t, <1>o DEF NoDangling, u
<1>1. ASSUME NEW x \in Objs, Create(x)  PROVE FALSE
  BY <1>t, <1>q, <1>1 DEF Create
<1>2. ASSUME NEW x \in Objs, Free(x)  PROVE FALSE
  <2>1. Quiet /\ live' = live /\ map' = map
    BY <1>t, <1>2, FreeEffect
  <2>. QED  BY <1>t, <1>q, <2>1
<1>3. ASSUME NEW a \in Objs, NEW x \in Objs, NEW b \in Keys, Set(a, b, x)  PROVE FALSE
  <2>1. Quiet /\ map' = [map EXCEPT ![a][b] = x] /\ live' = live /\ x \in live
    BY <1>3 DEF Set
  <2>2. map'[s][k] = map[s][k] \/ map'[s][k] = x
    BY <1>t, <2>1
  <2>. QED  BY <1>t, <1>q, <2>1, <2>2
<1>4. ASSUME NEW a \in Objs, NEW c \in Objs, Copy(a, c)  PROVE FALSE
  <2>1. Quiet /\ map' = [map EXCEPT ![c] = map[a]] /\ live' = live \cup {c}
    BY <1>4 DEF Copy
  <2>2. s \in Objs /\ (map'[s][k] = map[s][k] \/ map'[s][k] = map[a][k])
    BY <1>t, <2>1
  <2>3. map[s][k] \in tracked \cup {Null} /\ map[a][k] \in tracked \cup {Null}
    BY <2>1, <2>2, QuietFacts
  <2>. QED  BY <1>t, <2>1, <2>2, <2>3
<1>5. ASSUME NEW a \in Objs, NEW b \in Keys, RemoveKey(a, b)  PROVE FALSE
  BY <1>t, <1>q, <1>5 DEF RemoveKey
<1>6. ASSUME NEW f, RemoveCounted(f)  PROVE u \in ToSet(stack')
  <2>1. /\ AtTop(f, "remove") /\ stack' \in Seq(Frame) /\ f.s \in Objs /\ f.k \in Keys
        /\ live' = live
        /\ map' = ElementRemoved(f.s, f.k) \/ map' = map
    BY <1>t, <1>6, RemoveCountedEffect
  <2>2. \E e, g : Pops \/ ReplacesAndCalls(e, g)
    BY <1>t, <1>6, RemoveCountedEffect
  <2>3. map'[s][k] = map[s][k]
    <3>1. \A a \in Objs, b \in Keys : map'[a][b] \in {map[a][b], Null}
      BY <1>t, <2>1, ElementRemovedEntries
    <3>. QED  BY <1>t, <2>1, <3>1
  <2>4. f # u
    BY <1>u, <2>1 DEF AtTop
  <2>. QED  BY <1>k, <1>o, <2>1, <2>2, <2>3, <2>4
<1>7. ASSUME NEW f, RemoveUncounted(f) \/ Unlink(f)  PROVE u \in ToSet(stack')
  <2>1. /\ AtTop(f, "remove") \/ AtTop(f, "unlink")
        /\ f.s \in Objs /\ f.k \in Keys /\ live' = live
        /\ map' = ElementRemoved(f.s, f.k)
        /\ Pops /\ stack' \in Seq(Frame)
    BY <1>t, <1>7, UnlinkedEffect
  <2>2. \A a \in Objs, b \in Keys :
          map'[a][b] = IF a = f.s /\ b = f.k THEN Null ELSE map[a][b]
    BY <1>t, <2>1, ElementRemovedEntries
  <2>3. map'[s][k] = map[s][k] /\ ~(s = f.s /\ k = f.k)
    BY <1>t, <2>1, <2>2
  <2>4. f # u
    BY <1>u, <2>3
  <2>. QED  BY <1>k, <1>o, <2>1, <2>3, <2>4
<1>8. ASSUME NEW f, LeaveOrigin(f)  PROVE u \in ToSet(stack')
  <2>1. AtTop(f, "zero") /\ stack' \in Seq(Frame) /\ live' = live /\ map' = map
    BY <1>t, <1>8, LeaveOriginEffect
  <2>2. \E e, g : ReplacesAndCalls(e, g)
    BY <1>t, <1>8, LeaveOriginEffect
  <2>3. f # u
    BY <1>u, <2>1 DEF AtTop
  <2>. QED  BY <1>k, <1>o, <2>1, <2>2, <2>3
<1>9. ASSUME NEW f, DestroyRecord(f)  PROVE u \in ToSet(stack')
  <2>1. /\ AtTop(f, "zero") /\ stack' \in Seq(Frame) /\ live' = live /\ map' = map
        /\ Replaces(ContentsCall(f.s))
    BY <1>t, <1>9, DestroyRecordEffect
  <2>3. f # u
    BY <1>u, <2>1 DEF AtTop
  <2>. QED  BY <1>k, <1>o, <2>1, <2>3
<1>10. ASSUME NEW f, RemoveElement(f)  PROVE u \in ToSet(stack')
  <2>1. AtTop(f, "contents") /\ stack' \in Seq(Frame) /\ live' = live /\ map' = map
    BY <1>t, <1>10, RemoveElementEffect
  <2>2. \E e : Calls(e)
    BY <1>t, <1>10, RemoveElementEffect
  <2>3. f # u
    BY <1>u, <2>1 DEF AtTop
  <2>. QED  BY <1>k, <1>o, <2>1, <2>2, <2>3
<1>11. ASSUME NEW f, FreeStruct(f)  PROVE u \in ToSet(stack')
  <2>1. /\ AtTop(f, "contents") /\ stack' \in Seq(Frame) /\ live' = live \ {f.s} /\ map' = map
        /\ Pops
    BY <1>t, <1>11, FreeStructEffect
  <2>2. f # u
    BY <1>u, <2>1 DEF AtTop
  <2>3. /\ Len(stack) \in DOMAIN stack /\ f = stack[Len(stack)] /\ f.op = "contents"
        /\ f.s \notin tracked /\ f.s \in Objs
    BY <2>1, TopFacts DEF TearsDown
  <2>4. u \in ToSet(stack)
    <3>1. CASE map[s][k] \notin live
      BY <1>t, <2>1, <3>1 DEF NoDangling, u
    <3>2. CASE map[s][k] \in live
      <4>1. map[s][k] = f.s /\ s \in Objs /\ f.s \notin tracked \cup {Null}
        BY <1>t, <2>1, <2>3, <3>2
      <4>2. PICK i \in DOMAIN stack :
              \/ stack[i].op \in OnElement /\ stack[i].s = s /\ stack[i].k = k
              \/ stack[i].op = "zero" /\ stack[i].s = map[s][k]
        BY <4>1 DEF Inv, HeldInv
      <4>3. stack[i].op # "zero"
        <5>. SUFFICES ASSUME stack[i].op = "zero"  PROVE FALSE
          OBVIOUS
        <5>1. i # Len(stack) /\ stack[i].s = f.s
          BY <2>3, <4>1, <4>2 DEF OnElement
        <5>2. TornDownOnce
          BY DEF Inv, CallsInv
        <5>. QED  BY <2>3, <5>1, <5>2 DEF TornDownOnce
      <4>4. stack[i].op # "remove"
        BY <1>t, <2>3 DEF StackInv
      <4>5. stack[i].op = "unlink" /\ stack[i].s = s /\ stack[i].k = k
        BY <4>2, <4>3, <4>4 DEF OnElement
      <4>6. stack[i].left = {} /\ stack[i] \in Frame
        BY <1>t, <4>5, StackType DEF Inv, UnlinksInv
      <4>7. stack[i] = u
        BY <4>5, <4>6 DEF Frame, u, UnlinkCall
      <4>. QED  BY <1>t, <4>7
    <3>. QED  BY <3>1, <3>2
  <2>. QED  BY <1>k, <2>1, <2>2, <2>4
<1>12. ASSUME UNCHANGED vars  PROVE u \in ToSet(stack')
  <2>1. live' = live /\ map' = map /\ stack' = stack
    BY <1>12 DEF vars
  <2>. QED  BY <1>o, <1>t, <2>1
<1>e. u \in ToSet(stack')
  BY <1>1, <1>2, <1>3, <1>4, <1>5, <1>6, <1>7, <1>8, <1>9, <1>10, <1>11, <1>12, NextCases
<1>. QED  BY <1>e DEF u

-----------------------------------------------------------------------------
(* The theorems.                                                           *)

\* The initial state satisfies the invariant.
LEMMA InvInit == Init => Inv
<1>. SUFFICES ASSUME Init PROVE Inv
  OBVIOUS
<1>1. /\ live = {} /\ map = [s \in Objs |-> [k \in Keys |-> Null]]
      /\ tracked = {} /\ refcount = [x \in Objs |-> 0]
      /\ origins = [x \in Objs |-> [k \in Keys |-> <<>>]]
      /\ empty = [x \in Objs |-> [k \in Keys |-> <<>>]]
      /\ stack = <<>> /\ shared = {}
  BY DEF Init
<1>2. DOMAIN stack = {} /\ ToSet(stack) = {}
  BY <1>1, DOMAIN <<>> = {} DEF ToSet
<1>3. TypeOK
  <2>1. origins \in [Objs -> [Keys -> Seq(Objs \cup {Null})]]
    BY <1>1
  <2>2. empty \in [Objs -> [Keys -> Seq(Nat)]]
    BY <1>1
  <2>3. stack \in Seq(Frame)
    BY <1>1
  <2>. QED  BY <1>1, <2>1, <2>2, <2>3 DEF TypeOK
<1>4. CallsInv
  BY <1>2, Zenon DEF CallsInv, StackInv, CallerInv, UntrackedInv, TornDownOnce, LeftInv
<1>5. /\ \A s \in Objs, k \in Keys : map[s][k] = Null
      /\ \A x \in Objs, k \in Keys : origins[x][k] = <<>> /\ empty[x][k] = <<>>
      /\ \A x \in Objs : refcount[x] = 0
  BY <1>1
<1>6. LiveInv /\ RecordInv /\ NoRecordInv /\ HeldInv /\ CountInv
  BY <1>1, <1>5 DEF LiveInv, RecordInv, NoRecordInv, HeldInv, CountInv
<1>7. SlotsAccounted
  <2>1. IsInjective(<<>>) /\ ToSet(<<>>) = {} /\ DOMAIN <<>> = {}
    BY DEF IsInjective, ToSet
  <2>. QED  BY <1>5, <2>1 DEF SlotsAccounted
<1>8. UnlinksInv /\ NoDangling
  BY <1>1, <1>2 DEF UnlinksInv, NoDangling
<1>. QED  BY <1>3, <1>4, <1>6, <1>7, <1>8 DEF Inv

\* Every step keeps the invariant.
LEMMA InvStep == Inv /\ [Next]_vars => Inv'
<1>. SUFFICES ASSUME Inv, [Next]_vars  PROVE Inv'
  OBVIOUS
<1>1. TypeOK' /\ CallsInv' /\ LiveInv' /\ RecordInv' /\ NoRecordInv'
  BY TypeStep, CallsStep, LiveStep, RecordStep, NoRecordStep
<1>2. HeldInv' /\ CountInv' /\ SlotsAccounted' /\ UnlinksInv' /\ NoDangling'
  BY HeldStep, CountStep, SlotsStep, UnlinksStep, NoDanglingStep
<1>. QED  BY <1>1, <1>2 DEF Inv

\* The invariant always holds.
LEMMA InvAlways == Spec => []Inv
BY InvInit, InvStep, PTL DEF Spec

\* The variables have their types, for any structs and keys: the stack of calls
\* stays one of well-formed calls, and no count of references becomes negative.
THEOREM TypeOKAlways == Spec => []TypeOK
<1>1. Inv => TypeOK
  BY DEF Inv
<1>. QED  BY <1>1, InvAlways, PTL

\* However the structs hold each other, cycles included, and in whatever order
\* a struct's elements are removed, no value is torn down by two calls of
\* prec_delete and rpc_struct_free_internals at the same time.
THEOREM TornDownOnceAlways == Spec => []TornDownOnce
<1>1. Inv => TornDownOnce
  BY DEF Inv, CallsInv
<1>. QED  BY <1>1, InvAlways, PTL

\* An element refers to a freed value only while the rpc_struct_remove that
\* dropped the last reference is about to unlink it: rpc_struct_onzero_cb has
\* taken the value out of every other struct that held it.
THEOREM NoDanglingAlways == Spec => []NoDangling
<1>1. Inv => NoDangling
  BY DEF Inv
<1>. QED  BY <1>1, InvAlways, PTL

\* The queue of free indices of the origins is exact, without repetitions, at
\* every moment of a recursive free: rpc_struct_increment_cb never overwrites
\* an origin.
THEOREM SlotsAccountedAlways == Spec => []SlotsAccounted
<1>1. Inv => SlotsAccounted
  BY DEF Inv
<1>. QED  BY <1>1, InvAlways, PTL

\* Between calls the origins that the tracker keeps for a value are exactly the
\* structs that hold it: rpc_struct_onzero_cb will find all of them, and no other.
THEOREM OriginsExactAlways == Spec => []OriginsExact
<1>1. ASSUME Inv, Quiet, NEW x \in Objs, NEW k \in Keys
      PROVE  ToSet(origins[x][k]) \ {Null} = {s \in live : map[s][k] = x}
  <2>1. Recorded(x, k) = Holders(x, k)
    BY <1>1, QuietFacts
  <2>2. x # Null /\ live \subseteq Objs /\ \A s \in Objs \ live : map[s][k] = Null
    BY <1>1, StructAssumption DEF Inv, TypeOK, LiveInv
  <2>. QED  BY <2>1, <2>2 DEF Recorded, Holders
<1>2. Inv => OriginsExact
  BY <1>1 DEF OriginsExact
<1>. QED  BY <1>2, InvAlways, PTL

\* Between calls the tracker's count of a value is the number of places that hold
\* it, or more if a copied struct has held it, and it has a record if and only if
\* somebody holds a reference: no value is freed that is still held.
THEOREM CountsExactAlways == Spec => []CountsExact
<1>1. ASSUME Inv, Quiet, NEW x \in Objs
      PROVE  /\ refcount[x] >= Cardinality(Refs(x))
             /\ x \notin shared => refcount[x] = Cardinality(Refs(x))
             /\ x \in tracked <=> refcount[x] > 0
  <2>1. TypeOK /\ CountInv /\ live \subseteq Objs
    BY <1>1 DEF Inv, TypeOK
  <2>2. CASE x \in tracked
    BY <2>1, <2>2 DEF CountInv
  <2>3. CASE x \notin tracked
    <3>1. refcount[x] = 0 /\ \A s \in Objs, k \in Keys : map[s][k] \in tracked \cup {Null}
      BY <1>1, <2>3, QuietFacts
    <3>2. x # Null
      BY StructAssumption
    <3>3. Refs(x) = {}
      BY <2>1, <2>3, <3>1, <3>2 DEF Refs
    <3>4. Cardinality(Refs(x)) = 0
      BY <3>3, FS_EmptySet
    <3>. QED  BY <2>3, <3>1, <3>4
  <2>. QED  BY <2>2, <2>3
<1>2. Inv => CountsExact
  BY <1>1 DEF CountsExact
<1>. QED  BY <1>2, InvAlways, PTL

-----------------------------------------------------------------------------
(* Calls and freed structs.                                                *)

\* S keeps the removal that is the first call of the stack st away from its
\* struct: nothing in it leads out of it.
Away(S, st, m) ==
  /\ S \in SUBSET (Objs \ {st[1].s})
  /\ \A a \in S, k \in Keys : m[a][k] \in S \cup {Null}
  /\ m[st[1].s][st[1].k] \in S \cup {Null}
  /\ \A i \in DOMAIN st : i # 1 /\ st[i].op # "remove" => st[i].s \in S

\* AwayInv, in a state and in the next.
LEMMA AwayInvIs ==
  /\ AwayInv => (stack # <<>> /\ stack[1].op \in OnElement => \E S : Away(S, stack, map))
  /\ (stack' # <<>> /\ stack'[1].op \in OnElement => \E S : Away(S, stack', map')) => AwayInv'
<1>1. ASSUME AwayInv, stack # <<>>, stack[1].op \in OnElement
      PROVE  \E S : Away(S, stack, map)
  BY <1>1, Zenon DEF AwayInv, Away
<1>2. ASSUME stack' # <<>> /\ stack'[1].op \in OnElement => \E S : Away(S, stack', map')
      PROVE  AwayInv'
  BY <1>2, Zenon DEF AwayInv, Away
<1>. QED  BY <1>1, <1>2

\* A call that goes on keeps its removal away from its struct.
LEMMA AwayStep ==
  ASSUME Inv, [Next]_vars, AwayInv, ~RemoveFromCycles
  PROVE  AwayInv'
<1>t. /\ TypeOK /\ StackInv /\ SlotsAccounted /\ CallerInv
      /\ stack \in Seq(Frame)
      /\ map \in [Objs -> [Keys -> Objs \cup {Null}]]
      /\ tracked \subseteq Objs
      /\ Null \notin Objs
  BY StructAssumption DEF Inv, CallsInv, TypeOK
<1>. DEFINE n == Len(stack)
<1>n. stack # <<>> => n \in Nat \ {0} /\ DOMAIN stack = 1 .. n
  BY <1>t, EmptySeq, StackType
<1>e. ASSUME stack' \in Seq(Frame), stack' # <<>>  PROVE 1 \in DOMAIN stack'
  <2>1. Len(stack') \in Nat \ {0} /\ DOMAIN stack' = 1 .. Len(stack')
    BY <1>e, EmptySeq, LenProperties
  <2>. QED  BY <2>1
\* the first call stays, or becomes an unlinking one; the others were there or stay inside S
<1>g. ASSUME NEW S, Away(S, stack, map), stack # <<>>,
             \A a \in Objs, b \in Keys : map'[a][b] \in {map[a][b], Null},
             stack'[1].s = stack[1].s, stack'[1].k = stack[1].k,
             stack[1].s \in Objs, stack[1].k \in Keys,
             \A i \in DOMAIN stack' : i # 1 /\ stack'[i].op # "remove" => stack'[i].s \in S
      PROVE  Away(S, stack', map')
  <2>1. \A a \in S, b \in Keys : map[a][b] \in S \cup {Null} /\ a \in Objs
    BY <1>g DEF Away
  <2>2. \A a \in S, b \in Keys : map'[a][b] \in S \cup {Null}
    BY <1>g, <2>1
  <2>3. map[stack[1].s][stack[1].k] \in S \cup {Null}
    BY <1>g DEF Away
  <2>4. map'[stack'[1].s][stack'[1].k] \in S \cup {Null}
    BY <1>g, <2>3
  <2>5. S \in SUBSET (Objs \ {stack'[1].s})
    BY <1>g DEF Away
  <2>. QED  BY <1>g, <2>2, <2>4, <2>5 DEF Away
<1>. SUFFICES ASSUME stack' # <<>>, stack'[1].op \in OnElement
              PROVE  \E S : Away(S, stack', map')
  BY AwayInvIs
<1>. DEFINE Goal == \E S : Away(S, stack', map')
<1>o. ASSUME stack # <<>>, stack[1].op \in OnElement
      PROVE  /\ \E S : Away(S, stack, map)
             /\ stack[1].s \in Objs /\ stack[1].k \in Keys /\ 1 \in DOMAIN stack
  <2>1. 1 \in DOMAIN stack
    BY <1>n, <1>o
  <2>2. stack[1].s \in Objs /\ stack[1].k \in Keys
    BY <1>o, <1>t, <2>1, StackType DEF StackInv
  <2>. QED  BY <1>o, <2>1, <2>2, AwayInvIs
<1>q. ASSUME Quiet, stack' = stack  PROVE Goal
  BY <1>q DEF Quiet
\* nothing is called but removals, and the calls that remain keep their structs
<1>k. ASSUME stack # <<>>, stack' \in Seq(Frame),
             \A i \in DOMAIN stack' :
                \/ i \in DOMAIN stack /\ stack'[i] = stack[i]
                \/ i # 1 /\ stack'[i].op = "remove",
             \A a \in Objs, b \in Keys : map'[a][b] \in {map[a][b], Null}
      PROVE  Goal
  <2>1. 1 \in DOMAIN stack' /\ stack'[1] = stack[1]
    BY <1>e, <1>k
  <2>2. PICK S : Away(S, stack, map)
    BY <1>k, <1>o, <2>1
  <2>3. \A i \in DOMAIN stack' : i # 1 /\ stack'[i].op # "remove" => stack'[i].s \in S
    BY <1>k, <2>2 DEF Away
  <2>4. stack[1].s \in Objs /\ stack[1].k \in Keys
    BY <1>k, <1>o, <2>1
  <2>5. Away(S, stack', map')
    BY <1>g, <1>k, <2>1, <2>2, <2>3, <2>4
  <2>. QED  BY <2>5
\* the innermost call becomes another for the same struct
<1>r. ASSUME stack # <<>>, stack' \in Seq(Frame), map' = map,
             \A i \in DOMAIN stack' :
                \/ i \in DOMAIN stack /\ stack'[i] = stack[i]
                \/ i = n /\ stack[n].op \notin OnElement /\ stack'[n].op \notin OnElement
                         /\ stack'[n].s = stack[n].s
                \/ i # 1 /\ stack'[i].op = "remove"
      PROVE  Goal
  <2>1. 1 \in DOMAIN stack' /\ stack'[1] = stack[1]
    BY <1>e, <1>r
  <2>2. PICK S : Away(S, stack, map)
    BY <1>r, <1>o, <2>1
  <2>4. stack[1].s \in Objs /\ stack[1].k \in Keys
    BY <1>r, <1>o, <2>1
  <2>5. n \in DOMAIN stack
    BY <1>n, <1>r
  <2>3. \A i \in DOMAIN stack' : i # 1 /\ stack'[i].op # "remove" => stack'[i].s \in S
    <3>. HIDE DEF n
    <3>1. ASSUME NEW i \in DOMAIN stack', i # 1, stack'[i].op # "remove",
                 i = n /\ stack[n].op \notin OnElement /\ stack'[n].s = stack[n].s
          PROVE  stack'[i].s \in S
      <4>1. stack[n].op # "remove"
        BY <3>1 DEF OnElement
      <4>. QED  BY <2>2, <2>5, <3>1, <4>1 DEF Away
    <3>. QED  BY <1>r, <2>2, <3>1 DEF Away
  <2>6. \A a \in Objs, b \in Keys : map'[a][b] \in {map[a][b], Null}
    BY <1>r
  <2>7. Away(S, stack', map')
    BY <1>g, <1>r, <2>1, <2>2, <2>3, <2>4, <2>6
  <2>. QED  BY <2>7
<1>1. ASSUME NEW x \in Objs, Create(x)  PROVE Goal
  BY <1>q, <1>1 DEF Create
<1>2. ASSUME NEW x \in Objs, Free(x)  PROVE Goal
  <2>1. stack'[1].op \in TearsDown
    <3>1. stack' = <<ZeroCall(x, origins[x])>> \/ stack' = <<ContentsCall(x)>>
      BY <1>2 DEF Free
    <3>2. ZeroCall(x, origins[x]).op = "zero" /\ ContentsCall(x).op = "contents"
      BY CallFields
    <3>. QED  BY <3>1, <3>2 DEF TearsDown
  <2>. QED  BY <2>1 DEF TearsDown, OnElement
<1>3. ASSUME NEW s \in Objs, NEW x \in Objs, NEW k \in Keys, Set(s, k, x)  PROVE Goal
  BY <1>q, <1>3 DEF Set
<1>4. ASSUME NEW s \in Objs, NEW c \in Objs, Copy(s, c)  PROVE Goal
  BY <1>q, <1>4 DEF Copy

<1>5. ASSUME NEW s \in Objs, NEW k \in Keys, RemoveKey(s, k)  PROVE Goal
  <2>1. /\ stack' = <<RemoveCall(s, k)>> /\ map' = map
        /\ ~LeadsTo(map[s][k], s)
    BY <1>5 DEF RemoveKey
  <2>2. PICK S \in SUBSET Objs :
          /\ map[s][k] \in S /\ s \notin S
          /\ \A a \in S, b \in Keys : map[a][b] \in S \cup {Null}
    BY <2>1 DEF LeadsTo
  <2>3. stack'[1].s = s /\ stack'[1].k = k /\ DOMAIN stack' = {1}
    <3>1. stack'[1] = RemoveCall(s, k) /\ DOMAIN stack' = {1}
      BY <2>1
    <3>. QED  BY <3>1, CallFields
  <2>4. Away(S, stack', map')
    BY <2>1, <2>2, <2>3 DEF Away
  <2>. QED  BY <2>4
<1>6. ASSUME NEW f, RemoveCounted(f)  PROVE Goal
  <2>. DEFINE x == map[f.s][f.k]
              e == UnlinkCall(f.s, f.k)
              g == ZeroCall(x, origins'[x])
  <2>1. /\ AtTop(f, "remove") /\ stack' \in Seq(Frame) /\ f.s \in Objs /\ f.k \in Keys
        /\ x \in Objs /\ x \in tracked
        /\ \/ map' = ElementRemoved(f.s, f.k) /\ Pops
           \/ map' = map /\ ReplacesAndCalls(e, g)
    BY <1>t, <1>6, RemoveCountedEffect
  <2>r. \A a \in Objs, b \in Keys : ElementRemoved(f.s, f.k)[a][b] \in {map[a][b], Null}
    BY <1>t, <2>1, ElementRemovedEntries
  <2>3. g.op = "zero" /\ g.s = x
    BY CallFields
  <2>4. e.op = "unlink" /\ e.s = f.s /\ e.k = f.k
    BY CallFields
  <2>5. f = stack[n] /\ f.op = "remove" /\ n \in DOMAIN stack /\ stack # <<>>
    BY <2>1, TopFacts, EmptySeq, <1>t
  <2>p. map[f.s][f.k] = x
    OBVIOUS
  <2>. HIDE DEF x, e, g
  <2>6. CASE map' = ElementRemoved(f.s, f.k) /\ Pops
    <3>1. \A i \in DOMAIN stack' : i \in DOMAIN stack /\ stack'[i] = stack[i]
      BY <1>t, <2>1, <2>6, CallsAfter
    <3>. QED  BY <1>k, <2>1, <2>5, <2>6, <2>r, <3>1
  <2>7. CASE map' = map /\ ReplacesAndCalls(e, g)
    <3>n. n \in Nat \ {0} /\ n = Len(stack)
      BY <1>n, <2>5
    <3>. HIDE DEF n
    <3>0. \A i \in DOMAIN stack' :
            \/ i \in DOMAIN stack /\ i # n /\ stack'[i] = stack[i]
            \/ i = n /\ stack'[i] = e
            \/ i = n + 1 /\ stack'[i] = g
      BY <1>t, <2>1, <2>7, <3>n, CallsAfter
    <3>1. /\ stack[1].op \in OnElement
          /\ stack'[1].s = stack[1].s /\ stack'[1].k = stack[1].k
      <4>1. 1 \in DOMAIN stack' /\ 1 # n + 1
        BY <1>e, <2>1, <3>n
      <4>2. CASE n = 1
        <5>1. stack'[1] = e
          BY <3>0, <4>1, <4>2
        <5>. QED  BY <2>4, <2>5, <4>2, <5>1 DEF OnElement
      <4>3. CASE n # 1
        BY <3>0, <4>1, <4>3
      <4>. QED  BY <4>2, <4>3
    <3>2. PICK S : Away(S, stack, map)
      BY <1>o, <2>5, <3>1
    <3>3. stack[1].s \in Objs /\ stack[1].k \in Keys
      BY <1>o, <2>5, <3>1
    <3>4. n # 1 => f.s \in S
      <4>. SUFFICES ASSUME n # 1  PROVE f.s \in S
        OBVIOUS
      <4>1. n - 1 \in DOMAIN stack
        BY <1>n, <2>5, <3>n DEF n
      <4>2. \/ stack[n - 1].op = "zero"
            \/ stack[n - 1].op = "contents" /\ stack[n - 1].s = f.s
        BY <1>t, <2>5 DEF CallerInv
      <4>3. stack[n - 1].op # "zero"
        <5>1. \A i \in 1 .. n - 1 : stack[i].op # "zero"
          BY <2>1, <2>p, <3>n, NoZeroBelow
        <5>. QED  BY <3>n, <5>1
      <4>4. stack[n - 1].op = "contents" /\ stack[n - 1].s = f.s
        BY <4>2, <4>3
      <4>5. n - 1 # 1
        BY <3>1, <4>4 DEF OnElement
      <4>. QED  BY <3>2, <4>1, <4>4, <4>5 DEF Away
    <3>5. x \in S
      <4>1. x # Null
        BY <1>t, <2>1
      <4>2. CASE n = 1
        <5>1. map[stack[1].s][stack[1].k] = x
          BY <2>5, <2>p, <4>2
        <5>. QED  BY <3>2, <4>1, <5>1 DEF Away
      <4>3. CASE n # 1
        BY <2>1, <2>p, <3>2, <3>4, <4>1, <4>3 DEF Away
      <4>. QED  BY <4>2, <4>3
    <3>6. \A i \in DOMAIN stack' : i # 1 /\ stack'[i].op # "remove" => stack'[i].s \in S
      <4>. SUFFICES ASSUME NEW i \in DOMAIN stack', i # 1, stack'[i].op # "remove"
                    PROVE  stack'[i].s \in S
        OBVIOUS
      <4>1. CASE i \in DOMAIN stack /\ stack'[i] = stack[i]
        BY <3>2, <4>1 DEF Away
      <4>2. CASE i = n /\ stack'[i] = e
        BY <2>4, <3>4, <4>2
      <4>3. CASE stack'[i] = g
        BY <2>3, <3>5, <4>3
      <4>. QED  BY <3>0, <4>1, <4>2, <4>3
    <3>7. \A a \in Objs, b \in Keys : map'[a][b] \in {map[a][b], Null}
      BY <2>7
    <3>8. Away(S, stack', map')
      BY <1>g, <2>5, <3>1, <3>2, <3>3, <3>6, <3>7
    <3>. QED  BY <3>8
  <2>. QED  BY <2>1, <2>6, <2>7
<1>7. ASSUME NEW f, RemoveUncounted(f) \/ Unlink(f)  PROVE Goal
  <2>1. /\ AtTop(f, "remove") \/ AtTop(f, "unlink")
        /\ f.s \in Objs /\ f.k \in Keys
        /\ map' = ElementRemoved(f.s, f.k)
        /\ Pops /\ stack' \in Seq(Frame)
    BY <1>t, <1>7, UnlinkedEffect
  <2>2. \A a \in Objs, b \in Keys : map'[a][b] \in {map[a][b], Null}
    BY <1>t, <2>1, ElementRemovedEntries
  <2>3. stack # <<>>
    BY <1>t, <2>1, EmptySeq DEF AtTop
  <2>4. \A i \in DOMAIN stack' : i \in DOMAIN stack /\ stack'[i] = stack[i]
    BY <1>t, <2>1, CallsAfter
  <2>. QED  BY <1>k, <2>1, <2>2, <2>3, <2>4
<1>8. ASSUME NEW f, LeaveOrigin(f)  PROVE Goal
  <2>1. PICK p \in f.left :
          /\ ReplacesAndCalls([f EXCEPT !.left = f.left \ {p}], RemoveCall(p[2], p[1]))
          /\ [f EXCEPT !.left = f.left \ {p}].op = "zero"
          /\ [f EXCEPT !.left = f.left \ {p}].s = f.s
    BY <1>t, <1>8, LeaveOriginEffect
  <2>. DEFINE e == [f EXCEPT !.left = f.left \ {p}]
              g == RemoveCall(p[2], p[1])
  <2>2. ReplacesAndCalls(e, g) /\ e.op = "zero" /\ e.s = f.s
    BY <2>1
  <2>3. g.op = "remove"
    BY CallFields
  <2>. HIDE DEF e, g
  <2>4. AtTop(f, "zero") /\ stack' \in Seq(Frame) /\ map' = map
    BY <1>t, <1>8, LeaveOriginEffect
  <2>5. f = stack[n] /\ f.op = "zero" /\ stack # <<>> /\ n \in Nat \ {0} /\ n = Len(stack)
    BY <2>4, EmptySeq, <1>t DEF AtTop
  <2>6. ASSUME NEW i \in DOMAIN stack'
        PROVE  \/ i \in DOMAIN stack /\ stack'[i] = stack[i]
               \/ i = n /\ stack[n].op \notin OnElement /\ stack'[n].op \notin OnElement
                        /\ stack'[n].s = stack[n].s
               \/ i # 1 /\ stack'[i].op = "remove"
    <3>1. \/ i \in DOMAIN stack /\ i # n /\ stack'[i] = stack[i]
          \/ i = n /\ stack'[i] = e
          \/ i = n + 1 /\ stack'[i] = g
      BY <1>t, <2>2, <2>4, CallsAfter
    <3>. HIDE DEF n
    <3>. QED  BY <2>2, <2>3, <2>5, <3>1 DEF OnElement
  <2>. QED  BY <1>r, <2>4, <2>5, <2>6
<1>9. ASSUME NEW f, DestroyRecord(f)  PROVE Goal
  <2>1. /\ AtTop(f, "zero") /\ stack' \in Seq(Frame) /\ map' = map
        /\ Replaces(ContentsCall(f.s))
    BY <1>t, <1>9, DestroyRecordEffect
  <2>2. ContentsCall(f.s).op = "contents" /\ ContentsCall(f.s).s = f.s
    BY CallFields
  <2>5. f = stack[n] /\ f.op = "zero" /\ stack # <<>> /\ n \in Nat \ {0} /\ n = Len(stack)
    BY <2>1, EmptySeq, <1>t DEF AtTop
  <2>6. ASSUME NEW i \in DOMAIN stack'
        PROVE  \/ i \in DOMAIN stack /\ stack'[i] = stack[i]
               \/ i = n /\ stack[n].op \notin OnElement /\ stack'[n].op \notin OnElement
                        /\ stack'[n].s = stack[n].s
               \/ i # 1 /\ stack'[i].op = "remove"
    <3>1. \/ i \in DOMAIN stack /\ i # n /\ stack'[i] = stack[i]
          \/ i = n /\ stack'[i] = ContentsCall(f.s)
      BY <1>t, <2>1, CallsAfter
    <3>. HIDE DEF n
    <3>. QED  BY <2>2, <2>5, <3>1 DEF OnElement
  <2>. QED  BY <1>r, <2>1, <2>5, <2>6
<1>10. ASSUME NEW f, RemoveElement(f)  PROVE Goal
  <2>1. PICK b : Calls(RemoveCall(f.s, b))
    BY <1>t, <1>10, RemoveElementEffect
  <2>2. AtTop(f, "contents") /\ stack' \in Seq(Frame) /\ map' = map
    BY <1>t, <1>10, RemoveElementEffect
  <2>3. stack # <<>> /\ n \in Nat \ {0} /\ n = Len(stack)
    BY <2>2, EmptySeq, <1>t DEF AtTop
  <2>4. ASSUME NEW i \in DOMAIN stack'
        PROVE  \/ i \in DOMAIN stack /\ stack'[i] = stack[i]
               \/ i # 1 /\ stack'[i].op = "remove"
    <3>1. \/ i \in DOMAIN stack /\ stack'[i] = stack[i]
          \/ i = n + 1 /\ stack'[i] = RemoveCall(f.s, b)
      BY <1>t, <2>1, <2>2, CallsAfter
    <3>2. RemoveCall(f.s, b).op = "remove"
      BY CallFields
    <3>. HIDE DEF n
    <3>. QED  BY <2>3, <3>1, <3>2
  <2>5. \A a \in Objs, c \in Keys : map'[a][c] \in {map[a][c], Null}
    BY <2>2
  <2>. QED  BY <1>k, <2>2, <2>3, <2>4, <2>5
<1>11. ASSUME NEW f, FreeStruct(f)  PROVE Goal
  <2>1. AtTop(f, "contents") /\ stack' \in Seq(Frame) /\ map' = map /\ Pops
    BY <1>t, <1>11, FreeStructEffect
  <2>3. stack # <<>>
    BY <1>t, <2>1, EmptySeq DEF AtTop
  <2>4. \A i \in DOMAIN stack' : i \in DOMAIN stack /\ stack'[i] = stack[i]
    BY <1>t, <2>1, CallsAfter
  <2>5. \A a \in Objs, c \in Keys : map'[a][c] \in {map[a][c], Null}
    BY <2>1
  <2>. QED  BY <1>k, <2>1, <2>3, <2>4, <2>5
<1>12. ASSUME UNCHANGED vars  PROVE Goal
  <2>1. stack' = stack /\ map' = map
    BY <1>12 DEF vars
  <2>2. PICK S : Away(S, stack, map)
    BY <1>o, <2>1
  <2>3. Away(S, stack', map')
    BY <2>1, <2>2 DEF Away
  <2>. QED  BY <2>3
<1>. HIDE DEF Goal
<1>z. Goal
  BY <1>1, <1>2, <1>3, <1>4, <1>5, <1>6, <1>7, <1>8, <1>9, <1>10, <1>11, <1>12, NextCases
<1>. QED  BY <1>z DEF Goal

\* Where no removal goes round a cycle, no call loses its struct.
LEMMA CallsUseLiveStep ==
  ASSUME Inv, [Next]_vars, AwayInv, CallsUseLive
  PROVE  CallsUseLive'
<1>t. /\ TypeOK /\ StackInv /\ SlotsAccounted /\ CallerInv /\ TornDownOnce /\ LeftInv
      /\ LiveInv
      /\ stack \in Seq(Frame) /\ live \subseteq Objs
      /\ tracked \subseteq live
      /\ Null \notin Objs
  BY StructAssumption DEF Inv, CallsInv, TypeOK, LiveInv
<1>l. \A i \in DOMAIN stack : stack[i].s \in live
  BY DEF CallsUseLive
<1>. SUFFICES ASSUME NEW i \in DOMAIN stack'  PROVE stack'[i].s \in live'
  BY DEF CallsUseLive
<1>q. ASSUME Quiet, stack' = stack  PROVE FALSE
  BY <1>q DEF Quiet
<1>k. ASSUME stack' \in Seq(Frame), live' = live,
             \/ i \in DOMAIN stack /\ stack'[i] = stack[i]
             \/ stack'[i].s \in live
      PROVE  stack'[i].s \in live'
  BY <1>k, <1>l
<1>f. ASSUME NEW f, NEW op, AtTop(f, op)  PROVE f.s \in live /\ stack # <<>>
  <2>1. Len(stack) \in DOMAIN stack /\ f = stack[Len(stack)] /\ Len(stack) # 0
    BY <1>f, TopFacts
  <2>. QED  BY <1>l, <2>1
<1>1. ASSUME NEW x \in Objs, Create(x)  PROVE FALSE
  BY <1>q, <1>1 DEF Create
<1>2. ASSUME NEW x \in Objs, Free(x)  PROVE stack'[i].s \in live'
  <2>1. stack' \in Seq(Frame) /\ live' = live /\ x \in live /\ Quiet
    BY <1>t, <1>2, FreeEffect
  <2>2. PICK e : Calls(e) /\ e.s = x
    BY <1>t, <1>2, FreeEffect, CallFields
  <2>3. stack'[i] = e
    <3>1. DOMAIN stack = {}
      BY <2>1, DOMAIN <<>> = {} DEF Quiet
    <3>. QED  BY <1>t, <2>1, <2>2, <3>1, CallsAfter
  <2>. QED  BY <2>1, <2>2, <2>3
<1>3. ASSUME NEW s \in Objs, NEW x \in Objs, NEW k \in Keys, Set(s, k, x)  PROVE FALSE
  BY <1>q, <1>3 DEF Set
<1>4. ASSUME NEW s \in Objs, NEW c \in Objs, Copy(s, c)  PROVE FALSE
  BY <1>q, <1>4 DEF Copy
<1>5. ASSUME NEW s \in Objs, NEW k \in Keys, RemoveKey(s, k)  PROVE stack'[i].s \in live'
  <2>1. stack' \in Seq(Frame) /\ live' = live /\ s \in live /\ Quiet /\ Calls(RemoveCall(s, k))
    BY <1>t, <1>5, RemoveKeyEffect
  <2>2. RemoveCall(s, k).s = s
    BY CallFields
  <2>3. stack'[i] = RemoveCall(s, k)
    <3>1. DOMAIN stack = {}
      BY <2>1, DOMAIN <<>> = {} DEF Quiet
    <3>. QED  BY <1>t, <2>1, <3>1, CallsAfter
  <2>. QED  BY <2>1, <2>2, <2>3
<1>6. ASSUME NEW f, RemoveCounted(f)  PROVE stack'[i].s \in live'
  <2>. DEFINE x == map[f.s][f.k]
              e == UnlinkCall(f.s, f.k)
              g == ZeroCall(x, origins'[x])
  <2>1. /\ AtTop(f, "remove") /\ stack' \in Seq(Frame) /\ live' = live
        /\ x \in tracked
        /\ Pops \/ ReplacesAndCalls(e, g)
    BY <1>t, <1>6, RemoveCountedEffect
  <2>2. e.s = f.s /\ g.s = x
    BY CallFields
  <2>. HIDE DEF x, e, g
  <2>3. f.s \in live /\ x \in live
    BY <1>f, <1>t, <2>1
  <2>4. \/ i \in DOMAIN stack /\ stack'[i] = stack[i]
        \/ stack'[i] = e \/ stack'[i] = g
    BY <1>t, <2>1, CallsAfter
  <2>. QED  BY <1>k, <2>1, <2>2, <2>3, <2>4
<1>7. ASSUME NEW f, RemoveUncounted(f) \/ Unlink(f)  PROVE stack'[i].s \in live'
  <2>1. Pops /\ stack' \in Seq(Frame) /\ live' = live
    BY <1>t, <1>7, UnlinkedEffect
  <2>2. i \in DOMAIN stack /\ stack'[i] = stack[i]
    BY <1>t, <2>1, CallsAfter
  <2>. QED  BY <1>k, <2>1, <2>2
<1>8. ASSUME NEW f, LeaveOrigin(f)  PROVE stack'[i].s \in live'
  <2>1. PICK p \in f.left :
          /\ p[1] \in Keys /\ p[2] \in Objs
          /\ ReplacesAndCalls([f EXCEPT !.left = f.left \ {p}], RemoveCall(p[2], p[1]))
          /\ [f EXCEPT !.left = f.left \ {p}].s = f.s
    BY <1>t, <1>8, LeaveOriginEffect
  <2>. DEFINE e == [f EXCEPT !.left = f.left \ {p}]
              g == RemoveCall(p[2], p[1])
  <2>2. ReplacesAndCalls(e, g) /\ e.s = f.s
    BY <2>1
  <2>3. g.s = p[2]
    BY CallFields
  <2>. HIDE DEF e, g
  <2>4. AtTop(f, "zero") /\ stack' \in Seq(Frame) /\ live' = live
    BY <1>t, <1>8, LeaveOriginEffect
  <2>5. f.s \in live
    BY <1>f, <2>4
  <2>6. p[2] \in live
    <3>1. Len(stack) \in DOMAIN stack /\ f = stack[Len(stack)] /\ f.op = "zero" /\ f.s \in Objs
      BY <2>4, TopFacts
    <3>2. map[p[2]][p[1]] = f.s
      BY <1>t, <2>1, <3>1 DEF LeftInv
    <3>3. map[p[2]][p[1]] # Null
      BY <1>t, <3>1, <3>2
    <3>. QED  BY <1>t, <2>1, <3>3 DEF LiveInv
  <2>7. \/ i \in DOMAIN stack /\ stack'[i] = stack[i]
        \/ stack'[i] = e \/ stack'[i] = g
    BY <1>t, <2>2, <2>4, CallsAfter
  <2>. QED  BY <1>k, <2>2, <2>3, <2>4, <2>5, <2>6, <2>7
<1>9. ASSUME NEW f, DestroyRecord(f)  PROVE stack'[i].s \in live'
  <2>1. AtTop(f, "zero") /\ stack' \in Seq(Frame) /\ live' = live /\ Replaces(ContentsCall(f.s))
    BY <1>t, <1>9, DestroyRecordEffect
  <2>2. ContentsCall(f.s).s = f.s /\ f.s \in live
    BY <1>f, <2>1, CallFields
  <2>3. (i \in DOMAIN stack /\ stack'[i] = stack[i]) \/ stack'[i] = ContentsCall(f.s)
    BY <1>t, <2>1, CallsAfter
  <2>. QED  BY <1>k, <2>1, <2>2, <2>3
<1>10. ASSUME NEW f, RemoveElement(f)  PROVE stack'[i].s \in live'
  <2>1. PICK b : Calls(RemoveCall(f.s, b))
    BY <1>t, <1>10, RemoveElementEffect
  <2>2. AtTop(f, "contents") /\ stack' \in Seq(Frame) /\ live' = live
    BY <1>t, <1>10, RemoveElementEffect
  <2>3. RemoveCall(f.s, b).s = f.s /\ f.s \in live
    BY <1>f, <2>2, CallFields
  <2>4. (i \in DOMAIN stack /\ stack'[i] = stack[i]) \/ stack'[i] = RemoveCall(f.s, b)
    BY <1>t, <2>1, <2>2, CallsAfter
  <2>. QED  BY <1>k, <2>2, <2>3, <2>4
\* the only step that frees a struct: no other call is for the same one
<1>11. ASSUME NEW f, FreeStruct(f)  PROVE stack'[i].s \in live'
  <2>1. /\ AtTop(f, "contents") /\ stack' \in Seq(Frame) /\ live' = live \ {f.s} /\ Pops
    BY <1>t, <1>11, FreeStructEffect
  <2>. DEFINE n == Len(stack)
  <2>2. i \in DOMAIN stack /\ i # n /\ stack'[i] = stack[i]
    BY <1>t, <2>1, CallsAfter
  <2>3. /\ n \in Nat \ {0} /\ n \in DOMAIN stack /\ DOMAIN stack = 1 .. n
        /\ f = stack[n] /\ f.op = "contents" /\ n = Len(stack)
    BY <2>1, TopFacts
  <2>. HIDE DEF n
  <2>o. \A j \in DOMAIN stack : j # n /\ stack[j].op \in TearsDown => stack[j].s # f.s
    BY <1>t, <2>3 DEF TornDownOnce, TearsDown
  <2>4. stack[i].s # f.s
    <3>1. CASE stack[i].op \in TearsDown
      BY <2>2, <2>o, <3>1
    <3>2. CASE stack[i].op = "remove"
      BY <1>t, <2>2, <2>3, <3>2 DEF StackInv
    <3>3. CASE stack[i].op = "unlink"
      <4>1. CASE i = 1
        <5>1. stack # <<>> /\ stack[1].op \in OnElement
          BY <1>f, <2>1, <3>3, <4>1 DEF OnElement
        <5>2. PICK S : Away(S, stack, map)
          BY <5>1, AwayInvIs
        <5>3. stack[n].s \in S
          BY <2>2, <2>3, <4>1, <5>2 DEF Away
        <5>. QED  BY <2>3, <4>1, <5>2, <5>3 DEF Away
      <4>2. CASE i # 1
        <5>1. stack[i - 1].op = "contents" /\ stack[i - 1].s = stack[i].s
          BY <1>t, <2>2, <3>3, <4>2 DEF CallerInv
        <5>2. i - 1 \in DOMAIN stack /\ i - 1 # n
          BY <2>2, <2>3, <4>2
        <5>. QED  BY <2>o, <5>1, <5>2 DEF TearsDown
      <4>. QED  BY <4>1, <4>2
    <3>4. stack[i].op \in Ops
      BY <1>t, <2>2, StackType
    <3>. QED  BY <3>1, <3>2, <3>3, <3>4 DEF Ops, TearsDown
  <2>. QED  BY <1>l, <2>1, <2>2, <2>4
<1>12. ASSUME UNCHANGED vars  PROVE stack'[i].s \in live'
  <2>1. stack' = stack /\ live' = live
    BY <1>12 DEF vars
  <2>. QED  BY <1>l, <2>1
<1>. QED  BY <1>1, <1>2, <1>3, <1>4, <1>5, <1>6, <1>7, <1>8, <1>9, <1>10, <1>11, <1>12, NextCases

\* As long as no element is removed that leads back to its struct, every call of
\* a recursive free, of whatever depth, works on a struct that is still
\* allocated: nothing is freed twice or used after it was freed.
THEOREM CallsUseLiveAlways ==
  ASSUME ~RemoveFromCycles
  PROVE  Spec => []CallsUseLive
<1>1. Init => AwayInv /\ CallsUseLive
  <2>. SUFFICES ASSUME Init  PROVE AwayInv /\ CallsUseLive
    OBVIOUS
  <2>1. stack = <<>> /\ DOMAIN stack = {}
    BY DOMAIN <<>> = {} DEF Init
  <2>. QED  BY <2>1 DEF AwayInv, CallsUseLive
<1>2. Inv /\ (AwayInv /\ CallsUseLive) /\ [Next]_vars => (AwayInv /\ CallsUseLive)'
  <2>. SUFFICES ASSUME Inv, AwayInv, CallsUseLive, [Next]_vars
                PROVE  AwayInv' /\ CallsUseLive'
    OBVIOUS
  <2>. QED  BY AwayStep, CallsUseLiveStep
<1>. QED  BY <1>1, <1>2, InvAlways, PTL DEF Spec
=============================================================================
