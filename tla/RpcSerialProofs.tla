--------------------------- MODULE RpcSerialProofs ---------------------------
(***************************************************************************)
(* Proofs about RpcSerial, for any finite set of structs, any keys and     *)
(* whatever the structs hold: what is read back from JSON, or copied in    *)
(* depth, has the contents and the sharing of the original, and no count   *)
(* falls below the places that hold the value.                             *)
(***************************************************************************)
EXTENDS RpcSerial, BoundedInduction, FiniteSetTheorems, SequenceTheorems, TLAPS

-----------------------------------------------------------------------------
(* The inductive invariant.                                                *)

Values == Objs \cup Scalars \cup {Unknown, Null}
Frame  == [p : Seq(Keys), s : Structs, todo : SUBSET Keys, open : BOOLEAN]
Entry  == [items : [Keys -> Values \cup {"struct"}],
           dups : UNION {[K -> Keys] : K \in SUBSET Keys}]

DataInv ==
  /\ phase \in {"start", "serialize", "parse", "copy", "done"}
  /\ map \in [Structs -> [Keys -> Values]]
  /\ refs \in [Objs -> Nat]
  /\ stack \in Seq(Frame)
  /\ DOMAIN json \subseteq Seq(Keys) /\ json \in [DOMAIN json -> Entry]
  /\ DOMAIN made \subseteq Seq(Keys) /\ made \in [DOMAIN made -> [Keys -> Seq(Keys) \cup Values]]
  /\ IsFiniteSet(DOMAIN made)
  /\ DOMAIN leaf \subseteq Seq(Keys)
  /\ DOMAIN counted \subseteq Seq(Keys)

\* What has been made in each phase.
PhaseInv ==
  /\ phase \in {"start", "done"} <=> stack = <<>>
  /\ phase \in {"start", "serialize"} => DOMAIN made = {} /\ DOMAIN leaf = {} /\ DOMAIN counted = {}
  /\ phase \in {"start", "copy"} => moved = {}
  /\ phase = "start" => json = <<>>
  /\ phase = "parse" => DOMAIN made \subseteq DOMAIN json /\ <<>> \in DOMAIN json
  /\ phase = "done" => <<>> \in DOMAIN made

\* An element made for key j stands for key k, and for all that repeat it.
Stands(q, k, j) ==
  LET m == map[At(q)]
  IN  m[j] = m[k] /\ (q \notin moved => j = OriginalKey(m, k))

\* Call i is of the struct at its path, which has i - 1 keys; the next call is
\* for one of its elements.
Pending(i, k) == i + 1 \in DOMAIN stack /\ stack[i + 1].p = Append(stack[i].p, k)

CallOK(i) ==
  /\ Len(stack[i].p) = i - 1
  /\ stack[i].s = At(stack[i].p)
  /\ i + 1 \in DOMAIN stack =>
       \E k \in Keys \ stack[i].todo :
          Pending(i, k) /\ map[stack[i].s][k] \in Structs /\ Stands(stack[i].p, k, k)
  /\ phase = "serialize" =>
       /\ i + 1 \in DOMAIN stack => stack[i].open
       /\ stack[i].open => stack[i].p \in DOMAIN json
       /\ ~stack[i].open => stack[i].todo = {}
  /\ phase \in {"parse", "copy"} => stack[i].p \in DOMAIN made

CallsInv == \A i \in DOMAIN stack : CallOK(i)

\* The keys that a call has yet to go through.
TodoOK(f) ==
  LET m == map[f.s]
  IN  /\ phase = "serialize" /\ f.open =>
           \A k \in f.todo : k \notin DOMAIN json[f.p].dups /\ m[k] \notin {Null, Unknown}
      /\ phase = "parse" => f.todo \subseteq Items(f.p)
      /\ phase = "copy" =>
           /\ f.todo \subseteq Elements(f.s)
           /\ \A k \in Elements(f.s) \ f.todo, j \in f.todo : Pos(k) < Pos(j)

TodoInv == \A i \in DOMAIN stack : TodoOK(stack[i])

\* A written struct: the duplicates, and for each other element, unless it is
\* still to be written, its item.
Item(v) == IF v \in Structs THEN "struct" ELSE v

Repeats(m) == {k \in Keys : m[k] \in Objs /\ OriginalKey(m, k) # k}

DupsOK(p) ==
  LET m == map[At(p)]
      d == json[p].dups
  IN  /\ d = NamedByKey(m, DOMAIN d)
      /\ DOMAIN d \subseteq Repeats(m)
      /\ p \notin moved => DOMAIN d = Repeats(m)

\* The item is still to be written; the struct below it is.
Writing(p, k) ==
  phase = "serialize" /\ \E i \in DOMAIN stack : stack[i].p = p /\ stack[i].open /\ k \in stack[i].todo

Begun(p) ==
  \/ p \in DOMAIN json
  \/ phase = "serialize" /\ \E i \in DOMAIN stack : stack[i].p = p /\ ~stack[i].open

ItemOK(p, k) ==
  LET v == map[At(p)][k]
  IN  IF k \in DOMAIN json[p].dups \/ v \in {Null, Unknown}
      THEN json[p].items[k] = Null
      ELSE \/ json[p].items[k] = Null /\ Writing(p, k)
           \/ json[p].items[k] = Item(v) /\ (v \in Structs => Begun(Append(p, k)))

JsonInv ==
  \A p \in DOMAIN json :
    /\ At(p) \in Structs
    /\ DupsOK(p)
    /\ \A k \in Keys : ItemOK(p, k)

\* An element x is what the new struct at path q is to hold under key k.
Settled(q, k, x) ==
  LET v == map[At(q)][k]
  IN  IF v \in Objs
      THEN \E j \in Keys :
             /\ Stands(q, k, j)
             /\ x = Append(q, j)
             /\ v \in Structs => x \in DOMAIN made
             /\ v \in Leaves => x \in DOMAIN leaf
      ELSE x = v \/ (v = Unknown /\ x = Null)

Final(q, k) == Settled(q, k, made[q][k])

\* A call under way is still to set it.
Awaited(q, k) ==
  \E i \in DOMAIN stack :
    /\ stack[i].p = q
    /\ k \in stack[i].todo \/ Pending(i, k) \/ (phase = "parse" /\ k \in DOMAIN json[q].dups)

MadeInv ==
  /\ \A q \in DOMAIN made :
       /\ At(q) \in Structs
       /\ \A k \in Keys : Final(q, k) \/ (made[q][k] = Null /\ Awaited(q, k))
  /\ \A q \in DOMAIN leaf : leaf[q] \in Leaves /\ At(q) = leaf[q]

\* What is still to be made at a path is nowhere yet.
UnplacedInv ==
  phase \in {"parse", "copy"} =>
    \A i \in DOMAIN stack, k \in Keys :
      k \in stack[i].todo \/ Pending(i, k) =>
        \A j \in Keys : made[stack[i].p][j] # Append(stack[i].p, k)

\* Each value placed in the new structs is counted, once for each place or more.
PlacesIn(new, q) == {pk \in (DOMAIN new) \X Keys : new[pk[1]][pk[2]] = q}

Counts(new, cnt) ==
  /\ \A q \in DOMAIN new, k \in Keys : new[q][k] \in Seq(Keys) => new[q][k] \in DOMAIN cnt
  /\ \A q \in DOMAIN cnt : cnt[q] \in Nat /\ cnt[q] >= Cardinality(PlacesIn(new, q))

CountedInv == Counts(made, counted)

\* The count of each value covers its places, and what the calls of
\* rpc_struct_serialize under way are still to take back.
Owes(f, x) == IF phase = "serialize" /\ f.open
              THEN Held(f.s, Keys \ DOMAIN json[f.p].dups, x) ELSE 0

Covers(x, S) ==
  /\ S[0] = 0
  /\ \A i \in DOMAIN stack : S[i] = S[i - 1] + Owes(stack[i], x)
  /\ refs[x] >= Cardinality(Places(x)) + S[Len(stack)]

RefsInv == \A x \in Objs : \E S \in [0 .. Len(stack) -> Nat] : Covers(x, S)

Inv ==
  /\ DataInv /\ PhaseInv /\ CallsInv /\ TodoInv
  /\ JsonInv /\ MadeInv /\ UnplacedInv /\ CountedInv /\ RefsInv

-----------------------------------------------------------------------------
(* Functions, keys and paths.                                              *)

\* Keys have different positions.
LEMMA PosIs ==
  /\ \A k \in Keys : Pos(k) \in Nat /\ KeySeq[Pos(k)] = k
  /\ \A j, k \in Keys : Pos(j) = Pos(k) => j = k
<1>1. DOMAIN KeySeq \subseteq Nat
  <2>1. DOMAIN KeySeq = 1 .. Len(KeySeq) /\ Len(KeySeq) \in Nat
    BY SerialAssumption, LenProperties
  <2>. QED  BY <2>1
<1>2. ASSUME NEW k \in Keys  PROVE Pos(k) \in Nat /\ KeySeq[Pos(k)] = k
  <2>1. \E i \in DOMAIN KeySeq : KeySeq[i] = k
    BY DEF Keys, ToSet
  <2>2. Pos(k) \in DOMAIN KeySeq /\ KeySeq[Pos(k)] = k
    BY <2>1 DEF Pos
  <2>. QED  BY <1>1, <2>2
<1>. QED  BY <1>2

\* FirstKey is the key of a set that comes first.
LEMMA FirstKeyIs ==
  ASSUME NEW K \in SUBSET Keys, K # {}
  PROVE  FirstKey(K) \in K /\ \A j \in K : Pos(FirstKey(K)) <= Pos(j)
<1>. DEFINE T == {Pos(k) : k \in K}
<1>1. T \in SUBSET Nat /\ T # {}
  BY PosIs
<1>2. Min(T) \in T /\ \A m \in T : Min(T) <= m
  BY <1>1, SmallestOf
<1>3. PICK k \in K : Pos(k) = Min(T)
  BY <1>2
<1>4. \A j \in K : Pos(k) <= Pos(j)
  BY <1>2, <1>3
<1>. QED  BY <1>3, <1>4 DEF FirstKey

\* The first key with the value of key k.
LEMMA OriginalIs ==
  ASSUME NEW m, NEW k \in Keys
  PROVE  /\ OriginalKey(m, k) \in Keys
         /\ m[OriginalKey(m, k)] = m[k]
         /\ Pos(OriginalKey(m, k)) <= Pos(k)
         /\ OriginalKey(m, OriginalKey(m, k)) = OriginalKey(m, k)
         /\ \A j \in Keys : m[j] = m[k] => OriginalKey(m, j) = OriginalKey(m, k)
<1>. DEFINE K(x) == {j \in Keys : m[j] = m[x]}
<1>1. K(k) \in SUBSET Keys /\ K(k) # {} /\ k \in K(k)
  OBVIOUS
<1>2. OriginalKey(m, k) \in K(k) /\ Pos(OriginalKey(m, k)) <= Pos(k)
  BY <1>1, FirstKeyIs DEF OriginalKey
<1>3. ASSUME NEW j \in Keys, m[j] = m[k]  PROVE OriginalKey(m, j) = OriginalKey(m, k)
  <2>1. K(j) = K(k)
    BY <1>3
  <2>. QED  BY <2>1 DEF OriginalKey
<1>. QED  BY <1>2, <1>3

\* The recursion of Walk.
LEMMA WalkIs ==
  ASSUME NEW f, NEW first, NEW p \in Seq(Keys)
  PROVE  Walk(f, first, p) =
           [i \in 0 .. Len(p) |->
              IF i = 0 THEN first
              ELSE IF Walk(f, first, p)[i - 1] \in DOMAIN f
                   THEN f[Walk(f, first, p)[i - 1]][p[i]] ELSE Null]
<1>. DEFINE n == Len(p)
            Rec(g, j) == g = [i \in 0 .. j |-> IF i = 0 THEN first
                                               ELSE IF g[i - 1] \in DOMAIN f THEN f[g[i - 1]][p[i]] ELSE Null]
            S == {j \in 0 .. n : \E g : Rec(g, j)}
<1>1. n \in Nat
  BY LenProperties
<1>. HIDE DEF n
<1>2. 0 \in S
  <2>1. Rec([i \in 0 .. 0 |-> first], 0)
    OBVIOUS
  <2>2. 0 \in 0 .. n
    BY <1>1
  <2>. HIDE DEF Rec
  <2>. QED  BY <2>1, <2>2
<1>3. ASSUME NEW j \in 0 .. n - 1, j \in S  PROVE j + 1 \in S
  <2>1. PICK g : Rec(g, j)
    BY <1>3
  <2>. DEFINE e == IF g[j] \in DOMAIN f THEN f[g[j]][p[j + 1]] ELSE Null
              h == [i \in 0 .. j + 1 |-> IF i = j + 1 THEN e ELSE g[i]]
  <2>2. Rec(h, j + 1)
    <3>1. ASSUME NEW i \in 0 .. j + 1
          PROVE  h[i] = IF i = 0 THEN first
                        ELSE IF h[i - 1] \in DOMAIN f THEN f[h[i - 1]][p[i]] ELSE Null
      <4>1. CASE i = j + 1
        <5>1. h[i] = e /\ i - 1 = j /\ h[i - 1] = g[j] /\ i # 0
          BY <1>1, <4>1
        <5>. QED  BY <4>1, <5>1
      <4>2. CASE i = 0
        <5>1. h[i] = g[i] /\ g[i] = first
          BY <1>1, <2>1, <4>2
        <5>. QED  BY <4>2, <5>1
      <4>3. CASE i \in 1 .. j
        <5>1. /\ h[i] = g[i] /\ h[i - 1] = g[i - 1] /\ i # 0
              /\ g[i] = IF g[i - 1] \in DOMAIN f THEN f[g[i - 1]][p[i]] ELSE Null
          BY <1>1, <2>1, <4>3
        <5>. QED  BY <5>1
      <4>. QED  BY <1>1, <4>1, <4>2, <4>3
    <3>. QED  BY <3>1
  <2>3. j + 1 \in 0 .. n
    BY <1>1
  <2>. HIDE DEF Rec, h
  <2>. QED  BY <2>2, <2>3
<1>4. n \in S
  <2>. HIDE DEF S
  <2>1. \A i \in 0 .. n : i \in S
    BY <1>1, <1>2, <1>3, UpTo
  <2>. QED  BY <1>1, <2>1
<1>5. PICK g : Rec(g, n)
  BY <1>4
<1>. QED  BY <1>5 DEF Walk, n

\* A path of one key more leads one step on.
LEMMA WalkOn ==
  ASSUME NEW f, NEW first, NEW p \in Seq(Keys), NEW k \in Keys
  PROVE  Walk(f, first, Append(p, k))[Len(p) + 1] =
           IF Walk(f, first, p)[Len(p)] \in DOMAIN f
           THEN f[Walk(f, first, p)[Len(p)]][k] ELSE Null
<1>. DEFINE q == Append(p, k)
            n == Len(p)
            w == Walk(f, first, p)
            v == Walk(f, first, q)
            S == {i \in 0 .. n : v[i] = w[i]}
<1>1. /\ n \in Nat /\ q \in Seq(Keys) /\ Len(q) = n + 1 /\ q[n + 1] = k
      /\ \A i \in 1 .. n : q[i] = p[i]
  BY LenProperties, AppendProperties
<1>2. /\ w = [i \in 0 .. n |-> IF i = 0 THEN first
                               ELSE IF w[i - 1] \in DOMAIN f THEN f[w[i - 1]][p[i]] ELSE Null]
      /\ v = [i \in 0 .. n + 1 |-> IF i = 0 THEN first
                                   ELSE IF v[i - 1] \in DOMAIN f THEN f[v[i - 1]][q[i]] ELSE Null]
  <2>1. p \in Seq(Keys)
    OBVIOUS
  <2>2. ASSUME NEW r \in Seq(Keys)
        PROVE  Walk(f, first, r) =
                 [i \in 0 .. Len(r) |->
                    IF i = 0 THEN first
                    ELSE IF Walk(f, first, r)[i - 1] \in DOMAIN f
                         THEN f[Walk(f, first, r)[i - 1]][r[i]] ELSE Null]
    BY WalkIs
  <2>3. v = [i \in 0 .. Len(q) |-> IF i = 0 THEN first
                                  ELSE IF v[i - 1] \in DOMAIN f THEN f[v[i - 1]][q[i]] ELSE Null]
    BY ONLY <1>1, <2>2
  <2>. HIDE DEF v, q
  <2>4. v = [i \in 0 .. n + 1 |-> IF i = 0 THEN first
                                 ELSE IF v[i - 1] \in DOMAIN f THEN f[v[i - 1]][q[i]] ELSE Null]
    BY ONLY <1>1, <2>3
  <2>. QED  BY ONLY <2>1, <2>2, <2>4
<1>. HIDE DEF w, v, q, n
<1>3. 0 \in S
  BY <1>1, <1>2
<1>4. ASSUME NEW i \in 0 .. n - 1, i \in S  PROVE i + 1 \in S
  <2>1. /\ i + 1 \in 1 .. n /\ i + 1 # 0 /\ (i + 1) - 1 = i
        /\ i + 1 \in 0 .. n /\ i + 1 \in 0 .. n + 1
    BY <1>1
  <2>2. v[i] = w[i] /\ q[i + 1] = p[i + 1]
    BY <1>1, <1>4, <2>1
  <2>3. w[i + 1] = IF w[i] \in DOMAIN f THEN f[w[i]][p[i + 1]] ELSE Null
    BY <1>2, <2>1
  <2>4. v[i + 1] = IF v[i] \in DOMAIN f THEN f[v[i]][q[i + 1]] ELSE Null
    BY <1>2, <2>1
  <2>. QED  BY <2>1, <2>2, <2>3, <2>4
<1>5. v[n] = w[n]
  <2>. HIDE DEF S
  <2>1. \A i \in 0 .. n : i \in S
    BY <1>1, <1>3, <1>4, UpTo
  <2>. QED  BY <1>1, <2>1 DEF S
<1>6. v[n + 1] = IF v[n] \in DOMAIN f THEN f[v[n]][q[n + 1]] ELSE Null
  <2>1. n + 1 \in 0 .. n + 1 /\ n + 1 # 0 /\ (n + 1) - 1 = n
    BY <1>1
  <2>. QED  BY <1>2, <2>1
<1>. QED  BY <1>1, <1>5, <1>6 DEF w, v, q, n

\* What the paths of the original lead to.
LEMMA AtRoot ==
  <<>> \in Seq(Keys) /\ Len(<<>>) = 0 /\ At(<<>>) = Root
<1>1. <<>> \in Seq(Keys) /\ Len(<<>>) = 0
  BY EmptySeq
<1>2. ASSUME NEW e \in Seq(Keys), Len(e) = 0  PROVE Walk(map, Root, e)[0] = Root
  <2>1. 0 \in 0 .. Len(e)
    BY <1>2
  <2>. QED  BY <2>1, WalkIs
<1>. QED  BY <1>1, <1>2 DEF At

\* One key more leads to the element under that key.
LEMMA AtIs ==
  ASSUME DOMAIN map = Structs, NEW p \in Seq(Keys), NEW k \in Keys
  PROVE  At(Append(p, k)) = IF At(p) \in Structs THEN map[At(p)][k] ELSE Null
<1>1. Len(Append(p, k)) = Len(p) + 1
  BY AppendProperties
<1>. QED  BY <1>1, WalkOn DEF At

\* The original does not change, nor does what its paths lead to.
LEMMA AtKept ==
  ASSUME map' = map
  PROVE  \A p : At(p)' = At(p)
  BY DEF At, Walk

\* A path and the key it ends with are told apart.
LEMMA PathsDiffer ==
  ASSUME NEW p \in Seq(Keys), NEW q \in Seq(Keys), NEW j \in Keys, NEW k \in Keys
  PROVE  /\ Append(p, k) \in Seq(Keys)
         /\ Len(p) \in Nat /\ Len(Append(p, k)) = Len(p) + 1
         /\ Append(p, j) = Append(q, k) => p = q /\ j = k
         /\ Append(p, k) # p
         /\ Front(Append(p, k)) = p /\ Last(Append(p, k)) = k
<1>1. Append(p, k) \in Seq(Keys) /\ Len(p) \in Nat /\ Len(Append(p, k)) = Len(p) + 1
  BY AppendProperties, LenProperties
<1>2. Front(Append(p, k)) = p /\ Last(Append(p, k)) = k
  BY DEF Front, Last
<1>3. Front(Append(p, j)) = p /\ Last(Append(p, j)) = j
  BY DEF Front, Last
<1>4. Front(Append(q, k)) = q /\ Last(Append(q, k)) = k
  BY DEF Front, Last
<1>5. Append(p, j) = Append(q, k) => p = q /\ j = k
  BY <1>3, <1>4
<1>6. Append(p, k) # p
  BY <1>1
<1>. QED  BY <1>1, <1>2, <1>5, <1>6

-----------------------------------------------------------------------------
(* The stack of calls.                                                     *)

\* The innermost call, and what is left when it returns.
LEMMA TopIs ==
  ASSUME NEW s \in Seq(Frame), s # <<>>
  PROVE  /\ Len(s) \in Nat /\ Len(s) > 0 /\ DOMAIN s = 1 .. Len(s)
         /\ Last(s) = s[Len(s)] /\ Last(s) \in Frame
         /\ Front(s) \in Seq(Frame) /\ DOMAIN Front(s) = 1 .. Len(s) - 1
         /\ Len(Front(s)) = Len(s) - 1
         /\ \A i \in 1 .. Len(s) - 1 : Front(s)[i] = s[i]
<1>1. Len(s) \in Nat /\ DOMAIN s = 1 .. Len(s)
  BY LenProperties
<1>2. Len(s) > 0
  BY <1>1, EmptySeq
<1>3. Last(s) = s[Len(s)] /\ Last(s) \in Frame
  BY <1>1, <1>2, ElementOfSeq DEF Last
<1>4. /\ Front(s) \in Seq(Frame) /\ Len(Front(s)) = Len(s) - 1
      /\ \A i \in 1 .. Len(s) - 1 : Front(s)[i] = s[i]
  BY <1>1, <1>2 DEF Front
<1>5. DOMAIN Front(s) = 1 .. Len(s) - 1
  BY <1>4, LenProperties
<1>. QED  BY <1>1, <1>2, <1>3, <1>4, <1>5

\* The innermost call goes on.
LEMMA ReplaceIs ==
  ASSUME NEW s \in Seq(Frame), s # <<>>, NEW e \in Frame
  PROVE  /\ Append(Front(s), e) \in Seq(Frame)
         /\ Len(Append(Front(s), e)) = Len(s)
         /\ DOMAIN Append(Front(s), e) = 1 .. Len(s)
         /\ Append(Front(s), e)[Len(s)] = e
         /\ \A i \in 1 .. Len(s) - 1 : Append(Front(s), e)[i] = s[i]
<1>. DEFINE t == Front(s)
<1>1. /\ t \in Seq(Frame) /\ Len(t) = Len(s) - 1 /\ Len(s) \in Nat /\ Len(s) > 0
      /\ DOMAIN t = 1 .. Len(s) - 1
      /\ \A i \in 1 .. Len(s) - 1 : t[i] = s[i]
  BY TopIs
<1>. HIDE DEF t
<1>2. /\ Append(t, e) \in Seq(Frame) /\ Len(Append(t, e)) = Len(t) + 1
      /\ Append(t, e)[Len(t) + 1] = e
      /\ \A i \in 1 .. Len(t) : Append(t, e)[i] = t[i]
  BY <1>1, AppendProperties
<1>3. (Len(s) - 1) + 1 = Len(s)
  BY <1>1
<1>4. DOMAIN Append(t, e) = 1 .. Len(Append(t, e))
  BY <1>2, LenProperties
<1>. QED  BY <1>1, <1>2, <1>3, <1>4 DEF t

\* The innermost call makes another.
LEMMA PushIs ==
  ASSUME NEW s \in Seq(Frame), s # <<>>, NEW e \in Frame, NEW h \in Frame
  PROVE  /\ Front(s) \o <<e, h>> \in Seq(Frame)
         /\ Len(Front(s) \o <<e, h>>) = Len(s) + 1
         /\ DOMAIN (Front(s) \o <<e, h>>) = 1 .. Len(s) + 1
         /\ (Front(s) \o <<e, h>>)[Len(s)] = e
         /\ (Front(s) \o <<e, h>>)[Len(s) + 1] = h
         /\ \A i \in 1 .. Len(s) - 1 : (Front(s) \o <<e, h>>)[i] = s[i]
<1>. DEFINE t == Front(s)
            u == t \o <<e, h>>
<1>1. /\ t \in Seq(Frame) /\ Len(t) = Len(s) - 1 /\ Len(s) \in Nat /\ Len(s) > 0
      /\ \A i \in 1 .. Len(s) - 1 : t[i] = s[i]
  BY TopIs
<1>2. <<e, h>> \in Seq(Frame) /\ Len(<<e, h>>) = 2 /\ <<e, h>>[1] = e /\ <<e, h>>[2] = h
  OBVIOUS
<1>. HIDE DEF t
<1>3. /\ u \in Seq(Frame) /\ Len(u) = Len(t) + 2
      /\ \A i \in 1 .. Len(t) : u[i] = t[i]
      /\ \A i \in 1 .. 2 : u[Len(t) + i] = <<e, h>>[i]
  BY <1>1, <1>2, ConcatProperties
<1>. HIDE DEF u
<1>4. Len(u) = Len(s) + 1 /\ DOMAIN u = 1 .. Len(s) + 1
  <2>1. Len(u) = Len(s) + 1
    BY <1>1, <1>3
  <2>. QED  BY <1>3, <2>1, LenProperties
<1>5. u[Len(s)] = e /\ u[Len(s) + 1] = h
  <2>1. Len(t) + 1 = Len(s) /\ Len(t) + 2 = Len(s) + 1 /\ 1 \in 1 .. 2 /\ 2 \in 1 .. 2
    BY <1>1
  <2>. QED  BY <1>2, <1>3, <2>1
<1>6. \A i \in 1 .. Len(s) - 1 : u[i] = s[i]
  BY <1>1, <1>3
<1>. QED  BY <1>3, <1>4, <1>5, <1>6 DEF u, t

\* The innermost call, its struct, and the calls around it.
Top(f) == stack # <<>> /\ f = Last(stack)

\* What is known of the innermost call.
LEMMA InnermostIs ==
  ASSUME DataInv, CallsInv, NEW f, Top(f)
  PROVE  /\ Len(stack) \in Nat /\ Len(stack) > 0 /\ DOMAIN stack = 1 .. Len(stack)
         /\ f = stack[Len(stack)] /\ f \in Frame
         /\ f.p \in Seq(Keys) /\ Len(f.p) = Len(stack) - 1
         /\ f.s = At(f.p) /\ f.s \in Structs /\ f.todo \subseteq Keys
         /\ \A i \in DOMAIN stack : stack[i] \in Frame /\ Len(stack[i].p) = i - 1
         /\ \A i \in DOMAIN stack : stack[i].p = f.p => i = Len(stack)
<1>. DEFINE n == Len(stack)
<1>1. stack \in Seq(Frame)
  BY DEF DataInv
<1>2. /\ n \in Nat /\ n > 0 /\ DOMAIN stack = 1 .. n
      /\ f = stack[n] /\ f \in Frame
  BY <1>1, TopIs DEF Top
<1>. HIDE DEF n
<1>3. \A i \in DOMAIN stack : stack[i] \in Frame
  BY <1>1, <1>2, ElementOfSeq DEF n
<1>4. \A i \in DOMAIN stack : Len(stack[i].p) = i - 1 /\ stack[i].s = At(stack[i].p)
  BY DEF CallsInv, CallOK
<1>5. n \in DOMAIN stack
  BY <1>2
<1>6. f.p \in Seq(Keys) /\ f.s \in Structs /\ f.todo \subseteq Keys
  BY <1>2 DEF Frame
<1>7. \A i \in DOMAIN stack : stack[i].p = f.p => i = n
  BY <1>2, <1>4, <1>5
<1>. QED  BY <1>2, <1>3, <1>4, <1>5, <1>6, <1>7 DEF n

\* A call around the innermost one waits for an element of its struct.
LEMMA OuterIs ==
  ASSUME DataInv, CallsInv, NEW i \in DOMAIN stack, i + 1 \in DOMAIN stack
  PROVE  /\ stack[i].p \in Seq(Keys) /\ stack[i].s \in Structs /\ stack[i].s = At(stack[i].p)
         /\ \E k \in Keys \ stack[i].todo :
               /\ stack[i + 1].p = Append(stack[i].p, k)
               /\ map[stack[i].s][k] \in Structs
               /\ Stands(stack[i].p, k, k)
<1>1. stack # <<>> /\ Top(Last(stack))
  BY EmptySeq DEF Top
<1>2. stack[i] \in Frame
  BY <1>1, InnermostIs
<1>3. stack[i].p \in Seq(Keys) /\ stack[i].s \in Structs
  BY <1>2 DEF Frame
<1>. QED  BY <1>3 DEF CallsInv, CallOK, Pending

\* A call stays as it was while the structs only grow.
Grown ==
  /\ map' = map /\ phase' = phase
  /\ DOMAIN json \subseteq DOMAIN json' /\ DOMAIN made \subseteq DOMAIN made'
  /\ moved \subseteq moved'

\* A call whose frame and caller's key stay is as it was.
LEMMA CallKept ==
  ASSUME Grown, NEW i, CallOK(i), stack'[i] = stack[i],
         i + 1 \in DOMAIN stack' => i + 1 \in DOMAIN stack /\ stack'[i + 1].p = stack[i + 1].p
  PROVE  CallOK(i)'
<1>1. /\ \A p : At(p)' = At(p)
      /\ map' = map /\ phase' = phase
      /\ DOMAIN json \subseteq DOMAIN json' /\ DOMAIN made \subseteq DOMAIN made'
      /\ moved \subseteq moved'
  BY AtKept DEF Grown
<1>2. \A p, j, k : Stands(p, j, k) => Stands(p, j, k)'
  BY <1>1 DEF Stands
<1>3. Len(stack'[i].p) = i - 1 /\ stack'[i].s = At(stack[i].p)'
  BY <1>1 DEF CallOK
<1>4. i + 1 \in DOMAIN stack' =>
         \E k \in Keys \ stack'[i].todo :
            Pending(i, k)' /\ map'[stack'[i].s][k] \in Structs /\ Stands(stack[i].p, k, k)'
  BY <1>1, <1>2 DEF CallOK, Pending
<1>5. /\ phase' = "serialize" =>
           /\ i + 1 \in DOMAIN stack' => stack'[i].open
           /\ stack'[i].open => stack'[i].p \in DOMAIN json'
           /\ ~stack'[i].open => stack'[i].todo = {}
      /\ phase' \in {"parse", "copy"} => stack'[i].p \in DOMAIN made'
  BY <1>1 DEF CallOK
<1>. QED  BY <1>3, <1>4, <1>5 DEF CallOK

\* The innermost call f goes on as e, or makes a call h for key k, or returns.
GoesOn(f, e) ==
  /\ Top(f) /\ e \in Frame /\ e.p = f.p /\ e.s = f.s
  /\ stack' = Append(Front(stack), e)

Enters(f, e, k, h) ==
  /\ Top(f) /\ e \in Frame /\ e.p = f.p /\ e.s = f.s
  /\ k \in Keys \ e.todo
  /\ h \in Frame /\ h.p = Append(f.p, k) /\ h.s = map[f.s][k]
  /\ stack' = Front(stack) \o <<e, h>>

Returns(f) == Top(f) /\ stack' = Front(stack)

\* The calls then.
LEMMA StackThen ==
  ASSUME DataInv, NEW f, NEW e, NEW k, NEW h
  PROVE  /\ GoesOn(f, e) =>
              /\ DOMAIN stack' = 1 .. Len(stack) /\ stack' \in Seq(Frame)
              /\ stack'[Len(stack)] = e
              /\ \A i \in 1 .. Len(stack) - 1 : stack'[i] = stack[i]
         /\ Enters(f, e, k, h) =>
              /\ DOMAIN stack' = 1 .. Len(stack) + 1 /\ stack' \in Seq(Frame)
              /\ stack'[Len(stack)] = e /\ stack'[Len(stack) + 1] = h
              /\ \A i \in 1 .. Len(stack) - 1 : stack'[i] = stack[i]
         /\ Returns(f) =>
              /\ DOMAIN stack' = 1 .. Len(stack) - 1 /\ stack' \in Seq(Frame)
              /\ \A i \in 1 .. Len(stack) - 1 : stack'[i] = stack[i]
<1>1. stack \in Seq(Frame)
  BY DEF DataInv
<1>2. ASSUME GoesOn(f, e)
      PROVE  /\ DOMAIN stack' = 1 .. Len(stack) /\ stack' \in Seq(Frame)
             /\ stack'[Len(stack)] = e
             /\ \A i \in 1 .. Len(stack) - 1 : stack'[i] = stack[i]
  <2>1. stack # <<>> /\ e \in Frame /\ stack' = Append(Front(stack), e)
    BY <1>2 DEF GoesOn, Top
  <2>. QED  BY ONLY <1>1, <2>1, ReplaceIs
<1>3. ASSUME Enters(f, e, k, h)
      PROVE  /\ DOMAIN stack' = 1 .. Len(stack) + 1 /\ stack' \in Seq(Frame)
             /\ stack'[Len(stack)] = e /\ stack'[Len(stack) + 1] = h
             /\ \A i \in 1 .. Len(stack) - 1 : stack'[i] = stack[i]
  <2>1. stack # <<>> /\ e \in Frame /\ h \in Frame /\ stack' = Front(stack) \o <<e, h>>
    BY <1>3 DEF Enters, Top
  <2>2. PICK t, s : t = Front(stack) \o <<e, h>> /\ s = stack
    OBVIOUS
  <2>3. s \in Seq(Frame) /\ s # <<>> /\ e \in Frame /\ h \in Frame /\ t = Front(s) \o <<e, h>>
    BY <1>1, <2>1, <2>2
  <2>4. /\ t \in Seq(Frame) /\ DOMAIN t = 1 .. Len(s) + 1
        /\ t[Len(s)] = e /\ t[Len(s) + 1] = h
        /\ \A i \in 1 .. Len(s) - 1 : t[i] = s[i]
    BY ONLY <2>3, PushIs
  <2>. QED  BY <2>1, <2>2, <2>4
<1>4. ASSUME Returns(f)
      PROVE  /\ DOMAIN stack' = 1 .. Len(stack) - 1 /\ stack' \in Seq(Frame)
             /\ \A i \in 1 .. Len(stack) - 1 : stack'[i] = stack[i]
  <2>1. stack # <<>> /\ stack' = Front(stack)
    BY <1>4 DEF Returns, Top
  <2>. QED  BY ONLY <1>1, <2>1, TopIs
<1>. QED  BY <1>2, <1>3, <1>4

\* The calls around the innermost one stay as they were.
LEMMA OuterCallsKept ==
  ASSUME DataInv, CallsInv, Grown, NEW i, i + 1 \in DOMAIN stack, i \in DOMAIN stack,
         stack'[i] = stack[i],
         i + 1 \in DOMAIN stack' => stack'[i + 1].p = stack[i + 1].p
  PROVE  CallOK(i)'
<1>1. CallOK(i)
  BY DEF CallsInv
<1>. QED  BY <1>1, CallKept

\* The calls, when the innermost one goes on.
LEMMA CallsReplaced ==
  ASSUME DataInv, CallsInv, Grown, NEW f, NEW e, GoesOn(f, e),
         phase = "serialize" => e.open /\ e.p \in DOMAIN json'
  PROVE  CallsInv'
<1>0. PICK n : n = Len(stack)
  OBVIOUS
<1>1. /\ Top(f) /\ e.p = f.p /\ e.s = f.s
  BY DEF GoesOn
<1>2. /\ n \in Nat /\ n > 0 /\ DOMAIN stack = 1 .. n /\ f = stack[n]
      /\ Len(f.p) = n - 1 /\ f.s = At(f.p)
  BY <1>0, <1>1, InnermostIs
<1>3. /\ DOMAIN stack' = 1 .. n /\ stack'[n] = e
      /\ \A i \in 1 .. n - 1 : stack'[i] = stack[i]
  BY <1>0, StackThen
<1>4. /\ \A p : At(p)' = At(p)
      /\ phase' = phase /\ DOMAIN made \subseteq DOMAIN made'
  BY AtKept DEF Grown
<1>5. ASSUME NEW i \in 1 .. n - 1  PROVE CallOK(i)'
  <2>1. stack'[i] = stack[i] /\ i \in DOMAIN stack /\ i + 1 \in DOMAIN stack
    BY <1>2, <1>3
  <2>2. stack'[i + 1].p = stack[i + 1].p
    <3>1. CASE i + 1 \in 1 .. n - 1
      BY <1>3, <3>1
    <3>2. CASE i + 1 = n
      BY <1>1, <1>2, <1>3, <3>2
    <3>. QED  BY <1>2, <3>1, <3>2
  <2>. QED  BY <2>1, <2>2, OuterCallsKept
<1>6. CallOK(n)'
  <2>1. Len(stack'[n].p) = n - 1 /\ n + 1 \notin DOMAIN stack'
    BY <1>1, <1>2, <1>3
  <2>2. stack'[n].s = At(stack[n].p)'
    <3>1. stack'[n].s = At(f.p) /\ stack'[n].p = f.p
      BY <1>1, <1>2, <1>3
    <3>. QED  BY <1>4, <3>1
  <2>3. phase' = "serialize" => stack'[n].open /\ stack'[n].p \in DOMAIN json'
    BY <1>3, <1>4
  <2>4. phase' \in {"parse", "copy"} => stack'[n].p \in DOMAIN made'
    <3>1. phase \in {"parse", "copy"} => f.p \in DOMAIN made
      BY <1>2 DEF CallsInv, CallOK
    <3>. QED  BY <1>1, <1>3, <1>4, <3>1
  <2>. QED  BY <2>1, <2>2, <2>3, <2>4 DEF CallOK
<1>7. \A i \in 1 .. n : i \in 1 .. n - 1 \/ i = n
  BY <1>2
<1>. QED  BY <1>3, <1>5, <1>6, <1>7 DEF CallsInv

\* The calls, when the innermost one makes another.
LEMMA CallsPushed ==
  ASSUME DataInv, CallsInv, Grown, NEW f, NEW e, NEW k, NEW h, Enters(f, e, k, h),
         map[f.s][k] \in Structs, Stands(f.p, k, k),
         phase = "serialize" => e.open /\ f.p \in DOMAIN json /\ ~h.open /\ h.todo = {},
         phase \in {"parse", "copy"} => h.p \in DOMAIN made'
  PROVE  CallsInv'
<1>0. PICK n : n = Len(stack)
  OBVIOUS
<1>1. /\ Top(f) /\ e.p = f.p /\ e.s = f.s /\ k \in Keys \ e.todo /\ k \in Keys
      /\ h.p = Append(f.p, k) /\ h.s = map[f.s][k]
  BY DEF Enters
<1>2. /\ n \in Nat /\ n > 0 /\ DOMAIN stack = 1 .. n /\ f = stack[n]
      /\ Len(f.p) = n - 1 /\ f.p \in Seq(Keys) /\ f.s = At(f.p) /\ f.s \in Structs
  BY <1>0, <1>1, InnermostIs
<1>3. /\ DOMAIN stack' = 1 .. n + 1 /\ stack'[n] = e /\ stack'[n + 1] = h
      /\ \A i \in 1 .. n - 1 : stack'[i] = stack[i]
  BY <1>0, StackThen
<1>4. /\ \A p : At(p)' = At(p)
      /\ map' = map /\ phase' = phase
      /\ DOMAIN json \subseteq DOMAIN json' /\ DOMAIN made \subseteq DOMAIN made'
      /\ moved \subseteq moved'
  BY AtKept DEF Grown
<1>5. Len(h.p) = n /\ h.s = At(h.p)
  <2>1. DOMAIN map = Structs
    BY DEF DataInv
  <2>2. At(Append(f.p, k)) = map[f.s][k]
    BY <1>1, <1>2, <2>1, AtIs
  <2>3. Len(Append(f.p, k)) = Len(f.p) + 1
    BY <1>1, <1>2, PathsDiffer
  <2>. QED  BY <1>1, <1>2, <2>2, <2>3
<1>6. ASSUME NEW i \in 1 .. n - 1  PROVE CallOK(i)'
  <2>1. stack'[i] = stack[i] /\ i \in DOMAIN stack /\ i + 1 \in DOMAIN stack
    BY <1>2, <1>3
  <2>2. stack'[i + 1].p = stack[i + 1].p
    <3>1. CASE i + 1 \in 1 .. n - 1
      BY <1>3, <3>1
    <3>2. CASE i + 1 = n
      BY <1>1, <1>2, <1>3, <3>2
    <3>. QED  BY <1>2, <3>1, <3>2
  <2>. QED  BY <2>1, <2>2, OuterCallsKept
<1>7. CallOK(n)'
  <2>1. Len(stack'[n].p) = n - 1 /\ n + 1 \in DOMAIN stack'
    BY <1>1, <1>2, <1>3
  <2>2. stack'[n].s = At(stack[n].p)'
    <3>1. stack'[n].s = At(f.p) /\ stack'[n].p = f.p
      BY <1>1, <1>2, <1>3
    <3>. QED  BY <1>4, <3>1
  <2>3. Pending(n, k)' /\ map'[stack'[n].s][k] \in Structs /\ k \in Keys \ stack'[n].todo
    BY <1>1, <1>3, <1>4, <2>1 DEF Pending
  <2>4. Stands(stack[n].p, k, k)'
    <3>1. \A p : Stands(p, k, k) => Stands(p, k, k)'
      BY <1>4 DEF Stands
    <3>2. stack'[n].p = f.p
      BY <1>1, <1>3
    <3>. QED  BY <3>1, <3>2
  <2>5. phase' = "serialize" => stack'[n].open /\ stack'[n].p \in DOMAIN json'
    BY <1>1, <1>3, <1>4
  <2>6. phase' \in {"parse", "copy"} => stack'[n].p \in DOMAIN made'
    <3>1. phase \in {"parse", "copy"} => f.p \in DOMAIN made
      BY <1>2 DEF CallsInv, CallOK
    <3>. QED  BY <1>1, <1>3, <1>4, <3>1
  <2>. QED  BY <2>1, <2>2, <2>3, <2>4, <2>5, <2>6 DEF CallOK
<1>8. CallOK(n + 1)'
  <2>1. (n + 1) + 1 \notin DOMAIN stack'
    BY <1>2, <1>3
  <2>2. Len(stack'[n + 1].p) = (n + 1) - 1
    BY <1>2, <1>3, <1>5
  <2>3. stack'[n + 1].s = At(stack[n + 1].p)'
    <3>1. stack'[n + 1].s = At(h.p) /\ stack'[n + 1].p = h.p
      BY <1>3, <1>5
    <3>. QED  BY <1>4, <3>1
  <2>4. phase' = "serialize" => ~stack'[n + 1].open /\ stack'[n + 1].todo = {}
    BY <1>3, <1>4
  <2>5. phase' \in {"parse", "copy"} => stack'[n + 1].p \in DOMAIN made'
    BY <1>3, <1>4
  <2>. QED  BY <2>1, <2>2, <2>3, <2>4, <2>5 DEF CallOK
<1>9. \A i \in 1 .. n + 1 : i \in 1 .. n - 1 \/ i = n \/ i = n + 1
  BY <1>2
<1>. QED  BY <1>3, <1>6, <1>7, <1>8, <1>9 DEF CallsInv

\* The calls, when the innermost one returns.
LEMMA CallsPopped ==
  ASSUME DataInv, CallsInv, Grown, NEW f, Returns(f)
  PROVE  CallsInv'
<1>1. Top(f)
  BY DEF Returns
<1>2. /\ Len(stack) \in Nat /\ DOMAIN stack = 1 .. Len(stack)
      /\ DOMAIN stack' = 1 .. Len(stack) - 1
      /\ \A i \in 1 .. Len(stack) - 1 : stack'[i] = stack[i]
  BY <1>1, InnermostIs, StackThen
<1>3. ASSUME NEW i \in 1 .. Len(stack) - 1  PROVE CallOK(i)'
  <2>1. CallOK(i) /\ stack'[i] = stack[i]
    BY <1>2 DEF CallsInv
  <2>2. i + 1 \in DOMAIN stack' => i + 1 \in DOMAIN stack /\ stack'[i + 1].p = stack[i + 1].p
    BY <1>2
  <2>. QED  BY <2>1, <2>2, CallKept
<1>. QED  BY <1>2, <1>3 DEF CallsInv

-----------------------------------------------------------------------------
(* What the calls go through, and owe.                                     *)

\* The written structs, except the one of f.
OthersKept(f) ==
  /\ map' = map /\ phase' = phase
  /\ phase = "serialize" => \A p \in DOMAIN json \ {f.p} : json'[p] = json[p]
  /\ phase = "parse" => json' = json

\* The keys that are left, after a step of the innermost call.
LEMMA TodosThen ==
  ASSUME DataInv, CallsInv, TodoInv, NEW f, NEW e, NEW k, NEW h, OthersKept(f),
         \/ GoesOn(f, e) /\ TodoOK(e)'
         \/ Enters(f, e, k, h) /\ TodoOK(e)' /\ TodoOK(h)'
         \/ Returns(f)
  PROVE  TodoInv'
<1>0. PICK n : n = Len(stack)
  OBVIOUS
<1>1. Top(f)
  BY DEF GoesOn, Enters, Returns
<1>2. /\ n \in Nat /\ n > 0 /\ DOMAIN stack = 1 .. n /\ Len(f.p) = n - 1
      /\ \A i \in DOMAIN stack : Len(stack[i].p) = i - 1
  BY <1>0, <1>1, InnermostIs
<1>3. \A i \in 1 .. n - 1 : i \in DOMAIN stack' => stack'[i] = stack[i]
  BY <1>0, StackThen
<1>4. ASSUME NEW i \in 1 .. n - 1, i \in DOMAIN stack'  PROVE TodoOK(stack[i])'
  <2>1. TodoOK(stack[i]) /\ stack'[i] = stack[i]
    BY <1>2, <1>3, <1>4 DEF TodoInv
  <2>2. phase = "serialize" /\ stack[i].open => json'[stack[i].p] = json[stack[i].p]
    <3>1. stack[i].p # f.p
      BY <1>2
    <3>2. phase = "serialize" /\ stack[i].open => stack[i].p \in DOMAIN json
      BY <1>2 DEF CallsInv, CallOK
    <3>. QED  BY <3>1, <3>2 DEF OthersKept
  <2>3. map' = map /\ phase' = phase /\ (phase = "parse" => json' = json)
    BY DEF OthersKept
  <2>. QED  BY <2>1, <2>2, <2>3 DEF TodoOK, Items, Elements
<1>5. CASE GoesOn(f, e) /\ TodoOK(e)'
  <2>1. DOMAIN stack' = 1 .. n /\ stack'[n] = e
    BY <1>0, <1>5, StackThen
  <2>2. TodoOK(stack[n])'
    BY <1>5, <2>1 DEF TodoOK, Items, Elements
  <2>3. \A i \in 1 .. n : i \in 1 .. n - 1 \/ i = n
    BY <1>2
  <2>. QED  BY <1>4, <2>1, <2>2, <2>3 DEF TodoInv
<1>6. CASE Enters(f, e, k, h) /\ TodoOK(e)' /\ TodoOK(h)'
  <2>1. DOMAIN stack' = 1 .. n + 1 /\ stack'[n] = e /\ stack'[n + 1] = h
    BY <1>0, <1>6, StackThen
  <2>2. TodoOK(stack[n])' /\ TodoOK(stack[n + 1])'
    BY <1>6, <2>1 DEF TodoOK, Items, Elements
  <2>3. \A i \in 1 .. n + 1 : i \in 1 .. n - 1 \/ i = n \/ i = n + 1
    BY <1>2
  <2>. QED  BY <1>4, <2>1, <2>2, <2>3 DEF TodoInv
<1>7. CASE Returns(f)
  <2>1. DOMAIN stack' = 1 .. n - 1
    BY <1>0, <1>7, StackThen
  <2>. QED  BY <1>4, <2>1 DEF TodoInv
<1>. QED  BY <1>5, <1>6, <1>7

\* Places and held elements are finitely many.
LEMMA HeldIs ==
  ASSUME NEW s, NEW x, NEW K \in SUBSET Keys
  PROVE  /\ Held(s, K, x) \in Nat
         /\ Held(s, Keys, x) = Held(s, K, x) + Held(s, Keys \ K, x)
<1>. DEFINE A == {k \in K : map[s][k] = x}
            B == {k \in Keys \ K : map[s][k] = x}
            C == {k \in Keys : map[s][k] = x}
<1>1. IsFiniteSet(A) /\ IsFiniteSet(B)
  <2>1. A \subseteq Keys /\ B \subseteq Keys
    OBVIOUS
  <2>. QED  BY <2>1, SerialAssumption, FS_Subset
<1>2. A \cup B = C /\ A \cap B = {}
  OBVIOUS
<1>. HIDE DEF A, B, C
<1>3. Cardinality(A) \in Nat /\ Cardinality(B) \in Nat
  BY <1>1, FS_CardinalityType
<1>4. Cardinality(C) = Cardinality(A) + Cardinality(B)
  <2>1. Cardinality(A \cup B) = Cardinality(A) + Cardinality(B) - Cardinality(A \cap B)
    BY <1>1, FS_Union
  <2>2. Cardinality(A \cap B) = 0
    BY <1>2, FS_EmptySet
  <2>. QED  BY <1>2, <1>3, <2>1, <2>2
<1>. QED  BY <1>3, <1>4 DEF Held, A, B, C

\* A value has finitely many places.
LEMMA PlacesIs ==
  ASSUME NEW x
  PROVE  IsFiniteSet(Places(x)) /\ Cardinality(Places(x)) \in Nat
<1>1. IsFiniteSet(Structs) /\ IsFiniteSet(Keys)
  <2>1. Structs \subseteq Objs
    BY DEF Objs
  <2>. QED  BY <2>1, SerialAssumption, FS_Subset
<1>2. IsFiniteSet(Structs \X Keys)
  BY <1>1, FS_Product
<1>3. IsFiniteSet(Places(x))
  BY <1>2, FS_Subset DEF Places
<1>. QED  BY <1>3, FS_CardinalityType

\* What a call owes is a number.
LEMMA OwesIs ==
  ASSUME NEW f, NEW x
  PROVE  Owes(f, x) \in Nat /\ Owes(f, x)' \in Nat
<1>1. Held(f.s, Keys \ DOMAIN json[f.p].dups, x) \in Nat
  BY HeldIs
<1>2. Owes(f, x) \in Nat
  BY <1>1 DEF Owes
<1>3. Held(f.s, Keys \ DOMAIN json[f.p].dups, x)' \in Nat
  <2>. DEFINE A == {k \in Keys \ DOMAIN json'[f.p].dups : map'[f.s][k] = x}
  <2>1. IsFiniteSet(A)
    BY SerialAssumption, FS_Subset
  <2>2. Cardinality(A) \in Nat
    BY <2>1, FS_CardinalityType
  <2>. QED  BY <2>2 DEF Held
<1>. QED  BY <1>2, <1>3 DEF Owes

\* What a count covers, besides what the innermost call still owes.
LEMMA OwesBelow ==
  ASSUME DataInv, CallsInv, RefsInv, NEW f, Top(f), NEW x \in Objs
  PROVE  refs[x] >= Cardinality(Places(x)) + Owes(f, x)
<1>0. PICK n : n = Len(stack)
  OBVIOUS
<1>1. n \in Nat /\ n > 0 /\ DOMAIN stack = 1 .. n /\ f = stack[n]
  BY <1>0, InnermostIs
<1>2. PICK S \in [0 .. n -> Nat] : Covers(x, S)
  BY <1>0 DEF RefsInv
<1>3. S[n] = S[n - 1] + Owes(f, x) /\ refs[x] >= Cardinality(Places(x)) + S[n]
  <2>1. /\ \A i \in 1 .. n : S[i] = S[i - 1] + Owes(stack[i], x)
        /\ refs[x] >= Cardinality(Places(x)) + S[n]
    BY <1>0, <1>1, <1>2 DEF Covers
  <2>2. n \in 1 .. n
    BY <1>1
  <2>3. S[n] = S[n - 1] + Owes(stack[n], x)
    BY <2>1, <2>2
  <2>. QED  BY <1>1, <2>1, <2>3
<1>4. S[n] \in Nat /\ S[n - 1] \in Nat /\ Owes(f, x) \in Nat
  BY <1>1, <1>2, OwesIs
<1>5. refs[x] \in Nat /\ Cardinality(Places(x)) \in Nat
  BY PlacesIs DEF DataInv
<1>. QED  BY <1>3, <1>4, <1>5

\* A step of the innermost call, if it counts for what it owes then.
LEMMA RefsThen ==
  ASSUME DataInv, CallsInv, RefsInv, refs' \in [Objs -> Nat],
         NEW f, NEW e, NEW k, NEW h, OthersKept(f),
         \/ /\ GoesOn(f, e)
            /\ \A x \in Objs : refs'[x] + Owes(f, x) >= refs[x] + Owes(e, x)'
         \/ /\ Enters(f, e, k, h)
            /\ \A x \in Objs : Owes(h, x)' = 0 /\ refs'[x] + Owes(f, x) >= refs[x] + Owes(e, x)'
         \/ /\ Returns(f)
            /\ \A x \in Objs : refs'[x] + Owes(f, x) >= refs[x]
  PROVE  RefsInv'
<1>0. PICK n : n = Len(stack)
  OBVIOUS
<1>1. Top(f)
  BY DEF GoesOn, Enters, Returns
<1>2. /\ n \in Nat /\ n > 0 /\ DOMAIN stack = 1 .. n /\ Len(f.p) = n - 1 /\ f = stack[n]
      /\ \A i \in DOMAIN stack : Len(stack[i].p) = i - 1
  BY <1>0, <1>1, InnermostIs
<1>3. \A i \in 1 .. n - 1 : i \in DOMAIN stack' => stack'[i] = stack[i]
  BY <1>0, StackThen
<1>4. map' = map /\ phase' = phase
  BY DEF OthersKept
<1>. SUFFICES ASSUME NEW x \in Objs
              PROVE  \E S \in [0 .. Len(stack') -> Nat] : Covers(x, S)'
  BY DEF RefsInv
<1>5. PICK S \in [0 .. n -> Nat] : Covers(x, S)
  BY <1>0 DEF RefsInv
<1>6. /\ S[0] = 0
      /\ \A i \in 1 .. n : S[i] = S[i - 1] + Owes(stack[i], x)
      /\ refs[x] >= Cardinality(Places(x)) + S[n]
  BY <1>0, <1>2, <1>5 DEF Covers
<1>7. Cardinality(Places(x))' = Cardinality(Places(x))
  BY <1>4 DEF Places
<1>8. /\ Owes(f, x) \in Nat /\ Owes(e, x)' \in Nat
      /\ refs[x] \in Nat /\ refs'[x] \in Nat /\ Cardinality(Places(x)) \in Nat
  BY OwesIs, PlacesIs DEF DataInv
<1>9. ASSUME NEW i \in 1 .. n - 1, i \in DOMAIN stack'
      PROVE  Owes(stack[i], x)' = Owes(stack[i], x)
  <2>1. phase = "serialize" /\ stack[i].open => json'[stack[i].p] = json[stack[i].p]
    <3>1. stack[i].p # f.p
      <4>1. i \in DOMAIN stack /\ i - 1 # n - 1
        BY <1>2
      <4>2. Len(stack[i].p) = i - 1 /\ Len(f.p) = n - 1
        BY <1>2, <4>1
      <4>. QED  BY <4>1, <4>2
    <3>2. phase = "serialize" /\ stack[i].open => stack[i].p \in DOMAIN json
      BY <1>2 DEF CallsInv, CallOK
    <3>. QED  BY <3>1, <3>2 DEF OthersKept
  <2>2. stack'[i] = stack[i]
    BY <1>3, <1>9
  <2>. QED  BY <1>4, <2>1, <2>2 DEF Owes, Held
<1>10. \A i \in 0 .. n : S[i] \in Nat
  BY <1>5
<1>11. /\ S[n] = S[n - 1] + Owes(f, x) /\ S[n - 1] \in Nat /\ S[n] \in Nat
       /\ refs[x] >= Cardinality(Places(x)) + S[n]
  <2>1. n \in 1 .. n /\ n \in 0 .. n /\ n - 1 \in 0 .. n /\ Owes(stack[n], x) = Owes(f, x)
    BY <1>2
  <2>. QED  BY <1>6, <1>10, <2>1
<1>12. CASE GoesOn(f, e) /\ refs'[x] + Owes(f, x) >= refs[x] + Owes(e, x)'
  <2>1. DOMAIN stack' = 1 .. n /\ stack'[n] = e /\ Len(stack') = n
    <3>1. DOMAIN stack' = 1 .. n /\ stack'[n] = e /\ stack' \in Seq(Frame)
      BY <1>0, <1>12, StackThen
    <3>. QED  BY <1>2, <3>1, LenProperties
  <2>2. PICK w : w = S[n - 1] + Owes(e, x)'
    OBVIOUS
  <2>3. w \in Nat /\ refs'[x] >= Cardinality(Places(x)) + w
    <3>1. PICK a, b, c, d, t, u : /\ a = refs'[x] /\ b = Owes(f, x) /\ c = refs[x]
                                  /\ d = Owes(e, x)' /\ t = Cardinality(Places(x))
                                  /\ u = S[n - 1]
      OBVIOUS
    <3>2. /\ a \in Nat /\ b \in Nat /\ c \in Nat /\ d \in Nat /\ t \in Nat /\ u \in Nat
          /\ a + b >= c + d /\ c >= t + (u + b) /\ w = u + d
      BY <1>8, <1>11, <1>12, <2>2, <3>1
    <3>3. w \in Nat /\ a >= t + w
      BY ONLY <3>2
    <3>. QED  BY <3>1, <3>3
  <2>4. PICK T : T = [i \in 0 .. n |-> IF i = n THEN w ELSE S[i]]
    OBVIOUS
  <2>5. T \in [0 .. n -> Nat] /\ T[0] = 0 /\ T[n] = w
    BY <1>2, <1>6, <1>10, <2>3, <2>4
  <2>6. ASSUME NEW i \in 1 .. n  PROVE T[i] = T[i - 1] + Owes(stack[i], x)'
    <3>1. CASE i = n
      <4>1. T[i] = w /\ T[i - 1] = S[n - 1]
        BY <1>2, <2>4, <3>1
      <4>2. Owes(stack[i], x)' = Owes(e, x)'
        BY <2>1, <3>1 DEF Owes, Held
      <4>. QED  BY <2>2, <4>1, <4>2
    <3>2. CASE i \in 1 .. n - 1
      <4>1. T[i] = S[i] /\ T[i - 1] = S[i - 1] /\ i \in DOMAIN stack'
        BY <1>2, <2>1, <2>4, <3>2
      <4>2. S[i] = S[i - 1] + Owes(stack[i], x)
        BY <1>2, <1>6, <3>2
      <4>3. Owes(stack[i], x)' = Owes(stack[i], x)
        BY <1>9, <3>2, <4>1
      <4>. QED  BY <4>1, <4>2, <4>3
    <3>. QED  BY <1>2, <3>1, <3>2
  <2>. QED  BY <1>7, <2>1, <2>3, <2>5, <2>6 DEF Covers
<1>13. CASE /\ Enters(f, e, k, h) /\ Owes(h, x)' = 0
            /\ refs'[x] + Owes(f, x) >= refs[x] + Owes(e, x)'
  <2>1. DOMAIN stack' = 1 .. n + 1 /\ stack'[n] = e /\ stack'[n + 1] = h /\ Len(stack') = n + 1
    <3>1. DOMAIN stack' = 1 .. n + 1 /\ stack'[n] = e /\ stack'[n + 1] = h /\ stack' \in Seq(Frame)
      BY <1>0, <1>13, StackThen
    <3>. QED  BY <1>2, <3>1, LenProperties
  <2>2. PICK w : w = S[n - 1] + Owes(e, x)'
    OBVIOUS
  <2>3. w \in Nat /\ refs'[x] >= Cardinality(Places(x)) + w
    <3>1. PICK a, b, c, d, t, u : /\ a = refs'[x] /\ b = Owes(f, x) /\ c = refs[x]
                                  /\ d = Owes(e, x)' /\ t = Cardinality(Places(x))
                                  /\ u = S[n - 1]
      OBVIOUS
    <3>2. /\ a \in Nat /\ b \in Nat /\ c \in Nat /\ d \in Nat /\ t \in Nat /\ u \in Nat
          /\ a + b >= c + d /\ c >= t + (u + b) /\ w = u + d
      BY <1>8, <1>11, <1>13, <2>2, <3>1
    <3>3. w \in Nat /\ a >= t + w
      BY ONLY <3>2
    <3>. QED  BY <3>1, <3>3
  <2>4. PICK T : T = [i \in 0 .. n + 1 |-> IF i = n \/ i = n + 1 THEN w ELSE S[i]]
    OBVIOUS
  <2>5. T \in [0 .. n + 1 -> Nat] /\ T[0] = 0 /\ T[n + 1] = w
    <3>1. \A i \in 0 .. n + 1 : i \in 0 .. n \/ i = n + 1
      BY <1>2
    <3>2. 0 \in 0 .. n + 1 /\ n + 1 \in 0 .. n + 1 /\ 0 # n /\ 0 # n + 1
      BY <1>2
    <3>. QED  BY <1>6, <1>10, <2>3, <2>4, <3>1, <3>2
  <2>6. ASSUME NEW i \in 1 .. n + 1  PROVE T[i] = T[i - 1] + Owes(stack[i], x)'
    <3>1. CASE i = n
      <4>1. T[i] = w /\ T[i - 1] = S[n - 1]
        BY <1>2, <2>4, <3>1
      <4>2. Owes(stack[i], x)' = Owes(e, x)'
        BY <2>1, <3>1 DEF Owes, Held
      <4>. QED  BY <2>2, <4>1, <4>2
    <3>2. CASE i = n + 1
      <4>1. T[i] = w /\ T[i - 1] = w
        BY <1>2, <2>4, <3>2
      <4>2. Owes(stack[i], x)' = Owes(h, x)'
        BY <2>1, <3>2 DEF Owes, Held
      <4>. QED  BY <1>13, <2>3, <4>1, <4>2
    <3>3. CASE i \in 1 .. n - 1
      <4>1. T[i] = S[i] /\ T[i - 1] = S[i - 1] /\ i \in DOMAIN stack'
        BY <1>2, <2>1, <2>4, <3>3
      <4>2. S[i] = S[i - 1] + Owes(stack[i], x)
        BY <1>2, <1>6, <3>3
      <4>3. Owes(stack[i], x)' = Owes(stack[i], x)
        BY <1>9, <3>3, <4>1
      <4>. QED  BY <4>1, <4>2, <4>3
    <3>. QED  BY <1>2, <3>1, <3>2, <3>3
  <2>. QED  BY <1>7, <2>1, <2>3, <2>5, <2>6 DEF Covers
<1>14. CASE Returns(f) /\ refs'[x] + Owes(f, x) >= refs[x]
  <2>1. DOMAIN stack' = 1 .. n - 1 /\ Len(stack') = n - 1
    <3>1. DOMAIN stack' = 1 .. n - 1 /\ stack' \in Seq(Frame)
      BY <1>0, <1>14, StackThen
    <3>2. n - 1 \in Nat
      BY <1>2
    <3>. QED  BY <3>1, <3>2, LenProperties
  <2>2. PICK T : T = [i \in 0 .. n - 1 |-> S[i]]
    OBVIOUS
  <2>3. T \in [0 .. n - 1 -> Nat] /\ T[0] = 0 /\ T[n - 1] = S[n - 1]
    BY <1>2, <1>6, <1>10, <2>2
  <2>4. ASSUME NEW i \in 1 .. n - 1  PROVE T[i] = T[i - 1] + Owes(stack[i], x)'
    BY <1>2, <1>6, <1>9, <2>1, <2>2
  <2>5. refs'[x] >= Cardinality(Places(x)) + S[n - 1]
    BY <1>6, <1>8, <1>11, <1>14
  <2>. QED  BY <1>7, <2>1, <2>3, <2>4, <2>5 DEF Covers
<1>. QED  BY <1>12, <1>13, <1>14

\* Nothing is owed while no copy is open.
LEMMA NothingOwed ==
  ASSUME map' = map, stack' \in Seq(Frame),
         phase' # "serialize" \/ \A i \in DOMAIN stack' : ~stack'[i].open,
         refs' \in [Objs -> Nat],
         \A x \in Objs : refs'[x] >= Cardinality(Places(x))
  PROVE  RefsInv'
<1>. SUFFICES ASSUME NEW x \in Objs
              PROVE  \E S \in [0 .. Len(stack') -> Nat] : Covers(x, S)'
  BY DEF RefsInv
<1>1. Len(stack') \in Nat /\ DOMAIN stack' = 1 .. Len(stack')
  BY LenProperties
<1>3. PICK T : T = [i \in 0 .. Len(stack') |-> 0]
  OBVIOUS
<1>4. T \in [0 .. Len(stack') -> Nat] /\ T[0] = 0 /\ T[Len(stack')] = 0
  BY <1>1, <1>3
<1>5. ASSUME NEW i \in DOMAIN stack'  PROVE T[i] = T[i - 1] + Owes(stack[i], x)'
  <2>1. T[i] = 0 /\ T[i - 1] = 0
    BY <1>1, <1>3
  <2>2. Owes(stack[i], x)' = 0
    BY DEF Owes
  <2>. QED  BY <2>1, <2>2
<1>6. Places(x)' = Places(x) /\ Cardinality(Places(x)) \in Nat /\ refs'[x] \in Nat
  BY PlacesIs DEF Places
<1>7. refs'[x] >= Cardinality(Places(x))' + 0
  BY <1>6
<1>. QED  BY <1>4, <1>5, <1>7 DEF Covers

\* Counts cover places, whatever is still owed.
LEMMA PlacesCovered ==
  ASSUME DataInv, RefsInv
  PROVE  \A x \in Objs : refs[x] >= Cardinality(Places(x))
<1>. SUFFICES ASSUME NEW x \in Objs  PROVE refs[x] >= Cardinality(Places(x))
  OBVIOUS
<1>1. PICK S \in [0 .. Len(stack) -> Nat] : Covers(x, S)
  BY DEF RefsInv
<1>2. Len(stack) \in 0 .. Len(stack) /\ refs[x] >= Cardinality(Places(x)) + S[Len(stack)]
  <2>1. Len(stack) \in Nat
    BY LenProperties DEF DataInv
  <2>. QED  BY <1>1, <2>1 DEF Covers
<1>3. S[Len(stack)] \in Nat /\ refs[x] \in Nat /\ Cardinality(Places(x)) \in Nat
  BY <1>1, <1>2, PlacesIs DEF DataInv
<1>. QED  BY <1>2, <1>3

-----------------------------------------------------------------------------
(* A struct is written.                                                    *)

\* Nothing is made yet.
LEMMA NothingMade ==
  ASSUME phase' \in {"start", "serialize"},
         DOMAIN made' = {}, DOMAIN leaf' = {}, DOMAIN counted' = {}
  PROVE  MadeInv' /\ UnplacedInv' /\ CountedInv'
<1>1. MadeInv'
  BY DEF MadeInv
<1>2. UnplacedInv'
  BY DEF UnplacedInv
<1>3. CountedInv'
  BY DEF CountedInv, Counts
<1>. QED  BY <1>1, <1>2, <1>3

\* A key that repeats no other is met first.
LEMMA FreshKey ==
  ASSUME JsonInv, NEW p \in DOMAIN json, NEW k \in Keys \ DOMAIN json[p].dups,
         map[At(p)][k] \in Objs
  PROVE  Stands(p, k, k)
<1>1. DupsOK(p)
  BY DEF JsonInv
<1>2. p \notin moved => k \notin Repeats(map[At(p)])
  BY <1>1 DEF DupsOK
<1>. QED  BY <1>2 DEF Repeats, Stands

\* A new call has its frame.
LEMMA CallIs ==
  ASSUME NEW p \in Seq(Keys), NEW s \in Structs, NEW todo \in SUBSET Keys
  PROVE  /\ Call(p, s, todo) \in Frame
         /\ Call(p, s, todo).p = p /\ Call(p, s, todo).s = s
         /\ Call(p, s, todo).todo = todo /\ ~Call(p, s, todo).open
  BY DEF Call, Frame

\* The first call is of the root.
LEMMA FirstCallIs ==
  ASSUME DataInv, NEW todo \in SUBSET Keys, map' = map, stack' = <<Call(<<>>, Root, todo)>>,
         phase' \in {"parse", "copy"} => <<>> \in DOMAIN made',
         phase' = "serialize" => todo = {}
  PROVE  /\ stack' \in Seq(Frame) /\ stack' # <<>>
         /\ DOMAIN stack' = {1} /\ Len(stack') = 1 /\ stack'[1] = Call(<<>>, Root, todo)
         /\ ~stack'[1].open /\ stack'[1].p = <<>> /\ stack'[1].s = Root /\ stack'[1].todo = todo
         /\ <<>> \in Seq(Keys) /\ At(<<>>) = Root /\ Root \in Structs
         /\ CallsInv'
<1>1. <<>> \in Seq(Keys) /\ Len(<<>>) = 0
  BY EmptySeq
<1>2. PICK c : c = Call(<<>>, Root, todo)
  OBVIOUS
<1>3. c \in Frame /\ c.p = <<>> /\ c.s = Root /\ c.todo = todo /\ ~c.open
  <2>1. Root \in Structs
    BY SerialAssumption
  <2>2. \A p \in Seq(Keys) : p = <<>> => /\ c \in Frame /\ c.p = p /\ c.s = Root
                                        /\ c.todo = todo /\ ~c.open
    <3>1. ASSUME NEW p \in Seq(Keys)
          PROVE  /\ Call(p, Root, todo) \in Frame /\ Call(p, Root, todo).p = p
                 /\ Call(p, Root, todo).s = Root /\ Call(p, Root, todo).todo = todo
                 /\ ~Call(p, Root, todo).open
      BY <2>1, CallIs
    <3>. QED  BY <1>2, <3>1
  <2>. QED  BY <1>1, <2>2
<1>4. /\ stack' \in Seq(Frame) /\ stack' # <<>> /\ DOMAIN stack' = {1} /\ Len(stack') = 1
      /\ stack'[1] = c
  <2>1. stack' = <<c>>
    BY <1>2
  <2>. QED  BY ONLY <2>1, <1>3
<1>5. At(<<>>) = Root
  BY AtRoot
<1>6. CallOK(1)'
  <2>1. At(<<>>)' = Root
    BY <1>5, AtKept
  <2>2. stack'[1].s = At(stack[1].p)'
    <3>1. stack'[1].p = <<>> /\ stack'[1].s = Root
      BY <1>3, <1>4
    <3>. QED  BY <2>1, <3>1
  <2>3. 1 + 1 \notin DOMAIN stack' /\ Len(stack'[1].p) = 1 - 1
    BY <1>1, <1>3, <1>4
  <2>. QED  BY <1>2, <1>3, <1>4, <2>2, <2>3 DEF CallOK
<1>7. CallsInv'
  BY <1>4, <1>6 DEF CallsInv
<1>. QED  BY <1>1, <1>2, <1>3, <1>4, <1>5, <1>7, SerialAssumption

\* rpc_struct_serialize of the root is called.
LEMMA SerializeStep ==
  ASSUME Inv, Serialize
  PROVE  Inv'
<1>1. /\ phase = "start" /\ phase' = "serialize"
      /\ stack' = <<Call(<<>>, Root, {})>>
      /\ map' = map /\ refs' = refs /\ json' = json /\ made' = made /\ leaf' = leaf
      /\ counted' = counted /\ moved' = moved
  BY DEF Serialize
<1>2. DataInv /\ PhaseInv /\ RefsInv
  BY DEF Inv
<1>3. json = <<>> /\ DOMAIN json = {} /\ DOMAIN made = {} /\ DOMAIN leaf = {} /\ DOMAIN counted = {}
  <2>1. json = <<>> /\ DOMAIN made = {} /\ DOMAIN leaf = {} /\ DOMAIN counted = {}
    BY <1>1, <1>2 DEF PhaseInv
  <2>2. Len(<<>>) = 0 /\ DOMAIN <<>> = 1 .. 0
    OBVIOUS
  <2>. QED  BY <2>1, <2>2
<1>4. /\ stack' \in Seq(Frame) /\ stack' # <<>> /\ DOMAIN stack' = {1}
      /\ ~stack'[1].open /\ CallsInv'
  BY <1>1, <1>2, FirstCallIs
<1>6. DataInv'
  BY <1>1, <1>2, <1>4 DEF DataInv
<1>7. PhaseInv'
  BY <1>1, <1>3, <1>4 DEF PhaseInv
<1>8. TodoInv'
  <2>1. TodoOK(stack[1])'
    BY <1>1, <1>4 DEF TodoOK
  <2>. QED  BY <1>4, <2>1 DEF TodoInv
<1>9. JsonInv'
  BY <1>1, <1>3 DEF JsonInv
<1>10. MadeInv' /\ UnplacedInv' /\ CountedInv'
  BY <1>1, <1>3, NothingMade
<1>11. RefsInv'
  <2>1. \A x \in Objs : refs'[x] >= Cardinality(Places(x))
    BY <1>1, <1>2, PlacesCovered
  <2>2. refs' \in [Objs -> Nat]
    BY <1>1, <1>2 DEF DataInv
  <2>. QED  BY <1>1, <1>4, <2>1, <2>2, NothingOwed
<1>. QED  BY <1>4, <1>6, <1>7, <1>8, <1>9, <1>10, <1>11 DEF Inv

\* A step of the innermost call leaves the calls of other structs as they were.
Moves(f, e, k, h) == GoesOn(f, e) \/ Enters(f, e, k, h) \/ Returns(f)

\* Only the innermost call has its path; the others stay.
LEMMA OthersThen ==
  ASSUME DataInv, CallsInv, NEW f, NEW e, NEW k, NEW h, Moves(f, e, k, h),
         NEW i \in DOMAIN stack, stack[i].p # f.p
  PROVE  i \in 1 .. Len(stack) - 1 /\ i \in DOMAIN stack' /\ stack'[i] = stack[i]
<1>0. PICK n : n = Len(stack)
  OBVIOUS
<1>1. Top(f)
  BY DEF Moves, GoesOn, Enters, Returns
<1>2. n \in Nat /\ n > 0 /\ DOMAIN stack = 1 .. n /\ f = stack[n]
  BY <1>0, <1>1, InnermostIs
<1>3. i # n
  BY <1>2
<1>4. i \in 1 .. n - 1
  BY <1>2, <1>3
<1>5. /\ \A j \in 1 .. n - 1 : stack'[j] = stack[j]
      /\ DOMAIN stack' = 1 .. n \/ DOMAIN stack' = 1 .. n + 1 \/ DOMAIN stack' = 1 .. n - 1
  BY <1>0, StackThen DEF Moves
<1>. QED  BY <1>0, <1>2, <1>4, <1>5

\* What is being written of another struct is so still.
LEMMA WritingThen ==
  ASSUME DataInv, CallsInv, NEW f, NEW e, NEW k, NEW h, Moves(f, e, k, h),
         phase' = phase, DOMAIN json \subseteq DOMAIN json', NEW p, p # f.p
  PROVE  /\ \A j : Writing(p, j) => Writing(p, j)'
         /\ Begun(p) => Begun(p)'
<1>1. ASSUME NEW i \in DOMAIN stack, stack[i].p = p
      PROVE  i \in DOMAIN stack' /\ stack'[i] = stack[i]
  BY <1>1, OthersThen
<1>2. \A j : Writing(p, j) => Writing(p, j)'
  BY <1>1 DEF Writing
<1>3. Begun(p) => Begun(p)'
  BY <1>1 DEF Begun
<1>. QED  BY <1>2, <1>3

\* The innermost call is the only one of its struct.
LEMMA WritingIs ==
  ASSUME DataInv, CallsInv, NEW f, Top(f)
  PROVE  /\ \A k : Writing(f.p, k) => f.open /\ k \in f.todo
         /\ Begun(f.p) => f.p \in DOMAIN json \/ ~f.open
<1>1. \A i \in DOMAIN stack : stack[i].p = f.p => stack[i] = f
  BY InnermostIs
<1>. QED  BY <1>1 DEF Writing, Begun

\* What is written of another struct.
LEMMA ItemKept ==
  ASSUME NEW p \in DOMAIN json, NEW k \in Keys, ItemOK(p, k), map' = map,
         json'[p].dups = json[p].dups, json'[p].items[k] = json[p].items[k],
         Writing(p, k) => Writing(p, k)',
         Begun(Append(p, k)) => Begun(Append(p, k))'
  PROVE  ItemOK(p, k)'
<1>1. At(p)' = At(p)
  BY AtKept
<1>. QED  BY <1>1 DEF ItemOK, Item

\* The duplicates noted for a struct stay right.
LEMMA DupsKept ==
  ASSUME NEW p, DupsOK(p), map' = map, json'[p].dups = json[p].dups, moved \subseteq moved'
  PROVE  DupsOK(p)'
<1>1. At(p)' = At(p)
  BY AtKept
<1>. QED  BY <1>1 DEF DupsOK

\* A stack of calls is not empty.
LEMMA NotEmpty ==
  ASSUME NEW n \in Nat, n > 0, DOMAIN stack' = 1 .. n
  PROVE  stack' # <<>>
<1>1. 1 \in DOMAIN stack'
  OBVIOUS
<1>2. 1 \notin DOMAIN <<>>
  OBVIOUS
<1>. QED  BY <1>1, <1>2

\* Which duplicates are found.
LEMMA FoundIs ==
  ASSUME NEW m, NEW mov
  PROVE  /\ Found(m, mov) \subseteq Repeats(m) /\ Repeats(m) \subseteq Keys
         /\ mov = {} => Found(m, mov) = Repeats(m)
         /\ NamedByKey(m, Found(m, mov)) \in [Found(m, mov) -> Keys]
<1>1. Found(m, mov) \subseteq Repeats(m) /\ Repeats(m) \subseteq Keys
  BY DEF Found, Repeats
<1>2. mov = {} => Found(m, mov) = Repeats(m)
  BY DEF Found, Repeats
<1>3. \A k \in Keys : OriginalKey(m, k) \in Keys
  BY OriginalIs
<1>4. NamedByKey(m, Found(m, mov)) \in [Found(m, mov) -> Keys]
  BY <1>1, <1>3 DEF NamedByKey
<1>. QED  BY <1>1, <1>2, <1>4

\* A struct is copied and stripped of its duplicates.
LEMMA StripStep ==
  ASSUME Inv, NEW f, Strip(f)
  PROVE  Inv'
<1>0. DataInv /\ PhaseInv /\ CallsInv /\ TodoInv /\ JsonInv /\ RefsInv
  BY DEF Inv
<1>1. PICK mov, m, dups, e, entry :
         /\ m = map[f.s] /\ dups = Found(m, mov)
         /\ e = [f EXCEPT !.open = TRUE,
                          !.todo = {k \in Keys \ dups : m[k] \notin {Null, Unknown}}]
         /\ entry = [items |-> NoElements, dups |-> NamedByKey(m, dups)]
         /\ Running(f, "serialize") /\ ~f.open
         /\ stack' = Append(Front(stack), e)
         /\ json' = Bind(json, f.p, entry)
         /\ refs' = [x \in Objs |-> refs[x] + CopyCounted(f.s, x) - Held(f.s, dups, x)]
         /\ moved' = IF mov = {} THEN moved ELSE moved \cup {f.p}
         /\ phase' = phase /\ map' = map /\ made' = made /\ leaf' = leaf /\ counted' = counted
  <2>1. PICK mov \in SUBSET Growing(map[f.s]) :
          LET m    == map[f.s]
              dups == Found(m, mov)
          IN  /\ Running(f, "serialize") /\ ~f.open
              /\ stack' = Append(Front(stack),
                   [f EXCEPT !.open = TRUE,
                             !.todo = {k \in Keys \ dups : m[k] \notin {Null, Unknown}}])
              /\ json' = Bind(json, f.p, [items |-> NoElements, dups |-> NamedByKey(m, dups)])
              /\ refs' = [x \in Objs |-> refs[x] + CopyCounted(f.s, x) - Held(f.s, dups, x)]
              /\ moved' = IF mov = {} THEN moved ELSE moved \cup {f.p}
              /\ phase' = phase /\ map' = map /\ made' = made /\ leaf' = leaf
              /\ counted' = counted
    BY DEF Strip
  <2>. QED  BY ONLY <2>1
<1>2. Top(f) /\ phase = "serialize"
  BY <1>1 DEF Running, Top
<1>3. /\ Len(stack) \in Nat /\ Len(stack) > 0 /\ DOMAIN stack = 1 .. Len(stack)
      /\ f \in Frame /\ f.p \in Seq(Keys) /\ f.s = At(f.p) /\ f.s \in Structs
  BY <1>0, <1>2, InnermostIs
<1>4. /\ e \in Frame /\ e.p = f.p /\ e.s = f.s /\ e.open
      /\ e.todo = {k \in Keys \ dups : m[k] \notin {Null, Unknown}}
  <2>1. e.p = f.p /\ e.s = f.s /\ e.open /\ e.todo = {k \in Keys \ dups : m[k] \notin {Null, Unknown}}
    BY <1>1, <1>3 DEF Frame
  <2>2. e \in Frame
    BY <1>1, <1>3 DEF Frame
  <2>. QED  BY <2>1, <2>2
<1>5. GoesOn(f, e) /\ Moves(f, e, 0, e)
  BY <1>1, <1>2, <1>4 DEF GoesOn, Moves
<1>6. /\ dups \subseteq Repeats(m) /\ Repeats(m) \subseteq Keys /\ dups \subseteq Keys
      /\ mov = {} => dups = Repeats(m)
      /\ NamedByKey(m, dups) \in [dups -> Keys]
  BY <1>1, FoundIs
<1>7. /\ entry.items = NoElements /\ entry.dups = NamedByKey(m, dups) /\ DOMAIN entry.dups = dups
      /\ \A k \in Keys : entry.items[k] = Null
  <2>1. entry.items = NoElements /\ entry.dups = NamedByKey(m, dups)
    BY <1>1
  <2>. QED  BY <2>1 DEF NoElements, NamedByKey
<1>8. /\ DOMAIN json' = DOMAIN json \cup {f.p} /\ json'[f.p] = entry
      /\ \A p \in DOMAIN json : p # f.p => json'[p] = json[p]
  <2>1. json' = Bind(json, f.p, entry)
    BY <1>1
  <2>2. /\ DOMAIN json' = DOMAIN json \cup {f.p} /\ json'[f.p] = entry
        /\ \A p \in DOMAIN json : p # f.p => json'[p] = json[p]
    BY <2>1 DEF Bind
  <2>. QED  BY <2>2
<1>9. moved \subseteq moved' /\ (f.p \notin moved' => mov = {})
  BY <1>1
<1>10. \A p : At(p)' = At(p)
  BY <1>1, AtKept
<1>11. Grown /\ OthersKept(f)
  BY <1>1, <1>2, <1>8, <1>9 DEF Grown, OthersKept
<1>12. ASSUME NEW x \in Objs
       PROVE  /\ refs'[x] = refs[x] + Held(f.s, Keys, x) + Held(f.s, Keys \ dups, x)
              /\ Held(f.s, Keys, x) \in Nat /\ Held(f.s, Keys \ dups, x) \in Nat /\ refs[x] \in Nat
  <2>1. PICK a, b, c : a = Held(f.s, Keys, x) /\ b = Held(f.s, dups, x) /\ c = Held(f.s, Keys \ dups, x)
    OBVIOUS
  <2>2. a \in Nat /\ b \in Nat /\ c \in Nat /\ a = b + c
    <3>1. Keys \in SUBSET Keys /\ dups \in SUBSET Keys /\ (Keys \ dups) \in SUBSET Keys
      BY <1>6
    <3>. QED  BY <2>1, <3>1, HeldIs
  <2>3. refs'[x] = refs[x] + 2 * a - b
    BY <1>1, <2>1 DEF CopyCounted
  <2>4. refs[x] \in Nat
    BY <1>0 DEF DataInv
  <2>. QED  BY <2>1, <2>2, <2>3, <2>4
<1>13. refs' \in [Objs -> Nat]
  <2>1. \A x \in Objs : refs'[x] \in Nat
    BY <1>12
  <2>2. refs' = [x \in Objs |-> refs'[x]]
    BY <1>1
  <2>. QED  BY <2>1, <2>2
<1>14. DataInv'
  <2>1. entry \in Entry
    <3>1. NoElements \in [Keys -> Values \cup {"struct"}]
      BY DEF NoElements, Values
    <3>2. NamedByKey(m, dups) \in UNION {[K -> Keys] : K \in SUBSET Keys}
      BY <1>6
    <3>. QED  BY <1>1, <3>1, <3>2 DEF Entry
  <2>2. DOMAIN json' \subseteq Seq(Keys) /\ json' \in [DOMAIN json' -> Entry]
    <3>1. \A p \in DOMAIN json' : json'[p] \in Entry
      BY <1>0, <1>8, <2>1 DEF DataInv
    <3>2. json' = [p \in DOMAIN json' |-> json'[p]]
      BY <1>1 DEF Bind
    <3>3. DOMAIN json' \subseteq Seq(Keys)
      BY <1>0, <1>3, <1>8 DEF DataInv
    <3>. QED  BY <3>1, <3>2, <3>3
  <2>3. stack' \in Seq(Frame)
    BY <1>0, <1>5, StackThen
  <2>. QED  BY <1>0, <1>1, <1>13, <2>2, <2>3 DEF DataInv
<1>15. PhaseInv'
  <2>1. stack' # <<>>
    <3>1. DOMAIN stack' = 1 .. Len(stack)
      BY <1>0, <1>5, StackThen
    <3>. QED  BY <1>3, <3>1, NotEmpty
  <2>. QED  BY <1>0, <1>1, <1>2, <2>1 DEF PhaseInv
<1>16. CallsInv'
  BY <1>0, <1>4, <1>5, <1>8, <1>11, CallsReplaced
<1>17. TodoInv'
  <2>1. TodoOK(e)'
    BY <1>1, <1>2, <1>4, <1>7, <1>8 DEF TodoOK
  <2>. QED  BY <1>0, <1>5, <1>11, <2>1, TodosThen
<1>18. JsonInv'
  <2>1. ASSUME NEW p \in DOMAIN json, p # f.p
        PROVE  At(p)' \in Structs /\ DupsOK(p)' /\ \A k \in Keys : ItemOK(p, k)'
    <3>1. At(p) \in Structs /\ DupsOK(p) /\ \A k \in Keys : ItemOK(p, k)
      BY <1>0 DEF JsonInv
    <3>2. json'[p] = json[p]
      BY <1>8, <2>1
    <3>3. DupsOK(p)'
      BY <1>1, <1>9, <3>1, <3>2, DupsKept
    <3>4. ASSUME NEW k \in Keys  PROVE ItemOK(p, k)'
      <4>1. Writing(p, k) => Writing(p, k)'
        BY <1>0, <1>1, <1>5, <1>8, <2>1, WritingThen
      <4>2. Begun(Append(p, k)) => Begun(Append(p, k))'
        <5>1. CASE Append(p, k) = f.p
          <6>1. f.p \in DOMAIN json'
            BY <1>8
          <6>. QED  BY <5>1, <6>1 DEF Begun
        <5>2. CASE Append(p, k) # f.p
          BY <1>0, <1>1, <1>5, <1>8, <5>2, WritingThen
        <5>. QED  BY <5>1, <5>2
      <4>. QED  BY <1>1, <3>1, <3>2, <4>1, <4>2, ItemKept
    <3>. QED  BY <1>10, <3>1, <3>3, <3>4
  <2>2. At(f.p)' = f.s /\ map'[f.s] = m
    BY <1>1, <1>3, <1>10
  <2>3. DupsOK(f.p)'
    <3>1. NamedByKey(m, dups) = NamedByKey(m, DOMAIN entry.dups)
      BY <1>7
    <3>. QED  BY <1>6, <1>7, <1>8, <1>9, <2>2, <3>1 DEF DupsOK
  <2>4. ASSUME NEW k \in Keys  PROVE ItemOK(f.p, k)'
    <3>1. json'[f.p].items[k] = Null /\ DOMAIN json'[f.p].dups = dups
      BY <1>7, <1>8
    <3>2. CASE k \in dups \/ m[k] \in {Null, Unknown}
      BY <2>2, <3>1, <3>2 DEF ItemOK
    <3>3. CASE k \notin dups /\ m[k] \notin {Null, Unknown}
      <4>1. stack'[Len(stack)] = e /\ Len(stack) \in DOMAIN stack'
        <5>1. stack'[Len(stack)] = e /\ DOMAIN stack' = 1 .. Len(stack)
          BY <1>0, <1>5, StackThen
        <5>. QED  BY <1>3, <5>1
      <4>2. Writing(f.p, k)'
        BY <1>1, <1>2, <1>4, <3>3, <4>1 DEF Writing
      <4>. QED  BY <3>1, <4>2 DEF ItemOK
    <3>. QED  BY <3>2, <3>3
  <2>5. At(f.p)' \in Structs
    BY <1>3, <2>2
  <2>. QED  BY <1>8, <2>1, <2>3, <2>4, <2>5 DEF JsonInv
<1>19. MadeInv' /\ UnplacedInv' /\ CountedInv'
  BY <1>0, <1>1, <1>2, NothingMade DEF PhaseInv
<1>20. RefsInv'
  <2>1. ASSUME NEW x \in Objs  PROVE refs'[x] + Owes(f, x) >= refs[x] + Owes(e, x)'
    <3>1. Owes(f, x) = 0
      BY <1>1 DEF Owes
    <3>2. Owes(e, x)' = Held(f.s, Keys \ dups, x)
      <4>1. DOMAIN json'[e.p].dups = dups /\ e.open /\ e.s = f.s /\ phase' = "serialize"
        BY <1>1, <1>2, <1>4, <1>7, <1>8
      <4>2. Owes(e, x)' = Held(f.s, Keys \ dups, x)'
        BY <4>1 DEF Owes, Held
      <4>. QED  BY <1>1, <4>2 DEF Held
    <3>3. PICK a, b, c, d : a = Held(f.s, Keys, x) /\ b = Held(f.s, Keys \ dups, x)
                            /\ c = refs[x] /\ d = refs'[x]
      OBVIOUS
    <3>4. a \in Nat /\ b \in Nat /\ c \in Nat /\ d = c + a + b
      BY <1>12, <3>3
    <3>5. d + 0 >= c + b
      BY ONLY <3>4
    <3>. QED  BY <3>1, <3>2, <3>3, <3>5
  <2>. QED  BY <1>0, <1>5, <1>11, <1>13, <2>1, RefsThen
<1>. QED  BY <1>14, <1>15, <1>16, <1>17, <1>18, <1>19, <1>20 DEF Inv

\* The next key of a call, and the call when it goes on.
LEMMA NextKeyIs ==
  ASSUME NEW f \in Frame, f.todo # {}, NEW k, k = FirstKey(f.todo),
         NEW g, g = [f EXCEPT !.todo = @ \ {k}]
  PROVE  /\ k \in f.todo /\ k \in Keys
         /\ g \in Frame /\ g.p = f.p /\ g.s = f.s /\ g.open = f.open /\ g.todo = f.todo \ {k}
         /\ \A j \in g.todo : Pos(k) < Pos(j)
<1>1. f.todo \in SUBSET Keys
  BY DEF Frame
<1>2. k \in f.todo /\ \A j \in f.todo : Pos(k) <= Pos(j)
  BY <1>1, FirstKeyIs
<1>3. g \in Frame /\ g.p = f.p /\ g.s = f.s /\ g.open = f.open /\ g.todo = f.todo \ {k}
  BY DEF Frame
<1>4. ASSUME NEW j \in g.todo  PROVE Pos(k) < Pos(j)
  <2>1. j \in f.todo /\ j # k /\ j \in Keys /\ k \in Keys
    BY <1>1, <1>2, <1>3
  <2>2. Pos(k) <= Pos(j) /\ Pos(k) # Pos(j) /\ Pos(k) \in Nat /\ Pos(j) \in Nat
    BY <1>2, <2>1, PosIs
  <2>. QED  BY <2>2
<1>. QED  BY <1>1, <1>2, <1>3, <1>4

\* An element is written.
LEMMA WriteStep ==
  ASSUME Inv, NEW f, Write(f)
  PROVE  Inv'
<1>0. DataInv /\ PhaseInv /\ CallsInv /\ TodoInv /\ JsonInv /\ RefsInv
  BY DEF Inv
<1>1. PICK k, v, g, h :
         /\ k = FirstKey(f.todo) /\ v = map[f.s][k] /\ g = [f EXCEPT !.todo = @ \ {k}]
         /\ h = Call(Append(f.p, k), v, {})
         /\ Running(f, "serialize") /\ f.open /\ f.todo # {}
         /\ json' = [json EXCEPT ![f.p].items[k] = Item(v)]
         /\ stack' = Front(stack) \o IF v \in Structs THEN <<g, h>> ELSE <<g>>
         /\ phase' = phase /\ map' = map /\ refs' = refs /\ made' = made /\ leaf' = leaf
         /\ counted' = counted /\ moved' = moved
  BY DEF Write, Item
<1>2. Top(f) /\ phase = "serialize"
  BY <1>1 DEF Running, Top
<1>3. /\ Len(stack) \in Nat /\ Len(stack) > 0 /\ DOMAIN stack = 1 .. Len(stack)
      /\ f = stack[Len(stack)] /\ Len(stack) \in DOMAIN stack
      /\ f \in Frame /\ f.p \in Seq(Keys) /\ f.s = At(f.p) /\ f.s \in Structs
  <2>1. /\ Len(stack) \in Nat /\ Len(stack) > 0 /\ DOMAIN stack = 1 .. Len(stack)
        /\ f = stack[Len(stack)]
        /\ f \in Frame /\ f.p \in Seq(Keys) /\ f.s = At(f.p) /\ f.s \in Structs
    BY <1>0, <1>2, InnermostIs
  <2>. QED  BY <2>1
<1>4. /\ k \in f.todo /\ k \in Keys
      /\ g \in Frame /\ g.p = f.p /\ g.s = f.s /\ g.open = f.open /\ g.todo = f.todo \ {k}
  <2>1. f \in Frame /\ f.todo # {} /\ k = FirstKey(f.todo) /\ g = [f EXCEPT !.todo = @ \ {k}]
    BY <1>1, <1>3
  <2>. QED  BY ONLY <2>1, NextKeyIs
<1>5. f.p \in DOMAIN json /\ k \notin DOMAIN json[f.p].dups /\ v \notin {Null, Unknown} /\ TodoOK(f)
  <2>1. TodoOK(f) /\ CallOK(Len(stack))
    BY <1>0, <1>3 DEF TodoInv, CallsInv
  <2>2. f.p \in DOMAIN json
    BY <1>1, <1>2, <1>3, <2>1 DEF CallOK
  <2>. QED  BY <1>1, <1>2, <1>4, <2>1, <2>2 DEF TodoOK
<1>6. /\ DOMAIN json' = DOMAIN json /\ \A p \in DOMAIN json : p # f.p => json'[p] = json[p]
      /\ json'[f.p].dups = json[f.p].dups
      /\ json'[f.p].items[k] = Item(v)
      /\ \A j \in Keys : j # k => json'[f.p].items[j] = json[f.p].items[j]
      /\ json'[f.p] \in Entry
  <2>1. json[f.p] \in Entry
    BY <1>0, <1>5 DEF DataInv
  <2>2. v \in Values
    BY <1>0, <1>1, <1>3, <1>4 DEF DataInv
  <2>3. Item(v) \in Values \cup {"struct"}
    BY <2>2 DEF Item
  <2>4. PICK E : E = json[f.p]
    OBVIOUS
  <2>5. json'[f.p] = [E EXCEPT !.items[k] = Item(v)]
    BY <1>1, <1>5, <2>4
  <2>6. E.items \in [Keys -> Values \cup {"struct"}] /\ E \in Entry
    BY <2>1, <2>4 DEF Entry
  <2>7. /\ json'[f.p].dups = E.dups /\ json'[f.p].items[k] = Item(v)
        /\ \A j \in Keys : j # k => json'[f.p].items[j] = E.items[j]
        /\ json'[f.p] \in Entry
    BY <1>4, <2>3, <2>5, <2>6 DEF Entry
  <2>8. DOMAIN json' = DOMAIN json /\ \A p \in DOMAIN json : p # f.p => json'[p] = json[p]
    BY <1>1
  <2>. QED  BY <2>4, <2>7, <2>8
<1>7. v \in Structs =>
        /\ h \in Frame /\ h.p = Append(f.p, k) /\ h.s = v /\ h.todo = {} /\ ~h.open
        /\ Enters(f, g, k, h) /\ Stands(f.p, k, k)
  <2>. SUFFICES ASSUME v \in Structs
                PROVE  /\ h \in Frame /\ h.p = Append(f.p, k) /\ h.s = v /\ h.todo = {} /\ ~h.open
                       /\ Enters(f, g, k, h) /\ Stands(f.p, k, k)
    OBVIOUS
  <2>1. Append(f.p, k) \in Seq(Keys)
    BY <1>3, <1>4, PathsDiffer
  <2>2. h \in Frame /\ h.p = Append(f.p, k) /\ h.s = v /\ h.todo = {} /\ ~h.open
    <3>1. h = Call(Append(f.p, k), v, {}) /\ {} \in SUBSET Keys
      BY <1>1
    <3>2. \A q \in Seq(Keys) : LET c == Call(q, v, {})
                               IN  c \in Frame /\ c.p = q /\ c.s = v /\ c.todo = {} /\ ~c.open
      BY <3>1, CallIs
    <3>. QED  BY ONLY <2>1, <3>1, <3>2
  <2>3. Enters(f, g, k, h)
    BY <1>1, <1>2, <1>4, <2>2 DEF Enters
  <2>4. v \in Objs /\ v = map[At(f.p)][k]
    BY <1>1, <1>3 DEF Objs
  <2>5. Stands(f.p, k, k)
    BY <1>0, <1>4, <1>5, <2>4, FreshKey
  <2>. QED  BY <2>2, <2>3, <2>5
<1>8. v \notin Structs => GoesOn(f, g)
  <2>1. Front(stack) \in Seq(Frame)
    BY <1>0, <1>2, TopIs DEF DataInv, Top
  <2>2. Front(stack) \o <<g>> = Append(Front(stack), g)
    BY <1>4, <2>1, AppendIsConcat
  <2>. QED  BY <1>1, <1>2, <1>4, <2>2 DEF GoesOn
<1>9. Moves(f, g, k, h)
  BY <1>7, <1>8 DEF Moves
<1>10. Grown /\ OthersKept(f)
  BY <1>1, <1>2, <1>6 DEF Grown, OthersKept
<1>11. TodoOK(g)'
  <2>1. \A j \in f.todo : j \notin DOMAIN json[f.p].dups /\ map[f.s][j] \notin {Null, Unknown}
    BY <1>1, <1>2, <1>5 DEF TodoOK
  <2>2. \A j \in g.todo : j \notin DOMAIN json'[g.p].dups /\ map'[g.s][j] \notin {Null, Unknown}
    BY <1>1, <1>4, <1>6, <2>1
  <2>. QED  BY <1>1, <1>2, <2>2 DEF TodoOK
<1>12. DataInv'
  <2>1. json' \in [DOMAIN json' -> Entry]
    <3>1. \A p \in DOMAIN json' : json'[p] \in Entry
      BY <1>0, <1>6 DEF DataInv
    <3>2. json' = [p \in DOMAIN json' |-> json'[p]]
      BY <1>1
    <3>. QED  BY <3>1, <3>2
  <2>2. stack' \in Seq(Frame)
    BY <1>0, <1>9, StackThen DEF Moves
  <2>. QED  BY <1>0, <1>1, <1>6, <2>1, <2>2 DEF DataInv
<1>13. PhaseInv'
  <2>1. stack' # <<>>
    <3>1. DOMAIN stack' = 1 .. Len(stack) \/ DOMAIN stack' = 1 .. Len(stack) + 1
      BY <1>0, <1>7, <1>8, StackThen
    <3>. QED  BY <1>3, <3>1, NotEmpty
  <2>. QED  BY <1>0, <1>1, <1>2, <2>1 DEF PhaseInv
<1>14. CallsInv'
  <2>1. CASE v \in Structs
    BY <1>0, <1>1, <1>2, <1>4, <1>5, <1>7, <1>10, <2>1, CallsPushed
  <2>2. CASE v \notin Structs
    BY <1>0, <1>1, <1>4, <1>5, <1>6, <1>8, <1>10, <2>2, CallsReplaced
  <2>. QED  BY <2>1, <2>2
<1>15. TodoInv'
  <2>1. CASE v \in Structs
    <3>1. TodoOK(h)'
      BY <1>1, <1>2, <1>7, <2>1 DEF TodoOK
    <3>. QED  BY <1>0, <1>7, <1>10, <1>11, <2>1, <3>1, TodosThen
  <2>2. CASE v \notin Structs
    BY <1>0, <1>8, <1>10, <1>11, <2>2, TodosThen
  <2>. QED  BY <2>1, <2>2
<1>16. JsonInv'
  <2>0. \A p : At(p)' = At(p)
    BY <1>1, AtKept
  <2>1. stack'[Len(stack)] = g /\ Len(stack) \in DOMAIN stack'
    <3>1. /\ stack'[Len(stack)] = g
          /\ DOMAIN stack' = 1 .. Len(stack) \/ DOMAIN stack' = 1 .. Len(stack) + 1
      BY <1>0, <1>7, <1>8, StackThen
    <3>. QED  BY <1>3, <3>1
  <2>2. ASSUME NEW p  PROVE Begun(p) => Begun(p)'
    <3>1. CASE p = f.p
      BY <1>5, <1>6, <3>1 DEF Begun
    <3>2. CASE p # f.p
      BY <1>0, <1>1, <1>6, <1>9, <3>2, WritingThen
    <3>. QED  BY <3>1, <3>2
  <2>3. ASSUME NEW p, NEW j, p # f.p \/ j # k  PROVE Writing(p, j) => Writing(p, j)'
    <3>1. CASE p = f.p
      <4>1. Writing(p, j) => j \in g.todo
        BY <1>0, <1>2, <1>4, <2>3, <3>1, WritingIs
      <4>2. g.p = p /\ g.open /\ phase' = "serialize"
        BY <1>1, <1>2, <1>4, <3>1
      <4>3. j \in g.todo => Writing(p, j)'
        BY <2>1, <4>2 DEF Writing
      <4>. QED  BY <4>1, <4>3
    <3>2. CASE p # f.p
      BY <1>0, <1>1, <1>6, <1>9, <3>2, WritingThen
    <3>. QED  BY <3>1, <3>2
  <2>4. ASSUME NEW p \in DOMAIN json
        PROVE  At(p)' \in Structs /\ DupsOK(p)'
    <3>1. At(p) \in Structs /\ DupsOK(p)
      BY <1>0 DEF JsonInv
    <3>2. json'[p].dups = json[p].dups
      BY <1>6
    <3>. QED  BY <1>1, <2>0, <3>1, <3>2, DupsKept
  <2>5. ASSUME NEW p \in DOMAIN json, NEW j \in Keys, p # f.p \/ j # k
        PROVE  ItemOK(p, j)'
    <3>1. ItemOK(p, j)
      BY <1>0 DEF JsonInv
    <3>2. json'[p].dups = json[p].dups /\ json'[p].items[j] = json[p].items[j]
      BY <1>6, <2>5
    <3>. QED  BY <1>1, <2>2, <2>3, <2>5, <3>1, <3>2, ItemKept
  <2>6. ItemOK(f.p, k)'
    <3>1. At(f.p)' = f.s /\ map'[f.s][k] = v
      BY <1>1, <1>3, <2>0
    <3>2. v \in Structs => Begun(Append(f.p, k))'
      <4>1. v \in Structs => stack'[Len(stack) + 1] = h /\ Len(stack) + 1 \in DOMAIN stack'
        <5>1. v \in Structs => stack'[Len(stack) + 1] = h /\ DOMAIN stack' = 1 .. Len(stack) + 1
          BY <1>0, <1>7, StackThen
        <5>. QED  BY <1>3, <5>1
      <4>. QED  BY <1>1, <1>2, <1>7, <4>1 DEF Begun
    <3>3. k \notin DOMAIN json'[f.p].dups /\ json'[f.p].items[k] = Item(v)
      BY <1>5, <1>6
    <3>4. Item(v)' = Item(v)
      BY DEF Item
    <3>. QED  BY <1>5, <3>1, <3>2, <3>3, <3>4 DEF ItemOK
  <2>. QED  BY <1>6, <2>4, <2>5, <2>6 DEF JsonInv
<1>17. MadeInv' /\ UnplacedInv' /\ CountedInv'
  BY <1>0, <1>1, <1>2, NothingMade DEF PhaseInv
<1>18. RefsInv'
  <2>1. refs' \in [Objs -> Nat]
    BY <1>0, <1>1 DEF DataInv
  <2>2. ASSUME NEW x \in Objs  PROVE refs'[x] + Owes(f, x) >= refs[x] + Owes(g, x)'
    <3>1. Owes(g, x)' = Owes(f, x)
      <4>1. DOMAIN json'[g.p].dups = DOMAIN json[f.p].dups /\ g.s = f.s /\ g.open = f.open
        BY <1>4, <1>6
      <4>. QED  BY <1>1, <4>1 DEF Owes, Held
    <3>2. Owes(f, x) \in Nat /\ refs[x] \in Nat
      BY <1>0, OwesIs DEF DataInv
    <3>. QED  BY <1>1, <3>1, <3>2
  <2>3. CASE v \in Structs
    <3>1. \A x \in Objs : Owes(h, x)' = 0
      BY <1>7, <2>3 DEF Owes
    <3>. QED  BY <1>0, <1>7, <1>10, <2>1, <2>2, <2>3, <3>1, RefsThen
  <2>4. CASE v \notin Structs
    BY <1>0, <1>8, <1>10, <2>1, <2>2, <2>4, RefsThen
  <2>. QED  BY <2>3, <2>4
<1>. QED  BY <1>12, <1>13, <1>14, <1>15, <1>16, <1>17, <1>18 DEF Inv

\* What is neither a path nor a value of its own.
LEMMA NullIs ==
  /\ Null \notin Objs /\ Unknown \notin Objs /\ Null # "struct"
  /\ Null \notin Seq(Keys) /\ Unknown \notin Seq(Keys)
  /\ \A v \in Objs \cup Scalars \cup {Unknown, Null} : v \notin Seq(Keys) /\ v # "struct"
  BY SerialAssumption

\* The elements of a new struct: none yet, and a call goes through all of them.
AllTodo(i, q) ==
  \/ phase = "parse" /\ q \in DOMAIN json /\ JsonInv /\ stack[i].todo = Items(q)
  \/ phase = "copy" /\ stack[i].todo = Elements(At(q))

\* Every key of a new struct is either Null for good or still to be set.
LEMMA NewStruct ==
  ASSUME NEW i \in DOMAIN stack', NEW q, stack'[i].p = q, made'[q] = NoElements,
         AllTodo(i, q)', NEW k \in Keys
  PROVE  made'[q][k] = Null /\ (Final(q, k)' \/ Awaited(q, k)')
<1>1. made'[q][k] = Null
  BY DEF NoElements
<1>2. PICK v : v = map'[At(q)'][k]
  OBVIOUS
<1>3. v \in {Null, Unknown} => Final(q, k)'
  BY <1>1, <1>2, NullIs DEF Final, Settled
<1>4. k \in stack'[i].todo => Awaited(q, k)'
  BY DEF Awaited
<1>5. CASE phase' = "parse" /\ q \in DOMAIN json' /\ JsonInv' /\ stack'[i].todo = Items(q)'
  <2>1. ItemOK(q, k)'
    BY <1>5 DEF JsonInv
  <2>2. CASE k \in DOMAIN json'[q].dups
    BY <1>1, <1>5, <2>2 DEF Awaited
  <2>3. CASE k \notin DOMAIN json'[q].dups /\ v \notin {Null, Unknown}
    <3>1. ~Writing(q, k)'
      BY <1>5 DEF Writing
    <3>2. json'[q].items[k] = Item(v)'
      BY <1>2, <2>1, <2>3, <3>1 DEF ItemOK
    <3>3. Item(v)' # Null
      BY <2>3, NullIs DEF Item
    <3>4. k \in stack'[i].todo
      BY <1>5, <3>2, <3>3 DEF Items
    <3>. QED  BY <1>1, <1>4, <3>4
  <2>. QED  BY <1>1, <1>3, <2>2, <2>3
<1>6. CASE phase' = "copy" /\ stack'[i].todo = Elements(At(q))'
  <2>1. v # Null => k \in stack'[i].todo
    BY <1>2, <1>6 DEF Elements
  <2>. QED  BY <1>1, <1>3, <1>4, <2>1
<1>. QED  BY <1>5, <1>6 DEF AllTodo

\* The first struct is made.
LEMMA FirstMade ==
  ASSUME map' = map, DOMAIN made' = {<<>>}, made'[<<>>] = NoElements,
         DOMAIN leaf' = {}, DOMAIN counted' = {},
         DOMAIN stack' = {1}, stack'[1].p = <<>>, AllTodo(1, <<>>)'
  PROVE  MadeInv' /\ UnplacedInv' /\ CountedInv'
<1>1. At(<<>>)' = Root /\ Root \in Structs
  BY AtRoot, AtKept, SerialAssumption
<1>2. \A k \in Keys : made'[<<>>][k] = Null
  BY DEF NoElements
<1>3. \A k \in Keys : Final(<<>>, k)' \/ Awaited(<<>>, k)'
  BY NewStruct
<1>4. MadeInv'
  BY <1>1, <1>2, <1>3 DEF MadeInv
<1>5. UnplacedInv'
  <2>1. ASSUME NEW j \in Keys, NEW k \in Keys  PROVE made'[<<>>][j] # Append(<<>>, k)
    <3>1. Append(<<>>, k) \in Seq(Keys)
      BY AtRoot, PathsDiffer
    <3>. QED  BY <1>2, <3>1, NullIs
  <2>. QED  BY <2>1 DEF UnplacedInv
<1>6. CountedInv'
  BY <1>2, NullIs DEF CountedInv, Counts
<1>. QED  BY <1>4, <1>5, <1>6

\* A struct is written; after the first one the reader starts.
LEMMA WrittenStep ==
  ASSUME Inv, NEW f, Written(f)
  PROVE  Inv'
<1>0. DataInv /\ PhaseInv /\ CallsInv /\ TodoInv /\ JsonInv /\ RefsInv
  BY DEF Inv
<1>1. PICK rest :
         /\ rest = Keys \ DOMAIN json[f.p].dups
         /\ Running(f, "serialize") /\ f.open /\ f.todo = {}
         /\ refs' = [x \in Objs |-> refs[x] - Held(f.s, rest, x)]
         /\ \/ Len(stack) > 1 /\ stack' = Front(stack) /\ phase' = phase /\ made' = made
            \/ /\ ~(Len(stack) > 1) /\ phase' = "parse"
               /\ stack' = <<Call(<<>>, Root, Items(<<>>))>>
               /\ made' = Bind(<<>>, <<>>, NoElements)
         /\ map' = map /\ json' = json /\ leaf' = leaf /\ counted' = counted /\ moved' = moved
  BY DEF Written
<1>2. Top(f) /\ phase = "serialize"
  BY <1>1 DEF Running, Top
<1>3. /\ Len(stack) \in Nat /\ Len(stack) > 0 /\ DOMAIN stack = 1 .. Len(stack)
      /\ f = stack[Len(stack)]
      /\ f \in Frame /\ f.p \in Seq(Keys) /\ Len(f.p) = Len(stack) - 1
  BY <1>0, <1>2, InnermostIs
<1>4. ASSUME NEW x \in Objs
      PROVE  refs'[x] \in Nat /\ refs'[x] + Owes(f, x) = refs[x] /\ refs'[x] >= Cardinality(Places(x))
  <2>1. PICK a, b, c, d : a = refs'[x] /\ b = Owes(f, x) /\ c = refs[x] /\ d = Cardinality(Places(x))
    OBVIOUS
  <2>2. b = Held(f.s, rest, x)
    BY <1>1, <1>2, <2>1 DEF Owes
  <2>3. b \in Nat /\ c \in Nat /\ d \in Nat /\ c >= d + b
    BY <1>0, <1>2, <2>1, OwesIs, PlacesIs, OwesBelow DEF DataInv
  <2>4. a = c - b
    BY <1>1, <2>1, <2>2
  <2>5. a \in Nat /\ a + b = c /\ a >= d
    BY ONLY <2>3, <2>4
  <2>. QED  BY <2>1, <2>5
<1>5. refs' \in [Objs -> Nat]
  <2>1. refs' = [x \in Objs |-> refs'[x]]
    BY <1>1
  <2>. QED  BY <1>4, <2>1
<1>6. \A k : ~Writing(f.p, k)
  BY <1>0, <1>1, <1>2, WritingIs
<1>7. Begun(f.p) => f.p \in DOMAIN json
  BY <1>0, <1>1, <1>2, WritingIs
<1>8. CASE Len(stack) > 1 /\ stack' = Front(stack) /\ phase' = phase /\ made' = made
  <2>1. Returns(f) /\ Moves(f, f, f, f)
    BY <1>2, <1>8 DEF Returns, Moves
  <2>2. Grown /\ OthersKept(f)
    BY <1>1, <1>2, <1>8 DEF Grown, OthersKept
  <2>3. DOMAIN stack' = 1 .. Len(stack) - 1 /\ stack' \in Seq(Frame)
    BY <1>0, <2>1, StackThen
  <2>4. DataInv'
    BY <1>0, <1>1, <1>5, <1>8, <2>3 DEF DataInv
  <2>5. PhaseInv'
    <3>1. Len(stack) - 1 \in Nat /\ Len(stack) - 1 > 0
      <4>1. PICK n : n = Len(stack)
        OBVIOUS
      <4>2. n \in Nat /\ n > 1
        BY <1>3, <1>8, <4>1
      <4>3. n - 1 \in Nat /\ n - 1 > 0
        BY ONLY <4>2
      <4>. QED  BY <4>1, <4>3
    <3>2. stack' # <<>>
      BY <2>3, <3>1, NotEmpty
    <3>. QED  BY <1>0, <1>1, <1>2, <1>8, <3>2 DEF PhaseInv
  <2>6. CallsInv'
    BY <1>0, <2>1, <2>2, CallsPopped
  <2>7. TodoInv'
    BY <1>0, <2>1, <2>2, TodosThen
  <2>8. JsonInv'
    <3>1. ASSUME NEW p \in DOMAIN json  PROVE At(p)' \in Structs /\ DupsOK(p)'
      <4>1. At(p) \in Structs /\ DupsOK(p)
        BY <1>0 DEF JsonInv
      <4>. QED  BY <1>1, <4>1, AtKept, DupsKept
    <3>2. ASSUME NEW p  PROVE (\A k : Writing(p, k) => Writing(p, k)') /\ (Begun(p) => Begun(p)')
      <4>1. CASE p = f.p
        <5>1. f.p \in DOMAIN json => Begun(f.p)'
          BY <1>1 DEF Begun
        <5>. QED  BY <1>6, <1>7, <4>1, <5>1
      <4>2. CASE p # f.p
        BY <1>0, <1>1, <1>8, <2>1, <4>2, WritingThen
      <4>. QED  BY <4>1, <4>2
    <3>3. ASSUME NEW p \in DOMAIN json, NEW k \in Keys  PROVE ItemOK(p, k)'
      <4>1. ItemOK(p, k)
        BY <1>0 DEF JsonInv
      <4>2. json'[p].dups = json[p].dups /\ json'[p].items[k] = json[p].items[k]
        BY <1>1
      <4>. QED  BY <1>1, <3>2, <4>1, <4>2, ItemKept
    <3>. QED  BY <1>1, <3>1, <3>3 DEF JsonInv
  <2>9. MadeInv' /\ UnplacedInv' /\ CountedInv'
    BY <1>0, <1>1, <1>2, <1>8, NothingMade DEF PhaseInv
  <2>10. RefsInv'
    <3>1. \A x \in Objs : refs'[x] + Owes(f, x) >= refs[x]
      <4>1. ASSUME NEW x \in Objs  PROVE refs'[x] + Owes(f, x) >= refs[x]
        <5>1. refs'[x] + Owes(f, x) = refs[x] /\ refs[x] \in Nat
          BY <1>0, <1>4 DEF DataInv
        <5>. QED  BY <5>1
      <4>. QED  BY <4>1
    <3>. QED  BY <1>0, <1>5, <2>1, <2>2, <3>1, RefsThen
  <2>. QED  BY <2>4, <2>5, <2>6, <2>7, <2>8, <2>9, <2>10 DEF Inv
<1>9. CASE /\ ~(Len(stack) > 1) /\ phase' = "parse"
           /\ stack' = <<Call(<<>>, Root, Items(<<>>))>>
           /\ made' = Bind(<<>>, <<>>, NoElements)
  <2>1. Len(stack) = 1 /\ f.p = <<>> /\ \A i \in DOMAIN stack : stack[i] = f
    <3>1. Len(stack) = 1
      <4>1. PICK n : n = Len(stack)
        OBVIOUS
      <4>2. n \in Nat /\ n > 0 /\ ~(n > 1)
        BY <1>3, <1>9, <4>1
      <4>3. n = 1
        BY ONLY <4>2
      <4>. QED  BY <4>1, <4>3
    <3>2. f.p = <<>>
      BY <1>3, <3>1, EmptySeq
    <3>. QED  BY <1>3, <3>1, <3>2
  <2>2. <<>> \in DOMAIN json
    <3>1. CallOK(1) /\ stack[1] = f
      BY <1>0, <1>3, <2>1 DEF CallsInv
    <3>. QED  BY <1>1, <1>2, <2>1, <3>1 DEF CallOK
  <2>3. DOMAIN made' = {<<>>} /\ made'[<<>>] = NoElements
    <3>1. DOMAIN <<>> = {}
      <4>1. DOMAIN <<>> = 1 .. 0
        OBVIOUS
      <4>. QED  BY <4>1
    <3>2. PICK e : e = <<>>
      OBVIOUS
    <3>3. made' = [x \in {e} |-> IF x = e THEN NoElements ELSE e[x]]
      BY <1>9, <3>1, <3>2 DEF Bind
    <3>. QED  BY <3>2, <3>3
  <2>4. Items(<<>>) \in SUBSET Keys /\ Items(<<>>)' = Items(<<>>)
    BY <1>1 DEF Items
  <2>5. /\ stack' \in Seq(Frame) /\ stack' # <<>> /\ DOMAIN stack' = {1}
        /\ stack'[1].p = <<>> /\ stack'[1].s = Root /\ stack'[1].todo = Items(<<>>)
        /\ <<>> \in Seq(Keys) /\ CallsInv'
    BY <1>0, <1>1, <1>9, <2>3, <2>4, FirstCallIs
  <2>6. DataInv'
    <3>1. \A p \in DOMAIN made' : made'[p] \in [Keys -> Seq(Keys) \cup Values]
      BY <2>3 DEF NoElements, Values
    <3>2. made' = [p \in DOMAIN made' |-> made'[p]]
      BY <1>9 DEF Bind
    <3>3. IsFiniteSet(DOMAIN made')
      BY <2>3, FS_Singleton
    <3>. QED  BY <1>0, <1>1, <1>5, <1>9, <2>3, <2>5, <3>1, <3>2, <3>3 DEF DataInv
  <2>7. PhaseInv'
    BY <1>1, <1>9, <2>2, <2>3, <2>5 DEF PhaseInv
  <2>8. TodoInv'
    <3>1. TodoOK(stack[1])'
      BY <1>9, <2>4, <2>5 DEF TodoOK
    <3>. QED  BY <2>5, <3>1 DEF TodoInv
  <2>9. JsonInv'
    <3>1. ASSUME NEW p \in DOMAIN json  PROVE At(p)' \in Structs /\ DupsOK(p)'
      <4>1. At(p) \in Structs /\ DupsOK(p)
        BY <1>0 DEF JsonInv
      <4>. QED  BY <1>1, <4>1, AtKept, DupsKept
    <3>2. ASSUME NEW p  PROVE (\A k : ~Writing(p, k)) /\ (Begun(p) => Begun(p)')
      <4>1. \A k : ~Writing(p, k)
        BY <1>1, <2>1 DEF Writing
      <4>2. Begun(p) => p \in DOMAIN json
        BY <1>1, <2>1 DEF Begun
      <4>. QED  BY <1>1, <4>1, <4>2 DEF Begun
    <3>3. ASSUME NEW p \in DOMAIN json, NEW k \in Keys  PROVE ItemOK(p, k)'
      <4>1. ItemOK(p, k)
        BY <1>0 DEF JsonInv
      <4>2. json'[p].dups = json[p].dups /\ json'[p].items[k] = json[p].items[k]
        BY <1>1
      <4>. QED  BY <1>1, <3>2, <4>1, <4>2, ItemKept
    <3>. QED  BY <1>1, <3>1, <3>3 DEF JsonInv
  <2>10. MadeInv' /\ UnplacedInv' /\ CountedInv'
    <3>1. DOMAIN leaf' = {} /\ DOMAIN counted' = {}
      BY <1>0, <1>1, <1>2 DEF PhaseInv
    <3>2. AllTodo(1, <<>>)'
      BY <1>1, <1>9, <2>2, <2>4, <2>5, <2>9 DEF AllTodo
    <3>. QED  BY <1>1, <2>3, <2>5, <3>1, <3>2, FirstMade
  <2>11. RefsInv'
    BY <1>1, <1>4, <1>5, <1>9, <2>5, NothingOwed
  <2>. QED  BY <2>5, <2>6, <2>7, <2>8, <2>9, <2>10, <2>11 DEF Inv
<1>. QED  BY <1>1, <1>8, <1>9

-----------------------------------------------------------------------------
(* A new struct is made.                                                   *)

\* rpc_struct_deep_copy of the root is called.
LEMMA DeepCopyStep ==
  ASSUME Inv, DeepCopy
  PROVE  Inv'
<1>0. DataInv /\ PhaseInv /\ RefsInv /\ JsonInv
  BY DEF Inv
<1>1. /\ phase = "start" /\ phase' = "copy"
      /\ stack' = <<Call(<<>>, Root, Elements(Root))>>
      /\ made' = Bind(made, <<>>, NoElements)
      /\ map' = map /\ refs' = refs /\ json' = json /\ leaf' = leaf
      /\ counted' = counted /\ moved' = moved
  BY DEF DeepCopy
<1>2. /\ DOMAIN made = {} /\ DOMAIN leaf = {} /\ DOMAIN counted = {} /\ moved = {} /\ DOMAIN json = {}
  <2>1. /\ DOMAIN made = {} /\ DOMAIN leaf = {} /\ DOMAIN counted = {} /\ moved = {} /\ json = <<>>
    BY <1>0, <1>1 DEF PhaseInv
  <2>2. DOMAIN <<>> = 1 .. 0
    OBVIOUS
  <2>. QED  BY <2>1, <2>2
<1>3. DOMAIN made' = {<<>>} /\ made'[<<>>] = NoElements
  <2>1. PICK e : e = <<>>
    OBVIOUS
  <2>2. made' = [x \in {e} |-> IF x = e THEN NoElements ELSE made[x]]
    BY <1>1, <1>2, <2>1 DEF Bind
  <2>. QED  BY <2>1, <2>2
<1>4. /\ Elements(Root) \in SUBSET Keys /\ Elements(Root)' = Elements(Root)
      /\ At(<<>>)' = Root
  BY <1>1, AtRoot, AtKept DEF Elements
<1>5. /\ stack' \in Seq(Frame) /\ stack' # <<>> /\ DOMAIN stack' = {1}
      /\ stack'[1].p = <<>> /\ stack'[1].s = Root /\ stack'[1].todo = Elements(Root)
      /\ <<>> \in Seq(Keys) /\ CallsInv'
  BY <1>0, <1>1, <1>3, <1>4, FirstCallIs
<1>6. DataInv'
  <2>1. \A p \in DOMAIN made' : made'[p] \in [Keys -> Seq(Keys) \cup Values]
    BY <1>3 DEF NoElements, Values
  <2>2. made' = [p \in DOMAIN made' |-> made'[p]]
    BY <1>1 DEF Bind
  <2>3. IsFiniteSet(DOMAIN made')
    BY <1>3, FS_Singleton
  <2>. QED  BY <1>0, <1>1, <1>3, <1>5, <2>1, <2>2, <2>3 DEF DataInv
<1>7. PhaseInv'
  BY <1>1, <1>2, <1>3, <1>5 DEF PhaseInv
<1>8. TodoInv'
  <2>1. TodoOK(stack[1])'
    BY <1>1, <1>4, <1>5 DEF TodoOK
  <2>. QED  BY <1>5, <2>1 DEF TodoInv
<1>9. JsonInv'
  BY <1>1, <1>2 DEF JsonInv
<1>10. MadeInv' /\ UnplacedInv' /\ CountedInv'
  <2>1. AllTodo(1, <<>>)'
    <3>1. Elements(At(<<>>))' = Elements(Root)
      BY <1>1, <1>4 DEF Elements
    <3>. QED  BY <1>1, <1>5, <3>1 DEF AllTodo
  <2>. QED  BY <1>1, <1>2, <1>3, <1>5, <2>1, FirstMade
<1>11. RefsInv'
  <2>1. \A x \in Objs : refs'[x] >= Cardinality(Places(x))
    BY <1>0, <1>1, PlacesCovered
  <2>2. refs' \in [Objs -> Nat]
    BY <1>0, <1>1 DEF DataInv
  <2>. QED  BY <1>1, <1>5, <2>1, <2>2, NothingOwed
<1>. QED  BY <1>5, <1>6, <1>7, <1>8, <1>9, <1>10, <1>11 DEF Inv

\* What was written, and the counts of the original, are left alone.
LEMMA JsonStays ==
  ASSUME JsonInv, phase # "serialize", map' = map, json' = json, moved' = moved
  PROVE  JsonInv'
<1>1. ASSUME NEW p \in DOMAIN json  PROVE At(p)' \in Structs /\ DupsOK(p)'
  <2>1. At(p) \in Structs /\ DupsOK(p)
    BY DEF JsonInv
  <2>. QED  BY <2>1, AtKept, DupsKept
<1>2. ASSUME NEW p \in DOMAIN json, NEW k \in Keys  PROVE ItemOK(p, k)'
  <2>1. ItemOK(p, k)
    BY DEF JsonInv
  <2>2. json'[p].dups = json[p].dups /\ json'[p].items[k] = json[p].items[k]
    OBVIOUS
  <2>3. ~Writing(p, k) /\ (Begun(Append(p, k)) => Begun(Append(p, k))')
    BY DEF Writing, Begun
  <2>. QED  BY <2>1, <2>2, <2>3, ItemKept
<1>. QED  BY <1>1, <1>2 DEF JsonInv

\* The counts of the original are not touched by the reader and the deep copy.
LEMMA RefsStay ==
  ASSUME DataInv, RefsInv, phase' # "serialize", map' = map, refs' = refs, stack' \in Seq(Frame)
  PROVE  RefsInv'
<1>1. \A x \in Objs : refs'[x] >= Cardinality(Places(x))
  BY PlacesCovered
<1>2. refs' \in [Objs -> Nat]
  BY DEF DataInv
<1>. QED  BY <1>1, <1>2, NothingOwed

\* The calls around the innermost one, when it goes on to g, or enters h.
LEMMA OutersAre ==
  ASSUME DataInv, CallsInv, NEW f, NEW g, NEW k, NEW h, GoesOn(f, g) \/ Enters(f, g, k, h)
  PROVE  /\ \A i \in DOMAIN stack : i \in DOMAIN stack'
         /\ \A i \in 1 .. Len(stack) - 1 :
               /\ i \in DOMAIN stack /\ stack'[i] = stack[i] /\ stack[i].p # f.p
               /\ \A j : Pending(i, j)' <=> Pending(i, j)
         /\ Len(stack) \in DOMAIN stack /\ stack'[Len(stack)] = g
         /\ \A j : ~Pending(Len(stack), j)
<1>0. PICK n : n = Len(stack)
  OBVIOUS
<1>1. Top(f) /\ g.p = f.p
  BY DEF GoesOn, Enters
<1>2. /\ n \in Nat /\ n > 0 /\ DOMAIN stack = 1 .. n /\ f = stack[n]
      /\ \A i \in DOMAIN stack : stack[i].p = f.p => i = n
  BY <1>0, <1>1, InnermostIs
<1>3. /\ stack'[n] = g /\ \A i \in 1 .. n - 1 : stack'[i] = stack[i]
      /\ DOMAIN stack' = 1 .. n \/ DOMAIN stack' = 1 .. n + 1
  BY <1>0, StackThen
<1>4. \A i \in DOMAIN stack : i \in DOMAIN stack'
  BY <1>2, <1>3
<1>5. ASSUME NEW i \in 1 .. n - 1
      PROVE  /\ i \in DOMAIN stack /\ stack'[i] = stack[i] /\ stack[i].p # f.p
             /\ \A j : Pending(i, j)' <=> Pending(i, j)
  <2>1. i \in DOMAIN stack /\ i # n /\ i + 1 \in DOMAIN stack /\ i + 1 \in DOMAIN stack'
    BY <1>2, <1>4
  <2>2. stack'[i] = stack[i] /\ stack[i].p # f.p
    BY <1>2, <1>3, <2>1
  <2>3. stack'[i + 1].p = stack[i + 1].p
    <3>1. CASE i + 1 \in 1 .. n - 1
      BY <1>3, <3>1
    <3>2. CASE i + 1 = n
      BY <1>1, <1>2, <1>3, <3>2
    <3>. QED  BY <1>2, <3>1, <3>2
  <2>. QED  BY <2>1, <2>2, <2>3 DEF Pending
<1>6. n \in DOMAIN stack /\ \A j : ~Pending(n, j)
  BY <1>2 DEF Pending
<1>. QED  BY <1>0, <1>3, <1>4, <1>5, <1>6

\* What waited for the innermost call waits still, but for the key k.
LEMMA AwaitedThen ==
  ASSUME DataInv, CallsInv, NEW f, NEW g, NEW k, NEW h, GoesOn(f, g) \/ Enters(f, g, k, h),
         g.todo = f.todo \ {k}, phase' = phase, json' = json,
         NEW q, NEW j, Awaited(q, j), q # f.p \/ j # k
  PROVE  Awaited(q, j)'
<1>0. PICK n : n = Len(stack)
  OBVIOUS
<1>1. Top(f) /\ g.p = f.p
  BY DEF GoesOn, Enters
<1>2. n \in Nat /\ DOMAIN stack = 1 .. n /\ f = stack[n]
  BY <1>0, <1>1, InnermostIs
<1>3. PICK i \in DOMAIN stack :
         /\ stack[i].p = q
         /\ j \in stack[i].todo \/ Pending(i, j) \/ (phase = "parse" /\ j \in DOMAIN json[q].dups)
  BY DEF Awaited
<1>4. i \in DOMAIN stack'
  BY OutersAre
<1>5. CASE i = n
  <2>1. stack'[n] = g /\ ~Pending(n, j)
    BY <1>0, OutersAre
  <2>2. q = f.p
    BY <1>2, <1>3, <1>5
  <2>3. j \in g.todo \/ (phase = "parse" /\ j \in DOMAIN json[q].dups)
    BY <1>2, <1>3, <1>5, <2>1, <2>2
  <2>. QED  BY <1>1, <1>4, <1>5, <2>1, <2>2, <2>3 DEF Awaited
<1>6. CASE i # n
  <2>1. i \in 1 .. n - 1
    BY <1>2, <1>6
  <2>2. stack'[i] = stack[i] /\ (Pending(i, j)' <=> Pending(i, j))
    BY <1>0, <2>1, OutersAre
  <2>. QED  BY <1>3, <1>4, <2>2 DEF Awaited
<1>. QED  BY <1>5, <1>6

\* What is final stays so.
LEMMA SettledStays ==
  ASSUME map' = map, moved' = moved, DOMAIN made \subseteq DOMAIN made', DOMAIN leaf \subseteq DOMAIN leaf',
         NEW q, NEW k, NEW x, Settled(q, k, x)
  PROVE  Settled(q, k, x)'
<1>1. At(q)' = At(q)
  BY AtKept
<1>2. \A j : Stands(q, k, j) => Stands(q, k, j)'
  BY <1>1 DEF Stands
<1>. QED  BY <1>1, <1>2 DEF Settled

\* Counts, when one element is set.
LEMMA AtMostOneMore ==
  ASSUME NEW A, NEW B, IsFiniteSet(B), NEW e
  PROVE  /\ Cardinality(B) \in Nat
         /\ A \subseteq B => Cardinality(A) <= Cardinality(B)
         /\ A \subseteq B \cup {e} => Cardinality(A) <= Cardinality(B) + 1
<1>1. Cardinality(B) \in Nat
  BY FS_CardinalityType
<1>2. A \subseteq B => Cardinality(A) <= Cardinality(B)
  BY FS_Subset
<1>3. ASSUME A \subseteq B \cup {e}  PROVE Cardinality(A) <= Cardinality(B) + 1
  <2>1. IsFiniteSet(B \cup {e}) /\ Cardinality(B \cup {e}) <= Cardinality(B) + 1
    <3>1. /\ IsFiniteSet(B \cup {e})
          /\ Cardinality(B \cup {e}) = IF e \in B THEN Cardinality(B) ELSE Cardinality(B) + 1
      BY FS_AddElement
    <3>. QED  BY <1>1, <3>1
  <2>2. Cardinality(A) <= Cardinality(B \cup {e})
    BY <1>3, <2>1, FS_Subset
  <2>3. Cardinality(A) \in Nat /\ Cardinality(B \cup {e}) \in Nat
    BY <1>3, <2>1, FS_Subset, FS_CardinalityType
  <2>. QED  BY <1>1, <2>1, <2>2, <2>3
<1>. QED  BY <1>1, <1>2, <1>3

\* New structs have finitely many places.
LEMMA PlacesFinite ==
  ASSUME NEW m, IsFiniteSet(DOMAIN m), NEW q
  PROVE  IsFiniteSet(PlacesIn(m, q))
<1>1. IsFiniteSet((DOMAIN m) \X Keys)
  BY SerialAssumption, FS_Product
<1>. QED  BY <1>1, FS_Subset DEF PlacesIn

\* m becomes new when k of p is set to x.
Setting(m, p, k, x) == [m EXCEPT ![p][k] = x]

IsSet(m, new, p, k, x) ==
  /\ DOMAIN new = DOMAIN m
  /\ \A q \in DOMAIN m, j \in Keys : new[q][j] = IF q = p /\ j = k THEN x ELSE m[q][j]

NewElements == [Keys -> Seq(Keys) \cup Values]

\* Setting one element leaves all others.
LEMMA SetIs ==
  ASSUME NEW m, \A q \in DOMAIN m : m[q] \in NewElements,
         NEW p \in DOMAIN m, NEW k \in Keys, NEW x \in Seq(Keys) \cup Values
  PROVE  /\ IsSet(m, Setting(m, p, k, x), p, k, x)
         /\ DOMAIN Setting(m, p, k, x) = DOMAIN m
         /\ \A q \in DOMAIN m : Setting(m, p, k, x)[q] \in NewElements
         /\ \A q \in DOMAIN m : q # p => Setting(m, p, k, x)[q] = m[q]
         /\ Setting(m, p, k, x) \in [DOMAIN m -> NewElements]
<1>0. PICK new : new = Setting(m, p, k, x)
  OBVIOUS
<1>1. /\ new = [m EXCEPT ![p][k] = x] /\ DOMAIN new = DOMAIN m
      /\ \A q \in DOMAIN m : q # p => new[q] = m[q]
  BY <1>0 DEF Setting
<1>2. PICK e : e = m[p]
  OBVIOUS
<1>3. new[p] = [e EXCEPT ![k] = x] /\ e \in [Keys -> Seq(Keys) \cup Values]
  BY <1>1, <1>2 DEF NewElements
<1>4. /\ new[p] \in [Keys -> Seq(Keys) \cup Values]
      /\ \A j \in Keys : new[p][j] = IF j = k THEN x ELSE e[j]
  BY <1>3
<1>5. IsSet(m, new, p, k, x)
  BY <1>1, <1>2, <1>4 DEF IsSet
<1>6. \A q \in DOMAIN m : new[q] \in NewElements
  BY <1>1, <1>4 DEF NewElements
<1>7. new = [q \in DOMAIN m |-> new[q]]
  BY <1>1
<1>8. new \in [DOMAIN m -> NewElements]
  BY <1>6, <1>7
<1>. QED  BY <1>0, <1>1, <1>5, <1>6, <1>8

\* The counts cover the places again when an element is set and counted.
LEMMA CountsThen ==
  ASSUME NEW m, NEW new, NEW cnt, NEW c, IsFiniteSet(DOMAIN m), DOMAIN cnt \subseteq Seq(Keys),
         Counts(m, cnt), NEW p \in DOMAIN m, NEW k \in Keys, NEW x, IsSet(m, new, p, k, x),
         \/ x \notin Seq(Keys) /\ c = cnt
         \/ x \in Seq(Keys) /\ \E n \in Nat \ {0} :
               c = Bind(cnt, x, (IF x \in DOMAIN cnt THEN cnt[x] ELSE 0) + n)
  PROVE  Counts(new, c)
<1>1. /\ DOMAIN new = DOMAIN m
      /\ \A q \in DOMAIN m, j \in Keys : new[q][j] = IF q = p /\ j = k THEN x ELSE m[q][j]
  BY DEF IsSet
<1>2. /\ \A q \in DOMAIN m, j \in Keys : m[q][j] \in Seq(Keys) => m[q][j] \in DOMAIN cnt
      /\ \A q \in DOMAIN cnt : cnt[q] \in Nat /\ cnt[q] >= Cardinality(PlacesIn(m, q))
  BY DEF Counts
<1>3. ASSUME NEW q, q # x  PROVE PlacesIn(new, q) \subseteq PlacesIn(m, q)
  BY <1>1, <1>3 DEF PlacesIn
<1>4. PlacesIn(new, x) \subseteq PlacesIn(m, x) \cup {<<p, k>>}
  BY <1>1 DEF PlacesIn
<1>5. ASSUME NEW q \in DOMAIN cnt, q # x
      PROVE  cnt[q] >= Cardinality(PlacesIn(new, q))
  <2>1. IsFiniteSet(PlacesIn(m, q))
    BY PlacesFinite
  <2>2. PlacesIn(new, q) \subseteq PlacesIn(m, q)
    BY <1>3, <1>5
  <2>3. /\ Cardinality(PlacesIn(new, q)) <= Cardinality(PlacesIn(m, q))
        /\ Cardinality(PlacesIn(new, q)) \in Nat /\ Cardinality(PlacesIn(m, q)) \in Nat
    BY <2>1, <2>2, FS_Subset, FS_CardinalityType
  <2>. QED  BY <1>2, <2>3
<1>6. CASE x \notin Seq(Keys) /\ c = cnt
  <2>1. \A q \in DOMAIN c : q # x /\ q \in DOMAIN cnt
    BY <1>6
  <2>2. \A q \in DOMAIN c : c[q] \in Nat /\ c[q] >= Cardinality(PlacesIn(new, q))
    BY <1>2, <1>5, <1>6, <2>1
  <2>3. \A q \in DOMAIN new, j \in Keys : new[q][j] \in Seq(Keys) => new[q][j] \in DOMAIN c
    BY <1>1, <1>2, <1>6
  <2>. QED  BY <2>2, <2>3 DEF Counts
<1>7. ASSUME x \in Seq(Keys), NEW n \in Nat \ {0},
             c = Bind(cnt, x, (IF x \in DOMAIN cnt THEN cnt[x] ELSE 0) + n)
      PROVE  Counts(new, c)
  <2>1. PICK w : w = (IF x \in DOMAIN cnt THEN cnt[x] ELSE 0) + n
    OBVIOUS
  <2>2. /\ DOMAIN c = DOMAIN cnt \cup {x} /\ c[x] = w
        /\ \A q \in DOMAIN cnt : q # x => c[q] = cnt[q]
    <3>1. c = Bind(cnt, x, w)
      BY <1>7, <2>1
    <3>. QED  BY ONLY <3>1 DEF Bind
  <2>3. w \in Nat /\ w >= Cardinality(PlacesIn(new, x))
    <3>1. IsFiniteSet(PlacesIn(m, x))
      BY PlacesFinite
    <3>2. /\ Cardinality(PlacesIn(m, x)) \in Nat
          /\ Cardinality(PlacesIn(new, x)) <= Cardinality(PlacesIn(m, x)) + 1
      BY <1>4, <3>1, AtMostOneMore
    <3>3. IsFiniteSet(PlacesIn(m, x) \cup {<<p, k>>})
      BY <3>1, FS_AddElement
    <3>4. Cardinality(PlacesIn(new, x)) \in Nat
      BY <1>4, <3>3, FS_Subset, FS_CardinalityType
    <3>5. CASE x \in DOMAIN cnt
      <4>1. cnt[x] \in Nat /\ cnt[x] >= Cardinality(PlacesIn(m, x)) /\ w = cnt[x] + n
        BY <1>2, <2>1, <3>5
      <4>. QED  BY <3>2, <3>4, <4>1
    <3>6. CASE x \notin DOMAIN cnt
      <4>1. w = n
        BY <2>1, <3>6
      <4>2. Cardinality(PlacesIn(new, x)) <= 1
        <5>1. PlacesIn(m, x) = {}
          BY <1>2, <1>7, <3>6 DEF PlacesIn
        <5>2. Cardinality(PlacesIn(m, x)) = 0
          BY <5>1, FS_EmptySet
        <5>. QED  BY <3>2, <3>4, <5>2
      <4>. QED  BY <3>4, <4>1, <4>2
    <3>. QED  BY <3>5, <3>6
  <2>4. \A q \in DOMAIN c : c[q] \in Nat /\ c[q] >= Cardinality(PlacesIn(new, q))
    BY <1>2, <1>5, <2>2, <2>3
  <2>5. \A q \in DOMAIN new, j \in Keys : new[q][j] \in Seq(Keys) => new[q][j] \in DOMAIN c
    BY <1>1, <1>2, <2>2
  <2>. QED  BY <2>4, <2>5 DEF Counts
<1>. QED  BY <1>6, <1>7

\* What a call of the new struct can be in.
Making == phase \in {"parse", "copy"}

\* What is known of the innermost call while new structs are made.
LEMMA MakingIs ==
  ASSUME DataInv, CallsInv, Making, NEW f, Top(f)
  PROVE  /\ f.p \in DOMAIN made /\ made[f.p] \in [Keys -> Seq(Keys) \cup Values]
         /\ Len(stack) \in DOMAIN stack /\ f = stack[Len(stack)]
         /\ TodoInv => TodoOK(f)
         /\ \A k : Awaited(f.p, k) => k \in f.todo \/ (phase = "parse" /\ k \in DOMAIN json[f.p].dups)
<1>0. PICK n : n = Len(stack)
  OBVIOUS
<1>1. /\ n \in Nat /\ n > 0 /\ DOMAIN stack = 1 .. n /\ f = stack[n]
      /\ \A i \in DOMAIN stack : stack[i].p = f.p => i = n
  BY <1>0, InnermostIs
<1>2. n \in DOMAIN stack /\ n + 1 \notin DOMAIN stack
  BY <1>1
<1>3. f.p \in DOMAIN made
  BY <1>1, <1>2 DEF CallsInv, CallOK, Making
<1>4. TodoInv => TodoOK(f)
  BY <1>1, <1>2 DEF TodoInv
<1>5. \A k : Awaited(f.p, k) => k \in f.todo \/ (phase = "parse" /\ k \in DOMAIN json[f.p].dups)
  BY <1>1, <1>2 DEF Awaited, Pending
<1>. QED  BY <1>0, <1>1, <1>2, <1>3, <1>4, <1>5 DEF DataInv

\* The innermost call f sets key k, the next one, to x.
SetsNext(f, g, k, x) ==
  /\ Making /\ Top(f) /\ f.todo # {} /\ k = FirstKey(f.todo)
  /\ g = [f EXCEPT !.todo = @ \ {k}] /\ stack' = Append(Front(stack), g)
  /\ made' = [made EXCEPT ![f.p][k] = x]
  /\ phase' = phase /\ map' = map /\ refs' = refs /\ json' = json /\ moved' = moved

\* The keys that are left when the first one is done.
LEMMA NextTodo ==
  ASSUME NEW f \in Frame, NEW g, NEW k, f.todo # {}, k = FirstKey(f.todo),
         g = [f EXCEPT !.todo = @ \ {k}],
         Making, TodoOK(f), map' = map, json' = json, phase' = phase
  PROVE  TodoOK(g)'
<1>1. /\ k \in f.todo /\ k \in Keys
      /\ g \in Frame /\ g.p = f.p /\ g.s = f.s /\ g.open = f.open /\ g.todo = f.todo \ {k}
      /\ \A j \in g.todo : Pos(k) < Pos(j)
  BY NextKeyIs
<1>2. CASE phase = "parse"
  <2>1. g.todo \subseteq Items(g.p)'
    BY <1>1, <1>2 DEF TodoOK, Items
  <2>. QED  BY <1>2, <2>1 DEF TodoOK
<1>3. CASE phase = "copy"
  <2>1. /\ f.todo \subseteq Elements(f.s)
        /\ \A j \in Elements(f.s) \ f.todo, i \in f.todo : Pos(j) < Pos(i)
    BY <1>3 DEF TodoOK
  <2>2. Elements(g.s)' = Elements(f.s)
    BY <1>1 DEF Elements
  <2>3. /\ g.todo \subseteq Elements(g.s)'
        /\ \A j \in Elements(g.s)' \ g.todo, i \in g.todo : Pos(j) < Pos(i)
    BY <1>1, <2>1, <2>2
  <2>. QED  BY <1>3, <2>3 DEF TodoOK
<1>. QED  BY <1>2, <1>3 DEF Making

\* An element is set by the innermost call.
LEMMA SetStep ==
  ASSUME Inv, NEW f, NEW g, NEW k, NEW x \in Seq(Keys) \cup Values, SetsNext(f, g, k, x),
         DOMAIN leaf \subseteq DOMAIN leaf', DOMAIN leaf' \subseteq Seq(Keys),
         \A q \in DOMAIN leaf' : leaf'[q] \in Leaves /\ At(q) = leaf'[q],
         Settled(f.p, k, x)',
         \A j \in g.todo : x # Append(f.p, j),
         \/ x \notin Seq(Keys) /\ counted' = counted
         \/ x \in Seq(Keys) /\ \E n \in Nat \ {0} :
               counted' = Bind(counted, x, (IF x \in DOMAIN counted THEN counted[x] ELSE 0) + n)
  PROVE  Inv'
<1>0. /\ DataInv /\ PhaseInv /\ CallsInv /\ TodoInv /\ JsonInv /\ RefsInv
      /\ MadeInv /\ UnplacedInv /\ CountedInv
  BY DEF Inv
<1>1. /\ Making /\ Top(f) /\ f.todo # {} /\ k = FirstKey(f.todo)
      /\ g = [f EXCEPT !.todo = @ \ {k}] /\ stack' = Append(Front(stack), g)
      /\ made' = [made EXCEPT ![f.p][k] = x]
      /\ phase' = phase /\ map' = map /\ refs' = refs /\ json' = json /\ moved' = moved
  BY DEF SetsNext
<1>2. /\ Len(stack) \in Nat /\ Len(stack) > 0 /\ DOMAIN stack = 1 .. Len(stack)
      /\ f \in Frame /\ f.p \in Seq(Keys) /\ f.s = At(f.p) /\ f.s \in Structs
  BY <1>0, <1>1, InnermostIs
<1>3. /\ k \in f.todo /\ k \in Keys
      /\ g \in Frame /\ g.p = f.p /\ g.s = f.s /\ g.todo = f.todo \ {k}
  BY <1>1, <1>2, NextKeyIs
<1>4. f.p \in DOMAIN made /\ TodoOK(f)
  BY <1>0, <1>1, MakingIs
<1>5. GoesOn(f, g) /\ Moves(f, g, k, g)
  BY <1>1, <1>3 DEF GoesOn, Moves
<1>6. /\ IsSet(made, made', f.p, k, x) /\ DOMAIN made' = DOMAIN made
      /\ \A q \in DOMAIN made' : made'[q] \in [Keys -> Seq(Keys) \cup Values]
      /\ \A q \in DOMAIN made : q # f.p => made'[q] = made[q]
      /\ made' \in [DOMAIN made' -> [Keys -> Seq(Keys) \cup Values]]
  <2>1. \A q \in DOMAIN made : made[q] \in [Keys -> Seq(Keys) \cup Values]
    BY <1>0 DEF DataInv
  <2>2. /\ IsSet(made, made', f.p, k, x)
        /\ \A q \in DOMAIN made' : made'[q] \in [Keys -> Seq(Keys) \cup Values]
        /\ \A q \in DOMAIN made : q # f.p => made'[q] = made[q]
        /\ made' \in [DOMAIN made' -> [Keys -> Seq(Keys) \cup Values]]
    <3>1. made' = Setting(made, f.p, k, x)
      BY <1>1 DEF Setting
    <3>2. x \in Seq(Keys) \cup Values /\ \A q \in DOMAIN made : made[q] \in NewElements
      BY <2>1 DEF NewElements
    <3>3. /\ IsSet(made, made', f.p, k, x) /\ DOMAIN made' = DOMAIN made
          /\ \A q \in DOMAIN made : made'[q] \in NewElements
          /\ \A q \in DOMAIN made : q # f.p => made'[q] = made[q]
          /\ made' \in [DOMAIN made -> NewElements]
      BY ONLY <1>3, <1>4, <3>1, <3>2, SetIs
    <3>. QED  BY <3>3 DEF NewElements
  <2>. QED  BY <2>2 DEF IsSet
<1>7. \A q \in DOMAIN made, j \in Keys : made'[q][j] = IF q = f.p /\ j = k THEN x ELSE made[q][j]
  BY <1>6 DEF IsSet
<1>8. Grown /\ OthersKept(f)
  BY <1>1, <1>6 DEF Grown, OthersKept, Making
<1>9. stack' \in Seq(Frame) /\ DOMAIN stack' = 1 .. Len(stack) /\ stack' # <<>>
  <2>1. stack' \in Seq(Frame) /\ DOMAIN stack' = 1 .. Len(stack)
    BY <1>0, <1>5, StackThen
  <2>. QED  BY <1>2, <2>1, NotEmpty
<1>10. DataInv'
  <2>1. DOMAIN counted' \subseteq Seq(Keys)
    BY <1>0 DEF DataInv, Bind
  <2>. QED  BY <1>0, <1>1, <1>6, <1>9, <2>1 DEF DataInv
<1>11. PhaseInv'
  BY <1>0, <1>1, <1>6, <1>9 DEF PhaseInv, Making
<1>12. CallsInv'
  BY <1>0, <1>1, <1>3, <1>5, <1>8, CallsReplaced DEF Making
<1>13. TodoInv'
  <2>1. TodoOK(g)'
    BY <1>1, <1>2, <1>4, NextTodo
  <2>. QED  BY <1>0, <1>5, <1>8, <2>1, TodosThen
<1>14. JsonInv'
  BY <1>0, <1>1, JsonStays DEF Making
<1>15. \A p : At(p)' = At(p)
  BY <1>1, AtKept
<1>16. MadeInv'
  <2>1. ASSUME NEW q \in DOMAIN made, NEW j \in Keys
        PROVE  Final(q, j)' \/ (made'[q][j] = Null /\ Awaited(q, j)')
    <3>1. CASE q = f.p /\ j = k
      <4>1. made'[q][j] = x
        BY <1>7, <3>1
      <4>. QED  BY <3>1, <4>1 DEF Final, Settled, Stands
    <3>2. CASE q # f.p \/ j # k
      <4>1. made'[q][j] = made[q][j]
        BY <1>7, <3>2
      <4>2. CASE Final(q, j)
        <5>1. Settled(q, j, made[q][j])'
          BY <1>1, <1>6, <4>2, SettledStays DEF Final
        <5>. QED  BY <4>1, <5>1 DEF Final, Settled, Stands
      <4>3. CASE made[q][j] = Null /\ Awaited(q, j)
        <5>1. Awaited(q, j)'
          <6>1. Awaited(q, j) /\ phase' = phase /\ json' = json /\ g.todo = f.todo \ {k}
            BY <1>1, <1>3, <4>3
          <6>. QED  BY ONLY <1>0, <1>5, <3>2, <6>1, AwaitedThen
        <5>. QED  BY <4>1, <4>3, <5>1
      <4>. QED  BY <1>0, <4>2, <4>3 DEF MadeInv
    <3>. QED  BY <3>1, <3>2
  <2>2. \A q \in DOMAIN made : At(q)' \in Structs
    BY <1>0, <1>15 DEF MadeInv
  <2>. QED  BY <1>6, <1>15, <2>1, <2>2 DEF MadeInv
<1>17. UnplacedInv'
  <2>. SUFFICES ASSUME NEW i \in DOMAIN stack', NEW j \in Keys,
                       j \in stack'[i].todo \/ Pending(i, j)', NEW b \in Keys
                PROVE  made'[stack'[i].p][b] # Append(stack'[i].p, j)
    BY DEF UnplacedInv
  <2>0. PICK n : n = Len(stack)
    OBVIOUS
  <2>1. CASE i \in 1 .. n - 1
    <3>1. /\ stack'[i] = stack[i] /\ i \in DOMAIN stack /\ stack[i].p # f.p
          /\ (Pending(i, j)' <=> Pending(i, j))
      BY <1>0, <1>5, <2>0, <2>1, OutersAre
    <3>2. stack[i].p \in DOMAIN made
      BY <1>0, <1>1, <3>1 DEF CallsInv, CallOK, Making
    <3>3. made[stack[i].p][b] # Append(stack[i].p, j)
      BY <1>0, <1>1, <3>1 DEF UnplacedInv, Making
    <3>. QED  BY <1>6, <3>1, <3>2, <3>3
  <2>2. CASE i = n
    <3>1. stack'[i] = g
      BY <1>0, <1>5, <2>0, <2>2, OutersAre
    <3>2. j \in g.todo
      <4>1. i + 1 \notin DOMAIN stack'
        BY <1>2, <1>9, <2>0, <2>2
      <4>. QED  BY <3>1, <4>1 DEF Pending
    <3>3. made[f.p][b] # Append(f.p, j)
      <4>1. stack[n] = f /\ n \in DOMAIN stack /\ j \in f.todo
        BY <1>0, <1>1, <1>3, <2>0, <3>2, MakingIs
      <4>. QED  BY <1>0, <1>1, <4>1 DEF UnplacedInv, Making
    <3>. QED  BY <1>3, <1>4, <1>7, <3>1, <3>2, <3>3
  <2>3. i \in 1 .. n - 1 \/ i = n
    BY <1>2, <1>9, <2>0
  <2>. QED  BY <2>1, <2>2, <2>3
<1>18. CountedInv'
  <2>1. Counts(made, counted) /\ IsFiniteSet(DOMAIN made) /\ DOMAIN counted \subseteq Seq(Keys)
    BY <1>0 DEF CountedInv, DataInv
  <2>2. Counts(made', counted')
    BY <1>3, <1>4, <1>6, <2>1, CountsThen
  <2>. QED  BY <2>2 DEF CountedInv, Counts, PlacesIn
<1>19. RefsInv'
  BY <1>0, <1>1, <1>9, RefsStay DEF Making
<1>. QED  BY <1>10, <1>11, <1>12, <1>13, <1>14, <1>16, <1>17, <1>18, <1>19 DEF Inv

\* The element that is made next, for the value v of the original.
NextElement(f, k, v) ==
  /\ Making /\ Top(f) /\ f.todo # {} /\ k = FirstKey(f.todo) /\ v = map[f.s][k]
  /\ phase' = phase /\ map' = map /\ refs' = refs /\ json' = json /\ moved' = moved

\* What is known of the element that is made next.
LEMMA NextIs ==
  ASSUME DataInv, CallsInv, NEW f, NEW k, NEW v, NextElement(f, k, v)
  PROVE  /\ f \in Frame /\ f.p \in Seq(Keys) /\ f.s = At(f.p) /\ f.s \in Structs
         /\ k \in f.todo /\ k \in Keys /\ Append(f.p, k) \in Seq(Keys)
         /\ v \in Values /\ v = map[At(f.p)][k] /\ At(Append(f.p, k)) = v
         /\ \A p : At(p)' = At(p)
         /\ \A j \in f.todo \ {k} : j \in Keys /\ Append(f.p, k) # Append(f.p, j)
<1>1. f \in Frame /\ f.p \in Seq(Keys) /\ f.s = At(f.p) /\ f.s \in Structs /\ f.todo \subseteq Keys
  BY InnermostIs DEF NextElement
<1>2. k \in f.todo /\ k \in Keys
  <2>1. f.todo \in SUBSET Keys /\ f.todo # {} /\ k = FirstKey(f.todo)
    BY <1>1 DEF NextElement
  <2>. QED  BY ONLY <2>1, FirstKeyIs
<1>3. Append(f.p, k) \in Seq(Keys)
  BY <1>1, <1>2, PathsDiffer
<1>4. v \in Values /\ v = map[At(f.p)][k] /\ DOMAIN map = Structs
  BY <1>1, <1>2 DEF NextElement, DataInv
<1>5. At(Append(f.p, k)) = v
  BY <1>1, <1>2, <1>4, AtIs
<1>6. \A p : At(p)' = At(p)
  BY AtKept DEF NextElement
<1>7. \A j \in f.todo \ {k} : j \in Keys /\ Append(f.p, k) # Append(f.p, j)
  BY <1>1, <1>2, PathsDiffer
<1>. QED  BY <1>1, <1>2, <1>3, <1>4, <1>5, <1>6, <1>7

\* A leaf is made and set.
LEMMA LeafStep ==
  ASSUME Inv, NEW f, NEW k, NEW v \in Leaves, NextElement(f, k, v), Stands(f.p, k, k), NewLeaf(f, k, v)
  PROVE  Inv'
<1>0. DataInv /\ CallsInv /\ MadeInv
  BY DEF Inv
<1>1. PICK g, q : g = [f EXCEPT !.todo = @ \ {k}] /\ q = Append(f.p, k)
  OBVIOUS
<1>2. /\ f \in Frame /\ q \in Seq(Keys) /\ g.todo = f.todo \ {k} /\ At(q) = v
      /\ v = map[At(f.p)][k]
      /\ \A p : At(p)' = At(p)
      /\ \A j \in g.todo : q # Append(f.p, j)
  <2>1. g.todo = f.todo \ {k}
    <3>1. f \in Frame
      BY <1>0, NextIs
    <3>. QED  BY <1>1, <3>1 DEF Frame
  <2>. QED  BY <1>0, <1>1, <2>1, NextIs
<1>3. /\ stack' = Append(Front(stack), g)
      /\ leaf' = Bind(leaf, q, v)
      /\ made' = [made EXCEPT ![f.p][k] = q]
      /\ counted' = Bind(counted, q, (IF q \in DOMAIN counted THEN counted[q] ELSE 0) + 1)
  BY <1>1 DEF NewLeaf, SetNew
<1>4. SetsNext(f, g, k, q)
  BY <1>1, <1>3 DEF SetsNext, NextElement
<1>5. /\ DOMAIN leaf' = DOMAIN leaf \cup {q} /\ leaf'[q] = v
      /\ \A p \in DOMAIN leaf : p # q => leaf'[p] = leaf[p]
  BY <1>3 DEF Bind
<1>6. /\ DOMAIN leaf \subseteq DOMAIN leaf' /\ DOMAIN leaf' \subseteq Seq(Keys)
      /\ \A p \in DOMAIN leaf' : leaf'[p] \in Leaves /\ At(p) = leaf'[p]
  <2>1. \A p \in DOMAIN leaf : leaf[p] \in Leaves /\ At(p) = leaf[p] /\ p \in Seq(Keys)
    BY <1>0 DEF MadeInv, DataInv
  <2>. QED  BY <1>2, <1>5, <2>1
<1>7. Settled(f.p, k, q)'
  <2>1. k \in Keys /\ v \in Objs /\ v \notin Structs
    BY <1>0, NextIs, SerialAssumption DEF Objs
  <2>2. map' = map /\ moved' = moved
    BY DEF NextElement
  <2>3. Stands(f.p, k, k)'
    BY <1>2, <2>2 DEF Stands
  <2>. QED  BY <1>1, <1>2, <1>5, <2>1, <2>2, <2>3 DEF Settled
<1>8. 1 \in Nat \ {0}
  OBVIOUS
<1>. QED  BY <1>2, <1>3, <1>4, <1>6, <1>7, <1>8, SetStep

\* A scalar or a plain pointer is set.
LEMMA ScalarStep ==
  ASSUME Inv, NEW f, NEW k, NEW v \in Scalars \cup {Unknown}, NextElement(f, k, v), SetScalar(f, k, v)
  PROVE  Inv'
<1>0. DataInv /\ CallsInv /\ MadeInv
  BY DEF Inv
<1>1. PICK g : g = [f EXCEPT !.todo = @ \ {k}]
  OBVIOUS
<1>2. /\ v \in Values /\ v = map[At(f.p)][k] /\ v \notin Objs /\ v \notin Seq(Keys)
      /\ \A p : At(p)' = At(p)
      /\ \A j \in g.todo : v # Append(f.p, j)
  <2>1. g.todo = f.todo \ {k}
    <3>1. f \in Frame
      BY <1>0, NextIs
    <3>. QED  BY <1>1, <3>1 DEF Frame
  <2>2. v \notin Objs /\ v \notin Seq(Keys)
    BY SerialAssumption
  <2>3. \A j \in g.todo : Append(f.p, j) \in Seq(Keys)
    <3>1. f.p \in Seq(Keys) /\ f.todo \subseteq Keys
      BY <1>0, InnermostIs DEF NextElement
    <3>. QED  BY <2>1, <3>1, PathsDiffer
  <2>. QED  BY <1>0, <2>2, <2>3, NextIs
<1>3. /\ stack' = Append(Front(stack), g)
      /\ made' = [made EXCEPT ![f.p][k] = v]
      /\ leaf' = leaf /\ counted' = counted
  BY <1>1 DEF SetScalar
<1>4. SetsNext(f, g, k, v)
  BY <1>1, <1>3 DEF SetsNext, NextElement
<1>5. /\ DOMAIN leaf \subseteq DOMAIN leaf' /\ DOMAIN leaf' \subseteq Seq(Keys)
      /\ \A p \in DOMAIN leaf' : leaf'[p] \in Leaves /\ At(p) = leaf'[p]
  BY <1>0, <1>3 DEF MadeInv, DataInv
<1>6. Settled(f.p, k, v)'
  <2>1. map' = map
    BY DEF NextElement
  <2>. QED  BY <1>2, <2>1 DEF Settled
<1>. QED  BY <1>2, <1>3, <1>4, <1>5, <1>6, SetStep

\* A copied element that repeats one: the first is copied already.
LEMMA RepeatStep ==
  ASSUME Inv, NEW f, NEW k, NEW v \in Objs, NextElement(f, k, v), phase = "copy",
         NEW j, j = OriginalKey(map[f.s], k), j # k,
         stack' = Append(Front(stack), [f EXCEPT !.todo = @ \ {k}]),
         SetNew(f.p, k, Append(f.p, j), 2), leaf' = leaf
  PROVE  Inv'
<1>0. DataInv /\ CallsInv /\ MadeInv /\ TodoInv /\ PhaseInv
  BY DEF Inv
<1>1. PICK g, q, m : g = [f EXCEPT !.todo = @ \ {k}] /\ q = Append(f.p, j) /\ m = map[f.s]
  OBVIOUS
<1>2. /\ f \in Frame /\ f.p \in Seq(Keys) /\ f.s = At(f.p) /\ k \in f.todo /\ k \in Keys
      /\ v = m[k] /\ m = map[At(f.p)]
      /\ \A p : At(p)' = At(p)
  BY <1>0, <1>1, NextIs
<1>3. g.todo = f.todo \ {k} /\ f.todo \in SUBSET Keys
  BY <1>1, <1>2 DEF Frame
<1>4. /\ j \in Keys /\ m[j] = v /\ Pos(j) <= Pos(k)
      /\ OriginalKey(m, j) = j /\ j = OriginalKey(m, k)
  BY <1>1, <1>2, OriginalIs
<1>5. j \notin f.todo
  <2>1. Pos(j) # Pos(k) /\ Pos(j) \in Nat /\ Pos(k) \in Nat
    BY <1>2, <1>4, PosIs
  <2>2. \A i \in f.todo : Pos(k) <= Pos(i)
    BY <1>2, <1>3, FirstKeyIs DEF NextElement
  <2>. QED  BY <1>4, <2>1, <2>2
<1>6. Final(f.p, j)
  <2>1. f.p \in DOMAIN made
    BY <1>0, MakingIs DEF NextElement
  <2>2. ~Awaited(f.p, j)
    <3>1. Awaited(f.p, j) => j \in f.todo \/ phase = "parse"
      BY <1>0, MakingIs DEF NextElement
    <3>. QED  BY <1>5, <3>1
  <2>. QED  BY <1>0, <1>4, <2>1, <2>2 DEF MadeInv
<1>7. /\ v \in Structs => q \in DOMAIN made
      /\ v \in Leaves => q \in DOMAIN leaf
  <2>1. moved = {}
    BY <1>0 DEF PhaseInv
  <2>2. PICK i \in Keys : /\ Stands(f.p, j, i)
                          /\ made[f.p][j] = Append(f.p, i)
                          /\ v \in Structs => Append(f.p, i) \in DOMAIN made
                          /\ v \in Leaves => Append(f.p, i) \in DOMAIN leaf
    BY <1>2, <1>4, <1>6 DEF Final, Settled
  <2>3. i = j
    BY <1>2, <1>4, <2>1, <2>2 DEF Stands
  <2>. QED  BY <1>1, <2>2, <2>3
<1>8. /\ stack' = Append(Front(stack), g)
      /\ made' = [made EXCEPT ![f.p][k] = q]
      /\ counted' = Bind(counted, q, (IF q \in DOMAIN counted THEN counted[q] ELSE 0) + 2)
  BY <1>1 DEF SetNew
<1>9. SetsNext(f, g, k, q)
  BY <1>1, <1>8 DEF SetsNext, NextElement
<1>10. /\ DOMAIN leaf \subseteq DOMAIN leaf' /\ DOMAIN leaf' \subseteq Seq(Keys)
       /\ \A p \in DOMAIN leaf' : leaf'[p] \in Leaves /\ At(p) = leaf'[p]
  BY <1>0 DEF MadeInv, DataInv
<1>11. q \in Seq(Keys) /\ \A i \in g.todo : q # Append(f.p, i)
  <2>1. q \in Seq(Keys)
    BY <1>1, <1>2, <1>4, PathsDiffer
  <2>2. ASSUME NEW i \in g.todo  PROVE q # Append(f.p, i)
    <3>1. i \in Keys /\ i # j
      BY <1>3, <1>5
    <3>. QED  BY <1>1, <1>2, <1>4, <3>1, PathsDiffer
  <2>. QED  BY <2>1, <2>2
<1>12. Settled(f.p, k, q)'
  <2>1. map' = map /\ moved' = moved /\ leaf' = leaf /\ DOMAIN made' = DOMAIN made
    BY <1>8 DEF NextElement
  <2>2. Stands(f.p, k, j)'
    BY <1>2, <1>4, <2>1 DEF Stands
  <2>. QED  BY <1>1, <1>2, <1>4, <1>7, <2>1, <2>2 DEF Settled
<1>13. 2 \in Nat \ {0}
  OBVIOUS
<1>. QED  BY <1>8, <1>9, <1>10, <1>11, <1>12, <1>13, SetStep

\* A struct below is begun.
LEMMA NestedStep ==
  ASSUME Inv, NEW f, NEW k, NEW v \in Structs, NextElement(f, k, v), Stands(f.p, k, k),
         NEW todo \in SUBSET Keys, Nested(f, k, v, todo),
         \/ phase = "parse" /\ Append(f.p, k) \in DOMAIN json /\ todo = Items(Append(f.p, k))
         \/ phase = "copy" /\ todo = Elements(v)
  PROVE  Inv'
<1>0. /\ DataInv /\ PhaseInv /\ CallsInv /\ TodoInv /\ JsonInv /\ RefsInv
      /\ MadeInv /\ UnplacedInv /\ CountedInv
  BY DEF Inv
<1>1. PICK g, q, h : g = [f EXCEPT !.todo = @ \ {k}] /\ q = Append(f.p, k) /\ h = Call(q, v, todo)
  OBVIOUS
<1>2. /\ f \in Frame /\ f.p \in Seq(Keys) /\ f.s = At(f.p) /\ k \in f.todo /\ k \in Keys
      /\ q \in Seq(Keys) /\ v = map[f.s][k] /\ At(q) = v /\ f.s \in Structs
      /\ \A p : At(p)' = At(p)
  BY <1>0, <1>1, NextIs DEF NextElement
<1>3. /\ Making /\ Top(f) /\ f.todo # {} /\ k = FirstKey(f.todo)
      /\ stack' = Front(stack) \o <<g, h>>
      /\ made' = Bind(made, q, NoElements)
      /\ leaf' = leaf /\ counted' = counted
      /\ phase' = phase /\ map' = map /\ refs' = refs /\ json' = json /\ moved' = moved
  BY <1>1 DEF NextElement, Nested
<1>4. g \in Frame /\ g.p = f.p /\ g.s = f.s /\ g.todo = f.todo \ {k}
  BY <1>1, <1>2 DEF Frame
<1>5. h \in Frame /\ h.p = q /\ h.s = v /\ h.todo = todo /\ ~h.open
  <2>1. q \in Seq(Keys) /\ v \in Structs /\ todo \in SUBSET Keys /\ h = Call(q, v, todo)
    BY <1>1, <1>2
  <2>. QED  BY ONLY <2>1, CallIs
<1>6. Enters(f, g, k, h) /\ Moves(f, g, k, h)
  BY <1>1, <1>2, <1>3, <1>4, <1>5 DEF Enters, Moves
<1>7. /\ DOMAIN made' = DOMAIN made \cup {q} /\ made'[q] = NoElements
      /\ \A p \in DOMAIN made : p # q => made'[p] = made[p]
  BY <1>3 DEF Bind
<1>8. \A j \in Keys : made'[q][j] = Null
  BY <1>7 DEF NoElements
<1>9. Grown /\ OthersKept(f)
  BY <1>3, <1>7 DEF Grown, OthersKept, Making
<1>10. /\ Len(stack) \in Nat /\ Len(stack) > 0 /\ DOMAIN stack = 1 .. Len(stack)
       /\ Len(f.p) = Len(stack) - 1
       /\ \A i \in DOMAIN stack : stack[i].p # q
  <2>1. /\ Len(stack) \in Nat /\ Len(stack) > 0 /\ DOMAIN stack = 1 .. Len(stack)
        /\ Len(f.p) = Len(stack) - 1 /\ \A i \in DOMAIN stack : Len(stack[i].p) = i - 1
    BY <1>0, <1>3, InnermostIs
  <2>2. Len(q) = Len(f.p) + 1
    BY <1>1, <1>2, PathsDiffer
  <2>3. ASSUME NEW i \in DOMAIN stack  PROVE stack[i].p # q
    <3>1. PICK n, a, b : n = Len(stack) /\ a = Len(stack[i].p) /\ b = Len(q)
      OBVIOUS
    <3>2. n \in Nat /\ i \in 1 .. n /\ a = i - 1 /\ b = (n - 1) + 1
      BY <2>1, <2>2, <3>1
    <3>3. a # b
      BY ONLY <3>2
    <3>. QED  BY <3>1, <3>3
  <2>. QED  BY <2>1, <2>3
<1>11. /\ stack' \in Seq(Frame) /\ DOMAIN stack' = 1 .. Len(stack) + 1 /\ stack' # <<>>
       /\ stack'[Len(stack) + 1] = h /\ Len(stack) + 1 \in DOMAIN stack'
  <2>1. /\ stack' \in Seq(Frame) /\ DOMAIN stack' = 1 .. Len(stack) + 1
        /\ stack'[Len(stack) + 1] = h
    BY <1>0, <1>6, StackThen
  <2>2. Len(stack) + 1 \in Nat /\ Len(stack) + 1 > 0 /\ Len(stack) + 1 \in 1 .. Len(stack) + 1
    <3>1. PICK n : n = Len(stack)
      OBVIOUS
    <3>2. n \in Nat
      BY <1>10, <3>1
    <3>3. n + 1 \in Nat /\ n + 1 > 0 /\ n + 1 \in 1 .. n + 1
      BY ONLY <3>2
    <3>. QED  BY <3>1, <3>3
  <2>. QED  BY <2>1, <2>2, NotEmpty
<1>12. DataInv'
  <2>1. \A p \in DOMAIN made' : made'[p] \in [Keys -> Seq(Keys) \cup Values]
    <3>1. NoElements \in [Keys -> Seq(Keys) \cup Values]
      BY DEF NoElements, Values
    <3>2. \A p \in DOMAIN made : made[p] \in [Keys -> Seq(Keys) \cup Values]
      BY <1>0 DEF DataInv
    <3>. QED  BY <1>7, <3>1, <3>2
  <2>2. made' = [p \in DOMAIN made' |-> made'[p]]
    BY <1>3 DEF Bind
  <2>3. made' \in [DOMAIN made' -> [Keys -> Seq(Keys) \cup Values]]
    BY <2>1, <2>2
  <2>4. IsFiniteSet(DOMAIN made')
    <3>1. IsFiniteSet(DOMAIN made)
      BY <1>0 DEF DataInv
    <3>2. IsFiniteSet((DOMAIN made) \cup {q})
      BY ONLY <3>1, FS_AddElement
    <3>. QED  BY <1>7, <3>2
  <2>. QED  BY <1>0, <1>2, <1>3, <1>7, <1>11, <2>3, <2>4 DEF DataInv
<1>13. PhaseInv'
  <2>1. phase = "parse" => DOMAIN made' \subseteq DOMAIN json
    BY <1>0, <1>1, <1>7 DEF PhaseInv
  <2>. QED  BY <1>0, <1>3, <1>11, <2>1 DEF PhaseInv, Making
<1>14. CallsInv'
  <2>1. k \in Keys \ g.todo
    BY <1>2, <1>4
  <2>. QED  BY <1>0, <1>1, <1>2, <1>3, <1>5, <1>6, <1>7, <1>9, CallsPushed DEF Making
<1>15. TodoInv'
  <2>1. TodoOK(g)'
    <3>1. TodoOK(f)
      BY <1>0, <1>3, MakingIs
    <3>. QED  BY <1>1, <1>2, <1>3, <3>1, NextTodo
  <2>2. TodoOK(h)'
    <3>1. CASE phase = "parse" /\ todo = Items(q)
      <4>1. h.todo = Items(h.p)'
        BY <1>3, <1>5, <3>1 DEF Items
      <4>. QED  BY <1>3, <3>1, <4>1 DEF TodoOK
    <3>2. CASE phase = "copy" /\ todo = Elements(v)
      <4>1. h.todo = Elements(h.s)'
        BY <1>3, <1>5, <3>2 DEF Elements
      <4>. QED  BY <1>3, <3>2, <4>1 DEF TodoOK
    <3>. QED  BY <1>1, <3>1, <3>2
  <2>. QED  BY <1>0, <1>6, <1>9, <2>1, <2>2, TodosThen
<1>16. JsonInv'
  BY <1>0, <1>3, JsonStays DEF Making
<1>17. MadeInv'
  <2>0. PICK n : n = Len(stack) + 1
    OBVIOUS
  <2>1. AllTodo(n, q)'
    <3>1. stack'[n] = h /\ Elements(At(q))' = Elements(v) /\ Items(q)' = Items(q)
      BY <1>2, <1>3, <1>11, <2>0 DEF Elements, Items
    <3>. QED  BY <1>1, <1>3, <1>5, <1>16, <3>1 DEF AllTodo
  <2>2. \A j \in Keys : Final(q, j)' \/ Awaited(q, j)'
    BY <1>5, <1>7, <1>11, <2>0, <2>1, NewStruct
  <2>3. Awaited(f.p, k)'
    <3>0. PICK i : i = Len(stack)
      OBVIOUS
    <3>1. stack'[i] = g /\ i \in DOMAIN stack' /\ i + 1 \in DOMAIN stack' /\ stack'[i + 1] = h
      BY <1>0, <1>6, <1>11, <3>0, OutersAre
    <3>2. Pending(i, k)'
      BY <1>1, <1>4, <1>5, <3>1 DEF Pending
    <3>. QED  BY <1>4, <3>1, <3>2 DEF Awaited
  <2>4. ASSUME NEW p \in DOMAIN made, p # q, NEW j \in Keys
        PROVE  Final(p, j)' \/ (made'[p][j] = Null /\ Awaited(p, j)')
    <3>1. made'[p][j] = made[p][j]
      BY <1>7, <2>4
    <3>2. CASE Final(p, j)
      <4>1. /\ map' = map /\ moved' = moved /\ Settled(p, j, made[p][j])
            /\ DOMAIN made \subseteq DOMAIN made' /\ DOMAIN leaf \subseteq DOMAIN leaf'
        BY <1>3, <1>7, <3>2 DEF Final
      <4>2. PICK x : x = made[p][j]
        OBVIOUS
      <4>3. Settled(p, j, x)'
        BY ONLY <4>1, <4>2, SettledStays
      <4>. QED  BY <3>1, <4>2, <4>3 DEF Final, Settled, Stands
    <3>3. CASE made[p][j] = Null /\ Awaited(p, j)
      <4>1. CASE p = f.p /\ j = k
        BY <2>3, <3>1, <3>3, <4>1 DEF Awaited, Pending
      <4>2. CASE p # f.p \/ j # k
        <5>1. Awaited(p, j)'
          BY <1>0, <1>3, <1>4, <1>6, <3>3, <4>2, AwaitedThen
        <5>. QED  BY <3>1, <3>3, <5>1
      <4>. QED  BY <4>1, <4>2
    <3>. QED  BY <1>0, <3>2, <3>3 DEF MadeInv
  <2>5. \A p \in DOMAIN made' : At(p)' \in Structs
    BY <1>0, <1>2, <1>7 DEF MadeInv
  <2>6. \A p \in DOMAIN leaf' : leaf'[p] \in Leaves /\ At(p)' = leaf'[p]
    BY <1>0, <1>2, <1>3 DEF MadeInv
  <2>7. ASSUME NEW p \in DOMAIN made', NEW j \in Keys
        PROVE  Final(p, j)' \/ (made'[p][j] = Null /\ Awaited(p, j)')
    <3>1. CASE p = q
      BY <1>8, <2>2, <3>1 DEF Final, Settled, Stands, Awaited, Pending
    <3>2. CASE p # q
      BY <1>7, <2>4, <3>2
    <3>. QED  BY <3>1, <3>2
  <2>. QED  BY <2>5, <2>6, <2>7 DEF MadeInv
<1>18. UnplacedInv'
  <2>. SUFFICES ASSUME NEW i \in DOMAIN stack', NEW j \in Keys,
                       j \in stack'[i].todo \/ Pending(i, j)', NEW b \in Keys
                PROVE  made'[stack'[i].p][b] # Append(stack'[i].p, j)
    BY DEF UnplacedInv
  <2>0. PICK n : n = Len(stack)
    OBVIOUS
  <2>1. CASE i \in 1 .. n - 1
    <3>1. /\ stack'[i] = stack[i] /\ i \in DOMAIN stack
          /\ (Pending(i, j)' <=> Pending(i, j))
      BY <1>0, <1>6, <2>0, <2>1, OutersAre
    <3>2. stack[i].p \in DOMAIN made /\ stack[i].p # q
      BY <1>0, <1>3, <1>10, <3>1 DEF CallsInv, CallOK, Making
    <3>3. made[stack[i].p][b] # Append(stack[i].p, j)
      BY <1>0, <1>3, <3>1 DEF UnplacedInv, Making
    <3>. QED  BY <1>7, <3>1, <3>2, <3>3
  <2>2. CASE i = n
    <3>1. /\ stack'[i] = g /\ i + 1 \in DOMAIN stack' /\ stack'[i + 1] = h
          /\ stack[n] = f /\ n \in DOMAIN stack /\ f.p \in DOMAIN made /\ f.p # q
      <4>1. stack'[i] = g
        BY <1>0, <1>6, <2>0, <2>2, OutersAre
      <4>2. i + 1 \in DOMAIN stack' /\ stack'[i + 1] = h
        BY <1>11, <2>0, <2>2
      <4>3. stack[n] = f /\ n \in DOMAIN stack /\ f.p \in DOMAIN made
        BY <1>0, <1>3, <2>0, MakingIs
      <4>. QED  BY <1>10, <4>1, <4>2, <4>3
    <3>2. j \in f.todo
      <4>1. Pending(i, j)' => j = k
        <5>1. Append(f.p, j) = Append(f.p, k) => j = k
          BY <1>2, PathsDiffer
        <5>2. Pending(i, j)' => stack'[i + 1].p = Append(stack'[i].p, j)
          BY DEF Pending
        <5>. QED  BY <1>1, <1>4, <1>5, <3>1, <5>1, <5>2
      <4>. QED  BY <1>2, <1>4, <3>1, <4>1
    <3>3. made[f.p][b] # Append(f.p, j)
      BY <1>0, <1>3, <3>1, <3>2 DEF UnplacedInv, Making
    <3>. QED  BY <1>4, <1>7, <3>1, <3>3
  <2>3. CASE i = n + 1
    <3>1. stack'[i] = h
      BY <1>11, <2>0, <2>3
    <3>2. Append(q, j) \in Seq(Keys)
      BY <1>2, PathsDiffer
    <3>. QED  BY <1>5, <1>8, <3>1, <3>2, NullIs
  <2>4. i \in 1 .. n - 1 \/ i = n \/ i = n + 1
    <3>1. n \in Nat /\ i \in 1 .. n + 1
      BY <1>10, <1>11, <2>0
    <3>. QED  BY ONLY <3>1
  <2>. QED  BY <2>1, <2>2, <2>3, <2>4
<1>19. CountedInv'
  <2>1. \A p \in DOMAIN made', j \in Keys : made'[p][j] \in Seq(Keys) => made'[p][j] \in DOMAIN counted
    BY <1>0, <1>7, <1>8, NullIs DEF CountedInv, Counts
  <2>2. ASSUME NEW p \in DOMAIN counted
        PROVE  counted[p] \in Nat /\ counted[p] >= Cardinality(PlacesIn(made', p))
    <3>1. p \in Seq(Keys) /\ IsFiniteSet(DOMAIN made)
      BY <1>0 DEF DataInv
    <3>2. PlacesIn(made', p) \subseteq PlacesIn(made, p)
      BY <1>7, <1>8, <3>1, NullIs DEF PlacesIn
    <3>3. /\ Cardinality(PlacesIn(made', p)) <= Cardinality(PlacesIn(made, p))
          /\ Cardinality(PlacesIn(made', p)) \in Nat /\ Cardinality(PlacesIn(made, p)) \in Nat
      BY <3>1, <3>2, PlacesFinite, FS_Subset, FS_CardinalityType
    <3>4. counted[p] \in Nat /\ counted[p] >= Cardinality(PlacesIn(made, p))
      BY <1>0 DEF CountedInv, Counts
    <3>. QED  BY <3>3, <3>4
  <2>3. Counts(made', counted')
    BY <1>3, <2>1, <2>2 DEF Counts
  <2>. QED  BY <2>3 DEF CountedInv, Counts, PlacesIn
<1>20. RefsInv'
  BY <1>0, <1>3, <1>11, RefsStay DEF Making
<1>. QED  BY <1>12, <1>13, <1>14, <1>15, <1>16, <1>17, <1>18, <1>19, <1>20 DEF Inv

\* The item that is read next.
LEMMA ItemRead ==
  ASSUME DataInv, PhaseInv, CallsInv, TodoInv, JsonInv, phase = "parse", NEW f, Top(f),
         NEW k \in f.todo
  PROVE  /\ f.p \in DOMAIN json /\ k \in Keys \ DOMAIN json[f.p].dups
         /\ json[f.p].items[k] = Item(map[f.s][k])
         /\ map[f.s][k] \in (Objs \cup Scalars)
         /\ map[f.s][k] \in Structs => Append(f.p, k) \in DOMAIN json
         /\ map[f.s][k] \in Objs => Stands(f.p, k, k)
<1>1. /\ f.s = At(f.p) /\ f.s \in Structs /\ f.p \in Seq(Keys) /\ f.todo \subseteq Keys
  BY InnermostIs
<1>2. f.p \in DOMAIN made /\ TodoOK(f)
  BY MakingIs DEF Making
<1>3. f.p \in DOMAIN json /\ k \in Keys /\ json[f.p].items[k] # Null
  BY <1>1, <1>2 DEF PhaseInv, TodoOK, Items
<1>4. ItemOK(f.p, k)
  BY <1>3 DEF JsonInv
<1>5. ~Writing(f.p, k) /\ (Begun(Append(f.p, k)) => Append(f.p, k) \in DOMAIN json)
  BY DEF Writing, Begun
<1>6. /\ k \notin DOMAIN json[f.p].dups /\ map[f.s][k] \notin {Null, Unknown}
      /\ json[f.p].items[k] = Item(map[f.s][k])
      /\ map[f.s][k] \in Structs => Append(f.p, k) \in DOMAIN json
  BY <1>1, <1>3, <1>4, <1>5 DEF ItemOK
<1>7. map[f.s][k] \in Values
  BY <1>1, <1>3 DEF DataInv
<1>8. map[f.s][k] \in Objs => Stands(f.p, k, k)
  BY <1>1, <1>3, <1>6, FreshKey
<1>. QED  BY <1>3, <1>6, <1>7, <1>8 DEF Values

\* An item is read.
LEMMA ParseStep ==
  ASSUME Inv, NEW f, Parse(f)
  PROVE  Inv'
<1>0. DataInv /\ PhaseInv /\ CallsInv /\ TodoInv /\ JsonInv
  BY DEF Inv
<1>1. PICK k, v, s :
         /\ k = FirstKey(f.todo) /\ v = json[f.p].items[k] /\ s = map[f.s][k]
         /\ Running(f, "parse") /\ f.todo # {}
         /\ \/ v = "struct" /\ Nested(f, k, s, Items(Append(f.p, k)))
            \/ v \in Leaves /\ NewLeaf(f, k, v)
            \/ v \in Scalars /\ SetScalar(f, k, v)
         /\ phase' = phase /\ map' = map /\ refs' = refs /\ json' = json /\ moved' = moved
  BY DEF Parse
<1>2. phase = "parse" /\ Top(f) /\ NextElement(f, k, s)
  BY <1>1 DEF Running, Top, NextElement, Making
<1>3. k \in f.todo
  BY <1>0, <1>2, NextIs
<1>4. /\ v = Item(s) /\ s \in Objs \cup Scalars
      /\ s \in Structs => Append(f.p, k) \in DOMAIN json
      /\ s \in Objs => Stands(f.p, k, k)
  BY <1>0, <1>1, <1>2, <1>3, ItemRead
<1>5. CASE v = "struct" /\ Nested(f, k, s, Items(Append(f.p, k)))
  <2>1. s \in Structs
    BY <1>4, <1>5, NullIs DEF Item
  <2>2. PICK todo : todo = Items(Append(f.p, k))
    OBVIOUS
  <2>3. todo \in SUBSET Keys
    BY <2>2 DEF Items
  <2>. QED  BY <1>2, <1>4, <1>5, <2>1, <2>2, <2>3, NestedStep DEF Objs
<1>6. CASE v \in Leaves /\ NewLeaf(f, k, v)
  <2>1. s = v /\ s \in Objs
    BY <1>4, <1>6, NullIs DEF Item, Objs
  <2>. QED  BY <1>2, <1>4, <1>6, <2>1, LeafStep
<1>7. CASE v \in Scalars /\ SetScalar(f, k, v)
  <2>1. s = v
    BY <1>4, <1>7, NullIs DEF Item, Objs
  <2>. QED  BY <1>2, <1>7, <2>1, ScalarStep
<1>. QED  BY <1>1, <1>5, <1>6, <1>7

\* An element is copied.
LEMMA CopyElementStep ==
  ASSUME Inv, NEW f, CopyElement(f)
  PROVE  Inv'
<1>0. DataInv /\ PhaseInv /\ CallsInv /\ TodoInv /\ JsonInv
  BY DEF Inv
<1>1. PICK k, v, j :
         /\ k = FirstKey(f.todo) /\ v = map[f.s][k] /\ j = OriginalKey(map[f.s], k)
         /\ Running(f, "copy") /\ f.todo # {}
         /\ \/ v \in Structs /\ j = k /\ Nested(f, k, v, Elements(v))
            \/ v \in Leaves /\ j = k /\ NewLeaf(f, k, v)
            \/ /\ v \in Objs /\ j # k
               /\ stack' = Append(Front(stack), [f EXCEPT !.todo = @ \ {k}])
               /\ SetNew(f.p, k, Append(f.p, j), 2)
               /\ leaf' = leaf
            \/ v \in Scalars \cup {Unknown} /\ SetScalar(f, k, v)
         /\ phase' = phase /\ map' = map /\ refs' = refs /\ json' = json /\ moved' = moved
  BY DEF CopyElement
<1>2. phase = "copy" /\ Top(f) /\ NextElement(f, k, v)
  BY <1>1 DEF Running, Top, NextElement, Making
<1>3. j = k => Stands(f.p, k, k)
  <2>1. f.s = At(f.p)
    BY <1>0, <1>2, NextIs
  <2>. QED  BY <1>1, <2>1 DEF Stands
<1>4. CASE v \in Structs /\ j = k /\ Nested(f, k, v, Elements(v))
  <2>1. PICK todo : todo = Elements(v)
    OBVIOUS
  <2>2. todo \in SUBSET Keys
    BY <2>1 DEF Elements
  <2>. QED  BY <1>2, <1>3, <1>4, <2>1, <2>2, NestedStep
<1>5. CASE v \in Leaves /\ j = k /\ NewLeaf(f, k, v)
  BY <1>2, <1>3, <1>5, LeafStep
<1>6. CASE /\ v \in Objs /\ j # k
           /\ stack' = Append(Front(stack), [f EXCEPT !.todo = @ \ {k}])
           /\ SetNew(f.p, k, Append(f.p, j), 2)
           /\ leaf' = leaf
  BY <1>1, <1>2, <1>6, RepeatStep
<1>7. CASE v \in Scalars \cup {Unknown} /\ SetScalar(f, k, v)
  BY <1>2, <1>7, ScalarStep
<1>. QED  BY <1>1, <1>4, <1>5, <1>6, <1>7

-----------------------------------------------------------------------------
(* A new struct is complete.                                               *)

\* Whatever is placed in a new struct is named by a path through it.
LEMMA LocalIs ==
  ASSUME DataInv, NEW q \in Seq(Keys), At(q) \in Structs, NEW k \in Keys, NEW x, Settled(q, k, x),
         x \in Seq(Keys)
  PROVE  \E j \in Keys : x = Append(q, j)
<1>1. map[At(q)][k] \in Values
  BY DEF DataInv
<1>2. x # Null /\ (map[At(q)][k] \notin Objs => x # map[At(q)][k])
  BY <1>1, NullIs DEF Values
<1>. QED  BY <1>2 DEF Settled

\* What call f leaves in the new structs, which others stay as they were.
Complete(f, new, cnt) ==
  /\ DOMAIN new = DOMAIN made /\ new \in [DOMAIN made -> NewElements]
  /\ \A q \in DOMAIN made : q # f.p => new[q] = made[q]
  /\ \A k \in Keys : Settled(f.p, k, new[f.p][k])
  /\ DOMAIN cnt \subseteq Seq(Keys) /\ Counts(new, cnt)

\* Call f ends, with these new structs.
Ends(f, new, cnt) ==
  /\ Making /\ Top(f) /\ Complete(f, new, cnt)
  /\ map' = map /\ refs' = refs /\ json' = json /\ leaf' = leaf /\ moved' = moved
  /\ stack' = Front(stack)

\* The last call ends.
LEMMA LastEnds ==
  ASSUME Inv, NEW f, NEW new, NEW cnt, Ends(f, new, cnt), ~(Len(stack) > 1),
         made' = new, counted' = cnt, phase' = "done"
  PROVE  Inv'
<1>0. /\ DataInv /\ PhaseInv /\ CallsInv /\ TodoInv /\ JsonInv /\ RefsInv
      /\ MadeInv /\ UnplacedInv /\ CountedInv
  BY DEF Inv
<1>1. /\ Making /\ Top(f)
      /\ map' = map /\ refs' = refs /\ json' = json /\ leaf' = leaf /\ moved' = moved
      /\ stack' = Front(stack)
  BY DEF Ends
<1>2. /\ DOMAIN new = DOMAIN made /\ \A q \in DOMAIN made : new[q] \in [Keys -> Seq(Keys) \cup Values]
      /\ \A q \in DOMAIN made : q # f.p => new[q] = made[q]
      /\ \A k \in Keys : Settled(f.p, k, new[f.p][k])
      /\ DOMAIN cnt \subseteq Seq(Keys) /\ Counts(new, cnt)
  BY DEF Ends, Complete, NewElements
<1>3. /\ Len(stack) = 1 /\ DOMAIN stack = {1} /\ stack[1] = f /\ f.p = <<>>
  <2>1. /\ Len(stack) \in Nat /\ Len(stack) > 0 /\ DOMAIN stack = 1 .. Len(stack)
        /\ f = stack[Len(stack)] /\ f.p \in Seq(Keys) /\ Len(f.p) = Len(stack) - 1
    BY <1>0, <1>1, InnermostIs
  <2>2. Len(stack) = 1
    <3>1. PICK n : n = Len(stack)
      OBVIOUS
    <3>2. n \in Nat /\ n > 0 /\ ~(n > 1)
      BY <2>1, <3>1
    <3>3. n = 1
      BY ONLY <3>2
    <3>. QED  BY <3>1, <3>3
  <2>3. f.p = <<>>
    BY <2>1, <2>2, EmptySeq
  <2>. QED  BY <2>1, <2>2, <2>3
<1>4. f.p \in DOMAIN made
  BY <1>0, <1>1, MakingIs
<1>5. stack' \in Seq(Frame) /\ DOMAIN stack' = {} /\ stack' = <<>>
  <2>1. stack \in Seq(Frame) /\ stack # <<>>
    BY <1>0, <1>1 DEF DataInv, Top
  <2>2. stack' \in Seq(Frame) /\ Len(stack') = 0 /\ DOMAIN stack' = 1 .. 0
    BY <1>1, <1>3, <2>1, TopIs
  <2>. QED  BY <2>2, EmptySeq
<1>6. made' = [q \in DOMAIN made' |-> made'[q]]
  <2>1. new \in [DOMAIN made -> [Keys -> Seq(Keys) \cup Values]]
    BY DEF Ends, Complete, NewElements
  <2>. QED  BY <2>1
<1>7. DataInv'
  BY <1>0, <1>1, <1>2, <1>5, <1>6 DEF DataInv
<1>8. PhaseInv'
  BY <1>2, <1>3, <1>4, <1>5 DEF PhaseInv
<1>9. CallsInv' /\ TodoInv' /\ UnplacedInv'
  BY <1>5 DEF CallsInv, TodoInv, UnplacedInv
<1>10. JsonInv'
  BY <1>0, <1>1, JsonStays DEF Making
<1>11. MadeInv'
  <2>1. ASSUME NEW q \in DOMAIN made, NEW k \in Keys  PROVE Final(q, k)'
    <3>1. Settled(q, k, new[q][k])
      <4>1. CASE q = f.p
        BY <1>2, <4>1
      <4>2. CASE q # f.p
        <5>1. ~Awaited(q, k)
          BY <1>3, <4>2 DEF Awaited
        <5>2. Final(q, k)
          BY <1>0, <5>1 DEF MadeInv
        <5>. QED  BY <1>2, <4>2, <5>2 DEF Final
      <4>. QED  BY <4>1, <4>2
    <3>2. PICK x : x = new[q][k]
      OBVIOUS
    <3>3. /\ map' = map /\ moved' = moved /\ Settled(q, k, x)
          /\ DOMAIN made \subseteq DOMAIN made' /\ DOMAIN leaf \subseteq DOMAIN leaf'
      BY <1>1, <1>2, <3>1, <3>2
    <3>4. Settled(q, k, x)'
      BY ONLY <3>3, SettledStays
    <3>. QED  BY <3>2, <3>4 DEF Final, Settled, Stands
  <2>2. \A p : At(p)' = At(p)
    BY <1>1, AtKept
  <2>. QED  BY <1>0, <1>1, <1>2, <2>1, <2>2 DEF MadeInv
<1>12. CountedInv'
  BY <1>2 DEF CountedInv, Counts, PlacesIn
<1>13. RefsInv'
  BY <1>0, <1>1, <1>5, RefsStay
<1>. QED  BY <1>7, <1>8, <1>9, <1>10, <1>11, <1>12, <1>13 DEF Inv

\* A call around it goes on: its struct is set under the key it waits for.
LEMMA CallerIs ==
  ASSUME DataInv, CallsInv, NEW f, Making, Top(f), NEW n, n = Len(stack), n > 1, NEW p, p = Front(f.p),
         NEW k, k = Last(f.p)
  PROVE  /\ n \in Nat /\ DOMAIN stack = 1 .. n /\ stack[n] = f
         /\ n - 1 \in 1 .. n - 1 /\ n - 1 \in DOMAIN stack /\ (n - 1) + 1 = n
         /\ stack[n - 1].p = p /\ Pending(n - 1, k)
         /\ p \in Seq(Keys) /\ p \in DOMAIN made /\ At(p) \in Structs
         /\ k \in Keys /\ k \notin stack[n - 1].todo
         /\ f.p = Append(p, k) /\ f.p \in Seq(Keys) /\ f.p # p
         /\ map[At(p)][k] \in Structs /\ Stands(p, k, k)
         /\ \A i \in 1 .. n - 1 : i \in DOMAIN stack /\ stack[i].p # f.p /\ (stack[i].p = p => i = n - 1)
<1>1. /\ n \in Nat /\ DOMAIN stack = 1 .. n /\ stack[n] = f /\ f.p \in Seq(Keys)
      /\ \A i \in DOMAIN stack : Len(stack[i].p) = i - 1
  BY InnermostIs
<1>2. n - 1 \in 1 .. n - 1 /\ n - 1 \in 1 .. n /\ (n - 1) + 1 = n /\ n \in 1 .. n
  <2>1. n \in Nat /\ n > 1
    BY <1>1
  <2>. QED  BY ONLY <2>1
<1>3. PICK i : i = n - 1
  OBVIOUS
<1>4. /\ i \in DOMAIN stack /\ i + 1 \in DOMAIN stack /\ stack[i + 1] = f
  BY <1>1, <1>2, <1>3
<1>5. PICK j \in Keys \ stack[i].todo :
         /\ stack[i + 1].p = Append(stack[i].p, j)
         /\ map[stack[i].s][j] \in Structs
         /\ Stands(stack[i].p, j, j)
  BY <1>4, OuterIs
<1>6. stack[i].p \in Seq(Keys) /\ stack[i].s \in Structs /\ stack[i].s = At(stack[i].p)
  BY <1>4, OuterIs
<1>7. f.p = Append(stack[i].p, j) /\ j \in Keys
  BY <1>4, <1>5
<1>8. stack[i].p = p /\ j = k /\ f.p # p
  <2>1. Front(f.p) = stack[i].p /\ Last(f.p) = j /\ f.p # stack[i].p
    BY <1>6, <1>7, PathsDiffer
  <2>. QED  BY <2>1
<1>9. p \in DOMAIN made
  BY <1>4, <1>8 DEF CallsInv, CallOK, Making
<1>10. ASSUME NEW e \in 1 .. n - 1
       PROVE  e \in DOMAIN stack /\ stack[e].p # f.p /\ (stack[e].p = p => e = n - 1)
  <2>1. e \in 1 .. n /\ e # n
    <3>1. n \in Nat /\ n > 1
      BY <1>1
    <3>. QED  BY ONLY <3>1
  <2>2. /\ Len(stack[e].p) = e - 1 /\ Len(f.p) = n - 1 /\ Len(p) = i - 1
    BY <1>1, <1>2, <1>4, <1>8, <2>1
  <2>3. e \in Nat /\ n \in Nat /\ i = n - 1
    BY <1>1, <1>3
  <2>4. e - 1 # n - 1 /\ (e - 1 = i - 1 => e = n - 1)
    BY ONLY <2>1, <2>3
  <2>. QED  BY <1>1, <2>1, <2>2, <2>4
<1>. QED  BY <1>1, <1>2, <1>3, <1>4, <1>5, <1>6, <1>7, <1>8, <1>9, <1>10 DEF Pending

\* The struct of the call that ends is placed nowhere yet.
LEMMA NotPlaced ==
  ASSUME Inv, NEW f, NEW new, NEW cnt, Ends(f, new, cnt), Len(stack) > 1
  PROVE  \A q \in DOMAIN new, j \in Keys : new[q][j] # f.p
<1>0. DataInv /\ CallsInv /\ MadeInv /\ UnplacedInv
  BY DEF Inv
<1>1. /\ Making /\ Top(f) /\ DOMAIN new = DOMAIN made
      /\ \A q \in DOMAIN made : q # f.p => new[q] = made[q]
      /\ \A j \in Keys : Settled(f.p, j, new[f.p][j])
  BY DEF Ends, Complete
<1>2. PICK n, p, k : n = Len(stack) /\ n > 1 /\ p = Front(f.p) /\ k = Last(f.p)
  OBVIOUS
<1>3. /\ n - 1 \in DOMAIN stack /\ stack[n - 1].p = p /\ Pending(n - 1, k)
      /\ p \in Seq(Keys) /\ k \in Keys /\ f.p = Append(p, k) /\ f.p \in Seq(Keys) /\ f.p # p
  BY <1>0, <1>1, <1>2, CallerIs
<1>. SUFFICES ASSUME NEW q \in DOMAIN made, NEW j \in Keys, new[q][j] = f.p
              PROVE  FALSE
  BY <1>1
<1>4. q \in Seq(Keys) /\ At(q) \in Structs
  BY <1>0 DEF DataInv, MadeInv
<1>5. Settled(q, j, f.p)
  <2>1. CASE q = f.p
    BY <1>1, <2>1
  <2>2. CASE q # f.p
    <3>1. made[q][j] = f.p /\ f.p # Null
      BY <1>1, <1>3, <2>2, NullIs
    <3>. QED  BY <1>0, <3>1 DEF MadeInv, Final
  <2>. QED  BY <2>1, <2>2
<1>6. PICK i \in Keys : f.p = Append(q, i)
  <2>1. PICK x : x = f.p
    OBVIOUS
  <2>2. DataInv /\ q \in Seq(Keys) /\ At(q) \in Structs /\ Settled(q, j, x) /\ x \in Seq(Keys)
    BY <1>0, <1>3, <1>4, <1>5, <2>1
  <2>3. \E i \in Keys : x = Append(q, i)
    BY ONLY <2>2, j \in Keys, LocalIs
  <2>. QED  BY <2>1, <2>3
<1>7. q = p
  <2>1. Append(p, k) = Append(q, i) => p = q
    BY <1>3, <1>4, PathsDiffer
  <2>. QED  BY <1>3, <1>6, <2>1
<1>8. made[p][j] # Append(p, k)
  BY <1>0, <1>1, <1>3 DEF UnplacedInv, Making
<1>. QED  BY <1>1, <1>3, <1>7, <1>8

\* It is counted when it is placed.
LEMMA CountsOnce ==
  ASSUME NEW m, NEW new, NEW cnt, NEW c, IsFiniteSet(DOMAIN m), DOMAIN cnt \subseteq Seq(Keys),
         Counts(m, cnt), NEW p \in DOMAIN m, NEW k \in Keys, NEW x \in Seq(Keys), IsSet(m, new, p, k, x),
         \A q \in DOMAIN m, j \in Keys : m[q][j] # x,
         c = Bind(cnt, x, 1)
  PROVE  Counts(new, c)
<1>1. PICK d : d = [q \in (DOMAIN cnt) \ {x} |-> cnt[q]]
  OBVIOUS
<1>2. DOMAIN d \subseteq Seq(Keys) /\ x \notin DOMAIN d
  BY <1>1
<1>3. Counts(m, d)
  BY <1>1 DEF Counts
<1>4. c = Bind(d, x, (IF x \in DOMAIN d THEN d[x] ELSE 0) + 1)
  <2>1. (IF x \in DOMAIN d THEN d[x] ELSE 0) + 1 = 1
    BY <1>2
  <2>2. c = Bind(d, x, 1)
    BY <1>1 DEF Bind
  <2>. QED  BY <2>1, <2>2
<1>5. 1 \in Nat \ {0}
  OBVIOUS
<1>6. \E n \in Nat \ {0} : c = Bind(d, x, (IF x \in DOMAIN d THEN d[x] ELSE 0) + n)
  BY <1>4, <1>5
<1>. QED  BY <1>2, <1>3, <1>6, CountsThen

\* What waited for another key waits still.
LEMMA AwaitedOutside ==
  ASSUME DataInv, CallsInv, NEW f, Making, Top(f), stack' = Front(stack), Len(stack) > 1,
         phase' = phase, json' = json,
         NEW q, NEW j \in Keys, Awaited(q, j), q # f.p, q # Front(f.p) \/ j # Last(f.p)
  PROVE  Awaited(q, j)'
<1>1. PICK n, p, k : n = Len(stack) /\ n > 1 /\ p = Front(f.p) /\ k = Last(f.p)
  OBVIOUS
<1>2. /\ n \in Nat /\ DOMAIN stack = 1 .. n /\ stack[n] = f /\ (n - 1) + 1 = n
      /\ stack[n - 1].p = p /\ p \in Seq(Keys) /\ k \in Keys /\ f.p = Append(p, k)
  BY <1>1, CallerIs
<1>3. DOMAIN stack' = 1 .. n - 1 /\ \A i \in 1 .. n - 1 : stack'[i] = stack[i]
  BY <1>1, StackThen DEF Returns
<1>4. PICK i \in DOMAIN stack :
         /\ stack[i].p = q
         /\ j \in stack[i].todo \/ Pending(i, j) \/ (phase = "parse" /\ j \in DOMAIN json[q].dups)
  BY DEF Awaited
<1>5. i \in 1 .. n - 1
  <2>1. i # n
    BY <1>2, <1>4
  <2>. QED  BY <1>2, <2>1
<1>6. i \in DOMAIN stack' /\ stack'[i] = stack[i]
  BY <1>3, <1>5
<1>7. Pending(i, j) => Pending(i, j)'
  <2>1. CASE i = n - 1
    <3>1. stack[i + 1].p = Append(p, k) /\ stack[i].p = p
      BY <1>2, <2>1
    <3>2. Append(p, j) = Append(p, k) => j = k
      BY <1>2, PathsDiffer
    <3>3. ~Pending(i, j)
      BY <1>1, <1>4, <3>1, <3>2 DEF Pending
    <3>. QED  BY <3>3
  <2>2. CASE i # n - 1
    <3>1. i + 1 \in 1 .. n - 1
      BY <1>2, <1>5, <2>2
    <3>. QED  BY <1>3, <1>6, <3>1 DEF Pending
  <2>. QED  BY <2>1, <2>2
<1>. QED  BY <1>4, <1>6, <1>7 DEF Awaited

\* A call ends within another.
LEMMA InnerEnds ==
  ASSUME Inv, NEW f, NEW new, NEW cnt, Ends(f, new, cnt), Len(stack) > 1,
         made' = [new EXCEPT ![Front(f.p)][Last(f.p)] = f.p],
         counted' = Bind(cnt, f.p, 1), phase' = phase
  PROVE  Inv'
<1>0. /\ DataInv /\ PhaseInv /\ CallsInv /\ TodoInv /\ JsonInv /\ RefsInv
      /\ MadeInv /\ UnplacedInv /\ CountedInv
  BY DEF Inv
<1>1. /\ Making /\ Top(f)
      /\ map' = map /\ refs' = refs /\ json' = json /\ leaf' = leaf /\ moved' = moved
      /\ stack' = Front(stack)
  BY DEF Ends
<1>2. /\ DOMAIN new = DOMAIN made /\ \A q \in DOMAIN made : new[q] \in NewElements
      /\ \A q \in DOMAIN made : q # f.p => new[q] = made[q]
      /\ \A j \in Keys : Settled(f.p, j, new[f.p][j])
      /\ DOMAIN cnt \subseteq Seq(Keys) /\ Counts(new, cnt)
  BY DEF Ends, Complete
<1>3. PICK n, p, k : n = Len(stack) /\ n > 1 /\ p = Front(f.p) /\ k = Last(f.p)
  OBVIOUS
<1>4. /\ n \in Nat /\ DOMAIN stack = 1 .. n /\ stack[n] = f
      /\ n - 1 \in 1 .. n - 1 /\ (n - 1) + 1 = n
      /\ stack[n - 1].p = p
      /\ p \in Seq(Keys) /\ p \in DOMAIN made /\ At(p) \in Structs
      /\ k \in Keys /\ k \notin stack[n - 1].todo
      /\ f.p = Append(p, k) /\ f.p \in Seq(Keys) /\ f.p # p
      /\ map[At(p)][k] \in Structs /\ Stands(p, k, k)
      /\ \A i \in 1 .. n - 1 : i \in DOMAIN stack /\ stack[i].p # f.p /\ (stack[i].p = p => i = n - 1)
  BY <1>0, <1>1, <1>3, CallerIs
<1>5. /\ IsSet(new, made', p, k, f.p) /\ DOMAIN made' = DOMAIN made
      /\ \A q \in DOMAIN made : made'[q] \in NewElements
      /\ made' \in [DOMAIN made -> NewElements]
  <2>1. PICK x : x = f.p
    OBVIOUS
  <2>2. /\ \A q \in DOMAIN new : new[q] \in NewElements
        /\ p \in DOMAIN new /\ k \in Keys /\ x \in Seq(Keys) \cup Values
        /\ made' = Setting(new, p, k, x)
    BY <1>2, <1>3, <1>4, <2>1 DEF Setting
  <2>3. /\ IsSet(new, made', p, k, x) /\ DOMAIN made' = DOMAIN new
        /\ \A q \in DOMAIN new : made'[q] \in NewElements
        /\ made' \in [DOMAIN new -> NewElements]
    BY ONLY <2>2, SetIs
  <2>. QED  BY <1>2, <2>1, <2>3
<1>6. \A q \in DOMAIN made, j \in Keys : made'[q][j] = IF q = p /\ j = k THEN f.p ELSE new[q][j]
  BY <1>2, <1>5 DEF IsSet
<1>7. /\ stack' \in Seq(Frame) /\ DOMAIN stack' = 1 .. n - 1 /\ stack' # <<>>
      /\ \A i \in 1 .. n - 1 : stack'[i] = stack[i]
  <2>1. /\ stack' \in Seq(Frame) /\ DOMAIN stack' = 1 .. n - 1
        /\ \A i \in 1 .. n - 1 : stack'[i] = stack[i]
    BY <1>0, <1>1, <1>3, StackThen DEF Returns
  <2>2. n - 1 \in Nat /\ n - 1 > 0
    BY ONLY <1>3, <1>4
  <2>. QED  BY <2>1, <2>2, NotEmpty
<1>8. Grown /\ OthersKept(f) /\ Returns(f)
  BY <1>1, <1>5 DEF Grown, OthersKept, Making, Returns
<1>9. DataInv'
  <2>1. DOMAIN counted' \subseteq Seq(Keys)
    BY <1>2, <1>4 DEF Bind
  <2>. QED  BY <1>0, <1>1, <1>5, <1>7, <2>1 DEF DataInv, NewElements
<1>10. PhaseInv'
  BY <1>0, <1>1, <1>5, <1>7 DEF PhaseInv, Making
<1>11. CallsInv' /\ TodoInv'
  BY <1>0, <1>8, CallsPopped, TodosThen
<1>12. JsonInv' /\ RefsInv'
  BY <1>0, <1>1, <1>7, JsonStays, RefsStay DEF Making
<1>13. \A q : At(q)' = At(q)
  BY <1>1, AtKept
<1>14. MadeInv'
  <2>1. ASSUME NEW q, NEW j, NEW x, Settled(q, j, x), x = made'[q][j]  PROVE Final(q, j)'
    <3>1. /\ map' = map /\ moved' = moved /\ Settled(q, j, x)
          /\ DOMAIN made \subseteq DOMAIN made' /\ DOMAIN leaf \subseteq DOMAIN leaf'
      BY <1>1, <1>5, <2>1
    <3>2. Settled(q, j, x)'
      BY ONLY <3>1, SettledStays
    <3>. QED  BY <2>1, <3>2 DEF Final, Settled, Stands
  <2>2. ASSUME NEW q \in DOMAIN made, NEW j \in Keys
        PROVE  Final(q, j)' \/ (made'[q][j] = Null /\ Awaited(q, j)')
    <3>1. CASE q = p /\ j = k
      <4>1. f.p \in DOMAIN made
        BY <1>0, <1>1, MakingIs
      <4>2. Settled(p, k, f.p)
        BY <1>4, <4>1, SerialAssumption DEF Settled, Objs
      <4>. QED  BY <1>6, <2>1, <3>1, <4>2
    <3>2. CASE q = f.p
      <4>1. q # p
        BY <1>4, <3>2
      <4>2. made'[q][j] = new[q][j]
        BY <1>6, <4>1
      <4>3. Settled(q, j, new[q][j])
        BY <1>2, <3>2
      <4>. QED  BY <2>1, <4>2, <4>3
    <3>3. CASE q # f.p /\ (q # p \/ j # k)
      <4>1. made'[q][j] = made[q][j]
        BY <1>2, <1>6, <3>3
      <4>2. CASE Final(q, j)
        BY <2>1, <4>1, <4>2 DEF Final
      <4>3. CASE made[q][j] = Null /\ Awaited(q, j)
        <5>1. Awaited(q, j)'
          BY <1>0, <1>1, <1>3, <3>3, <4>3, AwaitedOutside
        <5>. QED  BY <4>1, <4>3, <5>1
      <4>. QED  BY <1>0, <4>2, <4>3 DEF MadeInv
    <3>. QED  BY <3>1, <3>2, <3>3
  <2>. QED  BY <1>0, <1>1, <1>5, <1>13, <2>2 DEF MadeInv
<1>15. UnplacedInv'
  <2>. SUFFICES ASSUME NEW i \in 1 .. n - 1, NEW j \in Keys,
                       j \in stack[i].todo \/ Pending(i, j)', NEW b \in Keys
                PROVE  made'[stack[i].p][b] # Append(stack[i].p, j)
    BY <1>7 DEF UnplacedInv
  <2>1. i \in DOMAIN stack /\ stack[i].p # f.p /\ stack[i].p \in DOMAIN made
    BY <1>0, <1>1, <1>4 DEF CallsInv, CallOK, Making
  <2>2. Pending(i, j)' => i # n - 1 /\ Pending(i, j)
    <3>1. Pending(i, j)' => i + 1 \in 1 .. n - 1
      BY <1>7 DEF Pending
    <3>2. i + 1 \in 1 .. n - 1 => i # n - 1 /\ i + 1 \in DOMAIN stack /\ stack'[i + 1] = stack[i + 1]
      BY <1>4, <1>7
    <3>. QED  BY <1>7, <3>1, <3>2 DEF Pending
  <2>3. made[stack[i].p][b] # Append(stack[i].p, j)
    BY <1>0, <1>1, <2>1, <2>2 DEF UnplacedInv, Making
  <2>4. CASE stack[i].p = p /\ b = k
    <3>1. i = n - 1 /\ j # k
      BY <1>4, <2>2, <2>4
    <3>2. Append(p, k) # Append(p, j)
      BY <1>4, <3>1, PathsDiffer
    <3>3. made'[p][k] = f.p
      <4>1. p \in DOMAIN made /\ k \in Keys
        BY <1>4
      <4>2. made'[p][k] = IF p = p /\ k = k THEN f.p ELSE new[p][k]
        BY ONLY <1>6, <4>1
      <4>. QED  BY ONLY <4>2
    <3>. QED  BY <1>4, <2>4, <3>2, <3>3
  <2>5. CASE stack[i].p # p \/ b # k
    BY <1>2, <1>6, <2>1, <2>3, <2>5
  <2>. QED  BY <2>4, <2>5
<1>16. CountedInv'
  <2>1. PICK x : x = f.p
    OBVIOUS
  <2>2. \A q \in DOMAIN new, j \in Keys : new[q][j] # x
    BY <2>1, NotPlaced
  <2>3. /\ IsFiniteSet(DOMAIN new) /\ DOMAIN cnt \subseteq Seq(Keys) /\ Counts(new, cnt)
        /\ p \in DOMAIN new /\ k \in Keys /\ x \in Seq(Keys) /\ IsSet(new, made', p, k, x)
        /\ counted' = Bind(cnt, x, 1)
    BY <1>0, <1>2, <1>4, <1>5, <2>1 DEF DataInv
  <2>4. Counts(made', counted')
    BY ONLY <2>2, <2>3, CountsOnce
  <2>. QED  BY <2>4 DEF CountedInv, Counts, PlacesIn
<1>. QED  BY <1>9, <1>10, <1>11, <1>12, <1>14, <1>15, <1>16 DEF Inv

\* A call that leaves a complete struct returns.
LEMMA ReturnStep ==
  ASSUME Inv, NEW f, NEW new, NEW cnt, Return(f, new, cnt), Making, Top(f), Complete(f, new, cnt),
         map' = map, refs' = refs, json' = json, leaf' = leaf, moved' = moved
  PROVE  Inv'
<1>1. Ends(f, new, cnt)
  BY DEF Ends, Return
<1>2. CASE Len(stack) > 1
  BY <1>1, <1>2, InnerEnds DEF Return
<1>3. CASE ~(Len(stack) > 1)
  BY <1>1, <1>3, LastEnds DEF Return
<1>. QED  BY <1>2, <1>3

\* A copy is complete.
LEMMA CopiedStep ==
  ASSUME Inv, NEW f, Copied(f)
  PROVE  Inv'
<1>0. DataInv /\ CallsInv /\ MadeInv /\ CountedInv
  BY DEF Inv
<1>1. /\ phase = "copy" /\ Making /\ Top(f) /\ f.todo = {} /\ Return(f, made, counted)
      /\ map' = map /\ refs' = refs /\ json' = json /\ leaf' = leaf /\ moved' = moved
  BY DEF Copied, Running, Making, Top
<1>2. f.p \in DOMAIN made /\ \A k : ~Awaited(f.p, k)
  BY <1>0, <1>1, MakingIs
<1>3. \A k \in Keys : Settled(f.p, k, made[f.p][k])
  BY <1>0, <1>2 DEF MadeInv, Final
<1>4. Complete(f, made, counted)
  BY <1>0, <1>3 DEF Complete, DataInv, NewElements, CountedInv
<1>. QED  BY <1>1, <1>4, ReturnStep

\* The keys of D that are set to q, when those of struct r are set to what the
\* keys o[D] hold.
SetTo(m, r, D, o, q) == {k \in D : m[r][o[k]] = q}

\* Keys D of struct r get what the keys o[D] hold, and each value so repeated is
\* counted once more: the counts cover the places again.
LEMMA CountsRepeated ==
  ASSUME NEW m, NEW new, NEW cnt, NEW c, IsFiniteSet(DOMAIN m), Counts(m, cnt), DOMAIN new = DOMAIN m,
         NEW r \in DOMAIN m, NEW D \in SUBSET Keys, NEW o, \A k \in D : o[k] \in Keys,
         \A q \in DOMAIN m : q # r => new[q] = m[q],
         \A k \in Keys : new[r][k] = IF k \in D THEN m[r][o[k]] ELSE m[r][k],
         DOMAIN c = DOMAIN cnt,
         \A q \in DOMAIN cnt : c[q] = cnt[q] + Cardinality(SetTo(m, r, D, o, q))
  PROVE  Counts(new, c)
<1>1. /\ \A q \in DOMAIN m, j \in Keys : m[q][j] \in Seq(Keys) => m[q][j] \in DOMAIN cnt
      /\ \A q \in DOMAIN cnt : cnt[q] \in Nat /\ cnt[q] >= Cardinality(PlacesIn(m, q))
  BY DEF Counts
<1>2. ASSUME NEW q \in DOMAIN new, NEW j \in Keys, new[q][j] \in Seq(Keys)
      PROVE  new[q][j] \in DOMAIN c
  <2>1. CASE q # r
    BY <1>1, <1>2, <2>1
  <2>2. CASE q = r
    <3>1. PICK i \in Keys : new[r][j] = m[r][i]
      OBVIOUS
    <3>. QED  BY <1>1, <1>2, <2>2, <3>1
  <2>. QED  BY <2>1, <2>2
<1>3. ASSUME NEW q \in DOMAIN cnt
      PROVE  c[q] \in Nat /\ c[q] >= Cardinality(PlacesIn(new, q))
  <2>1. PICK A, K, B, P : /\ A = PlacesIn(m, q) /\ K = SetTo(m, r, D, o, q)
                          /\ B = {r} \X K /\ P = PlacesIn(new, q)
    OBVIOUS
  <2>2. P \subseteq A \cup B
    BY <2>1 DEF PlacesIn, SetTo
  <2>3. IsFiniteSet(A) /\ IsFiniteSet(K) /\ Cardinality(A) \in Nat /\ Cardinality(K) \in Nat
    <3>1. IsFiniteSet(A)
      BY <2>1, PlacesFinite
    <3>2. K \subseteq Keys
      BY <2>1 DEF SetTo
    <3>3. IsFiniteSet(K)
      BY <3>2, SerialAssumption, FS_Subset
    <3>. QED  BY ONLY <3>1, <3>3, FS_CardinalityType
  <2>4. IsFiniteSet(B) /\ Cardinality(B) = Cardinality(K)
    <3>1. IsFiniteSet({r}) /\ Cardinality({r}) = 1
      BY FS_Singleton
    <3>2. IsFiniteSet({r} \X K) /\ Cardinality({r} \X K) = Cardinality({r}) * Cardinality(K)
      BY ONLY <2>3, <3>1, FS_Product
    <3>. QED  BY <2>1, <2>3, <3>1, <3>2
  <2>5. /\ IsFiniteSet(A \cup B)
        /\ Cardinality(A \cup B) = Cardinality(A) + Cardinality(B) - Cardinality(A \cap B)
    BY ONLY <2>3, <2>4, FS_Union
  <2>6. Cardinality(A \cap B) \in Nat
    <3>1. A \cap B \subseteq A
      OBVIOUS
    <3>2. IsFiniteSet(A \cap B)
      BY ONLY <2>3, <3>1, FS_Subset
    <3>. QED  BY ONLY <3>2, FS_CardinalityType
  <2>7. Cardinality(P) <= Cardinality(A \cup B) /\ Cardinality(P) \in Nat
    <3>1. IsFiniteSet(P) /\ Cardinality(P) <= Cardinality(A \cup B)
      BY ONLY <2>2, <2>5, FS_Subset
    <3>. QED  BY ONLY <3>1, FS_CardinalityType
  <2>8. c[q] = cnt[q] + Cardinality(K) /\ cnt[q] \in Nat /\ cnt[q] >= Cardinality(A)
    BY <1>1, <2>1
  <2>9. PICK x, a, b, e, u, w : /\ x = cnt[q] /\ a = Cardinality(A) /\ b = Cardinality(K)
                                /\ e = Cardinality(A \cap B) /\ u = Cardinality(A \cup B)
                                /\ w = Cardinality(P)
    OBVIOUS
  <2>10. /\ x \in Nat /\ a \in Nat /\ b \in Nat /\ e \in Nat /\ w \in Nat
         /\ u = a + b - e /\ w <= u /\ x >= a /\ c[q] = x + b
    BY <2>3, <2>4, <2>5, <2>6, <2>7, <2>8, <2>9
  <2>11. x + b \in Nat /\ x + b >= w
    BY ONLY <2>10
  <2>. QED  BY <2>1, <2>9, <2>10, <2>11
<1>. QED  BY <1>2, <1>3 DEF Counts

\* A struct that is read is complete when its duplicates are set.
LEMMA ParseDuplicatesStep ==
  ASSUME Inv, NEW f, ParseDuplicates(f)
  PROVE  Inv'
<1>0. DataInv /\ PhaseInv /\ CallsInv /\ JsonInv /\ MadeInv /\ CountedInv
  BY DEF Inv
<1>1. PICK r, d, new, cnt :
         /\ r = f.p /\ d = json[f.p].dups
         /\ new = [made EXCEPT ![f.p] = DuplicatesSet(f.p)]
         /\ cnt = [q \in DOMAIN counted |->
                     counted[q] + Cardinality({k \in DOMAIN d : made[f.p][d[k]] = q})]
         /\ Running(f, "parse") /\ f.todo = {} /\ Return(f, new, cnt)
         /\ map' = map /\ refs' = refs /\ json' = json /\ leaf' = leaf /\ moved' = moved
  BY DEF ParseDuplicates
<1>2. phase = "parse" /\ Making /\ Top(f)
  BY <1>1 DEF Running, Making, Top
<1>3. /\ r \in DOMAIN made /\ made[r] \in [Keys -> Seq(Keys) \cup Values]
      /\ \A k : Awaited(r, k) => k \in DOMAIN d
  BY <1>0, <1>1, <1>2, MakingIs
<1>4. PICK m : m = map[At(r)]
  OBVIOUS
<1>5. /\ d = NamedByKey(m, DOMAIN d) /\ DOMAIN d \subseteq Repeats(m)
  <2>1. r \in DOMAIN json
    BY <1>0, <1>2, <1>3 DEF PhaseInv
  <2>2. DupsOK(r)
    BY <1>0, <2>1 DEF JsonInv
  <2>. QED  BY <1>1, <1>4, <2>2 DEF DupsOK
<1>6. ASSUME NEW k \in DOMAIN d
      PROVE  /\ k \in Keys /\ d[k] \in Keys /\ d[k] \notin DOMAIN d
             /\ m[k] \in Objs /\ m[d[k]] = m[k] /\ OriginalKey(m, d[k]) = OriginalKey(m, k)
  <2>1. k \in Keys /\ m[k] \in Objs
    BY <1>5 DEF Repeats
  <2>2. d[k] = OriginalKey(m, k)
    BY ONLY <1>5, k \in DOMAIN d DEF NamedByKey
  <2>3. /\ OriginalKey(m, k) \in Keys /\ m[OriginalKey(m, k)] = m[k]
        /\ OriginalKey(m, OriginalKey(m, k)) = OriginalKey(m, k)
    BY <2>1, OriginalIs
  <2>4. d[k] \notin Repeats(m)
    BY <2>2, <2>3 DEF Repeats
  <2>. QED  BY <1>5, <2>1, <2>2, <2>3, <2>4
<1>7. /\ DOMAIN new = DOMAIN made /\ \A q \in DOMAIN made : q # r => new[q] = made[q]
      /\ \A k \in Keys : new[r][k] = IF k \in DOMAIN d THEN made[r][d[k]] ELSE made[r][k]
      /\ new \in [DOMAIN made -> NewElements]
  <2>1. PICK e : e = DuplicatesSet(r)
    OBVIOUS
  <2>2. e = [k \in Keys |-> IF k \in DOMAIN d THEN made[r][d[k]] ELSE made[r][k]]
    BY <1>1, <2>1 DEF DuplicatesSet
  <2>3. e \in NewElements
    BY <1>3, <1>6, <2>2 DEF NewElements
  <2>4. made \in [DOMAIN made -> NewElements]
    BY <1>0 DEF DataInv, NewElements
  <2>5. new = [made EXCEPT ![r] = e]
    BY <1>1, <2>1
  <2>6. DOMAIN new = DOMAIN made /\ (\A q \in DOMAIN made : q # r => new[q] = made[q]) /\ new[r] = e
    BY ONLY <1>3, <2>4, <2>5
  <2>7. new \in [DOMAIN made -> NewElements]
    BY ONLY <2>3, <2>4, <2>5
  <2>. QED  BY <2>2, <2>6, <2>7
<1>8. ASSUME NEW k \in Keys  PROVE Settled(r, k, new[r][k])
  <2>1. CASE k \notin DOMAIN d
    <3>1. Final(r, k)
      BY <1>0, <1>3, <2>1 DEF MadeInv
    <3>. QED  BY <1>7, <2>1, <3>1 DEF Final
  <2>2. CASE k \in DOMAIN d
    <3>1. PICK o : o = d[k]
      OBVIOUS
    <3>2. /\ o \in Keys /\ o \notin DOMAIN d /\ m[o] = m[k] /\ m[k] \in Objs
          /\ OriginalKey(m, o) = OriginalKey(m, k)
      BY <1>6, <2>2, <3>1
    <3>3. Final(r, o)
      BY <1>0, <1>3, <3>2 DEF MadeInv
    <3>4. PICK j \in Keys : /\ Stands(r, o, j)
                            /\ made[r][o] = Append(r, j)
                            /\ m[o] \in Structs => made[r][o] \in DOMAIN made
                            /\ m[o] \in Leaves => made[r][o] \in DOMAIN leaf
      BY <1>4, <3>2, <3>3 DEF Final, Settled
    <3>5. Stands(r, k, j)
      BY <1>4, <3>2, <3>4 DEF Stands
    <3>6. new[r][k] = made[r][o]
      BY <1>7, <2>2, <3>1
    <3>. QED  BY <1>4, <3>2, <3>4, <3>5, <3>6 DEF Settled
  <2>. QED  BY <2>1, <2>2
<1>9. Counts(new, cnt)
  <2>1. PICK D : D = DOMAIN d
    OBVIOUS
  <2>2. /\ IsFiniteSet(DOMAIN made) /\ Counts(made, counted) /\ DOMAIN new = DOMAIN made
        /\ r \in DOMAIN made /\ D \in SUBSET Keys /\ \A k \in D : d[k] \in Keys
        /\ \A q \in DOMAIN made : q # r => new[q] = made[q]
        /\ \A k \in Keys : new[r][k] = IF k \in D THEN made[r][d[k]] ELSE made[r][k]
        /\ DOMAIN cnt = DOMAIN counted
        /\ \A q \in DOMAIN counted : cnt[q] = counted[q] + Cardinality(SetTo(made, r, D, d, q))
    BY <1>0, <1>1, <1>3, <1>6, <1>7, <2>1 DEF DataInv, CountedInv, SetTo
  <2>. QED  BY ONLY <2>2, CountsRepeated
<1>10. DOMAIN cnt \subseteq Seq(Keys)
  BY <1>0, <1>1 DEF DataInv
<1>11. Complete(f, new, cnt)
  BY <1>1, <1>7, <1>8, <1>9, <1>10 DEF Complete
<1>. QED  BY <1>1, <1>2, <1>11, ReturnStep

-----------------------------------------------------------------------------
(* The invariant holds.                                                    *)

\* The invariant holds at the start,
LEMMA InitInv ==
  ASSUME Init
  PROVE  Inv
<1>1. /\ phase = "start" /\ stack = <<>> /\ json = <<>> /\ made = <<>> /\ leaf = <<>> /\ counted = <<>>
      /\ moved = {} /\ refs = [x \in Objs |-> Cardinality(Places(x))]
      /\ map \in [Structs -> [Keys -> UNION {MayHold[s] : s \in Structs}]]
      /\ \A s \in Structs, k \in Keys : map[s][k] \in MayHold[s]
  BY DEF Init
<1>2. DOMAIN <<>> = {} /\ Len(<<>>) = 0 /\ <<>> \in Seq(Frame)
  <2>1. DOMAIN <<>> = 1 .. 0
    OBVIOUS
  <2>. QED  BY <2>1, EmptySeq
<1>3. map \in [Structs -> [Keys -> Values]]
  <2>1. ASSUME NEW s \in Structs  PROVE map[s] \in [Keys -> Values]
    <3>1. MayHold[s] \subseteq Values
      BY SerialAssumption DEF Values
    <3>2. map[s] \in [Keys -> UNION {MayHold[t] : t \in Structs}]
      BY <1>1
    <3>3. \A k \in Keys : map[s][k] \in Values
      BY <1>1, <3>1
    <3>. QED  BY <3>2, <3>3
  <2>. QED  BY <1>1, <2>1
<1>4. refs \in [Objs -> Nat] /\ \A x \in Objs : refs[x] = Cardinality(Places(x))
  BY <1>1, PlacesIs
<1>5. IsFiniteSet(DOMAIN made)
  BY <1>1, <1>2, FS_EmptySet
<1>6. DataInv
  <2>1. json \in [DOMAIN json -> Entry] /\ made \in [DOMAIN made -> [Keys -> Seq(Keys) \cup Values]]
    BY <1>1, <1>2
  <2>. QED  BY <1>1, <1>2, <1>3, <1>4, <1>5, <2>1 DEF DataInv
<1>7. PhaseInv
  BY <1>1, <1>2 DEF PhaseInv
<1>8. CallsInv /\ TodoInv /\ JsonInv /\ MadeInv /\ UnplacedInv /\ CountedInv
  BY <1>1, <1>2 DEF CallsInv, TodoInv, JsonInv, MadeInv, UnplacedInv, CountedInv, Counts
<1>9. RefsInv
  <2>1. ASSUME NEW x \in Objs  PROVE \E S \in [0 .. Len(stack) -> Nat] : Covers(x, S)
    <3>1. PICK S : S = [i \in 0 .. 0 |-> 0]
      OBVIOUS
    <3>2. S \in [0 .. Len(stack) -> Nat] /\ S[0] = 0 /\ S[Len(stack)] = 0
      BY <1>1, <1>2, <3>1
    <3>3. refs[x] >= Cardinality(Places(x)) + 0
      BY <1>4, PlacesIs
    <3>4. Covers(x, S)
      BY <1>1, <1>2, <3>2, <3>3 DEF Covers
    <3>. QED  BY <3>2, <3>4
  <2>. QED  BY <2>1 DEF RefsInv
<1>. QED  BY <1>6, <1>7, <1>8, <1>9 DEF Inv

\* is kept by every step,
LEMMA NextInv ==
  ASSUME Inv, [Next]_vars
  PROVE  Inv'
<1>1. CASE Serialize
  BY <1>1, SerializeStep
<1>2. CASE DeepCopy
  BY <1>2, DeepCopyStep
<1>3. ASSUME NEW f \in ToSet(stack), Step(f)  PROVE Inv'
  <2>1. CASE Strip(f)
    BY <2>1, StripStep
  <2>2. CASE Write(f)
    BY <2>2, WriteStep
  <2>3. CASE Written(f)
    BY <2>3, WrittenStep
  <2>4. CASE Parse(f)
    BY <2>4, ParseStep
  <2>5. CASE ParseDuplicates(f)
    BY <2>5, ParseDuplicatesStep
  <2>6. CASE CopyElement(f)
    BY <2>6, CopyElementStep
  <2>7. CASE Copied(f)
    BY <2>7, CopiedStep
  <2>. QED  BY <1>3, <2>1, <2>2, <2>3, <2>4, <2>5, <2>6, <2>7 DEF Step
<1>4. CASE UNCHANGED vars
  <2>1. /\ phase' = phase /\ map' = map /\ refs' = refs /\ stack' = stack /\ json' = json
        /\ made' = made /\ leaf' = leaf /\ counted' = counted /\ moved' = moved
    BY <1>4 DEF vars
  <2>2. \A p : At(p)' = At(p)
    BY <2>1, AtKept
  <2>3. DataInv' <=> DataInv
    BY <2>1 DEF DataInv
  <2>4. PhaseInv' <=> PhaseInv
    BY <2>1 DEF PhaseInv
  <2>5. \A q, k, j : Stands(q, k, j)' <=> Stands(q, k, j)
    BY <2>1, <2>2 DEF Stands
  <2>6. \A i, k : Pending(i, k)' <=> Pending(i, k)
    BY <2>1 DEF Pending
  <2>7. CallsInv' <=> CallsInv
    BY <2>1, <2>2, <2>5, <2>6 DEF CallsInv, CallOK
  <2>8. TodoInv' <=> TodoInv
    BY <2>1 DEF TodoInv, TodoOK, Items, Elements
  <2>9. JsonInv' <=> JsonInv
    <3>1. \A p, k : Writing(p, k)' <=> Writing(p, k)
      BY <2>1 DEF Writing
    <3>2. \A p : Begun(p)' <=> Begun(p)
      BY <2>1 DEF Begun
    <3>. QED  BY <2>1, <2>2, <3>1, <3>2 DEF JsonInv, DupsOK, ItemOK
  <2>10. MadeInv' <=> MadeInv
    <3>1. \A q, k : Final(q, k)' <=> Final(q, k)
      BY <2>1, <2>2 DEF Final, Settled, Stands
    <3>2. \A q, k : Awaited(q, k)' <=> Awaited(q, k)
      BY <2>1, <2>6 DEF Awaited
    <3>. QED  BY <2>1, <2>2, <3>1, <3>2 DEF MadeInv
  <2>11. UnplacedInv' <=> UnplacedInv
    BY <2>1, <2>6 DEF UnplacedInv
  <2>12. CountedInv' <=> CountedInv
    BY <2>1 DEF CountedInv, Counts, PlacesIn
  <2>13. RefsInv' <=> RefsInv
    <3>1. \A x : Places(x)' = Places(x)
      BY <2>1 DEF Places
    <3>2. \A e, x : Owes(e, x)' = Owes(e, x)
      BY <2>1 DEF Owes, Held
    <3>. QED  BY <2>1, <3>1, <3>2 DEF RefsInv, Covers
  <2>. QED  BY <2>3, <2>4, <2>7, <2>8, <2>9, <2>10, <2>11, <2>12, <2>13 DEF Inv
<1>. QED  BY <1>1, <1>2, <1>3, <1>4 DEF Next

\* and so holds always.
THEOREM InvHolds ==
  Spec => []Inv
<1>1. Init => Inv
  BY InitInv
<1>2. Inv /\ [Next]_vars => Inv'
  BY NextInv
<1>. QED  BY <1>1, <1>2, PTL DEF Spec

\* Every variable has its type.
THEOREM TypeCorrect ==
  Spec => []TypeOK
<1>1. Inv => TypeOK
  <2>. SUFFICES ASSUME Inv  PROVE TypeOK
    OBVIOUS
  <2>0. DataInv /\ MadeInv /\ CountedInv
    BY DEF Inv
  <2>1. phase \in {"start", "serialize", "parse", "copy", "done"} /\ refs \in [Objs -> Nat]
    BY <2>0 DEF DataInv
  <2>2. \A i \in DOMAIN stack : stack[i].s \in Structs /\ stack[i].todo \subseteq Keys
    <3>1. stack \in Seq(Frame)
      BY <2>0 DEF DataInv
    <3>2. \A i \in DOMAIN stack : stack[i] \in Frame
      BY <3>1, ElementOfSeq
    <3>. QED  BY <3>2 DEF Frame
  <2>3. ASSUME NEW p \in DOMAIN json
        PROVE  /\ p \in Seq(Keys)
               /\ ToSet(p) \cup DOMAIN json[p].dups \subseteq Keys
               /\ \A k \in DOMAIN json[p].dups : json[p].dups[k] \in Keys
    <3>1. p \in Seq(Keys) /\ json[p] \in Entry
      BY <2>0 DEF DataInv
    <3>2. ToSet(p) \subseteq Keys
      BY <3>1, ElementOfSeq, LenProperties DEF ToSet
    <3>3. PICK K \in SUBSET Keys : json[p].dups \in [K -> Keys]
      BY <3>1 DEF Entry
    <3>. QED  BY <3>1, <3>2, <3>3
  <2>4. DOMAIN made \subseteq Seq(Keys)
    BY <2>0 DEF DataInv
  <2>5. \A p \in DOMAIN leaf : leaf[p] \in Leaves
    BY <2>0 DEF MadeInv
  <2>6. \A p \in DOMAIN counted : counted[p] \in Nat
    BY <2>0 DEF CountedInv, Counts
  <2>. QED  BY <2>1, <2>2, <2>3, <2>4, <2>5, <2>6 DEF TypeOK
<1>. QED  BY <1>1, InvHolds, PTL

\* No count falls below the places that hold the value: while a struct is
\* written, and in the new structs at the end.
THEOREM CountsCoverPlaces ==
  Spec => []PlacesCounted
<1>1. Inv => PlacesCounted
  <2>. SUFFICES ASSUME Inv  PROVE PlacesCounted
    OBVIOUS
  <2>1. \A x \in Objs : refs[x] >= Cardinality(Places(x))
    BY PlacesCovered DEF Inv
  <2>2. \A q \in DOMAIN counted : counted[q] >= Cardinality(PlacesIn(made, q))
    BY DEF Inv, CountedInv, Counts
  <2>. QED  BY <2>1, <2>2 DEF PlacesCounted, PlacesIn
<1>. QED  BY <1>1, InvHolds, PTL

-----------------------------------------------------------------------------
(* The new struct is like the original.                                    *)

\* What is at a path of the new struct, y, is like what is there in the
\* original, x.
Alike(x, y) ==
  /\ x \in Structs => y \in DOMAIN made /\ At(y) = x
  /\ x \in Leaves => y \in (DOMAIN leaf) \ DOMAIN made /\ leaf[y] = x
  /\ x \notin Objs => /\ y = x \/ (x = Unknown /\ y = Null)
                      /\ y \notin Seq(Keys) /\ y \notin DOMAIN made \cup DOMAIN leaf

\* When all is done, the elements of a new struct are final.
LEMMA ElementsAre ==
  ASSUME Inv, Done, NEW q \in DOMAIN made, NEW k \in Keys
  PROVE  /\ q \in Seq(Keys) /\ At(q) \in Structs
         /\ Alike(map[At(q)][k], made[q][k])
         /\ map[At(q)][k] \notin Objs => made[q][k] \notin Seq(Keys)
         /\ map[At(q)][k] \in Objs =>
              \E j \in Keys : Stands(q, k, j) /\ made[q][k] = Append(q, j)
<1>0. DataInv /\ PhaseInv /\ MadeInv
  BY DEF Inv
<1>1. DOMAIN stack = {}
  <2>1. DOMAIN <<>> = 1 .. 0
    OBVIOUS
  <2>. QED  BY <1>0, <2>1 DEF PhaseInv, Done
<1>2. q \in Seq(Keys) /\ At(q) \in Structs /\ Settled(q, k, made[q][k])
  BY <1>0, <1>1 DEF DataInv, MadeInv, Final, Awaited
<1>3. PICK v, y : v = map[At(q)][k] /\ y = made[q][k]
  OBVIOUS
<1>4. v \in Values /\ DOMAIN map = Structs
  BY <1>0, <1>2, <1>3 DEF DataInv
<1>5. CASE v \notin Objs
  <2>1. y = v \/ (v = Unknown /\ y = Null)
    BY <1>2, <1>3, <1>5 DEF Settled
  <2>2. y \notin Seq(Keys)
    BY <1>4, <1>5, <2>1, NullIs DEF Values
  <2>3. y \notin DOMAIN made \cup DOMAIN leaf
    BY <1>0, <2>2 DEF DataInv
  <2>4. Alike(v, y)
    BY <1>5, <2>1, <2>2, <2>3 DEF Alike, Objs
  <2>. QED  BY <1>2, <1>3, <1>5, <2>2, <2>4
<1>6. CASE v \in Objs
  <2>1. PICK j \in Keys : /\ Stands(q, k, j) /\ y = Append(q, j)
                          /\ v \in Structs => y \in DOMAIN made
                          /\ v \in Leaves => y \in DOMAIN leaf
    BY <1>2, <1>3, <1>6 DEF Settled
  <2>2. At(y) = v
    <3>1. At(Append(q, j)) = map[At(q)][j]
      BY <1>2, <1>4, AtIs
    <3>. QED  BY <1>3, <2>1, <3>1 DEF Stands
  <2>3. v \in Leaves => y \notin DOMAIN made /\ leaf[y] = v
    BY <1>0, <2>1, <2>2, SerialAssumption DEF MadeInv
  <2>4. Alike(v, y)
    BY <1>6, <2>1, <2>2, <2>3 DEF Alike
  <2>. QED  BY <1>2, <1>3, <1>6, <2>1, <2>4
<1>. QED  BY <1>5, <1>6

\* What is not a struct leads nowhere.
LEMMA NothingThere ==
  ASSUME Inv, NEW x \in Values, NEW y, Alike(x, y), x \notin Structs
  PROVE  y \notin DOMAIN made /\ Alike(Null, Null)
<1>0. DataInv
  BY DEF Inv
<1>1. y \notin DOMAIN made
  BY DEF Alike, Objs
<1>2. Null \notin Objs /\ Null \notin Seq(Keys)
  BY NullIs
<1>3. Null \notin DOMAIN made \cup DOMAIN leaf
  BY <1>0, <1>2 DEF DataInv
<1>. QED  BY <1>1, <1>2, <1>3 DEF Alike, Objs

\* Along every path the two are alike.
LEMMA PathsAlike ==
  ASSUME Inv, Done, NEW p \in Seq(Keys)
  PROVE  At(p) \in Values /\ Alike(At(p), NewAt(p))
<1>0. DataInv /\ PhaseInv
  BY DEF Inv
<1>1. PICK n, w, v : n = Len(p) /\ w = Walk(map, Root, p) /\ v = Walk(made, <<>>, p)
  OBVIOUS
<1>2. n \in Nat /\ \A i \in 1 .. n : p[i] \in Keys
  BY <1>1, LenProperties, ElementOfSeq
<1>3. w = [i \in 0 .. n |-> IF i = 0 THEN Root
                            ELSE IF w[i - 1] \in DOMAIN map THEN map[w[i - 1]][p[i]] ELSE Null]
  BY <1>1, WalkIs
<1>4. v = [i \in 0 .. n |-> IF i = 0 THEN <<>>
                            ELSE IF v[i - 1] \in DOMAIN made THEN made[v[i - 1]][p[i]] ELSE Null]
  BY <1>1, WalkIs
<1>5. PICK S : S = {i \in 0 .. n : w[i] \in Values /\ Alike(w[i], v[i])}
  OBVIOUS
<1>6. 0 \in S
  <2>1. 0 \in 0 .. n /\ w[0] = Root /\ v[0] = <<>>
    BY <1>2, <1>3, <1>4
  <2>2. Root \in Structs /\ Root \in Values /\ Root \notin Leaves
    BY SerialAssumption DEF Values, Objs
  <2>3. <<>> \in DOMAIN made /\ At(<<>>) = Root
    BY <1>0, AtRoot DEF PhaseInv, Done
  <2>4. Alike(Root, <<>>)
    BY <2>2, <2>3 DEF Alike, Objs
  <2>. QED  BY <1>5, <2>1, <2>2, <2>4
<1>7. ASSUME NEW i \in 0 .. n - 1, i \in S  PROVE i + 1 \in S
  <2>1. i + 1 \in 0 .. n /\ i + 1 \in 1 .. n /\ i + 1 # 0 /\ (i + 1) - 1 = i
    BY <1>2
  <2>2. PICK x, y, k : x = w[i] /\ y = v[i] /\ k = p[i + 1]
    OBVIOUS
  <2>3. x \in Values /\ Alike(x, y) /\ k \in Keys
    BY <1>2, <1>5, <1>7, <2>1, <2>2
  <2>4. w[i + 1] = IF x \in Structs THEN map[x][k] ELSE Null
    <3>1. DOMAIN map = Structs
      BY <1>0 DEF DataInv
    <3>. QED  BY <1>3, <2>1, <2>2, <3>1
  <2>5. v[i + 1] = IF y \in DOMAIN made THEN made[y][k] ELSE Null
    BY <1>4, <2>1, <2>2
  <2>6. CASE x \in Structs
    <3>1. y \in DOMAIN made /\ At(y) = x
      BY <2>3, <2>6 DEF Alike
    <3>2. Alike(map[x][k], made[y][k])
      BY <2>3, <3>1, ElementsAre
    <3>3. map[x][k] \in Values
      BY <1>0, <2>3, <2>6 DEF DataInv
    <3>. QED  BY <1>5, <2>1, <2>4, <2>5, <2>6, <3>1, <3>2, <3>3
  <2>7. CASE x \notin Structs
    <3>1. y \notin DOMAIN made /\ Alike(Null, Null)
      BY <2>3, <2>7, NothingThere
    <3>2. Null \in Values
      BY DEF Values
    <3>. QED  BY <1>5, <2>1, <2>4, <2>5, <2>7, <3>1, <3>2
  <2>. QED  BY <2>6, <2>7
<1>8. n \in S
  <2>1. \A i \in 0 .. n : i \in S
    BY <1>2, <1>6, <1>7, UpTo
  <2>. QED  BY <1>2, <2>1
<1>. QED  BY <1>1, <1>5, <1>8 DEF At, NewAt

\* The paths of SameContents and SharingKept are sequences of keys.
LEMMA PathsAre ==
  ASSUME NEW p \in Paths
  PROVE  p \in Seq(Keys)
<1>1. PICK n \in 0 .. Cardinality(Structs) : p \in [1 .. n -> Keys]
  BY DEF Paths
<1>2. Cardinality(Structs) \in Nat
  <2>1. Structs \subseteq Objs
    BY DEF Objs
  <2>2. IsFiniteSet(Structs)
    BY <2>1, SerialAssumption, FS_Subset
  <2>. QED  BY <2>2, FS_CardinalityType
<1>3. n \in Nat
  BY <1>2
<1>. QED  BY <1>1, <1>3

\* Along every path of keys, a struct that is read back from JSON, or copied in
\* depth, has the contents of the original.
THEOREM ContentsKept ==
  Spec => []SameContents
<1>1. Inv => SameContents
  <2>. SUFFICES ASSUME Inv, Done, NEW p \in Paths
                PROVE  NewContents(NewAt(p)) = Contents(At(p))
    BY DEF SameContents
  <2>1. PICK x, y : x = At(p) /\ y = NewAt(p)
    OBVIOUS
  <2>2. x \in Values /\ Alike(x, y)
    BY <2>1, PathsAlike, PathsAre
  <2>3. Unknown \notin Objs /\ Unknown # Null
    BY NullIs, SerialAssumption
  <2>4. CASE x \in Structs
    BY <2>1, <2>2, <2>4 DEF Alike, Contents, NewContents
  <2>5. CASE x \in Leaves
    <3>1. x \notin Structs /\ x # Unknown
      BY <2>3, <2>5, SerialAssumption DEF Objs
    <3>. QED  BY <2>1, <2>2, <2>5, <3>1 DEF Alike, Contents, NewContents
  <2>6. CASE x \notin Objs
    BY <2>1, <2>2, <2>3, <2>6 DEF Alike, Contents, NewContents, Objs
  <2>. QED  BY <2>1, <2>4, <2>5, <2>6 DEF Objs
<1>. QED  BY <1>1, InvHolds, PTL

\* It shares its values where the original does, but for those that repeat when
\* the array of duplicates has moved.
THEOREM SharingIsKept ==
  Spec => []SharingKept
<1>1. Inv => SharingKept
  <2>. SUFFICES ASSUME Inv, Done, NEW p \in Paths, NewAt(p) \in DOMAIN made,
                       NEW j \in Keys, NEW k \in Keys, map[At(p)][j] \in Objs
                PROVE  LET one == At(p) \in Structs /\ map[At(p)][j] = map[At(p)][k]
                           new == made[NewAt(p)]
                       IN  /\ new[j] = new[k] => one
                           /\ one /\ NewAt(p) \notin moved => new[j] = new[k]
    BY DEF SharingKept
  <2>1. PICK x, q, m : x = At(p) /\ q = NewAt(p) /\ m = map[At(p)]
    OBVIOUS
  <2>2. x \in Values /\ Alike(x, q) /\ q \in DOMAIN made
    BY <2>1, PathsAlike, PathsAre
  <2>3. q \in Seq(Keys) /\ At(q) \in Structs
    BY <2>2, ElementsAre
  <2>4. x \in Structs /\ At(q) = x /\ m = map[At(q)]
    <3>1. x \in Structs
      BY <2>2, <2>3 DEF Alike, Objs
    <3>. QED  BY <2>1, <2>2, <3>1 DEF Alike
  <2>5. ASSUME NEW i \in Keys
        PROVE  /\ m[i] \notin Objs => made[q][i] \notin Seq(Keys)
               /\ m[i] \in Objs => \E e \in Keys : Stands(q, i, e) /\ made[q][i] = Append(q, e)
    BY <2>2, <2>4, ElementsAre
  <2>6. m[j] \in Objs
    BY <2>1
  <2>7. PICK a \in Keys : Stands(q, j, a) /\ made[q][j] = Append(q, a)
    BY <2>5, <2>6
  <2>8. made[q][j] \in Seq(Keys)
    BY <2>3, <2>7, PathsDiffer
  <2>9. made[q][j] = made[q][k] => m[j] = m[k]
    <3>. SUFFICES ASSUME made[q][j] = made[q][k]  PROVE m[j] = m[k]
      OBVIOUS
    <3>1. m[k] \in Objs
      BY <2>5, <2>8
    <3>2. PICK b \in Keys : Stands(q, k, b) /\ made[q][k] = Append(q, b)
      BY <2>5, <3>1
    <3>3. a = b
      <4>1. Append(q, a) = Append(q, b) => a = b
        BY <2>3, PathsDiffer
      <4>. QED  BY <2>7, <3>2, <4>1
    <3>. QED  BY <2>4, <2>7, <3>2, <3>3 DEF Stands
  <2>10. m[j] = m[k] /\ q \notin moved => made[q][j] = made[q][k]
    <3>. SUFFICES ASSUME m[j] = m[k], q \notin moved  PROVE made[q][j] = made[q][k]
      OBVIOUS
    <3>1. PICK b \in Keys : Stands(q, k, b) /\ made[q][k] = Append(q, b)
      BY <2>5, <2>6
    <3>2. OriginalKey(m, j) = OriginalKey(m, k)
      BY OriginalIs
    <3>3. a = b
      BY <2>4, <2>7, <3>1, <3>2 DEF Stands
    <3>. QED  BY <2>7, <3>1, <3>3
  <2>. QED  BY <2>1, <2>4, <2>9, <2>10
<1>. QED  BY <1>1, InvHolds, PTL
=============================================================================
