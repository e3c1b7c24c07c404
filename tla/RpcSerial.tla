------------------------------- MODULE RpcSerial -------------------------------
(***************************************************************************)
(* Structs as JSON and back, and deep copies (rpc_struct.c).               *)
(*                                                                         *)
(* A struct may hold one value under several keys.  rpc_struct_serialize   *)
(* finds these duplicates, takes them out of a copy of the struct, writes  *)
(* what is left, and notes which key each duplicate repeats;               *)
(* rpc_struct_deserialize puts them back.  rpc_struct_deep_copy copies     *)
(* each value of a struct once.                                            *)
(*                                                                         *)
(* What is made for the value at some path of keys from the root is named  *)
(* by that path.  A function or sized buffer is a leaf, named by what it   *)
(* contains; the address of a function is not written.  Numbers, reals and *)
(* strings are scalars.  Structs form no cycle: the recursion would not    *)
(* end.  One thread holds the locks of the structs throughout.             *)
(***************************************************************************)
EXTENDS Integers, Sequences, FiniteSets, SequencesExt

CONSTANTS
  Structs, Leaves, Scalars,
  Unknown,    \* a plain pointer (RPC_unknown)
  Null,       \* no element
  Root,       \* the struct that is written or copied
  KeySeq,     \* the keys, in the order of the hash maps
  MayHold,    \* the elements that each struct may have
  Capacity    \* bound: the first size of the array of duplicates (16)

Objs == Structs \cup Leaves
Keys == ToSet(KeySeq)

ASSUME SerialAssumption ==
  /\ IsFiniteSet(Objs) /\ Capacity \in Nat \ {0}
  /\ KeySeq \in Seq(Keys) /\ IsFiniteSet(Keys) /\ IsInjective(KeySeq)
  /\ Root \in Structs /\ Structs \cap Leaves = {}
  /\ Objs \cap (Scalars \cup {Unknown, Null}) = {}
  /\ Unknown # Null /\ {Unknown, Null} \cap Scalars = {}
  /\ MayHold \in [Structs -> SUBSET (Objs \cup Scalars \cup {Unknown, Null})]
  /\ \A v \in Objs \cup Scalars \cup {Unknown, Null} : v # "struct" /\ v \notin Seq(Keys)

VARIABLES
  phase,    \* start, then serialize and parse, or copy, then done
  map,      \* the elements of each struct
  refs,     \* prec->refcount of each value
  stack,    \* the recursive calls under way, the innermost last
  json,     \* by path: the items of a written struct, and its duplicates
  made,     \* by path: the elements of a new struct
  leaf,     \* by path: the contents of a new leaf
  counted,  \* by path: prec->refcount of a new value
  moved     \* history: the paths at which realloc moved the array of duplicates

vars == <<phase, map, refs, stack, json, made, leaf, counted, moved>>

Call(p, s, todo) == [p |-> p, s |-> s, todo |-> todo, open |-> FALSE]

Pos(k) == CHOOSE i \in DOMAIN KeySeq : KeySeq[i] = k
FirstKey(K) == CHOOSE k \in K : \A j \in K : Pos(k) <= Pos(j)
Places(x) == {q \in Structs \X Keys : map[q[1]][q[2]] = x}
NoElements == [k \in Keys |-> Null]

\* f with v at q
Bind(f, q, v) == [x \in DOMAIN f \cup {q} |-> IF x = q THEN v ELSE f[x]]

-----------------------------------------------------------------------------
(* Duplicates, given the elements m of a struct.                           *)

\* the first key under which the value of key k is met
OriginalKey(m, k) == FirstKey({j \in Keys : m[j] = m[k]})

\* keys at which a value enters the array
Entering(m) == {k \in Keys : m[k] \in Objs /\ OriginalKey(m, k) = k}

\* those for which the array grows first: it is full, and doubled
Growing(m) ==
  {k \in Entering(m) :
     \E d \in 0 .. Len(KeySeq) :
        Cardinality({j \in Entering(m) : Pos(j) < Pos(k)}) = Capacity * 2 ^ d}

\* a wrong rpc_struct_found_duplicates: each duplicate replaces the last one
FoundLast(m, mov) ==
  {k \in Keys : /\ m[k] \in Objs /\ OriginalKey(m, k) # k
                /\ \A j \in Keys : m[j] = m[k] => Pos(j) <= Pos(k)}

\* rpc_struct_found_duplicates: the keys noted as duplicates.  The table of
\* pointers refers into the array: what is found after realloc has moved the
\* array (for a key in mov) is noted in memory that is gone.
Found(m, mov) ==
  {k \in Keys : /\ m[k] \in Objs /\ OriginalKey(m, k) # k
                /\ \A g \in mov : ~(Pos(OriginalKey(m, k)) < Pos(g) /\ Pos(g) < Pos(k))}

\* a wrong rpc_struct_serialize: the value is named, and not its key
NamedByValue(m, K) == [k \in K |-> m[k]]

NamedByKey(m, K) == [k \in K |-> OriginalKey(m, k)]

-----------------------------------------------------------------------------
Init ==
  /\ phase = "start"
  /\ map \in {m \in [Structs -> [Keys -> UNION {MayHold[s] : s \in Structs}]] :
                \A s \in Structs, k \in Keys : m[s][k] \in MayHold[s]}
  /\ refs = [x \in Objs |-> Cardinality(Places(x))]
  /\ stack = <<>>
  /\ json = <<>>
  /\ made = <<>>
  /\ leaf = <<>>
  /\ counted = <<>>
  /\ moved = {}

Serialize ==
  /\ phase = "start"
  /\ phase' = "serialize"
  /\ stack' = <<Call(<<>>, Root, {})>>
  /\ UNCHANGED <<map, refs, json, made, leaf, counted, moved>>

Running(f, ph) == phase = ph /\ stack # <<>> /\ f = Last(stack)

Held(s, K, x) == Cardinality({k \in K : map[s][k] = x})

\* a wrong rpc_struct_copy: elements are copied and not counted
CopyUncounted(s, x) == 0

\* rpc_struct_copy counts the values of the struct for the copy, twice
CopyCounted(s, x) == 2 * Held(s, Keys, x)

\* rpc_struct_serialize up to its loop: a copy of the struct is stripped of
\* plain pointers and of duplicates
Strip(f) ==
  \E mov \in SUBSET Growing(map[f.s]) :
     LET m == map[f.s]
         dups == Found(m, mov)
     IN  /\ Running(f, "serialize")
         /\ ~f.open
         /\ stack' = Append(Front(stack),
              [f EXCEPT !.open = TRUE,
                        !.todo = {k \in Keys \ dups : m[k] \notin {Null, Unknown}}])
         /\ json' = Bind(json, f.p, [items |-> NoElements, dups |-> NamedByKey(m, dups)])
         /\ refs' = [x \in Objs |-> refs[x] + CopyCounted(f.s, x) - Held(f.s, dups, x)]
         /\ moved' = IF mov = {} THEN moved ELSE moved \cup {f.p}
         /\ UNCHANGED <<phase, map, made, leaf, counted>>

\* the loop of rpc_struct_serialize: one element is written
Write(f) ==
  LET k == FirstKey(f.todo)
      v == map[f.s][k]
      g == [f EXCEPT !.todo = @ \ {k}]
  IN  /\ Running(f, "serialize")
      /\ f.open /\ f.todo # {}
      /\ json' = [json EXCEPT ![f.p].items[k] = IF v \in Structs THEN "struct" ELSE v]
      /\ stack' = Front(stack) \o
                    IF v \in Structs THEN <<g, Call(Append(f.p, k), v, {})>> ELSE <<g>>
      /\ UNCHANGED <<phase, map, refs, made, leaf, counted, moved>>

\* keys to go through when a written struct is read back
Items(p) == {k \in Keys : json[p].items[k] # Null}

\* the end of rpc_struct_serialize, where the copy is freed; at last the reader
\* starts
Written(f) ==
  LET rest == Keys \ DOMAIN json[f.p].dups
  IN  /\ Running(f, "serialize")
      /\ f.open /\ f.todo = {}
      /\ refs' = [x \in Objs |-> refs[x] - Held(f.s, rest, x)]
      /\ IF Len(stack) > 1
         THEN stack' = Front(stack) /\ UNCHANGED <<phase, made>>
         ELSE /\ phase' = "parse"
              /\ stack' = <<Call(<<>>, Root, Items(<<>>))>>
              /\ made' = Bind(<<>>, <<>>, NoElements)
      /\ UNCHANGED <<map, json, leaf, counted, moved>>

-----------------------------------------------------------------------------
(* New structs.                                                            *)

\* rpc_struct_set_internal of what is at path q under key k of struct p; n
\* references are counted
SetNew(p, k, q, n) ==
  /\ made' = [made EXCEPT ![p][k] = q]
  /\ counted' = Bind(counted, q, (IF q \in DOMAIN counted THEN counted[q] ELSE 0) + n)

\* struct v is made under key k, by a call of its own
Nested(f, k, v, todo) ==
  LET q == Append(f.p, k)
  IN  /\ stack' = Front(stack) \o <<[f EXCEPT !.todo = @ \ {k}], Call(q, v, todo)>>
      /\ made' = Bind(made, q, NoElements)
      /\ UNCHANGED <<leaf, counted>>

\* a leaf with contents v is made under key k
NewLeaf(f, k, v) ==
  LET q == Append(f.p, k)
  IN  /\ stack' = Append(Front(stack), [f EXCEPT !.todo = @ \ {k}])
      /\ leaf' = Bind(leaf, q, v)
      /\ SetNew(f.p, k, q, 1)

SetScalar(f, k, v) ==
  /\ stack' = Append(Front(stack), [f EXCEPT !.todo = @ \ {k}])
  /\ made' = [made EXCEPT ![f.p][k] = v]
  /\ UNCHANGED <<leaf, counted>>

\* item_parse
Parse(f) ==
  LET k == FirstKey(f.todo)
      v == json[f.p].items[k]
      s == map[f.s][k]
  IN  /\ Running(f, "parse")
      /\ f.todo # {}
      /\ \/ v = "struct" /\ Nested(f, k, s, Items(Append(f.p, k)))
         \/ v \in Leaves /\ NewLeaf(f, k, v)
         \/ v \in Scalars /\ SetScalar(f, k, v)
      /\ UNCHANGED <<phase, map, refs, json, moved>>

\* a struct is complete: the caller sets it
Return(f, new, cnt) ==
  LET p == Front(f.p)
      k == Last(f.p)
  IN  /\ stack' = Front(stack)
      /\ IF Len(stack) > 1
         THEN /\ made' = [new EXCEPT ![p][k] = f.p]
              /\ counted' = Bind(cnt, f.p, 1)
              /\ UNCHANGED phase
         ELSE made' = new /\ counted' = cnt /\ phase' = "done"

\* a wrong rpc_struct_deserialize: duplicates are set before the items
DuplicatesFirst(p) == made[p]

\* the end of rpc_struct_deserialize: duplicates are set
DuplicatesSet(p) ==
  [k \in Keys |-> IF k \in DOMAIN json[p].dups THEN made[p][json[p].dups[k]] ELSE made[p][k]]

ParseDuplicates(f) ==
  LET dups == json[f.p].dups
  IN  /\ Running(f, "parse")
      /\ f.todo = {}
      /\ Return(f, [made EXCEPT ![f.p] = DuplicatesSet(f.p)],
                [q \in DOMAIN counted |->
                   counted[q] + Cardinality({k \in DOMAIN dups : made[f.p][dups[k]] = q})])
      /\ UNCHANGED <<map, refs, json, leaf, moved>>

-----------------------------------------------------------------------------
(* rpc_struct_deep_copy.                                                   *)

Elements(s) == {k \in Keys : map[s][k] # Null}

DeepCopy ==
  /\ phase = "start"
  /\ phase' = "copy"
  /\ stack' = <<Call(<<>>, Root, Elements(Root))>>
  /\ made' = Bind(made, <<>>, NoElements)
  /\ UNCHANGED <<map, refs, json, leaf, counted, moved>>

\* a value that the copy has already is counted for it twice
CopyElement(f) ==
  LET k == FirstKey(f.todo)
      v == map[f.s][k]
      j == OriginalKey(map[f.s], k)
  IN  /\ Running(f, "copy")
      /\ f.todo # {}
      /\ \/ v \in Structs /\ j = k /\ Nested(f, k, v, Elements(v))
         \/ v \in Leaves /\ j = k /\ NewLeaf(f, k, v)
         \/ /\ v \in Objs /\ j # k
            /\ stack' = Append(Front(stack), [f EXCEPT !.todo = @ \ {k}])
            /\ SetNew(f.p, k, Append(f.p, j), 2)
            /\ UNCHANGED leaf
         \/ v \in Scalars \cup {Unknown} /\ SetScalar(f, k, v)
      /\ UNCHANGED <<phase, map, refs, json, moved>>

Copied(f) ==
  /\ Running(f, "copy")
  /\ f.todo = {}
  /\ Return(f, made, counted)
  /\ UNCHANGED <<map, refs, json, leaf, moved>>

-----------------------------------------------------------------------------
Step(f) ==
  Strip(f) \/ Write(f) \/ Written(f) \/ Parse(f) \/ ParseDuplicates(f) \/ CopyElement(f)
  \/ Copied(f)

Next ==
  \/ Serialize
  \/ DeepCopy
  \/ \E f \in ToSet(stack) : Step(f)

Spec == Init /\ [][Next]_vars

-----------------------------------------------------------------------------
(* Properties.                                                             *)

\* Every variable has its type.
TypeOK ==
  /\ phase \in {"start", "serialize", "parse", "copy", "done"}
  /\ refs \in [Objs -> Nat]
  /\ \A i \in DOMAIN stack : stack[i].s \in Structs /\ stack[i].todo \subseteq Keys
  /\ \A p \in DOMAIN json : /\ p \in Seq(Keys)
                            /\ ToSet(p) \cup DOMAIN json[p].dups \subseteq Keys
                            /\ \A k \in DOMAIN json[p].dups : json[p].dups[k] \in Keys
  /\ DOMAIN made \subseteq Seq(Keys)
  /\ \A p \in DOMAIN leaf : leaf[p] \in Leaves
  /\ \A p \in DOMAIN counted : counted[p] \in Nat

Done == phase = "done"

Paths == UNION {[1 .. n -> Keys] : n \in 0 .. Cardinality(Structs)}

\* what f leads to from first along path p, after each key
Walk(f, first, p) ==
  LET at[i \in 0 .. Len(p)] ==
        IF i = 0 THEN first ELSE IF at[i - 1] \in DOMAIN f THEN f[at[i - 1]][p[i]] ELSE Null
  IN  at

\* what is at path p of the original, and of the new struct
At(p)    == Walk(map, Root, p)[Len(p)]
NewAt(p) == Walk(made, <<>>, p)[Len(p)]

\* the contents of a value: a scalar or leaf itself, or that it is a struct; a
\* plain pointer may be lost
Contents(x) == IF x \in Structs THEN "struct" ELSE IF x = Unknown THEN Null ELSE x
NewContents(x) ==
  IF x \in DOMAIN made THEN "struct"
  ELSE IF x \in DOMAIN leaf THEN leaf[x] ELSE IF x = Unknown THEN Null ELSE x

\* Whatever a struct holds however often, a struct read back from its JSON, or
\* copied in depth, has the same contents along every path of keys.
SameContents == Done => \A p \in Paths : NewContents(NewAt(p)) = Contents(At(p))

\* Two keys of a struct that hold one value hold one value again, and two that
\* hold different ones do not, except that a value may be repeated if the array
\* of duplicates moved.
SharingKept ==
  Done => \A p \in Paths : NewAt(p) \in DOMAIN made =>
    \A j, k \in Keys :
       LET one == At(p) \in Structs /\ map[At(p)][j] = map[At(p)][k]
           new == made[NewAt(p)]
       IN  map[At(p)][j] \in Objs =>
             /\ new[j] = new[k] => one
             /\ one /\ NewAt(p) \notin moved => new[j] = new[k]

\* The work on the stripped copy never takes the last reference of a value that
\* is still held: every place in the original is counted, at every moment, and
\* in the end so is every place in the new struct.
PlacesCounted ==
  /\ \A x \in Objs : refs[x] >= Cardinality(Places(x))
  /\ Done => \A q \in DOMAIN counted :
       counted[q] >= Cardinality({pk \in (DOMAIN made) \X Keys : made[pk[1]][pk[2]] = q})
=============================================================================
