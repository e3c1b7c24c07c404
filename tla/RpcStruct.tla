------------------------------ MODULE RpcStruct ------------------------------
(***************************************************************************)
(* Ownership of the values that rpc_structs hold (rpc_struct.c and         *)
(* ptracker.c).  A value - here always a struct, the kind that can hold    *)
(* others; functions and sized buffers are structs without keys - may be   *)
(* an element of many structs.  The pointer tracker counts its references, *)
(* and remembers under which key of which structs, its origins, it is      *)
(* held, so that freeing it takes it out of all of them.                   *)
(*                                                                         *)
(* Freeing is recursive: removing an element may free the value, which     *)
(* removes its own elements.  The recursion is the variable stack, one     *)
(* record per call, the innermost call last.  An address is given out      *)
(* again by malloc as soon as it is freed.  One thread uses the structs.   *)
(***************************************************************************)
EXTENDS Integers, Sequences, FiniteSets, SequencesExt, Functions

CONSTANTS
  Objs,             \* addresses of structs
  Keys,             \* the keys of their elements
  Null,             \* no value, no origin
  NoKey,            \* the key of a call that has none
  MaxRefs,          \* bound: the references counted at a time, all values together
  RemoveFromCycles  \* whether elements are removed that lead back to their struct

ASSUME StructAssumption ==
  /\ IsFiniteSet(Objs) /\ IsFiniteSet(Keys)
  /\ Null \notin Objs
  /\ NoKey \notin Keys
  /\ MaxRefs \in Nat
  /\ RemoveFromCycles \in BOOLEAN

VARIABLES
  live,      \* the addresses that are allocated
  map,       \* the elements of each struct
  tracked,   \* the values with a record in the pointer tracker
  refcount,  \* prec->refcount
  origins,   \* ctx->origins below o_index, of each value under each key
  empty,     \* ctx->empty_origins: the indices of origins that are NULL
  stack,     \* the calls of rpc_struct_remove and prec_delete under way
  shared     \* history: the values that some copied struct has held

vars == <<live, map, tracked, refcount, origins, empty, stack, shared>>

Ops == {"remove", "unlink", "zero", "contents"}
Frame == [op : Ops, s : Objs, k : Keys \cup {NoKey}, left : SUBSET (Keys \X Objs)]

RemoveCall(s, k) == [op |-> "remove", s |-> s, k |-> k, left |-> {}]
UnlinkCall(s, k) == [op |-> "unlink", s |-> s, k |-> k, left |-> {}]
ContentsCall(x)  == [op |-> "contents", s |-> x, k |-> NoKey, left |-> {}]

Quiet == stack = <<>>
Caller == Front(stack)

Counts == FoldFunction(+, 0, refcount)

\* the places where x is held
Refs(x) == {p \in live \X Keys : map[p[1]][p[2]] = x}

\* a chain of elements leads from x to s
LeadsTo(x, s) ==
  \A S \in SUBSET Objs :
     (x \in S /\ \A a \in S, k \in Keys : map[a][k] \in S \cup {Null}) => s \in S

-----------------------------------------------------------------------------
(* The origins of one value under one key: seq and its free indices.       *)

\* the numbers of a finite set in the order in which a loop meets them
Ascending(S) ==
  CHOOSE q \in [1 .. Cardinality(S) -> S] :
     /\ Range(q) = S
     /\ \A i, j \in DOMAIN q : i < j => q[i] < q[j]

\* rpc_struct_increment_cb: a free index is used before the array grows
Added(o, s) ==
  IF o.empty = <<>>
  THEN [seq |-> Append(o.seq, s), empty |-> <<>>]
  ELSE [seq |-> [o.seq EXCEPT ![Head(o.empty)] = s], empty |-> Tail(o.empty)]

\* a wrong rpc_struct_decrement_cb: the array always shrinks
DroppedShrinks(o, s) ==
  [seq |-> SubSeq([i \in DOMAIN o.seq |-> IF o.seq[i] = s THEN Null ELSE o.seq[i]],
                  1, Len(o.seq) - 1),
   empty |-> o.empty]

\* a wrong rpc_struct_decrement_cb: the last index is queued as well
DroppedQueued(o, s) ==
  LET gone == {i \in DOMAIN o.seq : o.seq[i] = s}
      seq  == [i \in DOMAIN o.seq |-> IF i \in gone THEN Null ELSE o.seq[i]]
  IN  [seq |-> IF Len(seq) \in gone THEN Front(seq) ELSE seq,
       empty |-> o.empty \o Ascending(gone)]

\* rpc_struct_decrement_cb: every entry of s becomes NULL; the last index is
\* given up, the others are queued for reuse; without entries the queue goes too
Dropped(o, s) ==
  LET gone == {i \in DOMAIN o.seq : o.seq[i] = s}
      seq  == [i \in DOMAIN o.seq |-> IF i \in gone THEN Null ELSE o.seq[i]]
      n    == Len(seq)
  IN  IF n \notin gone THEN [seq |-> seq, empty |-> o.empty \o Ascending(gone)]
      ELSE IF n = 1 THEN [seq |-> <<>>, empty |-> <<>>]
      ELSE [seq |-> Front(seq), empty |-> o.empty \o Ascending(gone \ {n})]

OriginsOf(x, k) == [seq |-> origins[x][k], empty |-> empty[x][k]]

-----------------------------------------------------------------------------
Init ==
  /\ live = {}
  /\ map = [s \in Objs |-> [k \in Keys |-> Null]]
  /\ tracked = {}
  /\ refcount = [x \in Objs |-> 0]
  /\ origins = [x \in Objs |-> [k \in Keys |-> <<>>]]
  /\ empty = [x \in Objs |-> [k \in Keys |-> <<>>]]
  /\ stack = <<>>
  /\ shared = {}

\* rpc_struct_create
Create(x) ==
  /\ Quiet
  /\ x \notin live
  /\ live' = live \cup {x}
  /\ UNCHANGED <<map, tracked, refcount, origins, empty, stack, shared>>

\* a wrong prec_new: a record that exists already is set up afresh
CountedAfresh(x) == 1

\* prec_increment, after prec_new if there is no record yet
Counted(x) == refcount[x] + 1

\* rpc_struct_set_internal; it does nothing when the key is taken
Set(s, k, x) ==
  LET o == Added(OriginsOf(x, k), s)
  IN  /\ Quiet
      /\ s \in live /\ x \in live
      /\ map[s][k] = Null
      /\ map' = [map EXCEPT ![s][k] = x]
      /\ tracked' = tracked \cup {x}
      /\ refcount' = [refcount EXCEPT ![x] = Counted(x)]
      /\ Counts' <= MaxRefs
      /\ origins' = [origins EXCEPT ![x][k] = o.seq]
      /\ empty' = [empty EXCEPT ![x][k] = o.empty]
      /\ UNCHANGED <<live, stack, shared>>

\* rpc_struct_copy: each value is counted for the copy twice, by the copy
\* itself and by rpc_struct_set_internal
Copy(s, c) ==
  LET held == {map[s][k] : k \in Keys} \ {Null}
      o == [x \in Objs |-> [k \in Keys |->
              IF x = map[s][k] THEN Added(Added(OriginsOf(x, k), c), c)
                               ELSE OriginsOf(x, k)]]
  IN  /\ Quiet
      /\ s \in live /\ c \notin live
      /\ live' = live \cup {c}
      /\ map' = [map EXCEPT ![c] = map[s]]
      /\ refcount' = [x \in Objs |->
                        refcount[x] + 2 * Cardinality({k \in Keys : map[s][k] = x})]
      /\ Counts' <= MaxRefs
      /\ origins' = [x \in Objs |-> [k \in Keys |-> o[x][k].seq]]
      /\ empty' = [x \in Objs |-> [k \in Keys |-> o[x][k].empty]]
      /\ shared' = shared \cup held
      /\ UNCHANGED <<tracked, stack>>

\* rpc_struct_remove, called by the application
RemoveKey(s, k) ==
  /\ Quiet
  /\ s \in live
  /\ map[s][k] # Null
  /\ RemoveFromCycles \/ ~LeadsTo(map[s][k], s)
  /\ stack' = <<RemoveCall(s, k)>>
  /\ UNCHANGED <<live, map, tracked, refcount, origins, empty, shared>>

\* a wrong rpc_struct_onzero_cb: entries that are NULL are not skipped
OriginsWithNull(o) == UNION {{<<k, o[k][i]>> : i \in DOMAIN o[k]} : k \in Keys}

\* a wrong rpc_struct_onzero_cb: the loop stops one short of o_index
OriginsButLast(o) ==
  (UNION {{<<k, o[k][i]>> : i \in 1 .. Len(o[k]) - 1} : k \in Keys}) \cap (Keys \X Objs)

\* what rpc_struct_onzero_cb goes through, given the origins of a value: the
\* structs it is in, with the keys
OriginsToLeave(o) ==
  (UNION {{<<k, o[k][i]>> : i \in DOMAIN o[k]} : k \in Keys}) \cap (Keys \X Objs)

ZeroCall(x, o) == [op |-> "zero", s |-> x, k |-> NoKey, left |-> OriginsToLeave(o)]

\* a wrong prec_delete: the record is still found while the value is torn down
StillTracked(x) == tracked

\* prec_delete: the record leaves the tracker before the value is torn down
Untracked(x) == tracked \ {x}

\* rpc_struct_free, called by the application
Free(x) ==
  /\ Quiet
  /\ x \in live
  /\ tracked' = Untracked(x)
  /\ stack' = <<IF x \in tracked THEN ZeroCall(x, origins[x]) ELSE ContentsCall(x)>>
  /\ UNCHANGED <<live, map, refcount, origins, empty, shared>>

-----------------------------------------------------------------------------
(* The calls under way.                                                    *)

\* call f is the innermost one
Running(f, op) == stack # <<>> /\ f = Last(stack) /\ f.op = op

\* hashmap_remove
ElementRemoved(s, k) == [map EXCEPT ![s][k] = Null]

\* rpc_struct_remove: prec_decrement drops the reference, and tears the value
\* down with the last one before the element is unlinked
RemoveCounted(f) ==
  LET x == map[f.s][f.k]
      n == refcount[x] - 1
      o == Dropped(OriginsOf(x, f.k), f.s)
  IN  /\ Running(f, "remove")
      /\ x \in tracked
      /\ refcount' = [refcount EXCEPT ![x] = n]
      /\ origins' = [origins EXCEPT ![x][f.k] = o.seq]
      /\ empty' = [empty EXCEPT ![x][f.k] = o.empty]
      /\ \/ /\ n > 0
            /\ map' = ElementRemoved(f.s, f.k)
            /\ stack' = Caller
            /\ UNCHANGED tracked
         \/ /\ n = 0
            /\ stack' = Caller \o <<UnlinkCall(f.s, f.k), ZeroCall(x, origins'[x])>>
            /\ tracked' = Untracked(x)
            /\ UNCHANGED map
      /\ UNCHANGED <<live, shared>>

\* rpc_struct_remove of a value without record, or of no element
RemoveUncounted(f) ==
  /\ Running(f, "remove")
  /\ map[f.s][f.k] \notin tracked
  /\ map' = ElementRemoved(f.s, f.k)
  /\ stack' = Caller
  /\ UNCHANGED <<live, tracked, refcount, origins, empty, shared>>

\* the end of rpc_struct_remove, after the value is gone
Unlink(f) ==
  /\ Running(f, "unlink")
  /\ map' = ElementRemoved(f.s, f.k)
  /\ stack' = Caller
  /\ UNCHANGED <<live, tracked, refcount, origins, empty, shared>>

\* rpc_struct_onzero_cb: the value leaves its origins one by one
LeaveOrigin(f) ==
  \E p \in f.left :
     /\ Running(f, "zero")
     /\ stack' = Caller \o <<[f EXCEPT !.left = @ \ {p}], RemoveCall(p[2], p[1])>>
     /\ UNCHANGED <<live, map, tracked, refcount, origins, empty, shared>>

\* rpc_struct_prec_ctx_destroy: the record's data goes, and the value is freed
DestroyRecord(f) ==
  /\ Running(f, "zero")
  /\ f.left = {}
  /\ stack' = Append(Caller, ContentsCall(f.s))
  /\ refcount' = [refcount EXCEPT ![f.s] = 0]
  /\ origins' = [origins EXCEPT ![f.s] = [k \in Keys |-> <<>>]]
  /\ empty' = [empty EXCEPT ![f.s] = [k \in Keys |-> <<>>]]
  /\ UNCHANGED <<live, map, tracked, shared>>

\* rpc_struct_free_internals: each element is removed, in any order
RemoveElement(f) ==
  \E k \in Keys :
     /\ Running(f, "contents")
     /\ map[f.s][k] # Null
     /\ stack' = Append(stack, RemoveCall(f.s, k))
     /\ UNCHANGED <<live, map, tracked, refcount, origins, empty, shared>>

\* rpc_struct_free_internal: the struct itself is freed
FreeStruct(f) ==
  /\ Running(f, "contents")
  /\ \A k \in Keys : map[f.s][k] = Null
  /\ live' = live \ {f.s}
  /\ shared' = shared \ {f.s}
  /\ stack' = Caller
  /\ UNCHANGED <<map, tracked, refcount, origins, empty>>

-----------------------------------------------------------------------------
Call ==
  \E f \in ToSet(stack) :
     \/ RemoveCounted(f) \/ RemoveUncounted(f) \/ Unlink(f) \/ LeaveOrigin(f)
     \/ DestroyRecord(f) \/ RemoveElement(f) \/ FreeStruct(f)

Next ==
  \/ \E x \in Objs : Create(x) \/ Free(x)
  \/ \E s, x \in Objs, k \in Keys : Set(s, k, x)
  \/ \E s, c \in Objs : Copy(s, c)
  \/ \E s \in Objs, k \in Keys : RemoveKey(s, k)
  \/ Call

Spec == Init /\ [][Next]_vars

-----------------------------------------------------------------------------
(* Properties.                                                             *)

\* Every variable has its type.
TypeOK ==
  /\ live \subseteq Objs
  /\ map \in [Objs -> [Keys -> Objs \cup {Null}]]
  /\ tracked \subseteq Objs
  /\ refcount \in [Objs -> Nat]
  /\ origins \in [Objs -> [Keys -> Seq(Objs \cup {Null})]]
  /\ empty \in [Objs -> [Keys -> Seq(Nat)]]
  /\ stack \in Seq(Frame)
  /\ shared \subseteq Objs

\* No call goes on with a struct, or tears a value down, that a call made from
\* it has freed already: nothing is freed twice, whatever holds whatever.
CallsUseLive == \A i \in DOMAIN stack : stack[i].s \in live

\* An element never refers to a value that is gone, except while the call that
\* dropped its last reference is about to unlink it: freeing a value takes it
\* out of every struct it is in.
NoDangling ==
  \A s \in live, k \in Keys :
     map[s][k] \notin live \cup {Null} => UnlinkCall(s, k) \in ToSet(stack)

\* No value is torn down by two calls at the same time: freeing a struct that
\* contains itself, by whatever detour, does not start over.
TornDownOnce ==
  \A i, j \in DOMAIN stack :
     (i # j /\ {stack[i].op, stack[j].op} \subseteq {"zero", "contents"})
       => stack[i].s # stack[j].s

\* Between calls the tracker's origins of a value are exactly the structs that
\* hold it, each once per key unless it is a copy.
OriginsExact ==
  Quiet => \A x \in Objs, k \in Keys :
     ToSet(origins[x][k]) \ {Null} = {s \in live : map[s][k] = x}

\* The free indices of the origins are the NULL entries below o_index, each
\* queued once: no origin is overwritten by a later one.
SlotsAccounted ==
  \A x \in Objs, k \in Keys :
     /\ IsInjective(empty[x][k])
     /\ ToSet(empty[x][k]) = {i \in DOMAIN origins[x][k] : origins[x][k][i] = Null}

\* Between calls a value has as many counted references as places that hold it,
\* or more if a copied struct has held it; a value nobody holds has no record.
CountsExact ==
  Quiet => \A x \in Objs :
     /\ refcount[x] >= Cardinality(Refs(x))
     /\ x \notin shared => refcount[x] = Cardinality(Refs(x))
     /\ x \in tracked <=> refcount[x] > 0

\* rpc_struct_free frees a struct and all its contents (rpc_struct.h): a value
\* that is counted is held by somebody, who will free it.
NothingLeaks == Quiet => \A x \in tracked : Refs(x) # {}
=============================================================================
