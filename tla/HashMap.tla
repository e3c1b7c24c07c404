-------------------------------- MODULE HashMap --------------------------------
(***************************************************************************)
(* The hash map (hashmap.c, hashmap.h) that holds the elements of every    *)
(* rpc_struct, the tracker's pointers and the registries: open addressing  *)
(* with linear probing, no tombstones.  A removal moves later entries of   *)
(* the chain back; an insertion may rehash everything into a larger table. *)
(* The loops of the foreach macros walk the slots in order, and the body   *)
(* of a "safe" one may remove the entry it is at.                          *)
(*                                                                         *)
(* `hash' is the value of both hash functions, which is arbitrary.  A map  *)
(* has one user at a time (its callers lock, or do not share it).          *)
(***************************************************************************)
EXTENDS Integers, FiniteSets, SequencesExt

CONSTANTS
  Keys,
  Data,
  Hashes,       \* the values of the hash function
  DefaultSize,  \* HASHMAP_SIZE_DEFAULT, 128
  MinSize,      \* HASHMAP_SIZE_MIN, 32
  Capacities,   \* the arguments of hashmap_reserve
  MaxSize,      \* bound: the slots of the largest table
  Null          \* a free slot, no data

PowersOfTwo == {p \in 1 .. MaxSize : \E i \in 0 .. p : p = 2^i}

ASSUME HashMapAssumption ==
  /\ IsFiniteSet(Keys)
  /\ Hashes \subseteq Nat
  /\ Capacities \subseteq Nat
  /\ MaxSize \in Nat /\ {DefaultSize, MinSize, MaxSize} \subseteq PowersOfTwo
  /\ 8 <= MinSize /\ MinSize <= DefaultSize
  /\ \A n \in Capacities \cup {Cardinality(Keys)} : n + n \div 3 <= MaxSize
  /\ Null \notin Keys \cup Data \cup Nat

VARIABLES
  hash,      \* constant: the hash of each key
  table,     \* the slots 0 .. table_size - 1
  size,      \* the number of entries
  initSize,  \* table_size_init
  loop,      \* the foreach loop under way: iterator, key, entries it has visited
  ret        \* what the last operation returned

vars == <<hash, table, size, initSize, loop, ret>>

-----------------------------------------------------------------------------
Entry(k, d) == [key |-> k, data |-> d]
Free        == Entry(Null, Null)
Blank(n)    == [i \in 0 .. n - 1 |-> Free]
TableSize(t) == Cardinality(DOMAIN t)

\* a null iterator
NoSlot == Null
Idle   == [at |-> NoSlot, key |-> Null, seen |-> {}]

\* hashmap_calc_index in a table of n slots, and how far slot i is from there
Home(n, k)    == hash[k] % n
Dist(n, i, k) == (i + n - Home(n, k)) % n

\* hashmap_entry_find: the first slot of the chain that is free or holds k
SlotFor(t, k) ==
  LET n == TableSize(t)
      Stops == {d \in 0 .. n - 1 : t[(Home(n, k) + d) % n].key \in {k, Null}}
  IN  IF Stops = {} THEN NoSlot ELSE (Home(n, k) + Min(Stops)) % n

Present(t)  == {t[i].key : i \in DOMAIN t} \ {Null}
Lookup(t, k) == LET i == SlotFor(t, k) IN IF i = NoSlot THEN Null ELSE t[i].data

RoundUp(n) == Min({p \in PowersOfTwo : p >= n})

\* a wrong hashmap_calc_table_size: the size is not rounded up
SizeNotRounded(n, least) == LET wanted == n + n \div 3 IN Max({wanted, least})

\* hashmap_calc_table_size: a load of at most 3/4, unless the initial size does
SizeFor(n, least) ==
  LET wanted == n + n \div 3
  IN  IF wanted < least THEN least ELSE RoundUp(wanted)

\* hashmap_rehash: every entry of the old table, in the order of its slots
Moved(new, e) == IF e = Free THEN new ELSE [new EXCEPT ![SlotFor(new, e.key)] = e]
Moves(t, n) ==
  LET new[i \in 0 .. TableSize(t)] == IF i = 0 THEN Blank(n) ELSE Moved(new[i - 1], t[i - 1])
  IN  new
Rehashed(t, n) == Moves(t, n)[TableSize(t)]

\* the table that hashmap_base_put and _insert go on with
Grown == LET n == SizeFor(size, initSize)
         IN  IF n > TableSize(table) THEN Rehashed(table, n) ELSE table

\* a wrong hashmap_entry_remove: no entry moves back
RemovedOnly(t, r, n) == [t EXCEPT ![r] = Free]

\* the loop of hashmap_entry_remove at the i-th slot after r: an entry of the
\* chain whose home is at or before the hole moves into it, and leaves a hole
Shift(t, r, s, i) ==
  LET at == (r + i) % TableSize(t)
      k  == t[at].key
  IN  IF s.end \/ t[at] = Free THEN [s EXCEPT !.end = TRUE]
      ELSE IF Dist(TableSize(t), at, k) > Dist(TableSize(t), s.hole, k)
           THEN [t |-> [s.t EXCEPT ![s.hole] = t[at]], hole |-> at, end |-> FALSE]
           ELSE s
Shifts(t, r, n) ==
  LET state[i \in 0 .. n] == IF i = 0 THEN [t |-> t, hole |-> r, end |-> FALSE]
                                      ELSE Shift(t, r, state[i - 1], i)
  IN  state

\* a wrong hashmap_entry_remove: the hole stays where it was
RemovedAtStart(t, r, n) == [Shifts(t, r, n)[n].t EXCEPT ![r] = Free]

\* hashmap_entry_remove, of the n entries that are left
Removed(t, r, n) ==
  LET last == Shifts(t, r, n)[n] IN [last.t EXCEPT ![last.hole] = Free]

\* hashmap_entry_get_populated
Populated(t, n, from) ==
  LET Full == {i \in DOMAIN t : i >= from /\ t[i] # Free}
  IN  IF n = 0 \/ Full = {} THEN NoSlot ELSE Min(Full)

-----------------------------------------------------------------------------
\* hashmap_base_init; the table is allocated with the first entry
Init ==
  /\ hash \in [Keys -> Hashes]
  /\ table = Blank(0)
  /\ size = 0
  /\ initSize = DefaultSize
  /\ loop = Idle
  /\ ret = Null

Looping == loop.at # NoSlot

\* A full table without a free slot refuses the entry ("full").
Put(k, d) ==
  LET t == Grown
      i == SlotFor(t, k)
  IN  /\ ~Looping
      /\ IF i # NoSlot /\ t[i] = Free
         THEN /\ table' = [t EXCEPT ![i] = Entry(k, d)]
              /\ size' = size + 1
              /\ ret' = "added"
         ELSE /\ table' = t
              /\ ret' = IF i = NoSlot THEN "full" ELSE "exists"
              /\ UNCHANGED size
      /\ UNCHANGED <<hash, initSize, loop>>

Insert(k, d) ==
  LET t == Grown
      i == SlotFor(t, k)
  IN  /\ ~Looping
      /\ IF i = NoSlot
         THEN table' = t /\ ret' = "full" /\ UNCHANGED size
         ELSE /\ table' = [t EXCEPT ![i] = Entry(k, d)]
              /\ size' = IF t[i] = Free THEN size + 1 ELSE size
              /\ ret' = IF t[i] = Free THEN "added" ELSE "updated"
      /\ UNCHANGED <<hash, initSize, loop>>

\* Looking up is allowed in a loop.
Get(k) ==
  /\ ret' = Lookup(table, k)
  /\ UNCHANGED <<hash, table, size, initSize, loop>>

RemoveEntry(i) ==
  /\ table' = Removed(table, i, size - 1)
  /\ size' = size - 1
  /\ ret' = table[i].data

\* hashmap_base_remove; in a loop, only of the key the loop is at
Delete(k) ==
  /\ Looping => k = loop.key
  /\ LET i == SlotFor(table, k)
     IN  IF i # NoSlot /\ table[i] # Free
         THEN RemoveEntry(i)
         ELSE ret' = Null /\ UNCHANGED <<table, size>>
  /\ UNCHANGED <<hash, initSize, loop>>

Clear ==
  /\ ~Looping
  /\ table' = Blank(TableSize(table))
  /\ size' = 0
  /\ ret' = Null
  /\ UNCHANGED <<hash, initSize, loop>>

Reset ==
  /\ ~Looping
  /\ table' = Blank(initSize)
  /\ size' = 0
  /\ ret' = Null
  /\ UNCHANGED <<hash, initSize, loop>>

\* hashmap_base_cleanup, and hashmap_base_init for the next use
Cleanup ==
  /\ ~Looping
  /\ table' = Blank(0)
  /\ size' = 0
  /\ initSize' = DefaultSize
  /\ ret' = Null
  /\ UNCHANGED <<hash, loop>>

\* hashmap_base_reserve: the initial size is computed anew from the smallest
Reserve(c) ==
  LET n == SizeFor(c, MinSize)
  IN  /\ ~Looping
      /\ initSize' = n
      /\ table' = IF n > TableSize(table) THEN Rehashed(table, n) ELSE table
      /\ UNCHANGED <<hash, size, loop, ret>>

(***************************************************************************)
(* The loops.                                                              *)
(***************************************************************************)
\* the iterator is at slot i of t: the loop ends, or its body runs for the key there
Visit(t, i, seen) ==
  loop' = IF i = NoSlot THEN Idle
          ELSE [at |-> i, key |-> t[i].key, seen |-> seen \cup {t[i].key}]

LoopBegin ==
  /\ ~Looping
  /\ Visit(table, Populated(table, size, 0), {})
  /\ UNCHANGED <<hash, table, size, initSize, ret>>

\* a wrong step of a "safe" loop: it advances even after a removal
NextSlotAlways == loop.at + 1

\* the step of a "safe" loop: the slot is looked at again when the body has
\* removed its entry, as another may have moved into it
NextSlot == IF table[loop.at].key = loop.key THEN loop.at + 1 ELSE loop.at

LoopStep ==
  /\ Looping
  /\ Visit(table, Populated(table, size, NextSlot), loop.seen)
  /\ UNCHANGED <<hash, table, size, initSize, ret>>

\* hashmap_base_iter_remove: remove and step in one
IterRemove ==
  /\ Looping
  /\ table[loop.at] # Free
  /\ RemoveEntry(loop.at)
  /\ Visit(table', Populated(table', size', loop.at), loop.seen)
  /\ UNCHANGED <<hash, initSize>>

-----------------------------------------------------------------------------
Next ==
  \/ \E k \in Keys, d \in Data : Put(k, d) \/ Insert(k, d)
  \/ \E k \in Keys : Get(k) \/ Delete(k)
  \/ Clear \/ Reset \/ Cleanup
  \/ \E c \in Capacities : Reserve(c)
  \/ LoopBegin \/ LoopStep \/ IterRemove

Spec == Init /\ [][Next]_vars

-----------------------------------------------------------------------------
\* Every variable has its type.
TypeOK ==
  /\ hash \in [Keys -> Hashes]
  /\ TableSize(table) \in PowersOfTwo \cup {0}
  /\ table \in [0 .. TableSize(table) - 1 -> [key : Keys, data : Data] \cup {Free}]
  /\ size \in 0 .. TableSize(table)
  /\ initSize \in PowersOfTwo
  /\ loop \in [at : DOMAIN table, key : Keys, seen : SUBSET Keys] \cup {Idle}
  /\ ret \in Data \cup {Null, "added", "exists", "updated", "full"}

\* The map behaves as a function from keys to data: through collisions,
\* removals that move entries and rehashes, an operation returns what Dict
\* says and changes no other key's data; an entry is never refused.
Abstract == INSTANCE Dict WITH dict <- [k \in Keys |-> Lookup(table, k)]
ImplementsDict == Abstract!Spec

\* The table is what linear probing needs: a key has one slot, no slot between
\* its home and that slot is free, and size counts the entries.
Chained ==
  /\ size = Cardinality({i \in DOMAIN table : table[i] # Free})
  /\ \A i \in DOMAIN table : table[i] # Free => SlotFor(table, table[i].key) = i

\* A loop whose body removes at most the entry it is at passes over none: the
\* entries that are left at its end have all been visited, although removals
\* move entries, also from the start of the table to its end
\* (hashmap.h:407-410).
NothingSkipped ==
  [][Looping /\ loop' = Idle => Present(table') \subseteq loop.seen]_vars
=============================================================================
