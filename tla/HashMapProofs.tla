----------------------------- MODULE HashMapProofs -----------------------------
(***************************************************************************)
(* Proofs about HashMap, for any keys, any hash function and tables of any *)
(* size: the chains of linear probing stay whole through insertions,       *)
(* rehashes and removals that move entries back, also across the end of    *)
(* the table; the map implements a dictionary; and a loop whose body       *)
(* removes passes over no entry.                                           *)
(***************************************************************************)
EXTENDS HashMap, BoundedInduction, FiniteSetTheorems, TLAPS

-----------------------------------------------------------------------------
(* Numbers.                                                                *)

\* The distance from slot i on to slot j of a table of n.
Off(n, i, j) == IF i <= j THEN j - i ELSE j + n - i

\* The remainder of a number that passes the end of the table at most once.
LEMMA Wraps ==
  ASSUME NEW n \in Nat \ {0}, NEW a \in 0 .. 2 * n - 1
  PROVE  a % n = IF a < n THEN a ELSE a - n
  BY SMT

\* Slot numbers stay in the table.
LEMMA Remainder ==
  ASSUME NEW n \in Nat \ {0}, NEW a \in Nat
  PROVE  a % n \in 0 .. n - 1
  BY SMT

\* The distance to a slot, going it, and the distance gone.
LEMMA OffTo ==
  ASSUME NEW n \in Nat \ {0}, NEW h \in 0 .. n - 1, NEW x \in 0 .. n - 1
  PROVE  /\ Off(n, h, x) \in 0 .. n - 1
         /\ (h + Off(n, h, x)) % n = x
         /\ (x + n - h) % n = Off(n, h, x)
<1>. DEFINE a == h + Off(n, h, x)
            b == x + n - h
<1>1. /\ Off(n, h, x) \in 0 .. n - 1
      /\ a \in 0 .. 2 * n - 1 /\ b \in 0 .. 2 * n - 1
      /\ x = (IF a < n THEN a ELSE a - n)
      /\ Off(n, h, x) = IF b < n THEN b ELSE b - n
  BY DEF Off
<1>. HIDE DEF a, b
<1>2. a % n = x /\ b % n = Off(n, h, x)
  BY <1>1, Wraps
<1>. QED  BY <1>1, <1>2 DEF a, b

\* Going a distance of less than the table is undone by Off.
LEMMA OffGone ==
  ASSUME NEW n \in Nat \ {0}, NEW h \in 0 .. n - 1, NEW d \in 0 .. n - 1
  PROVE  (h + d) % n \in 0 .. n - 1 /\ Off(n, h, (h + d) % n) = d
<1>. DEFINE a == h + d
<1>1. /\ a \in 0 .. 2 * n - 1
      /\ (IF a < n THEN a ELSE a - n) \in 0 .. n - 1
      /\ Off(n, h, IF a < n THEN a ELSE a - n) = d
  BY DEF Off
<1>. HIDE DEF a
<1>2. a % n = IF a < n THEN a ELSE a - n
  BY <1>1, Wraps
<1>3. a % n \in 0 .. n - 1 /\ Off(n, h, a % n) = d
  BY <1>1, <1>2
<1>. QED  BY <1>3 DEF a

\* Slots at the same distance are the same.
LEMMA OffSame ==
  ASSUME NEW n \in Nat, NEW h \in 0 .. n - 1, NEW x \in 0 .. n - 1, NEW y \in 0 .. n - 1,
         Off(n, h, x) = Off(n, h, y)
  PROVE  x = y
BY DEF Off

-----------------------------------------------------------------------------
(* Tables.                                                                 *)

\* t is a table of n slots.
IsTable(t, n) == t \in [0 .. n - 1 -> [key : Keys, data : Data] \cup {Free}]

\* From the home of every entry to its slot no slot is free.
Unbroken(t, n) ==
  \A i, x \in 0 .. n - 1 :
     /\ t[i] # Free
     /\ Off(n, Home(n, t[i].key), x) < Off(n, Home(n, t[i].key), i)
     => t[x] # Free

\* A key has one entry.
Single(t, n) ==
  \A i, j \in 0 .. n - 1 : t[i] # Free /\ t[j].key = t[i].key => i = j

Sound(t, n) == IsTable(t, n) /\ Unbroken(t, n) /\ Single(t, n)

Used(t) == {i \in DOMAIN t : t[i] # Free}

Entries(t) == {t[i] : i \in Used(t)}

\* A slot is free, or has the entry of a key.
LEMMA SlotTypes ==
  ASSUME NEW n \in Nat, NEW t, IsTable(t, n)
  PROVE  /\ DOMAIN t = 0 .. n - 1
         /\ TableSize(t) = n
         /\ \A i \in 0 .. n - 1 :
              /\ t[i] = Free <=> t[i].key = Null
              /\ t[i] # Free => /\ t[i].key \in Keys /\ t[i].data \in Data
                                /\ t[i] = Entry(t[i].key, t[i].data)
              /\ t[i] = Free => t[i].key = Null /\ t[i].data = Null
<1>1. DOMAIN t = 0 .. n - 1
  BY DEF IsTable
<1>2. TableSize(t) = n
  BY <1>1, FS_Interval DEF TableSize
<1>3. ASSUME NEW i \in 0 .. n - 1
      PROVE  /\ t[i] = Free <=> t[i].key = Null
             /\ t[i] # Free => /\ t[i].key \in Keys /\ t[i].data \in Data
                               /\ t[i] = Entry(t[i].key, t[i].data)
             /\ t[i] = Free => t[i].key = Null /\ t[i].data = Null
  <2>1. t[i] \in [key : Keys, data : Data] \/ t[i] = Free
    BY DEF IsTable
  <2>. QED  BY <2>1, HashMapAssumption DEF Free, Entry
<1>. QED  BY <1>1, <1>2, <1>3

\* The home of a key is in the table.
LEMMA HomeIs ==
  ASSUME hash \in [Keys -> Hashes], NEW n \in Nat \ {0}, NEW k \in Keys
  PROVE  Home(n, k) \in 0 .. n - 1
<1>1. hash[k] \in Nat
  BY HashMapAssumption
<1>. QED  BY <1>1, Remainder DEF Home

\* The probe stops at the first slot that is free or has the key.
LEMMA SlotIs ==
  ASSUME hash \in [Keys -> Hashes], NEW n \in Nat \ {0}, NEW t, IsTable(t, n), NEW k \in Keys
  PROVE  \/ /\ SlotFor(t, k) = NoSlot
            /\ \A x \in 0 .. n - 1 : t[x].key \notin {k, Null}
         \/ /\ SlotFor(t, k) \in 0 .. n - 1
            /\ t[SlotFor(t, k)].key \in {k, Null}
            /\ \A x \in 0 .. n - 1 :
                 Off(n, Home(n, k), x) < Off(n, Home(n, k), SlotFor(t, k))
                   => t[x].key \notin {k, Null}
<1>. DEFINE h == Home(n, k)
            Stops == {d \in 0 .. n - 1 : t[(h + d) % n].key \in {k, Null}}
<1>1. h \in 0 .. n - 1
  BY HomeIs
<1>2. SlotFor(t, k) = IF Stops = {} THEN NoSlot ELSE (h + Min(Stops)) % n
  BY SlotTypes DEF SlotFor
<1>. HIDE DEF h
<1>3. ASSUME NEW x \in 0 .. n - 1, t[x].key \in {k, Null}
      PROVE  Off(n, h, x) \in Stops
  <2>1. Off(n, h, x) \in 0 .. n - 1 /\ (h + Off(n, h, x)) % n = x
    BY <1>1, OffTo
  <2>. QED  BY <1>3, <2>1
<1>4. CASE Stops = {}
  BY <1>2, <1>3, <1>4
<1>5. CASE Stops # {}
  <2>1. Stops \in SUBSET Nat
    OBVIOUS
  <2>2. Min(Stops) \in Stops /\ \A m \in Stops : Min(Stops) <= m
    BY <1>5, <2>1, SmallestOf, Zenon
  <2>3. SlotFor(t, k) = (h + Min(Stops)) % n
    BY <1>2, <1>5
  <2>. DEFINE d == Min(Stops)
  <2>4. d \in 0 .. n - 1 /\ t[(h + d) % n].key \in {k, Null}
    BY <2>2
  <2>. HIDE DEF d
  <2>5. SlotFor(t, k) \in 0 .. n - 1 /\ Off(n, h, SlotFor(t, k)) = d
    <3>1. (h + d) % n \in 0 .. n - 1 /\ Off(n, h, (h + d) % n) = d
      BY <1>1, <2>4, OffGone
    <3>. QED  BY <2>3, <3>1 DEF d
  <2>6. ASSUME NEW x \in 0 .. n - 1, Off(n, h, x) < Off(n, h, SlotFor(t, k)),
               t[x].key \in {k, Null}
        PROVE  FALSE
    <3>1. Off(n, h, x) \in Stops
      BY <1>3, <2>6
    <3>2. d <= Off(n, h, x)
      BY <3>1, <2>2 DEF d
    <3>3. Off(n, h, x) \in Nat
      BY <3>1
    <3>. QED  BY <2>4, <2>5, <2>6, <3>2, <3>3
  <2>. QED  BY <2>3, <2>4, <2>5, <2>6 DEF d, h
<1>. QED  BY <1>4, <1>5

\* The probe finds every entry.
LEMMA SlotOfEntry ==
  ASSUME hash \in [Keys -> Hashes], NEW n \in Nat \ {0}, NEW t, Sound(t, n),
         NEW i \in 0 .. n - 1, t[i] # Free
  PROVE  SlotFor(t, t[i].key) = i
<1>. DEFINE k == t[i].key
            h == Home(n, k)
            s == SlotFor(t, k)
<1>1. IsTable(t, n)
  BY DEF Sound
<1>2. k \in Keys /\ k # Null
  BY <1>1, SlotTypes, HashMapAssumption
<1>3. h \in 0 .. n - 1
  BY <1>2, HomeIs
<1>4. \/ /\ s = NoSlot
         /\ \A x \in 0 .. n - 1 : t[x].key \notin {k, Null}
      \/ /\ s \in 0 .. n - 1
         /\ t[s].key \in {k, Null}
         /\ \A x \in 0 .. n - 1 : Off(n, h, x) < Off(n, h, s) => t[x].key \notin {k, Null}
  BY <1>1, <1>2, SlotIs
<1>5. t[i].key = k
  OBVIOUS
<1>6. \A x \in 0 .. n - 1 : t[x] # Free /\ t[x].key = k => x = i
  BY DEF Sound, Single
<1>7. \A x \in 0 .. n - 1 : Off(n, h, x) < Off(n, h, i) => t[x] # Free
  BY DEF Sound, Unbroken
<1>. HIDE DEF s, h, k
<1>8. s \in 0 .. n - 1 /\ t[s].key \in {k, Null}
  BY <1>4, <1>5
<1>9. ASSUME NEW x \in 0 .. n - 1  PROVE Off(n, h, x) \in Nat
  BY <1>3 DEF Off
<1>10. ~ (Off(n, h, i) < Off(n, h, s))
  BY <1>4, <1>5, <1>8
<1>11. CASE t[s].key = k
  BY <1>1, <1>2, <1>6, <1>8, <1>11, SlotTypes DEF s, k
<1>12. CASE t[s].key = Null
  <2>1. t[s] = Free
    BY <1>1, <1>8, <1>12, SlotTypes
  <2>2. ~ (Off(n, h, s) < Off(n, h, i))
    BY <1>7, <1>8, <2>1
  <2>3. Off(n, h, s) = Off(n, h, i)
    BY <1>8, <1>9, <1>10, <2>2
  <2>. QED  BY <1>3, <1>8, <2>3, OffSame DEF s, k
<1>. QED  BY <1>8, <1>11, <1>12

\* An entry of a sound table is found by its key.
LEMMA LookupOfEntry ==
  ASSUME hash \in [Keys -> Hashes], NEW n \in Nat \ {0}, NEW t, Sound(t, n),
         NEW i \in 0 .. n - 1, t[i] # Free
  PROVE  Lookup(t, t[i].key) = t[i].data
<1>1. SlotFor(t, t[i].key) = i /\ i # NoSlot
  BY SlotOfEntry, HashMapAssumption DEF NoSlot
<1>. QED  BY <1>1 DEF Lookup

\* A key of no entry is not found.
LEMMA LookupOfNone ==
  ASSUME hash \in [Keys -> Hashes], NEW n \in Nat, NEW t, IsTable(t, n), NEW k \in Keys,
         \A i \in 0 .. n - 1 : t[i].key # k
  PROVE  Lookup(t, k) = Null
<1>1. CASE n = 0
  <2>1. SlotFor(t, k) = NoSlot
    BY <1>1, SlotTypes DEF SlotFor
  <2>. QED  BY <2>1 DEF Lookup
<1>2. CASE n # 0
  <2>1. n \in Nat \ {0} /\ 0 .. n - 1 \subseteq Nat
    BY <1>2
  <2>2. CASE SlotFor(t, k) = NoSlot
    BY <2>2 DEF Lookup
  <2>3. CASE SlotFor(t, k) # NoSlot
    <3>1. SlotFor(t, k) \in 0 .. n - 1 /\ t[SlotFor(t, k)].key = Null
      BY <2>1, <2>3, SlotIs
    <3>2. t[SlotFor(t, k)].data = Null
      BY <3>1, SlotTypes
    <3>. QED  BY <2>3, <3>2 DEF Lookup
  <2>. QED  BY <2>2, <2>3
<1>. QED  BY <1>1, <1>2

\* What a sound table says of a key, in terms of its entries.
LEMMA LookupIs ==
  ASSUME hash \in [Keys -> Hashes], NEW n \in Nat, NEW t, Sound(t, n), NEW k \in Keys
  PROVE  /\ Lookup(t, k) \in Data \cup {Null}
         /\ \A d \in Data : Entry(k, d) \in Entries(t) <=> Lookup(t, k) = d
<1>1. IsTable(t, n)
  BY DEF Sound
<1>2. \A i \in 0 .. n - 1 : t[i].key = k => t[i] # Free
  BY <1>1, SlotTypes, HashMapAssumption
<1>3. CASE \E i \in 0 .. n - 1 : t[i].key = k
  <2>1. PICK i \in 0 .. n - 1 : t[i].key = k
    BY <1>3
  <2>2. n \in Nat \ {0} /\ t[i] # Free
    BY <1>2, <2>1
  <2>3. Lookup(t, k) = t[i].data
    BY <2>1, <2>2, LookupOfEntry
  <2>4. t[i] = Entry(k, Lookup(t, k)) /\ Lookup(t, k) \in Data
    BY <1>1, <2>1, <2>2, <2>3, SlotTypes
  <2>5. t[i] \in Entries(t)
    BY <1>1, <2>2, SlotTypes DEF Entries, Used
  <2>6. ASSUME NEW d \in Data, Entry(k, d) \in Entries(t)  PROVE d = Lookup(t, k)
    <3>1. PICK j \in 0 .. n - 1 : t[j] # Free /\ t[j] = Entry(k, d)
      BY <1>1, <2>6, SlotTypes DEF Entries, Used
    <3>2. t[j].key = k /\ t[j].data = d
      BY <3>1 DEF Entry
    <3>. QED  BY <2>2, <3>1, <3>2, LookupOfEntry
  <2>. QED  BY <2>4, <2>5, <2>6
<1>4. CASE \A i \in 0 .. n - 1 : t[i].key # k
  <2>1. Lookup(t, k) = Null
    BY <1>1, <1>4, LookupOfNone
  <2>2. ASSUME NEW d \in Data  PROVE Entry(k, d) \notin Entries(t)
    BY <1>1, <1>4, SlotTypes DEF Entries, Used, Entry
  <2>. QED  BY <2>1, <2>2, HashMapAssumption
<1>. QED  BY <1>3, <1>4

\* Tables of any sizes with the same entries say the same of every key.
LEMMA SameLookup ==
  ASSUME hash \in [Keys -> Hashes], NEW n \in Nat, NEW m \in Nat, NEW t, NEW u,
         Sound(t, n), Sound(u, m), Entries(u) = Entries(t), NEW k \in Keys
  PROVE  Lookup(u, k) = Lookup(t, k)
<1>1. /\ Lookup(t, k) \in Data \cup {Null}
      /\ Lookup(u, k) \in Data \cup {Null}
  BY LookupIs
<1>2. \A d \in Data : Lookup(t, k) = d <=> Lookup(u, k) = d
  BY LookupIs
<1>. QED  BY <1>1, <1>2

\* A table with a free slot has one for every key, or the key's own.
LEMMA FindsRoom ==
  ASSUME hash \in [Keys -> Hashes], NEW n \in Nat \ {0}, NEW t, IsTable(t, n), NEW k \in Keys,
         NEW f \in 0 .. n - 1, t[f] = Free
  PROVE  /\ SlotFor(t, k) \in 0 .. n - 1
         /\ t[SlotFor(t, k)] # Free => t[SlotFor(t, k)].key = k
<1>1. t[f].key = Null
  BY SlotTypes
<1>2. SlotFor(t, k) \in 0 .. n - 1 /\ t[SlotFor(t, k)].key \in {k, Null}
  BY <1>1, SlotIs
<1>. QED  BY <1>2, SlotTypes

Stored(t, i, k, d) == [t EXCEPT ![i] = Entry(k, d)]

\* u is a sound table with the entry of k in slot i and all entries of t for other keys.
With(n, t, i, k, d, u) ==
  /\ Sound(u, n)
  /\ Used(u) = Used(t) \cup {i}
  /\ \A e : e \in Entries(u) <=> e = Entry(k, d) \/ (e \in Entries(t) /\ e.key # k)

\* An entry is put where the probe for its key stops: chains stay whole.
LEMMA Placed ==
  ASSUME hash \in [Keys -> Hashes], NEW n \in Nat \ {0}, NEW t, Sound(t, n),
         NEW k \in Keys, NEW d \in Data, NEW i \in 0 .. n - 1, i = SlotFor(t, k)
  PROVE  With(n, t, i, k, d, Stored(t, i, k, d))
<1>. SUFFICES ASSUME NEW u, u = [t EXCEPT ![i] = Entry(k, d)]
              PROVE  With(n, t, i, k, d, u)
  BY DEF Stored
<1>. DEFINE h == Home(n, k)
<1>1. /\ IsTable(t, n)
      /\ DOMAIN t = 0 .. n - 1
      /\ \A x \in 0 .. n - 1 : t[x] # Free => t[x].key \in Keys /\ t[x].key # Null
      /\ \A x \in 0 .. n - 1 : t[x] = Free => t[x].key = Null
  BY SlotTypes, HashMapAssumption DEF Sound
<1>2. /\ t[i].key \in {k, Null}
      /\ \A x \in 0 .. n - 1 : Off(n, h, x) < Off(n, h, i) => t[x].key \notin {k, Null}
  BY <1>1, SlotIs, HashMapAssumption DEF NoSlot
<1>3. /\ DOMAIN u = 0 .. n - 1
      /\ u[i] = Entry(k, d)
      /\ \A x \in 0 .. n - 1 : x # i => u[x] = t[x]
      /\ Entry(k, d) # Free /\ Entry(k, d).key = k
  BY <1>1, HashMapAssumption DEF Entry, Free
<1>4. IsTable(u, n)
  BY <1>1 DEF IsTable, Entry
<1>5. \A x \in 0 .. n - 1 : t[x].key = k => x = i
  <2>1. ASSUME NEW x \in 0 .. n - 1, t[x].key = k  PROVE x = i
    <3>1. t[x] # Free
      BY <1>1, <2>1, HashMapAssumption
    <3>. QED  BY <2>1, <3>1, SlotOfEntry
  <2>. QED  BY <2>1
<1>6. Unbroken(u, n)
  <2>1. ASSUME NEW a \in 0 .. n - 1, NEW x \in 0 .. n - 1, u[a] # Free,
               Off(n, Home(n, u[a].key), x) < Off(n, Home(n, u[a].key), a)
        PROVE  u[x] # Free
    <3>1. CASE x = i
      BY <1>3, <3>1
    <3>2. CASE x # i /\ a = i
      BY <1>1, <1>2, <1>3, <2>1, <3>2
    <3>3. CASE x # i /\ a # i
      BY <1>3, <2>1, <3>3 DEF Sound, Unbroken
    <3>. QED  BY <3>1, <3>2, <3>3
  <2>. QED  BY <2>1 DEF Unbroken
<1>7. Single(u, n)
  <2>1. ASSUME NEW a \in 0 .. n - 1, NEW b \in 0 .. n - 1, u[a] # Free, u[b].key = u[a].key
        PROVE  a = b
    <3>1. CASE a = i \/ b = i
      BY <1>3, <1>5, <2>1, <3>1
    <3>2. CASE a # i /\ b # i
      BY <1>3, <2>1, <3>2 DEF Sound, Single
    <3>. QED  BY <3>1, <3>2
  <2>. QED  BY <2>1 DEF Single
<1>8. Used(u) = Used(t) \cup {i}
  BY <1>1, <1>3 DEF Used
<1>9. ASSUME NEW e
      PROVE  e \in Entries(u) <=> e = Entry(k, d) \/ (e \in Entries(t) /\ e.key # k)
  <2>1. ASSUME e \in Entries(u)  PROVE e = Entry(k, d) \/ (e \in Entries(t) /\ e.key # k)
    <3>1. PICK x \in 0 .. n - 1 : u[x] # Free /\ e = u[x]
      BY <1>3, <2>1 DEF Entries, Used
    <3>2. CASE x # i
      BY <1>1, <1>3, <1>5, <3>1, <3>2 DEF Entries, Used
    <3>. QED  BY <1>3, <3>1, <3>2
  <2>2. ASSUME e \in Entries(t), e.key # k  PROVE e \in Entries(u)
    <3>1. PICK x \in 0 .. n - 1 : t[x] # Free /\ e = t[x]
      BY <1>1, <2>2 DEF Entries, Used
    <3>2. x # i
      BY <1>1, <1>2, <2>2, <3>1
    <3>. QED  BY <1>3, <3>1, <3>2 DEF Entries, Used
  <2>3. Entry(k, d) \in Entries(u)
    BY <1>3 DEF Entries, Used
  <2>. QED  BY <2>1, <2>2, <2>3
<1>. QED  BY <1>4, <1>6, <1>7, <1>8, <1>9 DEF Sound, With

\* A table without entries is sound.
LEMMA BlankSound ==
  ASSUME NEW n \in Nat
  PROVE  /\ Sound(Blank(n), n)
         /\ Used(Blank(n)) = {} /\ Entries(Blank(n)) = {}
<1>1. IsTable(Blank(n), n) /\ DOMAIN Blank(n) = 0 .. n - 1
      /\ \A i \in 0 .. n - 1 : Blank(n)[i] = Free
  BY DEF IsTable, Blank
<1>. QED  BY <1>1 DEF Sound, Unbroken, Single, Used, Entries

\* A sound table has as many entries as used slots, at most one per key.
LEMMA EntriesCount ==
  ASSUME NEW n \in Nat, NEW t, Sound(t, n)
  PROVE  /\ IsFiniteSet(Used(t)) /\ IsFiniteSet(Entries(t))
         /\ Cardinality(Used(t)) = Cardinality(Entries(t))
         /\ Cardinality(Used(t)) \in Nat
         /\ Cardinality(Used(t)) <= n
         /\ Cardinality(Used(t)) <= Cardinality(Keys)
<1>. DEFINE f == [i \in Used(t) |-> t[i]]
            g == [i \in Used(t) |-> t[i].key]
<1>1. IsTable(t, n) /\ DOMAIN t = 0 .. n - 1 /\ Used(t) \subseteq 0 .. n - 1
      /\ \A i \in Used(t) : t[i].key \in Keys
  BY SlotTypes DEF Sound, Used
<1>2. IsFiniteSet(Used(t)) /\ Cardinality(Used(t)) <= n /\ Cardinality(Used(t)) \in Nat
  <2>1. IsFiniteSet(0 .. n - 1) /\ Cardinality(0 .. n - 1) = n
    BY FS_Interval
  <2>. QED  BY <1>1, <2>1, FS_Subset, FS_CardinalityType
<1>3. \A i, j \in Used(t) : t[i].key = t[j].key => i = j
  BY <1>1 DEF Sound, Single, Used
<1>4. f \in Bijection(Used(t), Entries(t))
  BY <1>3 DEF Bijection, Injection, Surjection, IsInjective, Entries
<1>5. IsFiniteSet(Entries(t)) /\ Cardinality(Entries(t)) = Cardinality(Used(t))
  BY <1>2, <1>4, FS_Bijection DEF ExistsBijection
<1>6. g \in Injection(Used(t), Keys)
  BY <1>1, <1>3 DEF Injection, IsInjective
<1>7. Cardinality(Used(t)) <= Cardinality(Keys)
  BY <1>6, FS_Injection, HashMapAssumption
<1>. QED  BY <1>2, <1>5, <1>7

-----------------------------------------------------------------------------
(* Rehashing.                                                              *)

\* A table with fewer entries than slots has a free one.
LEMMA FreeSlot ==
  ASSUME NEW n \in Nat, NEW t, Sound(t, n), Cardinality(Used(t)) < n
  PROVE  \E f \in 0 .. n - 1 : t[f] = Free
<1>. SUFFICES ASSUME \A f \in 0 .. n - 1 : t[f] # Free
              PROVE  FALSE
  OBVIOUS
<1>1. Used(t) = 0 .. n - 1
  BY SlotTypes DEF Sound, Used
<1>2. Cardinality(0 .. n - 1) = n
  BY FS_Interval
<1>. QED  BY <1>1, <1>2

\* The tables after each slot exist: the recursion of Moves.
LEMMA MovesIs ==
  ASSUME NEW n \in Nat, NEW m \in Nat, NEW t, TableSize(t) = m
  PROVE  Moves(t, n) = [i \in 0 .. m |-> IF i = 0 THEN Blank(n)
                                         ELSE Moved(Moves(t, n)[i - 1], t[i - 1])]
<1>. DEFINE Rec(g, j) == g = [i \in 0 .. j |-> IF i = 0 THEN Blank(n)
                                               ELSE Moved(g[i - 1], t[i - 1])]
            S == {j \in 0 .. m : \E g : Rec(g, j)}
<1>1. 0 \in S
  <2>1. Rec([i \in 0 .. 0 |-> Blank(n)], 0)
    OBVIOUS
  <2>2. 0 \in 0 .. m
    OBVIOUS
  <2>. HIDE DEF Rec
  <2>. QED  BY <2>1, <2>2
<1>2. ASSUME NEW j \in 0 .. m - 1, j \in S  PROVE j + 1 \in S
  <2>1. PICK g : Rec(g, j)
    BY <1>2
  <2>. DEFINE h == [i \in 0 .. j + 1 |-> IF i <= j THEN g[i] ELSE Moved(g[j], t[j])]
  <2>2. Rec(h, j + 1)
    <3>1. ASSUME NEW i \in 0 .. j + 1
          PROVE  h[i] = IF i = 0 THEN Blank(n) ELSE Moved(h[i - 1], t[i - 1])
      <4>1. CASE i = 0
        BY <2>1, <4>1
      <4>2. CASE i \in 1 .. j
        BY <2>1, <4>2
      <4>3. CASE i = j + 1
        <5>1. h[i] = Moved(g[j], t[j]) /\ h[i - 1] = g[j] /\ i - 1 = j /\ i # 0
          BY <4>3
        <5>. QED  BY <5>1
      <4>. QED  BY <4>1, <4>2, <4>3
    <3>. QED  BY <3>1
  <2>3. j + 1 \in 0 .. m
    OBVIOUS
  <2>. HIDE DEF Rec, h
  <2>. QED  BY <2>2, <2>3
<1>3. m \in S
  <2>. HIDE DEF S
  <2>1. \A i \in 0 .. m : i \in S
    BY <1>1, <1>2, UpTo
  <2>. QED  BY <2>1
<1>4. PICK g : Rec(g, m)
  BY <1>3
<1>. QED  BY <1>4 DEF Moves

\* Rehashing into a table with more slots than entries keeps them all.
LEMMA RehashedIs ==
  ASSUME hash \in [Keys -> Hashes], NEW m \in Nat, NEW t, Sound(t, m),
         NEW n \in Nat \ {0}, Cardinality(Used(t)) < n
  PROVE  /\ Sound(Rehashed(t, n), n)
         /\ Entries(Rehashed(t, n)) = Entries(t)
<1>. DEFINE new == Moves(t, n)
            Good(i) == /\ Sound(new[i], n)
                       /\ \A e : e \in Entries(new[i]) <=>
                            \E x \in 0 .. i - 1 : t[x] # Free /\ e = t[x]
            S == {i \in 0 .. m : Good(i)}
<1>1. /\ IsTable(t, m) /\ TableSize(t) = m /\ DOMAIN t = 0 .. m - 1
      /\ \A x \in 0 .. m - 1 : t[x] # Free =>
           /\ t[x].key \in Keys /\ t[x].data \in Data
           /\ t[x] = Entry(t[x].key, t[x].data)
  BY SlotTypes DEF Sound
<1>2. new = [i \in 0 .. m |-> IF i = 0 THEN Blank(n) ELSE Moved(new[i - 1], t[i - 1])]
  BY <1>1, MovesIs
<1>. HIDE DEF new
<1>3. 0 \in S
  <2>1. new[0] = Blank(n)
    BY <1>2
  <2>. QED  BY <2>1, BlankSound
<1>4. ASSUME NEW i \in 0 .. m - 1, i \in S  PROVE i + 1 \in S
  <2>1. Good(i) /\ i + 1 \in 0 .. m /\ i + 1 # 0 /\ (i + 1) - 1 = i
    BY <1>4
  <2>2. new[i + 1] = Moved(new[i], t[i])
    BY <1>2, <2>1
  <2>3. CASE t[i] = Free
    <3>1. new[i + 1] = new[i]
      BY <2>2, <2>3 DEF Moved
    <3>2. Good(i + 1)
      BY <2>1, <2>3, <3>1
    <3>. QED  BY <2>1, <3>2
  <2>4. CASE t[i] # Free
    <3>. DEFINE k == t[i].key
                s == SlotFor(new[i], k)
    <3>1. k \in Keys /\ t[i].data \in Data /\ t[i] = Entry(k, t[i].data)
      BY <1>1, <2>4
    <3>2. new[i + 1] = [new[i] EXCEPT ![s] = Entry(k, t[i].data)]
      BY <2>2, <2>4, <3>1 DEF Moved
    <3>3. Entries(new[i]) \subseteq Entries(t)
      <4>1. ASSUME NEW e \in Entries(new[i])  PROVE e \in Entries(t)
        <5>1. PICK x \in 0 .. i - 1 : t[x] # Free /\ e = t[x]
          BY <2>1, <4>1
        <5>2. x \in 0 .. m - 1
          OBVIOUS
        <5>. QED  BY <1>1, <5>1, <5>2 DEF Entries, Used
      <4>. QED  BY <4>1
    <3>4. Cardinality(Used(new[i])) < n
      <4>1. /\ IsFiniteSet(Entries(t)) /\ Cardinality(Used(t)) = Cardinality(Entries(t))
            /\ Cardinality(Used(t)) \in Nat
        BY EntriesCount
      <4>2. /\ Cardinality(Used(new[i])) = Cardinality(Entries(new[i]))
            /\ Cardinality(Used(new[i])) \in Nat
        BY <2>1, EntriesCount
      <4>3. Cardinality(Entries(new[i])) <= Cardinality(Entries(t))
        BY <3>3, <4>1, FS_Subset
      <4>. QED  BY <4>1, <4>2, <4>3
    <3>5. PICK f \in 0 .. n - 1 : new[i][f] = Free
      BY <2>1, <3>4, FreeSlot
    <3>6. s \in 0 .. n - 1
      <4>1. IsTable(new[i], n)
        BY <2>1 DEF Sound
      <4>. QED  BY <3>1, <3>5, <4>1, FindsRoom
    <3>7. /\ Sound(new[i + 1], n)
          /\ \A e : e \in Entries(new[i + 1]) <=>
               e = Entry(k, t[i].data) \/ (e \in Entries(new[i]) /\ e.key # k)
      <4>. HIDE DEF k
      <4>1. Sound(new[i], n)
        BY <2>1
      <4>2. new[i + 1] = Stored(new[i], s, k, t[i].data)
        BY <3>2 DEF Stored
      <4>3. With(n, new[i], s, k, t[i].data, Stored(new[i], s, k, t[i].data))
        BY <3>1, <3>6, <4>1, Placed
      <4>. QED  BY <4>2, <4>3 DEF With
    <3>8. \A x \in 0 .. i - 1 : t[x] # Free => t[x].key # k
      <4>1. ASSUME NEW x \in 0 .. i - 1, t[x] # Free, t[x].key = k  PROVE FALSE
        <5>1. x \in 0 .. m - 1 /\ x # i
          OBVIOUS
        <5>. QED  BY <2>4, <4>1, <5>1 DEF Sound, Single
      <4>. QED  BY <4>1
    <3>9. ASSUME NEW e
          PROVE  e \in Entries(new[i + 1]) <=> \E x \in 0 .. i : t[x] # Free /\ e = t[x]
      <4>1. e \in Entries(new[i + 1]) <=>
               e = t[i] \/ \E x \in 0 .. i - 1 : t[x] # Free /\ e = t[x]
        BY <2>1, <3>1, <3>7, <3>8
      <4>. QED  BY <2>4, <4>1
    <3>10. Good(i + 1)
      BY <2>1, <3>7, <3>9
    <3>. QED  BY <2>1, <3>10
  <2>. QED  BY <2>3, <2>4
<1>5. Good(m)
  <2>1. \A i \in 0 .. m : i \in S
    <3>. HIDE DEF S
    <3>. QED  BY <1>3, <1>4, UpTo
  <2>. QED  BY <2>1
<1>6. Rehashed(t, n) = new[m]
  BY <1>1 DEF Rehashed, new
<1>7. Entries(new[m]) = Entries(t)
  <2>1. ASSUME NEW e  PROVE e \in Entries(new[m]) <=> e \in Entries(t)
    <3>1. e \in Entries(t) <=> \E x \in 0 .. m - 1 : t[x] # Free /\ e = t[x]
      BY <1>1 DEF Entries, Used
    <3>. QED  BY <1>5, <3>1
  <2>. QED  BY <2>1
<1>. QED  BY <1>5, <1>6, <1>7

-----------------------------------------------------------------------------
(* Removing.  Slots are compared by their distance from a free slot f, so  *)
(* that the end of the table plays no part.                                *)

\* Distances from a slot f that no chain crosses order the slots of a chain.
LEMMA Passing ==
  ASSUME NEW n \in Nat, NEW f \in 0 .. n - 1, NEW h \in 0 .. n - 1, NEW a \in 0 .. n - 1,
         NEW x \in 0 .. n - 1
  PROVE  /\ Off(n, f, h) \in 0 .. n - 1
         /\ Off(n, f, x) = 0 <=> x = f
         /\ f # a /\ ~ (Off(n, h, f) < Off(n, h, a)) => Off(n, f, h) <= Off(n, f, a)
         /\ Off(n, f, h) <= Off(n, f, a) =>
              (Off(n, h, x) < Off(n, h, a)
                 <=> Off(n, f, h) <= Off(n, f, x) /\ Off(n, f, x) < Off(n, f, a))
         /\ Off(n, f, h) <= Off(n, f, a) /\ Off(n, f, x) < Off(n, f, a) =>
              (Off(n, h, a) > Off(n, h, x) <=> Off(n, f, h) <= Off(n, f, x))
         /\ f # a /\ f # x /\ Off(n, f, a) <= Off(n, f, x) => Off(n, a, x) < Off(n, a, f)
BY DEF Off

\* The slot i after a is i further from f, up to f itself.
LEMMA Going ==
  ASSUME NEW n \in Nat \ {0}, NEW f \in 0 .. n - 1, NEW a \in 0 .. n - 1, NEW i \in 0 .. n - 1
  PROVE  /\ (a + i) % n \in 0 .. n - 1
         /\ Off(n, f, a) + i <= n - 1 => Off(n, f, (a + i) % n) = Off(n, f, a) + i
         /\ Off(n, f, a) + i = n => (a + i) % n = f
<1>. DEFINE b == a + i
            c == IF b < n THEN b ELSE b - n
<1>1. /\ b \in 0 .. 2 * n - 1
      /\ c \in 0 .. n - 1
      /\ Off(n, f, a) + i <= n - 1 => Off(n, f, c) = Off(n, f, a) + i
      /\ Off(n, f, a) + i = n => c = f
  BY DEF Off
<1>. HIDE DEF b
<1>2. b % n = c
  BY <1>1, Wraps
<1>. HIDE DEF c
<1>3. /\ b % n \in 0 .. n - 1
      /\ Off(n, f, a) + i <= n - 1 => Off(n, f, b % n) = Off(n, f, a) + i
      /\ Off(n, f, a) + i = n => b % n = f
  BY <1>1, <1>2
<1>. QED  BY <1>3 DEF b

\* hashmap_calc_dist is the distance from the home of a key.
LEMMA DistIs ==
  ASSUME hash \in [Keys -> Hashes], NEW n \in Nat \ {0}, NEW k \in Keys, NEW x \in 0 .. n - 1
  PROVE  Dist(n, x, k) = Off(n, Home(n, k), x)
<1>1. Home(n, k) \in 0 .. n - 1
  BY HomeIs
<1>. QED  BY <1>1, OffTo DEF Dist

\* A chain seen from a free slot: an entry is at its home or after it, and
\* nothing is free from there to it.
LEMMA Chain ==
  ASSUME hash \in [Keys -> Hashes], NEW n \in Nat \ {0}, NEW t, Sound(t, n),
         NEW f \in 0 .. n - 1, t[f] = Free, NEW a \in 0 .. n - 1, t[a] # Free
  PROVE  /\ Home(n, t[a].key) \in 0 .. n - 1
         /\ Off(n, f, Home(n, t[a].key)) <= Off(n, f, a)
         /\ \A x \in 0 .. n - 1 :
              /\ Off(n, f, Home(n, t[a].key)) <= Off(n, f, x)
              /\ Off(n, f, x) <= Off(n, f, a)
              => t[x] # Free
<1>. DEFINE h == Home(n, t[a].key)
<1>1. h \in 0 .. n - 1
  BY SlotTypes, HomeIs DEF Sound
<1>2. \A x \in 0 .. n - 1 : Off(n, h, x) < Off(n, h, a) => t[x] # Free
  BY DEF Sound, Unbroken
<1>. HIDE DEF h
<1>3. Off(n, f, h) <= Off(n, f, a)
  BY <1>1, <1>2, Passing
<1>4. ASSUME NEW x \in 0 .. n - 1, Off(n, f, h) <= Off(n, f, x), Off(n, f, x) <= Off(n, f, a)
      PROVE  t[x] # Free
  <2>1. Off(n, f, x) < Off(n, f, a) => Off(n, h, x) < Off(n, h, a)
    BY <1>1, <1>3, <1>4, Passing
  <2>2. Off(n, f, x) \in 0 .. n - 1 /\ Off(n, f, a) \in 0 .. n - 1
    BY Passing
  <2>3. Off(n, f, x) = Off(n, f, a) => x = a
    BY OffSame
  <2>. QED  BY <1>2, <1>4, <2>1, <2>2, <2>3
<1>. QED  BY <1>1, <1>3, <1>4 DEF h

\* The chain that goes on from a used slot ends at a free one, and all its slots
\* are used.
LEMMA ChainEnds ==
  ASSUME NEW n \in Nat \ {0}, NEW t, Sound(t, n), Cardinality(Used(t)) < n,
         NEW r \in 0 .. n - 1, t[r] # Free
  PROVE  \E f \in 0 .. n - 1 :
           /\ t[f] = Free
           /\ \A x \in 0 .. n - 1 : Off(n, f, r) <= Off(n, f, x) => t[x] # Free
           /\ n - Off(n, f, r) <= Cardinality(Used(t))
<1>. DEFINE Gone == {Off(n, r, x) : x \in {y \in 0 .. n - 1 : t[y] = Free}}
<1>1. Gone # {}
  BY FreeSlot
<1>2. ASSUME NEW x \in 0 .. n - 1  PROVE Off(n, r, x) \in Nat
  BY DEF Off
<1>3. Gone \in SUBSET Nat
  BY <1>2
<1>4. Min(Gone) \in Gone /\ \A m \in Gone : Min(Gone) <= m
  BY <1>1, <1>3, SmallestOf, Zenon
<1>5. PICK f \in 0 .. n - 1 : t[f] = Free /\ Min(Gone) = Off(n, r, f)
  BY <1>4
<1>6. ASSUME NEW x \in 0 .. n - 1, t[x] = Free  PROVE Off(n, r, f) <= Off(n, r, x)
  BY <1>4, <1>5, <1>6
<1>7. ASSUME NEW x \in 0 .. n - 1, Off(n, f, r) <= Off(n, f, x)  PROVE t[x] # Free
  <2>1. x # f
    BY <1>5, <1>7, Passing
  <2>2. Off(n, r, x) < Off(n, r, f)
    BY <1>5, <1>7, <2>1, Passing
  <2>. QED  BY <1>2, <1>6, <2>2
<1>8. n - Off(n, f, r) <= Cardinality(Used(t))
  <2>. DEFINE l == Off(n, f, r)
              g == [d \in l .. n - 1 |-> (f + d) % n]
  <2>1. l \in 0 .. n - 1
    BY Passing
  <2>. HIDE DEF l
  <2>2. ASSUME NEW d \in l .. n - 1
        PROVE  (f + d) % n \in Used(t) /\ Off(n, f, (f + d) % n) = d
    <3>1. (f + d) % n \in 0 .. n - 1 /\ Off(n, f, (f + d) % n) = d
      <4>1. d \in 0 .. n - 1
        BY <2>1
      <4>. QED  BY <4>1, OffGone
    <3>2. t[(f + d) % n] # Free
      BY <1>7, <2>1, <3>1 DEF l
    <3>. QED  BY <3>1, <3>2, SlotTypes DEF Used, Sound
  <2>3. g \in Injection(l .. n - 1, Used(t))
    <3>1. g \in [l .. n - 1 -> Used(t)]
      BY <2>2
    <3>2. ASSUME NEW d \in l .. n - 1, NEW e \in l .. n - 1, g[d] = g[e]  PROVE d = e
      BY <2>2, <3>2
    <3>. QED  BY <3>1, <3>2 DEF Injection, IsInjective
  <2>4. Cardinality(l .. n - 1) = n - l
    BY <2>1, FS_Interval
  <2>5. IsFiniteSet(Used(t))
    BY EntriesCount
  <2>. QED  BY <2>3, <2>4, <2>5, FS_Injection DEF l
<1>. QED  BY <1>5, <1>7, <1>8

\* The table u with the hole g, when the slots of t that follow r have been gone
\* through up to the distance c from f.  Entries have moved towards r, none to
\* before its home; and those behind the hole have their homes behind it.
Shifted(n, t, f, r, u, g, c) ==
  LET L(x) == Off(n, f, x)
      H(x) == Off(n, f, Home(n, u[x].key))
      Slots == 0 .. n - 1
  IN  /\ IsTable(u, n)
      /\ g \in Slots
      /\ L(r) <= L(g) /\ L(g) <= c
      /\ \A x \in Slots : u[x] = Free <=> t[x] = Free
      /\ \A x \in Slots : L(x) < L(r) \/ L(g) <= L(x) => u[x] = t[x]
      /\ \A x \in Slots : L(r) <= L(x) /\ L(x) < L(g) =>
           \E q \in Slots : q # r /\ L(x) <= L(q) /\ L(q) <= L(g) /\ u[x] = t[q]
      /\ \A q \in Slots : L(r) < L(q) /\ L(q) <= L(g) =>
           \E x \in Slots : L(r) <= L(x) /\ L(x) < L(g) /\ u[x] = t[q]
      /\ \A x, y \in Slots :
           x # g /\ y # g /\ u[x] # Free /\ u[y].key = u[x].key => x = y
      /\ \A x \in Slots : x # g /\ u[x] # Free =>
           /\ H(x) <= L(x)
           /\ \A y \in Slots : H(x) <= L(y) /\ L(y) <= L(x) => t[y] # Free
      /\ \A x \in Slots : L(g) < L(x) /\ L(x) <= c => L(g) < H(x)

\* Before the first slot nothing has been moved.
LEMMA ShiftedFirst ==
  ASSUME hash \in [Keys -> Hashes], NEW n \in Nat \ {0}, NEW t, Sound(t, n),
         NEW f \in 0 .. n - 1, t[f] = Free, NEW r \in 0 .. n - 1, t[r] # Free
  PROVE  Shifted(n, t, f, r, t, r, Off(n, f, r))
<1>1. \A x \in 0 .. n - 1 : Off(n, f, x) \in 0 .. n - 1
  BY Passing
<1>2. ASSUME NEW x \in 0 .. n - 1, t[x] # Free
      PROVE  /\ Off(n, f, Home(n, t[x].key)) <= Off(n, f, x)
             /\ \A y \in 0 .. n - 1 :
                  /\ Off(n, f, Home(n, t[x].key)) <= Off(n, f, y)
                  /\ Off(n, f, y) <= Off(n, f, x)
                  => t[y] # Free
  BY <1>2, Chain
<1>3. \A x, y \in 0 .. n - 1 : t[x] # Free /\ t[y].key = t[x].key => x = y
  BY DEF Sound, Single
<1>4. IsTable(t, n)
  BY DEF Sound
<1>. QED  BY <1>1, <1>2, <1>3, <1>4 DEF Shifted

\* One more slot of the chain is gone through.
LEMMA ShiftedNext ==
  ASSUME hash \in [Keys -> Hashes], NEW n \in Nat \ {0}, NEW t, Sound(t, n),
         NEW f \in 0 .. n - 1, t[f] = Free, NEW r \in 0 .. n - 1,
         \A x \in 0 .. n - 1 : Off(n, f, r) <= Off(n, f, x) => t[x] # Free,
         NEW u, NEW g, NEW c \in Nat, Shifted(n, t, f, r, u, g, c),
         NEW a \in 0 .. n - 1, Off(n, f, a) = c + 1
  PROVE  IF Dist(n, a, t[a].key) > Dist(n, g, t[a].key)
         THEN Shifted(n, t, f, r, [u EXCEPT ![g] = t[a]], a, c + 1)
         ELSE Shifted(n, t, f, r, u, g, c + 1)
<1>. DEFINE L(x) == Off(n, f, x)
            k == t[a].key
            h == Home(n, k)
            v == [u EXCEPT ![g] = t[a]]
<1>1. /\ IsTable(u, n) /\ g \in 0 .. n - 1
      /\ L(r) <= L(g) /\ L(g) <= c
      /\ \A x \in 0 .. n - 1 : u[x] = Free <=> t[x] = Free
      /\ \A x \in 0 .. n - 1 : L(x) < L(r) \/ L(g) <= L(x) => u[x] = t[x]
      /\ \A x \in 0 .. n - 1 : L(r) <= L(x) /\ L(x) < L(g) =>
           \E q \in 0 .. n - 1 : q # r /\ L(x) <= L(q) /\ L(q) <= L(g) /\ u[x] = t[q]
      /\ \A q \in 0 .. n - 1 : L(r) < L(q) /\ L(q) <= L(g) =>
           \E x \in 0 .. n - 1 : L(r) <= L(x) /\ L(x) < L(g) /\ u[x] = t[q]
      /\ \A x, y \in 0 .. n - 1 :
           x # g /\ y # g /\ u[x] # Free /\ u[y].key = u[x].key => x = y
      /\ \A x \in 0 .. n - 1 : x # g /\ u[x] # Free =>
           /\ L(Home(n, u[x].key)) <= L(x)
           /\ \A y \in 0 .. n - 1 : L(Home(n, u[x].key)) <= L(y) /\ L(y) <= L(x) => t[y] # Free
      /\ \A x \in 0 .. n - 1 : L(g) < L(x) /\ L(x) <= c => L(g) < L(Home(n, u[x].key))
  BY DEF Shifted
<1>2. /\ \A x \in 0 .. n - 1 : L(x) \in 0 .. n - 1
      /\ \A x, y \in 0 .. n - 1 : L(x) = L(y) => x = y
  <2>1. ASSUME NEW x \in 0 .. n - 1  PROVE L(x) \in 0 .. n - 1
    BY Passing
  <2>2. ASSUME NEW x \in 0 .. n - 1, NEW y \in 0 .. n - 1, L(x) = L(y)  PROVE x = y
    BY <2>2, OffSame
  <2>. QED  BY <2>1, <2>2
<1>3. L(a) = c + 1 /\ t[a] # Free /\ a # g /\ a # r
      /\ (\A x \in 0 .. n - 1 : L(r) <= L(x) => t[x] # Free)
  BY <1>1, <1>2
<1>4. /\ h \in 0 .. n - 1 /\ L(h) <= L(a)
      /\ \A x \in 0 .. n - 1 : L(h) <= L(x) /\ L(x) <= L(a) => t[x] # Free
  BY <1>3, Chain
<1>5. k \in Keys /\ t[a] = Entry(k, t[a].data) /\ t[a].data \in Data /\ IsTable(t, n)
  BY <1>3, SlotTypes DEF Sound
<1>6. L(g) < L(a)
  BY <1>1, <1>2, <1>3
<1>7. Dist(n, a, k) > Dist(n, g, k) <=> L(h) <= L(g)
  <2>1. Dist(n, a, k) = Off(n, h, a) /\ Dist(n, g, k) = Off(n, h, g)
    BY <1>1, <1>5, DistIs
  <2>. HIDE DEF h
  <2>2. Off(n, h, a) > Off(n, h, g) <=> L(h) <= L(g)
    BY <1>1, <1>4, <1>6, Passing
  <2>. QED  BY <2>1, <2>2
<1>8. u[a] = t[a]
  BY <1>1, <1>2, <1>6
<1>9. CASE L(h) <= L(g)
  <2>1. /\ DOMAIN u = 0 .. n - 1 /\ v[g] = t[a]
        /\ \A x \in 0 .. n - 1 : x # g => v[x] = u[x]
    BY <1>1 DEF IsTable
  <2>. HIDE DEF v
  <2>2. IsTable(v, n)
    BY <1>1, <1>5 DEF IsTable, v
  <2>3. L(r) <= L(a) /\ L(a) <= c + 1
    BY <1>1, <1>2, <1>3, <1>6
  <2>4. ASSUME NEW x \in 0 .. n - 1  PROVE v[x] = Free <=> t[x] = Free
    BY <1>1, <1>3, <2>1
  <2>5. ASSUME NEW x \in 0 .. n - 1, L(x) < L(r) \/ L(a) <= L(x)  PROVE v[x] = t[x]
    <3>1. L(x) \in 0 .. n - 1 /\ L(r) <= L(g) /\ L(g) < L(a)
          /\ L(g) \in 0 .. n - 1 /\ L(r) \in 0 .. n - 1 /\ L(a) \in 0 .. n - 1
      BY <1>1, <1>2, <1>6
    <3>2. x # g /\ (L(x) < L(r) \/ L(g) <= L(x))
      BY <2>5, <3>1
    <3>. QED  BY <1>1, <2>1, <3>2
  <2>6. ASSUME NEW x \in 0 .. n - 1, L(r) <= L(x), L(x) < L(a)
        PROVE  \E q \in 0 .. n - 1 : q # r /\ L(x) <= L(q) /\ L(q) <= L(a) /\ v[x] = t[q]
    <3>1. CASE x = g
      <4>1. a # r /\ L(x) <= L(a) /\ L(a) <= L(a) /\ v[x] = t[a]
        BY <1>2, <1>3, <1>6, <2>1, <3>1
      <4>. QED  BY <4>1
    <3>2. CASE L(x) < L(g)
      <4>1. PICK q \in 0 .. n - 1 : q # r /\ L(x) <= L(q) /\ L(q) <= L(g) /\ u[x] = t[q]
        BY <1>1, <2>6, <3>2
      <4>2. v[x] = u[x]
        BY <1>2, <2>1, <3>2
      <4>3. L(q) \in 0 .. n - 1 /\ L(a) \in 0 .. n - 1 /\ L(g) \in 0 .. n - 1
        BY <1>1, <1>2
      <4>4. L(q) <= L(a)
        BY <1>6, <4>1, <4>3
      <4>. QED  BY <4>1, <4>2, <4>4
    <3>3. CASE L(g) < L(x)
      <4>1. x # g /\ x # r /\ u[x] = t[x]
        BY <1>1, <1>2, <3>3
      <4>2. v[x] = t[x]
        BY <2>1, <4>1
      <4>3. L(x) \in 0 .. n - 1 /\ L(a) \in 0 .. n - 1
        BY <1>2
      <4>4. L(x) <= L(x) /\ L(x) <= L(a)
        BY <2>6, <4>3
      <4>. QED  BY <4>1, <4>2, <4>4
    <3>. QED  BY <1>1, <1>2, <3>1, <3>2, <3>3
  <2>7. ASSUME NEW q \in 0 .. n - 1, L(r) < L(q), L(q) <= L(a)
        PROVE  \E x \in 0 .. n - 1 : L(r) <= L(x) /\ L(x) < L(a) /\ v[x] = t[q]
    <3>1. CASE q = a
      BY <1>1, <1>6, <2>1, <3>1
    <3>2. CASE L(q) <= L(g)
      <4>1. PICK x \in 0 .. n - 1 : L(r) <= L(x) /\ L(x) < L(g) /\ u[x] = t[q]
        BY <1>1, <2>7, <3>2
      <4>2. v[x] = u[x]
        <5>1. x # g
          BY <1>1, <1>2, <4>1
        <5>. QED  BY <2>1, <5>1
      <4>3. L(x) \in 0 .. n - 1 /\ L(a) \in 0 .. n - 1 /\ L(g) \in 0 .. n - 1
        BY <1>1, <1>2
      <4>4. L(x) < L(a)
        BY <1>6, <4>1, <4>3
      <4>. QED  BY <4>1, <4>2, <4>4
    <3>3. CASE L(g) < L(q) /\ q # a
      <4>1. q # g /\ u[q] = t[q] /\ L(q) < L(a)
        BY <1>1, <1>2, <2>7, <3>3
      <4>2. v[q] = t[q]
        BY <2>1, <4>1
      <4>3. L(q) \in 0 .. n - 1 /\ L(r) \in 0 .. n - 1
        BY <1>2
      <4>4. L(r) <= L(q)
        BY <2>7, <4>3
      <4>. QED  BY <4>1, <4>2, <4>4
    <3>. QED  BY <1>1, <1>2, <3>1, <3>2, <3>3
  <2>8. ASSUME NEW x \in 0 .. n - 1, NEW y \in 0 .. n - 1, x # a, y # a, v[x] # Free,
               v[y].key = v[x].key
        PROVE  x = y
    <3>1. CASE x # g /\ y # g
      BY <1>1, <2>1, <2>8, <3>1
    <3>2. CASE x = g /\ y # g
      <4>1. v[y] = u[y] /\ v[x] = u[a]
        BY <1>8, <2>1, <3>2
      <4>. QED  BY <1>1, <1>3, <1>8, <2>8, <3>2, <4>1
    <3>3. CASE x # g /\ y = g
      <4>1. v[x] = u[x] /\ v[y] = u[a]
        BY <1>8, <2>1, <3>3
      <4>. QED  BY <1>1, <1>3, <1>8, <2>8, <3>3, <4>1
    <3>. QED  BY <3>1, <3>2, <3>3
  <2>9. ASSUME NEW x \in 0 .. n - 1, x # a, v[x] # Free
        PROVE  /\ L(Home(n, v[x].key)) <= L(x)
               /\ \A y \in 0 .. n - 1 :
                    L(Home(n, v[x].key)) <= L(y) /\ L(y) <= L(x) => t[y] # Free
    <3>1. CASE x = g
      <4>1. v[x].key = k
        BY <2>1, <3>1
      <4>2. L(Home(n, v[x].key)) <= L(x)
        BY <1>9, <3>1, <4>1
      <4>3. ASSUME NEW y \in 0 .. n - 1, L(h) <= L(y), L(y) <= L(x)  PROVE t[y] # Free
        <5>1. L(y) <= L(a)
          BY <1>1, <1>2, <1>6, <3>1, <4>3
        <5>. QED  BY <1>4, <4>3, <5>1
      <4>. QED  BY <4>1, <4>2, <4>3
    <3>2. CASE x # g
      BY <1>1, <2>1, <2>9, <3>2
    <3>. QED  BY <3>1, <3>2
  <2>10. ASSUME NEW x \in 0 .. n - 1, L(a) < L(x), L(x) <= c + 1
         PROVE  L(a) < L(Home(n, v[x].key))
    BY <1>2, <1>3, <2>10
  <2>11. Shifted(n, t, f, r, v, a, c + 1)
    BY <2>2, <2>3, <2>4, <2>5, <2>6, <2>7, <2>8, <2>9, <2>10 DEF Shifted
  <2>. QED  BY <1>7, <1>9, <2>11 DEF v
<1>10. CASE ~ (L(h) <= L(g))
  <2>1. ASSUME NEW x \in 0 .. n - 1, L(g) < L(x), L(x) <= c + 1
        PROVE  L(g) < L(Home(n, u[x].key))
    <3>1. CASE x = a
      BY <1>1, <1>2, <1>4, <1>8, <1>10, <3>1
    <3>2. CASE x # a
      BY <1>1, <1>2, <1>3, <2>1, <3>2
    <3>. QED  BY <3>1, <3>2
  <2>2. Shifted(n, t, f, r, u, g, c + 1)
    <3>1. L(g) <= c + 1
      BY <1>1, <1>2
    <3>. QED  BY <1>1, <2>1, <3>1 DEF Shifted
  <2>. QED  BY <1>7, <1>10, <2>2
<1>. QED  BY <1>9, <1>10

Cleared(u, g) == [u EXCEPT ![g] = Free]

\* v is a sound table with all entries of t but the one in slot r; none has
\* moved from slot r or behind it to a slot before it.
Without(n, t, r, v) ==
  /\ Sound(v, n)
  /\ Entries(v) = Entries(t) \ {t[r]}
  /\ \A x \in 0 .. n - 1 :
       x < r /\ v[x] # Free => \E y \in 0 .. n - 1 : y < r /\ t[y] = v[x]

\* At the end of the chain the hole becomes free, and the chains are whole again.
LEMMA ShiftedLast ==
  ASSUME hash \in [Keys -> Hashes], NEW n \in Nat \ {0}, NEW t, Sound(t, n),
         NEW f \in 0 .. n - 1, t[f] = Free, NEW r \in 0 .. n - 1, t[r] # Free,
         NEW u, NEW g, Shifted(n, t, f, r, u, g, n - 1)
  PROVE  Without(n, t, r, Cleared(u, g))
<1>. SUFFICES ASSUME NEW v, v = [u EXCEPT ![g] = Free]
              PROVE  Without(n, t, r, v)
  BY DEF Cleared
<1>. DEFINE L(x) == Off(n, f, x)
<1>1. /\ IsTable(u, n) /\ g \in 0 .. n - 1
      /\ L(r) <= L(g)
      /\ \A x \in 0 .. n - 1 : u[x] = Free <=> t[x] = Free
      /\ \A x \in 0 .. n - 1 : L(x) < L(r) \/ L(g) <= L(x) => u[x] = t[x]
      /\ \A x \in 0 .. n - 1 : L(r) <= L(x) /\ L(x) < L(g) =>
           \E q \in 0 .. n - 1 : q # r /\ L(x) <= L(q) /\ L(q) <= L(g) /\ u[x] = t[q]
      /\ \A q \in 0 .. n - 1 : L(r) < L(q) /\ L(q) <= L(g) =>
           \E x \in 0 .. n - 1 : L(r) <= L(x) /\ L(x) < L(g) /\ u[x] = t[q]
      /\ \A x, y \in 0 .. n - 1 :
           x # g /\ y # g /\ u[x] # Free /\ u[y].key = u[x].key => x = y
      /\ \A x \in 0 .. n - 1 : x # g /\ u[x] # Free =>
           /\ L(Home(n, u[x].key)) <= L(x)
           /\ \A y \in 0 .. n - 1 : L(Home(n, u[x].key)) <= L(y) /\ L(y) <= L(x) => t[y] # Free
      /\ \A x \in 0 .. n - 1 : L(g) < L(x) /\ L(x) <= n - 1 => L(g) < L(Home(n, u[x].key))
  BY DEF Shifted
<1>2. /\ \A x \in 0 .. n - 1 : L(x) \in 0 .. n - 1
      /\ \A x, y \in 0 .. n - 1 : L(x) = L(y) => x = y
  <2>1. ASSUME NEW x \in 0 .. n - 1  PROVE L(x) \in 0 .. n - 1
    BY Passing
  <2>2. ASSUME NEW x \in 0 .. n - 1, NEW y \in 0 .. n - 1, L(x) = L(y)  PROVE x = y
    BY <2>2, OffSame
  <2>. QED  BY <2>1, <2>2
<1>3. /\ DOMAIN v = 0 .. n - 1 /\ v[g] = Free
      /\ \A x \in 0 .. n - 1 : x # g => v[x] = u[x]
  BY <1>1 DEF IsTable
<1>4. IsTable(v, n)
  BY <1>1 DEF IsTable
<1>5. Unbroken(v, n)
  <2>1. ASSUME NEW a \in 0 .. n - 1, NEW x \in 0 .. n - 1, v[a] # Free,
               Off(n, Home(n, v[a].key), x) < Off(n, Home(n, v[a].key), a)
        PROVE  v[x] # Free
    <3>. DEFINE h == Home(n, u[a].key)
    <3>1. a # g /\ v[a] = u[a] /\ u[a] # Free
      BY <1>3, <2>1
    <3>2. h \in 0 .. n - 1
      BY <1>1, <3>1, SlotTypes, HomeIs
    <3>3. L(h) <= L(a) /\ \A y \in 0 .. n - 1 : L(h) <= L(y) /\ L(y) <= L(a) => t[y] # Free
      BY <1>1, <3>1
    <3>4. L(g) < L(a) => L(g) < L(h)
      <4>1. L(a) <= n - 1
        BY <1>2
      <4>. QED  BY <1>1, <4>1
    <3>5. Off(n, h, x) < Off(n, h, a)
      BY <2>1, <3>1
    <3>. HIDE DEF h
    <3>6. L(h) <= L(x) /\ L(x) < L(a)
      BY <3>2, <3>3, <3>5, Passing
    <3>7. L(h) \in 0 .. n - 1 /\ L(x) \in 0 .. n - 1 /\ L(a) \in 0 .. n - 1 /\ L(g) \in 0 .. n - 1
      BY <1>1, <1>2, <3>2
    <3>8. t[x] # Free /\ x # g
      BY <3>3, <3>4, <3>6, <3>7
    <3>. QED  BY <1>1, <1>3, <3>8
  <2>. QED  BY <2>1 DEF Unbroken
<1>6. Single(v, n)
  <2>1. ASSUME NEW x \in 0 .. n - 1, NEW y \in 0 .. n - 1, v[x] # Free, v[y].key = v[x].key
        PROVE  x = y
    <3>1. y # g
      BY <1>3, <1>4, <2>1, SlotTypes
    <3>. QED  BY <1>1, <1>3, <2>1, <3>1
  <2>. QED  BY <2>1 DEF Single
<1>7. \A q \in 0 .. n - 1 : t[q] = t[r] => q = r
  BY DEF Sound, Single
<1>8. ASSUME NEW x \in 0 .. n - 1, v[x] # Free
      PROVE  \E q \in 0 .. n - 1 :
               /\ q # r /\ v[x] = t[q]
               /\ q = x \/ (L(r) <= L(x) /\ L(x) < L(g) /\ L(x) <= L(q) /\ L(q) <= L(g))
  <2>1. x # g /\ v[x] = u[x]
    BY <1>3, <1>8
  <2>2. CASE L(r) <= L(x) /\ L(x) < L(g)
    BY <1>1, <2>1, <2>2
  <2>3. CASE L(x) < L(r) \/ L(g) <= L(x)
    <3>1. u[x] = t[x]
      BY <1>1, <2>3
    <3>2. L(x) \in 0 .. n - 1 /\ L(r) \in 0 .. n - 1 /\ L(g) \in 0 .. n - 1
      BY <1>1, <1>2
    <3>3. x # r
      <4>1. ASSUME x = r  PROVE L(x) = L(g)
        BY <1>1, <2>3, <3>2, <4>1
      <4>. QED  BY <1>1, <1>2, <2>1, <4>1
    <3>. QED  BY <2>1, <3>1, <3>3
  <2>4. L(x) \in 0 .. n - 1 /\ L(r) \in 0 .. n - 1 /\ L(g) \in 0 .. n - 1
    BY <1>1, <1>2
  <2>. QED  BY <2>2, <2>3, <2>4
<1>9. ASSUME NEW q \in 0 .. n - 1, q # r, t[q] # Free
      PROVE  \E x \in 0 .. n - 1 : v[x] = t[q]
  <2>1. L(q) \in 0 .. n - 1 /\ L(r) \in 0 .. n - 1 /\ L(g) \in 0 .. n - 1 /\ L(q) # L(r)
    BY <1>1, <1>2, <1>9
  <2>2. CASE L(r) < L(q) /\ L(q) <= L(g)
    <3>1. PICK x \in 0 .. n - 1 : L(r) <= L(x) /\ L(x) < L(g) /\ u[x] = t[q]
      BY <1>1, <2>2
    <3>2. x # g
      BY <2>1, <3>1
    <3>. QED  BY <1>3, <3>1, <3>2
  <2>3. CASE L(q) < L(r) \/ L(g) < L(q)
    <3>1. u[q] = t[q]
      BY <1>1, <2>1, <2>3
    <3>2. q # g
      BY <1>1, <2>1, <2>3
    <3>. QED  BY <1>3, <3>1, <3>2
  <2>. QED  BY <2>1, <2>2, <2>3
<1>10. Entries(v) = Entries(t) \ {t[r]}
  <2>1. DOMAIN t = 0 .. n - 1
    BY SlotTypes DEF Sound
  <2>2. ASSUME NEW e \in Entries(v)  PROVE e \in Entries(t) \ {t[r]}
    <3>1. PICK x \in 0 .. n - 1 : v[x] # Free /\ e = v[x]
      BY <1>3 DEF Entries, Used
    <3>2. PICK q \in 0 .. n - 1 : q # r /\ v[x] = t[q]
      BY <1>8, <3>1
    <3>. QED  BY <1>7, <2>1, <3>1, <3>2 DEF Entries, Used
  <2>3. ASSUME NEW e \in Entries(t) \ {t[r]}  PROVE e \in Entries(v)
    <3>1. PICK q \in 0 .. n - 1 : t[q] # Free /\ e = t[q] /\ q # r
      BY <2>1 DEF Entries, Used
    <3>2. PICK x \in 0 .. n - 1 : v[x] = t[q]
      BY <1>9, <3>1
    <3>. QED  BY <1>3, <3>1, <3>2 DEF Entries, Used
  <2>. QED  BY <2>2, <2>3
<1>11. ASSUME NEW x \in 0 .. n - 1, x < r, v[x] # Free
       PROVE  \E y \in 0 .. n - 1 : y < r /\ t[y] = v[x]
  <2>1. PICK q \in 0 .. n - 1 :
               /\ q # r /\ v[x] = t[q]
               /\ q = x \/ (L(r) <= L(x) /\ L(x) < L(g) /\ L(x) <= L(q) /\ L(q) <= L(g))
    BY <1>8, <1>11
  <2>2. q = x \/ (L(r) <= L(x) /\ L(x) <= L(q))
    BY <2>1
  <2>3. q < r
    BY <1>11, <2>2 DEF Off
  <2>. QED  BY <2>1, <2>3
<1>. QED  BY <1>4, <1>5, <1>6, <1>10, <1>11 DEF Sound, Without

\* The states of the loop after each slot exist: the recursion of Shifts.
LEMMA ShiftsIs ==
  ASSUME NEW t, NEW r, NEW m \in Nat
  PROVE  Shifts(t, r, m) = [i \in 0 .. m |-> IF i = 0 THEN [t |-> t, hole |-> r, end |-> FALSE]
                                             ELSE Shift(t, r, Shifts(t, r, m)[i - 1], i)]
<1>. DEFINE First == [t |-> t, hole |-> r, end |-> FALSE]
            Rec(g, j) == g = [i \in 0 .. j |-> IF i = 0 THEN First ELSE Shift(t, r, g[i - 1], i)]
            S == {j \in 0 .. m : \E g : Rec(g, j)}
<1>. HIDE DEF First
<1>1. 0 \in S
  <2>1. Rec([i \in 0 .. 0 |-> First], 0)
    OBVIOUS
  <2>2. 0 \in 0 .. m
    OBVIOUS
  <2>. HIDE DEF Rec
  <2>. QED  BY <2>1, <2>2
<1>2. ASSUME NEW j \in 0 .. m - 1, j \in S  PROVE j + 1 \in S
  <2>1. PICK g : Rec(g, j)
    BY <1>2
  <2>. DEFINE h == [i \in 0 .. j + 1 |-> IF i <= j THEN g[i] ELSE Shift(t, r, g[j], j + 1)]
  <2>2. Rec(h, j + 1)
    <3>1. ASSUME NEW i \in 0 .. j + 1
          PROVE  h[i] = IF i = 0 THEN First ELSE Shift(t, r, h[i - 1], i)
      <4>1. CASE i = 0
        BY <2>1, <4>1
      <4>2. CASE i \in 1 .. j
        BY <2>1, <4>2
      <4>3. CASE i = j + 1
        <5>1. h[i] = Shift(t, r, g[j], i) /\ h[i - 1] = g[j] /\ i # 0
          BY <4>3
        <5>. QED  BY <5>1
      <4>. QED  BY <4>1, <4>2, <4>3
    <3>. QED  BY <3>1
  <2>3. j + 1 \in 0 .. m
    OBVIOUS
  <2>. HIDE DEF Rec, h
  <2>. QED  BY <2>2, <2>3
<1>3. m \in S
  <2>. HIDE DEF S
  <2>1. \A i \in 0 .. m : i \in S
    BY <1>1, <1>2, UpTo
  <2>. QED  BY <2>1
<1>4. PICK g : Rec(g, m)
  BY <1>3
<1>. QED  BY <1>4 DEF Shifts, First

\* Removing an entry keeps the others and the chains, and moves none from the
\* removed slot or behind it to a slot before it.
LEMMA RemovedIs ==
  ASSUME hash \in [Keys -> Hashes], NEW n \in Nat \ {0}, NEW t, Sound(t, n),
         NEW r \in 0 .. n - 1, t[r] # Free,
         NEW m \in Nat, Cardinality(Used(t)) = m + 1, m + 1 < n
  PROVE  Without(n, t, r, Removed(t, r, m))
<1>1. PICK f \in 0 .. n - 1 :
             /\ t[f] = Free
             /\ \A x \in 0 .. n - 1 : Off(n, f, r) <= Off(n, f, x) => t[x] # Free
             /\ n - Off(n, f, r) <= m + 1
  BY ChainEnds
<1>. DEFINE l == Off(n, f, r)
            b == n - 1 - l
            state == Shifts(t, r, m)
            At(i) == (r + i) % n
            Record(e, i) == [t |-> state[i].t, hole |-> state[i].hole, end |-> e]
            Good(i) == /\ i <= b => state[i] = Record(FALSE, i)
                       /\ i > b => state[i] = Record(TRUE, i)
                       /\ Shifted(n, t, f, r, state[i].t, state[i].hole, IF i <= b THEN l + i ELSE n - 1)
            S == {i \in 0 .. m : Good(i)}
<1>2. l \in 1 .. n - 1 /\ b \in 0 .. m /\ TableSize(t) = n /\ m \in 0 .. n - 2
  <2>1. l \in 0 .. n - 1 /\ l # 0
    BY <1>1, Passing
  <2>2. n - l <= m + 1
    BY <1>1
  <2>3. TableSize(t) = n
    BY SlotTypes DEF Sound
  <2>. QED  BY <2>1, <2>2, <2>3
<1>3. state = [i \in 0 .. m |-> IF i = 0 THEN [t |-> t, hole |-> r, end |-> FALSE]
                                ELSE Shift(t, r, state[i - 1], i)]
  BY ShiftsIs
<1>. HIDE DEF l, state
<1>4. 0 \in S
  <2>1. state[0] = [t |-> t, hole |-> r, end |-> FALSE]
    BY <1>3
  <2>2. Shifted(n, t, f, r, t, r, l + 0)
    BY <1>1, <1>2, ShiftedFirst DEF l
  <2>3. 0 <= b /\ ~ (0 > b) /\ state[0].t = t /\ state[0].hole = r
    BY <1>2, <2>1
  <2>4. Good(0)
    BY <2>1, <2>2, <2>3
  <2>. QED  BY <1>2, <2>4
<1>5. ASSUME NEW i \in 0 .. m - 1, i \in S  PROVE i + 1 \in S
  <2>1. Good(i) /\ i + 1 \in 1 .. m /\ i + 1 \in 0 .. n - 1
    BY <1>2, <1>5
  <2>. DEFINE s == state[i]
              at == At(i + 1)
              k == t[at].key
  <2>2. state[i + 1] = IF s.end \/ t[at] = Free THEN [s EXCEPT !.end = TRUE]
                       ELSE IF Dist(n, at, k) > Dist(n, s.hole, k)
                            THEN [t |-> [s.t EXCEPT ![s.hole] = t[at]], hole |-> at, end |-> FALSE]
                            ELSE s
    <3>1. (i + 1) - 1 = i /\ i + 1 # 0 /\ i + 1 \in 0 .. m
      BY <2>1
    <3>2. state[i + 1] = Shift(t, r, state[i], i + 1)
      BY <1>3, <3>1
    <3>. QED  BY <1>2, <3>2 DEF Shift
  <2>3. /\ at \in 0 .. n - 1
        /\ l + (i + 1) <= n - 1 => Off(n, f, at) = l + (i + 1)
        /\ l + (i + 1) = n => at = f
    <3>1. ASSUME NEW d \in 0 .. n - 1
          PROVE  /\ (r + d) % n \in 0 .. n - 1
                 /\ l + d <= n - 1 => Off(n, f, (r + d) % n) = l + d
                 /\ l + d = n => (r + d) % n = f
      <4>1. f \in 0 .. n - 1
        BY <1>1
      <4>2. r \in 0 .. n - 1
        OBVIOUS
      <4>3. n \in Nat \ {0}
        OBVIOUS
      <4>4. (r + d) % n \in 0 .. n - 1
        BY <4>1, <4>2, <4>3, Going
      <4>5. Off(n, f, r) + d <= n - 1 => Off(n, f, (r + d) % n) = Off(n, f, r) + d
        BY <4>1, <4>2, <4>3, Going
      <4>6. Off(n, f, r) + d = n => (r + d) % n = f
        BY <4>1, <4>2, <4>3, Going
      <4>. QED  BY <4>4, <4>5, <4>6 DEF l
    <3>. QED  BY <2>1, <3>1
  <2>4. /\ i <= b => s = [t |-> s.t, hole |-> s.hole, end |-> FALSE] /\ ~ s.end
        /\ i > b => s = [t |-> s.t, hole |-> s.hole, end |-> TRUE] /\ s.end
    BY <2>1
  <2>5. Shifted(n, t, f, r, s.t, s.hole, IF i <= b THEN l + i ELSE n - 1)
    BY <2>1
  <2>. HIDE DEF s, at
  <2>6. CASE i + 1 <= b
    <3>0. i <= b /\ l + (i + 1) <= n - 1 /\ l + (i + 1) = (l + i) + 1 /\ l + i \in Nat
      BY <1>2, <2>6
    <3>1. ~ s.end /\ Off(n, f, at) = (l + i) + 1 /\ l + i \in Nat
      BY <2>3, <2>4, <3>0
    <3>2. t[at] # Free
      BY <1>1, <1>2, <2>3, <3>1 DEF l
    <3>3. Shifted(n, t, f, r, s.t, s.hole, l + i)
      BY <1>2, <2>5, <2>6
    <3>4. IF Dist(n, at, k) > Dist(n, s.hole, k)
          THEN Shifted(n, t, f, r, [s.t EXCEPT ![s.hole] = t[at]], at, (l + i) + 1)
          ELSE Shifted(n, t, f, r, s.t, s.hole, (l + i) + 1)
      BY <1>1, <2>3, <3>1, <3>3, ShiftedNext
    <3>5. (l + i) + 1 = l + (i + 1) /\ ~ (i > b) /\ ~ (i + 1 > b)
      BY <1>2, <2>6
    <3>6. Good(i + 1)
      <4>1. CASE Dist(n, at, k) > Dist(n, s.hole, k)
        <5>1. state[i + 1] = [t |-> [s.t EXCEPT ![s.hole] = t[at]], hole |-> at, end |-> FALSE]
          BY <2>2, <3>1, <3>2, <4>1
        <5>2. /\ state[i + 1].t = [s.t EXCEPT ![s.hole] = t[at]] /\ state[i + 1].hole = at
              /\ state[i + 1] = Record(FALSE, i + 1)
          BY <5>1
        <5>3. Shifted(n, t, f, r, state[i + 1].t, state[i + 1].hole, l + (i + 1))
          BY <3>4, <3>5, <4>1, <5>2
        <5>. QED  BY <2>6, <3>5, <5>2, <5>3
      <4>2. CASE ~ (Dist(n, at, k) > Dist(n, s.hole, k))
        <5>1. state[i + 1] = s
          BY <2>2, <3>1, <3>2, <4>2
        <5>2. state[i + 1] = Record(FALSE, i + 1)
          BY <2>4, <3>0, <5>1
        <5>3. Shifted(n, t, f, r, state[i + 1].t, state[i + 1].hole, l + (i + 1))
          BY <3>4, <3>5, <4>2, <5>1
        <5>. QED  BY <2>6, <3>5, <5>2, <5>3
      <4>. QED  BY <4>1, <4>2
    <3>. QED  BY <2>1, <3>6
  <2>7. CASE i + 1 > b
    <3>1. s.end \/ t[at] = Free
      <4>1. CASE i > b
        BY <2>4, <4>1
      <4>2. CASE i = b
        BY <1>1, <1>2, <2>3, <4>2
      <4>. QED  BY <1>2, <2>7, <4>1, <4>2
    <3>2. state[i + 1] = [t |-> s.t, hole |-> s.hole, end |-> TRUE]
      <4>1. state[i + 1] = [s EXCEPT !.end = TRUE]
        BY <2>2, <3>1
      <4>2. i <= b \/ i > b
        BY <1>2
      <4>. QED  BY <2>4, <4>1, <4>2
    <3>3. Shifted(n, t, f, r, s.t, s.hole, n - 1)
      BY <1>2, <2>5, <2>7
    <3>4. Good(i + 1)
      <4>1. ~ (i + 1 <= b)
        BY <1>2, <2>7
      <4>2. state[i + 1].t = s.t /\ state[i + 1].hole = s.hole /\ state[i + 1] = Record(TRUE, i + 1)
        BY <3>2
      <4>. QED  BY <2>7, <3>3, <4>1, <4>2
    <3>. QED  BY <2>1, <3>4
  <2>. QED  BY <1>2, <2>6, <2>7
<1>6. Good(m)
  <2>1. \A i \in 0 .. m : i \in S
    <3>. HIDE DEF S
    <3>. QED  BY <1>4, <1>5, UpTo
  <2>. QED  BY <2>1
<1>7. Shifted(n, t, f, r, state[m].t, state[m].hole, n - 1)
  BY <1>2, <1>6
<1>8. Removed(t, r, m) = Cleared(state[m].t, state[m].hole)
  BY DEF Removed, Cleared, state
<1>9. ASSUME NEW u, NEW g, Shifted(n, t, f, r, u, g, n - 1)
      PROVE  Without(n, t, r, Cleared(u, g))
  <2>1. f \in 0 .. n - 1 /\ t[f] = Free
    BY <1>1
  <2>2. hash \in [Keys -> Hashes] /\ n \in Nat \ {0} /\ Sound(t, n) /\ r \in 0 .. n - 1 /\ t[r] # Free
    OBVIOUS
  <2>. QED  BY ONLY <1>9, <2>1, <2>2, ShiftedLast
<1>. QED  BY <1>7, <1>8, <1>9

-----------------------------------------------------------------------------
(* The size of a table.                                                    *)

\* hashmap_calc_table_size leaves room for two more entries, and the size is
\* not below the initial one.
LEMMA SizeIs ==
  ASSUME NEW s \in Nat, s + s \div 3 <= MaxSize,
         NEW least \in PowersOfTwo, least >= 8
  PROVE  /\ SizeFor(s, least) \in PowersOfTwo
         /\ SizeFor(s, least) >= least
         /\ SizeFor(s, least) >= s + 2
<1>. DEFINE wanted == s + s \div 3
            Large == {p \in PowersOfTwo : p >= wanted}
<1>1. /\ PowersOfTwo \subseteq Nat
      /\ least \in Nat /\ wanted \in Nat /\ MaxSize \in Nat
  BY HashMapAssumption DEF PowersOfTwo
<1>2. wanted < least => s + 2 <= least
  BY <1>1
<1>3. wanted >= 8 => wanted >= s + 2
  BY <1>1
<1>4. RoundUp(wanted) \in PowersOfTwo /\ RoundUp(wanted) >= wanted
  <2>1. Large \in SUBSET Nat
    BY <1>1
  <2>2. MaxSize \in Large
    BY HashMapAssumption
  <2>3. Min(Large) \in Large
    BY <2>1, <2>2, SmallestOf
  <2>. QED  BY <2>3 DEF RoundUp
<1>5. CASE wanted < least
  BY <1>1, <1>2, <1>5 DEF SizeFor
<1>6. CASE ~ (wanted < least)
  <2>1. SizeFor(s, least) = RoundUp(wanted)
    BY <1>6 DEF SizeFor
  <2>2. wanted >= least /\ wanted >= s + 2
    BY <1>1, <1>3, <1>6
  <2>3. RoundUp(wanted) \in Nat
    BY <1>1, <1>4
  <2>. HIDE DEF wanted
  <2>. QED  BY <1>1, <1>4, <2>1, <2>2, <2>3
<1>. QED  BY <1>5, <1>6

\* A number of keys fits into a table of the largest size.
LEMMA KeysFit ==
  ASSUME NEW s \in Nat, s <= Cardinality(Keys)
  PROVE  s + s \div 3 <= MaxSize
<1>. DEFINE c == Cardinality(Keys)
<1>1. c \in Nat /\ MaxSize \in Nat /\ c + c \div 3 <= MaxSize
  BY HashMapAssumption, FS_CardinalityType
<1>. HIDE DEF c
<1>2. s <= c
  BY DEF c
<1>. QED  BY <1>1, <1>2

-----------------------------------------------------------------------------
(* The operations on a table.                                              *)

\* A sound table of n slots with s entries and a free slot, or no slot at all.
TableOK(t, s, n) ==
  /\ n \in PowersOfTwo \cup {0}
  /\ TableSize(t) = n
  /\ Sound(t, n)
  /\ Cardinality(Used(t)) = s
  /\ n = 0 \/ s < n

\* What TableOK says of a table, in the terms of the lemmas.
LEMMA TableFacts ==
  ASSUME NEW t, NEW s, NEW n, TableOK(t, s, n)
  PROVE  /\ n \in Nat /\ s \in Nat /\ s <= n /\ s <= Cardinality(Keys)
         /\ Sound(t, n) /\ IsTable(t, n) /\ DOMAIN t = 0 .. n - 1
         /\ IsFiniteSet(Used(t))
         /\ n \in PowersOfTwo => 0 < n /\ n \in Nat \ {0}
<1>1. n \in Nat /\ (n \in PowersOfTwo => 0 < n /\ n \in Nat \ {0})
  BY DEF TableOK, PowersOfTwo
<1>2. Sound(t, n) /\ IsTable(t, n)
  BY DEF TableOK, Sound
<1>3. DOMAIN t = 0 .. n - 1
  BY <1>1, <1>2, SlotTypes
<1>. QED  BY <1>1, <1>2, <1>3, EntriesCount DEF TableOK

\* A blank table.
LEMMA BlankIs ==
  ASSUME hash \in [Keys -> Hashes], NEW n \in PowersOfTwo \cup {0}
  PROVE  /\ TableOK(Blank(n), 0, n)
         /\ \A k \in Keys : Lookup(Blank(n), k) = Null
<1>1. n \in Nat
  BY DEF PowersOfTwo
<1>2. Sound(Blank(n), n) /\ Used(Blank(n)) = {} /\ Entries(Blank(n)) = {}
  BY <1>1, BlankSound
<1>3. TableSize(Blank(n)) = n
  BY <1>1, <1>2, SlotTypes DEF Sound
<1>4. TableOK(Blank(n), 0, n)
  <2>1. n = 0 \/ 0 < n
    BY <1>1
  <2>. QED  BY <1>2, <1>3, <2>1, FS_EmptySet DEF TableOK
<1>5. ASSUME NEW k \in Keys  PROVE Lookup(Blank(n), k) = Null
  <2>1. Lookup(Blank(n), k) \in Data \cup {Null}
    BY <1>1, <1>2, LookupIs
  <2>2. \A d \in Data : Lookup(Blank(n), k) # d
    BY <1>1, <1>2, LookupIs
  <2>. QED  BY <2>1, <2>2
<1>. QED  BY <1>4, <1>5

\* A larger table gets all entries of the old one.
LEMMA RehashIs ==
  ASSUME hash \in [Keys -> Hashes], NEW t, NEW s, NEW m, TableOK(t, s, m),
         NEW n \in PowersOfTwo, s < n
  PROVE  /\ TableOK(Rehashed(t, n), s, n)
         /\ \A k \in Keys : Lookup(Rehashed(t, n), k) = Lookup(t, k)
<1>1. /\ m \in Nat /\ Sound(t, m) /\ n \in Nat \ {0} /\ n \in Nat
      /\ Cardinality(Used(t)) = s
  BY TableFacts DEF TableOK, PowersOfTwo
<1>. DEFINE u == Rehashed(t, n)
<1>2. Sound(u, n) /\ Entries(u) = Entries(t)
  BY <1>1, RehashedIs
<1>. HIDE DEF u
<1>3. Cardinality(Used(u)) = s
  BY <1>1, <1>2, EntriesCount
<1>4. TableSize(u) = n
  BY <1>1, <1>2, SlotTypes DEF Sound
<1>5. \A k \in Keys : Lookup(u, k) = Lookup(t, k)
  BY <1>1, <1>2, SameLookup
<1>6. TableOK(u, s, n)
  BY <1>2, <1>3, <1>4 DEF TableOK
<1>. QED  BY <1>5, <1>6 DEF u

\* An entry stored where the probe for its key stops: only its key's data changes.
LEMMA StoreIs ==
  ASSUME hash \in [Keys -> Hashes], NEW t, NEW s, NEW n, TableOK(t, s, n),
         n \in PowersOfTwo, s + 2 <= n, NEW k \in Keys, NEW d \in Data,
         NEW i, i = SlotFor(t, k), NEW u, u = Stored(t, i, k, d)
  PROVE  /\ i # NoSlot
         /\ TableOK(u, IF t[i] = Free THEN s + 1 ELSE s, n)
         /\ t[i] = Free <=> Lookup(t, k) = Null
         /\ Lookup(u, k) = d
         /\ \A j \in Keys : j # k => Lookup(u, j) = Lookup(t, j)
<1>1. /\ n \in Nat \ {0} /\ n \in Nat /\ s \in Nat /\ s < n
      /\ Sound(t, n) /\ IsTable(t, n) /\ DOMAIN t = 0 .. n - 1
      /\ IsFiniteSet(Used(t)) /\ Cardinality(Used(t)) = s
  BY TableFacts DEF TableOK
<1>2. PICK f \in 0 .. n - 1 : t[f] = Free
  BY <1>1, FreeSlot
<1>3. i \in 0 .. n - 1 /\ (t[i] # Free => t[i].key = k)
  BY <1>1, <1>2, FindsRoom
<1>4. i # NoSlot
  BY <1>1, <1>3, HashMapAssumption DEF NoSlot
<1>5. /\ Sound(u, n)
      /\ Used(u) = Used(t) \cup {i}
      /\ \A e : e \in Entries(u) <=> e = Entry(k, d) \/ (e \in Entries(t) /\ e.key # k)
  <2>1. /\ hash \in [Keys -> Hashes] /\ n \in Nat \ {0} /\ Sound(t, n)
        /\ k \in Keys /\ d \in Data
    BY <1>1
  <2>2. i \in 0 .. n - 1 /\ i = SlotFor(t, k)
    BY <1>3
  <2>3. With(n, t, i, k, d, Stored(t, i, k, d))
    BY ONLY <2>1, <2>2, Placed
  <2>. QED  BY <2>3 DEF With
<1>6. TableSize(u) = n
  BY <1>1, <1>5, SlotTypes DEF Sound
<1>7. Cardinality(Used(u)) = IF t[i] = Free THEN s + 1 ELSE s
  <2>1. CASE t[i] = Free
    <3>1. i \notin Used(t)
      BY <2>1 DEF Used
    <3>. QED  BY <1>1, <1>5, <2>1, <3>1, FS_AddElement
  <2>2. CASE t[i] # Free
    <3>1. Used(u) = Used(t)
      BY <1>1, <1>3, <1>5, <2>2 DEF Used
    <3>. QED  BY <1>1, <2>2, <3>1
  <2>. QED  BY <2>1, <2>2
<1>8. TableOK(u, IF t[i] = Free THEN s + 1 ELSE s, n)
  BY <1>1, <1>5, <1>6, <1>7 DEF TableOK
<1>9. t[i] = Free <=> Lookup(t, k) = Null
  <2>1. Lookup(t, k) = t[i].data
    BY <1>4 DEF Lookup
  <2>. QED  BY <1>1, <1>3, <2>1, SlotTypes, HashMapAssumption
<1>10. Lookup(u, k) = d
  <2>1. Entry(k, d) \in Entries(u)
    BY <1>5
  <2>. QED  BY <1>1, <1>5, <2>1, LookupIs
<1>11. ASSUME NEW j \in Keys, j # k  PROVE Lookup(u, j) = Lookup(t, j)
  <2>1. Lookup(u, j) \in Data \cup {Null} /\ Lookup(t, j) \in Data \cup {Null}
    BY <1>1, <1>5, LookupIs
  <2>2. ASSUME NEW e \in Data  PROVE Lookup(u, j) = e <=> Lookup(t, j) = e
    <3>1. Entry(j, e).key = j /\ Entry(k, d).key = k
      BY DEF Entry
    <3>2. Entry(j, e) \in Entries(u) <=> Entry(j, e) \in Entries(t)
      BY <1>5, <1>11, <3>1
    <3>. QED  BY <1>1, <1>5, <3>2, LookupIs
  <2>. QED  BY <2>1, <2>2
<1>. QED  BY <1>4, <1>8, <1>9, <1>10, <1>11

\* An entry removed: its key is gone, and every other key keeps its data.
LEMMA RemoveIs ==
  ASSUME hash \in [Keys -> Hashes], NEW t, NEW s, NEW n, TableOK(t, s, n),
         NEW r \in 0 .. n - 1, t[r] # Free, NEW v, v = Removed(t, r, s - 1)
  PROVE  /\ TableOK(v, s - 1, n)
         /\ t[r].key \in Keys /\ Lookup(t, t[r].key) = t[r].data
         /\ t[r].data \in Data
         /\ Lookup(v, t[r].key) = Null
         /\ \A j \in Keys : j # t[r].key => Lookup(v, j) = Lookup(t, j)
         /\ \A x \in 0 .. n - 1 : v[x].key # t[r].key
         /\ \A x \in 0 .. n - 1 :
              x < r /\ v[x] # Free => \E y \in 0 .. n - 1 : y < r /\ t[y] = v[x]
<1>. DEFINE k == t[r].key
<1>1. /\ n \in Nat \ {0} /\ n \in Nat /\ s \in Nat /\ s < n
      /\ Sound(t, n) /\ IsTable(t, n) /\ DOMAIN t = 0 .. n - 1
      /\ IsFiniteSet(Used(t)) /\ Cardinality(Used(t)) = s
      /\ n \in PowersOfTwo
  <2>1. n \in Nat /\ n # 0
    BY TableFacts
  <2>. QED  BY <2>1, TableFacts DEF TableOK
<1>2. k \in Keys /\ t[r].data \in Data /\ t[r] = Entry(k, t[r].data) /\ k # Null
  BY <1>1, SlotTypes, HashMapAssumption
<1>3. r \in Used(t)
  BY <1>1 DEF Used
<1>4. s - 1 \in Nat /\ Cardinality(Used(t)) = (s - 1) + 1 /\ (s - 1) + 1 < n
  <2>1. s # 0
    BY <1>1, <1>3, FS_EmptySet
  <2>. QED  BY <1>1, <2>1
<1>5. Without(n, t, r, v)
  BY <1>1, <1>4, RemovedIs
<1>6. /\ Sound(v, n) /\ IsTable(v, n) /\ DOMAIN v = 0 .. n - 1 /\ TableSize(v) = n
      /\ Entries(v) = Entries(t) \ {t[r]}
      /\ \A x \in 0 .. n - 1 :
           x < r /\ v[x] # Free => \E y \in 0 .. n - 1 : y < r /\ t[y] = v[x]
  BY <1>1, <1>5, SlotTypes DEF Without, Sound
<1>7. Cardinality(Used(v)) = s - 1
  <2>1. t[r] \in Entries(t)
    BY <1>3 DEF Entries
  <2>2. IsFiniteSet(Entries(t)) /\ Cardinality(Entries(t)) = s
    BY <1>1, EntriesCount
  <2>3. Cardinality(Entries(v)) = s - 1
    BY <1>6, <2>1, <2>2, FS_RemoveElement
  <2>. QED  BY <1>1, <1>6, <2>3, EntriesCount
<1>8. TableOK(v, s - 1, n)
  BY <1>1, <1>4, <1>6, <1>7 DEF TableOK
<1>9. Lookup(t, k) = t[r].data
  BY <1>1, LookupOfEntry
<1>10. ASSUME NEW x \in 0 .. n - 1  PROVE v[x].key # k
  <2>. SUFFICES ASSUME v[x].key = k  PROVE FALSE
    OBVIOUS
  <2>1. v[x] # Free
    <3>1. v[x].key # Null
      BY <1>2
    <3>2. v[x] = Free <=> v[x].key = Null
      BY <1>1, <1>6, SlotTypes
    <3>. QED  BY <3>1, <3>2
  <2>2. v[x] \in Entries(t) /\ v[x] # t[r]
    BY <1>6, <2>1 DEF Entries, Used
  <2>3. PICK y \in 0 .. n - 1 : t[y] = v[x]
    BY <1>1, <2>2 DEF Entries, Used
  <2>4. t[r] # Free /\ t[y].key = t[r].key
    BY <2>3
  <2>5. y = r
    BY <1>1, <2>4 DEF Sound, Single
  <2>. QED  BY <2>2, <2>3, <2>5
<1>11. Lookup(v, k) = Null
  BY <1>1, <1>2, <1>6, <1>10, LookupOfNone
<1>12. ASSUME NEW j \in Keys, j # k  PROVE Lookup(v, j) = Lookup(t, j)
  <2>1. Lookup(v, j) \in Data \cup {Null} /\ Lookup(t, j) \in Data \cup {Null}
    BY <1>1, <1>6, LookupIs
  <2>2. ASSUME NEW e \in Data  PROVE Lookup(v, j) = e <=> Lookup(t, j) = e
    <3>1. Entry(j, e).key = j
      BY DEF Entry
    <3>2. Entry(j, e) \in Entries(v) <=> Entry(j, e) \in Entries(t)
      BY <1>6, <1>12, <3>1
    <3>. QED  BY <1>1, <1>6, <3>2, LookupIs
  <2>. QED  BY <2>1, <2>2
<1>. QED  BY <1>2, <1>6, <1>8, <1>9, <1>10, <1>11, <1>12

-----------------------------------------------------------------------------
(* The inductive invariant.                                                *)

\* What a loop at lp knows of the table t: it has visited every entry before
\* its slot, and the key it is at has no other slot.
LoopOK(lp, t) ==
  \/ lp = Idle
  \/ /\ lp \in [at : DOMAIN t, key : Keys, seen : SUBSET Keys]
     /\ lp.key \in lp.seen
     /\ \A x \in DOMAIN t : /\ x < lp.at /\ t[x] # Free => t[x].key \in lp.seen
                            /\ t[x].key = lp.key => x = lp.at

HashInv  == hash \in [Keys -> Hashes]
TableInv == TableOK(table, size, TableSize(table))
SizeInv  == initSize \in PowersOfTwo /\ initSize >= 8
LoopInv  == LoopOK(loop, table)
RetInv   == ret \in Data \cup {Null, "added", "exists", "updated", "full"}

Inv == HashInv /\ TableInv /\ SizeInv /\ LoopInv /\ RetInv

-----------------------------------------------------------------------------
(* The loops.                                                              *)

\* hashmap_entry_get_populated skips free slots only.
LEMMA PopulatedIs ==
  ASSUME NEW t, NEW s, NEW n, TableOK(t, s, n), NEW from \in Nat,
         NEW i, i = Populated(t, s, from)
  PROVE  \/ /\ i = NoSlot
            /\ \A x \in 0 .. n - 1 : t[x] # Free => x < from
         \/ /\ i \in 0 .. n - 1 /\ t[i] # Free
            /\ \A x \in 0 .. n - 1 : t[x] # Free /\ x < i => x < from
<1>. DEFINE Full == {x \in DOMAIN t : x >= from /\ t[x] # Free}
<1>1. /\ n \in Nat /\ s \in Nat /\ DOMAIN t = 0 .. n - 1
      /\ IsFiniteSet(Used(t)) /\ Cardinality(Used(t)) = s
  BY TableFacts DEF TableOK
<1>2. i = IF s = 0 \/ Full = {} THEN NoSlot ELSE Min(Full)
  BY DEF Populated
<1>3. CASE s = 0
  <2>1. Used(t) = {}
    BY <1>1, <1>3, FS_EmptySet
  <2>. QED  BY <1>1, <1>2, <1>3, <2>1 DEF Used
<1>4. CASE Full = {}
  BY <1>1, <1>2, <1>4
<1>5. CASE s # 0 /\ Full # {}
  <2>1. Full \in SUBSET Nat
    BY <1>1
  <2>2. Min(Full) \in Full /\ \A x \in Full : Min(Full) <= x
    BY <1>5, <2>1, SmallestOf
  <2>3. i \in Full /\ \A x \in Full : i <= x
    BY <1>2, <1>5, <2>2
  <2>. QED  BY <1>1, <2>3
<1>. QED  BY <1>3, <1>4, <1>5

\* A loop goes to the next entry, or ends when it has visited all.
LEMMA VisitIs ==
  ASSUME NEW t, NEW s, NEW n, TableOK(t, s, n), NEW from \in Nat, NEW seen \in SUBSET Keys,
         \A x \in 0 .. n - 1 : x < from /\ t[x] # Free => t[x].key \in seen,
         Visit(t, Populated(t, s, from), seen)
  PROVE  /\ LoopOK(loop', t)
         /\ loop' = Idle => Present(t) \subseteq seen
<1>. DEFINE i == Populated(t, s, from)
<1>1. /\ n \in Nat /\ Sound(t, n) /\ IsTable(t, n) /\ DOMAIN t = 0 .. n - 1
  BY TableFacts
<1>2. \A x \in 0 .. n - 1 : (t[x] = Free <=> t[x].key = Null) /\ (t[x] # Free => t[x].key \in Keys)
  BY <1>1, SlotTypes
<1>3. \/ /\ i = NoSlot
         /\ \A x \in 0 .. n - 1 : t[x] # Free => x < from
      \/ /\ i \in 0 .. n - 1 /\ t[i] # Free
         /\ \A x \in 0 .. n - 1 : t[x] # Free /\ x < i => x < from
  BY PopulatedIs
<1>4. loop' = IF i = NoSlot THEN Idle
              ELSE [at |-> i, key |-> t[i].key, seen |-> seen \cup {t[i].key}]
  BY DEF Visit
<1>. HIDE DEF i
<1>5. CASE i = NoSlot
  <2>1. loop' = Idle
    BY <1>4, <1>5
  <2>2. \A x \in 0 .. n - 1 : t[x] # Free => t[x].key \in seen
    BY <1>1, <1>3, <1>5, HashMapAssumption DEF NoSlot
  <2>. QED  BY <1>1, <1>2, <2>1, <2>2 DEF LoopOK, Present
<1>6. CASE i # NoSlot
  <2>1. /\ i \in 0 .. n - 1 /\ t[i] # Free /\ i \in Nat
        /\ \A x \in 0 .. n - 1 : t[x] # Free /\ x < i => x < from
    BY <1>1, <1>3, <1>6
  <2>2. loop' = [at |-> i, key |-> t[i].key, seen |-> seen \cup {t[i].key}]
    BY <1>4, <1>6
  <2>3. t[i].key \in Keys
    BY <1>2, <2>1
  <2>4. \A x \in 0 .. n - 1 : x < i /\ t[x] # Free => t[x].key \in seen \cup {t[i].key}
    BY <2>1
  <2>5. \A x \in 0 .. n - 1 : t[x].key = t[i].key => x = i
    BY <1>1, <2>1 DEF Sound, Single
  <2>6. LoopOK(loop', t)
    BY <1>1, <2>1, <2>2, <2>3, <2>4, <2>5 DEF LoopOK
  <2>7. loop' # Idle
    <3>1. loop'.at = i /\ Idle.at = Null
      BY <2>2 DEF Idle, NoSlot
    <3>. QED  BY <2>1, <3>1, HashMapAssumption
  <2>. QED  BY <2>6, <2>7
<1>. QED  BY <1>5, <1>6

\* The loop under way, and what a removal of the entry it is at leaves.
LEMMA LoopFacts ==
  ASSUME Inv, Looping
  PROVE  /\ loop.at \in DOMAIN table /\ loop.at \in Nat
         /\ loop.key \in Keys /\ loop.seen \in SUBSET Keys /\ loop.key \in loop.seen
         /\ loop \in [at : DOMAIN table, key : Keys, seen : SUBSET Keys]
         /\ \A x \in DOMAIN table :
              /\ x < loop.at /\ table[x] # Free => table[x].key \in loop.seen
              /\ table[x].key = loop.key => x = loop.at
         /\ loop # Idle
<1>1. loop # Idle
  BY DEF Looping, Idle
<1>2. DOMAIN table \subseteq Nat
  <2>1. TableOK(table, size, TableSize(table))
    BY DEF Inv, TableInv
  <2>. QED  BY <2>1, TableFacts
<1>. QED  BY <1>1, <1>2 DEF Inv, LoopInv, LoopOK

-----------------------------------------------------------------------------
(* What the operations do to the table, to the data of the keys and to the *)
(* loop under way.                                                         *)

DataOf(t) == [k \in Keys |-> Lookup(t, k)]

\* hash is constant, so that the next state's table is read with today's hashes.
LEMMA SameHash ==
  ASSUME hash' = hash
  PROVE  /\ HashInv' <=> HashInv
         /\ TableInv' <=> TableOK(table', size', TableSize(table'))
         /\ DataOf(table)' = DataOf(table')
<1>1. HashInv' <=> HashInv
  BY DEF HashInv
<1>2. TableInv' <=> TableOK(table', size', TableSize(table'))
  BY DEF TableInv, TableOK, Sound, Unbroken, Single, IsTable, Home, TableSize, Used
<1>3. DataOf(table)' = DataOf(table')
  BY DEF DataOf, Lookup, SlotFor, Home, TableSize
<1>. QED  BY <1>1, <1>2, <1>3

\* A table grows before an entry is added: it has room for two more.
LEMMA GrownIs ==
  ASSUME HashInv, TableInv, SizeInv
  PROVE  /\ TableOK(Grown, size, TableSize(Grown))
         /\ TableSize(Grown) \in PowersOfTwo
         /\ size + 2 <= TableSize(Grown)
         /\ \A k \in Keys : Lookup(Grown, k) = Lookup(table, k)
<1>. DEFINE m == TableSize(table)
            n == SizeFor(size, initSize)
<1>1. /\ TableOK(table, size, m) /\ m \in Nat /\ size \in Nat
      /\ size <= Cardinality(Keys) /\ hash \in [Keys -> Hashes]
  BY TableFacts DEF TableInv, HashInv
<1>2. n \in PowersOfTwo /\ n >= size + 2 /\ n \in Nat
  <2>1. n \in PowersOfTwo /\ n >= size + 2
    BY <1>1, KeysFit, SizeIs DEF SizeInv
  <2>. QED  BY <2>1 DEF PowersOfTwo
<1>3. Grown = IF n > m THEN Rehashed(table, n) ELSE table
  BY DEF Grown
<1>. HIDE DEF n, m
<1>4. CASE n > m
  <2>1. TableOK(Rehashed(table, n), size, n) /\ \A k \in Keys : Lookup(Rehashed(table, n), k) = Lookup(table, k)
    BY <1>1, <1>2, RehashIs
  <2>2. Grown = Rehashed(table, n)
    BY <1>3, <1>4
  <2>3. TableSize(Grown) = n
    BY <2>1, <2>2 DEF TableOK
  <2>. QED  BY <1>2, <2>1, <2>2, <2>3
<1>5. CASE ~ (n > m)
  <2>1. Grown = table /\ size + 2 <= m
    BY <1>1, <1>2, <1>3, <1>5
  <2>2. m \in PowersOfTwo
    <3>1. m # 0
      BY <1>1, <2>1
    <3>. QED  BY <1>1, <3>1 DEF TableOK
  <2>. QED  BY <1>1, <2>1, <2>2 DEF m
<1>. QED  BY <1>4, <1>5

\* Storing in the grown table is what the dictionary does to one key.
LEMMA GrownStored ==
  ASSUME HashInv, TableInv, SizeInv, NEW k \in Keys, NEW d \in Data,
         NEW i, i = SlotFor(Grown, k), NEW u, u = [Grown EXCEPT ![i] = Entry(k, d)]
  PROVE  /\ i # NoSlot
         /\ TableOK(u, IF Grown[i] = Free THEN size + 1 ELSE size, TableSize(u))
         /\ Grown[i] = Free <=> Lookup(table, k) = Null
         /\ DataOf(u) = [DataOf(table) EXCEPT ![k] = d]
         /\ DataOf(Grown) = DataOf(table)
<1>. DEFINE t == Grown
            n == TableSize(t)
            s == IF t[i] = Free THEN size + 1 ELSE size
<1>1. /\ TableOK(t, size, n) /\ n \in PowersOfTwo /\ size + 2 <= n
      /\ \A j \in Keys : Lookup(t, j) = Lookup(table, j)
  BY GrownIs
<1>2. hash \in [Keys -> Hashes] /\ u = Stored(t, i, k, d) /\ i = SlotFor(t, k)
  BY DEF HashInv, Stored
<1>. HIDE DEF t, n
<1>3. /\ i # NoSlot
      /\ TableOK(u, s, n)
      /\ t[i] = Free <=> Lookup(t, k) = Null
      /\ Lookup(u, k) = d
      /\ \A j \in Keys : j # k => Lookup(u, j) = Lookup(t, j)
  BY ONLY <1>1, <1>2, k \in Keys, d \in Data, StoreIs
<1>4. TableSize(u) = n
  BY <1>3 DEF TableOK
<1>5. DataOf(u) = [DataOf(table) EXCEPT ![k] = d]
  BY <1>1, <1>3 DEF DataOf
<1>6. DataOf(t) = DataOf(table)
  BY <1>1 DEF DataOf
<1>. QED  BY <1>1, <1>3, <1>4, <1>5, <1>6 DEF t

\* Removing an entry is what the dictionary does to its key.
LEMMA EntryRemoved ==
  ASSUME HashInv, TableInv, NEW r \in DOMAIN table, table[r] # Free,
         RemoveEntry(r)
  PROVE  /\ TableOK(table', size', TableSize(table'))
         /\ DOMAIN table' = DOMAIN table
         /\ table[r].key \in Keys
         /\ ret' = Lookup(table, table[r].key) /\ ret' \in Data
         /\ DataOf(table') = [DataOf(table) EXCEPT ![table[r].key] = Null]
         /\ \A x \in DOMAIN table' : table'[x].key # table[r].key
         /\ \A x \in DOMAIN table' :
              x < r /\ table'[x] # Free => \E y \in DOMAIN table : y < r /\ table[y] = table'[x]
<1>. DEFINE n == TableSize(table)
            k == table[r].key
<1>1. TableOK(table, size, n) /\ hash \in [Keys -> Hashes] /\ DOMAIN table = 0 .. n - 1
  BY TableFacts DEF TableInv, HashInv
<1>2. table' = Removed(table, r, size - 1) /\ size' = size - 1 /\ ret' = table[r].data
  BY DEF RemoveEntry
<1>. HIDE DEF n
<1>3. /\ TableOK(table', size - 1, n)
      /\ table[r].key \in Keys /\ Lookup(table, table[r].key) = table[r].data
      /\ table[r].data \in Data
      /\ Lookup(table', table[r].key) = Null
      /\ \A j \in Keys : j # table[r].key => Lookup(table', j) = Lookup(table, j)
      /\ \A x \in 0 .. n - 1 : table'[x].key # table[r].key
      /\ \A x \in 0 .. n - 1 :
           x < r /\ table'[x] # Free => \E y \in 0 .. n - 1 : y < r /\ table[y] = table'[x]
  <2>1. hash \in [Keys -> Hashes] /\ TableOK(table, size, n)
    BY <1>1
  <2>2. r \in 0 .. n - 1 /\ table[r] # Free
    BY <1>1
  <2>3. table' = Removed(table, r, size - 1)
    BY <1>2
  <2>. QED  BY ONLY <2>1, <2>2, <2>3, RemoveIs
<1>4. DOMAIN table' = 0 .. n - 1
  BY <1>3, TableFacts
<1>5. TableSize(table') = n
  BY <1>3 DEF TableOK
<1>6. DataOf(table') = [DataOf(table) EXCEPT ![k] = Null]
  BY <1>3 DEF DataOf
<1>. QED  BY <1>1, <1>2, <1>3, <1>4, <1>5, <1>6

-----------------------------------------------------------------------------
(* What a step owes: the invariant, a step of the dictionary or none, and  *)
(* a loop that ends only when it has visited what is left.                 *)

DictStep == [Abstract!Next]_(Abstract!vars)
Passes   == Looping /\ loop' = Idle => Present(table') \subseteq loop.seen
Goal     == Inv' /\ DictStep /\ Passes

\* The steps of the dictionary, by the data of the keys before and after.
Steps(D, E) ==
  \/ E = [k \in Keys |-> Null] /\ ret' = Null
  \/ \E k \in Keys :
       \/ ret' \in Data \cup {Null} /\ ret' = D[k] /\ E = D
       \/ ret' \in Data \cup {Null} /\ ret' = D[k] /\ E = [D EXCEPT ![k] = Null]
  \/ \E k \in Keys, d \in Data :
       \/ ret' = "added" /\ D[k] = Null /\ E = [D EXCEPT ![k] = d]
       \/ ret' = "exists" /\ D[k] # Null /\ E = D
       \/ ret' = "updated" /\ D[k] # Null /\ E = [D EXCEPT ![k] = d]
  \/ E = D /\ ret' = ret

\* A change of the mapped dictionary is a step of Dict.
LEMMA StepsAreDict ==
  ASSUME hash' = hash, Steps(DataOf(table), DataOf(table'))
  PROVE  DictStep
<1>1. DataOf(table)' = DataOf(table')
  BY SameHash
<1>. DEFINE D == [k \in Keys |-> Lookup(table, k)]
<1>2. D = DataOf(table) /\ D' = DataOf(table')
  BY <1>1 DEF DataOf
<1>3. Steps(D, D')
  BY <1>2
<1>. HIDE DEF D
<1>4. CASE D' = [k \in Keys |-> Null] /\ ret' = Null
  <2>1. Abstract!Clear
    BY <1>4 DEF Abstract!Clear, D
  <2>. QED  BY <2>1 DEF DictStep, Abstract!Next
<1>5. ASSUME NEW k \in Keys, ret' \in Data \cup {Null}, ret' = D[k], D' = D
      PROVE  DictStep
  <2>1. Abstract!Get(k)
    BY <1>5 DEF Abstract!Get, D
  <2>. QED  BY <2>1 DEF DictStep, Abstract!Next
<1>6. ASSUME NEW k \in Keys, ret' \in Data \cup {Null}, ret' = D[k], D' = [D EXCEPT ![k] = Null]
      PROVE  DictStep
  <2>1. Abstract!Delete(k)
    BY <1>6 DEF Abstract!Delete, D
  <2>. QED  BY <2>1 DEF DictStep, Abstract!Next
<1>7. ASSUME NEW k \in Keys, NEW d \in Data, ret' = "added", D[k] = Null, D' = [D EXCEPT ![k] = d]
      PROVE  DictStep
  <2>1. Abstract!Put(k, d)
    BY <1>7 DEF Abstract!Put, D
  <2>. QED  BY <2>1 DEF DictStep, Abstract!Next
<1>8. ASSUME NEW k \in Keys, NEW d \in Data, ret' = "exists", D[k] # Null, D' = D
      PROVE  DictStep
  <2>1. Abstract!Put(k, d)
    BY <1>8 DEF Abstract!Put, D
  <2>. QED  BY <2>1 DEF DictStep, Abstract!Next
<1>9. ASSUME NEW k \in Keys, NEW d \in Data, ret' = "updated", D[k] # Null, D' = [D EXCEPT ![k] = d]
      PROVE  DictStep
  <2>1. Abstract!Insert(k, d)
    BY <1>9 DEF Abstract!Insert, D
  <2>. QED  BY <2>1 DEF DictStep, Abstract!Next
<1>10. CASE D' = D /\ ret' = ret
  BY <1>10 DEF DictStep, Abstract!vars, D
<1>. QED  BY <1>3, <1>4, <1>5, <1>6, <1>7, <1>8, <1>9, <1>10 DEF Steps

\* What is left to show of a step that leaves hash alone.
LEMMA GoalIs ==
  ASSUME Inv, hash' = hash,
         TableOK(table', size', TableSize(table')),
         SizeInv', LoopInv', RetInv', Passes,
         Steps(DataOf(table), DataOf(table'))
  PROVE  Goal
<1>1. HashInv' /\ TableInv'
  BY SameHash DEF Inv
<1>2. DictStep
  BY StepsAreDict
<1>. QED  BY <1>1, <1>2 DEF Goal, Inv

\* Outside a loop, an operation starts none.
LEMMA NoLoop ==
  ASSUME Inv, ~Looping, loop' = loop
  PROVE  LoopInv' /\ Passes
<1>1. loop = Idle
  <2>1. ASSUME loop \in [at : DOMAIN table, key : Keys, seen : SUBSET Keys]
        PROVE  FALSE
    <3>1. TableOK(table, size, TableSize(table))
      BY DEF Inv, TableInv
    <3>2. loop.at \in Nat
      BY <2>1, <3>1, TableFacts
    <3>. QED  BY <3>2, HashMapAssumption DEF Looping, NoSlot
  <2>. QED  BY <2>1 DEF Inv, LoopInv, LoopOK
<1>2. loop' = Idle
  BY <1>1
<1>. QED  BY <1>2 DEF LoopInv, LoopOK, Passes

-----------------------------------------------------------------------------
(* The steps.                                                              *)

\* hashmap_put keeps the invariant and does what Dict does.
LEMMA PutStep ==
  ASSUME Inv, NEW k \in Keys, NEW d \in Data, Put(k, d)
  PROVE  Goal
<1>. DEFINE t == Grown
            i == SlotFor(t, k)
            u == [t EXCEPT ![i] = Entry(k, d)]
<1>1. /\ hash' = hash /\ initSize' = initSize /\ loop' = loop /\ ~Looping
      /\ IF i # NoSlot /\ t[i] = Free
         THEN table' = u /\ size' = size + 1 /\ ret' = "added"
         ELSE table' = t /\ ret' = (IF i = NoSlot THEN "full" ELSE "exists") /\ size' = size
  BY DEF Put
<1>2. /\ i # NoSlot
      /\ TableOK(u, IF t[i] = Free THEN size + 1 ELSE size, TableSize(u))
      /\ t[i] = Free <=> Lookup(table, k) = Null
      /\ DataOf(u) = [DataOf(table) EXCEPT ![k] = d]
      /\ DataOf(t) = DataOf(table)
  BY GrownStored DEF Inv
<1>3. TableOK(t, size, TableSize(t))
  BY GrownIs DEF Inv
<1>4. Lookup(table, k) = DataOf(table)[k]
  BY DEF DataOf
<1>. HIDE DEF t, i, u
<1>5. SizeInv' /\ LoopInv' /\ Passes
  BY <1>1, NoLoop DEF SizeInv, Inv
<1>6. CASE t[i] = Free
  <2>1. table' = u /\ size' = size + 1 /\ ret' = "added"
    BY <1>1, <1>2, <1>6
  <2>2. TableOK(table', size', TableSize(table'))
    BY <1>2, <1>6, <2>1
  <2>3. Steps(DataOf(table), DataOf(table'))
    BY <1>2, <1>4, <1>6, <2>1 DEF Steps
  <2>4. RetInv'
    BY <2>1 DEF RetInv
  <2>. QED  BY <1>1, <1>5, <2>2, <2>3, <2>4, GoalIs
<1>7. CASE t[i] # Free
  <2>1. table' = t /\ size' = size /\ ret' = "exists"
    BY <1>1, <1>2, <1>7
  <2>2. TableOK(table', size', TableSize(table'))
    BY <1>3, <2>1
  <2>3. Steps(DataOf(table), DataOf(table'))
    BY <1>2, <1>4, <1>7, <2>1 DEF Steps
  <2>4. RetInv'
    BY <2>1 DEF RetInv
  <2>. QED  BY <1>1, <1>5, <2>2, <2>3, <2>4, GoalIs
<1>. QED  BY <1>6, <1>7

\* hashmap_insert keeps the invariant and does what Dict does.
LEMMA InsertStep ==
  ASSUME Inv, NEW k \in Keys, NEW d \in Data, Insert(k, d)
  PROVE  Goal
<1>. DEFINE t == Grown
            i == SlotFor(t, k)
            u == [t EXCEPT ![i] = Entry(k, d)]
<1>1. /\ i # NoSlot
      /\ TableOK(u, IF t[i] = Free THEN size + 1 ELSE size, TableSize(u))
      /\ t[i] = Free <=> Lookup(table, k) = Null
      /\ DataOf(u) = [DataOf(table) EXCEPT ![k] = d]
  BY GrownStored DEF Inv
<1>2. /\ hash' = hash /\ initSize' = initSize /\ loop' = loop /\ ~Looping
      /\ table' = u
      /\ size' = IF t[i] = Free THEN size + 1 ELSE size
      /\ ret' = IF t[i] = Free THEN "added" ELSE "updated"
  BY <1>1 DEF Insert
<1>3. Lookup(table, k) = DataOf(table)[k]
  BY DEF DataOf
<1>. HIDE DEF t, i, u
<1>4. SizeInv' /\ LoopInv' /\ Passes
  BY <1>2, NoLoop DEF SizeInv, Inv
<1>5. TableOK(table', size', TableSize(table'))
  BY <1>1, <1>2
<1>6. Steps(DataOf(table), DataOf(table'))
  BY <1>1, <1>2, <1>3 DEF Steps
<1>7. RetInv'
  BY <1>2 DEF RetInv
<1>. QED  BY <1>2, <1>4, <1>5, <1>6, <1>7, GoalIs

\* Without a change of the table and of the loop, the loop passes over nothing.
LEMMA SameLoop ==
  ASSUME Inv, loop' = loop, table' = table
  PROVE  LoopInv' /\ Passes
<1>1. LoopInv'
  BY DEF Inv, LoopInv
<1>2. Passes
  <2>. SUFFICES ASSUME Looping, loop' = Idle  PROVE FALSE
    BY DEF Passes
  <2>. QED  BY LoopFacts
<1>. QED  BY <1>1, <1>2

\* hashmap_get changes nothing, and returns what Dict returns.
LEMMA GetStep ==
  ASSUME Inv, NEW k \in Keys, Get(k)
  PROVE  Goal
<1>1. /\ ret' = Lookup(table, k)
      /\ hash' = hash /\ table' = table /\ size' = size
      /\ initSize' = initSize /\ loop' = loop
  BY DEF Get
<1>2. TableOK(table, size, TableSize(table)) /\ hash \in [Keys -> Hashes]
  BY DEF Inv, TableInv, HashInv
<1>3. Lookup(table, k) \in Data \cup {Null}
  BY <1>2, TableFacts, LookupIs
<1>4. Lookup(table, k) = DataOf(table)[k] /\ DataOf(table') = DataOf(table)
  BY <1>1 DEF DataOf
<1>5. Steps(DataOf(table), DataOf(table'))
  BY <1>1, <1>3, <1>4 DEF Steps
<1>6. TableOK(table', size', TableSize(table')) /\ SizeInv' /\ RetInv'
  BY <1>1, <1>2, <1>3 DEF Inv, SizeInv, RetInv
<1>. QED  BY <1>1, <1>5, <1>6, SameLoop, GoalIs

\* A loop may remove the entry it is at; another may move to its slot.
LEMMA DeleteStep ==
  ASSUME Inv, NEW k \in Keys, Delete(k)
  PROVE  Goal
<1>. DEFINE i == SlotFor(table, k)
            n == TableSize(table)
<1>1. /\ Looping => k = loop.key
      /\ hash' = hash /\ initSize' = initSize /\ loop' = loop
      /\ IF i # NoSlot /\ table[i] # Free THEN RemoveEntry(i)
         ELSE ret' = Null /\ table' = table /\ size' = size
  BY DEF Delete
<1>2. TableOK(table, size, n) /\ hash \in [Keys -> Hashes]
  BY DEF Inv, TableInv, HashInv
<1>3. /\ n \in Nat /\ Sound(table, n) /\ IsTable(table, n) /\ DOMAIN table = 0 .. n - 1
  BY <1>2, TableFacts
<1>4. SizeInv'
  BY <1>1 DEF Inv, SizeInv
<1>5. CASE i # NoSlot /\ table[i] # Free
  <2>1. RemoveEntry(i)
    BY <1>1, <1>5
  <2>2. i \in DOMAIN table /\ table[i].key = k
    <3>1. CASE n = 0
      BY <1>3, <1>5, <3>1, SlotTypes DEF SlotFor
    <3>2. CASE n # 0
      <4>1. n \in Nat \ {0}
        BY <1>3, <3>2
      <4>2. i \in 0 .. n - 1 /\ table[i].key \in {k, Null}
        BY <1>2, <1>3, <1>5, <4>1, SlotIs
      <4>3. table[i].key # Null
        BY <1>3, <1>5, <4>2, SlotTypes
      <4>. QED  BY <1>3, <4>2, <4>3
    <3>. QED  BY <3>1, <3>2
  <2>. HIDE DEF i, n
  <2>3. /\ TableOK(table', size', TableSize(table'))
        /\ DOMAIN table' = DOMAIN table
        /\ ret' = Lookup(table, k) /\ ret' \in Data
        /\ DataOf(table') = [DataOf(table) EXCEPT ![k] = Null]
        /\ \A x \in DOMAIN table' : table'[x].key # k
        /\ \A x \in DOMAIN table' :
             x < i /\ table'[x] # Free => \E y \in DOMAIN table : y < i /\ table[y] = table'[x]
    <3>1. HashInv /\ TableInv
      BY DEF Inv
    <3>. QED  BY ONLY <1>5, <2>1, <2>2, <3>1, EntryRemoved
  <2>4. Lookup(table, k) = DataOf(table)[k]
    BY DEF DataOf
  <2>5. Steps(DataOf(table), DataOf(table'))
    BY <2>3, <2>4 DEF Steps
  <2>6. RetInv'
    BY <2>3 DEF RetInv
  <2>7. LoopInv' /\ Passes
    <3>1. CASE ~Looping
      BY <1>1, <3>1, NoLoop
    <3>2. CASE Looping
      <4>1. /\ loop.at \in DOMAIN table
            /\ loop.key \in loop.seen
            /\ loop \in [at : DOMAIN table, key : Keys, seen : SUBSET Keys]
            /\ \A x \in DOMAIN table :
                 /\ x < loop.at /\ table[x] # Free => table[x].key \in loop.seen
                 /\ table[x].key = loop.key => x = loop.at
            /\ loop # Idle
        BY <3>2, LoopFacts
      <4>2. k = loop.key /\ i = loop.at
        BY <1>1, <2>2, <3>2, <4>1
      <4>3. \A x \in DOMAIN table' : x < loop.at /\ table'[x] # Free => table'[x].key \in loop.seen
        BY <1>5, <2>3, <4>1, <4>2
      <4>4. LoopOK(loop', table')
        BY <1>1, <2>3, <4>1, <4>2, <4>3 DEF LoopOK
      <4>. QED  BY <1>1, <4>1, <4>4 DEF LoopInv, Passes
    <3>. QED  BY <3>1, <3>2
  <2>. QED  BY <1>1, <1>4, <2>3, <2>5, <2>6, <2>7, GoalIs
<1>6. CASE ~ (i # NoSlot /\ table[i] # Free)
  <2>1. ret' = Null /\ table' = table /\ size' = size
    BY <1>1, <1>6
  <2>2. Lookup(table, k) = Null
    <3>1. CASE i = NoSlot
      BY <3>1 DEF Lookup
    <3>2. CASE i # NoSlot /\ table[i] = Free
      BY <3>2 DEF Lookup, Free, Entry
    <3>. QED  BY <1>6, <3>1, <3>2
  <2>3. Lookup(table, k) = DataOf(table)[k] /\ DataOf(table') = DataOf(table)
    BY <2>1 DEF DataOf
  <2>4. Steps(DataOf(table), DataOf(table'))
    BY <2>1, <2>2, <2>3 DEF Steps
  <2>5. TableOK(table', size', TableSize(table')) /\ RetInv'
    BY <1>2, <2>1 DEF RetInv
  <2>. QED  BY <1>1, <1>4, <2>1, <2>4, <2>5, SameLoop, GoalIs
<1>. QED  BY <1>5, <1>6

\* hashmap_clear, hashmap_reset and hashmap_cleanup do what Dict does.
LEMMA ClearStep ==
  ASSUME Inv, Clear \/ Reset \/ Cleanup
  PROVE  Goal
<1>1. PICK n \in PowersOfTwo \cup {0} : table' = Blank(n)
  <2>1. TableSize(table) \in PowersOfTwo \cup {0} /\ initSize \in PowersOfTwo
    BY DEF Inv, TableInv, TableOK, SizeInv
  <2>. QED  BY <2>1 DEF Clear, Reset, Cleanup
<1>2. /\ hash' = hash /\ loop' = loop /\ ~Looping /\ size' = 0 /\ ret' = Null
      /\ initSize' \in {initSize, DefaultSize}
  BY DEF Clear, Reset, Cleanup
<1>3. TableOK(Blank(n), 0, n) /\ \A k \in Keys : Lookup(Blank(n), k) = Null
  BY BlankIs DEF Inv, HashInv
<1>4. TableOK(table', size', TableSize(table'))
  BY <1>1, <1>2, <1>3 DEF TableOK
<1>5. DataOf(table') = [k \in Keys |-> Null]
  BY <1>1, <1>3 DEF DataOf
<1>6. Steps(DataOf(table), DataOf(table'))
  BY <1>2, <1>5 DEF Steps
<1>7. SizeInv'
  <2>1. DefaultSize \in PowersOfTwo /\ DefaultSize >= 8
    BY HashMapAssumption DEF PowersOfTwo
  <2>. QED  BY <1>2, <2>1 DEF Inv, SizeInv
<1>8. RetInv' /\ LoopInv' /\ Passes
  BY <1>2, NoLoop DEF RetInv
<1>. QED  BY <1>2, <1>4, <1>6, <1>7, <1>8, GoalIs

\* The dictionary does not see hashmap_reserve.
LEMMA ReserveStep ==
  ASSUME Inv, NEW c \in Capacities, Reserve(c)
  PROVE  Goal
<1>. DEFINE n == SizeFor(c, MinSize)
            m == TableSize(table)
<1>1. /\ hash' = hash /\ loop' = loop /\ ret' = ret /\ size' = size /\ ~Looping
      /\ initSize' = n
      /\ table' = IF n > m THEN Rehashed(table, n) ELSE table
  BY DEF Reserve
<1>2. /\ TableOK(table, size, m) /\ hash \in [Keys -> Hashes]
      /\ m \in Nat /\ size \in Nat /\ size <= m
  BY TableFacts DEF Inv, TableInv, HashInv
<1>3. n \in PowersOfTwo /\ n \in Nat /\ n >= 8
  <2>1. c \in Nat /\ c + c \div 3 <= MaxSize /\ MinSize \in PowersOfTwo /\ MinSize >= 8
    BY HashMapAssumption DEF PowersOfTwo
  <2>2. n \in PowersOfTwo /\ n >= MinSize
    BY <2>1, SizeIs
  <2>3. n \in Nat /\ MinSize \in Nat
    BY <2>1, <2>2 DEF PowersOfTwo
  <2>. HIDE DEF n
  <2>. QED  BY <2>1, <2>2, <2>3
<1>. HIDE DEF n, m
<1>4. TableOK(table', size', TableSize(table')) /\ DataOf(table') = DataOf(table)
  <2>1. CASE n > m
    <3>1. size < n
      BY <1>2, <1>3, <2>1
    <3>2. /\ TableOK(Rehashed(table, n), size, n)
          /\ \A k \in Keys : Lookup(Rehashed(table, n), k) = Lookup(table, k)
      BY <1>2, <1>3, <3>1, RehashIs
    <3>3. table' = Rehashed(table, n)
      BY <1>1, <2>1
    <3>4. TableSize(table') = n
      BY <3>2, <3>3 DEF TableOK
    <3>. QED  BY <1>1, <3>2, <3>3, <3>4 DEF DataOf
  <2>2. CASE ~ (n > m)
    BY <1>1, <1>2, <2>2 DEF m, DataOf
  <2>. QED  BY <2>1, <2>2
<1>5. Steps(DataOf(table), DataOf(table'))
  BY <1>1, <1>4 DEF Steps
<1>6. SizeInv' /\ RetInv' /\ LoopInv' /\ Passes
  BY <1>1, <1>3, NoLoop DEF Inv, SizeInv, RetInv
<1>. QED  BY <1>1, <1>4, <1>5, <1>6, GoalIs

\* A step that leaves the table alone leaves its keys' data.
LEMMA SameTable ==
  ASSUME Inv, hash' = hash, table' = table, size' = size, initSize' = initSize, ret' = ret,
         LoopInv', Passes
  PROVE  Goal
<1>1. DataOf(table') = DataOf(table)
  BY DEF DataOf
<1>2. Steps(DataOf(table), DataOf(table'))
  BY <1>1 DEF Steps
<1>3. TableOK(table', size', TableSize(table')) /\ SizeInv' /\ RetInv'
  BY DEF Inv, TableInv, SizeInv, RetInv
<1>. QED  BY <1>2, <1>3, GoalIs

\* The start of a loop keeps the invariant.
LEMMA LoopBeginStep ==
  ASSUME Inv, LoopBegin
  PROVE  Goal
<1>1. /\ ~Looping /\ Visit(table, Populated(table, size, 0), {})
      /\ hash' = hash /\ table' = table /\ size' = size /\ initSize' = initSize /\ ret' = ret
  BY DEF LoopBegin
<1>2. TableOK(table, size, TableSize(table))
  BY DEF Inv, TableInv
<1>3. \A x \in 0 .. TableSize(table) - 1 : x < 0 /\ table[x] # Free => table[x].key \in {}
  OBVIOUS
<1>4. LoopOK(loop', table)
  BY <1>1, <1>2, <1>3, VisitIs
<1>5. LoopInv' /\ Passes
  BY <1>1, <1>4 DEF LoopInv, Passes
<1>. QED  BY <1>1, <1>5, SameTable

\* The step looks at the same slot again only when its entry is gone.
LEMMA LoopStepStep ==
  ASSUME Inv, LoopStep
  PROVE  Goal
<1>1. /\ Looping /\ Visit(table, Populated(table, size, NextSlot), loop.seen)
      /\ hash' = hash /\ table' = table /\ size' = size /\ initSize' = initSize /\ ret' = ret
  BY DEF LoopStep
<1>2. /\ TableOK(table, size, TableSize(table))
      /\ DOMAIN table = 0 .. TableSize(table) - 1
  BY TableFacts DEF Inv, TableInv
<1>3. /\ loop.at \in DOMAIN table /\ loop.at \in Nat
      /\ loop.seen \in SUBSET Keys /\ loop.key \in loop.seen
      /\ \A x \in DOMAIN table : x < loop.at /\ table[x] # Free => table[x].key \in loop.seen
  BY <1>1, LoopFacts
<1>4. NextSlot \in Nat
  BY <1>3 DEF NextSlot
<1>5. \A x \in 0 .. TableSize(table) - 1 : x < NextSlot /\ table[x] # Free => table[x].key \in loop.seen
  <2>1. ASSUME NEW x \in DOMAIN table, x < NextSlot, table[x] # Free
        PROVE  table[x].key \in loop.seen
    <3>1. x \in Nat
      BY <1>2
    <3>2. x < loop.at \/ (x = loop.at /\ table[loop.at].key = loop.key)
      BY <1>3, <2>1, <3>1 DEF NextSlot
    <3>. QED  BY <1>3, <2>1, <3>2
  <2>. QED  BY <1>2, <2>1
<1>6. /\ LoopOK(loop', table)
      /\ loop' = Idle => Present(table) \subseteq loop.seen
  BY <1>1, <1>2, <1>3, <1>4, <1>5, VisitIs
<1>7. LoopInv' /\ Passes
  BY <1>1, <1>6 DEF LoopInv, Passes
<1>. QED  BY <1>1, <1>7, SameTable

\* The removal of the entry a loop is at keeps the invariant.
LEMMA IterRemoveStep ==
  ASSUME Inv, IterRemove
  PROVE  Goal
<1>1. /\ Looping /\ table[loop.at] # Free /\ RemoveEntry(loop.at)
      /\ Visit(table', Populated(table', size', loop.at), loop.seen)
      /\ hash' = hash /\ initSize' = initSize
  BY DEF IterRemove
<1>2. /\ loop.at \in DOMAIN table /\ loop.at \in Nat
      /\ loop.seen \in SUBSET Keys
      /\ \A x \in DOMAIN table : x < loop.at /\ table[x] # Free => table[x].key \in loop.seen
  BY <1>1, LoopFacts
<1>. DEFINE r == loop.at
            k == table[r].key
<1>3. /\ TableOK(table', size', TableSize(table'))
      /\ DOMAIN table' = DOMAIN table
      /\ k \in Keys /\ ret' = Lookup(table, k) /\ ret' \in Data
      /\ DataOf(table') = [DataOf(table) EXCEPT ![k] = Null]
      /\ \A x \in DOMAIN table' :
           x < r /\ table'[x] # Free => \E y \in DOMAIN table : y < r /\ table[y] = table'[x]
  <2>1. HashInv /\ TableInv
    BY DEF Inv
  <2>. QED  BY ONLY <1>1, <1>2, <2>1, EntryRemoved
<1>4. \A x \in 0 .. TableSize(table') - 1 :
        x < r /\ table'[x] # Free => table'[x].key \in loop.seen
  <2>1. DOMAIN table' = 0 .. TableSize(table') - 1
    BY <1>3, TableFacts
  <2>. QED  BY <1>2, <1>3, <2>1
<1>5. /\ LoopOK(loop', table')
      /\ loop' = Idle => Present(table') \subseteq loop.seen
  BY <1>1, <1>2, <1>3, <1>4, VisitIs
<1>6. LoopInv' /\ Passes
  BY <1>5 DEF LoopInv, Passes
<1>7. Lookup(table, k) = DataOf(table)[k]
  BY <1>3 DEF DataOf
<1>8. Steps(DataOf(table), DataOf(table'))
  BY <1>3, <1>7 DEF Steps
<1>9. SizeInv' /\ RetInv'
  BY <1>1, <1>3 DEF Inv, SizeInv, RetInv
<1>. QED  BY <1>1, <1>3, <1>6, <1>8, <1>9, GoalIs

\* Every step keeps the invariant and is one of Dict or a stutter.
LEMMA EveryStep ==
  ASSUME Inv, [Next]_vars
  PROVE  Goal
<1>1. CASE \E k \in Keys, d \in Data : Put(k, d) \/ Insert(k, d)
  BY <1>1, PutStep, InsertStep
<1>2. CASE \E k \in Keys : Get(k) \/ Delete(k)
  BY <1>2, GetStep, DeleteStep
<1>3. CASE Clear \/ Reset \/ Cleanup
  BY <1>3, ClearStep
<1>4. CASE \E c \in Capacities : Reserve(c)
  BY <1>4, ReserveStep
<1>5. CASE LoopBegin
  BY <1>5, LoopBeginStep
<1>6. CASE LoopStep
  BY <1>6, LoopStepStep
<1>7. CASE IterRemove
  BY <1>7, IterRemoveStep
<1>8. CASE UNCHANGED vars
  <2>1. /\ hash' = hash /\ table' = table /\ size' = size /\ initSize' = initSize
        /\ ret' = ret /\ loop' = loop
    BY <1>8 DEF vars
  <2>. QED  BY <2>1, SameLoop, SameTable
<1>. QED  BY <1>1, <1>2, <1>3, <1>4, <1>5, <1>6, <1>7, <1>8 DEF Next

-----------------------------------------------------------------------------
(* The theorems.                                                           *)

\* The empty table satisfies the invariant.
LEMMA InitInv == Init => Inv
<1>. SUFFICES ASSUME Init  PROVE Inv
  OBVIOUS
<1>1. /\ hash \in [Keys -> Hashes] /\ table = Blank(0) /\ size = 0
      /\ initSize = DefaultSize /\ loop = Idle /\ ret = Null
  BY DEF Init
<1>2. TableOK(Blank(0), 0, 0)
  BY <1>1, BlankIs
<1>3. TableInv
  BY <1>1, <1>2 DEF TableInv, TableOK
<1>4. SizeInv
  BY <1>1, HashMapAssumption DEF SizeInv, PowersOfTwo
<1>. QED  BY <1>1, <1>3, <1>4 DEF Inv, HashInv, LoopInv, LoopOK, RetInv

\* The invariant holds.
LEMMA InvAlways == Spec => []Inv
<1>1. Inv /\ [Next]_vars => Inv'
  BY EveryStep DEF Goal
<1>. QED  BY InitInv, <1>1, PTL DEF Spec

\* The invariant implies the types.
LEMMA InvTypes == Inv => TypeOK
<1>. SUFFICES ASSUME Inv  PROVE TypeOK
  OBVIOUS
<1>. DEFINE n == TableSize(table)
<1>1. /\ TableOK(table, size, n) /\ n \in PowersOfTwo \cup {0}
      /\ n \in Nat /\ size \in Nat /\ size <= n /\ IsTable(table, n)
  BY TableFacts DEF Inv, TableInv, TableOK
<1>2. loop \in [at : DOMAIN table, key : Keys, seen : SUBSET Keys] \cup {Idle}
  BY DEF Inv, LoopInv, LoopOK
<1>. HIDE DEF n
<1>3. table \in [0 .. n - 1 -> [key : Keys, data : Data] \cup {Free}] /\ size \in 0 .. n
  BY <1>1 DEF IsTable
<1>. QED  BY <1>1, <1>2, <1>3 DEF TypeOK, Inv, HashInv, SizeInv, RetInv, n

\* Every variable has its type; the table's size is a power of two, or 0.
THEOREM TypeOKAlways == Spec => []TypeOK
  BY InvAlways, InvTypes, PTL

\* The invariant implies that every entry is reached.
LEMMA InvChained == Inv => Chained
<1>. SUFFICES ASSUME Inv  PROVE Chained
  OBVIOUS
<1>. DEFINE n == TableSize(table)
<1>1. /\ TableOK(table, size, n) /\ hash \in [Keys -> Hashes]
      /\ n \in Nat /\ Sound(table, n) /\ DOMAIN table = 0 .. n - 1
  BY TableFacts DEF Inv, TableInv, HashInv
<1>2. size = Cardinality({i \in DOMAIN table : table[i] # Free})
  BY <1>1 DEF TableOK, Used
<1>. HIDE DEF n
<1>3. ASSUME NEW i \in DOMAIN table, table[i] # Free
      PROVE  SlotFor(table, table[i].key) = i
  <2>1. i \in 0 .. n - 1 /\ n \in Nat \ {0}
    BY <1>1, <1>3
  <2>. QED  BY <1>1, <1>3, <2>1, SlotOfEntry
<1>. QED  BY <1>2, <1>3 DEF Chained

\* The probe for the key of an entry ends at the entry, after any history of
\* insertions, removals and rehashes (hashmap_entry_find, _remove, _rehash),
\* and size counts the entries.
THEOREM ChainedAlways == Spec => []Chained
  BY InvAlways, InvChained, PTL

\* The hash map implements the dictionary of Dict: an operation returns and
\* changes what the dictionary's does, and it never refuses an entry.
THEOREM ImplementsDictAlways == Spec => ImplementsDict
<1>1. Init => Abstract!Init
  <2>. SUFFICES ASSUME Init  PROVE Abstract!Init
    OBVIOUS
  <2>1. hash \in [Keys -> Hashes] /\ table = Blank(0) /\ ret = Null
    BY DEF Init
  <2>2. \A k \in Keys : Lookup(table, k) = Null
    BY <2>1, BlankIs
  <2>. QED  BY <2>1, <2>2 DEF Abstract!Init
<1>2. Inv /\ [Next]_vars => [Abstract!Next]_(Abstract!vars)
  BY EveryStep DEF Goal, DictStep
<1>. QED  BY <1>1, <1>2, InvAlways, PTL DEF Spec, ImplementsDict, Abstract!Spec

\* A loop whose body removes at most the entry it is at passes over none.
THEOREM NothingSkippedAlways == Spec => NothingSkipped
<1>1. Inv /\ [Next]_vars => [Looping /\ loop' = Idle => Present(table') \subseteq loop.seen]_vars
  BY EveryStep DEF Goal, Passes
<1>. QED  BY <1>1, InvAlways, PTL DEF Spec, NothingSkipped
=============================================================================
