---------------------------------- MODULE Dict ----------------------------------
(***************************************************************************)
(* What a hash map promises its users (hashmap.h): a function from keys to *)
(* data that each operation changes at the key it is given and nowhere     *)
(* else, with the result the header documents.                             *)
(***************************************************************************)
CONSTANTS Keys, Data, Null

VARIABLES dict, ret

vars == <<dict, ret>>

Init ==
  /\ dict = [k \in Keys |-> Null]
  /\ ret = Null

\* existing data is not overwritten
Put(k, d) ==
  \/ ret' = "added" /\ dict[k] = Null /\ dict' = [dict EXCEPT ![k] = d]
  \/ ret' = "exists" /\ dict[k] # Null /\ UNCHANGED dict

Insert(k, d) ==
  /\ \/ ret' = "added" /\ dict[k] = Null
     \/ ret' = "updated" /\ dict[k] # Null
  /\ dict' = [dict EXCEPT ![k] = d]

Get(k) ==
  /\ ret' \in Data \cup {Null}
  /\ ret' = dict[k]
  /\ UNCHANGED dict

Delete(k) ==
  /\ ret' \in Data \cup {Null}
  /\ ret' = dict[k]
  /\ dict' = [dict EXCEPT ![k] = Null]

Clear ==
  /\ dict' = [k \in Keys |-> Null]
  /\ ret' = Null

Next ==
  \/ Clear
  \/ \E k \in Keys : Get(k) \/ Delete(k)
  \/ \E k \in Keys, d \in Data : Put(k, d) \/ Insert(k, d)

Spec == Init /\ [][Next]_vars
=============================================================================
