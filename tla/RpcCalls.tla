------------------------------- MODULE RpcCalls -------------------------------
(***************************************************************************)
(* Objects and calls (rpc_object.c, with the methods call of rpc_server.c  *)
(* and the local requests of rpc_client.c that lead to them).  Objects are *)
(* registered under names and under their IDs.  A thread that serves a     *)
(* call loads the session's table of local objects, looks the object up,   *)
(* compares the parameters with the prototype, takes the types for libffi  *)
(* from a cache, notes the object as its current one, and runs the         *)
(* function.  The function may ask for its local object, which is made     *)
(* when it is first asked for, and may itself call: a local client runs    *)
(* the call in the caller's thread.                                        *)
(*                                                                         *)
(* Every object has one function, and all of them have the same name, as   *)
(* the functions of different objects may.                                 *)
(***************************************************************************)
EXTENDS Naturals, Sequences, SequencesExt

CONSTANTS
  Threads,   \* the threads that serve calls
  Objects,   \* rpc objects; an object is also its ID
  Names,     \* names that objects are registered under
  Sessions,  \* persons and local clients, each with a table "lobjects"
  Proto,     \* the prototype of each object's function
  Params,    \* the types of the parameters that callers send
  Null,      \* nothing
  MaxCalls   \* bound: calls under way at a time, all threads together

ASSUME CallsAssumption ==
  /\ Objects \cap Names = {}
  /\ Null \notin Objects \cup Names \cup Sessions \cup Threads
  /\ Null \notin Params
  /\ MaxCalls \in Nat \ {0}

VARIABLES
  live,      \* objects that are not freed
  byName,    \* RO_cobject_bname
  byId,      \* RO_cobject_bid
  adding,    \* the object rpc_cobject_set has put in the first table only
  cache,     \* RO_protocache
  frames,    \* the calls under way in each thread, the innermost last
  current,   \* RO_object_stack of each thread
  loaded,    \* RO_lobjects of each thread
  local,     \* the local objects of each session
  holder,    \* the thread that holds the lock of a session's table
  aborted    \* an assertion of the code has failed

vars == <<live, byName, byId, adding, cache, frames, current, loaded, local,
          holder, aborted>>

-----------------------------------------------------------------------------
Steps == {"name", "id", "invoke", "run", "get", "create"}

\* one call: the object (its name or ID until it is found), the session, the
\* parameters until they are handed over, and whether the function has made no
\* call of its own
Frame == [pc : Steps, obj : Objects \cup Names, session : Sessions,
          params : Params \cup {<<>>}, alone : BOOLEAN]

Busy(t) == frames[t] # <<>>
Top(t)  == frames[t][Len(frames[t])]
At(t, pc) == ~aborted /\ Busy(t) /\ Top(t).pc = pc

WithTop(t, f) == [frames EXCEPT ![t][Len(frames[t])] = f]
Goto(t, pc)   == WithTop(t, [Top(t) EXCEPT !.pc = pc])
Popped(t)     == [frames EXCEPT ![t] = Front(frames[t])]

\* the calls that hold a pointer to their object
Found == {"invoke", "run", "get", "create"}
InUse(o) ==
  \E t \in Threads :
    \/ o \in ToSet(current[t])
    \/ \E i \in DOMAIN frames[t] : frames[t][i].pc \in Found /\ frames[t][i].obj = o

-----------------------------------------------------------------------------
Init ==
  /\ live = Objects
  /\ byName = [n \in Names |-> Null]
  /\ byId = {}
  /\ adding = Null
  /\ cache = [o \in Objects |-> Null]
  /\ frames = [t \in Threads |-> <<>>]
  /\ current = [t \in Threads |-> <<>>]
  /\ loaded = [t \in Threads |-> Null]
  /\ local = [s \in Sessions |-> {}]
  /\ holder = [s \in Sessions |-> Null]
  /\ aborted = FALSE

(***************************************************************************)
(* The registry.  One thread of the application changes it.                *)
(***************************************************************************)
\* rpc_cobject_set: the name, which must be free
SetName(n, o) ==
  /\ ~aborted
  /\ adding = Null
  /\ o \in live
  /\ byName[n] = Null
  /\ byName' = [byName EXCEPT ![n] = o]
  /\ adding' = o
  /\ UNCHANGED <<live, byId, cache, frames, current, loaded, local, holder, aborted>>

\* rpc_cobject_set: the ID.  An object that has a name already is refused
\* here, after its second name has been entered.
SetId ==
  /\ ~aborted
  /\ adding # Null
  /\ byId' = byId \cup {adding}
  /\ adding' = Null
  /\ UNCHANGED <<live, byName, cache, frames, current, loaded, local, holder, aborted>>

\* a wrong rpc_cobject_remove: only the entry that was asked for disappears
NamesWithoutOne(o) ==
  LET n == CHOOSE m \in Names : byName[m] = o
  IN  [byName EXCEPT ![n] = Null]

\* rpc_struct_free takes the object out of every struct that holds it
NamesWithout(o) == [n \in Names |-> IF byName[n] = o THEN Null ELSE byName[n]]

\* rpc_cobject_remove, from a thread that is in no call.  The application
\* removes an object only when no call is using it.
RemoveObject(o) ==
  /\ ~aborted
  /\ adding = Null
  /\ \/ \E n \in Names : byName[n] = o
     \/ o \in byId
  /\ ~InUse(o)
  /\ live' = live \ {o}
  /\ byName' = NamesWithout(o)
  /\ byId' = byId \ {o}
  /\ UNCHANGED <<adding, cache, frames, current, loaded, local, holder, aborted>>

(***************************************************************************)
(* A call.                                                                 *)
(***************************************************************************)
\* a wrong rpc_lobjects_load: a table that is loaded already stays
LoadedOnce(t, s) == IF loaded[t] = Null THEN s ELSE loaded[t]

Loaded(t, s) == s

\* a request for a call reaches its handler, from the pool when the thread is
\* idle, from the running function of an outer call otherwise
Call(t, s, target, params) ==
  /\ ~aborted
  /\ Busy(t) => Top(t).pc = "run"
  /\ Cardinality(UNION {{u} \X DOMAIN frames[u] : u \in Threads}) < MaxCalls
  /\ loaded' = [loaded EXCEPT ![t] = Loaded(t, s)]
  /\ LET outer == IF Busy(t) THEN [frames[t] EXCEPT ![Len(frames[t])].alone = FALSE]
                             ELSE <<>>
     IN  frames' = [frames EXCEPT ![t] =
           Append(outer, [pc |-> "name", obj |-> target, session |-> s,
                          params |-> params, alone |-> TRUE])]
  /\ UNCHANGED <<live, byName, byId, adding, cache, current, local, holder, aborted>>

\* rpc_cobject_get: the table of names
FindName(t) ==
  /\ At(t, "name")
  /\ LET n == Top(t).obj
     IN  frames' = IF n \in Names /\ byName[n] # Null
                   THEN WithTop(t, [Top(t) EXCEPT !.obj = byName[n], !.pc = "invoke"])
                   ELSE Goto(t, "id")
  /\ UNCHANGED <<live, byName, byId, adding, cache, current, loaded, local, holder,
                 aborted>>

\* a wrong rpc_cobject_get: the second look-up is not tested
AnyId(target) == TRUE

IsId(target) == target \in byId

\* rpc_cobject_get: the table of IDs.  An object that is in neither is
\* answered with ERR_RPC_DOESNT_EXIST.
FindId(t) ==
  /\ At(t, "id")
  /\ frames' = IF IsId(Top(t).obj) THEN Goto(t, "invoke") ELSE Popped(t)
  /\ UNCHANGED <<live, byName, byId, adding, cache, current, loaded, local, holder,
                 aborted>>

\* proto_equals: parameters after those of the prototype are allowed
ProtoEquals(proto, params) == IsPrefix(proto, params)

\* a wrong key: the name of the function without the ID of its object
NameOnly(o) == CHOOSE p \in Objects : TRUE

CacheKey(o) == o

\* a wrong rpc_cobject_push: the object is noted once
PushedOnce(q, o) == IF o \in ToSet(q) THEN q ELSE Append(q, o)

Pushed(q, o) == Append(q, o)

\* rpc_cobject_call.  Parameters that do not fit are answered with
\* ERR_RPC_PROTOTYPE_DIFFERENT.  The types come from the cache, which the first
\* call of a function fills; then the object becomes the current one of the
\* thread and the parameters are handed over.
Invoke(t) ==
  /\ At(t, "invoke")
  /\ LET o == Top(t).obj
         k == CacheKey(o)
     IN  IF ProtoEquals(Proto[o], Top(t).params)
         THEN /\ cache' = [cache EXCEPT ![k] = IF @ = Null THEN Top(t).params ELSE @]
              /\ current' = [current EXCEPT ![t] = Pushed(@, o)]
              /\ frames' = WithTop(t, [Top(t) EXCEPT !.pc = "run", !.params = <<>>])
         ELSE frames' = Popped(t) /\ UNCHANGED <<cache, current>>
  /\ UNCHANGED <<live, byName, byId, adding, loaded, local, holder, aborted>>

(***************************************************************************)
(* rpc_lobject_get, called by the running function.                        *)
(***************************************************************************)
\* a wrong rpc_lobject_get: the table is not locked
NeedsNoLock(t) == TRUE

MayLock(t) == holder[loaded[t]] \in {Null, t}

Lock(t) ==
  /\ At(t, "run")
  /\ MayLock(t)
  /\ aborted' = (aborted \/ current[t] = <<>>)
  /\ holder' = [holder EXCEPT ![loaded[t]] = t]
  /\ frames' = Goto(t, "get")
  /\ UNCHANGED <<live, byName, byId, adding, cache, current, loaded, local>>

Unlocked(t) == [holder EXCEPT ![loaded[t]] = Null]

\* the loop ends when the table has a local object for the current object
Get(t) ==
  /\ At(t, "get")
  /\ IF Head(current[t]) \in local[loaded[t]]
     THEN frames' = Goto(t, "run") /\ holder' = Unlocked(t)
     ELSE frames' = Goto(t, "create") /\ UNCHANGED holder
  /\ UNCHANGED <<live, byName, byId, adding, cache, current, loaded, local, aborted>>

\* the code asserts that the new local object is the first
Create(t) ==
  /\ At(t, "create")
  /\ LET s == loaded[t]
         o == Head(current[t])
     IN  /\ aborted' = (aborted \/ o \in local[s])
         /\ local' = [local EXCEPT ![s] = @ \cup {o}]
  /\ frames' = Goto(t, "get")
  /\ UNCHANGED <<live, byName, byId, adding, cache, current, loaded, holder>>

\* a wrong return: the current object is forgotten only by the outermost call
PoppedByOutermost(t) == IF Len(frames[t]) = 1 THEN Tail(current[t]) ELSE current[t]

CurrentPopped(t) == Tail(current[t])

\* the function returns and the handler writes the reply
Return(t) ==
  /\ At(t, "run")
  /\ current' = [current EXCEPT ![t] = CurrentPopped(t)]
  /\ frames' = Popped(t)
  /\ UNCHANGED <<live, byName, byId, adding, cache, loaded, local, holder, aborted>>

-----------------------------------------------------------------------------
Registry ==
  \/ SetId
  \/ \E o \in Objects : RemoveObject(o) \/ \E n \in Names : SetName(n, o)

Begin(t) ==
  \E s \in Sessions, target \in Names \cup Objects, params \in Params :
    Call(t, s, target, params)

Serve(t) ==
  \/ Begin(t)
  \/ FindName(t) \/ FindId(t) \/ Invoke(t)
  \/ Lock(t) \/ Get(t) \/ Create(t)
  \/ Return(t)

Next == Registry \/ \E t \in Threads : Serve(t)

Spec == Init /\ [][Next]_vars

-----------------------------------------------------------------------------
\* Every variable has its type.
TypeOK ==
  /\ live \subseteq Objects
  /\ byName \in [Names -> Objects \cup {Null}]
  /\ byId \subseteq Objects
  /\ adding \in Objects \cup {Null}
  /\ cache \in [Objects -> Params \cup {Null}]
  /\ frames \in [Threads -> Seq(Frame)]
  /\ \A t \in Threads : \A i \in DOMAIN frames[t] :
       frames[t][i].pc \in Found => frames[t][i].obj \in Objects
  /\ current \in [Threads -> Seq(Objects)]
  /\ loaded \in [Threads -> Sessions \cup {Null}]
  /\ local \in [Sessions -> SUBSET Objects]
  /\ holder \in [Sessions -> Threads \cup {Null}]
  /\ aborted \in BOOLEAN

Entered == {"run", "get", "create"}

\* The objects a thread has noted as current are as many as the functions it
\* is running, whatever path its calls, nested and failed ones, have taken: a
\* thread of the pool starts every request with an empty context.
BalancedContext ==
  \A t \in Threads :
    Len(current[t]) = Cardinality({i \in DOMAIN frames[t] : frames[t][i].pc \in Entered})

\* A function that has made no call of its own finds the local objects of the
\* session it serves; at the outermost level it also finds its own object to
\* be the current one, whatever the thread did before.
OwnContext ==
  \A t \in Threads :
    Busy(t) /\ Top(t).alone /\ Top(t).pc \in Entered =>
      /\ loaded[t] = Top(t).session
      /\ Len(frames[t]) = 1 => Head(current[t]) = Top(t).obj

\* Calls of one session that run at a time agree on its local objects: the
\* assertion that a new one is the first (rpc_object.c:98) does not fail.
LocalsAgree == ~aborted

\* The two tables agree: whatever is found by name is found by its ID, unless
\* it is being added, nothing is known by its ID alone, and nothing that is
\* found is freed, though an object can have several names.
RegistryAgrees ==
  /\ \A n \in Names :
       byName[n] # Null => byName[n] \in live /\ byName[n] \in byId \cup {adding}
  /\ \A o \in byId : \E n \in Names : byName[n] = o

\* libffi gets the types of the function's own prototype for the parameters
\* the prototype names, whoever filled the cache, and with what.
CacheFits ==
  \A t \in Threads :
    At(t, "run") =>
      LET types == cache[CacheKey(Top(t).obj)]
      IN  types # Null /\ IsPrefix(Proto[Top(t).obj], types)

\* The current object is that of the innermost call: RO_object_stack is a
\* stack (rpc_object.c:42), pushed when a function is entered (185) and popped
\* when it returns (187).
CurrentIsInnermost ==
  \A t \in Threads :
    Busy(t) /\ Top(t).pc \in Entered => Head(current[t]) = Top(t).obj
=============================================================================
