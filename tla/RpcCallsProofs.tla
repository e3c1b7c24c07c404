--------------------------- MODULE RpcCallsProofs ---------------------------
(***************************************************************************)
(* Proofs about RpcCalls, for any number of threads, objects, names,       *)
(* sessions and prototypes and any depth of nested calls: its type         *)
(* invariant, the balance of the call context, the context a function      *)
(* finds, that local objects are made once, the two tables of objects, and *)
(* the cache of prototypes.                                                *)
(***************************************************************************)
EXTENDS RpcCalls, SequenceTheorems, FiniteSetTheorems, TLAPS

\* a call keeps its parameters until its function gets them
BeforeEntry == {"name", "id", "invoke"}

\* TypeOK, and that the parameters of a call are those it was made with
Typed ==
  /\ TypeOK
  /\ \A t \in Threads : \A i \in DOMAIN frames[t] :
       frames[t][i].pc \in BeforeEntry => frames[t][i].params \in Params

\* Only the innermost call of a thread is not running its function, and only
\* that one may not have made a call of its own.
OuterInv ==
  \A t \in Threads : \A i \in DOMAIN frames[t] :
    i # Len(frames[t]) => frames[t][i].pc = "run" /\ ~frames[t][i].alone

\* How many functions a thread has entered.
Depth(t) ==
  IF ~Busy(t) THEN 0
  ELSE IF Top(t).pc \in Entered THEN Len(frames[t]) ELSE Len(frames[t]) - 1

DepthInv == \A t \in Threads : Len(current[t]) = Depth(t)

\* A thread that serves a call has a session's table, of its own session before
\* it makes a call.
SessionInv ==
  \A t \in Threads :
    Busy(t) => /\ loaded[t] \in Sessions
               /\ Top(t).alone => loaded[t] = Top(t).session

\* The outermost call finds its object first.
HeadInv ==
  \A t \in Threads :
    Busy(t) /\ Top(t).alone /\ Top(t).pc \in Entered /\ Len(frames[t]) = 1 =>
      Head(current[t]) = Top(t).obj

\* A thread in the loop of rpc_lobject_get holds its table's lock.
HolderInv ==
  \A t \in Threads :
    Busy(t) /\ Top(t).pc \in {"get", "create"} => holder[loaded[t]] = t

\* Between the test and the creation nobody makes the local object.
FreshInv ==
  \A t \in Threads :
    Busy(t) /\ Top(t).pc = "create" => Head(current[t]) \notin local[loaded[t]]

\* Each entry of the cache begins with its prototype, and every function that
\* is running has one.
CacheInv ==
  /\ \A o \in Objects : cache[o] # Null => IsPrefix(Proto[o], cache[o])
  /\ \A t \in Threads : \A i \in DOMAIN frames[t] :
       frames[t][i].pc \in Entered => cache[frames[t][i].obj] # Null

\* RegistryAgrees, with the object that is being added.
RegistryInv ==
  /\ RegistryAgrees
  /\ adding # Null => \E n \in Names : byName[n] = adding

Inv ==
  /\ Typed
  /\ OuterInv
  /\ DepthInv
  /\ SessionInv
  /\ HeadInv
  /\ HolderInv
  /\ FreshInv
  /\ LocalsAgree
  /\ CacheInv
  /\ RegistryInv

-----------------------------------------------------------------------------
(* The frames of a thread.                                                 *)

\* The innermost call of a busy thread.
LEMMA TopFrame ==
  ASSUME Typed, NEW t \in Threads, Busy(t)
  PROVE  /\ frames[t] \in Seq(Frame) /\ Len(frames[t]) \in Nat \ {0}
         /\ Len(frames[t]) \in DOMAIN frames[t]
         /\ Top(t) \in Frame
         /\ Top(t).pc \in Found => Top(t).obj \in Objects
         /\ Top(t).pc \in BeforeEntry => Top(t).params \in Params
<1>1. frames[t] \in Seq(Frame) /\ frames[t] # <<>>
  BY DEF Typed, TypeOK, Busy
<1>2. Len(frames[t]) \in Nat \ {0} /\ Len(frames[t]) \in DOMAIN frames[t]
  BY <1>1
<1>3. Top(t) \in Frame
  BY <1>1, <1>2, ElementOfSeq DEF Top
<1> QED BY <1>1, <1>2, <1>3 DEF Typed, TypeOK, Top

\* A thread goes on with its innermost call.
LEMMA TopReplaced ==
  ASSUME Typed, NEW t \in Threads, Busy(t), NEW f \in Frame, frames' = WithTop(t, f)
  PROVE  /\ frames' \in [Threads -> Seq(Frame)]
         /\ Busy(t)' /\ Top(t)' = f /\ Len(frames'[t]) = Len(frames[t])
         /\ \A i \in DOMAIN frames'[t] :
              i \in DOMAIN frames[t] /\ (i # Len(frames[t]) => frames'[t][i] = frames[t][i])
         /\ \A u \in Threads : u # t => frames'[u] = frames[u]
<1>1. frames \in [Threads -> Seq(Frame)]
  BY DEF Typed, TypeOK
<1>2. frames[t] \in Seq(Frame) /\ Len(frames[t]) \in Nat \ {0}
  BY TopFrame
<1>3. frames'[t] = [frames[t] EXCEPT ![Len(frames[t])] = f]
  BY <1>1 DEF WithTop
<1>4. frames'[t] \in Seq(Frame) /\ Len(frames'[t]) = Len(frames[t])
  BY <1>2, <1>3, ExceptSeq
<1>5. frames' \in [Threads -> Seq(Frame)] /\ \A u \in Threads : u # t => frames'[u] = frames[u]
  BY <1>1, <1>4 DEF WithTop
<1>6. /\ frames'[t][Len(frames[t])] = f
      /\ \A i \in DOMAIN frames'[t] :
           i \in DOMAIN frames[t] /\ (i # Len(frames[t]) => frames'[t][i] = frames[t][i])
  BY <1>2, <1>3, <1>4
<1> QED BY <1>2, <1>4, <1>5, <1>6 DEF Busy, Top

\* A call ends; its caller, if it has one, is running its function.
LEMMA TopGone ==
  ASSUME Typed, OuterInv, NEW t \in Threads, Busy(t), frames' = Popped(t)
  PROVE  /\ frames' \in [Threads -> Seq(Frame)]
         /\ Len(frames'[t]) = Len(frames[t]) - 1
         /\ Busy(t)' => Len(frames'[t]) # 0 /\ Top(t)'.pc = "run" /\ ~Top(t)'.alone
         /\ Len(frames[t]) # 1 => Busy(t)'
         /\ \A i \in DOMAIN frames'[t] : i \in DOMAIN frames[t] /\ i # Len(frames[t])
                                         /\ frames'[t][i] = frames[t][i]
         /\ \A u \in Threads : u # t => frames'[u] = frames[u]
<1>1. frames \in [Threads -> Seq(Frame)]
  BY DEF Typed, TypeOK
<1>2. frames[t] \in Seq(Frame) /\ Len(frames[t]) \in Nat \ {0}
  BY TopFrame
<1> DEFINE n == Len(frames[t])
<1>3. frames'[t] = SubSeq(frames[t], 1, n - 1)
  BY <1>1 DEF Popped, Front
<1>4. /\ frames'[t] \in Seq(Frame) /\ Len(frames'[t]) = n - 1
      /\ \A i \in 1 .. n - 1 : frames'[t][i] = frames[t][i]
  <2>1. n - 1 \in Int /\ \A i \in 1 .. n - 1 : frames[t][i] \in Frame
    BY <1>2, ElementOfSeq
  <2>2. /\ SubSeq(frames[t], 1, n - 1) \in Seq(Frame)
        /\ Len(SubSeq(frames[t], 1, n - 1)) = IF 1 <= n - 1 THEN (n - 1) - 1 + 1 ELSE 0
        /\ \A i \in 1 .. (n - 1) - 1 + 1 : SubSeq(frames[t], 1, n - 1)[i] = frames[t][1 + i - 1]
    BY <2>1, SubSeqProperties
  <2> QED BY <1>2, <1>3, <2>1, <2>2
<1>5. frames' \in [Threads -> Seq(Frame)] /\ \A u \in Threads : u # t => frames'[u] = frames[u]
  BY <1>1, <1>4 DEF Popped
<1>6. \A i \in DOMAIN frames'[t] : i \in DOMAIN frames[t] /\ i # n /\ frames'[t][i] = frames[t][i]
  BY <1>2, <1>4
<1>7. ASSUME Busy(t)'
      PROVE  Len(frames'[t]) # 0 /\ Top(t)'.pc = "run" /\ ~Top(t)'.alone
  <2>1. Len(frames'[t]) \in DOMAIN frames'[t]
    BY <1>4, <1>7 DEF Busy
  <2>2. /\ n - 1 \in DOMAIN frames[t] /\ n - 1 # n /\ Top(t)' = frames[t][n - 1]
        /\ Len(frames'[t]) # 0
    BY <1>4, <1>6, <2>1 DEF Top
  <2> QED BY <2>2 DEF OuterInv
<1>8. n # 1 => Busy(t)'
  <2>1. frames'[t] = <<>> => Len(frames'[t]) = 0
    OBVIOUS
  <2>2. n # 1 => n - 1 # 0
    BY <1>2
  <2>3. n # 1 => frames'[t] # <<>>
    BY <1>4, <2>1, <2>2
  <2> QED BY <2>3 DEF Busy
<1> QED BY <1>4, <1>5, <1>6, <1>7, <1>8

\* A call begins; the call it is made from has made one now.
LEMMA CallBegins ==
  ASSUME Typed, OuterInv, NEW t \in Threads, NEW s \in Sessions,
         NEW target \in Names \cup Objects, NEW params \in Params,
         Call(t, s, target, params)
  PROVE  LET f == [pc |-> "name", obj |-> target, session |-> s, params |-> params,
                   alone |-> TRUE]
         IN  /\ frames' \in [Threads -> Seq(Frame)]
             /\ Busy(t)' /\ Top(t)' = f
             /\ Len(frames'[t]) = Len(frames[t]) + 1
             /\ Depth(t) = Len(frames[t])
             /\ \A i \in DOMAIN frames'[t] :
                  i # Len(frames'[t]) =>
                    /\ frames'[t][i].pc = "run" /\ ~frames'[t][i].alone
                    /\ i \in DOMAIN frames[t] /\ frames'[t][i].obj = frames[t][i].obj
             /\ \A u \in Threads : u # t => frames'[u] = frames[u]
<1> DEFINE f == [pc |-> "name", obj |-> target, session |-> s, params |-> params,
                 alone |-> TRUE]
           n == Len(frames[t])
           outer == IF Busy(t) THEN [frames[t] EXCEPT ![n].alone = FALSE] ELSE <<>>
<1>1. frames \in [Threads -> Seq(Frame)] /\ frames[t] \in Seq(Frame)
  BY DEF Typed, TypeOK
<1>2. f \in Frame
  BY DEF Frame, Steps
<1>3. frames' = [frames EXCEPT ![t] = Append(outer, f)] /\ (Busy(t) => Top(t).pc = "run")
  BY DEF Call
<1>4. /\ outer \in Seq(Frame) /\ Len(outer) = n
      /\ \A i \in 1 .. n : outer[i].pc = "run" /\ ~outer[i].alone
                          /\ outer[i].obj = frames[t][i].obj
  <2>1. CASE ~Busy(t)
    BY <1>1, <2>1 DEF Busy
  <2>2. CASE Busy(t)
    <3>1. n \in Nat \ {0} /\ frames[t][n] \in Frame /\ frames[t][n].pc = "run"
      BY <2>2, <1>3, TopFrame DEF Top
    <3> DEFINE g == [frames[t][n] EXCEPT !.alone = FALSE]
    <3>2. g \in Frame /\ g.pc = "run" /\ ~g.alone /\ g.obj = frames[t][n].obj
      BY <3>1 DEF Frame
    <3>3. outer = [frames[t] EXCEPT ![n] = g]
      BY <2>2
    <3> HIDE DEF g, outer
    <3>4. /\ outer \in Seq(Frame) /\ Len(outer) = n
          /\ \A i \in 1 .. n : outer[i] = IF i = n THEN g ELSE frames[t][i]
      BY <1>1, <3>1, <3>2, <3>3, ExceptSeq
    <3>5. \A i \in 1 .. n : i # n => frames[t][i].pc = "run" /\ ~frames[t][i].alone
      BY <1>1 DEF OuterInv
    <3> QED BY <3>2, <3>4, <3>5
  <2> QED BY <2>1, <2>2
<1> HIDE DEF f, outer
<1>5. /\ Append(outer, f) \in Seq(Frame) /\ Len(Append(outer, f)) = n + 1
      /\ \A i \in 1 .. n : Append(outer, f)[i] = outer[i]
      /\ Append(outer, f)[n + 1] = f /\ n \in Nat
  BY <1>1, <1>2, <1>4, AppendProperties
<1>6. /\ frames' \in [Threads -> Seq(Frame)] /\ frames'[t] = Append(outer, f)
      /\ \A u \in Threads : u # t => frames'[u] = frames[u]
  BY <1>1, <1>3, <1>5
<1>7. Busy(t)' /\ Top(t)' = f /\ Len(frames'[t]) = n + 1
  <2>1. Len(frames'[t]) = n + 1 /\ frames'[t][n + 1] = f
    BY <1>5, <1>6
  <2>2. frames'[t] # <<>>
    BY <2>1, <1>5
  <2> QED BY <2>1, <2>2 DEF Busy, Top
<1>8. \A i \in DOMAIN frames'[t] :
        i # Len(frames'[t]) =>
          /\ frames'[t][i].pc = "run" /\ ~frames'[t][i].alone
          /\ i \in DOMAIN frames[t] /\ frames'[t][i].obj = frames[t][i].obj
  <2>1. ASSUME NEW i \in DOMAIN frames'[t], i # Len(frames'[t])
        PROVE  i \in 1 .. n
    BY <1>5, <1>6, <2>1
  <2>2. DOMAIN frames[t] = 1 .. n
    BY <1>1
  <2> QED BY <1>4, <1>5, <1>6, <2>1, <2>2
<1>9. Depth(t) = n
  BY <1>1, <1>3 DEF Depth, Entered, Busy
<1> QED BY <1>6, <1>7, <1>8, <1>9 DEF f

-----------------------------------------------------------------------------
(* The steps, by what they do to the frames.                               *)

\* The steps of the registry leave the calls alone.
LEMMA NextCases ==
  ASSUME [Next]_vars
  PROVE  \/ SetId
         \/ \E o \in Objects : RemoveObject(o) \/ \E n \in Names : SetName(n, o)
         \/ \E t \in Threads :
              \/ \E s \in Sessions, target \in Names \cup Objects, params \in Params :
                   Call(t, s, target, params)
              \/ FindName(t) \/ FindId(t) \/ Invoke(t)
              \/ Lock(t) \/ Get(t) \/ Create(t)
              \/ Return(t)
         \/ UNCHANGED vars
BY DEF Next, Registry, Serve, Begin

\* The innermost call goes on: it stays the same call, of an object once it has
\* found it.
Advance(t, f) ==
  /\ Busy(t)
  /\ frames' = WithTop(t, f)
  /\ f \in Frame
  /\ f.session = Top(t).session /\ f.alone = Top(t).alone
  /\ f.pc \in Found => f.obj \in Objects
  /\ f.pc \in BeforeEntry => f.params \in Params

\* The first look-up finds the object or goes on to the second.
LEMMA FindNameFrame ==
  ASSUME Typed, NEW t \in Threads, FindName(t)
  PROVE  \E f : Advance(t, f) /\ f.pc \in {"invoke", "id"}
<1>1. Busy(t) /\ Top(t).pc = "name"
  BY DEF FindName, At
<1>2. Top(t) \in Frame /\ Top(t).params \in Params
  BY <1>1, TopFrame DEF BeforeEntry
<1>3. byName \in [Names -> Objects \cup {Null}]
  BY DEF Typed, TypeOK
<1> DEFINE n == Top(t).obj
<1>4. CASE n \in Names /\ byName[n] # Null
  <2> DEFINE f == [Top(t) EXCEPT !.obj = byName[n], !.pc = "invoke"]
  <2>1. frames' = WithTop(t, f)
    BY <1>4 DEF FindName
  <2>2. byName[n] \in Objects
    BY <1>3, <1>4
  <2>3. Advance(t, f) /\ f.pc = "invoke"
    BY <1>1, <1>2, <2>1, <2>2 DEF Advance, Frame, Steps, BeforeEntry
  <2> QED BY <2>3
<1>5. CASE ~(n \in Names /\ byName[n] # Null)
  <2> DEFINE f == [Top(t) EXCEPT !.pc = "id"]
  <2>1. frames' = WithTop(t, f)
    BY <1>5 DEF FindName, Goto
  <2>2. Advance(t, f) /\ f.pc = "id"
    BY <1>1, <1>2, <2>1 DEF Advance, Frame, Steps, BeforeEntry, Found
  <2> QED BY <2>2
<1> QED BY <1>4, <1>5

\* The second look-up finds the object, or the call is over.
LEMMA FindIdFrame ==
  ASSUME Typed, NEW t \in Threads, FindId(t)
  PROVE  \/ Busy(t) /\ Top(t).pc = "id" /\ frames' = Popped(t)
         \/ \E f : Advance(t, f) /\ f.pc = "invoke"
<1>1. Busy(t) /\ Top(t).pc = "id"
  BY DEF FindId, At
<1>2. Top(t) \in Frame /\ Top(t).params \in Params
  BY <1>1, TopFrame DEF BeforeEntry
<1>3. CASE IsId(Top(t).obj)
  <2> DEFINE f == [Top(t) EXCEPT !.pc = "invoke"]
  <2>1. frames' = WithTop(t, f) /\ Top(t).obj \in Objects
    BY <1>3 DEF FindId, Goto, IsId, Typed, TypeOK
  <2>2. Advance(t, f) /\ f.pc = "invoke"
    BY <1>1, <1>2, <2>1 DEF Advance, Frame, Steps, BeforeEntry
  <2> QED BY <2>2
<1>4. CASE ~IsId(Top(t).obj)
  BY <1>1, <1>4 DEF FindId
<1> QED BY <1>3, <1>4

\* The function is entered if the parameters fit, or the call is over.
LEMMA InvokeFrame ==
  ASSUME Typed, NEW t \in Threads, Invoke(t)
  PROVE  /\ Busy(t) /\ Top(t).pc = "invoke"
         /\ Top(t).obj \in Objects /\ Top(t).params \in Params
         /\ \/ ~ProtoEquals(Proto[Top(t).obj], Top(t).params) /\ frames' = Popped(t)
               /\ UNCHANGED <<cache, current>>
            \/ /\ ProtoEquals(Proto[Top(t).obj], Top(t).params)
               /\ \E f : Advance(t, f) /\ f.pc = "run" /\ f.obj = Top(t).obj
<1>1. Busy(t) /\ Top(t).pc = "invoke"
  BY DEF Invoke, At
<1>2. Top(t) \in Frame /\ Top(t).params \in Params /\ Top(t).obj \in Objects
  BY <1>1, TopFrame DEF BeforeEntry, Found
<1>3. CASE ProtoEquals(Proto[Top(t).obj], Top(t).params)
  <2> DEFINE f == [Top(t) EXCEPT !.pc = "run", !.params = <<>>]
  <2>1. frames' = WithTop(t, f)
    BY <1>3 DEF Invoke
  <2>2. Advance(t, f) /\ f.pc = "run" /\ f.obj = Top(t).obj
    BY <1>1, <1>2, <2>1 DEF Advance, Frame, Steps, BeforeEntry
  <2> QED BY <1>1, <1>2, <1>3, <2>2
<1>4. CASE ~ProtoEquals(Proto[Top(t).obj], Top(t).params)
  BY <1>1, <1>2, <1>4 DEF Invoke
<1> QED BY <1>3, <1>4

\* The steps of rpc_lobject_get stay inside the function.
LEMMA LocalFrame ==
  ASSUME Typed, NEW t \in Threads, Lock(t) \/ Get(t) \/ Create(t)
  PROVE  /\ Busy(t)
         /\ Top(t).pc = IF Lock(t) THEN "run" ELSE IF Get(t) THEN "get" ELSE "create"
         /\ \E pc \in Entered : \E f :
              /\ Advance(t, f) /\ f.pc = pc /\ f.obj = Top(t).obj /\ frames' = Goto(t, pc)
<1>1. /\ Busy(t) /\ Top(t).pc \in Entered
      /\ Top(t).pc = IF Lock(t) THEN "run" ELSE IF Get(t) THEN "get" ELSE "create"
  BY DEF Lock, Get, Create, At, Entered
<1>2. Top(t) \in Frame /\ Top(t).obj \in Objects
  BY <1>1, TopFrame DEF Found, Entered
<1>3. PICK pc \in Entered : frames' = Goto(t, pc)
  BY DEF Lock, Get, Create, Entered
<1> DEFINE f == [Top(t) EXCEPT !.pc = pc]
<1>4. frames' = WithTop(t, f)
  BY <1>3 DEF Goto
<1>5. Advance(t, f) /\ f.pc = pc /\ f.obj = Top(t).obj
  BY <1>1, <1>2, <1>4 DEF Advance, Frame, Steps, BeforeEntry, Entered
<1> QED BY <1>1, <1>3, <1>5

\* What a thread does to its calls.
LEMMA ServeFrames ==
  ASSUME Typed, OuterInv, NEW t \in Threads,
         FindName(t) \/ FindId(t) \/ Invoke(t) \/ Lock(t) \/ Get(t) \/ Create(t) \/ Return(t)
  PROVE  /\ Busy(t)
         /\ (frames' = Popped(t)) \/ (\E f : Advance(t, f))
<1>1. CASE FindName(t)
  BY <1>1, FindNameFrame DEF Advance
<1>2. CASE FindId(t)
  BY <1>2, FindIdFrame DEF Advance
<1>3. CASE Invoke(t)
  BY <1>3, InvokeFrame DEF Advance
<1>4. CASE Lock(t) \/ Get(t) \/ Create(t)
  BY <1>4, LocalFrame
<1>5. CASE Return(t)
  BY <1>5 DEF Return, At
<1> QED BY <1>1, <1>2, <1>3, <1>4, <1>5

FramesTyped ==
  /\ frames \in [Threads -> Seq(Frame)]
  /\ \A t \in Threads : \A i \in DOMAIN frames[t] :
       /\ frames[t][i].pc \in Found => frames[t][i].obj \in Objects
       /\ frames[t][i].pc \in BeforeEntry => frames[t][i].params \in Params

\* The calls keep their types and their order.
LEMMA FramesStep ==
  Typed /\ OuterInv /\ [Next]_vars => FramesTyped' /\ OuterInv'
<1> SUFFICES ASSUME Typed, OuterInv, [Next]_vars PROVE FramesTyped' /\ OuterInv'
  OBVIOUS
<1>0. FramesTyped
  BY DEF FramesTyped, Typed, TypeOK
<1>1. CASE UNCHANGED frames
  BY <1>0, <1>1 DEF FramesTyped, OuterInv
<1>2. ASSUME NEW t \in Threads, NEW f, Advance(t, f)
      PROVE  FramesTyped' /\ OuterInv'
  <2>1. Busy(t) /\ f \in Frame /\ frames' = WithTop(t, f)
    BY <1>2 DEF Advance
  <2>2. /\ frames' \in [Threads -> Seq(Frame)]
        /\ frames'[t][Len(frames[t])] = f /\ Len(frames'[t]) = Len(frames[t])
        /\ \A i \in DOMAIN frames'[t] :
             i \in DOMAIN frames[t] /\ (i # Len(frames[t]) => frames'[t][i] = frames[t][i])
        /\ \A u \in Threads : u # t => frames'[u] = frames[u]
    BY <2>1, TopReplaced DEF Top
  <2>3. FramesTyped'
    BY <1>0, <1>2, <2>2 DEF FramesTyped, Advance
  <2> QED BY <2>2, <2>3 DEF OuterInv
<1>3. ASSUME NEW t \in Threads, Busy(t), frames' = Popped(t)
      PROVE  FramesTyped' /\ OuterInv'
  <2>1. /\ frames' \in [Threads -> Seq(Frame)]
        /\ \A i \in DOMAIN frames'[t] : i \in DOMAIN frames[t] /\ i # Len(frames[t])
                                        /\ frames'[t][i] = frames[t][i]
        /\ \A u \in Threads : u # t => frames'[u] = frames[u]
    BY <1>3, TopGone
  <2>2. FramesTyped'
    BY <1>0, <2>1 DEF FramesTyped
  <2>3. \A i \in DOMAIN frames'[t] : frames'[t][i].pc = "run" /\ ~frames'[t][i].alone
    BY <2>1 DEF OuterInv
  <2> QED BY <2>1, <2>2, <2>3 DEF OuterInv
<1>4. ASSUME NEW t \in Threads, NEW s \in Sessions, NEW target \in Names \cup Objects,
             NEW params \in Params, Call(t, s, target, params)
      PROVE  FramesTyped' /\ OuterInv'
  <2> DEFINE n == Len(frames'[t])
  <2>1. /\ frames' \in [Threads -> Seq(Frame)]
        /\ frames'[t][n].pc = "name" /\ frames'[t][n].params \in Params
        /\ \A i \in DOMAIN frames'[t] :
             i # n =>
               /\ frames'[t][i].pc = "run" /\ ~frames'[t][i].alone
               /\ i \in DOMAIN frames[t] /\ frames'[t][i].obj = frames[t][i].obj
        /\ \A u \in Threads : u # t => frames'[u] = frames[u]
    <3>1. /\ Top(t)' = [pc |-> "name", obj |-> target, session |-> s, params |-> params,
                        alone |-> TRUE]
          /\ frames' \in [Threads -> Seq(Frame)]
          /\ \A i \in DOMAIN frames'[t] :
               i # Len(frames'[t]) =>
                 /\ frames'[t][i].pc = "run" /\ ~frames'[t][i].alone
                 /\ i \in DOMAIN frames[t] /\ frames'[t][i].obj = frames[t][i].obj
          /\ \A u \in Threads : u # t => frames'[u] = frames[u]
      BY <1>4, CallBegins
    <3>2. Top(t)' = frames'[t][n]
      BY DEF Top
    <3>3. Top(t)'.pc = "name" /\ Top(t)'.params \in Params
      BY <3>1
    <3> QED BY <3>1, <3>2, <3>3
  <2>2. Len(frames[t]) = n - 1 /\ n - 1 \in Nat /\ Depth(t) = n - 1
    BY <1>4, CallBegins DEF Typed, TypeOK
  <2>3. \A i \in DOMAIN frames[t] : frames[t][i].pc = "run"
    <3>1. CASE Busy(t)
      <4>1. Top(t).pc = "run"
        BY <1>4, <3>1 DEF Call
      <4> QED BY <4>1 DEF OuterInv, Top
    <3>2. CASE ~Busy(t)
      BY <3>2 DEF Busy
    <3> QED BY <3>1, <3>2
  <2>4. \A i \in DOMAIN frames[t] : frames[t][i].obj \in Objects
    BY <1>0, <2>3 DEF FramesTyped, Found
  <2>5. \A i \in DOMAIN frames'[t] :
          /\ frames'[t][i].pc \in Found => frames'[t][i].obj \in Objects
          /\ frames'[t][i].pc \in BeforeEntry => frames'[t][i].params \in Params
    <3> HIDE DEF n
    <3> QED BY <2>1, <2>4 DEF Found, BeforeEntry
  <2>6. FramesTyped'
    BY <1>0, <2>1, <2>5 DEF FramesTyped
  <2> QED BY <2>1, <2>6 DEF OuterInv
<1>5. CASE SetId \/ \E o \in Objects : RemoveObject(o) \/ \E n \in Names : SetName(n, o)
  BY <1>1, <1>5 DEF SetId, RemoveObject, SetName
<1>6. CASE UNCHANGED vars
  BY <1>1, <1>6 DEF vars
<1> QED
  BY NextCases, ServeFrames, <1>2, <1>3, <1>4, <1>5, <1>6

\* Every step keeps the types.  That the current object is one needs DepthInv.
LEMMA TypeStep ==
  Typed /\ OuterInv /\ DepthInv /\ SessionInv /\ [Next]_vars => Typed'
<1> SUFFICES ASSUME Typed, OuterInv, DepthInv, SessionInv, [Next]_vars PROVE Typed'
  OBVIOUS
<1>0. FramesTyped'
  BY FramesStep
<1> DEFINE Rest ==
      /\ live \subseteq Objects
      /\ byName \in [Names -> Objects \cup {Null}]
      /\ byId \subseteq Objects
      /\ adding \in Objects \cup {Null}
      /\ cache \in [Objects -> Params \cup {Null}]
      /\ current \in [Threads -> Seq(Objects)]
      /\ loaded \in [Threads -> Sessions \cup {Null}]
      /\ local \in [Sessions -> SUBSET Objects]
      /\ holder \in [Sessions -> Threads \cup {Null}]
      /\ aborted \in BOOLEAN
<1>r. Rest
  BY DEF Typed, TypeOK
<1>1. ASSUME SetId \/ UNCHANGED vars PROVE Rest'
  BY <1>r, <1>1 DEF SetId, vars
<1>2. ASSUME NEW o \in Objects, RemoveObject(o) PROVE Rest'
  BY <1>r, <1>2 DEF RemoveObject, NamesWithout
<1>3. ASSUME NEW o \in Objects, NEW n \in Names, SetName(n, o) PROVE Rest'
  BY <1>r, <1>3 DEF SetName
<1>4. ASSUME NEW t \in Threads, NEW s \in Sessions, NEW target, NEW params,
             Call(t, s, target, params)
      PROVE  Rest'
  BY <1>r, <1>4 DEF Call, Loaded
<1>5. ASSUME NEW t \in Threads, FindName(t) \/ FindId(t) PROVE Rest'
  BY <1>r, <1>5 DEF FindName, FindId
<1>6. ASSUME NEW t \in Threads, Invoke(t) PROVE Rest'
  <2> DEFINE o == Top(t).obj
  <2>1. o \in Objects /\ Top(t).params \in Params
    BY <1>6, InvokeFrame
  <2>2. \/ UNCHANGED <<cache, current>>
        \/ /\ cache' = [cache EXCEPT ![o] = IF @ = Null THEN Top(t).params ELSE @]
           /\ current' = [current EXCEPT ![t] = Append(@, o)]
    BY <1>6 DEF Invoke, CacheKey, Pushed
  <2>3. UNCHANGED <<live, byName, byId, adding, loaded, local, holder, aborted>>
    BY <1>6 DEF Invoke
  <2> HIDE DEF o
  <2>4. Append(current[t], o) \in Seq(Objects)
    BY <1>r, <2>1
  <2>5. current' \in [Threads -> Seq(Objects)] /\ cache' \in [Objects -> Params \cup {Null}]
    BY <1>r, <2>1, <2>2, <2>4
  <2> QED BY <1>r, <2>3, <2>5
<1>7. ASSUME NEW t \in Threads, Lock(t) \/ Get(t) \/ Create(t) PROVE Rest'
  <2>1. Busy(t) /\ Top(t).pc \in Entered
    BY <1>7, LocalFrame DEF Entered
  <2>2. loaded[t] \in Sessions
    BY <2>1 DEF SessionInv
  <2>3. current[t] \in Seq(Objects) /\ current[t] # <<>>
    <3>1. Len(current[t]) # 0
      BY <2>1, TopFrame DEF DepthInv, Depth
    <3> QED BY <1>r, <3>1
  <2>4. Head(current[t]) \in Objects
    BY <2>3, HeadTailProperties
  <2>5. CASE Lock(t)
    BY <1>r, <2>2, <2>5 DEF Lock
  <2>6. CASE Get(t)
    BY <1>r, <2>2, <2>6 DEF Get, Unlocked
  <2>7. CASE Create(t)
    BY <1>r, <2>2, <2>4, <2>7 DEF Create
  <2> QED BY <1>7, <2>5, <2>6, <2>7
<1>8. ASSUME NEW t \in Threads, Return(t) PROVE Rest'
  <2>1. Busy(t) /\ Top(t).pc \in Entered
    BY <1>8 DEF Return, At, Entered
  <2>2. current[t] \in Seq(Objects) /\ current[t] # <<>>
    <3>1. Len(current[t]) # 0
      BY <2>1, TopFrame DEF DepthInv, Depth
    <3> QED BY <1>r, <3>1
  <2>3. Tail(current[t]) \in Seq(Objects)
    BY <2>2, HeadTailProperties
  <2> QED BY <1>r, <1>8, <2>3 DEF Return, CurrentPopped
<1>9. Rest'
  BY NextCases, <1>r, <1>1, <1>2, <1>3, <1>4, <1>5, <1>6, <1>7, <1>8
<1> QED BY <1>0, <1>9 DEF Typed, TypeOK, FramesTyped

-----------------------------------------------------------------------------
(* The context of the calls.                                               *)

\* A thread's step leaves the calls and the context of the others alone.
LEMMA Others ==
  ASSUME Typed, OuterInv, NEW t \in Threads,
         \/ \E s \in Sessions, target \in Names \cup Objects, params \in Params :
              Call(t, s, target, params)
         \/ FindName(t) \/ FindId(t) \/ Invoke(t) \/ Lock(t) \/ Get(t) \/ Create(t)
         \/ Return(t)
  PROVE  \A u \in Threads : u # t =>
           frames'[u] = frames[u] /\ current'[u] = current[u] /\ loaded'[u] = loaded[u]
<1>1. /\ frames \in [Threads -> Seq(Frame)]
      /\ current \in [Threads -> Seq(Objects)]
      /\ loaded \in [Threads -> Sessions \cup {Null}]
  BY DEF Typed, TypeOK
<1>2. \A u \in Threads : u # t => current'[u] = current[u] /\ loaded'[u] = loaded[u]
  BY <1>1 DEF Call, FindName, FindId, Invoke, Lock, Get, Create, Return
<1>3. CASE \E s \in Sessions, target \in Names \cup Objects, params \in Params :
             Call(t, s, target, params)
  BY <1>1, <1>2, <1>3 DEF Call
<1>4. CASE FindName(t) \/ FindId(t) \/ Invoke(t) \/ Lock(t) \/ Get(t) \/ Create(t) \/ Return(t)
  <2>1. Busy(t) /\ (frames' = Popped(t) \/ \E f : Advance(t, f))
    BY <1>4, ServeFrames
  <2>2. frames' = Popped(t) \/ \E f : frames' = WithTop(t, f)
    BY <2>1 DEF Advance
  <2> QED BY <1>1, <1>2, <2>2 DEF Popped, WithTop
<1> QED BY <1>3, <1>4

\* The registry and a stutter leave all calls alone.
LEMMA Registering ==
  ASSUME \/ SetId
         \/ \E o \in Objects : RemoveObject(o) \/ \E n \in Names : SetName(n, o)
         \/ UNCHANGED vars
  PROVE  UNCHANGED <<cache, frames, current, loaded, local, holder, aborted>>
BY DEF SetId, RemoveObject, SetName, vars

\* A call that is over leaves the functions of the calls around it.
LEMMA PoppedDepth ==
  ASSUME Typed, OuterInv, NEW t \in Threads, Busy(t), frames' = Popped(t)
  PROVE  Depth(t)' = Len(frames[t]) - 1
<1>1. /\ Len(frames[t]) \in Nat \ {0} /\ Len(frames'[t]) = Len(frames[t]) - 1
      /\ Busy(t)' => Top(t)'.pc = "run"
      /\ Len(frames[t]) # 1 => Busy(t)'
  BY TopGone, TopFrame
<1>2. ~Busy(t)' => Len(frames[t]) = 1
  BY <1>1
<1>3. CASE Busy(t)'
  BY <1>1, <1>3 DEF Depth, Entered
<1>4. CASE ~Busy(t)'
  <2>1. Depth(t)' = 0
    BY <1>4 DEF Depth
  <2> QED BY <1>2, <1>4, <2>1
<1> QED BY <1>3, <1>4

\* A call that goes on is the innermost one still.
LEMMA AdvancedDepth ==
  ASSUME Typed, NEW t \in Threads, NEW f, Advance(t, f)
  PROVE  /\ Busy(t)' /\ Top(t)' = f /\ Len(frames'[t]) = Len(frames[t])
         /\ Depth(t)' = IF f.pc \in Entered THEN Len(frames[t]) ELSE Len(frames[t]) - 1
<1>1. Busy(t) /\ f \in Frame /\ frames' = WithTop(t, f)
  BY DEF Advance
<1>2. Busy(t)' /\ Top(t)' = f /\ Len(frames'[t]) = Len(frames[t])
  BY <1>1, TopReplaced
<1> QED BY <1>2 DEF Depth

\* A function is noted as current when it is entered and forgotten when it
\* returns, and a call that fails before is neither.
LEMMA DepthStep ==
  Typed /\ OuterInv /\ DepthInv /\ [Next]_vars => DepthInv'
<1> SUFFICES ASSUME Typed, OuterInv, DepthInv, [Next]_vars PROVE DepthInv'
  OBVIOUS
<1>0. /\ current \in [Threads -> Seq(Objects)]
      /\ frames \in [Threads -> Seq(Frame)]
  BY DEF Typed, TypeOK
<1>1. CASE UNCHANGED <<cache, frames, current, loaded, local, holder, aborted>>
  BY <1>1 DEF DepthInv, Depth, Busy, Top
<1>2. ASSUME NEW t \in Threads, Len(current'[t]) = Depth(t)',
             \A u \in Threads : u # t =>
               frames'[u] = frames[u] /\ current'[u] = current[u] /\ loaded'[u] = loaded[u]
      PROVE  DepthInv'
  <2>1. \A u \in Threads : u # t => Depth(u)' = Depth(u)
    BY <1>2 DEF Depth, Busy, Top
  <2> QED BY <1>2, <2>1 DEF DepthInv
<1>3. ASSUME NEW t \in Threads, NEW s \in Sessions, NEW target \in Names \cup Objects,
             NEW params \in Params, Call(t, s, target, params)
      PROVE  Len(current'[t]) = Depth(t)'
  <2> DEFINE new == [pc |-> "name", obj |-> target, session |-> s, params |-> params,
                     alone |-> TRUE]
  <2>1. /\ Busy(t)' /\ Top(t)' = new /\ Len(frames'[t]) = Len(frames[t]) + 1
        /\ Depth(t) = Len(frames[t])
    BY <1>3, CallBegins
  <2>2. new.pc \notin Entered
    BY DEF Entered
  <2>3. Depth(t)' = Len(frames'[t]) - 1
    BY <2>1, <2>2 DEF Depth
  <2>4. current' = current /\ Len(frames[t]) \in Nat
    BY <1>0, <1>3 DEF Call
  <2> QED BY <2>1, <2>3, <2>4 DEF DepthInv
<1>4. ASSUME NEW t \in Threads, FindName(t) PROVE Len(current'[t]) = Depth(t)'
  <2>1. PICK f : Advance(t, f) /\ f.pc \in {"invoke", "id"}
    BY <1>4, FindNameFrame
  <2>2. Busy(t) /\ Top(t).pc = "name" /\ current' = current
    BY <1>4 DEF FindName, At
  <2> QED BY <2>1, <2>2, AdvancedDepth DEF DepthInv, Depth, Entered
<1>5. ASSUME NEW t \in Threads, FindId(t) PROVE Len(current'[t]) = Depth(t)'
  <2>1. Busy(t) /\ Top(t).pc = "id" /\ current' = current
    BY <1>5 DEF FindId, At
  <2>2. Len(current[t]) = Len(frames[t]) - 1
    BY <2>1 DEF DepthInv, Depth, Entered
  <2>3. CASE frames' = Popped(t)
    BY <2>1, <2>2, <2>3, PoppedDepth
  <2>4. ASSUME NEW f, Advance(t, f), f.pc = "invoke" PROVE Len(current'[t]) = Depth(t)'
    BY <2>1, <2>2, <2>4, AdvancedDepth DEF Entered
  <2> QED BY <1>5, <2>3, <2>4, FindIdFrame
<1>6. ASSUME NEW t \in Threads, Invoke(t) PROVE Len(current'[t]) = Depth(t)'
  <2>1. Busy(t) /\ Top(t).pc = "invoke" /\ Top(t).obj \in Objects
    BY <1>6, InvokeFrame
  <2>2. Len(current[t]) = Len(frames[t]) - 1 /\ Len(frames[t]) \in Nat
    BY <1>0, <2>1 DEF DepthInv, Depth, Entered
  <2>3. CASE ~ProtoEquals(Proto[Top(t).obj], Top(t).params)
    <3>1. frames' = Popped(t) /\ current' = current
      BY <1>6, <2>3, InvokeFrame
    <3> QED BY <2>1, <2>2, <3>1, PoppedDepth
  <2>4. CASE ProtoEquals(Proto[Top(t).obj], Top(t).params)
    <3>1. PICK f : Advance(t, f) /\ f.pc = "run"
      BY <1>6, <2>4, InvokeFrame
    <3>2. current'[t] = Append(current[t], Top(t).obj)
      BY <1>0, <1>6, <2>4 DEF Invoke, Pushed
    <3>3. Len(current'[t]) = Len(current[t]) + 1
      BY <1>0, <2>1, <3>2
    <3> QED BY <2>2, <3>1, <3>3, AdvancedDepth DEF Entered
  <2> QED BY <2>3, <2>4
<1>7. ASSUME NEW t \in Threads, Lock(t) \/ Get(t) \/ Create(t)
      PROVE  Len(current'[t]) = Depth(t)'
  <2>1. Busy(t) /\ Top(t).pc \in Entered
    BY <1>7, LocalFrame DEF Entered
  <2>2. PICK f : Advance(t, f) /\ f.pc \in Entered
    BY <1>7, LocalFrame
  <2>3. current' = current
    BY <1>7 DEF Lock, Get, Create
  <2> QED BY <2>1, <2>2, <2>3, AdvancedDepth DEF DepthInv, Depth
<1>8. ASSUME NEW t \in Threads, Return(t) PROVE Len(current'[t]) = Depth(t)'
  <2>1. /\ Busy(t) /\ Top(t).pc \in Entered /\ frames' = Popped(t)
        /\ current'[t] = Tail(current[t])
    BY <1>0, <1>8 DEF Return, At, Entered, CurrentPopped
  <2>2. Len(current[t]) = Len(frames[t]) /\ Len(frames[t]) \in Nat \ {0}
    BY <2>1, TopFrame DEF DepthInv, Depth
  <2>3. Len(Tail(current[t])) = Len(current[t]) - 1
    <3>1. current[t] \in Seq(Objects) /\ current[t] # <<>>
      BY <1>0, <2>2
    <3> QED BY <3>1, HeadTailProperties
  <2> QED BY <2>1, <2>2, <2>3, PoppedDepth
<1> QED
  BY NextCases, Registering, Others, <1>1, <1>2, <1>3, <1>4, <1>5, <1>6, <1>7, <1>8

\* A call begins with its session's table and ends with its frame; an outer call
\* that goes on has made a call.
LEMMA SessionStep ==
  Typed /\ OuterInv /\ SessionInv /\ [Next]_vars => SessionInv'
<1> SUFFICES ASSUME Typed, OuterInv, SessionInv, [Next]_vars PROVE SessionInv'
  OBVIOUS
<1>0. loaded \in [Threads -> Sessions \cup {Null}]
  BY DEF Typed, TypeOK
<1>1. CASE UNCHANGED <<cache, frames, current, loaded, local, holder, aborted>>
  BY <1>1 DEF SessionInv, Busy, Top
<1> DEFINE Own(t) == Busy(t) => /\ loaded[t] \in Sessions
                                /\ Top(t).alone => loaded[t] = Top(t).session
<1>2. ASSUME NEW t \in Threads, Own(t)',
             \A u \in Threads : u # t =>
               frames'[u] = frames[u] /\ current'[u] = current[u] /\ loaded'[u] = loaded[u]
      PROVE  SessionInv'
  <2>1. \A u \in Threads : u # t => (Own(u)' <=> Own(u))
    BY <1>2 DEF Busy, Top
  <2>2. \A u \in Threads : Own(u)'
    BY <1>2, <2>1 DEF SessionInv
  <2> QED BY <2>2 DEF SessionInv
<1>3. ASSUME NEW t \in Threads, NEW s \in Sessions, NEW target \in Names \cup Objects,
             NEW params \in Params, Call(t, s, target, params)
      PROVE  Own(t)'
  <2>1. Top(t)' = [pc |-> "name", obj |-> target, session |-> s, params |-> params,
                   alone |-> TRUE]
    BY <1>3, CallBegins
  <2>2. loaded'[t] = s
    BY <1>0, <1>3 DEF Call, Loaded
  <2> QED BY <2>1, <2>2
<1>4. ASSUME NEW t \in Threads,
             FindName(t) \/ FindId(t) \/ Invoke(t) \/ Lock(t) \/ Get(t) \/ Create(t) \/ Return(t)
      PROVE  Own(t)'
  <2>1. loaded' = loaded /\ Busy(t)
    BY <1>4, ServeFrames DEF FindName, FindId, Invoke, Lock, Get, Create, Return
  <2>2. CASE frames' = Popped(t)
    <3>1. Busy(t)' => ~Top(t)'.alone
      BY <2>1, <2>2, TopGone
    <3> QED BY <2>1, <3>1 DEF SessionInv
  <2>3. ASSUME NEW f, Advance(t, f) PROVE Own(t)'
    <3>1. Top(t)' = f /\ f.session = Top(t).session /\ f.alone = Top(t).alone
      BY <2>3, AdvancedDepth DEF Advance
    <3> QED BY <2>1, <3>1 DEF SessionInv
  <2> QED BY <1>4, <2>2, <2>3, ServeFrames
<1> HIDE DEF Own
<1> QED
  BY NextCases, Registering, Others, <1>1, <1>2, <1>3, <1>4

\* The outermost call enters its function with an empty queue of current objects.
LEMMA HeadStep ==
  Typed /\ OuterInv /\ DepthInv /\ HeadInv /\ [Next]_vars => HeadInv'
<1> SUFFICES ASSUME Typed, OuterInv, DepthInv, HeadInv, [Next]_vars PROVE HeadInv'
  OBVIOUS
<1>0. current \in [Threads -> Seq(Objects)]
  BY DEF Typed, TypeOK
<1>1. CASE UNCHANGED <<cache, frames, current, loaded, local, holder, aborted>>
  BY <1>1 DEF HeadInv, Busy, Top
<1> DEFINE First(t) == Busy(t) /\ Top(t).alone /\ Top(t).pc \in Entered /\ Len(frames[t]) = 1
                         => Head(current[t]) = Top(t).obj
<1>2. ASSUME NEW t \in Threads, First(t)',
             \A u \in Threads : u # t =>
               frames'[u] = frames[u] /\ current'[u] = current[u] /\ loaded'[u] = loaded[u]
      PROVE  HeadInv'
  <2>1. \A u \in Threads : u # t => (First(u)' <=> First(u))
    BY <1>2 DEF Busy, Top
  <2>2. \A u \in Threads : First(u)'
    BY <1>2, <2>1 DEF HeadInv
  <2> QED BY <2>2 DEF HeadInv
<1>3. ASSUME NEW t \in Threads, NEW s \in Sessions, NEW target \in Names \cup Objects,
             NEW params \in Params, Call(t, s, target, params)
      PROVE  First(t)'
  <2>1. Top(t)' = [pc |-> "name", obj |-> target, session |-> s, params |-> params,
                   alone |-> TRUE]
    BY <1>3, CallBegins
  <2>2. Top(t)'.pc \notin Entered
    BY <2>1 DEF Entered
  <2> QED BY <2>2
<1>4. ASSUME NEW t \in Threads, Busy(t), frames' = Popped(t) PROVE First(t)'
  BY <1>4, TopGone
<1>5. ASSUME NEW t \in Threads, FindName(t) PROVE First(t)'
  <2>1. PICK f : Advance(t, f) /\ f.pc \in {"invoke", "id"}
    BY <1>5, FindNameFrame
  <2> QED BY <2>1, AdvancedDepth DEF Entered
<1>6. ASSUME NEW t \in Threads, NEW f, Advance(t, f), f.pc = "invoke" PROVE First(t)'
  BY <1>6, AdvancedDepth DEF Entered
<1>7. ASSUME NEW t \in Threads, Invoke(t), ProtoEquals(Proto[Top(t).obj], Top(t).params)
      PROVE  First(t)'
  <2>1. PICK f : Advance(t, f) /\ f.obj = Top(t).obj
    BY <1>7, InvokeFrame
  <2>2. Top(t)'.obj = Top(t).obj /\ Len(frames'[t]) = Len(frames[t])
    BY <2>1, AdvancedDepth
  <2>3. Busy(t) /\ Top(t).pc = "invoke" /\ Top(t).obj \in Objects
    BY <1>7, InvokeFrame
  <2>4. Len(frames[t]) = 1 => current[t] = <<>>
    <3>1. Len(current[t]) = Len(frames[t]) - 1
      BY <2>3 DEF DepthInv, Depth, Entered
    <3> QED BY <1>0, <3>1
  <2>5. current'[t] = Append(current[t], Top(t).obj)
    BY <1>0, <1>7 DEF Invoke, Pushed
  <2>6. current[t] = <<>> => Head(current'[t]) = Top(t).obj
    BY <2>3, <2>5
  <2> QED BY <2>2, <2>4, <2>6
<1>8. ASSUME NEW t \in Threads, Lock(t) \/ Get(t) \/ Create(t) PROVE First(t)'
  <2>1. Busy(t) /\ Top(t).pc \in Entered
    BY <1>8, LocalFrame DEF Entered
  <2>2. PICK f : Advance(t, f) /\ f.obj = Top(t).obj
    BY <1>8, LocalFrame
  <2>3. current' = current
    BY <1>8 DEF Lock, Get, Create
  <2>4. Top(t)' = f /\ f.alone = Top(t).alone /\ Len(frames'[t]) = Len(frames[t])
    BY <2>2, AdvancedDepth DEF Advance
  <2> QED BY <2>1, <2>2, <2>3, <2>4 DEF HeadInv
<1>9. ASSUME NEW t \in Threads, Return(t) PROVE First(t)'
  BY <1>4, <1>9 DEF Return, At
<1>10. ASSUME NEW t \in Threads, FindId(t) PROVE First(t)'
  BY <1>4, <1>6, <1>10, FindIdFrame
<1>11. ASSUME NEW t \in Threads, Invoke(t) PROVE First(t)'
  BY <1>4, <1>7, <1>11, InvokeFrame
<1> HIDE DEF First
<1> QED
  BY NextCases, Registering, Others, <1>1, <1>2, <1>3, <1>5, <1>8, <1>9, <1>10, <1>11

-----------------------------------------------------------------------------
(* Local objects.                                                          *)

\* A thread in the loop of rpc_lobject_get.
InLoop(t) == Busy(t) /\ Top(t).pc \in {"get", "create"}

\* The loop is only entered by Lock, and left by Get.
LEMMA LoopSteps ==
  ASSUME Typed, OuterInv, NEW t \in Threads,
         \/ \E s \in Sessions, target \in Names \cup Objects, params \in Params :
              Call(t, s, target, params)
         \/ FindName(t) \/ FindId(t) \/ Invoke(t) \/ Return(t)
  PROVE  ~InLoop(t)'
<1>1. ASSUME NEW s \in Sessions, NEW target \in Names \cup Objects, NEW params \in Params,
             Call(t, s, target, params)
      PROVE  ~InLoop(t)'
  <2>1. Top(t)' = [pc |-> "name", obj |-> target, session |-> s, params |-> params,
                   alone |-> TRUE]
    BY <1>1, CallBegins
  <2>2. Top(t)'.pc = "name"
    BY <2>1
  <2> QED BY <2>2 DEF InLoop
<1>2. ASSUME Busy(t), frames' = Popped(t) PROVE ~InLoop(t)'
  BY <1>2, TopGone DEF InLoop
<1>3. ASSUME NEW f, Advance(t, f), f.pc \in {"invoke", "id", "run"} PROVE ~InLoop(t)'
  BY <1>3, AdvancedDepth DEF InLoop
<1>4. CASE FindName(t)
  BY <1>3, <1>4, FindNameFrame
<1>5. CASE FindId(t)
  BY <1>2, <1>3, <1>5, FindIdFrame
<1>6. CASE Invoke(t)
  BY <1>2, <1>3, <1>6, InvokeFrame
<1>7. CASE Return(t)
  BY <1>2, <1>7 DEF Return, At
<1> QED BY <1>1, <1>4, <1>5, <1>6, <1>7

\* Where a step of the loop goes.
LEMMA LocalSteps ==
  ASSUME Typed, NEW t \in Threads, Lock(t) \/ Get(t) \/ Create(t)
  PROVE  /\ Busy(t)'
         /\ Lock(t) \/ Create(t) => Top(t)'.pc = "get"
         /\ Get(t) => Top(t)'.pc = IF Head(current[t]) \in local[loaded[t]] THEN "run" ELSE "create"
<1>1. Busy(t)
  BY LocalFrame
<1>2. Top(t) \in Frame
  BY <1>1, TopFrame
<1>3. ASSUME NEW pc \in Steps, frames' = Goto(t, pc)
      PROVE  Busy(t)' /\ Top(t)'.pc = pc
  <2> DEFINE f == [Top(t) EXCEPT !.pc = pc]
  <2>1. f \in Frame /\ f.pc = pc /\ frames' = WithTop(t, f)
    BY <1>2, <1>3 DEF Frame, Goto
  <2> HIDE DEF f
  <2> QED BY <1>1, <2>1, TopReplaced
<1>4. ASSUME Lock(t) \/ Create(t) PROVE Busy(t)' /\ Top(t)'.pc = "get"
  BY <1>3, <1>4 DEF Lock, Create, Steps
<1>5. ASSUME Get(t)
      PROVE  Busy(t)' /\ Top(t)'.pc = IF Head(current[t]) \in local[loaded[t]] THEN "run" ELSE "create"
  BY <1>3, <1>5 DEF Get, Steps
<1> QED BY <1>4, <1>5

\* The lock of a table has one holder: who is in the loop keeps it.
LEMMA HolderStep ==
  Typed /\ OuterInv /\ SessionInv /\ HolderInv /\ [Next]_vars => HolderInv'
<1> SUFFICES ASSUME Typed, OuterInv, SessionInv, HolderInv, [Next]_vars PROVE HolderInv'
  OBVIOUS
<1>0. /\ holder \in [Sessions -> Threads \cup {Null}]
      /\ Null \notin Threads
  BY CallsAssumption DEF Typed, TypeOK
<1>1. CASE UNCHANGED <<cache, frames, current, loaded, local, holder, aborted>>
  BY <1>1 DEF HolderInv, Busy, Top
<1>2. ASSUME NEW t \in Threads, InLoop(t)' => holder'[loaded'[t]] = t,
             \A u \in Threads : u # t =>
               frames'[u] = frames[u] /\ current'[u] = current[u] /\ loaded'[u] = loaded[u],
             \A u \in Threads : u # t /\ InLoop(u) => holder'[loaded[u]] = u
      PROVE  HolderInv'
  <2>1. \A u \in Threads : u # t => (InLoop(u)' <=> InLoop(u))
    BY <1>2 DEF InLoop, Busy, Top
  <2> QED BY <1>2, <2>1 DEF HolderInv, InLoop
<1>3. ASSUME NEW t \in Threads,
             \/ \E s \in Sessions, target \in Names \cup Objects, params \in Params :
                  Call(t, s, target, params)
             \/ FindName(t) \/ FindId(t) \/ Invoke(t) \/ Return(t)
      PROVE  HolderInv'
  <2>1. ~InLoop(t)'
    BY <1>3, LoopSteps
  <2>2. holder' = holder
    BY <1>3 DEF Call, FindName, FindId, Invoke, Return
  <2>3. \A u \in Threads : u # t =>
          frames'[u] = frames[u] /\ current'[u] = current[u] /\ loaded'[u] = loaded[u]
    BY <1>3, Others
  <2>4. \A u \in Threads : u # t /\ InLoop(u) => holder'[loaded[u]] = u
    BY <2>2 DEF HolderInv, InLoop
  <2> QED BY <1>2, <2>1, <2>3, <2>4
<1>4. ASSUME NEW t \in Threads, Lock(t) \/ Get(t) \/ Create(t) PROVE HolderInv'
  <2>1. /\ Busy(t) /\ loaded[t] \in Sessions /\ loaded' = loaded
    BY <1>4, LocalFrame DEF SessionInv, Lock, Get, Create
  <2>2. \A u \in Threads : u # t =>
          frames'[u] = frames[u] /\ current'[u] = current[u] /\ loaded'[u] = loaded[u]
    BY <1>4, Others
  <2>3. CASE Lock(t)
    <3>1. holder[loaded[t]] \in {Null, t} /\ holder' = [holder EXCEPT ![loaded[t]] = t]
      BY <2>3 DEF Lock, MayLock
    <3>2. \A u \in Threads : u # t /\ InLoop(u) => holder'[loaded[u]] = u
      BY <1>0, <2>1, <3>1 DEF HolderInv, InLoop, SessionInv
    <3> QED BY <1>0, <1>2, <2>1, <2>2, <3>1, <3>2
  <2>4. CASE Get(t)
    <3>1. holder[loaded[t]] = t
      BY <2>1, <2>4 DEF Get, At, HolderInv
    <3>2. \A u \in Threads : u # t /\ InLoop(u) => loaded[u] # loaded[t] /\ holder[loaded[u]] = u
      BY <3>1 DEF HolderInv, InLoop
    <3>3. CASE Head(current[t]) \in local[loaded[t]]
      <4>1. holder' = [holder EXCEPT ![loaded[t]] = Null] /\ ~InLoop(t)'
        BY <2>4, <3>3, LocalSteps DEF Get, Unlocked, InLoop
      <4>2. \A u \in Threads : u # t /\ InLoop(u) => holder'[loaded[u]] = u
        BY <1>0, <3>2, <4>1 DEF SessionInv, InLoop
      <4> QED BY <1>2, <2>2, <4>1, <4>2
    <3>4. CASE Head(current[t]) \notin local[loaded[t]]
      <4>1. holder' = holder
        BY <2>4, <3>4 DEF Get
      <4> QED BY <1>2, <2>1, <2>2, <3>1, <3>2, <4>1
    <3> QED BY <3>3, <3>4
  <2>5. CASE Create(t)
    <3>1. holder[loaded[t]] = t /\ holder' = holder
      BY <2>1, <2>5 DEF Create, At, HolderInv
    <3>2. \A u \in Threads : u # t /\ InLoop(u) => holder'[loaded[u]] = u
      BY <3>1 DEF HolderInv, InLoop
    <3> QED BY <1>2, <2>1, <2>2, <3>1, <3>2
  <2> QED BY <1>4, <2>3, <2>4, <2>5
<1> QED
  BY NextCases, Registering, <1>1, <1>3, <1>4

\* Nobody else makes a local object in a table that is locked, and a function
\* that is running has a current object: the assertions hold.
LEMMA FreshStep ==
  Typed /\ OuterInv /\ DepthInv /\ SessionInv /\ HolderInv /\ FreshInv /\ LocalsAgree /\ [Next]_vars
    => FreshInv' /\ LocalsAgree'
<1> SUFFICES ASSUME Typed, OuterInv, DepthInv, SessionInv, HolderInv, FreshInv, LocalsAgree, [Next]_vars
             PROVE  FreshInv' /\ LocalsAgree'
  OBVIOUS
<1>0. local \in [Sessions -> SUBSET Objects] /\ current \in [Threads -> Seq(Objects)]
  BY DEF Typed, TypeOK
<1>1. CASE UNCHANGED <<cache, frames, current, loaded, local, holder, aborted>>
  BY <1>1 DEF FreshInv, LocalsAgree, Busy, Top
<1>2. ASSUME NEW t \in Threads,
             Busy(t)' /\ Top(t)'.pc = "create" => Head(current'[t]) \notin local'[loaded'[t]],
             \A u \in Threads : u # t =>
               frames'[u] = frames[u] /\ current'[u] = current[u] /\ loaded'[u] = loaded[u],
             \A u \in Threads : u # t /\ InLoop(u) => local'[loaded[u]] = local[loaded[u]]
      PROVE  FreshInv'
  <2>1. \A u \in Threads : u # t => (Busy(u)' <=> Busy(u)) /\ Top(u)' = Top(u)
    BY <1>2 DEF Busy, Top
  <2> QED BY <1>2, <2>1 DEF FreshInv, InLoop
<1>3. ASSUME NEW t \in Threads,
             \/ \E s \in Sessions, target \in Names \cup Objects, params \in Params :
                  Call(t, s, target, params)
             \/ FindName(t) \/ FindId(t) \/ Invoke(t) \/ Return(t)
      PROVE  FreshInv' /\ LocalsAgree'
  <2>1. ~InLoop(t)'
    BY <1>3, LoopSteps
  <2>2. local' = local /\ aborted' = aborted
    BY <1>3 DEF Call, FindName, FindId, Invoke, Return
  <2>3. \A u \in Threads : u # t =>
          frames'[u] = frames[u] /\ current'[u] = current[u] /\ loaded'[u] = loaded[u]
    BY <1>3, Others
  <2> QED BY <1>2, <2>1, <2>2, <2>3 DEF InLoop, LocalsAgree
<1>4. ASSUME NEW t \in Threads, Lock(t) \/ Get(t) \/ Create(t)
      PROVE  FreshInv' /\ LocalsAgree'
  <2>1. /\ loaded[t] \in Sessions /\ loaded' = loaded /\ current' = current
        /\ Busy(t) /\ Top(t).pc \in Entered
    BY <1>4, LocalFrame DEF SessionInv, Lock, Get, Create, Entered
  <2>2. \A u \in Threads : u # t =>
          frames'[u] = frames[u] /\ current'[u] = current[u] /\ loaded'[u] = loaded[u]
    BY <1>4, Others
  <2>3. CASE Lock(t)
    <3>1. current[t] # <<>>
      <4>1. Len(current[t]) # 0
        BY <2>1, TopFrame DEF DepthInv, Depth
      <4> QED BY <1>0, <4>1
    <3>2. local' = local /\ aborted' = (aborted \/ current[t] = <<>>) /\ Top(t)'.pc = "get"
      BY <2>3, LocalSteps DEF Lock
    <3> QED BY <1>2, <2>2, <3>1, <3>2 DEF LocalsAgree
  <2>4. CASE Get(t)
    <3>1. local' = local /\ aborted' = aborted
      BY <2>4 DEF Get
    <3>2. Top(t)'.pc = "create" => Head(current[t]) \notin local[loaded[t]]
      BY <2>4, LocalSteps
    <3> QED BY <1>2, <2>1, <2>2, <3>1, <3>2 DEF LocalsAgree
  <2>5. CASE Create(t)
    <3> DEFINE o == Head(current[t])
    <3>1. Top(t).pc = "create" /\ o \notin local[loaded[t]] /\ holder[loaded[t]] = t
      BY <2>1, <2>5 DEF Create, At, FreshInv, HolderInv
    <3>2. /\ aborted' = (aborted \/ o \in local[loaded[t]])
          /\ local' = [local EXCEPT ![loaded[t]] = @ \cup {o}]
          /\ Top(t)'.pc = "get"
      BY <2>5, LocalSteps DEF Create
    <3> HIDE DEF o
    <3>3. \A u \in Threads : u # t /\ InLoop(u) => local'[loaded[u]] = local[loaded[u]]
      <4>1. \A u \in Threads : u # t /\ InLoop(u) => loaded[u] # loaded[t] /\ loaded[u] \in Sessions
        BY <3>1 DEF HolderInv, InLoop, SessionInv
      <4> QED BY <1>0, <3>2, <4>1
    <3>4. FreshInv'
      BY <1>2, <2>2, <3>2, <3>3
    <3> QED BY <3>1, <3>2, <3>4 DEF LocalsAgree
  <2> QED BY <1>4, <2>3, <2>4, <2>5
<1> QED
  BY NextCases, Registering, <1>1, <1>3, <1>4

-----------------------------------------------------------------------------
(* The cache and the registry.                                             *)

\* The first call of a function fills its entry, with parameters that have been
\* compared with the prototype; entries stay.
LEMMA CacheStep ==
  Typed /\ OuterInv /\ CacheInv /\ [Next]_vars => CacheInv'
<1> SUFFICES ASSUME Typed, OuterInv, CacheInv, [Next]_vars PROVE CacheInv'
  OBVIOUS
<1>0. /\ cache \in [Objects -> Params \cup {Null}]
      /\ frames \in [Threads -> Seq(Frame)]
      /\ Null \notin Params
      /\ \A t \in Threads : \A i \in DOMAIN frames[t] :
           frames[t][i].pc \in Entered => frames[t][i].obj \in Objects
  BY CallsAssumption DEF Typed, TypeOK, Entered, Found
<1> DEFINE Has(u) == \A i \in DOMAIN frames[u] :
                       frames[u][i].pc \in Entered => cache[frames[u][i].obj] # Null
<1>1. CASE UNCHANGED <<cache, frames>>
  BY <1>1 DEF CacheInv
<1>2. ASSUME NEW t \in Threads, cache' = cache, Has(t)',
             \A u \in Threads : u # t => frames'[u] = frames[u]
      PROVE  CacheInv'
  <2>1. \A u \in Threads : u # t => (Has(u)' <=> Has(u))
    BY <1>2
  <2>2. \A u \in Threads : Has(u)'
    BY <1>2, <2>1 DEF CacheInv
  <2> QED BY <1>2, <2>2 DEF CacheInv
<1>3. ASSUME NEW t \in Threads, Busy(t), frames' = Popped(t), cache' = cache PROVE CacheInv'
  <2>1. /\ \A i \in DOMAIN frames'[t] : i \in DOMAIN frames[t] /\ frames'[t][i] = frames[t][i]
        /\ \A u \in Threads : u # t => frames'[u] = frames[u]
    BY <1>3, TopGone
  <2>2. Has(t)'
    BY <1>3, <2>1 DEF CacheInv
  <2> QED BY <1>2, <1>3, <2>1, <2>2
<1>4. ASSUME NEW t \in Threads, NEW f, Advance(t, f), cache' = cache,
             f.pc \in Entered => cache[f.obj] # Null
      PROVE  CacheInv'
  <2>1. Busy(t) /\ f \in Frame /\ frames' = WithTop(t, f)
    BY <1>4 DEF Advance
  <2>2. /\ frames'[t][Len(frames[t])] = f /\ Len(frames'[t]) = Len(frames[t])
        /\ \A i \in DOMAIN frames'[t] :
             i \in DOMAIN frames[t] /\ (i # Len(frames[t]) => frames'[t][i] = frames[t][i])
        /\ \A u \in Threads : u # t => frames'[u] = frames[u]
    BY <2>1, TopReplaced DEF Top
  <2>3. Has(t)'
    BY <1>4, <2>2 DEF CacheInv
  <2> QED BY <1>2, <1>4, <2>2, <2>3
<1>5. ASSUME NEW t \in Threads, NEW s \in Sessions, NEW target \in Names \cup Objects,
             NEW params \in Params, Call(t, s, target, params)
      PROVE  CacheInv'
  <2>1. /\ Top(t)' = [pc |-> "name", obj |-> target, session |-> s, params |-> params,
                      alone |-> TRUE]
        /\ \A i \in DOMAIN frames'[t] :
             i # Len(frames'[t]) =>
               i \in DOMAIN frames[t] /\ frames'[t][i].obj = frames[t][i].obj
        /\ \A u \in Threads : u # t => frames'[u] = frames[u]
    BY <1>5, CallBegins
  <2>2. frames'[t][Len(frames'[t])].pc \notin Entered
    BY <2>1 DEF Top, Entered
  <2>3. \A i \in DOMAIN frames[t] : frames[t][i].pc \in Entered
    <3>1. Busy(t) => Top(t).pc = "run"
      BY <1>5 DEF Call
    <3>2. \A i \in DOMAIN frames[t] : frames[t][i].pc = "run"
      BY <1>0, <3>1 DEF OuterInv, Top, Busy
    <3> QED BY <3>2 DEF Entered
  <2>4. cache' = cache
    BY <1>5 DEF Call
  <2>5. Has(t)'
    BY <2>1, <2>2, <2>3, <2>4 DEF CacheInv
  <2> QED BY <1>2, <2>1, <2>4, <2>5
<1>6. ASSUME NEW t \in Threads, FindName(t) \/ FindId(t) PROVE CacheInv'
  <2>1. cache' = cache
    BY <1>6 DEF FindName, FindId
  <2>2. \/ Busy(t) /\ frames' = Popped(t)
        \/ \E f : Advance(t, f) /\ f.pc \in {"invoke", "id"}
    BY <1>6, FindNameFrame, FindIdFrame
  <2> QED BY <1>3, <1>4, <2>1, <2>2 DEF Entered
<1>7. ASSUME NEW t \in Threads, Lock(t) \/ Get(t) \/ Create(t) PROVE CacheInv'
  <2>1. cache' = cache
    BY <1>7 DEF Lock, Get, Create
  <2>2. PICK f : Advance(t, f) /\ f.obj = Top(t).obj
    BY <1>7, LocalFrame
  <2>3. Top(t).pc \in Entered /\ Top(t) = frames[t][Len(frames[t])]
        /\ Len(frames[t]) \in DOMAIN frames[t]
    BY <1>7, LocalFrame, TopFrame DEF Top, Entered
  <2>4. cache[f.obj] # Null
    BY <2>2, <2>3 DEF CacheInv
  <2> QED BY <1>4, <2>1, <2>2, <2>4
<1>8. ASSUME NEW t \in Threads, Return(t) PROVE CacheInv'
  BY <1>3, <1>8 DEF Return, At
<1>9. ASSUME NEW t \in Threads, Invoke(t) PROVE CacheInv'
  <2> DEFINE o == Top(t).obj
  <2>1. Busy(t) /\ o \in Objects /\ Top(t).params \in Params
    BY <1>9, InvokeFrame
  <2>2. CASE ~ProtoEquals(Proto[o], Top(t).params)
    BY <1>3, <1>9, <2>1, <2>2, InvokeFrame
  <2>3. CASE ProtoEquals(Proto[o], Top(t).params)
    <3>1. PICK f : Advance(t, f) /\ f.pc = "run" /\ f.obj = o
      BY <1>9, <2>3, InvokeFrame
    <3>2. cache' = [cache EXCEPT ![o] = IF @ = Null THEN Top(t).params ELSE @]
      BY <1>9, <2>3 DEF Invoke, CacheKey
    <3>3. Busy(t) /\ f \in Frame /\ frames' = WithTop(t, f)
      BY <3>1 DEF Advance
    <3>4. /\ frames'[t][Len(frames[t])] = f /\ Len(frames'[t]) = Len(frames[t])
          /\ \A i \in DOMAIN frames'[t] :
               i \in DOMAIN frames[t] /\ (i # Len(frames[t]) => frames'[t][i] = frames[t][i])
          /\ \A u \in Threads : u # t => frames'[u] = frames[u]
      BY <3>3, TopReplaced DEF Top
    <3>5. IsPrefix(Proto[o], Top(t).params)
      BY <2>3 DEF ProtoEquals
    <3> HIDE DEF o
    <3>6. /\ cache'[o] # Null
          /\ \A p \in Objects : cache[p] # Null => cache'[p] = cache[p]
          /\ \A p \in Objects : cache'[p] # Null => IsPrefix(Proto[p], cache'[p])
      BY <1>0, <2>1, <3>2, <3>5 DEF CacheInv
    <3>7. Has(t)'
      BY <1>0, <3>1, <3>4, <3>6 DEF CacheInv
    <3>8. ASSUME NEW u \in Threads, u # t PROVE Has(u)'
      BY <1>0, <3>4, <3>6, <3>8 DEF CacheInv
    <3>9. \A u \in Threads : Has(u)'
      BY <3>7, <3>8
    <3> QED BY <3>6, <3>9 DEF CacheInv
  <2> QED BY <2>2, <2>3
<1> HIDE DEF Has
<1> QED
  BY NextCases, Registering, <1>1, <1>5, <1>6, <1>7, <1>8, <1>9

\* The two tables change together, but for the object that is being added.
LEMMA RegistryStep ==
  Typed /\ RegistryInv /\ [Next]_vars => RegistryInv'
<1> SUFFICES ASSUME Typed, RegistryInv, [Next]_vars PROVE RegistryInv'
  OBVIOUS
<1>0. /\ byName \in [Names -> Objects \cup {Null}]
      /\ byId \subseteq Objects
      /\ Null \notin Objects
  BY CallsAssumption DEF Typed, TypeOK
<1> USE DEF RegistryInv, RegistryAgrees
<1>1. CASE SetId
  BY <1>0, <1>1 DEF SetId
<1>2. ASSUME NEW o \in Objects, RemoveObject(o) PROVE RegistryInv'
  BY <1>0, <1>2 DEF RemoveObject, NamesWithout
<1>3. ASSUME NEW o \in Objects, NEW n \in Names, SetName(n, o) PROVE RegistryInv'
  <2>1. /\ adding = Null /\ o \in live /\ byName[n] = Null
        /\ byName' = [byName EXCEPT ![n] = o] /\ adding' = o
        /\ UNCHANGED <<live, byId>>
    BY <1>3 DEF SetName
  <2>2. \A m \in Names : m # n => byName'[m] = byName[m]
    BY <1>0, <2>1
  <2>3. byName'[n] = o
    BY <1>0, <2>1
  <2>4. \A m \in Names : byName'[m] # Null => byName'[m] \in live /\ byName'[m] \in byId \cup {o}
    BY <1>0, <2>1, <2>2, <2>3
  <2>5. \A p \in byId : \E m \in Names : byName'[m] = p
    BY <1>0, <2>1, <2>2
  <2> QED BY <2>1, <2>3, <2>4, <2>5
<1>4. ASSUME NEW t \in Threads,
             \/ \E s \in Sessions, target \in Names \cup Objects, params \in Params :
                  Call(t, s, target, params)
             \/ FindName(t) \/ FindId(t) \/ Invoke(t) \/ Lock(t) \/ Get(t) \/ Create(t)
             \/ Return(t)
      PROVE  RegistryInv'
  <2>1. UNCHANGED <<live, byName, byId, adding>>
    BY <1>4 DEF Call, FindName, FindId, Invoke, Lock, Get, Create, Return
  <2> QED BY <2>1
<1>5. CASE UNCHANGED vars
  BY <1>5 DEF vars
<1> QED BY NextCases, <1>1, <1>2, <1>3, <1>4, <1>5

-----------------------------------------------------------------------------
(* The theorems.                                                           *)

\* The invariant holds before any call.
LEMMA InvInit == Init => Inv
<1> SUFFICES ASSUME Init PROVE Inv
  OBVIOUS
<1> USE DEF Init
<1>1. \A t \in Threads : frames[t] = <<>> /\ current[t] = <<>> /\ ~Busy(t)
  BY DEF Busy
<1>2. \A t \in Threads : DOMAIN frames[t] = {}
  BY <1>1
<1>3. Typed
  <2>1. frames \in [Threads -> Seq(Frame)] /\ current \in [Threads -> Seq(Objects)]
    OBVIOUS
  <2> QED BY <1>2, <2>1 DEF Typed, TypeOK
<1>4. OuterInv /\ CacheInv
  BY <1>2 DEF OuterInv, CacheInv
<1>5. DepthInv
  BY <1>1 DEF DepthInv, Depth
<1>6. SessionInv /\ HeadInv /\ HolderInv /\ FreshInv
  BY <1>1 DEF SessionInv, HeadInv, HolderInv, FreshInv
<1>7. LocalsAgree /\ RegistryInv
  BY DEF LocalsAgree, RegistryInv, RegistryAgrees
<1> QED BY <1>3, <1>4, <1>5, <1>6, <1>7 DEF Inv

\* Every step keeps it.
LEMMA InvStep == Inv /\ [Next]_vars => Inv'
BY TypeStep, FramesStep, DepthStep, SessionStep, HeadStep, HolderStep, FreshStep, CacheStep,
   RegistryStep DEF Inv

\* So it always holds.
LEMMA InvAlways == Spec => []Inv
<1>1. Init => Inv
  BY InvInit
<1>2. Inv /\ [Next]_vars => Inv'
  BY InvStep
<1> QED BY <1>1, <1>2, PTL DEF Spec

\* Every variable has its type: whatever a call finds is an object, and a thread
\* that asks for a local object has a table and a current object.
THEOREM CallTypes == Spec => []TypeOK
<1>1. Inv => TypeOK
  BY DEF Inv, Typed
<1> QED BY <1>1, InvAlways, PTL

\* As many objects are noted as current as functions are running, at any depth
\* of nesting and after any failure (rpc_cobject_call).
THEOREM ContextBalances == Spec => []BalancedContext
<1>1. ASSUME Inv, NEW t \in Threads
      PROVE  Len(current[t]) = Cardinality({i \in DOMAIN frames[t] : frames[t][i].pc \in Entered})
  <2> DEFINE n == Len(frames[t])
             E == {i \in DOMAIN frames[t] : frames[t][i].pc \in Entered}
  <2>1. frames[t] \in Seq(Frame) /\ n \in Nat /\ DOMAIN frames[t] = 1 .. n
    BY <1>1 DEF Inv, Typed, TypeOK
  <2>2. \A i \in 1 .. n : i # n => i \in E
    BY <1>1, <2>1 DEF Inv, OuterInv, Entered
  <2>3. Len(current[t]) = Depth(t)
    BY <1>1 DEF Inv, DepthInv
  <2>4. CASE ~Busy(t)
    <3>1. E = {}
      BY <2>1, <2>4 DEF Busy
    <3> QED BY <2>3, <2>4, <3>1, FS_EmptySet DEF Depth
  <2>5. CASE Busy(t) /\ Top(t).pc \in Entered
    <3>1. n # 0
      BY <2>1, <2>5 DEF Busy
    <3>2. E = 1 .. n
      BY <2>1, <2>2, <2>5, <3>1 DEF Top
    <3>3. Cardinality(1 .. n) = n
      BY <2>1, <3>1, FS_Interval
    <3> QED BY <2>3, <2>5, <3>2, <3>3 DEF Depth
  <2>6. CASE Busy(t) /\ Top(t).pc \notin Entered
    <3>1. n # 0
      BY <2>1, <2>6 DEF Busy
    <3>2. n \notin E
      BY <2>6 DEF Top
    <3>3. E = 1 .. (n - 1)
      <4>1. \A i : i \in E => i \in 1 .. (n - 1)
        BY <2>1, <3>2
      <4>2. \A i : i \in 1 .. (n - 1) => i \in E
        BY <2>1, <2>2
      <4> QED BY <4>1, <4>2
    <3>4. Cardinality(1 .. (n - 1)) = n - 1
      BY <2>1, <3>1, FS_Interval
    <3> QED BY <2>3, <2>6, <3>3, <3>4 DEF Depth
  <2> QED BY <2>4, <2>5, <2>6
<1>2. Inv => BalancedContext
  BY <1>1 DEF BalancedContext
<1> QED BY <1>2, InvAlways, PTL

\* A function that has made no call of its own works on its session's local
\* objects and, at the outermost level, finds its own object.
THEOREM ContextIsOwn == Spec => []OwnContext
<1>1. Inv => OwnContext
  BY DEF Inv, SessionInv, HeadInv, OwnContext
<1> QED BY <1>1, InvAlways, PTL

\* The assertions of rpc_lobject_get hold, for any number of calls of one
\* session at a time.
THEOREM LocalsMadeOnce == Spec => []LocalsAgree
<1>1. Inv => LocalsAgree
  BY DEF Inv
<1> QED BY <1>1, InvAlways, PTL

\* Names and IDs lead to the same live objects.
THEOREM TablesAgree == Spec => []RegistryAgrees
<1>1. Inv => RegistryAgrees
  BY DEF Inv, RegistryInv
<1> QED BY <1>1, InvAlways, PTL

\* The function that is run gets types that begin with its own prototype.
THEOREM CacheIsRight == Spec => []CacheFits
<1>1. ASSUME Inv, NEW t \in Threads, At(t, "run")
      PROVE  /\ cache[CacheKey(Top(t).obj)] # Null
             /\ IsPrefix(Proto[Top(t).obj], cache[CacheKey(Top(t).obj)])
  <2>1. Busy(t) /\ Top(t).pc = "run"
    BY <1>1 DEF At
  <2>2. /\ Top(t) = frames[t][Len(frames[t])] /\ Len(frames[t]) \in DOMAIN frames[t]
        /\ Top(t).obj \in Objects
    BY <1>1, <2>1, TopFrame DEF Inv, Top, Found
  <2> QED BY <1>1, <2>1, <2>2 DEF Inv, CacheInv, Entered, CacheKey
<1>2. Inv => CacheFits
  BY <1>1 DEF CacheFits
<1> QED BY <1>2, InvAlways, PTL
=============================================================================
