---------------------------- MODULE RpcClientProofs ----------------------------
(***************************************************************************)
(* Proofs about RpcClient, for any number of clients, threads, closures    *)
(* and descriptors: its type invariant, and that a reply reaches the       *)
(* thread whose request it answers.                                        *)
(***************************************************************************)
EXTENDS RpcClient, TLAPS

(* tcp->lock: how many times thread t has taken it.                         *)
InExchange(t) == pc[t] \in {"send", "recv", "unlock"}
InPing(t)     == t \in Clients /\ pc[t] \in {"lock", "done", "stale"}
Held(t) ==
  IF InExchange(t) THEN IF t \in Clients THEN 2 ELSE 1
  ELSE IF InPing(t) THEN 1 ELSE 0

PingPC == {"test", "ping", "sleep", "gone", "stale"}

\* Where threads can be, and which client they are busy with.
PlaceInv ==
  /\ \A c \in Clients : /\ cl[c] = c /\ pc[c] \notin {"closure", "object", "leave"}
                        /\ life[c] = "new" => pc[c] = "idle"
  /\ \A t \in Callers : pc[t] \notin PingPC /\ (pc[t] # "idle" => cl[t] \in Clients)

\* The lock's owner and depth are those of the one thread that holds it.
LockInv ==
  /\ \A c \in Clients : owner[c] = None => depth[c] = 0
  /\ \A t \in Threads : Held(t) > 0 => owner[cl[t]] = t /\ depth[cl[t]] = Held(t)
  /\ \A c \in Clients, t \in Threads : owner[c] = t => cl[t] = c /\ Held(t) > 0

\* An open descriptor is known to the client that opened it, and to no other.
NumberInv ==
  /\ \A c, d \in Clients : sockfd[c] # None /\ sockfd[c] = sockfd[d] => c = d
  /\ \A n \in Fds : fdtab[n] # None => sockfd[fdtab[n]] = n

Open(c) == sockfd[c] # None /\ fdtab[sockfd[c]] = c
Waiting(t, c) == pc[t] = "recv" /\ cl[t] = c

\* A connection carries one exchange at a time: a request or its reply.
Wire(c) ==
  /\ \A t \in Threads : t \in inFlight[c] => Waiting(t, c)
  /\ replies[c] # <<>> => /\ inFlight[c] = {}
                          /\ \E t \in Threads : Waiting(t, c) /\ replies[c] = <<t>>

WireInv ==
  \A c \in Clients :
    /\ life[c] = "new" => sockfd[c] = None /\ inFlight[c] = {} /\ replies[c] = <<>>
    /\ Open(c) => Wire(c)

GotInv == \A t \in Threads : got[t] \in {None, t}

Paired == NumberInv /\ WireInv /\ GotInv

\* The inductive invariant.
Inv ==
  /\ TypeOK
  /\ PlaceInv
  /\ LockInv
  /\ ~shared => Paired

-----------------------------------------------------------------------------
(* Type correctness.                                                       *)

\* Whoever has the lock has taken it at least once.
LEMMA TakenLock ==
  ASSUME LockInv, NEW t \in Threads, Held(t) > 0
  PROVE  owner[cl[t]] = t /\ depth[cl[t]] = Held(t) /\ Held(t) \in {1, 2}
BY DEF LockInv, Held

\* Closing a number leaves the table of descriptors a table.
LEMMA CloseTyped ==
  ASSUME TypeOK, NEW n \in Fds \cup {None}, CloseFd(n)
  PROVE  fdtab' \in [Fds -> Clients \cup {None}] /\ ended' \subseteq Clients
<1>1. CASE n = None
  BY <1>1 DEF CloseFd, TypeOK
<1>2. CASE n \in Fds /\ n # None
  <2>1. fdtab' = [fdtab EXCEPT ![n] = None] /\ ended' = ended \cup ({fdtab[n]} \ {None})
    BY <1>2 DEF CloseFd
  <2>2. fdtab[n] \in Clients \cup {None}
    BY <1>2 DEF TypeOK
  <2> QED BY <2>1, <2>2 DEF TypeOK
<1> QED BY <1>1, <1>2

\* Every step keeps the types; a release finds the lock taken.
LEMMA TypeStep == TypeOK /\ PlaceInv /\ LockInv /\ [Next]_vars => TypeOK'
<1> SUFFICES ASSUME TypeOK, PlaceInv, LockInv, [Next]_vars PROVE TypeOK'
  OBVIOUS
<1> USE ClientAssumption DEF TypeOK, Threads, PCs, kernel, locks, Go
<1>1. ASSUME NEW c \in Clients, Peer(c) PROVE TypeOK'
  <2>1. CASE Answer(c)
    BY <2>1 DEF Answer
  <2>2. CASE Lose(c)
    BY <2>2 DEF Lose
  <2> QED BY <1>1, <2>1, <2>2 DEF Peer
<1>2. ASSUME NEW c \in Clients, Disconnect(c) PROVE TypeOK'
  <2>1. fdtab' \in [Fds -> Clients \cup {None}] /\ ended' \subseteq Clients
    BY <1>2, CloseTyped DEF Disconnect
  <2> QED BY <1>2, <2>1 DEF Disconnect, NumberCleared
<1>3. ASSUME NEW c \in Clients, Free(c) PROVE TypeOK'
  BY <1>3 DEF Free
<1>4. ASSUME NEW c \in Clients, Ping(c) PROVE TypeOK'
  <2>1. CASE PingTest(c)
    BY <2>1 DEF PingTest
  <2>2. CASE PingLock(c)
    BY <2>2 DEF PingLock, TakeLock
  <2>3. CASE PingUnlock(c)
    <3>1. Held(c) = 1 /\ cl[c] = c
      BY <2>3 DEF PingUnlock, PlaceInv, Held, InExchange, InPing
    <3>2. depth[c] = 1
      BY <3>1, TakenLock
    <3> QED BY <2>3, <3>2 DEF PingUnlock, ReleaseLock
  <2>4. CASE PingWake(c)
    BY <2>4 DEF PingWake
  <2> QED BY <1>4, <2>1, <2>2, <2>3, <2>4 DEF Ping
<1>5. ASSUME NEW c \in Clients, NEW n \in Fds, Connect(c, n) PROVE TypeOK'
  BY <1>5 DEF Connect
<1>6. ASSUME NEW t \in Callers, NEW c \in Clients, GetObject(t, c) PROVE TypeOK'
  BY <1>6 DEF GetObject, Begin
<1>7. ASSUME NEW t \in Callers, NEW c \in Clients, NEW f \in Fns, Call(t, c, f)
      PROVE TypeOK'
  BY <1>7 DEF Call, Begin
<1>8. ASSUME NEW t \in Threads, Exchange(t) PROVE TypeOK'
  <2>0. pc[t] \in {"lock", "send", "recv", "unlock"} => cl[t] \in Clients
    BY DEF PlaceInv
  <2>1. CASE Lock(t)
    BY <2>0, <2>1 DEF Lock, TakeLock
  <2>2. CASE Send(t)
    BY <2>0, <2>2 DEF Send, Conn
  <2>3. CASE SendFails(t)
    BY <2>3 DEF SendFails
  <2>4. CASE Recv(t)
    BY <2>0, <2>4 DEF Recv, Conn
  <2>5. CASE RecvFails(t)
    <3>1. sockfd[cl[t]] \in Fds \cup {None} /\ CloseFd(sockfd[cl[t]])
      BY <2>0, <2>5 DEF RecvFails
    <3>2. fdtab' \in [Fds -> Clients \cup {None}] /\ ended' \subseteq Clients
      BY <3>1, CloseTyped
    <3> QED BY <2>5, <3>2 DEF RecvFails
  <2>6. CASE Unlock(t)
    <3>1. depth[cl[t]] \in {1, 2}
      <4>1. Held(t) > 0
        BY <2>6 DEF Unlock, Held, InExchange
      <4> QED BY <4>1, TakenLock
    <3> QED BY <2>0, <2>6, <3>1 DEF Unlock, ReleaseLock
  <2> QED BY <1>8, <2>1, <2>2, <2>3, <2>4, <2>5, <2>6 DEF Exchange
<1>9. ASSUME NEW t \in Callers, Closure(t) PROVE TypeOK'
  <2>0. pc[t] # "idle" => cl[t] \in Clients
    BY DEF PlaceInv
  <2>1. CASE LockClosure(t)
    BY <2>0, <2>1 DEF LockClosure
  <2>2. CASE LockObject(t)
    BY <2>0, <2>2 DEF LockObject
  <2>3. CASE AskAgain(t)
    BY <2>3 DEF AskAgain
  <2>4. CASE UnlockClosure(t)
    BY <2>0, <2>4 DEF UnlockClosure
  <2>5. CASE UnlockObject(t)
    BY <2>0, <2>5 DEF UnlockObject, Returned
  <2>6. CASE GotObject(t)
    BY <2>0, <2>6 DEF GotObject, Returned
  <2> QED BY <1>9, <2>1, <2>2, <2>3, <2>4, <2>5, <2>6 DEF Closure
<1>10. CASE UNCHANGED vars
  BY <1>10 DEF vars
<1> QED BY <1>1, <1>2, <1>3, <1>4, <1>5, <1>6, <1>7, <1>8, <1>9, <1>10 DEF Next

-----------------------------------------------------------------------------
(* Where the threads are, and who has the lock.                            *)

\* A thread of the application is in a call of some client, and a ping thread
\* is never in a closure.
LEMMA PlaceStep == TypeOK /\ PlaceInv /\ [Next]_vars => PlaceInv'
<1> SUFFICES ASSUME TypeOK, PlaceInv, [Next]_vars PROVE PlaceInv'
  OBVIOUS
<1> USE ClientAssumption DEF TypeOK, Threads, PlaceInv, PingPC, kernel, locks, Go
<1>1. ASSUME NEW c \in Clients, Peer(c) \/ Disconnect(c) \/ Free(c) PROVE PlaceInv'
  <2>1. UNCHANGED <<pc, cl>>
    BY <1>1 DEF Peer, Answer, Lose, Disconnect, Free
  <2>2. \A d \in Clients : life'[d] = "new" => life[d] = "new"
    BY <1>1 DEF Peer, Answer, Lose, Disconnect, Free
  <2> QED BY <2>1, <2>2
<1>2. ASSUME NEW c \in Clients, Ping(c) PROVE PlaceInv'
  BY <1>2 DEF Ping, PingTest, PingLock, PingUnlock, PingWake
<1>3. ASSUME NEW c \in Clients, NEW n \in Fds, Connect(c, n) PROVE PlaceInv'
  BY <1>3 DEF Connect
<1>4. ASSUME NEW t \in Callers, NEW c \in Clients, GetObject(t, c) PROVE PlaceInv'
  BY <1>4 DEF GetObject, Begin
<1>5. ASSUME NEW t \in Callers, NEW c \in Clients, NEW f \in Fns, Call(t, c, f)
      PROVE PlaceInv'
  BY <1>5 DEF Call, Begin
<1>6. ASSUME NEW t \in Threads, Exchange(t) PROVE PlaceInv'
  <2>1. /\ UNCHANGED <<cl, life>>
        /\ \E to \in {"send", "recv", "unlock", "done"} : pc' = [pc EXCEPT ![t] = to]
        /\ pc[t] # "idle"
    BY <1>6 DEF Exchange, Lock, Send, SendFails, Recv, RecvFails, Unlock
  <2> QED BY <2>1
<1>7. ASSUME NEW t \in Callers, Closure(t) PROVE PlaceInv'
  <2>1. CASE LockClosure(t) \/ LockObject(t) \/ AskAgain(t) \/ UnlockClosure(t)
    BY <2>1 DEF LockClosure, LockObject, AskAgain, UnlockClosure
  <2>2. CASE UnlockObject(t) \/ GotObject(t)
    <3>1. /\ pc' = [pc EXCEPT ![t] = "idle"] /\ cl' = [cl EXCEPT ![t] = None]
          /\ life' = life
      BY <2>2 DEF UnlockObject, GotObject, Returned
    <3> QED BY <3>1
  <2> QED BY <1>7, <2>1, <2>2 DEF Closure
<1>8. CASE UNCHANGED vars
  BY <1>8 DEF vars
<1> QED BY <1>1, <1>2, <1>3, <1>4, <1>5, <1>6, <1>7, <1>8 DEF Next

\* A step that takes no lock and releases none.
LEMMA LockKeptAlone ==
  ASSUME LockInv, UNCHANGED <<owner, depth>>,
         \A u \in Threads : Held(u)' = Held(u) /\ (Held(u) > 0 => cl'[u] = cl[u])
  PROVE  LockInv'
BY DEF LockInv

\* A step with which the only holder of a lock takes or releases it once more.
LEMMA LockChanged ==
  ASSUME LockInv, TypeOK, NEW t \in Threads, NEW c \in Clients, NEW h \in {0, 1, 2},
         cl[t] = c, owner[c] \in {None, t}, cl' = cl, Held(t)' = h,
         \A u \in Threads \ {t} : Held(u)' = Held(u),
         owner' = [owner EXCEPT ![c] = IF h = 0 THEN None ELSE t],
         depth' = [depth EXCEPT ![c] = h]
  PROVE  LockInv'
<1>0. /\ owner \in [Clients -> Threads \cup {None}] /\ depth \in [Clients -> Nat]
      /\ cl \in [Threads -> Clients \cup {None}] /\ None \notin Threads
  BY ClientAssumption DEF TypeOK
<1>1. \A d \in Clients : owner'[d] = None => depth'[d] = 0
  BY <1>0 DEF LockInv
<1>2. ASSUME NEW u \in Threads, Held(u)' > 0
      PROVE  owner'[cl'[u]] = u /\ depth'[cl'[u]] = Held(u)'
  <2>1. CASE u = t
    <3>1. h # 0 /\ cl'[u] = c
      BY <1>2, <2>1
    <3> QED BY <1>0, <2>1, <3>1
  <2>2. CASE u # t
    <3>1. Held(u) > 0 /\ Held(u)' = Held(u)
      BY <1>2, <2>2
    <3>2. owner[cl[u]] = u /\ depth[cl[u]] = Held(u)
      BY <3>1 DEF LockInv
    <3>3. cl[u] # c
      BY <1>0, <2>2, <3>2
    <3> QED BY <1>0, <3>1, <3>2, <3>3
  <2> QED BY <2>1, <2>2
<1>3. ASSUME NEW d \in Clients, NEW u \in Threads, owner'[d] = u
      PROVE  cl'[u] = d /\ Held(u)' > 0
  <2>1. CASE d = c
    <3>1. h # 0 /\ u = t
      BY <1>0, <1>3, <2>1
    <3> QED BY <2>1, <3>1
  <2>2. CASE d # c
    <3>1. owner[d] = u
      BY <1>0, <1>3, <2>2
    <3>2. cl[u] = d /\ Held(u) > 0
      BY <3>1 DEF LockInv
    <3>3. u # t
      BY <2>2, <3>2
    <3> QED BY <3>2, <3>3
  <2> QED BY <2>1, <2>2
<1> QED BY <1>1, <1>2, <1>3 DEF LockInv

\* Every step keeps the lock's owner and depth those of its holder.
LEMMA LockStep == TypeOK /\ PlaceInv /\ LockInv /\ [Next]_vars => LockInv'
<1> SUFFICES ASSUME TypeOK, PlaceInv, LockInv, [Next]_vars PROVE LockInv'
  OBVIOUS
<1> USE ClientAssumption DEF Threads, kernel, locks, Go, Held, InExchange, InPing
<1>0. /\ pc \in [Threads -> PCs] /\ depth \in [Clients -> Nat]
      /\ owner \in [Clients -> Threads \cup {None}] /\ cl \in [Threads -> Clients \cup {None}]
  BY DEF TypeOK
<1>1. ASSUME NEW c \in Clients, Peer(c) \/ Disconnect(c) \/ Free(c) PROVE LockInv'
  <2>1. UNCHANGED <<pc, cl, owner, depth>>
    BY <1>1 DEF Peer, Answer, Lose, Disconnect, Free
  <2> QED BY <2>1, LockKeptAlone
<1>2. ASSUME NEW c \in Clients, Ping(c) PROVE LockInv'
  <2>0. cl[c] = c
    BY DEF PlaceInv
  <2>1. CASE PingTest(c) \/ PingWake(c)
    <3>1. /\ UNCHANGED <<cl, owner, depth>> /\ pc[c] \in {"test", "sleep"}
          /\ \E to \in {"gone", "ping", "test"} : pc' = [pc EXCEPT ![c] = to]
      BY <2>1 DEF PingTest, PingWake
    <3>2. \A u \in Threads : Held(u)' = Held(u)
      BY <1>0, <3>1
    <3> QED BY <3>1, <3>2, LockKeptAlone
  <2>2. CASE PingLock(c)
    <3>1. /\ cl' = cl /\ Held(c) = 0 /\ Held(c)' = 1
          /\ \A u \in Threads \ {c} : Held(u)' = Held(u)
      BY <1>0, <2>2 DEF PingLock
    <3>2. owner[c] = None /\ depth[c] = 0
      BY <2>0, <2>2, <3>1 DEF PingLock, TakeLock, MayLock, LockInv
    <3>3. owner' = [owner EXCEPT ![c] = c] /\ depth' = [depth EXCEPT ![c] = 1]
      BY <2>2, <3>2 DEF PingLock, TakeLock
    <3>4. owner' = [owner EXCEPT ![c] = IF 1 = 0 THEN None ELSE c]
      BY <3>3
    <3> HIDE DEF Held, InExchange, InPing
    <3> QED BY <2>0, <3>1, <3>2, <3>3, <3>4, LockChanged
  <2>3. CASE PingUnlock(c)
    <3>1. /\ cl' = cl /\ Held(c) = 1 /\ Held(c)' = 0
          /\ \A u \in Threads \ {c} : Held(u)' = Held(u)
      BY <1>0, <2>3 DEF PingUnlock
    <3>2. owner[c] = c /\ depth[c] = 1
      BY <2>0, <3>1, TakenLock
    <3>3. owner' = [owner EXCEPT ![c] = None] /\ depth' = [depth EXCEPT ![c] = 0]
      BY <2>3, <3>2 DEF PingUnlock, ReleaseLock
    <3> QED BY <2>0, <3>1, <3>2, <3>3, LockChanged
  <2> QED BY <1>2, <2>1, <2>2, <2>3 DEF Ping
<1>3. ASSUME NEW c \in Clients, NEW n \in Fds, Connect(c, n) PROVE LockInv'
  <2>1. UNCHANGED <<cl, owner, depth>> /\ pc' = [pc EXCEPT ![c] = "test"]
    BY <1>3 DEF Connect
  <2>2. pc[c] = "idle"
    BY <1>3 DEF Connect, PlaceInv
  <2>3. \A u \in Threads : Held(u)' = Held(u)
    BY <1>0, <2>1, <2>2
  <2> QED BY <2>1, <2>3, LockKeptAlone
<1>4. ASSUME NEW t \in Callers, NEW c \in Clients,
             GetObject(t, c) \/ \E f \in Fns : Call(t, c, f)
      PROVE  LockInv'
  <2>1. /\ pc[t] = "idle" /\ \E to \in {"lock", "closure"} : pc' = [pc EXCEPT ![t] = to]
        /\ cl' = [cl EXCEPT ![t] = c] /\ UNCHANGED <<owner, depth>>
    BY <1>4 DEF GetObject, Call, Begin
  <2>2. \A u \in Threads : Held(u)' = Held(u) /\ (Held(u) > 0 => cl'[u] = cl[u])
    BY <1>0, <2>1
  <2> QED BY <2>1, <2>2, LockKeptAlone
<1>5. ASSUME NEW t \in Threads, Exchange(t) PROVE LockInv'
  <2>1. pc[t] \in {"lock", "send", "recv", "unlock"} /\ cl[t] \in Clients
    BY <1>5 DEF Exchange, Lock, Send, SendFails, Recv, RecvFails, Unlock, PlaceInv
  <2>2. CASE Lock(t)
    <3>1. /\ cl' = cl /\ \A u \in Threads \ {t} : Held(u)' = Held(u)
          /\ Held(t)' = Held(t) + 1
      BY <1>0, <2>2 DEF Lock
    <3>2. owner[cl[t]] \in {None, t}
      BY <2>2 DEF Lock, TakeLock, MayLock
    <3>3. depth[cl[t]] = Held(t)
      <4>1. CASE Held(t) > 0
        BY <4>1, TakenLock
      <4>2. CASE Held(t) = 0
        BY <2>1, <3>2, <4>2 DEF LockInv
      <4> QED BY <4>1, <4>2
    <3>4. owner' = [owner EXCEPT ![cl[t]] = t] /\ depth' = [depth EXCEPT ![cl[t]] = Held(t)']
      BY <2>2, <3>1, <3>3 DEF Lock, TakeLock
    <3>5. Held(t)' # 0
      BY <3>1
    <3> QED BY <2>1, <3>1, <3>2, <3>4, <3>5, LockChanged
  <2>3. CASE Send(t) \/ SendFails(t) \/ Recv(t) \/ RecvFails(t)
    <3>1. /\ UNCHANGED <<cl, owner, depth>> /\ InExchange(t)
          /\ \E to \in {"recv", "unlock"} : pc' = [pc EXCEPT ![t] = to]
      BY <2>3 DEF Send, SendFails, Recv, RecvFails
    <3>2. \A u \in Threads : Held(u)' = Held(u)
      BY <1>0, <3>1
    <3> QED BY <3>1, <3>2, LockKeptAlone
  <2>4. CASE Unlock(t)
    <3>1. /\ cl' = cl /\ \A u \in Threads \ {t} : Held(u)' = Held(u)
          /\ Held(t) \in {1, 2} /\ Held(t)' = Held(t) - 1
      BY <1>0, <2>4 DEF Unlock
    <3>2. owner[cl[t]] = t /\ depth[cl[t]] = Held(t)
      BY <3>1, TakenLock
    <3>3. owner' = [owner EXCEPT ![cl[t]] = IF Held(t)' = 0 THEN None ELSE t]
      <4>1. owner' = [owner EXCEPT ![cl[t]] = IF depth[cl[t]] = 1 THEN None ELSE t]
        BY <2>1, <2>4, <1>0, <3>2 DEF Unlock, ReleaseLock
      <4>2. depth[cl[t]] = 1 <=> Held(t)' = 0
        BY <3>1, <3>2
      <4> HIDE DEF Held, InExchange, InPing
      <4> QED BY <4>1, <4>2
    <3>4. depth' = [depth EXCEPT ![cl[t]] = Held(t)']
      BY <2>1, <2>4, <1>0, <3>1, <3>2 DEF Unlock, ReleaseLock
    <3> QED BY <2>1, <3>1, <3>2, <3>3, <3>4, LockChanged
  <2> QED BY <1>5, <2>2, <2>3, <2>4 DEF Exchange
<1>6. ASSUME NEW t \in Callers, Closure(t) PROVE LockInv'
  <2>1. /\ pc[t] \in {"closure", "object", "done", "leave"} /\ UNCHANGED <<owner, depth>>
        /\ \E to \in {"object", "lock", "leave", "idle"} : pc' = [pc EXCEPT ![t] = to]
        /\ \A u \in Threads \ {t} : cl'[u] = cl[u]
    BY <1>0, <1>6 DEF Closure, LockClosure, LockObject, AskAgain, UnlockClosure,
                     UnlockObject, GotObject, Returned
  <2>2. \A u \in Threads : Held(u)' = Held(u) /\ (Held(u) > 0 => cl'[u] = cl[u])
    BY <1>0, <2>1
  <2> QED BY <2>1, <2>2, LockKeptAlone
<1>7. CASE UNCHANGED vars
  <2>1. UNCHANGED <<pc, cl, owner, depth>>
    BY <1>7 DEF vars
  <2> QED BY <2>1, LockKeptAlone
<1> QED BY <1>1, <1>2, <1>3, <1>4, <1>5, <1>6, <1>7 DEF Next

-----------------------------------------------------------------------------
(* Requests and replies.                                                   *)

\* The lock lets one thread at a time exchange with a client's server.
LEMMA OneExchange ==
  ASSUME LockInv, NEW t \in Threads, NEW u \in Threads, InExchange(t), InExchange(u),
         cl[t] = cl[u]
  PROVE  t = u
BY DEF LockInv, Held

\* While no number is shared, a thread's descriptor leads to its own client's
\* connection or nowhere.
LEMMA OwnConn ==
  ASSUME TypeOK, NumberInv, NEW t \in Threads, cl[t] \in Clients, Conn(t) # None
  PROVE  Conn(t) = cl[t] /\ Open(cl[t])
<1>1. sockfd[cl[t]] \in Fds /\ fdtab[sockfd[cl[t]]] = Conn(t)
  BY DEF Conn, TypeOK
<1>2. Conn(t) \in Clients
  BY <1>1 DEF TypeOK
<1>3. sockfd[Conn(t)] = sockfd[cl[t]] /\ sockfd[cl[t]] # None
  BY <1>1, ClientAssumption DEF NumberInv
<1>4. Conn(t) = cl[t]
  BY <1>2, <1>3 DEF NumberInv
<1> QED BY <1>1, <1>3, <1>4 DEF Open

\* A step after which the same threads wait for the same messages.
LEMMA WireKept ==
  ASSUME NEW c \in Clients, Wire(c), inFlight'[c] = inFlight[c], replies'[c] = replies[c],
         \A t \in Threads : Waiting(t, c)' <=> Waiting(t, c)
  PROVE  Wire(c)'
<1>1. ASSUME NEW t \in Threads, t \in inFlight'[c] PROVE Waiting(t, c)'
  BY <1>1 DEF Wire
<1>2. ASSUME replies'[c] # <<>>
      PROVE  inFlight'[c] = {} /\ \E t \in Threads : Waiting(t, c)' /\ replies'[c] = <<t>>
  <2>1. PICK t \in Threads : Waiting(t, c) /\ replies[c] = <<t>>
    BY <1>2 DEF Wire
  <2>2. Waiting(t, c)' /\ replies'[c] = <<t>>
    BY <2>1
  <2>3. inFlight'[c] = {}
    BY <1>2 DEF Wire
  <2> QED BY <2>2, <2>3
<1> QED BY <1>1, <1>2 DEF Wire

\* A step that opens, closes, brings and takes nothing.
LEMMA PairedKept ==
  ASSUME TypeOK, Paired, UNCHANGED <<fdtab, sockfd, inFlight, replies>>,
         \A c \in Clients : life'[c] = "new" => life[c] = "new",
         \A t \in Threads : got'[t] \in {got[t], None},
         \A t \in Threads : \A c \in Clients : Waiting(t, c)' <=> Waiting(t, c)
  PROVE  Paired'
<1>1. NumberInv'
  BY DEF Paired, NumberInv
<1>2. GotInv'
  BY DEF Paired, GotInv
<1>3. \A c \in Clients : Open(c)' <=> Open(c)
  BY DEF Open
<1>4. ASSUME NEW c \in Clients, life'[c] = "new"
      PROVE  sockfd'[c] = None /\ inFlight'[c] = {} /\ replies'[c] = <<>>
  BY <1>4 DEF Paired, WireInv
<1>5. ASSUME NEW c \in Clients, Open(c)' PROVE Wire(c)'
  BY <1>3, <1>5, WireKept DEF Paired, WireInv
<1> QED BY <1>1, <1>2, <1>4, <1>5 DEF Paired, WireInv

\* Closing a client's number closes no other client's connection.
LEMMA CloseNumber ==
  ASSUME TypeOK, NumberInv, NEW c \in Clients, CloseFd(sockfd[c]),
         sockfd' \in {sockfd, [sockfd EXCEPT ![c] = None]}
  PROVE  NumberInv' /\ \A d \in Clients : Open(d)' => Open(d) /\ d # c
<1> USE ClientAssumption DEF TypeOK
<1>1. \A n \in Fds : fdtab'[n] # None => fdtab'[n] = fdtab[n] /\ n # sockfd[c]
  BY DEF CloseFd
<1>2. \A d \in Clients : sockfd'[d] = sockfd[d] \/ (d = c /\ sockfd'[d] = None)
  OBVIOUS
<1>3. \A d \in Clients : sockfd'[d] # None => sockfd'[d] = sockfd[d] /\ sockfd[d] \in Fds
  BY <1>2
<1>4. ASSUME NEW n \in Fds, fdtab'[n] # None
      PROVE  sockfd'[fdtab'[n]] = n
  <2>1. sockfd[fdtab[n]] = n /\ fdtab'[n] = fdtab[n] /\ fdtab[n] \in Clients \ {c}
    BY <1>1, <1>4 DEF NumberInv
  <2> QED BY <1>2, <2>1
<1>5. NumberInv'
  BY <1>3, <1>4 DEF NumberInv
<1>6. ASSUME NEW d \in Clients, Open(d)' PROVE Open(d) /\ d # c
  BY <1>1, <1>3, <1>6 DEF Open, Threads
<1> QED BY <1>5, <1>6

\* A reply goes to the thread that waits for it, with every step, as long as no
\* number is shared.
LEMMA PairedStep ==
  TypeOK /\ PlaceInv /\ LockInv /\ (~shared => Paired) /\ [Next]_vars /\ ~shared'
  => Paired'
<1> SUFFICES ASSUME TypeOK, PlaceInv, LockInv, ~shared => Paired, [Next]_vars, ~shared'
             PROVE  Paired'
  OBVIOUS
<1>0. ~shared
  BY DEF Next, Peer, Answer, Lose, Disconnect, Free, Ping, PingTest, PingLock,
         PingUnlock, PingWake, Connect, GetObject, Call, Begin, Exchange, Lock, Send,
         SendFails, Recv, RecvFails, Unlock, Closure, LockClosure, LockObject,
         AskAgain, UnlockClosure, UnlockObject, GotObject, vars
<1>a. Paired /\ NumberInv /\ WireInv /\ GotInv
  BY <1>0 DEF Paired
<1>b. /\ pc \in [Threads -> PCs] /\ cl \in [Threads -> Clients \cup {None}]
      /\ got \in [Threads -> Threads \cup {None}]
  BY DEF TypeOK
<1> USE DEF kernel, locks, Go
<1>1. ASSUME NEW c \in Clients, Answer(c) PROVE Paired'
  <2>1. PICK r \in inFlight[c] :
          /\ inFlight' = [inFlight EXCEPT ![c] = @ \ {r}]
          /\ replies' = [replies EXCEPT ![c] = Append(@, r)]
          /\ UNCHANGED <<fdtab, life, sockfd, pc, cl, got>>
    BY <1>1 DEF Answer
  <2>2. r \in Threads /\ life[c] # "new"
    BY <1>a DEF TypeOK, WireInv
  <2>3. NumberInv' /\ GotInv'
    BY <1>a, <2>1 DEF NumberInv, GotInv
  <2>4. \A d \in Clients : Open(d)' <=> Open(d)
    BY <2>1 DEF Open
  <2>5. \A t \in Threads : \A d \in Clients : Waiting(t, d)' <=> Waiting(t, d)
    BY <2>1 DEF Waiting
  <2>6. ASSUME Open(c)
        PROVE  inFlight'[c] = {} /\ replies'[c] = <<r>> /\ Waiting(r, c)
    <3>1. replies[c] = <<>> /\ \A t \in Threads : t \in inFlight[c] => Waiting(t, c)
      BY <1>a, <2>6 DEF WireInv, Wire
    <3>2. \A t \in inFlight[c] : t = r
      <4>1. inFlight[c] \subseteq Threads
        BY DEF TypeOK
      <4> QED BY <3>1, <4>1, <2>2, OneExchange DEF Waiting, InExchange
    <3>3. inFlight'[c] = {}
      BY <2>1, <3>2 DEF TypeOK
    <3>4. replies'[c] = Append(<<>>, r)
      BY <2>1, <3>1 DEF TypeOK
    <3>5. Append(<<>>, r) = <<r>>
      OBVIOUS
    <3> QED BY <2>2, <3>1, <3>3, <3>4, <3>5
  <2>7. \A d \in Clients \ {c} : inFlight'[d] = inFlight[d] /\ replies'[d] = replies[d]
    BY <2>1 DEF TypeOK
  <2>8. WireInv'
    <3>1. ASSUME NEW d \in Clients, life'[d] = "new"
          PROVE  sockfd'[d] = None /\ inFlight'[d] = {} /\ replies'[d] = <<>>
      BY <1>a, <2>1, <2>2, <2>7, <3>1 DEF WireInv
    <3>2. ASSUME NEW d \in Clients, Open(d)' PROVE Wire(d)'
      <4>1. CASE d = c
        <5>1. inFlight'[d] = {} /\ replies'[d] = <<r>> /\ Waiting(r, d)'
          BY <2>2, <2>4, <2>5, <2>6, <3>2, <4>1
        <5> QED BY <2>2, <4>1, <5>1 DEF Wire
      <4>2. CASE d # c
        BY <1>a, <2>4, <2>5, <2>7, <3>2, <4>2, WireKept DEF WireInv
      <4> QED BY <4>1, <4>2
    <3> QED BY <3>1, <3>2 DEF WireInv
  <2> QED BY <2>3, <2>8 DEF Paired
<1>2. ASSUME NEW c \in Clients, Disconnect(c) PROVE Paired'
  <2>1. NumberInv' /\ \A d \in Clients : Open(d)' => Open(d) /\ d # c
    BY <1>2, <1>a, CloseNumber DEF Disconnect, NumberCleared
  <2>2. /\ UNCHANGED <<inFlight, replies, pc, cl, got>>
        /\ \A d \in Clients : life'[d] = "new" => life[d] = "new" /\ sockfd'[d] = sockfd[d]
    BY <1>2 DEF Disconnect, NumberCleared, TypeOK
  <2>3. \A t \in Threads : \A d \in Clients : Waiting(t, d)' <=> Waiting(t, d)
    BY <2>2 DEF Waiting
  <2>4. GotInv'
    BY <1>a, <2>2 DEF GotInv
  <2>5. ASSUME NEW d \in Clients, Open(d)' PROVE Wire(d)'
    BY <1>a, <2>1, <2>2, <2>3, <2>5, WireKept DEF WireInv
  <2>6. WireInv'
    BY <1>a, <2>2, <2>5 DEF WireInv
  <2> QED BY <2>1, <2>4, <2>6 DEF Paired
<1>3. ASSUME NEW c \in Clients, NEW n \in Fds, Connect(c, n) PROVE Paired'
  <2>1. /\ life[c] = "new" /\ sockfd[c] = None /\ inFlight[c] = {} /\ replies[c] = <<>>
        /\ pc[c] = "idle" /\ fdtab[n] = None /\ \A d \in Clients : sockfd[d] # n
    BY <1>3, <1>a DEF Connect, WireInv, PlaceInv
  <2>2. /\ fdtab' = [fdtab EXCEPT ![n] = c] /\ sockfd' = [sockfd EXCEPT ![c] = n]
        /\ life' = [life EXCEPT ![c] = "up"] /\ pc' = [pc EXCEPT ![c] = "test"]
        /\ UNCHANGED <<inFlight, replies, cl, got>>
    BY <1>3 DEF Connect
  <2>3. None \notin Clients \cup Fds /\ sockfd \in [Clients -> Fds \cup {None}]
        /\ fdtab \in [Fds -> Clients \cup {None}] /\ life \in [Clients -> {"new", "up", "leaving", "freed"}]
    BY ClientAssumption DEF TypeOK, Threads
  <2>4. NumberInv'
    <3>1. \A d, e \in Clients : sockfd'[d] # None /\ sockfd'[d] = sockfd'[e] => d = e
      BY <1>a, <2>1, <2>2, <2>3 DEF NumberInv
    <3>2. ASSUME NEW m \in Fds, fdtab'[m] # None PROVE sockfd'[fdtab'[m]] = m
      <4>1. CASE m = n
        BY <2>2, <2>3, <4>1
      <4>2. CASE m # n
        <5>1. fdtab'[m] = fdtab[m] /\ fdtab[m] \in Clients /\ sockfd[fdtab[m]] = m
          BY <1>a, <2>2, <2>3, <3>2, <4>2 DEF NumberInv
        <5>2. fdtab[m] # c
          BY <2>1, <2>3, <5>1
        <5> QED BY <2>2, <2>3, <5>1, <5>2
      <4> QED BY <4>1, <4>2
    <3> QED BY <3>1, <3>2 DEF NumberInv
  <2>5. \A t \in Threads : \A d \in Clients : Waiting(t, d)' <=> Waiting(t, d)
    BY <1>b, <2>1, <2>2 DEF Waiting
  <2>6. \A d \in Clients \ {c} : /\ Open(d)' <=> Open(d)
                                 /\ sockfd'[d] = sockfd[d] /\ life'[d] = life[d]
    BY <2>1, <2>2, <2>3 DEF Open
  <2>7. life'[c] = "up"
    BY <2>2, <2>3
  <2>8. WireInv'
    <3>1. ASSUME NEW d \in Clients, life'[d] = "new"
          PROVE  sockfd'[d] = None /\ inFlight'[d] = {} /\ replies'[d] = <<>>
      BY <1>a, <2>2, <2>6, <2>7, <3>1 DEF WireInv
    <3>2. ASSUME NEW d \in Clients, Open(d)' PROVE Wire(d)'
      <4>1. CASE d = c
        <5>1. inFlight'[c] = {} /\ replies'[c] = <<>>
          BY <2>1, <2>2
        <5> QED BY <4>1, <5>1 DEF Wire
      <4>2. CASE d # c
        <5>1. Open(d) /\ inFlight'[d] = inFlight[d] /\ replies'[d] = replies[d]
          BY <2>2, <2>6, <3>2, <4>2
        <5> QED BY <1>a, <2>5, <5>1, WireKept DEF WireInv
      <4> QED BY <4>1, <4>2
    <3> QED BY <3>1, <3>2 DEF WireInv
  <2>9. GotInv'
    BY <1>a, <2>2 DEF GotInv
  <2> QED BY <2>4, <2>8, <2>9 DEF Paired
<1>4. ASSUME NEW t \in Threads, Exchange(t) PROVE Paired'
  <2>0. pc[t] \in {"lock", "send", "recv", "unlock"} /\ cl[t] \in Clients
    BY <1>4 DEF Exchange, Lock, Send, SendFails, Recv, RecvFails, Unlock, PlaceInv, Threads
  <2>1. CASE Lock(t) \/ SendFails(t) \/ Unlock(t)
    <3>1. /\ UNCHANGED <<fdtab, sockfd, inFlight, replies, life, got, cl>>
          /\ pc[t] # "recv" /\ \E to \in {"send", "unlock", "done"} : pc' = [pc EXCEPT ![t] = to]
      BY <2>1 DEF Lock, SendFails, Unlock
    <3>2. \A u \in Threads : \A c \in Clients : Waiting(u, c)' <=> Waiting(u, c)
      BY <1>b, <3>1 DEF Waiting
    <3> QED BY <1>a, <3>1, <3>2, PairedKept
  <2>2. CASE Send(t)
    <3>0. cl[t] = Conn(t) /\ Open(cl[t]) /\ inFlight[cl[t]] \subseteq Threads
      BY <1>a, <2>0, <2>2, OwnConn DEF Send, TypeOK
    <3>1. /\ UNCHANGED <<fdtab, sockfd, replies, life, got, cl>> /\ pc[t] = "send"
          /\ pc' = [pc EXCEPT ![t] = "recv"]
          /\ \/ inFlight' = inFlight
             \/ inFlight' = [inFlight EXCEPT ![cl[t]] = @ \cup {t}]
      BY <2>2, <3>0 DEF Send
    <3>2. \A u \in Threads : ~Waiting(u, cl[t])
      BY <2>0, <3>1, OneExchange DEF Waiting, InExchange
    <3>3. inFlight[cl[t]] = {} /\ replies[cl[t]] = <<>>
      BY <1>a, <2>0, <3>0, <3>2 DEF WireInv, Wire
    <3>4. Waiting(t, cl[t])' /\ \A u \in Threads : \A c \in Clients \ {cl[t]} :
                                  Waiting(u, c)' <=> Waiting(u, c)
      BY <1>b, <3>1 DEF Waiting
    <3>5. Wire(cl[t])'
      <4>1. inFlight'[cl[t]] \subseteq {t} /\ replies'[cl[t]] = <<>>
        BY <2>0, <3>1, <3>3 DEF TypeOK
      <4> QED BY <3>1, <3>4, <4>1 DEF Wire, Waiting
    <3>6. \A c \in Clients : Open(c)' <=> Open(c)
      BY <3>1 DEF Open
    <3>7. ASSUME NEW c \in Clients PROVE life'[c] = "new" =>
            sockfd'[c] = None /\ inFlight'[c] = {} /\ replies'[c] = <<>>
      <4>1. life[cl[t]] # "new"
        BY <1>a, <2>0, <3>0 DEF WireInv, Open
      <4> QED BY <1>a, <2>0, <3>1, <4>1 DEF WireInv, TypeOK
    <3>8. ASSUME NEW c \in Clients, Open(c)' PROVE Wire(c)'
      <4>1. CASE c # cl[t]
        <5>1. inFlight'[c] = inFlight[c] /\ replies'[c] = replies[c]
          BY <2>0, <3>1, <4>1 DEF TypeOK
        <5> QED BY <1>a, <3>4, <3>6, <3>8, <4>1, <5>1, WireKept DEF WireInv
      <4> QED BY <3>5, <4>1, <3>1
    <3> QED BY <1>a, <3>1, <3>7, <3>8 DEF Paired, WireInv, NumberInv, GotInv
  <2>3. CASE Recv(t)
    <3>0. cl[t] = Conn(t) /\ Open(cl[t])
      BY <1>a, <2>0, <2>3, OwnConn DEF Recv
    <3>1. /\ UNCHANGED <<fdtab, sockfd, inFlight, life, cl>> /\ pc[t] = "recv"
          /\ pc' = [pc EXCEPT ![t] = "unlock"] /\ replies[cl[t]] # <<>>
          /\ got' = [got EXCEPT ![t] = Head(replies[cl[t]])]
          /\ replies' = [replies EXCEPT ![cl[t]] = Tail(@)]
      BY <2>3, <3>0 DEF Recv
    <3>2. replies[cl[t]] = <<t>> /\ inFlight[cl[t]] = {}
      <4>1. PICK u \in Threads : Waiting(u, cl[t]) /\ replies[cl[t]] = <<u>>
        BY <1>a, <2>0, <3>0, <3>1 DEF WireInv, Wire
      <4>2. u = t
        BY <3>1, <4>1, OneExchange DEF Waiting, InExchange
      <4> QED BY <1>a, <2>0, <3>0, <3>1, <4>1, <4>2 DEF WireInv, Wire
    <3>3. got' = [got EXCEPT ![t] = t] /\ replies' = [replies EXCEPT ![cl[t]] = <<>>]
      BY <3>1, <3>2
    <3>4. \A u \in Threads : \A c \in Clients \ {cl[t]} : Waiting(u, c)' <=> Waiting(u, c)
      BY <1>b, <3>1 DEF Waiting
    <3>5. replies \in [Clients -> Seq(Threads)]
      BY DEF TypeOK
    <3>6. \A c \in Clients : Open(c)' <=> Open(c)
      BY <3>1 DEF Open
    <3>7. ASSUME NEW c \in Clients PROVE life'[c] = "new" =>
            sockfd'[c] = None /\ inFlight'[c] = {} /\ replies'[c] = <<>>
      BY <1>a, <2>0, <3>1, <3>3, <3>5 DEF WireInv
    <3>8. ASSUME NEW c \in Clients, Open(c)' PROVE Wire(c)'
      <4>1. CASE c # cl[t]
        <5>1. inFlight'[c] = inFlight[c] /\ replies'[c] = replies[c]
          BY <2>0, <3>1, <3>3, <3>5, <4>1
        <5> QED BY <1>a, <3>4, <3>6, <3>8, <4>1, <5>1, WireKept DEF WireInv
      <4>2. CASE c = cl[t]
        <5>1. inFlight'[c] = {} /\ replies'[c] = <<>>
          BY <2>0, <3>1, <3>2, <3>3, <3>5, <4>2
        <5> QED BY <5>1 DEF Wire
      <4> QED BY <4>1, <4>2
    <3>9. GotInv'
      BY <1>a, <1>b, <3>3 DEF GotInv
    <3> QED BY <1>a, <3>1, <3>7, <3>8, <3>9 DEF Paired, WireInv, NumberInv
  <2>4. CASE RecvFails(t)
    <3>1. NumberInv' /\ \A c \in Clients : Open(c)' => Open(c) /\ c # cl[t]
      BY <1>a, <2>0, <2>4, CloseNumber DEF RecvFails
    <3>2. UNCHANGED <<sockfd, inFlight, replies, life, cl, got>>
          /\ pc' = [pc EXCEPT ![t] = "unlock"]
      BY <2>4 DEF RecvFails
    <3>3. \A u \in Threads : \A c \in Clients \ {cl[t]} : Waiting(u, c)' <=> Waiting(u, c)
      BY <1>b, <3>2 DEF Waiting
    <3>4. ASSUME NEW c \in Clients, Open(c)' PROVE Wire(c)'
      BY <1>a, <3>1, <3>2, <3>3, <3>4, WireKept DEF WireInv
    <3> QED BY <1>a, <3>1, <3>2, <3>4 DEF Paired, WireInv, GotInv
  <2> QED BY <1>4, <2>1, <2>2, <2>3, <2>4 DEF Exchange
<1>5. ASSUME NEW c \in Clients, Lose(c) \/ Free(c) \/ Ping(c) PROVE Paired'
  <2>1. /\ UNCHANGED <<fdtab, sockfd, inFlight, replies, cl>>
        /\ \A d \in Clients : life'[d] = "new" => life[d] = "new"
        /\ \A t \in Threads : got'[t] \in {got[t], None}
    BY <1>5, <1>b DEF Lose, Free, Ping, PingTest, PingLock, PingUnlock, PingWake, TypeOK
  <2>2. pc' = pc \/ (pc[c] # "recv" /\ \E to \in PCs \ {"recv"} : pc' = [pc EXCEPT ![c] = to])
    BY <1>5 DEF Lose, Free, Ping, PingTest, PingLock, PingUnlock, PingWake, PCs
  <2>3. \A u \in Threads : \A d \in Clients : Waiting(u, d)' <=> Waiting(u, d)
    BY <1>b, <2>1, <2>2 DEF Waiting
  <2> QED BY <1>a, <2>1, <2>3, PairedKept
<1>6. ASSUME NEW t \in Callers, NEW c \in Clients,
             GetObject(t, c) \/ \E f \in Fns : Call(t, c, f)
      PROVE  Paired'
  <2>1. /\ UNCHANGED <<fdtab, sockfd, inFlight, replies, life, got>> /\ pc[t] = "idle"
        /\ \E to \in {"lock", "closure"} : pc' = [pc EXCEPT ![t] = to]
        /\ cl' = [cl EXCEPT ![t] = c]
    BY <1>6 DEF GetObject, Call, Begin
  <2>2. \A u \in Threads : \A d \in Clients : Waiting(u, d)' <=> Waiting(u, d)
    BY <1>b, <2>1 DEF Waiting
  <2> QED BY <1>a, <2>1, <2>2, PairedKept
<1>7. ASSUME NEW t \in Callers, Closure(t) PROVE Paired'
  <2>1. /\ UNCHANGED <<fdtab, sockfd, inFlight, replies, life>> /\ pc[t] # "recv"
        /\ \E to \in PCs \ {"recv"} : pc' = [pc EXCEPT ![t] = to]
        /\ \A u \in Threads \ {t} : cl'[u] = cl[u]
        /\ \A u \in Threads : got'[u] \in {got[u], None}
    BY <1>7, <1>b DEF Closure, LockClosure, LockObject, AskAgain, UnlockClosure,
                     UnlockObject, GotObject, Returned, PCs
  <2>2. \A u \in Threads : \A d \in Clients : Waiting(u, d)' <=> Waiting(u, d)
    BY <1>b, <2>1 DEF Waiting
  <2> QED BY <1>a, <2>1, <2>2, PairedKept
<1>8. CASE UNCHANGED vars
  <2>1. UNCHANGED <<fdtab, sockfd, inFlight, replies, life, got, pc, cl>>
    BY <1>8 DEF vars
  <2>2. \A u \in Threads : \A d \in Clients : Waiting(u, d)' <=> Waiting(u, d)
    BY <2>1 DEF Waiting
  <2> QED BY <1>a, <2>1, <2>2, PairedKept
<1> QED BY <1>1, <1>2, <1>3, <1>4, <1>5, <1>6, <1>7, <1>8 DEF Next, Peer

-----------------------------------------------------------------------------
(* The theorems.                                                           *)

\* The first state.
LEMMA InvInit == Init => Inv
<1> SUFFICES ASSUME Init PROVE Inv
  OBVIOUS
<1> USE ClientAssumption DEF Init, Threads
<1>1. TypeOK
  <2>1. replies \in [Clients -> Seq(Threads)]
    <3>1. <<>> \in Seq(Threads)
      OBVIOUS
    <3> QED BY <3>1
  <2>2. pc \in [Threads -> PCs] /\ fn \in [Threads -> Fns \cup {None}]
        /\ got \in [Threads -> Threads \cup {None}] /\ again \in [Threads -> BOOLEAN]
    BY DEF PCs
  <2>3. cl \in [Threads -> Clients \cup {None}]
    OBVIOUS
  <2> QED BY <2>1, <2>2, <2>3 DEF TypeOK
<1>2. PlaceInv
  BY DEF PlaceInv, PingPC
<1>3. LockInv
  <2>1. \A t \in Threads : Held(t) = 0
    BY DEF Held, InExchange, InPing
  <2>2. \A c \in Clients : owner[c] \notin Threads /\ depth[c] = 0
    OBVIOUS
  <2>3. \A t \in Threads : ~(Held(t) > 0)
    BY <2>1
  <2> HIDE DEF Threads, Init
  <2> QED BY <2>2, <2>3 DEF LockInv
<1>4. NumberInv /\ GotInv
  BY DEF NumberInv, GotInv
<1>5. WireInv
  BY DEF WireInv, Open
<1> QED BY <1>1, <1>2, <1>3, <1>4, <1>5 DEF Inv, Paired

\* Every step.
LEMMA InvStep == Inv /\ [Next]_vars => Inv'
BY TypeStep, PlaceStep, LockStep, PairedStep DEF Inv

\* The invariant always holds.
LEMMA InvAlways == Spec => []Inv
BY InvInit, InvStep, PTL DEF Spec

\* Every variable has its type, whatever the clients, callers and descriptors:
\* a release of the recursive lock always finds it taken, and closures and
\* objects are locked by threads of the application only.
THEOREM ClientTypes == Spec => []TypeOK
<1>1. Inv => TypeOK
  BY DEF Inv
<1> QED BY <1>1, InvAlways, PTL

\* The recursive lock is mutual exclusion for exchanges: two threads that are
\* between lock and unlock of tcp_requestor with the same client are one.
Exclusive ==
  \A t, u \in Threads : InExchange(t) /\ InExchange(u) /\ cl[t] = cl[u] => t = u

\* At most one request of a client is under way (tcp_requestor, tcp_ping).
THEOREM LockExcludes == Spec => []Exclusive
<1>1. Inv => Exclusive
  BY OneExchange DEF Inv, Exclusive
<1> QED BY <1>1, InvAlways, PTL

\* A reply goes to the thread whose request it answers, for any number of
\* clients, threads and descriptors, as long as no number of a lost connection
\* has been given to another client.
THEOREM RepliesPaired == Spec => []OwnReply
<1>1. Inv => OwnReply
  <2> SUFFICES ASSUME Inv, ~shared, NEW t \in Threads
               PROVE  /\ got[t] \in {None, t}
                      /\ pc[t] = "send" /\ Conn(t) \notin ended \cup {None} =>
                           inFlight[Conn(t)] = {} /\ replies[Conn(t)] = <<>>
    BY DEF OwnReply
  <2>1. TypeOK /\ PlaceInv /\ LockInv /\ NumberInv /\ WireInv /\ GotInv
    BY DEF Inv, Paired
  <2>2. ASSUME pc[t] = "send", Conn(t) # None
        PROVE  inFlight[Conn(t)] = {} /\ replies[Conn(t)] = <<>>
    <3>1. cl[t] \in Clients
      BY <2>1, <2>2 DEF PlaceInv, Threads
    <3>2. Conn(t) = cl[t] /\ Open(cl[t])
      BY <2>1, <2>2, <3>1, OwnConn
    <3>3. \A u \in Threads : ~Waiting(u, cl[t])
      BY <2>1, <2>2, OneExchange DEF Waiting, InExchange
    <3>4. Wire(cl[t]) /\ inFlight[cl[t]] \subseteq Threads
      BY <2>1, <3>1, <3>2 DEF WireInv, TypeOK
    <3> QED BY <3>2, <3>3, <3>4 DEF Wire
  <2> QED BY <2>1, <2>2 DEF GotInv
<1> QED BY <1>1, InvAlways, PTL
=============================================================================
