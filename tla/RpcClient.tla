------------------------------- MODULE RpcClient -------------------------------
(***************************************************************************)
(* The TCP client (rpc_client.c).  A client has one socket, which its      *)
(* callers and a ping thread share under a recursive lock: a request is    *)
(* sent and its reply awaited before the lock is released.  The functions  *)
(* of a fetched object are closures; a call holds the lock of the closure  *)
(* and the lock of the object while it waits.                              *)
(*                                                                         *)
(* A descriptor is a number that the kernel gives out again once it is     *)
(* closed.  The connection behind it is named by the client that made it.  *)
(* The server runs the requests of a connection in any order.  The ping    *)
(* thread of a client has the client's name.                               *)
(***************************************************************************)
EXTENDS Integers, Sequences

CONSTANTS
  Clients,   \* rpc_client_t, each connected once; also the ping threads
  Callers,   \* threads of the application
  Fns,       \* the closures of an object (each client fetches one object)
  Fds,       \* descriptors the process may have
  None       \* nobody, no descriptor, no reply

Threads == Callers \cup Clients

ASSUME ClientAssumption ==
  /\ Clients \cap Callers = {}
  /\ None \notin Threads \cup Fns \cup Fds

VARIABLES
  \* the kernel and the peer
  fdtab,     \* the connection behind each open descriptor
  ended,     \* connections that either side has shut down or lost
  inFlight,  \* requests each connection has brought to the server, and
  replies,   \* replies on their way back, by the thread they are for
  \* the clients
  life,      \* each client: new, up, leaving (disconnected), freed
  sockfd,    \* tcp->fd; None is -1
  owner, depth,  \* tcp->lock
  fetched,   \* clients with an object in loaded_cobjects
  fnLock,    \* my_data->lock of each client's closures
  objLock,   \* the lock of its object
  \* the threads
  pc, cl, fn,  \* where, with which client, in which closure
  got,       \* the reply a thread has received
  again,     \* a call has asked whether the value it received is an object
  \* history
  shared,    \* a client has got a number that another one still goes by
  late       \* ping threads past their test when the client disconnected

kernel == <<fdtab, ended, inFlight, replies>>
locks  == <<owner, depth, fnLock, objLock>>
vars == <<kernel, locks, life, sockfd, fetched, pc, cl, fn, got, again,
          shared, late>>

\* the connection that a thread's descriptor leads to now
Conn(t) == IF sockfd[cl[t]] = None THEN None ELSE fdtab[sockfd[cl[t]]]

Go(t, from, to) == pc[t] = from /\ pc' = [pc EXCEPT ![t] = to]

-----------------------------------------------------------------------------
Init ==
  /\ fdtab = [n \in Fds |-> None]
  /\ ended = {}
  /\ inFlight = [c \in Clients |-> {}]
  /\ replies = [c \in Clients |-> <<>>]
  /\ life = [c \in Clients |-> "new"]
  /\ sockfd = [c \in Clients |-> None]
  /\ owner = [c \in Clients |-> None]
  /\ depth = [c \in Clients |-> 0]
  /\ fetched = {}
  /\ fnLock = [c \in Clients |-> [f \in Fns |-> None]]
  /\ objLock = [c \in Clients |-> None]
  /\ pc = [t \in Threads |-> "idle"]
  /\ cl = [t \in Threads |-> IF t \in Clients THEN t ELSE None]
  /\ fn = [t \in Threads |-> None]
  /\ got = [t \in Threads |-> None]
  /\ again = [t \in Threads |-> FALSE]
  /\ shared = FALSE
  /\ late = {}

(***************************************************************************)
(* The peer.                                                               *)
(***************************************************************************)
Answer(c) ==
  \E r \in inFlight[c] :
    /\ c \notin ended
    /\ inFlight' = [inFlight EXCEPT ![c] = @ \ {r}]
    /\ replies' = [replies EXCEPT ![c] = Append(@, r)]
    /\ UNCHANGED <<fdtab, ended, locks, life, sockfd, fetched, pc, cl, fn, got,
                   again, shared, late>>

\* the server, or the network, ends a connection
Lose(c) ==
  /\ life[c] = "up"
  /\ ended' = ended \cup {c}
  /\ UNCHANGED <<fdtab, inFlight, replies, locks, life, sockfd, fetched, pc, cl, fn,
                 got, again, shared, late>>

\* shutdown(2) and close(2) of a number, if it is one
CloseFd(n) ==
  IF n = None THEN UNCHANGED <<fdtab, ended>>
  ELSE /\ ended' = ended \cup ({fdtab[n]} \ {None})
       /\ fdtab' = [fdtab EXCEPT ![n] = None]

(***************************************************************************)
(* A request: tcp_requestor.                                               *)
(***************************************************************************)
\* a wrong lock: it does not keep others out
FreeForAll(c, t) == TRUE

MayLock(c, t) == owner[c] \in {None, t}

TakeLock(c, t) ==
  /\ MayLock(c, t)
  /\ owner' = [owner EXCEPT ![c] = t]
  /\ depth' = [depth EXCEPT ![c] = @ + 1]

\* a wrong tcp_requestor: an early return leaves the lock taken
LockKept(c) == UNCHANGED <<owner, depth>>

\* a wrong tcp_requestor: the lock is released on the way out of the error and
\* again at the end
ReleasedTwice(c) ==
  /\ owner' = [owner EXCEPT ![c] = None]
  /\ depth' = [depth EXCEPT ![c] = @ - 2]

ReleaseLock(c) ==
  /\ owner' = [owner EXCEPT ![c] = IF depth[c] = 1 THEN None ELSE @]
  /\ depth' = [depth EXCEPT ![c] = @ - 1]

Lock(t) ==
  /\ Go(t, "lock", "send")
  /\ TakeLock(cl[t], t)
  /\ UNCHANGED <<kernel, fnLock, objLock, life, sockfd, fetched, cl, fn, got,
                 again, shared, late>>

\* rpc_net_send succeeds: in vain when the peer is gone
Send(t) ==
  LET c == Conn(t)
  IN  /\ Go(t, "send", "recv")
      /\ c # None
      /\ inFlight' = IF c \in ended THEN inFlight
                     ELSE [inFlight EXCEPT ![c] = @ \cup {t}]
      /\ UNCHANGED <<fdtab, ended, replies, locks, life, sockfd, fetched, cl, fn,
                     got, again, shared, late>>

\* rpc_net_send fails: nobody is told, and the descriptor stays
SendFails(t) ==
  /\ Go(t, "send", "unlock")
  /\ Conn(t) = None \/ Conn(t) \in ended
  /\ UNCHANGED <<kernel, locks, life, sockfd, fetched, cl, fn, got, again,
                 shared, late>>

Recv(t) ==
  LET c == Conn(t)
  IN  /\ Go(t, "recv", "unlock")
      /\ c # None
      /\ replies[c] # <<>>
      /\ got' = [got EXCEPT ![t] = Head(replies[c])]
      /\ replies' = [replies EXCEPT ![c] = Tail(@)]
      /\ UNCHANGED <<fdtab, ended, inFlight, locks, life, sockfd, fetched, cl, fn,
                     again, shared, late>>

\* rpc_net_recv fails: the descriptor is closed, but tcp->fd keeps its number
RecvFails(t) ==
  /\ Go(t, "recv", "unlock")
  /\ Conn(t) = None \/ Conn(t) \in ended
  /\ CloseFd(sockfd[cl[t]])
  /\ UNCHANGED <<inFlight, replies, locks, life, sockfd, fetched, cl, fn, got,
                 again, shared, late>>

Unlock(t) ==
  /\ Go(t, "unlock", "done")
  /\ ReleaseLock(cl[t])
  /\ UNCHANGED <<kernel, fnLock, objLock, life, sockfd, fetched, cl, fn, got,
                 again, shared, late>>

(***************************************************************************)
(* The application.                                                        *)
(***************************************************************************)
\* rpc_client_connect_tcp; a socket that does not connect is closed again
Connect(c, n) ==
  /\ life[c] = "new"
  /\ fdtab[n] = None
  /\ fdtab' = [fdtab EXCEPT ![n] = c]
  /\ sockfd' = [sockfd EXCEPT ![c] = n]
  /\ life' = [life EXCEPT ![c] = "up"]
  /\ pc' = [pc EXCEPT ![c] = "test"]
  /\ shared' = (shared \/ \E d \in Clients : sockfd[d] = n)
  /\ UNCHANGED <<ended, inFlight, replies, locks, fetched, cl, fn, got, again,
                 late>>

Begin(t, c, f, to) ==
  /\ Go(t, "idle", to)
  /\ life[c] = "up"
  /\ cl' = [cl EXCEPT ![t] = c]
  /\ fn' = [fn EXCEPT ![t] = f]
  /\ UNCHANGED <<kernel, locks, life, sockfd, fetched, got, again, shared, late>>

\* rpc_client_cobject_get.  Fetching again would free the closures, so the
\* application does it once, before any call.
GetObject(t, c) ==
  /\ c \notin fetched
  /\ \A u \in Callers : pc[u] # "idle" => cl[u] # c
  /\ Begin(t, c, None, "lock")

\* call_rpc_closure
Call(t, c, f) ==
  /\ c \in fetched
  /\ Begin(t, c, f, "closure")

LockClosure(t) ==
  /\ Go(t, "closure", "object")
  /\ fnLock[cl[t]][fn[t]] = None
  /\ fnLock' = [fnLock EXCEPT ![cl[t]][fn[t]] = t]
  /\ UNCHANGED <<kernel, owner, depth, objLock, life, sockfd, fetched, cl, fn, got,
                 again, shared, late>>

LockObject(t) ==
  /\ Go(t, "object", "lock")
  /\ objLock[cl[t]] = None
  /\ objLock' = [objLock EXCEPT ![cl[t]] = t]
  /\ UNCHANGED <<kernel, owner, depth, fnLock, life, sockfd, fetched, cl, fn, got,
                 again, shared, late>>

\* is_object: the call has returned a struct, and asks whether it is an object
AskAgain(t) ==
  /\ Go(t, "done", "lock")
  /\ fn[t] # None
  /\ got[t] # None
  /\ ~again[t]
  /\ again' = [again EXCEPT ![t] = TRUE]
  /\ got' = [got EXCEPT ![t] = None]
  /\ UNCHANGED <<kernel, locks, life, sockfd, fetched, cl, fn, shared, late>>

UnlockClosure(t) ==
  /\ Go(t, "done", "leave")
  /\ fn[t] # None
  /\ fnLock' = [fnLock EXCEPT ![cl[t]][fn[t]] = None]
  /\ UNCHANGED <<kernel, owner, depth, objLock, life, sockfd, fetched, cl, fn, got,
                 again, shared, late>>

Returned(t) ==
  /\ cl' = [cl EXCEPT ![t] = None]
  /\ fn' = [fn EXCEPT ![t] = None]
  /\ got' = [got EXCEPT ![t] = None]
  /\ again' = [again EXCEPT ![t] = FALSE]

UnlockObject(t) ==
  /\ Go(t, "leave", "idle")
  /\ Returned(t)
  /\ objLock' = [objLock EXCEPT ![cl[t]] = None]
  /\ UNCHANGED <<kernel, owner, depth, fnLock, life, sockfd, fetched, shared, late>>

GotObject(t) ==
  /\ Go(t, "done", "idle")
  /\ fn[t] = None
  /\ fetched' = IF got[t] = None THEN fetched ELSE fetched \cup {cl[t]}
  /\ Returned(t)
  /\ UNCHANGED <<kernel, locks, life, sockfd, shared, late>>

\* a wrong tcp_disconnect: tcp->fd keeps its number
NumberKept(c) == UNCHANGED sockfd

NumberCleared(c) == sockfd' = [sockfd EXCEPT ![c] = None]

\* tcp_disconnect, from rpc_client_free.  The application is in no call.
Disconnect(c) ==
  /\ life[c] = "up"
  /\ \A u \in Callers : pc[u] # "idle" => cl[u] # c
  /\ owner[c] = None
  /\ CloseFd(sockfd[c])
  /\ NumberCleared(c)
  /\ life' = [life EXCEPT ![c] = "leaving"]
  /\ late' = IF pc[c] = "ping" THEN late \cup {c} ELSE late
  /\ UNCHANGED <<inFlight, replies, locks, fetched, pc, cl, fn, got, again, shared>>

Free(c) ==
  /\ life[c] = "leaving"
  /\ life' = [life EXCEPT ![c] = "freed"]
  /\ UNCHANGED <<kernel, locks, sockfd, fetched, pc, cl, fn, got, again, shared,
                 late>>

(***************************************************************************)
(* tcp_ping.                                                               *)
(***************************************************************************)
PingTest(c) ==
  /\ Go(c, "test", IF sockfd[c] = None THEN "gone" ELSE "ping")
  /\ UNCHANGED <<kernel, locks, life, sockfd, fetched, cl, fn, got, again, shared,
                 late>>

\* a client that has been freed by now is used all the same ("stale")
PingLock(c) ==
  /\ Go(c, "ping", IF life[c] = "freed" THEN "stale" ELSE "lock")
  /\ TakeLock(c, c)
  /\ UNCHANGED <<kernel, fnLock, objLock, life, sockfd, fetched, cl, fn, got, again,
                 shared, late>>

PingUnlock(c) ==
  /\ Go(c, "done", "sleep")
  /\ ReleaseLock(c)
  /\ got' = [got EXCEPT ![c] = None]
  /\ UNCHANGED <<kernel, fnLock, objLock, life, sockfd, fetched, cl, fn, again, shared,
                 late>>

PingWake(c) ==
  /\ Go(c, "sleep", "test")
  /\ UNCHANGED <<kernel, locks, life, sockfd, fetched, cl, fn, got, again, shared,
                 late>>

-----------------------------------------------------------------------------
Peer(c) == Answer(c) \/ Lose(c)

Exchange(t) ==
  Lock(t) \/ Send(t) \/ SendFails(t) \/ Recv(t) \/ RecvFails(t) \/ Unlock(t)

Closure(t) ==
  LockClosure(t) \/ LockObject(t) \/ AskAgain(t) \/ UnlockClosure(t) \/ UnlockObject(t)
  \/ GotObject(t)

Ping(c) == PingTest(c) \/ PingLock(c) \/ PingUnlock(c) \/ PingWake(c)

Next ==
  \/ \E c \in Clients : Peer(c) \/ Disconnect(c) \/ Free(c) \/ Ping(c)
  \/ \E c \in Clients, n \in Fds : Connect(c, n)
  \/ \E t \in Callers, c \in Clients : GetObject(t, c)
  \/ \E t \in Callers, c \in Clients, f \in Fns : Call(t, c, f)
  \/ \E t \in Threads : Exchange(t)
  \/ \E t \in Callers : Closure(t)

\* Threads go on; a waiting thread gets a lock that is free again and again
\* (the ping thread sleeps seconds between two requests); the server answers
\* what it has received while the connection lasts.
Fairness ==
  /\ \A t \in Threads : WF_vars(Exchange(t)) /\ SF_vars(Lock(t))
  /\ \A t \in Callers : /\ WF_vars(Closure(t))
                        /\ SF_vars(LockClosure(t)) /\ SF_vars(LockObject(t))
  /\ \A c \in Clients : /\ WF_vars(Ping(c)) /\ SF_vars(PingLock(c))
                        /\ WF_vars(Answer(c))

Spec == Init /\ [][Next]_vars /\ Fairness

-----------------------------------------------------------------------------
PCs == {"idle", "closure", "object", "lock", "send", "recv", "unlock", "done", "leave",
        "test", "ping", "sleep", "gone", "stale"}

\* Every variable has its type.
TypeOK ==
  /\ fdtab \in [Fds -> Clients \cup {None}]
  /\ ended \subseteq Clients
  /\ inFlight \in [Clients -> SUBSET Threads]
  /\ replies \in [Clients -> Seq(Threads)]
  /\ life \in [Clients -> {"new", "up", "leaving", "freed"}]
  /\ sockfd \in [Clients -> Fds \cup {None}]
  /\ owner \in [Clients -> Threads \cup {None}]
  /\ depth \in [Clients -> Nat]
  /\ fetched \subseteq Clients
  /\ fnLock \in [Clients -> [Fns -> Callers \cup {None}]]
  /\ objLock \in [Clients -> Callers \cup {None}]
  /\ pc \in [Threads -> PCs]
  /\ cl \in [Threads -> Clients \cup {None}]
  /\ fn \in [Threads -> Fns \cup {None}]
  /\ got \in [Threads -> Threads \cup {None}]
  /\ again \in [Threads -> BOOLEAN]
  /\ shared \in BOOLEAN
  /\ late \subseteq Clients

\* The lock pairs requests and replies: a reply goes to the thread whose request
\* it answers, and when a request is sent nothing of an earlier one is left in
\* the connection; however calls, pings and the server's jobs interleave, as
\* long as no number of a lost connection has gone to another client.
OwnReply ==
  ~shared =>
    \A t \in Threads :
      /\ got[t] \in {None, t}
      /\ pc[t] = "send" /\ Conn(t) \notin ended \cup {None} =>
           inFlight[Conn(t)] = {} /\ replies[Conn(t)] = <<>>

\* Every call returns, through closures of one object that share its lock and
\* a socket that is shared with the ping thread, when the server answers.
CallReturns == \A t \in Callers : pc[t] # "idle" ~> pc[t] = "idle"

\* The ping thread of a freed client comes to its end, without using the client
\* any more, unless the client disconnected between its test of tcp->fd and its
\* lock (rpc_client.c:97-98).
PingEnds == \A c \in Clients : life[c] = "freed" ~> pc[c] = "gone" \/ c \in late
=============================================================================
