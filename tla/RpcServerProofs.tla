---------------------------- MODULE RpcServerProofs ----------------------------
(***************************************************************************)
(* Proofs about RpcServer, for any number of clients, descriptors, workers *)
(* and requests: its type invariant, the lock, that session data belongs   *)
(* to the persons and outlives the jobs that use it, that queued requests  *)
(* are always handed on, and that no open connection drops out of the poll *)
(* set.                                                                    *)
(***************************************************************************)
EXTENDS RpcServer, SequenceTheorems, TLAPS

AcceptPC == {"accept", "add", "create", "discon", "wait", "done"}
PollPC   == {"scan", "entry", "read", "notify", "readShut", "readClose",
             "hup", "discon", "wait", "shut", "close", "done", "crashed"}
StopPC   == {"serving", "join", "free", "discon", "wait", "shut", "close",
             "stopped", "crashed"}

\* the poll thread is busy with an entry, or has the lock
AtEntry   == {"read", "notify", "readShut", "readClose", "hup", "discon", "wait",
              "shut", "close"}
Locked(t) ==
  \/ pc[t] = "wait"
  \/ t = "poll" /\ pc[t] \in {"read", "notify", "readShut", "readClose"}

\* the accept thread has a new connection that is not a person yet
Accepting == pc["accept"] \in {"add", "create", "discon", "wait"}

\* TypeOK, and what it leaves open: the threads, the first index, and that no
\* more requests are unread than have been sent
Typed ==
  /\ TypeOK
  /\ pc \in [Threads -> AcceptPC \cup PollPC \cup StopPC]
  /\ idx \in [Threads -> Nat \ {0}]
  /\ \A c \in Conns : inbox[c] <= sent[c]

\* A thread inside net_read or net_discon has global_lock.
LockInv == \A t \in Threads : Locked(t) => glock = t

\* The poll thread is busy with the descriptor of the entry it is at.
EntryInv ==
  pc["poll"] \in AtEntry =>
    /\ idx["poll"] <= Len(pollset)
    /\ pollset[idx["poll"]].fd = fd["poll"]

\* The table reaches over every descriptor in use, but for the newest.
TableInv ==
  /\ \A f \in Fds : fdtab[f] # NoConn => f < alloc \/ (Accepting /\ f = fd["accept"])
  /\ Accepting => fd["accept"] <= alloc
  /\ \A f \in Fds : persons[f] # NoConn => f < alloc

\* Each person is in one slot; a connection that is being accepted is in none.
PersonInv ==
  /\ \A f, g \in Fds : persons[f] # NoConn /\ persons[f] = persons[g] => f = g
  /\ \A f \in Fds : persons[f] # NoConn => link[persons[f]] \in {"open", "closed"}
  /\ Accepting => /\ newcomer \in Conns
                  /\ link[newcomer] \in {"open", "closed"}
                  /\ \A f \in Fds : persons[f] # newcomer

\* The inductive invariant.
Inv ==
  /\ Typed
  /\ LockInv
  /\ EntryInv
  /\ TableInv
  /\ PersonInv
  /\ DataOfPersons
  /\ JobsHaveData
  /\ RequestsDrained
  /\ OpenIsWatched

-----------------------------------------------------------------------------
\* The steps of the system, by action.
LEMMA NextCases ==
  ASSUME [Next]_vars
  PROVE  \/ \E c \in Conns : Connect(c) \/ SendRequest(c) \/ HangUp(c) \/ Accept(c)
         \/ AcceptFails \/ AddFd \/ CreatePerson
         \/ \E t \in Threads : DisconLock(t) \/ Discon(t)
         \/ \E t \in {"poll", "stop"} : DisconOutside(t) \/ ShutFd(t)
         \/ Scan \/ ScanEnd \/ Entry \/ LastEntry
         \/ ReadRequest \/ ReadFails \/ Notify \/ TestHup \/ ReadClose \/ PollClose
         \/ StopBegin \/ StopJoin \/ StopEntry \/ StopClose
         \/ \E w \in Workers : TakeJob(w) \/ Handle(w) \/ Reply(w) \/ JobShut(w) \/ JobClose(w)
         \/ UNCHANGED vars
BY DEF Next, ClientStep, AcceptStep, PollStep, StopStep, WorkerStep, Over, Threads

\* Closing a number leaves the tables of the kernel as they should be.
LEMMA Closing ==
  ASSUME Typed, NEW f \in Fds, Close(f)
  PROVE  /\ fdtab' \in [Fds -> Conns \cup {NoConn}]
         /\ link' \in [Conns -> {"out", "backlog", "open", "closed"}]
         /\ fdtab'[f] = NoConn
         /\ \A g \in Fds : fdtab'[g] # NoConn => (fdtab[g] # NoConn /\ g # f)
         /\ \A c \in Conns : link[c] \in {"open", "closed"} => link'[c] \in {"open", "closed"}
<1>1. /\ fdtab' = [fdtab EXCEPT ![f] = NoConn]
      /\ link' = [c \in Conns |-> IF c = fdtab[f] THEN "closed" ELSE link[c]]
  BY DEF Close
<1> QED BY <1>1 DEF Typed, TypeOK

\* A job has the number of a descriptor.
LEMMA JobNumber ==
  ASSUME Typed, NEW w \in Workers
  PROVE  wjob[w].fd \in Fds
<1>1. wjob[w] \in Job \cup {NoJob}
  BY DEF Typed, TypeOK
<1> QED BY <1>1, ServerAssumption DEF Job, NoJob, Fds

\* The jobs of one person's requests are alike.
LEMMA SameEntries ==
  ASSUME NEW S, NEW s \in S, NEW n \in Nat
  PROVE  [i \in 1 .. n |-> s] \in Seq(S)
OBVIOUS

\* An entry of the poll set has the number of a descriptor.
LEMMA EntryNumber ==
  ASSUME Typed, NEW i \in 1 .. Len(pollset)
  PROVE  pollset[i].fd \in Fds
<1>1. pollset \in Seq([fd : Fds, rev : SUBSET {"in", "hup"}])
  BY DEF Typed, TypeOK
<1>2. pollset[i] \in [fd : Fds, rev : SUBSET {"in", "hup"}]
  BY <1>1, ElementOfSeq
<1> QED BY <1>2

\* poll(2) only fills in revents.
LEMMA ScanKeepsEntries ==
  ASSUME Typed, Scan
  PROVE  /\ pollset' \in Seq([fd : Fds, rev : SUBSET {"in", "hup"}])
         /\ Len(pollset') = Len(pollset)
         /\ \A i \in 1 .. Len(pollset) : pollset'[i].fd = pollset[i].fd
<1>1. pollset' = [i \in 1 .. Len(pollset) |->
                    [pollset[i] EXCEPT !.rev = Revents(pollset[i].fd)]]
  BY DEF Scan, Typed, TypeOK
<1>2. ASSUME NEW i \in 1 .. Len(pollset)
      PROVE  /\ pollset'[i] \in [fd : Fds, rev : SUBSET {"in", "hup"}]
             /\ pollset'[i].fd = pollset[i].fd
  <2>1. pollset[i] \in [fd : Fds, rev : SUBSET {"in", "hup"}]
    BY ElementOfSeq DEF Typed, TypeOK
  <2>2. Revents(pollset[i].fd) \in SUBSET {"in", "hup"}
    BY DEF Revents
  <2>3. pollset'[i] = [pollset[i] EXCEPT !.rev = Revents(pollset[i].fd)]
    BY <1>1
  <2> QED BY <2>1, <2>2, <2>3
<1>3. Len(pollset) \in Nat
  BY DEF Typed, TypeOK
<1>4. pollset' \in Seq([fd : Fds, rev : SUBSET {"in", "hup"}]) /\ Len(pollset') = Len(pollset)
  BY <1>1, <1>2, <1>3
<1> QED BY <1>2, <1>4

\* Taking an entry out of the poll set leaves the others.
LEMMA Removing ==
  ASSUME NEW S, NEW s \in Seq(S), NEW i \in 1 .. Len(s)
  PROVE  /\ RemoveAt(s, i) \in Seq(S)
         /\ \A j \in 1 .. Len(s) : j # i =>
              \E k \in 1 .. Len(RemoveAt(s, i)) : RemoveAt(s, i)[k] = s[j]
<1> DEFINE a == SubSeq(s, 1, i - 1)
           b == SubSeq(s, i + 1, Len(s))
<1>1. RemoveAt(s, i) = a \o b
  BY DEF RemoveAt
<1>2. a \in Seq(S) /\ Len(a) = i - 1 /\ \A k \in 1 .. i - 1 : a[k] = s[k]
  OBVIOUS
<1>3. /\ b \in Seq(S) /\ Len(b) = Len(s) - i
      /\ \A k \in 1 .. Len(s) - i : b[k] = s[i + k]
  OBVIOUS
<1> HIDE DEF a, b
<1>4. a \o b \in Seq(S) /\ Len(a \o b) = Len(s) - 1
  <2>1. a \o b \in Seq(S) /\ Len(a \o b) = Len(a) + Len(b)
    BY <1>2, <1>3, ConcatProperties
  <2> QED BY <2>1, <1>2, <1>3
<1>5. ASSUME NEW j \in 1 .. Len(s), j # i
      PROVE  \E k \in 1 .. Len(a \o b) : (a \o b)[k] = s[j]
  <2>1. CASE j < i
    <3>1. j \in 1 .. Len(a \o b) /\ (a \o b)[j] = a[j] /\ a[j] = s[j]
      BY <2>1, <1>2, <1>3, <1>4, ConcatProperties
    <3> QED BY <3>1
  <2>2. CASE j > i
    <3>1. j - 1 \in 1 .. Len(a \o b) /\ (a \o b)[j - 1] = b[j - i]
      BY <2>2, <1>2, <1>3, <1>4, ConcatProperties
    <3>2. b[j - i] = s[j]
      BY <2>2, <1>3
    <3> QED BY <3>1, <3>2
  <2> QED BY <1>5, <2>1, <2>2
<1> QED BY <1>1, <1>4, <1>5
-----------------------------------------------------------------------------
(* Type correctness.                                                       *)

\* Every step keeps the types.  That a queue never holds more requests than a
\* client may send needs RequestsDrained, the entry the poll thread is at
\* EntryInv.
LEMMA TypeStep ==
  Typed /\ LockInv /\ EntryInv /\ PersonInv /\ RequestsDrained /\ [Next]_vars => Typed'
<1> SUFFICES ASSUME Typed, LockInv, EntryInv, PersonInv, RequestsDrained, [Next]_vars
             PROVE  Typed'
  OBVIOUS
<1> USE ServerAssumption
    DEF Typed, TypeOK, Threads, AcceptPC, PollPC, StopPC, Go, GoWorker,
        kernel, poller, tables, threads, pool
<1>1. ASSUME NEW c \in Conns, Connect(c) \/ SendRequest(c) \/ HangUp(c) PROVE Typed'
  <2>1. CASE Connect(c)
    BY <2>1 DEF Connect
  <2>2. CASE SendRequest(c)
    BY <2>2 DEF SendRequest
  <2>3. CASE HangUp(c)
    BY <2>3 DEF HangUp
  <2> QED BY <1>1, <2>1, <2>2, <2>3
<1>2. ASSUME NEW c \in Conns, Accept(c) PROVE Typed'
  <2>1. PICK f \in Fds : fdtab' = [fdtab EXCEPT ![f] = c] /\ fd' = [fd EXCEPT !["accept"] = f]
    BY <1>2 DEF Accept
  <2>2. /\ fdtab' \in [Fds -> Conns \cup {NoConn}]
        /\ fd' \in [Threads -> Fds]
    BY <2>1
  <2> QED BY <1>2, <2>2 DEF Accept
<1>3. CASE AcceptFails
  BY <1>3 DEF AcceptFails
<1>4. CASE AddFd
  <2>1. [fd |-> fd["accept"], rev |-> {}] \in [fd : Fds, rev : SUBSET {"in", "hup"}]
    OBVIOUS
  <2>2. pollset' \in Seq([fd : Fds, rev : SUBSET {"in", "hup"}])
    BY <1>4, <2>1, AppendProperties DEF AddFd
  <2> QED BY <1>4, <2>2 DEF AddFd
<1>5. CASE CreatePerson
  BY <1>5 DEF CreatePerson, PersonInv, Accepting
<1>6. ASSUME NEW t \in Threads, DisconLock(t) PROVE Typed'
  BY <1>6 DEF DisconLock
<1>7. ASSUME NEW t \in Threads, Discon(t) PROVE Typed'
  <2>1. /\ persons' \in [Fds -> Conns \cup {NoConn}]
        /\ requests' \in [Conns -> 0 .. MaxRequests]
        /\ persondata' \subseteq Conns
    BY <1>7 DEF Discon
  <2>2. /\ pc' \in [Threads -> AcceptPC \cup PollPC \cup StopPC]
        /\ pc["accept"]' \in AcceptPC /\ pc["poll"]' \in PollPC /\ pc["stop"]' \in StopPC
    BY <1>7 DEF Discon
  <2> QED BY <1>7, <2>1, <2>2 DEF Discon
<1>8. ASSUME NEW t \in {"poll", "stop"}, DisconOutside(t) PROVE Typed'
  BY <1>8 DEF DisconOutside
<1>9. ASSUME NEW t \in {"poll", "stop"}, ShutFd(t) PROVE Typed'
  <2>1. ended' \subseteq Conns
    BY <1>9 DEF ShutFd, Shutdown
  <2>2. /\ pc' \in [Threads -> AcceptPC \cup PollPC \cup StopPC]
        /\ pc["accept"]' \in AcceptPC /\ pc["poll"]' \in PollPC /\ pc["stop"]' \in StopPC
    BY <1>9 DEF ShutFd
  <2> QED BY <1>9, <2>1, <2>2 DEF ShutFd
<1>10. CASE Scan
  <2>1. pollset' \in Seq([fd : Fds, rev : SUBSET {"in", "hup"}])
    BY <1>10, ScanKeepsEntries
  <2> QED BY <1>10, <2>1 DEF Scan
<1>11. CASE ScanEnd \/ LastEntry
  BY <1>11 DEF ScanEnd, LastEntry
<1>12. CASE Entry
  <2>1. idx["poll"] \in 1 .. Len(pollset)
    BY <1>12 DEF Entry
  <2>2. pollset[idx["poll"]].fd \in Fds
    BY <2>1, EntryNumber
  <2>3. fd' \in [Threads -> Fds]
    BY <1>12, <2>2 DEF Entry
  <2> QED BY <1>12, <2>3 DEF Entry
<1>13. CASE ReadRequest
  BY <1>13 DEF ReadRequest, Known, Arrived, RequestsDrained
<1>14. CASE ReadFails
  BY <1>14 DEF ReadFails
<1>15. CASE Notify
  <2> DEFINE p == persons[fd["poll"]]
  <2>1. p \in Conns
    BY <1>15 DEF Notify
  <2>2. requests' \in [Conns -> 0 .. MaxRequests]
    BY <1>15, <2>1 DEF Notify, Drained
  <2>3. [i \in 1 .. requests[p] |-> [person |-> p, fd |-> fd["poll"]]] \in Seq(Job)
    <3>1. requests[p] \in Nat /\ [person |-> p, fd |-> fd["poll"]] \in Job
      BY <2>1 DEF Job
    <3> QED BY <3>1, SameEntries
  <2>4. jobs' \in Seq(Job)
    BY <1>15, <2>3, ConcatProperties DEF Notify
  <2> QED BY <1>15, <2>2, <2>4 DEF Notify
<1>16. CASE TestHup
  BY <1>16 DEF TestHup
<1>17. CASE ReadClose
  BY <1>17, Closing DEF ReadClose
<1>18. CASE PollClose
  <2>1. /\ fdtab' \in [Fds -> Conns \cup {NoConn}]
        /\ link' \in [Conns -> {"out", "backlog", "open", "closed"}]
    BY <1>18, Closing DEF PollClose
  <2>2. pollset' \in Seq([fd : Fds, rev : SUBSET {"in", "hup"}])
    <3>1. idx["poll"] \in 1 .. Len(pollset)
      BY <1>18 DEF PollClose, EntryInv, AtEntry
    <3>2. pollset' = RemoveAt(pollset, idx["poll"])
      BY <1>18 DEF PollClose, Removed
    <3> QED BY <3>1, <3>2, Removing
  <2> QED BY <1>18, <2>1, <2>2 DEF PollClose
<1>19. CASE StopBegin \/ StopJoin
  <2>1. pc["stop"]' \in StopPC /\ pc' \in [Threads -> AcceptPC \cup PollPC \cup StopPC]
    BY <1>19 DEF StopBegin, StopJoin
  <2>2. pc["accept"]' = pc["accept"] /\ pc["poll"]' = pc["poll"] /\ active' \in BOOLEAN
    BY <1>19 DEF StopBegin, StopJoin
  <2> QED BY <1>19, <2>1, <2>2 DEF StopBegin, StopJoin
<1>20. CASE StopEntry
  <2>1. fd' \in [Threads -> Fds]
    <3>1. idx["stop"] <= Len(pollset) => pollset[idx["stop"]].fd \in Fds
      BY EntryNumber
    <3> QED BY <1>20, <3>1 DEF StopEntry
  <2> QED BY <1>20, <2>1 DEF StopEntry
<1>21. CASE StopClose
  <2>1. /\ fdtab' \in [Fds -> Conns \cup {NoConn}]
        /\ link' \in [Conns -> {"out", "backlog", "open", "closed"}]
    BY <1>21, Closing DEF StopClose
  <2> QED BY <1>21, <2>1 DEF StopClose
<1>22. ASSUME NEW w \in Workers, TakeJob(w) PROVE Typed'
  <2>1. Head(jobs) \in Job /\ Tail(jobs) \in Seq(Job)
    BY <1>22 DEF TakeJob
  <2>2. jobs' \in Seq(Job) /\ wjob' \in [Workers -> Job \cup {NoJob}]
    BY <1>22, <2>1 DEF TakeJob
  <2> QED BY <1>22, <2>2 DEF TakeJob
<1>23. ASSUME NEW w \in Workers, Handle(w) \/ Reply(w) PROVE Typed'
  BY <1>23 DEF Handle, Reply
<1>24. ASSUME NEW w \in Workers, JobShut(w) PROVE Typed'
  <2>1. ended' \subseteq Conns
    BY <1>24, JobNumber DEF JobShut, Shutdown
  <2> QED BY <1>24, <2>1 DEF JobShut
<1>25. ASSUME NEW w \in Workers, JobClose(w) PROVE Typed'
  <2>1. /\ fdtab' \in [Fds -> Conns \cup {NoConn}]
        /\ link' \in [Conns -> {"out", "backlog", "open", "closed"}]
    BY <1>25, Closing, JobNumber DEF JobClose
  <2> QED BY <1>25, <2>1 DEF JobClose
<1>26. CASE UNCHANGED vars
  BY <1>26 DEF vars
<1> QED
  BY NextCases, <1>1, <1>2, <1>3, <1>4, <1>5, <1>6, <1>7, <1>8, <1>9, <1>10, <1>11, <1>12,
     <1>13, <1>14, <1>15, <1>16, <1>17, <1>18, <1>19, <1>20, <1>21, <1>22, <1>23, <1>24,
     <1>25, <1>26

-----------------------------------------------------------------------------
(* The lock, the poll thread's entry, the table and the persons.           *)

\* The steps that leave the three threads and the lock alone.
LEMMA Elsewhere ==
  ASSUME \/ \E c \in Conns : Connect(c) \/ SendRequest(c) \/ HangUp(c)
         \/ \E w \in Workers : TakeJob(w) \/ Handle(w) \/ Reply(w) \/ JobShut(w) \/ JobClose(w)
         \/ UNCHANGED vars
  PROVE  UNCHANGED <<poller, glock, tables, threads>>
BY DEF Connect, SendRequest, HangUp, TakeJob, Handle, Reply, JobShut, JobClose, vars, threads,
       tables, poller

\* global_lock is taken when it is free, and kept.
LEMMA LockStep == Typed /\ LockInv /\ [Next]_vars => LockInv'
<1> SUFFICES ASSUME Typed, LockInv, [Next]_vars PROVE LockInv'
  OBVIOUS
<1>t. pc \in [Threads -> AcceptPC \cup PollPC \cup StopPC]
  BY DEF Typed
<1> USE <1>t DEF LockInv, Locked, Threads, Go
<1>1. CASE UNCHANGED <<poller, glock, tables, threads>>
  BY <1>1 DEF threads
<1>2. ASSUME NEW c \in Conns, Accept(c) PROVE LockInv'
  BY <1>2 DEF Accept
<1>3. CASE AcceptFails \/ AddFd
  BY <1>3 DEF AcceptFails, AddFd
<1>4. CASE CreatePerson
  BY <1>4 DEF CreatePerson
<1>5. ASSUME NEW t \in Threads, DisconLock(t) \/ Discon(t) PROVE LockInv'
  BY <1>5 DEF DisconLock, Discon
<1>6. ASSUME NEW t \in {"poll", "stop"}, DisconOutside(t) \/ ShutFd(t) PROVE LockInv'
  BY <1>6 DEF DisconOutside, ShutFd
<1>7. CASE Scan \/ ScanEnd \/ LastEntry
  BY <1>7 DEF Scan, ScanEnd, LastEntry
<1>8. CASE Entry
  BY <1>8 DEF Entry
<1>9. CASE ReadRequest \/ ReadFails
  BY <1>9 DEF ReadRequest, ReadFails
<1>10. CASE Notify \/ ReadClose
  BY <1>10 DEF Notify, ReadClose
<1>11. CASE TestHup \/ PollClose
  BY <1>11 DEF TestHup, PollClose
<1>12. CASE StopBegin \/ StopJoin
  BY <1>12 DEF StopBegin, StopJoin
<1>13. CASE StopEntry \/ StopClose
  BY <1>13 DEF StopEntry, StopClose
<1> QED
  BY NextCases, Elsewhere, <1>1, <1>2, <1>3, <1>4, <1>5, <1>6, <1>7, <1>8, <1>9, <1>10,
     <1>11, <1>12, <1>13

\* Entries come at the end and go where the poll thread is, so the entry it is
\* at stays in its place.
LEMMA EntryStep == Typed /\ EntryInv /\ [Next]_vars => EntryInv'
<1> SUFFICES ASSUME Typed, EntryInv, [Next]_vars PROVE EntryInv'
  OBVIOUS
<1>t. /\ pc \in [Threads -> AcceptPC \cup PollPC \cup StopPC]
      /\ fd \in [Threads -> Fds]
      /\ idx \in [Threads -> Nat \ {0}]
      /\ Len(pollset) \in Nat
  BY DEF Typed, TypeOK
<1> USE <1>t DEF EntryInv, AtEntry, Threads, Go
<1>1. CASE UNCHANGED <<poller, glock, tables, threads>>
  BY <1>1 DEF poller, threads
<1>2. ASSUME NEW c \in Conns, Accept(c) PROVE EntryInv'
  BY <1>2 DEF Accept, poller
<1>3. CASE AcceptFails \/ CreatePerson
  BY <1>3 DEF AcceptFails, CreatePerson, poller
<1>4. CASE AddFd
  <2>1. CASE active
    <3> DEFINE e == [fd |-> fd["accept"], rev |-> {}]
    <3>1. pollset' = Append(pollset, e) /\ UNCHANGED <<pc["poll"], fd, idx>>
      BY <1>4, <2>1 DEF AddFd
    <3>2. pollset \in Seq([fd : Fds, rev : SUBSET {"in", "hup"}])
      BY DEF Typed, TypeOK
    <3> HIDE DEF e
    <3>3. /\ Len(pollset') = Len(pollset) + 1
          /\ \A i \in 1 .. Len(pollset) : pollset'[i] = pollset[i]
      BY <3>1, <3>2
    <3> QED BY <3>1, <3>3
  <2>2. CASE ~active
    BY <1>4, <2>2 DEF AddFd
  <2> QED BY <2>1, <2>2
<1>5. ASSUME NEW t \in Threads, DisconLock(t) \/ Discon(t) PROVE EntryInv'
  BY <1>5 DEF DisconLock, Discon, poller
<1>6. ASSUME NEW t \in {"poll", "stop"}, DisconOutside(t) \/ ShutFd(t) PROVE EntryInv'
  BY <1>6 DEF DisconOutside, ShutFd, poller
<1>7. CASE Scan \/ ScanEnd \/ LastEntry
  BY <1>7 DEF Scan, ScanEnd, LastEntry, poller
<1>8. CASE Entry
  BY <1>8 DEF Entry, poller
<1>9. CASE ReadRequest \/ ReadFails
  BY <1>9 DEF ReadRequest, ReadFails, poller
<1>10. CASE Notify \/ ReadClose
  BY <1>10 DEF Notify, ReadClose, poller
<1>11. CASE TestHup \/ PollClose
  BY <1>11 DEF TestHup, PollClose, poller
<1>12. CASE StopBegin \/ StopJoin
  BY <1>12 DEF StopBegin, StopJoin, poller
<1>13. CASE StopEntry \/ StopClose
  BY <1>13 DEF StopEntry, StopClose, poller
<1> QED
  BY NextCases, Elsewhere, <1>1, <1>2, <1>3, <1>4, <1>5, <1>6, <1>7, <1>8, <1>9, <1>10,
     <1>11, <1>12, <1>13

\* A descriptor is closed by ReadClose, PollClose, StopClose and JobClose.
LEMMA Closers ==
  ASSUME Typed,
         \/ ReadClose \/ PollClose \/ StopClose
         \/ \E w \in Workers : JobClose(w)
  PROVE  /\ \E f \in Fds : Close(f)
         /\ UNCHANGED <<active, tables, fd, newcomer, pc["accept"]>>
<1>1. /\ fd \in [Threads -> Fds]
      /\ pc \in [Threads -> AcceptPC \cup PollPC \cup StopPC]
  BY DEF Typed, TypeOK
<1> QED BY <1>1, JobNumber DEF ReadClose, PollClose, StopClose, JobClose, Go, Threads, poller, threads

\* The steps that neither open nor close a connection, nor touch the tables; of
\* the accept thread's there are two, in the midst of an accept.
LEMMA Quiet ==
  ASSUME Typed,
         \/ \E c \in Conns : SendRequest(c) \/ HangUp(c)
         \/ AddFd
         \/ \E t \in Threads : DisconLock(t)
         \/ \E t \in {"poll", "stop"} : DisconOutside(t) \/ ShutFd(t)
         \/ Scan \/ ScanEnd \/ Entry \/ LastEntry \/ ReadFails \/ TestHup
         \/ StopBegin \/ StopJoin \/ StopEntry
         \/ \E w \in Workers : TakeJob(w) \/ Handle(w) \/ Reply(w) \/ JobShut(w)
         \/ UNCHANGED vars
  PROVE  /\ UNCHANGED <<link, fdtab, tables, newcomer, fd["accept"], Accepting>>
<1>1. /\ fd \in [Threads -> Fds]
      /\ pc \in [Threads -> AcceptPC \cup PollPC \cup StopPC]
  BY DEF Typed, TypeOK
<1> USE <1>1 DEF Threads, Accepting, Go, kernel, threads
<1>2. CASE \/ \E c \in Conns : SendRequest(c) \/ HangUp(c)
           \/ \E w \in Workers : TakeJob(w) \/ Handle(w) \/ Reply(w) \/ JobShut(w)
           \/ UNCHANGED vars
  BY <1>2 DEF SendRequest, HangUp, TakeJob, Handle, Reply, JobShut, vars
<1>3. CASE AddFd \/ \E t \in Threads : DisconLock(t)
  BY <1>3 DEF AddFd, DisconLock
<1>4. CASE \E t \in {"poll", "stop"} : DisconOutside(t) \/ ShutFd(t)
  BY <1>4 DEF DisconOutside, ShutFd
<1>5. CASE Scan \/ ScanEnd \/ LastEntry
  BY <1>5 DEF Scan, ScanEnd, LastEntry
<1>6. CASE Entry
  BY <1>6 DEF Entry
<1>7. CASE ReadFails \/ TestHup
  BY <1>7 DEF ReadFails, TestHup
<1>8. CASE StopBegin \/ StopJoin
  BY <1>8 DEF StopBegin, StopJoin
<1>9. CASE StopEntry
  BY <1>9 DEF StopEntry
<1> QED BY <1>2, <1>3, <1>4, <1>5, <1>6, <1>7, <1>8, <1>9

\* accept(2) gives the lowest free number, so the table is at most one short.
LEMMA TableStep == Typed /\ TableInv /\ [Next]_vars => TableInv'
<1> SUFFICES ASSUME Typed, TableInv, [Next]_vars PROVE TableInv'
  OBVIOUS
<1>t. /\ pc \in [Threads -> AcceptPC \cup PollPC \cup StopPC]
      /\ fd \in [Threads -> Fds]
      /\ fdtab \in [Fds -> Conns \cup {NoConn}]
      /\ persons \in [Fds -> Conns \cup {NoConn}]
      /\ alloc \in Nat
      /\ Grow \in Nat \ {0} /\ MaxFd \in Nat /\ NoConn \notin Conns
  BY ServerAssumption DEF Typed, TypeOK
<1>1. CASE UNCHANGED <<link, fdtab, tables, newcomer, fd["accept"], Accepting>>
  BY <1>1 DEF TableInv, tables
<1>2. CASE \/ ReadClose \/ PollClose \/ StopClose
           \/ \E w \in Workers : JobClose(w)
  <2>1. PICK f \in Fds : Close(f)
    BY <1>2, Closers
  <2>2. \A g \in Fds : fdtab'[g] # NoConn => fdtab[g] # NoConn
    BY <2>1, Closing
  <2>3. UNCHANGED <<tables, fd, pc["accept"]>>
    BY <1>2, Closers
  <2> QED BY <2>2, <2>3 DEF TableInv, tables, Accepting
<1>3. ASSUME NEW c \in Conns, Accept(c) PROVE TableInv'
  <2>1. PICK f \in Fds : /\ LowestFree(f)
                         /\ fdtab' = [fdtab EXCEPT ![f] = c]
                         /\ fd' = [fd EXCEPT !["accept"] = f]
    BY <1>3 DEF Accept
  <2>2. UNCHANGED <<persons, alloc>> /\ ~Accepting /\ Accepting'
    BY <1>3, <1>t DEF Accept, tables, Accepting, Go, Threads
  <2>3. f <= alloc
    <3>1. CASE f = 0
      BY <3>1, <1>t
    <3>2. CASE f # 0
      <4>1. f - 1 \in Fds /\ f - 1 \in 0 .. f - 1
        BY <3>2, <1>t DEF Fds
      <4>2. fdtab[f - 1] # NoConn
        BY <4>1, <2>1 DEF LowestFree
      <4> QED BY <4>1, <4>2, <2>2, <1>t DEF TableInv, Fds
    <3> QED BY <3>1, <3>2
  <2>4. fd'["accept"] = f
    BY <2>1, <1>t DEF Threads
  <2> QED BY <1>t, <2>1, <2>2, <2>3, <2>4 DEF TableInv
<1>4. CASE CreatePerson
  <2> DEFINE f == fd["accept"]
  <2>1. f \in Fds /\ Accepting /\ f <= alloc
    BY <1>4, <1>t DEF CreatePerson, Go, Accepting, Threads, TableInv
  <2>2. alloc' \in Nat /\ alloc <= alloc' /\ f < alloc'
    BY <1>4, <1>t, <2>1 DEF CreatePerson, Fds
  <2>3. UNCHANGED <<fdtab, fd>>
    BY <1>4 DEF CreatePerson, kernel
  <2>4. \A g \in Fds : persons'[g] # NoConn => (persons[g] # NoConn \/ g = f)
    BY <1>4, <1>t, <2>1 DEF CreatePerson
  <2> QED BY <1>t, <2>1, <2>2, <2>3, <2>4 DEF TableInv, Fds
<1>5. CASE AcceptFails \/ ReadRequest \/ Notify
  BY <1>5, <1>t DEF AcceptFails, ReadRequest, Notify, TableInv, Go, Accepting, Threads, kernel, tables
<1>6. ASSUME NEW t \in Threads, Discon(t) PROVE TableInv'
  <2>1. UNCHANGED <<fdtab, alloc, fd, Accepting>>
    BY <1>6, <1>t DEF Discon, kernel, Accepting, Go, Threads
  <2>2. \A g \in Fds : persons'[g] # NoConn => persons[g] # NoConn
    BY <1>6, <1>t DEF Discon
  <2> QED BY <2>1, <2>2 DEF TableInv
<1>7. ASSUME NEW c \in Conns, Connect(c) PROVE TableInv'
  BY <1>7 DEF Connect, TableInv, Accepting, tables, threads
<1> QED
  BY NextCases, Quiet, <1>1, <1>2, <1>3, <1>4, <1>5, <1>6, <1>7

\* A connection becomes a person once, in one slot, and keeps it until it is
\* disconnected.
LEMMA PersonStep == Typed /\ PersonInv /\ [Next]_vars => PersonInv'
<1> SUFFICES ASSUME Typed, PersonInv, [Next]_vars PROVE PersonInv'
  OBVIOUS
<1>t. /\ pc \in [Threads -> AcceptPC \cup PollPC \cup StopPC]
      /\ fd \in [Threads -> Fds]
      /\ link \in [Conns -> {"out", "backlog", "open", "closed"}]
      /\ persons \in [Fds -> Conns \cup {NoConn}]
      /\ newcomer \in Conns \cup {NoConn}
      /\ alloc \in Nat
      /\ NoConn \notin Conns
  BY ServerAssumption DEF Typed, TypeOK
<1>1. CASE UNCHANGED <<link, fdtab, tables, newcomer, fd["accept"], Accepting>>
  BY <1>1 DEF PersonInv, tables
<1>2. CASE \/ ReadClose \/ PollClose \/ StopClose
           \/ \E w \in Workers : JobClose(w)
  <2>1. PICK f \in Fds : Close(f)
    BY <1>2, Closers
  <2>2. \A c \in Conns : link[c] \in {"open", "closed"} => link'[c] \in {"open", "closed"}
    BY <2>1, Closing
  <2>3. UNCHANGED <<persons, newcomer, Accepting>>
    BY <1>2, Closers DEF tables, Accepting
  <2> QED BY <1>t, <2>2, <2>3 DEF PersonInv
<1>3. ASSUME NEW c \in Conns, Accept(c) PROVE PersonInv'
  <2>1. /\ link[c] = "backlog" /\ link' = [link EXCEPT ![c] = "open"]
        /\ newcomer' = c /\ UNCHANGED persons
    BY <1>3 DEF Accept, tables
  <2> QED BY <1>t, <2>1 DEF PersonInv
<1>4. CASE CreatePerson
  <2> DEFINE f == fd["accept"]
  <2>1. f \in Fds /\ Accepting
    BY <1>4, <1>t DEF CreatePerson, Go, Accepting, Threads
  <2>2. UNCHANGED <<link, newcomer>>
    BY <1>4 DEF CreatePerson, kernel
  <2>3. CASE SlotTaken(f)
    BY <1>4, <2>1, <2>2, <2>3 DEF CreatePerson, PersonInv
  <2>4. CASE ~SlotTaken(f)
    <3>1. persons' = [persons EXCEPT ![f] = newcomer]
      BY <1>4, <2>4 DEF CreatePerson
    <3>2. ~Accepting'
      BY <1>4, <2>4, <1>t DEF CreatePerson, Go, Accepting, Threads
    <3> QED BY <1>t, <2>1, <2>2, <3>1, <3>2 DEF PersonInv
  <2> QED BY <2>3, <2>4
<1>5. CASE AcceptFails \/ ReadRequest \/ Notify
  <2>1. UNCHANGED <<link, persons, newcomer>> /\ (Accepting' => Accepting)
    BY <1>5, <1>t DEF AcceptFails, ReadRequest, Notify, Go, Accepting, Threads, kernel, tables
  <2> QED BY <2>1 DEF PersonInv
<1>6. ASSUME NEW t \in Threads, Discon(t) PROVE PersonInv'
  <2>1. UNCHANGED <<link, newcomer, Accepting>>
    BY <1>6, <1>t DEF Discon, kernel, Accepting, Go, Threads
  <2>2. \A g \in Fds : persons'[g] \in {persons[g], NoConn}
    BY <1>6, <1>t DEF Discon
  <2> QED BY <1>t, <2>1, <2>2 DEF PersonInv
<1>7. ASSUME NEW c \in Conns, Connect(c) PROVE PersonInv'
  BY <1>t, <1>7 DEF Connect, PersonInv, Accepting, tables, threads
<1> QED
  BY NextCases, Quiet, <1>1, <1>2, <1>3, <1>4, <1>5, <1>6, <1>7

-----------------------------------------------------------------------------
(* Session data, jobs and queued requests.                                 *)

\* The steps that leave the persons and their data alone: all but net_accept
\* and net_discon.
LEMMA SamePersons ==
  ASSUME Typed, [Next]_vars, ~CreatePerson, \A t \in Threads : ~Discon(t)
  PROVE  UNCHANGED <<persons, persondata>>
<1>1. CASE ReadRequest \/ Notify \/ AcceptFails
  BY <1>1 DEF ReadRequest, Notify, AcceptFails, tables
<1>2. ASSUME NEW c \in Conns, Connect(c) \/ Accept(c) PROVE UNCHANGED <<persons, persondata>>
  BY <1>2 DEF Connect, Accept, tables
<1> QED
  BY NextCases, Quiet, Closers, <1>1, <1>2 DEF tables

\* net_accept and net_discon change the table and the data together.
LEMMA DataStep ==
  Typed /\ TableInv /\ PersonInv /\ DataOfPersons /\ [Next]_vars => DataOfPersons'
<1> SUFFICES ASSUME Typed, TableInv, PersonInv, DataOfPersons, [Next]_vars PROVE DataOfPersons'
  OBVIOUS
<1>t. /\ pc \in [Threads -> AcceptPC \cup PollPC \cup StopPC]
      /\ fd \in [Threads -> Fds]
      /\ persons \in [Fds -> Conns \cup {NoConn}]
      /\ NoConn \notin Conns
  BY ServerAssumption DEF Typed, TypeOK
<1>1. CASE CreatePerson
  <2> DEFINE f == fd["accept"]
  <2>1. f \in Fds /\ Accepting
    BY <1>1, <1>t DEF CreatePerson, Go, Accepting, Threads
  <2>2. CASE SlotTaken(f)
    BY <1>1, <2>2 DEF CreatePerson, DataOfPersons
  <2>3. CASE ~SlotTaken(f)
    <3>1. persons[f] = NoConn
      BY <2>1, <2>3 DEF SlotTaken, Known, TableInv
    <3>2. persons' = [persons EXCEPT ![f] = newcomer] /\ persondata' = persondata \cup {newcomer}
      BY <1>1, <2>3 DEF CreatePerson
    <3>3. newcomer \in Conns
      BY <2>1 DEF PersonInv
    <3>4. {persons'[g] : g \in Fds} \ {NoConn} = ({persons[g] : g \in Fds} \ {NoConn}) \cup {newcomer}
      BY <1>t, <2>1, <3>1, <3>2, <3>3
    <3> QED BY <3>2, <3>4 DEF DataOfPersons
  <2> QED BY <2>2, <2>3
<1>2. ASSUME NEW t \in Threads, Discon(t) PROVE DataOfPersons'
  <2> DEFINE f == fd[t]
  <2>1. /\ f \in Fds
        /\ persons' = [persons EXCEPT ![f] = NoConn]
        /\ persondata' = persondata \ {persons[f]}
    BY <1>2, <1>t DEF Discon
  <2>2. \A g \in Fds : persons[g] # NoConn /\ persons[g] = persons[f] => g = f
    BY <2>1 DEF PersonInv
  <2>3. {persons'[g] : g \in Fds} \ {NoConn} = ({persons[g] : g \in Fds} \ {NoConn}) \ {persons[f]}
    BY <1>t, <2>1, <2>2
  <2> QED BY <2>1, <2>3 DEF DataOfPersons
<1>3. CASE ~CreatePerson /\ \A t \in Threads : ~Discon(t)
  BY <1>3, SamePersons DEF DataOfPersons
<1> QED BY <1>1, <1>2, <1>3

\* net_discon of a person waits until the pool is idle, so no job is left that
\* could use the data it frees.
LEMMA JobsStep ==
  Typed /\ JobsHaveData /\ [Next]_vars => JobsHaveData'
<1> SUFFICES ASSUME Typed, JobsHaveData, [Next]_vars PROVE JobsHaveData'
  OBVIOUS
<1>t. /\ persondata \subseteq Conns
      /\ jobs \in Seq(Job)
      /\ wpc \in [Workers -> {"idle", "handle", "reply", "replyError", "shut", "close"}]
      /\ wjob \in [Workers -> Job \cup {NoJob}]
      /\ fd \in [Threads -> Fds]
      /\ NoConn \notin Conns
  BY ServerAssumption DEF Typed, TypeOK
<1>1. CASE CreatePerson
  BY <1>1 DEF CreatePerson, JobsHaveData, pool
<1>2. ASSUME NEW t \in Threads, Discon(t) PROVE JobsHaveData'
  <2>1. UNCHANGED <<jobs, wpc, wjob>> /\ persondata' = persondata \ {persons[fd[t]]}
    BY <1>2 DEF Discon, pool
  <2>2. CASE persons[fd[t]] = NoConn
    BY <1>t, <2>1, <2>2 DEF JobsHaveData
  <2>3. CASE persons[fd[t]] # NoConn
    <3>1. PoolIdle
      BY <1>2, <2>3 DEF Discon, MayDestroy
    <3>2. jobs = <<>> /\ \A w \in Workers : wpc[w] = "idle"
      BY <3>1 DEF PoolIdle
    <3> QED BY <2>1, <3>2 DEF JobsHaveData
  <2> QED BY <2>2, <2>3
<1>3. ASSUME NEW w \in Workers, TakeJob(w) PROVE JobsHaveData'
  <2>1. /\ jobs # <<>> /\ jobs' = Tail(jobs)
        /\ wpc' = [wpc EXCEPT ![w] = "handle"]
        /\ wjob' = [wjob EXCEPT ![w] = Head(jobs)]
        /\ UNCHANGED persondata
    BY <1>3 DEF TakeJob, GoWorker, tables
  <2>2. 1 \in DOMAIN jobs /\ Head(jobs) = jobs[1]
    BY <1>t, <2>1
  <2>3. \A i \in DOMAIN Tail(jobs) : i + 1 \in DOMAIN jobs /\ Tail(jobs)[i] = jobs[i + 1]
    BY <1>t, <2>1
  <2> QED BY <1>t, <2>1, <2>2, <2>3 DEF JobsHaveData
<1>4. ASSUME NEW w \in Workers, Handle(w) \/ Reply(w) \/ JobShut(w) \/ JobClose(w)
      PROVE  JobsHaveData'
  <2>1. /\ UNCHANGED <<jobs, persondata>>
        /\ wpc[w] # "idle"
        /\ \A u \in Workers : wpc'[u] # "idle" => wpc[u] # "idle" /\ wjob'[u] = wjob[u]
    <3>1. CASE Handle(w)
      BY <1>t, <3>1 DEF Handle, GoWorker, tables
    <3>2. CASE Reply(w)
      BY <1>t, <3>2 DEF Reply, GoWorker, tables
    <3>3. CASE JobShut(w)
      BY <1>t, <3>3 DEF JobShut, GoWorker, tables
    <3>4. CASE JobClose(w)
      BY <1>t, <3>4 DEF JobClose, GoWorker, tables
    <3> QED BY <1>4, <3>1, <3>2, <3>3, <3>4
  <2> QED BY <2>1 DEF JobsHaveData
<1>5. CASE Notify
  <2> DEFINE p == persons[fd["poll"]]
             new == [i \in 1 .. requests[p] |-> [person |-> p, fd |-> fd["poll"]]]
  <2>1. p \in persondata /\ jobs' = jobs \o new /\ UNCHANGED <<persondata, wpc, wjob>>
    BY <1>5 DEF Notify
  <2>2. new \in Seq(Job) /\ \A i \in DOMAIN new : new[i].person = p
    <3>1. requests[p] \in Nat /\ [person |-> p, fd |-> fd["poll"]] \in Job
      BY <1>t, <2>1, ServerAssumption DEF Job, Typed, TypeOK, Threads
    <3> QED BY <3>1, SameEntries
  <2> HIDE DEF new
  <2>3. \A i \in DOMAIN jobs' : \/ i \in DOMAIN jobs /\ jobs'[i] = jobs[i]
                                \/ \E j \in DOMAIN new : jobs'[i] = new[j]
    <3>1. /\ Len(jobs') = Len(jobs) + Len(new) /\ jobs' \in Seq(Job)
          /\ \A i \in 1 .. Len(jobs') :
               jobs'[i] = IF i <= Len(jobs) THEN jobs[i] ELSE new[i - Len(jobs)]
      BY <1>t, <2>1, <2>2, ConcatProperties
    <3>2. /\ Len(jobs) \in Nat /\ Len(new) \in Nat
          /\ DOMAIN jobs = 1 .. Len(jobs) /\ DOMAIN new = 1 .. Len(new)
          /\ DOMAIN jobs' = 1 .. Len(jobs')
      BY <1>t, <2>2, <3>1
    <3>3. ASSUME NEW i \in 1 .. Len(jobs'), i > Len(jobs)
          PROVE  i - Len(jobs) \in 1 .. Len(new)
      BY <3>1, <3>2, <3>3
    <3> QED BY <3>1, <3>2, <3>3
  <2> QED BY <2>1, <2>2, <2>3 DEF JobsHaveData
<1>6. CASE /\ ~CreatePerson /\ ~Notify
           /\ \A t \in Threads : ~Discon(t)
           /\ \A w \in Workers : ~TakeJob(w) /\ ~Handle(w) /\ ~Reply(w) /\ ~JobShut(w) /\ ~JobClose(w)
  <2>1. UNCHANGED pool
    <3>1. CASE \/ \E c \in Conns : Connect(c) \/ SendRequest(c) \/ HangUp(c) \/ Accept(c)
               \/ AcceptFails \/ AddFd \/ \E t \in Threads : DisconLock(t)
               \/ UNCHANGED vars
      BY <3>1 DEF Connect, SendRequest, HangUp, Accept, AcceptFails, AddFd, DisconLock, vars
    <3>2. CASE \/ \E t \in {"poll", "stop"} : DisconOutside(t) \/ ShutFd(t)
               \/ Scan \/ ScanEnd \/ Entry \/ LastEntry
      BY <3>2 DEF DisconOutside, ShutFd, Scan, ScanEnd, Entry, LastEntry
    <3>3. CASE ReadRequest \/ ReadFails \/ TestHup \/ ReadClose \/ PollClose
      BY <3>3 DEF ReadRequest, ReadFails, TestHup, ReadClose, PollClose
    <3>4. CASE StopBegin \/ StopJoin \/ StopEntry \/ StopClose
      BY <3>4 DEF StopBegin, StopJoin, StopEntry, StopClose
    <3> QED BY NextCases, <1>6, <3>1, <3>2, <3>3, <3>4
  <2>2. UNCHANGED persondata
    BY <1>6, SamePersons
  <2> QED BY <2>1, <2>2 DEF JobsHaveData, pool
<1> QED BY <1>1, <1>2, <1>3, <1>4, <1>5, <1>6

\* Only net_read adds to a queue.
LEMMA OnlyReadQueues ==
  ASSUME Typed, [Next]_vars, ~ReadRequest
  PROVE  \A c \in Conns : requests'[c] > 0 => requests[c] > 0
<1>t. /\ requests \in [Conns -> 0 .. MaxRequests]
      /\ MaxRequests \in Nat
  BY ServerAssumption DEF Typed, TypeOK
<1>1. CASE Notify
  BY <1>t, <1>1 DEF Notify, Drained
<1>2. ASSUME NEW t \in Threads, Discon(t)
      PROVE  \A c \in Conns : requests'[c] > 0 => requests[c] > 0
  BY <1>t, <1>2 DEF Discon
<1>3. CASE CreatePerson \/ AcceptFails \/ \E c \in Conns : Connect(c) \/ Accept(c)
  BY <1>3 DEF CreatePerson, AcceptFails, Connect, Accept, tables
<1> QED BY NextCases, Quiet, Closers, <1>1, <1>2, <1>3 DEF tables

\* While the poll thread is about to hand requests on, nobody moves it, its
\* lock or the table.
LEMMA AtNotify ==
  ASSUME Typed, LockInv, [Next]_vars, pc["poll"] = "notify", ~Notify
  PROVE  UNCHANGED <<persons, glock, pc["poll"], fd["poll"]>>
<1>t. /\ pc \in [Threads -> AcceptPC \cup PollPC \cup StopPC]
      /\ fd \in [Threads -> Fds]
  BY DEF Typed, TypeOK
<1>l. glock = "poll" /\ \A t \in Threads : pc[t] # "wait"
  BY DEF LockInv, Locked, Threads
<1>1. ~CreatePerson /\ \A t \in Threads : ~Discon(t) /\ ~DisconLock(t)
  BY <1>l DEF CreatePerson, Discon, DisconLock, Go
<1>2. UNCHANGED persons
  BY <1>1, SamePersons
<1> USE <1>t DEF Go, Threads
<1>3. CASE UNCHANGED <<poller, glock, tables, threads>>
  BY <1>2, <1>3 DEF threads
<1>4. ASSUME NEW c \in Conns, Accept(c) PROVE UNCHANGED <<glock, pc["poll"], fd["poll"]>>
  BY <1>4 DEF Accept
<1>5. CASE AcceptFails \/ AddFd
  BY <1>2, <1>5 DEF AcceptFails, AddFd
<1>6. ASSUME NEW t \in {"poll", "stop"}, DisconOutside(t) \/ ShutFd(t)
      PROVE  UNCHANGED <<glock, pc["poll"], fd["poll"]>>
  BY <1>l, <1>6 DEF DisconOutside, ShutFd
<1>7. CASE StopBegin \/ StopJoin
  BY <1>2, <1>7 DEF StopBegin, StopJoin
<1>8. CASE StopEntry \/ StopClose
  BY <1>2, <1>8 DEF StopEntry, StopClose
<1>9. /\ ~Scan /\ ~ScanEnd /\ ~Entry /\ ~LastEntry /\ ~ReadRequest /\ ~ReadFails
      /\ ~TestHup /\ ~ReadClose /\ ~PollClose
  BY DEF Scan, ScanEnd, Entry, LastEntry, ReadRequest, ReadFails, TestHup, ReadClose, PollClose
<1> QED
  BY NextCases, Elsewhere, <1>1, <1>2, <1>3, <1>4, <1>5, <1>6, <1>7, <1>8, <1>9

\* What net_read queues, message_receiver takes out before global_lock is free.
LEMMA DrainedStep ==
  Typed /\ LockInv /\ RequestsDrained /\ [Next]_vars => RequestsDrained'
<1> SUFFICES ASSUME Typed, LockInv, RequestsDrained, [Next]_vars PROVE RequestsDrained'
  OBVIOUS
<1>t. /\ pc \in [Threads -> AcceptPC \cup PollPC \cup StopPC]
      /\ requests \in [Conns -> 0 .. MaxRequests]
      /\ persons \in [Fds -> Conns \cup {NoConn}]
      /\ MaxRequests \in Nat
  BY ServerAssumption DEF Typed, TypeOK
<1>1. CASE ReadRequest
  <2> DEFINE p == persons[fd["poll"]]
  <2>1. /\ pc["poll"] = "read" /\ pc'["poll"] = "notify" /\ glock = "poll"
        /\ UNCHANGED <<glock, persons, fd>>
        /\ requests' = [requests EXCEPT ![p] = @ + 1]
    BY <1>t, <1>1 DEF ReadRequest, Go, Threads, LockInv, Locked
  <2>2. \A c \in Conns : ~(requests[c] > 0)
    BY <2>1 DEF RequestsDrained
  <2>3. \A c \in Conns : requests'[c] > 0 => c = p
    BY <1>t, <2>1, <2>2
  <2> QED BY <2>1, <2>3 DEF RequestsDrained
<1>2. CASE Notify
  <2>1. \A c \in Conns : requests[c] > 0 => c = persons[fd["poll"]]
    BY DEF RequestsDrained
  <2>2. \A c \in Conns : ~(requests'[c] > 0)
    BY <1>t, <1>2, <2>1 DEF Notify, Drained
  <2> QED BY <2>2 DEF RequestsDrained
<1>3. CASE ~ReadRequest /\ ~Notify
  <2>1. \A c \in Conns : requests'[c] > 0 => requests[c] > 0
    BY <1>3, OnlyReadQueues
  <2>2. CASE pc["poll"] # "notify"
    BY <2>1, <2>2 DEF RequestsDrained
  <2>3. CASE pc["poll"] = "notify"
    BY <1>3, <2>1, <2>3, AtNotify DEF RequestsDrained
  <2> QED BY <2>2, <2>3
<1> QED BY <1>1, <1>2, <1>3

-----------------------------------------------------------------------------
(* The poll set.                                                           *)

\* The steps that leave the numbers in the poll set, the open descriptors and
\* the accept thread's place alone.
LEMMA SameWatch ==
  ASSUME Typed,
         \/ \E c \in Conns : Connect(c) \/ SendRequest(c) \/ HangUp(c)
         \/ AcceptFails \/ CreatePerson
         \/ \E t \in Threads : DisconLock(t) \/ Discon(t)
         \/ \E t \in {"poll", "stop"} : DisconOutside(t) \/ ShutFd(t)
         \/ ScanEnd \/ Entry \/ LastEntry
         \/ ReadRequest \/ ReadFails \/ Notify \/ TestHup
         \/ StopBegin \/ StopJoin \/ StopEntry
         \/ \E w \in Workers : TakeJob(w) \/ Handle(w) \/ Reply(w) \/ JobShut(w)
         \/ UNCHANGED vars
  PROVE  /\ UNCHANGED <<fdtab, pollset, fd["accept"]>>
         /\ active' => active
         /\ pc["accept"] = "add" => pc'["accept"] = "add"
<1>1. /\ pc \in [Threads -> AcceptPC \cup PollPC \cup StopPC]
      /\ fd \in [Threads -> Fds]
  BY DEF Typed, TypeOK
<1> USE <1>1 DEF Go, Threads, kernel, poller, threads
<1>2. CASE \/ \E c \in Conns : Connect(c) \/ SendRequest(c) \/ HangUp(c)
           \/ \E w \in Workers : TakeJob(w) \/ Handle(w) \/ Reply(w) \/ JobShut(w)
           \/ UNCHANGED vars
  BY <1>2 DEF Connect, SendRequest, HangUp, TakeJob, Handle, Reply, JobShut, vars
<1>3. CASE AcceptFails \/ CreatePerson
  BY <1>3 DEF AcceptFails, CreatePerson
<1>4. CASE \E t \in Threads : DisconLock(t) \/ Discon(t)
  BY <1>4 DEF DisconLock, Discon
<1>5. CASE \E t \in {"poll", "stop"} : DisconOutside(t) \/ ShutFd(t)
  BY <1>5 DEF DisconOutside, ShutFd
<1>6. CASE ScanEnd \/ LastEntry
  BY <1>6 DEF ScanEnd, LastEntry
<1>7. CASE Entry
  BY <1>7 DEF Entry
<1>8. CASE ReadRequest \/ ReadFails
  BY <1>8 DEF ReadRequest, ReadFails
<1>9. CASE Notify \/ TestHup
  BY <1>9 DEF Notify, TestHup
<1>10. CASE StopBegin \/ StopJoin
  BY <1>10 DEF StopBegin, StopJoin
<1>11. CASE StopEntry
  BY <1>11 DEF StopEntry
<1> QED BY <1>2, <1>3, <1>4, <1>5, <1>6, <1>7, <1>8, <1>9, <1>10, <1>11

\* The entry that goes is the one of the descriptor that is closed.
LEMMA WatchedStep ==
  Typed /\ EntryInv /\ OpenIsWatched /\ [Next]_vars => OpenIsWatched'
<1> SUFFICES ASSUME Typed, EntryInv, OpenIsWatched, [Next]_vars PROVE OpenIsWatched'
  OBVIOUS
<1>t. /\ pc \in [Threads -> AcceptPC \cup PollPC \cup StopPC]
      /\ fd \in [Threads -> Fds]
      /\ fdtab \in [Fds -> Conns \cup {NoConn}]
      /\ pollset \in Seq([fd : Fds, rev : SUBSET {"in", "hup"}])
      /\ DOMAIN pollset = 1 .. Len(pollset)
      /\ Len(pollset) \in Nat
  BY DEF Typed, TypeOK
<1>1. ASSUME /\ UNCHANGED <<fdtab, pollset, fd["accept"]>>
             /\ active' => active
             /\ pc["accept"] = "add" => pc'["accept"] = "add"
      PROVE  OpenIsWatched'
  BY <1>1 DEF OpenIsWatched
<1>2. ASSUME NEW c \in Conns, Accept(c) PROVE OpenIsWatched'
  <2>1. PICK f \in Fds : fdtab' = [fdtab EXCEPT ![f] = c] /\ fd' = [fd EXCEPT !["accept"] = f]
    BY <1>2 DEF Accept
  <2>2. /\ UNCHANGED <<active, pollset>> /\ pc["accept"] = "accept" /\ pc'["accept"] = "add"
        /\ fd'["accept"] = f
    BY <1>2, <1>t, <2>1 DEF Accept, Go, Threads, poller
  <2> QED BY <1>t, <2>1, <2>2 DEF OpenIsWatched
<1>3. CASE AddFd
  <2> DEFINE e == [fd |-> fd["accept"], rev |-> {}]
  <2>1. UNCHANGED <<fdtab, active, fd>> /\ (active => pollset' = Append(pollset, e))
    BY <1>3 DEF AddFd, kernel
  <2>2. e.fd = fd["accept"]
    OBVIOUS
  <2> HIDE DEF e
  <2>3. ASSUME active
        PROVE  /\ DOMAIN pollset' = 1 .. Len(pollset) + 1
               /\ pollset'[Len(pollset) + 1] = e
               /\ \A i \in 1 .. Len(pollset) : pollset'[i] = pollset[i]
    BY <1>t, <2>1, <2>3
  <2>4. ASSUME NEW f \in Fds, fdtab'[f] # NoConn, active'
        PROVE  \E i \in DOMAIN pollset' : pollset'[i].fd = f
    <3>1. active /\ fdtab[f] # NoConn
      BY <2>1, <2>4
    <3>2. CASE f = fd["accept"]
      BY <1>t, <2>2, <2>3, <3>1, <3>2
    <3>3. CASE f # fd["accept"]
      <4>1. PICK i \in 1 .. Len(pollset) : pollset[i].fd = f
        BY <1>t, <3>1, <3>3 DEF OpenIsWatched
      <4>2. i \in DOMAIN pollset' /\ pollset'[i] = pollset[i]
        BY <1>t, <2>3, <3>1
      <4> QED BY <4>1, <4>2
    <3> QED BY <3>2, <3>3
  <2> QED BY <2>4 DEF OpenIsWatched
<1>4. CASE Scan
  <2>1. /\ DOMAIN pollset' = DOMAIN pollset
        /\ \A i \in DOMAIN pollset : pollset'[i].fd = pollset[i].fd
    BY <1>4, <1>t, ScanKeepsEntries
  <2>2. UNCHANGED <<fdtab, active, fd, pc["accept"]>>
    BY <1>4, <1>t DEF Scan, kernel, Go, Threads
  <2> QED BY <2>1, <2>2 DEF OpenIsWatched
<1>5. CASE PollClose
  <2> DEFINE k == idx["poll"]
  <2>1. k \in 1 .. Len(pollset) /\ pollset[k].fd = fd["poll"]
    BY <1>5, <1>t DEF PollClose, EntryInv, AtEntry, Go, Typed, Threads
  <2>2. pollset' = RemoveAt(pollset, k) /\ Close(fd["poll"])
    BY <1>5 DEF PollClose, Removed
  <2>3. /\ pollset' \in Seq([fd : Fds, rev : SUBSET {"in", "hup"}])
        /\ \A j \in 1 .. Len(pollset) : j # k => \E i \in 1 .. Len(pollset') : pollset'[i] = pollset[j]
    BY <1>t, <2>1, <2>2, Removing
  <2>4. UNCHANGED <<active, fd["accept"], pc["accept"]>>
    BY <1>5, <1>t DEF PollClose, Go, Threads
  <2>5. \A f \in Fds : fdtab'[f] # NoConn => fdtab[f] # NoConn /\ f # fd["poll"]
    BY <1>t, <2>2, Closing DEF Threads
  <2>6. DOMAIN pollset' = 1 .. Len(pollset')
    BY <2>3
  <2>7. ASSUME NEW f \in Fds, fdtab'[f] # NoConn, active',
               NEW j \in 1 .. Len(pollset), pollset[j].fd = f
        PROVE  \E i \in DOMAIN pollset' : pollset'[i].fd = f
    <3>1. j # k
      BY <2>1, <2>5, <2>7
    <3>2. PICK i \in 1 .. Len(pollset') : pollset'[i] = pollset[j]
      BY <2>3, <3>1
    <3> QED BY <2>6, <2>7, <3>2
  <2>8. ASSUME NEW f \in Fds, fdtab'[f] # NoConn, active'
        PROVE  \/ \E j \in 1 .. Len(pollset) : pollset[j].fd = f
               \/ pc'["accept"] = "add" /\ fd'["accept"] = f
    BY <1>t, <2>4, <2>5, <2>8 DEF OpenIsWatched
  <2> QED BY <2>7, <2>8 DEF OpenIsWatched
<1>6. CASE ReadClose \/ StopClose \/ \E w \in Workers : JobClose(w)
  <2>1. PICK f \in Fds : Close(f)
    BY <1>6, Closers
  <2>2. \A g \in Fds : fdtab'[g] # NoConn => fdtab[g] # NoConn
    BY <2>1, Closing
  <2>3. UNCHANGED <<active, pollset, fd, pc["accept"]>>
    <3>1. UNCHANGED <<active, fd, pc["accept"]>>
      BY <1>6, Closers
    <3>2. UNCHANGED pollset
      BY <1>6 DEF ReadClose, StopClose, JobClose, poller
    <3> QED BY <3>1, <3>2
  <2> QED BY <2>2, <2>3 DEF OpenIsWatched
<1> QED BY NextCases, SameWatch, <1>1, <1>2, <1>3, <1>4, <1>5, <1>6

-----------------------------------------------------------------------------
(* The theorems.                                                           *)

\* The invariant holds of a port that has just been launched.
LEMMA InvInit == Init => Inv
<1> SUFFICES ASSUME Init PROVE Inv
  OBVIOUS
<1> USE ServerAssumption DEF Init
<1>1. Typed
  BY DEF Typed, TypeOK, Threads, AcceptPC, PollPC, StopPC, Fds, Job, NoJob
<1>2. LockInv /\ EntryInv
  BY DEF LockInv, Locked, Threads, EntryInv, AtEntry
<1>3. TableInv /\ PersonInv
  BY DEF TableInv, PersonInv, Accepting
<1>4. DataOfPersons
  BY DEF DataOfPersons
<1>5. JobsHaveData /\ RequestsDrained
  BY DEF JobsHaveData, RequestsDrained
<1>6. OpenIsWatched
  BY DEF OpenIsWatched
<1> QED BY <1>1, <1>2, <1>3, <1>4, <1>5, <1>6 DEF Inv

\* Every step keeps it.
LEMMA InvStep == Inv /\ [Next]_vars => Inv'
BY TypeStep, LockStep, EntryStep, TableStep, PersonStep, DataStep, JobsStep, DrainedStep,
   WatchedStep DEF Inv

\* So it always holds.
LEMMA InvAlways == Spec => []Inv
<1>1. Init => Inv
  BY InvInit
<1>2. Inv /\ [Next]_vars => Inv'
  BY InvStep
<1> QED BY <1>1, <1>2, PTL DEF Spec

\* The variables keep their types: the descriptors the threads are busy with are
\* numbers a process may have, the poll set and the pool hold nothing else, and
\* no queue holds more requests than a client may send (rpc_server.c,
\* rpc_network.c, poll_network.c).
THEOREM ServerTypes == Spec => []TypeOK
<1>1. Inv => TypeOK
  BY DEF Inv, Typed
<1> QED BY <1>1, InvAlways, PTL

\* RS_persondata and RN_persons agree whenever a step is over, however numbers
\* are reused: the assertion of message_receiver never fails.
THEOREM DataIsOfPersons == Spec => []DataOfPersons
<1>1. Inv => DataOfPersons
  BY DEF Inv
<1> QED BY <1>1, InvAlways, PTL

\* persondata_destroy's wait for the whole pool is enough: no job, queued or
\* running, loses the session data it was given.
THEOREM JobsKeepData == Spec => []JobsHaveData
<1>1. Inv => JobsHaveData
  BY DEF Inv
<1> QED BY <1>1, InvAlways, PTL

\* A request is taken out of its person's queue before global_lock is free
\* again: net_discon never has one to throw away.
THEOREM RequestsHandedOn == Spec => []RequestsDrained
<1>1. Inv => RequestsDrained
  BY DEF Inv
<1> QED BY <1>1, InvAlways, PTL

\* No open connection drops out of the poll set while the port is active, by the
\* removal of another entry or the reuse of a number.
THEOREM OpenStaysWatched == Spec => []OpenIsWatched
<1>1. Inv => OpenIsWatched
  BY DEF Inv
<1> QED BY <1>1, InvAlways, PTL
=============================================================================
