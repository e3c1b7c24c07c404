----------------------------- MODULE RpcServer ------------------------------
(***************************************************************************)
(* The life of a connection of the RPC server: from accept(2), through the *)
(* poll set (poll_network.c), the person and its session data              *)
(* (rpc_network.c, rpc_server.c) and the jobs that answer its requests     *)
(* (rpc_server.c), to the close of its descriptor.                         *)
(*                                                                         *)
(* Three threads of one port share the tables: "accept" runs accept_thread,*)
(* "poll" runs poll_thread, "stop" runs rpc_server_stop_port.  The workers *)
(* of the thread pool run net_job.  A file descriptor is a number that the *)
(* kernel gives out again as soon as it is closed; a connection is never   *)
(* confused with another.  A thread only knows numbers.                    *)
(*                                                                         *)
(* global_lock is glock.  The mutex in userdata (sync_mutex) is only taken *)
(* by a thread that holds global_lock, so it never blocks anybody and has  *)
(* no variable.  The pool appears as its contract, proved of ThreadPool:   *)
(* jobs are run once, and thpool_wait returns when none is left.           *)
(***************************************************************************)
EXTENDS Integers, Sequences, SequencesExt

CONSTANTS
  Conns,        \* the connections clients may make
  NoConn,       \* no connection, a NULL person
  Workers,      \* the threads of the pool
  MaxFd,        \* the descriptors 0 .. MaxFd are what the process may open
  Grow,         \* HOLDER_MIN_ALLOC_FDS
  MaxRequests   \* bound: the requests one client sends

ASSUME ServerAssumption ==
  /\ NoConn \notin Conns
  /\ MaxFd \in Nat
  /\ Grow \in Nat \ {0}
  /\ MaxRequests \in Nat

Fds == 0 .. MaxFd
Threads == {"accept", "poll", "stop"}

VARIABLES
  \* the kernel
  link,        \* each connection: not made, in the backlog, open, closed
  inbox,       \* requests that reached the server's socket and are unread
  sent,        \* requests each client has sent
  ended,       \* connections hung up by the client or shut down by the server
  fdtab,       \* the connection behind each open descriptor
  \* poll_network.c
  active,      \* net->active
  pollset,     \* net->fds up to nfds: a descriptor and its revents each
  \* rpc_network.c and rpc_server.c
  glock,       \* the holder of global_lock
  alloc,       \* RN_alloced_personsfd
  persons,     \* RN_persons; a person is named by the connection it was made for
  requests,    \* the number of requests in each person's request_que
  persondata,  \* the persons with an entry in RS_persondata
  \* the threads
  pc,          \* where each of the three threads is
  fd,          \* the descriptor each of them is busy with
  idx,         \* the loop variable i of the poll thread and of poll_net_free
  newcomer,    \* the connection the accept thread has just accepted
  jobs,        \* the queue of the pool: the person and the descriptor of a job
  wpc, wjob    \* where each worker is in net_job, and with which job

kernel  == <<link, inbox, sent, ended, fdtab>>
poller  == <<active, pollset>>
tables  == <<alloc, persons, requests, persondata>>
threads == <<pc, fd, idx, newcomer>>
pool    == <<jobs, wpc, wjob>>
vars == <<kernel, poller, glock, tables, threads, pool>>

Job == [person : Conns, fd : Fds]
NoJob == [person |-> NoConn, fd |-> 0]

\* thpool_wait would return
PoolIdle == jobs = <<>> /\ \A w \in Workers : wpc[w] = "idle"

-----------------------------------------------------------------------------
(* The kernel.                                                             *)

\* wrong events: POLLIN is not asked for
ReventsHupOnly(f) ==
  IF fdtab[f] = NoConn \/ fdtab[f] \in ended THEN {"hup"} ELSE {}

\* poll(2): a descriptor that is not open is reported with POLLNVAL
Revents(f) ==
  LET c == fdtab[f]
  IN  IF c = NoConn THEN {"hup"}
      ELSE (IF inbox[c] > 0 \/ c \in ended THEN {"in"} ELSE {})
           \cup (IF c \in ended THEN {"hup"} ELSE {})

\* shutdown(2) of a number: whatever connection is behind it ends
Shutdown(f) == ended' = ended \cup ({fdtab[f]} \ {NoConn})

\* a wrong close
CloseForgotten(f) == UNCHANGED <<fdtab, link>>

\* close(2) of a number: whatever connection is behind it is closed
Close(f) ==
  /\ fdtab' = [fdtab EXCEPT ![f] = NoConn]
  /\ link' = [c \in Conns |-> IF c = fdtab[f] THEN "closed" ELSE link[c]]

\* a thread has crashed, and the process with it
Crashed == \E t \in Threads : pc[t] = "crashed"

\* thread t goes on to its next step
Go(t, from, to) == ~Crashed /\ pc[t] = from /\ pc' = [pc EXCEPT ![t] = to]

-----------------------------------------------------------------------------
Init ==
  /\ link = [c \in Conns |-> "out"]
  /\ inbox = [c \in Conns |-> 0]
  /\ sent = [c \in Conns |-> 0]
  /\ ended = {}
  /\ fdtab = [f \in Fds |-> NoConn]
  /\ active = TRUE
  /\ pollset = <<>>
  /\ glock = "free"
  /\ alloc = 0
  /\ persons = [f \in Fds |-> NoConn]
  /\ requests = [c \in Conns |-> 0]
  /\ persondata = {}
  /\ pc = [accept |-> "accept", poll |-> "scan", stop |-> "serving"]
  /\ fd = [t \in Threads |-> 0]
  /\ idx = [t \in Threads |-> 1]
  /\ newcomer = NoConn
  /\ jobs = <<>>
  /\ wpc = [w \in Workers |-> "idle"]
  /\ wjob = [w \in Workers |-> NoJob]

-----------------------------------------------------------------------------
(* The clients.                                                            *)

Connect(c) ==
  /\ link[c] = "out"
  /\ active
  /\ ~Crashed
  /\ link' = [link EXCEPT ![c] = "backlog"]
  /\ UNCHANGED <<inbox, sent, ended, fdtab, poller, glock, tables, threads, pool>>

SendRequest(c) ==
  /\ link[c] \in {"backlog", "open"}
  /\ c \notin ended
  /\ sent[c] < MaxRequests
  /\ sent' = [sent EXCEPT ![c] = @ + 1]
  /\ inbox' = [inbox EXCEPT ![c] = @ + 1]
  /\ UNCHANGED <<link, ended, fdtab, poller, glock, tables, threads, pool>>

HangUp(c) ==
  /\ link[c] \in {"backlog", "open"}
  /\ c \notin ended
  /\ ended' = ended \cup {c}
  /\ UNCHANGED <<link, inbox, sent, fdtab, poller, glock, tables, threads, pool>>

-----------------------------------------------------------------------------
(* net_discon, called by all three threads.                                *)

\* net_discon takes global_lock
DisconLock(t) ==
  /\ Go(t, "discon", "wait")
  /\ glock = "free"
  /\ glock' = t
  /\ UNCHANGED <<kernel, poller, tables, fd, idx, newcomer, pool>>

\* a wrong persondata_destroy: no thpool_wait
DestroyAtOnce(c) == TRUE

\* thpool_wait in persondata_destroy has returned, if there is a person
MayDestroy(c) == c # NoConn => PoolIdle

\* persondata_destroy waits for the whole pool, then the person and its data
\* go; outside the table (undefined behaviour) the slot may look empty too
Discon(t) ==
  LET f == fd[t]
      c == persons[f]
  IN  /\ Go(t, "wait", IF t = "accept" THEN "create" ELSE "shut")
      /\ alloc > 0
      /\ MayDestroy(c)
      /\ persondata' = persondata \ {c}
      /\ persons' = [persons EXCEPT ![f] = NoConn]
      /\ requests' = [d \in Conns |-> IF d = c THEN 0 ELSE requests[d]]
      /\ glock' = "free"
      /\ UNCHANGED <<kernel, poller, alloc, fd, idx, newcomer, pool>>

\* net_discon reads RN_persons[fd] without the bounds check of net_read
DisconOutside(t) ==
  /\ Go(t, "wait", "crashed")
  /\ fd[t] >= alloc
  /\ UNCHANGED <<kernel, poller, glock, tables, fd, idx, newcomer, pool>>

-----------------------------------------------------------------------------
(* accept_thread and net_accept.                                           *)

\* the table has a person for the descriptor
Known(f) == f < alloc /\ persons[f] # NoConn

\* accept(2) takes the lowest free descriptor
LowestFree(f) == fdtab[f] = NoConn /\ \A g \in 0 .. f - 1 : fdtab[g] # NoConn

Accept(c) ==
  /\ Go("accept", "accept", "add")
  /\ active
  /\ link[c] = "backlog"
  /\ link' = [link EXCEPT ![c] = "open"]
  /\ \E f \in Fds : /\ LowestFree(f)
                    /\ fdtab' = [fdtab EXCEPT ![f] = c]
                    /\ fd' = [fd EXCEPT !["accept"] = f]
  /\ newcomer' = c
  /\ UNCHANGED <<inbox, sent, ended, poller, glock, tables, idx, pool>>

\* accept(2) fails: the listening socket is closed, or there is no descriptor
\* left; the thread returns for good
AcceptFails ==
  /\ Go("accept", "accept", "done")
  /\ \/ ~active
     \/ /\ \E c \in Conns : link[c] = "backlog"
        /\ \A f \in Fds : fdtab[f] # NoConn
  /\ UNCHANGED <<kernel, poller, glock, tables, fd, idx, newcomer, pool>>

\* poll_net_add_fd: refused when the port is being stopped, which its caller
\* does not notice
AddFd ==
  /\ Go("accept", "add", "create")
  /\ pollset' = IF active THEN Append(pollset, [fd |-> fd["accept"], rev |-> {}])
                ELSE pollset
  /\ UNCHANGED <<kernel, active, glock, tables, fd, idx, newcomer, pool>>

\* a wrong net_accept: a person left in the slot is overwritten
SlotTakenIgnored(f) == FALSE

SlotTaken(f) == Known(f)

\* net_accept: the table grows; a person left in the slot is disconnected first
CreatePerson ==
  LET f == fd["accept"]
  IN  /\ Go("accept", "create", CASE SlotTaken(f) -> "discon"
                                  [] ~SlotTaken(f) /\ active -> "accept"
                                  [] ~SlotTaken(f) /\ ~active -> "done")
      /\ glock = "free"
      /\ alloc' = IF f >= alloc THEN alloc + Grow ELSE alloc
      /\ \/ SlotTaken(f) /\ UNCHANGED <<persons, persondata>>
         \/ /\ ~SlotTaken(f)
            /\ persons' = [persons EXCEPT ![f] = newcomer]
            /\ persondata' = persondata \cup {newcomer}
      /\ UNCHANGED <<kernel, poller, glock, requests, fd, idx, newcomer, pool>>

-----------------------------------------------------------------------------
(* poll_thread and net_read.                                               *)

\* poll(2) on the whole set
Scan ==
  LET polled == [i \in DOMAIN pollset |->
                   [pollset[i] EXCEPT !.rev = Revents(pollset[i].fd)]]
  IN  /\ Go("poll", "scan", "entry")
      /\ active
      /\ \E i \in DOMAIN pollset : polled[i].rev # {}
      /\ pollset' = polled
      /\ idx' = [idx EXCEPT !["poll"] = 1]
      /\ UNCHANGED <<kernel, active, glock, tables, fd, newcomer, pool>>

\* a wrong loop: net->active is read once, before it
ScanForever == FALSE

\* the loop ends once the port is being stopped
ScanEnd ==
  /\ Go("poll", "scan", "done")
  /\ ~active
  /\ UNCHANGED <<kernel, poller, glock, tables, fd, idx, newcomer, pool>>

\* one turn of the for loop: read_cb first if POLLIN is set
Entry ==
  LET i == idx["poll"]
  IN  /\ i <= Len(pollset)
      /\ Go("poll", "entry", IF "in" \in pollset[i].rev THEN "read" ELSE "hup")
      /\ fd' = [fd EXCEPT !["poll"] = pollset[i].fd]
      /\ IF "in" \in pollset[i].rev
         THEN glock = "free" /\ glock' = "poll"
         ELSE UNCHANGED glock
      /\ UNCHANGED <<kernel, poller, tables, idx, newcomer, pool>>

LastEntry ==
  /\ idx["poll"] > Len(pollset)
  /\ Go("poll", "entry", "scan")
  /\ UNCHANGED <<kernel, poller, glock, tables, fd, idx, newcomer, pool>>

\* a wrong net_read: what recv left behind is taken for a message
ArrivedOrNot(c) == c # NoConn

\* recv finds a message on the socket
Arrived(c) == c # NoConn /\ inbox[c] > 0

\* net_read: a message of a known person is received and queued
ReadRequest ==
  LET f == fd["poll"]
      c == fdtab[f]
  IN  /\ Go("poll", "read", "notify")
      /\ Known(f)
      /\ Arrived(c)
      /\ inbox' = [inbox EXCEPT ![c] = @ - 1]
      /\ requests' = [requests EXCEPT ![persons[f]] = @ + 1]
      /\ UNCHANGED <<link, sent, ended, fdtab, poller, glock, alloc, persons,
                     persondata, fd, idx, newcomer, pool>>

\* net_read gives the descriptor up: outside the table, no person yet, or
\* nothing that parses as a message within the receive timeout
ReadFails ==
  LET f == fd["poll"]
      Received == {c \in Conns : c = fdtab[f] /\ Known(f) /\ inbox[c] > 0}
  IN  /\ Go("poll", "read", "readShut")
      /\ inbox' = [c \in Conns |-> IF c \in Received THEN inbox[c] - 1 ELSE inbox[c]]
      /\ UNCHANGED <<link, sent, ended, fdtab, poller, glock, tables, fd, idx,
                     newcomer, pool>>

\* a wrong message_receiver: requests are looked at and left in the queue
PeekedOnly(p) == requests

Drained(p) == [requests EXCEPT ![p] = 0]

\* message_receiver: every queued request becomes a job with the person's
\* session data (its assertion: the data is there) and descriptor
Notify ==
  LET p == persons[fd["poll"]]
      job == [person |-> p, fd |-> fd["poll"]]
  IN  /\ Go("poll", "notify", "hup")
      /\ p \in persondata
      /\ jobs' = jobs \o [i \in 1 .. requests[p] |-> job]
      /\ requests' = Drained(p)
      /\ glock' = "free"
      /\ UNCHANGED <<kernel, poller, alloc, persons, persondata, fd, idx,
                     newcomer, wpc, wjob>>

\* POLLHUP, POLLERR, POLLNVAL or POLLRDHUP, as poll(2) reported it in the scan
TestHup ==
  LET i == idx["poll"]
      gone == "hup" \in pollset[i].rev
  IN  /\ Go("poll", "hup", IF gone THEN "discon" ELSE "entry")
      /\ idx' = [idx EXCEPT !["poll"] = IF gone THEN i ELSE i + 1]
      /\ UNCHANGED <<kernel, poller, glock, tables, fd, newcomer, pool>>

-----------------------------------------------------------------------------
(* Closing a descriptor: shutdown, then close, of a number.                *)

\* in net_read, in poll_thread after net_discon, and in poll_net_free
ShutFd(t) ==
  /\ \/ Go(t, "shut", "close")
     \/ Go(t, "readShut", "readClose")
  /\ Shutdown(fd[t])
  /\ UNCHANGED <<link, inbox, sent, fdtab, poller, glock, tables, fd, idx,
                 newcomer, pool>>

\* net_read closes under global_lock; the revents of this entry are still due
ReadClose ==
  /\ Go("poll", "readClose", "hup")
  /\ Close(fd["poll"])
  /\ glock' = "free"
  /\ UNCHANGED <<inbox, sent, ended, poller, tables, fd, idx, newcomer, pool>>

\* a wrong memmove: the first entry goes, whichever was meant
RemovedFirst(i) == RemoveAt(pollset, 1)

\* the entries behind i move up by one
Removed(i) == RemoveAt(pollset, i)

\* poll_thread closes and takes the entry out
PollClose ==
  /\ Go("poll", "close", "entry")
  /\ Close(fd["poll"])
  /\ pollset' = Removed(idx["poll"])
  /\ UNCHANGED <<inbox, sent, ended, active, glock, tables, fd, idx, newcomer, pool>>

-----------------------------------------------------------------------------
(* rpc_server_stop_port: poll_net_free.                                    *)

\* active is cleared and the listening socket closed
StopBegin ==
  /\ Go("stop", "serving", "join")
  /\ active' = FALSE
  /\ UNCHANGED <<kernel, pollset, glock, tables, fd, idx, newcomer, pool>>

\* both threads are joined
StopJoin ==
  /\ Go("stop", "join", "free")
  /\ pc["accept"] = "done"
  /\ pc["poll"] = "done"
  /\ UNCHANGED <<kernel, poller, glock, tables, fd, idx, newcomer, pool>>

\* every entry that is left is disconnected and closed
StopEntry ==
  LET i == idx["stop"]
  IN  /\ Go("stop", "free", IF i <= Len(pollset) THEN "discon" ELSE "stopped")
      /\ fd' = [fd EXCEPT !["stop"] = IF i <= Len(pollset) THEN pollset[i].fd ELSE @]
      /\ UNCHANGED <<kernel, poller, glock, tables, idx, newcomer, pool>>

StopClose ==
  /\ Go("stop", "close", "free")
  /\ Close(fd["stop"])
  /\ idx' = [idx EXCEPT !["stop"] = @ + 1]
  /\ UNCHANGED <<inbox, sent, ended, poller, glock, tables, fd, newcomer, pool>>

-----------------------------------------------------------------------------
(* net_job, in a worker of the pool.                                       *)

GoWorker(w, from, to) == ~Crashed /\ wpc[w] = from /\ wpc' = [wpc EXCEPT ![w] = to]

TakeJob(w) ==
  /\ GoWorker(w, "idle", "handle")
  /\ jobs # <<>>
  /\ jobs' = Tail(jobs)
  /\ wjob' = [wjob EXCEPT ![w] = Head(jobs)]
  /\ UNCHANGED <<kernel, poller, glock, tables, threads>>

\* the method's handler runs with the person's data, and job_info is freed; a
\* handler, or a request that names none, may ask to end the connection
Handle(w) ==
  /\ \/ GoWorker(w, "handle", "reply")
     \/ GoWorker(w, "handle", "replyError")
  /\ UNCHANGED <<kernel, poller, glock, tables, threads, jobs, wjob>>

\* rpc_net_send of the reply; it may fail on any socket, and does on a closed one
Reply(w) ==
  /\ \/ GoWorker(w, "reply", "idle") /\ fdtab[wjob[w].fd] # NoConn
     \/ GoWorker(w, "reply", "shut")
     \/ GoWorker(w, "replyError", "shut")
  /\ wjob' = [wjob EXCEPT ![w] = IF wpc'[w] = "idle" THEN NoJob ELSE @]
  /\ UNCHANGED <<kernel, poller, glock, tables, threads, jobs>>

JobShut(w) ==
  /\ GoWorker(w, "shut", "close")
  /\ Shutdown(wjob[w].fd)
  /\ UNCHANGED <<link, inbox, sent, fdtab, poller, glock, tables, threads, jobs, wjob>>

JobClose(w) ==
  /\ GoWorker(w, "close", "idle")
  /\ Close(wjob[w].fd)
  /\ wjob' = [wjob EXCEPT ![w] = NoJob]
  /\ UNCHANGED <<inbox, sent, ended, poller, glock, tables, threads, jobs>>

-----------------------------------------------------------------------------
AcceptStep ==
  \/ \E c \in Conns : Accept(c)
  \/ AcceptFails \/ AddFd \/ CreatePerson \/ DisconLock("accept") \/ Discon("accept")

PollStep ==
  \/ Scan \/ ScanEnd \/ Entry \/ LastEntry \/ ReadRequest \/ ReadFails \/ Notify \/ TestHup
  \/ DisconLock("poll") \/ Discon("poll") \/ DisconOutside("poll")
  \/ ShutFd("poll") \/ ReadClose \/ PollClose

StopStep ==
  \/ StopJoin \/ StopEntry \/ DisconLock("stop") \/ Discon("stop")
  \/ DisconOutside("stop") \/ ShutFd("stop") \/ StopClose

WorkerStep(w) ==
  TakeJob(w) \/ Handle(w) \/ Reply(w) \/ JobShut(w) \/ JobClose(w)

ClientStep(c) == Connect(c) \/ SendRequest(c) \/ HangUp(c)

\* the process has crashed, or the port has stopped and its jobs are done
Over ==
  /\ Crashed \/ (pc["stop"] = "stopped" /\ PoolIdle)
  /\ UNCHANGED vars

Next ==
  \/ \E c \in Conns : ClientStep(c)
  \/ AcceptStep
  \/ PollStep
  \/ StopBegin
  \/ StopStep
  \/ \E w \in Workers : WorkerStep(w)
  \/ Over

Spec == Init /\ [][Next]_vars

\* No thread is delayed for ever when it can run, nor kept out of global_lock
\* for ever; handlers and sends return.  Nobody has to connect, to send, to hang
\* up or to stop the port.
Fairness ==
  /\ SF_vars(AcceptStep)
  /\ SF_vars(PollStep)
  /\ SF_vars(StopStep)
  /\ \A w \in Workers : WF_vars(WorkerStep(w))

FairSpec == Spec /\ Fairness

-----------------------------------------------------------------------------
(* Properties.                                                             *)

\* Every variable of the server has its type.
TypeOK ==
  /\ link \in [Conns -> {"out", "backlog", "open", "closed"}]
  /\ inbox \in [Conns -> 0 .. MaxRequests]
  /\ sent \in [Conns -> 0 .. MaxRequests]
  /\ ended \subseteq Conns
  /\ fdtab \in [Fds -> Conns \cup {NoConn}]
  /\ active \in BOOLEAN
  /\ pollset \in Seq([fd : Fds, rev : SUBSET {"in", "hup"}])
  /\ glock \in Threads \cup {"free"}
  /\ alloc \in Nat
  /\ persons \in [Fds -> Conns \cup {NoConn}]
  /\ requests \in [Conns -> 0 .. MaxRequests]
  /\ persondata \subseteq Conns
  /\ pc["accept"] \in {"accept", "add", "create", "discon", "wait", "done"}
  /\ pc["poll"] \in {"scan", "entry", "read", "notify", "readShut", "readClose",
                     "hup", "discon", "wait", "shut", "close", "done", "crashed"}
  /\ pc["stop"] \in {"serving", "join", "free", "discon", "wait", "shut", "close",
                     "stopped", "crashed"}
  /\ fd \in [Threads -> Fds]
  /\ idx \in [Threads -> Nat]
  /\ newcomer \in Conns \cup {NoConn}
  /\ jobs \in Seq(Job)
  /\ wpc \in [Workers -> {"idle", "handle", "reply", "replyError", "shut", "close"}]
  /\ wjob \in [Workers -> Job \cup {NoJob}]

\* RS_persondata holds the session data of exactly the persons in RN_persons:
\* message_receiver's assertion that it finds the data never fails, and no
\* data outlives its person, even when a descriptor is reused before the
\* person in its slot is gone.
DataOfPersons == persondata = {persons[f] : f \in Fds} \ {NoConn}

\* The session data a job carries is not freed while the job is queued or run,
\* whoever disconnects the client meanwhile.
JobsHaveData ==
  /\ \A i \in DOMAIN jobs : jobs[i].person \in persondata
  /\ \A w \in Workers : wpc[w] # "idle" => wjob[w].person \in persondata

\* Requests are in a person's queue only while the poll thread hands them on
\* with global_lock held: net_discon, whose loop would free half of them only,
\* never finds any.
RequestsDrained ==
  \A c \in Conns : requests[c] > 0 =>
     glock = "poll" /\ pc["poll"] = "notify" /\ persons[fd["poll"]] = c

\* An open connection has an entry in the poll set, or its accept has not come
\* that far yet, or the port is being stopped: none is forgotten, whatever
\* numbers are closed and reused.
OpenIsWatched ==
  \A f \in Fds : (fdtab[f] # NoConn /\ active) =>
     \/ \E i \in DOMAIN pollset : pollset[i].fd = f
     \/ pc["accept"] = "add" /\ fd["accept"] = f

\* A connection that has ended is closed, unless the port is stopped first.
EndedIsClosed ==
  \A c \in Conns :
     (c \in ended /\ link[c] = "open") ~> (link[c] = "closed" \/ ~active \/ Crashed)

\* A request that has arrived is read, or its connection closed, unless the port
\* is stopped first.
RequestIsRead ==
  \A c \in Conns :
     (inbox[c] > 0 /\ link[c] = "open")
       ~> (inbox[c] = 0 \/ link[c] = "closed" \/ ~active \/ Crashed)

\* rpc_server_stop_port returns, although it joins two threads that may be
\* waiting for global_lock or for the pool.
StopReturns == pc["stop"] = "join" ~> (pc["stop"] = "stopped" \/ Crashed)

\* net_read never sees a descriptor outside the table (the branch its author
\* marked as a bug, rpc_network.c:224-227).
NeverOutside == pc["poll"] = "read" => fd["poll"] < alloc

\* A reply goes to the connection whose request it answers, or nowhere.
ReplyToAsker ==
  [][\A w \in Workers : (wpc[w] = "reply" /\ wpc'[w] = "idle") =>
        fdtab[wjob[w].fd] \in {wjob[w].person, NoConn}]_vars

\* When rpc_server_stop_port has returned no connection of the port is open and
\* no session data is left.
StopReleasesAll ==
  pc["stop"] = "stopped" => /\ \A c \in Conns : link[c] # "open"
                            /\ persondata = {}
=============================================================================
