----------------------------- MODULE ThreadPool -----------------------------
(***************************************************************************)
(* The thread pool the RPC server runs its requests on                     *)
(* (src/C-Thread-Pool/thpool.c).                                           *)
(*                                                                         *)
(* A step is what a thread does between two points where another thread    *)
(* can see the shared state: the three mutexes are thcount_lock (alive and *)
(* working), the job queue's rwmutex, and the mutex of the binary          *)
(* semaphore has_jobs, which is only ever held for one visible step and    *)
(* therefore needs no variable.  A thread sleeping in pthread_cond_wait is *)
(* at "asleep"; it can be woken by a signal or spuriously.                 *)
(***************************************************************************)
EXTENDS Integers, Sequences, FiniteSets

CONSTANTS
  Workers,   \* the threads of the pool
  Clients,   \* the threads that add work to it
  Waiters,   \* the clients that also call thpool_wait
  Jobs,      \* the jobs a behaviour may submit; each is a fresh allocation
  NoThread,  \* the holder of a free mutex
  NoJob      \* the NULL job pointer

ASSUME PoolAssumption ==
  /\ IsFiniteSet(Workers)
  /\ Workers # {}
  /\ Workers \cap Clients = {}
  /\ Waiters \subseteq Clients
  /\ NoThread \notin Workers \cup Clients
  /\ NoJob \notin Jobs

VARIABLES
  phase,     \* the pool: being created, open, being destroyed, freed
  alive,     \* num_threads_alive
  working,   \* num_threads_working
  thcount,   \* the holder of thcount_lock
  queue,     \* the job queue: front is the head, len its length
  rwmutex,   \* the holder of the queue's rwmutex
  v,         \* the value of the binary semaphore has_jobs
  wpc,       \* where each worker is in thread_do
  cur,       \* the job each worker has pulled
  cpc,       \* where each client is in thpool_add_work or thpool_wait
  job,       \* what has become of each job
  promised   \* history: the jobs submitted when a client's wait began

queueVars  == <<queue, rwmutex, v>>
countVars  == <<alive, working, thcount>>
vars == <<phase, countVars, queueVars, wpc, cur, cpc, job, promised>>

Threads == Workers \cup Clients

WorkerPC == {"start", "loop", "sem", "asleep", "woken", "countIn", "pull",
             "pulled", "run", "countOut", "exit", "leaving", "gone"}
ClientPC == {"idle", "linked", "lenCheck", "workCheck", "asleep", "relock",
             "returning"}
JobState == {"new", "queued", "running", "done", "dropped"}

\* threads_keepalive: cleared when thpool_destroy begins
KeepAlive == phase \in {"creating", "open"}

-----------------------------------------------------------------------------
Init ==
  /\ phase = "creating"
  /\ alive = 0
  /\ working = 0
  /\ thcount = NoThread
  /\ queue = <<>>
  /\ rwmutex = NoThread
  /\ v = 0
  /\ wpc = [w \in Workers |-> "start"]
  /\ cur = [w \in Workers |-> NoJob]
  /\ cpc = [c \in Clients |-> "idle"]
  /\ job = [j \in Jobs |-> "new"]
  /\ promised = [c \in Clients |-> {}]

\* thpool_init spins until every thread has counted itself in
InitReturn ==
  /\ phase = "creating"
  /\ alive = Cardinality(Workers)
  /\ phase' = "open"
  /\ UNCHANGED <<countVars, queueVars, wpc, cur, cpc, job, promised>>

-----------------------------------------------------------------------------
(* The binary semaphore.  A signal wakes one sleeper if there is one; the  *)
(* woken thread tests v again.                                             *)

\* the program counters pc after a signal that takes a sleeper to dest
Signalled(pc, dest) ==
  LET Sleepers == {t \in DOMAIN pc : pc[t] = "asleep"}
  IN  IF Sleepers = {} THEN {pc}
      ELSE {[pc EXCEPT ![t] = dest] : t \in Sleepers}

\* a wrong bsem_post: a counting semaphore
BsemPostCounting(pc) ==
  /\ v' = v + 1
  /\ wpc' \in Signalled(pc, "sem")

\* a wrong bsem_post: pthread_cond_signal forgotten
BsemPostSilent(pc) ==
  /\ v' = 1
  /\ wpc' = pc

\* bsem_post, from a thread that leaves the workers' counters at pc
BsemPost(pc) ==
  /\ v' = 1
  /\ wpc' \in Signalled(pc, "sem")

-----------------------------------------------------------------------------
(* Clients: thpool_add_work.                                               *)

\* jobqueue_push up to len++, with rwmutex held
PushLink(c, j) ==
  /\ phase = "open"
  /\ cpc[c] = "idle"
  /\ job[j] = "new"
  /\ rwmutex = NoThread
  /\ rwmutex' = c
  /\ queue' = Append(queue, j)
  /\ job' = [job EXCEPT ![j] = "queued"]
  /\ cpc' = [cpc EXCEPT ![c] = "linked"]
  /\ UNCHANGED <<phase, countVars, v, wpc, cur, promised>>

\* the rest of jobqueue_push: bsem_post, then rwmutex released
PushPost(c) ==
  /\ cpc[c] = "linked"
  /\ BsemPost(wpc)
  /\ rwmutex' = NoThread
  /\ cpc' = [cpc EXCEPT ![c] = "idle"]
  /\ UNCHANGED <<phase, countVars, queue, cur, job, promised>>

-----------------------------------------------------------------------------
(* Clients: thpool_wait.  It reads len without rwmutex, then working, both *)
(* under thcount_lock.                                                     *)

WaitLock(c) ==
  /\ c \in Waiters
  /\ phase = "open"
  /\ cpc[c] = "idle"
  /\ thcount = NoThread
  /\ thcount' = c
  /\ promised' = [promised EXCEPT ![c] = {j \in Jobs : job[j] # "new"}]
  /\ cpc' = [cpc EXCEPT ![c] = "lenCheck"]
  /\ UNCHANGED <<phase, alive, working, queueVars, wpc, cur, job>>

\* one operand of the loop's condition: if busy, pthread_cond_wait releases
\* thcount_lock and sleeps; otherwise the evaluation goes on to next
WaitTest(c, pc, busy, next) ==
  /\ cpc[c] = pc
  /\ thcount' = IF busy THEN NoThread ELSE c
  /\ cpc' = [cpc EXCEPT ![c] = IF busy THEN "asleep" ELSE next]
  /\ UNCHANGED <<phase, alive, working, queueVars, wpc, cur, job, promised>>

WaitLen(c) == WaitTest(c, "lenCheck", queue # <<>>, "workCheck")

\* a wrong second operand: len alone decides
WaitWorkIgnored(c) == WaitTest(c, "workCheck", FALSE, "returning")

WaitWork(c) == WaitTest(c, "workCheck", working # 0, "returning")

\* a woken waiter takes thcount_lock back and tests the condition again
WaitRelock(c) ==
  /\ cpc[c] = "relock"
  /\ thcount = NoThread
  /\ thcount' = c
  /\ cpc' = [cpc EXCEPT ![c] = "lenCheck"]
  /\ UNCHANGED <<phase, alive, working, queueVars, wpc, cur, job, promised>>

WaitReturn(c) ==
  /\ cpc[c] = "returning"
  /\ thcount' = NoThread
  /\ cpc' = [cpc EXCEPT ![c] = "idle"]
  /\ promised' = [promised EXCEPT ![c] = {}]
  /\ UNCHANGED <<phase, alive, working, queueVars, wpc, cur, job>>

-----------------------------------------------------------------------------
(* Workers: thread_do.                                                     *)

MoveWorker(w, from, to) ==
  /\ wpc[w] = from
  /\ wpc' = [wpc EXCEPT ![w] = to]

CountAlive(w) ==
  /\ MoveWorker(w, "start", "loop")
  /\ thcount = NoThread
  /\ alive' = alive + 1
  /\ UNCHANGED <<phase, working, thcount, queueVars, cur, cpc, job, promised>>

\* while(threads_keepalive)
LoopTest(w) ==
  /\ MoveWorker(w, "loop", IF KeepAlive THEN "sem" ELSE "exit")
  /\ UNCHANGED <<phase, countVars, queueVars, cur, cpc, job, promised>>

\* bsem_wait: take the semaphore, or sleep until it is posted
BsemWait(w) ==
  /\ MoveWorker(w, "sem", IF v = 1 THEN "woken" ELSE "asleep")
  /\ v' = 0
  /\ UNCHANGED <<phase, countVars, queue, rwmutex, cur, cpc, job, promised>>

\* if (threads_keepalive), after bsem_wait
WokenTest(w) ==
  /\ MoveWorker(w, "woken", IF KeepAlive THEN "countIn" ELSE "loop")
  /\ UNCHANGED <<phase, countVars, queueVars, cur, cpc, job, promised>>

CountIn(w) ==
  /\ MoveWorker(w, "countIn", "pull")
  /\ thcount = NoThread
  /\ working' = working + 1
  /\ UNCHANGED <<phase, alive, thcount, queueVars, cur, cpc, job, promised>>

\* a wrong unlinking: front is left alone while more jobs are queued
UnlinkedLast(q) == IF Len(q) = 1 THEN <<>> ELSE q

Unlinked(q) == Tail(q)

\* jobqueue_pull up to the unlinking of the front job, with rwmutex held
PullTake(w) ==
  /\ MoveWorker(w, "pull", "pulled")
  /\ rwmutex = NoThread
  /\ rwmutex' = w
  /\ \/ /\ queue = <<>>
        /\ UNCHANGED <<queue, cur, job>>
     \/ /\ queue # <<>>
        /\ queue' = Unlinked(queue)
        /\ cur' = [cur EXCEPT ![w] = Head(queue)]
        /\ job' = [job EXCEPT ![Head(queue)] = "running"]
  /\ UNCHANGED <<phase, countVars, v, cpc, promised>>

\* a wrong condition: no post for the jobs that are left
NoPost == FALSE

PostAgain == queue # <<>>

\* the rest of jobqueue_pull: when jobs are left the semaphore is posted again
PullPost(w) ==
  LET pc == [wpc EXCEPT ![w] = IF cur[w] = NoJob THEN "countOut" ELSE "run"]
  IN  /\ wpc[w] = "pulled"
      /\ rwmutex' = NoThread
      /\ \/ PostAgain /\ BsemPost(pc)
         \/ ~PostAgain /\ wpc' = pc /\ UNCHANGED v
      /\ UNCHANGED <<phase, countVars, queue, cur, cpc, job, promised>>

\* func_buff(arg_buff) returns and the job is freed
RunJob(w) ==
  /\ MoveWorker(w, "run", "countOut")
  /\ job' = [job EXCEPT ![cur[w]] = "done"]
  /\ cur' = [cur EXCEPT ![w] = NoJob]
  /\ UNCHANGED <<phase, countVars, queueVars, cpc, promised>>

\* a wrong end of the loop: threads_all_idle is not signalled
SignalNobody == UNCHANGED cpc

\* the last worker to go idle signals threads_all_idle
SignalIdle ==
  \/ working' = 0 /\ cpc' \in Signalled(cpc, "relock")
  \/ working' # 0 /\ UNCHANGED cpc

CountOut(w) ==
  /\ MoveWorker(w, "countOut", "loop")
  /\ thcount = NoThread
  /\ working' = working - 1
  /\ SignalIdle
  /\ UNCHANGED <<phase, alive, thcount, queueVars, cur, job, promised>>

\* the thread counts itself out, and only then releases thcount_lock
ExitCount(w) ==
  /\ MoveWorker(w, "exit", "leaving")
  /\ thcount = NoThread
  /\ thcount' = w
  /\ alive' = alive - 1
  /\ UNCHANGED <<phase, working, queueVars, cur, cpc, job, promised>>

ExitUnlock(w) ==
  /\ MoveWorker(w, "leaving", "gone")
  /\ thcount' = NoThread
  /\ UNCHANGED <<phase, alive, working, queueVars, cur, cpc, job, promised>>

-----------------------------------------------------------------------------
(* thpool_destroy, called when no client is inside the pool any more.      *)

DestroyBegin ==
  /\ phase = "open"
  /\ \A c \in Clients : cpc[c] = "idle"
  /\ phase' = "closing"
  /\ UNCHANGED <<countVars, queueVars, wpc, cur, cpc, job, promised>>

\* a wrong bsem_post_all: nobody is woken
NobodyWoken == wpc

\* pthread_cond_broadcast
AllWoken == [w \in Workers |-> IF wpc[w] = "asleep" THEN "sem" ELSE wpc[w]]

\* bsem_post_all, again and again while some thread is alive
DestroyPost ==
  /\ phase = "closing"
  /\ alive # 0
  /\ v' = 1
  /\ wpc' = AllWoken
  /\ UNCHANGED <<phase, countVars, queue, rwmutex, cur, cpc, job, promised>>

\* jobqueue_destroy frees the jobs nobody ran, then the pool is freed
DestroyFree ==
  /\ phase = "closing"
  /\ alive = 0
  /\ phase' = "freed"
  /\ v' = 0
  /\ queue' = <<>>
  /\ job' = [j \in Jobs |-> IF job[j] = "queued" THEN "dropped" ELSE job[j]]
  /\ UNCHANGED <<countVars, rwmutex, wpc, cur, cpc, promised>>

\* POSIX allows pthread_cond_wait to return without a signal
SpuriousWakeup ==
  \/ /\ \E w \in Workers : MoveWorker(w, "asleep", "sem")
     /\ UNCHANGED <<phase, countVars, queueVars, cur, cpc, job, promised>>
  \/ /\ \E c \in Clients : /\ cpc[c] = "asleep"
                           /\ cpc' = [cpc EXCEPT ![c] = "relock"]
     /\ UNCHANGED <<phase, countVars, queueVars, wpc, cur, job, promised>>

-----------------------------------------------------------------------------
WorkerStep(w) ==
  \/ CountAlive(w) \/ LoopTest(w) \/ BsemWait(w) \/ WokenTest(w)
  \/ CountIn(w) \/ PullTake(w) \/ PullPost(w) \/ RunJob(w) \/ CountOut(w)
  \/ ExitCount(w) \/ ExitUnlock(w)

\* a client finishing the call it is in
ClientStep(c) ==
  \/ PushPost(c) \/ WaitLen(c) \/ WaitWork(c) \/ WaitRelock(c) \/ WaitReturn(c)

DestroyStep == DestroyPost \/ DestroyFree

\* nothing is left to do: the workers sleep or have left, no call is under way
Quiet ==
  /\ \A w \in Workers : wpc[w] \in {"asleep", "gone"}
  /\ \A c \in Clients : cpc[c] = "idle"
  /\ UNCHANGED vars

Next ==
  \/ InitReturn
  \/ \E c \in Clients : ClientStep(c) \/ WaitLock(c)
  \/ \E c \in Clients, j \in Jobs : PushLink(c, j)
  \/ \E w \in Workers : WorkerStep(w)
  \/ DestroyBegin
  \/ DestroyStep
  \/ SpuriousWakeup
  \/ Quiet

\* Threads that can run do run, and a thread that wants a mutex which is free
\* again and again gets it.  Nobody has to add work, to wait or to destroy.
Fairness ==
  /\ WF_vars(InitReturn)
  /\ WF_vars(DestroyStep)
  /\ \A w \in Workers : SF_vars(WorkerStep(w))
  /\ \A c \in Clients : SF_vars(ClientStep(c))

Spec == Init /\ [][Next]_vars
FairSpec == Spec /\ Fairness

-----------------------------------------------------------------------------
(* Properties.                                                             *)

\* Every variable of the pool has its type.
TypeOK ==
  /\ phase \in {"creating", "open", "closing", "freed"}
  /\ alive \in Int
  /\ working \in Int
  /\ thcount \in Threads \cup {NoThread}
  /\ queue \in Seq(Jobs)
  /\ rwmutex \in Threads \cup {NoThread}
  /\ v \in {0, 1}
  /\ wpc \in [Workers -> WorkerPC]
  /\ cur \in [Workers -> Jobs \cup {NoJob}]
  /\ cpc \in [Clients -> ClientPC]
  /\ job \in [Jobs -> JobState]
  /\ promised \in [Clients -> SUBSET Jobs]

\* While a job is queued and nobody is between linking or unlinking a job and
\* the post that goes with it, the semaphore is posted with a thread awake to
\* take it, or a thread has taken it and will pull: the binary semaphore loses
\* no wakeup although it counts to one only.
NoLostWakeup ==
  (KeepAlive /\ queue # <<>> /\ rwmutex = NoThread) =>
     \/ \E w \in Workers : wpc[w] \in {"woken", "countIn", "pull"}
     \/ v = 1 /\ \E w \in Workers : wpc[w] # "asleep"

\* A job is pulled by one worker only, and is no longer queued by then.
ExclusiveJobs ==
  \A w \in Workers : cur[w] # NoJob =>
     /\ \A i \in 1 .. Len(queue) : queue[i] # cur[w]
     /\ \A u \in Workers \ {w} : cur[u] # cur[w]

\* When thpool_wait is about to return, every job submitted before it took
\* thcount_lock has run to its end, although len and working are read at
\* different moments and len without the queue's mutex.
WaitMeansDone ==
  \A c \in Clients : cpc[c] = "returning" =>
     \A j \in promised[c] : job[j] = "done"

\* A submitted job is run, unless the pool is destroyed first.
JobRuns ==
  \A j \in Jobs : job[j] = "queued" ~> job[j] \in {"done", "dropped"}

\* thpool_wait returns, if no two threads wait at the same time.
WaitReturns ==
  \A c \in Clients : cpc[c] = "lenCheck" ~> cpc[c] = "idle"

\* thpool_destroy terminates: its broadcasts reach every thread in the end.
DestroyEnds == phase = "closing" ~> phase = "freed"

\* thpool_destroy waits for the pool's threads before it frees the pool they
\* use (thpool.h).  It waits for alive = 0, which the last thread announces
\* before it releases thcount_lock.
FreedAfterThreads ==
  phase = "freed" => \A w \in Workers : wpc[w] = "gone"
=============================================================================
