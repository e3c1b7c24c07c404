-------------------------- MODULE ThreadPoolProofs --------------------------
(***************************************************************************)
(* Proofs about the thread pool, for any finite set of workers, any        *)
(* clients, waiters and jobs.  TypeOK and NoLostWakeup are proved first;   *)
(* what thpool_wait promises needs an inductive invariant, PoolInv, that   *)
(* says who holds thcount_lock, what num_threads_working counts, and where *)
(* the job in each state is to be found.                                   *)
(***************************************************************************)
EXTENDS ThreadPool, FiniteSetTheorems, TLAPS

-----------------------------------------------------------------------------
(* The inductive invariant.                                                *)

CountedPC == {"pull", "pulled", "run", "countOut"}

\* the workers that have counted themselves in and not yet out
Counted == {w \in Workers : wpc[w] \in CountedPC}

\* num_threads_working is the number of workers counted in
WorkingInv == working = Cardinality(Counted)

HoldsCount == {"lenCheck", "workCheck", "returning"}
InWait == HoldsCount \cup {"asleep", "relock"}

\* the program counters that hold thcount_lock name its holder
LockInv ==
  /\ \A c \in Clients : cpc[c] \in HoldsCount => thcount = c
  /\ \A w \in Workers : wpc[w] = "leaving" => thcount = w

\* no call is under way once thpool_destroy has begun
PhaseInv == ~KeepAlive => \A c \in Clients : cpc[c] = "idle"

\* the queue holds each queued job once, and nothing else
QueueInv ==
  /\ \A i \in 1 .. Len(queue) : job[queue[i]] = "queued"
  /\ \A i, k \in 1 .. Len(queue) : queue[i] = queue[k] => i = k
  /\ \A j \in Jobs : job[j] = "queued" => \E i \in 1 .. Len(queue) : queue[i] = j

\* a job is running exactly when one worker has pulled it
RunInv ==
  /\ \A j \in Jobs : job[j] = "running" => \E w \in Workers : cur[w] = j
  /\ \A w \in Workers : cur[w] # NoJob =>
        job[cur[w]] = "running" /\ wpc[w] \in {"pulled", "run"}
  /\ \A w, u \in Workers : cur[w] # NoJob /\ cur[u] = cur[w] => u = w

\* what a waiter has established so far about the jobs it was promised
PromiseInv ==
  \A c \in Clients :
    /\ cpc[c] \in InWait =>
          \A j \in promised[c] : job[j] \in {"queued", "running", "done"}
    /\ cpc[c] = "workCheck" =>
          \A j \in promised[c] : job[j] \in {"running", "done"}
    /\ cpc[c] = "returning" => \A j \in promised[c] : job[j] = "done"

\* jobs are dropped only when the pool is freed
DropInv == \A j \in Jobs : job[j] = "dropped" => phase = "freed"

PoolInv ==
  /\ TypeOK /\ WorkingInv /\ LockInv /\ PhaseInv
  /\ QueueInv /\ RunInv /\ DropInv /\ PromiseInv

-----------------------------------------------------------------------------
(* Type correctness.                                                       *)

\* A signal leaves program counters program counters: what pthread_cond_signal
\* may do to the sleepers of a condition variable.
LEMMA SignalledType ==
  ASSUME NEW S, NEW PC, NEW pc \in [S -> PC], NEW dest \in PC,
         NEW r \in Signalled(pc, dest)
  PROVE  r \in [S -> PC]
BY DEF Signalled

\* Every step of a client or of a worker keeps the types.
LEMMA TypeStep == TypeOK /\ [Next]_vars => TypeOK'
<1> SUFFICES ASSUME TypeOK, [Next]_vars PROVE TypeOK'
  OBVIOUS
<1> USE DEF TypeOK, Threads, queueVars, countVars
<1>1. CASE InitReturn
  BY <1>1 DEF InitReturn
<1>2. ASSUME NEW c \in Clients, ClientStep(c) \/ WaitLock(c) PROVE TypeOK'
  <2>1. CASE PushPost(c)
    <3>1. wpc' \in [Workers -> WorkerPC]
      BY <2>1, SignalledType DEF PushPost, BsemPost, WorkerPC
    <3> QED BY <2>1, <3>1 DEF PushPost, BsemPost, ClientPC
  <2>2. CASE WaitLen(c) \/ WaitWork(c)
    BY <2>2 DEF WaitLen, WaitWork, WaitTest, ClientPC
  <2>3. CASE WaitRelock(c)
    BY <2>3 DEF WaitRelock, ClientPC
  <2>4. CASE WaitReturn(c)
    BY <2>4 DEF WaitReturn, ClientPC
  <2>5. CASE WaitLock(c)
    BY <2>5 DEF WaitLock, ClientPC
  <2> QED BY <1>2, <2>1, <2>2, <2>3, <2>4, <2>5 DEF ClientStep
<1>3. ASSUME NEW c \in Clients, NEW j \in Jobs, PushLink(c, j) PROVE TypeOK'
  BY <1>3 DEF PushLink, ClientPC, JobState
<1>4. ASSUME NEW w \in Workers, WorkerStep(w) PROVE TypeOK'
  <2> USE DEF MoveWorker, WorkerPC
  <2>1. CASE CountAlive(w)
    BY <2>1 DEF CountAlive
  <2>2. CASE LoopTest(w)
    BY <2>2 DEF LoopTest
  <2>3. CASE BsemWait(w)
    BY <2>3 DEF BsemWait
  <2>4. CASE WokenTest(w)
    BY <2>4 DEF WokenTest
  <2>5. CASE CountIn(w)
    BY <2>5 DEF CountIn
  <2>6. CASE PullTake(w)
    <3>1. CASE queue = <<>>
      BY <2>6, <3>1 DEF PullTake, Unlinked
    <3>2. CASE queue # <<>>
      <4>1. Head(queue) \in Jobs /\ Tail(queue) \in Seq(Jobs)
        BY <3>2
      <4> QED BY <2>6, <3>2, <4>1 DEF PullTake, Unlinked, JobState
    <3> QED BY <3>1, <3>2
  <2>7. CASE PullPost(w)
    <3> DEFINE pc == [wpc EXCEPT ![w] = IF cur[w] = NoJob THEN "countOut" ELSE "run"]
    <3>1. pc \in [Workers -> WorkerPC]
      OBVIOUS
    <3>2. wpc' \in [Workers -> WorkerPC] /\ v' \in {0, 1}
      BY <2>7, <3>1, SignalledType DEF PullPost, PostAgain, BsemPost
    <3> QED BY <2>7, <3>2 DEF PullPost
  <2>8. CASE RunJob(w)
    BY <2>8 DEF RunJob, JobState
  <2>9. CASE CountOut(w)
    <3>1. cpc' \in [Clients -> ClientPC]
      BY <2>9, SignalledType DEF CountOut, SignalIdle, ClientPC
    <3> QED BY <2>9, <3>1 DEF CountOut, SignalIdle
  <2>10. CASE ExitCount(w)
    BY <2>10 DEF ExitCount
  <2>11. CASE ExitUnlock(w)
    BY <2>11 DEF ExitUnlock
  <2> QED BY <1>4, <2>1, <2>2, <2>3, <2>4, <2>5, <2>6, <2>7, <2>8, <2>9,
             <2>10, <2>11 DEF WorkerStep
<1>5. CASE DestroyBegin
  BY <1>5 DEF DestroyBegin
<1>6. CASE DestroyPost
  BY <1>6 DEF DestroyPost, AllWoken, WorkerPC
<1>7. CASE DestroyFree
  BY <1>7 DEF DestroyFree, JobState
<1>8. CASE SpuriousWakeup
  BY <1>8 DEF SpuriousWakeup, MoveWorker, WorkerPC, ClientPC
<1>9. CASE UNCHANGED vars
  BY <1>9 DEF vars
<1> QED BY <1>1, <1>2, <1>3, <1>4, <1>5, <1>6, <1>7, <1>8, <1>9
        DEF Next, DestroyStep, Quiet

\* The variables of the pool keep their types in every behaviour.
THEOREM TypeCorrect == Spec => []TypeOK
<1>1. Init => TypeOK
  BY DEF Init, TypeOK, WorkerPC, ClientPC, JobState, Threads
<1> QED BY <1>1, TypeStep, PTL DEF Spec

-----------------------------------------------------------------------------
(* No wakeup is lost.                                                      *)

\* After a signal some worker is awake: bsem_post wakes a sleeper if all sleep.
LEMMA SignalWakes ==
  ASSUME NEW pc \in [Workers -> WorkerPC], NEW r \in Signalled(pc, "sem")
  PROVE  \E w \in Workers : r[w] # "asleep"
<1>1. CASE {t \in DOMAIN pc : pc[t] = "asleep"} = {}
  BY <1>1, PoolAssumption DEF Signalled
<1>2. CASE {t \in DOMAIN pc : pc[t] = "asleep"} # {}
  <2>1. PICK t \in Workers : r = [pc EXCEPT ![t] = "sem"]
    BY <1>2 DEF Signalled
  <2> QED BY <2>1
<1> QED BY <1>1, <1>2

\* Every step keeps NoLostWakeup: whoever takes the semaphore goes on to pull,
\* and whoever leaves jobs behind posts it before releasing rwmutex.
LEMMA WakeupStep == TypeOK /\ NoLostWakeup /\ [Next]_vars => NoLostWakeup'
<1> SUFFICES ASSUME TypeOK, NoLostWakeup, [Next]_vars PROVE NoLostWakeup'
  OBVIOUS
<1> USE DEF NoLostWakeup, KeepAlive, queueVars, countVars
<1>0. wpc \in [Workers -> WorkerPC]
  BY DEF TypeOK
<1>1. CASE InitReturn
  BY <1>1 DEF InitReturn
<1>2. ASSUME NEW c \in Clients, ClientStep(c) \/ WaitLock(c) PROVE NoLostWakeup'
  <2>1. CASE PushPost(c)
    BY <1>0, <2>1, SignalWakes DEF PushPost, BsemPost
  <2>2. CASE UNCHANGED <<phase, queueVars, wpc>>
    BY <2>2
  <2> QED BY <1>2, <2>1, <2>2 DEF ClientStep, WaitLen, WaitWork, WaitTest,
                                  WaitRelock, WaitReturn, WaitLock
<1>3. ASSUME NEW c \in Clients, NEW j \in Jobs, PushLink(c, j) PROVE NoLostWakeup'
  BY <1>3, PoolAssumption DEF PushLink, Threads
<1>4. ASSUME NEW w \in Workers, WorkerStep(w) PROVE NoLostWakeup'
  <2> USE DEF MoveWorker
  <2>1. CASE CountAlive(w)
    BY <1>0, <2>1 DEF CountAlive
  <2>2. CASE LoopTest(w)
    BY <1>0, <2>2 DEF LoopTest
  <2>3. CASE BsemWait(w)
    BY <1>0, <2>3 DEF BsemWait
  <2>4. CASE WokenTest(w)
    BY <1>0, <2>4 DEF WokenTest
  <2>5. CASE CountIn(w)
    BY <1>0, <2>5 DEF CountIn
  <2>6. CASE PullTake(w)
    BY <2>6, PoolAssumption DEF PullTake, Unlinked
  <2>7. CASE PullPost(w)
    <3> DEFINE pc == [wpc EXCEPT ![w] = IF cur[w] = NoJob THEN "countOut" ELSE "run"]
    <3>1. CASE queue = <<>>
      BY <2>7, <3>1 DEF PullPost, PostAgain
    <3>2. CASE queue # <<>>
      <4>1. pc \in [Workers -> WorkerPC]
        BY <1>0 DEF WorkerPC
      <4>2. v' = 1 /\ wpc' \in Signalled(pc, "sem")
        BY <2>7, <3>2 DEF PullPost, PostAgain, BsemPost
      <4> QED BY <4>1, <4>2, SignalWakes
    <3> QED BY <3>1, <3>2
  <2>8. CASE RunJob(w)
    BY <1>0, <2>8 DEF RunJob
  <2>9. CASE CountOut(w)
    BY <1>0, <2>9 DEF CountOut, SignalIdle
  <2>10. CASE ExitCount(w)
    BY <1>0, <2>10 DEF ExitCount
  <2>11. CASE ExitUnlock(w)
    BY <1>0, <2>11 DEF ExitUnlock
  <2> QED BY <1>4, <2>1, <2>2, <2>3, <2>4, <2>5, <2>6, <2>7, <2>8, <2>9,
             <2>10, <2>11 DEF WorkerStep
<1>5. CASE DestroyBegin
  BY <1>5 DEF DestroyBegin
<1>6. CASE DestroyPost
  BY <1>6 DEF DestroyPost, AllWoken
<1>7. CASE DestroyFree
  BY <1>7 DEF DestroyFree
<1>8. CASE SpuriousWakeup
  BY <1>0, <1>8 DEF SpuriousWakeup, MoveWorker
<1>9. CASE UNCHANGED vars
  BY <1>9 DEF vars
<1> QED BY <1>1, <1>2, <1>3, <1>4, <1>5, <1>6, <1>7, <1>8, <1>9
        DEF Next, DestroyStep, Quiet

\* A queued job always has a thread on its way to it, for any number of
\* workers and jobs, although has_jobs cannot count beyond one.
THEOREM WakeupsAreKept == Spec => []NoLostWakeup
<1>1. Init => NoLostWakeup
  BY DEF Init, NoLostWakeup
<1> QED BY <1>1, TypeCorrect, WakeupStep, PTL DEF Spec

-----------------------------------------------------------------------------
(* num_threads_working counts the workers between CountIn and CountOut.    *)

\* A signal to the workers moves none of them into or out of Counted.
LEMMA SignalKeepsCounted ==
  ASSUME NEW pc \in [Workers -> WorkerPC], NEW r \in Signalled(pc, "sem")
  PROVE  {w \in Workers : r[w] \in CountedPC} = {w \in Workers : pc[w] \in CountedPC}
<1>1. CASE {t \in DOMAIN pc : pc[t] = "asleep"} = {}
  BY <1>1 DEF Signalled
<1>2. CASE {t \in DOMAIN pc : pc[t] = "asleep"} # {}
  <2>1. PICK t \in Workers : pc[t] = "asleep" /\ r = [pc EXCEPT ![t] = "sem"]
    BY <1>2 DEF Signalled
  <2> QED BY <2>1 DEF CountedPC
<1> QED BY <1>1, <1>2

\* Every step changes working by what it changes in the number of counted workers.
LEMMA WorkingStep == TypeOK /\ WorkingInv /\ [Next]_vars => WorkingInv'
<1> SUFFICES ASSUME TypeOK, WorkingInv, [Next]_vars PROVE WorkingInv'
  OBVIOUS
<1>0. /\ wpc \in [Workers -> WorkerPC]
      /\ IsFiniteSet(Counted)
  BY PoolAssumption, FS_Subset DEF TypeOK, Counted
<1>a. ASSUME Counted' = Counted, working' = working PROVE WorkingInv'
  BY <1>a DEF WorkingInv
<1> USE DEF Counted, queueVars, countVars
<1>1. CASE InitReturn
  BY <1>1, <1>a DEF InitReturn
<1>2. ASSUME NEW c \in Clients, ClientStep(c) \/ WaitLock(c) PROVE WorkingInv'
  <2>1. CASE PushPost(c)
    <3>1. wpc' \in Signalled(wpc, "sem") /\ working' = working
      BY <2>1 DEF PushPost, BsemPost
    <3>2. {w \in Workers : wpc'[w] \in CountedPC} = {w \in Workers : wpc[w] \in CountedPC}
      BY ONLY <1>0, <3>1, SignalKeepsCounted
    <3> QED BY <1>a, <3>1, <3>2 DEF CountedPC
  <2>2. CASE UNCHANGED <<working, wpc>>
    BY <2>2, <1>a
  <2> QED BY <1>2, <2>1, <2>2 DEF ClientStep, WaitLen, WaitWork, WaitTest,
                                  WaitRelock, WaitReturn, WaitLock
<1>3. ASSUME NEW c \in Clients, NEW j \in Jobs, PushLink(c, j) PROVE WorkingInv'
  BY <1>3, <1>a DEF PushLink
<1>4. ASSUME NEW w \in Workers, WorkerStep(w) PROVE WorkingInv'
  <2> USE DEF MoveWorker, CountedPC
  <2>1. CASE \/ CountAlive(w) \/ LoopTest(w) \/ BsemWait(w) \/ WokenTest(w)
             \/ ExitCount(w) \/ ExitUnlock(w)
    <3>1. working' = working
      BY <2>1 DEF CountAlive, LoopTest, BsemWait, WokenTest, ExitCount, ExitUnlock
    <3>2. \E from, to \in WorkerPC \ CountedPC :
             wpc[w] = from /\ wpc' = [wpc EXCEPT ![w] = to]
      BY <2>1 DEF CountAlive, LoopTest, BsemWait, WokenTest, ExitCount, ExitUnlock,
                  WorkerPC
    <3>3. Counted' = Counted
      BY <1>0, <3>2
    <3> QED BY <1>a, <3>1, <3>3
  <2>2. CASE PullTake(w) \/ RunJob(w)
    <3>1. working' = working
      BY <2>2 DEF PullTake, Unlinked, RunJob
    <3>2. Counted' = Counted
      BY <1>0, <2>2 DEF PullTake, Unlinked, RunJob
    <3> QED BY <1>a, <3>1, <3>2
  <2>3. CASE CountIn(w)
    <3>1. w \notin Counted /\ Counted' = Counted \cup {w}
      BY <1>0, <2>3 DEF CountIn
    <3>2. Cardinality(Counted') = Cardinality(Counted) + 1
      BY <1>0, <3>1, FS_AddElement
    <3> QED BY <2>3, <3>2 DEF CountIn, WorkingInv
  <2>4. CASE PullPost(w)
    <3> DEFINE pc == [wpc EXCEPT ![w] = IF cur[w] = NoJob THEN "countOut" ELSE "run"]
    <3>1. pc \in [Workers -> WorkerPC]
      BY <1>0 DEF WorkerPC
    <3>2. {u \in Workers : pc[u] \in CountedPC} = Counted
      BY <1>0, <2>4 DEF PullPost
    <3>3. wpc' = pc \/ wpc' \in Signalled(pc, "sem")
      BY <2>4 DEF PullPost, PostAgain, BsemPost
    <3>4. {u \in Workers : wpc'[u] \in CountedPC} = {u \in Workers : pc[u] \in CountedPC}
      <4> HIDE DEF pc, CountedPC
      <4>1. CASE wpc' = pc
        BY <4>1
      <4>2. CASE wpc' \in Signalled(pc, "sem")
        BY ONLY <3>1, <4>2, SignalKeepsCounted
      <4> QED BY <3>3, <4>1, <4>2
    <3>5. working' = working
      BY <2>4 DEF PullPost
    <3>6. Counted' = Counted
      BY ONLY <3>2, <3>4 DEF Counted, CountedPC
    <3> QED BY <1>a, <3>5, <3>6
  <2>5. CASE CountOut(w)
    <3>1. w \in Counted /\ Counted' = Counted \ {w}
      BY <1>0, <2>5 DEF CountOut, SignalIdle
    <3>2. Cardinality(Counted') = Cardinality(Counted) - 1
      BY <1>0, <3>1, FS_RemoveElement
    <3> QED BY <2>5, <3>2 DEF CountOut, SignalIdle, WorkingInv
  <2> QED BY <1>4, <2>1, <2>2, <2>3, <2>4, <2>5 DEF WorkerStep
<1>5. CASE DestroyBegin
  BY <1>5, <1>a DEF DestroyBegin
<1>6. CASE DestroyPost
  <2>1. Counted' = Counted
    BY <1>0, <1>6 DEF DestroyPost, AllWoken, CountedPC
  <2> QED BY <1>6, <1>a, <2>1 DEF DestroyPost, AllWoken
<1>7. CASE DestroyFree
  BY <1>7, <1>a DEF DestroyFree
<1>8. CASE SpuriousWakeup
  <2>1. Counted' = Counted
    BY <1>0, <1>8 DEF SpuriousWakeup, MoveWorker, CountedPC
  <2> QED BY <1>8, <1>a, <2>1 DEF SpuriousWakeup
<1>9. CASE UNCHANGED vars
  BY <1>9, <1>a DEF vars
<1> QED BY <1>1, <1>2, <1>3, <1>4, <1>5, <1>6, <1>7, <1>8, <1>9
        DEF Next, DestroyStep, Quiet

-----------------------------------------------------------------------------
(* Who holds thcount_lock, and who may still be in a call.                 *)

\* A signal to the workers moves sleepers only, and moves them to "sem".
LEMMA WorkerSignal ==
  ASSUME NEW pc \in [Workers -> WorkerPC], NEW r \in Signalled(pc, "sem")
  PROVE  \A w \in Workers : r[w] = pc[w] \/ (pc[w] = "asleep" /\ r[w] = "sem")
<1>1. CASE {t \in DOMAIN pc : pc[t] = "asleep"} = {}
  BY <1>1 DEF Signalled
<1>2. CASE {t \in DOMAIN pc : pc[t] = "asleep"} # {}
  <2>1. PICK t \in Workers : pc[t] = "asleep" /\ r = [pc EXCEPT ![t] = "sem"]
    BY <1>2 DEF Signalled
  <2> QED BY <2>1
<1> QED BY <1>1, <1>2

\* A signal to the waiters moves sleepers only, and moves them to "relock".
LEMMA ClientSignal ==
  ASSUME NEW pc \in [Clients -> ClientPC], NEW r \in Signalled(pc, "relock")
  PROVE  \A c \in Clients : r[c] = pc[c] \/ (pc[c] = "asleep" /\ r[c] = "relock")
<1>1. CASE {t \in DOMAIN pc : pc[t] = "asleep"} = {}
  BY <1>1 DEF Signalled
<1>2. CASE {t \in DOMAIN pc : pc[t] = "asleep"} # {}
  <2>1. PICK t \in Clients : pc[t] = "asleep" /\ r = [pc EXCEPT ![t] = "relock"]
    BY <1>2 DEF Signalled
  <2> QED BY <2>1
<1> QED BY <1>1, <1>2

\* Every step keeps LockInv and PhaseInv.
LEMMA LockStep ==
  TypeOK /\ LockInv /\ PhaseInv /\ [Next]_vars => LockInv' /\ PhaseInv'
<1> SUFFICES ASSUME TypeOK, LockInv, PhaseInv, [Next]_vars
             PROVE  LockInv' /\ PhaseInv'
  OBVIOUS
<1> USE DEF LockInv, PhaseInv, KeepAlive, HoldsCount, queueVars, countVars
<1>0. /\ wpc \in [Workers -> WorkerPC]
      /\ cpc \in [Clients -> ClientPC]
      /\ \A t \in Workers \cup Clients : t # NoThread
      /\ \A c \in Clients, w \in Workers : c # w
      /\ phase \in {"creating", "open", "closing", "freed"}
  BY PoolAssumption DEF TypeOK
<1>1. CASE InitReturn
  BY <1>0, <1>1 DEF InitReturn
<1>2. ASSUME NEW c \in Clients, ClientStep(c) \/ WaitLock(c)
      PROVE  LockInv' /\ PhaseInv'
  <2>1. CASE PushPost(c)
    <3>1. \A w \in Workers : wpc'[w] = "leaving" => wpc[w] = "leaving"
      BY <1>0, <2>1, WorkerSignal DEF PushPost, BsemPost, WorkerPC
    <3> QED BY <1>0, <2>1, <3>1 DEF PushPost
  <2>2. CASE WaitLen(c) \/ WaitWork(c)
    BY <1>0, <2>2 DEF WaitLen, WaitWork, WaitTest
  <2>3. CASE WaitRelock(c)
    BY <1>0, <2>3 DEF WaitRelock
  <2>4. CASE WaitReturn(c)
    BY <1>0, <2>4 DEF WaitReturn
  <2>5. CASE WaitLock(c)
    BY <1>0, <2>5 DEF WaitLock
  <2> QED BY <1>2, <2>1, <2>2, <2>3, <2>4, <2>5 DEF ClientStep
<1>3. ASSUME NEW c \in Clients, NEW j \in Jobs, PushLink(c, j)
      PROVE  LockInv' /\ PhaseInv'
  BY <1>0, <1>3 DEF PushLink
<1>4. ASSUME NEW w \in Workers, WorkerStep(w) PROVE LockInv' /\ PhaseInv'
  <2> USE DEF MoveWorker
  <2>1. CASE CountAlive(w) \/ LoopTest(w) \/ BsemWait(w) \/ WokenTest(w)
             \/ CountIn(w) \/ PullTake(w) \/ RunJob(w)
    BY <1>0, <2>1 DEF CountAlive, LoopTest, BsemWait, WokenTest, CountIn,
                      PullTake, RunJob
  <2>2. CASE PullPost(w)
    <3> DEFINE pc == [wpc EXCEPT ![w] = IF cur[w] = NoJob THEN "countOut" ELSE "run"]
    <3>1. pc \in [Workers -> WorkerPC]
      BY <1>0 DEF WorkerPC
    <3>2. wpc' = pc \/ wpc' \in Signalled(pc, "sem")
      BY <2>2 DEF PullPost, PostAgain, BsemPost
    <3>3. \A u \in Workers : wpc'[u] = "leaving" => pc[u] = "leaving"
      BY <3>1, <3>2, WorkerSignal DEF WorkerPC
    <3>4. \A u \in Workers : pc[u] = "leaving" => wpc[u] = "leaving"
      BY <1>0
    <3> QED BY <1>0, <2>2, <3>3, <3>4 DEF PullPost
  <2>3. CASE CountOut(w)
    <3>1. \A c \in Clients : cpc'[c] = cpc[c]
                              \/ (cpc[c] = "asleep" /\ cpc'[c] = "relock")
      BY <1>0, <2>3, ClientSignal DEF CountOut, SignalIdle, ClientPC
    <3> QED BY <1>0, <2>3, <3>1 DEF CountOut, SignalIdle
  <2>4. CASE ExitCount(w)
    BY <1>0, <2>4 DEF ExitCount
  <2>5. CASE ExitUnlock(w)
    BY <1>0, <2>5 DEF ExitUnlock
  <2> QED BY <1>4, <2>1, <2>2, <2>3, <2>4, <2>5 DEF WorkerStep
<1>5. CASE DestroyBegin
  BY <1>5 DEF DestroyBegin
<1>6. CASE DestroyPost
  BY <1>0, <1>6 DEF DestroyPost, AllWoken
<1>7. CASE DestroyFree
  BY <1>7 DEF DestroyFree
<1>8. CASE SpuriousWakeup
  BY <1>0, <1>8 DEF SpuriousWakeup, MoveWorker
<1>9. CASE UNCHANGED vars
  BY <1>9 DEF vars
<1> QED BY <1>1, <1>2, <1>3, <1>4, <1>5, <1>6, <1>7, <1>8, <1>9
        DEF Next, DestroyStep, Quiet

-----------------------------------------------------------------------------
(* Where the job in each state is to be found.                             *)

\* A step that moves no job and no worker that has pulled one keeps both
\* invariants.
LEMMA JobFrame ==
  ASSUME TypeOK, QueueInv, RunInv, UNCHANGED <<queue, cur, job>>,
         \A w \in Workers : wpc[w] \in {"pulled", "run"} =>
             wpc'[w] \in {"pulled", "run"} \/ cur[w] = NoJob
  PROVE  QueueInv' /\ RunInv'
BY DEF TypeOK, QueueInv, RunInv

\* Every step keeps QueueInv and RunInv.
LEMMA JobStep ==
  TypeOK /\ PhaseInv /\ QueueInv /\ RunInv /\ [Next]_vars => QueueInv' /\ RunInv'
<1> SUFFICES ASSUME TypeOK, PhaseInv, QueueInv, RunInv, [Next]_vars
             PROVE  QueueInv' /\ RunInv'
  OBVIOUS
<1> USE DEF queueVars, countVars
<1>0. /\ wpc \in [Workers -> WorkerPC]
      /\ cpc \in [Clients -> ClientPC]
      /\ cur \in [Workers -> Jobs \cup {NoJob}]
      /\ job \in [Jobs -> JobState]
      /\ queue \in Seq(Jobs)
      /\ NoJob \notin Jobs
  BY PoolAssumption DEF TypeOK
<1>1. CASE InitReturn
  BY <1>1, JobFrame DEF InitReturn
<1>2. ASSUME NEW c \in Clients, ClientStep(c) \/ WaitLock(c)
      PROVE  QueueInv' /\ RunInv'
  <2>1. CASE PushPost(c)
    <3>1. \A w \in Workers : wpc'[w] = wpc[w] \/ wpc[w] = "asleep"
      BY <1>0, <2>1, WorkerSignal DEF PushPost, BsemPost, WorkerPC
    <3> QED BY <2>1, <3>1, JobFrame DEF PushPost
  <2>2. CASE UNCHANGED <<queue, cur, job, wpc>>
    BY <2>2, JobFrame
  <2> QED BY <1>2, <2>1, <2>2 DEF ClientStep, WaitLen, WaitWork, WaitTest,
                                  WaitRelock, WaitReturn, WaitLock
<1>3. ASSUME NEW c \in Clients, NEW j \in Jobs, PushLink(c, j)
      PROVE  QueueInv' /\ RunInv'
  <2>1. /\ Len(queue') = Len(queue) + 1
        /\ \A i \in 1 .. Len(queue) : queue'[i] = queue[i]
        /\ queue'[Len(queue) + 1] = j
        /\ Len(queue) \in Nat
    BY <1>0, <1>3 DEF PushLink
  <2>2. /\ job[j] = "new"
        /\ job' = [job EXCEPT ![j] = "queued"]
        /\ UNCHANGED <<cur, wpc>>
    BY <1>3 DEF PushLink
  <2>3. \A i \in 1 .. Len(queue) : queue[i] \in Jobs /\ queue[i] # j
    BY <1>0, <2>2 DEF QueueInv
  <2>4. QueueInv'
    <3>1. \A i \in 1 .. Len(queue') : i \in 1 .. Len(queue) \/ i = Len(queue) + 1
      BY <2>1
    <3>2. \A i \in 1 .. Len(queue') : job'[queue'[i]] = "queued"
      BY <1>0, <2>1, <2>2, <2>3, <3>1 DEF QueueInv
    <3>3. \A i, k \in 1 .. Len(queue') : queue'[i] = queue'[k] => i = k
      BY <2>1, <2>3, <3>1 DEF QueueInv
    <3>4. ASSUME NEW h \in Jobs, job'[h] = "queued"
          PROVE  \E i \in 1 .. Len(queue') : queue'[i] = h
      <4>1. CASE h = j
        BY <2>1, <4>1
      <4>2. CASE h # j
        <5>1. PICK i \in 1 .. Len(queue) : queue[i] = h
          BY <1>0, <2>2, <3>4, <4>2 DEF QueueInv
        <5> QED BY <2>1, <5>1
      <4> QED BY <4>1, <4>2
    <3> QED BY <3>2, <3>3, <3>4 DEF QueueInv
  <2>5. RunInv'
    BY <1>0, <2>2 DEF RunInv
  <2> QED BY <2>4, <2>5
<1>4. ASSUME NEW w \in Workers, WorkerStep(w) PROVE QueueInv' /\ RunInv'
  <2> USE DEF MoveWorker
  <2>1. CASE CountAlive(w) \/ LoopTest(w) \/ BsemWait(w) \/ WokenTest(w)
             \/ CountIn(w) \/ ExitCount(w) \/ ExitUnlock(w) \/ CountOut(w)
    <3>1. UNCHANGED <<queue, cur, job>>
      BY <2>1 DEF CountAlive, LoopTest, BsemWait, WokenTest, CountIn, ExitCount,
                  ExitUnlock, CountOut
    <3>2. /\ wpc[w] \notin {"pulled", "run"}
          /\ \A u \in Workers \ {w} : wpc'[u] = wpc[u]
      BY <1>0, <2>1 DEF CountAlive, LoopTest, BsemWait, WokenTest, CountIn,
                        ExitCount, ExitUnlock, CountOut
    <3> QED BY <3>1, <3>2, JobFrame
  <2>2. CASE PullTake(w)
    <3>1. CASE queue = <<>>
      <4>1. /\ UNCHANGED <<queue, cur, job>>
            /\ wpc[w] = "pull"
            /\ wpc' = [wpc EXCEPT ![w] = "pulled"]
        BY <2>2, <3>1 DEF PullTake, Unlinked
      <4> QED BY <1>0, <4>1, JobFrame
    <3>2. CASE queue # <<>>
      <4> DEFINE h == queue[1]
      <4>1. /\ h \in Jobs /\ job[h] = "queued"
            /\ Len(queue) \in Nat \ {0}
            /\ Len(queue') = Len(queue) - 1
            /\ \A i \in 1 .. Len(queue') : queue'[i] = queue[i + 1]
            /\ \A i \in 1 .. Len(queue) : queue[i] \in Jobs
        BY <1>0, <2>2, <3>2 DEF PullTake, Unlinked, QueueInv
      <4>2. /\ wpc[w] = "pull"
            /\ wpc' = [wpc EXCEPT ![w] = "pulled"]
            /\ cur' = [cur EXCEPT ![w] = h]
            /\ job' = [job EXCEPT ![h] = "running"]
        BY <1>0, <2>2, <3>2 DEF PullTake, Unlinked
      <4>3. QueueInv'
        <5>1. \A i \in 1 .. Len(queue') :
                 i + 1 \in 1 .. Len(queue) /\ queue[i + 1] # h
          BY <4>1 DEF QueueInv
        <5>2. \A i \in 1 .. Len(queue') : job'[queue'[i]] = "queued"
          BY <1>0, <4>1, <4>2, <5>1 DEF QueueInv
        <5>3. \A i, k \in 1 .. Len(queue') : queue'[i] = queue'[k] => i = k
          BY <4>1, <5>1 DEF QueueInv
        <5>4. ASSUME NEW g \in Jobs, job'[g] = "queued"
              PROVE  \E i \in 1 .. Len(queue') : queue'[i] = g
          <6>1. g # h /\ job[g] = "queued"
            BY <1>0, <4>1, <4>2, <5>4
          <6>2. PICK i \in 1 .. Len(queue) : queue[i] = g
            BY <6>1 DEF QueueInv
          <6>3. i # 1
            BY <6>1, <6>2
          <6>4. i - 1 \in 1 .. Len(queue') /\ queue'[i - 1] = g
            BY <4>1, <6>2, <6>3
          <6> QED BY <6>4
        <5> QED BY <5>2, <5>3, <5>4 DEF QueueInv
      <4>4. RunInv'
        BY <1>0, <4>1, <4>2 DEF RunInv
      <4> QED BY <4>3, <4>4
    <3> QED BY <3>1, <3>2
  <2>3. CASE PullPost(w)
    <3> DEFINE pc == [wpc EXCEPT ![w] = IF cur[w] = NoJob THEN "countOut" ELSE "run"]
    <3>1. pc \in [Workers -> WorkerPC]
      BY <1>0 DEF WorkerPC
    <3>2. wpc' = pc \/ wpc' \in Signalled(pc, "sem")
      BY <2>3 DEF PullPost, PostAgain, BsemPost
    <3>3. \A u \in Workers : wpc'[u] = pc[u] \/ pc[u] = "asleep"
      BY <3>1, <3>2, WorkerSignal
    <3>4. \A u \in Workers : wpc[u] \in {"pulled", "run"} =>
             wpc'[u] \in {"pulled", "run"} \/ cur[u] = NoJob
      BY <1>0, <3>3
    <3>5. UNCHANGED <<queue, cur, job>>
      BY <2>3 DEF PullPost
    <3> QED BY <3>4, <3>5, JobFrame
  <2>4. CASE RunJob(w)
    <3>1. CASE cur[w] = NoJob
      <4>1. UNCHANGED <<queue, cur, job>>
        BY <1>0, <2>4, <3>1 DEF RunJob
      <4>2. \A u \in Workers \ {w} : wpc'[u] = wpc[u]
        BY <1>0, <2>4 DEF RunJob
      <4> QED BY <3>1, <4>1, <4>2, JobFrame
    <3>2. CASE cur[w] # NoJob
      <4>1. /\ cur[w] \in Jobs /\ job[cur[w]] = "running"
            /\ job' = [job EXCEPT ![cur[w]] = "done"]
            /\ cur' = [cur EXCEPT ![w] = NoJob]
            /\ wpc' = [wpc EXCEPT ![w] = "countOut"]
            /\ UNCHANGED queue
        BY <1>0, <2>4, <3>2 DEF RunJob, RunInv
      <4>2. QueueInv'
        BY <1>0, <4>1 DEF QueueInv
      <4>3. RunInv'
        BY <1>0, <3>2, <4>1 DEF RunInv
      <4> QED BY <4>2, <4>3
    <3> QED BY <3>1, <3>2
  <2> QED BY <1>4, <2>1, <2>2, <2>3, <2>4 DEF WorkerStep
<1>5. CASE DestroyBegin
  BY <1>5, JobFrame DEF DestroyBegin
<1>6. CASE DestroyPost
  <2>1. \A w \in Workers : wpc[w] \in {"pulled", "run"} => wpc'[w] = wpc[w]
    BY <1>0, <1>6 DEF DestroyPost, AllWoken
  <2> QED BY <1>6, <2>1, JobFrame DEF DestroyPost, AllWoken
<1>7. CASE DestroyFree
  <2>1. QueueInv'
    BY <1>0, <1>7 DEF DestroyFree, QueueInv
  <2>2. RunInv'
    BY <1>0, <1>7 DEF DestroyFree, RunInv
  <2> QED BY <2>1, <2>2
<1>8. CASE SpuriousWakeup
  <2>1. UNCHANGED <<queue, cur, job>>
    BY <1>8 DEF SpuriousWakeup
  <2>2. \A w \in Workers : wpc[w] \in {"pulled", "run"} => wpc'[w] = wpc[w]
    BY <1>0, <1>8 DEF SpuriousWakeup, MoveWorker
  <2> QED BY <2>1, <2>2, JobFrame
<1>9. CASE UNCHANGED vars
  BY <1>9, JobFrame DEF vars
<1> QED BY <1>1, <1>2, <1>3, <1>4, <1>5, <1>6, <1>7, <1>8, <1>9
        DEF Next, DestroyStep, Quiet

-----------------------------------------------------------------------------
(* What thpool_wait promises.                                              *)

\* no waiter gets as far as "workCheck" or "returning", nor begins to wait
WaitersStay ==
  \A c \in Clients : \/ cpc'[c] = cpc[c]
                     \/ cpc'[c] \notin InWait
                     \/ cpc[c] \in InWait /\ cpc'[c] \notin {"workCheck", "returning"}

\* no submitted job is less far on
JobsProgress ==
  \A j \in Jobs : \/ job'[j] = job[j]
                  \/ job[j] = "new"
                  \/ job[j] = "queued" /\ job'[j] = "running"
                  \/ job'[j] = "done"

\* A step keeps what the waiters have established if it takes none of them
\* further and no job back.
LEMMA PromiseFrame ==
  ASSUME TypeOK, PromiseInv, promised' = promised, WaitersStay, JobsProgress
  PROVE  PromiseInv'
BY DEF PromiseInv, WaitersStay, JobsProgress, InWait, HoldsCount, TypeOK

\* Every step keeps PromiseInv.  The step that matters is WaitWork: with len
\* read as 0 no promised job is queued any more, a running one is held by a
\* counted worker, and working = 0 says there is none.
LEMMA PromiseStep == PoolInv /\ [Next]_vars => PromiseInv'
<1> SUFFICES ASSUME PoolInv, [Next]_vars PROVE PromiseInv'
  OBVIOUS
<1> USE DEF PoolInv, queueVars, countVars
<1>0. /\ wpc \in [Workers -> WorkerPC]
      /\ cpc \in [Clients -> ClientPC]
      /\ cur \in [Workers -> Jobs \cup {NoJob}]
      /\ job \in [Jobs -> JobState]
      /\ promised \in [Clients -> SUBSET Jobs]
      /\ queue \in Seq(Jobs)
      /\ NoJob \notin Jobs
  BY PoolAssumption DEF TypeOK
<1>a. ASSUME UNCHANGED <<cpc, job, promised>> PROVE PromiseInv'
  BY <1>a DEF PromiseInv
<1>b. ASSUME WaitersStay, UNCHANGED <<job, promised>> PROVE PromiseInv'
  BY <1>b, PromiseFrame DEF JobsProgress
<1>c. ASSUME JobsProgress, UNCHANGED <<cpc, promised>> PROVE PromiseInv'
  BY <1>c, PromiseFrame DEF WaitersStay
<1>1. CASE InitReturn
  BY <1>1, <1>a DEF InitReturn
<1>2. ASSUME NEW c \in Clients, ClientStep(c) \/ WaitLock(c) PROVE PromiseInv'
  <2>1. CASE PushPost(c)
    BY <1>0, <2>1, <1>b DEF PushPost, WaitersStay, InWait, HoldsCount
  <2>2. CASE WaitLen(c)
    <3>1. CASE queue = <<>>
      <4>1. \A j \in Jobs : job[j] # "queued"
        BY <3>1 DEF QueueInv
      <4> QED BY <1>0, <2>2, <3>1, <4>1
              DEF WaitLen, WaitTest, PromiseInv, InWait, HoldsCount
    <3>2. CASE queue # <<>>
      BY <1>0, <2>2, <3>2, <1>b DEF WaitLen, WaitTest, WaitersStay, InWait, HoldsCount
    <3> QED BY <3>1, <3>2
  <2>3. CASE WaitWork(c)
    <3>1. CASE working = 0
      <4>1. Counted = {}
        <5>1. IsFiniteSet(Counted)
          BY PoolAssumption, FS_Subset DEF Counted
        <5> QED BY <3>1, <5>1, FS_EmptySet DEF WorkingInv
      <4>2. \A j \in Jobs : job[j] # "running"
        BY <1>0, <4>1 DEF RunInv, Counted, CountedPC
      <4>3. \A j \in promised[c] : job[j] = "done"
        BY <1>0, <2>3, <4>2 DEF WaitWork, WaitTest, PromiseInv
      <4>4. /\ cpc' = [cpc EXCEPT ![c] = "returning"]
            /\ UNCHANGED <<job, promised>>
        BY <2>3, <3>1 DEF WaitWork, WaitTest
      <4> QED BY <1>0, <4>3, <4>4 DEF PromiseInv, InWait, HoldsCount
    <3>2. CASE working # 0
      BY <1>0, <2>3, <3>2, <1>b DEF WaitWork, WaitTest, WaitersStay, InWait, HoldsCount
    <3> QED BY <3>1, <3>2
  <2>4. CASE WaitRelock(c)
    BY <1>0, <2>4, <1>b DEF WaitRelock, WaitersStay, InWait, HoldsCount
  <2>5. CASE WaitReturn(c)
    BY <1>0, <2>5 DEF WaitReturn, PromiseInv, InWait, HoldsCount
  <2>6. CASE WaitLock(c)
    <3>1. \A j \in Jobs : job[j] # "dropped"
      BY <2>6 DEF WaitLock, DropInv
    <3> QED BY <1>0, <2>6, <3>1
            DEF WaitLock, PromiseInv, InWait, HoldsCount, JobState
  <2> QED BY <1>2, <2>1, <2>2, <2>3, <2>4, <2>5, <2>6 DEF ClientStep
<1>3. ASSUME NEW c \in Clients, NEW j \in Jobs, PushLink(c, j) PROVE PromiseInv'
  <2>1. WaitersStay
    BY <1>0, <1>3 DEF PushLink, WaitersStay, InWait, HoldsCount
  <2>2. JobsProgress /\ promised' = promised
    BY <1>0, <1>3 DEF PushLink, JobsProgress
  <2> QED BY <2>1, <2>2, PromiseFrame
<1>4. ASSUME NEW w \in Workers, WorkerStep(w) PROVE PromiseInv'
  <2> USE DEF MoveWorker
  <2>1. CASE CountAlive(w) \/ LoopTest(w) \/ BsemWait(w) \/ WokenTest(w)
             \/ CountIn(w) \/ PullPost(w) \/ ExitCount(w) \/ ExitUnlock(w)
    BY <2>1, <1>a DEF CountAlive, LoopTest, BsemWait, WokenTest, CountIn,
                      PullPost, ExitCount, ExitUnlock
  <2>2. CASE PullTake(w)
    <3>1. CASE queue = <<>>
      BY <2>2, <3>1, <1>a DEF PullTake, Unlinked
    <3>2. CASE queue # <<>>
      <4>1. Head(queue) = queue[1] /\ queue[1] \in Jobs /\ job[queue[1]] = "queued"
        BY <1>0, <3>2 DEF QueueInv
      <4>2. job' = [job EXCEPT ![queue[1]] = "running"] /\ UNCHANGED <<cpc, promised>>
        BY <2>2, <3>2, <4>1 DEF PullTake, Unlinked
      <4>3. JobsProgress
        BY <1>0, <4>1, <4>2 DEF JobsProgress
      <4> QED BY <1>c, <4>2, <4>3
    <3> QED BY <3>1, <3>2
  <2>3. CASE RunJob(w)
    <3>1. JobsProgress
      BY <1>0, <2>3 DEF RunJob, JobsProgress
    <3> QED BY <1>c, <2>3, <3>1 DEF RunJob
  <2>4. CASE CountOut(w)
    <3>1. /\ \A c \in Clients : cpc'[c] = cpc[c]
                               \/ (cpc[c] = "asleep" /\ cpc'[c] = "relock")
          /\ UNCHANGED <<job, promised>>
      BY <1>0, <2>4, ClientSignal DEF CountOut, SignalIdle
    <3> QED BY <1>b, <3>1 DEF WaitersStay, InWait, HoldsCount
  <2> QED BY <1>4, <2>1, <2>2, <2>3, <2>4 DEF WorkerStep
<1>5. CASE DestroyBegin
  BY <1>5, <1>a DEF DestroyBegin
<1>6. CASE DestroyPost
  BY <1>6, <1>a DEF DestroyPost, AllWoken
<1>7. CASE DestroyFree
  <2>1. \A c \in Clients : cpc[c] = "idle"
    BY <1>7 DEF DestroyFree, PhaseInv, KeepAlive
  <2> QED BY <1>7, <2>1 DEF DestroyFree, PromiseInv, InWait, HoldsCount
<1>8. CASE SpuriousWakeup
  <2>1. UNCHANGED <<job, promised>>
    BY <1>8 DEF SpuriousWakeup
  <2>2. WaitersStay
    BY <1>0, <1>8 DEF SpuriousWakeup, WaitersStay, InWait, HoldsCount
  <2> QED BY <1>b, <2>1, <2>2
<1>9. CASE UNCHANGED vars
  BY <1>9, <1>a DEF vars
<1> QED BY <1>1, <1>2, <1>3, <1>4, <1>5, <1>6, <1>7, <1>8, <1>9
        DEF Next, DestroyStep, Quiet

\* Jobs are dropped only when the pool is freed.
LEMMA DropStep == TypeOK /\ RunInv /\ DropInv /\ [Next]_vars => DropInv'
<1> SUFFICES ASSUME TypeOK, RunInv, DropInv, [Next]_vars PROVE DropInv'
  OBVIOUS
<1> USE DEF queueVars, countVars, DropInv
<1>0. job \in [Jobs -> JobState] /\ queue \in Seq(Jobs)
  BY DEF TypeOK
<1>a. ASSUME job' = job, phase' = phase \/ phase # "freed" PROVE DropInv'
  BY <1>a
<1>1. ASSUME NEW c \in Clients, ClientStep(c) \/ WaitLock(c) PROVE DropInv'
  BY <1>1, <1>a DEF ClientStep, PushPost, WaitLen, WaitWork, WaitTest, WaitRelock,
                    WaitReturn, WaitLock
<1>2. ASSUME NEW c \in Clients, NEW j \in Jobs, PushLink(c, j) PROVE DropInv'
  BY <1>0, <1>2 DEF PushLink
<1>3. ASSUME NEW w \in Workers, WorkerStep(w) PROVE DropInv'
  <2>1. CASE PullTake(w) /\ queue # <<>>
    <3>1. Head(queue) \in Jobs
      BY <1>0, <2>1
    <3> QED BY <1>0, <2>1, <3>1 DEF PullTake, Unlinked
  <2>2. CASE RunJob(w)
    BY <1>0, <2>2 DEF RunJob
  <2>3. CASE UNCHANGED <<phase, job>>
    BY <2>3, <1>a
  <2> QED BY <1>3, <2>1, <2>2, <2>3
          DEF WorkerStep, CountAlive, LoopTest, BsemWait, WokenTest, CountIn,
              PullTake, PullPost, CountOut, ExitCount, ExitUnlock
<1>4. CASE InitReturn \/ DestroyBegin \/ DestroyPost \/ SpuriousWakeup
  BY <1>4, <1>a DEF InitReturn, DestroyBegin, DestroyPost, SpuriousWakeup
<1>5. CASE DestroyFree
  BY <1>0, <1>5 DEF DestroyFree
<1>6. CASE UNCHANGED vars
  BY <1>6, <1>a DEF vars
<1> QED BY <1>1, <1>2, <1>3, <1>4, <1>5, <1>6 DEF Next, DestroyStep, Quiet

\* The whole inductive invariant holds in every behaviour of the pool.
THEOREM PoolCorrect == Spec => []PoolInv
<1>1. Init => PoolInv
  <2> SUFFICES ASSUME Init PROVE PoolInv
    OBVIOUS
  <2>1. TypeOK
    BY DEF Init, TypeOK, WorkerPC, ClientPC, JobState, Threads
  <2>2. WorkingInv
    <3>1. Counted = {}
      BY DEF Init, Counted, CountedPC
    <3> QED BY <3>1, FS_EmptySet DEF Init, WorkingInv
  <2>3. LockInv /\ PhaseInv /\ QueueInv /\ RunInv /\ PromiseInv /\ DropInv
    BY DEF Init, LockInv, PhaseInv, QueueInv, RunInv, PromiseInv, DropInv,
           HoldsCount, InWait
  <2> QED BY <2>1, <2>2, <2>3 DEF PoolInv
<1>2. PoolInv /\ [Next]_vars => PoolInv'
  BY TypeStep, WorkingStep, LockStep, JobStep, PromiseStep, DropStep DEF PoolInv
<1> QED BY <1>1, <1>2, PTL DEF Spec

\* When thpool_wait returns, every job submitted before it took thcount_lock has
\* run to its end, for any number of workers, clients and jobs.
THEOREM WaitIsCorrect == Spec => []WaitMeansDone
<1>1. PoolInv => WaitMeansDone
  BY DEF PoolInv, PromiseInv, WaitMeansDone
<1> QED BY <1>1, PoolCorrect, PTL

\* No job is run by two workers, nor run while it is still queued.
THEOREM JobsAreExclusive == Spec => []ExclusiveJobs
<1>1. PoolInv => ExclusiveJobs
  BY DEF PoolInv, QueueInv, RunInv, ExclusiveJobs
<1> QED BY <1>1, PoolCorrect, PTL
=============================================================================
