------------------------------ MODULE JThreadPool ------------------------------
(***************************************************************************)
(* ThreadPool (JSharedLib): workers that take jobs from a queue, the owner *)
(* that enqueues jobs and in the end destroys the pool.  A job may itself  *)
(* enqueue jobs.                                                           *)
(*                                                                         *)
(* m_mutexJobs guards the queue.  A worker holds it from its test of the   *)
(* predicate until it blocks on m_cvJobs ("block"); every other critical   *)
(* section is one step.  m_stopAll is a plain bool: EnqueueJob and the     *)
(* destructor use it without the mutex, and the destructor notifies        *)
(* without it.  A worker that has tested the flag and not yet blocked      *)
(* misses that notification, and nobody repeats it: "missed".              *)
(*                                                                         *)
(* A job is named by the order of the pushes.  Jobs are taken to end.      *)
(***************************************************************************)
EXTENDS Naturals, Sequences, FiniteSets

CONSTANTS
  Worker,               \* m_workerThreads
  Owner,                \* the thread that owns the pool
  MaxJob                \* bound: jobs enqueued

ASSUME WorkerAssumption ==
  IsFiniteSet(Worker) /\ Worker # {} /\ Owner \notin Worker
ASSUME MaxJobAssumption == MaxJob \in Nat

VARIABLES
  m_jobs,
  m_stopAll,
  pc,                   \* where each thread is
  pushed,               \* number of jobs pushed
  started,              \* history: the jobs taken by workers, in order
  missed,               \* history: the workers that missed notify_all
  terminated            \* an exception left a thread: std::terminate

vars == <<m_jobs, m_stopAll, pc, pushed, started, missed, terminated>>

Thread == Worker \cup {Owner}

WorkerPc == {"check", "block", "asleep", "run", "push", "notify", "done"}
OwnerPc  == {"user", "push", "notify", "stop", "join", "gone"}

TypeOK ==
  /\ m_jobs \in Seq(Nat)
  /\ m_stopAll \in BOOLEAN
  /\ pc \in [Thread -> WorkerPc \cup OwnerPc]
  /\ pc[Owner] \in OwnerPc
  /\ \A w \in Worker : pc[w] \in WorkerPc
  /\ pushed \in Nat
  /\ started \in Seq(Nat)
  /\ missed \subseteq Worker
  /\ terminated \in BOOLEAN

(* The constructor: every worker is about to lock m_mutexJobs.             *)
Init ==
  /\ m_jobs = <<>>
  /\ m_stopAll = FALSE
  /\ pc = [t \in Thread |-> IF t = Owner THEN "user" ELSE "check"]
  /\ pushed = 0
  /\ started = <<>>
  /\ missed = {}
  /\ terminated = FALSE

-------------------------------------------------------------------------------
At(place) == {t \in Thread : pc[t] = place}

MutexFree == At("block") = {}

(* Where a thread is that may call EnqueueJob: a worker inside a job.      *)
Home(t) == IF t = Owner THEN "user" ELSE "run"

(* EnqueueJob: if (m_stopAll) throw;                                       *)
EnqueueJob_Test(t) ==
  /\ ~terminated
  /\ pc[t] = Home(t)
  /\ ~m_stopAll
  /\ pushed + Cardinality(At("push")) < MaxJob
  /\ pc' = [pc EXCEPT ![t] = "push"]
  /\ UNCHANGED <<m_jobs, m_stopAll, pushed, started, missed, terminated>>

(* Called by a job after the stop.  The exception ends the job: its        *)
(* packaged_task keeps it, a job given as a std::function lets it go on.   *)
EnqueueJob_Throw(w) ==
  /\ ~terminated
  /\ pc[w] = "run"
  /\ m_stopAll
  /\ \/ pc' = [pc EXCEPT ![w] = "check"] /\ UNCHANGED terminated
     \/ terminated' = TRUE /\ UNCHANGED pc
  /\ UNCHANGED <<m_jobs, m_stopAll, pushed, started, missed>>

(* m_jobs.push(job), under the mutex                                       *)
EnqueueJob_Push(t) ==
  /\ ~terminated
  /\ pc[t] = "push"
  /\ MutexFree
  /\ pushed' = pushed + 1
  /\ m_jobs' = Append(m_jobs, pushed + 1)
  /\ pc' = [pc EXCEPT ![t] = "notify"]
  /\ UNCHANGED <<m_stopAll, started, missed, terminated>>

(* Mutant: only the job that finds the queue empty is announced.           *)
EnqueueJob_Notify_FirstOnly(t) ==
  /\ ~terminated
  /\ pc[t] = "notify"
  /\ \/ \E w \in At("asleep") :
          /\ Len(m_jobs) <= 1
          /\ pc' = [pc EXCEPT ![t] = Home(t), ![w] = "check"]
     \/ /\ At("asleep") = {} \/ Len(m_jobs) > 1
        /\ pc' = [pc EXCEPT ![t] = Home(t)]
  /\ UNCHANGED <<m_jobs, m_stopAll, pushed, started, missed, terminated>>

(* m_cvJobs.notify_one(), after the mutex is released: it wakes one of the *)
(* sleeping workers, if there is one.                                      *)
EnqueueJob_Notify(t) ==
  /\ ~terminated
  /\ pc[t] = "notify"
  /\ \/ \E w \in At("asleep") :
          pc' = [pc EXCEPT ![t] = Home(t), ![w] = "check"]
     \/ /\ At("asleep") = {}
        /\ pc' = [pc EXCEPT ![t] = Home(t)]
  /\ UNCHANGED <<m_jobs, m_stopAll, pushed, started, missed, terminated>>

-------------------------------------------------------------------------------
(* WorkerThread.                                                           *)

(* The predicate is false: the worker is going to block.                   *)
Worker_Wait(w) ==
  /\ ~terminated
  /\ pc[w] = "check"
  /\ MutexFree
  /\ m_jobs = <<>> /\ ~m_stopAll
  /\ pc' = [pc EXCEPT ![w] = "block"]
  /\ UNCHANGED <<m_jobs, m_stopAll, pushed, started, missed, terminated>>

Worker_Block(w) ==
  /\ ~terminated
  /\ pc[w] = "block"
  /\ pc' = [pc EXCEPT ![w] = "asleep"]
  /\ UNCHANGED <<m_jobs, m_stopAll, pushed, started, missed, terminated>>

(* A condition variable may wake up by itself.                             *)
Worker_Spurious(w) ==
  /\ ~terminated
  /\ pc[w] = "asleep"
  /\ pc' = [pc EXCEPT ![w] = "check"]
  /\ UNCHANGED <<m_jobs, m_stopAll, pushed, started, missed, terminated>>

(* Mutant: the job is copied and stays in the queue.                       *)
Worker_Take_NoPop(w) ==
  /\ ~terminated
  /\ pc[w] = "check"
  /\ MutexFree
  /\ m_jobs # <<>>
  /\ started' = Append(started, Head(m_jobs))
  /\ pc' = [pc EXCEPT ![w] = "run"]
  /\ UNCHANGED <<m_jobs, m_stopAll, pushed, missed, terminated>>

(* There is a job, whether or not the pool stops: take it, unlock, run it. *)
Worker_Take(w) ==
  /\ ~terminated
  /\ pc[w] = "check"
  /\ MutexFree
  /\ m_jobs # <<>>
  /\ started' = Append(started, Head(m_jobs))
  /\ m_jobs' = Tail(m_jobs)
  /\ pc' = [pc EXCEPT ![w] = "run"]
  /\ UNCHANGED <<m_stopAll, pushed, missed, terminated>>

(* job() returned                                                          *)
Worker_Job(w) ==
  /\ ~terminated
  /\ pc[w] = "run"
  /\ pc' = [pc EXCEPT ![w] = "check"]
  /\ UNCHANGED <<m_jobs, m_stopAll, pushed, started, missed, terminated>>

(* Mutant: a worker that sees the flag leaves the queue as it is.          *)
Worker_Return_AtOnce(w) ==
  /\ ~terminated
  /\ pc[w] = "check"
  /\ MutexFree
  /\ m_stopAll
  /\ pc' = [pc EXCEPT ![w] = "done"]
  /\ UNCHANGED <<m_jobs, m_stopAll, pushed, started, missed, terminated>>

(* if (m_stopAll && m_jobs.empty()) return;                                *)
Worker_Return(w) ==
  /\ ~terminated
  /\ pc[w] = "check"
  /\ MutexFree
  /\ m_stopAll /\ m_jobs = <<>>
  /\ pc' = [pc EXCEPT ![w] = "done"]
  /\ UNCHANGED <<m_jobs, m_stopAll, pushed, started, missed, terminated>>

-------------------------------------------------------------------------------
(* ~ThreadPool, called by the owner.                                       *)

(* m_stopAll = true, without the mutex                                     *)
Destroy_Stop ==
  /\ ~terminated
  /\ pc[Owner] = "user"
  /\ m_stopAll' = TRUE
  /\ pc' = [pc EXCEPT ![Owner] = "stop"]
  /\ UNCHANGED <<m_jobs, pushed, started, missed, terminated>>

(* Mutant: notify_one()                                                    *)
Destroy_Notify_One ==
  /\ ~terminated
  /\ pc[Owner] = "stop"
  /\ \/ \E w \in At("asleep") :
          pc' = [pc EXCEPT ![Owner] = "join", ![w] = "check"]
     \/ /\ At("asleep") = {}
        /\ pc' = [pc EXCEPT ![Owner] = "join"]
  /\ missed' = At("block")
  /\ UNCHANGED <<m_jobs, m_stopAll, pushed, started, terminated>>

(* m_cvJobs.notify_all(), without the mutex                                *)
Destroy_Notify ==
  /\ ~terminated
  /\ pc[Owner] = "stop"
  /\ pc' = [[t \in Thread |-> IF pc[t] = "asleep" THEN "check" ELSE pc[t]]
              EXCEPT ![Owner] = "join"]
  /\ missed' = At("block")
  /\ UNCHANGED <<m_jobs, m_stopAll, pushed, started, terminated>>

(* t.join() of every worker                                                *)
Destroy_Join ==
  /\ ~terminated
  /\ pc[Owner] = "join"
  /\ \A w \in Worker : pc[w] = "done"
  /\ pc' = [pc EXCEPT ![Owner] = "gone"]
  /\ UNCHANGED <<m_jobs, m_stopAll, pushed, started, missed, terminated>>

-------------------------------------------------------------------------------
EnqueueJob(t) == EnqueueJob_Test(t) \/ EnqueueJob_Push(t) \/ EnqueueJob_Notify(t)

WorkerThread(w) ==
  \/ EnqueueJob_Throw(w)
  \/ Worker_Wait(w)
  \/ Worker_Block(w)
  \/ Worker_Spurious(w)
  \/ Worker_Take(w)
  \/ Worker_Job(w)
  \/ Worker_Return(w)

Destroy == Destroy_Stop \/ Destroy_Notify \/ Destroy_Join

Next ==
  \/ \E t \in Thread : EnqueueJob(t)
  \/ \E w \in Worker : WorkerThread(w)
  \/ Destroy

(* Threads run, and jobs end.  Nobody has to enqueue a job or to destroy   *)
(* the pool, and no sleeper has to wake up by itself.                      *)
Fairness ==
  /\ \A t \in Thread : WF_vars(EnqueueJob_Push(t) \/ EnqueueJob_Notify(t))
  /\ \A w \in Worker : WF_vars(\/ Worker_Wait(w) \/ Worker_Block(w)
                               \/ Worker_Take(w) \/ Worker_Job(w)
                               \/ Worker_Return(w))
  /\ WF_vars(Destroy_Notify)
  /\ WF_vars(Destroy_Join)

Spec == Init /\ [][Next]_vars /\ Fairness

-------------------------------------------------------------------------------
(* No lost wake-up: while a worker sleeps, every job in the queue has a    *)
(* worker on its way to the queue or a notification on its way to a worker.*)
(* (The push and its notify_one are two steps, and a worker that was       *)
(* notified may find that another one took the job.)                       *)
NoIdleSleeper ==
  At("asleep") # {} =>
    Len(m_jobs) <= Cardinality(At("check") \cup At("notify"))

(* When the destructor returns no job that EnqueueJob accepted is left,    *)
(* not even one that a job pushed after the stop flag was set.             *)
DestructorDrains == pc[Owner] = "gone" => Len(started) = pushed

(* The destructor returns, unless a worker was between its test of the     *)
(* stop flag and its sleep when notify_all was called: its join may then   *)
(* wait for ever.                                                          *)
DestructorReturns ==
  (pc[Owner] = "stop") ~> (pc[Owner] = "gone" \/ missed # {} \/ terminated)

(* Jobs are started once each, in the order in which they were pushed, and *)
(* every job pushed is started unless the program is terminated.           *)
Stream == INSTANCE OrderedStream
            WITH Packet <- 1..MaxJob, accepted <- [i \in 1..pushed |-> i],
                 delivered <- started, broken <- terminated

PoolSpec == Stream!Spec

-------------------------------------------------------------------------------
(* The inductive invariant, in parts.                                      *)

(* A worker that is about to block holds the mutex: it is the only one,    *)
(* and nothing was pushed since it found the queue empty.                  *)
BlockHoldsMutex ==
  \A w \in Worker : pc[w] = "block" =>
    m_jobs = <<>> /\ \A v \in Worker : pc[v] = "block" => v = w

(* The jobs started and those in the queue are, end to end, 1..pushed.     *)
NoJobLost ==
  /\ pushed = Len(started) + Len(m_jobs)
  /\ \A i \in 1..Len(started) : started[i] = i
  /\ \A i \in 1..Len(m_jobs) : m_jobs[i] = Len(started) + i

(* The bound: whoever passed the test for it may still push.               *)
WithinBound == pushed + Cardinality(At("push")) <= MaxJob

(* Workers leave only once the pool stops, and the last one to leave finds *)
(* the queue empty.                                                        *)
LastOneDrains ==
  /\ pc[Owner] \in {"stop", "join", "gone"} <=> m_stopAll
  /\ \A w \in Worker : pc[w] = "done" => m_stopAll
  /\ (\A w \in Worker : pc[w] = "done") => m_jobs = <<>>
  /\ pc[Owner] = "gone" => \A w \in Worker : pc[w] = "done"

PoolInv ==
  /\ TypeOK
  /\ BlockHoldsMutex
  /\ NoIdleSleeper
  /\ NoJobLost
  /\ WithinBound
  /\ LastOneDrains
===============================================================================
