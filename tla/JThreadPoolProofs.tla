--------------------------- MODULE JThreadPoolProofs --------------------------
(***************************************************************************)
(* Proofs about JThreadPool, for every set of workers and every number of  *)
(* jobs.                                                                   *)
(***************************************************************************)
EXTENDS JThreadPool, SequenceFacts, FiniteSetTheorems, TLAPS

(* Counting threads: one more or one less.                                 *)
LEMMA ThreadsCounted ==
  ASSUME NEW T \in SUBSET Thread
  PROVE  /\ Cardinality(T) \in Nat
         /\ \A t \in T : Cardinality(T \ {t}) = Cardinality(T) - 1
         /\ \A t : t \notin T => Cardinality(T \cup {t}) = Cardinality(T) + 1
<1>1. IsFiniteSet(Thread)
  BY WorkerAssumption, FS_AddElement DEF Thread
<1>2. IsFiniteSet(T)
  BY <1>1, FS_Subset
<1>3. QED
  BY <1>2, FS_CardinalityType, FS_RemoveElement, FS_AddElement

(* A set with an element counts at least one.                              *)
LEMMA SomeCounted ==
  ASSUME NEW T \in SUBSET Thread, NEW t \in T
  PROVE  Cardinality(T) >= 1
<1>1. Cardinality(T) \in Nat /\ Cardinality(T \ {t}) = Cardinality(T) - 1
  BY ThreadsCounted
<1>2. Cardinality(T \ {t}) \in Nat
  BY ThreadsCounted
<1>3. QED
  BY <1>1, <1>2

-------------------------------------------------------------------------------
(* Every step of a worker, of a caller of EnqueueJob or of the destructor  *)
(* keeps every variable in its type.                                       *)
LEMMA TypeStep == PoolInv /\ [Next]_vars => TypeOK'
<1> SUFFICES ASSUME PoolInv, [Next]_vars PROVE TypeOK'
  OBVIOUS
<1> USE WorkerAssumption DEF TypeOK, Thread, WorkerPc, OwnerPc, Home
<1>0. TypeOK
  BY DEF PoolInv
<1>1. ASSUME NEW t \in Thread, EnqueueJob_Push(t) PROVE TypeOK'
  <2>1. m_jobs' \in Seq(Nat)
    BY <1>0, <1>1, AppendFacts DEF EnqueueJob_Push
  <2>2. m_stopAll' \in BOOLEAN /\ terminated' \in BOOLEAN
    BY <1>0, <1>1 DEF EnqueueJob_Push
  <2>3. /\ pc' \in [Thread -> WorkerPc \cup OwnerPc]
        /\ pc'[Owner] \in OwnerPc /\ \A w \in Worker : pc'[w] \in WorkerPc
    BY <1>0, <1>1 DEF EnqueueJob_Push
  <2>4. QED
    BY <1>0, <1>1, <2>1, <2>2, <2>3 DEF EnqueueJob_Push
<1>2. ASSUME NEW t \in Thread, EnqueueJob_Test(t) \/ EnqueueJob_Notify(t)
      PROVE  TypeOK'
  BY <1>0, <1>2 DEF EnqueueJob_Test, EnqueueJob_Notify, At
<1>3. ASSUME NEW w \in Worker, Worker_Take(w) PROVE TypeOK'
  <2>1. m_jobs' \in Seq(Nat) /\ started' \in Seq(Nat)
    BY <1>0, <1>3, AppendFacts, TailFacts DEF Worker_Take
  <2>2. m_stopAll' \in BOOLEAN /\ terminated' \in BOOLEAN
    BY <1>0, <1>3 DEF Worker_Take
  <2>3. /\ pc' \in [Thread -> WorkerPc \cup OwnerPc]
        /\ pc'[Owner] \in OwnerPc /\ \A v \in Worker : pc'[v] \in WorkerPc
    BY <1>0, <1>3 DEF Worker_Take
  <2>4. QED
    BY <1>0, <1>3, <2>1, <2>2, <2>3 DEF Worker_Take
<1>4. ASSUME NEW w \in Worker, EnqueueJob_Throw(w) PROVE TypeOK'
  <2>1. terminated' \in BOOLEAN
    BY <1>0, <1>4 DEF EnqueueJob_Throw
  <2>2. QED
    BY <1>0, <1>4, <2>1 DEF EnqueueJob_Throw
<1>5. ASSUME NEW w \in Worker,
             \/ Worker_Wait(w) \/ Worker_Block(w) \/ Worker_Spurious(w)
             \/ Worker_Job(w) \/ Worker_Return(w)
      PROVE  TypeOK'
  BY <1>0, <1>5 DEF Worker_Wait, Worker_Block, Worker_Spurious, Worker_Job,
     Worker_Return
<1>6. CASE Destroy_Stop
  BY <1>0, <1>6 DEF Destroy_Stop
<1>7. CASE Destroy_Notify
  <2>1. /\ pc' \in [Thread -> WorkerPc \cup OwnerPc]
        /\ pc'[Owner] \in OwnerPc /\ \A w \in Worker : pc'[w] \in WorkerPc
    BY <1>0, <1>7 DEF Destroy_Notify
  <2>2. missed' \subseteq Worker
    BY <1>0, <1>7 DEF Destroy_Notify, At
  <2>3. UNCHANGED <<m_jobs, m_stopAll, pushed, started, terminated>>
    BY <1>7 DEF Destroy_Notify
  <2>4. QED
    BY <1>0, <2>1, <2>2, <2>3
<1>8. CASE Destroy_Join
  BY <1>0, <1>8 DEF Destroy_Join
<1>9. CASE UNCHANGED vars
  BY <1>0, <1>9 DEF vars
<1>10. QED
  BY <1>1, <1>2, <1>3, <1>4, <1>5, <1>6, <1>7, <1>8, <1>9 DEF Next, EnqueueJob,
     WorkerThread, Destroy

(* Nobody pushes and no second worker blocks while one worker is between   *)
(* its test and its sleep.                                                 *)
LEMMA BlockStep == PoolInv /\ [Next]_vars => BlockHoldsMutex'
<1> SUFFICES ASSUME PoolInv, [Next]_vars,
                    NEW w \in Worker, pc'[w] = "block"
             PROVE  /\ m_jobs' = <<>>
                    /\ \A v \in Worker : pc'[v] = "block" => v = w
  BY DEF BlockHoldsMutex
<1> USE WorkerAssumption DEF Thread, Home, At
<1>0. /\ pc \in [Thread -> WorkerPc \cup OwnerPc]
      /\ \A u \in Worker : pc[u] = "block" =>
           m_jobs = <<>> /\ \A v \in Worker : pc[v] = "block" => v = u
  BY DEF PoolInv, TypeOK, BlockHoldsMutex
<1>1. ASSUME NEW u \in Worker, Worker_Wait(u)
      PROVE  m_jobs' = <<>> /\ \A v \in Worker : pc'[v] = "block" => v = w
  BY <1>0, <1>1 DEF Worker_Wait, MutexFree
<1>2. ASSUME MutexFree, \A v \in Worker : pc'[v] = "block" => pc[v] = "block"
      PROVE  FALSE
  BY <1>2 DEF MutexFree
<1>3. ASSUME UNCHANGED m_jobs, \A v \in Worker : pc'[v] = "block" => pc[v] = "block"
      PROVE  m_jobs' = <<>> /\ \A v \in Worker : pc'[v] = "block" => v = w
  BY <1>0, <1>3
<1>4. ASSUME NEW t \in Thread, EnqueueJob(t)
      PROVE  m_jobs' = <<>> /\ \A v \in Worker : pc'[v] = "block" => v = w
  BY <1>0, <1>2, <1>3, <1>4 DEF EnqueueJob, EnqueueJob_Test, EnqueueJob_Push,
     EnqueueJob_Notify
<1>5. ASSUME NEW u \in Worker, Worker_Take(u)
      PROVE  FALSE
  BY <1>0, <1>2, <1>5 DEF Worker_Take
<1>6. ASSUME NEW u \in Worker,
             \/ EnqueueJob_Throw(u) \/ Worker_Block(u) \/ Worker_Spurious(u)
             \/ Worker_Job(u) \/ Worker_Return(u)
      PROVE  m_jobs' = <<>> /\ \A v \in Worker : pc'[v] = "block" => v = w
  BY <1>0, <1>3, <1>6 DEF EnqueueJob_Throw, Worker_Block, Worker_Spurious,
     Worker_Job, Worker_Return
<1>7. CASE Destroy
  BY <1>0, <1>3, <1>7 DEF Destroy, Destroy_Stop, Destroy_Notify, Destroy_Join
<1>8. CASE UNCHANGED vars
  BY <1>0, <1>3, <1>8 DEF vars
<1>9. QED
  BY <1>1, <1>4, <1>5, <1>6, <1>7, <1>8 DEF Next, WorkerThread

-------------------------------------------------------------------------------
(* A job leaves the queue together with a worker that was on its way, and  *)
(* enters it together with a notification.                                 *)
LEMMA SleeperStep == PoolInv /\ [Next]_vars => NoIdleSleeper'
<1> DEFINE awake == At("check") \cup At("notify")
<1> SUFFICES ASSUME PoolInv, [Next]_vars, At("asleep")' # {}
             PROVE  Len(m_jobs') <= Cardinality(awake')
  BY DEF NoIdleSleeper
<1> USE WorkerAssumption DEF Thread, Home
<1>0. /\ pc \in [Thread -> WorkerPc \cup OwnerPc]
      /\ pc[Owner] \in OwnerPc /\ \A w \in Worker : pc[w] \in WorkerPc
      /\ m_jobs \in Seq(Nat) /\ Len(m_jobs) \in Nat
  BY DEF PoolInv, TypeOK
<1>1. BlockHoldsMutex /\ NoIdleSleeper
  BY DEF PoolInv
<1>2. awake \in SUBSET Thread /\ awake' \in SUBSET Thread
  BY DEF At
<1>3. Cardinality(awake) \in Nat /\ Cardinality(awake') \in Nat
  BY <1>2, ThreadsCounted
<1>4. ASSUME UNCHANGED m_jobs, At("asleep") # {}, awake' = awake
      PROVE  Len(m_jobs') <= Cardinality(awake')
  BY <1>1, <1>4 DEF NoIdleSleeper
<1>5. ASSUME m_jobs' = <<>>
      PROVE  Len(m_jobs') <= Cardinality(awake')
  BY <1>3, <1>5
<1>6. ASSUME NEW t \in Thread, EnqueueJob_Test(t)
      PROVE  Len(m_jobs') <= Cardinality(awake')
  BY <1>0, <1>4, <1>6 DEF EnqueueJob_Test, At
<1>7. ASSUME NEW t \in Thread, EnqueueJob_Push(t)
      PROVE  Len(m_jobs') <= Cardinality(awake')
  <2>1. t \notin awake /\ awake' = awake \cup {t}
    BY <1>0, <1>7 DEF EnqueueJob_Push, At
  <2>2. At("asleep") # {}
    BY <1>0, <1>7 DEF EnqueueJob_Push, At
  <2>3. Cardinality(awake') = Cardinality(awake) + 1
    BY <1>2, <2>1, ThreadsCounted
  <2>4. pushed + 1 \in Nat /\ m_jobs' = Append(m_jobs, pushed + 1)
    BY <1>7 DEF EnqueueJob_Push, PoolInv, TypeOK
  <2>5. Len(m_jobs') = Len(m_jobs) + 1
    BY <1>0, <2>4, AppendFacts
  <2>6. QED
    BY <1>0, <1>1, <1>3, <2>2, <2>3, <2>5 DEF NoIdleSleeper
<1>8. ASSUME NEW t \in Thread, EnqueueJob_Notify(t)
      PROVE  Len(m_jobs') <= Cardinality(awake')
  <2>1. CASE At("asleep") = {}
    BY <1>0, <1>8, <2>1 DEF EnqueueJob_Notify, At
  <2>2. CASE At("asleep") # {}
    <3>1. PICK w \in At("asleep") : pc' = [pc EXCEPT ![t] = Home(t), ![w] = "check"]
      BY <1>8, <2>2 DEF EnqueueJob_Notify
    <3>2. /\ t \in awake /\ pc[t] = "notify" /\ w \in Thread /\ pc[w] = "asleep"
          /\ w \notin awake \ {t}
      BY <1>8, <3>1 DEF EnqueueJob_Notify, At
    <3>3. awake' = (awake \ {t}) \cup {w}
      BY <1>0, <3>1, <3>2 DEF At
    <3>4. awake \ {t} \in SUBSET Thread
      BY <1>2
    <3>5. Cardinality(awake') = Cardinality(awake \ {t}) + 1
      BY <3>2, <3>3, <3>4, ThreadsCounted
    <3>6. Cardinality(awake \ {t}) = Cardinality(awake) - 1
      BY <1>2, <3>2, ThreadsCounted
    <3>7. UNCHANGED m_jobs
      BY <1>8 DEF EnqueueJob_Notify
    <3>8. QED
      BY <1>1, <1>3, <2>2, <3>5, <3>6, <3>7 DEF NoIdleSleeper
  <2>3. QED
    BY <2>1, <2>2
<1>9. ASSUME NEW w \in Worker,
             \/ Worker_Wait(w) \/ Worker_Return(w) \/ Worker_Block(w)
      PROVE  Len(m_jobs') <= Cardinality(awake')
  BY <1>1, <1>5, <1>9 DEF Worker_Wait, Worker_Return, Worker_Block, BlockHoldsMutex
<1>10. ASSUME NEW w \in Worker, Worker_Take(w)
       PROVE  Len(m_jobs') <= Cardinality(awake')
  <2>1. w \in awake /\ awake' = awake \ {w} /\ At("asleep") # {}
    BY <1>0, <1>10 DEF Worker_Take, At
  <2>2. Cardinality(awake') = Cardinality(awake) - 1
    BY <1>2, <2>1, ThreadsCounted
  <2>3. Len(m_jobs') = Len(m_jobs) - 1
    BY <1>0, <1>10, TailFacts DEF Worker_Take
  <2>4. QED
    BY <1>0, <1>1, <1>3, <2>1, <2>2, <2>3 DEF NoIdleSleeper
<1>11. ASSUME NEW w \in Worker,
              EnqueueJob_Throw(w) \/ Worker_Job(w) \/ Worker_Spurious(w)
       PROVE  Len(m_jobs') <= Cardinality(awake')
  <2>1. CASE pc' = pc
    BY <1>4, <1>11, <2>1 DEF EnqueueJob_Throw, Worker_Job, Worker_Spurious, At
  <2>2. CASE pc' = [pc EXCEPT ![w] = "check"] /\ pc[w] \in {"run", "asleep"}
    <3>1. w \notin awake /\ awake' = awake \cup {w} /\ At("asleep") # {}
      BY <1>0, <2>2 DEF At
    <3>2. Cardinality(awake') = Cardinality(awake) + 1
      BY <1>2, <3>1, ThreadsCounted
    <3>3. UNCHANGED m_jobs
      BY <1>11 DEF EnqueueJob_Throw, Worker_Job, Worker_Spurious
    <3>4. QED
      BY <1>0, <1>1, <1>3, <3>1, <3>2, <3>3 DEF NoIdleSleeper
  <2>3. QED
    BY <1>11, <2>1, <2>2 DEF EnqueueJob_Throw, Worker_Job, Worker_Spurious
<1>12. CASE Destroy_Notify
  BY <1>0, <1>12 DEF Destroy_Notify, At
<1>13. CASE Destroy_Stop \/ Destroy_Join
  BY <1>0, <1>4, <1>13 DEF Destroy_Stop, Destroy_Join, At
<1>14. CASE UNCHANGED vars
  BY <1>4, <1>14 DEF vars, At
<1>15. QED
  BY <1>6, <1>7, <1>8, <1>9, <1>10, <1>11, <1>12, <1>13, <1>14 DEF Next,
     EnqueueJob, WorkerThread, Destroy

-------------------------------------------------------------------------------
(* A push adds the next number at the end, a worker takes the first one.   *)
LEMMA JobsStep == PoolInv /\ [Next]_vars => NoJobLost'
<1> SUFFICES ASSUME PoolInv, [Next]_vars PROVE NoJobLost'
  OBVIOUS
<1>0. /\ m_jobs \in Seq(Nat) /\ started \in Seq(Nat) /\ pushed \in Nat
      /\ Len(m_jobs) \in Nat /\ Len(started) \in Nat
      /\ NoJobLost
  BY DEF PoolInv, TypeOK
<1>1. ASSUME NEW t \in Thread, EnqueueJob_Push(t) PROVE NoJobLost'
  <2>1. /\ m_jobs' = Append(m_jobs, pushed + 1)
        /\ pushed' = pushed + 1 /\ UNCHANGED started
    BY <1>1 DEF EnqueueJob_Push
  <2>2. /\ Len(m_jobs') = Len(m_jobs) + 1
        /\ m_jobs'[Len(m_jobs) + 1] = pushed + 1
        /\ \A i \in 1..Len(m_jobs) : m_jobs'[i] = m_jobs[i]
    BY <1>0, <2>1, AppendFacts
  <2>3. ASSUME NEW i \in 1..Len(m_jobs') PROVE m_jobs'[i] = Len(started') + i
    <3>1. CASE i \in 1..Len(m_jobs)
      BY <1>0, <2>1, <2>2, <3>1 DEF NoJobLost
    <3>2. CASE i = Len(m_jobs) + 1
      BY <1>0, <2>1, <2>2, <3>2 DEF NoJobLost
    <3>3. QED
      BY <1>0, <2>2, <3>1, <3>2
  <2>4. QED
    BY <1>0, <2>1, <2>2, <2>3 DEF NoJobLost
<1>2. ASSUME NEW w \in Worker, Worker_Take(w) PROVE NoJobLost'
  <2>1. /\ m_jobs # <<>> /\ m_jobs' = Tail(m_jobs)
        /\ started' = Append(started, Head(m_jobs)) /\ UNCHANGED pushed
    BY <1>2 DEF Worker_Take
  <2>2. /\ Head(m_jobs) \in Nat /\ Head(m_jobs) = m_jobs[1]
        /\ Len(m_jobs) >= 1 /\ Len(m_jobs') = Len(m_jobs) - 1
        /\ \A i \in 1..Len(m_jobs') : m_jobs'[i] = m_jobs[i + 1]
    BY <1>0, <2>1, TailFacts
  <2>3. /\ Len(started') = Len(started) + 1
        /\ started'[Len(started) + 1] = Head(m_jobs)
        /\ \A i \in 1..Len(started) : started'[i] = started[i]
    BY <1>0, <2>1, <2>2, AppendFacts
  <2>4. Head(m_jobs) = Len(started) + 1
    BY <1>0, <2>2 DEF NoJobLost
  <2>5. ASSUME NEW i \in 1..Len(started') PROVE started'[i] = i
    <3>1. i \in 1..Len(started) \/ i = Len(started) + 1
      BY <1>0, <2>3
    <3>2. QED
      BY <1>0, <2>3, <2>4, <3>1 DEF NoJobLost
  <2>6. ASSUME NEW i \in 1..Len(m_jobs') PROVE m_jobs'[i] = Len(started') + i
    BY <1>0, <2>2, <2>3 DEF NoJobLost
  <2>7. QED
    BY <1>0, <2>1, <2>2, <2>3, <2>5, <2>6 DEF NoJobLost
<1>3. CASE UNCHANGED <<m_jobs, started, pushed>>
  BY <1>0, <1>3 DEF NoJobLost
<1>4. QED
  BY <1>1, <1>2, <1>3 DEF Next, EnqueueJob, WorkerThread, Destroy, vars,
     EnqueueJob_Test, EnqueueJob_Notify, EnqueueJob_Throw, Worker_Wait,
     Worker_Block, Worker_Spurious, Worker_Job, Worker_Return, Destroy_Stop,
     Destroy_Notify, Destroy_Join

(* Only the test of EnqueueJob brings a thread to the push, and it keeps   *)
(* the bound; the push counts for what the thread counted before.          *)
LEMMA BoundStep == PoolInv /\ [Next]_vars => WithinBound'
<1> DEFINE pushing == At("push")
<1> SUFFICES ASSUME PoolInv, [Next]_vars
             PROVE  pushed' + Cardinality(pushing') <= MaxJob
  BY DEF WithinBound
<1> USE WorkerAssumption, MaxJobAssumption DEF Thread, Home
<1>0. /\ pc \in [Thread -> WorkerPc \cup OwnerPc]
      /\ pushed \in Nat
      /\ pushed + Cardinality(pushing) <= MaxJob
  BY DEF PoolInv, TypeOK, WithinBound
<1>1. pushing \in SUBSET Thread /\ pushing' \in SUBSET Thread
  BY DEF At
<1>2. Cardinality(pushing) \in Nat
  BY <1>1, ThreadsCounted
<1>3. ASSUME NEW t \in Thread, EnqueueJob_Test(t)
      PROVE  pushed' + Cardinality(pushing') <= MaxJob
  <2>1. t \notin pushing /\ pushing' = pushing \cup {t}
    BY <1>0, <1>3 DEF EnqueueJob_Test, At
  <2>2. Cardinality(pushing') = Cardinality(pushing) + 1
    BY <1>1, <2>1, ThreadsCounted
  <2>3. pushed + Cardinality(pushing) < MaxJob /\ UNCHANGED pushed
    BY <1>3 DEF EnqueueJob_Test
  <2>4. QED
    BY <1>0, <1>2, <2>2, <2>3
<1>4. ASSUME NEW t \in Thread, EnqueueJob_Push(t)
      PROVE  pushed' + Cardinality(pushing') <= MaxJob
  <2>1. t \in pushing /\ pushing' = pushing \ {t} /\ pushed' = pushed + 1
    BY <1>0, <1>4 DEF EnqueueJob_Push, At
  <2>2. Cardinality(pushing') = Cardinality(pushing) - 1
    BY <1>1, <2>1, ThreadsCounted
  <2>3. QED
    BY <1>0, <1>2, <2>1, <2>2
<1>5. ASSUME UNCHANGED pushed, pushing' = pushing
      PROVE  pushed' + Cardinality(pushing') <= MaxJob
  BY <1>0, <1>5
<1>6. ASSUME NEW t \in Thread, EnqueueJob_Notify(t)
      PROVE  pushed' + Cardinality(pushing') <= MaxJob
  BY <1>0, <1>5, <1>6 DEF EnqueueJob_Notify, At
<1>7. ASSUME NEW w \in Worker, WorkerThread(w)
      PROVE  pushed' + Cardinality(pushing') <= MaxJob
  BY <1>0, <1>5, <1>7 DEF WorkerThread, EnqueueJob_Throw, Worker_Wait,
     Worker_Block, Worker_Spurious, Worker_Take, Worker_Job, Worker_Return, At
<1>8. CASE Destroy
  BY <1>0, <1>5, <1>8 DEF Destroy, Destroy_Stop, Destroy_Notify, Destroy_Join, At
<1>9. CASE UNCHANGED vars
  BY <1>5, <1>9 DEF vars, At
<1>10. QED
  BY <1>3, <1>4, <1>6, <1>7, <1>8, <1>9 DEF Next, EnqueueJob

(* A worker that pushes has not left, and the owner pushes only before it  *)
(* stops the pool, when nobody has left.                                   *)
LEMMA LeaveStep == PoolInv /\ [Next]_vars => LastOneDrains'
<1> SUFFICES ASSUME PoolInv, [Next]_vars PROVE LastOneDrains'
  OBVIOUS
<1> USE WorkerAssumption DEF Thread, Home, LastOneDrains
<1>0. /\ pc \in [Thread -> WorkerPc \cup OwnerPc]
      /\ LastOneDrains
  BY DEF PoolInv, TypeOK
<1>1. ASSUME NEW t \in Thread, EnqueueJob(t) PROVE LastOneDrains'
  <2>1. ~(\A w \in Worker : pc'[w] = "done")
    BY <1>0, <1>1 DEF EnqueueJob, EnqueueJob_Test, EnqueueJob_Push,
       EnqueueJob_Notify, At
  <2>2. pc'[Owner] \in {"stop", "join", "gone"} <=> m_stopAll'
    BY <1>0, <1>1 DEF EnqueueJob, EnqueueJob_Test, EnqueueJob_Push,
       EnqueueJob_Notify, At
  <2>3. \A w \in Worker : pc'[w] = "done" => m_stopAll'
    BY <1>0, <1>1 DEF EnqueueJob, EnqueueJob_Test, EnqueueJob_Push,
       EnqueueJob_Notify, At
  <2>4. pc'[Owner] # "gone"
    BY <1>0, <1>1 DEF EnqueueJob, EnqueueJob_Test, EnqueueJob_Push,
       EnqueueJob_Notify, At
  <2>5. QED
    BY <2>1, <2>2, <2>3, <2>4
<1>2. ASSUME NEW w \in Worker, WorkerThread(w) PROVE LastOneDrains'
  BY <1>0, <1>2 DEF WorkerThread, EnqueueJob_Throw, Worker_Wait, Worker_Block,
     Worker_Spurious, Worker_Take, Worker_Job, Worker_Return
<1>3. CASE Destroy
  BY <1>0, <1>3 DEF Destroy, Destroy_Stop, Destroy_Notify, Destroy_Join
<1>4. CASE UNCHANGED vars
  BY <1>0, <1>4 DEF vars
<1>5. QED
  BY <1>1, <1>2, <1>3, <1>4 DEF Next

-------------------------------------------------------------------------------
(* What the workers, the callers of EnqueueJob and the destructor leave    *)
(* behind fits together in every reachable state: the inductive invariant. *)
THEOREM PoolInvCorrect == Spec => []PoolInv
<1>1. Init => PoolInv
  <2> SUFFICES ASSUME Init PROVE PoolInv
    OBVIOUS
  <2> USE WorkerAssumption, MaxJobAssumption DEF Init, Thread, At
  <2>1. TypeOK
    <3>1. m_jobs \in Seq(Nat) /\ started \in Seq(Nat)
      OBVIOUS
    <3>2. m_stopAll \in BOOLEAN /\ terminated \in BOOLEAN
      OBVIOUS
    <3>3. QED
      BY <3>1, <3>2 DEF TypeOK, WorkerPc, OwnerPc
  <2>2. At("push") = {} /\ At("asleep") = {}
    OBVIOUS
  <2>3. WithinBound
    <3>1. Cardinality({}) = 0 /\ pushed = 0
      BY FS_EmptySet
    <3> HIDE DEF At
    <3>2. Cardinality(At("push")) = 0
      BY <2>2, <3>1
    <3>3. QED
      BY <3>1, <3>2 DEF WithinBound
  <2>4. NoJobLost
    BY DEF NoJobLost
  <2>5. QED
    BY <2>1, <2>2, <2>3, <2>4 DEF PoolInv, BlockHoldsMutex, NoIdleSleeper,
       LastOneDrains
<1>2. PoolInv /\ [Next]_vars => PoolInv'
  BY TypeStep, BlockStep, SleeperStep, JobsStep, BoundStep, LeaveStep DEF PoolInv
<1>3. QED
  BY <1>1, <1>2, PTL DEF Spec

(* EnqueueJob loses no wake-up: there are never more jobs in the queue     *)
(* than threads on their way to it while a worker sleeps.                  *)
THEOREM NoLostWakeup == Spec => []NoIdleSleeper
<1>1. PoolInv => NoIdleSleeper
  BY DEF PoolInv
<1>2. QED
  BY <1>1, PoolInvCorrect, PTL

(* The destructor returns only when every job accepted was started, those  *)
(* that other jobs pushed after the stop flag was set included.            *)
THEOREM DrainsCorrect == Spec => []DestructorDrains
<1>1. PoolInv => DestructorDrains
  <2> SUFFICES ASSUME PoolInv, pc[Owner] = "gone" PROVE Len(started) = pushed
    BY DEF DestructorDrains
  <2>1. started \in Seq(Nat) /\ m_jobs = <<>>
    BY DEF PoolInv, TypeOK, LastOneDrains
  <2>2. QED
    BY <2>1 DEF PoolInv, NoJobLost
<1>2. QED
  BY <1>1, PoolInvCorrect, PTL

-------------------------------------------------------------------------------
(* Each step pushes the next job, starts the first one that waits,         *)
(* terminates the program or changes nothing a caller can tell.            *)
LEMMA StreamStep == PoolInv /\ [Next]_vars => [Stream!Next]_Stream!vars
<1> SUFFICES ASSUME PoolInv, [Next]_vars PROVE [Stream!Next]_Stream!vars
  OBVIOUS
<1> USE DEF Stream!vars
<1> DEFINE accepted == [i \in 1..pushed |-> i]
<1>0. /\ pushed \in Nat /\ m_jobs \in Seq(Nat) /\ started \in Seq(Nat)
      /\ NoJobLost /\ WithinBound
  BY DEF PoolInv, TypeOK
<1>1. ASSUME NEW t \in Thread, EnqueueJob_Push(t) PROVE Stream!Next
  <2>1. At("push") \in SUBSET Thread /\ t \in At("push")
    BY <1>1 DEF EnqueueJob_Push, At
  <2>2. Cardinality(At("push")) \in Nat /\ Cardinality(At("push")) >= 1
    BY <2>1, SomeCounted, ThreadsCounted
  <2>3. pushed + 1 \in 1..MaxJob
    BY <1>0, <2>2, MaxJobAssumption DEF WithinBound
  <2>4. accepted' = Append(accepted, pushed + 1)
    <3>1. pushed' = pushed + 1 /\ Len(accepted) = pushed
      BY <1>0, <1>1 DEF EnqueueJob_Push
    <3>2. QED
      BY <1>0, <3>1
  <2>5. UNCHANGED <<started, terminated>>
    BY <1>1 DEF EnqueueJob_Push
  <2>6. Stream!Accept
    BY <2>3, <2>4, <2>5 DEF Stream!Accept
  <2>7. QED
    BY <2>6 DEF Stream!Next
<1>2. ASSUME NEW w \in Worker, Worker_Take(w) PROVE Stream!Next
  <2>1. /\ ~terminated /\ m_jobs # <<>>
        /\ started' = Append(started, Head(m_jobs))
        /\ UNCHANGED <<pushed, terminated>>
    BY <1>2 DEF Worker_Take
  <2>2. Len(m_jobs) >= 1 /\ Head(m_jobs) = m_jobs[1]
    BY <1>0, <2>1, TailFacts
  <2>3. Head(m_jobs) = Len(started) + 1 /\ Len(started) + 1 \in 1..pushed
    BY <1>0, <2>2 DEF NoJobLost
  <2>4. Len(accepted) = pushed /\ accepted[Len(started) + 1] = Len(started) + 1
    BY <1>0, <2>3
  <2>5. Stream!Deliver
    BY <1>0, <2>1, <2>3, <2>4 DEF Stream!Deliver
  <2>6. QED
    BY <2>5 DEF Stream!Next
<1>3. ASSUME NEW w \in Worker, EnqueueJob_Throw(w)
      PROVE  [Stream!Next]_Stream!vars
  BY <1>3 DEF EnqueueJob_Throw, Stream!Next, Stream!Break
<1>4. CASE UNCHANGED <<pushed, started, terminated>>
  BY <1>4
<1>5. QED
  BY <1>1, <1>2, <1>3, <1>4 DEF Next, EnqueueJob, WorkerThread, Destroy, vars,
     EnqueueJob_Test, EnqueueJob_Notify, Worker_Wait, Worker_Block,
     Worker_Spurious, Worker_Job, Worker_Return, Destroy_Stop, Destroy_Notify,
     Destroy_Join

(* Jobs are started once each and in the order of the pushes: the pool     *)
(* implements OrderedStream.                                               *)
THEOREM PoolStreamCorrect == Spec => Stream!SafeSpec
<1>1. Init => Stream!Init
  BY DEF Init, Stream!Init
<1>2. PoolInv /\ [Next]_vars => [Stream!Next]_Stream!vars
  BY StreamStep
<1>3. QED
  BY <1>1, <1>2, PoolInvCorrect, PTL DEF Spec, Stream!SafeSpec
===============================================================================
