------------------------------ MODULE JReplaySave -----------------------------
(***************************************************************************)
(* Recording packets for a replay (JNetLib/JReplaySaveWorker.cpp and       *)
(* JReplaySaveWorkerMgr.cpp, with the server's -ReplaySave).               *)
(*                                                                         *)
(* JCommander::ProcessPacket pushes every packet on the logic thread; the  *)
(* worker thread waits on a condition variable, takes all that was pushed  *)
(* and writes it to the file, flushing every record.  When "end" is typed  *)
(* the main thread calls End, which raises m_end WITHOUT a notification    *)
(* and frees the worker object although its thread is never joined; then   *)
(* main returns and the process ends.                                      *)
(*                                                                         *)
(* A record is its number.  A critical section of m_mutexBuffer is one     *)
(* step.  RunThread is over before the logic thread starts, so m_isRunning *)
(* is set whenever Push reads it.  Without -ReplaySave there is no worker  *)
(* object, and the manager ignores every Push.                             *)
(***************************************************************************)
EXTENDS Naturals, Sequences

CONSTANT MaxPush        \* bound: packets the logic thread records

ASSUME MaxPushAssumption == MaxPush \in Nat

Record == 1..MaxPush

VARIABLES
  pushed,               \* history: number of records pushed
  pushPc,               \* "lock": Push has the worker's address, not its mutex
  m_packetBufferInfos,
  m_packetBufferInfosForProcess,        \* the part not yet written
  workerPc,             \* where Run is: "wait" is blocked in m_cvBuffer.wait,
                        \* "none" before and "closed" after the thread
  notified,             \* the waiting worker was notified
  file,                 \* records on disk
  m_end,
  m_saveWorker,         \* the worker object: "none", "exists" or "freed"
  process               \* "runs", "exited", or "crashed" on freed memory

pushVars   == <<pushed, pushPc>>
workerVars == <<m_packetBufferInfosForProcess, workerPc, file>>
endVars    == <<m_end, m_saveWorker>>

vars == <<pushVars, m_packetBufferInfos, workerVars, notified, endVars, process>>

Alive == process = "runs" /\ m_saveWorker = "exists"

TypeOK ==
  /\ pushed \in 0..MaxPush
  /\ pushPc \in {"idle", "lock"}
  /\ m_packetBufferInfos \in Seq(Record)
  /\ m_packetBufferInfosForProcess \in Seq(Record)
  /\ workerPc \in {"none", "open", "test", "lock", "wait", "write", "closed"}
  /\ notified \in BOOLEAN
  /\ file \in Seq(Record)
  /\ m_end \in BOOLEAN
  /\ m_saveWorker \in {"none", "exists", "freed"}
  /\ process \in {"runs", "exited", "crashed"}

Init ==
  /\ pushed = 0
  /\ pushPc = "idle"
  /\ m_packetBufferInfos = <<>>
  /\ m_packetBufferInfosForProcess = <<>>
  /\ workerPc = "none"
  /\ notified = FALSE
  /\ file = <<>>
  /\ m_end = FALSE
  /\ m_saveWorker = "none"
  /\ process = "runs"

-------------------------------------------------------------------------------
(* main with -ReplaySave, before the server starts: Init, SetFileName and  *)
(* RunThread.                                                              *)
Start ==
  /\ process = "runs"
  /\ m_saveWorker = "none"
  /\ m_saveWorker' = "exists"
  /\ workerPc' = "open"
  /\ UNCHANGED <<pushVars, m_packetBufferInfos, m_packetBufferInfosForProcess,
                 notified, file, m_end, process>>

(* Logic thread: Push of the manager and of the worker.                    *)

(* m_saveWorker is not null: call its Push.                                *)
Push_Call ==
  /\ Alive
  /\ pushPc = "idle"
  /\ pushed < MaxPush
  /\ pushPc' = "lock"
  /\ UNCHANGED <<pushed, m_packetBufferInfos, workerVars, notified, endVars,
                 process>>

(* Under m_mutexBuffer: push_back, notify_one.                             *)
Push_Locked ==
  /\ Alive
  /\ pushPc = "lock"
  /\ m_packetBufferInfos' = Append(m_packetBufferInfos, pushed + 1)
  /\ pushed' = pushed + 1
  /\ notified' = (notified \/ workerPc = "wait")
  /\ pushPc' = "idle"
  /\ UNCHANGED <<workerVars, endVars, process>>

-------------------------------------------------------------------------------
(* Worker thread: Run.                                                     *)

(* The file opens; or it does not, and the thread is over.                 *)
Run_Open ==
  /\ Alive
  /\ workerPc = "open"
  /\ workerPc' \in {"test", "closed"}
  /\ UNCHANGED <<pushVars, m_packetBufferInfos, m_packetBufferInfosForProcess,
                 notified, file, endVars, process>>

(* while (!m_end)                                                          *)
Run_Test ==
  /\ Alive
  /\ workerPc = "test"
  /\ workerPc' = IF m_end THEN "closed" ELSE "lock"
  /\ UNCHANGED <<pushVars, m_packetBufferInfos, m_packetBufferInfosForProcess,
                 notified, file, endVars, process>>

(* Mutant: wait without a predicate sleeps on whatever was pushed.         *)
WorkToDo_Unasked == FALSE

(* The predicate of m_cvBuffer.wait.                                       *)
WorkToDo == m_packetBufferInfos # <<>> \/ m_end

Run_Wait ==
  /\ Alive
  /\ workerPc = "lock"
  /\ ~WorkToDo
  /\ workerPc' = "wait"
  /\ notified' = FALSE
  /\ UNCHANGED <<pushVars, m_packetBufferInfos, m_packetBufferInfosForProcess,
                 file, endVars, process>>

Run_Notified ==
  /\ Alive
  /\ workerPc = "wait"
  /\ notified
  /\ workerPc' = "lock"
  /\ UNCHANGED <<pushVars, m_packetBufferInfos, m_packetBufferInfosForProcess,
                 notified, file, endVars, process>>

(* A condition variable may wake up without a notification.                *)
Run_Spurious ==
  /\ Alive
  /\ workerPc = "wait"
  /\ ~notified
  /\ workerPc' = "lock"
  /\ UNCHANGED <<pushVars, m_packetBufferInfos, m_packetBufferInfosForProcess,
                 notified, file, endVars, process>>

(* Mutant: the records are not cleared.                                    *)
Run_Take_NotCleared ==
  /\ Alive
  /\ workerPc = "lock"
  /\ WorkToDo
  /\ m_packetBufferInfosForProcess' = m_packetBufferInfos
  /\ workerPc' = "write"
  /\ UNCHANGED <<pushVars, m_packetBufferInfos, notified, file, endVars, process>>

(* Take everything and release the mutex.                                  *)
Run_Take ==
  /\ Alive
  /\ workerPc = "lock"
  /\ WorkToDo
  /\ m_packetBufferInfosForProcess' = m_packetBufferInfos
  /\ m_packetBufferInfos' = <<>>
  /\ workerPc' = "write"
  /\ UNCHANGED <<pushVars, notified, file, endVars, process>>

(* Serialize the next record, write and flush it.                          *)
Run_Write ==
  /\ Alive
  /\ workerPc = "write"
  /\ m_packetBufferInfosForProcess # <<>>
  /\ file' = Append(file, Head(m_packetBufferInfosForProcess))
  /\ m_packetBufferInfosForProcess' = Tail(m_packetBufferInfosForProcess)
  /\ UNCHANGED <<pushVars, m_packetBufferInfos, workerPc, notified, endVars,
                 process>>

Run_Written ==
  /\ Alive
  /\ workerPc = "write"
  /\ m_packetBufferInfosForProcess = <<>>
  /\ workerPc' = "test"
  /\ UNCHANGED <<pushVars, m_packetBufferInfos, m_packetBufferInfosForProcess,
                 notified, file, endVars, process>>

-------------------------------------------------------------------------------
(* Main thread: GetReplaySaveWorker().End(), then return from main.        *)

End_Flag ==
  /\ Alive
  /\ ~m_end
  /\ m_end' = TRUE
  /\ UNCHANGED <<pushVars, m_packetBufferInfos, workerVars, notified,
                 m_saveWorker, process>>

(* m_saveWorker = nullptr                                                  *)
End_Free ==
  /\ Alive
  /\ m_end
  /\ m_saveWorker' = "freed"
  /\ UNCHANGED <<pushVars, m_packetBufferInfos, workerVars, notified, m_end,
                 process>>

(* main returns, after End if it is recording.                             *)
Exit ==
  /\ process = "runs"
  /\ m_saveWorker \in {"none", "freed"}
  /\ process' = "exited"
  /\ UNCHANGED <<pushVars, m_packetBufferInfos, workerVars, notified, endVars>>

(* Until the process ends the threads go on in the freed object.           *)
UseFreed ==
  /\ process = "runs"
  /\ m_saveWorker = "freed"
  /\ pushPc = "lock" \/ workerPc # "closed"
  /\ process' = "crashed"
  /\ UNCHANGED <<pushVars, m_packetBufferInfos, workerVars, notified, endVars>>

-------------------------------------------------------------------------------
Push == Push_Call \/ Push_Locked

Run ==
  \/ Run_Open
  \/ Run_Test
  \/ Run_Wait
  \/ Run_Notified
  \/ Run_Take
  \/ Run_Write
  \/ Run_Written

End == End_Flag \/ End_Free \/ Exit

Next == Start \/ Push \/ Run \/ Run_Spurious \/ End \/ UseFreed

SafeSpec == Init /\ [][Next]_vars

(* The worker thread runs, and Push finishes.  Nobody has to push, to wake *)
(* up without a reason, or to type "end".                                  *)
Spec == SafeSpec /\ WF_vars(Run) /\ WF_vars(Push_Locked)
-------------------------------------------------------------------------------
(* No lost wake-up: the worker sleeps un-notified only when nothing is     *)
(* recorded that it has not taken.                                         *)
AsleepMeansEmpty ==
  workerPc = "wait" /\ ~notified =>
    m_packetBufferInfos = <<>> /\ m_packetBufferInfosForProcess = <<>>

(* JReplaySaveWorker::Push is an ordered stream to the file: every record  *)
(* once, in order, and all of them unless the thread is over (the file did *)
(* not open, or it saw m_end) or the object is freed.                      *)
Recorder ==
  INSTANCE OrderedStream
    WITH Packet <- Record,
         accepted <- [i \in 1..pushed |-> i],
         delivered <- file,
         broken <- workerPc = "closed" \/ m_saveWorker = "freed"

RecorderSpec == Recorder!Spec

-------------------------------------------------------------------------------
(* The inductive invariant, in parts.                                      *)

(* What is on file, what the worker has taken and what it has not are      *)
(* together everything that was pushed, in this order.                     *)
NoRecordLost ==
  /\ pushed = Len(file) + Len(m_packetBufferInfosForProcess)
                + Len(m_packetBufferInfos)
  /\ \A i \in 1..Len(file) : file[i] = i
  /\ \A i \in 1..Len(m_packetBufferInfosForProcess) :
       m_packetBufferInfosForProcess[i] = Len(file) + i
  /\ \A i \in 1..Len(m_packetBufferInfos) :
       m_packetBufferInfos[i]
         = Len(file) + Len(m_packetBufferInfosForProcess) + i

(* The worker has nothing taken except while it writes.                    *)
TakenIsWritten == workerPc # "write" => m_packetBufferInfosForProcess = <<>>

SaveInv ==
  /\ TypeOK
  /\ pushPc = "lock" => pushed < MaxPush
  /\ m_saveWorker = "none" => workerPc = "none"
  /\ NoRecordLost
  /\ TakenIsWritten
  /\ AsleepMeansEmpty
===============================================================================
