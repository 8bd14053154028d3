--------------------------- MODULE JReplaySaveProofs --------------------------
(***************************************************************************)
(* Proofs about JReplaySave, for every number of records.                  *)
(***************************************************************************)
EXTENDS JReplaySave, SequenceFacts, TLAPS

(* A step of Push, of Run or of End keeps every variable in its type.      *)
LEMMA TypeStep ==
  SaveInv /\ [Next]_vars => TypeOK'
<1> USE MaxPushAssumption DEF TypeOK, Record, pushVars, workerVars, endVars
<1> SUFFICES ASSUME SaveInv, [Next]_vars PROVE TypeOK'
  OBVIOUS
<1>0. TypeOK /\ (pushPc = "lock" => pushed < MaxPush)
  BY DEF SaveInv
<1>1. CASE Push_Call
  BY <1>0, <1>1 DEF Push_Call
<1>2. CASE Push_Locked
  <2>1. pushed + 1 \in Record
    BY <1>0, <1>2 DEF Push_Locked
  <2>2. m_packetBufferInfos' \in Seq(Record)
    BY <1>0, <1>2, <2>1, AppendFacts DEF Push_Locked
  <2>3. notified' \in BOOLEAN
    BY <1>2 DEF Push_Locked
  <2>4. QED
    BY <1>0, <1>2, <2>1, <2>2, <2>3 DEF Push_Locked
<1>3. CASE Run_Open
  BY <1>0, <1>3 DEF Run_Open
<1>4. CASE Run_Test
  BY <1>0, <1>4 DEF Run_Test
<1>5. CASE Run_Wait
  BY <1>0, <1>5 DEF Run_Wait
<1>6. CASE Run_Notified
  BY <1>0, <1>6 DEF Run_Notified
<1>7. CASE Run_Spurious
  BY <1>0, <1>7 DEF Run_Spurious
<1>8. CASE Run_Take
  BY <1>0, <1>8 DEF Run_Take
<1>9. CASE Run_Write
  BY <1>0, <1>9, AppendFacts, TailFacts DEF Run_Write
<1>10. CASE Run_Written
  BY <1>0, <1>10 DEF Run_Written
<1>11. CASE End_Flag
  BY <1>0, <1>11 DEF End_Flag
<1>12. CASE End_Free
  BY <1>0, <1>12 DEF End_Free
<1>13. CASE Exit
  BY <1>0, <1>13 DEF Exit
<1>14. CASE UseFreed
  BY <1>0, <1>14 DEF UseFreed
<1>15. CASE Start
  BY <1>0, <1>15 DEF Start
<1>16. CASE UNCHANGED vars
  BY <1>0, <1>16 DEF vars
<1>17. QED
  BY <1>1, <1>2, <1>3, <1>4, <1>5, <1>6, <1>7, <1>8, <1>9, <1>10, <1>11, <1>12,
     <1>13, <1>14, <1>15, <1>16 DEF Next, Push, Run, End

(* Records only move from the list to the worker's and from there to the   *)
(* file, one end to the other.                                             *)
LEMMA RecordsStep ==
  SaveInv /\ [Next]_vars => NoRecordLost'
<1> USE DEF Record, pushVars, workerVars, endVars
<1> SUFFICES ASSUME SaveInv, [Next]_vars PROVE NoRecordLost'
  OBVIOUS
<1> DEFINE P == m_packetBufferInfosForProcess
           B == m_packetBufferInfos
<1>0. /\ pushed \in Nat
      /\ B \in Seq(Nat) /\ P \in Seq(Nat) /\ file \in Seq(Nat)
      /\ NoRecordLost /\ TakenIsWritten
  BY MaxPushAssumption DEF SaveInv, TypeOK
<1>1. CASE Push_Locked
  <2>1. /\ B' = Append(B, pushed + 1)
        /\ pushed' = pushed + 1
        /\ UNCHANGED <<P, file>>
    BY <1>1 DEF Push_Locked
  <2>2. /\ Len(B') = Len(B) + 1
        /\ B'[Len(B) + 1] = pushed + 1
        /\ \A i \in 1..Len(B) : B'[i] = B[i]
    BY <1>0, <2>1, AppendFacts
  <2>3. /\ Len(B) \in Nat /\ Len(P) \in Nat /\ Len(file) \in Nat
        /\ Len(P') = Len(P) /\ Len(file') = Len(file)
    BY <1>0, <2>1
  <2>4. pushed' = Len(file') + Len(P') + Len(B')
    BY <1>0, <2>1, <2>2, <2>3 DEF NoRecordLost
  <2>5. ASSUME NEW i \in 1..Len(B')
        PROVE  B'[i] = Len(file') + Len(P') + i
    <3>1. CASE i \in 1..Len(B)
      BY <1>0, <2>2, <2>3, <3>1 DEF NoRecordLost
    <3>2. CASE i = Len(B) + 1
      BY <1>0, <2>2, <2>3, <3>2 DEF NoRecordLost
    <3>3. QED
      BY <2>2, <2>3, <3>1, <3>2
  <2>6. QED
    BY <1>0, <2>1, <2>4, <2>5 DEF NoRecordLost
<1>2. CASE Run_Take
  <2>1. P = <<>> /\ P' = B /\ B' = <<>> /\ UNCHANGED <<pushed, file>>
    BY <1>0, <1>2 DEF Run_Take, TakenIsWritten
  <2>2. QED
    BY <1>0, <2>1 DEF NoRecordLost
<1>3. CASE Run_Write
  <2>1. /\ P # <<>> /\ P' = Tail(P)
        /\ file' = Append(file, Head(P))
        /\ UNCHANGED <<pushed, B>>
    BY <1>3 DEF Run_Write
  <2>2. /\ Head(P) \in Nat /\ Head(P) = P[1]
        /\ Len(P) >= 1 /\ Len(P') = Len(P) - 1
        /\ \A i \in 1..Len(P') : P'[i] = P[i + 1]
    BY <1>0, <2>1, TailFacts
  <2>3. /\ Len(file') = Len(file) + 1
        /\ file'[Len(file) + 1] = Head(P)
        /\ \A i \in 1..Len(file) : file'[i] = file[i]
    BY <1>0, <2>1, <2>2, AppendFacts
  <2>4. Head(P) = Len(file) + 1
    BY <1>0, <2>2 DEF NoRecordLost
  <2>5. \A i \in 1..Len(file') : file'[i] = i
    <3>1. Len(file) \in Nat
      BY <1>0
    <3>2. ASSUME NEW i \in 1..Len(file')
          PROVE  i \in 1..Len(file) \/ i = Len(file) + 1
      BY <2>3, <3>1
    <3>3. QED
      BY <1>0, <2>3, <2>4, <3>2 DEF NoRecordLost
  <2>6. \A i \in 1..Len(P') : P'[i] = Len(file') + i
    BY <1>0, <2>2, <2>3 DEF NoRecordLost
  <2>7. QED
    BY <1>0, <2>1, <2>2, <2>3, <2>5, <2>6 DEF NoRecordLost
<1>4. CASE UNCHANGED <<pushed, B, P, file>>
  BY <1>0, <1>4 DEF NoRecordLost
<1>5. QED
  BY <1>1, <1>2, <1>3, <1>4 DEF Next, Start, Push, Run, End, vars, Push_Call, Run_Open,
     Run_Test, Run_Wait, Run_Notified, Run_Spurious, Run_Written, End_Flag,
     End_Free, Exit, UseFreed

(* Only Run_Take fills what the worker writes, and it does not leave the   *)
(* loop before that is empty.                                              *)
LEMMA TakenStep ==
  SaveInv /\ [Next]_vars => TakenIsWritten'
<1> SUFFICES ASSUME SaveInv, [Next]_vars PROVE TakenIsWritten'
  OBVIOUS
<1>1. TakenIsWritten /\ (m_saveWorker = "none" => workerPc = "none")
  BY DEF SaveInv
<1>2. QED
  BY <1>1 DEF TakenIsWritten, pushVars, workerVars, endVars, vars, Next, Start, Push,
     Run, End, Push_Call, Push_Locked, Run_Open, Run_Test, Run_Wait, Run_Notified,
     Run_Spurious, Run_Take, Run_Write, Run_Written, End_Flag, End_Free, Exit,
     UseFreed

(* The worker tests for records and falls asleep in one critical section,  *)
(* and a Push after that notifies it.                                      *)
LEMMA AsleepStep ==
  SaveInv /\ [Next]_vars => AsleepMeansEmpty'
<1> USE DEF AsleepMeansEmpty, TakenIsWritten, pushVars, workerVars, endVars
<1> SUFFICES ASSUME SaveInv, [Next]_vars, workerPc' = "wait", ~notified'
             PROVE  (m_packetBufferInfos = <<>>)'
                      /\ (m_packetBufferInfosForProcess = <<>>)'
  OBVIOUS
<1>0. TakenIsWritten /\ AsleepMeansEmpty
  BY DEF SaveInv
<1>1. CASE Push_Locked
  BY <1>1 DEF Push_Locked
<1>2. CASE Run_Wait
  BY <1>0, <1>2 DEF Run_Wait, WorkToDo
<1>3. CASE UNCHANGED <<m_packetBufferInfos, m_packetBufferInfosForProcess,
                       workerPc, notified>>
  BY <1>0, <1>3
<1>4. QED
  BY <1>1, <1>2, <1>3 DEF Next, Start, Push, Run, End, vars, Push_Call, Run_Open,
     Run_Test, Run_Notified, Run_Spurious, Run_Take, Run_Write, Run_Written,
     End_Flag, End_Free, Exit, UseFreed

(* What the three threads have recorded, taken and written fits together   *)
(* in every reachable state: the inductive invariant.                      *)
THEOREM SaveInvCorrect == Spec => []SaveInv
<1>1. Init => SaveInv
  <2> SUFFICES ASSUME Init PROVE SaveInv
    OBVIOUS
  <2>1. /\ pushed = 0
        /\ m_packetBufferInfos = <<>> /\ m_packetBufferInfosForProcess = <<>>
        /\ file = <<>>
    BY DEF Init
  <2>2. /\ m_packetBufferInfos \in Seq(Record)
        /\ m_packetBufferInfosForProcess \in Seq(Record)
        /\ file \in Seq(Record)
    BY <2>1
  <2>3. pushed \in 0..MaxPush
    BY <2>1, MaxPushAssumption
  <2>4. TypeOK
    BY <2>2, <2>3 DEF Init, TypeOK
  <2>5. NoRecordLost
    BY <2>1 DEF NoRecordLost
  <2>6. QED
    BY <2>1, <2>4, <2>5 DEF Init, SaveInv, TakenIsWritten, AsleepMeansEmpty
<1>2. SaveInv /\ [Next]_vars => (pushPc = "lock" => pushed < MaxPush)'
  BY DEF SaveInv, pushVars, workerVars, endVars, vars, Next, Start, Push, Run, End,
     Push_Call, Push_Locked, Run_Open, Run_Test, Run_Wait, Run_Notified,
     Run_Spurious, Run_Take, Run_Write, Run_Written, End_Flag, End_Free, Exit,
     UseFreed
<1>3. SaveInv /\ [Next]_vars => (m_saveWorker = "none" => workerPc = "none")'
  BY DEF SaveInv, pushVars, workerVars, endVars, vars, Next, Start, Push, Run, End,
     Push_Call, Push_Locked, Run_Open, Run_Test, Run_Wait, Run_Notified,
     Run_Spurious, Run_Take, Run_Write, Run_Written, End_Flag, End_Free, Exit,
     UseFreed, Alive
<1>4. SaveInv /\ [Next]_vars => SaveInv'
  BY <1>2, <1>3, TypeStep, RecordsStep, TakenStep, AsleepStep DEF SaveInv
<1>5. QED
  BY <1>1, <1>4, PTL DEF Spec, SafeSpec

(* Push and Run lose no wake-up: the worker never sleeps on a record that  *)
(* nobody will notify it of.                                               *)
THEOREM NoLostWakeup == Spec => []AsleepMeansEmpty
<1>1. SaveInv => AsleepMeansEmpty
  BY DEF SaveInv
<1>2. QED
  BY <1>1, SaveInvCorrect, PTL

-------------------------------------------------------------------------------
(* Each step of the three threads records one packet, brings the next one  *)
(* to the file, ends the recording or changes nothing the file shows.      *)
LEMMA RecorderStep == SaveInv /\ [Next]_vars => [Recorder!Next]_Recorder!vars
<1> SUFFICES ASSUME SaveInv, [Next]_vars PROVE [Recorder!Next]_Recorder!vars
  OBVIOUS
<1> USE DEF pushVars, workerVars, endVars, Recorder!vars
<1> DEFINE accepted == [i \in 1..pushed |-> i]
<1>0. /\ pushed \in Nat
      /\ m_packetBufferInfosForProcess \in Seq(Nat)
      /\ m_packetBufferInfos \in Seq(Nat)
      /\ file \in Seq(Nat)
      /\ NoRecordLost /\ TakenIsWritten
      /\ pushPc = "lock" => pushed < MaxPush
      /\ m_saveWorker = "none" => workerPc = "none"
  BY MaxPushAssumption DEF SaveInv, TypeOK, Record
<1>1. CASE Push_Locked
  <2>1. pushed + 1 \in Record
    BY <1>0, <1>1, MaxPushAssumption DEF Push_Locked, Record
  <2>2. accepted' = Append(accepted, pushed + 1)
    <3>1. pushed' = pushed + 1 /\ Len(accepted) = pushed
      BY <1>0, <1>1 DEF Push_Locked
    <3>2. QED
      BY <1>0, <3>1
  <2>3. UNCHANGED <<file, workerPc, m_saveWorker>>
    BY <1>1 DEF Push_Locked
  <2>4. Recorder!Accept
    BY <2>1, <2>2, <2>3 DEF Recorder!Accept
  <2>5. QED
    BY <2>4 DEF Recorder!Next
<1>2. CASE Run_Write
  <2>1. /\ m_packetBufferInfosForProcess # <<>>
        /\ file' = Append(file, Head(m_packetBufferInfosForProcess))
        /\ workerPc = "write" /\ m_saveWorker = "exists"
        /\ UNCHANGED <<pushed, workerPc, m_saveWorker>>
    BY <1>2 DEF Run_Write, Alive
  <2>2. /\ Len(m_packetBufferInfosForProcess) >= 1
        /\ Head(m_packetBufferInfosForProcess)
             = m_packetBufferInfosForProcess[1]
    BY <1>0, <2>1, TailFacts
  <2>3. /\ Head(m_packetBufferInfosForProcess) = Len(file) + 1
        /\ Len(file) + 1 \in 1..pushed
    BY <1>0, <2>2 DEF NoRecordLost
  <2>4. Len(accepted) = pushed /\ accepted[Len(file) + 1] = Len(file) + 1
    BY <1>0, <2>3
  <2>5. Recorder!Deliver
    BY <1>0, <2>1, <2>3, <2>4 DEF Recorder!Deliver
  <2>6. QED
    BY <2>5 DEF Recorder!Next
<1>3. CASE UNCHANGED <<pushed, file>> /\ workerPc # "closed" /\ workerPc' # "closed"
           /\ UNCHANGED m_saveWorker
  BY <1>3
<1>4. CASE UNCHANGED <<pushed, file>> /\ m_saveWorker = "exists"
           /\ (workerPc' = "closed" \/ m_saveWorker' = "freed")
  BY <1>4 DEF Recorder!Next, Recorder!Break
<1>5. CASE UNCHANGED <<pushed, file, workerPc, m_saveWorker>>
  BY <1>5
<1>6. CASE Start
  BY <1>0, <1>6 DEF Start
<1>7. QED
  BY <1>1, <1>2, <1>3, <1>4, <1>5, <1>6 DEF Next, Push, Run, End, vars, Alive, Push_Call,
     Run_Open, Run_Test, Run_Wait, Run_Notified, Run_Spurious, Run_Take,
     Run_Written, End_Flag, End_Free, Exit, UseFreed

(* The file gets every record once and in the order of the Push calls,     *)
(* until the recording ends: the worker implements OrderedStream.          *)
THEOREM RecorderCorrect == Spec => Recorder!SafeSpec
<1>1. Init => Recorder!Init
  BY DEF Init, Recorder!Init
<1>2. SaveInv /\ [Next]_vars => [Recorder!Next]_Recorder!vars
  BY RecorderStep
<1>3. QED
  BY <1>1, <1>2, SaveInvCorrect, PTL DEF Spec, SafeSpec, Recorder!SafeSpec
===============================================================================
