-------------------------- MODULE JSessionSendProofs --------------------------
(***************************************************************************)
(* Proofs about JSessionSend, for every set of packets, every bound on the *)
(* number of sends and every size of the deque's first block map.          *)
(***************************************************************************)
EXTENDS JSessionSend, SequenceFacts, TLAPS

(* Closing the socket reports the write it aborts, if there is one.        *)
LEMMA AbortedFacts ==
  ASSUME TypeOK, OneWriteAtATime,
         NEW c, c = completions \o [i \in 1..Len(writes) |-> "error"]
  PROVE  /\ c \in Seq({"ok", "error"})
         /\ completions # <<>> => c = completions
         /\ completions = <<>> => c = <<>> \/ Head(c) = "error"
         /\ Len(c) <= 1
         /\ c # <<>> => completions # <<>> \/ writes # <<>>
<1> DEFINE aborted == [i \in 1..Len(writes) |-> "error"]
<1>1. /\ completions \in Seq({"ok", "error"})
      /\ Len(writes) \in Nat /\ Len(completions) \in Nat
      /\ Len(writes) + Len(completions) <= 1
      /\ writes = <<>> => Len(writes) = 0
      /\ completions = <<>> => Len(completions) = 0
      /\ completions # <<>> => Len(completions) > 0
      /\ writes # <<>> => Len(writes) > 0
  BY DEF TypeOK, OneWriteAtATime
<1>2. CASE Len(writes) = 0
  <2>1. aborted = <<>>
    BY <1>2
  <2>2. c = completions
    BY <1>1, <2>1
  <2>3. QED
    BY <1>1, <1>2, <2>2
<1>3. CASE Len(writes) = 1
  <2>1. aborted = <<"error">>
    BY <1>3
  <2>2. completions = <<>>
    BY <1>1, <1>3
  <2>3. c = <<"error">>
    BY <2>1, <2>2
  <2>4. QED
    BY <1>1, <1>3, <2>2, <2>3
<1>4. QED
  BY <1>1, <1>2, <1>3

(* Every step keeps every variable in its type.                            *)
LEMMA TypeStep == TypeOK /\ OneWriteAtATime /\ DriverHasFront /\ OnlyDestroyDrops /\ [Next]_vars => TypeOK'
<1> USE MapSizeAssumption DEF TypeOK, logicVars, netVars, fateVars
<1> SUFFICES ASSUME TypeOK, OneWriteAtATime, DriverHasFront, OnlyDestroyDrops,
                    [Next]_vars
             PROVE  TypeOK'
  OBVIOUS
<1>1. CASE PostSend_Lock
  BY <1>1 DEF PostSend_Lock
<1>2. CASE PostSend_Push
  BY <1>2 DEF PostSend_Push, GrownMap
<1>3. CASE PostSend_Check
  BY <1>3 DEF PostSend_Check
<1>4. CASE PostSend_Write
  BY <1>4 DEF PostSend_Write
<1>5. CASE handle_write_Error
  BY <1>5 DEF handle_write_Error
<1>6. CASE handle_write_Pop
  BY <1>6 DEF handle_write_Pop, DriverHasFront, OnlyDestroyDrops
<1>7. CASE handle_write_Check
  BY <1>7 DEF handle_write_Check
<1>8. CASE handle_write_Front
  BY <1>8 DEF handle_write_Front, DriverHasFront, OnlyDestroyDrops
<1>9. CASE handle_write_FrontTorn
  BY <1>9 DEF handle_write_FrontTorn
<1>10. CASE handle_read_Error
  BY <1>10 DEF handle_read_Error
<1>11. CASE TransferDone
  BY <1>11 DEF TransferDone
<1>12. CASE TransferFail
  BY <1>12 DEF TransferFail
<1>13. CASE PeerGone
  BY <1>13 DEF PeerGone
<1>14. CASE OnPacket_Logout
  BY <1>14 DEF OnPacket_Logout
<1>15. CASE UpdateCommanders_Destroy
  BY <1>15 DEF UpdateCommanders_Destroy
<1>16. CASE handle_write_Freed
  BY <1>16 DEF handle_write_Freed
<1>17. CASE UNCHANGED vars
  BY <1>17 DEF vars
<1>18. CASE JSession_Freed
  BY <1>18, AbortedFacts DEF JSession_Freed
<1>19. CASE TransferFreed
  BY <1>19 DEF TransferFreed
<1>20. QED
  BY <1>1, <1>2, <1>3, <1>4, <1>5, <1>6, <1>7, <1>8, <1>9, <1>10, <1>11, <1>12,
     <1>13, <1>14, <1>15, <1>16, <1>17, <1>18, <1>19 DEF Next, Logic, Io, Socket

(* The two critical sections never overlap. *)
LEMMA MutualExclusionStep ==
  TypeOK /\ MutualExclusion /\ [Next]_vars
    => MutualExclusion'
<1> USE DEF TypeOK, logicVars, netVars, fateVars, MutualExclusion, MutexFree
<1> SUFFICES ASSUME TypeOK, MutualExclusion, [Next]_vars
             PROVE  MutualExclusion'
  OBVIOUS
<1>1. CASE PostSend_Lock
  BY <1>1 DEF PostSend_Lock
<1>2. CASE PostSend_Push
  BY <1>2 DEF PostSend_Push
<1>3. CASE PostSend_Check
  BY <1>3 DEF PostSend_Check
<1>4. CASE PostSend_Write
  BY <1>4 DEF PostSend_Write
<1>5. CASE handle_write_Error
  BY <1>5 DEF handle_write_Error
<1>6. CASE handle_write_Pop
  BY <1>6 DEF handle_write_Pop
<1>7. CASE handle_write_Check
  BY <1>7 DEF handle_write_Check
<1>8. CASE handle_write_Front
  BY <1>8 DEF handle_write_Front
<1>9. CASE handle_write_FrontTorn
  BY <1>9 DEF handle_write_FrontTorn
<1>10. CASE handle_read_Error
  BY <1>10 DEF handle_read_Error
<1>11. CASE TransferDone
  BY <1>11 DEF TransferDone
<1>12. CASE TransferFail
  BY <1>12 DEF TransferFail
<1>13. CASE PeerGone
  BY <1>13 DEF PeerGone
<1>14. CASE OnPacket_Logout
  BY <1>14 DEF OnPacket_Logout
<1>15. CASE UpdateCommanders_Destroy
  BY <1>15 DEF UpdateCommanders_Destroy
<1>16. CASE handle_write_Freed
  BY <1>16 DEF handle_write_Freed
<1>17. CASE UNCHANGED vars
  BY <1>17 DEF vars
<1>18. CASE JSession_Freed
  BY <1>18 DEF JSession_Freed
<1>19. CASE TransferFreed
  BY <1>19 DEF TransferFreed
<1>20. QED
  BY <1>1, <1>2, <1>3, <1>4, <1>5, <1>6, <1>7, <1>8, <1>9, <1>10, <1>11, <1>12,
     <1>13, <1>14, <1>15, <1>16, <1>17, <1>18, <1>19 DEF Next, Logic, Io, Socket

(* No step starts a second write: PostSend finds its packet alone in the queue
   only if nobody was driving it, and handle_write is itself the only driver. *)
LEMMA OneWriteAtATimeStep ==
  TypeOK /\ MutualExclusion /\ OneWriteAtATime /\ WriteBufferOwned /\ NeverStalled
    /\ DriverHasFront /\ OnlyDestroyDrops /\ [Next]_vars
    => OneWriteAtATime'
<1> USE DEF TypeOK, logicVars, netVars, fateVars, MutualExclusion, MutexFree, OneWriteAtATime, LogicDrives, IoDrives, SocketDrives, QueueBusy,
    WriteBufferOwned, NeverStalled, DriverHasFront, OnlyDestroyDrops
<1> SUFFICES ASSUME TypeOK, MutualExclusion, OneWriteAtATime, WriteBufferOwned, NeverStalled,
                    DriverHasFront, OnlyDestroyDrops, [Next]_vars
             PROVE  OneWriteAtATime'
  OBVIOUS
<1>1. CASE PostSend_Lock
  BY <1>1 DEF PostSend_Lock
<1>2. CASE PostSend_Push
  BY <1>2 DEF PostSend_Push
<1>3. CASE PostSend_Check
  BY <1>3 DEF PostSend_Check
<1>4. CASE PostSend_Write
  BY <1>4 DEF PostSend_Write
<1>5. CASE handle_write_Error
  BY <1>5 DEF handle_write_Error
<1>6. CASE handle_write_Pop
  BY <1>6 DEF handle_write_Pop
<1>7. CASE handle_write_Check
  BY <1>7 DEF handle_write_Check
<1>8. CASE handle_write_Front
  BY <1>8 DEF handle_write_Front
<1>9. CASE handle_write_FrontTorn
  BY <1>9 DEF handle_write_FrontTorn
<1>10. CASE handle_read_Error
  BY <1>10 DEF handle_read_Error
<1>11. CASE TransferDone
  BY <1>11 DEF TransferDone
<1>12. CASE TransferFail
  BY <1>12 DEF TransferFail
<1>13. CASE PeerGone
  BY <1>13 DEF PeerGone
<1>14. CASE OnPacket_Logout
  BY <1>14 DEF OnPacket_Logout
<1>15. CASE UpdateCommanders_Destroy
  BY <1>15 DEF UpdateCommanders_Destroy
<1>16. CASE handle_write_Freed
  BY <1>16 DEF handle_write_Freed
<1>17. CASE UNCHANGED vars
  BY <1>17 DEF vars
<1>18. CASE JSession_Freed
  BY <1>18, AbortedFacts DEF JSession_Freed
<1>19. CASE TransferFreed
  BY <1>19 DEF TransferFreed
<1>20. QED
  BY <1>1, <1>2, <1>3, <1>4, <1>5, <1>6, <1>7, <1>8, <1>9, <1>10, <1>11, <1>12,
     <1>13, <1>14, <1>15, <1>16, <1>17, <1>18, <1>19 DEF Next, Logic, Io, Socket

(* Every write that starts is of the packet at the front of the queue, and the
   front is popped only after its write completed. *)
LEMMA WriteBufferOwnedStep ==
  TypeOK /\ MutualExclusion /\ OneWriteAtATime /\ WriteBufferOwned /\ NeverStalled
    /\ DriverHasFront /\ OnlyDestroyDrops /\ [Next]_vars
    => WriteBufferOwned'
<1> USE DEF TypeOK, logicVars, netVars, fateVars, MutualExclusion, MutexFree, OneWriteAtATime, LogicDrives, IoDrives, SocketDrives, QueueBusy,
    WriteBufferOwned, NeverStalled, DriverHasFront, OnlyDestroyDrops
<1> SUFFICES ASSUME TypeOK, MutualExclusion, OneWriteAtATime, WriteBufferOwned, NeverStalled,
                    DriverHasFront, OnlyDestroyDrops, [Next]_vars
             PROVE  WriteBufferOwned'
  OBVIOUS
<1>1. CASE PostSend_Lock
  BY <1>1 DEF PostSend_Lock
<1>2. CASE PostSend_Push
  BY <1>2 DEF PostSend_Push
<1>3. CASE PostSend_Check
  BY <1>3 DEF PostSend_Check
<1>4. CASE PostSend_Write
  BY <1>4 DEF PostSend_Write
<1>5. CASE handle_write_Error
  BY <1>5 DEF handle_write_Error
<1>6. CASE handle_write_Pop
  BY <1>6 DEF handle_write_Pop
<1>7. CASE handle_write_Check
  BY <1>7 DEF handle_write_Check
<1>8. CASE handle_write_Front
  BY <1>8 DEF handle_write_Front
<1>9. CASE handle_write_FrontTorn
  BY <1>9 DEF handle_write_FrontTorn
<1>10. CASE handle_read_Error
  BY <1>10 DEF handle_read_Error
<1>11. CASE TransferDone
  BY <1>11 DEF TransferDone
<1>12. CASE TransferFail
  BY <1>12 DEF TransferFail
<1>13. CASE PeerGone
  BY <1>13 DEF PeerGone
<1>14. CASE OnPacket_Logout
  BY <1>14 DEF OnPacket_Logout
<1>15. CASE UpdateCommanders_Destroy
  BY <1>15 DEF UpdateCommanders_Destroy
<1>16. CASE handle_write_Freed
  BY <1>16 DEF handle_write_Freed
<1>17. CASE UNCHANGED vars
  BY <1>17 DEF vars
<1>18. CASE JSession_Freed
  BY <1>18 DEF JSession_Freed
<1>19. CASE TransferFreed
  BY <1>19 DEF TransferFreed
<1>20. QED
  BY <1>1, <1>2, <1>3, <1>4, <1>5, <1>6, <1>7, <1>8, <1>9, <1>10, <1>11, <1>12,
     <1>13, <1>14, <1>15, <1>16, <1>17, <1>18, <1>19 DEF Next, Logic, Io, Socket

(* Whoever stops driving a queue that still has packets hands it on or marks
   the session. *)
LEMMA NeverStalledStep ==
  TypeOK /\ MutualExclusion /\ OneWriteAtATime /\ WriteBufferOwned /\ NeverStalled
    /\ DriverHasFront /\ OnlyDestroyDrops /\ [Next]_vars
    => NeverStalled'
<1> USE DEF TypeOK, logicVars, netVars, fateVars, MutualExclusion, MutexFree, OneWriteAtATime, LogicDrives, IoDrives, SocketDrives, QueueBusy,
    WriteBufferOwned, NeverStalled, DriverHasFront, OnlyDestroyDrops
<1> SUFFICES ASSUME TypeOK, MutualExclusion, OneWriteAtATime, WriteBufferOwned, NeverStalled,
                    DriverHasFront, OnlyDestroyDrops, [Next]_vars
             PROVE  NeverStalled'
  OBVIOUS
<1>1. CASE PostSend_Lock
  BY <1>1 DEF PostSend_Lock
<1>2. CASE PostSend_Push
  BY <1>2 DEF PostSend_Push
<1>3. CASE PostSend_Check
  BY <1>3 DEF PostSend_Check
<1>4. CASE PostSend_Write
  BY <1>4 DEF PostSend_Write
<1>5. CASE handle_write_Error
  BY <1>5 DEF handle_write_Error
<1>6. CASE handle_write_Pop
  BY <1>6 DEF handle_write_Pop
<1>7. CASE handle_write_Check
  BY <1>7 DEF handle_write_Check
<1>8. CASE handle_write_Front
  BY <1>8 DEF handle_write_Front
<1>9. CASE handle_write_FrontTorn
  BY <1>9 DEF handle_write_FrontTorn
<1>10. CASE handle_read_Error
  BY <1>10 DEF handle_read_Error
<1>11. CASE TransferDone
  BY <1>11 DEF TransferDone
<1>12. CASE TransferFail
  BY <1>12 DEF TransferFail
<1>13. CASE PeerGone
  BY <1>13 DEF PeerGone
<1>14. CASE OnPacket_Logout
  BY <1>14 DEF OnPacket_Logout
<1>15. CASE UpdateCommanders_Destroy
  BY <1>15 DEF UpdateCommanders_Destroy
<1>16. CASE handle_write_Freed
  BY <1>16 DEF handle_write_Freed
<1>17. CASE UNCHANGED vars
  BY <1>17 DEF vars
<1>18. CASE JSession_Freed
  BY <1>18 DEF JSession_Freed
<1>19. CASE TransferFreed
  BY <1>19 DEF TransferFreed
<1>20. QED
  BY <1>1, <1>2, <1>3, <1>4, <1>5, <1>6, <1>7, <1>8, <1>9, <1>10, <1>11, <1>12,
     <1>13, <1>14, <1>15, <1>16, <1>17, <1>18, <1>19 DEF Next, Logic, Io, Socket

(* The front stays in the queue for as long as anyone drives it. *)
LEMMA DriverHasFrontStep ==
  TypeOK /\ MutualExclusion /\ OneWriteAtATime /\ WriteBufferOwned /\ NeverStalled
    /\ DriverHasFront /\ OnlyDestroyDrops /\ [Next]_vars
    => DriverHasFront'
<1> USE DEF TypeOK, logicVars, netVars, fateVars, MutualExclusion, MutexFree, OneWriteAtATime, LogicDrives, IoDrives, SocketDrives, QueueBusy,
    WriteBufferOwned, NeverStalled, DriverHasFront, OnlyDestroyDrops
<1> SUFFICES ASSUME TypeOK, MutualExclusion, OneWriteAtATime, WriteBufferOwned, NeverStalled,
                    DriverHasFront, OnlyDestroyDrops, [Next]_vars
             PROVE  DriverHasFront'
  OBVIOUS
<1>1. CASE PostSend_Lock
  BY <1>1 DEF PostSend_Lock
<1>2. CASE PostSend_Push
  <2>1. /\ m_sendDataQueue' # <<>>
        /\ Len(m_sendDataQueue') = Len(m_sendDataQueue) + 1
    BY <1>2 DEF PostSend_Push
  <2>2. ASSUME Len(m_sendDataQueue') <= 1 PROVE m_sendDataQueue' = <<data'>>
    <3>1. m_sendDataQueue = <<>>
      BY <2>1, <2>2
    <3>2. QED
      BY <1>2, <3>1 DEF PostSend_Push
  <2>3. QED
    BY <1>2, <2>1, <2>2 DEF PostSend_Push
<1>3. CASE PostSend_Check
  BY <1>3 DEF PostSend_Check
<1>4. CASE PostSend_Write
  BY <1>4 DEF PostSend_Write
<1>5. CASE handle_write_Error
  BY <1>5 DEF handle_write_Error
<1>6. CASE handle_write_Pop
  BY <1>6 DEF handle_write_Pop
<1>7. CASE handle_write_Check
  BY <1>7 DEF handle_write_Check
<1>8. CASE handle_write_Front
  BY <1>8 DEF handle_write_Front
<1>9. CASE handle_write_FrontTorn
  BY <1>9 DEF handle_write_FrontTorn
<1>10. CASE handle_read_Error
  BY <1>10 DEF handle_read_Error
<1>11. CASE TransferDone
  BY <1>11 DEF TransferDone
<1>12. CASE TransferFail
  BY <1>12 DEF TransferFail
<1>13. CASE PeerGone
  BY <1>13 DEF PeerGone
<1>14. CASE OnPacket_Logout
  BY <1>14 DEF OnPacket_Logout
<1>15. CASE UpdateCommanders_Destroy
  BY <1>15 DEF UpdateCommanders_Destroy
<1>16. CASE handle_write_Freed
  BY <1>16 DEF handle_write_Freed
<1>17. CASE UNCHANGED vars
  BY <1>17 DEF vars
<1>18. CASE JSession_Freed
  BY <1>18, AbortedFacts DEF JSession_Freed
<1>19. CASE TransferFreed
  BY <1>19 DEF TransferFreed
<1>20. QED
  BY <1>1, <1>2, <1>3, <1>4, <1>5, <1>6, <1>7, <1>8, <1>9, <1>10, <1>11, <1>12,
     <1>13, <1>14, <1>15, <1>16, <1>17, <1>18, <1>19 DEF Next, Logic, Io, Socket

(* A push appends to both the queue and the history, a pop to neither. *)
LEMMA QueueIsTailOfSentStep ==
  TypeOK /\ OneWriteAtATime /\ DriverHasFront /\ WriteBufferOwned /\ QueueIsTailOfSent
    /\ WireIsHeadOfSent /\ OnlyDestroyDrops /\ [Next]_vars
    => QueueIsTailOfSent'
<1> USE DEF TypeOK, logicVars, netVars, fateVars, LogicDrives, IoDrives, SocketDrives,
   OneWriteAtATime, DriverHasFront,
   WriteBufferOwned, QueueIsTailOfSent, WireIsHeadOfSent, OnlyDestroyDrops
<1> SUFFICES ASSUME TypeOK, OneWriteAtATime, DriverHasFront, WriteBufferOwned, QueueIsTailOfSent,
                    WireIsHeadOfSent, OnlyDestroyDrops, [Next]_vars
             PROVE  QueueIsTailOfSent'
  OBVIOUS
<1>1. CASE PostSend_Lock
  BY <1>1 DEF PostSend_Lock
<1>2. CASE PostSend_Push
  <2>1. /\ Len(m_sendDataQueue') = Len(m_sendDataQueue) + 1
        /\ Len(sent') = Len(sent) + 1
    BY <1>2 DEF PostSend_Push
  <2>2. ASSUME NEW i \in 1..Len(m_sendDataQueue')
        PROVE  m_sendDataQueue'[i]
                 = sent'[Len(sent') - Len(m_sendDataQueue') + i]
    <3>1. CASE i = Len(m_sendDataQueue) + 1
      BY <1>2, <2>1, <3>1 DEF PostSend_Push
    <3>2. CASE i \in 1..Len(m_sendDataQueue)
      <4>1. m_sendDataQueue'[i] = m_sendDataQueue[i]
        BY <1>2, <3>2 DEF PostSend_Push
      <4>2. sent'[Len(sent) - Len(m_sendDataQueue) + i]
              = sent[Len(sent) - Len(m_sendDataQueue) + i]
        BY <1>2, <3>2 DEF PostSend_Push
      <4>3. m_sendDataQueue[i] = sent[Len(sent) - Len(m_sendDataQueue) + i]
        BY <3>2
      <4>4. Len(sent') - Len(m_sendDataQueue') + i = Len(sent) - Len(m_sendDataQueue) + i
        <5>1. Len(sent) \in Nat /\ Len(m_sendDataQueue) \in Nat
          OBVIOUS
        <5>2. \A m, n, k \in Nat : (m + 1) - (n + 1) + k = m - n + k
          OBVIOUS
        <5>3. QED
          BY <2>1, <3>2, <5>1, <5>2
      <4>5. QED
        BY <4>1, <4>2, <4>3, <4>4, Zenon
    <3>3. QED
      BY <2>1, <2>2, <3>1, <3>2
  <2>3. Len(m_sendDataQueue') <= Len(sent')
    BY <2>1
  <2>4. QED
    BY <2>2, <2>3, Zenon
<1>3. CASE PostSend_Check
  BY <1>3 DEF PostSend_Check
<1>4. CASE PostSend_Write
  BY <1>4 DEF PostSend_Write
<1>5. CASE handle_write_Error
  BY <1>5 DEF handle_write_Error
<1>6. CASE handle_write_Pop
  BY <1>6 DEF handle_write_Pop
<1>7. CASE handle_write_Check
  BY <1>7 DEF handle_write_Check
<1>8. CASE handle_write_Front
  BY <1>8 DEF handle_write_Front
<1>9. CASE handle_write_FrontTorn
  BY <1>9 DEF handle_write_FrontTorn
<1>10. CASE handle_read_Error
  BY <1>10 DEF handle_read_Error
<1>11. CASE TransferDone
  BY <1>11 DEF TransferDone
<1>12. CASE TransferFail
  BY <1>12 DEF TransferFail
<1>13. CASE PeerGone
  BY <1>13 DEF PeerGone
<1>14. CASE OnPacket_Logout
  BY <1>14 DEF OnPacket_Logout
<1>15. CASE UpdateCommanders_Destroy
  BY <1>15 DEF UpdateCommanders_Destroy
<1>16. CASE handle_write_Freed
  BY <1>16 DEF handle_write_Freed
<1>17. CASE UNCHANGED vars
  BY <1>17 DEF vars
<1>18. CASE JSession_Freed
  BY <1>18 DEF JSession_Freed
<1>19. CASE TransferFreed
  BY <1>19 DEF TransferFreed
<1>20. QED
  BY <1>1, <1>2, <1>3, <1>4, <1>5, <1>6, <1>7, <1>8, <1>9, <1>10, <1>11, <1>12,
     <1>13, <1>14, <1>15, <1>16, <1>17, <1>18, <1>19 DEF Next, Logic, Io, Socket

(* A transfer puts the first packet that is not yet on the wire there. *)
LEMMA WireIsHeadOfSentStep ==
  TypeOK /\ OneWriteAtATime /\ DriverHasFront /\ WriteBufferOwned /\ QueueIsTailOfSent
    /\ WireIsHeadOfSent /\ OnlyDestroyDrops /\ [Next]_vars
    => WireIsHeadOfSent'
<1> USE DEF TypeOK, logicVars, netVars, fateVars, LogicDrives, IoDrives, SocketDrives,
   OneWriteAtATime, DriverHasFront,
   WriteBufferOwned, QueueIsTailOfSent, WireIsHeadOfSent, OnlyDestroyDrops
<1> SUFFICES ASSUME TypeOK, OneWriteAtATime, DriverHasFront, WriteBufferOwned, QueueIsTailOfSent,
                    WireIsHeadOfSent, OnlyDestroyDrops, [Next]_vars
             PROVE  WireIsHeadOfSent'
  OBVIOUS
<1>1. CASE PostSend_Lock
  BY <1>1 DEF PostSend_Lock
<1>2. CASE PostSend_Push
  <2>1. /\ Len(m_sendDataQueue') = Len(m_sendDataQueue) + 1
        /\ Len(sent') = Len(sent) + 1
    BY <1>2 DEF PostSend_Push
  <2>2. \A i \in 1..Len(sent) : sent'[i] = sent[i]
    BY <1>2 DEF PostSend_Push
  <2>3. wire' = wire /\ completions' = completions
    BY <1>2 DEF PostSend_Push
  <2>4. \A i \in 1..Len(wire) : i \in 1..Len(sent) /\ wire[i] = sent[i]
    OBVIOUS
  <2>5. Len(wire) = Len(sent) - Len(m_sendDataQueue) - Len(dropped)
          + (IF completions # <<>> /\ Head(completions) = "ok" THEN 1 ELSE 0)
    OBVIOUS
  <2>6. Len(sent) \in Nat /\ Len(m_sendDataQueue) \in Nat /\ Len(dropped) \in Nat
    OBVIOUS
  <2>10. dropped' = dropped
    BY <1>2 DEF PostSend_Push
  <2> HIDE DEF TypeOK, logicVars, netVars, fateVars, LogicDrives, IoDrives, SocketDrives,
       OneWriteAtATime, DriverHasFront, WriteBufferOwned, QueueIsTailOfSent,
       WireIsHeadOfSent, OnlyDestroyDrops
  <2>7. \A i \in 1..Len(wire') : i <= Len(sent') /\ wire'[i] = sent'[i]
    BY <2>1, <2>2, <2>3, <2>4, <2>6
  <2>8. Len(wire') = Len(sent') - Len(m_sendDataQueue') - Len(dropped')
          + (IF completions' # <<>> /\ Head(completions') = "ok" THEN 1 ELSE 0)
    BY <2>1, <2>3, <2>5, <2>6, <2>10
  <2>9. QED
    BY <2>7, <2>8 DEF WireIsHeadOfSent
<1>3. CASE PostSend_Check
  BY <1>3 DEF PostSend_Check
<1>4. CASE PostSend_Write
  BY <1>4 DEF PostSend_Write
<1>5. CASE handle_write_Error
  BY <1>5 DEF handle_write_Error
<1>6. CASE handle_write_Pop
  BY <1>6 DEF handle_write_Pop
<1>7. CASE handle_write_Check
  BY <1>7 DEF handle_write_Check
<1>8. CASE handle_write_Front
  BY <1>8 DEF handle_write_Front
<1>9. CASE handle_write_FrontTorn
  BY <1>9 DEF handle_write_FrontTorn
<1>10. CASE handle_read_Error
  BY <1>10 DEF handle_read_Error
<1>11. CASE TransferDone
  <2>1. completions = <<>> /\ m_sendDataQueue # <<>> /\ dropped = <<>> /\ dropped' = <<>>
    BY <1>11 DEF TransferDone
  <2>2. completions' # <<>> /\ Head(completions') = "ok"
    BY <1>11, <2>1 DEF TransferDone
  <2>3. /\ Len(wire) = Len(sent) - Len(m_sendDataQueue)
        /\ Len(m_sendDataQueue) \in 1..Len(sent)
        /\ Head(m_sendDataQueue) = sent[Len(wire) + 1]
    BY <2>1
  <2>4. Head(writes) = Head(m_sendDataQueue) /\ Head(writes) \in Packet
    BY <1>11 DEF TransferDone
  <2>5. wire' = Append(wire, sent[Len(wire) + 1]) /\ sent[Len(wire) + 1] \in Packet
    BY <1>11, <2>3, <2>4 DEF TransferDone
  <2>6. /\ Len(wire') = Len(wire) + 1
        /\ wire'[Len(wire) + 1] = sent[Len(wire) + 1]
        /\ \A i \in 1..Len(wire) : wire'[i] = wire[i]
    <3>1. wire \in Seq(Packet)
      OBVIOUS
    <3> HIDE DEF TypeOK, logicVars, netVars, fateVars, LogicDrives, IoDrives, SocketDrives,
         OneWriteAtATime, DriverHasFront, WriteBufferOwned, QueueIsTailOfSent,
         WireIsHeadOfSent, OnlyDestroyDrops
    <3>2. QED
      BY <2>5, <3>1, AppendFacts
  <2>7. sent' = sent /\ m_sendDataQueue' = m_sendDataQueue
    BY <1>11 DEF TransferDone
  <2>8. /\ \A i \in 1..Len(wire) : wire[i] = sent[i]
        /\ Len(wire) \in Nat
        /\ Len(sent) \in Nat
    <3>1. \A i \in 1..Len(wire) : wire[i] = sent[i]
      OBVIOUS
    <3>2. Len(wire) \in Nat /\ Len(sent) \in Nat
      OBVIOUS
    <3>3. QED
      BY <3>1, <3>2, Zenon
  <2> HIDE DEF TypeOK, logicVars, netVars, fateVars, LogicDrives, IoDrives, SocketDrives,
       OneWriteAtATime, DriverHasFront, WriteBufferOwned, QueueIsTailOfSent,
       WireIsHeadOfSent, OnlyDestroyDrops
  <2>9. \A i \in 1..Len(wire') : i <= Len(sent') /\ wire'[i] = sent'[i]
    <3> SUFFICES ASSUME NEW i \in 1..Len(wire')
                 PROVE  i <= Len(sent') /\ wire'[i] = sent'[i]
      OBVIOUS
    <3>1. CASE i = Len(wire) + 1
      BY <2>3, <2>6, <2>7, <2>8, <3>1
    <3>2. CASE i \in 1..Len(wire)
      BY <2>3, <2>6, <2>7, <2>8, <3>2
    <3>3. QED
      BY <2>6, <2>8, <3>1, <3>2
  <2>10. Len(wire') = Len(sent') - Len(m_sendDataQueue') - Len(dropped')
          + (IF completions' # <<>> /\ Head(completions') = "ok" THEN 1 ELSE 0)
    BY <2>1, <2>2, <2>3, <2>6, <2>7, <2>8
  <2>11. QED
    BY <2>9, <2>10 DEF WireIsHeadOfSent
<1>12. CASE TransferFail
  <2>1. completions = <<>>
    BY <1>12 DEF TransferFail
  <2>2. Head(completions') = "error"
    BY <1>12, <2>1 DEF TransferFail
  <2>3. QED
    BY <1>12, <2>1, <2>2 DEF TransferFail
<1>13. CASE PeerGone
  BY <1>13 DEF PeerGone
<1>14. CASE OnPacket_Logout
  BY <1>14 DEF OnPacket_Logout
<1>15. CASE UpdateCommanders_Destroy
  <2>1. /\ dropped = <<>> /\ dropped' = m_sendDataQueue /\ m_sendDataQueue' = <<>>
        /\ UNCHANGED <<sent, wire, completions>>
    BY <1>15 DEF UpdateCommanders_Destroy
  <2>2. Len(sent) \in Nat /\ Len(m_sendDataQueue) \in Nat
    OBVIOUS
  <2>3. Len(dropped) = 0 /\ Len(m_sendDataQueue') = 0
        /\ Len(dropped') = Len(m_sendDataQueue)
    BY <2>1
  <2>4. \A m, n \in Nat : m - n - 0 = m - 0 - n
    OBVIOUS
  <2>5. Len(sent) - Len(m_sendDataQueue) - Len(dropped)
          = Len(sent') - Len(m_sendDataQueue') - Len(dropped')
    BY <2>1, <2>2, <2>3, <2>4
  <2>6. QED
    BY <2>1, <2>5
<1>16. CASE handle_write_Freed
  BY <1>16 DEF handle_write_Freed
<1>17. CASE UNCHANGED vars
  BY <1>17 DEF vars
<1>18. CASE JSession_Freed
  <2>1. UNCHANGED <<sent, wire, m_sendDataQueue, dropped>>
    BY <1>18 DEF JSession_Freed
  <2>2. CASE completions # <<>>
    <3>1. completions' = completions
      BY <1>18, <2>2, AbortedFacts DEF JSession_Freed
    <3>2. QED
      BY <2>1, <3>1
  <2>3. CASE completions = <<>>
    <3>1. completions' = <<>> \/ Head(completions') = "error"
      BY <1>18, <2>3, AbortedFacts DEF JSession_Freed
    <3>2. QED
      BY <2>1, <2>3, <3>1
  <2>4. QED
    BY <2>2, <2>3
<1>19. CASE TransferFreed
  BY <1>19 DEF TransferFreed
<1>20. QED
  BY <1>1, <1>2, <1>3, <1>4, <1>5, <1>6, <1>7, <1>8, <1>9, <1>10, <1>11, <1>12,
     <1>13, <1>14, <1>15, <1>16, <1>17, <1>18, <1>19 DEF Next, Logic, Io, Socket

(* Only the body of ~JSession drops packets, and after it PostSend and
   handle_write do not touch the queue. *)
LEMMA OnlyDestroyDropsStep ==
  TypeOK /\ OnlyDestroyDrops /\ [Next]_vars
    => OnlyDestroyDrops'
<1> USE DEF TypeOK, logicVars, netVars, fateVars, OnlyDestroyDrops
<1> SUFFICES ASSUME TypeOK, OnlyDestroyDrops, [Next]_vars
             PROVE  OnlyDestroyDrops'
  OBVIOUS
<1>1. CASE PostSend_Lock
  BY <1>1 DEF PostSend_Lock
<1>2. CASE PostSend_Push
  BY <1>2 DEF PostSend_Push
<1>3. CASE PostSend_Check
  BY <1>3 DEF PostSend_Check
<1>4. CASE PostSend_Write
  BY <1>4 DEF PostSend_Write
<1>5. CASE handle_write_Error
  BY <1>5 DEF handle_write_Error
<1>6. CASE handle_write_Pop
  BY <1>6 DEF handle_write_Pop
<1>7. CASE handle_write_Check
  BY <1>7 DEF handle_write_Check
<1>8. CASE handle_write_Front
  BY <1>8 DEF handle_write_Front
<1>9. CASE handle_write_FrontTorn
  BY <1>9 DEF handle_write_FrontTorn
<1>10. CASE handle_read_Error
  BY <1>10 DEF handle_read_Error
<1>11. CASE TransferDone
  BY <1>11 DEF TransferDone
<1>12. CASE TransferFail
  BY <1>12 DEF TransferFail
<1>13. CASE PeerGone
  BY <1>13 DEF PeerGone
<1>14. CASE OnPacket_Logout
  BY <1>14 DEF OnPacket_Logout
<1>15. CASE UpdateCommanders_Destroy
  BY <1>15 DEF UpdateCommanders_Destroy
<1>16. CASE handle_write_Freed
  BY <1>16 DEF handle_write_Freed
<1>17. CASE UNCHANGED vars
  BY <1>17 DEF vars
<1>18. CASE JSession_Freed
  BY <1>18 DEF JSession_Freed
<1>19. CASE TransferFreed
  BY <1>19 DEF TransferFreed
<1>20. QED
  BY <1>1, <1>2, <1>3, <1>4, <1>5, <1>6, <1>7, <1>8, <1>9, <1>10, <1>11, <1>12,
     <1>13, <1>14, <1>15, <1>16, <1>17, <1>18, <1>19 DEF Next, Logic, Io, Socket

(* Freed bytes are written, or a handler finds the session destroyed, only
   if a write or a result was under way: then ~JSession dropped its packet. *)
LEMMA DrainedIsSafeToDestroyStep ==
  TypeOK /\ DriverHasFront' /\ OnlyDestroyDrops' /\ DrainedIsSafeToDestroy
    /\ DriverHasFront /\ OnlyDestroyDrops /\ [Next]_vars
    => DrainedIsSafeToDestroy'
<1> SUFFICES ASSUME TypeOK, DriverHasFront', OnlyDestroyDrops', DriverHasFront,
                    OnlyDestroyDrops, DrainedIsSafeToDestroy, [Next]_vars
             PROVE  DrainedIsSafeToDestroy'
  OBVIOUS
<1>1. (fate = "live" /\ m_sendDataQueue = <<>> => ~SocketDrives /\ ioPc # "front")'
  BY DEF DriverHasFront, OnlyDestroyDrops, SocketDrives
<1>2. /\ (fate = "stale" => dropped # <<>>)'
      /\ (fate = "touched" => dropped # <<>> \/ ioPc = "check")'
  <2>1. CASE fate' \notin {"stale", "touched"}
    BY <2>1
  <2>2. CASE TransferFreed
    BY <2>2 DEF TransferFreed, DriverHasFront, OnlyDestroyDrops
  <2>3. CASE handle_write_Freed
    <3>1. /\ fate \in {"destroying", "freed"} /\ fate' = "touched"
          /\ ioPc # "idle" \/ completions # <<>>
          /\ UNCHANGED <<dropped, ioPc>>
      BY <2>3 DEF handle_write_Freed
    <3>2. ioPc \in {"idle", "check", "front"}
      BY DEF TypeOK
    <3>3. QED
      BY <3>1, <3>2 DEF DriverHasFront, OnlyDestroyDrops
  <2>4. CASE UNCHANGED vars
    BY <2>4 DEF vars, DrainedIsSafeToDestroy
  <2>5. CASE Next /\ ~TransferFreed /\ ~handle_write_Freed
    <3>1. fate' \in {"live", "torn", "destroying", "freed"}
      BY <2>5 DEF Next, Logic, Io, Socket, PostSend_Lock, PostSend_Push,
                  PostSend_Check, PostSend_Write, OnPacket_Logout,
                  UpdateCommanders_Destroy, JSession_Freed, handle_write_Error,
                  handle_write_Pop, handle_write_Check, handle_write_Front,
                  handle_write_FrontTorn, handle_read_Error, TransferDone,
                  TransferFail, PeerGone, fateVars
    <3>2. QED
      BY <3>1
  <2>6. QED
    BY <2>2, <2>3, <2>4, <2>5
<1>3. QED
  BY <1>1, <1>2 DEF DrainedIsSafeToDestroy

(* The invariant holds initially ...                                       *)
LEMMA SendInvInit == Init => SendInv
<1> SUFFICES ASSUME Init PROVE SendInv
  OBVIOUS
<1>1. TypeOK
  <2>1. /\ m_isDisconnected \in BOOLEAN
        /\ broken \in BOOLEAN
        /\ m_isLogout \in BOOLEAN
    BY DEF Init
  <2>2. QED
    BY <2>1 DEF Init, TypeOK
<1>2. MutualExclusion /\ OneWriteAtATime /\ WriteBufferOwned /\ NeverStalled
  BY DEF Init, MutualExclusion, OneWriteAtATime, WriteBufferOwned, NeverStalled,
         LogicDrives, IoDrives, SocketDrives
<1>3. DriverHasFront /\ QueueIsTailOfSent /\ WireIsHeadOfSent
  <2>1. DriverHasFront /\ QueueIsTailOfSent
    BY DEF Init, DriverHasFront, QueueIsTailOfSent
  <2>2. WireIsHeadOfSent
    <3>1. Len(wire) = 0 /\ Len(sent) = 0 /\ Len(m_sendDataQueue) = 0 /\ Len(dropped) = 0
      BY DEF Init
    <3>2. completions = <<>>
      BY DEF Init
    <3>3. QED
      BY <3>1, <3>2 DEF WireIsHeadOfSent
  <2>3. QED
    BY <2>1, <2>2
<1>4. OnlyDestroyDrops /\ DrainedIsSafeToDestroy
  BY DEF Init, OnlyDestroyDrops, DrainedIsSafeToDestroy, SocketDrives
<1>5. QED
  BY <1>1, <1>2, <1>3, <1>4 DEF SendInv

(* ... and every step preserves it.                                        *)
LEMMA SendInvStep == SendInv /\ [Next]_vars => SendInv'
<1> SUFFICES ASSUME SendInv, [Next]_vars PROVE SendInv'
  OBVIOUS
<1> USE DEF SendInv
<1>1. TypeOK'
  BY TypeStep
<1>2. MutualExclusion'
  BY MutualExclusionStep
<1>3. OneWriteAtATime'
  BY OneWriteAtATimeStep
<1>4. WriteBufferOwned'
  BY WriteBufferOwnedStep
<1>5. NeverStalled'
  BY NeverStalledStep
<1>6. DriverHasFront'
  BY DriverHasFrontStep
<1>7. QueueIsTailOfSent'
  BY QueueIsTailOfSentStep
<1>8. WireIsHeadOfSent'
  BY WireIsHeadOfSentStep
<1>9. OnlyDestroyDrops'
  BY OnlyDestroyDropsStep
<1>10. DrainedIsSafeToDestroy'
  BY <1>6, <1>9, DrainedIsSafeToDestroyStep
<1>11. QED
  BY <1>1, <1>2, <1>3, <1>4, <1>5, <1>6, <1>7, <1>8, <1>9, <1>10

-------------------------------------------------------------------------------
(* The inductive invariant holds in every reachable state of PostSend,     *)
(* handle_write and the socket.                                            *)
THEOREM SendInvCorrect == Spec => []SendInv
<1>1. Init => SendInv
  BY SendInvInit
<1>2. SendInv /\ [Next]_vars => SendInv'
  BY SendInvStep
<1>3. QED
  BY <1>1, <1>2, PTL DEF Spec, SafeSpec

(* Every variable of the sending half keeps its type.                      *)
THEOREM TypeCorrect == Spec => []TypeOK
<1>1. SendInv => TypeOK
  BY DEF SendInv
<1>2. QED
  BY <1>1, SendInvCorrect, PTL

(* PostSend and handle_write never have two writes under way on the socket.*)
THEOREM OneWriteCorrect == Spec => []OneWriteAtATime
<1>1. SendInv => OneWriteAtATime
  BY DEF SendInv
<1>2. QED
  BY <1>1, SendInvCorrect, PTL

(* The bytes under a write in flight are kept alive by the queue's front.  *)
THEOREM BufferCorrect == Spec => []WriteBufferOwned
<1>1. SendInv => WriteBufferOwned
  BY DEF SendInv
<1>2. QED
  BY <1>1, SendInvCorrect, PTL

(* A packet that PostSend queued is never left with nobody to write it.    *)
THEOREM NeverStalledCorrect == Spec => []NeverStalled
<1>1. SendInv => NeverStalled
  BY DEF SendInv
<1>2. QED
  BY <1>1, SendInvCorrect, PTL

(* A session that has sent everything can be destroyed at once: no         *)
(* handle_write comes back to it.                                          *)
THEOREM DrainedCorrect == Spec => []DrainedIsSafeToDestroy
<1>1. SendInv => DrainedIsSafeToDestroy
  BY DEF SendInv
<1>2. QED
  BY <1>1, SendInvCorrect, PTL

(* After a failed write no step of PostSend or handle_write reaches the    *)
(* socket again.                                                           *)
THEOREM NoWriteAfterFailureCorrect == Spec => NoWriteAfterFailure
<1>1. SendInv /\ [Next]_vars => 
         [WriteFailed => writes' = writes /\ (fate' = "live" => WriteFailed')]_vars
  <2> SUFFICES ASSUME SendInv, Next, WriteFailed
               PROVE  writes' = writes /\ (fate' = "live" => WriteFailed')
    OBVIOUS
  <2> USE DEF SendInv, TypeOK, WriteFailed, LogicDrives, IoDrives, QueueBusy,
              logicVars, netVars, fateVars
  <2>1. CASE PostSend_Lock
    BY <2>1 DEF PostSend_Lock
  <2>2. CASE PostSend_Push
    <3>1. m_sendDataQueue' # <<>> /\ Len(m_sendDataQueue') > 1
      <4>1. /\ m_sendDataQueue \in Seq(Packet) /\ data \in Packet
            /\ Len(m_sendDataQueue) > 0
            /\ m_sendDataQueue' = Append(m_sendDataQueue, data)
        BY <2>2 DEF PostSend_Push
      <4>2. Len(m_sendDataQueue') = Len(m_sendDataQueue) + 1
        BY <4>1, AppendFacts
      <4>3. QED
        BY <4>1, <4>2
    <3>2. ~LogicDrives' /\ ~IoDrives'
      BY <2>2, <3>1 DEF PostSend_Push
    <3>3. QED
      BY <2>2, <3>1, <3>2 DEF PostSend_Push
  <2>3. CASE PostSend_Check
    BY <2>3 DEF PostSend_Check
  <2>4. ~PostSend_Write /\ ~handle_write_Front /\ ~handle_write_Check
    BY DEF PostSend_Write, handle_write_Front, handle_write_Check
  <2>5. /\ ~handle_write_Pop /\ ~TransferDone /\ ~TransferFail /\ ~TransferFreed
        /\ ~JSession_Freed /\ ~handle_write_Freed
    BY DEF handle_write_Pop, TransferDone, TransferFail, TransferFreed,
           JSession_Freed, handle_write_Freed
  <2>6. CASE handle_write_Error
    BY <2>6 DEF handle_write_Error, OneWriteAtATime, SocketDrives
  <2>7. CASE handle_write_FrontTorn \/ handle_read_Error \/ PeerGone
    BY <2>7 DEF handle_write_FrontTorn, handle_read_Error, PeerGone
  <2>8. CASE OnPacket_Logout \/ UpdateCommanders_Destroy
    BY <2>8 DEF OnPacket_Logout, UpdateCommanders_Destroy
  <2>9. QED
    BY <2>1, <2>2, <2>3, <2>4, <2>5, <2>6, <2>7, <2>8 DEF Next, Logic, Io, Socket
<1>2. QED
  BY <1>1, SendInvCorrect, PTL DEF Spec, SafeSpec, NoWriteAfterFailure

-------------------------------------------------------------------------------
(* The sending half of JSession is an ordered stream (safety): each of its *)
(* steps accepts a packet, delivers the next one, breaks the stream or     *)
(* changes nothing a user of the stream can see.                           *)
LEMMA StreamStep == SendInv /\ [Next]_vars => [Stream!Next]_Stream!vars
<1> SUFFICES ASSUME SendInv, [Next]_vars PROVE [Stream!Next]_Stream!vars
  OBVIOUS
<1> USE DEF logicVars, netVars, fateVars, Stream!vars
<1>1. CASE PostSend_Push
  BY <1>1 DEF PostSend_Push, SendInv, TypeOK, Stream!Next, Stream!Accept
<1>2. CASE TransferDone
  <2>1. /\ completions = <<>> /\ m_sendDataQueue # <<>>
        /\ fate = "live" /\ dropped = <<>>
    BY <1>2 DEF TransferDone, SendInv, TypeOK, OneWriteAtATime, DriverHasFront,
                OnlyDestroyDrops
  <2>2. Head(writes) = sent[Len(wire) + 1] /\ Len(wire) < Len(sent)
    <3>1. /\ m_sendDataQueue \in Seq(Packet) /\ sent \in Seq(Packet)
          /\ writes \in Seq(Packet) /\ writes # <<>>
      BY <1>2 DEF TransferDone, SendInv, TypeOK
    <3>2. Head(writes) = m_sendDataQueue[1]
      BY <2>1, <3>1 DEF SendInv, WriteBufferOwned
    <3>3. Len(m_sendDataQueue) \in 1..Len(sent)
      BY <2>1, <3>1 DEF SendInv, QueueIsTailOfSent
    <3>4. m_sendDataQueue[1] = sent[Len(sent) - Len(m_sendDataQueue) + 1]
      BY <3>1, <3>3 DEF SendInv, QueueIsTailOfSent
    <3>5. Len(wire) = Len(sent) - Len(m_sendDataQueue)
      BY <2>1, <3>1 DEF SendInv, WireIsHeadOfSent
    <3>6. QED
      BY <3>1, <3>2, <3>3, <3>4, <3>5
  <2>3. Stream!Deliver
    BY <1>2, <2>2 DEF TransferDone, Stream!Deliver
  <2>4. QED
    BY <2>3 DEF Stream!Next
<1>3. CASE handle_write_FrontTorn
  BY <1>3 DEF handle_write_FrontTorn, Stream!Next, Stream!Break
<1>4. CASE PeerGone
  BY <1>4 DEF PeerGone, Stream!Next, Stream!Break
<1>5. CASE PostSend_Lock \/ PostSend_Check \/ PostSend_Write
  BY <1>5 DEF PostSend_Lock, PostSend_Check, PostSend_Write
<1>6. CASE \/ handle_write_Error \/ handle_write_Pop \/ handle_write_Check
           \/ handle_write_Front \/ handle_read_Error
  BY <1>6 DEF handle_write_Error, handle_write_Pop, handle_write_Check,
              handle_write_Front, handle_read_Error
<1>7. CASE TransferFail
  BY <1>7 DEF TransferFail
<1>8. CASE UpdateCommanders_Destroy
  <2>1. UNCHANGED <<sent, wire, broken>> /\ fate = "live" /\ fate' = "destroying"
    BY <1>8 DEF UpdateCommanders_Destroy
  <2>2. CASE broken
    BY <2>1, <2>2
  <2>3. CASE ~broken
    BY <2>1, <2>3 DEF Stream!Next, Stream!Break
  <2>4. QED
    BY <2>2, <2>3
<1>9. CASE \/ OnPacket_Logout \/ JSession_Freed
           \/ TransferFreed \/ handle_write_Freed
  BY <1>9 DEF OnPacket_Logout, JSession_Freed, TransferFreed, handle_write_Freed
<1>10. CASE UNCHANGED vars
  BY <1>10 DEF vars
<1>11. QED
  BY <1>1, <1>2, <1>3, <1>4, <1>5, <1>6, <1>7, <1>8, <1>9, <1>10
     DEF Next, Logic, Io, Socket

(* Packets go out once each and in the order of the PostSend calls: the    *)
(* two threads sharing m_sendDataQueue implement OrderedStream's SafeSpec. *)
THEOREM StreamCorrect == Spec => Stream!SafeSpec
<1>1. Init => Stream!Init
  BY DEF Init, Stream!Init
<1>2. SendInv /\ [Next]_vars => [Stream!Next]_Stream!vars
  BY StreamStep
<1>3. QED
  BY <1>1, <1>2, SendInvCorrect, PTL DEF Spec, SafeSpec, Stream!SafeSpec
===============================================================================
