----------------------------- MODULE JSessionRecv -----------------------------
(***************************************************************************)
(* The receiving half of JSession (JNetLib/JSession.cpp).                  *)
(*                                                                         *)
(* The io thread appends what async_read_some brought to                   *)
(* m_packetRecvBuffer; once a tick the logic thread moves those bytes to   *)
(* m_packetRecvProcessBuffer and cuts them into packets.  The atomic flag  *)
(* m_isUsingRecvBuffer guards the shared buffer: the io thread spins for   *)
(* it, the logic thread tries once and otherwise waits for its next tick.  *)
(* handle_read computes the mark it will store BEFORE it has the flag.     *)
(*                                                                         *)
(* Bytes are numbered by their place in the client's stream, so that a     *)
(* buffer's content says which bytes were lost, repeated or reordered; 0   *)
(* stands for a byte nobody sent.  A packet is a size, whether its command *)
(* is one JCommander::ProcessPacket knows and whether that command is      *)
(* LOGOUT.  When the logic thread meets bytes that are not the start of a  *)
(* packet, what it does depends on the bytes it takes for a header:        *)
(* "garbled" records it and the model stops.  memcpy_s aborts the program  *)
(* when the count exceeds the destination: "crashed".                      *)
(*                                                                         *)
(* ProcessPacket checks header->size (JSession.cpp:136) against neither    *)
(* bound.  A packet may be longer than RECV_BUF_SIZE here; that it counts  *)
(* at least its own header is what Packet assumes of the stream, because   *)
(* the loop would never end on a size of 0.                                *)
(***************************************************************************)
EXTENDS Naturals, Sequences, FiniteSets

CONSTANTS
  RecvBufSize,          \* RECV_BUF_SIZE (1024 in the code)
  HeaderSize,           \* sizeof(PACKET_HEADER) (8 in the code)
  Script                \* bound: the streams of packets a client may send

ASSUME RecvBufSizeAssumption == RecvBufSize \in Nat \ {0}
ASSUME HeaderSizeAssumption == HeaderSize \in 1..RecvBufSize

(* A packet in a client's stream: the number of its first byte, its size   *)
(* and its command.                                                        *)
Packet == [first : Nat, size : {n \in Nat : n >= HeaderSize},
           known : BOOLEAN, logout : BOOLEAN]

(* Packets follow each other without a gap.                                *)
ASSUME ScriptAssumption ==
  \A s \in Script :
    /\ s \in Seq(Packet)
    /\ s # <<>> => s[1].first = 1
    /\ \A i, j \in 1..Len(s) : i < j =>
         /\ s[i].first + s[i].size <= s[j].first
         /\ j = i + 1 => s[i].first + s[i].size = s[j].first

VARIABLES
  stream,               \* what the client sends: its packets and where they start
  received,             \* number of bytes read from the socket
  m_isDisconnected,
  removed,              \* UpdateCommanders dropped the commander
  m_isUsingRecvBuffer,  \* the io thread holds the flag
  m_packetRecvBuffer,
  m_packetRecvBufferMark,
  ioPc, bytes_transferred, afterSize,               \* handle_read
  m_packetRecvProcessBuffer,
  m_packetRecvProcessBufferMark,
  logicPc, remainPacketData, readData,              \* ProcessPacket
  processed,            \* history: the packets given to packetProcess
  raced,                \* history: a mark was stored that was out of date
  rejected,             \* history: packetProcess refused a packet
  garbled, crashed

sharedVars  == <<m_isUsingRecvBuffer, m_packetRecvBuffer, m_packetRecvBufferMark>>
ioVars      == <<received, ioPc, bytes_transferred, afterSize, raced>>
processVars == <<m_packetRecvProcessBuffer, m_packetRecvProcessBufferMark>>
parseVars   == <<logicPc, remainPacketData, readData, processed, rejected>>
fateVars    == <<m_isDisconnected, removed, garbled, crashed>>

vars == <<stream, sharedVars, ioVars, processVars, parseVars, fateVars>>

-------------------------------------------------------------------------------
ProcessBufSize == 4 * RecvBufSize       \* RECV_PROCESS_BUF_SIZE

m_packetRecvBufferSize == Len(m_packetRecvBuffer)

Total == IF stream = <<>> THEN 0
         ELSE stream[Len(stream)].first + stream[Len(stream)].size - 1

Byte == Nat

(* A buffer with new bytes copied to it, the first one at offset "at".     *)
Overwrite(buffer, at, bytes) ==
  [i \in 1..Len(buffer) |->
     IF i \in at + 1 .. at + Len(bytes) THEN bytes[i - at] ELSE buffer[i]]

Zeros(n) == [i \in 1..n |-> 0]

(* The bytes a completed async_read_some left in m_receiveBuffer.          *)
m_receiveBuffer ==
  [i \in 1..bytes_transferred |-> received - bytes_transferred + i]

Consecutive(bytes) == \A i \in 1..Len(bytes) : bytes[i] = bytes[1] + i - 1

Up == ~garbled /\ ~crashed /\ ~removed

(* m_isLogout: OnPacket(PKS_CS_LOGOUT) was called.                         *)
IsReadyDie == \E i \in 1..Len(processed) : stream[processed[i]].logout

TypeOK ==
  /\ stream \in Seq(Packet)
  /\ received \in 0..Total
  /\ m_packetRecvBuffer \in Seq(Byte)
  /\ m_packetRecvBufferMark \in Nat
  /\ ioPc \in {"idle", "spin", "store"}
  /\ bytes_transferred \in 0..RecvBufSize
  /\ afterSize \in Nat
  /\ m_isUsingRecvBuffer \in BOOLEAN
  /\ m_packetRecvProcessBuffer \in [1..ProcessBufSize -> Byte]
  /\ m_packetRecvProcessBufferMark \in Nat
  /\ logicPc \in {"idle", "parse"}
  /\ remainPacketData \in Nat
  /\ readData \in Nat
  /\ processed \in Seq(1..Len(stream))
  /\ m_isDisconnected \in BOOLEAN /\ removed \in BOOLEAN
  /\ raced \in BOOLEAN /\ rejected \in BOOLEAN
  /\ garbled \in BOOLEAN /\ crashed \in BOOLEAN

(* How much of the stream is still on its way does not matter: it is what  *)
(* the io thread has not read yet.                                         *)
Init ==
  /\ stream \in Script
  /\ received = 0
  /\ m_isDisconnected = FALSE
  /\ removed = FALSE
  /\ m_isUsingRecvBuffer = FALSE
  /\ m_packetRecvBuffer = Zeros(2 * RecvBufSize)
  /\ m_packetRecvBufferMark = 0
  /\ ioPc = "idle"
  /\ bytes_transferred = 0
  /\ afterSize = 0
  /\ m_packetRecvProcessBuffer = Zeros(ProcessBufSize)
  /\ m_packetRecvProcessBufferMark = 0
  /\ logicPc = "idle"
  /\ remainPacketData = 0
  /\ readData = 0
  /\ processed = <<>>
  /\ raced = FALSE
  /\ rejected = FALSE
  /\ garbled = FALSE
  /\ crashed = FALSE

-------------------------------------------------------------------------------
(* Io thread: handle_read(error, bytes_transferred).                       *)

(* Some bytes arrived: compute the new mark, without the flag.             *)
handle_read_AfterSize ==
  /\ Up
  /\ ioPc = "idle"
  /\ ~m_isDisconnected
  /\ \E n \in 1..RecvBufSize :
       /\ received + n <= Total
       /\ received' = received + n
       /\ bytes_transferred' = n
       /\ afterSize' = m_packetRecvBufferMark + n
  /\ ioPc' = "spin"
  /\ UNCHANGED <<stream, sharedVars, raced, processVars, parseVars, fateVars>>

(* while (m_isUsingRecvBuffer.test_and_set());                             *)
handle_read_Acquire ==
  /\ Up
  /\ ioPc = "spin"
  /\ ~m_isUsingRecvBuffer
  /\ m_isUsingRecvBuffer' = TRUE
  /\ ioPc' = "store"
  /\ UNCHANGED <<stream, m_packetRecvBuffer, m_packetRecvBufferMark, received,
                 bytes_transferred, afterSize, raced, processVars, parseVars,
                 fateVars>>

(* Mutant: the buffer grows fourfold.                                      *)
ResizeBuffer_Fourfold ==
  m_packetRecvBuffer \o Zeros(3 * m_packetRecvBufferSize)

(* ResizeBuffer doubles the buffer and keeps its content.                  *)
ResizeBuffer == m_packetRecvBuffer \o Zeros(m_packetRecvBufferSize)

(* Mutant: the buffer never grows.                                         *)
RoomForRead_Never == m_packetRecvBuffer

RoomForRead ==
  IF afterSize > m_packetRecvBufferSize THEN ResizeBuffer ELSE m_packetRecvBuffer

(* Copy the bytes to the mark as it is now, store the mark computed        *)
(* earlier, release the flag and post the next read.                       *)
handle_read_Store ==
  /\ Up
  /\ ioPc = "store"
  /\ m_packetRecvBuffer' =
       Overwrite(RoomForRead, m_packetRecvBufferMark, m_receiveBuffer)
  /\ m_packetRecvBufferMark' = afterSize
  /\ raced' = (raced \/ afterSize # m_packetRecvBufferMark + bytes_transferred)
  /\ m_isUsingRecvBuffer' = FALSE
  /\ ioPc' = "idle"
  /\ bytes_transferred' = 0
  /\ afterSize' = 0
  /\ UNCHANGED <<stream, received, processVars, parseVars, fateVars>>

(* End of stream, if the client closes: the session is marked and no       *)
(* further read is posted.                                                 *)
handle_read_Error ==
  /\ Up
  /\ ioPc = "idle"
  /\ received = Total
  /\ ~m_isDisconnected
  /\ m_isDisconnected' = TRUE
  /\ UNCHANGED <<stream, sharedVars, ioVars, processVars, parseVars,
                 removed, garbled, crashed>>

-------------------------------------------------------------------------------
(* Logic thread: ProcessPacket(tick, packetProcess), once a tick.  The io  *)
(* thread can only spin while this thread holds the flag, so what it does  *)
(* under the flag is one step.                                             *)

remainBufSize == ProcessBufSize - m_packetRecvProcessBufferMark - 1

(* test_and_set fails: nothing happens until the next tick.                *)
ProcessPacket_FlagTaken ==
  /\ Up
  /\ logicPc = "idle"
  /\ m_isUsingRecvBuffer
  /\ UNCHANGED vars

(* Everything that was received fits behind what is left of last tick.     *)
ProcessPacket_TakeAll ==
  /\ Up
  /\ logicPc = "idle"
  /\ ~m_isUsingRecvBuffer
  /\ remainBufSize >= m_packetRecvBufferMark
  /\ m_packetRecvProcessBuffer' =
       Overwrite(m_packetRecvProcessBuffer, m_packetRecvProcessBufferMark,
                 SubSeq(m_packetRecvBuffer, 1, m_packetRecvBufferMark))
  /\ remainPacketData' = m_packetRecvProcessBufferMark + m_packetRecvBufferMark
  /\ m_packetRecvBufferMark' = 0
  /\ readData' = 0
  /\ logicPc' = "parse"
  /\ UNCHANGED <<stream, m_isUsingRecvBuffer, m_packetRecvBuffer, ioVars,
                 m_packetRecvProcessBufferMark, processed, rejected, fateVars>>

(* memcpy_s to tempBuffer, of RECV_PROCESS_BUF_SIZE bytes.                 *)
BacklogFitsTemp == m_packetRecvBufferSize - remainBufSize <= ProcessBufSize

(* Mutant: the rest of the buffer stays where it is.                       *)
ProcessPacket_TakeSome_NoShift ==
  /\ Up
  /\ logicPc = "idle"
  /\ ~m_isUsingRecvBuffer
  /\ remainBufSize < m_packetRecvBufferMark
  /\ BacklogFitsTemp
  /\ m_packetRecvProcessBuffer' =
       Overwrite(m_packetRecvProcessBuffer, m_packetRecvProcessBufferMark,
                 SubSeq(m_packetRecvBuffer, 1, remainBufSize))
  /\ m_packetRecvBufferMark' = m_packetRecvBufferMark - remainBufSize
  /\ remainPacketData' = m_packetRecvProcessBufferMark + remainBufSize
  /\ readData' = 0
  /\ logicPc' = "parse"
  /\ UNCHANGED <<stream, m_isUsingRecvBuffer, m_packetRecvBuffer, ioVars,
                 m_packetRecvProcessBufferMark, processed, rejected, fateVars>>

(* It does not fit: take what does, move the rest of the buffer down.      *)
ProcessPacket_TakeSome ==
  /\ Up
  /\ logicPc = "idle"
  /\ ~m_isUsingRecvBuffer
  /\ remainBufSize < m_packetRecvBufferMark
  /\ BacklogFitsTemp
  /\ m_packetRecvProcessBuffer' =
       Overwrite(m_packetRecvProcessBuffer, m_packetRecvProcessBufferMark,
                 SubSeq(m_packetRecvBuffer, 1, remainBufSize))
  /\ m_packetRecvBuffer' =
       Overwrite(m_packetRecvBuffer, 0,
                 SubSeq(m_packetRecvBuffer, remainBufSize + 1, m_packetRecvBufferSize))
  /\ m_packetRecvBufferMark' = m_packetRecvBufferMark - remainBufSize
  /\ remainPacketData' = m_packetRecvProcessBufferMark + remainBufSize
  /\ readData' = 0
  /\ logicPc' = "parse"
  /\ UNCHANGED <<stream, m_isUsingRecvBuffer, ioVars,
                 m_packetRecvProcessBufferMark, processed, rejected, fateVars>>

(* The rest of the buffer is larger than tempBuffer: memcpy_s aborts.      *)
ProcessPacket_TakeAborts ==
  /\ Up
  /\ logicPc = "idle"
  /\ ~m_isUsingRecvBuffer
  /\ remainBufSize < m_packetRecvBufferMark
  /\ ~BacklogFitsTemp
  /\ crashed' = TRUE
  /\ UNCHANGED <<stream, sharedVars, ioVars, processVars, parseVars,
                 m_isDisconnected, removed, garbled>>

-------------------------------------------------------------------------------
(* The parsing loop of ProcessPacket.                                      *)

Unparsed(n) == SubSeq(m_packetRecvProcessBuffer, readData + 1, readData + n)

HasHeader == remainPacketData >= HeaderSize

(* The packets whose header the next bytes are: none if they are not one.  *)
HeaderOf ==
  {k \in 1..Len(stream) : /\ stream[k].first = Unparsed(1)[1]
                          /\ Consecutive(Unparsed(HeaderSize))}

(* Mutant: a packet needs one byte more than it has.                       *)
Complete_Strict(k) == stream[k].size < remainPacketData

Complete(k) == stream[k].size <= remainPacketData

Intact(k) == Consecutive(Unparsed(stream[k].size))

(* Mutant: header->size does not count the header.                         *)
ProcessPacket_Packet_BodySize ==
  /\ Up
  /\ logicPc = "parse"
  /\ HasHeader
  /\ \E k \in HeaderOf :
       /\ Complete(k) /\ Intact(k)
       /\ stream[k].known
       /\ processed' = Append(processed, k)
       /\ remainPacketData' = remainPacketData - stream[k].size - HeaderSize
       /\ readData' = readData + stream[k].size + HeaderSize
  /\ UNCHANGED <<stream, sharedVars, ioVars, processVars, logicPc, rejected,
                 fateVars>>

(* packetProcess(tick, header) returned true.                              *)
ProcessPacket_Packet ==
  /\ Up
  /\ logicPc = "parse"
  /\ HasHeader
  /\ \E k \in HeaderOf :
       /\ Complete(k) /\ Intact(k)
       /\ stream[k].known
       /\ processed' = Append(processed, k)
       /\ remainPacketData' = remainPacketData - stream[k].size
       /\ readData' = readData + stream[k].size
  /\ UNCHANGED <<stream, sharedVars, ioVars, processVars, logicPc, rejected,
                 fateVars>>

(* packetProcess returned false (unknown command): return at once, with    *)
(* m_packetRecvProcessBufferMark as it was before this tick.               *)
ProcessPacket_Reject ==
  /\ Up
  /\ logicPc = "parse"
  /\ HasHeader
  /\ \E k \in HeaderOf :
       /\ Complete(k) /\ Intact(k)
       /\ ~stream[k].known
  /\ rejected' = TRUE
  /\ logicPc' = "idle"
  /\ remainPacketData' = 0
  /\ readData' = 0
  /\ UNCHANGED <<stream, sharedVars, ioVars, processVars, processed, fateVars>>

(* The bytes are no header of a packet, or no whole packet follows it.     *)
ProcessPacket_Garbled ==
  /\ Up
  /\ logicPc = "parse"
  /\ HasHeader
  /\ \A k \in HeaderOf : Complete(k) /\ ~Intact(k)
  /\ garbled' = TRUE
  /\ UNCHANGED <<stream, sharedVars, ioVars, processVars, parseVars,
                 m_isDisconnected, removed, crashed>>

(* memcpy_s to tempBuffer, of RECV_BUF_SIZE bytes.                         *)
RestFitsTemp == remainPacketData <= RecvBufSize

(* Mutant: the rest is counted but not moved to the start.                 *)
ProcessPacket_Rest_NoMove ==
  /\ Up
  /\ logicPc = "parse"
  /\ \/ ~HasHeader
     \/ \E k \in HeaderOf : ~Complete(k)
  /\ RestFitsTemp
  /\ m_packetRecvProcessBufferMark' = remainPacketData
  /\ logicPc' = "idle"
  /\ remainPacketData' = 0
  /\ readData' = 0
  /\ UNCHANGED <<stream, sharedVars, ioVars, m_packetRecvProcessBuffer,
                 processed, rejected, fateVars>>

(* No whole packet is left: keep the rest for the next tick.               *)
ProcessPacket_Rest ==
  /\ Up
  /\ logicPc = "parse"
  /\ \/ ~HasHeader
     \/ \E k \in HeaderOf : ~Complete(k)
  /\ RestFitsTemp
  /\ m_packetRecvProcessBuffer' =
       Overwrite(m_packetRecvProcessBuffer, 0, Unparsed(remainPacketData))
  /\ m_packetRecvProcessBufferMark' = remainPacketData
  /\ logicPc' = "idle"
  /\ remainPacketData' = 0
  /\ readData' = 0
  /\ UNCHANGED <<stream, sharedVars, ioVars, processed, rejected, fateVars>>

(* The part of a packet that is left is larger than tempBuffer: memcpy_s   *)
(* aborts.                                                                 *)
ProcessPacket_RestAborts ==
  /\ Up
  /\ logicPc = "parse"
  /\ \/ ~HasHeader
     \/ \E k \in HeaderOf : ~Complete(k)
  /\ ~RestFitsTemp
  /\ crashed' = TRUE
  /\ UNCHANGED <<stream, sharedVars, ioVars, processVars, parseVars,
                 m_isDisconnected, removed, garbled>>

(* UpdateCommanders drops the commander of a session that is disconnected  *)
(* or logged out.                                                          *)
UpdateCommanders_Remove ==
  /\ Up
  /\ logicPc = "idle"
  /\ m_isDisconnected \/ IsReadyDie
  /\ removed' = TRUE
  /\ UNCHANGED <<stream, sharedVars, ioVars, processVars, parseVars,
                 m_isDisconnected, garbled, crashed>>

-------------------------------------------------------------------------------
Io == \/ handle_read_AfterSize
      \/ handle_read_Acquire
      \/ handle_read_Store
      \/ handle_read_Error

ProcessPacket ==
  \/ ProcessPacket_TakeAll
  \/ ProcessPacket_TakeSome
  \/ ProcessPacket_TakeAborts
  \/ ProcessPacket_Packet
  \/ ProcessPacket_Reject
  \/ ProcessPacket_Garbled
  \/ ProcessPacket_Rest
  \/ ProcessPacket_RestAborts

Logic == ProcessPacket_FlagTaken \/ ProcessPacket \/ UpdateCommanders_Remove

Next == Io \/ Logic

(* The io thread finishes a handle_read, and every tick the logic thread   *)
(* calls ProcessPacket and UpdateCommanders.  The client owes nothing.     *)
Spec ==
  /\ Init /\ [][Next]_vars
  /\ WF_vars(handle_read_Acquire \/ handle_read_Store)
  /\ WF_vars(ProcessPacket)
  /\ WF_vars(UpdateCommanders_Remove)
-------------------------------------------------------------------------------
(* No race on the mark and no unknown command so far.                      *)
Regular == ~raced /\ ~rejected

(* The client sends a packet longer than RECV_BUF_SIZE.                    *)
LongPacket == \E i \in 1..Len(stream) : stream[i].size > RecvBufSize

InOrderOnce == \A i \in 1..Len(processed) : processed[i] = i

(* The marks and the copies stay within their buffers.                     *)
BuffersInBounds ==
  /\ m_packetRecvBufferMark <= m_packetRecvBufferSize
  /\ m_packetRecvProcessBufferMark < ProcessBufSize
  /\ readData + remainPacketData < ProcessBufSize
  /\ ioPc = "store" =>
       m_packetRecvBufferMark + bytes_transferred <= Len(RoomForRead)

(* The number of stream bytes given to packetProcess so far.               *)
Consumed ==
  IF processed = <<>> THEN 0
  ELSE LET p == stream[processed[Len(processed)]] IN p.first + p.size - 1

(* What the logic thread kept, what waits in the shared buffer and what    *)
(* handle_read is about to add are together exactly the bytes that were    *)
(* received and not yet processed, in the order of the stream.             *)
Buffered ==
  (IF logicPc = "parse"
     THEN Unparsed(remainPacketData)
     ELSE SubSeq(m_packetRecvProcessBuffer, 1, m_packetRecvProcessBufferMark))
    \o SubSeq(m_packetRecvBuffer, 1, m_packetRecvBufferMark)
    \o m_receiveBuffer

NoByteLost ==
  Regular => Buffered = [i \in 1..(received - Consumed) |-> Consumed + i]

(* Without the race and without unknown commands the client's packets are  *)
(* processed in order, each of them once, and no byte is misread.          *)
FaithfulUnlessRaced == Regular => InOrderOnce /\ ~garbled

(* The program aborts in ProcessPacket only when more bytes arrived since  *)
(* the last tick than the process buffer can hold, or when a packet is     *)
(* longer than RECV_BUF_SIZE.                                              *)
AbortOnlyUnderBacklog ==
  Regular /\ crashed =>
    m_packetRecvBufferMark > ProcessBufSize \/ LongPacket

(* Once all the client sent has arrived, all of it is processed in the end,*)
(* for as long as the session lives and nothing irregular happens.         *)
ArrivedIsProcessed ==
  (received = Total)
    ~> (Len(processed) = Len(stream) \/ ~Regular \/ garbled \/ crashed \/ removed)

(* README.md:6: packets are stored in a buffer as they arrive, and every   *)
(* tick the logic thread reads what was stored and executes it.            *)
StoredIsExecuted == InOrderOnce /\ ~garbled

(* JSession.cpp:105-106: the receive buffer may have grown; then only as   *)
(* much as fits the process buffer is processed this tick.  Asked of       *)
(* clients whose packets are no longer than RECV_BUF_SIZE.                 *)
BacklogIsProcessed == crashed => LongPacket

-------------------------------------------------------------------------------
(* The inductive invariant of the proofs, in parts.                        *)

(* How many bytes the logic thread holds.                                  *)
Kept ==
  IF logicPc = "parse" THEN remainPacketData ELSE m_packetRecvProcessBufferMark

(* The marks fit the buffers.  The mark handle_read is going to store may  *)
(* be out of date; it is never too small, and doubling makes room for it.  *)
MarksFit ==
  /\ m_packetRecvBufferSize >= 2 * RecvBufSize
  /\ m_packetRecvBufferMark <= m_packetRecvBufferSize
  /\ m_packetRecvProcessBufferMark < ProcessBufSize
  /\ readData + remainPacketData < ProcessBufSize
  /\ logicPc = "idle" => readData = 0 /\ remainPacketData = 0
  /\ bytes_transferred <= received
  /\ ioPc = "idle" => bytes_transferred = 0
  /\ ioPc # "idle" =>
       /\ m_packetRecvBufferMark + bytes_transferred <= afterSize
       /\ afterSize <= m_packetRecvBufferSize + bytes_transferred

(* The buffer doubles once while ticks keep up.  When it doubles again it  *)
(* holds more than the process buffer, and the next tick aborts.           *)
GrownIsFull ==
  ~raced =>
    /\ \/ m_packetRecvBufferSize \in {2 * RecvBufSize, ProcessBufSize}
       \/ /\ m_packetRecvBufferSize >= 2 * ProcessBufSize
          /\ m_packetRecvBufferMark > ProcessBufSize
    /\ crashed => m_packetRecvBufferMark > ProcessBufSize \/ LongPacket

(* Every byte received and not yet processed is where it belongs.          *)
BytesInPlace ==
  Regular =>
    /\ received = Consumed + Kept + m_packetRecvBufferMark + bytes_transferred
    /\ \A i \in 1..Kept : m_packetRecvProcessBuffer[readData + i] = Consumed + i
    /\ \A i \in 1..m_packetRecvBufferMark :
         m_packetRecvBuffer[i] = Consumed + Kept + i

RecvInv ==
  /\ TypeOK
  /\ stream \in Script
  /\ MarksFit
  /\ GrownIsFull
  /\ BytesInPlace
  /\ FaithfulUnlessRaced
===============================================================================
