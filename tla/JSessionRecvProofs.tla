--------------------------- MODULE JSessionRecvProofs --------------------------
(***************************************************************************)
(* Theorems about JSessionRecv, for every size of the buffers and every    *)
(* stream of a client.                                                     *)
(***************************************************************************)
EXTENDS JSessionRecv, SequenceTheorems, TLAPS

-------------------------------------------------------------------------------
(* Facts about buffers.                                                    *)

(* A function on 1..n is a sequence of length n.                           *)
LEMMA FunctionIsSeq ==
  ASSUME NEW S, NEW n \in Nat, NEW f \in [1..n -> S]
  PROVE  f \in Seq(S) /\ Len(f) = n
OBVIOUS

LEMMA OverwriteFacts ==
  ASSUME NEW buffer \in Seq(Nat), NEW at \in Nat, NEW bytes \in Seq(Nat)
  PROVE  /\ Overwrite(buffer, at, bytes) \in [1..Len(buffer) -> Nat]
         /\ Overwrite(buffer, at, bytes) \in Seq(Nat)
         /\ Len(Overwrite(buffer, at, bytes)) = Len(buffer)
         /\ \A i \in 1..Len(buffer) : i <= at =>
              Overwrite(buffer, at, bytes)[i] = buffer[i]
         /\ \A i \in 1..Len(bytes) : at + i <= Len(buffer) =>
              Overwrite(buffer, at, bytes)[at + i] = bytes[i]
<1> DEFINE new == Overwrite(buffer, at, bytes)
<1>1. /\ Len(buffer) \in Nat /\ Len(bytes) \in Nat
      /\ \A i \in 1..Len(buffer) : buffer[i] \in Nat
      /\ \A i \in 1..Len(bytes) : bytes[i] \in Nat
  OBVIOUS
<1>2. new = [i \in 1..Len(buffer) |->
               IF i \in at + 1 .. at + Len(bytes) THEN bytes[i - at] ELSE buffer[i]]
  BY DEF Overwrite
<1>3. ASSUME NEW i \in 1..Len(buffer)
      PROVE  new[i] \in Nat
  <2>1. CASE i \in at + 1 .. at + Len(bytes)
    <3>1. i - at \in 1..Len(bytes)
      BY <1>1, <2>1
    <3>2. QED
      BY <1>1, <1>2, <2>1, <3>1
  <2>2. QED
    BY <1>1, <1>2, <2>1
<1>4. new \in [1..Len(buffer) -> Nat]
  BY <1>2, <1>3
<1>5. new \in Seq(Nat) /\ Len(new) = Len(buffer)
  BY <1>1, <1>4, FunctionIsSeq
<1>6. ASSUME NEW i \in 1..Len(buffer), i <= at
      PROVE  new[i] = buffer[i]
  BY <1>1, <1>2, <1>6
<1>7. ASSUME NEW i \in 1..Len(bytes), at + i <= Len(buffer)
      PROVE  new[at + i] = bytes[i]
  <2>1. at + i \in 1..Len(buffer) /\ at + i \in at + 1 .. at + Len(bytes)
    BY <1>1, <1>7
  <2>2. (at + i) - at = i
    BY <1>1
  <2>3. QED
    BY <1>2, <2>1, <2>2
<1>8. QED
  BY <1>4, <1>5, <1>6, <1>7

(* What SubSeq takes from a sequence of numbers.                           *)
LEMMA PartFacts ==
  ASSUME NEW s \in Seq(Nat), NEW m \in Nat \ {0}, NEW n \in Nat, n <= Len(s),
         m <= n + 1
  PROVE  /\ SubSeq(s, m, n) \in Seq(Nat)
         /\ Len(SubSeq(s, m, n)) = n + 1 - m
         /\ \A i \in 1 .. n + 1 - m : SubSeq(s, m, n)[i] = s[m + i - 1]
<1>1. \A i \in m..n : s[i] \in Nat
  OBVIOUS
<1>2. /\ SubSeq(s, m, n) \in Seq(Nat)
      /\ Len(SubSeq(s, m, n)) = IF m <= n THEN n - m + 1 ELSE 0
      /\ \A i \in 1 .. n - m + 1 : SubSeq(s, m, n)[i] = s[m + i - 1]
  BY <1>1, SubSeqProperties
<1>3. n - m + 1 = n + 1 - m
  OBVIOUS
<1>4. QED
  BY <1>2, <1>3

(* The first n numbers of a sequence.                                      *)
LEMMA PrefixFacts ==
  ASSUME NEW s \in Seq(Nat), NEW n \in Nat, n <= Len(s)
  PROVE  /\ SubSeq(s, 1, n) \in Seq(Nat)
         /\ Len(SubSeq(s, 1, n)) = n
         /\ \A i \in 1..n : SubSeq(s, 1, n)[i] = s[i]
<1>1. /\ SubSeq(s, 1, n) \in Seq(Nat)
      /\ Len(SubSeq(s, 1, n)) = n + 1 - 1
      /\ \A i \in 1 .. n + 1 - 1 : SubSeq(s, 1, n)[i] = s[1 + i - 1]
  <2>1. 1 \in Nat \ {0} /\ 1 <= n + 1
    OBVIOUS
  <2>2. QED
    BY <2>1, PartFacts
<1>2. n + 1 - 1 = n /\ \A i \in 1..n : 1 + i - 1 = i
  OBVIOUS
<1>3. QED
  BY <1>1, <1>2

(* ResizeBuffer keeps the content and doubles the size.                    *)
LEMMA ResizeFacts ==
  ASSUME m_packetRecvBuffer \in Seq(Nat)
  PROVE  /\ ResizeBuffer \in Seq(Nat)
         /\ Len(ResizeBuffer) = 2 * Len(m_packetRecvBuffer)
         /\ \A i \in 1..Len(m_packetRecvBuffer) :
              ResizeBuffer[i] = m_packetRecvBuffer[i]
<1> DEFINE zeros == Zeros(m_packetRecvBufferSize)
<1>1. Len(m_packetRecvBuffer) \in Nat
  OBVIOUS
<1>2. zeros \in [1..Len(m_packetRecvBuffer) -> Nat]
  BY DEF Zeros, m_packetRecvBufferSize
<1>3. zeros \in Seq(Nat) /\ Len(zeros) = Len(m_packetRecvBuffer)
  BY <1>1, <1>2, FunctionIsSeq
<1>4. ResizeBuffer = m_packetRecvBuffer \o zeros
  BY DEF ResizeBuffer
<1> HIDE DEF zeros
<1>5. /\ m_packetRecvBuffer \o zeros \in Seq(Nat)
      /\ Len(m_packetRecvBuffer \o zeros) = Len(m_packetRecvBuffer) + Len(zeros)
      /\ \A i \in 1 .. Len(m_packetRecvBuffer) + Len(zeros) :
           (m_packetRecvBuffer \o zeros)[i]
             = IF i <= Len(m_packetRecvBuffer) THEN m_packetRecvBuffer[i]
               ELSE zeros[i - Len(m_packetRecvBuffer)]
  BY <1>3, ConcatProperties
<1>6. \A i \in 1..Len(m_packetRecvBuffer) :
        i \in 1 .. Len(m_packetRecvBuffer) + Len(zeros)
          /\ i <= Len(m_packetRecvBuffer)
  BY <1>1, <1>3
<1>7. QED
  BY <1>1, <1>3, <1>4, <1>5, <1>6

-------------------------------------------------------------------------------
(* What each copy leaves in the buffers.                                   *)

LEMMA Sizes ==
  /\ RecvBufSize \in Nat /\ RecvBufSize >= 1
  /\ HeaderSize \in Nat /\ HeaderSize >= 1 /\ HeaderSize <= RecvBufSize
  /\ ProcessBufSize = 4 * RecvBufSize /\ ProcessBufSize \in Nat
BY RecvBufSizeAssumption, HeaderSizeAssumption DEF ProcessBufSize

(* A packet of the stream.                                                 *)
LEMMA PacketFacts ==
  ASSUME TypeOK, NEW k \in 1..Len(stream)
  PROVE  /\ stream[k].first \in Nat
         /\ stream[k].size \in Nat
         /\ stream[k].size >= HeaderSize
         /\ stream[k].known \in BOOLEAN
<1>1. stream[k] \in Packet
  BY DEF TypeOK
<1>2. QED
  BY <1>1, Sizes DEF Packet

LEMMA TotalIsInt ==
  ASSUME TypeOK PROVE Total \in Int
<1>1. CASE stream = <<>>
  BY <1>1 DEF Total
<1>2. CASE stream # <<>>
  <2>1. Len(stream) \in 1..Len(stream)
    BY <1>2 DEF TypeOK
  <2>2. QED
    BY <1>2, <2>1, PacketFacts DEF Total
<1>3. QED
  BY <1>1, <1>2

(* The process buffer is a sequence, too.                                  *)
LEMMA ProcessBufferFacts ==
  ASSUME TypeOK
  PROVE  /\ m_packetRecvProcessBuffer \in Seq(Nat)
         /\ Len(m_packetRecvProcessBuffer) = ProcessBufSize
BY Sizes, FunctionIsSeq DEF TypeOK, Byte

(* The bytes handle_read stores are the last ones received.                *)
LEMMA ReceivedFacts ==
  ASSUME TypeOK, MarksFit
  PROVE  /\ m_receiveBuffer \in Seq(Nat)
         /\ Len(m_receiveBuffer) = bytes_transferred
         /\ \A i \in 1..bytes_transferred :
              m_receiveBuffer[i] = received - bytes_transferred + i
<1>1. /\ bytes_transferred \in Nat /\ received \in Int
      /\ bytes_transferred <= received
  BY Sizes DEF TypeOK, MarksFit
<1>2. m_receiveBuffer = [i \in 1..bytes_transferred |-> received - bytes_transferred + i]
  BY DEF m_receiveBuffer
<1>3. \A i \in 1..bytes_transferred : received - bytes_transferred + i \in Nat
  BY <1>1
<1>4. m_receiveBuffer \in [1..bytes_transferred -> Nat]
  BY <1>2, <1>3
<1>5. QED
  BY <1>1, <1>2, <1>4, FunctionIsSeq

(* The buffer handle_read stores to has room for what it stores.           *)
LEMMA RoomFacts ==
  ASSUME TypeOK, MarksFit, ioPc = "store"
  PROVE  /\ RoomForRead \in Seq(Nat)
         /\ Len(RoomForRead) \in Nat
         /\ Len(RoomForRead) = IF afterSize > Len(m_packetRecvBuffer)
                               THEN 2 * Len(m_packetRecvBuffer)
                               ELSE Len(m_packetRecvBuffer)
         /\ Len(RoomForRead) >= Len(m_packetRecvBuffer)
         /\ m_packetRecvBufferMark + bytes_transferred <= Len(RoomForRead)
         /\ \A i \in 1..Len(m_packetRecvBuffer) :
              RoomForRead[i] = m_packetRecvBuffer[i]
<1>1. /\ m_packetRecvBuffer \in Seq(Nat) /\ Len(m_packetRecvBuffer) \in Nat
      /\ m_packetRecvBufferMark \in Nat /\ bytes_transferred \in 0..RecvBufSize
      /\ afterSize \in Nat
      /\ m_packetRecvBufferMark <= Len(m_packetRecvBuffer)
      /\ Len(m_packetRecvBuffer) >= 2 * RecvBufSize
      /\ m_packetRecvBufferMark + bytes_transferred <= afterSize
      /\ afterSize <= Len(m_packetRecvBuffer) + bytes_transferred
  BY DEF TypeOK, MarksFit, Byte, m_packetRecvBufferSize
<1>3. /\ RoomForRead \in Seq(Nat)
      /\ Len(RoomForRead) = IF afterSize > Len(m_packetRecvBuffer)
                            THEN 2 * Len(m_packetRecvBuffer)
                            ELSE Len(m_packetRecvBuffer)
      /\ \A i \in 1..Len(m_packetRecvBuffer) :
           RoomForRead[i] = m_packetRecvBuffer[i]
  <2>1. CASE afterSize > Len(m_packetRecvBuffer)
    <3>1. RoomForRead = ResizeBuffer
      BY <2>1 DEF RoomForRead, m_packetRecvBufferSize
    <3>2. QED
      BY <1>1, <2>1, <3>1, ResizeFacts
  <2>2. CASE ~(afterSize > Len(m_packetRecvBuffer))
    <3>1. RoomForRead = m_packetRecvBuffer
      BY <2>2 DEF RoomForRead, m_packetRecvBufferSize
    <3>2. QED
      BY <1>1, <2>2, <3>1
  <2>3. QED
    BY <2>1, <2>2
<1>4. /\ Len(RoomForRead) \in Nat
      /\ Len(RoomForRead) >= Len(m_packetRecvBuffer)
      /\ m_packetRecvBufferMark + bytes_transferred <= Len(RoomForRead)
  BY <1>1, <1>3, Sizes
<1>5. QED
  BY <1>3, <1>4

(* handle_read makes room and copies behind the mark.                      *)
LEMMA StoreShape ==
  ASSUME TypeOK, MarksFit, handle_read_Store
  PROVE  /\ m_packetRecvBuffer' \in Seq(Nat)
         /\ Len(m_packetRecvBuffer') = IF afterSize > Len(m_packetRecvBuffer)
                                       THEN 2 * Len(m_packetRecvBuffer)
                                       ELSE Len(m_packetRecvBuffer)
         /\ m_packetRecvBufferMark + bytes_transferred <= Len(m_packetRecvBuffer')
         /\ \A i \in 1..m_packetRecvBufferMark :
              m_packetRecvBuffer'[i] = m_packetRecvBuffer[i]
         /\ \A i \in 1..bytes_transferred :
              m_packetRecvBuffer'[m_packetRecvBufferMark + i]
                = received - bytes_transferred + i
<1>1. /\ m_packetRecvBuffer \in Seq(Nat) /\ Len(m_packetRecvBuffer) \in Nat
      /\ m_packetRecvBufferMark \in Nat /\ bytes_transferred \in 0..RecvBufSize
      /\ afterSize \in Nat
      /\ m_packetRecvBufferMark <= Len(m_packetRecvBuffer)
      /\ Len(m_packetRecvBuffer) >= 2 * RecvBufSize
      /\ m_packetRecvBufferMark + bytes_transferred <= afterSize
      /\ afterSize <= Len(m_packetRecvBuffer) + bytes_transferred
  BY DEF TypeOK, MarksFit, Byte, m_packetRecvBufferSize, handle_read_Store
<1>2. m_packetRecvBuffer'
        = Overwrite(RoomForRead, m_packetRecvBufferMark, m_receiveBuffer)
  BY DEF handle_read_Store
<1>3. /\ RoomForRead \in Seq(Nat)
      /\ Len(RoomForRead) = IF afterSize > Len(m_packetRecvBuffer)
                            THEN 2 * Len(m_packetRecvBuffer)
                            ELSE Len(m_packetRecvBuffer)
      /\ \A i \in 1..Len(m_packetRecvBuffer) :
           RoomForRead[i] = m_packetRecvBuffer[i]
      /\ Len(RoomForRead) \in Nat
      /\ Len(RoomForRead) >= Len(m_packetRecvBuffer)
      /\ m_packetRecvBufferMark + bytes_transferred <= Len(RoomForRead)
  BY RoomFacts DEF handle_read_Store
<1>5. /\ Overwrite(RoomForRead, m_packetRecvBufferMark, m_receiveBuffer) \in Seq(Nat)
      /\ Len(Overwrite(RoomForRead, m_packetRecvBufferMark, m_receiveBuffer))
           = Len(RoomForRead)
      /\ \A i \in 1..Len(RoomForRead) : i <= m_packetRecvBufferMark =>
           Overwrite(RoomForRead, m_packetRecvBufferMark, m_receiveBuffer)[i]
             = RoomForRead[i]
      /\ \A i \in 1..Len(m_receiveBuffer) :
           m_packetRecvBufferMark + i <= Len(RoomForRead) =>
             Overwrite(RoomForRead, m_packetRecvBufferMark, m_receiveBuffer)
               [m_packetRecvBufferMark + i] = m_receiveBuffer[i]
  BY <1>1, <1>3, ReceivedFacts, OverwriteFacts
<1>6. ASSUME NEW i \in 1..m_packetRecvBufferMark
      PROVE  m_packetRecvBuffer'[i] = m_packetRecvBuffer[i]
  <2>1. i \in 1..Len(m_packetRecvBuffer) /\ i \in 1..Len(RoomForRead)
          /\ i <= m_packetRecvBufferMark
    BY <1>1, <1>3
  <2>2. QED
    BY <1>2, <1>3, <1>5, <2>1
<1>7. ASSUME NEW i \in 1..bytes_transferred
      PROVE  m_packetRecvBuffer'[m_packetRecvBufferMark + i]
               = received - bytes_transferred + i
  <2>1. m_packetRecvBufferMark + i <= Len(RoomForRead)
    BY <1>1, <1>3
  <2>2. QED
    BY <1>2, <1>5, <2>1, ReceivedFacts
<1>8. QED
  BY <1>2, <1>3, <1>5, <1>6, <1>7

(* ProcessPacket appends the first n bytes that were received to those it  *)
(* kept.                                                                   *)
LEMMA TakenFacts ==
  ASSUME TypeOK, MarksFit, NEW n \in Nat, n <= m_packetRecvBufferMark,
         m_packetRecvProcessBufferMark + n < ProcessBufSize,
         NEW new, new = Overwrite(m_packetRecvProcessBuffer,
                                  m_packetRecvProcessBufferMark,
                                  SubSeq(m_packetRecvBuffer, 1, n))
  PROVE  /\ new \in [1..ProcessBufSize -> Nat]
         /\ \A i \in 1..m_packetRecvProcessBufferMark :
              new[i] = m_packetRecvProcessBuffer[i]
         /\ \A i \in 1..n :
              new[m_packetRecvProcessBufferMark + i] = m_packetRecvBuffer[i]
<1> DEFINE part == SubSeq(m_packetRecvBuffer, 1, n)
<1>1. /\ m_packetRecvBuffer \in Seq(Nat) /\ Len(m_packetRecvBuffer) \in Nat
      /\ m_packetRecvBufferMark \in Nat /\ m_packetRecvProcessBufferMark \in Nat
      /\ m_packetRecvBufferMark <= Len(m_packetRecvBuffer)
  BY DEF TypeOK, MarksFit, Byte, m_packetRecvBufferSize
<1>2. /\ part \in Seq(Nat) /\ Len(part) = n
      /\ \A i \in 1..n : part[i] = m_packetRecvBuffer[i]
  BY <1>1, PrefixFacts
<1> HIDE DEF part
<1>3. /\ new \in [1..ProcessBufSize -> Nat]
      /\ \A i \in 1..ProcessBufSize : i <= m_packetRecvProcessBufferMark =>
           new[i] = m_packetRecvProcessBuffer[i]
      /\ \A i \in 1..n : m_packetRecvProcessBufferMark + i <= ProcessBufSize =>
           new[m_packetRecvProcessBufferMark + i] = part[i]
  <2> DEFINE over == Overwrite(m_packetRecvProcessBuffer,
                               m_packetRecvProcessBufferMark, part)
  <2>1. /\ over \in [1..Len(m_packetRecvProcessBuffer) -> Nat]
        /\ \A i \in 1..Len(m_packetRecvProcessBuffer) :
             i <= m_packetRecvProcessBufferMark =>
               over[i] = m_packetRecvProcessBuffer[i]
        /\ \A i \in 1..Len(part) :
             m_packetRecvProcessBufferMark + i <= Len(m_packetRecvProcessBuffer) =>
               over[m_packetRecvProcessBufferMark + i] = part[i]
    BY <1>1, <1>2, ProcessBufferFacts, OverwriteFacts
  <2>2. new = over
    BY DEF part
  <2> HIDE DEF over
  <2>3. QED
    BY <1>2, <2>1, <2>2, ProcessBufferFacts
<1>4. /\ \A i \in 1..m_packetRecvProcessBufferMark :
           i \in 1..ProcessBufSize /\ i <= m_packetRecvProcessBufferMark
      /\ \A i \in 1..n : m_packetRecvProcessBufferMark + i <= ProcessBufSize
  BY <1>1, Sizes
<1>5. QED
  BY <1>2, <1>3, <1>4

(* What does not fit the process buffer moves to the start of the receive  *)
(* buffer.                                                                 *)
LEMMA ShiftFacts ==
  ASSUME TypeOK, MarksFit, NEW n \in Nat, n < m_packetRecvBufferMark,
         NEW new, new = Overwrite(m_packetRecvBuffer, 0,
                          SubSeq(m_packetRecvBuffer, n + 1, m_packetRecvBufferSize))
  PROVE  /\ new \in Seq(Nat)
         /\ Len(new) = Len(m_packetRecvBuffer)
         /\ \A i \in 1 .. m_packetRecvBufferMark - n :
              new[i] = m_packetRecvBuffer[n + i]
<1> DEFINE part == SubSeq(m_packetRecvBuffer, n + 1, Len(m_packetRecvBuffer))
           over == Overwrite(m_packetRecvBuffer, 0, part)
<1>1. /\ m_packetRecvBuffer \in Seq(Nat) /\ Len(m_packetRecvBuffer) \in Nat
      /\ m_packetRecvBufferMark \in Nat
      /\ m_packetRecvBufferMark <= Len(m_packetRecvBuffer)
  BY DEF TypeOK, MarksFit, Byte, m_packetRecvBufferSize
<1>2. new = over
  BY DEF m_packetRecvBufferSize
<1>3. /\ part \in Seq(Nat) /\ Len(part) = Len(m_packetRecvBuffer) - n
      /\ \A i \in 1 .. Len(m_packetRecvBuffer) - n :
           part[i] = m_packetRecvBuffer[n + i]
  <2>1. /\ n + 1 \in Nat \ {0} /\ Len(m_packetRecvBuffer) <= Len(m_packetRecvBuffer)
        /\ n + 1 <= Len(m_packetRecvBuffer) + 1
    BY <1>1
  <2>2. /\ part \in Seq(Nat)
        /\ Len(part) = Len(m_packetRecvBuffer) + 1 - (n + 1)
        /\ \A i \in 1 .. Len(m_packetRecvBuffer) + 1 - (n + 1) :
             part[i] = m_packetRecvBuffer[(n + 1) + i - 1]
    BY <1>1, <2>1, PartFacts
  <2>3. /\ Len(m_packetRecvBuffer) + 1 - (n + 1) = Len(m_packetRecvBuffer) - n
        /\ \A i \in 1 .. Len(m_packetRecvBuffer) - n : (n + 1) + i - 1 = n + i
    BY <1>1
  <2>4. QED
    BY <2>2, <2>3
<1> HIDE DEF part
<1>4. /\ over \in Seq(Nat) /\ Len(over) = Len(m_packetRecvBuffer)
      /\ \A i \in 1..Len(part) : 0 + i <= Len(m_packetRecvBuffer) =>
           over[0 + i] = part[i]
  BY <1>1, <1>3, OverwriteFacts
<1> HIDE DEF over
<1>5. ASSUME NEW i \in 1 .. m_packetRecvBufferMark - n
      PROVE  over[i] = m_packetRecvBuffer[n + i]
  <2>1. /\ i \in 1..Len(part) /\ i \in 1 .. Len(m_packetRecvBuffer) - n
        /\ 0 + i = i /\ i <= Len(m_packetRecvBuffer)
    BY <1>1, <1>3
  <2>2. over[0 + i] = part[i]
    BY <1>4, <2>1
  <2>3. QED
    BY <1>3, <2>1, <2>2
<1>6. QED
  BY <1>2, <1>4, <1>5

(* The next n bytes of those that are not parsed yet.                      *)
LEMMA UnparsedFacts ==
  ASSUME TypeOK, MarksFit, NEW n \in Nat, n <= remainPacketData
  PROVE  /\ Unparsed(n) \in Seq(Nat)
         /\ Len(Unparsed(n)) = n
         /\ \A i \in 1..n : Unparsed(n)[i] = m_packetRecvProcessBuffer[readData + i]
<1>1. /\ readData \in Nat /\ remainPacketData \in Nat
      /\ readData + n <= ProcessBufSize
  BY Sizes DEF TypeOK, MarksFit
<1>2. /\ readData + 1 \in Nat \ {0} /\ readData + n \in Nat
      /\ readData + 1 <= (readData + n) + 1
  BY <1>1
<1>3. /\ Unparsed(n) \in Seq(Nat)
      /\ Len(Unparsed(n)) = (readData + n) + 1 - (readData + 1)
      /\ \A i \in 1 .. (readData + n) + 1 - (readData + 1) :
           Unparsed(n)[i] = m_packetRecvProcessBuffer[(readData + 1) + i - 1]
  <2>1. /\ m_packetRecvProcessBuffer \in Seq(Nat)
        /\ readData + n <= Len(m_packetRecvProcessBuffer)
    BY <1>1, ProcessBufferFacts
  <2>2. Unparsed(n) = SubSeq(m_packetRecvProcessBuffer, readData + 1, readData + n)
    BY DEF Unparsed
  <2>3. QED
    BY <1>2, <2>1, <2>2, PartFacts
<1>4. /\ (readData + n) + 1 - (readData + 1) = n
      /\ \A i \in 1..n : (readData + 1) + i - 1 = readData + i
  BY <1>1
<1>5. QED
  BY <1>3, <1>4

(* What is not parsed moves to the start of the process buffer.            *)
LEMMA RestFacts ==
  ASSUME TypeOK, MarksFit,
         NEW new, new = Overwrite(m_packetRecvProcessBuffer, 0,
                                  Unparsed(remainPacketData))
  PROVE  /\ new \in [1..ProcessBufSize -> Nat]
         /\ \A i \in 1..remainPacketData :
              new[i] = m_packetRecvProcessBuffer[readData + i]
<1> DEFINE part == Unparsed(remainPacketData)
           over == Overwrite(m_packetRecvProcessBuffer, 0, part)
<1>1. /\ remainPacketData \in Nat /\ remainPacketData <= ProcessBufSize
  BY Sizes DEF TypeOK, MarksFit
<1>2. /\ part \in Seq(Nat) /\ Len(part) = remainPacketData
      /\ \A i \in 1..remainPacketData :
           part[i] = m_packetRecvProcessBuffer[readData + i]
  BY <1>1, UnparsedFacts
<1> HIDE DEF part
<1>3. /\ over \in [1..Len(m_packetRecvProcessBuffer) -> Nat]
      /\ \A i \in 1..Len(part) : 0 + i <= Len(m_packetRecvProcessBuffer) =>
           over[0 + i] = part[i]
  BY <1>2, ProcessBufferFacts, OverwriteFacts
<1>4. new = over
  BY DEF part
<1> HIDE DEF over
<1>5. ASSUME NEW i \in 1..remainPacketData
      PROVE  new[i] = m_packetRecvProcessBuffer[readData + i]
  <2>1. i \in 1..Len(part) /\ 0 + i = i /\ i <= Len(m_packetRecvProcessBuffer)
    BY <1>1, <1>2, ProcessBufferFacts, Sizes
  <2>2. over[0 + i] = part[i]
    BY <1>3, <2>1
  <2>3. QED
    BY <1>2, <1>4, <2>1, <2>2
<1>6. QED
  BY <1>3, <1>4, <1>5, ProcessBufferFacts

-------------------------------------------------------------------------------
(* Types and marks.                                                        *)

LEMMA StreamStays ==
  ASSUME [Next]_vars
  PROVE  stream' = stream
BY DEF Next, Io, Logic, ProcessPacket, vars, handle_read_AfterSize,
   handle_read_Acquire, handle_read_Store, handle_read_Error,
   ProcessPacket_FlagTaken, ProcessPacket_TakeAll, ProcessPacket_TakeSome,
   ProcessPacket_TakeAborts, ProcessPacket_Packet, ProcessPacket_Reject,
   ProcessPacket_Garbled, ProcessPacket_Rest, ProcessPacket_RestAborts,
   UpdateCommanders_Remove

LEMMA TypeStep ==
  TypeOK /\ MarksFit /\ [Next]_vars => TypeOK'
<1> SUFFICES ASSUME TypeOK, MarksFit, [Next]_vars PROVE TypeOK'
  OBVIOUS
<1> USE DEF sharedVars, ioVars, processVars, parseVars, fateVars
<1>0. /\ stream' = stream
      /\ Total' = Total
  <2>1. stream' = stream
    BY StreamStays
  <2>2. QED
    BY <2>1 DEF Total
<1>1. CASE handle_read_AfterSize
  <2>1. PICK n \in 1..RecvBufSize :
          /\ received + n <= Total
          /\ received' = received + n
          /\ bytes_transferred' = n
          /\ afterSize' = m_packetRecvBufferMark + n
    BY <1>1 DEF handle_read_AfterSize
  <2>2. received \in 0..Total /\ Total \in Int /\ m_packetRecvBufferMark \in Nat
    BY TotalIsInt DEF TypeOK
  <2>3. /\ received' \in 0..Total' /\ afterSize' \in Nat
        /\ bytes_transferred' \in 0..RecvBufSize
    BY <1>0, <2>1, <2>2, Sizes
  <2>4. QED
    BY <1>0, <1>1, <2>3 DEF TypeOK, handle_read_AfterSize
<1>2. CASE handle_read_Acquire
  <2>1. m_isUsingRecvBuffer' \in BOOLEAN
    BY <1>2 DEF handle_read_Acquire
  <2>2. QED
    BY <1>0, <1>2, <2>1 DEF TypeOK, handle_read_Acquire
<1>3. CASE handle_read_Error
  <2>1. m_isDisconnected' \in BOOLEAN
    BY <1>3 DEF handle_read_Error
  <2>2. QED
    BY <1>0, <1>3, <2>1 DEF TypeOK, handle_read_Error
<1>4. CASE UpdateCommanders_Remove
  <2>1. removed' \in BOOLEAN
    BY <1>4 DEF UpdateCommanders_Remove
  <2>2. QED
    BY <1>0, <1>4, <2>1 DEF TypeOK, UpdateCommanders_Remove
<1>5. CASE ProcessPacket_TakeAborts \/ ProcessPacket_RestAborts
  <2>1. crashed' \in BOOLEAN
    BY <1>5 DEF ProcessPacket_TakeAborts, ProcessPacket_RestAborts
  <2>2. QED
    BY <1>0, <1>5, <2>1
       DEF TypeOK, ProcessPacket_TakeAborts, ProcessPacket_RestAborts
<1>6. CASE ProcessPacket_Garbled
  <2>1. garbled' \in BOOLEAN
    BY <1>6 DEF ProcessPacket_Garbled
  <2>2. QED
    BY <1>0, <1>6, <2>1 DEF TypeOK, ProcessPacket_Garbled
<1>7. CASE ProcessPacket_FlagTaken \/ UNCHANGED vars
  <2>1. UNCHANGED vars
    BY <1>7 DEF ProcessPacket_FlagTaken
  <2>2. QED
    BY <1>0, <2>1 DEF TypeOK, vars
<1>8. CASE handle_read_Store
  <2>1. m_packetRecvBuffer' \in Seq(Byte)
    BY <1>8, StoreShape DEF Byte
  <2>2. raced' \in BOOLEAN
    BY <1>8 DEF handle_read_Store, TypeOK
  <2>3. 0 \in 0..RecvBufSize /\ 0 \in Nat
    BY Sizes
  <2>4. QED
    BY <1>0, <1>8, <2>1, <2>2, <2>3 DEF TypeOK, handle_read_Store
<1>9. CASE ProcessPacket_TakeAll
  <2>1. /\ m_packetRecvBufferMark \in Nat /\ m_packetRecvProcessBufferMark \in Nat
        /\ m_packetRecvProcessBufferMark + m_packetRecvBufferMark < ProcessBufSize
    BY <1>9, Sizes DEF ProcessPacket_TakeAll, remainBufSize, TypeOK
  <2>2. m_packetRecvProcessBuffer' \in [1..ProcessBufSize -> Byte]
    BY <1>9, <2>1, TakenFacts DEF ProcessPacket_TakeAll, Byte
  <2>3. remainPacketData' \in Nat
    BY <1>9, <2>1 DEF ProcessPacket_TakeAll
  <2>4. QED
    BY <1>0, <1>9, <2>2, <2>3 DEF TypeOK, ProcessPacket_TakeAll
<1>10. CASE ProcessPacket_TakeSome
  <2>1. /\ m_packetRecvBufferMark \in Nat /\ m_packetRecvProcessBufferMark \in Nat
        /\ remainBufSize \in Nat /\ remainBufSize < m_packetRecvBufferMark
        /\ m_packetRecvProcessBufferMark + remainBufSize < ProcessBufSize
    BY <1>10, Sizes DEF ProcessPacket_TakeSome, remainBufSize, TypeOK, MarksFit
  <2>2. m_packetRecvProcessBuffer' \in [1..ProcessBufSize -> Byte]
    BY <1>10, <2>1, TakenFacts DEF ProcessPacket_TakeSome, Byte
  <2>3. m_packetRecvBuffer' \in Seq(Byte)
    BY <1>10, <2>1, ShiftFacts DEF ProcessPacket_TakeSome, Byte
  <2>4. remainPacketData' \in Nat /\ m_packetRecvBufferMark' \in Nat
    BY <1>10, <2>1 DEF ProcessPacket_TakeSome
  <2>5. QED
    BY <1>0, <1>10, <2>2, <2>3, <2>4 DEF TypeOK, ProcessPacket_TakeSome
<1>11. CASE ProcessPacket_Packet
  <2>1. PICK k \in HeaderOf :
          /\ Complete(k)
          /\ processed' = Append(processed, k)
          /\ remainPacketData' = remainPacketData - stream[k].size
          /\ readData' = readData + stream[k].size
    BY <1>11 DEF ProcessPacket_Packet
  <2>2. k \in 1..Len(stream)
    BY DEF HeaderOf
  <2>3. processed' \in Seq(1..Len(stream))
    BY <2>1, <2>2 DEF TypeOK
  <2>4. remainPacketData' \in Nat /\ readData' \in Nat
    <3>1. stream[k].size \in Nat
      BY <2>2, PacketFacts
    <3>2. stream[k].size <= remainPacketData
      BY <2>1 DEF Complete
    <3>3. remainPacketData \in Nat /\ readData \in Nat
      BY DEF TypeOK
    <3>4. QED
      BY <2>1, <3>1, <3>2, <3>3
  <2>5. QED
    BY <1>0, <1>11, <2>3, <2>4 DEF TypeOK, ProcessPacket_Packet
<1>12. CASE ProcessPacket_Reject
  BY <1>0, <1>12 DEF TypeOK, ProcessPacket_Reject
<1>13. CASE ProcessPacket_Rest
  <2>1. m_packetRecvProcessBuffer' \in [1..ProcessBufSize -> Byte]
    BY <1>13, RestFacts DEF ProcessPacket_Rest, Byte
  <2>2. QED
    BY <1>0, <1>13, <2>1 DEF TypeOK, ProcessPacket_Rest
<1>14. QED
  BY <1>1, <1>2, <1>3, <1>4, <1>5, <1>6, <1>7, <1>8, <1>9, <1>10, <1>11,
     <1>12, <1>13 DEF Next, Io, Logic, ProcessPacket

LEMMA MarksStep ==
  TypeOK /\ MarksFit /\ [Next]_vars => MarksFit'
<1> SUFFICES ASSUME TypeOK, MarksFit, [Next]_vars PROVE MarksFit'
  OBVIOUS
<1> USE DEF sharedVars, ioVars, processVars, parseVars, m_packetRecvBufferSize
<1>0. /\ m_packetRecvBufferMark \in Nat /\ m_packetRecvProcessBufferMark \in Nat
      /\ Len(m_packetRecvBuffer) \in Nat
      /\ bytes_transferred \in Nat /\ bytes_transferred <= RecvBufSize
      /\ afterSize \in Nat /\ received \in Int
      /\ remainPacketData \in Nat /\ readData \in Nat
  BY Sizes DEF TypeOK, Byte
<1>1. CASE handle_read_AfterSize
  <2>1. PICK n \in 1..RecvBufSize :
          /\ received' = received + n
          /\ bytes_transferred' = n
          /\ afterSize' = m_packetRecvBufferMark + n
    BY <1>1 DEF handle_read_AfterSize
  <2>2. ioPc' = "spin" /\ ioPc = "idle" /\ n \in Nat
    BY <1>1, Sizes DEF handle_read_AfterSize
  <2>3. QED
    BY <1>0, <1>1, <2>1, <2>2 DEF MarksFit, handle_read_AfterSize
<1>2. CASE handle_read_Acquire
  BY <1>2 DEF MarksFit, handle_read_Acquire
<1>3. CASE handle_read_Store
  <2>0. /\ Len(m_packetRecvBuffer) >= 2 * RecvBufSize
        /\ afterSize <= Len(m_packetRecvBuffer) + bytes_transferred
    BY <1>3 DEF MarksFit, handle_read_Store
  <2>1. /\ Len(m_packetRecvBuffer') >= Len(m_packetRecvBuffer)
        /\ afterSize <= Len(m_packetRecvBuffer')
    <3>1. Len(m_packetRecvBuffer') = IF afterSize > Len(m_packetRecvBuffer)
                                     THEN 2 * Len(m_packetRecvBuffer)
                                     ELSE Len(m_packetRecvBuffer)
      BY <1>3, StoreShape
    <3>2. QED
      BY <1>0, <2>0, <3>1, Sizes
  <2>2. Len(m_packetRecvBuffer') \in Nat
    BY <1>3, StoreShape
  <2>3. QED
    BY <1>0, <1>3, <2>1, <2>2, Sizes DEF MarksFit, handle_read_Store
<1>4. CASE handle_read_Error \/ UpdateCommanders_Remove
           \/ ProcessPacket_FlagTaken \/ ProcessPacket_TakeAborts
           \/ ProcessPacket_Garbled \/ ProcessPacket_RestAborts
           \/ UNCHANGED vars
  BY <1>4 DEF MarksFit, vars, handle_read_Error, UpdateCommanders_Remove,
     ProcessPacket_FlagTaken, ProcessPacket_TakeAborts, ProcessPacket_Garbled,
     ProcessPacket_RestAborts
<1>5. CASE ProcessPacket_TakeAll
  BY <1>0, <1>5, Sizes DEF MarksFit, ProcessPacket_TakeAll, remainBufSize
<1>6. CASE ProcessPacket_TakeSome
  <2>1. /\ remainBufSize \in Nat /\ remainBufSize < m_packetRecvBufferMark
        /\ m_packetRecvProcessBufferMark + remainBufSize < ProcessBufSize
    BY <1>0, <1>6, Sizes DEF ProcessPacket_TakeSome, remainBufSize, MarksFit
  <2>2. Len(m_packetRecvBuffer') = Len(m_packetRecvBuffer)
    BY <1>6, <2>1, ShiftFacts DEF ProcessPacket_TakeSome
  <2>3. QED
    BY <1>0, <1>6, <2>1, <2>2 DEF MarksFit, ProcessPacket_TakeSome
<1>7. CASE ProcessPacket_Packet
  <2>1. PICK k \in HeaderOf :
          /\ Complete(k)
          /\ remainPacketData' = remainPacketData - stream[k].size
          /\ readData' = readData + stream[k].size
    BY <1>7 DEF ProcessPacket_Packet
  <2>2. stream[k].size \in Nat
    BY PacketFacts DEF HeaderOf
  <2>3. readData' + remainPacketData' = readData + remainPacketData
    BY <1>0, <2>1, <2>2
  <2>4. QED
    BY <1>7, <2>3 DEF MarksFit, ProcessPacket_Packet
<1>8. CASE ProcessPacket_Reject
  BY <1>8, Sizes DEF MarksFit, ProcessPacket_Reject
<1>9. CASE ProcessPacket_Rest
  BY <1>0, <1>9, Sizes DEF MarksFit, ProcessPacket_Rest
<1>10. QED
  BY <1>1, <1>2, <1>3, <1>4, <1>5, <1>6, <1>7, <1>8, <1>9
     DEF Next, Io, Logic, ProcessPacket

(* A buffer that doubled twice has more in it than a tick can take.        *)
LEMMA GrownStep ==
  TypeOK /\ MarksFit /\ GrownIsFull /\ [Next]_vars => GrownIsFull'
<1> SUFFICES ASSUME TypeOK, MarksFit, GrownIsFull, [Next]_vars, ~raced'
             PROVE  /\ \/ Len(m_packetRecvBuffer') \in {2 * RecvBufSize, ProcessBufSize}
                       \/ /\ Len(m_packetRecvBuffer') >= 2 * ProcessBufSize
                          /\ m_packetRecvBufferMark' > ProcessBufSize
                    /\ crashed' => \/ m_packetRecvBufferMark' > ProcessBufSize
                                   \/ LongPacket'
  BY DEF GrownIsFull, m_packetRecvBufferSize
<1> USE DEF sharedVars, ioVars, processVars, parseVars, fateVars,
            m_packetRecvBufferSize
<1>0. /\ m_packetRecvBufferMark \in Nat /\ m_packetRecvProcessBufferMark \in Nat
      /\ Len(m_packetRecvBuffer) \in Nat
      /\ bytes_transferred \in Nat /\ afterSize \in Nat
      /\ m_packetRecvProcessBufferMark < ProcessBufSize
  BY Sizes DEF TypeOK, MarksFit, Byte
<1>long. LongPacket' = LongPacket
  BY StreamStays DEF LongPacket
<1>1. CASE handle_read_Store
  <2>1. /\ ~raced /\ afterSize = m_packetRecvBufferMark + bytes_transferred
        /\ ~crashed /\ ~crashed' /\ m_packetRecvBufferMark' = afterSize
    BY <1>1 DEF handle_read_Store, Up
  <2>2. Len(m_packetRecvBuffer') = IF afterSize > Len(m_packetRecvBuffer)
                                   THEN 2 * Len(m_packetRecvBuffer)
                                   ELSE Len(m_packetRecvBuffer)
    BY <1>1, StoreShape
  <2>3. QED
    BY <1>0, <2>1, <2>2, Sizes DEF GrownIsFull
<1>2. CASE ProcessPacket_TakeAll
  <2>1. /\ ~raced /\ ~crashed'
        /\ m_packetRecvBuffer' = m_packetRecvBuffer
        /\ ~(m_packetRecvBufferMark > ProcessBufSize)
    BY <1>0, <1>2, Sizes DEF ProcessPacket_TakeAll, remainBufSize, Up
  <2>2. QED
    BY <2>1 DEF GrownIsFull
<1>3. CASE ProcessPacket_TakeSome
  <2>1. /\ ~raced /\ ~crashed' /\ remainBufSize \in Nat
        /\ remainBufSize < m_packetRecvBufferMark
        /\ Len(m_packetRecvBuffer) - remainBufSize <= ProcessBufSize
        /\ remainBufSize < ProcessBufSize
    BY <1>0, <1>3, Sizes
       DEF ProcessPacket_TakeSome, BacklogFitsTemp, remainBufSize, Up
  <2>2. Len(m_packetRecvBuffer') = Len(m_packetRecvBuffer)
    BY <1>3, <2>1, ShiftFacts DEF ProcessPacket_TakeSome
  <2>3. ~(Len(m_packetRecvBuffer) >= 2 * ProcessBufSize)
    BY <1>0, <2>1, Sizes
  <2>4. QED
    BY <2>1, <2>2, <2>3 DEF GrownIsFull
<1>4. CASE ProcessPacket_TakeAborts
  <2>1. /\ ~raced /\ remainBufSize \in Nat
        /\ Len(m_packetRecvBuffer) - remainBufSize > ProcessBufSize
    BY <1>0, <1>4, Sizes DEF ProcessPacket_TakeAborts, BacklogFitsTemp, remainBufSize
  <2>2. Len(m_packetRecvBuffer) \notin {2 * RecvBufSize, ProcessBufSize}
    BY <1>0, <2>1, Sizes
  <2>3. QED
    BY <1>4, <2>1, <2>2 DEF GrownIsFull, ProcessPacket_TakeAborts
<1>5. CASE UNCHANGED <<m_packetRecvBuffer, m_packetRecvBufferMark, raced, crashed>>
  BY <1>5, <1>long DEF GrownIsFull
<1>6. CASE ProcessPacket_RestAborts
  <2>1. /\ remainPacketData > RecvBufSize
        /\ ~HasHeader \/ \E k \in HeaderOf : ~Complete(k)
        /\ UNCHANGED <<m_packetRecvBuffer, m_packetRecvBufferMark, raced>>
        /\ remainPacketData \in Nat
    BY <1>6, Sizes DEF ProcessPacket_RestAborts, RestFitsTemp, TypeOK
  <2>2. HasHeader
    BY <2>1, Sizes DEF HasHeader
  <2>3. PICK k \in 1..Len(stream) : ~(stream[k].size <= remainPacketData)
    BY <2>1, <2>2 DEF HeaderOf, Complete
  <2>4. stream[k].size > RecvBufSize
    BY <2>1, <2>3, PacketFacts, Sizes
  <2>5. LongPacket
    BY <2>4 DEF LongPacket
  <2>6. QED
    BY <2>1, <2>5, <1>long DEF GrownIsFull
<1>7. QED
  BY <1>1, <1>2, <1>3, <1>4, <1>5, <1>6
     DEF Next, Io, Logic, ProcessPacket, vars, handle_read_AfterSize,
         handle_read_Acquire, handle_read_Error, UpdateCommanders_Remove,
         ProcessPacket_FlagTaken, ProcessPacket_Packet, ProcessPacket_Reject,
         ProcessPacket_Garbled, ProcessPacket_Rest

-------------------------------------------------------------------------------
(* Every byte stays in its place.                                          *)

LEMMA ConsumedFacts ==
  ASSUME TypeOK
  PROVE  Consumed \in Nat
<1>1. CASE processed = <<>>
  BY <1>1 DEF Consumed
<1>2. CASE processed # <<>>
  <2>1. processed[Len(processed)] \in 1..Len(stream)
    BY <1>2 DEF TypeOK
  <2>2. /\ stream[processed[Len(processed)]].first \in Nat
        /\ stream[processed[Len(processed)]].size \in Nat
        /\ stream[processed[Len(processed)]].size >= 1
    BY <2>1, PacketFacts, Sizes
  <2>3. QED
    BY <1>2, <2>2 DEF Consumed
<1>3. QED
  BY <1>1, <1>2

(* The numbers the invariant speaks of.                                    *)
LEMMA Numbers ==
  ASSUME TypeOK, MarksFit
  PROVE  /\ m_packetRecvBufferMark \in Nat /\ m_packetRecvProcessBufferMark \in Nat
         /\ bytes_transferred \in Nat /\ afterSize \in Nat
         /\ received \in Nat /\ remainPacketData \in Nat /\ readData \in Nat
         /\ Kept \in Nat /\ Consumed \in Nat
<1>1. received \in Nat
  BY TotalIsInt DEF TypeOK
<1>2. Consumed \in Nat
  BY ConsumedFacts
<1>3. QED
  BY <1>1, <1>2, Sizes DEF TypeOK, Kept

(* The next packet starts with the first byte that is not processed.       *)
LEMMA NextPacket ==
  ASSUME TypeOK, MarksFit, BytesInPlace, Regular, logicPc = "parse", HasHeader,
         NEW k \in HeaderOf
  PROVE  /\ k \in 1..Len(stream)
         /\ stream[k].first = Consumed + 1
         /\ stream[k].size \in Nat /\ stream[k].size >= 1
<1>1. /\ k \in 1..Len(stream)
      /\ stream[k].first = Unparsed(1)[1]
  BY DEF HeaderOf
<1>2. 1 <= remainPacketData /\ 1 \in 1..remainPacketData
  BY Numbers, Sizes DEF HasHeader
<1>3. Unparsed(1)[1] = m_packetRecvProcessBuffer[readData + 1]
  BY <1>2, UnparsedFacts
<1>4. m_packetRecvProcessBuffer[readData + 1] = Consumed + 1
  BY <1>2 DEF BytesInPlace, Kept
<1>5. QED
  BY <1>1, <1>3, <1>4, PacketFacts, Sizes

(* What was irregular stays so.                                            *)
LEMMA RegularStep ==
  ASSUME [Next]_vars, Regular'
  PROVE  stream' = stream /\ Regular
<1> USE DEF sharedVars, ioVars, processVars, parseVars, fateVars
<1>1. CASE handle_read_Store
  BY <1>1 DEF handle_read_Store, Regular
<1>2. CASE ProcessPacket_Reject
  BY <1>2 DEF ProcessPacket_Reject, Regular
<1>3. CASE ~handle_read_Store /\ ~ProcessPacket_Reject
  <2>1. UNCHANGED <<stream, raced, rejected>>
    BY <1>3 DEF Next, Io, Logic, ProcessPacket, vars, handle_read_AfterSize,
       handle_read_Acquire, handle_read_Error, ProcessPacket_FlagTaken,
       ProcessPacket_TakeAll, ProcessPacket_TakeSome,
       ProcessPacket_TakeAborts, ProcessPacket_Packet, ProcessPacket_Garbled,
       ProcessPacket_Rest, ProcessPacket_RestAborts, UpdateCommanders_Remove
  <2>2. QED
    BY <2>1 DEF Regular
<1>4. QED
  BY <1>1, <1>2, <1>3

LEMMA BytesStep ==
  TypeOK /\ MarksFit /\ BytesInPlace /\ [Next]_vars => BytesInPlace'
<1> SUFFICES ASSUME TypeOK, MarksFit, BytesInPlace, [Next]_vars, Regular'
             PROVE  /\ received' = Consumed' + Kept' + m_packetRecvBufferMark'
                                      + bytes_transferred'
                    /\ \A i \in 1..Kept' :
                         m_packetRecvProcessBuffer'[readData' + i] = Consumed' + i
                    /\ \A i \in 1..m_packetRecvBufferMark' :
                         m_packetRecvBuffer'[i] = Consumed' + Kept' + i
  BY DEF BytesInPlace
<1> USE DEF sharedVars, ioVars, processVars, parseVars, fateVars
<1>0. stream' = stream /\ Regular
  BY RegularStep
<1>1. /\ received = Consumed + Kept + m_packetRecvBufferMark + bytes_transferred
      /\ \A i \in 1..Kept : m_packetRecvProcessBuffer[readData + i] = Consumed + i
      /\ \A i \in 1..m_packetRecvBufferMark :
           m_packetRecvBuffer[i] = Consumed + Kept + i
  BY <1>0 DEF BytesInPlace
<1>2. ASSUME processed' = processed PROVE Consumed' = Consumed
  BY <1>0, <1>2 DEF Consumed
<1>3. CASE UNCHANGED <<received, bytes_transferred, m_packetRecvBuffer,
                       m_packetRecvBufferMark, m_packetRecvProcessBuffer,
                       m_packetRecvProcessBufferMark, logicPc, remainPacketData,
                       readData, processed>>
  <2>1. Kept' = Kept
    BY <1>3 DEF Kept
  <2>2. QED
    BY <1>1, <1>2, <1>3, <2>1
<1>4. CASE handle_read_AfterSize
  <2>1. PICK n \in 1..RecvBufSize :
          received' = received + n /\ bytes_transferred' = n
    BY <1>4 DEF handle_read_AfterSize
  <2>2. bytes_transferred = 0 /\ n \in Nat
    BY <1>4, Sizes DEF handle_read_AfterSize, MarksFit
  <2>3. /\ Kept' = Kept /\ Consumed' = Consumed
        /\ UNCHANGED <<m_packetRecvBuffer, m_packetRecvBufferMark,
                       m_packetRecvProcessBuffer, readData>>
    BY <1>2, <1>4 DEF handle_read_AfterSize, Kept
  <2>4. QED
    BY <1>1, <2>1, <2>2, <2>3, Numbers
<1>5. CASE handle_read_Store
  <2>1. /\ m_packetRecvBufferMark' = m_packetRecvBufferMark + bytes_transferred
        /\ received' = received /\ bytes_transferred' = 0
        /\ UNCHANGED <<m_packetRecvProcessBuffer, readData>>
    BY <1>5 DEF handle_read_Store, Regular
  <2>2. Kept' = Kept /\ Consumed' = Consumed
    BY <1>2, <1>5 DEF handle_read_Store, Kept
  <2>3. ASSUME NEW i \in 1..m_packetRecvBufferMark'
        PROVE  m_packetRecvBuffer'[i] = Consumed + Kept + i
    <3>1. CASE i <= m_packetRecvBufferMark
      <4>1. i \in 1..m_packetRecvBufferMark
        BY <3>1, Numbers
      <4>2. QED
        BY <1>1, <1>5, <4>1, StoreShape
    <3>2. CASE ~(i <= m_packetRecvBufferMark)
      <4>1. /\ i - m_packetRecvBufferMark \in 1..bytes_transferred
            /\ m_packetRecvBufferMark + (i - m_packetRecvBufferMark) = i
        BY <2>1, <3>2, Numbers
      <4>2. m_packetRecvBuffer'[m_packetRecvBufferMark + (i - m_packetRecvBufferMark)]
              = received - bytes_transferred + (i - m_packetRecvBufferMark)
        BY <1>5, <4>1, StoreShape
      <4>3. received - bytes_transferred + (i - m_packetRecvBufferMark)
              = Consumed + Kept + i
        BY <1>1, <2>1, Numbers
      <4>4. QED
        BY <4>1, <4>2, <4>3
    <3>3. QED
      BY <3>1, <3>2
  <2>4. received' = Consumed' + Kept' + m_packetRecvBufferMark' + bytes_transferred'
    BY <1>1, <2>1, <2>2, Numbers
  <2>5. QED
    BY <1>1, <2>1, <2>2, <2>3, <2>4
<1>6. ASSUME NEW n \in Nat, n <= m_packetRecvBufferMark,
             m_packetRecvProcessBufferMark + n < ProcessBufSize,
             logicPc = "idle",
             m_packetRecvProcessBuffer'
               = Overwrite(m_packetRecvProcessBuffer, m_packetRecvProcessBufferMark,
                           SubSeq(m_packetRecvBuffer, 1, n)),
             logicPc' = "parse", readData' = 0,
             remainPacketData' = m_packetRecvProcessBufferMark + n,
             m_packetRecvBufferMark' = m_packetRecvBufferMark - n,
             UNCHANGED <<received, bytes_transferred, processed>>,
             \A i \in 1 .. m_packetRecvBufferMark - n :
               m_packetRecvBuffer'[i] = m_packetRecvBuffer[n + i]
      PROVE  /\ received' = Consumed' + Kept' + m_packetRecvBufferMark'
                                + bytes_transferred'
             /\ \A i \in 1..Kept' :
                  m_packetRecvProcessBuffer'[readData' + i] = Consumed' + i
             /\ \A i \in 1..m_packetRecvBufferMark' :
                  m_packetRecvBuffer'[i] = Consumed' + Kept' + i
  <2>1. /\ Kept = m_packetRecvProcessBufferMark /\ readData = 0
        /\ Kept' = m_packetRecvProcessBufferMark + n /\ Consumed' = Consumed
    BY <1>2, <1>6 DEF Kept, MarksFit
  <2>2. /\ \A i \in 1..m_packetRecvProcessBufferMark :
             m_packetRecvProcessBuffer'[i] = m_packetRecvProcessBuffer[i]
        /\ \A i \in 1..n :
             m_packetRecvProcessBuffer'[m_packetRecvProcessBufferMark + i]
               = m_packetRecvBuffer[i]
    BY <1>6, TakenFacts
  <2>3. ASSUME NEW i \in 1..Kept'
        PROVE  m_packetRecvProcessBuffer'[readData' + i] = Consumed' + i
    <3>0. readData' + i = i
      BY <1>6, <2>1, Numbers
    <3>1. CASE i <= m_packetRecvProcessBufferMark
      <4>1. i \in 1..m_packetRecvProcessBufferMark /\ 0 + i = i
        BY <2>1, <3>1, Numbers
      <4>2. m_packetRecvProcessBuffer[0 + i] = Consumed + i
        BY <1>1, <2>1, <4>1
      <4>3. QED
        BY <2>1, <2>2, <3>0, <4>1, <4>2
    <3>2. CASE ~(i <= m_packetRecvProcessBufferMark)
      <4> DEFINE j == i - m_packetRecvProcessBufferMark
      <4>1. /\ j \in 1..n /\ m_packetRecvProcessBufferMark + j = i
            /\ j \in 1..m_packetRecvBufferMark
        BY <1>6, <2>1, <3>2, Numbers
      <4>2. /\ m_packetRecvBuffer[j] = Consumed + Kept + j
            /\ Consumed + Kept + j = Consumed + i
        BY <1>1, <2>1, <3>2, <4>1, Numbers
      <4> HIDE DEF j
      <4>3. m_packetRecvProcessBuffer'[m_packetRecvProcessBufferMark + j]
              = m_packetRecvBuffer[j]
        BY <2>2, <4>1
      <4>4. QED
        BY <2>1, <3>0, <4>1, <4>2, <4>3
    <3>3. QED
      BY <3>1, <3>2
  <2>4. ASSUME NEW i \in 1..m_packetRecvBufferMark'
        PROVE  m_packetRecvBuffer'[i] = Consumed' + Kept' + i
    <3>1. /\ i \in 1 .. m_packetRecvBufferMark - n
          /\ n + i \in 1..m_packetRecvBufferMark
      BY <1>6, Numbers
    <3>2. m_packetRecvBuffer[n + i] = Consumed + Kept + (n + i)
      BY <1>1, <3>1
    <3>3. QED
      BY <1>6, <2>1, <3>1, <3>2, Numbers
  <2>5. received' = Consumed' + Kept' + m_packetRecvBufferMark' + bytes_transferred'
    BY <1>1, <1>6, <2>1, Numbers
  <2>6. QED
    BY <2>3, <2>4, <2>5
<1>7. CASE ProcessPacket_TakeAll
  <2> DEFINE n == m_packetRecvBufferMark
  <2>1. /\ n \in Nat /\ n <= m_packetRecvBufferMark
        /\ m_packetRecvProcessBufferMark + n < ProcessBufSize
        /\ 0 = m_packetRecvBufferMark - n
        /\ ~\E i \in 1..(m_packetRecvBufferMark - n) : TRUE
    BY <1>7, Numbers, Sizes DEF ProcessPacket_TakeAll, remainBufSize
  <2>2. QED
    BY <1>6, <1>7, <2>1 DEF ProcessPacket_TakeAll
<1>8. CASE ProcessPacket_TakeSome
  <2> DEFINE n == remainBufSize
  <2>1. /\ n \in Nat /\ n < m_packetRecvBufferMark /\ n <= m_packetRecvBufferMark
        /\ m_packetRecvProcessBufferMark + n < ProcessBufSize
    BY <1>8, Numbers, Sizes DEF ProcessPacket_TakeSome, remainBufSize, MarksFit
  <2>2. \A i \in 1 .. m_packetRecvBufferMark - n :
          m_packetRecvBuffer'[i] = m_packetRecvBuffer[n + i]
    BY <1>8, <2>1, ShiftFacts DEF ProcessPacket_TakeSome
  <2>3. QED
    BY <1>6, <1>8, <2>1, <2>2 DEF ProcessPacket_TakeSome
<1>9. CASE ProcessPacket_Packet
  <2>1. PICK k \in HeaderOf :
          /\ Complete(k)
          /\ processed' = Append(processed, k)
          /\ remainPacketData' = remainPacketData - stream[k].size
          /\ readData' = readData + stream[k].size
    BY <1>9 DEF ProcessPacket_Packet
  <2>2. /\ logicPc = "parse" /\ HasHeader /\ logicPc' = "parse"
        /\ UNCHANGED <<received, bytes_transferred, m_packetRecvBuffer,
                       m_packetRecvBufferMark, m_packetRecvProcessBuffer>>
    BY <1>9 DEF ProcessPacket_Packet
  <2>3. /\ k \in 1..Len(stream)
        /\ stream[k].first = Consumed + 1
        /\ stream[k].size \in Nat
        /\ stream[k].size <= remainPacketData
    BY <1>0, <2>1, <2>2, NextPacket DEF Complete
  <2>4. PICK size \in Nat : size = stream[k].size
    BY <2>3
  <2>5. Consumed' = Consumed + size
    <3>1. /\ processed \in Seq(1..Len(stream))
          /\ processed' = Append(processed, k)
      BY <2>1 DEF TypeOK
    <3>2. processed' # <<>> /\ processed'[Len(processed')] = k
      BY <2>3, <3>1
    <3>3. Consumed' = stream[k].first + size - 1
      BY <1>0, <2>4, <3>2 DEF Consumed
    <3>4. QED
      BY <2>3, <3>3, Numbers
  <2>6. /\ Kept = remainPacketData
        /\ Kept' = remainPacketData - size
        /\ readData' = readData + size
    BY <2>1, <2>2, <2>4 DEF Kept
  <2>7. Consumed' + Kept' = Consumed + Kept
    <3>1. Consumed \in Nat /\ Kept \in Nat /\ remainPacketData \in Nat
      BY Numbers
    <3>2. QED
      BY <2>5, <2>6, <3>1
  <2>8. ASSUME NEW i \in 1..Kept'
         PROVE  m_packetRecvProcessBuffer'[readData' + i] = Consumed' + i
    <3>0. /\ Consumed \in Nat /\ Kept \in Nat
          /\ remainPacketData \in Nat /\ readData \in Nat
      BY Numbers
    <3>1. /\ size + i \in 1..Kept
          /\ readData' + i = readData + (size + i)
          /\ Consumed' + i = Consumed + (size + i)
      BY <2>5, <2>6, <3>0
    <3>2. m_packetRecvProcessBuffer[readData + (size + i)] = Consumed + (size + i)
      BY <1>1, <3>1
    <3>3. QED
      BY <2>2, <3>1, <3>2
  <2>9. /\ received' = Consumed' + Kept' + m_packetRecvBufferMark' + bytes_transferred'
        /\ \A i \in 1..m_packetRecvBufferMark' :
             m_packetRecvBuffer'[i] = Consumed' + Kept' + i
    BY <1>1, <2>2, <2>7
  <2>10. QED
    BY <2>9, <2>8
<1>10. CASE ProcessPacket_Reject
  BY <1>10 DEF ProcessPacket_Reject, Regular
<1>11. CASE ProcessPacket_Rest
  <2>1. /\ Kept = remainPacketData /\ Kept' = remainPacketData /\ readData' = 0
        /\ UNCHANGED <<received, bytes_transferred, m_packetRecvBuffer,
                       m_packetRecvBufferMark, processed>>
    BY <1>11 DEF ProcessPacket_Rest, Kept
  <2>2. Consumed' = Consumed
    BY <1>2, <2>1
  <2>3. \A i \in 1..remainPacketData :
          m_packetRecvProcessBuffer'[i] = m_packetRecvProcessBuffer[readData + i]
    BY <1>11, RestFacts DEF ProcessPacket_Rest
  <2>4. ASSUME NEW i \in 1..Kept'
        PROVE  m_packetRecvProcessBuffer'[readData' + i] = Consumed' + i
    <3>1. readData' + i = i /\ i \in 1..remainPacketData /\ i \in 1..Kept
      BY <2>1, Numbers
    <3>2. QED
      BY <1>1, <2>2, <2>3, <3>1
  <2>5. QED
    BY <1>1, <2>1, <2>2, <2>4
<1>12. QED
  <2>1. CASE handle_read_Acquire \/ handle_read_Error \/ UpdateCommanders_Remove
             \/ ProcessPacket_FlagTaken \/ ProcessPacket_TakeAborts
             \/ ProcessPacket_Garbled \/ ProcessPacket_RestAborts
             \/ UNCHANGED vars
    BY <1>3, <2>1 DEF vars, handle_read_Acquire, handle_read_Error,
       UpdateCommanders_Remove, ProcessPacket_FlagTaken,
       ProcessPacket_TakeAborts, ProcessPacket_Garbled, ProcessPacket_RestAborts
  <2>2. QED
    BY <1>4, <1>5, <1>7, <1>8, <1>9, <1>10, <1>11, <2>1
       DEF Next, Io, Logic, ProcessPacket

-------------------------------------------------------------------------------
(* The packets are processed in order.                                     *)

LEMMA UnparsedInPlace ==
  ASSUME TypeOK, MarksFit, BytesInPlace, Regular, logicPc = "parse",
         NEW n \in Nat, n >= 1, n <= remainPacketData
  PROVE  Unparsed(n)[1] = Consumed + 1 /\ Consecutive(Unparsed(n))
<1>1. /\ Len(Unparsed(n)) = n
      /\ \A i \in 1..n : Unparsed(n)[i] = m_packetRecvProcessBuffer[readData + i]
  BY UnparsedFacts
<1>2. \A i \in 1..n : i \in 1..remainPacketData
  BY Numbers
<1>3. \A i \in 1..n : Unparsed(n)[i] = Consumed + i
  BY <1>1, <1>2 DEF BytesInPlace, Kept
<1>4. \A i \in 1..n : Consumed + i = (Consumed + 1) + i - 1
  BY Numbers
<1>5. 1 \in 1..n
  OBVIOUS
<1>6. QED
  BY <1>1, <1>3, <1>4, <1>5 DEF Consecutive

(* Packets of the stream have different first bytes.                       *)
LEMMA FirstsDiffer ==
  ASSUME TypeOK, stream \in Script,
         NEW i \in 1..Len(stream), NEW j \in 1..Len(stream),
         stream[i].first = stream[j].first
  PROVE  i = j
<1>1. ASSUME NEW a \in 1..Len(stream), NEW b \in 1..Len(stream), a < b
      PROVE  stream[a].first < stream[b].first
  <2>1. stream[a].first + stream[a].size <= stream[b].first
    BY <1>1, ScriptAssumption
  <2>2. /\ stream[a].first \in Nat /\ stream[b].first \in Nat
        /\ stream[a].size \in Nat /\ stream[a].size >= 1
    BY PacketFacts, Sizes
  <2>3. QED
    BY <2>1, <2>2
<1>2. i \in Int /\ j \in Int /\ stream[i].first \in Nat
  BY PacketFacts
<1>3. CASE i < j
  BY <1>1, <1>2, <1>3
<1>4. CASE j < i
  BY <1>1, <1>2, <1>4
<1>5. QED
  BY <1>2, <1>3, <1>4

(* A byte that was received and not processed belongs to a packet of the   *)
(* stream, and the next one starts there.                                  *)
LEMMA NextInStream ==
  ASSUME TypeOK, stream \in Script, MarksFit, BytesInPlace, Regular,
         InOrderOnce, logicPc = "parse", HasHeader
  PROVE  /\ Len(processed) + 1 \in 1..Len(stream)
         /\ stream[Len(processed) + 1].first = Consumed + 1
<1> DEFINE n == Len(processed)
<1>1. /\ n \in Nat /\ Len(stream) \in Nat
      /\ \A i \in 1..n : processed[i] \in 1..Len(stream)
  BY DEF TypeOK
<1>2. Consumed + 1 <= Total
  <2>1. remainPacketData >= 1 /\ received <= Total /\ Total \in Int
    BY TotalIsInt, Numbers, Sizes DEF HasHeader, TypeOK
  <2>2. received = Consumed + remainPacketData + m_packetRecvBufferMark
                     + bytes_transferred
    BY DEF BytesInPlace, Kept
  <2>3. QED
    BY <2>1, <2>2, Numbers
<1>3. Len(stream) >= 1
  <2>1. CASE stream = <<>>
    BY <1>2, <2>1, Numbers DEF Total
  <2>2. CASE stream # <<>>
    BY <1>1, <2>2 DEF TypeOK
  <2>3. QED
    BY <2>1, <2>2
<1>4. CASE n = 0
  <2>1. processed = <<>> /\ stream # <<>>
    BY <1>3, <1>4 DEF TypeOK
  <2>2. Consumed = 0 /\ stream[1].first = 1
    BY <2>1, ScriptAssumption DEF Consumed
  <2>3. QED
    BY <1>1, <1>3, <1>4, <2>2
<1>5. CASE n > 0
  <2>1. n \in 1..n /\ n \in 1..Len(stream) /\ processed[n] = n
    BY <1>1, <1>5 DEF InOrderOnce
  <2>2. Consumed = stream[n].first + stream[n].size - 1
    BY <1>5, <2>1 DEF Consumed, TypeOK
  <2>3. n # Len(stream)
    <3>1. CASE n = Len(stream)
      <4>1. stream # <<>>
        BY <1>3
      <4>2. Total = Consumed
        BY <2>2, <3>1, <4>1 DEF Total
      <4>3. QED
        BY <1>2, <4>2, Numbers
    <3>2. QED
      BY <3>1
  <2>4. n + 1 \in 1..Len(stream) /\ n < n + 1
    BY <1>1, <2>1, <2>3
  <2>5. stream[n].first + stream[n].size = stream[n + 1].first
    BY <2>1, <2>4, ScriptAssumption
  <2>6. /\ stream[n].first \in Nat /\ stream[n].size \in Nat
        /\ stream[n + 1].first \in Nat
    BY <2>1, <2>4, PacketFacts
  <2>7. QED
    BY <2>2, <2>4, <2>5, <2>6
<1>6. QED
  BY <1>1, <1>4, <1>5

LEMMA FaithfulStep ==
  TypeOK /\ stream \in Script /\ MarksFit /\ BytesInPlace
    /\ FaithfulUnlessRaced /\ [Next]_vars => FaithfulUnlessRaced'
<1> SUFFICES ASSUME TypeOK, stream \in Script, MarksFit, BytesInPlace,
                    FaithfulUnlessRaced, [Next]_vars, Regular'
             PROVE  InOrderOnce' /\ ~garbled'
  BY DEF FaithfulUnlessRaced
<1> USE DEF sharedVars, ioVars, processVars, parseVars, fateVars
<1>1. Regular /\ InOrderOnce /\ ~garbled
  BY RegularStep DEF FaithfulUnlessRaced
<1>2. CASE ProcessPacket_Packet
  <2>1. PICK k \in HeaderOf : processed' = Append(processed, k)
    BY <1>2 DEF ProcessPacket_Packet
  <2>2. logicPc = "parse" /\ HasHeader /\ garbled' = garbled
    BY <1>2 DEF ProcessPacket_Packet
  <2>3. /\ Len(processed) + 1 \in 1..Len(stream)
        /\ stream[Len(processed) + 1].first = Consumed + 1
        /\ k \in 1..Len(stream)
        /\ stream[k].first = Consumed + 1
    BY <1>1, <2>2, NextInStream, NextPacket
  <2>4. k = Len(processed) + 1
    BY <2>3, FirstsDiffer
  <2>5. /\ processed \in Seq(1..Len(stream))
        /\ \A i \in 1..Len(processed) : processed[i] = i
    BY <1>1 DEF TypeOK, InOrderOnce
  <2>6. \A i \in 1..Len(processed') : processed'[i] = i
    BY <2>1, <2>3, <2>4, <2>5
  <2>7. InOrderOnce'
    BY <2>6 DEF InOrderOnce
  <2>8. QED
    BY <1>1, <2>2, <2>7
<1>3. CASE ProcessPacket_Garbled
  <2>1. logicPc = "parse" /\ HasHeader
    BY <1>3 DEF ProcessPacket_Garbled
  <2> DEFINE k == Len(processed) + 1
  <2>2. k \in 1..Len(stream) /\ stream[k].first = Consumed + 1
    BY <1>1, <2>1, NextInStream
  <2> HIDE DEF k
  <2>3. /\ 1 <= remainPacketData /\ HeaderSize <= remainPacketData
        /\ HeaderSize \in Nat /\ HeaderSize >= 1
    BY <2>1, Sizes, Numbers DEF HasHeader
  <2>4. Unparsed(1)[1] = Consumed + 1 /\ Consecutive(Unparsed(HeaderSize))
    BY <1>1, <2>1, <2>3, UnparsedInPlace
  <2>5. k \in HeaderOf
    BY <2>2, <2>4 DEF HeaderOf
  <2>6. Complete(k) /\ ~Intact(k)
    BY <1>3, <2>5 DEF ProcessPacket_Garbled
  <2>7. /\ stream[k].size \in Nat /\ stream[k].size >= 1
        /\ stream[k].size <= remainPacketData
    BY <2>2, <2>6, PacketFacts, Sizes DEF Complete
  <2>8. Consecutive(Unparsed(stream[k].size))
    BY <1>1, <2>1, <2>7, UnparsedInPlace
  <2>9. QED
    BY <2>6, <2>8 DEF Intact
<1>4. CASE ~ProcessPacket_Packet /\ ~ProcessPacket_Garbled
  <2>1. UNCHANGED <<processed, garbled>>
    BY <1>4 DEF Next, Io, Logic, ProcessPacket, vars, handle_read_AfterSize,
       handle_read_Acquire, handle_read_Store, handle_read_Error,
       ProcessPacket_FlagTaken, ProcessPacket_TakeAll, ProcessPacket_TakeSome,
       ProcessPacket_TakeAborts, ProcessPacket_Reject, ProcessPacket_Rest,
       ProcessPacket_RestAborts, UpdateCommanders_Remove
  <2>2. QED
    BY <1>1, <2>1 DEF InOrderOnce
<1>5. QED
  BY <1>2, <1>3, <1>4

-------------------------------------------------------------------------------
(* The invariant, and what it gives.                                       *)

LEMMA InitRecvInv == Init => RecvInv
<1> SUFFICES ASSUME Init PROVE RecvInv
  OBVIOUS
<1>1. stream \in Script /\ stream \in Seq(Packet)
  BY ScriptAssumption DEF Init
<1>2. Total \in Nat
  <2>1. CASE stream = <<>>
    BY <2>1 DEF Total
  <2>2. CASE stream # <<>>
    <3>1. stream[Len(stream)] \in Packet
      BY <1>1, <2>2
    <3>2. /\ stream[Len(stream)].first \in Nat
          /\ stream[Len(stream)].size \in Nat
          /\ stream[Len(stream)].size >= 1
      BY <3>1, Sizes DEF Packet
    <3>3. QED
      BY <2>2, <3>2 DEF Total
  <2>3. QED
    BY <2>1, <2>2
<1>3. /\ Zeros(2 * RecvBufSize) \in Seq(Nat)
      /\ Len(Zeros(2 * RecvBufSize)) = 2 * RecvBufSize
  <2>1. 2 * RecvBufSize \in Nat
    BY Sizes
  <2>2. Zeros(2 * RecvBufSize) \in [1..2 * RecvBufSize -> Nat]
    BY DEF Zeros
  <2>3. QED
    BY <2>1, <2>2, FunctionIsSeq
<1>4. Zeros(ProcessBufSize) \in [1..ProcessBufSize -> Nat]
  BY DEF Zeros
<1>5. TypeOK
  <2>1. received \in 0..Total /\ bytes_transferred \in 0..RecvBufSize
    BY <1>2, Sizes DEF Init
  <2>2. processed \in Seq(1..Len(stream))
    BY DEF Init
  <2>3. QED
    BY <1>1, <1>3, <1>4, <2>1, <2>2 DEF Init, TypeOK, Byte
<1>6. MarksFit
  BY <1>3, Sizes DEF Init, MarksFit, m_packetRecvBufferSize
<1>7. GrownIsFull
  BY <1>3 DEF Init, GrownIsFull, m_packetRecvBufferSize
<1>8. BytesInPlace
  <2>1. Consumed = 0 /\ Kept = 0
    BY DEF Init, Consumed, Kept
  <2>2. QED
    BY <2>1 DEF Init, BytesInPlace
<1>9. FaithfulUnlessRaced
  BY DEF Init, FaithfulUnlessRaced, InOrderOnce
<1>10. QED
  BY <1>1, <1>5, <1>6, <1>7, <1>8, <1>9 DEF RecvInv

LEMMA NextRecvInv == RecvInv /\ [Next]_vars => RecvInv'
<1> SUFFICES ASSUME RecvInv, [Next]_vars PROVE RecvInv'
  OBVIOUS
<1>1. stream' = stream
  BY StreamStays
<1>2. QED
  BY <1>1, TypeStep, MarksStep, GrownStep, BytesStep, FaithfulStep DEF RecvInv

(* What the receive path keeps in every reachable state.                   *)
THEOREM RecvInvCorrect == Spec => []RecvInv
<1>1. QED
  BY InitRecvInv, NextRecvInv, PTL DEF Spec

(* The variables of JSession's receiving half keep their types.            *)
THEOREM TypeCorrect == Spec => []TypeOK
<1>1. RecvInv => TypeOK
  BY DEF RecvInv
<1>2. QED
  BY <1>1, RecvInvCorrect, PTL

(* handle_read and ProcessPacket stay within m_packetRecvBuffer and        *)
(* m_packetRecvProcessBuffer, with the race on the mark and without it.    *)
THEOREM BoundsCorrect == Spec => []BuffersInBounds
<1>1. RecvInv => BuffersInBounds
  BY RoomFacts DEF RecvInv, MarksFit, BuffersInBounds
<1>2. QED
  BY <1>1, RecvInvCorrect, PTL

(* memcpy_s aborts only when more arrived since the last tick than fits    *)
(* the process buffer, or when a packet is longer than RECV_BUF_SIZE.      *)
THEOREM AbortCorrect == Spec => []AbortOnlyUnderBacklog
<1>1. RecvInv => AbortOnlyUnderBacklog
  BY DEF RecvInv, GrownIsFull, AbortOnlyUnderBacklog, Regular
<1>2. QED
  BY <1>1, RecvInvCorrect, PTL

(* No byte is lost, repeated or out of order on its way from the socket to *)
(* the parser, while the mark is not raced and no command is unknown.      *)
THEOREM NoByteLostCorrect == Spec => []NoByteLost
<1>1. ASSUME RecvInv, Regular
      PROVE  Buffered = [i \in 1..(received - Consumed) |-> Consumed + i]
  <2>0. TypeOK /\ MarksFit /\ BytesInPlace
    BY <1>1 DEF RecvInv
  <2> DEFINE kept == IF logicPc = "parse"
                     THEN Unparsed(remainPacketData)
                     ELSE SubSeq(m_packetRecvProcessBuffer, 1,
                                 m_packetRecvProcessBufferMark)
             waiting == SubSeq(m_packetRecvBuffer, 1, m_packetRecvBufferMark)
             arriving == m_receiveBuffer
             all == [i \in 1..(received - Consumed) |-> Consumed + i]
  <2>1. /\ kept \in Seq(Nat) /\ Len(kept) = Kept
        /\ \A i \in 1..Kept : kept[i] = Consumed + i
    <3>1. \A i \in 1..Kept :
            m_packetRecvProcessBuffer[readData + i] = Consumed + i
      BY <1>1, <2>0 DEF BytesInPlace
    <3>2. CASE logicPc = "parse"
      <4>1. Kept = remainPacketData /\ remainPacketData <= remainPacketData
        BY <2>0, <3>2, Numbers DEF Kept
      <4>2. QED
        BY <2>0, <3>1, <3>2, <4>1, UnparsedFacts, Numbers
    <3>3. CASE logicPc # "parse"
      <4>1. /\ Kept = m_packetRecvProcessBufferMark /\ readData = 0
            /\ m_packetRecvProcessBufferMark <= ProcessBufSize
        BY <2>0, <3>3, Numbers, Sizes DEF Kept, MarksFit, TypeOK
      <4>2. kept = SubSeq(m_packetRecvProcessBuffer, 1, Kept)
        BY <3>3, <4>1
      <4>3. /\ kept \in Seq(Nat) /\ Len(kept) = Kept
            /\ \A i \in 1..Kept : kept[i] = m_packetRecvProcessBuffer[i]
        <5>1. /\ m_packetRecvProcessBuffer \in Seq(Nat) /\ Kept \in Nat
              /\ Kept <= Len(m_packetRecvProcessBuffer)
          BY <2>0, <4>1, ProcessBufferFacts, Numbers
        <5>2. QED
          BY <4>2, <5>1, PrefixFacts
      <4>4. \A i \in 1..Kept : 0 + i = i
        BY <2>0, Numbers
      <4>5. QED
        BY <3>1, <4>1, <4>3, <4>4
    <3>4. QED
      BY <3>2, <3>3
  <2>2. /\ waiting \in Seq(Nat) /\ Len(waiting) = m_packetRecvBufferMark
        /\ \A i \in 1..m_packetRecvBufferMark :
             waiting[i] = Consumed + Kept + i
    <3>1. /\ m_packetRecvBuffer \in Seq(Nat)
          /\ m_packetRecvBufferMark \in Nat
          /\ m_packetRecvBufferMark <= Len(m_packetRecvBuffer)
      BY <2>0 DEF TypeOK, MarksFit, Byte, m_packetRecvBufferSize
    <3>2. /\ waiting \in Seq(Nat) /\ Len(waiting) = m_packetRecvBufferMark
          /\ \A i \in 1..m_packetRecvBufferMark :
               waiting[i] = m_packetRecvBuffer[i]
      BY <3>1, PrefixFacts
    <3>3. QED
      BY <1>1, <2>0, <3>2 DEF BytesInPlace
  <2>3. /\ arriving \in Seq(Nat) /\ Len(arriving) = bytes_transferred
        /\ \A i \in 1..bytes_transferred :
             arriving[i] = Consumed + Kept + m_packetRecvBufferMark + i
    <3>1. received - bytes_transferred = Consumed + Kept + m_packetRecvBufferMark
      BY <1>1, <2>0, Numbers DEF BytesInPlace
    <3>2. QED
      BY <2>0, <3>1, ReceivedFacts
  <2>4. /\ Buffered = (kept \o waiting) \o arriving
        /\ received - Consumed = Kept + m_packetRecvBufferMark + bytes_transferred
        /\ Kept \in Nat /\ m_packetRecvBufferMark \in Nat
        /\ bytes_transferred \in Nat /\ Consumed \in Nat
    BY <1>1, <2>0, Numbers DEF Buffered, BytesInPlace
  <2>5. /\ all \in Seq(Nat) /\ Len(all) = received - Consumed
        /\ \A i \in 1..(received - Consumed) : all[i] = Consumed + i
    <3>1. received - Consumed \in Nat
      BY <2>4
    <3>2. all \in [1..(received - Consumed) -> Nat]
      BY <2>4
    <3>3. QED
      BY <3>1, <3>2, FunctionIsSeq
  <2> HIDE DEF kept, waiting, arriving, all
  <2>6. /\ kept \o waiting \in Seq(Nat)
        /\ Len(kept \o waiting) = Kept + m_packetRecvBufferMark
        /\ \A i \in 1 .. Kept + m_packetRecvBufferMark :
             (kept \o waiting)[i] = IF i <= Kept THEN kept[i]
                                    ELSE waiting[i - Kept]
    BY <2>1, <2>2, ConcatProperties
  <2>7. ASSUME NEW i \in 1 .. Kept + m_packetRecvBufferMark
        PROVE  (kept \o waiting)[i] = Consumed + i
    <3>1. CASE i <= Kept
      BY <2>1, <2>4, <2>6, <3>1
    <3>2. CASE ~(i <= Kept)
      <4>1. i - Kept \in 1..m_packetRecvBufferMark
        BY <2>4, <3>2
      <4>2. Consumed + Kept + (i - Kept) = Consumed + i
        BY <2>4
      <4>3. QED
        BY <2>2, <2>6, <3>2, <4>1, <4>2
    <3>3. QED
      BY <3>1, <3>2
  <2> DEFINE both == kept \o waiting
  <2>8. /\ both \in Seq(Nat) /\ Len(both) = Kept + m_packetRecvBufferMark
        /\ \A i \in 1 .. Kept + m_packetRecvBufferMark : both[i] = Consumed + i
        /\ Buffered = both \o arriving
    BY <2>4, <2>6, <2>7
  <2> HIDE DEF both
  <2>9. /\ both \o arriving \in Seq(Nat)
        /\ Len(both \o arriving) = received - Consumed
        /\ \A i \in 1..(received - Consumed) :
             (both \o arriving)[i]
               = IF i <= Kept + m_packetRecvBufferMark THEN both[i]
                 ELSE arriving[i - (Kept + m_packetRecvBufferMark)]
    <3>1. /\ both \o arriving \in Seq(Nat)
          /\ Len(both \o arriving) = Len(both) + Len(arriving)
          /\ \A i \in 1 .. Len(both) + Len(arriving) :
               (both \o arriving)[i] = IF i <= Len(both) THEN both[i]
                                       ELSE arriving[i - Len(both)]
      BY <2>3, <2>8, ConcatProperties
    <3>2. /\ Len(both) + Len(arriving) = received - Consumed
          /\ Len(both) = Kept + m_packetRecvBufferMark
      BY <2>3, <2>4, <2>8
    <3>3. QED
      BY <3>1, <3>2
  <2>10. ASSUME NEW i \in 1..(received - Consumed)
         PROVE  (both \o arriving)[i] = Consumed + i
    <3> DEFINE m == Kept + m_packetRecvBufferMark
    <3>1. CASE i <= m
      BY <2>4, <2>8, <2>9, <3>1
    <3>2. CASE ~(i <= m)
      <4>1. i - m \in 1..bytes_transferred
        BY <2>4, <3>2
      <4>2. Consumed + Kept + m_packetRecvBufferMark + (i - m) = Consumed + i
        BY <2>4
      <4>3. QED
        BY <2>3, <2>9, <3>2, <4>1, <4>2
    <3>3. QED
      BY <3>1, <3>2
  <2>11. both \o arriving = all
    BY <2>5, <2>9, <2>10, SeqEqual
  <2>12. QED
    BY <2>8, <2>11 DEF all
<1>2. RecvInv => NoByteLost
  BY <1>1 DEF NoByteLost
<1>3. QED
  BY <1>2, RecvInvCorrect, PTL

(* The client's packets are processed in order, each once, and no byte is  *)
(* misread, while the mark is not raced and no command is unknown.         *)
THEOREM FaithfulCorrect == Spec => []FaithfulUnlessRaced
<1>1. RecvInv => FaithfulUnlessRaced
  BY DEF RecvInv
<1>2. QED
  BY <1>1, RecvInvCorrect, PTL
===============================================================================
