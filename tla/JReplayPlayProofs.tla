---------------------------- MODULE JReplayPlayProofs --------------------------
(***************************************************************************)
(* Proofs about JTickLoop and JReplayPlay: for every length of a tick,     *)
(* range of the clock and start, and for every recording of any length.    *)
(***************************************************************************)
EXTENDS JReplayPlay, SequenceFacts, TLAPS

-------------------------------------------------------------------------------
(* The tick loop.                                                          *)

(* One more tick is nsPerTick more, one more wrap is Wrap more.            *)
LEMMA OneMore ==
  ASSUME NEW n \in Int, NEW k \in Int
  PROVE  /\ (n + 1) * k = n * k + k
         /\ (n - 1) * k = n * k - k
         /\ n * k \in Int
OBVIOUS

(* Reading the clock adds to delta exactly what it adds to the time due.   *)
LEMMA NowStep == LoopInv /\ Loop_Now => LoopInv'
<1> SUFFICES ASSUME LoopInv, Loop_Now PROVE LoopInv'
  OBVIOUS
<1> USE NsPerTickAssumption, WrapAssumption
<1>1. PICK now \in 0..Wrap - 1 :
        /\ delta' = delta + Passed(now)
        /\ wraps' = IF now < lastTime THEN wraps + 1 ELSE wraps
        /\ lastTime' = now
  BY DEF Loop_Now
<1>2. /\ loopPc = "sleep" /\ loopPc' = "while" /\ tickCount' = tickCount
      /\ lastTime \in 0..Wrap - 1 /\ delta \in Nat /\ tickCount \in Nat
      /\ wraps \in Nat
      /\ tickCount * NsPerTick + delta = lastTime - StartTime + wraps * Wrap
  BY DEF Loop_Now, LoopInv, LoopTypeOK, Balanced, Added
<1>3. wraps * Wrap \in Int /\ (wraps + 1) * Wrap = wraps * Wrap + Wrap
  BY <1>2, OneMore
<1>4. tickCount * NsPerTick \in Int
  BY <1>2, OneMore
<1>5. CASE now < lastTime
  <2>1. delta' = delta + now - lastTime + Wrap /\ wraps' = wraps + 1
    BY <1>1, <1>2, <1>5 DEF Passed
  <2>2. wraps' * Wrap = wraps * Wrap + Wrap
    BY <1>3, <2>1
  <2>3. tickCount' * NsPerTick + delta'
          = lastTime' - StartTime + wraps' * Wrap
    BY <1>1, <1>2, <1>3, <1>4, <2>1, <2>2
  <2>4. QED
    BY <1>1, <1>2, <2>1, <2>3 DEF LoopInv, LoopTypeOK, Balanced, Added
<1>6. CASE ~(now < lastTime)
  <2>1. delta' = delta + now - lastTime /\ wraps' = wraps
    BY <1>1, <1>2, <1>6 DEF Passed
  <2>2. tickCount' * NsPerTick + delta'
          = lastTime' - StartTime + wraps' * Wrap
    BY <1>1, <1>2, <1>3, <1>4, <2>1
  <2>3. QED
    BY <1>1, <1>2, <1>6, <2>1, <2>2 DEF LoopInv, LoopTypeOK, Balanced, Added
<1>7. QED
  BY <1>5, <1>6

(* The steps of a tick, and the way to sleep, keep the balance.            *)
LEMMA TickStep ==
  LoopInv /\ (Loop_Update \/ Loop_Done \/ Loop_Sleep) => LoopInv'
<1> SUFFICES ASSUME LoopInv, Loop_Update \/ Loop_Done \/ Loop_Sleep PROVE LoopInv'
  OBVIOUS
<1> USE NsPerTickAssumption, WrapAssumption
<1>1. /\ tickCount \in Nat /\ delta \in Nat
      /\ lastTime' = lastTime /\ wraps' = wraps /\ Added' = Added
  BY DEF LoopInv, LoopTypeOK, Loop_Update, Loop_Done, Loop_Sleep, Added
<1>2. /\ (tickCount - 1) * NsPerTick = tickCount * NsPerTick - NsPerTick
      /\ tickCount * NsPerTick \in Int
  BY <1>1, OneMore
<1>3. CASE Loop_Update
  <2>1. tickCount' - 1 = tickCount
    BY <1>1, <1>3 DEF Loop_Update
  <2>2. QED
    BY <1>1, <1>3, <2>1 DEF Loop_Update, LoopInv, LoopTypeOK, Balanced
<1>4. CASE Loop_Done
  <2>1. delta' = delta - NsPerTick /\ delta >= NsPerTick
    BY <1>4 DEF Loop_Done, LoopInv, Balanced
  <2>2. (tickCount - 1) * NsPerTick + delta = Added
    BY <1>4 DEF Loop_Done, LoopInv, Balanced
  <2>3. tickCount * NsPerTick + delta' = Added
    BY <1>1, <1>2, <2>1, <2>2
  <2>4. QED
    BY <1>1, <1>4, <2>1, <2>3 DEF Loop_Done, LoopInv, LoopTypeOK, Balanced
<1>5. CASE Loop_Sleep
  BY <1>1, <1>5 DEF Loop_Sleep, LoopInv, LoopTypeOK, Balanced
<1>6. QED
  BY <1>3, <1>4, <1>5

(* Ticks and time owed balance the clock at every point of the loop: the   *)
(* inductive invariant.                                                    *)
LEMMA LoopInvInit == LoopInit => LoopInv
BY NsPerTickAssumption, WrapAssumption
DEF LoopInit, LoopInv, LoopTypeOK, Balanced, Added

LEMMA LoopInvStep == LoopInv /\ [LoopNext]_loopVars => LoopInv'
<1> SUFFICES ASSUME LoopInv, [LoopNext]_loopVars PROVE LoopInv'
  OBVIOUS
<1>1. CASE LoopNext
  BY <1>1, NowStep, TickStep DEF LoopNext
<1>2. CASE UNCHANGED loopVars
  BY <1>2 DEF loopVars, LoopInv, LoopTypeOK, Balanced, Added
<1>3. QED
  BY <1>1, <1>2

THEOREM LoopInvCorrect == LoopSpec => []LoopInv
<1>1. QED
  BY LoopInvInit, LoopInvStep, PTL DEF LoopSpec

(* As long as the clock is not found set back the loop neither loses a tick*)
(* nor runs one early, for every length of a tick, whenever it wakes up.   *)
THEOREM LoopKeepsPace == LoopSpec => []KeepsPace
<1>1. LoopInv => KeepsPace
  <2> SUFFICES ASSUME LoopInv, loopPc = "sleep", wraps = 0
               PROVE  /\ tickCount * NsPerTick <= lastTime - StartTime
                      /\ lastTime - StartTime < (tickCount + 1) * NsPerTick
    BY DEF KeepsPace
  <2>1. /\ tickCount \in Nat /\ delta \in Nat /\ delta < NsPerTick
        /\ tickCount * NsPerTick + delta = Added /\ lastTime - StartTime \in Int
    BY WrapAssumption DEF LoopInv, LoopTypeOK, Balanced
  <2>2. /\ (tickCount + 1) * NsPerTick = tickCount * NsPerTick + NsPerTick
        /\ tickCount * NsPerTick \in Int
    BY <2>1, NsPerTickAssumption, OneMore
  <2>3. Added = lastTime - StartTime
    BY <2>1, WrapAssumption DEF Added
  <2>4. QED
    BY <2>1, <2>2, <2>3, NsPerTickAssumption
<1>2. QED
  BY <1>1, LoopInvCorrect, PTL

(* The steps of a replay, from a file or not, are steps of the loop or     *)
(* leave its variables alone.                                              *)
LEMMA LoopSteps == Next => [LoopNext]_loopVars
BY DEF Next, tickVars, LoopNext, Load, ServerLogicThread, NextTick,
       PreUpdateCommanders_Create, PreUpdateCommanders_End, ProcessPacket_Packet,
       ProcessPacket_Next, ProcessPacket_End, UpdateCommanders_Remove,
       UpdateCommanders_End, TickDone

(* So JReplayPlay implements JTickLoop.                                    *)
THEOREM LoopCorrect == Spec => LoopSpec
<1>1. Init => LoopInit
  BY DEF Init
<1>2. [Next]_vars => [LoopNext]_loopVars
  BY LoopSteps DEF vars, tickVars
<1>3. QED
  BY <1>1, <1>2, PTL DEF Spec, LoopSpec

(* So does a replay from a file, whatever its ticks do.                    *)
THEOREM KeepsPaceCorrect == Spec => []KeepsPace
<1>1. QED
  BY LoopCorrect, LoopKeepsPace, PTL

-------------------------------------------------------------------------------
(* The parts of the inductive invariant of the replay.                     *)

(* The records that reach the replay: all of a list, none of a file.       *)
Playable == IF source = "list" THEN Record ELSE {}

PlayableOf(s) == {k \in Playable : SessionOf(k) = s}

List(s) == m_packetInfoListEachSession[s]

(* The list of s became a session.                                         *)
Joined(s) == logicPc # "load" /\ PlayableOf(s) # {} /\ List(s) = {}

(* A list is whole until the tick of its first record.                     *)
Lists ==
  /\ logicPc = "load" =>
       /\ Tick = 0 /\ m_commanders = <<>> /\ executed = <<>>
       /\ \A s \in Session : List(s) = {}
  /\ logicPc = "create" => Tick > 0
  /\ List(0) \subseteq {0}
  /\ \A s \in Session : List(s) \in {{}, PlayableOf(s)}
  /\ \A s \in Session : \A k \in List(s) :
       TickOf(k) > Tick \/ (logicPc = "create" /\ TickOf(k) = Tick)
  /\ \A s \in Session : Joined(s) => \E k \in PlayableOf(s) : TickOf(k) <= Tick

(* Who joined and has not logged out in an earlier tick is served, in the  *)
(* order of ids; who joins later has a higher one.                         *)
Commanders ==
  /\ \A i, j \in 1..Len(m_commanders) : i < j => m_commanders[i] < m_commanders[j]
  /\ \A t \in ToSet(m_commanders) :
       /\ Joined(t)
       /\ \A s \in Session : List(s) # {} => t < s
       /\ \A k \in PlayableOf(t) : recorded[k].command = "LOGOUT" =>
            TickOf(k) > Tick \/ (TickOf(k) = Tick /\ logicPc # "pre")
  /\ \A s \in Session : Joined(s) /\ s \notin ToSet(m_commanders) =>
       \E k \in PlayableOf(s) :
         /\ recorded[k].command = "LOGOUT"
         /\ TickOf(k) < Tick \/ (TickOf(k) = Tick /\ logicPc \in {"pre", "update"})

(* What a session has left is what it has not executed.                    *)
Packets ==
  \A s \in Session :
    m_packetList[s] = IF Joined(s) THEN PlayableOf(s) \ Executed ELSE {}

(* The records up to the last tick were executed, and those of this tick   *)
(* by the commanders before index.                                         *)
Progress ==
  /\ Executed \subseteq Playable
  /\ \A k \in Executed : TickOf(k) <= Tick
  /\ \A k \in Playable : TickOf(k) < Tick => k \in Executed
  /\ logicPc = "create" => \A k \in Executed : TickOf(k) < Tick
  /\ logicPc = "process" =>
       \A i \in 1..Len(m_commanders) : \A k \in PlayableOf(m_commanders[i]) :
         TickOf(k) = Tick => /\ i < index => k \in Executed
                             /\ i > index => k \notin Executed
  /\ logicPc \in {"pre", "update"} =>
       \A k \in Playable : TickOf(k) = Tick => k \in Executed
  /\ logicPc # "process" => index = 1

(* Each record once, in its tick, and within a tick by sessions.           *)
History ==
  /\ \A i \in 1..Len(executed) : executed[i].tick = TickOf(executed[i].record)
  /\ \A i, j \in 1..Len(executed) : i < j =>
       LET d == executed[i].record
           e == executed[j].record
       IN /\ d # e
          /\ TickOf(d) <= TickOf(e)
          /\ TickOf(d) = TickOf(e) => SessionOf(d) <= SessionOf(e)

(* Session s is sent the answer to record k: to its LOGIN, and to any chat *)
(* line from the tick it joined to that of its LOGOUT.                     *)
Answers(k, s) ==
  \/ recorded[k].command = "LOGIN" /\ SessionOf(k) = s
  \/ /\ recorded[k].command = "CHAT"
     /\ \E j \in Record : SessionOf(j) = s /\ TickOf(j) <= TickOf(k)
     /\ \A j \in Record :
          recorded[j].command = "LOGOUT" /\ SessionOf(j) = s => TickOf(j) >= TickOf(k)

(* What a session was sent is the answers to what was executed.            *)
Answered ==
  \A s \in Session :
    /\ ToSet(m_sendQue[s]) = {k \in Executed : Answers(k, s)}
    /\ \A i, j \in 1..Len(m_sendQue[s]) : i < j =>
         \/ m_sendQue[s][i] < m_sendQue[s][j]
         \/ /\ m_sendQue[s][i] > m_sendQue[s][j]
            /\ SameTickOfOneSession(m_sendQue[s][i], m_sendQue[s][j])

-------------------------------------------------------------------------------
(* The recording.                                                          *)

(* What Init chooses from is what IsRecording describes.                   *)
LEMMA RecordingFacts ==
  ASSUME NEW texts, NEW max \in Nat, NEW r \in Recording(texts, max)
  PROVE  r \in Seq(Info(texts)) /\ IsRecording(r)
<1> DEFINE Good == {q \in Seq(Info(texts)) : IsRecording(q)}
           S == SUBSET Good
           more(Q) == Q \cup {q \in {Append(p, i) : p \in Q, i \in Info(texts)} : IsRecording(q)}
           step == [n \in 1..max |-> [Q \in S |-> more(Q)]]
           Rec(g) == [n \in 0..max |-> IF n = 0 THEN {<<>>} ELSE more(g[n - 1])]
           upTo == CHOOSE g : g = Rec(g)
<1>1. {<<>>} \in S
  BY DEF IsRecording, LoggedInFirst
<1>2. ASSUME NEW Q \in S PROVE more(Q) \in S
  <2>1. \A p \in Q, i \in Info(texts) : Append(p, i) \in Seq(Info(texts))
    <3>1. \A p \in Q : p \in Seq(Info(texts))
      OBVIOUS
    <3> HIDE DEF Good
    <3>2. QED
      BY <3>1
  <2>2. QED
    BY <2>1
<1>3. step \in [1..max -> [S -> S]]
  <2> HIDE DEF more, S
  <2>1. QED
    BY <1>2
<1>4. PICK f : GoesInSteps(f, max, S, {<<>>}, step)
  <2> HIDE DEF step, S
  <2>1. QED
    BY <1>1, <1>3, Recursion
<1>5. f = Rec(f)
  <2> HIDE DEF S, more, step
  <2>1. /\ f \in [0..max -> S] /\ f[0] = {<<>>}
        /\ \A i \in 1..max : f[i] = step[i][f[i - 1]]
    BY <1>4 DEF GoesInSteps
  <2>2. \A i \in 1..max : i - 1 \in 0..max
    OBVIOUS
  <2>3. \A i \in 1..max : \A Q \in S : step[i][Q] = more(Q)
    BY DEF step
  <2>4. \A i \in 1..max : f[i] = more(f[i - 1])
    BY <2>1, <2>2, <2>3
  <2>5. \A i \in 0..max : i = 0 \/ i \in 1..max
    OBVIOUS
  <2>6. \A i \in 0..max : f[i] = IF i = 0 THEN {<<>>} ELSE more(f[i - 1])
    BY <2>1, <2>4, <2>5
  <2>7. QED
    BY <2>1, <2>6
<1>6. upTo = Rec(upTo)
  <2> HIDE DEF Rec
  <2>1. QED
    BY <1>5
<1>7. r \in upTo[max]
  BY DEF Recording
<1> HIDE DEF upTo, step
<1>8. /\ upTo[0] = {<<>>}
      /\ \A n \in 1..max : upTo[n] = more(upTo[n - 1])
  <2> HIDE DEF more
  <2>1. 0 \in 0..max /\ \A n \in 1..max : n \in 0..max /\ n # 0
    OBVIOUS
  <2>2. QED
    BY <1>6, <2>1
<1> HIDE DEF Rec
<1> DEFINE T == {n \in Nat : n <= max => upTo[n] \in S}
<1>9. Nat \subseteq T
  <2> HIDE DEF more, S
  <2>1. 0 \in T
    BY <1>1, <1>8
  <2>2. ASSUME NEW n \in Nat, n \in T PROVE n + 1 \in T
    <3>1. CASE n + 1 <= max
      <4>1. n + 1 \in 1..max /\ (n + 1) - 1 = n /\ n <= max
        BY <3>1
      <4>2. upTo[n + 1] = more(upTo[n]) /\ upTo[n] \in S
        BY <1>8, <2>2, <4>1
      <4>3. QED
        BY <1>2, <4>2
    <3>2. CASE ~(n + 1 <= max)
      BY <3>2
    <3>3. QED
      BY <3>1, <3>2
  <2> HIDE DEF T
  <2>3. QED
    BY <2>1, <2>2, Induction
<1>10. upTo[max] \in S
  BY <1>9
<1>11. QED
  BY <1>7, <1>10


(* The parts of a record.                                                  *)
LEMMA RecordFacts ==
  ASSUME TypeOK
  PROVE  /\ \A k \in Record :
              /\ k \in Nat \ {0} /\ TickOf(k) \in 1..MaxTick /\ SessionOf(k) \in Session
              /\ recorded[k] \in Info(Text \cup {"plain"})
              /\ TickOf(k) = recorded[k].tickCount
              /\ SessionOf(k) = recorded[k].sessionID
         /\ TickOf(0) = 0 /\ SessionOf(0) = 0
         /\ Playable \subseteq Record
         /\ Session \subseteq Nat \ {0} /\ 0 \in 0..MaxSession
         /\ Session \subseteq 0..MaxSession
         /\ MaxTick \in Nat
<1>1. recorded \in Seq(Info(Text \cup {"plain"}))
  BY DEF TypeOK
<1>2. \A k \in Record : k \in Nat \ {0} /\ recorded[k] \in Info(Text \cup {"plain"})
  BY <1>1, LenProperties, ElementOfSeq DEF Record
<1>3. \A k \in Record : recorded[k].tickCount \in 1..MaxTick /\ recorded[k].sessionID \in Session
  BY <1>2 DEF Info
<1>4. \A k \in Record : /\ TickOf(k) = recorded[k].tickCount
                        /\ SessionOf(k) = recorded[k].sessionID
  BY <1>2 DEF TickOf, SessionOf
<1>5. TickOf(0) = 0 /\ SessionOf(0) = 0 /\ Playable \subseteq Record
  BY DEF TickOf, SessionOf, Playable
<1>6. /\ Session \subseteq Nat \ {0} /\ 0 \in 0..MaxSession
      /\ Session \subseteq 0..MaxSession
      /\ MaxTick \in Nat
  BY BoundsAssumption DEF Session
<1>7. QED
  BY <1>2, <1>3, <1>4, <1>5, <1>6

(* Ticks never decrease, and in a tick sessions do not.                    *)
LEMMA RecordsInOrder ==
  ASSUME TypeOK, IsRecording(recorded), NEW j \in Record, NEW k \in Record, j < k
  PROVE  /\ TickOf(j) <= TickOf(k)
         /\ TickOf(j) = TickOf(k) => SessionOf(j) <= SessionOf(k)
<1>1. /\ recorded[j].tickCount <= recorded[k].tickCount
      /\ recorded[j].tickCount = recorded[k].tickCount
           => recorded[j].sessionID <= recorded[k].sessionID
  BY DEF IsRecording, Record
<1>2. QED
  BY <1>1, RecordFacts

(* Nobody moved who had not logged in.                                     *)
LEMMA LoginOfMove ==
  ASSUME TypeOK, IsRecording(recorded), NEW k \in Record, recorded[k].command = "MOVE"
  PROVE  \E j \in Record :
           /\ recorded[j].command = "LOGIN" /\ SessionOf(j) = SessionOf(k)
           /\ TickOf(j) <= TickOf(k)
<1>1. PICK j \in 1..k - 1 :
        recorded[j].sessionID = recorded[k].sessionID /\ recorded[j].command = "LOGIN"
  BY DEF IsRecording, LoggedInFirst, Record
<1>2. j \in Record /\ j < k
  BY RecordFacts DEF Record
<1>3. QED
  BY <1>1, <1>2, RecordsInOrder, RecordFacts

(* Whoever has a later record had logged in by the tick of an earlier one. *)
LEMMA LoginByThen ==
  ASSUME TypeOK, IsRecording(recorded), NEW h \in Record, NEW k \in Record,
         SessionOf(h) = SessionOf(k), TickOf(h) < TickOf(k)
  PROVE  \E j \in Record :
           /\ recorded[j].command = "LOGIN" /\ SessionOf(j) = SessionOf(h)
           /\ TickOf(j) <= TickOf(h)
<1>1. h < k
  <2>1. ~(k < h)
    <3>1. SUFFICES ASSUME k < h PROVE FALSE
      OBVIOUS
    <3>2. TickOf(k) <= TickOf(h)
      BY <3>1, RecordsInOrder
    <3>3. QED
      BY <3>2, RecordFacts
  <2>2. h # k
    BY RecordFacts
  <2>3. QED
    BY <2>1, <2>2, RecordFacts
<1>2. /\ h \in 1..k - 1 /\ recorded[h].sessionID = recorded[k].sessionID
      /\ recorded[h].tickCount < recorded[k].tickCount
  BY <1>1, RecordFacts
<1>3. PICK j \in 1..k - 1 :
        /\ recorded[j].sessionID = recorded[k].sessionID /\ recorded[j].command = "LOGIN"
        /\ recorded[j].tickCount <= recorded[h].tickCount
  BY <1>2 DEF IsRecording, LoggedInFirst, Record
<1>4. j \in Record
  BY RecordFacts DEF Record
<1>5. QED
  BY <1>3, <1>4, RecordFacts

(* No record of a session is of a later tick than its LOGOUT.              *)
LEMMA NoneAfterLogout ==
  ASSUME TypeOK, IsRecording(recorded), NEW j \in Record, NEW k \in Record,
         recorded[j].command = "LOGOUT", SessionOf(j) = SessionOf(k)
  PROVE  TickOf(k) <= TickOf(j)
<1>1. k < j \/ k = j \/ j < k
  BY RecordFacts
<1>2. CASE k < j
  BY <1>2, RecordsInOrder
<1>3. CASE k = j
  BY <1>3, RecordFacts
<1>4. CASE j < k
  <2>1. recorded[j].sessionID = recorded[k].sessionID
    BY RecordFacts
  <2>2. recorded[j].tickCount = recorded[k].tickCount
    BY <1>4, <2>1 DEF IsRecording, Record
  <2>3. QED
    BY <2>2, RecordFacts
<1>5. QED
  BY <1>1, <1>2, <1>3, <1>4

(* Sessions come in the order of their ids: before a record of t each      *)
(* session with a lower id that ever has records has had one.              *)
LEMMA SessionsInOrder ==
  ASSUME TypeOK, IsRecording(recorded), NEW j \in Playable, NEW k \in Playable,
         SessionOf(k) < SessionOf(j)
  PROVE  \E h \in PlayableOf(SessionOf(k)) : h <= j /\ TickOf(h) <= TickOf(j)
<1>1. j \in Record /\ k \in Record
  BY RecordFacts
<1>2. j # k
  BY <1>1, RecordFacts
<1>3. CASE k < j
  BY <1>1, <1>3, RecordsInOrder, RecordFacts DEF PlayableOf
<1>4. CASE j < k
  <2>1. recorded[k].sessionID < recorded[j].sessionID
    BY <1>1, RecordFacts
  <2>2. PICK h \in 1..j - 1 : recorded[h].sessionID = recorded[k].sessionID
    BY <1>1, <1>4, <2>1 DEF IsRecording, Record
  <2>3. h \in Record /\ h < j
    BY <1>1, RecordFacts DEF Record
  <2>4. h \in Playable
    BY <2>3 DEF Playable
  <2>5. SessionOf(h) = SessionOf(k)
    BY <1>1, <2>2, <2>3, RecordFacts
  <2>6. TickOf(h) <= TickOf(j)
    BY <1>1, <2>3, RecordsInOrder
  <2>7. h \in PlayableOf(SessionOf(k)) /\ h <= j
    BY <1>1, <2>3, <2>4, <2>5, RecordFacts DEF PlayableOf
  <2>8. QED
    BY <2>6, <2>7
<1>5. QED
  BY <1>1, <1>2, <1>3, <1>4, RecordFacts

-------------------------------------------------------------------------------
(* Which steps change which variables.                                     *)

(* The recording does not change, nor what is said of it alone.            *)
LEMMA RecordingStays ==
  ASSUME recorded' = recorded, source' = source
  PROVE  /\ Record' = Record /\ Playable' = Playable
         /\ \A k : TickOf(k)' = TickOf(k) /\ SessionOf(k)' = SessionOf(k)
         /\ \A s : PlayableOf(s)' = PlayableOf(s)
         /\ \A k, s : Answers(k, s)' = Answers(k, s)
         /\ \A j, k : SameTickOfOneSession(j, k)' = SameTickOfOneSession(j, k)
<1>1. Record' = Record /\ Playable' = Playable
  BY DEF Record, Playable
<1>2. \A k : TickOf(k)' = TickOf(k) /\ SessionOf(k)' = SessionOf(k)
  BY DEF TickOf, SessionOf
<1>3. \A s : PlayableOf(s)' = PlayableOf(s)
  BY <1>1, <1>2 DEF PlayableOf
<1>4. \A k, s : Answers(k, s)' = Answers(k, s)
  BY <1>1, <1>2 DEF Answers
<1>5. \A j, k : SameTickOfOneSession(j, k)' = SameTickOfOneSession(j, k)
  BY <1>2 DEF SameTickOfOneSession
<1>6. QED
  BY <1>1, <1>2, <1>3, <1>4, <1>5

(* Each variable is changed by these actions and left alone by all others. *)
LEMMA Frames ==
  ASSUME Next
  PROVE  /\ recorded' = recorded /\ source' = source
         /\ Load \/ PreUpdateCommanders_Create
              \/ UNCHANGED m_packetInfoListEachSession
         /\ PreUpdateCommanders_Create \/ UpdateCommanders_Remove
              \/ UNCHANGED m_commanders
         /\ PreUpdateCommanders_Create \/ ProcessPacket_Packet
              \/ UNCHANGED m_packetList
         /\ ProcessPacket_Packet \/ UNCHANGED <<m_sendQue, executed>>
         /\ NextTick \/ Tick' = Tick
         /\ NextTick \/ UNCHANGED testTick
         /\ Load \/ NextTick \/ PreUpdateCommanders_End \/ ProcessPacket_End
              \/ UpdateCommanders_End \/ UNCHANGED logicPc
         /\ ProcessPacket_Next \/ ProcessPacket_End \/ UNCHANGED index
         /\ ProcessPacket_Packet \/ UpdateCommanders_End \/ UNCHANGED crashed
<1> USE DEF Next, vars, dataVars, tickVars, loopVars, Load, ServerLogicThread, NextTick,
            PreUpdateCommanders_Create, PreUpdateCommanders_End, ProcessPacket_Packet,
            ProcessPacket_Next, ProcessPacket_End, UpdateCommanders_Remove,
            UpdateCommanders_End, TickDone
<1>1. recorded' = recorded /\ source' = source
  OBVIOUS
<1>2. Load \/ PreUpdateCommanders_Create \/ UNCHANGED m_packetInfoListEachSession
  OBVIOUS
<1>3. PreUpdateCommanders_Create \/ UpdateCommanders_Remove \/ UNCHANGED m_commanders
  OBVIOUS
<1>4. PreUpdateCommanders_Create \/ ProcessPacket_Packet \/ UNCHANGED m_packetList
  OBVIOUS
<1>5. ProcessPacket_Packet \/ UNCHANGED <<m_sendQue, executed>>
  OBVIOUS
<1>6. NextTick \/ Tick' = Tick
  BY <1>1 DEF Tick, Loop_Now, Loop_Sleep, Loop_Done
<1>7. NextTick \/ UNCHANGED testTick
  OBVIOUS
<1>8. \/ Load \/ NextTick \/ PreUpdateCommanders_End \/ ProcessPacket_End
      \/ UpdateCommanders_End \/ UNCHANGED logicPc
  OBVIOUS
<1>9. ProcessPacket_Next \/ ProcessPacket_End \/ UNCHANGED index
  OBVIOUS
<1>10. ProcessPacket_Packet \/ UpdateCommanders_End \/ UNCHANGED crashed
  OBVIOUS
<1>11. QED
  BY ONLY <1>1, <1>2, <1>3, <1>4, <1>5, <1>6, <1>7, <1>8, <1>9, <1>10

(* The tick the handlers are given.                                        *)
LEMMA TickFacts ==
  ASSUME TypeOK
  PROVE  /\ Tick \in Nat
         /\ NextTick => Tick' = Tick + 1 /\ Tick < MaxTick
<1>1. /\ tickCount \in Nat /\ testTick \in Nat /\ source \in {"file", "list"}
  BY BoundsAssumption DEF TypeOK, LoopTypeOK
<1>2. QED
  BY <1>1 DEF Tick, NextTick, Loop_Update

-------------------------------------------------------------------------------

(* What a step says about where the tick is.                               *)
LEMMA PhaseFacts ==
  ASSUME Next
  PROVE  /\ logicPc' # "load"
         /\ logicPc = "load" => Load
         /\ Load => logicPc = "load" /\ logicPc' = "pre"
         /\ logicPc = "create" => PreUpdateCommanders_Create \/ PreUpdateCommanders_End
         /\ PreUpdateCommanders_Create =>
              logicPc = "create" /\ logicPc' = "create" /\ index' = index
         /\ NextTick => logicPc = "pre" /\ logicPc' = "create"
         /\ PreUpdateCommanders_End => logicPc = "create" /\ logicPc' = "process"
         /\ ProcessPacket_Packet \/ ProcessPacket_Next =>
              logicPc = "process" /\ logicPc' = "process"
         /\ ProcessPacket_End => logicPc = "process" /\ logicPc' = "update"
         /\ UpdateCommanders_Remove =>
              logicPc = "update" /\ logicPc' = "update" /\ index' = index
         /\ UpdateCommanders_End => logicPc = "update" /\ logicPc' = "pre"
<1> USE DEF Next, Load, ServerLogicThread, NextTick, AtCommander,
            PreUpdateCommanders_Create, PreUpdateCommanders_End, ProcessPacket_Packet,
            ProcessPacket_Next, ProcessPacket_End, UpdateCommanders_Remove,
            UpdateCommanders_End
<1>1. logicPc' # "load" /\ (logicPc = "load" => Load)
  OBVIOUS
<1>2. logicPc = "create" => PreUpdateCommanders_Create \/ PreUpdateCommanders_End
  OBVIOUS
<1>3. /\ Load => logicPc = "load" /\ logicPc' = "pre"
      /\ PreUpdateCommanders_Create =>
           logicPc = "create" /\ logicPc' = "create" /\ index' = index
      /\ NextTick => logicPc = "pre" /\ logicPc' = "create"
      /\ PreUpdateCommanders_End => logicPc = "create" /\ logicPc' = "process"
      /\ ProcessPacket_Packet \/ ProcessPacket_Next =>
           logicPc = "process" /\ logicPc' = "process"
      /\ ProcessPacket_End => logicPc = "process" /\ logicPc' = "update"
      /\ UpdateCommanders_Remove =>
           logicPc = "update" /\ logicPc' = "update" /\ index' = index
      /\ UpdateCommanders_End => logicPc = "update" /\ logicPc' = "pre"
  OBVIOUS
<1>4. QED
  BY ONLY <1>1, <1>2, <1>3

(* What the reader collects: the records by session from a list, and from  *)
(* a file only what DeSerialize could not read.                            *)
LEMMA LoadFacts ==
  ASSUME TypeOK, Load
  PROVE  /\ m_packetInfoListEachSession' \in [0..MaxSession -> SUBSET (0..Len(recorded))]
         /\ \A s \in Session : List(s)' = PlayableOf(s)
         /\ List(0)' \subseteq {0}
<1> DEFINE infos == IF source = "file" THEN LoadReplayInfo_File ELSE LoadReplayInfo_List
<1>1. m_packetInfoListEachSession' = [s \in 0..MaxSession |-> {k \in infos : SessionOf(k) = s}]
  BY DEF Load, ListsOf
<1>2. infos = Playable \/ (infos \in {{0}, {}} /\ Playable = {})
  <2>1. CASE source = "file"
    <3>1. \A k \in Record : Equals(k, FALSE)
      BY RecordFacts DEF Equals
    <3>2. \A k \in Record : DeSerialize(k) \subseteq {k, 0}
      BY DEF DeSerialize
    <3>3. LoadReplayInfo_File \subseteq {0}
      <4>1. \A k \in LoadReplayInfo_File :
              /\ k = 0 \/ \E j \in Record : k \in DeSerialize(j)
              /\ ~Equals(k, FALSE)
        BY DEF LoadReplayInfo_File
      <4>2. QED
        BY <3>1, <3>2, <4>1
    <3>4. QED
      BY <2>1, <3>3 DEF Playable
  <2>2. CASE source # "file"
    BY <2>2 DEF Playable, LoadReplayInfo_List, TypeOK
  <2>3. QED
    BY <2>1, <2>2
<1> HIDE DEF infos
<1>3. Playable \subseteq 0..Len(recorded) /\ 0 \in 0..Len(recorded)
  BY RecordFacts, LenProperties DEF Record, TypeOK
<1>4. \A s \in 0..MaxSession : List(s)' = {k \in infos : SessionOf(k) = s}
  BY <1>1 DEF List
<1>5. \A s \in Session : List(s)' = PlayableOf(s)
  BY <1>2, <1>4, RecordFacts DEF PlayableOf
<1>6. List(0)' \subseteq {0}
  BY <1>2, <1>4, RecordFacts
<1>7. \A s \in 0..MaxSession : {k \in infos : SessionOf(k) = s} \subseteq 0..Len(recorded)
  BY <1>2, <1>3
<1>8. QED
  BY <1>1, <1>5, <1>6, <1>7

(* Which sessions start: those one of whose records is of this tick.       *)
LEMMA StartingFacts ==
  ASSUME TypeOK, IsRecording(recorded), Lists, logicPc = "create"
  PROVE  /\ Starting \subseteq Session
         /\ \A s \in Session :
              s \in Starting <=> \E k \in List(s) : TickOf(k) = Tick
<1>1. Tick > 0 /\ Tick \in Nat
  BY TickFacts DEF Lists
<1>2. ASSUME 0 \in Starting PROVE FALSE
  <2>1. List(0) # {} /\ TickOf(Min(List(0))) = Tick
    BY <1>2 DEF Starting, StartsAt, List
  <2>2. List(0) \subseteq Nat /\ List(0) \subseteq {0}
    BY DEF Lists
  <2>3. Min(List(0)) \in List(0)
    BY <2>1, <2>2, MinFacts
  <2>4. QED
    BY <1>1, <2>1, <2>2, <2>3, RecordFacts
<1>3. ASSUME NEW s \in Session
      PROVE  s \in Starting <=> \E k \in List(s) : TickOf(k) = Tick
  <2>1. /\ List(s) \subseteq Record /\ List(s) \subseteq Nat
        /\ \A k \in List(s) : TickOf(k) >= Tick
    BY <1>1, RecordFacts DEF Lists, PlayableOf
  <2>2. s \in Starting <=> List(s) # {} /\ TickOf(Min(List(s))) = Tick
    BY RecordFacts DEF Starting, StartsAt, List
  <2>3. CASE List(s) # {}
    <3>1. /\ Min(List(s)) \in List(s)
          /\ \A k \in List(s) : Min(List(s)) <= k
      BY <2>1, <2>3, MinFacts
    <3>2. ASSUME NEW k \in List(s), TickOf(k) = Tick PROVE TickOf(Min(List(s))) = Tick
      <4>1. Min(List(s)) = k \/ Min(List(s)) < k
        BY <2>1, <3>1
      <4>2. TickOf(Min(List(s))) <= TickOf(k)
        BY <2>1, <3>1, <4>1, RecordsInOrder, RecordFacts
      <4>3. TickOf(Min(List(s))) >= Tick /\ TickOf(Min(List(s))) \in Nat
        BY <2>1, <3>1, RecordFacts
      <4>4. QED
        BY <1>1, <3>2, <4>2, <4>3
    <3>3. QED
      BY <2>2, <2>3, <3>1, <3>2
  <2>4. QED
    BY <2>2, <2>3
<1>4. Starting \subseteq 0..MaxSession
  BY DEF Starting
<1>5. \A s \in 0..MaxSession : s = 0 \/ s \in Session
  BY BoundsAssumption DEF Session
<1>6. QED
  BY <1>2, <1>3, <1>4, <1>5

(* The list that becomes a session: it is whole, it starts in this tick,   *)
(* and it is the first of those that do.                                   *)
LEMMA CreateFacts ==
  ASSUME TypeOK, IsRecording(recorded), Lists, PreUpdateCommanders_Create
  PROVE  \E s \in Session :
           /\ List(s) # {} /\ List(s) = PlayableOf(s)
           /\ \E k \in List(s) : TickOf(k) = Tick
           /\ \A t \in Session : t < s => \A k \in List(t) : TickOf(k) > Tick
           /\ m_commanders' = Append(m_commanders, s)
           /\ m_packetList' = [m_packetList EXCEPT ![s] = PlayableOf(s)]
           /\ m_packetInfoListEachSession' = [m_packetInfoListEachSession EXCEPT ![s] = {}]
<1> DEFINE first == Min(Starting)
           list == m_packetInfoListEachSession[first]
<1>1. /\ logicPc = "create" /\ Starting # {}
      /\ m_commanders' = JoinCommanders(SessionID(list))
      /\ m_packetList' = [m_packetList EXCEPT ![SessionID(list)] = list]
      /\ m_packetInfoListEachSession' = [m_packetInfoListEachSession EXCEPT ![first] = {}]
  BY DEF PreUpdateCommanders_Create
<1>2. /\ first \in Starting /\ \A s \in Starting : first <= s
      /\ first \in Session
  <2>1. Starting \subseteq Nat /\ Starting \subseteq Session
    BY <1>1, StartingFacts, RecordFacts
  <2>2. QED
    BY <1>1, <2>1, MinFacts
<1> HIDE DEF first
<1>3. list = List(first)
  BY DEF List
<1> HIDE DEF list
<1>4. \E k \in list : TickOf(k) = Tick
  BY <1>1, <1>2, <1>3, StartingFacts
<1>5. list = PlayableOf(first)
  BY <1>2, <1>3, <1>4 DEF Lists
<1>6. SessionID(list) = first
  <2>1. list # {} /\ list \subseteq Nat /\ \A k \in list : SessionOf(k) = first
    BY <1>4, <1>5, RecordFacts DEF PlayableOf
  <2>2. QED
    BY <2>1, MinFacts DEF SessionID
<1>7. ASSUME NEW t \in Session, t < first, NEW k \in List(t) PROVE TickOf(k) > Tick
  <2>1. t \notin Starting
    BY <1>2, <1>7, RecordFacts
  <2>2. TickOf(k) # Tick
    BY <1>1, <2>1, StartingFacts
  <2>3. QED
    BY <2>2 DEF Lists
<1>8. QED
  BY <1>1, <1>2, <1>3, <1>4, <1>5, <1>6, <1>7 DEF JoinCommanders

(* The packet that is executed: one of the current commander, of this tick.*)
LEMMA PacketFacts ==
  ASSUME TypeOK, ProcessPacket_Packet
  PROVE  /\ index \in 1..Len(m_commanders) /\ Current \in Session
         /\ Current = m_commanders[index] /\ ~crashed
         /\ \E k \in m_packetList[Current] :
              /\ k \in Record /\ TickOf(k) = Tick
              /\ executed' = Append(executed, [record |-> k, tick |-> Tick])
              /\ m_packetList' = [m_packetList EXCEPT ![Current] = @ \ {k}]
              /\ m_sendQue' = [s \in Session |-> PostSend(k, s)]
              /\ crashed' = (recorded[k].command = "MOVE" /\ ~HasCharacter(Current))
              /\ Executed' = Executed \cup {k}
<1>1. /\ index \in 1..Len(m_commanders) /\ ~crashed
      /\ m_commanders \in Seq(Session)
      /\ m_packetList \in [Session -> SUBSET Record]
      /\ executed \in Seq([record : Record, tick : 1..MaxTick])
  BY LenProperties DEF TypeOK, ProcessPacket_Packet, AtCommander
<1>2. Current \in Session
  BY <1>1, ElementOfSeq DEF Current
<1>3. PICK k \in Top(Current) :
         /\ TickOf(k) = Tick
         /\ executed' = Append(executed, [record |-> k, tick |-> Tick])
         /\ m_packetList' = [m_packetList EXCEPT ![Current] = @ \ {k}]
         /\ m_sendQue' = [s \in Session |-> PostSend(k, s)]
         /\ crashed' = (recorded[k].command = "MOVE" /\ ~HasCharacter(Current))
  BY DEF ProcessPacket_Packet
<1>4. k \in m_packetList[Current] /\ k \in Record
  BY <1>1, <1>2, <1>3 DEF Top
<1> DEFINE e == [record |-> k, tick |-> Tick]
           Event == [record : Record, tick : 1..MaxTick]
<1>5. e \in Event /\ e.record = k /\ executed' = Append(executed, e)
  BY <1>3, <1>4, RecordFacts
<1>6. executed \in Seq(Event)
  BY <1>1
<1> HIDE DEF e, Event
<1>7. Executed' = Executed \cup {k}
  <2>1. \A x : x \in Executed' <=> \E d \in ToSet(executed') : x = d.record
    BY DEF Executed
  <2>2. \A x : x \in Executed <=> \E d \in ToSet(executed) : x = d.record
    BY DEF Executed
  <2>3. ToSet(executed') = ToSet(executed) \cup {e}
    BY <1>5, <1>6, ToSetJoined
  <2>4. \A x : x \in Executed' <=> x \in Executed \/ x = k
    BY <1>5, <2>1, <2>2, <2>3
  <2>5. QED
    BY <2>4
<1>8. QED
  BY <1>1, <1>2, <1>3, <1>4, <1>7 DEF Current

(* The records that were executed, by their places.                        *)
LEMMA ExecutedFacts ==
  ASSUME TypeOK
  PROVE  /\ Executed \subseteq Record
         /\ \A k : k \in Executed <=> \E i \in 1..Len(executed) : executed[i].record = k
<1>1. executed \in Seq([record : Record, tick : 1..MaxTick])
  BY DEF TypeOK
<1>2. \A e : e \in ToSet(executed) <=> \E i \in 1..Len(executed) : executed[i] = e
  BY <1>1, ToSetFacts
<1>3. \A i \in 1..Len(executed) : executed[i].record \in Record
  <2>1. \A i \in 1..Len(executed) : executed[i] \in [record : Record, tick : 1..MaxTick]
    BY <1>1, ElementOfSeq
  <2>2. QED
    BY <2>1
<1>4. QED
  BY <1>2, <1>3 DEF Executed


-------------------------------------------------------------------------------
(* The steps keep each part of the invariant.                              *)

LEMMA TypeStep ==
  ASSUME TypeOK, IsRecording(recorded), Lists, Progress, LoopInv', Next
  PROVE  TypeOK'
<1>0. /\ recorded \in Seq(Info(Text \cup {"plain"})) /\ source \in {"file", "list"}
      /\ m_packetInfoListEachSession \in [0..MaxSession -> SUBSET (0..Len(recorded))]
      /\ testTick \in 0..MaxTick
      /\ m_commanders \in Seq(Session)
      /\ m_packetList \in [Session -> SUBSET Record]
      /\ m_sendQue \in [Session -> Seq(Record)]
      /\ index \in 1..Len(m_commanders) + 1
      /\ executed \in Seq([record : Record, tick : 1..MaxTick])
  BY DEF TypeOK
<1>1. recorded' = recorded /\ source' = source /\ Record' = Record
  BY Frames, RecordingStays
<1>2. m_packetInfoListEachSession' \in [0..MaxSession -> SUBSET (0..Len(recorded))]
  <2>1. CASE Load
    BY <2>1, LoadFacts
  <2>2. CASE PreUpdateCommanders_Create
    BY <1>0, <2>2, CreateFacts
  <2>3. CASE ~(Load \/ PreUpdateCommanders_Create)
    BY <1>0, <2>3, Frames
  <2>4. QED
    BY <2>1, <2>2, <2>3
<1>3. testTick' \in 0..MaxTick
  <2>1. CASE NextTick
    BY <1>0, <2>1, TickFacts, RecordFacts DEF NextTick, Tick
  <2>2. CASE ~NextTick
    BY <1>0, <2>2, Frames
  <2>3. QED
    BY <2>1, <2>2
<1>4. m_commanders' \in Seq(Session) /\ index' \in 1..Len(m_commanders') + 1
  <2>1. CASE PreUpdateCommanders_Create
    <3>1. PICK s \in Session : m_commanders' = Append(m_commanders, s)
      BY <2>1, CreateFacts
    <3>2. /\ m_commanders' \in Seq(Session) /\ Len(m_commanders') = Len(m_commanders) + 1
          /\ index' = index
      BY <1>0, <2>1, <3>1, AppendFacts, PhaseFacts
    <3>3. QED
      BY <1>0, <3>2, LenProperties
  <2>2. CASE UpdateCommanders_Remove
    <3>1. PICK i \in 1..Len(m_commanders) : m_commanders' = RemoveAt(m_commanders, i)
      BY <2>2 DEF UpdateCommanders_Remove
    <3>2. m_commanders' \in Seq(Session) /\ Len(m_commanders') \in Nat
      BY <1>0, <3>1, RemoveAtFacts, LenProperties
    <3>3. index = 1 /\ index' = index
      BY <2>2, PhaseFacts DEF Progress
    <3>4. QED
      BY <3>2, <3>3
  <2>3. CASE ProcessPacket_Next
    <3>1. index' = index + 1 /\ index <= Len(m_commanders) /\ m_commanders' = m_commanders
      BY <2>3 DEF ProcessPacket_Next, AtCommander, dataVars
    <3>2. QED
      BY <1>0, <3>1, LenProperties
  <2>4. CASE ProcessPacket_End
    <3>1. index' = 1 /\ m_commanders' = m_commanders
      BY <2>4 DEF ProcessPacket_End, dataVars
    <3>2. QED
      BY <1>0, <3>1, LenProperties
  <2>5. CASE ~(\/ PreUpdateCommanders_Create \/ UpdateCommanders_Remove
               \/ ProcessPacket_Next \/ ProcessPacket_End)
    BY <1>0, <2>5, Frames
  <2>6. QED
    BY <2>1, <2>2, <2>3, <2>4, <2>5
<1>5. m_packetList' \in [Session -> SUBSET Record]
  <2>1. CASE PreUpdateCommanders_Create
    <3>1. \A s \in Session : PlayableOf(s) \subseteq Record
      BY RecordFacts DEF PlayableOf
    <3>2. QED
      BY <1>0, <2>1, <3>1, CreateFacts
  <2>2. CASE ProcessPacket_Packet
    BY <1>0, <2>2, PacketFacts
  <2>3. CASE ~(PreUpdateCommanders_Create \/ ProcessPacket_Packet)
    BY <1>0, <2>3, Frames
  <2>4. QED
    BY <2>1, <2>2, <2>3
<1>6. /\ m_sendQue' \in [Session -> Seq(Record)]
      /\ executed' \in Seq([record : Record, tick : 1..MaxTick])
  <2>1. CASE ProcessPacket_Packet
    <3>1. PICK k \in Record :
            /\ TickOf(k) = Tick
            /\ executed' = Append(executed, [record |-> k, tick |-> Tick])
            /\ m_sendQue' = [s \in Session |-> PostSend(k, s)]
      BY <2>1, PacketFacts
    <3>2. \A s \in Session : PostSend(k, s) \in Seq(Record)
      BY <1>0, <3>1, AppendFacts DEF PostSend
    <3>3. [record |-> k, tick |-> Tick] \in [record : Record, tick : 1..MaxTick]
      BY <3>1, RecordFacts
    <3>4. QED
      BY <1>0, <3>1, <3>2, <3>3, AppendFacts
  <2>2. CASE ~ProcessPacket_Packet
    BY <1>0, <2>2, Frames
  <2>3. QED
    BY <2>1, <2>2
<1>7. logicPc' \in {"load", "pre", "create", "process", "update"}
  BY Frames, PhaseFacts DEF TypeOK
<1>8. crashed' \in BOOLEAN
  BY Frames DEF TypeOK, ProcessPacket_Packet, UpdateCommanders_End
<1>9. LoopTypeOK'
  BY DEF LoopInv
<1>10. QED
  BY <1>0, <1>1, <1>2, <1>3, <1>4, <1>5, <1>6, <1>7, <1>8, <1>9 DEF TypeOK

(* A list becomes a session as a whole, in the tick of its first record.   *)
LEMMA ListsStep ==
  ASSUME TypeOK, IsRecording(recorded), Lists, Next
  PROVE  Lists'
<1>0. /\ logicPc' # "load" /\ (logicPc = "load" => Load)
      /\ \A k : TickOf(k)' = TickOf(k)
      /\ \A s : PlayableOf(s)' = PlayableOf(s)
      /\ \A s \in Session : PlayableOf(s) \subseteq Record
      /\ Tick \in Nat
      /\ \A k \in Record : TickOf(k) \in Nat \ {0}
  BY Frames, RecordingStays, PhaseFacts, RecordFacts, TickFacts DEF PlayableOf
<1>1. /\ List(0) \subseteq {0}
      /\ \A s \in Session :
           /\ List(s) \in {{}, PlayableOf(s)}
           /\ \A k \in List(s) : TickOf(k) > Tick \/ (logicPc = "create" /\ TickOf(k) = Tick)
           /\ Joined(s) => \E k \in PlayableOf(s) : TickOf(k) <= Tick
  BY DEF Lists
<1>2. CASE Load
  <2>1. Tick' = Tick /\ Tick = 0 /\ logicPc' = "pre"
    <3>1. ~NextTick /\ logicPc = "load" /\ logicPc' = "pre"
      BY <1>2, PhaseFacts
    <3>2. QED
      BY <3>1, Frames DEF Lists
  <2>2. List(0)' \subseteq {0} /\ \A s \in Session : List(s)' = PlayableOf(s)
    BY <1>2, LoadFacts
  <2>3. \A s \in Session : ~Joined(s)'
    BY <1>0, <2>2 DEF Joined
  <2>4. \A s \in Session : \A k \in List(s)' : TickOf(k)' > Tick'
    BY <1>0, <2>1, <2>2
  <2>5. QED
    BY <1>0, <2>1, <2>2, <2>3, <2>4 DEF Lists
<1>3. CASE PreUpdateCommanders_Create
  <2>1. Tick' = Tick /\ logicPc = "create" /\ logicPc' = "create" /\ Tick > 0
    <3>1. ~NextTick /\ logicPc = "create" /\ logicPc' = "create"
      BY <1>3, PhaseFacts
    <3>2. QED
      BY <3>1, Frames DEF Lists
  <2>2. PICK s \in Session :
          /\ List(s) = PlayableOf(s) /\ \E k \in List(s) : TickOf(k) = Tick
          /\ m_packetInfoListEachSession' = [m_packetInfoListEachSession EXCEPT ![s] = {}]
    BY <1>3, CreateFacts
  <2>3. \A t \in 0..MaxSession : List(t)' = IF t = s THEN {} ELSE List(t)
    BY <2>2 DEF List, TypeOK
  <2>4. List(0)' = List(0) /\ \A t \in Session : List(t)' = IF t = s THEN {} ELSE List(t)
    BY <2>3, RecordFacts
  <2>5. \A t \in Session : Joined(t)' => \E k \in PlayableOf(t) : TickOf(k) <= Tick
    BY <1>0, <1>1, <2>1, <2>2, <2>4 DEF Joined
  <2>6. QED
    BY <1>0, <1>1, <2>1, <2>4, <2>5 DEF Lists
<1>4. CASE NextTick
  <2>1. /\ Tick' = Tick + 1 /\ logicPc = "pre" /\ logicPc' = "create"
        /\ \A s : List(s)' = List(s)
    BY <1>4, TickFacts, PhaseFacts DEF NextTick, dataVars, List
  <2>2. \A s \in Session : Joined(s)' <=> Joined(s)
    BY <1>0, <2>1 DEF Joined
  <2>3. \A s \in Session : \A k \in List(s) : TickOf(k) > Tick' \/ TickOf(k) = Tick'
    <3>1. \A m, n \in Nat : m > n => m > n + 1 \/ m = n + 1
      OBVIOUS
    <3>2. \A s \in Session : \A k \in List(s) : TickOf(k) > Tick /\ TickOf(k) \in Nat
      BY <1>0, <1>1, <2>1
    <3>3. QED
      BY <1>0, <2>1, <3>1, <3>2
  <2>4. \A s \in Session : Joined(s) => \E k \in PlayableOf(s) : TickOf(k) <= Tick'
    <3>1. \A m, n \in Nat : m <= n => m <= n + 1
      OBVIOUS
    <3>2. QED
      BY <1>0, <1>1, <2>1, <3>1
  <2>5. Tick' > 0
    BY <1>0, <2>1
  <2>6. QED
    BY <1>0, <1>1, <2>1, <2>2, <2>3, <2>4, <2>5 DEF Lists
<1>5. CASE PreUpdateCommanders_End
  <2>1. /\ logicPc = "create" /\ logicPc' = "process" /\ Starting = {}
        /\ \A s : List(s)' = List(s)
    BY <1>5, PhaseFacts DEF PreUpdateCommanders_End, dataVars, List
  <2>2. Tick' = Tick
    BY <2>1, Frames, PhaseFacts
  <2>3. \A s \in Session : Joined(s)' <=> Joined(s)
    BY <1>0, <2>1 DEF Joined
  <2>4. \A s \in Session : \A k \in List(s) : TickOf(k) > Tick
    BY <1>1, <2>1, StartingFacts
  <2>5. QED
    BY <1>0, <1>1, <2>1, <2>2, <2>3, <2>4 DEF Lists
<1>6. CASE ~(Load \/ PreUpdateCommanders_Create \/ NextTick \/ PreUpdateCommanders_End)
  <2>1. /\ Tick' = Tick /\ \A s : List(s)' = List(s)
        /\ logicPc # "create" /\ logicPc # "load"
    BY <1>6, Frames, PhaseFacts DEF List
  <2>2. logicPc' # "create"
    BY <1>6, <2>1, Frames, PhaseFacts
  <2>3. \A s \in Session : Joined(s)' <=> Joined(s)
    BY <1>0, <2>1 DEF Joined
  <2>4. QED
    BY <1>0, <1>1, <2>1, <2>2, <2>3 DEF Lists
<1>7. QED
  BY <1>2, <1>3, <1>4, <1>5, <1>6


(* Sessions are made by PreUpdateCommanders only.                          *)
LEMMA JoinedFacts ==
  ASSUME TypeOK, Lists, Next, ~PreUpdateCommanders_Create, NEW s \in Session
  PROVE  /\ Joined(s)' <=> Joined(s)
         /\ ~Load => List(s)' = List(s)
<1>1. /\ logicPc' # "load" /\ (logicPc = "load" => Load)
      /\ PlayableOf(s)' = PlayableOf(s)
      /\ Load => logicPc = "load"
  BY Frames, RecordingStays, PhaseFacts
<1>2. CASE Load
  BY <1>1, <1>2, LoadFacts DEF Joined
<1>3. CASE ~Load
  <2>1. List(s)' = List(s)
    BY <1>3, Frames DEF List
  <2>2. QED
    BY <1>1, <1>3, <2>1 DEF Joined
<1>4. QED
  BY <1>2, <1>3

(* A session whose list is still there has a higher id than the one that   *)
(* starts now: the recorded server gave ids in order.                      *)
LEMMA LaterIsHigher ==
  ASSUME TypeOK, IsRecording(recorded), Lists, logicPc = "create",
         NEW s \in Session, List(s) = PlayableOf(s), \E k \in List(s) : TickOf(k) = Tick,
         \A t \in Session : t < s => \A k \in List(t) : TickOf(k) > Tick,
         NEW t \in Session, t # s, List(t) # {}
  PROVE  s < t
<1>1. SUFFICES ASSUME t < s PROVE FALSE
  BY RecordFacts
<1>2. PICK j \in PlayableOf(s) : TickOf(j) = Tick
  OBVIOUS
<1>3. List(t) = PlayableOf(t)
  BY DEF Lists
<1>4. PICK k \in PlayableOf(t) : TRUE
  BY <1>3
<1>5. j \in Playable /\ k \in Playable /\ SessionOf(k) = t /\ SessionOf(j) = s
  BY <1>2, <1>4 DEF PlayableOf
<1>6. PICK h \in PlayableOf(t) : TickOf(h) <= TickOf(j)
  BY <1>1, <1>5, SessionsInOrder
<1>7. TickOf(h) > Tick /\ h \in Record /\ j \in Record
  BY <1>1, <1>3, <1>5, <1>6, RecordFacts DEF PlayableOf
<1>8. TickOf(h) \in Nat /\ Tick \in Nat
  BY <1>7, RecordFacts, TickFacts
<1>9. QED
  BY <1>2, <1>6, <1>7, <1>8

LEMMA CommandersStep ==
  ASSUME TypeOK, IsRecording(recorded), Lists, Commanders, Progress, Next
  PROVE  Commanders'
<1>0. /\ recorded' = recorded
      /\ \A k : TickOf(k)' = TickOf(k)
      /\ \A s : PlayableOf(s)' = PlayableOf(s)
      /\ \A s \in Session : PlayableOf(s) \subseteq Record
      /\ Tick \in Nat
      /\ \A k \in Record : TickOf(k) \in Nat \ {0}
      /\ m_commanders \in Seq(Session)
      /\ ToSet(m_commanders) \subseteq Session
      /\ Session \subseteq Nat \ {0}
  BY Frames, RecordingStays, RecordFacts, TickFacts, ToSetFacts DEF PlayableOf, TypeOK
<1>1. /\ \A i, j \in 1..Len(m_commanders) : i < j => m_commanders[i] < m_commanders[j]
      /\ \A t \in ToSet(m_commanders) :
           /\ Joined(t)
           /\ \A s \in Session : List(s) # {} => t < s
           /\ \A k \in PlayableOf(t) : recorded[k].command = "LOGOUT" =>
                TickOf(k) > Tick \/ (TickOf(k) = Tick /\ logicPc # "pre")
      /\ \A s \in Session : Joined(s) /\ s \notin ToSet(m_commanders) =>
           \E k \in PlayableOf(s) :
             /\ recorded[k].command = "LOGOUT"
             /\ TickOf(k) < Tick \/ (TickOf(k) = Tick /\ logicPc \in {"pre", "update"})
  BY DEF Commanders
<1>2. CASE PreUpdateCommanders_Create
  <2>1. logicPc = "create" /\ logicPc' = "create" /\ Tick' = Tick
    <3>1. ~NextTick /\ logicPc = "create" /\ logicPc' = "create"
      BY <1>2, PhaseFacts
    <3>2. QED
      BY <3>1, Frames
  <2>2. PICK m \in Session :
          /\ List(m) # {} /\ List(m) = PlayableOf(m)
          /\ \E k \in List(m) : TickOf(k) = Tick
          /\ \A t \in Session : t < m => \A k \in List(t) : TickOf(k) > Tick
          /\ m_commanders' = Append(m_commanders, m)
          /\ m_packetInfoListEachSession' = [m_packetInfoListEachSession EXCEPT ![m] = {}]
    BY <1>2, CreateFacts
  <2>3. \A t \in Session : List(t)' = IF t = m THEN {} ELSE List(t)
    BY <2>2, RecordFacts DEF List, TypeOK
  <2>4. \A t \in Session : Joined(t)' <=> Joined(t) \/ t = m
    BY <1>0, <2>1, <2>2, <2>3 DEF Joined
  <2>5. /\ Len(m_commanders') = Len(m_commanders) + 1
        /\ m_commanders'[Len(m_commanders) + 1] = m
        /\ \A i \in 1..Len(m_commanders) : m_commanders'[i] = m_commanders[i]
        /\ ToSet(m_commanders') = ToSet(m_commanders) \cup {m}
        /\ \A i \in 1..Len(m_commanders) : m_commanders[i] \in ToSet(m_commanders)
    BY <1>0, <2>2, AppendFacts, ToSetJoined, ToSetFacts
  <2>6. ASSUME NEW i \in 1..Len(m_commanders'), NEW j \in 1..Len(m_commanders'), i < j
        PROVE  m_commanders'[i] < m_commanders'[j]
    <3>1. Len(m_commanders) \in Nat
      BY <1>0, LenProperties
    <3>2. i \in 1..Len(m_commanders) /\ (j \in 1..Len(m_commanders) \/ j = Len(m_commanders) + 1)
      BY <2>5, <2>6, <3>1
    <3>3. m_commanders[i] < m
      BY <1>1, <2>2, <2>5, <3>2
    <3>4. QED
      BY <1>1, <2>5, <2>6, <3>2, <3>3
  <2>7. ASSUME NEW t \in ToSet(m_commanders'), NEW s \in Session, List(s)' # {}
        PROVE  t < s
    <3>1. s # m /\ List(s) # {}
      BY <2>3, <2>7
    <3>2. CASE t = m
      BY <2>1, <2>2, <3>1, <3>2, LaterIsHigher
    <3>3. CASE t # m
      BY <1>1, <2>5, <3>1, <3>3
    <3>4. QED
      BY <3>2, <3>3
  <2>8. ASSUME NEW t \in ToSet(m_commanders'), NEW k \in PlayableOf(t),
               recorded[k].command = "LOGOUT"
        PROVE  TickOf(k) > Tick \/ TickOf(k) = Tick
    <3>1. CASE t = m
      BY <2>2, <3>1 DEF Lists
    <3>2. CASE t # m
      BY <1>1, <2>5, <2>8, <3>2
    <3>3. QED
      BY <3>1, <3>2
  <2>9. \A t \in ToSet(m_commanders') : Joined(t)'
    BY <1>0, <1>1, <2>4, <2>5
  <2>10. ASSUME NEW s \in Session, Joined(s)', s \notin ToSet(m_commanders')
         PROVE  \E k \in PlayableOf(s) : recorded[k].command = "LOGOUT" /\ TickOf(k) < Tick
    BY <1>1, <2>1, <2>4, <2>5, <2>10
  <2>11. QED
    BY <1>0, <2>1, <2>6, <2>7, <2>8, <2>9, <2>10 DEF Commanders
<1>3. CASE UpdateCommanders_Remove
  <2>1. /\ logicPc = "update" /\ logicPc' = "update" /\ Tick' = Tick
        /\ ~PreUpdateCommanders_Create /\ ~Load
    <3>1. /\ logicPc = "update" /\ logicPc' = "update"
          /\ ~NextTick /\ ~PreUpdateCommanders_Create /\ ~Load
      BY <1>3, PhaseFacts
    <3>2. QED
      BY <3>1, Frames
  <2>2. PICK i \in 1..Len(m_commanders) :
          IsReadyDie(m_commanders[i]) /\ m_commanders' = RemoveAt(m_commanders, i)
    BY <1>3 DEF UpdateCommanders_Remove
  <2>3. \A s \in Session : (Joined(s)' <=> Joined(s)) /\ List(s)' = List(s)
    BY <2>1, JoinedFacts
  <2>4. \A j, k \in 1..Len(m_commanders) : m_commanders[j] = m_commanders[k] => j = k
    <3>1. \A j, k \in 1..Len(m_commanders) : j < k \/ j = k \/ k < j
      OBVIOUS
    <3>2. \A j \in 1..Len(m_commanders) : m_commanders[j] \in Nat
      BY <1>0, ElementOfSeq
    <3>3. QED
      BY <1>1, <3>1, <3>2
  <2>5. ToSet(m_commanders') = ToSet(m_commanders) \ {m_commanders[i]}
    BY <1>0, <2>2, <2>4, ToSetRemoved
  <2>6. /\ Len(m_commanders') = Len(m_commanders) - 1
        /\ \A j \in 1..Len(m_commanders) - 1 :
             m_commanders'[j] = IF j < i THEN m_commanders[j] ELSE m_commanders[j + 1]
    BY <1>0, <2>2, RemoveAtFacts
  <2>7. ASSUME NEW j \in 1..Len(m_commanders'), NEW k \in 1..Len(m_commanders'), j < k
        PROVE  m_commanders'[j] < m_commanders'[k]
    <3>1. Len(m_commanders) \in Nat
      BY <1>0, LenProperties
    <3>2. /\ j \in 1..Len(m_commanders) /\ j + 1 \in 1..Len(m_commanders)
          /\ k \in 1..Len(m_commanders) /\ k + 1 \in 1..Len(m_commanders)
          /\ j < k /\ j < k + 1 /\ j + 1 < k + 1 /\ (k < i => j < i)
          /\ j \in 1..Len(m_commanders) - 1 /\ k \in 1..Len(m_commanders) - 1
      BY <2>6, <2>7, <3>1
    <3>3. QED
      BY <1>1, <2>6, <3>2
  <2>8. \E k \in PlayableOf(m_commanders[i]) :
          /\ recorded[k].command = "LOGOUT"
          /\ TickOf(k) < Tick \/ TickOf(k) = Tick
    <3>1. PICK k \in Executed : SessionOf(k) = m_commanders[i] /\ recorded[k].command = "LOGOUT"
      BY <2>2 DEF IsReadyDie
    <3>2. k \in Playable /\ TickOf(k) <= Tick /\ TickOf(k) \in Nat
      BY <1>0, RecordFacts DEF Progress
    <3>3. k \in PlayableOf(m_commanders[i])
      BY <3>1, <3>2 DEF PlayableOf
    <3>4. QED
      BY <1>0, <3>1, <3>2, <3>3
  <2>9. ASSUME NEW s \in Session, Joined(s)', s \notin ToSet(m_commanders')
        PROVE  \E k \in PlayableOf(s) :
                 /\ recorded[k].command = "LOGOUT"
                 /\ TickOf(k) < Tick \/ TickOf(k) = Tick
    BY <1>1, <2>3, <2>5, <2>8, <2>9
  <2>10. QED
    BY <1>0, <1>1, <2>1, <2>3, <2>5, <2>7, <2>9 DEF Commanders
<1>4. CASE Load
  <2>1. m_commanders = <<>> /\ m_commanders' = <<>> /\ ~PreUpdateCommanders_Create
    BY <1>4, PhaseFacts DEF Load, Lists
  <2>2. ToSet(m_commanders') = {} /\ \A i \in 1..Len(m_commanders') : FALSE
    <3>1. ToSet(<<>>) = {} /\ \A i \in 1..Len(<<>>) : FALSE
      BY DEF ToSet
    <3>2. QED
      BY <2>1, <3>1
  <2>3. \A s \in Session : ~Joined(s)'
    BY <1>4, <2>1, JoinedFacts, PhaseFacts DEF Joined
  <2>4. QED
    BY <2>2, <2>3 DEF Commanders
<1>5. ASSUME ~PreUpdateCommanders_Create, ~UpdateCommanders_Remove, ~Load
      PROVE  /\ m_commanders' = m_commanders
             /\ \A s \in Session : (Joined(s)' <=> Joined(s)) /\ List(s)' = List(s)
  BY <1>5, Frames, JoinedFacts
<1>6. CASE NextTick
  <2>1. /\ logicPc = "pre" /\ logicPc' = "create" /\ Tick' = Tick + 1
        /\ ~PreUpdateCommanders_Create /\ ~UpdateCommanders_Remove /\ ~Load
    BY <1>6, PhaseFacts, TickFacts
  <2>2. /\ \A n \in Nat : n > Tick => n > Tick' \/ n = Tick'
        /\ \A n \in Nat : n < Tick \/ n = Tick => n < Tick'
    <3>1. \A m, n \in Nat : n > m => n > m + 1 \/ n = m + 1
      OBVIOUS
    <3>2. \A m, n \in Nat : n < m \/ n = m => n < m + 1
      OBVIOUS
    <3>3. QED
      BY <1>0, <2>1, <3>1, <3>2
  <2>3. \A t \in ToSet(m_commanders) : \A k \in PlayableOf(t) :
          recorded[k].command = "LOGOUT" => TickOf(k) > Tick' \/ TickOf(k) = Tick'
    BY <1>0, <1>1, <2>1, <2>2
  <2>4. \A s \in Session : Joined(s) /\ s \notin ToSet(m_commanders) =>
          \E k \in PlayableOf(s) : recorded[k].command = "LOGOUT" /\ TickOf(k) < Tick'
    BY <1>0, <1>1, <2>1, <2>2
  <2>5. QED
    BY <1>0, <1>1, <1>5, <2>1, <2>3, <2>4 DEF Commanders
<1>7. CASE UpdateCommanders_End
  <2>1. /\ logicPc = "update" /\ logicPc' = "pre" /\ Tick' = Tick
        /\ ~PreUpdateCommanders_Create /\ ~UpdateCommanders_Remove /\ ~Load
    <3>1. /\ logicPc = "update" /\ logicPc' = "pre" /\ ~NextTick
          /\ ~PreUpdateCommanders_Create /\ ~UpdateCommanders_Remove /\ ~Load
      BY <1>7, PhaseFacts
    <3>2. QED
      BY <3>1, Frames
  <2>2. ASSUME NEW t \in ToSet(m_commanders), NEW k \in PlayableOf(t),
               recorded[k].command = "LOGOUT"
        PROVE  TickOf(k) > Tick
    <3>1. TickOf(k) > Tick \/ TickOf(k) = Tick
      BY <1>1, <2>2
    <3>2. ~IsReadyDie(t)
      BY <1>7 DEF UpdateCommanders_End
    <3>3. k \in Playable /\ SessionOf(k) = t
      BY DEF PlayableOf
    <3>4. k \notin Executed
      BY <2>2, <3>2, <3>3 DEF IsReadyDie
    <3>5. TickOf(k) # Tick
      BY <2>1, <3>3, <3>4 DEF Progress
    <3>6. QED
      BY <3>1, <3>5
  <2>3. QED
    BY <1>0, <1>1, <1>5, <2>1, <2>2 DEF Commanders
<1>8. CASE ~(\/ PreUpdateCommanders_Create \/ UpdateCommanders_Remove \/ Load
             \/ NextTick \/ UpdateCommanders_End)
  <2>1. /\ Tick' = Tick
        /\ logicPc # "pre" => logicPc' # "pre"
        /\ logicPc \in {"pre", "update"} => logicPc' \in {"pre", "update"}
    BY <1>8, Frames, PhaseFacts
  <2>2. QED
    BY <1>0, <1>1, <1>5, <1>8, <2>1 DEF Commanders
<1>9. QED
  BY <1>2, <1>3, <1>4, <1>6, <1>7, <1>8

LEMMA PacketsStep ==
  ASSUME TypeOK, IsRecording(recorded), Lists, Progress, Packets, Next
  PROVE  Packets'
<1>0. /\ \A k : TickOf(k)' = TickOf(k)
      /\ \A s : PlayableOf(s)' = PlayableOf(s)
      /\ m_packetList \in [Session -> SUBSET Record]
      /\ \A s \in Session : m_packetList[s] = IF Joined(s) THEN PlayableOf(s) \ Executed ELSE {}
  BY Frames, RecordingStays DEF TypeOK, Packets
<1>1. CASE PreUpdateCommanders_Create
  <2>1. logicPc = "create" /\ logicPc' = "create" /\ Executed' = Executed
    BY <1>1, Frames, PhaseFacts DEF Executed
  <2>2. PICK m \in Session :
          /\ List(m) # {} /\ List(m) = PlayableOf(m)
          /\ m_packetList' = [m_packetList EXCEPT ![m] = PlayableOf(m)]
          /\ m_packetInfoListEachSession' = [m_packetInfoListEachSession EXCEPT ![m] = {}]
    BY <1>1, CreateFacts
  <2>3. \A t \in Session : List(t)' = IF t = m THEN {} ELSE List(t)
    BY <2>2, RecordFacts DEF List, TypeOK
  <2>4. \A t \in Session : Joined(t)' <=> Joined(t) \/ t = m
    BY <1>0, <2>1, <2>2, <2>3 DEF Joined
  <2>5. PlayableOf(m) \ Executed = PlayableOf(m)
    <3>1. \A k \in PlayableOf(m) : TickOf(k) >= Tick /\ TickOf(k) \in Nat
      BY <2>2, RecordFacts, TickFacts DEF Lists, PlayableOf
    <3>2. \A k \in Executed : TickOf(k) < Tick
      BY <2>1 DEF Progress
    <3>3. \A k \in PlayableOf(m) : k \notin Executed
      BY <3>1, <3>2, TickFacts
    <3>4. QED
      BY <3>3
  <2>6. \A t \in Session : m_packetList'[t] = IF t = m THEN PlayableOf(m) ELSE m_packetList[t]
    BY <1>0, <2>2
  <2>7. QED
    BY <1>0, <2>1, <2>4, <2>5, <2>6 DEF Packets
<1>2. CASE ProcessPacket_Packet
  <2>1. \A s \in Session : Joined(s)' <=> Joined(s)
    BY <1>2, JoinedFacts, PhaseFacts
  <2>2. PICK k \in m_packetList[Current] :
          /\ k \in Record
          /\ m_packetList' = [m_packetList EXCEPT ![Current] = @ \ {k}]
          /\ Executed' = Executed \cup {k}
    BY <1>2, PacketFacts
  <2>3. Current \in Session
    BY <1>2, PacketFacts
  <2>4. SessionOf(k) = Current
    BY <1>0, <2>2, <2>3 DEF PlayableOf
  <2>5. \A s \in Session : m_packetList'[s] = m_packetList[s] \ {k}
    <3>1. \A s \in Session : s # Current => k \notin m_packetList[s]
      BY <1>0, <2>4 DEF PlayableOf
    <3>2. \A s \in Session :
            m_packetList'[s] = IF s = Current THEN m_packetList[s] \ {k} ELSE m_packetList[s]
      BY <1>0, <2>2
    <3>3. QED
      BY <3>1, <3>2
  <2>6. QED
    BY <1>0, <2>1, <2>2, <2>5 DEF Packets
<1>3. CASE ~(PreUpdateCommanders_Create \/ ProcessPacket_Packet)
  <2>1. m_packetList' = m_packetList /\ Executed' = Executed
    BY <1>3, Frames DEF Executed
  <2>2. \A s \in Session : Joined(s)' <=> Joined(s)
    BY <1>3, JoinedFacts
  <2>3. QED
    BY <1>0, <2>1, <2>2 DEF Packets
<1>4. QED
  BY <1>1, <1>2, <1>3

(* Whoever has a record of this tick is served in this tick.               *)
LEMMA InTickServed ==
  ASSUME TypeOK, IsRecording(recorded), Lists, Commanders, logicPc = "process",
         NEW k \in Playable, TickOf(k) = Tick
  PROVE  \E i \in 1..Len(m_commanders) : m_commanders[i] = SessionOf(k)
<1> DEFINE s == SessionOf(k)
<1>1. k \in Record /\ s \in Session /\ k \in PlayableOf(s) /\ Tick \in Nat
  BY RecordFacts, TickFacts DEF PlayableOf
<1>2. s = SessionOf(k)
  OBVIOUS
<1> HIDE DEF s
<1>3. Joined(s)
  <2>1. \A j \in List(s) : TickOf(j) > Tick
    BY <1>1 DEF Lists
  <2>2. k \notin List(s)
    BY <1>1, <2>1
  <2>3. List(s) = {}
    BY <1>1, <2>2 DEF Lists
  <2>4. QED
    BY <1>1, <2>3 DEF Joined
<1>4. s \in ToSet(m_commanders)
  <2>1. SUFFICES ASSUME s \notin ToSet(m_commanders) PROVE FALSE
    OBVIOUS
  <2>2. PICK j \in PlayableOf(s) : recorded[j].command = "LOGOUT" /\ TickOf(j) < Tick
    BY <1>1, <1>3, <2>1 DEF Commanders
  <2>3. j \in Record /\ SessionOf(j) = s
    BY RecordFacts DEF PlayableOf
  <2>4. TickOf(k) <= TickOf(j)
    BY <1>1, <1>2, <2>2, <2>3, NoneAfterLogout
  <2>5. QED
    BY <1>1, <2>2, <2>3, <2>4, RecordFacts
<1>5. m_commanders \in Seq(Session)
  BY DEF TypeOK
<1>6. QED
  BY <1>2, <1>4, <1>5, ToSetFacts

(* Nothing of this tick is left to a commander that is done.               *)
LEMMA NothingLeft ==
  ASSUME TypeOK, Lists, Packets, Commanders, Progress, ProcessPacket_Next
  PROVE  \A k \in PlayableOf(Current) : TickOf(k) = Tick => k \in Executed
<1>1. /\ logicPc = "process" /\ index \in 1..Len(m_commanders)
      /\ \A k \in Top(Current) : TickOf(k) # Tick
  BY LenProperties DEF ProcessPacket_Next, AtCommander, TypeOK
<1>2. Current \in ToSet(m_commanders) /\ Current \in Session
  BY <1>1, ToSetFacts DEF Current, TypeOK
<1>3. m_packetList[Current] = PlayableOf(Current) \ Executed
  BY <1>2 DEF Packets, Commanders
<1>4. SUFFICES ASSUME NEW k \in m_packetList[Current], TickOf(k) = Tick PROVE FALSE
  BY <1>3
<1>5. \A j \in m_packetList[Current] : j \in Playable /\ j \notin Executed
  BY <1>3 DEF PlayableOf
<1>6. \A j \in m_packetList[Current] : TickOf(j) \in Nat /\ ~(TickOf(j) < Tick)
  BY <1>5, RecordFacts DEF Progress
<1>7. k \in Top(Current)
  BY <1>4, <1>6, TickFacts DEF Top
<1>8. QED
  BY <1>1, <1>4, <1>7

LEMMA ProgressStep ==
  ASSUME TypeOK, IsRecording(recorded), Lists, Commanders, Packets, Progress, Next
  PROVE  Progress'
<1>0. /\ \A k : TickOf(k)' = TickOf(k)
      /\ \A s : PlayableOf(s)' = PlayableOf(s)
      /\ Playable' = Playable /\ Playable \subseteq Record
      /\ \A k \in Record : TickOf(k) \in Nat \ {0}
      /\ Tick \in Nat
      /\ m_commanders \in Seq(Session) /\ index \in 1..Len(m_commanders) + 1
      /\ Len(m_commanders) \in Nat
  BY Frames, RecordingStays, RecordFacts, TickFacts, LenProperties DEF TypeOK
<1>1. /\ Executed \subseteq Playable
      /\ \A k \in Executed : TickOf(k) <= Tick
      /\ \A k \in Playable : TickOf(k) < Tick => k \in Executed
      /\ logicPc = "create" => \A k \in Executed : TickOf(k) < Tick
      /\ logicPc = "process" =>
           \A i \in 1..Len(m_commanders) : \A k \in PlayableOf(m_commanders[i]) :
             TickOf(k) = Tick => /\ i < index => k \in Executed
                                 /\ i > index => k \notin Executed
      /\ logicPc \in {"pre", "update"} =>
           \A k \in Playable : TickOf(k) = Tick => k \in Executed
      /\ logicPc # "process" => index = 1
  BY DEF Progress
<1>2. ASSUME ~ProcessPacket_Packet PROVE Executed' = Executed
  BY <1>2, Frames DEF Executed
<1>3. CASE Load
  <2>1. /\ logicPc = "load" /\ logicPc' = "pre" /\ Tick = 0 /\ Tick' = Tick
        /\ Executed' = Executed /\ index' = index
    <3>1. /\ logicPc = "load" /\ logicPc' = "pre" /\ ~NextTick
          /\ ~ProcessPacket_Packet /\ ~ProcessPacket_Next /\ ~ProcessPacket_End
      BY <1>3, PhaseFacts
    <3>2. QED
      BY <1>2, <3>1, Frames DEF Lists
  <2>2. \A k \in Playable : TickOf(k) # 0
    BY <1>0
  <2>3. QED
    BY <1>0, <1>1, <2>1, <2>2 DEF Progress
<1>4. CASE NextTick
  <2>1. /\ logicPc = "pre" /\ logicPc' = "create" /\ Tick' = Tick + 1
        /\ Executed' = Executed /\ index' = index
    <3>1. /\ logicPc = "pre" /\ logicPc' = "create"
          /\ ~ProcessPacket_Packet /\ ~ProcessPacket_Next /\ ~ProcessPacket_End
      BY <1>4, PhaseFacts
    <3>2. QED
      BY <1>2, <1>4, <3>1, Frames, TickFacts
  <2>2. \A n \in Nat : /\ n <= Tick => n < Tick' /\ n <= Tick'
                       /\ n < Tick' => n < Tick \/ n = Tick
    BY <1>0, <2>1
  <2>3. QED
    BY <1>0, <1>1, <2>1, <2>2 DEF Progress
<1>5. CASE PreUpdateCommanders_Create
  <2>1. /\ logicPc = "create" /\ logicPc' = "create" /\ Tick' = Tick
        /\ Executed' = Executed /\ index' = index
    <3>1. /\ logicPc = "create" /\ logicPc' = "create" /\ index' = index
          /\ ~NextTick /\ ~ProcessPacket_Packet
      BY <1>5, PhaseFacts
    <3>2. QED
      BY <1>2, <3>1, Frames
  <2>2. QED
    BY <1>0, <1>1, <2>1 DEF Progress
<1>6. CASE PreUpdateCommanders_End
  <2>1. /\ logicPc = "create" /\ logicPc' = "process" /\ Tick' = Tick
        /\ Executed' = Executed /\ index' = 1 /\ m_commanders' = m_commanders
    <3>1. /\ logicPc = "create" /\ logicPc' = "process" /\ ~NextTick
          /\ ~ProcessPacket_Packet /\ ~ProcessPacket_Next /\ ~ProcessPacket_End
          /\ ~PreUpdateCommanders_Create /\ ~UpdateCommanders_Remove
      BY <1>6, PhaseFacts DEF PreUpdateCommanders_End, PreUpdateCommanders_Create
    <3>2. QED
      BY <1>1, <1>2, <3>1, Frames
  <2>2. \A k \in Playable : TickOf(k) = Tick => k \notin Executed
    BY <1>0, <1>1, <2>1
  <2>3. \A i \in 1..Len(m_commanders) : ~(i < 1)
    OBVIOUS
  <2>4. \A s : PlayableOf(s) \subseteq Playable
    BY DEF PlayableOf
  <2>5. QED
    BY <1>0, <1>1, <2>1, <2>2, <2>3, <2>4 DEF Progress
<1>7. CASE ProcessPacket_Packet
  <2>1. /\ logicPc = "process" /\ logicPc' = "process" /\ Tick' = Tick
        /\ index' = index /\ m_commanders' = m_commanders
    <3>1. /\ logicPc = "process" /\ logicPc' = "process" /\ ~NextTick
          /\ ~PreUpdateCommanders_Create /\ ~UpdateCommanders_Remove
      BY <1>7, PhaseFacts
    <3>2. index' = index
      BY <1>7 DEF ProcessPacket_Packet
    <3>3. QED
      BY <3>1, <3>2, Frames
  <2>2. PICK k \in m_packetList[Current] :
          k \in Record /\ TickOf(k) = Tick /\ Executed' = Executed \cup {k}
    BY <1>7, PacketFacts
  <2>3. /\ Current \in Session /\ index \in 1..Len(m_commanders)
        /\ Current = m_commanders[index]
    BY <1>7, PacketFacts
  <2>4. k \in PlayableOf(Current) /\ k \in Playable /\ SessionOf(k) = Current
    <3>1. k \in PlayableOf(Current)
      BY <2>2, <2>3 DEF Packets
    <3>2. QED
      BY <3>1 DEF PlayableOf
  <2>5. \A i \in 1..Len(m_commanders) : i > index => k \notin PlayableOf(m_commanders[i])
    <3>1. \A i \in 1..Len(m_commanders) : m_commanders[i] \in Nat
      BY <1>0, ElementOfSeq, RecordFacts
    <3>2. \A i \in 1..Len(m_commanders) : i > index => m_commanders[i] # Current
      <4>1. \A i \in 1..Len(m_commanders) : i > index => Current < m_commanders[i]
        BY <2>3 DEF Commanders
      <4>2. QED
        BY <2>3, <3>1, <4>1
    <3>3. QED
      BY <2>4, <3>2 DEF PlayableOf
  <2>6. \A i \in 1..Len(m_commanders) : \A j \in PlayableOf(m_commanders[i]) :
          TickOf(j) = Tick => /\ i < index => j \in Executed'
                              /\ i > index => j \notin Executed'
    BY <1>1, <2>1, <2>2, <2>5
  <2>7. /\ Executed' \subseteq Playable
        /\ \A j \in Executed' : TickOf(j) <= Tick
        /\ \A j \in Playable : TickOf(j) < Tick => j \in Executed'
    BY <1>0, <1>1, <2>2, <2>4
  <2>8. QED
    BY <1>0, <2>1, <2>6, <2>7 DEF Progress
<1>8. CASE ProcessPacket_Next
  <2>1. /\ logicPc = "process" /\ logicPc' = "process" /\ Tick' = Tick
        /\ index' = index + 1 /\ m_commanders' = m_commanders /\ Executed' = Executed
    <3>1. /\ logicPc = "process" /\ logicPc' = "process" /\ ~NextTick
          /\ ~PreUpdateCommanders_Create /\ ~UpdateCommanders_Remove
      BY <1>8, PhaseFacts
    <3>2. index' = index + 1 /\ executed' = executed
      BY <1>8 DEF ProcessPacket_Next
    <3>3. QED
      BY <3>1, <3>2, Frames DEF Executed
  <2>2. \A k \in PlayableOf(m_commanders[index]) : TickOf(k) = Tick => k \in Executed
    BY <1>8, NothingLeft DEF Current
  <2>3. \A i \in 1..Len(m_commanders) : /\ i < index + 1 => i < index \/ i = index
                                        /\ i > index + 1 => i > index
    BY <1>0
  <2>4. \A i \in 1..Len(m_commanders) : \A j \in PlayableOf(m_commanders[i]) :
          TickOf(j) = Tick => /\ i < index + 1 => j \in Executed
                              /\ i > index + 1 => j \notin Executed
    BY <1>1, <2>1, <2>2, <2>3
  <2>5. QED
    BY <1>0, <1>1, <2>1, <2>4 DEF Progress
<1>9. CASE ProcessPacket_End
  <2>1. /\ logicPc = "process" /\ logicPc' = "update" /\ Tick' = Tick
        /\ index' = 1 /\ index > Len(m_commanders) /\ Executed' = Executed
    <3>1. /\ logicPc = "process" /\ logicPc' = "update" /\ ~NextTick
          /\ ~PreUpdateCommanders_Create /\ ~UpdateCommanders_Remove
      BY <1>9, PhaseFacts
    <3>2. index' = 1 /\ index > Len(m_commanders) /\ executed' = executed
      BY <1>9 DEF ProcessPacket_End
    <3>3. QED
      BY <3>1, <3>2, Frames DEF Executed
  <2>2. ASSUME NEW k \in Playable, TickOf(k) = Tick PROVE k \in Executed
    <3>1. PICK i \in 1..Len(m_commanders) : m_commanders[i] = SessionOf(k)
      BY <2>1, <2>2, InTickServed
    <3>2. k \in PlayableOf(m_commanders[i]) /\ i < index
      BY <1>0, <2>1, <3>1 DEF PlayableOf
    <3>3. QED
      BY <1>1, <2>1, <2>2, <3>2
  <2>3. QED
    BY <1>0, <1>1, <2>1, <2>2 DEF Progress
<1>10. CASE ~(\/ Load \/ NextTick \/ PreUpdateCommanders_Create
              \/ PreUpdateCommanders_End \/ ProcessPacket_Packet
              \/ ProcessPacket_Next \/ ProcessPacket_End)
  <2>1. /\ Tick' = Tick /\ index' = index /\ Executed' = Executed
        /\ logicPc # "process" /\ logicPc # "create" /\ logicPc # "load"
    <3>1. UpdateCommanders_Remove \/ UpdateCommanders_End \/ ServerLogicThread
      BY <1>10 DEF Next
    <3>2. logicPc # "process" /\ logicPc # "create" /\ logicPc # "load"
      BY <3>1, PhaseFacts DEF ServerLogicThread
    <3>3. QED
      BY <1>2, <1>10, <3>2, Frames
  <2>2. logicPc' \in {"pre", "update"} /\ logicPc \in {"pre", "update"}
    <3>1. UpdateCommanders_End => logicPc' = "pre"
      BY PhaseFacts
    <3>2. UpdateCommanders_End \/ logicPc' = logicPc
      BY <1>10, Frames
    <3>3. QED
      BY <2>1, <3>1, <3>2 DEF TypeOK
  <2>3. QED
    BY <1>0, <1>1, <2>1, <2>2 DEF Progress
<1>11. QED
  BY <1>3, <1>4, <1>5, <1>6, <1>7, <1>8, <1>9, <1>10

(* The record that is executed is new, none executed before is of a later  *)
(* tick, and none of this tick is of a later session.                      *)
LEMMA PacketOrder ==
  ASSUME TypeOK, IsRecording(recorded), Lists, Commanders, Packets, Progress,
         ProcessPacket_Packet, NEW k \in m_packetList[Current], TickOf(k) = Tick,
         NEW d \in Executed
  PROVE  /\ d # k
         /\ TickOf(d) <= TickOf(k)
         /\ TickOf(d) = TickOf(k) => SessionOf(d) <= SessionOf(k)
         /\ d < k \/ (d > k /\ SameTickOfOneSession(d, k))
<1>1. /\ logicPc = "process" /\ Current \in Session /\ index \in 1..Len(m_commanders)
      /\ Current = m_commanders[index]
  BY PacketFacts DEF ProcessPacket_Packet, AtCommander
<1>2. k \in PlayableOf(Current) /\ k \notin Executed
  BY <1>1 DEF Packets
<1>3. /\ k \in Record /\ d \in Record /\ d \in Playable /\ SessionOf(k) = Current
      /\ TickOf(d) <= TickOf(k)
  BY <1>2, RecordFacts DEF PlayableOf, Progress
<1>4. d # k
  BY <1>2
<1>5. ASSUME TickOf(d) = TickOf(k) PROVE SessionOf(d) <= SessionOf(k)
  <2>1. PICK i \in 1..Len(m_commanders) : m_commanders[i] = SessionOf(d)
    BY <1>1, <1>3, <1>5, InTickServed
  <2>2. d \in PlayableOf(m_commanders[i])
    BY <1>3, <2>1 DEF PlayableOf
  <2>3. ~(i > index)
    BY <1>1, <1>5, <2>2 DEF Progress
  <2>4. i < index \/ i = index
    BY <1>1, <2>3
  <2>5. CASE i < index
    <3>1. SessionOf(d) < SessionOf(k)
      BY <1>1, <1>3, <2>1, <2>5 DEF Commanders
    <3>2. QED
      BY <1>3, <3>1, RecordFacts
  <2>6. CASE i = index
    <3>1. SessionOf(d) = SessionOf(k)
      BY <1>1, <1>3, <2>1, <2>6
    <3>2. QED
      BY <1>3, <3>1, RecordFacts
  <2>7. QED
    BY <2>4, <2>5, <2>6
<1>6. ASSUME k < d PROVE SameTickOfOneSession(d, k)
  <2>1. /\ TickOf(k) <= TickOf(d)
        /\ TickOf(k) = TickOf(d) => SessionOf(k) <= SessionOf(d)
    BY <1>3, <1>6, RecordsInOrder
  <2>2. TickOf(d) = TickOf(k)
    BY <1>3, <2>1, RecordFacts
  <2>3. SessionOf(d) = SessionOf(k)
    BY <1>3, <1>5, <2>1, <2>2, RecordFacts
  <2>4. QED
    BY <2>2, <2>3 DEF SameTickOfOneSession
<1>7. d < k \/ (d > k /\ SameTickOfOneSession(d, k))
  <2>1. d < k \/ k < d
    BY <1>3, <1>4, RecordFacts
  <2>2. QED
    BY <1>3, <1>6, <2>1, RecordFacts
<1>8. QED
  BY <1>3, <1>4, <1>5, <1>7

LEMMA HistoryStep ==
  ASSUME TypeOK, IsRecording(recorded), Lists, Commanders, Packets, Progress, History,
         Next
  PROVE  History'
<1>0. \A k : TickOf(k)' = TickOf(k) /\ SessionOf(k)' = SessionOf(k)
  BY Frames, RecordingStays
<1>1. CASE ProcessPacket_Packet
  <2>1. PICK k \in m_packetList[Current] :
          /\ k \in Record /\ TickOf(k) = Tick
          /\ executed' = Append(executed, [record |-> k, tick |-> Tick])
    BY <1>1, PacketFacts
  <2> DEFINE e == [record |-> k, tick |-> Tick]
             Event == [record : Record, tick : 1..MaxTick]
  <2>2. e \in Event /\ e.record = k /\ e.tick = TickOf(k) /\ executed \in Seq(Event)
    BY <2>1, RecordFacts DEF TypeOK
  <2>3. executed' = Append(executed, e)
    BY <2>1
  <2> HIDE DEF e, Event
  <2>4. /\ Len(executed') = Len(executed) + 1
        /\ executed'[Len(executed) + 1] = e
        /\ \A i \in 1..Len(executed) : executed'[i] = executed[i]
        /\ Len(executed) \in Nat
    BY <2>2, <2>3, AppendFacts, LenProperties
  <2>5. \A i \in 1..Len(executed') : i \in 1..Len(executed) \/ i = Len(executed) + 1
    BY <2>4
  <2>6. \A i \in 1..Len(executed') : executed'[i].tick = TickOf(executed'[i].record)
    <3>1. \A i \in 1..Len(executed) : executed'[i].tick = TickOf(executed'[i].record)
      BY <2>4 DEF History
    <3>2. executed'[Len(executed) + 1].tick = TickOf(executed'[Len(executed) + 1].record)
      BY <2>2, <2>4
    <3>3. QED
      BY <2>5, <3>1, <3>2
  <2>7. ASSUME NEW i \in 1..Len(executed'), NEW j \in 1..Len(executed'), i < j
        PROVE  /\ executed'[i].record # executed'[j].record
               /\ TickOf(executed'[i].record) <= TickOf(executed'[j].record)
               /\ TickOf(executed'[i].record) = TickOf(executed'[j].record) =>
                    SessionOf(executed'[i].record) <= SessionOf(executed'[j].record)
    <3>1. i \in 1..Len(executed)
      BY <2>4, <2>7
    <3>2. CASE j \in 1..Len(executed)
      BY <2>4, <2>7, <3>1, <3>2 DEF History
    <3>3. CASE j = Len(executed) + 1
      <4>1. executed'[i].record \in Executed
        BY <2>4, <3>1, ExecutedFacts
      <4>2. executed'[j].record = k
        BY <2>2, <2>4, <3>3
      <4>3. QED
        BY <1>1, <2>1, <4>1, <4>2, PacketOrder
    <3>4. QED
      BY <2>5, <3>2, <3>3
  <2>8. QED
    BY <1>0, <2>6, <2>7 DEF History
<1>2. CASE ~ProcessPacket_Packet
  <2>1. executed' = executed
    BY <1>2, Frames
  <2>2. QED
    BY <1>0, <2>1 DEF History
<1>3. QED
  BY <1>1, <1>2

(* In a tick those are served who have a record up to this tick and no     *)
(* LOGOUT before it.                                                       *)
LEMMA WhoIsServed ==
  ASSUME TypeOK, IsRecording(recorded), Lists, Commanders, logicPc = "process",
         source = "list", NEW s \in Session
  PROVE  s \in ToSet(m_commanders) <=>
           /\ \E j \in Record : SessionOf(j) = s /\ TickOf(j) <= Tick
           /\ \A j \in Record :
                recorded[j].command = "LOGOUT" /\ SessionOf(j) = s => TickOf(j) >= Tick
<1>1. /\ \A j : j \in PlayableOf(s) <=> j \in Record /\ SessionOf(j) = s
      /\ Tick \in Nat /\ \A j \in Record : TickOf(j) \in Nat
  BY RecordFacts, TickFacts DEF PlayableOf, Playable
<1>2. ASSUME s \in ToSet(m_commanders)
      PROVE  /\ \E j \in Record : SessionOf(j) = s /\ TickOf(j) <= Tick
             /\ \A j \in Record :
                  recorded[j].command = "LOGOUT" /\ SessionOf(j) = s => TickOf(j) >= Tick
  <2>1. PICK k \in PlayableOf(s) : TickOf(k) <= Tick
    BY <1>2 DEF Commanders, Lists
  <2>2. ASSUME NEW i \in Record, recorded[i].command = "LOGOUT", SessionOf(i) = s
        PROVE  TickOf(i) >= Tick
    <3>1. TickOf(i) > Tick \/ TickOf(i) = Tick
      BY <1>1, <1>2, <2>2 DEF Commanders
    <3>2. QED
      BY <1>1, <3>1
  <2>3. QED
    BY <1>1, <2>1, <2>2
<1>3. ASSUME \E j \in Record : SessionOf(j) = s /\ TickOf(j) <= Tick,
             \A j \in Record :
               recorded[j].command = "LOGOUT" /\ SessionOf(j) = s => TickOf(j) >= Tick
      PROVE  s \in ToSet(m_commanders)
  <2>1. PICK j \in PlayableOf(s) : TickOf(j) <= Tick /\ j \in Record
    BY <1>1, <1>3
  <2>2. j \notin List(s)
    BY <1>1, <2>1 DEF Lists
  <2>3. Joined(s)
    BY <2>1, <2>2 DEF Lists, Joined
  <2>4. SUFFICES ASSUME s \notin ToSet(m_commanders) PROVE FALSE
    OBVIOUS
  <2>5. PICK k \in PlayableOf(s) : recorded[k].command = "LOGOUT" /\ TickOf(k) < Tick
    BY <2>3, <2>4 DEF Commanders
  <2>6. QED
    BY <1>1, <1>3, <2>5
<1>4. QED
  BY <1>2, <1>3

LEMMA AnsweredStep ==
  ASSUME TypeOK, IsRecording(recorded), Lists, Commanders, Packets, Progress, Answered,
         Next
  PROVE  Answered'
<1>0. /\ \A k, s : Answers(k, s)' = Answers(k, s)
      /\ \A j, k : SameTickOfOneSession(j, k)' = SameTickOfOneSession(j, k)
      /\ m_sendQue \in [Session -> Seq(Record)]
  BY Frames, RecordingStays DEF TypeOK
<1>1. CASE ProcessPacket_Packet
  <2>1. PICK k \in m_packetList[Current] :
          /\ k \in Record /\ TickOf(k) = Tick
          /\ m_sendQue' = [s \in Session |-> PostSend(k, s)]
          /\ Executed' = Executed \cup {k}
    BY <1>1, PacketFacts
  <2>2. /\ logicPc = "process" /\ Current \in Session
        /\ index \in 1..Len(m_commanders) /\ Current = m_commanders[index]
    BY <1>1, PacketFacts DEF ProcessPacket_Packet, AtCommander
  <2>3. k \in PlayableOf(Current)
    BY <2>1, <2>2 DEF Packets
  <2>4. k \in Playable /\ SessionOf(k) = Current
    BY <2>3 DEF PlayableOf
  <2>5. source = "list" /\ Playable = Record
    BY <2>4 DEF Playable
  <2>6. Current \in ToSet(m_commanders)
    BY <2>2, ToSetFacts DEF TypeOK
  <2>7. ASSUME NEW s \in Session PROVE s \in Hears(k) <=> Answers(k, s)
    <3>1. s \in ToSet(m_commanders) <=>
            /\ \E j \in Record : SessionOf(j) = s /\ TickOf(j) <= TickOf(k)
            /\ \A j \in Record :
                 recorded[j].command = "LOGOUT" /\ SessionOf(j) = s => TickOf(j) >= TickOf(k)
      BY <2>1, <2>2, <2>5, WhoIsServed
    <3>2. CASE recorded[k].command = "LOGIN"
      <4>1. s \in Hears(k) <=> s = Current
        BY <2>6, <3>2 DEF Hears
      <4>2. Answers(k, s) <=> SessionOf(k) = s
        BY <3>2 DEF Answers
      <4>3. QED
        BY <2>4, <4>1, <4>2
    <3>3. CASE recorded[k].command = "CHAT"
      <4>1. s \in Hears(k) <=> s \in ToSet(m_commanders)
        BY <3>3 DEF Hears
      <4>2. QED
        BY <3>1, <3>3, <4>1 DEF Answers
    <3>4. CASE recorded[k].command \notin {"LOGIN", "CHAT"}
      BY <3>4 DEF Hears, Answers
    <3>5. QED
      BY <3>2, <3>3, <3>4
  <2>8. ASSUME NEW s \in Session
        PROVE  /\ ToSet(m_sendQue'[s]) = {j \in Executed' : Answers(j, s)}
               /\ \A i, j \in 1..Len(m_sendQue'[s]) : i < j =>
                    \/ m_sendQue'[s][i] < m_sendQue'[s][j]
                    \/ /\ m_sendQue'[s][i] > m_sendQue'[s][j]
                       /\ SameTickOfOneSession(m_sendQue'[s][i], m_sendQue'[s][j])
    <3> DEFINE old == m_sendQue[s]
               new == m_sendQue'[s]
    <3>1. /\ ToSet(old) = {j \in Executed : Answers(j, s)}
          /\ \A i, j \in 1..Len(old) : i < j =>
               \/ old[i] < old[j]
               \/ old[i] > old[j] /\ SameTickOfOneSession(old[i], old[j])
          /\ old \in Seq(Record)
      BY <1>0 DEF Answered
    <3>2. new = PostSend(k, s)
      BY <2>1
    <3>3. CASE ~Answers(k, s)
      <4>1. new = old
        BY <2>7, <3>2, <3>3 DEF PostSend
      <4> HIDE DEF new, old
      <4>2. ToSet(new) = {j \in Executed' : Answers(j, s)}
        BY <2>1, <3>1, <3>3, <4>1
      <4>3. QED
        BY <3>1, <4>1, <4>2 DEF new
    <3>4. CASE Answers(k, s)
      <4>1. new = Append(old, k)
        BY <2>5, <2>7, <3>2, <3>4 DEF PostSend
      <4> HIDE DEF new, old
      <4>2. /\ Len(new) = Len(old) + 1 /\ new[Len(old) + 1] = k
            /\ \A i \in 1..Len(old) : new[i] = old[i]
            /\ ToSet(new) = ToSet(old) \cup {k}
            /\ Len(old) \in Nat
            /\ \A i \in 1..Len(old) : old[i] \in ToSet(old)
        BY <2>1, <3>1, <4>1, AppendFacts, ToSetJoined, ToSetFacts, LenProperties
      <4>3. ToSet(new) = {j \in Executed' : Answers(j, s)}
        BY <2>1, <3>1, <3>4, <4>2
      <4>4. ASSUME NEW i \in 1..Len(new), NEW j \in 1..Len(new), i < j
            PROVE  \/ new[i] < new[j]
                   \/ new[i] > new[j] /\ SameTickOfOneSession(new[i], new[j])
        <5>1. i \in 1..Len(old) /\ (j \in 1..Len(old) \/ j = Len(old) + 1)
          BY <4>2, <4>4
        <5>2. CASE j \in 1..Len(old)
          BY <3>1, <4>2, <4>4, <5>1, <5>2
        <5>3. CASE j = Len(old) + 1
          <6>1. new[j] = k /\ new[i] = old[i] /\ old[i] \in Executed
            BY <3>1, <4>2, <5>1, <5>3
          <6>2. old[i] < k \/ (old[i] > k /\ SameTickOfOneSession(old[i], k))
            BY <1>1, <2>1, <6>1, PacketOrder
          <6>3. QED
            BY <6>1, <6>2
        <5>4. QED
          BY <5>1, <5>2, <5>3
      <4>5. QED
        BY <4>3, <4>4 DEF new
    <3>5. QED
      BY <3>3, <3>4
  <2>9. QED
    BY <1>0, <2>8 DEF Answered
<1>2. CASE ~ProcessPacket_Packet
  <2>1. m_sendQue' = m_sendQue /\ Executed' = Executed
    BY <1>2, Frames DEF Executed
  <2>2. QED
    BY <1>0, <2>1 DEF Answered
<1>3. QED
  BY <1>1, <1>2

(* Only a MOVE before the LOGIN of its tick makes the replay die in a      *)
(* packet, and at the end of a tick only who never logs in nor out.        *)
LEMMA CrashStep ==
  ASSUME TypeOK, IsRecording(recorded), Lists, Commanders, Packets, Progress,
         CrashHasCause, Next
  PROVE  CrashHasCause'
<1>0. /\ recorded' = recorded /\ Record' = Record
      /\ \A j, k : SameTickOfOneSession(j, k)' = SameTickOfOneSession(j, k)
      /\ \A k : SessionOf(k)' = SessionOf(k)
      /\ \A s : LoginsOf(s)' = LoginsOf(s) /\ LogoutsOf(s)' = LogoutsOf(s)
  <2>1. /\ recorded' = recorded /\ Record' = Record
        /\ \A j, k : SameTickOfOneSession(j, k)' = SameTickOfOneSession(j, k)
        /\ \A k : SessionOf(k)' = SessionOf(k)
    BY Frames, RecordingStays
  <2>2. \A s : LoginsOf(s)' = LoginsOf(s) /\ LogoutsOf(s)' = LogoutsOf(s)
    BY <2>1 DEF LoginsOf, LogoutsOf, RecordsOf
  <2>3. QED
    BY <2>1, <2>2
<1>1. CASE ProcessPacket_Packet
  <2>1. PICK k \in m_packetList[Current] :
          /\ k \in Record /\ TickOf(k) = Tick
          /\ crashed' = (recorded[k].command = "MOVE" /\ ~HasCharacter(Current))
          /\ Executed' = Executed \cup {k}
    BY <1>1, PacketFacts
  <2>2. SUFFICES ASSUME recorded[k].command = "MOVE", ~HasCharacter(Current)
                 PROVE  \E j \in Record :
                          /\ recorded[j].command = "LOGIN"
                          /\ SameTickOfOneSession(j, k)
                          /\ k \in Executed' /\ j \notin Executed'
    BY <1>0, <2>1 DEF CrashHasCause
  <2>3. source = "list" /\ Playable = Record /\ SessionOf(k) = Current
    <3>1. k \in PlayableOf(Current)
      BY <1>1, <2>1, PacketFacts DEF Packets
    <3>2. QED
      BY <3>1 DEF PlayableOf, Playable
  <2>4. PICK j \in Record : /\ recorded[j].command = "LOGIN" /\ SessionOf(j) = Current
                            /\ TickOf(j) <= TickOf(k)
    BY <2>1, <2>2, <2>3, LoginOfMove
  <2>5. j \notin Executed
    BY <2>2, <2>4 DEF HasCharacter
  <2>6. j # k
    BY <2>2, <2>4
  <2>7. TickOf(j) = TickOf(k)
    <3>1. ~(TickOf(j) < Tick)
      BY <2>3, <2>5 DEF Progress
    <3>2. QED
      BY <2>1, <2>4, <3>1, RecordFacts
  <2>8. QED
    BY <2>1, <2>3, <2>4, <2>5, <2>6, <2>7 DEF SameTickOfOneSession
<1>2. CASE UpdateCommanders_End
  <2>1. logicPc = "update" /\ Executed' = Executed
    BY <1>2, PhaseFacts, Frames DEF Executed, UpdateCommanders_End
  <2>2. SUFFICES ASSUME NEW s \in ToSet(m_commanders), ~HasCharacter(s)
                 PROVE  \E k \in Executed : /\ LoginsOf(SessionOf(k)) = {}
                                            /\ LogoutsOf(SessionOf(k)) = {}
    BY <1>0, <1>2, <2>1 DEF CrashHasCause, UpdateCommanders_End
  <2>3. s \in Session /\ Joined(s)
    BY ToSetFacts DEF Commanders, TypeOK
  <2>4. PICK k \in PlayableOf(s) : TickOf(k) <= Tick
    BY <2>3 DEF Lists
  <2>5. k \in Record /\ SessionOf(k) = s /\ source = "list" /\ Playable = Record
    BY RecordFacts DEF PlayableOf, Playable
  <2>6. \A j \in Record : TickOf(j) <= Tick => j \in Executed
    <3>1. ASSUME NEW j \in Record, TickOf(j) <= Tick
          PROVE  TickOf(j) < Tick \/ TickOf(j) = Tick
      BY <3>1, RecordFacts, TickFacts
    <3>2. QED
      BY <2>1, <2>5, <3>1 DEF Progress
  <2>7. \A j \in Record : SessionOf(j) = s => TickOf(j) <= Tick
    <3>1. SUFFICES ASSUME NEW j \in Record, SessionOf(j) = s, ~(TickOf(j) <= Tick)
                   PROVE  FALSE
      OBVIOUS
    <3>2. TickOf(k) < TickOf(j)
      BY <2>4, <2>5, <3>1, RecordFacts, TickFacts
    <3>3. PICK i \in Record : /\ recorded[i].command = "LOGIN" /\ SessionOf(i) = s
                              /\ TickOf(i) <= TickOf(k)
      BY <2>5, <3>1, <3>2, LoginByThen
    <3>4. TickOf(i) <= Tick
      BY <2>4, <2>5, <3>3, RecordFacts, TickFacts
    <3>5. QED
      BY <2>2, <2>6, <3>3, <3>4 DEF HasCharacter
  <2>8. \A j \in RecordsOf(s) : j \in Executed /\ SessionOf(j) = s
    BY <2>6, <2>7 DEF RecordsOf
  <2>9. LoginsOf(s) = {}
    BY <2>2, <2>8 DEF LoginsOf, HasCharacter
  <2>10. LogoutsOf(s) = {}
    <3>1. ~IsReadyDie(s)
      BY <1>2 DEF UpdateCommanders_End
    <3>2. QED
      BY <2>8, <3>1 DEF LogoutsOf, IsReadyDie
  <2>11. QED
    BY <2>4, <2>5, <2>6, <2>9, <2>10
<1>3. CASE ~(ProcessPacket_Packet \/ UpdateCommanders_End)
  <2>1. crashed' = crashed /\ Executed' = Executed
    BY <1>3, Frames DEF Executed
  <2>2. QED
    BY <1>0, <2>1 DEF CrashHasCause
<1>4. QED
  BY <1>1, <1>2, <1>3

-------------------------------------------------------------------------------
(* The inductive invariant of the replay.                                  *)
ReplayInv ==
  /\ TypeOK
  /\ LoopInv
  /\ IsRecording(recorded)
  /\ Lists
  /\ Commanders
  /\ Packets
  /\ Progress
  /\ History
  /\ Answered
  /\ CrashHasCause

(* A sequence of elements of a set is one of elements of any larger set.   *)
LEMMA SeqOfLarger ==
  ASSUME NEW S, NEW T, S \subseteq T, NEW s \in Seq(S)
  PROVE  s \in Seq(T)
<1>1. Len(s) \in Nat /\ s \in [1..Len(s) -> S]
  BY LenProperties
<1>2. s \in [1..Len(s) -> T]
  BY <1>1
<1>3. QED
  BY <1>1, <1>2, IsASeq

LEMMA ReplayInit == Init => ReplayInv
<1> SUFFICES ASSUME Init PROVE ReplayInv
  OBVIOUS
<1>1. LoopInv /\ LoopTypeOK /\ tickCount = 0
  BY LoopInvInit DEF Init, LoopInit, LoopInv
<1>2. recorded \in Seq(Info(Text \cup {"plain"})) /\ IsRecording(recorded)
  <2>1. /\ MaxLine \in Nat /\ MaxRecord \in Nat
        /\ Info(Text) \subseteq Info(Text \cup {"plain"})
        /\ Info({"plain"}) \subseteq Info(Text \cup {"plain"})
    BY BoundsAssumption DEF Info
  <2>2. CASE recorded \in Recording(Text, MaxLine)
    <3>1. recorded \in Seq(Info(Text)) /\ IsRecording(recorded)
      BY <2>1, <2>2, RecordingFacts
    <3>2. QED
      BY <2>1, <3>1, SeqOfLarger
  <2>3. CASE recorded \in Recording({"plain"}, MaxRecord)
    <3>1. recorded \in Seq(Info({"plain"})) /\ IsRecording(recorded)
      BY <2>1, <2>3, RecordingFacts
    <3>2. QED
      BY <2>1, <3>1, SeqOfLarger
  <2>4. QED
    BY <2>2, <2>3 DEF Init
<1>3. /\ source \in {"file", "list"} /\ testTick = 0
      /\ m_packetInfoListEachSession = [s \in 0..MaxSession |-> {}]
      /\ m_commanders = <<>> /\ executed = <<>>
      /\ m_packetList = [s \in Session |-> {}] /\ m_sendQue = [s \in Session |-> <<>>]
      /\ logicPc = "load" /\ index = 1 /\ crashed = FALSE
  BY DEF Init
<1>4. /\ ToSet(<<>>) = {} /\ Len(<<>>) = 0 /\ (\A i \in 1..Len(<<>>) : FALSE)
      /\ \A S : <<>> \in Seq(S)
  BY DEF ToSet
<1>5. TypeOK
  <2>1. testTick \in 0..MaxTick /\ index \in 1..Len(m_commanders) + 1
    BY <1>3, <1>4, BoundsAssumption
  <2>2. m_packetInfoListEachSession \in [0..MaxSession -> SUBSET (0..Len(recorded))]
    BY <1>3
  <2>3. /\ m_commanders \in Seq(Session)
        /\ executed \in Seq([record : Record, tick : 1..MaxTick])
    BY <1>3, <1>4
  <2>4. m_packetList \in [Session -> SUBSET Record] /\ m_sendQue \in [Session -> Seq(Record)]
    BY <1>3, <1>4
  <2>5. QED
    BY <1>1, <1>2, <1>3, <2>1, <2>2, <2>3, <2>4 DEF TypeOK
<1>6. /\ Tick = 0 /\ Executed = {}
      /\ \A s \in 0..MaxSession : List(s) = {}
      /\ \A s : ~Joined(s)
  BY <1>1, <1>3, <1>4 DEF Tick, Executed, List, Joined
<1>7. \A k \in Playable : TickOf(k) \in Nat \ {0}
  BY <1>5, RecordFacts
<1>8. Lists
  BY <1>3, <1>5, <1>6, RecordFacts DEF Lists
<1>9. Commanders
  BY <1>3, <1>4, <1>6 DEF Commanders
<1>10. Packets
  BY <1>3, <1>6 DEF Packets
<1>11. Progress
  BY <1>3, <1>6, <1>7 DEF Progress
<1>12. History
  BY <1>3, <1>4 DEF History
<1>13. Answered
  <2>1. \A s \in Session : m_sendQue[s] = <<>>
    BY <1>3
  <2>2. QED
    BY <1>4, <1>6, <2>1 DEF Answered
<1>14. CrashHasCause
  BY <1>3 DEF CrashHasCause
<1>15. QED
  BY <1>1, <1>2, <1>5, <1>8, <1>9, <1>10, <1>11, <1>12, <1>13, <1>14 DEF ReplayInv

LEMMA ReplayStep == ReplayInv /\ Next => ReplayInv'
<1> SUFFICES ASSUME ReplayInv, Next PROVE ReplayInv'
  OBVIOUS
<1> USE DEF ReplayInv
<1>1. LoopInv'
  BY LoopSteps, LoopInvStep
<1>2. IsRecording(recorded)'
  BY Frames DEF IsRecording, LoggedInFirst
<1>3. QED
  BY <1>1, <1>2, TypeStep, ListsStep, CommandersStep, PacketsStep, ProgressStep,
     HistoryStep, AnsweredStep, CrashStep

LEMMA ReplayStutter == ReplayInv /\ UNCHANGED vars => ReplayInv'
<1> SUFFICES ASSUME ReplayInv, UNCHANGED vars PROVE ReplayInv'
  OBVIOUS
<1>1. /\ recorded' = recorded /\ source' = source
      /\ m_packetInfoListEachSession' = m_packetInfoListEachSession
      /\ m_commanders' = m_commanders /\ m_packetList' = m_packetList
      /\ m_sendQue' = m_sendQue /\ testTick' = testTick /\ loopVars' = loopVars
      /\ logicPc' = logicPc /\ index' = index /\ executed' = executed
      /\ crashed' = crashed
  BY DEF vars, dataVars, tickVars
<1>2. /\ Record' = Record /\ Playable' = Playable
      /\ \A k : TickOf(k)' = TickOf(k) /\ SessionOf(k)' = SessionOf(k)
      /\ \A s : PlayableOf(s)' = PlayableOf(s)
      /\ \A k, s : Answers(k, s)' = Answers(k, s)
      /\ \A j, k : SameTickOfOneSession(j, k)' = SameTickOfOneSession(j, k)
  BY <1>1, RecordingStays
<1>3. Tick' = Tick /\ Executed' = Executed /\ \A s : List(s)' = List(s)
  BY <1>1 DEF Tick, Executed, List, loopVars
<1>4. /\ \A s : Joined(s)' <=> Joined(s)
      /\ \A s : LoginsOf(s)' = LoginsOf(s) /\ LogoutsOf(s)' = LogoutsOf(s)
  BY <1>1, <1>2, <1>3 DEF Joined, LoginsOf, LogoutsOf, RecordsOf
<1>5. LoopInv'
  BY <1>1, LoopInvStep DEF ReplayInv
<1>6. TypeOK'
  BY <1>1, <1>2, <1>5 DEF ReplayInv, TypeOK, LoopInv
<1>7. IsRecording(recorded)'
  BY <1>1 DEF ReplayInv, IsRecording, LoggedInFirst
<1>8. Lists'
  BY <1>1, <1>2, <1>3, <1>4 DEF ReplayInv, Lists
<1>9. Commanders'
  BY <1>1, <1>2, <1>3, <1>4 DEF ReplayInv, Commanders
<1>10. Packets'
  BY <1>1, <1>2, <1>3, <1>4 DEF ReplayInv, Packets
<1>11. Progress'
  BY <1>1, <1>2, <1>3 DEF ReplayInv, Progress
<1>12. History'
  BY <1>1, <1>2 DEF ReplayInv, History
<1>13. Answered'
  BY <1>1, <1>2, <1>3 DEF ReplayInv, Answered
<1>14. CrashHasCause'
  BY <1>1, <1>2, <1>3, <1>4 DEF ReplayInv, CrashHasCause
<1>15. QED
  BY <1>5, <1>6, <1>7, <1>8, <1>9, <1>10, <1>11, <1>12, <1>13, <1>14 DEF ReplayInv

(* What the replay has done so far is settled by the recording and the     *)
(* tick: for every recording of any length, of any sessions and ticks.     *)
THEOREM ReplayInvCorrect == Spec => []ReplayInv
<1>1. ReplayInv /\ [Next]_vars => ReplayInv'
  BY ReplayStep, ReplayStutter
<1>2. QED
  BY <1>1, ReplayInit, PTL DEF Spec

(* The variables keep their types.                                         *)
THEOREM TypeCorrect == Spec => []TypeOK
<1>1. ReplayInv => TypeOK
  BY DEF ReplayInv
<1>2. QED
  BY <1>1, ReplayInvCorrect, PTL

(* It follows from the invariant alone.                                    *)
LEMMA ListIsReplayedNow == ReplayInv => ListIsReplayed
<1> SUFFICES ASSUME ReplayInv, source = "list", logicPc = "pre"
             PROVE  /\ Executed = {k \in Record : TickOf(k) <= Tick}
                    /\ \A i, j \in 1..Len(executed) :
                         executed[i].record = executed[j].record => i = j
                    /\ \A e \in ToSet(executed) : e.tick = TickOf(e.record)
  BY DEF ListIsReplayed, ExecutedToDate
<1> USE DEF ReplayInv
<1>1. Playable = Record /\ Tick \in Nat /\ \A k \in Record : TickOf(k) \in Nat
  BY RecordFacts, TickFacts DEF Playable
<1>2. \A k : k \in Executed <=> k \in Record /\ TickOf(k) <= Tick
  <2>1. \A m, n \in Nat : m <= n => m < n \/ m = n
    OBVIOUS
  <2>2. /\ Executed \subseteq Record
        /\ \A k \in Executed : TickOf(k) <= Tick
        /\ \A k \in Record : TickOf(k) < Tick \/ TickOf(k) = Tick => k \in Executed
    BY <1>1 DEF Progress
  <2>3. QED
    BY <1>1, <2>1, <2>2
<1>3. Executed = {k \in Record : TickOf(k) <= Tick}
  BY <1>2
<1>4. \A i, j \in 1..Len(executed) : executed[i].record = executed[j].record => i = j
  <2>1. \A i, j \in 1..Len(executed) : i < j \/ i = j \/ j < i
    OBVIOUS
  <2>2. \A i, j \in 1..Len(executed) : i < j => executed[i].record # executed[j].record
    BY DEF History
  <2>3. QED
    BY <2>1, <2>2
<1>5. \A e \in ToSet(executed) : e.tick = TickOf(e.record)
  <2>1. executed \in Seq([record : Record, tick : 1..MaxTick])
    BY DEF TypeOK
  <2>2. \A i \in 1..Len(executed) : executed[i].tick = TickOf(executed[i].record)
    BY DEF History
  <2>3. QED
    BY <2>1, <2>2, ToSetFacts
<1>6. QED
  BY <1>3, <1>4, <1>5

(* The replay of a recording in memory has executed after each tick exactly*)
(* the records up to this tick, each once and in its own tick.             *)
THEOREM ListIsReplayedCorrect == Spec => []ListIsReplayed
<1>1. QED
  BY ListIsReplayedNow, ReplayInvCorrect, PTL

(* So do the order of what was executed, and what it leaves each character *)
(* to go by.                                                               *)
LEMMA OrderNow == ReplayInv => OrderUpToTies
<1> SUFFICES ASSUME ReplayInv,
                    NEW i \in 1..Len(executed), NEW j \in 1..Len(executed), i < j,
                    executed[i].record > executed[j].record
             PROVE  SameTickOfOneSession(executed[i].record, executed[j].record)
  BY DEF OrderUpToTies
<1> USE DEF ReplayInv
<1> DEFINE d == executed[i].record
           e == executed[j].record
<1>1. /\ TickOf(d) <= TickOf(e)
      /\ TickOf(d) = TickOf(e) => SessionOf(d) <= SessionOf(e)
  BY DEF History
<1>2. d \in Record /\ e \in Record /\ d > e
  BY ExecutedFacts
<1> HIDE DEF d, e
<1>3. /\ e < d
      /\ TickOf(d) \in Nat /\ TickOf(e) \in Nat
      /\ SessionOf(d) \in Nat /\ SessionOf(e) \in Nat
  BY <1>2, RecordFacts
<1>4. /\ TickOf(e) <= TickOf(d)
      /\ TickOf(e) = TickOf(d) => SessionOf(e) <= SessionOf(d)
  BY <1>2, <1>3, RecordsInOrder
<1>5. TickOf(d) = TickOf(e) /\ SessionOf(d) = SessionOf(e)
  BY <1>1, <1>3, <1>4
<1>6. QED
  BY <1>5 DEF SameTickOfOneSession, d, e

LEMMA HeadingNow == ReplayInv => SameHeading
<1> SUFFICES ASSUME ReplayInv, source = "list", logicPc = "pre", NEW s \in Session,
                    \A j, k \in Steers(s) : TickOf(j) = TickOf(k) => j = k,
                    NEW k \in Steers(s), TickOf(k) <= Tick,
                    \A j \in Steers(s) : TickOf(j) <= Tick => j <= k
             PROVE  \E i \in 1..Len(executed) :
                      /\ executed[i].record = k
                      /\ \A j \in i + 1..Len(executed) : executed[j].record \notin Steers(s)
  BY DEF SameHeading
<1> USE DEF ReplayInv
<1>1. /\ Executed = {r \in Record : TickOf(r) <= Tick}
      /\ \A i, j \in 1..Len(executed) : executed[i].record = executed[j].record => i = j
  BY ListIsReplayedNow DEF ListIsReplayed, ExecutedToDate
<1>2. k \in Executed
  BY <1>1 DEF Steers, RecordsOf
<1>3. PICK i \in 1..Len(executed) : executed[i].record = k
  BY <1>2, ExecutedFacts
<1>4. ASSUME NEW j \in i + 1..Len(executed), executed[j].record \in Steers(s) PROVE FALSE
  <2>1. Len(executed) \in Nat
    BY LenProperties DEF TypeOK
  <2>2. j \in 1..Len(executed) /\ i < j
    BY <2>1
  <2> DEFINE r == executed[j].record
  <2>3. r \in Executed /\ r \in Record /\ k \in Record
    BY <1>1, <1>2, <2>2, ExecutedFacts
  <2>4. r <= k /\ r # k
    BY <1>1, <1>3, <1>4, <2>2, <2>3
  <2>5. k > r
    BY <2>3, <2>4, RecordFacts
  <2>6. SameTickOfOneSession(k, r)
    BY <1>3, <2>2, <2>5, OrderNow DEF OrderUpToTies
  <2>7. QED
    BY <1>4, <2>4, <2>6 DEF SameTickOfOneSession
<1>5. QED
  BY <1>3, <1>4

(* Two records are executed in another order than they were recorded in    *)
(* only if they are of one session and one tick.                           *)
THEOREM OrderUpToTiesCorrect == Spec => []OrderUpToTies
<1>1. QED
  BY OrderNow, ReplayInvCorrect, PTL

(* After each tick of the replay of a recording in memory, a session has   *)
(* been answered what the recorded server answered it while it served it.  *)
THEOREM SameAnswersCorrect == Spec => []SameAnswers
<1>1. ReplayInv => SameAnswers
  <2> SUFFICES ASSUME ReplayInv, source = "list", logicPc = "pre", NEW s \in Session
               PROVE  /\ \A t \in LastTickOf(s) :
                           {k \in ToSet(m_sendQue[s]) : TickOf(k) <= t \/ LogoutsOf(s) # {}}
                             = Heard(s, t)
                      /\ \A i, j \in 1..Len(m_sendQue[s]) :
                           i < j => \/ m_sendQue[s][i] < m_sendQue[s][j]
                                    \/ /\ m_sendQue[s][i] > m_sendQue[s][j]
                                       /\ SameTickOfOneSession(m_sendQue[s][i], m_sendQue[s][j])
    BY DEF SameAnswers
  <2> USE DEF ReplayInv
  <2>1. Executed = {k \in Record : TickOf(k) <= Tick}
    BY ListIsReplayedNow DEF ListIsReplayed, ExecutedToDate
  <2>2. ToSet(m_sendQue[s]) = {k \in Executed : Answers(k, s)}
    BY DEF Answered
  <2>3. ASSUME NEW t \in LastTickOf(s)
        PROVE  {k \in ToSet(m_sendQue[s]) : TickOf(k) <= t \/ LogoutsOf(s) # {}}
                 = Heard(s, t)
    <3>1. /\ \A k \in RecordsOf(s) : TickOf(k) <= t
          /\ \A k \in LogoutsOf(s) : TickOf(k) = t /\ k \in Record
          /\ \A k \in LoginsOf(s) : k \in RecordsOf(s)
      BY DEF LastTickOf, LoginsOf, LogoutsOf, RecordsOf
    <3>2. ASSUME NEW k \in Record
          PROVE  /\ k \in LoginsOf(s) <=> recorded[k].command = "LOGIN" /\ SessionOf(k) = s
                 /\ k \in LogoutsOf(s) <=> recorded[k].command = "LOGOUT" /\ SessionOf(k) = s
                 /\ k \in RecordsOf(s) <=> SessionOf(k) = s
      BY DEF LoginsOf, LogoutsOf, RecordsOf
    <3>3. \A k : k \in RecordsOf(s) => k \in Record
      BY DEF RecordsOf
    <3>4. ASSUME NEW k \in Record, TickOf(k) <= Tick, Answers(k, s),
                 TickOf(k) <= t \/ LogoutsOf(s) # {}
          PROVE  k \in Heard(s, t)
      <4>1. CASE recorded[k].command = "LOGIN" /\ SessionOf(k) = s
        BY <3>1, <3>2, <3>4, <4>1 DEF Heard
      <4>2. CASE ~(recorded[k].command = "LOGIN" /\ SessionOf(k) = s)
        <5>1. /\ recorded[k].command = "CHAT"
              /\ \E j \in Record : SessionOf(j) = s /\ TickOf(j) <= TickOf(k)
              /\ \A j \in LogoutsOf(s) : TickOf(j) >= TickOf(k)
          BY <3>1, <3>2, <3>4, <4>2 DEF Answers
        <5>2. TickOf(k) <= t
          BY <3>1, <3>4, <5>1
        <5>3. QED
          BY <3>2, <3>4, <5>1, <5>2 DEF Heard
      <4>3. QED
        BY <4>1, <4>2
    <3>5. ASSUME NEW k \in Record, k \in Heard(s, t)
          PROVE  TickOf(k) <= Tick /\ TickOf(k) <= t /\ Answers(k, s)
      <4>1. TickOf(k) <= Tick /\ TickOf(k) <= t
        BY <3>5 DEF Heard
      <4>2. CASE k \in LoginsOf(s)
        BY <3>2, <4>1, <4>2 DEF Answers
      <4>3. CASE k \notin LoginsOf(s)
        <5>1. /\ recorded[k].command = "CHAT"
              /\ \E j \in RecordsOf(s) : TickOf(j) <= TickOf(k)
          BY <3>5, <4>3 DEF Heard
        <5>2. \E j \in Record : SessionOf(j) = s /\ TickOf(j) <= TickOf(k)
          BY <3>2, <3>3, <5>1
        <5>3. \A j \in Record :
                recorded[j].command = "LOGOUT" /\ SessionOf(j) = s => TickOf(j) >= TickOf(k)
          BY <3>1, <3>2, <4>1
        <5>4. QED
          BY <4>1, <5>1, <5>2, <5>3 DEF Answers
      <4>4. QED
        BY <4>2, <4>3
    <3>6. \A k : k \in Heard(s, t) => k \in Record
      BY DEF Heard
    <3>7. \A k : k \in ToSet(m_sendQue[s]) <=>
                   k \in Record /\ TickOf(k) <= Tick /\ Answers(k, s)
      BY <2>1, <2>2
    <3>8. QED
      BY <3>4, <3>5, <3>6, <3>7
  <2>4. QED
    BY <2>3 DEF Answered
<1>2. QED
  BY <1>1, ReplayInvCorrect, PTL

(* After each tick of the replay of a recording in memory, the last packet *)
(* executed of those a character goes by is the last one recorded, unless  *)
(* two of them were recorded in one tick.                                  *)
THEOREM SameHeadingCorrect == Spec => []SameHeading
<1>1. QED
  BY HeadingNow, ReplayInvCorrect, PTL

(* The replay dies only of a MOVE that the priority queue put before the   *)
(* LOGIN of its tick, or of a session that neither logs in nor out.        *)
THEOREM CrashHasCauseCorrect == Spec => []CrashHasCause
<1>1. ReplayInv => CrashHasCause
  BY DEF ReplayInv
<1>2. QED
  BY <1>1, ReplayInvCorrect, PTL
===============================================================================
