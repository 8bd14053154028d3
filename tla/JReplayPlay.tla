------------------------------ MODULE JReplayPlay -----------------------------
(***************************************************************************)
(* Playing back what was recorded: JReplayReader, JReplaySession (JNetLib) *)
(* and JReplayServer (JServerLib), with what JCommander makes of packets.  *)
(*                                                                         *)
(* The reader collects the records by session, from the file (-ReplayServer*)
(* of the server, whose ticks are those of JTickLoop) or from a list in    *)
(* memory (the unit test, which counts ticks itself and keeps what the     *)
(* commanders send).  Every tick the server, which has no other thread,    *)
(* makes a session of each list whose first record is of this tick, lets   *)
(* every commander process its records of this tick, and removes those     *)
(* that logged out.                                                        *)
(*                                                                         *)
(* A record is named by its place in the recording; 0 is the {0, 0, {}}    *)
(* that DeSerialize returns for a line it cannot split in three.  The      *)
(* reader collects records in the order of the recording, so a list is     *)
(* given by the set of its records, the first of which is the least.  Of   *)
(* the packet the model keeps its command and whether its bytes contain    *)
(* the separator '|' or a line end.  (The first byte of a packet is its    *)
(* command, neither of the two; a separator as the very last byte only     *)
(* shortens the packet and counts as "plain", like the packets of the unit *)
(* test, which are all recorded without their last byte.)                  *)
(***************************************************************************)
EXTENDS JTickLoop, Sequences, SequencesExt, FiniteSetsExt

CONSTANTS
  MaxTick,              \* bound: ticks of the recording
  MaxSession,           \* bound: sessions of the recording
  MaxRecord,            \* bound: records of a recording in memory
  MaxLine,              \* bound: records of a recording in a file
  Text                  \* what packets contain: "plain", "bar", "newline"

ASSUME BoundsAssumption ==
  /\ MaxTick \in Nat /\ MaxSession \in Nat \ {0}
  /\ MaxRecord \in Nat /\ MaxLine \in Nat
ASSUME TextAssumption == Text \subseteq {"plain", "bar", "newline"}

Session == 1..MaxSession

(* "OTHER" is a command JCommander::ProcessPacket does not know.           *)
Command == {"LOGIN", "CHAT", "MOVE", "LOGOUT", "OTHER"}

Info(texts) ==
  [tickCount : 1..MaxTick, sessionID : Session, command : Command, text : texts]

VARIABLES
  recorded,             \* the recording
  source,               \* where it is read from: "file" or "list"
  m_packetInfoListEachSession,  \* by session id; {}: no list (any more)
  testTick,             \* tick.tickCount of the unit test
  m_commanders,         \* by the session they replay
  m_packetList,         \* of each session: the records not yet executed
  m_sendQue,            \* of each session: the LOGINs and chat lines whose
                        \* answers it was sent (not the steps of its character)
  logicPc, index,       \* where the tick is, and at which commander
  executed,             \* history: each record executed, and when
  crashed               \* a commander used a character it does not have

dataVars == <<m_packetInfoListEachSession, m_commanders, m_packetList, m_sendQue>>
tickVars == <<testTick, loopVars>>
vars == <<recorded, source, dataVars, tickVars, logicPc, index, executed, crashed>>

Record == 1..Len(recorded)

TypeOK ==
  /\ LoopTypeOK
  /\ recorded \in Seq(Info(Text \cup {"plain"}))
  /\ source \in {"file", "list"}
  /\ m_packetInfoListEachSession \in [0..MaxSession -> SUBSET (0..Len(recorded))]
  /\ testTick \in 0..MaxTick
  /\ m_commanders \in Seq(Session)
  /\ m_packetList \in [Session -> SUBSET Record]
  /\ m_sendQue \in [Session -> Seq(Record)]
  /\ logicPc \in {"load", "pre", "create", "process", "update"}
  /\ index \in 1..Len(m_commanders) + 1
  /\ executed \in Seq([record : Record, tick : 1..MaxTick])
  /\ crashed \in BOOLEAN

-------------------------------------------------------------------------------
(* A commander has no character before its LOGIN, and the recorded server  *)
(* did not die: who was served beyond the tick it joined had logged in     *)
(* then, and nobody moved before.  (A packet is recorded before anything   *)
(* is done with it: chat lines, unknown commands and a LOGOUT may come     *)
(* before the LOGIN of the same tick, or without one from a client that    *)
(* logs out or vanishes in the tick it joins.)                             *)
LoggedInFirst(r) ==
  \A j \in 1..Len(r) :
    LET before == {i \in 1..j - 1 : r[i].sessionID = r[j].sessionID}
        logins == {i \in before : r[i].command = "LOGIN"}
    IN /\ r[j].command = "MOVE" => logins # {}
       /\ \A h \in before : r[h].tickCount < r[j].tickCount =>
            \E i \in logins : r[i].tickCount <= r[h].tickCount

(* The recordings a server makes, up to any moment: ticks never decrease,  *)
(* in a tick the commanders come in the order they were accepted (JServer's*)
(* AcceptOrder), nothing of a commander is processed after the tick of its *)
(* LOGOUT, and nothing more in a tick after an unknown command.            *)
IsRecording(r) ==
  /\ LoggedInFirst(r)
  /\ \A i, j \in 1..Len(r) : i < j =>
       /\ r[i].tickCount <= r[j].tickCount
       /\ r[i].tickCount = r[j].tickCount => r[i].sessionID <= r[j].sessionID
       /\ r[i].sessionID = r[j].sessionID /\ r[i].command = "LOGOUT" =>
            r[i].tickCount = r[j].tickCount
       /\ r[i].sessionID = r[j].sessionID /\ r[i].command = "OTHER" =>
            r[i].tickCount < r[j].tickCount
       /\ r[j].sessionID < r[i].sessionID =>
            \E h \in 1..i - 1 : r[h].sessionID = r[j].sessionID

(* Every recording starts with a shorter one.                              *)
Recording(texts, max) ==
  LET upTo[n \in 0..max] ==
        IF n = 0 THEN {<<>>}
        ELSE upTo[n - 1] \cup
               {r \in {Append(q, i) : q \in upTo[n - 1], i \in Info(texts)} : IsRecording(r)}
  IN upTo[max]

Init ==
  /\ LoopInit
  /\ \/ source = "file" /\ recorded \in Recording(Text, MaxLine)
     \/ source = "list" /\ recorded \in Recording({"plain"}, MaxRecord)
  /\ m_packetInfoListEachSession = [s \in 0..MaxSession |-> {}]
  /\ testTick = 0
  /\ m_commanders = <<>>
  /\ m_packetList = [s \in Session |-> {}]
  /\ m_sendQue = [s \in Session |-> <<>>]
  /\ logicPc = "load"
  /\ index = 1
  /\ executed = <<>>
  /\ crashed = FALSE

-------------------------------------------------------------------------------
(* JReplay_Info, JReplayReader and the constructor of JReplayServer.       *)

TickOf(k) == IF k = 0 THEN 0 ELSE recorded[k].tickCount

SessionOf(k) == IF k = 0 THEN 0 ELSE recorded[k].sessionID

(* What DeSerialize makes of the lines Serialize wrote for a record: a     *)
(* separator in the packet gives a fourth part, a line end gives a second  *)
(* line of one part.                                                       *)
DeSerialize(k) ==
  (IF recorded[k].text # "bar" THEN {k} ELSE {}) \cup
    (IF recorded[k].text # "plain" THEN {0} ELSE {})

(* operator==(b): b == (tickCount == 0 && sessionID == 0)                  *)
Equals(k, b) == b = (TickOf(k) = 0 /\ SessionOf(k) = 0)

(* Line by line; the last getline finds the end of the file, and no line.  *)
(* if (replayInfo == false) continue;                                      *)
LoadReplayInfo_File ==
  {k \in {0} \cup UNION {DeSerialize(j) : j \in Record} : ~Equals(k, FALSE)}

LoadReplayInfo_List == Record

(* The lists of the map, by session id; only sessions with a record have   *)
(* one.  (The sort that follows in the reader sorts copies.)               *)
ListsOf(infos) == [s \in 0..MaxSession |-> {k \in infos : SessionOf(k) = s}]

Load ==
  /\ logicPc = "load"
  /\ m_packetInfoListEachSession' =
       ListsOf(IF source = "file" THEN LoadReplayInfo_File ELSE LoadReplayInfo_List)
  /\ logicPc' = "pre"
  /\ UNCHANGED <<recorded, source, tickVars, m_commanders, m_packetList, m_sendQue,
                 index, executed, crashed>>

-------------------------------------------------------------------------------
(* The tick given to the handlers.                                         *)
Tick == IF source = "file" THEN tickCount ELSE testTick

(* ServerLogicThread between the ticks.                                    *)
ServerLogicThread ==
  /\ source = "file" /\ logicPc = "pre" /\ ~crashed
  /\ Loop_Now \/ Loop_Sleep
  /\ UNCHANGED <<recorded, source, dataVars, testTick, logicPc, index, executed,
                 crashed>>

(* A tick begins: tick.Update(), or tick.tickCount++ of the unit test.     *)
NextTick ==
  /\ logicPc = "pre"
  /\ ~crashed
  /\ Tick < MaxTick
  /\ \/ source = "file" /\ Loop_Update /\ UNCHANGED testTick
     \/ source = "list" /\ testTick' = testTick + 1 /\ UNCHANGED loopVars
  /\ logicPc' = "create"
  /\ UNCHANGED <<recorded, source, dataVars, index, executed, crashed>>

(* The tick is over.                                                       *)
TickDone ==
  \/ source = "file" /\ Loop_Done /\ UNCHANGED testTick
  \/ source = "list" /\ UNCHANGED tickVars

-------------------------------------------------------------------------------
(* PreUpdateCommanders of JReplayServer.                                   *)

(* Mutant: the session starts with its last record.                        *)
StartsAt_Back(list, tick) == TickOf(Max(list)) = tick

(* The first record of the list is of this tick.                           *)
StartsAt(list, tick) == TickOf(Min(list)) = tick

(* JReplaySession takes its id from the first record of its list.          *)
SessionID(list) == SessionOf(Min(list))

(* Mutant: new commanders go to the front.                                 *)
JoinCommanders_Front(s) == <<s>> \o m_commanders

(* JServer::PreUpdateCommanders appends the new commanders; nobody sees    *)
(* them before the last of them is there.                                  *)
JoinCommanders(s) == Append(m_commanders, s)

(* The lists that are still there and start in this tick.                  *)
Starting ==
  {s \in 0..MaxSession :
     /\ m_packetInfoListEachSession[s] # {}
     /\ StartsAt(m_packetInfoListEachSession[s], Tick)}

(* The next of them becomes a session with its commander, and is erased.   *)
PreUpdateCommanders_Create ==
  /\ logicPc = "create"
  /\ Starting # {}
  /\ LET first == Min(Starting)
         list == m_packetInfoListEachSession[first]
     IN /\ m_commanders' = JoinCommanders(SessionID(list))
        /\ m_packetList' = [m_packetList EXCEPT ![SessionID(list)] = list]
        /\ m_packetInfoListEachSession' =
             [m_packetInfoListEachSession EXCEPT ![first] = {}]
  /\ UNCHANGED <<recorded, source, tickVars, m_sendQue, logicPc, index, executed,
                 crashed>>

PreUpdateCommanders_End ==
  /\ logicPc = "create"
  /\ Starting = {}
  /\ logicPc' = "process"
  /\ UNCHANGED <<recorded, source, dataVars, tickVars, index, executed, crashed>>

-------------------------------------------------------------------------------
(* ProcessPacket of JServer, of JReplaySession and of JCommander.          *)

AtCommander == ~crashed /\ logicPc = "process" /\ index <= Len(m_commanders)

Current == m_commanders[index]

(* Mutant: the queue has the latest record on top.                         *)
Top_Latest(s) ==
  {k \in m_packetList[s] : \A j \in m_packetList[s] : TickOf(k) >= TickOf(j)}

(* The records priority_queue may have on top: the earliest ones.  It      *)
(* keeps no order among records of one tick.                               *)
Top(s) ==
  {k \in m_packetList[s] : \A j \in m_packetList[s] : TickOf(k) <= TickOf(j)}

Executed == {e.record : e \in ToSet(executed)}

(* m_char is not null.                                                     *)
HasCharacter(s) ==
  \E k \in Executed : SessionOf(k) = s /\ recorded[k].command = "LOGIN"

(* Who is sent an answer at once: to a LOGIN the commander itself (the ack *)
(* and the place of its new character), to a CHAT all.  The unit test asks *)
(* the sessions to keep it.  What else they keep, the PKS_SC_MOVE of each  *)
(* step of a character (JPlayerChar::Move), is left out: with the elapsed  *)
(* times of the test it is settled by what its owner steered by and when.  *)
Hears(k) ==
  {s \in ToSet(m_commanders) :
     \/ recorded[k].command = "LOGIN" /\ s = Current
     \/ recorded[k].command = "CHAT"}

PostSend(k, s) ==
  IF source = "list" /\ s \in Hears(k) THEN Append(m_sendQue[s], k) ELSE m_sendQue[s]

(* packetProcess(tick, top()); pop().  A MOVE goes to m_char unasked.      *)
ProcessPacket_Packet ==
  /\ AtCommander
  /\ \E k \in Top(Current) :
       /\ TickOf(k) = Tick
       /\ executed' = Append(executed, [record |-> k, tick |-> Tick])
       /\ m_packetList' = [m_packetList EXCEPT ![Current] = @ \ {k}]
       /\ m_sendQue' = [s \in Session |-> PostSend(k, s)]
       /\ crashed' = (recorded[k].command = "MOVE" /\ ~HasCharacter(Current))
  /\ UNCHANGED <<recorded, source, m_packetInfoListEachSession, tickVars,
                 m_commanders, logicPc, index>>

(* Nothing left, or the top is of another tick: a later one waits for it,  *)
(* an earlier one is reported and stays.                                   *)
ProcessPacket_Next ==
  /\ AtCommander
  /\ \A k \in Top(Current) : TickOf(k) # Tick
  /\ index' = index + 1
  /\ UNCHANGED <<recorded, source, dataVars, tickVars, logicPc, executed, crashed>>

ProcessPacket_End ==
  /\ logicPc = "process"
  /\ index > Len(m_commanders)
  /\ index' = 1
  /\ logicPc' = "update"
  /\ UNCHANGED <<recorded, source, dataVars, tickVars, executed, crashed>>

-------------------------------------------------------------------------------
(* Mutant: a logout goes unnoticed.                                        *)
IsReadyDie_Never(s) == FALSE

IsReadyDie(s) ==
  \E k \in Executed : SessionOf(k) = s /\ recorded[k].command = "LOGOUT"

(* IsDisconnected() is false for every replay session.                     *)
UpdateCommanders_Remove ==
  /\ logicPc = "update"
  /\ \E i \in 1..Len(m_commanders) :
       /\ IsReadyDie(m_commanders[i])
       /\ \A j \in 1..i - 1 : ~IsReadyDie(m_commanders[j])
       /\ m_commanders' = RemoveAt(m_commanders, i)
  /\ UNCHANGED <<recorded, source, m_packetInfoListEachSession, m_packetList,
                 m_sendQue, tickVars, logicPc, index, executed, crashed>>

(* Who stays updates its character; the order among them and those who     *)
(* leave makes no difference.                                              *)
UpdateCommanders_End ==
  /\ logicPc = "update"
  /\ \A s \in ToSet(m_commanders) : ~IsReadyDie(s)
  /\ crashed' = (\E s \in ToSet(m_commanders) : ~HasCharacter(s))
  /\ TickDone
  /\ logicPc' = "pre"
  /\ UNCHANGED <<recorded, source, dataVars, index, executed>>

Next ==
  \/ Load
  \/ ServerLogicThread
  \/ NextTick
  \/ PreUpdateCommanders_Create
  \/ PreUpdateCommanders_End
  \/ ProcessPacket_Packet
  \/ ProcessPacket_Next
  \/ ProcessPacket_End
  \/ UpdateCommanders_Remove
  \/ UpdateCommanders_End

Spec == Init /\ [][Next]_vars
-------------------------------------------------------------------------------
(* After each tick exactly the records up to this tick were executed, each *)
(* of them once and in the tick it was recorded in.                        *)
ExecutedToDate ==
  logicPc = "pre" =>
    /\ Executed = {k \in Record : TickOf(k) <= Tick}
    /\ \A i, j \in 1..Len(executed) :
         executed[i].record = executed[j].record => i = j
    /\ \A e \in ToSet(executed) : e.tick = TickOf(e.record)

(* The replay of a recording in memory is up to date after every tick.     *)
ListIsReplayed == source = "list" => ExecutedToDate

SameTickOfOneSession(j, k) == TickOf(j) = TickOf(k) /\ SessionOf(j) = SessionOf(k)

(* Two records are executed in another order than they were recorded in    *)
(* only if they are of one session and one tick.                           *)
OrderUpToTies ==
  \A i, j \in 1..Len(executed) :
    i < j /\ executed[i].record > executed[j].record =>
      SameTickOfOneSession(executed[i].record, executed[j].record)

RecordsOf(s) == {k \in Record : SessionOf(k) = s}

LoginsOf(s)  == {k \in RecordsOf(s) : recorded[k].command = "LOGIN"}

LogoutsOf(s) == {k \in RecordsOf(s) : recorded[k].command = "LOGOUT"}

(* The ticks up to which the recorded server may have served session s: to *)
(* its LOGOUT, or until its client vanished, which is not recorded.        *)
LastTickOf(s) ==
  {t \in 1..MaxTick :
     /\ \A k \in RecordsOf(s) : TickOf(k) <= t
     /\ \A k \in LogoutsOf(s) : TickOf(k) = t
     /\ LoginsOf(s) = {} => \E k \in RecordsOf(s) : TickOf(k) = t}

(* What the recorded server, if it served session s up to tick t, has      *)
(* answered it by now: its LOGINs, and every chat line from the tick it    *)
(* joined (the tick of its first record).                                  *)
Heard(s, t) ==
  {k \in Record :
     /\ TickOf(k) <= Tick /\ TickOf(k) <= t
     /\ \/ k \in LoginsOf(s)
        \/ /\ recorded[k].command = "CHAT"
           /\ \E j \in RecordsOf(s) : TickOf(j) <= TickOf(k)}

(* Between ticks the replay has answered a session what the recorded       *)
(* server answered it while it served it: once, in the same order but for  *)
(* records of one session and tick, and nothing more after a LOGOUT.  The  *)
(* unit test checks the replay by that.  (A replay session is never        *)
(* disconnected: the commander of a client that vanished goes on hearing   *)
(* chat lines that were sent to nobody.  Of those nothing is said.)        *)
SameAnswers ==
  source = "list" /\ logicPc = "pre" =>
    \A s \in Session :
      /\ \A t \in LastTickOf(s) :
           {k \in ToSet(m_sendQue[s]) : TickOf(k) <= t \/ LogoutsOf(s) # {}}
             = Heard(s, t)
      /\ \A i, j \in 1..Len(m_sendQue[s]) :
           i < j => \/ m_sendQue[s][i] < m_sendQue[s][j]
                    \/ /\ m_sendQue[s][i] > m_sendQue[s][j]
                       /\ SameTickOfOneSession(m_sendQue[s][i], m_sendQue[s][j])

(* What a character goes by: the LOGIN that made it, then every MOVE.      *)
Steers(s) == {k \in RecordsOf(s) : recorded[k].command \in {"LOGIN", "MOVE"}}

(* After each tick every character heads where it headed in the recorded   *)
(* server (and so, with the elapsed times of the unit test, has taken and  *)
(* sent the same steps), unless two packets it goes by were recorded in    *)
(* one tick.                                                               *)
SameHeading ==
  source = "list" /\ logicPc = "pre" =>
    \A s \in Session :
      (\A j, k \in Steers(s) : TickOf(j) = TickOf(k) => j = k) =>
        \A k \in Steers(s) :
          /\ TickOf(k) <= Tick
          /\ \A j \in Steers(s) : TickOf(j) <= Tick => j <= k
          => \E i \in 1..Len(executed) :
               /\ executed[i].record = k
               /\ \A j \in i + 1..Len(executed) : executed[j].record \notin Steers(s)

(* The replay dies only of a MOVE that was recorded in the tick of its     *)
(* session's LOGIN, which the priority queue may put behind it, or of a    *)
(* session that has neither a LOGIN nor a LOGOUT: its client vanished in   *)
(* the tick it joined (or the recording ends there), but a replay session  *)
(* is never disconnected, and is updated without a character.              *)
CrashHasCause ==
  crashed =>
    \/ \E j, k \in Record :
         /\ recorded[j].command = "LOGIN" /\ recorded[k].command = "MOVE"
         /\ SameTickOfOneSession(j, k)
         /\ k \in Executed /\ j \notin Executed
    \/ \E k \in Executed :
         LoginsOf(SessionOf(k)) = {} /\ LogoutsOf(SessionOf(k)) = {}

(* README.md:20: -ReplayServer reads packet_result.txt and replays it.     *)
FileIsReplayed == source = "file" => ExecutedToDate
===============================================================================
