--------------------------- MODULE JClientBotProofs ---------------------------
(***************************************************************************)
(* Proofs about JWorld and JClientBot, for every number of commanders,     *)
(* length of the line, names, distances and slots of a view packet.        *)
(***************************************************************************)
EXTENDS JClientBot, SequenceFacts, FiniteSetTheorems, TLAPS

-------------------------------------------------------------------------------
(* The parts of the inductive invariant.                                   *)

(* Who is served has a name; who is not sees nobody.                       *)
Joined ==
  /\ \A s \in Served : name[s] \in Names
  /\ \A s \in Commander \ Served : m_views[s] = {}

(* Who does not move is where it was asked to go; who moves, moves on.     *)
Motion ==
  /\ \A s \in Commander : ~m_isMoving[s] => m_positionCur[s] = m_positionDest[s]
  /\ logicPc \in {"packets", "update"} => distance > 0

(* UpdateView has brought the views up to date from the first commander to *)
(* the one before index.                                                   *)
Sight ==
  /\ logicPc = "tick" => \A s \in Served : m_views[s] = InSight(s)
  /\ logicPc = "view" => \A s \in Served : s < index => m_views[s] = InSight(s)
  /\ logicPc = "packets" => \A s \in Commander : m_views[s] \subseteq Served

(* Each send has one receive at most; the buffer is full while a callback  *)
(* waits, with a mixture if several do.                                    *)
Counted ==
  /\ sendCallbacks + receives + callbacks <= sends
  /\ sends <= moves + 1
  /\ torn => sends > 1
  /\ (callbacks = 0) <=> (data = <<>>)
  /\ callbacks > 1 => torn /\ data = <<Part>>

(* What the observer was sent and its client has not processed.            *)
Pipe == data \o net

(* A packet is of the kind, or what is left of it may have been.           *)
Of(p, kind) == p.command \in {kind, "PART"}

(* s has a packet of the kind; the last of the kind in s, if any, is x, or *)
(* cannot be told.                                                         *)
Has(s, kind) == \E i \in 1..Len(s) : Of(s[i], kind)

LastIs(s, kind, x) ==
  \A i \in 1..Len(s) :
    Of(s[i], kind) /\ (\A j \in i + 1..Len(s) : ~Of(s[j], kind)) => s[i] \in {x, Part}

(* The last MOVE on its way brings the position the character has; if none *)
(* is, the client shows it, or has not processed the last one.             *)
PositionComes ==
  observer \in Served =>
    /\ LastIs(Pipe, "MOVE", MovePacket(m_positionCur[observer]))
    /\ Has(Pipe, "MOVE") \/ "MOVE" \in lost \/ Position = m_positionCur[observer]

(* The observer's views are those of this tick.                            *)
Settled ==
  /\ observer \in Served /\ m_views[observer] # {}
  /\ logicPc = "tick" \/ (logicPc = "view" /\ observer < index)

(* Then the same is true of the last VIEW.                                 *)
ViewComes ==
  Settled =>
    /\ LastIs(Pipe, "VIEW", ViewPacket(m_views[observer]))
    /\ \/ Has(Pipe, "VIEW") \/ "VIEW" \in lost
       \/ [n \in DOMAIN ViewList |-> ViewList[n].position] = Shown(m_views[observer])

-------------------------------------------------------------------------------
(* Which steps change which variables.                                     *)

AnyLogin  == \E s \in Commander : OnPacket_LOGIN(s)
AnyAgain  == \E s \in Others : OnPacket_LOGIN_Again(s)
AnyMove   == \E s \in Commander : OnPacket_MOVE(s)
AnyLogout == \E s \in Others : OnPacket_LOGOUT(s)
AnyAsk    == \E s \in Commander : Ask(s)

(* Each variable is changed by these actions and left alone by all others. *)
LEMMA Frames ==
  ASSUME Next
  PROVE  /\ AnyLogin \/ AnyLogout \/ UpdateCommanders_Remove \/ UNCHANGED commander
         /\ AnyLogin \/ AnyAgain \/ UpdateCommanders_Remove \/ UNCHANGED name
         /\ AnyAgain \/ UpdateCommanders_Remove \/ Update_Move \/ UNCHANGED m_positionCur
         /\ AnyMove \/ AnyAgain \/ UpdateCommanders_Remove \/ UNCHANGED m_positionDest
         /\ AnyMove \/ AnyAgain \/ UpdateCommanders_Remove \/ Update_Stand
            \/ UNCHANGED m_isMoving
         /\ UpdateCommanders_Remove \/ UpdateViews \/ UNCHANGED m_views
         /\ AnyAsk \/ AnyMove \/ UpdateCommanders_Remove \/ UNCHANGED request
         /\ AnyAsk \/ AnyAgain \/ UNCHANGED moves
         /\ \/ Tick_Update \/ ProcessPacket_End \/ UpdateCommanders_Remove
            \/ Update_Stand \/ Update_Move \/ UpdateViews \/ UNCHANGED logicPc
         /\ \/ ProcessPacket_End \/ UpdateCommanders_Remove
            \/ Update_Stand \/ Update_Move \/ UpdateViews \/ UNCHANGED index
         /\ \/ Tick_Update \/ UpdateCommanders_Remove
            \/ Update_Stand \/ Update_Move \/ UpdateViews \/ UNCHANGED distance
         /\ Tick_Update \/ UNCHANGED firstTick
         /\ AnyLogin \/ Update_Move \/ UpdateViews \/ Receive \/ UNCHANGED net
         /\ Client_Send \/ UNCHANGED sends
         /\ Client_Send \/ SendData \/ UNCHANGED sendCallbacks
         /\ SendData \/ Receive \/ ReceiveData \/ UNCHANGED receives
         /\ Receive \/ ReceiveData \/ UNCHANGED <<data, callbacks>>
         /\ Receive \/ UNCHANGED <<torn, cuts>>
         /\ ReceiveData \/ UNCHANGED shownVars
<1> USE DEF Next, World, Tick, AnyLogin, AnyAgain, AnyMove, AnyLogout, AnyAsk, Others, worldVars,
            charVars, clockVars, askVars, tickVars, sendVars, receiveVars, shownVars,
            Tick_Update, OnPacket_LOGIN, OnPacket_LOGIN_Again, OnPacket_MOVE,
            OnPacket_LOGOUT, Ask,
            ProcessPacket_End, UpdateCommanders_Remove, Update_Stand, Update_Move,
            UpdateViews, Client_Send, SendData, Receive, ReceiveData
<1>0. observer \in Commander
  BY WorldAssumption
<1>1. AnyLogin \/ AnyLogout \/ UpdateCommanders_Remove \/ UNCHANGED commander
  BY <1>0
<1>2. AnyLogin \/ AnyAgain \/ UpdateCommanders_Remove \/ UNCHANGED name
  BY <1>0
<1>3. AnyAgain \/ UpdateCommanders_Remove \/ Update_Move \/ UNCHANGED m_positionCur
  BY <1>0
<1>4. AnyMove \/ AnyAgain \/ UpdateCommanders_Remove \/ UNCHANGED m_positionDest
  BY <1>0
<1>5. AnyMove \/ AnyAgain \/ UpdateCommanders_Remove \/ Update_Stand
      \/ UNCHANGED m_isMoving
  BY <1>0
<1>6. UpdateCommanders_Remove \/ UpdateViews \/ UNCHANGED m_views
  BY <1>0
<1>7. AnyAsk \/ AnyMove \/ UpdateCommanders_Remove \/ UNCHANGED request
  BY <1>0
<1>8. AnyAsk \/ AnyAgain \/ UNCHANGED moves
  BY <1>0
<1>9. \/ Tick_Update \/ ProcessPacket_End \/ UpdateCommanders_Remove
     \/ Update_Stand \/ Update_Move \/ UpdateViews \/ UNCHANGED logicPc
  BY <1>0
<1>10. \/ ProcessPacket_End \/ UpdateCommanders_Remove
     \/ Update_Stand \/ Update_Move \/ UpdateViews \/ UNCHANGED index
  BY <1>0
<1>11. \/ Tick_Update \/ UpdateCommanders_Remove
     \/ Update_Stand \/ Update_Move \/ UpdateViews \/ UNCHANGED distance
  BY <1>0
<1>12. Tick_Update \/ UNCHANGED firstTick
  BY <1>0
<1>13. AnyLogin \/ Update_Move \/ UpdateViews \/ Receive \/ UNCHANGED net
  BY <1>0
<1>14. Client_Send \/ UNCHANGED sends
  BY <1>0
<1>15. Client_Send \/ SendData \/ UNCHANGED sendCallbacks
  BY <1>0
<1>16. SendData \/ Receive \/ ReceiveData \/ UNCHANGED receives
  BY <1>0
<1>17. Receive \/ ReceiveData \/ UNCHANGED <<data, callbacks>>
  BY <1>0
<1>18. Receive \/ UNCHANGED <<torn, cuts>>
  BY <1>0
<1>19. ReceiveData \/ UNCHANGED shownVars
  BY <1>0
<1>20. QED
  BY ONLY <1>1, <1>2, <1>3, <1>4, <1>5, <1>6, <1>7, <1>8, <1>9, <1>10,
          <1>11, <1>12, <1>13, <1>14, <1>15, <1>16, <1>17, <1>18, <1>19

(* What a further LOGIN does.                                              *)
LEMMA AgainFacts ==
  ASSUME AnyAgain
  PROVE  \E s \in Commander :
           /\ s # observer /\ s \in Served /\ logicPc = "packets"
           /\ moves < MaxMove /\ moves' = moves + 1
           /\ \E n \in Name[s] : name' = [name EXCEPT ![s] = n]
           /\ m_positionCur' = [m_positionCur EXCEPT ![s] = 0]
           /\ m_positionDest' = [m_positionDest EXCEPT ![s] = 0]
           /\ m_isMoving' = [m_isMoving EXCEPT ![s] = FALSE]
           /\ UNCHANGED <<commander, m_views, request, logicPc, index>>
           /\ UNCHANGED <<distance, net>> /\ Served' = Served
BY DEF AnyAgain, OnPacket_LOGIN_Again, Others, Served, tickVars, clockVars

-------------------------------------------------------------------------------
(* Commanders are numbers from 1 to the bound.                             *)
LEMMA CommanderFacts ==
  /\ MaxCommander \in Nat /\ MaxCommander >= 1 /\ observer \in Commander
  /\ \A s \in Commander : s \in Nat /\ 1 <= s /\ s <= MaxCommander
BY WorldAssumption DEF Commander

(* The line starts at 0.                                                   *)
LEMMA PlaceFacts == MaxPlace \in Nat /\ 0 \in Place
<1>1. MaxPlace \in Nat
  BY WorldAssumption
<1>2. QED
  BY <1>1 DEF Place

(* First is the first of those served, or is past them all.                *)
LEMMA FirstFacts ==
  ASSUME NEW S, S \subseteq Commander
  PROVE  /\ First(S) \in 1..MaxCommander + 1
         /\ S # {} => First(S) \in S
         /\ \A s \in S : First(S) <= s
<1> DEFINE T == S \cup {MaxCommander + 1}
<1>1. T \subseteq Nat /\ T \subseteq 1..MaxCommander + 1 /\ T # {}
  BY CommanderFacts
<1>2. First(S) = Min(T)
  BY DEF First
<1> HIDE DEF T
<1>3. First(S) \in T /\ \A m \in T : First(S) <= m
  BY <1>1, <1>2, MinFacts
<1>4. \A s \in S : First(S) <= s
  BY <1>3 DEF T
<1>5. ASSUME S # {} PROVE First(S) \in S
  <2>1. PICK s \in S : TRUE
    BY <1>5
  <2>2. First(S) <= s /\ s <= MaxCommander /\ s \in Nat
    BY <1>4, CommanderFacts
  <2>3. First(S) # MaxCommander + 1
    BY <2>2, CommanderFacts
  <2>4. QED
    BY <1>3, <2>3 DEF T
<1>6. QED
  BY <1>1, <1>3, <1>4, <1>5

(* Where the loops over m_commanders go: to the next commander, whoever    *)
(* comes before it is done; or, past the last one, to the next loop or to  *)
(* the end of the tick.                                                    *)
LEMMA AdvanceFacts ==
  ASSUME index \in Served, Advance,
         logicPc \in {"update", "view"}
  PROVE  \/ /\ logicPc' = logicPc /\ distance' = distance
            /\ index' \in Served /\ index < index'
            /\ \A s \in Served : s < index' => s <= index
         \/ /\ \A s \in Served : s <= index
            /\ distance' = 0 /\ index' \in 1..MaxCommander + 1
            /\ \/ /\ logicPc = "update" /\ logicPc' = "view"
                  /\ \A s \in Served' : index' <= s
               \/ logicPc' = "tick" /\ (logicPc = "update" => Served' = {})
<1> DEFINE later == {s \in Served : s > index}
<1>0. /\ Served \subseteq Commander /\ Served' \subseteq Commander
      /\ index \in Nat /\ \A s \in Served : s \in Nat
  BY CommanderFacts DEF Served
<1>1. CASE later # {}
  <2>1. index' = Min(later) /\ UNCHANGED <<logicPc, distance>>
    BY <1>1 DEF Advance
  <2>2. later \subseteq Nat
    BY <1>0
  <2> HIDE DEF later
  <2>3. index' \in later /\ \A m \in later : index' <= m
    BY <1>1, <2>1, <2>2, MinFacts
  <2>4. ASSUME NEW s \in Served, s < index' PROVE s <= index
    <3>1. s \notin later
      BY <1>0, <2>2, <2>3, <2>4
    <3>2. QED
      BY <1>0, <3>1 DEF later
  <2>5. QED
    BY <1>0, <2>1, <2>3, <2>4 DEF later
<1>2. CASE later = {}
  <2>1. /\ index' = First(Served')
        /\ logicPc' = IF logicPc = "update" /\ Served' # {} THEN "view" ELSE "tick"
        /\ distance' = 0
    BY <1>2 DEF Advance
  <2>2. index' \in 1..MaxCommander + 1 /\ \A s \in Served' : index' <= s
    BY <1>0, <2>1, FirstFacts
  <2>3. \A s \in Served : s <= index
    BY <1>0, <1>2
  <2> HIDE DEF later
  <2>4. QED
    BY <2>1, <2>2, <2>3
<1>3. QED
  BY <1>1, <1>2

(* What Move does: it stays on the line, and gets nearer.                  *)
LEMMA MoveFacts ==
  ASSUME distance \in Nat, NEW p \in Place, NEW dest \in Place
  PROVE  /\ Move(p, dest) \in Place
         /\ distance > 0 /\ p # dest => Gap(Move(p, dest), dest) < Gap(p, dest)
<1>0. MaxPlace \in Nat
  BY WorldAssumption
<1>1. CASE Gap(p, dest) < distance
  BY <1>0, <1>1 DEF Move, Gap, Place
<1>2. CASE ~(Gap(p, dest) < distance)
  BY <1>0, <1>2 DEF Move, Gap, Place
<1>3. QED
  BY <1>1, <1>2

(* What a loop step does to logicPc and index.                             *)
LEMMA LoopTypes ==
  ASSUME WorldTypeOK, Advance, index \in Served, logicPc \in {"update", "view"}
  PROVE  /\ logicPc' \in {"tick", "update", "view"}
         /\ index' \in 1..MaxCommander + 1
         /\ distance' \in Nat
<1>1. Served \subseteq 1..MaxCommander + 1
  BY CommanderFacts DEF Served, Commander
<1>2. distance \in Nat /\ logicPc \in {"update", "view"}
  BY DEF WorldTypeOK
<1>3. /\ distance' = distance \/ distance' = 0
      /\ logicPc' = logicPc \/ logicPc' = "view" \/ logicPc' = "tick"
      /\ index' \in Served \/ index' \in 1..MaxCommander + 1
  BY AdvanceFacts
<1>4. 0 \in Nat
  OBVIOUS
<1>5. QED
  BY ONLY <1>1, <1>2, <1>3, <1>4, logicPc \in {"update", "view"}

(* What is on the net: a packet with a position is one, and so is a part.  *)
LEMMA PacketFacts ==
  /\ [command |-> "LOGIN_ACK"] \in Packet /\ Part \in Packet
  /\ \A p \in Place : MovePacket(p) \in Packet
  /\ \A p \in Packet : p.command \in {"LOGIN_ACK", "MOVE", "VIEW", "PART"}
  /\ \A p \in Packet : p.command = "PART" <=> p = Part
  /\ \A p \in Packet : p.command = "MOVE" => p.dest \in Place
  /\ \A p \in Packet : p.command = "VIEW" => p.slots \in [1..ViewSlots -> Slot]
BY DEF Packet, MovePacket, Part

(* What a receive leaves in the buffer and on the net.                     *)
LEMMA ReceiveTypes ==
  ASSUME data \in Seq(Packet), net \in Seq(Packet), Receive
  PROVE  /\ data' \in Seq(Packet) /\ data' # <<>> /\ net' \in Seq(Packet)
         /\ callbacks > 0 => data' = <<Part>>
<1>1. PICK k \in 1..Len(net) : Receive_Whole(k) \/ Receive_Cut(k)
  BY DEF Receive
<1>2. /\ Len(net) \in Nat /\ k \in Nat /\ k <= Len(net) /\ k >= 1
      /\ 0 + 1 = 1 /\ k - 1 \in Nat /\ k - 1 <= Len(net)
  BY LenProperties
<1> DEFINE whole == SubSeq(net, 1, k)
           short == SubSeq(net, 1, k - 1)
           rest  == SubSeq(net, k + 1, Len(net))
<1>3. whole \in Seq(Packet) /\ Len(whole) = IF 0 < k THEN k - 0 ELSE 0
  BY <1>2, PartElements
<1>4. short \in Seq(Packet) /\ rest \in Seq(Packet)
  BY <1>2, PartElements
<1>5. Part \in Packet /\ <<Part>> \in Seq(Packet) /\ <<Part>> # <<>>
  BY PacketFacts
<1>6. whole # <<>>
  BY <1>2, <1>3
<1>7. Append(short, Part) \in Seq(Packet) /\ Append(short, Part) # <<>>
  BY <1>4, <1>5, AppendProperties
<1>8. <<Part>> \o rest \in Seq(Packet)
  BY <1>4, <1>5, ConcatProperties
<1>9. /\ data' = Into(whole) \/ data' = Into(Append(short, Part))
      /\ net' = rest \/ net' = <<Part>> \o rest
  BY <1>1 DEF Receive_Whole, Receive_Cut
<1> HIDE DEF whole, short, rest
<1>10. QED
  BY <1>3, <1>4, <1>5, <1>6, <1>7, <1>8, <1>9 DEF Into

(* Garbage is packets.                                                     *)
LEMMA ReadFacts ==
  ASSUME data \in Seq(Packet), data # <<>>
  PROVE  Head(data) \in Packet /\ Tail(data) \in Seq(Packet) /\ Read \subseteq Packet
<1>1. Head(data) \in Packet /\ Tail(data) \in Seq(Packet)
  BY TailFacts
<1>2. QED
  BY <1>1, CutAssumption DEF Read

(* So is a view, if those in sight have names.                             *)
LEMMA ViewPacketFacts ==
  ASSUME WorldTypeOK, Joined, NEW seen \in SUBSET Served
  PROVE  ViewPacket(seen) \in Packet
<1> DEFINE slot(i) == IF \E t \in seen : Nth(seen, t) = i
                        THEN LET t == CHOOSE t \in seen : Nth(seen, t) = i
                             IN [name |-> name[t], position |-> m_positionCur[t]]
                        ELSE [name |-> "None", position |-> 0]
<1>1. ASSUME NEW i \in 1..ViewSlots PROVE slot(i) \in Slot
  <2>1. CASE \E t \in seen : Nth(seen, t) = i
    <3> DEFINE t == CHOOSE t \in seen : Nth(seen, t) = i
    <3>1. t \in seen
      BY <2>1
    <3> HIDE DEF t
    <3>2. name[t] \in Names /\ m_positionCur[t] \in Place
      BY <3>1 DEF Joined, WorldTypeOK, Served
    <3>3. slot(i) = [name |-> name[t], position |-> m_positionCur[t]]
      BY <2>1 DEF t
    <3>4. QED
      BY <3>2, <3>3 DEF Slot
  <2>2. CASE ~(\E t \in seen : Nth(seen, t) = i)
    <3>1. 0 \in Place
      BY PlaceFacts
    <3>2. QED
      BY <2>2, <3>1 DEF Slot
  <2>3. QED
    BY <2>1, <2>2
<1>2. ViewPacket(seen) = [command |-> "VIEW", slots |-> [i \in 1..ViewSlots |-> slot(i)]]
  BY DEF ViewPacket
<1> HIDE DEF slot
<1>3. [i \in 1..ViewSlots |-> slot(i)] \in [1..ViewSlots -> Slot]
  BY <1>1
<1>4. QED
  BY <1>2, <1>3 DEF Packet

(* What the observer is sent is added to net.                              *)
LEMMA SendFacts ==
  ASSUME WorldTypeOK, NEW s, NEW packets \in Seq(Packet), Send(s, packets)
  PROVE  net' \in Seq(Packet)
<1>1. net \in Seq(Packet)
  BY DEF WorldTypeOK
<1>2. net \o packets \in Seq(Packet)
  BY <1>1, ConcatProperties
<1>3. net' = net \/ net' = net \o packets
  BY DEF Send
<1>4. QED
  BY <1>1, <1>2, <1>3

(* Type correctness of the world is kept by every step.                    *)
LEMMA WorldTypeStep == TypeOK /\ Joined /\ Next => WorldTypeOK'
<1> SUFFICES ASSUME TypeOK, Joined, Next PROVE WorldTypeOK'
  OBVIOUS
<1>0. WorldTypeOK
  BY DEF TypeOK
<1>a. Served \subseteq Commander /\ \A s \in Commander : s \in Nat
  BY CommanderFacts DEF Served
<1>1. commander' \in [Commander -> {"none", "in", "leaving", "gone"}]
  <2>0. commander \in [Commander -> {"none", "in", "leaving", "gone"}]
    BY <1>0 DEF WorldTypeOK
  <2>1. \/ commander' = commander
        \/ \E s \in Commander : \/ commander' = [commander EXCEPT ![s] = "in"]
                                \/ commander' = [commander EXCEPT ![s] = "leaving"]
        \/ commander' = [commander EXCEPT ![index] = "gone"]
    BY Frames DEF AnyLogin, AnyLogout, OnPacket_LOGIN, OnPacket_LOGOUT, Others,
                  UpdateCommanders_Remove
  <2>2. QED
    BY <2>0, <2>1
<1>2. name' \in [Commander -> Names \cup {""}]
  <2>0. name \in [Commander -> Names \cup {""}]
    BY <1>0 DEF WorldTypeOK
  <2>1. \/ name' = name
        \/ \E s \in Commander : \E n \in Name[s] : name' = [name EXCEPT ![s] = n]
        \/ name' = [name EXCEPT ![index] = ""]
    BY Frames, AgainFacts DEF AnyLogin, OnPacket_LOGIN, UpdateCommanders_Remove
  <2>2. \A s \in Commander : Name[s] \subseteq Names
    BY DEF Names
  <2>3. QED
    BY <2>0, <2>1, <2>2
<1>3. m_positionCur' \in [Commander -> Place]
  <2>0. /\ m_positionCur \in [Commander -> Place]
        /\ m_positionDest \in [Commander -> Place]
        /\ distance \in Nat /\ 0 \in Place
    BY <1>0, PlaceFacts DEF WorldTypeOK
  <2>1. CASE Update_Move
    <3>1. /\ index \in Commander
          /\ m_positionCur' = [m_positionCur EXCEPT ![index] =
                                 Move(m_positionCur[index], m_positionDest[index])]
      BY <2>1, <1>a DEF Update_Move, At
    <3>2. Move(m_positionCur[index], m_positionDest[index]) \in Place
      BY <2>0, <3>1, MoveFacts
    <3>3. QED
      BY <2>0, <3>1, <3>2
  <2>2. CASE UpdateCommanders_Remove
    <3>1. m_positionCur' = [m_positionCur EXCEPT ![index] = 0]
      BY <2>2 DEF UpdateCommanders_Remove
    <3>2. QED
      BY <2>0, <3>1
  <2>3. CASE AnyAgain
    BY <2>0, <2>3, AgainFacts
  <2>4. CASE ~Update_Move /\ ~UpdateCommanders_Remove /\ ~AnyAgain
    BY <2>0, <2>4, Frames
  <2>5. QED
    BY <2>1, <2>2, <2>3, <2>4
<1>4. m_positionDest' \in [Commander -> Place] /\ request' \in [Commander -> SUBSET Place]
  <2>0. /\ m_positionDest \in [Commander -> Place]
        /\ request \in [Commander -> SUBSET Place] /\ 0 \in Place
    BY <1>0, PlaceFacts DEF WorldTypeOK
  <2>1. CASE AnyMove
    <3>1. PICK s \in Commander : OnPacket_MOVE(s)
      BY <2>1 DEF AnyMove
    <3>2. /\ \E p \in request[s] : m_positionDest' = [m_positionDest EXCEPT ![s] = p]
          /\ request' = [request EXCEPT ![s] = {}]
      BY <3>1 DEF OnPacket_MOVE
    <3>3. QED
      BY <2>0, <3>2
  <2>2. CASE AnyAsk
    <3>1. PICK s \in Commander : Ask(s)
      BY <2>2 DEF AnyAsk
    <3>2. /\ \E p \in Place : request' = [request EXCEPT ![s] = {p}]
          /\ m_positionDest' = m_positionDest
      BY <3>1 DEF Ask, charVars
    <3>3. QED
      BY <2>0, <3>2
  <2>3. CASE UpdateCommanders_Remove
    <3>1. /\ m_positionDest' = [m_positionDest EXCEPT ![index] = 0]
          /\ request' = [request EXCEPT ![index] = {}]
      BY <2>3 DEF UpdateCommanders_Remove
    <3>2. QED
      BY <2>0, <3>1
  <2>4. CASE AnyAgain
    BY <2>0, <2>4, AgainFacts
  <2>5. CASE ~AnyMove /\ ~AnyAsk /\ ~UpdateCommanders_Remove /\ ~AnyAgain
    BY <2>0, <2>5, Frames
  <2>6. QED
    BY <2>1, <2>2, <2>3, <2>4, <2>5
<1>5. m_isMoving' \in [Commander -> BOOLEAN] /\ firstTick' \in BOOLEAN
  <2>0. m_isMoving \in [Commander -> BOOLEAN] /\ firstTick \in BOOLEAN
    BY <1>0 DEF WorldTypeOK
  <2>1. /\ \/ m_isMoving' = m_isMoving
           \/ \E s \in Commander : \/ m_isMoving' = [m_isMoving EXCEPT ![s] = TRUE]
                                   \/ m_isMoving' = [m_isMoving EXCEPT ![s] = FALSE]
           \/ m_isMoving' = [m_isMoving EXCEPT ![index] = FALSE]
        /\ firstTick' = firstTick \/ firstTick' = FALSE
    BY Frames, AgainFacts DEF AnyMove, OnPacket_MOVE, UpdateCommanders_Remove,
                              Update_Stand, Tick_Update
  <2>2. QED
    BY <2>0, <2>1
<1>6. m_views' \in [Commander -> SUBSET Commander]
  <2>0. m_views \in [Commander -> SUBSET Commander]
    BY <1>0 DEF WorldTypeOK
  <2>1. \/ m_views' = m_views
        \/ m_views' = [m_views EXCEPT ![index] = {}]
        \/ m_views' = [m_views EXCEPT ![index] = InSight(index)]
    BY Frames DEF UpdateCommanders_Remove, UpdateViews
  <2>2. InSight(index) \subseteq Commander
    BY <1>a DEF InSight
  <2>3. QED
    BY <2>0, <2>1, <2>2
<1>7. moves' \in 0..MaxMove
  <2>0. moves \in 0..MaxMove /\ MaxMove \in Nat
    BY <1>0, WorldAssumption DEF WorldTypeOK
  <2>1. moves' = moves \/ (moves < MaxMove /\ moves' = moves + 1)
    BY Frames, AgainFacts DEF AnyAsk, Ask
  <2>2. QED
    BY <2>0, <2>1
<1>8. /\ logicPc' \in {"tick", "packets", "update", "view"}
      /\ index' \in 1..MaxCommander + 1 /\ distance' \in Nat
  <2>0. /\ logicPc \in {"tick", "packets", "update", "view"}
        /\ index \in 1..MaxCommander + 1 /\ distance \in Nat
    BY <1>0 DEF WorldTypeOK
  <2>1. CASE UpdateCommanders_Remove \/ Update_Stand \/ Update_Move \/ UpdateViews
    <3>1. index \in Served /\ logicPc \in {"update", "view"} /\ Advance
      BY <2>1 DEF UpdateCommanders_Remove, Update_Stand, Update_Move, UpdateViews, At
    <3>2. QED
      BY <1>0, <3>1, LoopTypes
  <2>2. CASE Tick_Update
    <3>1. /\ logicPc' = "packets" /\ index' = index
          /\ distance' = Far \/ distance' \in Distance \cup {Far}
      BY <2>2 DEF Tick_Update
    <3>2. Far \in Nat /\ Distance \subseteq Nat
      BY WorldAssumption DEF Far
    <3>3. QED
      BY <2>0, <3>1, <3>2
  <2>3. CASE ProcessPacket_End
    <3>1. /\ logicPc' = IF Served = {} THEN "tick" ELSE "update"
          /\ index' = First(Served) /\ distance' = distance
      BY <2>3 DEF ProcessPacket_End, clockVars
    <3>2. First(Served) \in 1..MaxCommander + 1
      BY <1>a, FirstFacts
    <3>3. QED
      BY <2>0, <3>1, <3>2
  <2>4. CASE /\ ~UpdateCommanders_Remove /\ ~Update_Stand /\ ~Update_Move
             /\ ~UpdateViews /\ ~Tick_Update /\ ~ProcessPacket_End
    <3>1. UNCHANGED <<logicPc, index, distance>>
      BY <2>4, Frames
    <3>2. QED
      BY <2>0, <3>1
  <2>5. QED
    BY <2>1, <2>2, <2>3, <2>4
<1>9. net' \in Seq(Packet)
  <2>0. /\ net \in Seq(Packet) /\ m_positionCur \in [Commander -> Place]
        /\ m_positionDest \in [Commander -> Place] /\ distance \in Nat
    BY <1>0 DEF WorldTypeOK
  <2>1. CASE AnyLogin
    <3>1. PICK s \in Commander : OnPacket_LOGIN(s)
      BY <2>1 DEF AnyLogin
    <3>2. Send(s, <<[command |-> "LOGIN_ACK"], MovePacket(m_positionCur[s])>>)
      BY <3>1 DEF OnPacket_LOGIN
    <3>3. [command |-> "LOGIN_ACK"] \in Packet /\ MovePacket(m_positionCur[s]) \in Packet
      BY <2>0, PacketFacts
    <3>4. <<[command |-> "LOGIN_ACK"], MovePacket(m_positionCur[s])>> \in Seq(Packet)
      BY <3>3
    <3>5. QED
      BY <1>0, <3>2, <3>4, SendFacts
  <2>2. CASE Update_Move
    <3> DEFINE p == Move(m_positionCur[index], m_positionDest[index])
    <3>1. index \in Commander /\ Send(index, <<MovePacket(p)>>)
      BY <2>2, <1>a DEF Update_Move, At
    <3>2. p \in Place
      BY <2>0, <3>1, MoveFacts
    <3> HIDE DEF p
    <3>3. MovePacket(p) \in Packet
      BY <3>2, PacketFacts
    <3>4. <<MovePacket(p)>> \in Seq(Packet)
      BY <3>3
    <3>5. QED
      BY <1>0, <3>1, <3>4, SendFacts
  <2>3. CASE UpdateViews
    <3> DEFINE seen == InSight(index)
    <3>1. Send(index, IF seen = {} THEN <<>> ELSE <<ViewPacket(seen)>>)
      BY <2>3 DEF UpdateViews
    <3>2. seen \in SUBSET Served
      BY DEF InSight
    <3> HIDE DEF seen
    <3>3. ViewPacket(seen) \in Packet
      BY <1>0, <3>2, ViewPacketFacts
    <3>4. <<>> \in Seq(Packet) /\ <<ViewPacket(seen)>> \in Seq(Packet)
      BY <3>3
    <3>5. (IF seen = {} THEN <<>> ELSE <<ViewPacket(seen)>>) \in Seq(Packet)
      BY <3>4
    <3>6. QED
      BY <1>0, <3>1, <3>5, SendFacts
  <2>4. CASE Receive
    <3>1. data \in Seq(Packet)
      BY DEF TypeOK
    <3>2. QED
      BY <2>0, <2>4, <3>1, ReceiveTypes
  <2>5. CASE ~AnyLogin /\ ~Update_Move /\ ~UpdateViews /\ ~Receive
    BY <2>0, <2>5, Frames
  <2>6. QED
    BY <2>1, <2>2, <2>3, <2>4, <2>5
<1>10. QED
  BY <1>1, <1>2, <1>3, <1>4, <1>5, <1>6, <1>7, <1>8, <1>9 DEF WorldTypeOK

-------------------------------------------------------------------------------
(* Who is served after a step: those who were, those who log in, and not   *)
(* the one who is removed.                                                 *)
LEMMA ServedFacts ==
  ASSUME WorldTypeOK, Next
  PROVE  /\ UpdateCommanders_Remove =>
              index \in Served /\ Served' = Served \ {index}
         /\ \A s \in Commander : OnPacket_LOGIN(s) =>
              s \notin Served /\ Served' = Served \cup {s}
         /\ ~UpdateCommanders_Remove /\ ~AnyLogin => Served' = Served
<1>0. commander \in [Commander -> {"none", "in", "leaving", "gone"}]
  BY DEF WorldTypeOK
<1>1. ASSUME UpdateCommanders_Remove
      PROVE  index \in Served /\ Served' = Served \ {index}
  <2>1. index \in Served /\ commander' = [commander EXCEPT ![index] = "gone"]
    BY <1>1 DEF UpdateCommanders_Remove, At
  <2>2. QED
    BY <1>0, <2>1 DEF Served
<1>2. ASSUME NEW s \in Commander, OnPacket_LOGIN(s)
      PROVE  s \notin Served /\ Served' = Served \cup {s}
  <2>1. commander[s] = "none" /\ commander' = [commander EXCEPT ![s] = "in"]
    BY <1>2 DEF OnPacket_LOGIN
  <2>2. QED
    BY <1>0, <2>1 DEF Served
<1>3. ASSUME ~UpdateCommanders_Remove, ~AnyLogin PROVE Served' = Served
  <2>1. CASE AnyLogout
    <3>1. PICK s \in Commander : commander[s] = "in"
                                 /\ commander' = [commander EXCEPT ![s] = "leaving"]
      BY <2>1 DEF AnyLogout, OnPacket_LOGOUT, Others
    <3>2. QED
      BY <1>0, <3>1 DEF Served
  <2>2. CASE ~AnyLogout
    BY <1>3, <2>2, Frames DEF Served
  <2>3. QED
    BY <2>1, <2>2
<1>4. QED
  BY <1>1, <1>2, <1>3

(* Who joins has a name; who leaves loses it, and the views.               *)
LEMMA JoinedStep == TypeOK /\ Joined /\ Next => Joined'
<1> SUFFICES ASSUME TypeOK, Joined, Next PROVE Joined'
  OBVIOUS
<1>0. /\ name \in [Commander -> Names \cup {""}]
      /\ m_views \in [Commander -> SUBSET Commander]
      /\ WorldTypeOK /\ Served \subseteq Commander
  BY DEF TypeOK, WorldTypeOK, Served
<1>1. CASE AnyLogin
  <2>1. PICK s \in Commander : OnPacket_LOGIN(s)
    BY <1>1 DEF AnyLogin
  <2>2. PICK n \in Name[s] : name' = [name EXCEPT ![s] = n]
    BY <2>1 DEF OnPacket_LOGIN
  <2>3. n \in Names
    BY DEF Names
  <2>4. m_views' = m_views /\ Served' = Served \cup {s}
    BY <1>0, <2>1, ServedFacts DEF OnPacket_LOGIN
  <2>5. \A t \in Served' : name'[t] \in Names
    BY <1>0, <2>2, <2>3, <2>4 DEF Joined
  <2>6. \A t \in Commander \ Served' : m_views'[t] = {}
    BY <2>4 DEF Joined
  <2>7. QED
    BY <2>5, <2>6 DEF Joined
<1>2. CASE UpdateCommanders_Remove
  <2>1. /\ name' = [name EXCEPT ![index] = ""]
        /\ m_views' = [m_views EXCEPT ![index] = {}]
        /\ index \in Served /\ Served' = Served \ {index}
    BY <1>0, <1>2, ServedFacts DEF UpdateCommanders_Remove
  <2>2. \A t \in Served' : name'[t] \in Names
    BY <1>0, <2>1 DEF Joined
  <2>3. \A t \in Commander \ Served' : m_views'[t] = {}
    BY <1>0, <2>1 DEF Joined
  <2>4. QED
    BY <2>2, <2>3 DEF Joined
<1>3. CASE UpdateViews
  <2>1. /\ index \in Served /\ name' = name
        /\ m_views' = [m_views EXCEPT ![index] = InSight(index)]
    BY <1>3 DEF UpdateViews, At
  <2>2. ~UpdateCommanders_Remove /\ ~AnyLogin
    BY <1>3 DEF UpdateViews, UpdateCommanders_Remove, AnyLogin, OnPacket_LOGIN, At
  <2>3. Served' = Served
    BY <1>0, <2>2, ServedFacts
  <2>4. QED
    BY <1>0, <2>1, <2>3 DEF Joined
<1>4. CASE AnyAgain
  <2>1. /\ \E s \in Commander : \E n \in Name[s] : name' = [name EXCEPT ![s] = n]
        /\ m_views' = m_views /\ Served' = Served
    BY <1>4, AgainFacts
  <2>2. \A s \in Commander : Name[s] \subseteq Names
    BY DEF Names
  <2>3. \A t \in Served : name'[t] \in Names
    BY <1>0, <2>1, <2>2 DEF Joined
  <2>4. QED
    BY <2>1, <2>3 DEF Joined
<1>5. CASE ~AnyLogin /\ ~AnyAgain /\ ~UpdateCommanders_Remove /\ ~UpdateViews
  <2>1. name' = name /\ m_views' = m_views /\ Served' = Served
    BY <1>0, <1>5, ServedFacts, Frames
  <2>2. QED
    BY <2>1 DEF Joined
<1>6. QED
  BY <1>1, <1>2, <1>3, <1>4, <1>5

(* Who stands has arrived, and the time of a tick takes everybody further. *)
LEMMA MotionStep == TypeOK /\ Motion /\ Next => Motion'
<1> SUFFICES ASSUME TypeOK, Motion, Next PROVE Motion'
  OBVIOUS
<1>0. /\ m_positionCur \in [Commander -> Place]
      /\ m_positionDest \in [Commander -> Place]
      /\ m_isMoving \in [Commander -> BOOLEAN]
      /\ Served \subseteq Commander
  BY DEF TypeOK, WorldTypeOK, Served
<1>1. \A s \in Commander : ~m_isMoving'[s] => m_positionCur'[s] = m_positionDest'[s]
  <2>0. \A s \in Commander : ~m_isMoving[s] => m_positionCur[s] = m_positionDest[s]
    BY DEF Motion
  <2>1. CASE AnyMove
    <3>1. PICK s \in Commander : OnPacket_MOVE(s)
      BY <2>1 DEF AnyMove
    <3>2. /\ \E p \in request[s] : m_positionDest' = [m_positionDest EXCEPT ![s] = p]
          /\ m_isMoving' = [m_isMoving EXCEPT ![s] = TRUE]
          /\ m_positionCur' = m_positionCur
      BY <3>1 DEF OnPacket_MOVE
    <3>3. QED
      BY <1>0, <2>0, <3>2
  <2>2. CASE UpdateCommanders_Remove
    <3>1. /\ m_positionCur' = [m_positionCur EXCEPT ![index] = 0]
          /\ m_positionDest' = [m_positionDest EXCEPT ![index] = 0]
          /\ m_isMoving' = [m_isMoving EXCEPT ![index] = FALSE]
      BY <2>2 DEF UpdateCommanders_Remove
    <3>2. QED
      BY <1>0, <2>0, <3>1
  <2>3. CASE Update_Stand
    <3>1. /\ ~m_isMoving[index] \/ m_positionCur[index] = m_positionDest[index]
          /\ m_isMoving' = [m_isMoving EXCEPT ![index] = FALSE]
          /\ UNCHANGED <<m_positionCur, m_positionDest>> /\ index \in Served
      BY <2>3 DEF Update_Stand, At
    <3>2. QED
      BY <1>0, <2>0, <3>1
  <2>4. CASE Update_Move
    <3>1. /\ m_isMoving[index] /\ index \in Served
          /\ \E p : m_positionCur' = [m_positionCur EXCEPT ![index] = p]
          /\ UNCHANGED <<m_positionDest, m_isMoving>>
      BY <2>4 DEF Update_Move, At
    <3>2. QED
      BY <1>0, <2>0, <3>1
  <2>5. CASE AnyAgain
    BY <1>0, <2>0, <2>5, AgainFacts
  <2>6. CASE /\ ~AnyMove /\ ~UpdateCommanders_Remove /\ ~Update_Stand
             /\ ~Update_Move /\ ~AnyAgain
    BY <2>0, <2>6, Frames
  <2>7. QED
    BY <2>1, <2>2, <2>3, <2>4, <2>5, <2>6
<1>2. logicPc' \in {"packets", "update"} => distance' > 0
  <2>0. /\ logicPc \in {"packets", "update"} => distance > 0
        /\ distance \in Nat
    BY DEF Motion, TypeOK, WorldTypeOK
  <2>1. CASE UpdateCommanders_Remove \/ Update_Stand \/ Update_Move \/ UpdateViews
    <3>1. index \in Served /\ logicPc \in {"update", "view"} /\ Advance
      BY <2>1 DEF UpdateCommanders_Remove, Update_Stand, Update_Move, UpdateViews, At
    <3>2. \/ logicPc' = logicPc /\ distance' = distance
          \/ logicPc' \in {"view", "tick"}
      BY <3>1, AdvanceFacts
    <3>3. QED
      BY <2>0, <3>2
  <2>2. CASE Tick_Update
    <3>1. distance' = Far \/ distance' \in Distance \cup {Far}
      BY <2>2 DEF Tick_Update
    <3>2. Far > 0
      BY PlaceFacts DEF Far
    <3>3. \A d \in Distance : d > 0
      BY WorldAssumption
    <3>4. QED
      BY <3>1, <3>2, <3>3
  <2>3. CASE ProcessPacket_End
    <3>1. logicPc = "packets" /\ distance' = distance
      BY <2>3 DEF ProcessPacket_End, clockVars
    <3>2. QED
      BY <2>0, <3>1
  <2>4. CASE /\ ~UpdateCommanders_Remove /\ ~Update_Stand /\ ~Update_Move
             /\ ~UpdateViews /\ ~Tick_Update /\ ~ProcessPacket_End
    BY <2>0, <2>4, Frames
  <2>5. QED
    BY <2>1, <2>2, <2>3, <2>4
<1>3. QED
  BY <1>1, <1>2 DEF Motion

(* What is in sight depends on who is served and where they are.           *)
LEMMA InSightStays ==
  ASSUME Served' = Served, m_positionCur' = m_positionCur, NEW s
  PROVE  InSight(s)' = InSight(s)
BY DEF InSight

(* Each commander that UpdateView passes has seen who is in sight now.     *)
LEMMA SightStep == TypeOK /\ Joined /\ Sight /\ Next => Sight'
<1> SUFFICES ASSUME TypeOK, Joined, Sight, Next PROVE Sight'
  OBVIOUS
<1>a. /\ m_views \in [Commander -> SUBSET Commander]
      /\ WorldTypeOK /\ index \in 1..MaxCommander + 1
  BY DEF TypeOK, WorldTypeOK
<1>0. /\ m_views \in [Commander -> SUBSET Commander]
      /\ WorldTypeOK /\ Served \subseteq Commander
      /\ index \in Nat /\ \A s \in Commander : s \in Nat
  BY <1>a, CommanderFacts DEF Served
<1> DEFINE Past(n) == \A s \in Served : s < n => m_views[s] = InSight(s)
           Seen    == \A s \in Served : m_views[s] = InSight(s)
           There   == \A s \in Commander : m_views[s] \subseteq Served
<1>1. CASE UpdateViews
  <2>1. /\ logicPc = "view" /\ index \in Served /\ Advance
        /\ m_views' = [m_views EXCEPT ![index] = InSight(index)]
        /\ UNCHANGED <<commander, m_positionCur>>
    BY <1>1 DEF UpdateViews, At, charVars
  <2>2. Served' = Served /\ \A s : InSight(s)' = InSight(s)
    BY <2>1, InSightStays DEF Served
  <2>3. \A s \in Served : s <= index => m_views'[s] = InSight(s)
    <3>1. Past(index)
      BY <2>1 DEF Sight
    <3>2. SUFFICES ASSUME NEW s \in Served, s <= index PROVE m_views'[s] = InSight(s)
      OBVIOUS
    <3>3. s \in Nat /\ s \in Commander
      BY <1>0
    <3>4. CASE s = index
      BY <1>0, <2>1, <3>3, <3>4
    <3>5. CASE s < index
      BY <1>0, <2>1, <3>1, <3>3, <3>5
    <3>6. QED
      BY <1>0, <3>2, <3>3, <3>4, <3>5
  <2>4. CASE /\ logicPc' = "view"
             /\ \A s \in Served : s < index' => s <= index
    BY <2>2, <2>3, <2>4 DEF Sight
  <2>5. CASE logicPc' = "tick" /\ \A s \in Served : s <= index
    BY <2>2, <2>3, <2>5 DEF Sight
  <2>6. QED
    BY <2>1, <2>4, <2>5, AdvanceFacts
<1>2. CASE UpdateCommanders_Remove \/ Update_Stand \/ Update_Move
  <2>1. logicPc = "update" /\ index \in Served /\ Advance
    BY <1>2 DEF UpdateCommanders_Remove, Update_Stand, Update_Move, At
  <2>2. \/ logicPc' = "update"
        \/ logicPc' = "view" /\ \A s \in Served' : index' <= s
        \/ logicPc' = "tick" /\ Served' = {}
    BY <2>1, AdvanceFacts
  <2>3. index' \in Nat /\ \A s \in Served' : s \in Nat
    <3>1. index' \in 1..MaxCommander + 1
      BY <1>0, <2>1, LoopTypes
    <3>2. QED
      BY <1>0, <3>1, CommanderFacts DEF Served
  <2>4. ASSUME NEW s \in Served', logicPc' = "view" PROVE ~(s < index')
    BY <2>2, <2>3, <2>4
  <2>5. QED
    BY <2>2, <2>4 DEF Sight
<1>3. CASE AnyLogin
  <2>1. PICK s \in Commander : OnPacket_LOGIN(s)
    BY <1>3 DEF AnyLogin
  <2>2. logicPc = "packets" /\ logicPc' = "packets" /\ m_views' = m_views
    BY <2>1 DEF OnPacket_LOGIN, tickVars
  <2>3. Served' = Served \cup {s}
    BY <1>0, <2>1, ServedFacts
  <2>4. QED
    BY <2>2, <2>3 DEF Sight
<1>4. CASE Tick_Update
  <2>1. /\ logicPc = "tick" /\ logicPc' = "packets"
        /\ UNCHANGED <<commander, m_views>>
    BY <1>4 DEF Tick_Update
  <2>2. Served' = Served /\ Seen
    BY <2>1 DEF Served, Sight
  <2>3. There
    BY <1>0, <2>2 DEF Joined, InSight
  <2>4. QED
    BY <2>1, <2>2, <2>3 DEF Sight
<1>5. CASE ProcessPacket_End
  <2>1. /\ logicPc' = IF Served = {} THEN "tick" ELSE "update"
        /\ UNCHANGED commander
    BY <1>5 DEF ProcessPacket_End
  <2>2. Served' = Served
    BY <2>1 DEF Served
  <2>3. QED
    BY <2>1, <2>2 DEF Sight
<1>6. CASE AnyAgain
  <2>1. logicPc' = "packets" /\ logicPc = "packets" /\ m_views' = m_views
    BY <1>6, AgainFacts
  <2>2. Served' = Served
    BY <1>6, AgainFacts
  <2>3. QED
    BY <2>1, <2>2 DEF Sight
<1>7. CASE /\ ~UpdateViews /\ ~UpdateCommanders_Remove /\ ~Update_Stand
           /\ ~Update_Move /\ ~AnyLogin /\ ~AnyAgain /\ ~Tick_Update
           /\ ~ProcessPacket_End
  <2>1. UNCHANGED <<logicPc, index, m_views, m_positionCur>> /\ Served' = Served
    BY <1>0, <1>7, ServedFacts, Frames
  <2>2. \A s : InSight(s)' = InSight(s)
    BY <2>1, InSightStays
  <2>3. QED
    BY <2>1, <2>2 DEF Sight
<1>8. QED
  BY <1>1, <1>2, <1>3, <1>4, <1>5, <1>6, <1>7

(* Sight is mutual when all have looked from where they are now.           *)
LEMMA SightSuffices == TypeOK /\ Sight => SightIsMutual
<1> SUFFICES ASSUME TypeOK, Sight, logicPc = "tick",
                    NEW s \in Served, NEW t \in Served
             PROVE  /\ t \in m_views[s] <=> s \in m_views[t]
                    /\ m_views[s] \subseteq Served
  BY DEF SightIsMutual
<1>1. m_views[s] = InSight(s) /\ m_views[t] = InSight(t)
  BY DEF Sight
<1>a. m_positionCur[s] \in Place /\ m_positionCur[t] \in Place
  BY DEF TypeOK, WorldTypeOK, Served
<1>2. m_positionCur[s] \in Nat /\ m_positionCur[t] \in Nat
  BY <1>a, PlaceFacts DEF Place
<1>3. Gap(m_positionCur[s], m_positionCur[t]) = Gap(m_positionCur[t], m_positionCur[s])
  BY <1>2 DEF Gap
<1>4. t \in m_views[s] <=> s \in m_views[t]
  BY <1>1, <1>3 DEF InSight
<1>5. QED
  BY <1>1, <1>4 DEF InSight

-------------------------------------------------------------------------------
(* A send is counted once, and the buffer is full while a callback waits.  *)
LEMMA CountedStep == TypeOK /\ Counted /\ Next => Counted'
<1> SUFFICES ASSUME TypeOK, Counted, Next PROVE Counted'
  OBVIOUS
<1>a. /\ sends \in 0..MaxMove + 1 /\ sendCallbacks \in 0..sends
      /\ receives \in 0..sends /\ callbacks \in 0..sends
      /\ moves \in 0..MaxMove
      /\ data \in Seq(Packet) /\ net \in Seq(Packet)
  BY DEF TypeOK, WorldTypeOK
<1>0. /\ sends \in Nat /\ sendCallbacks \in Nat /\ receives \in Nat
      /\ callbacks \in Nat /\ moves \in Nat
  BY <1>a, WorldAssumption
<1>1. /\ sendCallbacks + receives + callbacks <= sends
      /\ sends <= moves + 1
      /\ torn => sends > 1
      /\ (callbacks = 0) <=> (data = <<>>)
      /\ callbacks > 1 => torn /\ data = <<Part>>
  BY DEF Counted
<1>2. CASE Client_Send
  <2>1. /\ sends' = sends + 1 /\ sendCallbacks' = sendCallbacks + 1
        /\ moves' = moves + 1
        /\ UNCHANGED <<receives, callbacks, data, torn>>
    BY <1>2 DEF Client_Send, Ask, receiveVars
  <2>2. /\ sendCallbacks' + receives' + callbacks' <= sends' /\ sends' <= moves' + 1
        /\ sends > 1 => sends' > 1
    BY <1>0, <1>1, <2>1
  <2>3. QED
    BY <1>1, <2>1, <2>2 DEF Counted, Part
<1>3. CASE SendData
  <2>1. /\ sendCallbacks > 0
        /\ sendCallbacks' = sendCallbacks - 1 /\ receives' = receives + 1
        /\ UNCHANGED <<moves, sends, callbacks, data, torn>>
    BY <1>3 DEF SendData, worldVars, askVars
  <2>2. sendCallbacks' + receives' + callbacks' <= sends'
    BY <1>0, <1>1, <2>1
  <2>3. QED
    BY <1>1, <2>1, <2>2 DEF Counted, Part
<1>4. CASE Receive
  <2>1. data' # <<>> /\ (callbacks > 0 => data' = <<Part>>)
    BY <1>a, <1>4, ReceiveTypes
  <2>2. /\ receives > 0 /\ receives' = receives - 1 /\ callbacks' = callbacks + 1
        /\ torn' = (torn \/ callbacks > 0)
        /\ UNCHANGED <<moves, sends, sendCallbacks>>
    BY <1>4 DEF Receive, askVars, sendVars
  <2>3. /\ sendCallbacks' + receives' + callbacks' <= sends'
        /\ callbacks > 0 => sends' > 1
        /\ callbacks' # 0 /\ (callbacks' > 1 => callbacks > 0)
    BY <1>0, <1>1, <2>2
  <2>4. callbacks' > 1 => torn' /\ data' = <<Part>>
    BY <2>1, <2>2, <2>3
  <2>5. QED
    BY <1>1, <2>1, <2>2, <2>3, <2>4 DEF Counted, Part
<1>5. CASE ReceiveData
  <2>1. /\ callbacks > 0 /\ callbacks' = callbacks - 1
        /\ receives' = receives \/ receives' = receives + 1
        /\ data' = IF callbacks = 1 THEN <<>> ELSE data
        /\ UNCHANGED <<moves, sends, sendCallbacks, torn>>
    BY <1>5 DEF ReceiveData, BeginReceive, worldVars, askVars, sendVars
  <2>2. /\ sendCallbacks' + receives' + callbacks' <= sends'
        /\ (callbacks' = 0) <=> (callbacks = 1)
        /\ callbacks' > 1 => callbacks > 1 /\ callbacks # 1
    BY <1>0, <1>1, <2>1
  <2>3. (callbacks' = 0) <=> (data' = <<>>)
    BY <1>0, <1>1, <2>1, <2>2
  <2>4. callbacks' > 1 => torn' /\ data' = <<Part>>
    BY <1>1, <2>1, <2>2
  <2>5. QED
    BY <1>1, <2>1, <2>2, <2>3, <2>4 DEF Counted, Part
<1>6. CASE ~Client_Send /\ ~SendData /\ ~Receive /\ ~ReceiveData
  <2>1. /\ UNCHANGED <<sends, sendCallbacks, receives, callbacks, data, torn>>
        /\ AnyAsk \/ AnyAgain \/ UNCHANGED moves
    BY <1>6, Frames
  <2>2. moves' = moves \/ moves' = moves + 1
    BY <2>1, AgainFacts DEF AnyAsk, Ask
  <2>3. sends' <= moves' + 1
    BY <1>0, <1>1, <2>1, <2>2
  <2>4. QED
    BY <1>1, <2>1, <2>3 DEF Counted, Part
<1>7. QED
  BY <1>2, <1>3, <1>4, <1>5, <1>6

-------------------------------------------------------------------------------
(* What the client can show of those in sight.                             *)
Lists == UNION {[names -> View] : names \in SUBSET Names}

(* A list is a function from names to views.                               *)
LEMMA ListFacts ==
  /\ \A list \in Lists : /\ list \in [DOMAIN list -> View]
                         /\ DOMAIN list \subseteq Names
  /\ \A names \in SUBSET Names : \A list \in [names -> View] : list \in Lists
BY DEF Lists

(* Each step of showing a view makes a list of a list.                     *)
LEMMA ShowSlotTypes ==
  ASSUME NEW list \in Lists
  PROVE  /\ Unmarked(list) \in Lists /\ DOMAIN Unmarked(list) = DOMAIN list
         /\ Swept(list) \subseteq Lists
         /\ \A slot \in Slot : ShowSlot(list, slot) \in Lists
<1>0. list \in [DOMAIN list -> View] /\ DOMAIN list \subseteq Names
  BY ListFacts
<1>1. Unmarked(list) \in Lists /\ DOMAIN Unmarked(list) = DOMAIN list
  <2>1. \A n \in DOMAIN list : [list[n] EXCEPT !.IsUpdate = FALSE] \in View
    BY <1>0 DEF View
  <2>2. Unmarked(list) \in [DOMAIN list -> View]
    BY <2>1 DEF Unmarked
  <2>3. QED
    BY <1>0, <2>2, ListFacts
<1>2. Swept(list) \subseteq Lists
  <2> DEFINE without(m) == [n \in DOMAIN list \ {m} |-> list[n]]
  <2>1. \A m \in DOMAIN list : without(m) \in Lists
    <3>1. SUFFICES ASSUME NEW m \in DOMAIN list PROVE without(m) \in Lists
      OBVIOUS
    <3> DEFINE names == DOMAIN list \ {m}
    <3>2. names \subseteq DOMAIN list /\ names \subseteq Names
      BY <1>0
    <3>3. without(m) = [n \in names |-> list[n]]
      OBVIOUS
    <3> HIDE DEF names, without
    <3>4. without(m) \in [names -> View]
      BY <1>0, <3>2, <3>3
    <3>5. QED
      BY <3>2, <3>4, ListFacts
  <2>2. \A l \in Swept(list) : l = list \/ \E m \in DOMAIN list : l = without(m)
    BY DEF Swept
  <2> HIDE DEF without
  <2>3. QED
    BY <2>1, <2>2
<1>3. ASSUME NEW slot \in Slot PROVE ShowSlot(list, slot) \in Lists
  <2>1. CASE slot.name = "None"
    BY <2>1 DEF ShowSlot
  <2>2. CASE slot.name # "None"
    <3> DEFINE names == DOMAIN list \cup {slot.name}
               view  == [position |-> slot.position, IsUpdate |-> TRUE]
    <3>1. slot.name \in Names /\ view \in View
      BY <2>2 DEF Slot, View
    <3>2. names \subseteq Names
      BY <1>0, <3>1
    <3>3. ShowSlot(list, slot) =
            [n \in names |-> IF n = slot.name THEN view ELSE list[n]]
      BY <2>2 DEF ShowSlot
    <3> HIDE DEF view
    <3>4. \A n \in names : (IF n = slot.name THEN view ELSE list[n]) \in View
      BY <1>0, <3>1
    <3> HIDE DEF names
    <3>5. ShowSlot(list, slot) \in [names -> View]
      BY <3>3, <3>4
    <3>6. QED
      BY <3>2, <3>5, ListFacts
  <2>3. QED
    BY <2>1, <2>2
<1>4. QED
  BY <1>1, <1>2, <1>3

(* The slots whose name the client does not show.                          *)
NewNames(slots) ==
  {i \in 1..ViewSlots : slots[i].name \notin DOMAIN ViewList \cup {"None"}}

(* The last slot that is applied is one of them, or there is none.         *)
LEMMA LastSlotFacts ==
  ASSUME NEW slots
  PROVE  LET last == Min(NewNames(slots) \cup {ViewSlots})
         IN /\ last \in 1..ViewSlots
            /\ last \in NewNames(slots) \/ (NewNames(slots) = {} /\ last = ViewSlots)
<1> DEFINE new  == NewNames(slots)
           all  == new \cup {ViewSlots}
           last == Min(all)
<1>0. ViewSlots \in Nat /\ ViewSlots >= 1 /\ new \subseteq 1..ViewSlots
  BY WorldAssumption DEF NewNames
<1>1. all \subseteq Nat /\ all # {} /\ all \subseteq 1..ViewSlots
  <2> HIDE DEF new
  <2>1. QED
    BY <1>0
<1> HIDE DEF all
<1>2. last \in all /\ \A m \in all : last <= m
  BY <1>1, MinFacts
<1> HIDE DEF last, new
<1>3. ASSUME NEW m \in new, last = ViewSlots PROVE last \in new
  <2>1. last <= m /\ m \in 1..ViewSlots
    BY <1>0, <1>2 DEF all
  <2>2. \A i \in 1..ViewSlots : ViewSlots <= i => i = ViewSlots
    BY <1>0
  <2>3. QED
    BY <1>3, <2>1, <2>2
<1>4. last \in 1..ViewSlots
  BY <1>1, <1>2
<1>5. last \in new \/ (new = {} /\ last = ViewSlots)
  BY <1>2, <1>3 DEF all
<1>6. QED
  BY <1>4, <1>5 DEF last, all, new

(* ShowSlots applies the slots one after the other, up to the first new    *)
(* name or the last slot.                                                  *)
LEMMA ShowSlotsFacts ==
  ASSUME ViewList \in Lists, NEW slots \in [1..ViewSlots -> Slot]
  PROVE  \E shown \in [0..ViewSlots -> Lists] :
           /\ shown[0] = Unmarked(ViewList)
           /\ \A i \in 1..ViewSlots : shown[i] = ShowSlot(shown[i - 1], slots[i])
           /\ ShowSlots(slots) = shown[Min(NewNames(slots) \cup {ViewSlots})]
<1>0. ViewSlots \in Nat /\ ViewSlots >= 1
  BY WorldAssumption
<1> DEFINE step == [i \in 1..ViewSlots |-> [list \in Lists |-> ShowSlot(list, slots[i])]]
           Rec(g) == [i \in 0..ViewSlots |->
                        IF i = 0 THEN Unmarked(ViewList)
                        ELSE ShowSlot(g[i - 1], slots[i])]
           shown == CHOOSE g : g = Rec(g)
<1>1. Unmarked(ViewList) \in Lists
  BY ShowSlotTypes
<1>2. step \in [1..ViewSlots -> [Lists -> Lists]]
  <2>1. ASSUME NEW i \in 1..ViewSlots
        PROVE  [list \in Lists |-> ShowSlot(list, slots[i])] \in [Lists -> Lists]
    BY ShowSlotTypes
  <2>2. QED
    BY <2>1
<1>3. PICK f : GoesInSteps(f, ViewSlots, Lists, Unmarked(ViewList), step)
  <2> HIDE DEF step
  <2>1. QED
    BY <1>0, <1>1, <1>2, Recursion
<1>4. f = Rec(f)
  <2>1. \A i \in 1..ViewSlots : i - 1 \in 0..ViewSlots
    BY <1>0
  <2>0. /\ f \in [0..ViewSlots -> Lists] /\ f[0] = Unmarked(ViewList)
        /\ \A i \in 1..ViewSlots : f[i] = step[i][f[i - 1]]
    BY <1>3 DEF GoesInSteps
  <2>2. \A i \in 1..ViewSlots : f[i] = ShowSlot(f[i - 1], slots[i])
    BY <2>0, <2>1
  <2>3. \A i \in 0..ViewSlots : i = 0 \/ i \in 1..ViewSlots
    BY <1>0
  <2>4. \A i \in 0..ViewSlots :
          f[i] = IF i = 0 THEN Unmarked(ViewList) ELSE ShowSlot(f[i - 1], slots[i])
    BY <2>0, <2>2, <2>3
  <2>5. QED
    BY <2>0, <2>4
<1> HIDE DEF step
<1>5. shown = Rec(shown)
  BY <1>4
<1>6. ShowSlots(slots) = shown[Min(NewNames(slots) \cup {ViewSlots})]
  BY DEF ShowSlots, NewNames
<1> HIDE DEF shown
<1>7. /\ shown[0] = Unmarked(ViewList)
      /\ \A i \in 1..ViewSlots : shown[i] = ShowSlot(shown[i - 1], slots[i])
      /\ shown = [i \in 0..ViewSlots |-> shown[i]]
  <2>1. 0 \in 0..ViewSlots /\ \A i \in 1..ViewSlots : i \in 0..ViewSlots /\ i # 0
    BY <1>0
  <2>2. QED
    BY <1>5, <2>1
<1> HIDE DEF Rec
<1> DEFINE T == {n \in Nat : n <= ViewSlots => shown[n] \in Lists}
<1>8. Nat \subseteq T
  <2>1. 0 \in T
    BY <1>1, <1>7
  <2>2. ASSUME NEW n \in Nat, n \in T PROVE n + 1 \in T
    <3>1. SUFFICES ASSUME n + 1 <= ViewSlots PROVE shown[n + 1] \in Lists
      OBVIOUS
    <3>2. n <= ViewSlots /\ n + 1 \in 1..ViewSlots /\ (n + 1) - 1 = n
      BY <1>0, <3>1
    <3>3. shown[n] \in Lists /\ slots[n + 1] \in Slot
      BY <2>2, <3>2
    <3>4. shown[n + 1] = ShowSlot(shown[n], slots[n + 1])
      BY <1>7, <3>2
    <3>5. QED
      BY <3>3, <3>4, ShowSlotTypes
  <2> HIDE DEF T
  <2>3. QED
    BY <2>1, <2>2, Induction
<1>9. \A i \in 0..ViewSlots : shown[i] \in Lists
  <2>1. \A i \in 0..ViewSlots : i \in Nat /\ i <= ViewSlots
    BY <1>0
  <2>2. QED
    BY <1>8, <2>1
<1> HIDE DEF T
<1>10. shown \in [0..ViewSlots -> Lists]
  BY <1>7, <1>9
<1>11. QED
  BY <1>6, <1>7, <1>10

(* Type correctness is kept by every step: what is counted bounds the      *)
(* counters, and what is sent is a packet.                                 *)
LEMMA TypeStep == TypeOK /\ Joined /\ Counted /\ Next => TypeOK'
<1> SUFFICES ASSUME TypeOK, Joined, Counted, Next PROVE TypeOK'
  OBVIOUS
<1>0. /\ data \in Seq(Packet) /\ net \in Seq(Packet)
      /\ Position \in Place \cup {-1} /\ ViewList \in Lists
      /\ lost \subseteq Kinds /\ torn \in BOOLEAN
  BY DEF TypeOK, WorldTypeOK, Lists
<1>1. WorldTypeOK' /\ Counted'
  BY WorldTypeStep, CountedStep
<1>2. /\ sends' \in 0..MaxMove + 1 /\ sendCallbacks' \in 0..sends'
      /\ receives' \in 0..sends' /\ callbacks' \in 0..sends'
  <2>1. /\ sends \in 0..MaxMove + 1 /\ sendCallbacks \in 0..sends
        /\ receives \in 0..sends /\ callbacks \in 0..sends
    BY DEF TypeOK
  <2>2. MaxMove \in Nat
    BY WorldAssumption
  <2>3. /\ sends \in Nat /\ sendCallbacks \in Nat
        /\ receives \in Nat /\ callbacks \in Nat
    BY ONLY <2>1, <2>2
  <2>4. /\ Client_Send \/ sends' = sends
        /\ Client_Send => sends' = sends + 1
    BY Frames DEF Client_Send
  <2>5. sends' \in Nat
    BY ONLY <2>3, <2>4
  <2>6. \/ sendCallbacks' = sendCallbacks
        \/ sendCallbacks' = sendCallbacks + 1
        \/ sendCallbacks > 0 /\ sendCallbacks' = sendCallbacks - 1
    BY Frames DEF Client_Send, SendData
  <2>7. \/ receives' = receives
        \/ receives' = receives + 1
        \/ receives > 0 /\ receives' = receives - 1
    BY Frames DEF SendData, Receive, ReceiveData, BeginReceive
  <2>8. \/ callbacks' = callbacks
        \/ callbacks' = callbacks + 1
        \/ callbacks > 0 /\ callbacks' = callbacks - 1
    BY Frames DEF Receive, ReceiveData
  <2>9. sendCallbacks' \in Nat /\ receives' \in Nat /\ callbacks' \in Nat
    BY ONLY <2>3, <2>6, <2>7, <2>8
  <2>10. sendCallbacks' + receives' + callbacks' <= sends'
    BY <1>1 DEF Counted
  <2>11. sends' <= moves' + 1 /\ moves' \in 0..MaxMove
    BY <1>1 DEF Counted, WorldTypeOK
  <2>12. \A k \in Nat : \A m \in 0..MaxMove : k <= m + 1 => k \in 0..MaxMove + 1
    BY <2>2
  <2>13. \A k, l, m, n \in Nat : k + l + m <= n => k \in 0..n /\ l \in 0..n /\ m \in 0..n
    OBVIOUS
  <2>14. sends' \in 0..MaxMove + 1
    BY <2>5, <2>11, <2>12
  <2>15. QED
    BY <2>5, <2>9, <2>10, <2>13, <2>14
<1>3. data' \in Seq(Packet)
  <2>1. CASE Receive
    BY <1>0, <2>1, ReceiveTypes
  <2>2. CASE ReceiveData
    BY <1>0, <2>2 DEF ReceiveData
  <2>3. CASE ~Receive /\ ~ReceiveData
    BY <1>0, <2>3, Frames
  <2>4. QED
    BY <2>1, <2>2, <2>3
<1>4. torn' \in BOOLEAN /\ cuts' \in 0..MaxCut
  <2>0. cuts \in 0..MaxCut /\ MaxCut \in Nat
    BY CutAssumption DEF TypeOK
  <2>1. CASE Receive
    <3>1. cuts' = cuts \/ (cuts < MaxCut /\ cuts' = cuts + 1)
      BY <2>1 DEF Receive, Receive_Whole, Receive_Cut
    <3>2. torn' \in BOOLEAN
      BY <2>1 DEF Receive
    <3>3. QED
      BY <2>0, <3>1, <3>2
  <2>2. CASE ~Receive
    BY <1>0, <2>0, <2>2, Frames
  <2>3. QED
    BY <2>1, <2>2
<1>5. Position' \in Place \cup {-1} /\ ViewList' \in Lists /\ lost' \subseteq Kinds
  <2>1. CASE ReceiveData
    <3>1. data # <<>>
      <4>1. callbacks # 0
        BY <2>1 DEF ReceiveData
      <4>2. QED
        BY <4>1 DEF Counted
    <3>2. PICK packet \in Read :
            /\ Position' = IF packet.command = "MOVE" THEN packet.dest ELSE Position
            /\ IF packet.command = "VIEW"
                 THEN ViewList' \in Swept(ShowSlots(packet.slots))
                 ELSE UNCHANGED ViewList
      BY <2>1 DEF ReceiveData
    <3>3. packet \in Packet
      BY <1>0, <3>1, ReadFacts
    <3>4. Position' \in Place \cup {-1}
      BY <1>0, <3>2, <3>3, PacketFacts
    <3>5. ViewList' \in Lists
      <4>1. CASE packet.command = "VIEW"
        <5>1. packet.slots \in [1..ViewSlots -> Slot]
          BY <3>3, <4>1, PacketFacts
        <5> DEFINE last == Min(NewNames(packet.slots) \cup {ViewSlots})
        <5>2. PICK shown \in [0..ViewSlots -> Lists] :
                ShowSlots(packet.slots) = shown[last]
          BY <1>0, <5>1, ShowSlotsFacts
        <5>3. last \in 1..ViewSlots
          BY LastSlotFacts
        <5> HIDE DEF last
        <5>4. last \in 0..ViewSlots
          BY <5>3, WorldAssumption
        <5>5. Swept(ShowSlots(packet.slots)) \subseteq Lists
          BY <5>2, <5>4, ShowSlotTypes
        <5>6. QED
          BY <3>2, <4>1, <5>5
      <4>2. CASE packet.command # "VIEW"
        BY <1>0, <3>2, <4>2
      <4>3. QED
        BY <4>1, <4>2
    <3>6. lost' \subseteq Kinds
      BY <1>0, <2>1 DEF ReceiveData, Kinds
    <3>7. QED
      BY <3>4, <3>5, <3>6
  <2>2. CASE ~ReceiveData
    BY <1>0, <2>2, Frames DEF shownVars
  <2>3. QED
    BY <2>1, <2>2
<1>6. QED
  BY <1>1, <1>2, <1>3, <1>4, <1>5 DEF TypeOK, Lists

-------------------------------------------------------------------------------
(* How far a commander still has to go is zero when it has arrived.        *)
LEMMA GapFacts ==
  \A p, dest \in Place : /\ Gap(p, dest) \in Nat
                         /\ Gap(p, dest) = Gap(dest, p)
                         /\ p = dest <=> ~(Gap(p, dest) > 0)
<1>1. \A p \in Place : p \in Nat
  BY PlaceFacts DEF Place
<1>2. QED
  BY <1>1 DEF Gap

(* A step moves only the character at index, and only towards where it is  *)
(* to go; passing a commander without moving it means that it has arrived. *)
LEMMA NearerStep ==
  ASSUME TypeOK, Motion, Next,
         NEW s \in Commander, commander[s] = "in",
         m_positionDest'[s] = m_positionDest[s]
  PROVE  /\ ToGo(s)' <= ToGo(s)
         /\ logicPc = "update" /\ index = s /\ tickVars' # tickVars /\ ToGo(s) > 0
              => ToGo(s)' < ToGo(s)
<1>0. /\ m_positionCur \in [Commander -> Place]
      /\ m_positionDest \in [Commander -> Place]
      /\ distance \in Nat /\ Served \subseteq Commander
  BY DEF TypeOK, WorldTypeOK, Served
<1> DEFINE p    == m_positionCur[s]
           dest == m_positionDest[s]
<1>1. p \in Place /\ dest \in Place
  BY <1>0
<1>2. Gap(p, dest) \in Nat /\ (p = dest <=> ~(Gap(p, dest) > 0))
  BY <1>1, GapFacts
<1>3. ToGo(s) = Gap(p, dest) /\ ToGo(s)' = Gap(m_positionCur'[s], dest)
  BY DEF ToGo
<1>4. CASE Update_Move /\ index = s
  <2>1. /\ logicPc = "update" /\ p # dest
        /\ m_positionCur' = [m_positionCur EXCEPT ![s] = Move(p, dest)]
    BY <1>4 DEF Update_Move, At
  <2>2. distance > 0
    BY <2>1 DEF Motion
  <2>3. Move(p, dest) \in Place /\ Gap(Move(p, dest), dest) < Gap(p, dest)
    BY <1>0, <1>1, <2>1, <2>2, MoveFacts
  <2>4. ToGo(s)' = Gap(Move(p, dest), dest)
    BY <1>0, <1>3, <2>1
  <2>5. Gap(Move(p, dest), dest) \in Nat
    BY <1>1, <2>3, GapFacts
  <2> HIDE DEF p, dest
  <2>6. QED
    BY <1>2, <1>3, <2>3, <2>4, <2>5
<1>a. CASE AnyAgain
  <2>1. /\ logicPc = "packets"
        /\ m_positionCur'[s] = p \/ (m_positionCur'[s] = 0 /\ m_positionDest'[s] = 0)
    BY <1>0, <1>a, AgainFacts
  <2>2. CASE m_positionCur'[s] = p
    BY <1>2, <1>3, <2>1, <2>2
  <2>3. CASE m_positionCur'[s] = 0 /\ m_positionDest'[s] = 0
    <3>1. dest = 0
      BY <2>3
    <3>2. Gap(0, 0) = 0
      BY DEF Gap
    <3>3. ToGo(s)' = 0
      BY <1>3, <2>3, <3>1, <3>2
    <3>4. QED
      BY <1>2, <1>3, <2>1, <3>3
  <2>4. QED
    BY <2>1, <2>2, <2>3
<1>5. CASE ~(Update_Move /\ index = s) /\ ~AnyAgain
  <2>1. m_positionCur'[s] = p
    <3>1. CASE UpdateCommanders_Remove
      <4>1. /\ commander[index] = "leaving"
            /\ m_positionCur' = [m_positionCur EXCEPT ![index] = 0]
        BY <3>1 DEF UpdateCommanders_Remove
      <4>2. QED
        BY <1>0, <4>1
    <3>2. CASE Update_Move
      <4>1. \E q : m_positionCur' = [m_positionCur EXCEPT ![index] = q]
        BY <3>2 DEF Update_Move
      <4>2. QED
        BY <1>0, <1>5, <3>2, <4>1
    <3>3. CASE ~UpdateCommanders_Remove /\ ~Update_Move
      BY <1>5, <3>3, Frames
    <3>4. QED
      BY <3>1, <3>2, <3>3
  <2>2. ToGo(s)' = ToGo(s)
    BY <1>3, <2>1
  <2>3. ASSUME logicPc = "update", index = s, tickVars' # tickVars
        PROVE  p = dest
    <3>1. ~Tick_Update /\ ~ProcessPacket_End /\ ~UpdateViews
      BY <2>3 DEF Tick_Update, ProcessPacket_End, UpdateViews, At
    <3>2. ~UpdateCommanders_Remove
      BY <2>3 DEF UpdateCommanders_Remove
    <3>3. Update_Stand
      BY <1>5, <2>3, <3>1, <3>2, Frames DEF tickVars
    <3>4. ~m_isMoving[s] \/ p = dest
      BY <2>3, <3>3 DEF Update_Stand
    <3>5. QED
      BY <3>4 DEF Motion
  <2> HIDE DEF p, dest
  <2>4. QED
    BY <1>2, <1>3, <2>2, <2>3
<1>6. QED
  BY <1>4, <1>a, <1>5

-------------------------------------------------------------------------------
(* The last of a kind in two sequences of packets is the one of the second *)
(* if it has one, and that of the first if not.                            *)
LEMMA JoinFacts ==
  ASSUME NEW s \in Seq(Packet), NEW t \in Seq(Packet), NEW kind, NEW x
  PROVE  /\ Has(s \o t, kind) <=> Has(s, kind) \/ Has(t, kind)
         /\ LastIs(s \o t, kind, x)
              <=> LastIs(t, kind, x) /\ (Has(t, kind) \/ LastIs(s, kind, x))
<1> DEFINE st == s \o t
<1>1. /\ Len(s) \in Nat /\ Len(t) \in Nat /\ Len(st) = Len(s) + Len(t)
      /\ \A i \in 1..Len(s) : i \in 1..Len(st) /\ st[i] = s[i]
      /\ \A i \in 1..Len(t) : Len(s) + i \in 1..Len(st) /\ st[Len(s) + i] = t[i]
  BY ConcatProperties, LenProperties
<1>2. \A i \in 1..Len(st) : i \notin 1..Len(s) =>
        \E k \in 1..Len(t) : i = Len(s) + k
  <2>1. Len(s) \in Nat /\ Len(t) \in Nat /\ Len(st) = Len(s) + Len(t)
    BY <1>1
  <2> HIDE DEF st
  <2>2. \A i \in 1..Len(st) : i \notin 1..Len(s) =>
          i - Len(s) \in 1..Len(t) /\ i = Len(s) + (i - Len(s))
    BY <2>1
  <2>3. QED
    BY <2>2
<1> HIDE DEF st
<1>3. Has(st, kind) <=> Has(s, kind) \/ Has(t, kind)
  <2>1. ASSUME Has(st, kind) PROVE Has(s, kind) \/ Has(t, kind)
    <3>1. PICK i \in 1..Len(st) : Of(st[i], kind)
      BY <2>1 DEF Has
    <3>2. CASE i \in 1..Len(s)
      BY <1>1, <3>1, <3>2 DEF Has
    <3>3. CASE i \notin 1..Len(s)
      BY <1>1, <1>2, <3>1, <3>3 DEF Has
    <3>4. QED
      BY <3>2, <3>3
  <2>2. Has(s, kind) \/ Has(t, kind) => Has(st, kind)
    BY <1>1 DEF Has
  <2>3. QED
    BY <2>1, <2>2
<1>4. ASSUME LastIs(st, kind, x) PROVE LastIs(t, kind, x)
  <2>1. SUFFICES ASSUME NEW i \in 1..Len(t), Of(t[i], kind),
                        \A j \in i + 1..Len(t) : ~Of(t[j], kind)
                 PROVE  t[i] \in {x, Part}
    BY DEF LastIs
  <2>2. ASSUME NEW j \in Len(s) + i + 1..Len(st) PROVE ~Of(st[j], kind)
    <3>1. j \in 1..Len(st) /\ j \notin 1..Len(s)
      BY <1>1
    <3>2. PICK k \in 1..Len(t) : j = Len(s) + k
      BY <1>2, <3>1
    <3>3. k \in i + 1..Len(t)
      BY <1>1, <3>2
    <3>4. QED
      BY <1>1, <2>1, <3>2, <3>3
  <2>3. QED
    BY <1>1, <1>4, <2>1, <2>2 DEF LastIs
<1>5. ASSUME LastIs(st, kind, x), ~Has(t, kind) PROVE LastIs(s, kind, x)
  <2>1. SUFFICES ASSUME NEW i \in 1..Len(s), Of(s[i], kind),
                        \A j \in i + 1..Len(s) : ~Of(s[j], kind)
                 PROVE  s[i] \in {x, Part}
    BY DEF LastIs
  <2>2. ASSUME NEW j \in i + 1..Len(st) PROVE ~Of(st[j], kind)
    <3>1. j \in 1..Len(st)
      BY <1>1
    <3>2. CASE j \in 1..Len(s)
      <4>1. j \in i + 1..Len(s)
        BY <1>1, <3>2
      <4>2. QED
        BY <1>1, <2>1, <3>2, <4>1
    <3>3. CASE j \notin 1..Len(s)
      <4>1. PICK k \in 1..Len(t) : j = Len(s) + k
        BY <1>2, <3>1, <3>3
      <4>2. st[j] = t[k]
        BY <1>1, <4>1
      <4>3. QED
        BY <1>5, <4>2 DEF Has
    <3>4. QED
      BY <3>2, <3>3
  <2>3. QED
    BY <1>1, <1>5, <2>1, <2>2 DEF LastIs
<1>6. ASSUME LastIs(t, kind, x), Has(t, kind) \/ LastIs(s, kind, x)
      PROVE  LastIs(st, kind, x)
  <2>1. SUFFICES ASSUME NEW i \in 1..Len(st), Of(st[i], kind),
                        \A j \in i + 1..Len(st) : ~Of(st[j], kind)
                 PROVE  st[i] \in {x, Part}
    BY DEF LastIs
  <2>2. CASE i \in 1..Len(s)
    <3>1. ASSUME NEW k \in 1..Len(t) PROVE ~Of(t[k], kind)
      <4>1. Len(s) + k \in i + 1..Len(st)
        BY <1>1, <2>2
      <4>2. QED
        BY <1>1, <2>1, <4>1
    <3>2. ~Has(t, kind)
      BY <3>1 DEF Has
    <3>3. ASSUME NEW j \in i + 1..Len(s) PROVE ~Of(s[j], kind)
      <4>1. j \in i + 1..Len(st) /\ j \in 1..Len(s)
        BY <1>1, <2>2
      <4>2. QED
        BY <1>1, <2>1, <4>1
    <3>4. QED
      BY <1>1, <1>6, <2>1, <2>2, <3>2, <3>3 DEF LastIs
  <2>3. CASE i \notin 1..Len(s)
    <3>1. PICK k \in 1..Len(t) : i = Len(s) + k
      BY <1>2, <2>3
    <3>2. ASSUME NEW j \in k + 1..Len(t) PROVE ~Of(t[j], kind)
      <4>1. Len(s) + j \in i + 1..Len(st) /\ j \in 1..Len(t)
        BY <1>1, <3>1
      <4>2. QED
        BY <1>1, <2>1, <4>1
    <3>3. st[i] = t[k]
      BY <1>1, <3>1
    <3>4. QED
      BY <1>6, <2>1, <3>2, <3>3 DEF LastIs
  <2>4. QED
    BY <2>2, <2>3
<1>7. QED
  BY <1>3, <1>4, <1>5, <1>6 DEF st

(* The same of one packet and of none.                                     *)
LEMMA OneFacts ==
  ASSUME NEW kind, NEW x
  PROVE  /\ ~Has(<<>>, kind) /\ LastIs(<<>>, kind, x)
         /\ \A p \in Packet :
              /\ Has(<<p>>, kind) <=> Of(p, kind)
              /\ LastIs(<<p>>, kind, x) <=> (Of(p, kind) => p \in {x, Part})
<1>1. ~Has(<<>>, kind) /\ LastIs(<<>>, kind, x)
  BY DEF Has, LastIs
<1>2. ASSUME NEW p \in Packet
      PROVE  /\ Has(<<p>>, kind) <=> Of(p, kind)
             /\ LastIs(<<p>>, kind, x) <=> (Of(p, kind) => p \in {x, Part})
  <2>1. Len(<<p>>) = 1 /\ <<p>>[1] = p /\ \A i \in 1..1 : i = 1
    OBVIOUS
  <2>2. \A i \in 1..1 : \A j \in i + 1..1 : FALSE
    OBVIOUS
  <2>3. 1 \in 1..1
    OBVIOUS
  <2>4. Has(<<p>>, kind) <=> Of(p, kind)
    BY <2>1, <2>3 DEF Has
  <2>5. LastIs(<<p>>, kind, x) <=> (Of(p, kind) => p \in {x, Part})
    BY <2>1, <2>2, <2>3 DEF LastIs
  <2>6. QED
    BY <2>4, <2>5
<1>3. QED
  BY <1>1, <1>2

(* A part may have been of any kind.                                       *)
LEMMA PartFacts ==
  ASSUME NEW kind, NEW x
  PROVE  Has(<<Part>>, kind) /\ LastIs(<<Part>>, kind, x)
<1>1. Of(Part, kind) /\ Part \in {x, Part}
  BY DEF Of, Part
<1>2. QED
  BY <1>1, PacketFacts, OneFacts

(* A receive moves packets on, or makes a part of them: the last of a kind *)
(* stays the last, if it can still be told.                                *)
LEMMA ReceiveFacts ==
  ASSUME TypeOK, Counted, Receive, NEW kind, NEW x, LastIs(Pipe, kind, x)
  PROVE  LastIs(Pipe', kind, x) /\ (Has(Pipe, kind) => Has(Pipe', kind))
<1>0. data \in Seq(Packet) /\ net \in Seq(Packet) /\ callbacks \in 0..sends
  BY DEF TypeOK, WorldTypeOK
<1>1. PICK k \in 1..Len(net) : Receive_Whole(k) \/ Receive_Cut(k)
  BY DEF Receive
<1> DEFINE whole == SubSeq(net, 1, k)
           short == SubSeq(net, 1, k - 1)
           rest  == SubSeq(net, k + 1, Len(net))
<1>2. /\ 1 \in 1..Len(net) + 1 /\ k \in (1 - 1)..Len(net)
      /\ Len(net) \in k..Len(net) /\ k \in Nat /\ k <= Len(net) /\ Len(net) \in Nat
      /\ k - 1 \in Nat /\ k - 1 <= Len(net) /\ 0 + 1 = 1
  <2>1. Len(net) \in Nat
    BY <1>0, LenProperties
  <2>2. QED
    BY <2>1
<1>3. whole \in Seq(Packet) /\ short \in Seq(Packet) /\ rest \in Seq(Packet)
  BY <1>0, <1>2, PartElements
<1>4. whole \o rest = net
  <2>1. whole \o rest = SubSeq(net, 1, Len(net))
    BY <1>0, <1>2, ConcatAdjacentSubSeq
  <2>2. QED
    BY <1>0, <2>1, SubSeqFull
<1>5. /\ \/ data' = Into(whole) /\ net' = rest
         \/ data' = Into(Append(short, Part)) /\ net' = <<Part>> \o rest
  BY <1>1 DEF Receive_Whole, Receive_Cut
<1> HIDE DEF whole, short, rest
<1>6. LastIs(rest, kind, x)
  <2>1. LastIs(net, kind, x)
    BY <1>0, JoinFacts DEF Pipe
  <2>2. QED
    BY <1>3, <1>4, <2>1, JoinFacts
<1>7. Part \in Packet /\ <<Part>> \in Seq(Packet)
  BY PacketFacts
<1>8. ASSUME NEW some \in Seq(Packet), Has(some, kind), LastIs(some, kind, x)
      PROVE  LastIs(some \o rest, kind, x) /\ Has(some \o rest, kind)
  BY <1>3, <1>6, <1>8, JoinFacts
<1>9. Has(<<Part>>, kind) /\ LastIs(<<Part>>, kind, x)
  BY PartFacts
<1>10. LastIs(<<Part>> \o rest, kind, x) /\ Has(<<Part>> \o rest, kind)
  BY <1>7, <1>8, <1>9
<1>11. <<Part>> \o rest \in Seq(Packet)
  BY <1>3, <1>7, ConcatProperties
<1>12. CASE net' = rest /\ data' = <<Part>>
  BY <1>10, <1>12 DEF Pipe
<1>13. ASSUME NEW some \in Seq(Packet), net' = <<Part>> \o rest, data' = some
       PROVE  LastIs(Pipe', kind, x) /\ Has(Pipe', kind)
  <2>1. LastIs(some \o net', kind, x) /\ Has(some \o net', kind)
    BY <1>10, <1>11, <1>13, JoinFacts
  <2>2. QED
    BY <1>13, <2>1 DEF Pipe
<1>14. Append(short, Part) \in Seq(Packet)
  BY <1>3, <1>7, AppendProperties
<1>15. CASE callbacks > 0
  <2>1. data' = <<Part>>
    BY <1>5, <1>15 DEF Into
  <2>2. QED
    BY <1>5, <1>7, <1>12, <1>13, <2>1
<1>16. CASE ~(callbacks > 0)
  <2>1. data = <<>>
    <3>1. callbacks = 0
      BY <1>0, <1>16
    <3>2. QED
      BY <3>1 DEF Counted
  <2>2. CASE net' = rest /\ data' = whole
    <3>1. Pipe' = net /\ Pipe = <<>> \o net /\ <<>> \o net = net
      BY <1>0, <1>4, <2>1, <2>2, ConcatEmptySeq DEF Pipe
    <3>2. QED
      BY <3>1
  <2>3. QED
    BY <1>5, <1>13, <1>14, <1>16, <2>2 DEF Into
<1>17. QED
  BY <1>15, <1>16

(* A callback of a kind that is not lost has read the one packet that was  *)
(* last of its kind, or one of another kind; and it has processed a view   *)
(* to its end.                                                             *)
LEMMA CallbackFacts ==
  ASSUME TypeOK, Counted, ReceiveData, NEW kind \in Kinds, NEW x, LastIs(Pipe, kind, x)
  PROVE  /\ LastIs(Pipe', kind, x)
         /\ \/ Has(Pipe', kind) \/ kind \in lost'
            \/ /\ Read = {Head(data)} /\ Head(data) = x /\ Head(data).command = kind
               /\ kind = "VIEW" => DOMAIN ViewList' = DOMAIN ViewList
            \/ /\ Read = {Head(data)} /\ Head(data).command # kind
               /\ ~Has(Pipe, kind) /\ kind \notin lost
<1> DEFINE head  == Head(data)
           tail  == Tail(data)
           threw == DOMAIN ViewList' # DOMAIN ViewList
           done  == IF threw THEN {} ELSE {head.command}
           left  == {k \in Kinds : \E p \in ToSet(tail) : p.command = k}
           last  == IF threw THEN {"VIEW"} ELSE {}
<1>0. data \in Seq(Packet) /\ net \in Seq(Packet) /\ callbacks \in 0..sends
  BY DEF TypeOK, WorldTypeOK
<1>1. /\ callbacks > 0 /\ data' = IF callbacks = 1 THEN <<>> ELSE data
      /\ lost' = IF Part \in ToSet(data) THEN Kinds ELSE (lost \ done) \cup left \cup last
      /\ net' = net
  BY DEF ReceiveData, worldVars
<1>2. data # <<>>
  <2>1. callbacks # 0
    BY <1>1
  <2>2. QED
    BY <2>1 DEF Counted
<1>3. head \in Packet /\ tail \in Seq(Packet) /\ data = <<head>> \o tail
  <2>1. head \in Packet /\ tail \in Seq(Packet)
    BY <1>0, <1>2, TailFacts
  <2>2. data = Append(<<>>, head) \o tail
    BY <1>0, <1>2, HeadTailProperties
  <2>3. Append(<<>>, head) = <<head>>
    BY <2>1
  <2>4. QED
    BY <2>1, <2>2, <2>3
<1>4. LastIs(net, kind, x)
  BY <1>0, JoinFacts DEF Pipe
<1>5. LastIs(Pipe', kind, x)
  <2>1. data' = data \/ data' = <<>>
    BY <1>1
  <2>2. <<>> \o net = net
    BY <1>0, ConcatEmptySeq
  <2>3. Pipe' = Pipe \/ Pipe' = net
    BY <1>1, <2>1, <2>2 DEF Pipe
  <2>4. QED
    BY <1>4, <2>3
<1>6. CASE Part \in ToSet(data)
  BY <1>1, <1>5, <1>6
<1>7. CASE Part \notin ToSet(data)
  <2>1. /\ \A i \in 1..Len(data) : data[i] \in Packet /\ data[i] # Part
        /\ \A i \in 1..Len(tail) : tail[i] = data[i + 1] /\ i + 1 \in 1..Len(data)
        /\ head = data[1] /\ 1 \in 1..Len(data)
    <3>1. \A i \in 1..Len(data) : data[i] \in ToSet(data) /\ data[i] \in Packet
      BY <1>0, ToSetFacts
    <3>2. /\ Head(data) = data[1] /\ Len(data) >= 1 /\ Len(tail) = Len(data) - 1
          /\ \A i \in 1..Len(tail) : tail[i] = data[i + 1]
      BY <1>0, <1>2, TailFacts
    <3>3. Len(data) \in Nat
      BY <1>0, LenProperties
    <3>4. \A i \in 1..Len(tail) : i + 1 \in 1..Len(data)
      BY <3>2, <3>3
    <3>5. QED
      BY <1>7, <3>1, <3>2, <3>3, <3>4
  <2>2. head # Part /\ Read = {head}
    BY <2>1 DEF Read
  <2>3. head.command # "PART"
    BY <1>3, <2>2, PacketFacts
  <2>4. ASSUME Has(tail, kind) PROVE kind \in lost'
    <3>1. PICK i \in 1..Len(tail) : Of(tail[i], kind)
      BY <2>4 DEF Has
    <3>2. tail[i] \in Packet /\ tail[i] # Part
      BY <2>1
    <3>3. tail[i].command = kind
      BY <3>1, <3>2, PacketFacts DEF Of
    <3>4. tail[i] \in ToSet(tail)
      BY <1>3, ToSetFacts
    <3>5. kind \in left
      BY <3>3, <3>4
    <3> HIDE DEF left, done, last
    <3>6. QED
      BY <1>1, <1>7, <3>5
  <2>5. callbacks = 1
    <3>1. ASSUME callbacks > 1 PROVE FALSE
      <4>1. data = <<Part>>
        BY <3>1 DEF Counted
      <4>2. Head(<<Part>>) = Part
        OBVIOUS
      <4>3. QED
        BY <2>2, <4>1, <4>2
    <3>2. QED
      BY <1>0, <1>1, <3>1
  <2>6. Pipe' = net
    <3>1. <<>> \o net = net
      BY <1>0, ConcatEmptySeq
    <3>2. QED
      BY <1>1, <2>5, <3>1 DEF Pipe
  <2>7. /\ Has(Pipe, kind) <=> Has(<<head>>, kind) \/ Has(tail, kind) \/ Has(net, kind)
        /\ Has(tail, kind) \/ Has(net, kind) \/ LastIs(<<head>>, kind, x)
    <3>1. <<head>> \in Seq(Packet)
      BY <1>3
    <3> HIDE DEF head, tail
    <3>2. /\ Has(data, kind) <=> Has(<<head>>, kind) \/ Has(tail, kind)
          /\ LastIs(data, kind, x)
               => Has(tail, kind) \/ LastIs(<<head>>, kind, x)
      BY <1>3, <3>1, JoinFacts
    <3>3. /\ Has(Pipe, kind) <=> Has(data, kind) \/ Has(net, kind)
          /\ Has(net, kind) \/ LastIs(data, kind, x)
      BY <1>0, JoinFacts DEF Pipe
    <3>4. QED
      BY <3>2, <3>3
  <2>8. /\ Has(<<head>>, kind) <=> head.command = kind
        /\ LastIs(<<head>>, kind, x) => (head.command = kind => head = x)
    <3>1. Of(head, kind) <=> head.command = kind
      BY <2>3 DEF Of
    <3> HIDE DEF head
    <3>2. /\ Has(<<head>>, kind) <=> Of(head, kind)
          /\ LastIs(<<head>>, kind, x) <=> (Of(head, kind) => head \in {x, Part})
      BY <1>3, OneFacts
    <3>3. QED
      BY <2>2, <3>1, <3>2
  <2>9. kind \in lost /\ kind # head.command => kind \in lost'
    <3>1. kind # head.command => kind \notin done
      OBVIOUS
    <3> HIDE DEF done, left, last
    <3>2. QED
      BY <1>1, <1>7, <3>1
  <2>10. kind = "VIEW" /\ threw => kind \in lost'
    <3>1. threw => "VIEW" \in last
      OBVIOUS
    <3> HIDE DEF done, left, last, threw
    <3>2. QED
      BY <1>1, <1>7, <3>1
  <2> HIDE DEF tail, done, left, last
  <2>11. QED
    BY <1>5, <2>2, <2>4, <2>6, <2>7, <2>8, <2>9, <2>10
<1>8. QED
  BY <1>6, <1>7

(* What is sent to the observer comes last.                                *)
LEMMA SentFacts ==
  ASSUME TypeOK, data' = data, NEW packets \in Seq(Packet), NEW s, Send(s, packets)
  PROVE  /\ Pipe \in Seq(Packet)
         /\ Pipe' = IF s = observer THEN Pipe \o packets ELSE Pipe
<1>0. data \in Seq(Packet) /\ net \in Seq(Packet)
  BY DEF TypeOK, WorldTypeOK
<1>1. net' = IF s = observer THEN net \o packets ELSE net
  BY DEF Send
<1>2. data \o (net \o packets) = (data \o net) \o packets /\ data \o net \in Seq(Packet)
  BY <1>0, ConcatAssociative, ConcatProperties
<1>3. QED
  BY <1>1, <1>2 DEF Pipe

(* A step that sends no packet of the kind leaves what was said of it.     *)
LEMMA OtherKinds ==
  ASSUME TypeOK, data' = data, NEW packets \in Seq(Packet), NEW s, Send(s, packets),
         NEW kind, ~Has(packets, kind), NEW x
  PROVE  /\ Has(Pipe', kind) <=> Has(Pipe, kind)
         /\ LastIs(Pipe, kind, x) => LastIs(Pipe', kind, x)
<1>1. /\ Pipe \in Seq(Packet)
      /\ Pipe' = IF s = observer THEN Pipe \o packets ELSE Pipe
  BY SentFacts
<1>2. LastIs(packets, kind, x)
  BY DEF Has, LastIs
<1>3. /\ Has(Pipe \o packets, kind) <=> Has(Pipe, kind) \/ Has(packets, kind)
      /\ LastIs(Pipe \o packets, kind, x)
           <=> LastIs(packets, kind, x) /\ (Has(packets, kind) \/ LastIs(Pipe, kind, x))
  BY <1>1, JoinFacts
<1>4. QED
  BY <1>1, <1>2, <1>3

(* The observer's position is what the packets on their way bring.         *)
LEMMA PositionStep ==
  TypeOK /\ Joined /\ Counted /\ PositionComes /\ Next => PositionComes'
<1> SUFFICES ASSUME TypeOK, Joined, Counted, PositionComes, Next, observer \in Served'
    PROVE  /\ LastIs(Pipe', "MOVE", MovePacket(m_positionCur'[observer]))
           /\ \/ Has(Pipe', "MOVE") \/ "MOVE" \in lost'
              \/ Position' = m_positionCur'[observer]
  BY DEF PositionComes, MovePacket
<1>0. /\ WorldTypeOK /\ Served \subseteq Commander /\ observer \in Commander
      /\ m_positionCur \in [Commander -> Place]
      /\ m_positionDest \in [Commander -> Place]
      /\ distance \in Nat
      /\ data \in Seq(Packet) /\ net \in Seq(Packet)
  BY CommanderFacts DEF TypeOK, WorldTypeOK, Served
<1> DEFINE pos == m_positionCur[observer]
           move == MovePacket(pos)
<1>2. observer \in Served =>
        /\ LastIs(Pipe, "MOVE", move)
        /\ Has(Pipe, "MOVE") \/ "MOVE" \in lost \/ Position = pos
  BY DEF PositionComes
<1>3. CASE Receive
  <2>1. UNCHANGED <<commander, m_positionCur, Position, lost>>
    BY <1>3 DEF Receive, charVars, shownVars
  <2>2. observer \in Served
    BY <2>1 DEF Served
  <2> HIDE DEF move
  <2>3. LastIs(Pipe', "MOVE", move) /\ (Has(Pipe, "MOVE") => Has(Pipe', "MOVE"))
    BY <1>2, <1>3, <2>2, ReceiveFacts
  <2>4. QED
    BY <1>2, <2>1, <2>2, <2>3 DEF move
<1>4. CASE ReceiveData
  <2>1. UNCHANGED <<commander, m_positionCur>>
    BY <1>4 DEF ReceiveData, worldVars, charVars
  <2>2. observer \in Served
    BY <2>1 DEF Served
  <2>3. \E p \in Read :
          Position' = IF p.command = "MOVE" THEN p.dest ELSE Position
    BY <1>4 DEF ReceiveData
  <2> HIDE DEF move
  <2>4. /\ LastIs(Pipe', "MOVE", move)
        /\ \/ Has(Pipe', "MOVE") \/ "MOVE" \in lost'
           \/ /\ Read = {Head(data)} /\ Head(data) = move
              /\ Head(data).command = "MOVE"
           \/ /\ Read = {Head(data)} /\ Head(data).command # "MOVE"
              /\ ~Has(Pipe, "MOVE") /\ "MOVE" \notin lost
    <3>1. "MOVE" \in Kinds /\ "MOVE" # "VIEW"
      BY DEF Kinds
    <3>2. QED
      BY <1>2, <1>4, <2>2, <3>1, CallbackFacts
  <2>5. move.dest = pos
    BY DEF move, MovePacket
  <2>6. Has(Pipe', "MOVE") \/ "MOVE" \in lost' \/ Position' = pos
    BY <1>2, <2>2, <2>3, <2>4, <2>5
  <2>7. QED
    BY <2>1, <2>4, <2>6 DEF move
<1>5. CASE ~Receive /\ ~ReceiveData
  <2>0. UNCHANGED <<data, Position, lost>>
    BY <1>5, Frames DEF shownVars
  <2>1. CASE AnyLogin
    <3>1. PICK s \in Commander : OnPacket_LOGIN(s)
      BY <2>1 DEF AnyLogin
    <3> DEFINE ack     == [command |-> "LOGIN_ACK"]
               packets == <<ack, MovePacket(m_positionCur[s])>>
    <3>2. /\ Send(s, packets) /\ m_positionCur' = m_positionCur
          /\ Served' = Served \cup {s}
      BY <1>0, <3>1, ServedFacts DEF OnPacket_LOGIN, charVars
    <3>3. /\ <<ack>> \in Seq(Packet) /\ <<MovePacket(m_positionCur[s])>> \in Seq(Packet)
          /\ packets = <<ack>> \o <<MovePacket(m_positionCur[s])>>
      BY <1>0, PacketFacts
    <3>4. packets \in Seq(Packet)
      BY <3>3, ConcatProperties
    <3>5. CASE s = observer
      <4>1. /\ Has(<<move>>, "MOVE") /\ LastIs(<<move>>, "MOVE", move)
        <5>1. move \in Packet /\ Of(move, "MOVE")
          BY <1>0, PacketFacts DEF MovePacket, Of
        <5> HIDE DEF move
        <5>2. QED
          BY <5>1, OneFacts
      <4>2. packets = <<ack>> \o <<move>> /\ <<move>> \in Seq(Packet)
        BY <3>3, <3>5
      <4> HIDE DEF move, ack
      <4>3. Has(packets, "MOVE") /\ LastIs(packets, "MOVE", move)
        BY <3>3, <4>1, <4>2, JoinFacts
      <4> HIDE DEF packets
      <4>4. Pipe \in Seq(Packet) /\ Pipe' = Pipe \o packets
        BY <2>0, <3>2, <3>4, <3>5, SentFacts
      <4>5. Has(Pipe', "MOVE") /\ LastIs(Pipe', "MOVE", move)
        BY <3>4, <4>3, <4>4, JoinFacts
      <4>6. QED
        BY <3>2, <4>5 DEF move
    <3>6. CASE s # observer
      <4> HIDE DEF packets
      <4>1. Pipe' = Pipe
        BY <2>0, <3>2, <3>4, <3>6, SentFacts
      <4>2. observer \in Served
        BY <3>2, <3>6
      <4>3. QED
        BY <1>2, <2>0, <3>2, <4>1, <4>2
    <3>7. QED
      BY <3>5, <3>6
  <2>2. CASE Update_Move
    <3> DEFINE p == Move(m_positionCur[index], m_positionDest[index])
    <3>1. /\ index \in Served /\ Send(index, <<MovePacket(p)>>)
          /\ m_positionCur' = [m_positionCur EXCEPT ![index] = p]
          /\ commander' = commander
      BY <2>2 DEF Update_Move, At
    <3>2. p \in Place /\ Served' = Served
      BY <1>0, <3>1, MoveFacts DEF Served
    <3> HIDE DEF p
    <3>3. /\ MovePacket(p) \in Packet /\ MovePacket(p).command = "MOVE"
          /\ <<MovePacket(p)>> \in Seq(Packet)
      BY <3>2, PacketFacts DEF MovePacket
    <3>4. CASE index = observer
      <4> DEFINE last == MovePacket(p)
      <4>1. m_positionCur'[observer] = p
        BY <1>0, <3>1, <3>4
      <4>2. Pipe \in Seq(Packet) /\ Pipe' = Pipe \o <<last>>
        BY <2>0, <3>1, <3>3, <3>4, SentFacts
      <4>3. last \in Packet /\ Of(last, "MOVE") /\ <<last>> \in Seq(Packet)
        BY <3>3 DEF Of
      <4> HIDE DEF last
      <4>4. Has(<<last>>, "MOVE") /\ LastIs(<<last>>, "MOVE", last)
        BY <4>3, OneFacts
      <4>5. Has(Pipe', "MOVE") /\ LastIs(Pipe', "MOVE", last)
        BY <4>2, <4>3, <4>4, JoinFacts
      <4>6. QED
        BY <4>1, <4>5 DEF last
    <3>5. CASE index # observer
      <4> DEFINE packets == <<MovePacket(p)>>
      <4>0. Send(index, packets) /\ packets \in Seq(Packet)
        BY <3>1, <3>3
      <4> HIDE DEF packets
      <4>1. Pipe' = Pipe
        BY <2>0, <3>5, <4>0, SentFacts
      <4>2. m_positionCur'[observer] = pos
        BY <1>0, <3>1, <3>5
      <4>3. QED
        BY <1>2, <2>0, <3>2, <4>1, <4>2
    <3>6. QED
      BY <3>4, <3>5
  <2>3. CASE UpdateViews
    <3> DEFINE seen == InSight(index)
               packets == IF seen = {} THEN <<>> ELSE <<ViewPacket(seen)>>
    <3>1. /\ Send(index, packets)
          /\ UNCHANGED <<commander, m_positionCur>>
      BY <2>3 DEF UpdateViews, charVars
    <3>2. ViewPacket(seen) \in Packet /\ ViewPacket(seen).command = "VIEW"
      BY <1>0, ViewPacketFacts DEF InSight, ViewPacket
    <3> DEFINE view == ViewPacket(seen)
    <3> HIDE DEF seen
    <3>3. view \in Packet /\ ~Of(view, "MOVE")
      BY <3>2 DEF Of
    <3>4. packets = <<>> \/ packets = <<view>>
      OBVIOUS
    <3> HIDE DEF view
    <3>5. packets \in Seq(Packet)
      BY <3>3, <3>4
    <3>6. ~Has(packets, "MOVE")
      BY <3>3, <3>4, OneFacts
    <3> HIDE DEF packets, move
    <3>7. /\ Has(Pipe', "MOVE") <=> Has(Pipe, "MOVE")
          /\ LastIs(Pipe, "MOVE", move) => LastIs(Pipe', "MOVE", move)
      BY <2>0, <3>1, <3>5, <3>6, OtherKinds
    <3>8. observer \in Served
      BY <3>1 DEF Served
    <3>9. QED
      BY <1>2, <2>0, <3>1, <3>7, <3>8 DEF move
  <2>4. CASE UpdateCommanders_Remove
    <3>1. /\ m_positionCur' = [m_positionCur EXCEPT ![index] = 0] /\ net' = net
          /\ index \in Served /\ Served' = Served \ {index}
      BY <1>0, <2>4, ServedFacts DEF UpdateCommanders_Remove
    <3>2. m_positionCur'[observer] = pos /\ observer \in Served
      BY <1>0, <3>1
    <3>3. Pipe' = Pipe
      BY <2>0, <3>1 DEF Pipe
    <3>4. QED
      BY <1>2, <2>0, <3>2, <3>3
  <2>5. CASE AnyAgain
    <3>1. m_positionCur'[observer] = pos /\ net' = net /\ Served' = Served
      BY <1>0, <2>5, AgainFacts
    <3>2. Pipe' = Pipe
      BY <2>0, <3>1 DEF Pipe
    <3>3. QED
      BY <1>2, <2>0, <3>1, <3>2
  <2>6. CASE /\ ~AnyLogin /\ ~Update_Move /\ ~UpdateViews
             /\ ~UpdateCommanders_Remove /\ ~AnyAgain
    <3>1. UNCHANGED <<m_positionCur, net>> /\ Served' = Served
      BY <1>0, <1>5, <2>6, ServedFacts, Frames
    <3>2. Pipe' = Pipe
      BY <2>0, <3>1 DEF Pipe
    <3>3. QED
      BY <1>2, <2>0, <3>1, <3>2
  <2>7. QED
    BY <2>1, <2>2, <2>3, <2>4, <2>5, <2>6
<1>6. QED
  BY <1>3, <1>4, <1>5

-------------------------------------------------------------------------------
(* Those in sight are counted in their order.                              *)
LEMMA NthFacts ==
  ASSUME NEW seen \in SUBSET Commander
  PROVE  /\ \A t \in seen : Nth(seen, t) \in Nat /\ Nth(seen, t) >= 1
         /\ \A u, t \in seen : u < t => Nth(seen, u) < Nth(seen, t)
<1> DEFINE below(t) == {u \in seen : u <= t}
<1>1. \A t : Nth(seen, t) = Cardinality(below(t))
  BY DEF Nth
<1>2. \A s \in seen : s \in Nat
  BY CommanderFacts
<1>3. \A t : below(t) \subseteq Commander /\ (t \in seen => t \in below(t))
  BY <1>2
<1>4. \A u, t \in seen : u < t => below(u) \subseteq below(t) /\ t \notin below(u)
  BY <1>2
<1>5. IsFiniteSet(Commander)
  <2>1. 1 \in Int /\ MaxCommander \in Int
    BY CommanderFacts
  <2>2. QED
    BY <2>1, FS_Interval DEF Commander
<1> HIDE DEF below
<1>6. \A t : IsFiniteSet(below(t)) /\ Cardinality(below(t)) \in Nat
  BY <1>3, <1>5, FS_Subset, FS_CardinalityType
<1>7. ASSUME NEW t \in seen PROVE Cardinality(below(t)) >= 1
  <2>1. below(t) # {}
    BY <1>3
  <2>2. Cardinality(below(t)) # 0
    BY <1>6, <2>1, FS_EmptySet
  <2>3. QED
    BY <1>6, <2>2
<1>8. ASSUME NEW u \in seen, NEW t \in seen, u < t
      PROVE  Cardinality(below(u)) < Cardinality(below(t))
  <2>1. below(u) \in SUBSET below(t) /\ below(u) # below(t)
    BY <1>3, <1>4, <1>8
  <2>2. /\ Cardinality(below(u)) <= Cardinality(below(t))
        /\ Cardinality(below(u)) # Cardinality(below(t))
    BY <1>6, <2>1, FS_Subset
  <2>3. QED
    BY <1>6, <2>2
<1>9. QED
  BY <1>1, <1>6, <1>7, <1>8

(* The first n of those in sight.                                          *)
FirstOf(seen, n) == {t \in seen : Nth(seen, t) <= n}

(* A list that shows the first n: up to date are their names, with the     *)
(* position of the last who has the name.                                  *)
Shows(list, seen, n) ==
  /\ {m \in DOMAIN list : list[m].IsUpdate}
       = {name[t] : t \in FirstOf(seen, n)} \ {"None"}
  /\ \A t \in FirstOf(seen, n) :
       name[t] # "None" /\ (\A u \in FirstOf(seen, n) : name[u] = name[t] => u <= t)
         => list[name[t]].position = m_positionCur[t]

(* A slot adds one to those that are shown.                                *)
LEMMA SlotStep ==
  ASSUME NEW seen \in SUBSET Commander, NEW list \in Lists,
         NEW n \in 1..ViewSlots, Shows(list, seen, n - 1)
  PROVE  Shows(ShowSlot(list, ViewPacket(seen).slots[n]), seen, n)
<1> DEFINE slot  == ViewPacket(seen).slots[n]
           first == FirstOf(seen, n - 1)
           more  == FirstOf(seen, n)
<1>0. n \in Nat /\ n - 1 \in Nat /\ ViewSlots \in Nat
  BY WorldAssumption
<1>1. /\ \A t \in seen : Nth(seen, t) \in Nat
      /\ \A t \in seen : t \in Nat
      /\ \A u, t \in seen : u < t => Nth(seen, u) < Nth(seen, t)
  BY CommanderFacts, NthFacts
<1>2. slot = IF \E t \in seen : Nth(seen, t) = n
               THEN LET t == CHOOSE t \in seen : Nth(seen, t) = n
                    IN [name |-> name[t], position |-> m_positionCur[t]]
               ELSE [name |-> "None", position |-> 0]
  BY DEF ViewPacket
<1>3. /\ {m \in DOMAIN list : list[m].IsUpdate} = {name[t] : t \in first} \ {"None"}
      /\ \A t \in first :
           name[t] # "None" /\ (\A u \in first : name[u] = name[t] => u <= t)
             => list[name[t]].position = m_positionCur[t]
  BY DEF Shows
<1>4. CASE \E t \in seen : Nth(seen, t) = n
  <2> DEFINE t == CHOOSE t \in seen : Nth(seen, t) = n
  <2>1. t \in seen /\ Nth(seen, t) = n
    BY <1>4
  <2>2. slot.name = name[t] /\ slot.position = m_positionCur[t]
    BY <1>2, <1>4
  <2> HIDE DEF slot, t
  <2>3. \A u \in seen : Nth(seen, u) = n => u = t
    <3>1. \A u \in seen : u = t \/ u < t \/ t < u
      BY <1>1, <2>1
    <3>2. QED
      BY <1>1, <2>1, <3>1
  <2>4. \A u \in seen : Nth(seen, u) <= n <=> Nth(seen, u) <= n - 1 \/ u = t
    BY <1>0, <1>1, <2>1, <2>3
  <2>5. more = first \cup {t}
    BY <2>1, <2>4 DEF FirstOf
  <2>6. \A u \in first : u \in seen /\ u \in Nat /\ ~(t <= u)
    <3>1. SUFFICES ASSUME NEW u \in first PROVE u \in seen /\ ~(t <= u)
      BY <1>1 DEF FirstOf
    <3>2. u \in seen /\ Nth(seen, u) <= n - 1
      BY DEF FirstOf
    <3>3. Nth(seen, u) < n
      BY <1>0, <1>1, <3>2
    <3>4. u # t /\ ~(t < u)
      BY <1>0, <1>1, <2>1, <3>2, <3>3
    <3>5. QED
      BY <1>1, <2>1, <3>2, <3>4
  <2> HIDE DEF first, more
  <2>7. CASE name[t] = "None"
    <3>1. ShowSlot(list, slot) = list
      BY <2>2, <2>7 DEF ShowSlot
    <3>2. {name[u] : u \in more} \ {"None"} = {name[u] : u \in first} \ {"None"}
      BY <2>5, <2>7
    <3>3. ASSUME NEW v \in more, name[v] # "None",
                 \A u \in more : name[u] = name[v] => u <= v
          PROVE  list[name[v]].position = m_positionCur[v]
      BY <1>3, <2>5, <2>7, <3>3
    <3>4. QED
      BY <1>3, <3>1, <3>2, <3>3 DEF Shows, slot, more
  <2>8. CASE name[t] # "None"
    <3> DEFINE view  == [position |-> slot.position, IsUpdate |-> TRUE]
               after == ShowSlot(list, slot)
    <3>1. after = [m \in DOMAIN list \cup {name[t]} |->
                     IF m = name[t] THEN view ELSE list[m]]
      BY <2>2, <2>8 DEF ShowSlot
    <3>2. view.position = m_positionCur[t] /\ view.IsUpdate
      BY <2>2
    <3> HIDE DEF view, after
    <3>3. {m \in DOMAIN after : after[m].IsUpdate}
            = {m \in DOMAIN list : list[m].IsUpdate} \cup {name[t]}
      BY <3>1, <3>2
    <3>4. {name[u] : u \in more} \ {"None"}
            = ({name[u] : u \in first} \ {"None"}) \cup {name[t]}
      BY <2>5, <2>8
    <3>5. ASSUME NEW v \in more, name[v] # "None",
                 \A u \in more : name[u] = name[v] => u <= v
          PROVE  after[name[v]].position = m_positionCur[v]
      <4>1. CASE v = t
        BY <3>1, <3>2, <4>1
      <4>2. CASE v # t
        <5>1. v \in first /\ name[v] # name[t]
          BY <2>5, <2>6, <3>5, <4>2
        <5>2. list[name[v]].position = m_positionCur[v]
          BY <1>3, <2>5, <3>5, <5>1
        <5>3. name[v] \in DOMAIN list
          BY <1>3, <3>5, <5>1
        <5>4. QED
          BY <3>1, <5>1, <5>2, <5>3
      <4>3. QED
        BY <4>1, <4>2
    <3>6. {m \in DOMAIN after : after[m].IsUpdate} = {name[u] : u \in more} \ {"None"}
      BY <1>3, <3>3, <3>4
    <3>7. QED
      BY <3>5, <3>6 DEF Shows, slot, more, after
  <2>9. QED
    BY <2>7, <2>8
<1>5. CASE ~(\E t \in seen : Nth(seen, t) = n)
  <2>1. slot.name = "None"
    BY <1>2, <1>5
  <2> HIDE DEF slot
  <2>2. ShowSlot(list, slot) = list
    BY <2>1 DEF ShowSlot
  <2>3. \A u \in seen : Nth(seen, u) <= n <=> Nth(seen, u) <= n - 1
    BY <1>0, <1>1, <1>5
  <2>4. more = first
    BY <2>3 DEF FirstOf
  <2> HIDE DEF first, more
  <2>5. QED
    BY <1>3, <2>2, <2>4 DEF Shows, slot, more
<1>6. QED
  BY <1>4, <1>5

(* A client that processes a view to its end shows those who were in       *)
(* sight: it had the names already, and all of them are up to date.        *)
LEMMA ViewShown ==
  ASSUME WorldTypeOK, Joined, ViewList \in Lists, NEW seen \in SUBSET Served,
         ViewList' \in Swept(ShowSlots(ViewPacket(seen).slots)),
         DOMAIN ViewList' = DOMAIN ViewList
  PROVE  [n \in DOMAIN ViewList' |-> ViewList'[n].position] = Shown(seen)
<1> DEFINE slots == ViewPacket(seen).slots
           list  == ShowSlots(slots)
           end   == Min(NewNames(slots) \cup {ViewSlots})
<1>0. /\ ViewSlots \in Nat /\ ViewSlots \in 0..ViewSlots
      /\ \A i \in 1..ViewSlots : i \in 0..ViewSlots /\ i - 1 \in 0..ViewSlots
      /\ seen \in SUBSET Commander
  BY WorldAssumption DEF Served
<1>1. slots \in [1..ViewSlots -> Slot]
  <2>1. ViewPacket(seen) \in Packet /\ ViewPacket(seen).command = "VIEW"
    BY ViewPacketFacts DEF ViewPacket
  <2>2. QED
    BY <2>1, PacketFacts
<1>2. PICK shown \in [0..ViewSlots -> Lists] :
        /\ shown[0] = Unmarked(ViewList)
        /\ \A i \in 1..ViewSlots : shown[i] = ShowSlot(shown[i - 1], slots[i])
        /\ list = shown[end]
  <2> HIDE DEF slots
  <2>1. QED
    BY <1>1, ShowSlotsFacts
<1>3. Shows(shown[0], seen, 0)
  <2>1. FirstOf(seen, 0) = {}
    <3>1. \A t \in seen : Nth(seen, t) \in Nat /\ Nth(seen, t) >= 1
      BY <1>0, NthFacts
    <3>2. \A t \in seen : ~(Nth(seen, t) <= 0)
      BY <3>1
    <3>3. QED
      BY <3>2 DEF FirstOf
  <2>2. \A m \in DOMAIN Unmarked(ViewList) : ~Unmarked(ViewList)[m].IsUpdate
    <3>1. ViewList \in [DOMAIN ViewList -> View]
      BY ListFacts
    <3>2. QED
      BY <3>1 DEF Unmarked, View
  <2>3. QED
    BY <1>2, <2>1, <2>2 DEF Shows
<1> DEFINE T == {n \in Nat : n <= ViewSlots => Shows(shown[n], seen, n)}
<1>4. Nat \subseteq T
  <2>1. 0 \in T
    BY <1>3
  <2>2. ASSUME NEW n \in Nat, n \in T PROVE n + 1 \in T
    <3>1. SUFFICES ASSUME n + 1 <= ViewSlots PROVE Shows(shown[n + 1], seen, n + 1)
      OBVIOUS
    <3>2. /\ n <= ViewSlots /\ n + 1 \in 1..ViewSlots /\ (n + 1) - 1 = n
          /\ n \in 0..ViewSlots
      BY <1>0, <3>1
    <3>3. Shows(shown[n], seen, n)
      BY <2>2, <3>2
    <3>4. shown[n + 1] = ShowSlot(shown[n], slots[n + 1]) /\ shown[n] \in Lists
      BY <1>2, <3>2
    <3>5. Shows(ShowSlot(shown[n], slots[n + 1]), seen, n + 1)
      BY <1>0, <3>2, <3>3, <3>4, SlotStep
    <3>6. QED
      BY <3>4, <3>5
  <2> HIDE DEF T
  <2>3. QED
    BY <2>1, <2>2, Induction
<1> DEFINE first == FirstOf(seen, ViewSlots)
           names == {name[t] : t \in first} \ {"None"}
<1>5. Shows(shown[ViewSlots], seen, ViewSlots)
  BY <1>0, <1>4
<1> HIDE DEF slots, T
<1>6. DOMAIN list = DOMAIN ViewList /\ ViewList' = list
      /\ \A m \in DOMAIN list : list[m].IsUpdate
  <2> DEFINE old        == {m \in DOMAIN list : ~list[m].IsUpdate}
             without(m) == [n \in DOMAIN list \ {m} |-> list[n]]
  <2> HIDE DEF list
  <2>1. IF DOMAIN list # DOMAIN ViewList \/ old = {} THEN ViewList' = list
        ELSE \E m \in old : ViewList' = without(m)
    BY DEF Swept, slots, list
  <2>2. ASSUME NEW m \in old, ViewList' = without(m) PROVE DOMAIN ViewList' # DOMAIN list
    BY <2>2
  <2>3. DOMAIN list = DOMAIN ViewList
    <3> HIDE DEF old, without
    <3>1. QED
      BY <2>1
  <2>4. old = {} /\ ViewList' = list
    <3> HIDE DEF old, without
    <3>1. QED
      BY <2>1, <2>2, <2>3
  <2>5. QED
    BY <2>3, <2>4
<1>7. end = ViewSlots
  <2>1. end \in 1..ViewSlots /\ (end \in NewNames(slots) \/ end = ViewSlots)
    BY LastSlotFacts
  <2> HIDE DEF end
  <2>2. ASSUME end \in NewNames(slots) PROVE FALSE
    <3>1. slots[end].name # "None" /\ slots[end].name \notin DOMAIN ViewList
      BY <2>2 DEF NewNames
    <3>2. list = ShowSlot(shown[end - 1], slots[end])
      BY <1>2, <2>1
    <3>3. slots[end].name \in DOMAIN list
      BY <3>1, <3>2 DEF ShowSlot
    <3>4. QED
      BY <1>6, <3>1, <3>3
  <2>3. QED
    BY <2>1, <2>2
<1>8. Shows(list, seen, ViewSlots)
  BY <1>2, <1>5, <1>7
<1> HIDE DEF list, end
<1>9. DOMAIN list = names
  BY <1>6, <1>8 DEF Shows
<1>10. ASSUME NEW n \in names
      PROVE  list[n].position = m_positionCur[Max({t \in first : name[t] = n})]
  <2> DEFINE those == {t \in first : name[t] = n}
             t     == Max(those)
  <2>1. those # {} /\ those \subseteq first /\ n # "None"
    BY <1>10
  <2>2. MaxCommander \in Nat /\ those \subseteq 0..MaxCommander
    BY <1>0, CommanderFacts DEF FirstOf
  <2> HIDE DEF those
  <2>3. t \in those /\ \A m \in those : m <= t
    BY <2>1, <2>2, MaxFacts
  <2> HIDE DEF t
  <2>4. t \in first /\ name[t] = n /\ \A u \in first : name[u] = name[t] => u <= t
    BY <2>3 DEF those
  <2>5. list[name[t]].position = m_positionCur[t]
    BY <1>8, <2>1, <2>4 DEF Shows
  <2>6. QED
    BY <2>4, <2>5 DEF t, those
<1>11. Shown(seen) =
        [n \in names |-> m_positionCur[Max({t \in first : name[t] = n})]]
  BY DEF Shown, FirstOf
<1> HIDE DEF first, names
<1>12. [n \in DOMAIN ViewList' |-> ViewList'[n].position]
         = [n \in names |-> list[n].position]
  BY <1>6, <1>9
<1>13. QED
  BY <1>10, <1>11, <1>12

-------------------------------------------------------------------------------
(* Whom the observer sees is served, while its views are settled.          *)
LEMMA SeenAreServed ==
  ASSUME TypeOK, Sight, Settled
  PROVE  m_views[observer] \in SUBSET Served
<1>1. m_views[observer] = InSight(observer) \/ m_views[observer] \subseteq Served
  BY CommanderFacts DEF Settled, Sight
<1>2. InSight(observer) \subseteq Served
  BY DEF InSight
<1>3. QED
  BY <1>1, <1>2

(* A view depends on the names and positions of those in it.               *)
LEMMA ViewStays ==
  ASSUME NEW seen \in SUBSET Commander, m_positionCur' = m_positionCur,
         \A t \in seen : name'[t] = name[t], m_views'[observer] = seen
  PROVE  /\ ViewPacket(m_views[observer])' = ViewPacket(seen)
         /\ Shown(m_views[observer])' = Shown(seen)
<1> DEFINE ith(i)    == CHOOSE t \in seen : Nth(seen, t) = i
           none      == [name |-> "None", position |-> 0]
           slot(i)   == IF \E t \in seen : Nth(seen, t) = i
                          THEN [name |-> name[ith(i)], position |-> m_positionCur[ith(i)]]
                          ELSE none
           after(i)  == IF \E t \in seen : Nth(seen, t) = i
                          THEN [name     |-> name'[ith(i)],
                                position |-> m_positionCur[ith(i)]]
                          ELSE none
<1>1. \A i : after(i) = slot(i)
  <2>1. SUFFICES ASSUME NEW i, \E t \in seen : Nth(seen, t) = i
                 PROVE  name'[ith(i)] = name[ith(i)]
    OBVIOUS
  <2>2. ith(i) \in seen
    BY <2>1
  <2>3. QED
    BY <2>2
<1>2. ViewPacket(seen) = [command |-> "VIEW", slots |-> [i \in 1..ViewSlots |-> slot(i)]]
  BY DEF ViewPacket
<1>3. ViewPacket(m_views[observer])'
        = [command |-> "VIEW", slots |-> [i \in 1..ViewSlots |-> after(i)]]
  BY DEF ViewPacket, Nth
<1> HIDE DEF slot, after
<1>4. [i \in 1..ViewSlots |-> after(i)] = [i \in 1..ViewSlots |-> slot(i)]
  BY <1>1
<1> DEFINE first    == {t \in seen : Nth(seen, t) <= ViewSlots}
           old(n)   == {t \in first : name[t] = n}
           new(n)   == {t \in first : name'[t] = n}
           names    == {name[t] : t \in first} \ {"None"}
<1>5. Shown(seen) = [n \in names |-> m_positionCur[Max(old(n))]]
  BY DEF Shown
<1>6. Shown(m_views[observer])'
        = [n \in {name'[t] : t \in first} \ {"None"} |-> m_positionCur[Max(new(n))]]
  BY DEF Shown, Nth
<1>7. {name'[t] : t \in first} \ {"None"} = names /\ \A n : new(n) = old(n)
  <2>1. \A t \in first : name'[t] = name[t]
    OBVIOUS
  <2> HIDE DEF first
  <2>2. QED
    BY <2>1
<1> HIDE DEF first, old, new, names
<1>8. \A n : m_positionCur[Max(new(n))] = m_positionCur[Max(old(n))]
  BY <1>7
<1>9. [n \in names |-> m_positionCur[Max(new(n))]]
        = [n \in names |-> m_positionCur[Max(old(n))]]
  BY <1>8
<1>10. QED
  BY <1>2, <1>3, <1>4, <1>5, <1>6, <1>7, <1>9

(* The observer's views are what the packets on their way bring.           *)
LEMMA ViewStep ==
  TypeOK /\ Joined /\ Sight /\ Counted /\ ViewComes /\ Next => ViewComes'
<1> DEFINE seen     == m_views[observer]
           Shows1   == [n \in DOMAIN ViewList |-> ViewList[n].position]
<1> SUFFICES ASSUME TypeOK, Joined, Sight, Counted, ViewComes, Next, Settled'
    PROVE  /\ LastIs(Pipe', "VIEW", ViewPacket(seen)')
           /\ Has(Pipe', "VIEW") \/ "VIEW" \in lost' \/ Shows1' = Shown(seen)'
  BY DEF ViewComes
<1>0. /\ WorldTypeOK /\ Served \subseteq Commander /\ observer \in Commander
      /\ m_views \in [Commander -> SUBSET Commander]
      /\ name \in [Commander -> Names \cup {""}]
      /\ m_positionCur \in [Commander -> Place]
      /\ ViewList \in Lists /\ seen \in SUBSET Commander
  BY CommanderFacts DEF TypeOK, WorldTypeOK, Served, Lists
<1>2. /\ observer \in Served' /\ m_views'[observer] # {}
      /\ logicPc' = "tick" \/ (logicPc' = "view" /\ observer < index')
  BY DEF Settled
<1>3. Settled => /\ LastIs(Pipe, "VIEW", ViewPacket(seen))
                 /\ Has(Pipe, "VIEW") \/ "VIEW" \in lost \/ Shows1 = Shown(seen)
                 /\ seen \in SUBSET Served
  BY SeenAreServed DEF ViewComes
<1>4. ASSUME m_positionCur' = m_positionCur, m_views'[observer] = seen,
             \A t \in seen : name'[t] = name[t]
      PROVE  ViewPacket(seen)' = ViewPacket(seen) /\ Shown(seen)' = Shown(seen)
  BY <1>0, <1>4, ViewStays
<1>5. ASSUME Settled, m_positionCur' = m_positionCur, m_views'[observer] = seen,
             \A t \in seen : name'[t] = name[t], Pipe' = Pipe, UNCHANGED shownVars
      PROVE  /\ LastIs(Pipe', "VIEW", ViewPacket(seen)')
             /\ Has(Pipe', "VIEW") \/ "VIEW" \in lost' \/ Shows1' = Shown(seen)'
  <2>1. ViewPacket(seen)' = ViewPacket(seen) /\ Shown(seen)' = Shown(seen)
    BY <1>4, <1>5
  <2>2. ViewList' = ViewList /\ lost' = lost
    BY <1>5 DEF shownVars
  <2>3. QED
    BY <1>3, <1>5, <2>1, <2>2
<1>6. CASE Receive
  <2>1. /\ UNCHANGED <<commander, name, m_positionCur, m_views, logicPc, index>>
        /\ UNCHANGED shownVars
    BY <1>6 DEF Receive, charVars, tickVars, shownVars
  <2>2. Settled
    BY <1>2, <2>1 DEF Settled, Served
  <2>3. ViewPacket(seen)' = ViewPacket(seen) /\ Shown(seen)' = Shown(seen)
    BY <1>4, <2>1
  <2> DEFINE view == ViewPacket(seen)
  <2>4. LastIs(Pipe, "VIEW", view)
    BY <1>3, <2>2
  <2> HIDE DEF view
  <2>5. LastIs(Pipe', "VIEW", view) /\ (Has(Pipe, "VIEW") => Has(Pipe', "VIEW"))
    BY <1>6, <2>4, ReceiveFacts
  <2>6. ViewList' = ViewList /\ lost' = lost
    BY <2>1 DEF shownVars
  <2>7. QED
    BY <1>3, <2>2, <2>3, <2>5, <2>6 DEF view
<1>7. CASE ReceiveData
  <2>1. UNCHANGED <<commander, name, m_positionCur, m_views, logicPc, index>>
    BY <1>7 DEF ReceiveData, worldVars, charVars, tickVars
  <2>2. Settled
    BY <1>2, <2>1 DEF Settled, Served
  <2>3. ViewPacket(seen)' = ViewPacket(seen) /\ Shown(seen)' = Shown(seen)
    BY <1>4, <2>1
  <2>4. PICK packet \in Read :
          IF packet.command = "VIEW" THEN ViewList' \in Swept(ShowSlots(packet.slots))
          ELSE UNCHANGED ViewList
    BY <1>7 DEF ReceiveData
  <2> DEFINE view == ViewPacket(seen)
  <2>5. LastIs(Pipe, "VIEW", view)
    BY <1>3, <2>2
  <2>6. packet = view /\ packet.command = "VIEW" /\ DOMAIN ViewList' = DOMAIN ViewList
          => Shows1' = Shown(seen)
    BY <1>0, <1>3, <2>2, <2>4, ViewShown
  <2> HIDE DEF view
  <2>7. /\ LastIs(Pipe', "VIEW", view)
        /\ \/ Has(Pipe', "VIEW") \/ "VIEW" \in lost'
           \/ /\ Read = {Head(data)} /\ Head(data) = view /\ Head(data).command = "VIEW"
              /\ DOMAIN ViewList' = DOMAIN ViewList
           \/ /\ Read = {Head(data)} /\ Head(data).command # "VIEW"
              /\ ~Has(Pipe, "VIEW") /\ "VIEW" \notin lost
    <3>1. "VIEW" \in Kinds
      BY DEF Kinds
    <3>2. QED
      BY <1>7, <2>5, <3>1, CallbackFacts
  <2>8. packet.command # "VIEW" /\ ~Has(Pipe, "VIEW") /\ "VIEW" \notin lost
          => Shows1' = Shown(seen)
    BY <1>3, <2>2, <2>4
  <2> HIDE DEF Shows1
  <2>9. Has(Pipe', "VIEW") \/ "VIEW" \in lost' \/ Shows1' = Shown(seen)
    BY <2>6, <2>7, <2>8
  <2>10. QED
    BY <2>3, <2>7, <2>9 DEF view
<1>8. CASE ~Receive /\ ~ReceiveData
  <2>0. data' = data /\ UNCHANGED shownVars
    BY <1>8, Frames
  <2>1. CASE UpdateViews /\ index = observer
    <3> DEFINE now  == InSight(observer)
    <3>1. /\ Send(observer, IF now = {} THEN <<>> ELSE <<ViewPacket(now)>>)
          /\ m_views' = [m_views EXCEPT ![observer] = now]
          /\ m_positionCur' = m_positionCur /\ name' = name
      BY <2>1 DEF UpdateViews, charVars
    <3>2. now \in SUBSET Served /\ now \in SUBSET Commander
      BY <1>0 DEF InSight
    <3> HIDE DEF now
    <3>3. m_views'[observer] = now /\ now # {}
      BY <1>0, <1>2, <3>1
    <3>4. ViewPacket(seen)' = ViewPacket(now)
      BY <3>1, <3>2, <3>3, ViewStays
    <3> DEFINE view == ViewPacket(now)
    <3>a. view \in Packet
      BY <1>0, <3>2, ViewPacketFacts
    <3>b. view.command = "VIEW"
      BY DEF ViewPacket
    <3>6. Send(observer, <<view>>)
      BY <3>1, <3>3
    <3> HIDE DEF view
    <3>5. view \in Packet /\ Of(view, "VIEW") /\ <<view>> \in Seq(Packet)
      BY <3>a, <3>b DEF Of
    <3>7. Has(<<view>>, "VIEW") /\ LastIs(<<view>>, "VIEW", view)
      BY <3>5, OneFacts
    <3>8. Pipe \in Seq(Packet) /\ Pipe' = Pipe \o <<view>>
      BY <2>0, <3>5, <3>6, SentFacts
    <3>9. Has(Pipe', "VIEW") /\ LastIs(Pipe', "VIEW", view)
      BY <3>5, <3>7, <3>8, JoinFacts
    <3>10. QED
      BY <3>4, <3>9 DEF view
  <2>2. CASE UpdateViews /\ index # observer
    <3> DEFINE packets == IF InSight(index) = {} THEN <<>>
                          ELSE <<ViewPacket(InSight(index))>>
    <3>1. /\ Send(index, packets) /\ index \in Served /\ logicPc = "view" /\ Advance
          /\ m_views' = [m_views EXCEPT ![index] = InSight(index)]
          /\ UNCHANGED <<commander, name, m_positionCur>>
      BY <2>2 DEF UpdateViews, charVars, At
    <3>2. packets \in Seq(Packet)
      <4>1. InSight(index) \in SUBSET Served
        BY DEF InSight
      <4>2. ViewPacket(InSight(index)) \in Packet
        BY <1>0, <4>1, ViewPacketFacts
      <4>3. QED
        BY <4>2
    <3> HIDE DEF packets
    <3>3. Pipe' = Pipe
      BY <2>0, <2>2, <3>1, <3>2, SentFacts
    <3>4. m_views'[observer] = seen
      BY <1>0, <2>2, <3>1
    <3>5. observer \in Served
      BY <1>2, <3>1 DEF Served
    <3>6. observer <= index
      <4>1. \/ logicPc' = "view" /\ \A s \in Served : s < index' => s <= index
            \/ logicPc' = "tick" /\ \A s \in Served : s <= index
        BY <3>1, AdvanceFacts
      <4>2. QED
        BY <1>2, <3>5, <4>1
    <3>7. observer < index
      <4>1. index \in Nat /\ observer \in Nat
        BY <1>0, <3>1, CommanderFacts
      <4>2. \A i, j \in Nat : i <= j /\ j # i => i < j
        OBVIOUS
      <4>3. QED
        BY <2>2, <3>6, <4>1, <4>2
    <3>8. Settled
      BY <1>2, <3>1, <3>4, <3>5, <3>7 DEF Settled
    <3>9. QED
      BY <1>5, <2>0, <3>1, <3>3, <3>4, <3>8
  <2>3. ~UpdateCommanders_Remove /\ ~Update_Stand /\ ~Update_Move
    <3>1. SUFFICES ASSUME UpdateCommanders_Remove \/ Update_Stand \/ Update_Move
                   PROVE  FALSE
      OBVIOUS
    <3>2. logicPc = "update" /\ index \in Served /\ Advance
      BY <3>1 DEF UpdateCommanders_Remove, Update_Stand, Update_Move, At
    <3>3. \/ logicPc' = "update"
          \/ logicPc' = "view" /\ \A s \in Served' : index' <= s
          \/ logicPc' = "tick" /\ Served' = {}
      BY <3>2, AdvanceFacts
    <3>4. logicPc' = "view" /\ index' <= observer /\ observer < index'
      BY <1>2, <3>3
    <3>5. index' \in 1..MaxCommander + 1
      BY <1>0, <3>2, LoopTypes
    <3>6. index' \in Nat /\ observer \in Nat
      BY <3>5, CommanderFacts
    <3>7. \A i, j \in Nat : ~(i <= j /\ j < i)
      OBVIOUS
    <3>8. QED
      BY <3>4, <3>6, <3>7
  <2>4. ~AnyLogin /\ ~AnyAgain /\ ~Tick_Update /\ ~ProcessPacket_End
    <3>1. AnyLogin => logicPc' = "packets"
      BY DEF AnyLogin, OnPacket_LOGIN, tickVars
    <3>2. AnyAgain => logicPc' = "packets"
      BY AgainFacts
    <3>3. Tick_Update => logicPc' = "packets"
      BY DEF Tick_Update
    <3>4. ProcessPacket_End => logicPc' = "update" \/ Served' = {}
      BY DEF ProcessPacket_End, Served
    <3>5. QED
      BY <1>2, <3>1, <3>2, <3>3, <3>4
  <2>5. CASE ~UpdateViews
    <3>1. /\ UNCHANGED <<name, m_positionCur, m_views, net>> /\ Served' = Served
      BY <1>0, <1>8, <2>3, <2>4, <2>5, ServedFacts, Frames
    <3>2. Pipe' = Pipe
      BY <2>0, <3>1 DEF Pipe
    <3>3. UNCHANGED <<logicPc, index>>
      BY <2>3, <2>4, <2>5, Frames
    <3>4. Settled
      BY <1>2, <3>1, <3>3 DEF Settled
    <3>5. QED
      BY <1>5, <2>0, <3>1, <3>2, <3>4
  <2>6. QED
    BY <2>1, <2>2, <2>5
<1>9. QED
  BY <1>6, <1>7, <1>8

-------------------------------------------------------------------------------
(* The inductive invariant.  TypeOK needs Joined (a view names those who   *)
(* have joined) and Counted; PositionComes needs Counted (a callback that  *)
(* is not the only one reads a mixture); ViewComes needs Sight as well     *)
(* (who is shown is served, so that nobody's name changes).                *)
BotInv == /\ TypeOK /\ Joined /\ Motion /\ Sight
          /\ Counted /\ PositionComes /\ ViewComes

(* It holds before the first step, ...                                     *)
LEMMA BotInvInit == Init => BotInv
<1> SUFFICES ASSUME Init PROVE BotInv
  OBVIOUS
<1>1. WorldInit
  BY DEF Init
<1>2. Served = {}
  BY <1>1 DEF Served, WorldInit
<1>3. TypeOK
  <2>1. WorldTypeOK
    <3>1. /\ 0 \in Place /\ 0 \in 0..MaxMove /\ 1 \in 1..MaxCommander + 1
          /\ 0 \in Nat /\ <<>> \in Seq(Packet)
      BY CommanderFacts, PlaceFacts, WorldAssumption
    <3>2. /\ commander \in [Commander -> {"none", "in", "leaving", "gone"}]
          /\ name \in [Commander -> Names \cup {""}]
          /\ m_positionCur \in [Commander -> Place]
          /\ m_positionDest \in [Commander -> Place]
          /\ m_isMoving \in [Commander -> BOOLEAN]
          /\ m_views \in [Commander -> SUBSET Commander]
          /\ request \in [Commander -> SUBSET Place]
      BY <1>1, <3>1 DEF WorldInit
    <3>3. QED
      BY <1>1, <3>1, <3>2 DEF WorldInit, WorldTypeOK
  <2>2. sends \in 0..MaxMove + 1
    BY WorldAssumption DEF Init
  <2>3. sendCallbacks \in 0..sends /\ receives \in 0..sends /\ callbacks \in 0..sends
    BY DEF Init
  <2>4. \E names \in SUBSET Names : ViewList \in [names -> View]
    BY DEF Init
  <2>5. data \in Seq(Packet) /\ Position \in Place \cup {-1}
    BY DEF Init
  <2>6. lost \subseteq Kinds /\ torn \in BOOLEAN /\ cuts \in 0..MaxCut
    <3>1. lost = {} /\ torn = FALSE /\ cuts = 0
      BY DEF Init
    <3>2. 0 \in 0..MaxCut
      BY CutAssumption
    <3>3. QED
      BY <3>1, <3>2
  <2>7. QED
    BY <2>1, <2>2, <2>3, <2>4, <2>5, <2>6 DEF TypeOK
<1>4. Joined
  BY <1>1, <1>2 DEF Joined, WorldInit
<1>5. Motion
  BY <1>1 DEF Motion, WorldInit
<1>6. Sight
  BY <1>1, <1>2 DEF Sight, WorldInit
<1>7. Counted
  <2>1. /\ sends = 1 /\ sendCallbacks = 1 /\ receives = 0 /\ callbacks = 0
        /\ moves = 0 /\ data = <<>> /\ torn = FALSE
    BY <1>1 DEF Init, WorldInit
  <2>2. QED
    BY <2>1 DEF Counted
<1>8. PositionComes /\ ViewComes
  BY <1>2 DEF PositionComes, ViewComes, Settled
<1>9. QED
  BY <1>3, <1>4, <1>5, <1>6, <1>7, <1>8 DEF BotInv

(* ... and every step keeps it.                                            *)
LEMMA BotInvStep == BotInv /\ [Next]_vars => BotInv'
<1> SUFFICES ASSUME BotInv, [Next]_vars PROVE BotInv'
  OBVIOUS
<1>1. CASE Next
  <2>1. /\ TypeOK /\ Joined /\ Motion /\ Sight
        /\ Counted /\ PositionComes /\ ViewComes
    BY DEF BotInv
  <2>2. TypeOK' /\ Joined' /\ Motion' /\ Sight' /\ Counted'
    BY <1>1, <2>1, TypeStep, JoinedStep, MotionStep, SightStep, CountedStep
  <2>3. PositionComes' /\ ViewComes'
    BY <1>1, <2>1, PositionStep, ViewStep
  <2>4. QED
    BY <2>2, <2>3 DEF BotInv
<1>2. CASE UNCHANGED vars
  <2>1. /\ UNCHANGED <<commander, name, m_positionCur, m_positionDest, m_isMoving>>
        /\ UNCHANGED <<m_views, request, moves, logicPc, index, distance, firstTick>>
        /\ UNCHANGED <<net, sends, sendCallbacks, receives, data, callbacks, torn>>
        /\ UNCHANGED <<Position, ViewList, lost, cuts>>
    BY <1>2 DEF vars, worldVars, charVars, clockVars, askVars, tickVars, sendVars,
                receiveVars, shownVars
  <2>2. TypeOK'
    BY <2>1 DEF BotInv, TypeOK, WorldTypeOK
  <2>3. Joined' /\ Motion' /\ Counted'
    BY <2>1 DEF BotInv, Joined, Motion, Counted, Served
  <2>4. Sight'
    BY <2>1 DEF BotInv, Sight, Served, InSight
  <2>5. PositionComes'
    BY <2>1 DEF BotInv, PositionComes, Served, Pipe
  <2>6. ViewComes'
    BY <2>1 DEF BotInv, ViewComes, Settled, Served, Pipe, ViewPacket, Shown
  <2>7. QED
    BY <2>2, <2>3, <2>4, <2>5, <2>6 DEF BotInv
<1>3. QED
  BY <1>1, <1>2

(* The invariant holds throughout.                                         *)
THEOREM BotInvCorrect == Spec => []BotInv
<1>1. QED
  BY BotInvInit, BotInvStep, PTL DEF Spec

(* Type correctness of the world and of the observer's client.             *)
THEOREM TypeCorrect == Spec => []TypeOK
<1>1. BotInv => TypeOK
  BY DEF BotInv
<1>2. QED
  BY <1>1, BotInvCorrect, PTL

(* Two callbacks in one buffer need two sends: BeginReceive is called once *)
(* for each send that has completed and each receive that was processed,   *)
(* and not even that where ProcessPacket threw.                            *)
THEOREM TornNeedsTwoSendsCorrect == Spec => []TornNeedsTwoSends
<1>1. BotInv => TornNeedsTwoSends
  BY DEF BotInv, Counted, TornNeedsTwoSends
<1>2. QED
  BY <1>1, BotInvCorrect, PTL

(* Between ticks who sees somebody is seen, and is served: UpdateView runs *)
(* over all commanders after UpdateCommanders has moved all of them.       *)
THEOREM SightIsMutualCorrect == Spec => []SightIsMutual
<1>1. BotInv => SightIsMutual
  BY SightSuffices DEF BotInv
<1>2. QED
  BY <1>1, BotInvCorrect, PTL

(* Every tick brings a character that has to go somewhere nearer to it.    *)
THEOREM NearerEveryTickCorrect == Spec => NearerEveryTick
<1> DEFINE A == \A s \in Commander :
                  commander[s] = "in" /\ m_positionDest'[s] = m_positionDest[s] =>
                    /\ ToGo(s)' <= ToGo(s)
                    /\ logicPc = "update" /\ index = s /\ tickVars' # tickVars
                         /\ ToGo(s) > 0 => ToGo(s)' < ToGo(s)
<1>1. BotInv /\ Next => A
  BY NearerStep DEF BotInv
<1>2. UNCHANGED vars => UNCHANGED worldVars
  BY DEF vars
<1>3. BotInv /\ [Next]_vars => [A]_worldVars
  BY <1>1, <1>2
<1>4. Spec => [][A]_worldVars
  <2> HIDE DEF A
  <2>1. QED
    BY <1>3, BotInvCorrect, PTL DEF Spec
<1>5. QED
  BY <1>4 DEF NearerEveryTick

(* A client that has processed the last MOVE shows where its character is, *)
(* whatever came before it: parts of packets, mixtures, exceptions.        *)
THEOREM ClientShowsPositionCorrect == Spec => []ClientShowsPosition
<1>1. BotInv => ClientShowsPosition
  <2> SUFFICES ASSUME BotInv, CaughtUp, "MOVE" \notin lost, observer \in Served
               PROVE  Position = m_positionCur[observer]
    BY DEF ClientShowsPosition
  <2>1. net = <<>> /\ data = <<>>
    BY DEF CaughtUp, BotInv, Counted
  <2>2. Pipe = <<>>
    <3>1. <<>> \o net = net
      BY ConcatEmptySeq DEF BotInv, TypeOK, WorldTypeOK
    <3>2. QED
      BY <2>1, <3>1 DEF Pipe
  <2>3. ~Has(Pipe, "MOVE")
    BY <2>2, OneFacts
  <2>4. QED
    BY <2>1, <2>3 DEF BotInv, PositionComes
<1>2. QED
  BY <1>1, BotInvCorrect, PTL

(* And if it has processed the last VIEW to its end, whom its character    *)
(* sees, where they are, unless it sees nobody.                            *)
THEOREM ViewIsCurrentUnlessAloneCorrect == Spec => []ViewIsCurrentUnlessAlone
<1>1. BotInv => ViewIsCurrentUnlessAlone
  <2> SUFFICES ASSUME BotInv, CaughtUp, "VIEW" \notin lost, logicPc = "tick",
                      observer \in Served, m_views[observer] # {}
               PROVE  [n \in DOMAIN ViewList |-> ViewList[n].position]
                        = Shown(m_views[observer])
    BY DEF ViewIsCurrentUnlessAlone
  <2>1. net = <<>> /\ data = <<>>
    BY DEF CaughtUp, BotInv, Counted
  <2>2. Pipe = <<>>
    <3>1. <<>> \o net = net
      BY ConcatEmptySeq DEF BotInv, TypeOK, WorldTypeOK
    <3>2. QED
      BY <2>1, <3>1 DEF Pipe
  <2>3. ~Has(Pipe, "VIEW")
    BY <2>2, OneFacts
  <2>4. Settled
    BY DEF Settled
  <2>5. QED
    BY <2>1, <2>3, <2>4 DEF BotInv, ViewComes
<1>2. QED
  BY <1>1, BotInvCorrect, PTL
===============================================================================
