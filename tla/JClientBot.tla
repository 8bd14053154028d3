------------------------------ MODULE JClientBot ------------------------------
(***************************************************************************)
(* The observer's client (Client in JClientBot/Network.cs) on top of       *)
(* JWorld: what it shows of its own position and of the commanders in      *)
(* sight.  The user has selected this client (a client that is not has no  *)
(* ViewList), does not log out, and nobody chats.                          *)
(*                                                                         *)
(* Every completed send starts a BeginReceive, and every receive starts    *)
(* the next one, all of them into the one buffer "data".  A receive brings *)
(* what there is of a byte stream, and a callback reads one packet from    *)
(* the start of the buffer, whatever came: packets behind it are lost, and *)
(* where a receive began or ended inside a packet, or another one completed*)
(* before the callback had run ("torn"), the bytes it reads can be any.    *)
(*                                                                         *)
(* ViewList is bound to the window (MainWindow.xaml:86), which lets no     *)
(* other thread than its own change it: an Add or a Remove in a callback   *)
(* takes effect and throws.  ReceiveData then reports "read Fail", and no  *)
(* receive follows.                                                        *)
(***************************************************************************)
EXTENDS JWorld

CONSTANTS
  MaxCut,               \* bound: receives that end inside a packet
  Garbage               \* what the bytes of an unknown packet may look like

ASSUME CutAssumption == MaxCut \in Nat /\ Garbage \subseteq Packet

VARIABLES
  sends,                \* number of packets the client sent
  sendCallbacks,        \* sends whose SendData has not run
  receives,             \* BeginReceives without a result
  data,                 \* what the last receive brought
  callbacks,            \* receives whose ReceiveData has not run
  Position,             \* the position the client shows, -1 before any
  ViewList,             \* the commanders it shows, by name
  lost,                 \* history: kinds whose last packet was not processed
                        \* to its end, or not as it was sent
  torn,                 \* history: a receive wrote to the buffer before the
                        \* callback of another had read it
  cuts                  \* number of receives that ended inside a packet

sendVars    == <<sends, sendCallbacks>>
receiveVars == <<receives, data, callbacks, torn, cuts>>
shownVars   == <<Position, ViewList, lost>>

vars == <<worldVars, sendVars, receiveVars, shownVars>>

View == [position : Place, IsUpdate : BOOLEAN]

(* The packets the client shows something of.                              *)
Kinds == {"MOVE", "VIEW"}

TypeOK ==
  /\ WorldTypeOK
  /\ sends \in 0..MaxMove + 1
  /\ sendCallbacks \in 0..sends
  /\ receives \in 0..sends
  /\ data \in Seq(Packet)
  /\ callbacks \in 0..sends
  /\ Position \in Place \cup {-1}
  /\ \E names \in SUBSET Names : ViewList \in [names -> View]
  /\ lost \subseteq Kinds
  /\ torn \in BOOLEAN
  /\ cuts \in 0..MaxCut

(* Connected has sent LOGIN.                                               *)
Init ==
  /\ WorldInit
  /\ sends = 1
  /\ sendCallbacks = 1
  /\ receives = 0
  /\ data = <<>>
  /\ callbacks = 0
  /\ Position = -1
  /\ ViewList = [n \in {} |-> 0]
  /\ lost = {}
  /\ torn = FALSE
  /\ cuts = 0

-------------------------------------------------------------------------------
(* RandomMove_Button_Click: Send(PKS_CS_MOVE).                             *)
Client_Send ==
  /\ Ask(observer)
  /\ sends' = sends + 1
  /\ sendCallbacks' = sendCallbacks + 1
  /\ UNCHANGED <<receiveVars, shownVars>>

SendData ==
  /\ sendCallbacks > 0
  /\ sendCallbacks' = sendCallbacks - 1
  /\ receives' = receives + 1
  /\ UNCHANGED <<worldVars, sends, data, callbacks, torn, cuts, shownVars>>

(* A BeginReceive completes with the next packets on the net; with what is *)
(* in the buffer they make a mixture if a callback has not read that.      *)
Into(packets) == IF callbacks > 0 THEN <<Part>> ELSE packets

Receive_Whole(k) ==
  /\ data' = Into(SubSeq(net, 1, k))
  /\ net' = SubSeq(net, k + 1, Len(net))
  /\ UNCHANGED cuts

(* It may end inside the last of them.                                     *)
Receive_Cut(k) ==
  /\ cuts < MaxCut
  /\ data' = Into(Append(SubSeq(net, 1, k - 1), Part))
  /\ net' = <<Part>> \o SubSeq(net, k + 1, Len(net))
  /\ cuts' = cuts + 1

Receive ==
  /\ receives > 0
  /\ \E k \in 1..Len(net) : Receive_Whole(k) \/ Receive_Cut(k)
  /\ receives' = receives - 1
  /\ callbacks' = callbacks + 1
  /\ torn' = (torn \/ callbacks > 0)
  /\ UNCHANGED <<commander, name, charVars, m_views, askVars, tickVars, clockVars,
                 sendVars, shownVars>>

-------------------------------------------------------------------------------
(* ProcessPacket of PKS_SC_VIEW: no view is up to date; ...                *)
Unmarked(list) == [n \in DOMAIN list |-> [list[n] EXCEPT !.IsUpdate = FALSE]]

(* ... a slot updates the view of its name, or adds one; ...               *)
ShowSlot(list, slot) ==
  IF slot.name = "None" THEN list
  ELSE [n \in DOMAIN list \cup {slot.name} |->
          IF n = slot.name THEN [position |-> slot.position, IsUpdate |-> TRUE]
          ELSE list[n]]

(* ... a new name is added, and that is as far as it gets; ...             *)
ShowSlots(slots) ==
  LET new == {i \in 1..ViewSlots : slots[i].name \notin DOMAIN ViewList \cup {"None"}}
      shown[i \in 0..ViewSlots] ==
        IF i = 0 THEN Unmarked(ViewList) ELSE ShowSlot(shown[i - 1], slots[i])
  IN shown[Min(new \cup {ViewSlots})]

(* Mutant: no view is ever removed.                                        *)
Swept_Nothing(list) == {list}

(* ... the views that are not up to date are removed, but the first of     *)
(* them is the last, too (which one it is depends on the order in which    *)
(* they were added; here it is any).                                       *)
Swept(list) ==
  LET old == {n \in DOMAIN list : ~list[n].IsUpdate}
  IN IF DOMAIN list # DOMAIN ViewList \/ old = {} THEN {list}
     ELSE {[n \in DOMAIN list \ {m} |-> list[n]] : m \in old}

(* Mutant: one receive for all sends.                                      *)
BeginReceive_Extra(threw) == receives' = receives + 2

(* BeginReceive again, unless ProcessPacket threw.                         *)
BeginReceive(threw) == receives' = IF threw THEN receives ELSE receives + 1

(* What ProcessPacket may find at the start of the buffer.                 *)
Read == IF Head(data) = Part THEN Garbage ELSE {Head(data)}

(* ReceiveData: ProcessPacket, BeginReceive.                               *)
ReceiveData ==
  /\ callbacks > 0
  /\ callbacks' = callbacks - 1
  /\ \E packet \in Read :
       /\ Position' = IF packet.command = "MOVE" THEN packet.dest ELSE Position
       /\ IF packet.command = "VIEW" THEN ViewList' \in Swept(ShowSlots(packet.slots))
          ELSE UNCHANGED ViewList
  /\ LET threw == DOMAIN ViewList' # DOMAIN ViewList
         done  == IF threw THEN {} ELSE {Head(data).command}
     IN /\ BeginReceive(threw)
        /\ lost' = IF Part \in ToSet(data) THEN Kinds
                   ELSE (lost \ done) \cup {k \in Kinds : \E p \in ToSet(Tail(data)) : p.command = k}
                          \cup IF threw THEN {"VIEW"} ELSE {}
  /\ data' = IF callbacks = 1 THEN <<>> ELSE data
  /\ UNCHANGED <<worldVars, sendVars, torn, cuts>>

-------------------------------------------------------------------------------
Others == Commander \ {observer}

World ==
  /\ \/ Tick
     \/ \E s \in Commander : OnPacket_LOGIN(s) \/ OnPacket_MOVE(s)
     \/ \E s \in Others : OnPacket_LOGIN_Again(s) \/ OnPacket_LOGOUT(s)
                              \/ Ask(s)
  /\ UNCHANGED <<sendVars, receiveVars, shownVars>>

Next == World \/ Client_Send \/ SendData \/ Receive \/ ReceiveData

Spec == Init /\ [][Next]_vars

-------------------------------------------------------------------------------
(* The client has processed everything the server sent.                    *)
CaughtUp == net = <<>> /\ callbacks = 0

(* A client that has processed the last MOVE of its server, as it was sent,*)
(* shows the position its character has, at any time.                      *)
ClientShowsPosition ==
  CaughtUp /\ "MOVE" \notin lost /\ observer \in Served =>
    Position = m_positionCur[observer]

(* What a list of those in sight shows: no more than ViewSlots of them, of *)
(* those with one name the last one, and never a commander called "None".  *)
Shown(seen) ==
  LET first == {t \in seen : Nth(seen, t) <= ViewSlots}
      last(n) == Max({t \in first : name[t] = n})
  IN [n \in {name[t] : t \in first} \ {"None"} |-> m_positionCur[last(n)]]

(* Between ticks a client that has processed the last VIEW, as it was sent *)
(* and to its end, shows those in sight where they are, unless nobody is:  *)
(* then nothing was sent, and it goes on to show the last ones it saw.     *)
(* (So it is current only after as many receives have ended in an exception*)
(* as there were names to add or remove; of those nothing is said.)        *)
ViewIsCurrentUnlessAlone ==
  CaughtUp /\ "VIEW" \notin lost /\ logicPc = "tick" /\ observer \in Served
    /\ m_views[observer] # {} =>
      [n \in DOMAIN ViewList |-> ViewList[n].position] = Shown(m_views[observer])

(* The buffer is overwritten under a callback only when the client sent    *)
(* something besides LOGIN: each send adds one receive, no more (and an    *)
(* exception in a callback ends one).                                      *)
TornNeedsTwoSends ==
  /\ sendCallbacks + receives + callbacks <= sends
  /\ torn => sends > 1
===============================================================================
