-------------------------------- MODULE JWorld --------------------------------
(***************************************************************************)
(* Characters that move and see each other: JCharacter, JPlayerChar,       *)
(* JCommander::UpdateViews (JServerLib) and the clock they move by,        *)
(* JTickClass.                                                             *)
(*                                                                         *)
(* Only the logic thread is here; what it sends goes to "net", the packets *)
(* on their way to the client of one commander, the observer (JClientBot   *)
(* is what that client makes of them).  A commander is its place in the    *)
(* order in which they were accepted, and is logged in when it joins (see  *)
(* JServer's LateLoginIsServed for what happens otherwise).  The space is  *)
(* a line of whole numbers; the square root and the rounding of the vector *)
(* functions are left out.                                                 *)
(***************************************************************************)
EXTENDS Integers, Sequences, SequencesExt, FiniteSetsExt

CONSTANTS
  MaxCommander,         \* bound: commanders that ever join
  observer,             \* the commander whose client is watched
  MaxPlace,             \* bound: the last position; characters start at 0
  Distance,             \* how far a character moves in a tick, by elapsedTime
  viewDist,             \* 50 in the code
  ViewSlots,            \* names a PKS_SC_VIEW has room for: 5 in the code
  Name,                 \* of each commander: what its player may call himself
  MaxMove,              \* bound: MOVE and further LOGIN packets of all clients
  MaxNet                \* bound: packets on their way; the tick waits for room

Commander == 1..MaxCommander

Place == 0..MaxPlace

ASSUME WorldAssumption ==
  /\ MaxCommander \in Nat /\ observer \in Commander
  /\ MaxPlace \in Nat
  /\ Distance \subseteq Nat \ {0}
  /\ Name \in [Commander -> SUBSET STRING]
  /\ viewDist \in Nat /\ ViewSlots \in Nat \ {0}
  /\ MaxMove \in Nat /\ MaxNet \in Nat

VARIABLES
  commander,            \* of each: "none", "in", "leaving" (m_isLogout), "gone"
  name,                 \* m_commanderName
  m_positionCur, m_positionDest, m_isMoving,
  m_views,              \* the commanders in sight (the vector has accept order)
  request,              \* a MOVE sent and not yet processed: {} or {destination}
  moves,                \* number of MOVE and further LOGIN packets
  logicPc, index,       \* where the tick is, and at which commander
  distance,             \* what this tick's elapsedTime comes to
  firstTick,            \* tick.now is still 0
  net

charVars  == <<m_positionCur, m_positionDest, m_isMoving>>
clockVars == <<distance, firstTick>>
askVars   == <<request, moves>>
tickVars  == <<logicPc, index>>

worldVars == <<commander, name, charVars, m_views, askVars, tickVars, clockVars, net>>

Names == UNION {Name[s] : s \in Commander}

Slot == [name : Names \cup {"None"}, position : Place]

(* A part of a packet, or of several: where a receive has cut the stream.  *)
Part == [command |-> "PART"]

Packet == [command : {"LOGIN_ACK"}]
            \cup [command : {"MOVE"}, dest : Place]
            \cup [command : {"VIEW"}, slots : [1..ViewSlots -> Slot]]
            \cup {Part}

WorldTypeOK ==
  /\ commander \in [Commander -> {"none", "in", "leaving", "gone"}]
  /\ name \in [Commander -> Names \cup {""}]
  /\ m_positionCur \in [Commander -> Place]
  /\ m_positionDest \in [Commander -> Place]
  /\ m_isMoving \in [Commander -> BOOLEAN]
  /\ m_views \in [Commander -> SUBSET Commander]
  /\ request \in [Commander -> SUBSET Place]
  /\ moves \in 0..MaxMove
  /\ logicPc \in {"tick", "packets", "update", "view"}
  /\ index \in 1..MaxCommander + 1
  /\ distance \in Nat
  /\ firstTick \in BOOLEAN
  /\ net \in Seq(Packet)

WorldInit ==
  /\ commander = [s \in Commander |-> "none"]
  /\ name = [s \in Commander |-> ""]
  /\ m_positionCur = [s \in Commander |-> 0]
  /\ m_positionDest = [s \in Commander |-> 0]
  /\ m_isMoving = [s \in Commander |-> FALSE]
  /\ m_views = [s \in Commander |-> {}]
  /\ request = [s \in Commander |-> {}]
  /\ moves = 0
  /\ logicPc = "tick"
  /\ index = 1
  /\ distance = 0
  /\ firstTick = TRUE
  /\ net = <<>>

-------------------------------------------------------------------------------
(* m_commanders                                                            *)
Served == {s \in Commander : commander[s] \in {"in", "leaving"}}

(* JCommander::Send(packets).                                              *)
Send(s, packets) == net' = IF s = observer THEN net \o packets ELSE net

MovePacket(p) == [command |-> "MOVE", dest |-> p]

Gap(a, b) == IF a < b THEN b - a ELSE a - b

(* A client asks its character to move.                                    *)
Ask(s) ==
  /\ commander[s] = "in"
  /\ request[s] = {}
  /\ moves < MaxMove
  /\ moves' = moves + 1
  /\ \E p \in Place : request' = [request EXCEPT ![s] = {p}]
  /\ UNCHANGED <<commander, name, charVars, m_views, tickVars, clockVars, net>>

-------------------------------------------------------------------------------
(* tick.Update(): elapsedTime is the time since the epoch in the first     *)
(* tick, and wraps around to as much when the clock is set back: a         *)
(* distance that reaches everywhere.                                       *)
Far == MaxPlace + 1

Tick_Update ==
  /\ logicPc = "tick"
  /\ Len(net) + 4 <= MaxNet
  /\ IF firstTick THEN distance' = Far ELSE distance' \in Distance \cup {Far}
  /\ firstTick' = FALSE
  /\ logicPc' = "packets"
  /\ UNCHANGED <<commander, name, charVars, m_views, askVars, index, net>>

(* Init: a character at the origin; LOGIN_ACK, and MOVE with its position. *)
OnPacket_LOGIN(s) ==
  /\ logicPc = "packets"
  /\ commander[s] = "none"
  /\ \A t \in 1..s - 1 : commander[t] # "none"
  /\ commander' = [commander EXCEPT ![s] = "in"]
  /\ \E n \in Name[s] : name' = [name EXCEPT ![s] = n]
  /\ Send(s, <<[command |-> "LOGIN_ACK"], MovePacket(m_positionCur[s])>>)
  /\ UNCHANGED <<charVars, m_views, askVars, tickVars, clockVars>>

(* A LOGIN of a commander that is logged in: Init gives it a new name and  *)
(* a new character, at the origin.  (The observer's client sends one only, *)
(* Network.cs:320.)                                                        *)
OnPacket_LOGIN_Again(s) ==
  /\ logicPc = "packets"
  /\ commander[s] = "in"
  /\ s # observer
  /\ moves < MaxMove
  /\ moves' = moves + 1
  /\ \E n \in Name[s] : name' = [name EXCEPT ![s] = n]
  /\ m_positionCur' = [m_positionCur EXCEPT ![s] = 0]
  /\ m_positionDest' = [m_positionDest EXCEPT ![s] = 0]
  /\ m_isMoving' = [m_isMoving EXCEPT ![s] = FALSE]
  /\ UNCHANGED <<commander, m_views, request, tickVars, clockVars, net>>

(* ReqMove(packet->dest)                                                   *)
OnPacket_MOVE(s) ==
  /\ logicPc = "packets"
  /\ commander[s] = "in"
  /\ \E p \in request[s] : m_positionDest' = [m_positionDest EXCEPT ![s] = p]
  /\ m_isMoving' = [m_isMoving EXCEPT ![s] = TRUE]
  /\ request' = [request EXCEPT ![s] = {}]
  /\ UNCHANGED <<commander, name, m_positionCur, m_views, moves, tickVars,
                 clockVars, net>>

(* LOGOUT, or the client is gone.                                          *)
OnPacket_LOGOUT(s) ==
  /\ logicPc = "packets"
  /\ commander[s] = "in"
  /\ commander' = [commander EXCEPT ![s] = "leaving"]
  /\ UNCHANGED <<name, charVars, m_views, askVars, tickVars, clockVars, net>>

(* The first commander of m_commanders.                                    *)
First(served) == Min(served \cup {MaxCommander + 1})

ProcessPacket_End ==
  /\ logicPc = "packets"
  /\ logicPc' = IF Served = {} THEN "tick" ELSE "update"
  /\ index' = First(Served)
  /\ UNCHANGED <<commander, name, charVars, m_views, askVars, clockVars, net>>

-------------------------------------------------------------------------------
(* The loops over m_commanders of UpdateCommanders and UpdateView, from    *)
(* the first commander to the last; with none they are over at once.       *)
At(pc) == logicPc = pc /\ index \in Served

Advance ==
  LET later == {s \in Served : s > index}
  IN IF later # {}
       THEN index' = Min(later) /\ UNCHANGED <<logicPc, distance>>
       ELSE /\ index' = First(Served')
            /\ logicPc' = IF logicPc = "update" /\ Served' # {} THEN "view" ELSE "tick"
            /\ distance' = 0

(* Leaving m_commanders destroys the commander and its character.          *)
UpdateCommanders_Remove ==
  /\ At("update")
  /\ commander[index] = "leaving"
  /\ commander' = [commander EXCEPT ![index] = "gone"]
  /\ name' = [name EXCEPT ![index] = ""]
  /\ m_positionCur' = [m_positionCur EXCEPT ![index] = 0]
  /\ m_positionDest' = [m_positionDest EXCEPT ![index] = 0]
  /\ m_isMoving' = [m_isMoving EXCEPT ![index] = FALSE]
  /\ m_views' = [m_views EXCEPT ![index] = {}]
  /\ request' = [request EXCEPT ![index] = {}]
  /\ UNCHANGED <<moves, firstTick, net>>
  /\ Advance

(* JCharacter::Update of a character that stands, or has arrived.          *)
Update_Stand ==
  /\ At("update")
  /\ commander[index] = "in"
  /\ ~m_isMoving[index] \/ m_positionCur[index] = m_positionDest[index]
  /\ m_isMoving' = [m_isMoving EXCEPT ![index] = FALSE]
  /\ UNCHANGED <<commander, name, m_positionCur, m_positionDest, m_views, askVars,
                 firstTick, net>>
  /\ Advance

(* Where Move takes a character at p: to the destination, or a step in its *)
(* direction.                                                              *)
Move(p, dest) ==
  IF Gap(p, dest) < distance THEN dest
  ELSE IF p < dest THEN p + distance ELSE p - distance

(* Mutants: the character stops after one step; its client is told where   *)
(* it was before the step.                                                 *)
Update_Move_StopsAtOnce ==
  /\ At("update")
  /\ commander[index] = "in"
  /\ m_isMoving[index] /\ m_positionCur[index] # m_positionDest[index]
  /\ LET p == Move(m_positionCur[index], m_positionDest[index])
     IN /\ m_positionCur' = [m_positionCur EXCEPT ![index] = p]
        /\ Send(index, <<MovePacket(p)>>)
  /\ m_isMoving' = [m_isMoving EXCEPT ![index] = FALSE]
  /\ UNCHANGED <<commander, name, m_positionDest, m_views, askVars, firstTick>>
  /\ Advance

Update_Move_TellsBefore ==
  /\ At("update")
  /\ commander[index] = "in"
  /\ m_isMoving[index] /\ m_positionCur[index] # m_positionDest[index]
  /\ LET p == Move(m_positionCur[index], m_positionDest[index])
     IN /\ m_positionCur' = [m_positionCur EXCEPT ![index] = p]
        /\ Send(index, <<MovePacket(m_positionCur[index])>>)
  /\ UNCHANGED <<commander, name, m_positionDest, m_isMoving, m_views, askVars,
                 firstTick>>
  /\ Advance

(* JCharacter::Update of a character on its way; JPlayerChar::Move tells   *)
(* its client.                                                             *)
Update_Move ==
  /\ At("update")
  /\ commander[index] = "in"
  /\ m_isMoving[index] /\ m_positionCur[index] # m_positionDest[index]
  /\ LET p == Move(m_positionCur[index], m_positionDest[index])
     IN /\ m_positionCur' = [m_positionCur EXCEPT ![index] = p]
        /\ Send(index, <<MovePacket(p)>>)
  /\ UNCHANGED <<commander, name, m_positionDest, m_isMoving, m_views, askVars,
                 firstTick>>
  /\ Advance

-------------------------------------------------------------------------------
(* Mutant: m_views is not cleared.                                         *)
InSight_NotCleared(s) ==
  m_views[s] \cup
    {t \in Served \ {s} : Gap(m_positionCur[s], m_positionCur[t]) <= viewDist}

(* The others that are not farther away than viewDist.                     *)
InSight(s) ==
  {t \in Served \ {s} : Gap(m_positionCur[s], m_positionCur[t]) <= viewDist}

(* Which one of those in sight t is.                                       *)
Nth(seen, t) == Cardinality({u \in seen : u <= t})

(* The slots of PKS_SC_VIEW: the first of those in sight, then "None" (the *)
(* position of such a slot is not written, and nobody reads it).           *)
ViewPacket(seen) ==
  [command |-> "VIEW",
   slots |-> [i \in 1..ViewSlots |->
                IF \E t \in seen : Nth(seen, t) = i
                  THEN LET t == CHOOSE t \in seen : Nth(seen, t) = i
                       IN [name |-> name[t], position |-> m_positionCur[t]]
                  ELSE [name |-> "None", position |-> 0]]]

(* With nobody in sight nothing is sent.                                   *)
UpdateViews ==
  /\ At("view")
  /\ LET seen == InSight(index)
     IN /\ m_views' = [m_views EXCEPT ![index] = seen]
        /\ Send(index, IF seen = {} THEN <<>> ELSE <<ViewPacket(seen)>>)
  /\ UNCHANGED <<commander, name, charVars, askVars, firstTick>>
  /\ Advance

-------------------------------------------------------------------------------
Tick ==
  \/ Tick_Update
  \/ ProcessPacket_End
  \/ UpdateCommanders_Remove
  \/ Update_Stand
  \/ Update_Move
  \/ UpdateViews

-------------------------------------------------------------------------------
(* Between ticks, who sees somebody is seen by them, and nobody is in the  *)
(* views who has left: all views of a tick are taken at one time, after    *)
(* every character has moved.                                              *)
SightIsMutual ==
  logicPc = "tick" =>
    \A s, t \in Served :
      /\ t \in m_views[s] <=> s \in m_views[t]
      /\ m_views[s] \subseteq Served

(* A character that is not where it was asked to go gets nearer in every   *)
(* tick and never farther in between; so it arrives, whatever time the     *)
(* ticks take, unless it is asked to go elsewhere or its commander leaves. *)
ToGo(s) == Gap(m_positionCur[s], m_positionDest[s])

NearerEveryTick ==
  [][\A s \in Commander :
       commander[s] = "in" /\ m_positionDest'[s] = m_positionDest[s] =>
         /\ ToGo(s)' <= ToGo(s)
         /\ logicPc = "update" /\ index = s /\ tickVars' # tickVars /\ ToGo(s) > 0
              => ToGo(s)' < ToGo(s)
    ]_worldVars
===============================================================================
