------------------------------- MODULE JServer --------------------------------
(***************************************************************************)
(* JServer, JSocketServer and JCommander (JServerLib): how a connection    *)
(* becomes a commander, is served tick by tick, and is destroyed.          *)
(*                                                                         *)
(* The io thread runs handle_accept and handle_read; the logic thread runs *)
(* one tick after the other: PreUpdateCommanders, ProcessPacket,           *)
(* UpdateCommanders, UpdateView (ServerLogicThread in JChatServer.cpp).    *)
(* They share m_preCommanders, under the flag m_isUsingPreCommanders (the  *)
(* io thread spins, the logic thread tries once), and every session.       *)
(*                                                                         *)
(* A session is named by its id.  Its receive path is an ordered queue of  *)
(* whole packets here (JSessionRecv has the bytes), its send path a log of *)
(* the chat lines put into m_sendDataQueue (JSessionSend has the writes).  *)
(*                                                                         *)
(* async_read_some is bound to a raw JSession pointer.  Destroying a       *)
(* session cancels its pending read, whose handler then runs on memory     *)
(* that is free, or that the next make_shared<JSession> has taken.  So the *)
(* model keeps the memory block of each session.                           *)
(***************************************************************************)
EXTENDS Naturals, Sequences, SequencesExt, FiniteSetsExt

CONSTANTS
  MaxSession,           \* bound: sessions the server creates
  MaxSay,               \* bound: CHAT and MOVE packets the clients send
  Say,                  \* what these packets are: CHAT, MOVE
  Block                 \* memory blocks of the size of a JSession

ASSUME MaxSessionAssumption == MaxSession \in Nat \ {0}
ASSUME MaxSayAssumption == MaxSay \in Nat
ASSUME SayAssumption == Say \subseteq {"CHAT", "MOVE"}
ASSUME BlockAssumption == IsFiniteSet(Block) /\ Cardinality(Block) >= MaxSession

Session == 1..MaxSession

VARIABLES
  m_newSessionID,       \* the id given last
  phase,                \* of each session: "none", "pending", "open", "destroyed"
  block,                \* the memory block of each session
  client,               \* its client: "none", "new", "in", "gone"
  said,                 \* number of CHAT and MOVE packets the clients sent
  net,                  \* packets sent and not yet read
  inbox,                \* packets read and not yet processed
  reading,              \* an async_read_some is pending
  m_isDisconnected,
  hasChar,              \* m_char is set (LOGIN was processed)
  m_isLogout,
  m_preCommanders, m_commanders, m_readyDieCommanders,
  m_isUsingPreCommanders,       \* the io thread holds the flag
  ioPc, ioSession,      \* where handle_accept is, and for which session
  logicPc, index,       \* where the tick is, and at which commander
  batch,                \* packets ProcessPacket took and has not processed
  stale,                \* destroyed sessions whose read handler has not run
  chat,                 \* history: every chat line broadcast, by its speaker
  heard,                \* history: the chat lines sent to each session
  joinedAt,             \* history: length of "chat" when it joined
  crashed               \* "no", or why the program died

clientVars == <<client, said>>
memVars    == <<m_newSessionID, phase, block, stale>>
recvVars   == <<net, inbox, reading, m_isDisconnected>>
comVars    == <<hasChar, m_isLogout>>
listVars   == <<m_preCommanders, m_commanders, m_readyDieCommanders>>
ioVars     == <<m_isUsingPreCommanders, ioPc, ioSession>>
tickVars   == <<logicPc, index, batch>>
chatVars   == <<chat, heard, joinedAt>>

vars == <<clientVars, memVars, recvVars, comVars, listVars, ioVars, tickVars,
          chatVars, crashed>>

Command == {"LOGIN", "LOGOUT", "CHAT", "MOVE"}

Up == crashed = "no"

(* The blocks of the sessions that exist; the handler that is running      *)
(* holds a shared_ptr to its session.                                      *)
Used ==
  {block[s] : s \in {t \in Session : \/ phase[t] \in {"pending", "open"}
                                     \/ ioPc = "post" /\ ioSession = t}}

-------------------------------------------------------------------------------
TypeOK ==
  /\ m_newSessionID \in 0..MaxSession
  /\ phase \in [Session -> {"none", "pending", "open", "destroyed"}]
  /\ block \in [Session -> Block]
  /\ client \in [Session -> {"none", "new", "in", "gone"}]
  /\ said \in 0..MaxSay
  /\ net \in [Session -> Seq(Command)]
  /\ inbox \in [Session -> Seq(Command)]
  /\ reading \in [Session -> BOOLEAN]
  /\ m_isDisconnected \in [Session -> BOOLEAN]
  /\ hasChar \in [Session -> BOOLEAN]
  /\ m_isLogout \in [Session -> BOOLEAN]
  /\ m_preCommanders \in Seq(Session)
  /\ m_commanders \in Seq(Session)
  /\ m_readyDieCommanders \in Seq(Session)
  /\ m_isUsingPreCommanders \in BOOLEAN
  /\ ioPc \in {"idle", "spin", "push", "post"}
  /\ ioSession \in Session
  /\ logicPc \in {"pre", "process", "packets", "update", "reap", "view"}
  /\ index \in 1..MaxSession + 1
  /\ batch \in Nat
  /\ stale \subseteq Session
  /\ chat \in Seq(Session)
  /\ heard \in [Session -> Seq(Session)]
  /\ joinedAt \in [Session -> Nat]
  /\ crashed \in {"no", "no character", "freed session"}

(* The constructor of JSocketServer posts the first accept.                *)
Init ==
  /\ m_newSessionID = 1
  /\ phase = [s \in Session |-> IF s = 1 THEN "pending" ELSE "none"]
  /\ block = [s \in Session |-> CHOOSE b \in Block : TRUE]
  /\ client = [s \in Session |-> "none"]
  /\ said = 0
  /\ net = [s \in Session |-> <<>>]
  /\ inbox = [s \in Session |-> <<>>]
  /\ reading = [s \in Session |-> FALSE]
  /\ m_isDisconnected = [s \in Session |-> FALSE]
  /\ hasChar = [s \in Session |-> FALSE]
  /\ m_isLogout = [s \in Session |-> FALSE]
  /\ m_preCommanders = <<>>
  /\ m_commanders = <<>>
  /\ m_readyDieCommanders = <<>>
  /\ m_isUsingPreCommanders = FALSE
  /\ ioPc = "idle"
  /\ ioSession = 1
  /\ logicPc = "pre"
  /\ index = 1
  /\ batch = 0
  /\ stale = {}
  /\ chat = <<>>
  /\ heard = [s \in Session |-> <<>>]
  /\ joinedAt = [s \in Session |-> 0]
  /\ crashed = "no"

-------------------------------------------------------------------------------
(* The clients: LOGIN once they are connected, then CHAT and MOVE, then    *)
(* LOGOUT, then they close, as JClientBot does; but one may also go away   *)
(* at any time, or send one more packet between LOGOUT and closing.  Once  *)
(* the server has destroyed the session, what it sends arrives nowhere.    *)

Client_Login(s) ==
  /\ phase[s] = "open"
  /\ client[s] = "new"
  /\ client' = [client EXCEPT ![s] = "in"]
  /\ net' = [net EXCEPT ![s] = Append(@, "LOGIN")]
  /\ UNCHANGED said

Client_Say(s) ==
  /\ phase[s] = "open"
  /\ client[s] = "in"
  /\ said < MaxSay
  /\ said' = said + 1
  /\ \E command \in Say :
       net' = [net EXCEPT ![s] = Append(@, command)]
  /\ UNCHANGED client

Client_Logout(s) ==
  /\ phase[s] = "open"
  /\ client[s] = "in"
  /\ client' = [client EXCEPT ![s] = "gone"]
  /\ \/ /\ net' = [net EXCEPT ![s] = Append(@, "LOGOUT")]
        /\ UNCHANGED said
     \/ /\ said < MaxSay
        /\ said' = said + 1
        /\ \E command \in Say :
             net' = [net EXCEPT ![s] = @ \o <<"LOGOUT", command>>]

Client_Vanish(s) ==
  /\ client[s] \in {"new", "in"}
  /\ client' = [client EXCEPT ![s] = "gone"]
  /\ UNCHANGED <<net, said>>

Client ==
  /\ Up
  /\ \E s \in Session : Client_Login(s) \/ Client_Say(s) \/ Client_Logout(s)
                          \/ Client_Vanish(s)
  /\ UNCHANGED <<memVars, inbox, reading, m_isDisconnected, comVars, listVars,
                 ioVars, tickVars, chatVars, crashed>>

-------------------------------------------------------------------------------
(* Io thread: handle_accept(session, error).                               *)

(* A client connected: PostReceive, then spin for the flag.                *)
handle_accept_PostReceive ==
  /\ Up
  /\ ioPc = "idle"
  /\ \E s \in Session :
       /\ phase[s] = "pending"
       /\ phase' = [phase EXCEPT ![s] = "open"]
       /\ client' = [client EXCEPT ![s] = "new"]
       /\ reading' = [reading EXCEPT ![s] = TRUE]
       /\ ioSession' = s
  /\ ioPc' = "spin"
  /\ UNCHANGED <<said, m_newSessionID, block, stale, net, inbox,
                 m_isDisconnected, comVars, listVars, m_isUsingPreCommanders,
                 tickVars, chatVars, crashed>>

(* while (m_isUsingPreCommanders.test_and_set());                          *)
handle_accept_Acquire ==
  /\ Up
  /\ ioPc = "spin"
  /\ ~m_isUsingPreCommanders
  /\ m_isUsingPreCommanders' = TRUE
  /\ ioPc' = "push"
  /\ UNCHANGED <<clientVars, memVars, recvVars, comVars, listVars, ioSession,
                 tickVars, chatVars, crashed>>

(* Mutant: the newest commander goes to the front.                         *)
handle_accept_Push_Front ==
  /\ Up
  /\ ioPc = "push"
  /\ m_preCommanders' = <<ioSession>> \o m_preCommanders
  /\ m_isUsingPreCommanders' = FALSE
  /\ ioPc' = "post"
  /\ UNCHANGED <<clientVars, memVars, recvVars, comVars, m_commanders,
                 m_readyDieCommanders, ioSession, tickVars, chatVars, crashed>>

(* Mutant: the commander joins without waiting for PreUpdateCommanders.    *)
handle_accept_Push_Direct ==
  /\ Up
  /\ ioPc = "push"
  /\ m_commanders' = Append(m_commanders, ioSession)
  /\ m_isUsingPreCommanders' = FALSE
  /\ ioPc' = "post"
  /\ UNCHANGED <<clientVars, memVars, recvVars, comVars, m_preCommanders,
                 m_readyDieCommanders, ioSession, tickVars, chatVars, crashed>>

(* m_preCommanders.push_back(make_shared<JCommander>(session)); clear()    *)
handle_accept_Push ==
  /\ Up
  /\ ioPc = "push"
  /\ m_preCommanders' = Append(m_preCommanders, ioSession)
  /\ m_isUsingPreCommanders' = FALSE
  /\ ioPc' = "post"
  /\ UNCHANGED <<clientVars, memVars, recvVars, comVars, m_commanders,
                 m_readyDieCommanders, ioSession, tickVars, chatVars, crashed>>

(* PostAccept makes the next session in any free block and waits for a     *)
(* client; ph are the phases of the other sessions.  (At the bound no more *)
(* clients come.)                                                          *)
PostAccept(ph) ==
  \/ /\ m_newSessionID < MaxSession
     /\ m_newSessionID' = m_newSessionID + 1
     /\ \E b \in Block \ Used : block' = [block EXCEPT ![m_newSessionID'] = b]
     /\ phase' = [ph EXCEPT ![m_newSessionID'] = "pending"]
  \/ /\ m_newSessionID = MaxSession
     /\ phase' = ph
     /\ UNCHANGED <<m_newSessionID, block>>

handle_accept_PostAccept ==
  /\ Up
  /\ ioPc = "post"
  /\ PostAccept(phase)
  /\ ioPc' = "idle"
  /\ UNCHANGED <<clientVars, stale, recvVars, comVars, listVars, ioSession,
                 m_isUsingPreCommanders, tickVars, chatVars, crashed>>

(* A failed accept posts the next one and drops its session, which never   *)
(* had a read pending.                                                     *)
handle_accept_Error ==
  /\ Up
  /\ ioPc = "idle"
  /\ \E s \in Session :
       /\ phase[s] = "pending"
       /\ PostAccept([phase EXCEPT ![s] = "destroyed"])
  /\ UNCHANGED <<clientVars, stale, recvVars, comVars, listVars, ioVars,
                 tickVars, chatVars, crashed>>

(* Io thread: handle_read(error) for each session.                         *)

(* Mutant: a read with data takes the path of a failed one too.            *)
handle_read_FallsThrough(s) ==
  /\ Up
  /\ ioPc = "idle"
  /\ reading[s] /\ net[s] # <<>>
  /\ inbox' = [inbox EXCEPT ![s] = Append(@, Head(net[s]))]
  /\ net' = [net EXCEPT ![s] = Tail(@)]
  /\ m_isDisconnected' = [m_isDisconnected EXCEPT ![s] = TRUE]
  /\ UNCHANGED <<clientVars, memVars, reading, comVars, listVars, ioVars,
                 tickVars, chatVars, crashed>>

handle_read(s) ==
  /\ Up
  /\ ioPc = "idle"
  /\ reading[s] /\ net[s] # <<>>
  /\ inbox' = [inbox EXCEPT ![s] = Append(@, Head(net[s]))]
  /\ net' = [net EXCEPT ![s] = Tail(@)]
  /\ UNCHANGED <<clientVars, memVars, reading, m_isDisconnected, comVars,
                 listVars, ioVars, tickVars, chatVars, crashed>>

handle_read_Error(s) ==
  /\ Up
  /\ ioPc = "idle"
  /\ reading[s] /\ net[s] = <<>> /\ client[s] = "gone"
  /\ reading' = [reading EXCEPT ![s] = FALSE]
  /\ m_isDisconnected' = [m_isDisconnected EXCEPT ![s] = TRUE]
  /\ UNCHANGED <<clientVars, memVars, net, inbox, comVars, listVars, ioVars,
                 tickVars, chatVars, crashed>>

(* The cancelled read of a destroyed session: its handler marks whatever   *)
(* session lives in that block now.                                        *)
handle_read_Aborted(s) ==
  /\ Up
  /\ ioPc = "idle"
  /\ s \in stale
  /\ stale' = stale \ {s}
  /\ m_isDisconnected' =
       [t \in Session |-> \/ m_isDisconnected[t]
                          \/ phase[t] \in {"pending", "open"} /\ block[t] = block[s]]
  /\ UNCHANGED <<clientVars, m_newSessionID, phase, block, net, inbox, reading,
                 comVars, listVars, ioVars, tickVars, chatVars, crashed>>

(* The read had completed with the next k packets before it could be       *)
(* cancelled, and a session that waits for its client lives in that block: *)
(* the packets, still in m_receiveBuffer, go to that session.  PostReceive *)
(* then fails, as its socket is not connected, so that the handler of s    *)
(* runs again, with an error.                                              *)
handle_read_Reused(s) ==
  /\ Up
  /\ ioPc = "idle"
  /\ s \in stale
  /\ \E t \in Session, k \in 1..Len(net[s]) :
       /\ phase[t] = "pending" /\ block[t] = block[s]
       /\ inbox' = [inbox EXCEPT ![t] = @ \o SubSeq(net[s], 1, k)]
  /\ net' = [net EXCEPT ![s] = <<>>]
  /\ UNCHANGED <<clientVars, memVars, reading, m_isDisconnected, comVars,
                 listVars, ioVars, tickVars, chatVars, crashed>>

(* Or no session lives there, and the handler copies to buffers that were  *)
(* deleted; or one that has its client, so that PostReceive has zeroed     *)
(* m_receiveBuffer, and what is copied (headers of size 0, or bytes of a   *)
(* read that is pending) is no packet.  Nothing is claimed from there on.  *)
handle_read_Freed(s) ==
  /\ Up
  /\ ioPc = "idle"
  /\ s \in stale /\ net[s] # <<>>
  /\ ~\E t \in Session : phase[t] = "pending" /\ block[t] = block[s]
  /\ crashed' = "freed session"
  /\ UNCHANGED <<clientVars, memVars, recvVars, comVars, listVars, ioVars,
                 tickVars, chatVars>>

-------------------------------------------------------------------------------
(* Logic thread: PreUpdateCommanders.                                      *)

(* The flag is taken: the waiting commanders move to the next frame.       *)
PreUpdateCommanders_FlagTaken ==
  /\ Up
  /\ logicPc = "pre"
  /\ m_isUsingPreCommanders
  /\ logicPc' = "process"
  /\ UNCHANGED <<clientVars, memVars, recvVars, comVars, listVars, ioVars, index,
                 batch, chatVars, crashed>>

(* Mutant: the waiting commanders are copied and not cleared.              *)
PreUpdateCommanders_NotCleared ==
  /\ Up
  /\ logicPc = "pre"
  /\ ~m_isUsingPreCommanders
  /\ m_commanders' = m_commanders \o m_preCommanders
  /\ joinedAt' = [s \in Session |-> IF s \in ToSet(m_preCommanders)
                                      THEN Len(chat) ELSE joinedAt[s]]
  /\ logicPc' = "process"
  /\ UNCHANGED <<clientVars, memVars, recvVars, comVars, m_preCommanders,
                 m_readyDieCommanders, ioVars, index, batch, chat, heard, crashed>>

(* Mutant: the test for waiting commanders is off by one.                  *)
PreUpdateCommanders_NeedsTwo ==
  /\ Up
  /\ logicPc = "pre"
  /\ ~m_isUsingPreCommanders
  /\ IF Len(m_preCommanders) > 1
       THEN /\ m_commanders' = m_commanders \o m_preCommanders
            /\ m_preCommanders' = <<>>
       ELSE UNCHANGED <<m_commanders, m_preCommanders>>
  /\ joinedAt' = [s \in Session |-> IF s \in ToSet(m_preCommanders)
                                      THEN Len(chat) ELSE joinedAt[s]]
  /\ logicPc' = "process"
  /\ UNCHANGED <<clientVars, memVars, recvVars, comVars, m_readyDieCommanders,
                 ioVars, index, batch, chat, heard, crashed>>

PreUpdateCommanders ==
  /\ Up
  /\ logicPc = "pre"
  /\ ~m_isUsingPreCommanders
  /\ m_commanders' = m_commanders \o m_preCommanders
  /\ m_preCommanders' = <<>>
  /\ joinedAt' = [s \in Session |-> IF s \in ToSet(m_preCommanders)
                                      THEN Len(chat) ELSE joinedAt[s]]
  /\ logicPc' = "process"
  /\ UNCHANGED <<clientVars, memVars, recvVars, comVars, m_readyDieCommanders,
                 ioVars, index, batch, chat, heard, crashed>>

-------------------------------------------------------------------------------
(* Logic thread: ProcessPacket, for each commander in turn.                *)

AtCommander(pc) == Up /\ logicPc = pc /\ index <= Len(m_commanders)

PastLast(pc) == Up /\ logicPc = pc /\ index > Len(m_commanders)

Current == m_commanders[index]

(* JSession::ProcessPacket takes what has arrived by now.                  *)
ProcessPacket_Take ==
  /\ AtCommander("process")
  /\ batch' = Len(inbox[Current])
  /\ logicPc' = "packets"
  /\ UNCHANGED <<clientVars, memVars, recvVars, comVars, listVars, ioVars, index,
                 chatVars, crashed>>

(* Mutant: the loop goes on with what arrives while it runs.               *)
NextPacket_NoBound(command) ==
  /\ AtCommander("packets")
  /\ inbox[Current] # <<>>
  /\ Head(inbox[Current]) = command
  /\ inbox' = [inbox EXCEPT ![Current] = Tail(@)]
  /\ batch' = batch - 1
  /\ UNCHANGED <<clientVars, memVars, net, reading, m_isDisconnected, listVars,
                 ioVars, logicPc, index>>

NextPacket(command) ==
  /\ AtCommander("packets")
  /\ batch > 0
  /\ Head(inbox[Current]) = command
  /\ inbox' = [inbox EXCEPT ![Current] = Tail(@)]
  /\ batch' = batch - 1
  /\ UNCHANGED <<clientVars, memVars, net, reading, m_isDisconnected, listVars,
                 ioVars, logicPc, index>>

OnPacket_LOGIN ==
  /\ NextPacket("LOGIN")
  /\ hasChar' = [hasChar EXCEPT ![Current] = TRUE]
  /\ UNCHANGED <<m_isLogout, chatVars, crashed>>

OnPacket_LOGOUT ==
  /\ NextPacket("LOGOUT")
  /\ m_isLogout' = [m_isLogout EXCEPT ![Current] = TRUE]
  /\ UNCHANGED <<hasChar, chatVars, crashed>>

(* Mutant: the speaker is left out.                                        *)
BroadCastToCommander_NotSpeaker(speaker) ==
  /\ chat' = Append(chat, speaker)
  /\ heard' = [s \in Session |-> IF s \in ToSet(m_commanders) \ {speaker}
                                   THEN Append(heard[s], speaker) ELSE heard[s]]

(* BroadCastToCommander: PostSend to every commander, the speaker too.     *)
BroadCastToCommander(speaker) ==
  /\ chat' = Append(chat, speaker)
  /\ heard' = [s \in Session |-> IF s \in ToSet(m_commanders)
                                   THEN Append(heard[s], speaker) ELSE heard[s]]

OnPacket_CHAT ==
  /\ NextPacket("CHAT")
  /\ BroadCastToCommander(Current)
  /\ UNCHANGED <<comVars, joinedAt, crashed>>

(* m_char->ReqMove(dest)                                                   *)
OnPacket_MOVE ==
  /\ NextPacket("MOVE")
  /\ crashed' = IF hasChar[Current] THEN "no" ELSE "no character"
  /\ UNCHANGED <<comVars, chatVars>>

ProcessPacket_Next ==
  /\ AtCommander("packets")
  /\ batch = 0
  /\ index' = index + 1
  /\ logicPc' = "process"
  /\ UNCHANGED <<clientVars, memVars, recvVars, comVars, listVars, ioVars, batch,
                 chatVars, crashed>>

ProcessPacket_End ==
  /\ PastLast("process")
  /\ index' = 1
  /\ logicPc' = "update"
  /\ UNCHANGED <<clientVars, memVars, recvVars, comVars, listVars, ioVars, batch,
                 chatVars, crashed>>

-------------------------------------------------------------------------------
(* Logic thread: UpdateCommanders.                                         *)

(* Mutant: only the logout counts.                                         *)
Leaves_LogoutOnly(s) == m_isLogout[s]

Leaves(s) == m_isDisconnected[s] \/ m_isLogout[s]

(* Mutant: the loop advances past the element after the erased one.        *)
UpdateCommanders_Remove_SkipsNext ==
  /\ AtCommander("update")
  /\ Leaves(Current)
  /\ m_isLogout' = [m_isLogout EXCEPT ![Current] = TRUE]
  /\ m_readyDieCommanders' = Append(m_readyDieCommanders, Current)
  /\ m_commanders' = RemoveAt(m_commanders, index)
  /\ index' = index + 1
  /\ UNCHANGED <<clientVars, memVars, recvVars, hasChar, m_preCommanders, ioVars,
                 logicPc, batch, chatVars, crashed>>

(* Close(), move to m_readyDieCommanders, erase.                           *)
UpdateCommanders_Remove ==
  /\ AtCommander("update")
  /\ Leaves(Current)
  /\ m_isLogout' = [m_isLogout EXCEPT ![Current] = TRUE]
  /\ m_readyDieCommanders' = Append(m_readyDieCommanders, Current)
  /\ m_commanders' = RemoveAt(m_commanders, index)
  /\ UNCHANGED <<clientVars, memVars, recvVars, hasChar, m_preCommanders, ioVars,
                 tickVars, chatVars, crashed>>

(* commander->Update(tick): m_char->Update(tick), without a null check.    *)
UpdateCommanders_Update ==
  /\ AtCommander("update")
  /\ ~Leaves(Current)
  /\ crashed' = IF hasChar[Current] THEN "no" ELSE "no character"
  /\ index' = index + 1
  /\ UNCHANGED <<clientVars, memVars, recvVars, comVars, listVars, ioVars,
                 logicPc, batch, chatVars>>

UpdateCommanders_Reap ==
  /\ PastLast("update")
  /\ index' = 1
  /\ logicPc' = "reap"
  /\ UNCHANGED <<clientVars, memVars, recvVars, comVars, listVars, ioVars, batch,
                 chatVars, crashed>>

(* The shared_ptrs that hold a commander.                                  *)
use_count(s) ==
  Quantify(DOMAIN m_preCommanders, LAMBDA i : m_preCommanders[i] = s)
    + Quantify(DOMAIN m_commanders, LAMBDA i : m_commanders[i] = s)
    + Quantify(DOMAIN m_readyDieCommanders, LAMBDA i : m_readyDieCommanders[i] = s)

(* Erasing the last reference destroys the commander and its session.  The *)
(* read that is pending, if any, is cancelled.  With another reference the *)
(* loop would log an error and test the same commander again, for ever.    *)
UpdateCommanders_Erase ==
  /\ Up
  /\ logicPc = "reap"
  /\ m_readyDieCommanders # <<>>
  /\ LET s == Head(m_readyDieCommanders) IN
       /\ m_isLogout[s] /\ use_count(s) = 1
       /\ phase' = [phase EXCEPT ![s] = "destroyed"]
       /\ stale' = IF reading[s] THEN stale \cup {s} ELSE stale
       /\ reading' = [reading EXCEPT ![s] = FALSE]
       /\ inbox' = [inbox EXCEPT ![s] = <<>>]
  /\ m_readyDieCommanders' = Tail(m_readyDieCommanders)
  /\ UNCHANGED <<clientVars, m_newSessionID, block, net, m_isDisconnected,
                 comVars, m_preCommanders, m_commanders, ioVars, tickVars,
                 chatVars, crashed>>

UpdateCommanders_End ==
  /\ Up
  /\ logicPc = "reap"
  /\ m_readyDieCommanders = <<>>
  /\ logicPc' = "view"
  /\ UNCHANGED <<clientVars, memVars, recvVars, comVars, listVars, ioVars, index,
                 batch, chatVars, crashed>>

(* UpdateView: every commander looks at the position of every other one.   *)
UpdateView ==
  /\ Up
  /\ logicPc = "view"
  /\ crashed' = IF \E s, t \in ToSet(m_commanders) : s # t /\ ~hasChar[t]
                  THEN "no character" ELSE "no"
  /\ logicPc' = "pre"
  /\ UNCHANGED <<clientVars, memVars, recvVars, comVars, listVars, ioVars, index,
                 batch, chatVars>>

-------------------------------------------------------------------------------
Accept ==
  \/ handle_accept_PostReceive
  \/ handle_accept_Acquire
  \/ handle_accept_Push
  \/ handle_accept_PostAccept
  \/ handle_accept_Error

Read(s) ==
  \/ handle_read(s)
  \/ handle_read_Error(s)
  \/ handle_read_Aborted(s)
  \/ handle_read_Reused(s)
  \/ handle_read_Freed(s)

Tick ==
  \/ PreUpdateCommanders_FlagTaken
  \/ PreUpdateCommanders
  \/ ProcessPacket_Take
  \/ OnPacket_LOGIN
  \/ OnPacket_LOGOUT
  \/ OnPacket_CHAT
  \/ OnPacket_MOVE
  \/ ProcessPacket_Next
  \/ ProcessPacket_End
  \/ UpdateCommanders_Remove
  \/ UpdateCommanders_Update
  \/ UpdateCommanders_Reap
  \/ UpdateCommanders_Erase
  \/ UpdateCommanders_End
  \/ UpdateView

Next ==
  \/ Client
  \/ Accept
  \/ \E s \in Session : Read(s)
  \/ Tick

(* The logic thread ticks for ever; the io thread finishes the handler it  *)
(* is in and runs every handler that is ready (io_context is a queue).     *)
Fairness ==
  /\ WF_vars(Tick)
  /\ WF_vars(handle_accept_Acquire)
  /\ WF_vars(handle_accept_Push)
  /\ WF_vars(handle_accept_PostAccept)
  /\ \A s \in Session : WF_vars(Read(s))

Spec == Init /\ [][Next]_vars /\ Fairness
-------------------------------------------------------------------------------
(* The commanders of the lists, in the order the server serves them.       *)
Waiting == m_commanders \o m_preCommanders

(* The commander of an open session is in exactly one of the three lists,  *)
(* once, from handle_accept on; no other commander is in any.  So          *)
(* use_count() is 1 in the reaping loop, which would never end otherwise.  *)
OnePlace ==
  \A s \in Session :
    use_count(s) =
      IF phase[s] = "open" /\ ~(ioPc \in {"spin", "push"} /\ ioSession = s)
        THEN 1 ELSE 0

(* Commanders are served in the order their clients were accepted.         *)
AcceptOrder == \A i, j \in 1..Len(Waiting) : i < j => Waiting[i] < Waiting[j]

(* Everybody hears the same conversation: what a commander was sent is     *)
(* the chat from the tick it joined, without gaps or repetitions, and it   *)
(* is up to date for as long as the commander is served.                   *)
SameConversation ==
  \A s \in Session :
    /\ heard[s] = SubSeq(chat, joinedAt[s] + 1, joinedAt[s] + Len(heard[s]))
    /\ s \in ToSet(m_commanders) => joinedAt[s] + Len(heard[s]) = Len(chat)

(* When UpdateView asks for positions every commander has a character:     *)
(* UpdateCommanders either updated it, which needs one, or removed it.     *)
ViewsHaveCharacters ==
  logicPc = "view" => \A s \in ToSet(m_commanders) : hasChar[s]

(* A session whose client is still there is marked disconnected only if it *)
(* lives in the memory of a session that was destroyed before.             *)
SpuriousNeedsReuse ==
  \A s \in Session :
    m_isDisconnected[s] /\ client[s] # "gone" =>
      \E t \in 1..s - 1 : phase[t] = "destroyed" /\ block[t] = block[s]

(* The list of a loop does not change under it: while the tick goes over   *)
(* m_commanders to process packets, commanders neither join nor leave.     *)
StableWhileProcessing ==
  [][(logicPc \in {"process", "packets"}) => (m_commanders' = m_commanders)]_vars

(* A client that handle_accept lets in is served in the end, however often *)
(* PreUpdateCommanders finds the flag taken.                               *)
AcceptedIsServed ==
  \A s \in Session :
    (ioPc = "spin" /\ ioSession = s) ~> (~Up \/ s \in ToSet(m_commanders))

(* A client that left is cleaned up in the end.                            *)
LeaverIsDestroyed ==
  \A s \in Session :
    (phase[s] = "open" /\ client[s] = "gone") ~> (~Up \/ phase[s] = "destroyed")

(* test_replay.cpp:125: a client whose LOGIN arrives some ticks after it   *)
(* was accepted is served (LOGIN_ACK is expected), not fatal.              *)
LateLoginIsServed == crashed # "no character"
===============================================================================
