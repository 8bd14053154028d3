----------------------------- MODULE JSessionSend -----------------------------
(***************************************************************************)
(* The sending half of JSession (JNetLib/JSession.cpp).                    *)
(*                                                                         *)
(* Two threads share m_sendDataQueue.  The logic thread calls              *)
(* PostSend(false, ...): it pushes under m_mutexSendQueue and, if the      *)
(* queue was empty, starts an async_write after releasing the mutex.  The  *)
(* io thread runs handle_write when a write completes: it pops under the   *)
(* mutex and, if a packet is left, reads front() WITHOUT the mutex and     *)
(* starts the next async_write (PostSend(true, ...)).  Nothing else says   *)
(* which thread may write: the length of the queue is the only protocol.   *)
(*                                                                         *)
(* One action is one critical section or one unlocked step of a thread.    *)
(* The read of front() may overlap a push.  In the build's std::queue (a   *)
(* std::deque) such a push leaves the front alone unless it has to         *)
(* reallocate the deque's block map; then the read may see freed memory.   *)
(*                                                                         *)
(* The logic thread also destroys the session, in the tick in which its    *)
(* commander logged out or was found disconnected, whatever the io thread  *)
(* is doing with it: its handlers hold a raw pointer.  ~JSession takes two *)
(* steps: its body empties m_sendDataQueue without the mutex, while the    *)
(* socket is still open and may be writing; then the members go, m_socket  *)
(* last.  "fate" records what became of the session; nothing can be said   *)
(* once its memory was misused.                                            *)
(***************************************************************************)
EXTENDS Naturals, Sequences

CONSTANTS
  Packet,               \* packets (their content does not matter here)
  MaxSend,              \* bound: number of packets the logic thread sends
  InitialMapSize        \* blocks in a deque's first block map (8 in the build)

ASSUME MaxSendAssumption == MaxSend \in Nat
ASSUME MapSizeAssumption == InitialMapSize \in Nat \ {0}

VARIABLES
  m_sendDataQueue,      \* packets pushed and not yet popped
  mapSize,              \* blocks in the deque's block map
  logicPc,              \* "push", "check": in PostSend's critical section;
                        \* "write": past it, about to async_write
  data,                 \* the packet the logic thread is sending
  ioPc,                 \* "check": in handle_write's critical section;
                        \* "front": past it, about to read front()
  writes,               \* async_writes the socket has not finished
  completions,          \* results whose handle_write has not run yet
  m_isDisconnected,
  broken,               \* the peer is gone: every transfer fails from now on
  m_isLogout,           \* the commander of this session processed a LOGOUT
  fate,                 \* "live"; "torn": front() was read while its block map
                        \* was replaced; "destroying": the body of ~JSession
                        \* ran; "freed": the socket is closed, the memory is
                        \* returned; "stale": the socket wrote freed bytes;
                        \* "touched": a handler used the destroyed session
  dropped,              \* history: the packets ~JSession found in the queue
  sent,                 \* history: every packet pushed, in order
  wire                  \* history: every packet transferred whole, in order

vars == <<m_sendDataQueue, mapSize, logicPc, data, ioPc, writes, completions,
          m_isDisconnected, m_isLogout, broken, fate, dropped, sent, wire>>

fateVars  == <<m_isLogout, fate, dropped>>
logicVars == <<mapSize, logicPc, data, sent>>
netVars   == <<writes, completions, broken, wire>>

TypeOK ==
  /\ m_sendDataQueue \in Seq(Packet)
  /\ mapSize \in Nat
  /\ logicPc \in {"idle", "push", "check", "write"}
  /\ data \in Packet
  /\ ioPc \in {"idle", "check", "front"}
  /\ writes \in Seq(Packet)
  /\ completions \in Seq({"ok", "error"})
  /\ m_isDisconnected \in BOOLEAN
  /\ broken \in BOOLEAN
  /\ m_isLogout \in BOOLEAN
  /\ fate \in {"live", "torn", "destroying", "freed", "stale", "touched"}
  /\ dropped \in Seq(Packet)
  /\ sent \in Seq(Packet)
  /\ wire \in Seq(Packet)

Init ==
  /\ m_sendDataQueue = <<>>
  /\ mapSize = 0
  /\ logicPc = "idle"
  /\ data \in Packet
  /\ ioPc = "idle"
  /\ writes = <<>>
  /\ completions = <<>>
  /\ m_isDisconnected = FALSE
  /\ broken = FALSE
  /\ m_isLogout = FALSE
  /\ fate = "live"
  /\ dropped = <<>>
  /\ sent = <<>>
  /\ wire = <<>>

-------------------------------------------------------------------------------
(* Mutant: nobody locks.                                                   *)
MutexFree_NoLock == TRUE

(* m_mutexSendQueue is held inside either critical section.                *)
MutexFree == logicPc \notin {"push", "check"} /\ ioPc # "check"

(* Mutants: PostSend always writes; PostSend tests !empty().               *)
QueueBusy_Never     == FALSE
QueueBusy_OffByOne  == Len(m_sendDataQueue) > 0

(* PostSend's size() > 1: a write is under way already.                    *)
QueueBusy == Len(m_sendDataQueue) > 1

(* The socket has a write to finish or a result to report.                 *)
SocketDrives == writes # <<>> \/ completions # <<>>

(* std::deque::push_back replaces the block map when it is full.           *)
PushGrowsMap == Len(m_sendDataQueue) + 1 >= mapSize

GrownMap == IF mapSize = 0 THEN InitialMapSize ELSE 2 * mapSize

-------------------------------------------------------------------------------
(* Logic thread: PostSend(false, size, data).                              *)

(* lock_guard lock(m_mutexSendQueue)                                       *)
PostSend_Lock ==
  /\ fate = "live"
  /\ logicPc = "idle"
  /\ Len(sent) < MaxSend
  /\ MutexFree
  /\ data' \in Packet
  /\ logicPc' = "push"
  /\ UNCHANGED <<m_sendDataQueue, mapSize, ioPc, m_isDisconnected, fateVars,
                 sent, netVars>>

(* Mutant: a packet that finds the queue empty is written and not queued.  *)
PostSend_Push_OnlyIfBusy ==
  /\ fate = "live"
  /\ logicPc = "push"
  /\ m_sendDataQueue' = IF m_sendDataQueue = <<>> THEN <<>>
                        ELSE Append(m_sendDataQueue, data)
  /\ sent' = Append(sent, data)
  /\ logicPc' = "check"
  /\ UNCHANGED <<mapSize, data, ioPc, m_isDisconnected, fateVars, netVars>>

(* m_sendDataQueue.push(data)                                              *)
PostSend_Push ==
  /\ fate = "live"
  /\ logicPc = "push"
  /\ m_sendDataQueue' = Append(m_sendDataQueue, data)
  /\ sent' = Append(sent, data)
  /\ mapSize' = IF PushGrowsMap THEN GrownMap ELSE mapSize
  /\ logicPc' = "check"
  /\ UNCHANGED <<data, ioPc, m_isDisconnected, fateVars, netVars>>

(* if (size() > 1) return;  either way the mutex is released.              *)
PostSend_Check ==
  /\ fate = "live"
  /\ logicPc = "check"
  /\ logicPc' = IF QueueBusy THEN "idle" ELSE "write"
  /\ UNCHANGED <<m_sendDataQueue, mapSize, data, ioPc, m_isDisconnected, fateVars,
                 sent, netVars>>

(* async_write(m_socket, data)                                             *)
PostSend_Write ==
  /\ fate = "live"
  /\ logicPc = "write"
  /\ writes' = Append(writes, data)
  /\ logicPc' = "idle"
  /\ UNCHANGED <<m_sendDataQueue, mapSize, data, ioPc, completions,
                 m_isDisconnected, broken, fateVars, sent, wire>>

-------------------------------------------------------------------------------
(* Io thread: handle_write(error, bytes_transferred).                      *)

(* An error marks the session and returns: nothing is popped or written.   *)
handle_write_Error ==
  /\ fate = "live"
  /\ ioPc = "idle"
  /\ completions # <<>>
  /\ Head(completions) = "error"
  /\ completions' = Tail(completions)
  /\ m_isDisconnected' = TRUE
  /\ UNCHANGED <<m_sendDataQueue, logicVars, ioPc, writes, broken, fateVars, wire>>

(* lock_guard lock(m_mutexSendQueue); m_sendDataQueue.pop()                *)
handle_write_Pop ==
  /\ fate = "live"
  /\ ioPc = "idle"
  /\ completions # <<>>
  /\ Head(completions) = "ok"
  /\ MutexFree
  /\ completions' = Tail(completions)
  /\ m_sendDataQueue' = Tail(m_sendDataQueue)
  /\ ioPc' = "check"
  /\ UNCHANGED <<logicVars, writes, m_isDisconnected, broken, fateVars, wire>>

(* Mutant: handle_write copies PostSend's size() > 1.                      *)
handle_write_Check_SizeTest ==
  /\ fate = "live"
  /\ ioPc = "check"
  /\ ioPc' = IF Len(m_sendDataQueue) <= 1 THEN "idle" ELSE "front"
  /\ UNCHANGED <<m_sendDataQueue, logicVars, m_isDisconnected, fateVars, netVars>>

(* if (empty()) return;  either way the mutex is released.                 *)
handle_write_Check ==
  /\ fate = "live"
  /\ ioPc = "check"
  /\ ioPc' = IF m_sendDataQueue = <<>> THEN "idle" ELSE "front"
  /\ UNCHANGED <<m_sendDataQueue, logicVars, m_isDisconnected, fateVars, netVars>>

(* Mutant: back() instead of front().                                      *)
handle_write_Front_Back ==
  /\ fate = "live"
  /\ ioPc = "front"
  /\ writes' = Append(writes, m_sendDataQueue[Len(m_sendDataQueue)])
  /\ ioPc' = "idle"
  /\ UNCHANGED <<m_sendDataQueue, logicVars, completions, m_isDisconnected,
                 broken, fateVars, wire>>

(* Without the mutex: front(), then PostSend(true, front()).               *)
handle_write_Front ==
  /\ fate = "live"
  /\ ioPc = "front"
  /\ writes' = Append(writes, Head(m_sendDataQueue))
  /\ ioPc' = "idle"
  /\ UNCHANGED <<m_sendDataQueue, logicVars, completions, m_isDisconnected,
                 broken, fateVars, wire>>

(* The same read while a push is replacing the block map: undefined.       *)
handle_write_FrontTorn ==
  /\ fate = "live"
  /\ ioPc = "front"
  /\ logicPc = "push"
  /\ PushGrowsMap
  /\ fate' = "torn"
  /\ UNCHANGED <<m_sendDataQueue, logicVars, ioPc, m_isDisconnected, m_isLogout,
                 dropped, netVars>>

(* Mutant: a failed read is only logged.                                   *)
handle_read_Error_Logged ==
  /\ fate = "live"
  /\ ioPc = "idle"
  /\ broken
  /\ ~m_isDisconnected
  /\ UNCHANGED vars

(* handle_read(error): the pending read notices that the peer is gone.     *)
handle_read_Error ==
  /\ fate = "live"
  /\ ioPc = "idle"
  /\ broken
  /\ ~m_isDisconnected
  /\ m_isDisconnected' = TRUE
  /\ UNCHANGED <<m_sendDataQueue, logicVars, ioPc, fateVars, netVars>>

(* A handler that was running or that completes from ~JSession on: it      *)
(* marks freed memory, or uses a queue and a mutex that are going or gone. *)
handle_write_Freed ==
  /\ fate \in {"destroying", "freed"}
  /\ ioPc # "idle" \/ completions # <<>>
  /\ fate' = "touched"
  /\ UNCHANGED <<m_sendDataQueue, logicVars, ioPc, m_isDisconnected, m_isLogout,
                 dropped, netVars>>

-------------------------------------------------------------------------------
(* Logic thread: the life of the commander that owns the session.          *)

(* OnPacket(PKS_CS_LOGOUT) and its Close(): for this tick the commander    *)
(* stays, and is sent what others say.                                     *)
OnPacket_Logout ==
  /\ fate = "live"
  /\ logicPc = "idle"
  /\ ~m_isLogout
  /\ m_isLogout' = TRUE
  /\ UNCHANGED <<m_sendDataQueue, logicVars, ioPc, m_isDisconnected, fate,
                 dropped, netVars>>

(* UpdateCommanders drops the last reference to the commander, and the     *)
(* body of ~JSession pops all that is queued, without the mutex.  The      *)
(* packets die with it: also the one an async_write is still sending.      *)
UpdateCommanders_Destroy ==
  /\ fate = "live"
  /\ logicPc = "idle"
  /\ m_isLogout \/ m_isDisconnected
  /\ fate' = "destroying"
  /\ dropped' = m_sendDataQueue
  /\ m_sendDataQueue' = <<>>
  /\ UNCHANGED <<logicVars, ioPc, m_isDisconnected, m_isLogout, netVars>>

(* After the body the members go, m_socket last: it closes, and a write    *)
(* that was not finished is aborted.                                       *)
JSession_Freed ==
  /\ fate = "destroying"
  /\ fate' = "freed"
  /\ writes' = <<>>
  /\ completions' = completions \o [i \in 1..Len(writes) |-> "error"]
  /\ UNCHANGED <<m_sendDataQueue, logicVars, ioPc, m_isDisconnected, m_isLogout,
                 dropped, broken, wire>>

-------------------------------------------------------------------------------
(* The socket, as boost::asio shows it: writes finish in the order they    *)
(* were started, each with its whole buffer sent or with an error.         *)
TransferDone ==
  /\ fate = "live"
  /\ ~broken
  /\ writes # <<>>
  /\ wire' = Append(wire, Head(writes))
  /\ writes' = Tail(writes)
  /\ completions' = Append(completions, "ok")
  /\ UNCHANGED <<m_sendDataQueue, logicVars, ioPc, m_isDisconnected, broken,
                 fateVars>>

(* The write goes on between the body of ~JSession and the end of m_socket: *)
(* its buffer is freed.  (A packet that was broadcast may still be alive    *)
(* in another session's queue: then only its handler comes too late.)       *)
TransferFreed ==
  /\ fate = "destroying"
  /\ ~broken
  /\ writes # <<>>
  /\ fate' = "stale"
  /\ UNCHANGED <<m_sendDataQueue, logicVars, ioPc, m_isDisconnected, m_isLogout,
                 dropped, netVars>>

TransferFail ==
  /\ fate = "live"
  /\ broken
  /\ writes # <<>>
  /\ writes' = Tail(writes)
  /\ completions' = Append(completions, "error")
  /\ UNCHANGED <<m_sendDataQueue, logicVars, ioPc, m_isDisconnected, broken,
                 fateVars, wire>>

PeerGone ==
  /\ fate = "live"
  /\ ~broken
  /\ broken' = TRUE
  /\ UNCHANGED <<m_sendDataQueue, logicVars, ioPc, writes, completions,
                 m_isDisconnected, fateVars, wire>>

-------------------------------------------------------------------------------
Logic ==
  \/ PostSend_Lock
  \/ PostSend_Push
  \/ PostSend_Check
  \/ PostSend_Write
  \/ OnPacket_Logout
  \/ UpdateCommanders_Destroy
  \/ JSession_Freed

Io ==
  \/ handle_write_Error
  \/ handle_write_Pop
  \/ handle_write_Check
  \/ handle_write_Front
  \/ handle_write_FrontTorn
  \/ handle_write_Freed
  \/ handle_read_Error

Socket == TransferDone \/ TransferFreed \/ TransferFail \/ PeerGone

Next == Logic \/ Io \/ Socket

SafeSpec == Init /\ [][Next]_vars

(* A thread that is inside PostSend or has a handler to run goes on, every *)
(* tick UpdateCommanders looks at the session (between two PostSends: the  *)
(* fairness is strong), and the socket finishes what it started.  Nobody   *)
(* has to send or to log out, and the peer never has to go away.           *)
Fairness ==
  /\ WF_vars(PostSend_Push \/ PostSend_Check \/ PostSend_Write)
  /\ SF_vars(UpdateCommanders_Destroy)
  /\ WF_vars(JSession_Freed)
  /\ WF_vars(Io)
  /\ WF_vars(TransferDone)
  /\ WF_vars(TransferFail)

Spec == SafeSpec /\ Fairness

-------------------------------------------------------------------------------
(* Who is going to make the queue move: the logic thread on its way to a   *)
(* write, the io thread on its way to the next one, or the socket with a   *)
(* write to finish or a result to report.                                  *)
LogicDrives == logicPc = "write" \/ (logicPc = "check" /\ ~QueueBusy)
IoDrives    == ioPc # "idle"

(* The two threads never have two writes under way on one socket: asio     *)
(* forbids it (their bytes could interleave), and only the length of the   *)
(* queue (PostSend's size() > 1, handle_write's empty()) prevents it.      *)
OneWriteAtATime ==
  /\ Len(writes) + Len(completions) <= 1
  /\ LogicDrives => ~IoDrives /\ ~SocketDrives
  /\ IoDrives => ~SocketDrives

(* While the session lives, the bytes of a write in flight belong to the   *)
(* packet at the front of the queue: that shared_ptr is the only thing     *)
(* that keeps them alive, since async_write was given the raw pointer.     *)
(* (~JSession empties the queue under a pending write: from there on the   *)
(* code does not keep this promise, see TransferFreed.)                    *)
WriteBufferOwned ==
  fate = "live" =>
    \A i \in 1..Len(writes) :
      m_sendDataQueue # <<>> /\ writes[i] = Head(m_sendDataQueue)

(* No lost hand-over: a packet in the queue always has someone who will    *)
(* move it on, unless the session is marked disconnected.  (The logic      *)
(* thread sees a non-empty queue just when the io thread sees it empty     *)
(* would leave the queue stuck for ever.)                                  *)
NeverStalled ==
  m_sendDataQueue # <<>> =>
    LogicDrives \/ IoDrives \/ SocketDrives \/ m_isDisconnected

(* A write failed, and its error waits for handle_write or was handled.    *)
WriteFailed ==
  /\ fate = "live"
  /\ m_sendDataQueue # <<>>
  /\ ~LogicDrives /\ ~IoDrives
  /\ writes = <<>>
  /\ completions = <<>> \/ Head(completions) = "error"

(* After a failed write nothing is written to the socket ever again:       *)
(* handle_write leaves the failed packet at the front of the queue, and    *)
(* every later PostSend finds it there and only queues behind it.          *)
NoWriteAfterFailure ==
  [][WriteFailed => writes' = writes /\ (fate' = "live" => WriteFailed')]_vars

(* JCommander_Packet.cpp:69-71 has it that a commander can be destroyed at *)
(* once.  For the write side that is so only when everything sent was      *)
(* written: with nothing queued no write and no result is under way, so    *)
(* that freed bytes are written, or a handler comes back to a destroyed    *)
(* session, only if ~JSession dropped a packet (or ran while handle_write  *)
(* was leaving its critical section).                                      *)
DrainedIsSafeToDestroy ==
  /\ fate = "live" /\ m_sendDataQueue = <<>> => ~SocketDrives /\ ioPc # "front"
  /\ fate = "stale" => dropped # <<>>
  /\ fate = "touched" => dropped # <<>> \/ ioPc = "check"

(* A peer that went away is noticed by the failing read or write, and its  *)
(* session ends, and with it the queue that a failed write leaves growing. *)
PeerLossEndsSession == broken ~> (fate # "live")

(* The session is an ordered stream: packets go out once each, in the      *)
(* order PostSend was called, and all of them do unless the connection     *)
(* breaks.                                                                 *)
Stream == INSTANCE OrderedStream
            WITH accepted <- sent, delivered <- wire, broken <- broken \/ fate # "live"

StreamSpec == Stream!Spec

-------------------------------------------------------------------------------
(* The inductive invariant, in parts.                                      *)

(* The two critical sections exclude each other.                           *)
MutualExclusion == logicPc \in {"push", "check"} => ioPc # "check"

(* The queue is the part of "sent" that was not popped ...                 *)
QueueIsTailOfSent ==
  /\ Len(m_sendDataQueue) <= Len(sent)
  /\ \A i \in 1..Len(m_sendDataQueue) :
       m_sendDataQueue[i] = sent[Len(sent) - Len(m_sendDataQueue) + i]

(* ... and the wire has the part that was, and the front once its transfer *)
(* succeeded and until handle_write pops it; ~JSession drops the rest.     *)
WireIsHeadOfSent ==
  /\ Len(wire) = Len(sent) - Len(m_sendDataQueue) - Len(dropped)
       + (IF completions # <<>> /\ Head(completions) = "ok" THEN 1 ELSE 0)
  /\ \A i \in 1..Len(wire) : i <= Len(sent) /\ wire[i] = sent[i]

(* Whoever drives the queue has a packet at the front of it.               *)
DriverHasFront ==
  /\ (writes # <<>> \/ completions # <<>> \/ ioPc = "front") =>
       m_sendDataQueue # <<>> \/ dropped # <<>>
  /\ logicPc = "check" => m_sendDataQueue # <<>>
  /\ logicPc \in {"check", "write"} /\ Len(m_sendDataQueue) <= 1 =>
       m_sendDataQueue = <<data>>
  /\ logicPc = "write" => Len(m_sendDataQueue) = 1

(* ~JSession leaves the queue empty, and no packet is dropped before it.   *)
OnlyDestroyDrops ==
  IF fate \in {"live", "torn"} THEN dropped = <<>>
  ELSE m_sendDataQueue = <<>> /\ logicPc = "idle"

SendInv ==
  /\ TypeOK
  /\ MutualExclusion
  /\ OneWriteAtATime
  /\ WriteBufferOwned
  /\ NeverStalled
  /\ DriverHasFront
  /\ QueueIsTailOfSent
  /\ WireIsHeadOfSent
  /\ OnlyDestroyDrops
  /\ DrainedIsSafeToDestroy
===============================================================================
