----------------------------- MODULE JServerProofs -----------------------------
(***************************************************************************)
(* Proofs about JServer, for every bound on the sessions and on what the   *)
(* clients say, every kind of packet and every set of memory blocks.       *)
(***************************************************************************)
EXTENDS JServer, SequenceFacts, SequenceTheorems, FiniteSetTheorems, TLAPS

-------------------------------------------------------------------------------
(* The parts of the inductive invariant.                                   *)

(* Ids are given in order; only the newest session waits for its client,   *)
(* and it is the one handle_accept deals with.                             *)
Ids ==
  /\ \A s \in Session : phase[s] = "none" <=> s > m_newSessionID
  /\ \A s \in Session : phase[s] = "pending" => s = m_newSessionID /\ ioPc = "idle"
  /\ ioPc # "idle" => ioSession = m_newSessionID
  /\ ioPc \in {"spin", "push"} => phase[ioSession] = "open"

(* What a session that has no client, or none yet, cannot have.            *)
Fresh ==
  \A s \in Session :
    /\ phase[s] \in {"none", "pending"} => client[s] = "none"
    /\ phase[s] = "none" => ~m_isDisconnected[s]
    /\ reading[s] => phase[s] = "open"
    /\ s \in stale => phase[s] = "destroyed"

(* The commander of s exists and is in a list.                             *)
Listed(s) == phase[s] = "open" /\ ~(ioPc \in {"spin", "push"} /\ ioSession = s)

Increasing(q) == \A i, j \in 1..Len(q) : i < j => q[i] < q[j]

(* The lists hold the listed sessions: none twice in one list, none in two.*)
Lists ==
  /\ Increasing(m_commanders)
  /\ Increasing(m_preCommanders)
  /\ \A i \in 1..Len(m_commanders), j \in 1..Len(m_preCommanders) :
       m_commanders[i] < m_preCommanders[j]
  /\ \A i, j \in 1..Len(m_readyDieCommanders) :
       m_readyDieCommanders[i] = m_readyDieCommanders[j] => i = j
  /\ \A s \in ToSet(m_readyDieCommanders) :
       s \notin ToSet(m_commanders) /\ s \notin ToSet(m_preCommanders)
  /\ \A s \in Session :
       Listed(s) <=> \/ s \in ToSet(m_commanders)
                     \/ s \in ToSet(m_preCommanders)
                     \/ s \in ToSet(m_readyDieCommanders)

(* Where the tick is in the lists.                                         *)
Loops ==
  /\ index <= Len(m_commanders) + 1
  /\ logicPc \notin {"process", "packets", "update"} => index = 1
  /\ logicPc = "packets" =>
       index <= Len(m_commanders) /\ batch <= Len(inbox[m_commanders[index]])
  /\ logicPc \notin {"update", "reap"} => m_readyDieCommanders = <<>>
  /\ \A s \in ToSet(m_readyDieCommanders) : m_isLogout[s]

(* The commanders that UpdateCommanders has passed and kept were updated.  *)
Characters ==
  /\ Up /\ logicPc = "update" => \A i \in 1..index - 1 : hasChar[m_commanders[i]]
  /\ logicPc \in {"reap", "view"} =>
       \A i \in 1..Len(m_commanders) : hasChar[m_commanders[i]]

(* No session is made in the block of one that lives.                      *)
Blocks ==
  \A s, t \in Session :
    s < t /\ phase[s] \in {"pending", "open"} /\ phase[t] # "none" =>
      block[s] # block[t]

(* A session hears what is said while it is in m_commanders.               *)
Conversation ==
  \A s \in Session :
    /\ joinedAt[s] + Len(heard[s]) <= Len(chat)
    /\ s \in ToSet(m_preCommanders) \/ (~Listed(s) /\ phase[s] # "destroyed") =>
         heard[s] = <<>>
-------------------------------------------------------------------------------
(* Which steps change which variables.                                     *)

AnyReused == \E s \in Session : handle_read_Reused(s)

AnyPacket == OnPacket_LOGIN \/ OnPacket_LOGOUT \/ OnPacket_CHAT \/ OnPacket_MOVE

(* Each variable is changed by these actions and left alone by all others. *)
LEMMA Frames ==
  ASSUME Next
  PROVE  /\ Client \/ handle_accept_PostReceive \/ UNCHANGED clientVars
         /\ handle_accept_PostAccept \/ handle_accept_Error
              \/ UNCHANGED <<m_newSessionID, block>>
         /\ handle_accept_PostReceive \/ handle_accept_PostAccept
              \/ handle_accept_Error \/ UpdateCommanders_Erase \/ UNCHANGED phase
         /\ Client \/ (\E s \in Session : handle_read(s)) \/ AnyReused \/ UNCHANGED net
         /\ AnyPacket \/ AnyReused \/ (\E s \in Session : handle_read(s))
              \/ UpdateCommanders_Erase \/ UNCHANGED inbox
         /\ handle_accept_PostReceive \/ (\E s \in Session : handle_read_Error(s))
              \/ UpdateCommanders_Erase \/ UNCHANGED reading
         /\ (\E s \in Session : handle_read_Error(s))
              \/ (\E s \in Session : handle_read_Aborted(s))
              \/ UNCHANGED m_isDisconnected
         /\ (\E s \in Session : handle_read_Aborted(s)) \/ UpdateCommanders_Erase
              \/ UNCHANGED stale
         /\ OnPacket_LOGIN \/ UNCHANGED hasChar
         /\ OnPacket_LOGOUT \/ UpdateCommanders_Remove \/ UNCHANGED m_isLogout
         /\ handle_accept_Push \/ PreUpdateCommanders \/ UNCHANGED m_preCommanders
         /\ PreUpdateCommanders \/ UpdateCommanders_Remove \/ UNCHANGED m_commanders
         /\ UpdateCommanders_Remove \/ UpdateCommanders_Erase
              \/ UNCHANGED m_readyDieCommanders
         /\ handle_accept_Acquire \/ handle_accept_Push
              \/ UNCHANGED m_isUsingPreCommanders
         /\ handle_accept_PostReceive \/ handle_accept_Acquire \/ handle_accept_Push
              \/ handle_accept_PostAccept \/ UNCHANGED ioPc
         /\ handle_accept_PostReceive \/ UNCHANGED ioSession
         /\ PreUpdateCommanders_FlagTaken \/ PreUpdateCommanders
              \/ ProcessPacket_Take \/ ProcessPacket_Next \/ ProcessPacket_End
              \/ UpdateCommanders_Reap \/ UpdateCommanders_End \/ UpdateView
              \/ UNCHANGED logicPc
         /\ ProcessPacket_Next \/ ProcessPacket_End \/ UpdateCommanders_Update
              \/ UpdateCommanders_Reap \/ UNCHANGED index
         /\ ProcessPacket_Take \/ AnyPacket \/ UNCHANGED batch
         /\ OnPacket_CHAT \/ UNCHANGED <<chat, heard>>
         /\ PreUpdateCommanders \/ UNCHANGED joinedAt
         /\ (\E s \in Session : handle_read_Freed(s)) \/ OnPacket_MOVE
              \/ UpdateCommanders_Update \/ UpdateView \/ UNCHANGED crashed
<1> USE DEF Next, Client, Accept, Read, Tick, AnyPacket, clientVars, memVars, recvVars,
            comVars, listVars, ioVars, tickVars, chatVars, handle_accept_PostReceive,
            handle_accept_Acquire, handle_accept_Push, handle_accept_PostAccept,
            handle_accept_Error, handle_read, handle_read_Error, handle_read_Aborted,
            handle_read_Reused, handle_read_Freed, AnyReused,
            PreUpdateCommanders_FlagTaken, PreUpdateCommanders,
            ProcessPacket_Take, OnPacket_LOGIN, OnPacket_LOGOUT, OnPacket_CHAT,
            OnPacket_MOVE, NextPacket, ProcessPacket_Next, ProcessPacket_End,
            UpdateCommanders_Remove, UpdateCommanders_Update, UpdateCommanders_Reap,
            UpdateCommanders_Erase, UpdateCommanders_End, UpdateView
<1>1. Client \/ handle_accept_PostReceive \/ UNCHANGED clientVars
  OBVIOUS
<1>2. handle_accept_PostAccept \/ handle_accept_Error
       \/ UNCHANGED <<m_newSessionID, block>>
  OBVIOUS
<1>3. handle_accept_PostReceive \/ handle_accept_PostAccept
       \/ handle_accept_Error \/ UpdateCommanders_Erase \/ UNCHANGED phase
  OBVIOUS
<1>4. Client \/ (\E s \in Session : handle_read(s)) \/ AnyReused \/ UNCHANGED net
  OBVIOUS
<1>5. AnyPacket \/ AnyReused \/ (\E s \in Session : handle_read(s))
       \/ UpdateCommanders_Erase \/ UNCHANGED inbox
  OBVIOUS
<1>6. handle_accept_PostReceive \/ (\E s \in Session : handle_read_Error(s))
       \/ UpdateCommanders_Erase \/ UNCHANGED reading
  OBVIOUS
<1>7. (\E s \in Session : handle_read_Error(s))
       \/ (\E s \in Session : handle_read_Aborted(s))
       \/ UNCHANGED m_isDisconnected
  OBVIOUS
<1>8. (\E s \in Session : handle_read_Aborted(s)) \/ UpdateCommanders_Erase
       \/ UNCHANGED stale
  OBVIOUS
<1>9. OnPacket_LOGIN \/ UNCHANGED hasChar
  OBVIOUS
<1>10. OnPacket_LOGOUT \/ UpdateCommanders_Remove \/ UNCHANGED m_isLogout
  OBVIOUS
<1>11. handle_accept_Push \/ PreUpdateCommanders \/ UNCHANGED m_preCommanders
  OBVIOUS
<1>12. PreUpdateCommanders \/ UpdateCommanders_Remove \/ UNCHANGED m_commanders
  OBVIOUS
<1>13. UpdateCommanders_Remove \/ UpdateCommanders_Erase
       \/ UNCHANGED m_readyDieCommanders
  OBVIOUS
<1>14. handle_accept_Acquire \/ handle_accept_Push
       \/ UNCHANGED m_isUsingPreCommanders
  OBVIOUS
<1>15. handle_accept_PostReceive \/ handle_accept_Acquire \/ handle_accept_Push
       \/ handle_accept_PostAccept \/ UNCHANGED ioPc
  OBVIOUS
<1>16. handle_accept_PostReceive \/ UNCHANGED ioSession
  OBVIOUS
<1>17. PreUpdateCommanders_FlagTaken \/ PreUpdateCommanders
       \/ ProcessPacket_Take \/ ProcessPacket_Next \/ ProcessPacket_End
       \/ UpdateCommanders_Reap \/ UpdateCommanders_End \/ UpdateView
       \/ UNCHANGED logicPc
  OBVIOUS
<1>18. ProcessPacket_Next \/ ProcessPacket_End \/ UpdateCommanders_Update
       \/ UpdateCommanders_Reap \/ UNCHANGED index
  OBVIOUS
<1>19. ProcessPacket_Take \/ AnyPacket \/ UNCHANGED batch
  OBVIOUS
<1>20. OnPacket_CHAT \/ UNCHANGED <<chat, heard>>
  OBVIOUS
<1>21. PreUpdateCommanders \/ UNCHANGED joinedAt
  OBVIOUS
<1>22. (\E s \in Session : handle_read_Freed(s)) \/ OnPacket_MOVE
       \/ UpdateCommanders_Update \/ UpdateView \/ UNCHANGED crashed
  OBVIOUS
<1>23. QED
  BY ONLY <1>1, <1>2, <1>3, <1>4, <1>5, <1>6, <1>7, <1>8, <1>9, <1>10, <1>11,
          <1>12, <1>13, <1>14, <1>15, <1>16, <1>17, <1>18, <1>19, <1>20, <1>21, <1>22

-------------------------------------------------------------------------------
(* The invariant, part by part.                                            *)

(* Sessions are numbers from 1 to the bound.                               *)
LEMMA SessionFacts ==
  /\ MaxSession \in Nat /\ MaxSession >= 1
  /\ \A s \in Session : s \in Nat /\ 1 <= s /\ s <= MaxSession
BY MaxSessionAssumption DEF Session

(* The first commander to be reaped is the commander of an open session.   *)
LEMMA ReapedFacts ==
  ASSUME TypeOK, Lists, m_readyDieCommanders # <<>>
  PROVE  /\ Head(m_readyDieCommanders) \in Session
         /\ Head(m_readyDieCommanders) \in ToSet(m_readyDieCommanders)
         /\ Listed(Head(m_readyDieCommanders))
<1>1. m_readyDieCommanders \in Seq(Session)
  BY DEF TypeOK
<1>2. /\ Head(m_readyDieCommanders) \in Session
      /\ Head(m_readyDieCommanders) = m_readyDieCommanders[1]
      /\ 1 \in DOMAIN m_readyDieCommanders
  BY <1>1, TailFacts
<1>3. Head(m_readyDieCommanders) \in ToSet(m_readyDieCommanders)
  BY <1>2 DEF ToSet
<1>4. QED
  BY <1>2, <1>3 DEF Lists

(* Ids stay in order: only PostAccept gives a new one.                     *)
LEMMA IdsStep == TypeOK /\ Lists /\ Ids /\ Next => Ids'
<1> SUFFICES ASSUME TypeOK, Lists, Ids, Next PROVE Ids'
  OBVIOUS
<1> USE SessionFacts
<1>0a. /\ m_newSessionID \in 0..MaxSession
       /\ phase \in [Session -> {"none", "pending", "open", "destroyed"}]
       /\ ioSession \in Session
  BY DEF TypeOK
<1>0. /\ m_newSessionID \in Nat /\ m_newSessionID <= MaxSession
      /\ phase \in [Session -> {"none", "pending", "open", "destroyed"}]
      /\ ioSession \in Session
  BY <1>0a
<1>1. CASE handle_accept_PostReceive
  <2>1. PICK s \in Session : /\ phase[s] = "pending"
                             /\ phase' = [phase EXCEPT ![s] = "open"]
                             /\ ioSession' = s
    BY <1>1 DEF handle_accept_PostReceive
  <2>2. ioPc' = "spin" /\ m_newSessionID' = m_newSessionID
    BY <1>1 DEF handle_accept_PostReceive
  <2>3. QED
    BY <1>0, <2>1, <2>2 DEF Ids
<1>2. CASE handle_accept_PostAccept
  <2>1. ioPc = "post" /\ ioPc' = "idle" /\ ioSession' = ioSession
    BY <1>2 DEF handle_accept_PostAccept
  <2>2. CASE phase' = phase /\ m_newSessionID' = m_newSessionID
    BY <1>0, <2>1, <2>2 DEF Ids
  <2>3. CASE /\ m_newSessionID < MaxSession
             /\ m_newSessionID' = m_newSessionID + 1
             /\ phase' = [phase EXCEPT ![m_newSessionID'] = "pending"]
    <3>1. m_newSessionID + 1 \in Session
      BY <1>0, <2>3 DEF Session
    <3>2. QED
      BY <1>0, <2>1, <2>3, <3>1 DEF Ids
  <2>4. QED
    BY <1>2, <2>2, <2>3 DEF handle_accept_PostAccept, PostAccept
<1>3. CASE handle_accept_Error
  <2>1. PICK s \in Session :
          phase[s] = "pending" /\ PostAccept([phase EXCEPT ![s] = "destroyed"])
    BY <1>3 DEF handle_accept_Error
  <2>2. ioPc = "idle" /\ ioPc' = "idle" /\ ioSession' = ioSession
    BY <1>3 DEF handle_accept_Error, ioVars
  <2>3. CASE /\ phase' = [phase EXCEPT ![s] = "destroyed"]
             /\ m_newSessionID' = m_newSessionID
    BY <1>0, <2>1, <2>2, <2>3 DEF Ids
  <2>4. CASE /\ m_newSessionID < MaxSession
             /\ m_newSessionID' = m_newSessionID + 1
             /\ phase' = [[phase EXCEPT ![s] = "destroyed"]
                            EXCEPT ![m_newSessionID'] = "pending"]
    <3>1. m_newSessionID + 1 \in Session
      BY <1>0, <2>4 DEF Session
    <3>2. QED
      BY <1>0, <2>1, <2>2, <2>4, <3>1 DEF Ids
  <2>5. QED
    BY <2>1, <2>3, <2>4 DEF PostAccept
<1>4. CASE UpdateCommanders_Erase
  <2> DEFINE s == Head(m_readyDieCommanders)
  <2>1. /\ m_readyDieCommanders # <<>>
        /\ phase' = [phase EXCEPT ![s] = "destroyed"]
        /\ UNCHANGED <<m_newSessionID, ioPc, ioSession>>
    BY <1>4 DEF UpdateCommanders_Erase, ioVars
  <2>2. s \in Session /\ Listed(s)
    BY <2>1, ReapedFacts
  <2> HIDE DEF s
  <2>3. QED
    BY <1>0, <2>1, <2>2 DEF Ids, Listed
<1>5. CASE handle_accept_Acquire \/ handle_accept_Push
  BY <1>0, <1>5 DEF handle_accept_Acquire, handle_accept_Push, Ids, memVars
<1>6. CASE /\ ~handle_accept_PostReceive /\ ~handle_accept_PostAccept
           /\ ~handle_accept_Error /\ ~UpdateCommanders_Erase
           /\ ~handle_accept_Acquire /\ ~handle_accept_Push
  <2>1. UNCHANGED <<m_newSessionID, phase, ioPc, ioSession>>
    BY <1>6, Frames
  <2>2. QED
    BY <2>1 DEF Ids
<1>7. QED
  BY <1>1, <1>2, <1>3, <1>4, <1>5, <1>6

(* After handle_accept, in both of its ways, the next session is made; a   *)
(* session whose accept failed is dropped.                                 *)
LEMMA AcceptsNext ==
  ASSUME handle_accept_PostAccept \/ handle_accept_Error
  PROVE  \E s, ph :
           /\ s \in Session
           /\ \/ ph = phase
              \/ phase[s] = "pending" /\ ph = [phase EXCEPT ![s] = "destroyed"]
           /\ PostAccept(ph)
<1>1. CASE handle_accept_PostAccept
  <2>1. 1 \in Session
    BY SessionFacts DEF Session
  <2>2. PostAccept(phase)
    BY <1>1 DEF handle_accept_PostAccept
  <2>3. QED
    BY <2>1, <2>2
<1>2. CASE handle_accept_Error
  <2>1. PICK s \in Session :
          phase[s] = "pending" /\ PostAccept([phase EXCEPT ![s] = "destroyed"])
    BY <1>2 DEF handle_accept_Error
  <2>2. QED
    BY <2>1
<1>3. QED
  BY <1>1, <1>2

(* A new session has no client, no pending read and no mark of an error.   *)
LEMMA FreshStep == TypeOK /\ Lists /\ Ids /\ Fresh /\ Next => Fresh'
<1> SUFFICES ASSUME TypeOK, Lists, Ids, Fresh, Next PROVE Fresh'
  OBVIOUS
<1> USE SessionFacts
<1>0. /\ phase \in [Session -> {"none", "pending", "open", "destroyed"}]
      /\ client \in [Session -> {"none", "new", "in", "gone"}]
      /\ m_isDisconnected \in [Session -> BOOLEAN]
      /\ reading \in [Session -> BOOLEAN]
      /\ stale \subseteq Session
      /\ m_newSessionID \in 0..MaxSession
  BY DEF TypeOK
<1>1. CASE Client
  <2>1. UNCHANGED <<phase, m_isDisconnected, reading, stale>>
    BY <1>1 DEF Client, memVars
  <2>2. PICK s \in Session :
          \/ client' = client
          \/ phase[s] = "open" /\ client' = [client EXCEPT ![s] = "in"]
          \/ phase[s] = "open" /\ client' = [client EXCEPT ![s] = "gone"]
          \/ client[s] # "none" /\ client' = [client EXCEPT ![s] = "gone"]
    BY <1>1 DEF Client, Client_Login, Client_Say, Client_Logout, Client_Vanish
  <2>3. QED
    BY <1>0, <2>1, <2>2 DEF Fresh
<1>2. CASE handle_accept_PostReceive
  <2>1. PICK s \in Session : /\ phase[s] = "pending"
                             /\ phase' = [phase EXCEPT ![s] = "open"]
                             /\ client' = [client EXCEPT ![s] = "new"]
                             /\ reading' = [reading EXCEPT ![s] = TRUE]
    BY <1>2 DEF handle_accept_PostReceive
  <2>2. UNCHANGED <<m_isDisconnected, stale>>
    BY <1>2 DEF handle_accept_PostReceive
  <2>3. QED
    BY <1>0, <2>1, <2>2 DEF Fresh
<1>3. CASE handle_accept_PostAccept \/ handle_accept_Error
  <2>1. UNCHANGED <<client, m_isDisconnected, reading, stale>>
    BY <1>3 DEF handle_accept_PostAccept, handle_accept_Error, clientVars, recvVars
  <2>2. PICK s, ph :
          /\ s \in Session
          /\ \/ ph = phase
             \/ phase[s] = "pending" /\ ph = [phase EXCEPT ![s] = "destroyed"]
          /\ PostAccept(ph)
    BY <1>3, AcceptsNext
  <2>3. \A t \in Session : ph[t] = phase[t] \/ (phase[t] = "pending" /\ ph[t] = "destroyed")
    BY <1>0, <2>2
  <2>4. ph \in [Session -> {"none", "pending", "open", "destroyed"}]
    BY <1>0, <2>2
  <2>5. CASE phase' = ph
    BY <1>0, <2>1, <2>3, <2>5 DEF Fresh
  <2>6. CASE /\ m_newSessionID < MaxSession
             /\ phase' = [ph EXCEPT ![m_newSessionID + 1] = "pending"]
    <3>1. m_newSessionID + 1 \in Session /\ phase[m_newSessionID + 1] = "none"
      BY <1>0, <2>6 DEF Session, Ids
    <3>2. QED
      BY <1>0, <2>1, <2>3, <2>4, <2>6, <3>1 DEF Fresh
  <2>7. QED
    BY <2>2, <2>5, <2>6 DEF PostAccept
<1>4. CASE \E s \in Session : handle_read_Error(s)
  <2>1. PICK s \in Session :
          /\ client[s] = "gone"
          /\ reading' = [reading EXCEPT ![s] = FALSE]
          /\ m_isDisconnected' = [m_isDisconnected EXCEPT ![s] = TRUE]
    BY <1>4 DEF handle_read_Error
  <2>2. UNCHANGED <<client, phase, stale>>
    BY <1>4 DEF handle_read_Error, clientVars, memVars
  <2>3. QED
    BY <1>0, <2>1, <2>2 DEF Fresh
<1>5. CASE \E s \in Session : handle_read_Aborted(s)
  <2>1. /\ stale' \subseteq stale
        /\ \A t \in Session :
             m_isDisconnected'[t] => m_isDisconnected[t] \/ phase[t] # "none"
    BY <1>5 DEF handle_read_Aborted
  <2>2. UNCHANGED <<client, phase, reading>>
    BY <1>5 DEF handle_read_Aborted, clientVars
  <2>3. QED
    BY <2>1, <2>2 DEF Fresh
<1>6. CASE UpdateCommanders_Erase
  <2> DEFINE s == Head(m_readyDieCommanders)
  <2>1. /\ m_readyDieCommanders # <<>>
        /\ phase' = [phase EXCEPT ![s] = "destroyed"]
        /\ stale' \subseteq stale \cup {s}
        /\ reading' = [reading EXCEPT ![s] = FALSE]
        /\ UNCHANGED <<client, m_isDisconnected>>
    BY <1>6 DEF UpdateCommanders_Erase, clientVars
  <2>2. s \in Session /\ phase[s] = "open"
    BY <2>1, ReapedFacts DEF Listed
  <2> HIDE DEF s
  <2>3. QED
    BY <1>0, <2>1, <2>2 DEF Fresh
<1>7. CASE /\ ~Client /\ ~handle_accept_PostReceive /\ ~handle_accept_PostAccept
           /\ ~handle_accept_Error /\ ~UpdateCommanders_Erase
           /\ ~(\E s \in Session : handle_read_Error(s))
           /\ ~(\E s \in Session : handle_read_Aborted(s))
  <2>1. UNCHANGED <<phase, client, m_isDisconnected, reading, stale>>
    BY <1>7, Frames DEF clientVars
  <2>2. QED
    BY <2>1 DEF Fresh
<1>8. QED
  BY <1>1, <1>2, <1>3, <1>4, <1>5, <1>6, <1>7

(* A commander enters the lists in handle_accept and leaves them when it   *)
(* is reaped; no other step says otherwise.                                *)
LEMMA ListedStep ==
  ASSUME TypeOK, Ids, Lists, Next, NEW t \in Session
  PROVE  /\ handle_accept_Push => (Listed(t)' <=> Listed(t) \/ t = ioSession)
         /\ UpdateCommanders_Erase =>
              (Listed(t)' <=> Listed(t) /\ t # Head(m_readyDieCommanders))
         /\ ~handle_accept_Push /\ ~UpdateCommanders_Erase =>
              (Listed(t)' <=> Listed(t))
<1>0. /\ phase \in [Session -> {"none", "pending", "open", "destroyed"}]
      /\ ioSession \in Session
      /\ m_newSessionID \in 0..MaxSession
  BY DEF TypeOK
<1>1. ASSUME handle_accept_Push PROVE Listed(t)' <=> Listed(t) \/ t = ioSession
  <2>1. /\ ioPc = "push" /\ ioPc' = "post" /\ UNCHANGED <<phase, ioSession>>
    BY <1>1 DEF handle_accept_Push, memVars
  <2>2. QED
    BY <2>1 DEF Ids, Listed
<1>2. ASSUME UpdateCommanders_Erase
      PROVE  Listed(t)' <=> Listed(t) /\ t # Head(m_readyDieCommanders)
  <2> DEFINE s == Head(m_readyDieCommanders)
  <2>1. /\ m_readyDieCommanders # <<>>
        /\ phase' = [phase EXCEPT ![s] = "destroyed"]
        /\ UNCHANGED <<ioPc, ioSession>>
    BY <1>2 DEF UpdateCommanders_Erase, ioVars
  <2>2. s \in Session
    BY <2>1, ReapedFacts
  <2> HIDE DEF s
  <2>3. Listed(t)' <=> Listed(t) /\ t # s
    BY <1>0, <2>1, <2>2 DEF Listed
  <2>4. QED
    BY <2>3 DEF s
<1>3. CASE handle_accept_PostReceive
  <2>1. PICK s \in Session : /\ phase[s] = "pending"
                             /\ phase' = [phase EXCEPT ![s] = "open"]
                             /\ ioSession' = s
    BY <1>3 DEF handle_accept_PostReceive
  <2>2. ioPc = "idle" /\ ioPc' = "spin"
    BY <1>3 DEF handle_accept_PostReceive
  <2>3. Listed(t)' <=> Listed(t)
    BY <1>0, <2>1, <2>2 DEF Listed
  <2>4. ~handle_accept_Push /\ ~UpdateCommanders_Erase
    BY <2>1, <2>2, <1>0 DEF handle_accept_Push, UpdateCommanders_Erase, ioVars
  <2>5. QED
    BY <2>3, <2>4
<1>4. CASE handle_accept_Acquire
  <2>1. ioPc = "spin" /\ ioPc' = "push" /\ UNCHANGED <<phase, ioSession>>
    BY <1>4 DEF handle_accept_Acquire, memVars
  <2>2. Listed(t)' <=> Listed(t)
    BY <2>1 DEF Listed
  <2>3. ~handle_accept_Push /\ ~UpdateCommanders_Erase
    BY <2>1 DEF handle_accept_Push, UpdateCommanders_Erase, ioVars
  <2>4. QED
    BY <2>2, <2>3
<1>5. CASE handle_accept_PostAccept \/ handle_accept_Error
  <2>1. /\ ioPc \in {"idle", "post"} /\ ioPc' = "idle" /\ ioSession' = ioSession
        /\ m_readyDieCommanders' = m_readyDieCommanders
    BY <1>5 DEF handle_accept_PostAccept, handle_accept_Error, ioVars, listVars
  <2>2. PICK s, ph :
          /\ s \in Session
          /\ \/ ph = phase
             \/ phase[s] = "pending" /\ ph = [phase EXCEPT ![s] = "destroyed"]
          /\ PostAccept(ph)
    BY <1>5, AcceptsNext
  <2>3. \/ phase' = ph
        \/ /\ m_newSessionID + 1 \in Session
           /\ phase' = [ph EXCEPT ![m_newSessionID + 1] = "pending"]
    BY <1>0, <2>2, SessionFacts DEF PostAccept, Session
  <2>4. m_newSessionID + 1 \in Session => phase[m_newSessionID + 1] = "none"
    BY <1>0, SessionFacts DEF Ids
  <2>5. phase'[t] = "open" <=> phase[t] = "open"
    BY <1>0, <2>2, <2>3, <2>4
  <2>6. Listed(t)' <=> Listed(t)
    BY <2>1, <2>5 DEF Listed
  <2>7. ~UpdateCommanders_Erase
    <3>1. ASSUME UpdateCommanders_Erase PROVE FALSE
      <4>1. /\ m_readyDieCommanders # <<>>
            /\ m_readyDieCommanders' = Tail(m_readyDieCommanders)
        BY <3>1 DEF UpdateCommanders_Erase
      <4>2. m_readyDieCommanders \in Seq(Session)
        BY DEF TypeOK
      <4>3. QED
        BY <2>1, <4>1, <4>2, TailFacts
    <3>2. QED
      BY <3>1
  <2>8. ~handle_accept_Push
    BY <2>1 DEF handle_accept_Push
  <2>9. QED
    BY <2>6, <2>7, <2>8
<1>6. CASE /\ ~handle_accept_PostReceive /\ ~handle_accept_PostAccept
           /\ ~handle_accept_Error /\ ~UpdateCommanders_Erase
           /\ ~handle_accept_Acquire /\ ~handle_accept_Push
  <2>1. UNCHANGED <<phase, ioPc, ioSession>>
    BY <1>6, Frames
  <2>2. QED
    BY <1>6, <2>1 DEF Listed
<1>7. QED
  BY <1>1, <1>2, <1>3, <1>4, <1>5, <1>6

(* The three lists are sequences of sessions.                              *)
LEMMA ListTypes ==
  ASSUME TypeOK
  PROVE  /\ m_commanders \in Seq(Session) /\ Len(m_commanders) \in Nat
         /\ m_preCommanders \in Seq(Session) /\ Len(m_preCommanders) \in Nat
         /\ m_readyDieCommanders \in Seq(Session)
         /\ Len(m_readyDieCommanders) \in Nat
         /\ \A i \in 1..Len(m_commanders) : m_commanders[i] \in Session
         /\ \A i \in 1..Len(m_preCommanders) : m_preCommanders[i] \in Session
<1>1. /\ m_commanders \in Seq(Session)
      /\ m_preCommanders \in Seq(Session)
      /\ m_readyDieCommanders \in Seq(Session)
  BY DEF TypeOK
<1>2. QED
  BY <1>1, LenProperties, ElementOfSeq

(* In an increasing sequence nothing occurs twice.                         *)
LEMMA IncreasingIsInjective ==
  ASSUME NEW q \in Seq(Session), Increasing(q)
  PROVE  \A i, j \in 1..Len(q) : q[i] = q[j] => i = j
<1>1. SUFFICES ASSUME NEW i \in 1..Len(q), NEW j \in 1..Len(q), q[i] = q[j]
               PROVE  i = j
  OBVIOUS
<1>2. q[i] \in Nat /\ q[j] \in Nat
  BY ElementOfSeq, SessionFacts
<1>3. ~(i < j) /\ ~(j < i)
  BY <1>1, <1>2 DEF Increasing
<1>4. QED
  BY <1>3, LenProperties

(* Push: the newest session is larger than all that wait or are served.    *)
LEMMA PushKeepsLists ==
  ASSUME TypeOK, Ids, Lists, Next, handle_accept_Push
  PROVE  Lists'
<1>0. /\ ioSession \in Session /\ ioSession \in Nat
      /\ m_preCommanders' = Append(m_preCommanders, ioSession)
      /\ UNCHANGED <<m_commanders, m_readyDieCommanders>>
      /\ ioPc = "push" /\ ioSession = m_newSessionID
  BY SessionFacts DEF TypeOK, handle_accept_Push, Ids
<1>1. ASSUME NEW s \in Session, Listed(s) PROVE s < ioSession
  <2>1. s # ioSession /\ phase[s] = "open"
    BY <1>0, <1>1 DEF Listed
  <2>2. ~(s > m_newSessionID)
    BY <2>1 DEF Ids
  <2>3. QED
    BY <1>0, <2>1, <2>2, SessionFacts
<1>2. /\ m_preCommanders' \in Seq(Session)
      /\ Len(m_preCommanders') = Len(m_preCommanders) + 1
      /\ m_preCommanders'[Len(m_preCommanders) + 1] = ioSession
      /\ \A i \in 1..Len(m_preCommanders) : m_preCommanders'[i] = m_preCommanders[i]
      /\ ToSet(m_preCommanders') = ToSet(m_preCommanders) \cup {ioSession}
  BY <1>0, ListTypes, AppendFacts, ToSetJoined
<1>3. /\ \A i \in 1..Len(m_preCommanders) : m_preCommanders[i] < ioSession
      /\ \A i \in 1..Len(m_commanders) : m_commanders[i] < ioSession
  <2>1. ASSUME NEW i \in 1..Len(m_preCommanders)
        PROVE  m_preCommanders[i] < ioSession
    BY <1>1, ListTypes, ToSetFacts DEF Lists
  <2>2. ASSUME NEW i \in 1..Len(m_commanders)
        PROVE  m_commanders[i] < ioSession
    BY <1>1, ListTypes, ToSetFacts DEF Lists
  <2>3. QED
    BY <2>1, <2>2
<1>4. Increasing(m_commanders)'
  BY <1>0 DEF Lists, Increasing
<1>5. Increasing(m_preCommanders)'
  BY <1>2, <1>3, ListTypes DEF Lists, Increasing
<1>6. (\A i \in 1..Len(m_commanders), j \in 1..Len(m_preCommanders) :
         m_commanders[i] < m_preCommanders[j])'
  BY <1>0, <1>2, <1>3, ListTypes DEF Lists
<1>7. \A s \in ToSet(m_readyDieCommanders') :
        s \notin ToSet(m_commanders') /\ s \notin ToSet(m_preCommanders')
  <2>1. \A s \in ToSet(m_readyDieCommanders) : s \in Session /\ Listed(s)
    BY ListTypes, ToSetFacts DEF Lists
  <2>2. ~Listed(ioSession)
    BY <1>0 DEF Listed
  <2>3. QED
    BY <1>0, <1>2, <2>1, <2>2 DEF Lists
<1>8. \A s \in Session :
        Listed(s)' <=> \/ s \in ToSet(m_commanders')
                       \/ s \in ToSet(m_preCommanders')
                       \/ s \in ToSet(m_readyDieCommanders')
  BY <1>0, <1>2, ListedStep DEF Lists
<1>9. \A i, j \in 1..Len(m_readyDieCommanders') :
        m_readyDieCommanders'[i] = m_readyDieCommanders'[j] => i = j
  BY <1>0 DEF Lists
<1>10. QED
  BY <1>4, <1>5, <1>6, <1>7, <1>8, <1>9 DEF Lists

(* Joining an increasing sequence with one of larger sessions.             *)
LEMMA IncreasingJoined ==
  ASSUME NEW q \in Seq(Session), Increasing(q),
         NEW r \in Seq(Session), Increasing(r),
         \A i \in 1..Len(q), j \in 1..Len(r) : q[i] < r[j]
  PROVE  Increasing(q \o r)
<1> DEFINE both == q \o r
<1>0. Len(q) \in Nat /\ Len(r) \in Nat
  BY LenProperties
<1>1. /\ Len(both) = Len(q) + Len(r)
      /\ \A i \in 1..Len(q) + Len(r) :
           both[i] = IF i <= Len(q) THEN q[i] ELSE r[i - Len(q)]
  BY ConcatProperties
<1> HIDE DEF both
<1>2. SUFFICES ASSUME NEW i \in 1..Len(both), NEW j \in 1..Len(both), i < j
               PROVE  both[i] < both[j]
  BY DEF Increasing, both
<1>3. CASE j <= Len(q)
  <2>1. i \in 1..Len(q) /\ j \in 1..Len(q)
    BY <1>0, <1>1, <1>2, <1>3
  <2>2. both[i] = q[i] /\ both[j] = q[j]
    BY <1>0, <1>1, <2>1
  <2>3. QED
    BY <1>2, <2>1, <2>2 DEF Increasing
<1>4. CASE i > Len(q)
  <2>1. /\ i - Len(q) \in 1..Len(r) /\ j - Len(q) \in 1..Len(r)
        /\ i - Len(q) < j - Len(q)
        /\ ~(i <= Len(q)) /\ ~(j <= Len(q))
    BY <1>0, <1>1, <1>2, <1>4
  <2>2. both[i] = r[i - Len(q)] /\ both[j] = r[j - Len(q)]
    BY <1>1, <2>1
  <2>3. QED
    BY <2>1, <2>2 DEF Increasing
<1>5. CASE i <= Len(q) /\ j > Len(q)
  <2>1. i \in 1..Len(q) /\ j - Len(q) \in 1..Len(r)
    BY <1>0, <1>1, <1>2, <1>5
  <2>2. both[i] = q[i] /\ both[j] = r[j - Len(q)]
    BY <1>0, <1>1, <1>5, <2>1
  <2>3. QED
    BY <2>1, <2>2
<1>6. QED
  BY <1>0, <1>1, <1>2, <1>3, <1>4, <1>5

(* PreUpdateCommanders: those that waited are larger than those served.    *)
LEMMA JoinKeepsLists ==
  ASSUME TypeOK, Ids, Lists, Next, PreUpdateCommanders
  PROVE  Lists'
<1>0. /\ m_commanders' = m_commanders \o m_preCommanders
      /\ m_preCommanders' = <<>>
      /\ UNCHANGED <<m_readyDieCommanders, phase, ioPc, ioSession>>
  BY DEF PreUpdateCommanders, ioVars, memVars
<1>2. /\ m_commanders' \in Seq(Session)
      /\ Len(m_commanders') = Len(m_commanders) + Len(m_preCommanders)
      /\ \A i \in 1..Len(m_commanders) + Len(m_preCommanders) :
           m_commanders'[i] = IF i <= Len(m_commanders) THEN m_commanders[i]
                              ELSE m_preCommanders[i - Len(m_commanders)]
  BY <1>0, ListTypes, ConcatProperties
<1>3. /\ ToSet(m_commanders') = ToSet(m_commanders) \cup ToSet(m_preCommanders)
      /\ ToSet(m_preCommanders') = {}
  <2>1. 1 \in Session
    BY SessionFacts DEF Session
  <2>2. QED
    BY <1>0, <2>1, ListTypes, ToSetJoined
<1>4. Increasing(m_commanders)'
  <2>1. Increasing(m_commanders \o m_preCommanders)
    BY ListTypes, IncreasingJoined DEF Lists
  <2>2. QED
    BY <1>0, <2>1 DEF Increasing
<1>5. /\ Increasing(m_preCommanders)'
      /\ (\A i \in 1..Len(m_commanders), j \in 1..Len(m_preCommanders) :
            m_commanders[i] < m_preCommanders[j])'
  BY <1>0 DEF Increasing
<1>6. \A s \in ToSet(m_readyDieCommanders') :
        s \notin ToSet(m_commanders') /\ s \notin ToSet(m_preCommanders')
  BY <1>0, <1>3 DEF Lists
<1>7. \A s \in Session :
        Listed(s)' <=> \/ s \in ToSet(m_commanders')
                       \/ s \in ToSet(m_preCommanders')
                       \/ s \in ToSet(m_readyDieCommanders')
  BY <1>0, <1>3 DEF Lists, Listed
<1>8. \A i, j \in 1..Len(m_readyDieCommanders') :
        m_readyDieCommanders'[i] = m_readyDieCommanders'[j] => i = j
  BY <1>0 DEF Lists
<1>9. QED
  BY <1>4, <1>5, <1>6, <1>7, <1>8 DEF Lists

(* What UpdateCommanders does to the lists when the current one leaves.    *)
LEMMA RemoveFacts ==
  ASSUME TypeOK, Lists, UpdateCommanders_Remove
  PROVE  /\ index \in 1..Len(m_commanders) /\ Current \in Session
         /\ m_commanders' \in Seq(Session)
         /\ Len(m_commanders') = Len(m_commanders) - 1
         /\ \A i \in 1..Len(m_commanders) - 1 :
              m_commanders'[i] = IF i < index THEN m_commanders[i]
                                 ELSE m_commanders[i + 1]
         /\ ToSet(m_commanders') = ToSet(m_commanders) \ {Current}
         /\ m_readyDieCommanders' \in Seq(Session)
         /\ ToSet(m_readyDieCommanders') = ToSet(m_readyDieCommanders) \cup {Current}
<1>0. /\ m_commanders' = RemoveAt(m_commanders, index)
      /\ m_readyDieCommanders' = Append(m_readyDieCommanders, Current)
      /\ index <= Len(m_commanders)
  BY DEF UpdateCommanders_Remove, AtCommander
<1>1. index \in 1..Len(m_commanders)
  <2>1. index \in 1..MaxSession + 1
    BY DEF TypeOK
  <2>2. QED
    BY <1>0, <2>1, SessionFacts, ListTypes
<1>2. Current \in Session
  BY <1>1, ListTypes DEF Current
<1>3. /\ m_commanders' \in Seq(Session)
      /\ Len(m_commanders') = Len(m_commanders) - 1
      /\ \A i \in 1..Len(m_commanders) - 1 :
           m_commanders'[i] = IF i < index THEN m_commanders[i]
                              ELSE m_commanders[i + 1]
  BY <1>0, <1>1, ListTypes, RemoveAtFacts
<1>4. ToSet(m_commanders') = ToSet(m_commanders) \ {Current}
  <2>1. \A i, j \in 1..Len(m_commanders) : m_commanders[i] = m_commanders[j] => i = j
    BY ListTypes, IncreasingIsInjective DEF Lists
  <2>2. QED
    BY <1>0, <1>1, <2>1, ListTypes, ToSetRemoved DEF Current
<1>5. /\ m_readyDieCommanders' \in Seq(Session)
      /\ ToSet(m_readyDieCommanders') = ToSet(m_readyDieCommanders) \cup {Current}
  BY <1>0, <1>2, ListTypes, AppendFacts, ToSetJoined
<1>6. QED
  BY <1>1, <1>2, <1>3, <1>4, <1>5

(* UpdateCommanders moves one from the list it is in to the one of those   *)
(* that die.                                                               *)
LEMMA RemoveKeepsLists ==
  ASSUME TypeOK, Ids, Lists, Next, UpdateCommanders_Remove
  PROVE  Lists'
<1>0. /\ m_readyDieCommanders' = Append(m_readyDieCommanders, Current)
      /\ UNCHANGED <<m_preCommanders, phase, ioPc, ioSession>>
  BY DEF UpdateCommanders_Remove, ioVars, memVars
<1>1. Current \in ToSet(m_commanders)
  BY RemoveFacts, ListTypes, ToSetFacts DEF Current
<1>2. Current \notin ToSet(m_preCommanders)
  <2>1. ASSUME NEW j \in 1..Len(m_preCommanders), m_preCommanders[j] = Current
        PROVE  FALSE
    <3>1. m_commanders[index] < m_preCommanders[j]
      BY RemoveFacts DEF Lists
    <3>2. QED
      BY <2>1, <3>1, RemoveFacts, SessionFacts DEF Current
  <2>2. QED
    BY <2>1, ListTypes, ToSetFacts
<1>3. Increasing(m_commanders)'
  <2>1. SUFFICES ASSUME NEW i \in 1..Len(m_commanders'),
                        NEW j \in 1..Len(m_commanders'), i < j
                 PROVE  m_commanders'[i] < m_commanders'[j]
    BY DEF Increasing
  <2>2. /\ i \in 1..Len(m_commanders) /\ i + 1 \in 1..Len(m_commanders)
        /\ j \in 1..Len(m_commanders) /\ j + 1 \in 1..Len(m_commanders)
        /\ i < j /\ i < j + 1 /\ i + 1 < j + 1
        /\ i \in 1..Len(m_commanders) - 1 /\ j \in 1..Len(m_commanders) - 1
    BY <2>1, RemoveFacts, ListTypes
  <2>3. index \in Nat
    BY RemoveFacts
  <2>4. /\ m_commanders'[i] = IF i < index THEN m_commanders[i] ELSE m_commanders[i + 1]
        /\ m_commanders'[j] = IF j < index THEN m_commanders[j] ELSE m_commanders[j + 1]
    BY <2>2, RemoveFacts
  <2>5. i < index \/ ~(j < index)
    BY <2>2, <2>3
  <2>6. QED
    BY <2>2, <2>4, <2>5 DEF Lists, Increasing
<1>4. Increasing(m_preCommanders)'
  BY <1>0 DEF Lists, Increasing
<1>5. (\A i \in 1..Len(m_commanders), j \in 1..Len(m_preCommanders) :
         m_commanders[i] < m_preCommanders[j])'
  <2>1. SUFFICES ASSUME NEW i \in 1..Len(m_commanders'),
                        NEW j \in 1..Len(m_preCommanders)
                 PROVE  m_commanders'[i] < m_preCommanders[j]
    BY <1>0
  <2>2. PICK k \in 1..Len(m_commanders) : m_commanders'[i] = m_commanders[k]
    <3>1. /\ i \in 1..Len(m_commanders) /\ i + 1 \in 1..Len(m_commanders)
          /\ i \in 1..Len(m_commanders) - 1
      BY <2>1, RemoveFacts, ListTypes
    <3>2. QED
      BY <3>1, RemoveFacts
  <2>3. QED
    BY <2>2 DEF Lists
<1>6. \A i, j \in 1..Len(m_readyDieCommanders') :
        m_readyDieCommanders'[i] = m_readyDieCommanders'[j] => i = j
  <2>1. /\ Len(m_readyDieCommanders') = Len(m_readyDieCommanders) + 1
        /\ m_readyDieCommanders'[Len(m_readyDieCommanders) + 1] = Current
        /\ \A i \in 1..Len(m_readyDieCommanders) :
             m_readyDieCommanders'[i] = m_readyDieCommanders[i]
    BY <1>0, RemoveFacts, ListTypes, AppendFacts
  <2>2. \A i \in 1..Len(m_readyDieCommanders) : m_readyDieCommanders[i] # Current
    BY <1>1, ListTypes, ToSetFacts DEF Lists
  <2>3. QED
    BY <2>1, <2>2, ListTypes DEF Lists
<1>7. \A s \in ToSet(m_readyDieCommanders') :
        s \notin ToSet(m_commanders') /\ s \notin ToSet(m_preCommanders')
  BY <1>0, <1>2, RemoveFacts DEF Lists
<1>8. \A s \in Session :
        Listed(s)' <=> \/ s \in ToSet(m_commanders')
                       \/ s \in ToSet(m_preCommanders')
                       \/ s \in ToSet(m_readyDieCommanders')
  BY <1>0, <1>1, RemoveFacts DEF Lists, Listed
<1>9. QED
  BY <1>3, <1>4, <1>5, <1>6, <1>7, <1>8 DEF Lists

(* The reaping loop: the first of the list leaves it for good.             *)
LEMMA EraseKeepsLists ==
  ASSUME TypeOK, Ids, Lists, Next, UpdateCommanders_Erase
  PROVE  Lists'
<1>0. /\ m_readyDieCommanders # <<>>
      /\ m_readyDieCommanders' = Tail(m_readyDieCommanders)
      /\ UNCHANGED <<m_preCommanders, m_commanders>>
  BY DEF UpdateCommanders_Erase
<1>1. /\ Head(m_readyDieCommanders) = m_readyDieCommanders[1]
      /\ Len(m_readyDieCommanders) >= 1
      /\ m_readyDieCommanders' \in Seq(Session)
      /\ Len(m_readyDieCommanders') = Len(m_readyDieCommanders) - 1
      /\ \A i \in 1..Len(m_readyDieCommanders') :
           m_readyDieCommanders'[i] = m_readyDieCommanders[i + 1]
  BY <1>0, ListTypes, TailFacts
<1>2. ToSet(m_readyDieCommanders')
        = ToSet(m_readyDieCommanders) \ {Head(m_readyDieCommanders)}
  <2>1. 1 \in 1..Len(m_readyDieCommanders)
    BY <1>1, ListTypes
  <2>2. QED
    BY <1>0, <1>1, <2>1, ListTypes, ToSetRemoved DEF Lists
<1>3. \A i, j \in 1..Len(m_readyDieCommanders') :
        m_readyDieCommanders'[i] = m_readyDieCommanders'[j] => i = j
  <2>1. \A i \in 1..Len(m_readyDieCommanders') : i + 1 \in 1..Len(m_readyDieCommanders)
    BY <1>1, ListTypes
  <2>2. SUFFICES ASSUME NEW i \in 1..Len(m_readyDieCommanders'),
                        NEW j \in 1..Len(m_readyDieCommanders'),
                        m_readyDieCommanders'[i] = m_readyDieCommanders'[j]
                 PROVE  i = j
    OBVIOUS
  <2>3. i + 1 = j + 1
    BY <1>1, <2>1, <2>2 DEF Lists
  <2>4. QED
    BY <1>1, <2>3, ListTypes
<1>4. \A s \in ToSet(m_readyDieCommanders') :
        s \notin ToSet(m_commanders') /\ s \notin ToSet(m_preCommanders')
  BY <1>0, <1>2 DEF Lists
<1>5. \A s \in Session :
        Listed(s)' <=> \/ s \in ToSet(m_commanders')
                       \/ s \in ToSet(m_preCommanders')
                       \/ s \in ToSet(m_readyDieCommanders')
  BY <1>0, <1>2, ListedStep, ReapedFacts DEF Lists
<1>6. QED
  BY <1>0, <1>3, <1>4, <1>5 DEF Lists, Increasing

(* Every step leaves each listed session in one place, in order.           *)
LEMMA ListsStep == TypeOK /\ Ids /\ Lists /\ Next => Lists'
<1> SUFFICES ASSUME TypeOK, Ids, Lists, Next PROVE Lists'
  OBVIOUS
<1>1. CASE /\ ~handle_accept_Push /\ ~PreUpdateCommanders
           /\ ~UpdateCommanders_Remove /\ ~UpdateCommanders_Erase
  <2>1. UNCHANGED <<m_preCommanders, m_commanders, m_readyDieCommanders>>
    BY <1>1, Frames
  <2>2. \A s \in Session : Listed(s)' <=> Listed(s)
    BY <1>1, ListedStep
  <2>3. QED
    BY <2>1, <2>2 DEF Lists, Increasing
<1>2. QED
  BY <1>1, PushKeepsLists, JoinKeepsLists, RemoveKeepsLists, EraseKeepsLists

(* A commander that is marked as leaving stays marked.                     *)
LEMMA LogoutStays ==
  ASSUME TypeOK, Next, NEW s \in Session, m_isLogout[s]
  PROVE  m_isLogout'[s]
<1>0. m_isLogout \in [Session -> BOOLEAN]
  BY DEF TypeOK
<1>1. \/ m_isLogout' = m_isLogout
      \/ m_isLogout' = [m_isLogout EXCEPT ![Current] = TRUE]
  BY Frames DEF OnPacket_LOGOUT, UpdateCommanders_Remove
<1>2. QED
  BY <1>0, <1>1

(* What processing a packet does to the inbox of its commander.            *)
LEMMA PacketFacts ==
  ASSUME TypeOK, Loops, AnyPacket
  PROVE  /\ logicPc = "packets" /\ UNCHANGED <<logicPc, index>>
         /\ UNCHANGED <<m_commanders, m_readyDieCommanders>>
         /\ index \in 1..Len(m_commanders) /\ Current \in Session
         /\ batch > 0 /\ batch' = batch - 1 /\ batch' \in Nat
         /\ inbox[Current] # <<>>
         /\ inbox' = [inbox EXCEPT ![Current] = Tail(@)]
<1>1. /\ logicPc = "packets" /\ index <= Len(m_commanders)
      /\ UNCHANGED <<logicPc, index, m_commanders, m_readyDieCommanders>>
      /\ batch > 0 /\ batch' = batch - 1
      /\ inbox' = [inbox EXCEPT ![Current] = Tail(@)]
  BY DEF AnyPacket, OnPacket_LOGIN, OnPacket_LOGOUT, OnPacket_CHAT, OnPacket_MOVE,
         NextPacket, AtCommander, listVars
<1>2. index \in 1..MaxSession + 1 /\ batch \in Nat
  BY DEF TypeOK
<1>3. index \in 1..Len(m_commanders)
  BY <1>1, <1>2, ListTypes, SessionFacts
<1>4. batch <= Len(inbox[Current])
  BY <1>1 DEF Loops, Current
<1>5. inbox[Current] # <<>>
  <2>1. ASSUME inbox[Current] = <<>> PROVE FALSE
    <3>1. Len(inbox[Current]) = 0
      BY <2>1
    <3>2. QED
      BY <1>1, <1>2, <1>4, <3>1
  <2>2. QED
    BY <2>1
<1>6. QED
  BY <1>1, <1>2, <1>3, <1>5, ListTypes DEF Current

(* The read handler appends to one inbox.                                  *)
LEMMA ReadFacts ==
  ASSUME TypeOK, NEW s \in Session, handle_read(s)
  PROVE  /\ net[s] # <<>> /\ Head(net[s]) \in Command
         /\ inbox' = [inbox EXCEPT ![s] = Append(inbox[s], Head(net[s]))]
         /\ net' = [net EXCEPT ![s] = Tail(net[s])]
         /\ inbox'[s] \in Seq(Command) /\ Len(inbox'[s]) = Len(inbox[s]) + 1
         /\ Tail(net[s]) \in Seq(Command)
<1>1. /\ net[s] # <<>>
      /\ inbox' = [inbox EXCEPT ![s] = Append(inbox[s], Head(net[s]))]
      /\ net' = [net EXCEPT ![s] = Tail(net[s])]
  BY DEF handle_read
<1>2. net \in [Session -> Seq(Command)] /\ inbox \in [Session -> Seq(Command)]
  BY DEF TypeOK
<1>3. Head(net[s]) \in Command /\ Tail(net[s]) \in Seq(Command)
  BY <1>1, <1>2, TailFacts
<1>4. QED
  BY <1>1, <1>2, <1>3, AppendFacts

(* So does the one that finds another session in its memory.               *)
LEMMA ReusedFacts ==
  ASSUME TypeOK, AnyReused
  PROVE  /\ \E s, t \in Session : \E packets \in Seq(Command) :
              /\ inbox' = [inbox EXCEPT ![t] = @ \o packets]
              /\ net' = [net EXCEPT ![s] = <<>>]
         /\ UNCHANGED <<logicPc, index, batch, m_commanders, m_readyDieCommanders>>
<1>1. PICK s \in Session : handle_read_Reused(s)
  BY DEF AnyReused
<1>2. PICK t \in Session, k \in 1..Len(net[s]) :
        inbox' = [inbox EXCEPT ![t] = @ \o SubSeq(net[s], 1, k)]
  BY <1>1 DEF handle_read_Reused
<1>3. net[s] \in Seq(Command)
  BY DEF TypeOK
<1>4. k \in Nat /\ k <= Len(net[s]) /\ 0 + 1 = 1
  BY <1>2, <1>3, LenProperties
<1>5. SubSeq(net[s], 1, k) \in Seq(Command)
  BY <1>3, <1>4, PartElements
<1>6. /\ net' = [net EXCEPT ![s] = <<>>]
      /\ UNCHANGED <<logicPc, index, batch, m_commanders, m_readyDieCommanders>>
  BY <1>1 DEF handle_read_Reused, tickVars, listVars
<1>7. QED
  BY <1>2, <1>5, <1>6

(* The rest of a tick's progress through the lists.                        *)
LEMMA LoopsStep == TypeOK /\ Lists /\ Ids /\ Loops /\ Next => Loops'
<1> SUFFICES ASSUME TypeOK, Lists, Ids, Loops, Next PROVE Loops'
  OBVIOUS
<1> DEFINE Reaped == \A s \in ToSet(m_readyDieCommanders) : m_isLogout[s]
           Counted == logicPc = "packets" =>
                        /\ index <= Len(m_commanders)
                        /\ batch <= Len(inbox[m_commanders[index]])
           Placed == /\ index <= Len(m_commanders) + 1
                     /\ logicPc \notin {"process", "packets", "update"} => index = 1
                     /\ logicPc \notin {"update", "reap"} => m_readyDieCommanders = <<>>
<1>a. /\ index \in 1..MaxSession + 1 /\ batch \in Nat
      /\ m_isLogout \in [Session -> BOOLEAN]
      /\ inbox \in [Session -> Seq(Command)]
  BY DEF TypeOK
<1>0. /\ index \in 1..MaxSession + 1 /\ index \in Nat /\ batch \in Nat
      /\ m_isLogout \in [Session -> BOOLEAN]
      /\ inbox \in [Session -> Seq(Command)]
  BY <1>a, SessionFacts
<1>1. Reaped'
  <2>1. ASSUME NEW s \in ToSet(m_readyDieCommanders') PROVE m_isLogout'[s]
    <3>1. CASE s \in ToSet(m_readyDieCommanders)
      <4>1. s \in Session /\ m_isLogout[s]
        BY <3>1, ListTypes, ToSetFacts DEF Loops
      <4>2. QED
        BY <4>1, LogoutStays
    <3>2. CASE UpdateCommanders_Remove
      <4>1. s = Current \/ s \in ToSet(m_readyDieCommanders)
        BY <2>1, <3>2, RemoveFacts
      <4>2. Current \in Session /\ m_isLogout' = [m_isLogout EXCEPT ![Current] = TRUE]
        BY <3>2, RemoveFacts DEF UpdateCommanders_Remove
      <4>3. QED
        BY <1>0, <3>1, <4>1, <4>2
    <3>3. CASE UpdateCommanders_Erase
      <4>1. /\ m_readyDieCommanders # <<>>
            /\ m_readyDieCommanders' = Tail(m_readyDieCommanders)
        BY <3>3 DEF UpdateCommanders_Erase
      <4>2. /\ m_readyDieCommanders' \in Seq(Session)
            /\ Len(m_readyDieCommanders') = Len(m_readyDieCommanders) - 1
            /\ \A i \in 1..Len(m_readyDieCommanders') :
                 m_readyDieCommanders'[i] = m_readyDieCommanders[i + 1]
        BY <4>1, ListTypes, TailFacts
      <4>3. PICK i \in 1..Len(m_readyDieCommanders') : m_readyDieCommanders'[i] = s
        BY <2>1, <4>2, ToSetFacts
      <4>4. i + 1 \in 1..Len(m_readyDieCommanders)
        BY <4>2, <4>3, ListTypes
      <4>5. s \in ToSet(m_readyDieCommanders)
        BY <4>2, <4>3, <4>4, ListTypes, ToSetFacts
      <4>6. QED
        BY <3>1, <4>5
    <3>4. CASE ~UpdateCommanders_Remove /\ ~UpdateCommanders_Erase
      <4>1. m_readyDieCommanders' = m_readyDieCommanders
        BY <3>4, Frames
      <4>2. QED
        BY <2>1, <3>1, <4>1
    <3>5. QED
      BY <3>2, <3>3, <3>4
  <2>2. QED
    BY <2>1
<1>2. CASE PreUpdateCommanders
  <2>1. /\ logicPc = "pre" /\ logicPc' = "process" /\ UNCHANGED index
        /\ UNCHANGED m_readyDieCommanders
        /\ m_commanders' = m_commanders \o m_preCommanders
    BY <1>2 DEF PreUpdateCommanders
  <2>2. Len(m_commanders') = Len(m_commanders) + Len(m_preCommanders)
    BY <2>1, ListTypes, ConcatProperties
  <2>3. QED
    BY <1>0, <1>1, <2>1, <2>2, ListTypes DEF Loops
<1>3. CASE AnyPacket
  <2>1. Len(inbox'[Current]) = Len(inbox[Current]) - 1 /\ Len(inbox[Current]) \in Nat
    BY <1>0, <1>3, PacketFacts, TailFacts
  <2>2. m_commanders'[index'] = Current
    BY <1>3, PacketFacts DEF Current
  <2>3. batch <= Len(inbox[Current])
    BY <1>3, PacketFacts DEF Loops, Current
  <2>4. batch' <= Len(inbox'[Current])
    BY <1>0, <1>3, <2>1, <2>3, PacketFacts
  <2>5. Counted'
    BY <1>3, <2>2, <2>4, PacketFacts DEF Loops
  <2>6. Placed'
    BY <1>3, PacketFacts DEF Loops
  <2>7. QED
    BY <1>1, <2>5, <2>6 DEF Loops
<1>4. CASE \E s \in Session : handle_read(s)
  <2>1. PICK s \in Session : handle_read(s)
    BY <1>4
  <2>2. UNCHANGED <<logicPc, index, batch, m_commanders, m_readyDieCommanders>>
    BY <2>1 DEF handle_read, tickVars, listVars
  <2>3. \A t \in Session : Len(inbox[t]) \in Nat /\ Len(inbox'[t]) >= Len(inbox[t])
    <3>1. \A t \in Session : Len(inbox[t]) \in Nat
      BY <1>0, LenProperties
    <3>2. \A t \in Session : t # s => inbox'[t] = inbox[t]
      BY <1>0, <2>1, ReadFacts
    <3>3. Len(inbox'[s]) = Len(inbox[s]) + 1
      BY <2>1, ReadFacts
    <3>4. QED
      BY <3>1, <3>2, <3>3
  <2>4. Counted'
    <3>1. SUFFICES ASSUME logicPc = "packets"
                   PROVE  /\ index <= Len(m_commanders)
                          /\ batch <= Len(inbox'[m_commanders[index]])
      BY <2>2
    <3>2. index <= Len(m_commanders) /\ batch <= Len(inbox[m_commanders[index]])
      BY <3>1 DEF Loops
    <3>3. m_commanders[index] \in Session
      BY <1>0, <3>2, ListTypes
    <3>4. QED
      BY <1>0, <2>3, <3>2, <3>3
  <2>5. Placed'
    BY <2>2 DEF Loops
  <2>6. QED
    BY <1>1, <2>4, <2>5 DEF Loops
<1>b. CASE AnyReused
  <2>1. PICK t \in Session, packets \in Seq(Command) :
          inbox' = [inbox EXCEPT ![t] = @ \o packets]
    BY <1>b, ReusedFacts
  <2>2. UNCHANGED <<logicPc, index, batch, m_commanders, m_readyDieCommanders>>
    BY <1>b, ReusedFacts
  <2>3. \A u \in Session : Len(inbox[u]) \in Nat /\ Len(inbox'[u]) >= Len(inbox[u])
    <3>1. \A u \in Session : Len(inbox[u]) \in Nat
      BY <1>0, LenProperties
    <3>2. \A u \in Session : u # t => inbox'[u] = inbox[u]
      BY <1>0, <2>1
    <3>3. inbox'[t] = inbox[t] \o packets
      BY <1>0, <2>1
    <3>4. Len(inbox'[t]) = Len(inbox[t]) + Len(packets) /\ Len(packets) \in Nat
      BY <1>0, <3>3, ConcatProperties, LenProperties
    <3>5. QED
      BY <3>1, <3>2, <3>4
  <2>4. Counted'
    <3>1. SUFFICES ASSUME logicPc = "packets"
                   PROVE  /\ index <= Len(m_commanders)
                          /\ batch <= Len(inbox'[m_commanders[index]])
      BY <2>2
    <3>2. index <= Len(m_commanders) /\ batch <= Len(inbox[m_commanders[index]])
      BY <3>1 DEF Loops
    <3>3. m_commanders[index] \in Session
      BY <1>0, <3>2, ListTypes
    <3>4. QED
      BY <1>0, <2>3, <3>2, <3>3
  <2>5. Placed'
    BY <2>2 DEF Loops
  <2>6. QED
    BY <1>1, <2>4, <2>5 DEF Loops
<1>5. CASE UpdateCommanders_Remove
  <2>1. /\ logicPc = "update" /\ UNCHANGED <<logicPc, index>>
    BY <1>5 DEF UpdateCommanders_Remove, AtCommander, tickVars
  <2>2. index <= Len(m_commanders') + 1
    BY <1>5, RemoveFacts, ListTypes
  <2>3. QED
    BY <1>1, <2>1, <2>2 DEF Loops
<1>6. CASE UpdateCommanders_Erase
  <2>1. logicPc = "reap" /\ UNCHANGED <<logicPc, index, m_commanders>>
    BY <1>6 DEF UpdateCommanders_Erase, tickVars
  <2>2. QED
    BY <1>1, <2>1 DEF Loops
<1>7. CASE ProcessPacket_Take
  <2>1. /\ logicPc = "process" /\ index <= Len(m_commanders)
        /\ batch' = Len(inbox[Current]) /\ logicPc' = "packets"
        /\ UNCHANGED <<index, inbox, m_commanders, m_readyDieCommanders>>
    BY <1>7 DEF ProcessPacket_Take, AtCommander, listVars, recvVars
  <2>2. Current \in Session /\ Len(inbox[Current]) \in Nat
    BY <1>0, <2>1, ListTypes, LenProperties DEF Current
  <2>3. Counted'
    BY <2>1, <2>2 DEF Current
  <2>4. Placed'
    BY <2>1 DEF Loops
  <2>5. QED
    BY <1>1, <2>3, <2>4 DEF Loops
<1>8. CASE ProcessPacket_Next \/ ProcessPacket_End \/ UpdateCommanders_Update
             \/ UpdateCommanders_Reap
  <2>1. /\ \/ /\ index <= Len(m_commanders) /\ index' = index + 1
              /\ logicPc \in {"packets", "update"} /\ logicPc' \in {"process", "update"}
              /\ logicPc' = "process" => logicPc = "packets"
           \/ index' = 1 /\ logicPc \in {"process", "update"}
                /\ logicPc' \in {"update", "reap"}
        /\ UNCHANGED <<m_commanders, m_readyDieCommanders>>
    BY <1>8 DEF ProcessPacket_Next, ProcessPacket_End, UpdateCommanders_Update,
                UpdateCommanders_Reap, AtCommander, PastLast, listVars
  <2>2. Placed'
    BY <1>0, <2>1, ListTypes DEF Loops
  <2>3. QED
    BY <1>1, <2>1, <2>2 DEF Loops
<1>9. CASE PreUpdateCommanders_FlagTaken \/ UpdateCommanders_End \/ UpdateView
  <2>1. /\ logicPc \in {"pre", "reap", "view"} /\ UNCHANGED <<index, m_commanders>>
        /\ logicPc = "reap" => m_readyDieCommanders = <<>>
        /\ UNCHANGED m_readyDieCommanders
        /\ logicPc' \in {"process", "view", "pre"}
    BY <1>9 DEF PreUpdateCommanders_FlagTaken, UpdateCommanders_End, UpdateView,
                listVars
  <2>2. Placed'
    BY <2>1 DEF Loops
  <2>3. QED
    BY <1>1, <2>1, <2>2 DEF Loops
<1>10. CASE /\ ~PreUpdateCommanders /\ ~AnyPacket /\ ~UpdateCommanders_Remove
            /\ ~(\E s \in Session : handle_read(s)) /\ ~UpdateCommanders_Erase
            /\ ~ProcessPacket_Take /\ ~ProcessPacket_Next /\ ~ProcessPacket_End
            /\ ~UpdateCommanders_Update /\ ~UpdateCommanders_Reap
            /\ ~PreUpdateCommanders_FlagTaken /\ ~UpdateCommanders_End
            /\ ~UpdateView /\ ~AnyReused
  <2>1. UNCHANGED <<logicPc, index, batch, inbox, m_commanders, m_readyDieCommanders>>
    BY <1>10, Frames
  <2>2. QED
    BY <1>1, <2>1 DEF Loops
<1>11. QED
  BY <1>2, <1>3, <1>4, <1>b, <1>5, <1>6, <1>7, <1>8, <1>9, <1>10

(* A program that died does nothing more.                                  *)
LEMMA Alive == Next => Up
BY DEF Next, Client, Accept, Read, Tick, handle_accept_PostReceive,
       handle_accept_Acquire, handle_accept_Push, handle_accept_PostAccept,
       handle_accept_Error, handle_read, handle_read_Error, handle_read_Aborted,
       handle_read_Reused, handle_read_Freed, PreUpdateCommanders_FlagTaken,
       PreUpdateCommanders, ProcessPacket_Take, OnPacket_LOGIN, OnPacket_LOGOUT, OnPacket_CHAT,
       OnPacket_MOVE, NextPacket, AtCommander, PastLast, ProcessPacket_Next,
       ProcessPacket_End, UpdateCommanders_Remove, UpdateCommanders_Update,
       UpdateCommanders_Reap, UpdateCommanders_Erase, UpdateCommanders_End,
       UpdateView

(* A commander that has a character keeps it.                              *)
LEMMA CharacterStays ==
  ASSUME TypeOK, Next, NEW s \in Session, hasChar[s]
  PROVE  hasChar'[s]
<1>0. hasChar \in [Session -> BOOLEAN]
  BY DEF TypeOK
<1>1. \/ hasChar' = hasChar
      \/ hasChar' = [hasChar EXCEPT ![Current] = TRUE]
  BY Frames DEF OnPacket_LOGIN
<1>2. QED
  BY <1>0, <1>1

(* UpdateCommanders leaves only commanders with a character behind.        *)
LEMMA CharactersStep ==
  TypeOK /\ Lists /\ Loops /\ Characters /\ Next => Characters'
<1> SUFFICES ASSUME TypeOK, Lists, Loops, Characters, Next PROVE Characters'
  OBVIOUS
<1> DEFINE Kept(n) == \A i \in 1..n : hasChar[m_commanders[i]]
<1>0. index \in 1..MaxSession + 1 /\ index <= Len(m_commanders) + 1
  BY DEF TypeOK, Loops
<1>1. index \in Nat /\ 1 <= index
  BY <1>0, SessionFacts
<1>2. ASSUME NEW n \in Nat, n <= Len(m_commanders), Kept(n), m_commanders' = m_commanders
      PROVE  Kept(n)'
  <2>1. \A i \in 1..n : m_commanders[i] \in Session
    BY <1>2, ListTypes
  <2>2. QED
    BY <1>2, <2>1, CharacterStays
<1>3. CASE UpdateCommanders_Remove
  <2>1. Up /\ logicPc = "update" /\ UNCHANGED <<logicPc, index, hasChar>>
    BY <1>3 DEF UpdateCommanders_Remove, AtCommander, tickVars
  <2>2. \A i \in 1..index - 1 : hasChar[m_commanders[i]]
    BY <2>1 DEF Characters
  <2>3. \A i \in 1..index - 1 : m_commanders'[i] = m_commanders[i]
    BY <1>1, <1>3, RemoveFacts, ListTypes
  <2>4. QED
    BY <2>1, <2>2, <2>3 DEF Characters
<1>4. CASE UpdateCommanders_Update
  <2>1. /\ Up /\ logicPc = "update" /\ index <= Len(m_commanders)
        /\ crashed' = (IF hasChar[Current] THEN "no" ELSE "no character")
        /\ index' = index + 1 /\ UNCHANGED <<hasChar, logicPc, m_commanders>>
    BY <1>4 DEF UpdateCommanders_Update, AtCommander, comVars, listVars
  <2>2. Up' => hasChar[m_commanders[index]]
    BY <2>1 DEF Up, Current
  <2>3. \A i \in 1..index - 1 : hasChar[m_commanders[i]]
    BY <2>1 DEF Characters
  <2>4. \A i \in 1..index' - 1 : i \in 1..index - 1 \/ i = index
    <3>1. index' = index + 1
      BY <2>1
    <3>2. QED
      BY <1>1, <3>1
  <2>5. QED
    BY <2>1, <2>2, <2>3, <2>4 DEF Characters
<1>5. CASE UpdateCommanders_Reap
  <2>1. /\ Up /\ logicPc = "update" /\ logicPc' = "reap" /\ index > Len(m_commanders)
        /\ UNCHANGED <<hasChar, m_commanders>>
    BY <1>5 DEF UpdateCommanders_Reap, PastLast, comVars, listVars
  <2>2. index - 1 = Len(m_commanders)
    BY <1>0, <1>1, <2>1, ListTypes
  <2>3. QED
    BY <2>1, <2>2 DEF Characters
<1>6. CASE ProcessPacket_End
  <2>1. logicPc' = "update" /\ index' = 1
    BY <1>6 DEF ProcessPacket_End
  <2>2. QED
    BY <2>1 DEF Characters
<1>7. CASE UpdateCommanders_End
  <2>1. logicPc = "reap" /\ logicPc' = "view" /\ UNCHANGED <<hasChar, m_commanders>>
    BY <1>7 DEF UpdateCommanders_End, comVars, listVars
  <2>2. QED
    BY <2>1 DEF Characters
<1>8. CASE PreUpdateCommanders \/ PreUpdateCommanders_FlagTaken
             \/ ProcessPacket_Take \/ ProcessPacket_Next \/ UpdateView
  <2>1. logicPc' \in {"process", "packets", "pre"}
    BY <1>8 DEF PreUpdateCommanders, PreUpdateCommanders_FlagTaken,
                ProcessPacket_Take, ProcessPacket_Next, UpdateView
  <2>2. QED
    BY <2>1 DEF Characters
<1>9. CASE /\ ~UpdateCommanders_Remove /\ ~UpdateCommanders_Update
           /\ ~UpdateCommanders_Reap /\ ~ProcessPacket_End
           /\ ~UpdateCommanders_End /\ ~PreUpdateCommanders
           /\ ~PreUpdateCommanders_FlagTaken /\ ~ProcessPacket_Take
           /\ ~ProcessPacket_Next /\ ~UpdateView
  <2>1. UNCHANGED <<logicPc, index, m_commanders>>
    BY <1>9, Frames
  <2>2. Up
    BY Alive
  <2>3. Up /\ logicPc = "update" => Kept(index - 1)
    BY DEF Characters
  <2>4. logicPc \in {"reap", "view"} => Kept(Len(m_commanders))
    BY DEF Characters
  <2>5. index - 1 \in Nat /\ index - 1 <= Len(m_commanders) /\ Len(m_commanders) \in Nat
    BY <1>0, <1>1, ListTypes
  <2>6. Up' /\ logicPc' = "update" => Kept(index - 1)'
    BY <1>2, <2>1, <2>2, <2>3, <2>5
  <2>7. logicPc' \in {"reap", "view"} => Kept(Len(m_commanders))'
    BY <1>2, <2>1, <2>4, <2>5
  <2>8. QED
    BY <2>1, <2>6, <2>7 DEF Characters
<1>10. QED
  BY <1>3, <1>4, <1>5, <1>6, <1>7, <1>8, <1>9

(* Every commander has a character when UpdateView begins.                 *)
LEMMA CharactersSuffice == TypeOK /\ Characters => ViewsHaveCharacters
BY ListTypes, ToSetFacts DEF Characters, ViewsHaveCharacters

(* A session is made in memory that no living session uses.                *)
LEMMA BlocksStep == TypeOK /\ Ids /\ Lists /\ Blocks /\ Next => Blocks'
<1> SUFFICES ASSUME TypeOK, Ids, Lists, Blocks, Next PROVE Blocks'
  OBVIOUS
<1>0. /\ phase \in [Session -> {"none", "pending", "open", "destroyed"}]
      /\ block \in [Session -> Block]
      /\ m_newSessionID \in 0..MaxSession
  BY DEF TypeOK
<1>1. CASE handle_accept_PostAccept \/ handle_accept_Error
  <2>1. PICK s, ph :
          /\ s \in Session
          /\ \/ ph = phase
             \/ phase[s] = "pending" /\ ph = [phase EXCEPT ![s] = "destroyed"]
          /\ PostAccept(ph)
    BY <1>1, AcceptsNext
  <2>2. /\ ph \in [Session -> {"none", "pending", "open", "destroyed"}]
        /\ \A t \in Session : /\ ph[t] \in {"pending", "open"} => ph[t] = phase[t]
                              /\ ph[t] = "none" <=> phase[t] = "none"
    BY <1>0, <2>1
  <2>3. CASE phase' = ph /\ block' = block
    BY <2>2, <2>3 DEF Blocks
  <2>4. CASE /\ m_newSessionID < MaxSession
             /\ phase' = [ph EXCEPT ![m_newSessionID + 1] = "pending"]
             /\ \E b \in Block \ Used : block' = [block EXCEPT ![m_newSessionID + 1] = b]
    <3>1. PICK b \in Block \ Used : block' = [block EXCEPT ![m_newSessionID + 1] = b]
      BY <2>4
    <3>2. \A t \in Session : phase[t] \in {"pending", "open"} => block[t] # b
      BY <3>1 DEF Used
    <3>3. m_newSessionID + 1 \in Session
      BY <1>0, <2>4, SessionFacts DEF Session
    <3>4. \A t \in Session : t > m_newSessionID + 1 => phase[t] = "none"
      BY <1>0, SessionFacts DEF Ids
    <3> DEFINE n == m_newSessionID + 1
    <3> HIDE DEF n
    <3>5. SUFFICES ASSUME NEW u \in Session, NEW t \in Session, u < t,
                          phase'[u] \in {"pending", "open"}, phase'[t] # "none"
                   PROVE  block'[u] # block'[t]
      BY DEF Blocks
    <3>6. /\ n \in Session /\ block' = [block EXCEPT ![n] = b]
          /\ phase' = [ph EXCEPT ![n] = "pending"]
          /\ \A v \in Session : v > n => phase[v] = "none"
      BY <2>4, <3>1, <3>3, <3>4 DEF n
    <3>7. CASE u = n
      <4>1. t # n /\ phase'[t] = ph[t] /\ t > n
        BY <2>2, <3>5, <3>6, <3>7, SessionFacts
      <4>2. QED
        BY <2>2, <3>5, <3>6, <4>1
    <3>8. CASE u # n /\ t = n
      <4>1. phase'[u] = ph[u]
        BY <2>2, <3>6, <3>8
      <4>2. block'[u] = block[u] /\ block'[t] = b
        BY <1>0, <3>6, <3>8
      <4>3. phase[u] \in {"pending", "open"}
        BY <2>2, <3>5, <4>1
      <4>4. QED
        BY <3>2, <4>2, <4>3
    <3>9. CASE u # n /\ t # n
      <4>1. phase'[u] = ph[u] /\ phase'[t] = ph[t]
        BY <2>2, <3>6, <3>9
      <4>2. block'[u] = block[u] /\ block'[t] = block[t]
        BY <1>0, <3>6, <3>9
      <4>3. phase[u] \in {"pending", "open"} /\ phase[t] # "none"
        BY <2>2, <3>5, <4>1
      <4>4. QED
        BY <3>5, <4>2, <4>3 DEF Blocks
    <3>10. QED
      BY <3>7, <3>8, <3>9
  <2>5. QED
    BY <2>1, <2>3, <2>4 DEF PostAccept
<1>2. CASE handle_accept_PostReceive
  <2>1. PICK s \in Session : /\ phase[s] = "pending"
                             /\ phase' = [phase EXCEPT ![s] = "open"]
    BY <1>2 DEF handle_accept_PostReceive
  <2>2. block' = block
    BY <1>2 DEF handle_accept_PostReceive
  <2>3. QED
    BY <1>0, <2>1, <2>2 DEF Blocks
<1>3. CASE UpdateCommanders_Erase
  <2> DEFINE s == Head(m_readyDieCommanders)
  <2>1. /\ m_readyDieCommanders # <<>> /\ block' = block
        /\ phase' = [phase EXCEPT ![s] = "destroyed"]
    BY <1>3 DEF UpdateCommanders_Erase
  <2>2. s \in Session /\ phase[s] = "open"
    BY <2>1, ReapedFacts DEF Listed
  <2> HIDE DEF s
  <2>3. QED
    BY <1>0, <2>1, <2>2 DEF Blocks
<1>4. CASE /\ ~handle_accept_PostReceive /\ ~handle_accept_PostAccept
           /\ ~handle_accept_Error /\ ~UpdateCommanders_Erase
  <2>1. UNCHANGED <<phase, block>>
    BY <1>4, Frames
  <2>2. QED
    BY <2>1 DEF Blocks
<1>5. QED
  BY <1>1, <1>2, <1>3, <1>4

(* A destroyed session stays destroyed and keeps the name of its block.    *)
LEMMA DestroyedStays ==
  ASSUME TypeOK, Ids, Lists, Next, NEW t \in Session, phase[t] # "none"
  PROVE  /\ phase[t] = "destroyed" => phase'[t] = "destroyed"
         /\ block'[t] = block[t]
<1>0. /\ phase \in [Session -> {"none", "pending", "open", "destroyed"}]
      /\ block \in [Session -> Block]
      /\ m_newSessionID \in 0..MaxSession
  BY DEF TypeOK
<1>1. CASE handle_accept_PostAccept \/ handle_accept_Error
  <2>1. PICK s, ph :
          /\ s \in Session
          /\ \/ ph = phase
             \/ phase[s] = "pending" /\ ph = [phase EXCEPT ![s] = "destroyed"]
          /\ PostAccept(ph)
    BY <1>1, AcceptsNext
  <2>2. ph \in [Session -> {"none", "pending", "open", "destroyed"}]
    BY <1>0, <2>1
  <2>3. t # m_newSessionID + 1
    BY <1>0, SessionFacts DEF Ids
  <2>4. \/ phase' = ph /\ block' = block
        \/ /\ phase' = [ph EXCEPT ![m_newSessionID + 1] = "pending"]
           /\ \E b \in Block : block' = [block EXCEPT ![m_newSessionID + 1] = b]
    BY <2>1 DEF PostAccept
  <2>5. QED
    BY <1>0, <2>1, <2>2, <2>3, <2>4
<1>2. CASE ~handle_accept_PostAccept /\ ~handle_accept_Error
  <2>1. block' = block
    BY <1>2, Frames
  <2>2. \/ phase' = phase
        \/ \E s \in Session : phase[s] = "pending" /\ phase' = [phase EXCEPT ![s] = "open"]
        \/ phase' = [phase EXCEPT ![Head(m_readyDieCommanders)] = "destroyed"]
    BY <1>2, Frames DEF handle_accept_PostReceive, UpdateCommanders_Erase
  <2>3. QED
    BY <1>0, <2>1, <2>2
<1>3. QED
  BY <1>1, <1>2

(* A disconnection of a session whose client is there needs another        *)
(* session, destroyed before, in the same block.                           *)
LEMMA SpuriousStep ==
  TypeOK /\ Ids /\ Lists /\ Fresh /\ Blocks /\ SpuriousNeedsReuse /\ Next
    => SpuriousNeedsReuse'
<1> SUFFICES ASSUME TypeOK, Ids, Lists, Fresh, Blocks, SpuriousNeedsReuse, Next,
                    NEW s \in Session, m_isDisconnected'[s], client'[s] # "gone"
             PROVE  \E t \in 1..s - 1 : phase'[t] = "destroyed" /\ block'[t] = block'[s]
  BY DEF SpuriousNeedsReuse
<1>0. /\ phase \in [Session -> {"none", "pending", "open", "destroyed"}]
      /\ client \in [Session -> {"none", "new", "in", "gone"}]
      /\ m_isDisconnected \in [Session -> BOOLEAN]
  BY DEF TypeOK
<1>1. ASSUME phase[s] # "none",
             NEW t \in 1..s - 1, phase[t] = "destroyed", block[t] = block[s]
      PROVE  \E u \in 1..s - 1 : phase'[u] = "destroyed" /\ block'[u] = block'[s]
  <2>1. t \in Session
    BY SessionFacts DEF Session
  <2>2. phase'[t] = "destroyed" /\ block'[t] = block[t] /\ block'[s] = block[s]
    BY <1>1, <2>1, DestroyedStays
  <2>3. QED
    BY <1>1, <2>2
<1>2. CASE m_isDisconnected[s]
  <2>1. phase[s] # "none"
    BY <1>2 DEF Fresh
  <2>2. client[s] # "gone"
    <3>1. ASSUME client[s] = "gone" PROVE FALSE
      <4>1. CASE Client
        <5>1. PICK u \in Session : Client_Login(u) \/ Client_Say(u) \/ Client_Logout(u)
                                     \/ Client_Vanish(u)
          BY <4>1 DEF Client
        <5>2. \/ client' = client
              \/ client' = [client EXCEPT ![u] = "gone"]
              \/ client[u] = "new" /\ client' = [client EXCEPT ![u] = "in"]
          BY <5>1 DEF Client_Login, Client_Say, Client_Logout, Client_Vanish
        <5>3. QED
          BY <1>0, <3>1, <5>2
      <4>2. CASE handle_accept_PostReceive
        <5>1. PICK u \in Session : /\ phase[u] = "pending"
                                   /\ client' = [client EXCEPT ![u] = "new"]
          BY <4>2 DEF handle_accept_PostReceive
        <5>2. u # s
          BY <3>1, <5>1 DEF Fresh
        <5>3. QED
          BY <1>0, <3>1, <5>1, <5>2
      <4>3. CASE ~Client /\ ~handle_accept_PostReceive
        BY <3>1, <4>3, Frames DEF clientVars
      <4>4. QED
        BY <4>1, <4>2, <4>3
    <3>2. QED
      BY <3>1
  <2>3. PICK t \in 1..s - 1 : phase[t] = "destroyed" /\ block[t] = block[s]
    BY <1>2, <2>2 DEF SpuriousNeedsReuse
  <2>4. QED
    BY <1>1, <2>1, <2>3
<1>3. CASE ~m_isDisconnected[s]
  <2>1. CASE \E u \in Session : handle_read_Error(u)
    <3>1. PICK u \in Session :
            /\ client[u] = "gone" /\ client' = client
            /\ m_isDisconnected' = [m_isDisconnected EXCEPT ![u] = TRUE]
      BY <2>1 DEF handle_read_Error, clientVars
    <3>2. u = s
      BY <1>0, <1>3, <3>1
    <3>3. QED
      BY <3>1, <3>2
  <2>2. CASE \E u \in Session : handle_read_Aborted(u)
    <3>1. PICK u \in Session : handle_read_Aborted(u)
      BY <2>2
    <3>2. /\ u \in stale
          /\ m_isDisconnected' =
               [t \in Session |-> \/ m_isDisconnected[t]
                                  \/ phase[t] \in {"pending", "open"} /\ block[t] = block[u]]
      BY <3>1 DEF handle_read_Aborted
    <3>3. phase[s] \in {"pending", "open"} /\ block[s] = block[u]
      BY <1>3, <3>2
    <3>4. phase[u] = "destroyed"
      BY <3>2 DEF Fresh
    <3>5. ~(s < u)
      BY <3>3, <3>4 DEF Blocks
    <3>6. u \in 1..s - 1
      BY <3>3, <3>4, <3>5, SessionFacts
    <3>7. QED
      BY <1>1, <3>3, <3>4, <3>6
  <2>3. CASE /\ ~(\E u \in Session : handle_read_Error(u))
             /\ ~(\E u \in Session : handle_read_Aborted(u))
    BY <1>3, <2>3, Frames
  <2>4. QED
    BY <2>1, <2>2, <2>3
<1>4. QED
  BY <1>2, <1>3

(* The types of the histories.                                             *)
LEMMA ChatTypes ==
  ASSUME TypeOK
  PROVE  /\ chat \in Seq(Session) /\ Len(chat) \in Nat
         /\ heard \in [Session -> Seq(Session)]
         /\ joinedAt \in [Session -> Nat]
         /\ \A s \in Session : /\ heard[s] \in Seq(Session)
                               /\ Len(heard[s]) \in Nat
                               /\ joinedAt[s] \in Nat
<1>1. /\ chat \in Seq(Session)
      /\ heard \in [Session -> Seq(Session)]
      /\ joinedAt \in [Session -> Nat]
  BY DEF TypeOK
<1>2. \A s \in Session : heard[s] \in Seq(Session) /\ joinedAt[s] \in Nat
  BY <1>1
<1>3. QED
  BY <1>1, <1>2, LenProperties

(* What a chat line does to the histories.                                 *)
LEMMA ChatFacts ==
  ASSUME TypeOK, Loops, OnPacket_CHAT
  PROVE  /\ Current \in Session
         /\ chat' = Append(chat, Current)
         /\ chat' \in Seq(Session) /\ Len(chat') = Len(chat) + 1
         /\ \A s \in Session :
              /\ s \in ToSet(m_commanders) =>
                   /\ heard'[s] = Append(heard[s], Current)
                   /\ Len(heard'[s]) = Len(heard[s]) + 1
              /\ s \notin ToSet(m_commanders) => heard'[s] = heard[s]
              /\ heard'[s] \in Seq(Session)
         /\ heard' \in [Session -> Seq(Session)]
         /\ UNCHANGED <<joinedAt, phase, ioPc, ioSession>>
         /\ UNCHANGED <<m_commanders, m_preCommanders>>
<1>1. Current \in Session
  BY PacketFacts DEF AnyPacket
<1>2. /\ chat' = Append(chat, Current)
      /\ heard' = [s \in Session |-> IF s \in ToSet(m_commanders)
                                       THEN Append(heard[s], Current) ELSE heard[s]]
      /\ UNCHANGED <<joinedAt, phase, ioPc, ioSession, m_commanders, m_preCommanders>>
  BY DEF OnPacket_CHAT, BroadCastToCommander, NextPacket, memVars, ioVars, listVars
<1>3. chat' \in Seq(Session) /\ Len(chat') = Len(chat) + 1
  BY <1>1, <1>2, ChatTypes, AppendFacts
<1>4. \A s \in Session : /\ Append(heard[s], Current) \in Seq(Session)
                         /\ Len(Append(heard[s], Current)) = Len(heard[s]) + 1
  BY <1>1, ChatTypes, AppendFacts
<1>5. ASSUME NEW s \in Session
      PROVE  /\ s \in ToSet(m_commanders) =>
                  /\ heard'[s] = Append(heard[s], Current)
                  /\ Len(heard'[s]) = Len(heard[s]) + 1
             /\ s \notin ToSet(m_commanders) => heard'[s] = heard[s]
             /\ heard'[s] \in Seq(Session)
  BY <1>2, <1>4, ChatTypes
<1>6. heard' \in [Session -> Seq(Session)]
  BY <1>2, <1>4, ChatTypes
<1>7. QED
  BY <1>1, <1>2, <1>3, <1>5, <1>6

(* s has not been served yet.                                              *)
NotServed(s) ==
  s \in ToSet(m_preCommanders) \/ (~Listed(s) /\ phase[s] # "destroyed")

(* Who was served once is never new again.                                 *)
LEMMA ServedOnce ==
  ASSUME TypeOK, Ids, Lists, Next, NEW s \in Session, NotServed(s)'
  PROVE  NotServed(s)
<1>1. phase[s] = "destroyed" => phase'[s] = "destroyed"
  BY DestroyedStays
<1>2. CASE handle_accept_Push
  <2>1. /\ m_preCommanders' = Append(m_preCommanders, ioSession)
        /\ ioPc = "push" /\ phase' = phase
    BY <1>2 DEF handle_accept_Push, memVars
  <2>2. ioSession \in Session
    BY DEF TypeOK
  <2>3. ToSet(m_preCommanders') = ToSet(m_preCommanders) \cup {ioSession}
    BY <2>1, <2>2, ListTypes, ToSetJoined
  <2>4. phase[ioSession] = "open" /\ ~Listed(ioSession)
    BY <2>1 DEF Ids, Listed
  <2>5. Listed(s)' <=> Listed(s) \/ s = ioSession
    BY <1>2, ListedStep
  <2>6. QED
    BY <2>1, <2>3, <2>4, <2>5 DEF NotServed
<1>3. CASE UpdateCommanders_Erase
  <2> DEFINE t == Head(m_readyDieCommanders)
  <2>1. /\ m_readyDieCommanders # <<>> /\ m_preCommanders' = m_preCommanders
        /\ phase' = [phase EXCEPT ![t] = "destroyed"]
    BY <1>3 DEF UpdateCommanders_Erase
  <2>2. t \in Session
    BY <2>1, ReapedFacts
  <2>3. Listed(s)' <=> Listed(s) /\ s # t
    BY <1>3, ListedStep
  <2> HIDE DEF t
  <2>4. s = t => phase'[s] = "destroyed"
    BY <2>1, <2>2 DEF TypeOK
  <2>5. QED
    BY <1>1, <2>1, <2>3, <2>4 DEF NotServed
<1>4. CASE ~handle_accept_Push /\ ~UpdateCommanders_Erase
  <2>1. Listed(s)' <=> Listed(s)
    BY <1>4, ListedStep
  <2>2. ToSet(m_preCommanders') \subseteq ToSet(m_preCommanders)
    <3>1. m_preCommanders' = m_preCommanders \/ m_preCommanders' = <<>>
      BY <1>4, Frames DEF PreUpdateCommanders
    <3>2. ToSet(<<>>) = {}
      BY DEF ToSet
    <3>3. QED
      BY <3>1, <3>2
  <2>3. QED
    BY <1>1, <2>1, <2>2 DEF NotServed
<1>5. QED
  BY <1>2, <1>3, <1>4

(* Who has not been served is not in m_commanders.                         *)
LEMMA NotServedIsNotThere ==
  ASSUME TypeOK, Lists, NEW s \in Session, NotServed(s)
  PROVE  s \notin ToSet(m_commanders)
<1>1. ASSUME s \in ToSet(m_commanders), s \in ToSet(m_preCommanders) PROVE FALSE
  <2>1. PICK i \in 1..Len(m_commanders) : m_commanders[i] = s
    BY <1>1, ListTypes, ToSetFacts
  <2>2. PICK j \in 1..Len(m_preCommanders) : m_preCommanders[j] = s
    BY <1>1, ListTypes, ToSetFacts
  <2>3. m_commanders[i] < m_preCommanders[j]
    BY DEF Lists
  <2>4. QED
    BY <2>1, <2>2, <2>3, SessionFacts
<1>2. QED
  BY <1>1 DEF NotServed, Lists

(* The conversation of a session ends where the server's does, as long as  *)
(* the session is served.                                                  *)
LEMMA ConversationStep ==
  TypeOK /\ Ids /\ Lists /\ Loops /\ Conversation /\ SameConversation /\ Next
    => Conversation' /\ SameConversation'
<1> SUFFICES ASSUME TypeOK, Ids, Lists, Loops, Conversation, SameConversation, Next
             PROVE  Conversation' /\ SameConversation'
  OBVIOUS
<1> SUFFICES ASSUME NEW s \in Session
             PROVE  /\ joinedAt'[s] + Len(heard'[s]) <= Len(chat')
                    /\ NotServed(s)' => heard'[s] = <<>>
                    /\ heard'[s] = SubSeq(chat', joinedAt'[s] + 1,
                                          joinedAt'[s] + Len(heard'[s]))
                    /\ s \in ToSet(m_commanders') =>
                         joinedAt'[s] + Len(heard'[s]) = Len(chat')
  BY DEF Conversation, SameConversation, NotServed
<1>0. /\ chat \in Seq(Session) /\ Len(chat) \in Nat
      /\ heard[s] \in Seq(Session) /\ Len(heard[s]) \in Nat /\ joinedAt[s] \in Nat
      /\ joinedAt \in [Session -> Nat]
      /\ joinedAt[s] + Len(heard[s]) <= Len(chat)
      /\ heard[s] = SubSeq(chat, joinedAt[s] + 1, joinedAt[s] + Len(heard[s]))
      /\ s \in ToSet(m_commanders) => joinedAt[s] + Len(heard[s]) = Len(chat)
  BY ChatTypes DEF Conversation, SameConversation
<1>1. NotServed(s) => heard[s] = <<>>
  BY DEF Conversation, NotServed
<1>2. CASE OnPacket_CHAT
  <2>1. NotServed(s)' => s \notin ToSet(m_commanders) /\ heard[s] = <<>>
    BY <1>1, ServedOnce, NotServedIsNotThere
  <2>2. CASE s \in ToSet(m_commanders)
    <3>1. /\ heard'[s] = Append(heard[s], Current)
          /\ Len(heard'[s]) = Len(heard[s]) + 1
          /\ joinedAt' = joinedAt /\ Len(chat') = Len(chat) + 1
          /\ chat' = Append(chat, Current) /\ Current \in Session
      BY <1>2, <2>2, ChatFacts
    <3>2. /\ joinedAt[s] <= Len(chat)
          /\ joinedAt[s] + Len(heard[s]) = Len(chat)
          /\ joinedAt'[s] + Len(heard'[s]) = Len(chat) + 1
      BY <1>0, <2>2, <3>1
    <3>3. SubSeq(chat', joinedAt[s] + 1, Len(chat) + 1)
            = Append(SubSeq(chat, joinedAt[s] + 1, Len(chat)), Current)
      BY <1>0, <3>1, <3>2, PartOfLonger
    <3>4. heard[s] = SubSeq(chat, joinedAt[s] + 1, Len(chat))
      BY <1>0, <3>2
    <3>5. heard'[s] = SubSeq(chat', joinedAt'[s] + 1, joinedAt'[s] + Len(heard'[s]))
      BY <3>1, <3>2, <3>3, <3>4
    <3>6. /\ joinedAt'[s] + Len(heard'[s]) <= Len(chat')
          /\ joinedAt'[s] + Len(heard'[s]) = Len(chat')
      BY ONLY <1>0, <3>1, <3>2
    <3>7. ~NotServed(s)'
      BY <2>1, <2>2
    <3>8. QED
      BY <3>5, <3>6, <3>7
  <2>3. CASE s \notin ToSet(m_commanders)
    <3>1. /\ heard'[s] = heard[s]
          /\ joinedAt' = joinedAt /\ Len(chat') = Len(chat) + 1
          /\ chat' = Append(chat, Current) /\ Current \in Session
          /\ m_commanders' = m_commanders
      BY <1>2, <2>3, ChatFacts
    <3>2. joinedAt[s] + Len(heard[s]) \in Nat
      BY <1>0
    <3>3. SubSeq(chat', joinedAt[s] + 1, joinedAt[s] + Len(heard[s]))
            = SubSeq(chat, joinedAt[s] + 1, joinedAt[s] + Len(heard[s]))
      BY <1>0, <3>1, <3>2, PartOfLonger
    <3>4. joinedAt'[s] + Len(heard'[s]) <= Len(chat')
      BY ONLY <1>0, <3>1
    <3>5. /\ heard'[s] = SubSeq(chat', joinedAt'[s] + 1, joinedAt'[s] + Len(heard'[s]))
          /\ s \notin ToSet(m_commanders')
      BY <1>0, <2>3, <3>1, <3>3
    <3>6. NotServed(s)' => heard'[s] = <<>>
      BY <2>1, <3>1
    <3>7. QED
      BY <3>4, <3>5, <3>6
  <2>4. QED
    BY <2>2, <2>3
<1>3. CASE PreUpdateCommanders
  <2>1. /\ m_commanders' = m_commanders \o m_preCommanders
        /\ m_preCommanders' = <<>>
        /\ joinedAt' = [t \in Session |-> IF t \in ToSet(m_preCommanders)
                                            THEN Len(chat) ELSE joinedAt[t]]
        /\ UNCHANGED <<chat, heard>>
    BY <1>3 DEF PreUpdateCommanders
  <2>2. ToSet(m_commanders') = ToSet(m_commanders) \cup ToSet(m_preCommanders)
    BY <2>1, ListTypes, ToSetJoined
  <2>3. NotServed(s)' => heard[s] = <<>>
    BY <1>1, ServedOnce
  <2>4. CASE s \in ToSet(m_preCommanders)
    <3>1. heard[s] = <<>> /\ joinedAt'[s] = Len(chat)
      BY <1>1, <2>1, <2>4 DEF NotServed
    <3>2. Len(heard[s]) = 0
      BY <3>1
    <3>3. Len(chat) + 1 \in Int /\ Len(chat) \in Int /\ Len(chat) < Len(chat) + 1
          /\ Len(chat) + 0 = Len(chat)
      BY <1>0
    <3>4. SubSeq(chat, Len(chat) + 1, Len(chat)) = <<>>
      BY <3>3, SubSeqEmpty
    <3>5. QED
      BY <1>0, <2>1, <2>3, <3>1, <3>2, <3>3, <3>4
  <2>5. CASE s \notin ToSet(m_preCommanders)
    <3>1. joinedAt'[s] = joinedAt[s]
      BY <2>1, <2>5
    <3>2. QED
      BY <1>0, <2>1, <2>2, <2>3, <2>5, <3>1
  <2>6. QED
    BY <2>4, <2>5
<1>4. CASE ~OnPacket_CHAT /\ ~PreUpdateCommanders
  <2>1. UNCHANGED <<chat, heard, joinedAt>>
    BY <1>4, Frames
  <2>2. ToSet(m_commanders') \subseteq ToSet(m_commanders)
    <3>1. CASE UpdateCommanders_Remove
      BY <3>1, RemoveFacts
    <3>2. CASE ~UpdateCommanders_Remove
      BY <1>4, <3>2, Frames
    <3>3. QED
      BY <3>1, <3>2
  <2>3. NotServed(s)' => heard[s] = <<>>
    BY <1>1, ServedOnce
  <2>4. QED
    BY <1>0, <2>1, <2>2, <2>3
<1>5. QED
  BY <1>2, <1>3, <1>4

(* The lists are no longer than there are sessions.                        *)
LEMMA IncreasingIsShort ==
  ASSUME NEW q \in Seq(Session), Increasing(q)
  PROVE  Len(q) <= MaxSession
<1>1. q \in Injection(1..Len(q), Session)
  <2>1. q \in [1..Len(q) -> Session]
    BY LenProperties
  <2>2. \A i, j \in 1..Len(q) : q[i] = q[j] => i = j
    BY IncreasingIsInjective
  <2>3. QED
    BY <2>1, <2>2 DEF Injection, IsInjective
<1>2. IsFiniteSet(Session) /\ Cardinality(Session) = MaxSession
  BY SessionFacts, FS_Interval DEF Session
<1>3. Cardinality(1..Len(q)) <= MaxSession
  BY <1>1, <1>2, FS_Injection
<1>4. Cardinality(1..Len(q)) = Len(q)
  <2>1. Len(q) \in Nat
    BY LenProperties
  <2>2. 1 \in Int /\ Len(q) \in Int
    BY <2>1
  <2>3. Cardinality(1..Len(q)) = IF 1 > Len(q) THEN 0 ELSE Len(q) - 1 + 1
    BY <2>2, FS_Interval
  <2>4. QED
    BY ONLY <2>1, <2>3
<1>5. QED
  BY <1>3, <1>4

(* Every step keeps every variable in its type.                            *)
LEMMA TypeStep == TypeOK /\ Ids /\ Lists /\ Loops /\ Lists' /\ Loops' /\ Next => TypeOK'
<1> SUFFICES ASSUME TypeOK, Ids, Lists, Loops, Lists', Loops', Next PROVE TypeOK'
  OBVIOUS
<1>1. (client \in [Session -> {"none", "new", "in", "gone"}])' /\ (said \in 0..MaxSay)'
  <2>0. /\ client \in [Session -> {"none", "new", "in", "gone"}]
        /\ said \in 0..MaxSay
    BY DEF TypeOK
  <2>1. CASE Client
    <3>1. PICK s \in Session : Client_Login(s) \/ Client_Say(s) \/ Client_Logout(s)
                                 \/ Client_Vanish(s)
      BY <2>1 DEF Client
    <3>2. /\ \/ client' = client
             \/ client' = [client EXCEPT ![s] = "in"]
             \/ client' = [client EXCEPT ![s] = "gone"]
          /\ said' = said \/ (said < MaxSay /\ said' = said + 1)
      BY <3>1 DEF Client_Login, Client_Say, Client_Logout, Client_Vanish
    <3>3. QED
      BY <2>0, <3>2, MaxSayAssumption
  <2>2. CASE handle_accept_PostReceive
    BY <2>0, <2>2 DEF handle_accept_PostReceive
  <2>3. CASE ~Client /\ ~handle_accept_PostReceive
    BY <2>0, <2>3, Frames DEF clientVars
  <2>4. QED
    BY <2>1, <2>2, <2>3
<1>2. /\ (m_newSessionID \in 0..MaxSession)'
      /\ (phase \in [Session -> {"none", "pending", "open", "destroyed"}])'
      /\ (block \in [Session -> Block])'
  <2>0. /\ m_newSessionID \in 0..MaxSession
        /\ phase \in [Session -> {"none", "pending", "open", "destroyed"}]
        /\ block \in [Session -> Block]
    BY DEF TypeOK
  <2>1. CASE handle_accept_PostAccept \/ handle_accept_Error
    <3>1. PICK s, ph :
            /\ s \in Session
            /\ \/ ph = phase
               \/ phase[s] = "pending" /\ ph = [phase EXCEPT ![s] = "destroyed"]
            /\ PostAccept(ph)
      BY <2>1, AcceptsNext
    <3>2. ph \in [Session -> {"none", "pending", "open", "destroyed"}]
      BY <2>0, <3>1
    <3>3. \/ /\ m_newSessionID < MaxSession /\ m_newSessionID' = m_newSessionID + 1
             /\ \E b \in Block : block' = [block EXCEPT ![m_newSessionID + 1] = b]
             /\ phase' = [ph EXCEPT ![m_newSessionID + 1] = "pending"]
          \/ phase' = ph /\ UNCHANGED <<m_newSessionID, block>>
      BY <3>1 DEF PostAccept
    <3>4. QED
      BY <2>0, <3>2, <3>3, SessionFacts
  <2>2. CASE ~handle_accept_PostAccept /\ ~handle_accept_Error
    <3>1. UNCHANGED <<m_newSessionID, block>>
      BY <2>2, Frames
    <3>2. \/ phase' = phase
          \/ \E s \in Session : phase' = [phase EXCEPT ![s] = "open"]
          \/ phase' = [phase EXCEPT ![Head(m_readyDieCommanders)] = "destroyed"]
      BY <2>2, Frames DEF handle_accept_PostReceive, UpdateCommanders_Erase
    <3>3. QED
      BY <2>0, <3>1, <3>2
  <2>3. QED
    BY <2>1, <2>2
<1>3. (net \in [Session -> Seq(Command)])'
  <2>0. net \in [Session -> Seq(Command)]
    BY DEF TypeOK
  <2>1. CASE Client
    <3>1. PICK s \in Session : Client_Login(s) \/ Client_Say(s) \/ Client_Logout(s)
                                 \/ Client_Vanish(s)
      BY <2>1 DEF Client
    <3>2. \/ net' = net
          \/ \E command \in Command : net' = [net EXCEPT ![s] = Append(net[s], command)]
          \/ \E command \in Command :
               net' = [net EXCEPT ![s] = net[s] \o <<"LOGOUT", command>>]
      <4>1. Say \subseteq Command /\ {"LOGIN", "LOGOUT"} \subseteq Command
        BY SayAssumption DEF Command
      <4>2. CASE Client_Login(s)
        BY <4>1, <4>2 DEF Client_Login
      <4>3. CASE Client_Say(s)
        BY <4>1, <4>3 DEF Client_Say
      <4>4. CASE Client_Logout(s)
        BY <4>1, <4>4 DEF Client_Logout
      <4>5. CASE Client_Vanish(s)
        BY <4>5 DEF Client_Vanish
      <4>6. QED
        BY <3>1, <4>2, <4>3, <4>4, <4>5
    <3>3. \A command \in Command : Append(net[s], command) \in Seq(Command)
      BY <2>0, AppendFacts
    <3>4. \A command \in Command : net[s] \o <<"LOGOUT", command>> \in Seq(Command)
      <4>1. \A command \in Command : <<"LOGOUT", command>> \in Seq(Command)
        BY DEF Command
      <4>2. QED
        BY <2>0, <4>1, ConcatProperties
    <3>5. QED
      BY <2>0, <3>2, <3>3, <3>4
  <2>2. CASE \E s \in Session : handle_read(s)
    BY <2>0, <2>2, ReadFacts
  <2>3. CASE AnyReused
    BY <2>0, <2>3, ReusedFacts, EmptySeq
  <2>4. CASE ~Client /\ ~(\E s \in Session : handle_read(s)) /\ ~AnyReused
    BY <2>0, <2>4, Frames
  <2>5. QED
    BY <2>1, <2>2, <2>3, <2>4
<1>4. (inbox \in [Session -> Seq(Command)])'
  <2>0. inbox \in [Session -> Seq(Command)]
    BY DEF TypeOK
  <2>1. CASE \E s \in Session : handle_read(s)
    <3>1. PICK s \in Session : handle_read(s)
      BY <2>1
    <3>2. /\ inbox' = [inbox EXCEPT ![s] = Append(inbox[s], Head(net[s]))]
          /\ Head(net[s]) \in Command
      BY <3>1, ReadFacts
    <3>3. Append(inbox[s], Head(net[s])) \in Seq(Command)
      BY <2>0, <3>2, AppendFacts
    <3>4. QED
      BY <2>0, <3>2, <3>3
  <2>2. CASE AnyPacket
    <3>1. /\ Current \in Session /\ inbox[Current] # <<>>
          /\ inbox' = [inbox EXCEPT ![Current] = Tail(@)]
      BY <2>2, PacketFacts
    <3>2. Tail(inbox[Current]) \in Seq(Command)
      BY <2>0, <3>1, TailFacts
    <3>3. QED
      BY <2>0, <3>1, <3>2
  <2>3. CASE UpdateCommanders_Erase
    <3>1. inbox' = [inbox EXCEPT ![Head(m_readyDieCommanders)] = <<>>]
      BY <2>3 DEF UpdateCommanders_Erase
    <3>2. QED
      BY <2>0, <3>1, EmptySeq
  <2>4. CASE AnyReused
    <3>1. PICK t \in Session, packets \in Seq(Command) :
            inbox' = [inbox EXCEPT ![t] = @ \o packets]
      BY <2>4, ReusedFacts
    <3>2. inbox[t] \o packets \in Seq(Command)
      BY <2>0, <3>1, ConcatProperties
    <3>3. QED
      BY <2>0, <3>1, <3>2
  <2>5. CASE /\ ~(\E s \in Session : handle_read(s)) /\ ~AnyPacket
             /\ ~UpdateCommanders_Erase /\ ~AnyReused
    BY <2>0, <2>5, Frames
  <2>6. QED
    BY <2>1, <2>2, <2>3, <2>4, <2>5
<1>5. (reading \in [Session -> BOOLEAN])'
  <2>0. reading \in [Session -> BOOLEAN]
    BY DEF TypeOK
  <2>1. \/ reading' = reading
        \/ \E s \in Session : \/ reading' = [reading EXCEPT ![s] = TRUE]
                              \/ reading' = [reading EXCEPT ![s] = FALSE]
        \/ reading' = [reading EXCEPT ![Head(m_readyDieCommanders)] = FALSE]
    BY Frames DEF handle_accept_PostReceive, handle_read_Error, UpdateCommanders_Erase
  <2>2. QED
    BY <2>0, <2>1
<1>6. (m_isDisconnected \in [Session -> BOOLEAN])'
  <2>0. m_isDisconnected \in [Session -> BOOLEAN]
    BY DEF TypeOK
  <2>1. CASE \E s \in Session : handle_read_Error(s)
    <3>1. PICK s \in Session : m_isDisconnected' = [m_isDisconnected EXCEPT ![s] = TRUE]
      BY <2>1 DEF handle_read_Error
    <3>2. QED
      BY <2>0, <3>1
  <2>2. CASE \E s \in Session : handle_read_Aborted(s)
    <3>1. PICK s \in Session :
            m_isDisconnected' =
              [t \in Session |-> \/ m_isDisconnected[t]
                                 \/ phase[t] \in {"pending", "open"} /\ block[t] = block[s]]
      BY <2>2 DEF handle_read_Aborted
    <3>2. QED
      BY <2>0, <3>1, Zenon
  <2>3. CASE /\ ~(\E s \in Session : handle_read_Error(s))
             /\ ~(\E s \in Session : handle_read_Aborted(s))
    BY <2>0, <2>3, Frames
  <2>4. QED
    BY <2>1, <2>2, <2>3
<1>7. (hasChar \in [Session -> BOOLEAN])' /\ (m_isLogout \in [Session -> BOOLEAN])'
  <2>0. hasChar \in [Session -> BOOLEAN] /\ m_isLogout \in [Session -> BOOLEAN]
    BY DEF TypeOK
  <2>1. /\ \/ hasChar' = hasChar
           \/ hasChar' = [hasChar EXCEPT ![Current] = TRUE]
        /\ \/ m_isLogout' = m_isLogout
           \/ m_isLogout' = [m_isLogout EXCEPT ![Current] = TRUE]
    BY Frames DEF OnPacket_LOGIN, OnPacket_LOGOUT, UpdateCommanders_Remove
  <2>2. QED
    BY <2>0, <2>1
<1>8. /\ (m_preCommanders \in Seq(Session))'
      /\ (m_commanders \in Seq(Session))'
      /\ (m_readyDieCommanders \in Seq(Session))'
  <2>1. m_preCommanders' \in Seq(Session)
    <3>1. \/ m_preCommanders' = m_preCommanders
          \/ m_preCommanders' = <<>>
          \/ m_preCommanders' = Append(m_preCommanders, ioSession)
      BY Frames DEF handle_accept_Push, PreUpdateCommanders
    <3>2. ioSession \in Session
      BY DEF TypeOK
    <3>3. Append(m_preCommanders, ioSession) \in Seq(Session)
      BY <3>2, ListTypes, AppendFacts
    <3>4. <<>> \in Seq(Session)
      BY EmptySeq
    <3>5. QED
      BY ONLY <3>1, <3>3, <3>4, ListTypes, TypeOK
  <2>2. m_commanders' \in Seq(Session)
    <3>1. \/ m_commanders' = m_commanders
          \/ m_commanders' = m_commanders \o m_preCommanders
          \/ UpdateCommanders_Remove
      BY Frames DEF PreUpdateCommanders
    <3>2. QED
      BY <3>1, ListTypes, ConcatProperties, RemoveFacts
  <2>3. m_readyDieCommanders' \in Seq(Session)
    <3>1. \/ m_readyDieCommanders' = m_readyDieCommanders
          \/ m_readyDieCommanders # <<>>
               /\ m_readyDieCommanders' = Tail(m_readyDieCommanders)
          \/ UpdateCommanders_Remove
      BY Frames DEF UpdateCommanders_Erase
    <3>2. QED
      BY <3>1, ListTypes, TailFacts, RemoveFacts
  <2>4. QED
    BY <2>1, <2>2, <2>3
<1>9. (m_isUsingPreCommanders \in BOOLEAN)'
  <2>1. m_isUsingPreCommanders \in BOOLEAN
    BY DEF TypeOK
  <2>2. \/ m_isUsingPreCommanders' = m_isUsingPreCommanders
        \/ m_isUsingPreCommanders' = TRUE
        \/ m_isUsingPreCommanders' = FALSE
    BY Frames DEF handle_accept_Acquire, handle_accept_Push
  <2>3. QED
    BY <2>1, <2>2
<1>10. /\ (ioPc \in {"idle", "spin", "push", "post"})'
       /\ (ioSession \in Session)'
  <2>0. ioPc \in {"idle", "spin", "push", "post"} /\ ioSession \in Session
    BY DEF TypeOK
  <2>1. ioPc' = ioPc \/ ioPc' \in {"idle", "spin", "push", "post"}
    BY Frames DEF handle_accept_PostReceive, handle_accept_Acquire, handle_accept_Push,
                  handle_accept_PostAccept
  <2>2. ioSession' = ioSession \/ ioSession' \in Session
    BY Frames DEF handle_accept_PostReceive
  <2>3. QED
    BY <2>0, <2>1, <2>2
<1>11. (logicPc \in {"pre", "process", "packets", "update", "reap", "view"})'
  <2>0. logicPc \in {"pre", "process", "packets", "update", "reap", "view"}
    BY DEF TypeOK
  <2>1. \/ logicPc' = logicPc
        \/ logicPc' \in {"pre", "process", "packets", "update", "reap", "view"}
    BY Frames DEF PreUpdateCommanders_FlagTaken, PreUpdateCommanders, ProcessPacket_Take,
                  ProcessPacket_Next, ProcessPacket_End, UpdateCommanders_Reap,
                  UpdateCommanders_End, UpdateView
  <2>2. QED
    BY <2>0, <2>1
<1>12. (index \in 1..MaxSession + 1)'
  <2>1. index \in Nat /\ 1 <= index
    <3>1. index \in 1..MaxSession + 1
      BY DEF TypeOK
    <3>2. QED
      BY <3>1, SessionFacts
  <2>2. index' = index \/ index' = index + 1 \/ index' = 1
    BY Frames DEF ProcessPacket_Next, ProcessPacket_End, UpdateCommanders_Update,
                  UpdateCommanders_Reap
  <2>3. index' <= Len(m_commanders') + 1
    BY DEF Loops
  <2>4. Len(m_commanders') <= MaxSession /\ Len(m_commanders') \in Nat
    <3>1. m_commanders' \in Seq(Session) /\ Increasing(m_commanders')
      BY <1>8 DEF Lists, Increasing
    <3>2. QED
      BY <3>1, IncreasingIsShort, LenProperties
  <2>5. QED
    BY <2>1, <2>2, <2>3, <2>4, SessionFacts
<1>13. (batch \in Nat)'
  <2>0. batch \in Nat /\ inbox \in [Session -> Seq(Command)]
    BY DEF TypeOK
  <2>1. CASE ProcessPacket_Take
    <3>1. index <= Len(m_commanders) /\ batch' = Len(inbox[Current])
      BY <2>1 DEF ProcessPacket_Take, AtCommander
    <3>2. index \in 1..MaxSession + 1
      BY DEF TypeOK
    <3>3. index \in 1..Len(m_commanders)
      BY <3>1, <3>2, ListTypes, SessionFacts
    <3>4. Current \in Session
      BY <3>3, ListTypes DEF Current
    <3>5. QED
      BY <2>0, <3>1, <3>4, LenProperties
  <2>2. CASE AnyPacket
    BY <2>2, PacketFacts
  <2>3. CASE ~ProcessPacket_Take /\ ~AnyPacket
    BY <2>0, <2>3, Frames
  <2>4. QED
    BY <2>1, <2>2, <2>3
<1>14. (stale \subseteq Session)'
  <2>0. stale \subseteq Session
    BY DEF TypeOK
  <2>1. CASE UpdateCommanders_Erase
    <3>1. /\ m_readyDieCommanders # <<>>
          /\ stale' \subseteq stale \cup {Head(m_readyDieCommanders)}
      BY <2>1 DEF UpdateCommanders_Erase
    <3>2. QED
      BY <2>0, <3>1, ReapedFacts
  <2>2. CASE ~UpdateCommanders_Erase
    <3>1. stale' = stale \/ \E s \in Session : stale' = stale \ {s}
      BY <2>2, Frames DEF handle_read_Aborted
    <3>2. QED
      BY <2>0, <3>1
  <2>3. QED
    BY <2>1, <2>2
<1>15. /\ (chat \in Seq(Session))' /\ (heard \in [Session -> Seq(Session)])'
       /\ (joinedAt \in [Session -> Nat])'
  <2>1. (chat \in Seq(Session))' /\ (heard \in [Session -> Seq(Session)])'
    <3>1. CASE OnPacket_CHAT
      BY <3>1, ChatFacts
    <3>2. CASE ~OnPacket_CHAT
      BY <3>2, Frames, ChatTypes
    <3>3. QED
      BY <3>1, <3>2
  <2>2. (joinedAt \in [Session -> Nat])'
    <3>1. \/ joinedAt' = joinedAt
          \/ joinedAt' = [s \in Session |-> IF s \in ToSet(m_preCommanders)
                                              THEN Len(chat) ELSE joinedAt[s]]
      BY Frames DEF PreUpdateCommanders
    <3>2. QED
      BY <3>1, ChatTypes
  <2>3. QED
    BY <2>1, <2>2
<1>16. (crashed \in {"no", "no character", "freed session"})'
  <2>0. crashed \in {"no", "no character", "freed session"}
    BY DEF TypeOK
  <2>1. crashed' = crashed \/ crashed' \in {"no", "no character", "freed session"}
    BY Frames DEF handle_read_Freed, OnPacket_MOVE, UpdateCommanders_Update, UpdateView
  <2>2. QED
    BY <2>0, <2>1
<1>17. QED
  BY <1>1, <1>2, <1>3, <1>4, <1>5, <1>6, <1>7, <1>8, <1>9, <1>10, <1>11, <1>12, <1>13,
     <1>14, <1>15, <1>16 DEF TypeOK

(* How often something is found in a sequence that does not repeat.        *)
LEMMA Occurrences ==
  ASSUME NEW S, NEW q \in Seq(S), NEW s,
         \A i, j \in 1..Len(q) : q[i] = q[j] => i = j
  PROVE  Cardinality({i \in DOMAIN q : q[i] = s}) = IF s \in ToSet(q) THEN 1 ELSE 0
<1>1. DOMAIN q = 1..Len(q)
  BY LenProperties
<1>2. CASE s \in ToSet(q)
  <2>1. PICK k \in 1..Len(q) : q[k] = s
    BY <1>2, ToSetFacts
  <2>2. {i \in 1..Len(q) : q[i] = s} = {k}
    BY <2>1
  <2>3. QED
    BY <1>1, <1>2, <2>2, FS_Singleton
<1>3. CASE s \notin ToSet(q)
  <2>1. {i \in 1..Len(q) : q[i] = s} = {}
    BY <1>3, ToSetFacts
  <2>2. QED
    BY <1>1, <1>3, <2>1, FS_EmptySet
<1>4. QED
  BY <1>2, <1>3

(* With what the lists hold, every commander has its one reference.        *)
LEMMA PlacesSuffice == TypeOK /\ Lists => OnePlace
<1> SUFFICES ASSUME TypeOK, Lists, NEW s \in Session
             PROVE  use_count(s) = IF Listed(s) THEN 1 ELSE 0
  BY DEF OnePlace, Listed
<1> DEFINE In(q) == IF s \in ToSet(q) THEN 1 ELSE 0
<1>1. use_count(s) = In(m_preCommanders) + In(m_commanders) + In(m_readyDieCommanders)
  <2>1. /\ \A i, j \in 1..Len(m_commanders) : m_commanders[i] = m_commanders[j] => i = j
        /\ \A i, j \in 1..Len(m_preCommanders) :
             m_preCommanders[i] = m_preCommanders[j] => i = j
        /\ \A i, j \in 1..Len(m_readyDieCommanders) :
             m_readyDieCommanders[i] = m_readyDieCommanders[j] => i = j
    BY ListTypes, IncreasingIsInjective DEF Lists
  <2>2. Cardinality({i \in DOMAIN m_preCommanders : m_preCommanders[i] = s})
          = In(m_preCommanders)
    BY <2>1, ListTypes, Occurrences
  <2>3. Cardinality({i \in DOMAIN m_commanders : m_commanders[i] = s}) = In(m_commanders)
    BY <2>1, ListTypes, Occurrences
  <2>4. Cardinality({i \in DOMAIN m_readyDieCommanders : m_readyDieCommanders[i] = s})
          = In(m_readyDieCommanders)
    BY <2>1, ListTypes, Occurrences
  <2> HIDE DEF In
  <2>5. QED
    BY <2>2, <2>3, <2>4 DEF use_count, Quantify
<1>2. ~(s \in ToSet(m_commanders) /\ s \in ToSet(m_preCommanders))
  <2>1. SUFFICES ASSUME s \in ToSet(m_commanders), s \in ToSet(m_preCommanders)
                 PROVE  FALSE
    OBVIOUS
  <2>2. PICK i \in 1..Len(m_commanders) : m_commanders[i] = s
    BY <2>1, ListTypes, ToSetFacts
  <2>3. PICK j \in 1..Len(m_preCommanders) : m_preCommanders[j] = s
    BY <2>1, ListTypes, ToSetFacts
  <2>4. s < s /\ s \in Nat
    BY <2>2, <2>3, SessionFacts DEF Lists
  <2>5. QED
    BY <2>4
<1>3. /\ s \in ToSet(m_readyDieCommanders) =>
           s \notin ToSet(m_commanders) /\ s \notin ToSet(m_preCommanders)
      /\ Listed(s) <=> \/ s \in ToSet(m_commanders)
                       \/ s \in ToSet(m_preCommanders)
                       \/ s \in ToSet(m_readyDieCommanders)
  BY DEF Lists
<1>4. QED
  BY <1>1, <1>2, <1>3

(* The order of the lists is the order of the ids.                         *)
LEMMA OrderSuffices == TypeOK /\ Lists => AcceptOrder
BY ListTypes, IncreasingJoined DEF Lists, AcceptOrder, Waiting, Increasing

(* A commander that is reaped passes the tests of the loop: it is logged   *)
(* out, and the reference in m_readyDieCommanders is the last one.         *)
LEMMA ReapedCanDie ==
  ASSUME TypeOK, Lists, Loops, NEW s \in ToSet(m_readyDieCommanders)
  PROVE  m_isLogout[s] /\ use_count(s) = 1
<1>1. s \in Session /\ Listed(s)
  BY ListTypes, ToSetFacts DEF Lists
<1>2. use_count(s) = 1
  BY <1>1, PlacesSuffice DEF OnePlace, Listed
<1>3. QED
  BY <1>2 DEF Loops

-------------------------------------------------------------------------------
(* The inductive invariant.  OnePlace, AcceptOrder and ViewsHaveCharacters *)
(* follow from it; SpuriousNeedsReuse and SameConversation are part of it. *)
ServerInv ==
  /\ TypeOK
  /\ Ids
  /\ Fresh
  /\ Lists
  /\ Loops
  /\ Characters
  /\ Blocks
  /\ SpuriousNeedsReuse
  /\ Conversation
  /\ SameConversation

(* The server starts with one session, which waits for its client, and     *)
(* with empty lists.                                                       *)
LEMMA InitStep == Init => ServerInv
<1> SUFFICES ASSUME Init PROVE ServerInv
  OBVIOUS
<1>1. 1 \in Session /\ MaxSession \in Nat /\ MaxSession >= 1
  BY SessionFacts DEF Session
<1>2. (CHOOSE b \in Block : TRUE) \in Block
  <2>1. Cardinality(Block) >= MaxSession /\ IsFiniteSet(Block)
    BY BlockAssumption
  <2>2. Block # {}
    BY <1>1, <2>1, FS_EmptySet
  <2>3. QED
    BY <2>2
<1>3. /\ \A S : <<>> \in Seq(S) /\ Len(<<>>) = 0
      /\ ToSet(<<>>) = {}
  BY <1>1, EmptySeq, ToSetJoined
<1>4. \A i \in 1..Len(<<>>) : FALSE
  BY <1>3
<1>5. TypeOK
  <2>1. /\ phase \in [Session -> {"none", "pending", "open", "destroyed"}]
        /\ block \in [Session -> Block]
        /\ client \in [Session -> {"none", "new", "in", "gone"}]
        /\ net \in [Session -> Seq(Command)]
        /\ inbox \in [Session -> Seq(Command)]
        /\ heard \in [Session -> Seq(Session)]
        /\ joinedAt \in [Session -> Nat]
    BY <1>2, <1>3 DEF Init
  <2>2. /\ reading \in [Session -> BOOLEAN]
        /\ m_isDisconnected \in [Session -> BOOLEAN]
        /\ hasChar \in [Session -> BOOLEAN]
        /\ m_isLogout \in [Session -> BOOLEAN]
        /\ m_isUsingPreCommanders \in BOOLEAN
    BY DEF Init
  <2>3. /\ m_preCommanders \in Seq(Session)
        /\ m_commanders \in Seq(Session)
        /\ m_readyDieCommanders \in Seq(Session)
        /\ chat \in Seq(Session)
    BY <1>3 DEF Init
  <2>4. /\ m_newSessionID \in 0..MaxSession /\ said \in 0..MaxSay
        /\ ioSession \in Session /\ index \in 1..MaxSession + 1 /\ batch \in Nat
    BY <1>1, MaxSayAssumption DEF Init
  <2>5. /\ ioPc \in {"idle", "spin", "push", "post"}
        /\ logicPc \in {"pre", "process", "packets", "update", "reap", "view"}
        /\ stale \subseteq Session
        /\ crashed \in {"no", "no character", "freed session"}
    BY DEF Init
  <2>6. QED
    BY <2>1, <2>2, <2>3, <2>4, <2>5 DEF TypeOK
<1>6. Ids
  BY <1>1, SessionFacts DEF Init, Ids
<1>7. Fresh
  BY DEF Init, Fresh
<1>8. Lists
  <2>1. m_commanders = <<>> /\ m_preCommanders = <<>> /\ m_readyDieCommanders = <<>>
    BY DEF Init
  <2>2. \A s \in Session : ~Listed(s)
    BY DEF Init, Listed
  <2>3. QED
    BY <1>3, <1>4, <2>1, <2>2 DEF Lists, Increasing
<1>9. Loops
  BY <1>3 DEF Init, Loops
<1>10. Characters
  BY DEF Init, Characters
<1>11. Blocks
  <2>1. SUFFICES ASSUME NEW s \in Session, NEW t \in Session, s < t,
                        phase[t] # "none"
                 PROVE  FALSE
    BY DEF Blocks
  <2>2. t = 1 /\ s \in Nat /\ 1 <= s
    BY <2>1, SessionFacts DEF Init
  <2>3. QED
    BY <2>1, <2>2
<1>12. SpuriousNeedsReuse
  BY DEF Init, SpuriousNeedsReuse
<1>13. Conversation
  BY <1>3 DEF Init, Conversation
<1>14. SameConversation
  <2>1. SubSeq(<<>>, 0 + 1, 0 + 0) = <<>>
    BY <1>1, <1>3, PartElements
  <2>2. /\ chat = <<>> /\ ToSet(m_commanders) = {}
        /\ \A s \in Session : heard[s] = <<>> /\ joinedAt[s] = 0
    BY <1>3 DEF Init
  <2>3. QED
    BY <1>3, <2>1, <2>2 DEF SameConversation
<1>15. QED
  BY <1>5, <1>6, <1>7, <1>8, <1>9, <1>10, <1>11, <1>12, <1>13, <1>14 DEF ServerInv

(* Every step of the two threads and the clients keeps the invariant.      *)
LEMMA NextStep == ServerInv /\ [Next]_vars => ServerInv'
<1> SUFFICES ASSUME ServerInv, [Next]_vars PROVE ServerInv'
  OBVIOUS
<1>1. CASE Next
  <2>1. /\ TypeOK /\ Ids /\ Fresh /\ Lists /\ Loops /\ Characters /\ Blocks
        /\ SpuriousNeedsReuse /\ Conversation /\ SameConversation
    BY DEF ServerInv
  <2>2. Ids' /\ Fresh' /\ Lists' /\ Loops' /\ Characters' /\ Blocks'
    BY <1>1, <2>1, IdsStep, FreshStep, ListsStep, LoopsStep, CharactersStep, BlocksStep
  <2>3. TypeOK'
    BY <1>1, <2>1, <2>2, TypeStep
  <2>4. SpuriousNeedsReuse' /\ Conversation' /\ SameConversation'
    BY <1>1, <2>1, SpuriousStep, ConversationStep
  <2>5. QED
    BY <2>2, <2>3, <2>4 DEF ServerInv
<1>2. CASE UNCHANGED vars
  <2> USE <1>2 DEF ServerInv, vars, clientVars, memVars, recvVars, comVars, listVars,
                   ioVars, tickVars, chatVars
  <2>1. TypeOK'
    BY DEF TypeOK
  <2>2. Ids' /\ Fresh' /\ Blocks'
    BY DEF Ids, Fresh, Blocks
  <2>3. Lists'
    BY DEF Lists, Increasing, Listed
  <2>4. Loops' /\ Characters'
    BY DEF Loops, Characters, Up
  <2>5. SpuriousNeedsReuse'
    BY DEF SpuriousNeedsReuse
  <2>6. Conversation' /\ SameConversation'
    BY DEF Conversation, SameConversation, Listed
  <2>7. QED
    BY <2>1, <2>2, <2>3, <2>4, <2>5, <2>6
<1>3. QED
  BY <1>1, <1>2

-------------------------------------------------------------------------------
(* The invariant holds in every state of every run of the server.          *)
THEOREM ServerInvCorrect == Spec => []ServerInv
<1>1. QED
  BY InitStep, NextStep, PTL DEF Spec

(* Type correctness.                                                       *)
THEOREM TypeCorrect == Spec => []TypeOK
<1>1. ServerInv => TypeOK
  BY DEF ServerInv
<1>2. QED
  BY <1>1, ServerInvCorrect, PTL

(* Every connected client has its commander in exactly one of the three    *)
(* lists, once, and nobody else is in any: use_count() tells the truth.    *)
THEOREM OnePlaceCorrect == Spec => []OnePlace
<1>1. ServerInv => OnePlace
  BY PlacesSuffice DEF ServerInv
<1>2. QED
  BY <1>1, ServerInvCorrect, PTL

(* Commanders are served in the order in which handle_accept let them in.  *)
THEOREM AcceptOrderCorrect == Spec => []AcceptOrder
<1>1. ServerInv => AcceptOrder
  BY OrderSuffices DEF ServerInv
<1>2. QED
  BY <1>1, ServerInvCorrect, PTL

(* UpdateView never finds a commander without a character.                 *)
THEOREM ViewsHaveCharactersCorrect == Spec => []ViewsHaveCharacters
<1>1. ServerInv => ViewsHaveCharacters
  BY CharactersSuffice DEF ServerInv
<1>2. QED
  BY <1>1, ServerInvCorrect, PTL

(* A session with a client is marked disconnected only by the late read    *)
(* handler of an older session whose memory it got.                        *)
THEOREM SpuriousNeedsReuseCorrect == Spec => []SpuriousNeedsReuse
<1>1. ServerInv => SpuriousNeedsReuse
  BY DEF ServerInv
<1>2. QED
  BY <1>1, ServerInvCorrect, PTL

(* Everybody who is served hears the same conversation, from the tick it   *)
(* joined and without gaps.                                                *)
THEOREM SameConversationCorrect == Spec => []SameConversation
<1>1. ServerInv => SameConversation
  BY DEF ServerInv
<1>2. QED
  BY <1>1, ServerInvCorrect, PTL

(* What the loop of UpdateCommanders that destroys sessions waits for.     *)
ReapingGoesOn ==
  logicPc = "reap" =>
    \A s \in ToSet(m_readyDieCommanders) : m_isLogout[s] /\ use_count(s) = 1

(* That loop is never stuck at a session that somebody else still holds,   *)
(* or that is not logged out.                                              *)
THEOREM ReapingGoesOnCorrect == Spec => []ReapingGoesOn
<1>1. ServerInv => ReapingGoesOn
  BY ReapedCanDie DEF ServerInv, ReapingGoesOn
<1>2. QED
  BY <1>1, ServerInvCorrect, PTL

(* While packets are processed nobody joins or leaves m_commanders.        *)
THEOREM StableWhileProcessingCorrect == Spec => StableWhileProcessing
<1>1. [Next]_vars =>
        [(logicPc \in {"process", "packets"}) => (m_commanders' = m_commanders)]_vars
  <2>1. SUFFICES ASSUME [Next]_vars, logicPc \in {"process", "packets"}
                 PROVE  m_commanders' = m_commanders
    OBVIOUS
  <2>2. CASE Next
    <3>1. PreUpdateCommanders \/ UpdateCommanders_Remove \/ m_commanders' = m_commanders
      BY <2>2, Frames
    <3>2. QED
      BY <2>1, <3>1 DEF PreUpdateCommanders, UpdateCommanders_Remove, AtCommander
  <2>3. CASE UNCHANGED vars
    BY <2>3 DEF vars, listVars
  <2>4. QED
    BY <2>1, <2>2, <2>3
<1>2. QED
  BY <1>1, PTL DEF Spec, StableWhileProcessing
===============================================================================
