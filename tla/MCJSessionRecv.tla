---------------------------- MODULE MCJSessionRecv ----------------------------
(***************************************************************************)
(* JSessionRecv on small buffers.  The code's sizes keep their ratios: the *)
(* receive buffer starts at twice RECV_BUF_SIZE and doubles, the process   *)
(* buffer has four times RECV_BUF_SIZE.  Every packet the server knows fits*)
(* RECV_BUF_SIZE (the longest, PKS_CS_CHAT, has 136 bytes of 1024); one it *)
(* lacks may be longer.  A header takes two bytes, so that a read can end  *)
(* inside it as well as inside a body.                                     *)
(*                                                                         *)
(* A client sends up to two packets of any kinds, or more chat lines       *)
(* between two ticks than the process buffer holds.                        *)
(***************************************************************************)
EXTENDS JSessionRecv

Logout  == [size |-> 2, known |-> TRUE, logout |-> TRUE]   \* only a header
Chat    == [size |-> 3, known |-> TRUE, logout |-> FALSE]  \* header and body
Unknown == [size |-> 3, known |-> FALSE, logout |-> FALSE] \* the server lacks it
Long    == [size |-> 5, known |-> FALSE, logout |-> FALSE] \* and it is long

MCPacket == {Logout, Chat, Unknown, Long}

Flood == <<Chat, Chat, Chat, Logout, Logout>>

(* The stream a client makes of some packets.                              *)
StreamOf(s) ==
  LET first[i \in 1..Len(s)] == IF i = 1 THEN 1 ELSE first[i - 1] + s[i - 1].size
  IN [i \in 1..Len(s) |->
        [first |-> first[i], size |-> s[i].size, known |-> s[i].known,
         logout |-> s[i].logout]]

MCScript ==
  {StreamOf(s) : s \in {<<p>> : p \in MCPacket}
                        \cup {<<p, q>> : p, q \in MCPacket} \cup {Flood}}
===============================================================================
