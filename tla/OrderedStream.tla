---------------------------- MODULE OrderedStream ----------------------------
(***************************************************************************)
(* What one direction of a connection promises its user: a packet is       *)
(* delivered whole, exactly once and in the order in which it was          *)
(* accepted, for as long as the connection is not broken.  The sending     *)
(* side of JSession implements it (see JSessionSend).                      *)
(***************************************************************************)
EXTENDS Naturals, Sequences

CONSTANT Packet         \* the packets a user may hand over

VARIABLES
  accepted,             \* every packet handed over, in order
  delivered,            \* every packet delivered, in order
  broken                \* no more packets will be delivered

vars == <<accepted, delivered, broken>>

TypeOK ==
  /\ accepted \in Seq(Packet)
  /\ delivered \in Seq(Packet)
  /\ broken \in BOOLEAN

Init ==
  /\ accepted = <<>>
  /\ delivered = <<>>
  /\ broken = FALSE

(* The user hands over a packet; a broken stream swallows it silently.     *)
Accept ==
  /\ \E p \in Packet : accepted' = Append(accepted, p)
  /\ UNCHANGED <<delivered, broken>>

(* The first packet that was accepted and not yet delivered is delivered.  *)
Deliver ==
  /\ ~broken
  /\ Len(delivered) < Len(accepted)
  /\ delivered' = Append(delivered, accepted[Len(delivered) + 1])
  /\ UNCHANGED <<accepted, broken>>

(* The connection is lost for good.                                        *)
Break ==
  /\ ~broken
  /\ broken' = TRUE
  /\ UNCHANGED <<accepted, delivered>>

Next == Accept \/ Deliver \/ Break

SafeSpec == Init /\ [][Next]_vars

Spec == SafeSpec /\ WF_vars(Deliver)
==============================================================================
