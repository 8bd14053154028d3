----------------------------- MODULE MCJClientBot -----------------------------
(* JClientBot on a short line.  The two the observer may see can have one  *)
(* name, and one of them can be called "None", the name of an empty slot.  *)
EXTENDS JClientBot

MCDistance == {1}
MCGarbage  ==
  {MovePacket(1),
   [command |-> "VIEW", slots |-> <<[name |-> "bot1", position |-> 1],
                                    [name |-> "None", position |-> 0]>>]}
MCName     == <<{"bot0"}, {"bot1", "None"}, {"bot1"}>>
===============================================================================
