------------------------------- MODULE JTickLoop ------------------------------
(***************************************************************************)
(* The loop of ServerLogicThread (JChatServer.cpp): it reads the clock,    *)
(* adds what has passed to "delta", runs one tick for every nsPerTick in   *)
(* it and sleeps.  What a tick does is left to the modules that use this   *)
(* one: their steps lie between Loop_Update and Loop_Done.                 *)
(*                                                                         *)
(* Times are in nanoseconds, and delta is kept in them too (the code keeps *)
(* delta / nsPerTick in a double; nsPerTick is a quotient of floats, whose *)
(* value 83333336 is a whole number).  The clock is the system's: it can   *)
(* be set, back as well, and its differences are unsigned.                 *)
(***************************************************************************)
EXTENDS Integers

CONSTANTS
  NsPerTick,            \* nsPerTick
  Wrap,                 \* how many values a uint64_t has
  StartTime             \* the clock when the thread starts

ASSUME NsPerTickAssumption == NsPerTick \in Nat \ {0}
ASSUME WrapAssumption == Wrap \in Nat \ {0} /\ StartTime \in 0..Wrap - 1

VARIABLES
  lastTime,             \* the clock when it was last read
  delta,                \* how far the ticks are behind the clock
  tickCount,            \* JTickClass::tickCount
  loopPc,               \* where the loop is
  wraps                 \* history: how often the difference wrapped around

loopVars == <<lastTime, delta, tickCount, loopPc, wraps>>

LoopTypeOK ==
  /\ lastTime \in 0..Wrap - 1
  /\ delta \in Nat
  /\ tickCount \in Nat
  /\ loopPc \in {"sleep", "while", "body"}
  /\ wraps \in Nat

LoopInit ==
  /\ lastTime = StartTime
  /\ delta = 0
  /\ tickCount = 0
  /\ loopPc = "sleep"
  /\ wraps = 0

(* now - lastTime, of type uint64_t                                        *)
Passed(now) == IF now < lastTime THEN now - lastTime + Wrap ELSE now - lastTime

(* The clock is read: it may show any time.                                *)
Loop_Now ==
  /\ loopPc = "sleep"
  /\ \E now \in 0..Wrap - 1 :
       /\ delta' = delta + Passed(now)
       /\ wraps' = IF now < lastTime THEN wraps + 1 ELSE wraps
       /\ lastTime' = now
  /\ loopPc' = "while"
  /\ UNCHANGED tickCount

(* delta >= 1: tick.Update()                                               *)
Loop_Update ==
  /\ loopPc = "while"
  /\ delta >= NsPerTick
  /\ tickCount' = tickCount + 1
  /\ loopPc' = "body"
  /\ UNCHANGED <<lastTime, delta, wraps>>

(* Mutant: a tick makes up for all of the delay.                           *)
Loop_Done_Reset ==
  /\ loopPc = "body"
  /\ delta' = 0
  /\ loopPc' = "while"
  /\ UNCHANGED <<lastTime, tickCount, wraps>>

(* delta--                                                                 *)
Loop_Done ==
  /\ loopPc = "body"
  /\ delta' = delta - NsPerTick
  /\ loopPc' = "while"
  /\ UNCHANGED <<lastTime, tickCount, wraps>>

(* sleep_for(2 ms)                                                         *)
Loop_Sleep ==
  /\ loopPc = "while"
  /\ delta < NsPerTick
  /\ loopPc' = "sleep"
  /\ UNCHANGED <<lastTime, delta, tickCount, wraps>>

LoopNext == Loop_Now \/ Loop_Update \/ Loop_Done \/ Loop_Sleep

LoopSpec == LoopInit /\ [][LoopNext]_loopVars

-------------------------------------------------------------------------------
(* As long as the clock was never found set back, the ticks keep pace with *)
(* it: whenever the loop sleeps, exactly as many have run as fit in the    *)
(* time since the start; none is lost and none comes early, however late   *)
(* the loop wakes up, how often it does and how far the clock is set       *)
(* forward.  (The 12 frames a second of JChatServer.cpp:75.)  A clock set  *)
(* back breaks the pace for good: the unsigned difference adds nearly Wrap *)
(* to delta, and Wrap \div NsPerTick ticks run that no time paid for.      *)
KeepsPace ==
  loopPc = "sleep" /\ wraps = 0 =>
    /\ tickCount * NsPerTick <= lastTime - StartTime
    /\ lastTime - StartTime < (tickCount + 1) * NsPerTick

(* All that Loop_Now has added to delta: what the clock shows to have      *)
(* passed, and Wrap too much for every time it was found set back.         *)
Added == lastTime - StartTime + wraps * Wrap

(* The invariant behind it: ticks run and time owed make up what was added.*)
(* A tick that is under way is counted and not yet paid for.               *)
Balanced ==
  /\ loopPc # "body" => tickCount * NsPerTick + delta = Added
  /\ loopPc = "body" =>
       delta >= NsPerTick /\ (tickCount - 1) * NsPerTick + delta = Added
  /\ loopPc = "sleep" => delta < NsPerTick

LoopInv == LoopTypeOK /\ Balanced
===============================================================================
