----------------------------- MODULE SenseVote -----------------------------
(***************************************************************************)
(* The vote of AppTask over the last samples of the heater's sense pin     *)
(* (src/src/app_task.cpp, SensingPollHandler and InitiateAction).          *)
(*                                                                         *)
(* The code keeps the samples in a shift register, newest sample in bit 0, *)
(* and looks at its low Window bits only.  A history is here the function  *)
(* of those bits; SenseHistory relates it to the uint16_t of the code.     *)
(* A sample is the raw level of the pin: 0 (LOW) means the heater is on.   *)
(*                                                                         *)
(* A definition whose comment begins with "Fault", here and in the other   *)
(* modules, is a plausible bug in the definition after it; the runs show   *)
(* that a property notices it, and no specification uses it.               *)
(***************************************************************************)
EXTENDS Integers, FiniteSets

CONSTANTS Window,     \* samples that take part in the vote (10 in the code)
          Threshold   \* LOW samples that make the vote ON   (8 in the code)

ASSUME VoteAssumption == /\ Window \in Nat
                         /\ Threshold \in 1..Window

Samples   == {0, 1}
Positions == 0..(Window - 1)
History   == [Positions -> Samples]

\* mSenseHistory = (mSenseHistory << 1) | rawValue, seen through the window.
ShiftIn(h, raw) == [i \in Positions |-> IF i = 0 THEN raw ELSE h[i - 1]]

\* The loop that counts how many of the last Window samples are LOW.
LowCount(h) == Cardinality({i \in Positions : h[i] = 0})

\* "Only if 8/10 are LOW do we say ON. Else OFF."
Vote(h) == LowCount(h) >= Threshold

\* The history InitiateAction preloads: all LOW for ON, all HIGH for OFF.
WarmHistory(on) == [i \in Positions |-> IF on THEN 0 ELSE 1]

\* What a level of the sense pin says about the heater.
HeaterOn(level) == level = 0
=============================================================================
