------------------------------ MODULE SenseLag ------------------------------
(***************************************************************************)
(* SenseWindow with two history variables: how long the vote takes to      *)
(* follow the pin, and how long a preload holds against it.                *)
(***************************************************************************)
EXTENDS SenseWindow

VARIABLES warmed,  \* target of the last preload; "none" before the first
          age,     \* polls since that preload, up to Window
          level,   \* the last sample ...
          steady   \* ... and how many samples in a row were equal to it,
                   \* up to Window

lagVars == <<window, voted, warmed, age, level, steady>>

UpTo(n) == IF n < Window THEN n + 1 ELSE Window

NothingSeen == warmed = "none" /\ age = 0 /\ level = 1 /\ steady = Window

LagInit == Init /\ NothingSeen

PollSeen(raw) == /\ level' = raw
                 /\ steady' = (IF raw = level THEN UpTo(steady) ELSE 1)
                 /\ age' = UpTo(age)
                 /\ UNCHANGED warmed

WarmUpSeen(on) == /\ warmed' = (IF on THEN "on" ELSE "off")
                  /\ age' = 0
                  /\ steady' = 0
                  /\ UNCHANGED level

LagPoll(raw) == Poll(raw) /\ PollSeen(raw)

LagWarmUp(on) == WarmUp(on) /\ WarmUpSeen(on)

LagNext == \/ \E raw \in Samples : LagPoll(raw)
           \/ \E on \in BOOLEAN : LagWarmUp(on)

LagSpec == LagInit /\ [][LagNext]_lagVars

\* A pin that stays at one level wins the vote: after Threshold LOW samples
\* (800 ms) the heater is voted ON, after Window - Threshold + 1 HIGH samples
\* (300 ms) it is voted OFF, whatever was sampled or preloaded before.
SteadyPinWins ==
  /\ level = 0 /\ steady >= Threshold => voted
  /\ level = 1 /\ steady > Window - Threshold => ~voted

\* A preload holds its vote against any samples for as long as the vote can
\* afford wrong ones: Window - Threshold polls (200 ms) for ON, Threshold - 1
\* polls (700 ms) for OFF.
PreloadHolds ==
  /\ warmed = "on" /\ age <= Window - Threshold => voted
  /\ warmed = "off" /\ age < Threshold => ~voted
=============================================================================
