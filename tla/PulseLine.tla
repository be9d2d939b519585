----------------------------- MODULE PulseLine -----------------------------
(***************************************************************************)
(* What a pulsed output pin promises, whatever drives it: a pulse starts   *)
(* only on a released pin, holds it LOW for exactly Width ticks of the     *)
(* clock, and ends with the pin released again.  Only a loss of power cuts *)
(* a pulse short.                                                          *)
(***************************************************************************)
EXTENDS Naturals

CONSTANT Width  \* ticks a pulse lasts

VARIABLES pin,  \* "hiz": released (input), "low": driven
          left  \* ticks the current pulse still has to last

Init == /\ pin = "hiz"
        /\ left = 0

Start == /\ pin = "hiz"
         /\ pin' = "low"
         /\ left' = Width

Elapse == /\ pin = "low"
          /\ left > 0
          /\ left' = left - 1
          /\ UNCHANGED pin

Finish == /\ pin = "low"
          /\ left = 0
          /\ pin' = "hiz"
          /\ UNCHANGED left

PowerCut == /\ pin' = "hiz"
            /\ left' = 0

Next == Start \/ Elapse \/ Finish \/ PowerCut

Spec == Init /\ [][Next]_<<pin, left>>
=============================================================================
