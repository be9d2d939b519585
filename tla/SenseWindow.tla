---------------------------- MODULE SenseWindow ----------------------------
(***************************************************************************)
(* What the sensing of AppTask promises: a vote over the last Window       *)
(* samples of the sense pin, which an action may preload with the outcome  *)
(* it wants.  The shift register and the counting loop that compute it are *)
(* in SenseHistory, which implements this module.                          *)
(***************************************************************************)
EXTENDS SenseVote

VARIABLES window,  \* the samples in the window, newest at position 0
          voted    \* outcome of the last vote, or of the last preload

Init == /\ window = WarmHistory(FALSE)
        /\ voted = FALSE

\* A poll of the pin, SensingPollHandler.
Poll(raw) == /\ window' = ShiftIn(window, raw)
             /\ voted' = Vote(window')

\* The preload of InitiateAction.
WarmUp(on) == /\ window' = WarmHistory(on)
              /\ voted' = on

Next == \/ \E raw \in Samples : Poll(raw)
        \/ \E on \in BOOLEAN : WarmUp(on)

Spec == Init /\ [][Next]_<<window, voted>>

TypeOK == window \in History /\ voted \in BOOLEAN

\* mVotedIsOn is the vote of mSenseHistory at all times, preloads included:
\* the preload of InitiateAction is what its own vote would have said.
VoteOfWindow == voted = Vote(window)
=============================================================================
