------------------------------ MODULE MCSense ------------------------------
(***************************************************************************)
(* The register of the code beside SenseLag, whose window and vote are     *)
(* those of the register: what SenseLag promises of them is checked of     *)
(* mSenseHistory and mVotedIsOn.                                           *)
(***************************************************************************)
EXTENDS SenseHistory, SenseLag

mcVars == <<mSenseHistory, mVotedIsOn, lagVars>>

MCInit ==
  /\ RegisterInit
  /\ NothingSeen
  /\ window = WindowOf(mSenseHistory)
  /\ voted = mVotedIsOn

MCNext ==
  /\ \/ \E raw \in Samples : SensingPoll(raw) /\ PollSeen(raw)
     \/ \E on \in BOOLEAN : InitiateAction(on) /\ WarmUpSeen(on)
  /\ window' = WindowOf(mSenseHistory')
  /\ voted' = mVotedIsOn'

MCSpec == MCInit /\ [][MCNext]_mcVars
=============================================================================
