--------------------------- MODULE SenseLagProofs ---------------------------
(***************************************************************************)
(* The promises of the vote, for every Window and Threshold.               *)
(***************************************************************************)
EXTENDS SenseLag, SenseVoteProofs

LagTypeOK == /\ TypeOK
             /\ warmed \in {"none", "on", "off"}
             /\ age \in 0..Window
             /\ level \in Samples
             /\ steady \in 0..Window

\* The part of the window no poll has reached since the preload is still the
\* preload; the newest samples are the steady ones.
PreloadLeft ==
  /\ warmed = "on"  => \A i \in age..(Window - 1) : window[i] = 0
  /\ warmed = "off" => \A i \in age..(Window - 1) : window[i] = 1

SteadyHead == \A i \in 0..(steady - 1) : window[i] = level

LagInv == LagTypeOK /\ PreloadLeft /\ SteadyHead /\ VoteOfWindow

-----------------------------------------------------------------------------
\* A preload is what its own vote says.
LEMMA WarmVote ==
  ASSUME NEW on \in BOOLEAN
  PROVE  Vote(WarmHistory(on)) <=> on
<1>1. WarmHistory(on) \in History
  BY WarmHistoryType
<1>2. LowCount(WarmHistory(on)) \in Nat
  BY <1>1, VoteType
<1>3. CASE on
  <2>1. \A i \in 0..(Window - 1) : WarmHistory(on)[i] = 0
    BY <1>3 DEF WarmHistory, Positions
  <2>2. LowCount(WarmHistory(on)) >= Window - 0
    BY <1>1, <2>1, LowTail, VoteAssumption
  <2>3. LowCount(WarmHistory(on)) >= Threshold
    BY <1>2, <2>2, VoteAssumption
  <2> QED
    BY <1>3, <2>3 DEF Vote
<1>4. CASE ~on
  <2>1. \A i \in 0..(Window - 1) : WarmHistory(on)[i] = 1
    BY <1>4 DEF WarmHistory, Positions
  <2>2. LowCount(WarmHistory(on)) <= 0
    BY <1>1, <2>1, HighTail, VoteAssumption
  <2>3. ~(LowCount(WarmHistory(on)) >= Threshold)
    BY <1>2, <2>2, VoteAssumption
  <2> QED
    BY <1>4, <2>3 DEF Vote
<1> QED
  BY <1>3, <1>4

LEMMA LagInit_LagInv == LagInit => LagInv
<1> SUFFICES ASSUME LagInit PROVE LagInv
  OBVIOUS
<1> USE DEF LagInit, NothingSeen, Init
<1>1. window \in History /\ voted = Vote(window)
  <2>1. WarmHistory(FALSE) \in History
    BY WarmHistoryType
  <2>2. Vote(WarmHistory(FALSE)) \in BOOLEAN
    BY <2>1, VoteType
  <2>3. ~Vote(WarmHistory(FALSE))
    BY WarmVote
  <2> QED
    BY <2>1, <2>2, <2>3, Zenon
<1>2. LagTypeOK
  <2>1. window \in History
    BY WarmHistoryType
  <2>2. voted \in BOOLEAN
    OBVIOUS
  <2>3. age \in 0..Window /\ steady \in 0..Window /\ level \in Samples
    BY VoteAssumption DEF Samples
  <2> QED
    BY <2>1, <2>2, <2>3, Zenon DEF LagTypeOK, TypeOK
<1>3. PreloadLeft /\ SteadyHead
  BY VoteAssumption DEF PreloadLeft, SteadyHead, WarmHistory, Positions
<1> QED
  BY <1>1, <1>2, <1>3 DEF LagInv, VoteOfWindow

LEMMA LagPoll_LagInv ==
  ASSUME LagInv, NEW raw \in Samples, LagPoll(raw)
  PROVE  LagInv'
<1> USE DEF LagInv, LagTypeOK, TypeOK, LagPoll, Poll, PollSeen
<1>1. window' \in History
  BY ShiftInType
<1>2. voted' \in BOOLEAN /\ voted' = Vote(window')
  BY <1>1, VoteType
<1>3. age' \in 0..Window /\ steady' \in 0..Window
  BY VoteAssumption DEF UpTo
<1>4. /\ window'[0] = raw
      /\ \A i \in 1..(Window - 1) : window'[i] = window[i - 1]
  BY VoteAssumption DEF ShiftIn, Positions
<1>5. PreloadLeft'
  BY <1>3, <1>4, VoteAssumption DEF PreloadLeft, UpTo
<1>6. SteadyHead'
  BY <1>3, <1>4, VoteAssumption DEF SteadyHead, UpTo
<1> QED
  BY <1>1, <1>2, <1>3, <1>5, <1>6 DEF VoteOfWindow

LEMMA LagWarmUp_LagInv ==
  ASSUME LagInv, NEW on \in BOOLEAN, LagWarmUp(on)
  PROVE  LagInv'
<1> USE DEF LagInv, LagTypeOK, TypeOK, LagWarmUp, WarmUp, WarmUpSeen
<1>1. window' \in History /\ voted' = Vote(window')
  <2>1. WarmHistory(on) \in History
    BY WarmHistoryType
  <2>2. Vote(WarmHistory(on)) \in BOOLEAN
    BY <2>1, VoteType
  <2>3. Vote(WarmHistory(on)) = on
    BY <2>2, WarmVote, Zenon
  <2> QED
    BY <2>1, <2>3, Zenon
<1>2. age' \in 0..Window /\ steady' \in 0..Window
  BY VoteAssumption
<1>3. PreloadLeft'
  BY VoteAssumption DEF PreloadLeft, WarmHistory, Positions
<1>4. SteadyHead'
  BY DEF SteadyHead
<1> QED
  BY <1>1, <1>2, <1>3, <1>4 DEF VoteOfWindow

LEMMA LagSpec_LagInv == LagSpec => []LagInv
<1>1. ASSUME LagInv, [LagNext]_lagVars
      PROVE  LagInv'
  <2>1. ASSUME NEW raw \in Samples, LagPoll(raw)
        PROVE  LagInv'
    BY <1>1, <2>1, LagPoll_LagInv
  <2>2. ASSUME NEW on \in BOOLEAN, LagWarmUp(on)
        PROVE  LagInv'
    BY <1>1, <2>2, LagWarmUp_LagInv
  <2>3. CASE UNCHANGED lagVars
    BY <1>1, <2>3 DEF LagInv, LagTypeOK, TypeOK, PreloadLeft, SteadyHead,
                      VoteOfWindow, lagVars
  <2> QED
    BY <1>1, <2>1, <2>2, <2>3 DEF LagNext
<1> QED
  BY <1>1, LagInit_LagInv, PTL DEF LagSpec

-----------------------------------------------------------------------------
\* mVotedIsOn is the vote of mSenseHistory, whatever is polled and preloaded
\* (the stores of InitiateAction taken together).
THEOREM LagSpec_VoteOfWindow == LagSpec => []VoteOfWindow
BY LagSpec_LagInv, PTL DEF LagInv

\* The delay of the vote is bounded on both sides: Threshold equal LOW samples
\* vote ON, Window - Threshold + 1 equal HIGH samples vote OFF.
THEOREM LagSpec_SteadyPinWins == LagSpec => []SteadyPinWins
<1>1. ASSUME LagInv PROVE SteadyPinWins
  <2> USE <1>1 DEF LagInv, LagTypeOK, TypeOK, VoteOfWindow
  <2>1. window \in History /\ LowCount(window) \in Nat
    BY VoteType
  <2>4. voted <=> LowCount(window) >= Threshold
    BY DEF Vote
  <2>2. ASSUME level = 0, steady >= Threshold PROVE voted
    <3>1. LowCount(window) >= steady
      BY <2>1, <2>2, LowHead DEF SteadyHead
    <3> QED
      BY ONLY <2>1, <2>2, <2>4, <3>1, VoteAssumption, <1>1 DEF LagInv, LagTypeOK
  <2>3. ASSUME level = 1, steady > Window - Threshold PROVE ~voted
    <3>1. LowCount(window) <= Window - steady
      BY <2>1, <2>3, HighHead DEF SteadyHead
    <3> QED
      BY ONLY <2>1, <2>3, <2>4, <3>1, VoteAssumption, <1>1 DEF LagInv, LagTypeOK
  <2> QED
    BY <2>2, <2>3 DEF SteadyPinWins
<1> QED
  BY <1>1, LagSpec_LagInv, PTL

\* A preload outlasts any samples for Window - Threshold polls if it says ON,
\* and for Threshold - 1 polls if it says OFF.
THEOREM LagSpec_PreloadHolds == LagSpec => []PreloadHolds
<1>1. ASSUME LagInv PROVE PreloadHolds
  <2> USE <1>1 DEF LagInv, LagTypeOK, TypeOK, VoteOfWindow
  <2>1. window \in History /\ LowCount(window) \in Nat
    BY VoteType
  <2>4. voted <=> LowCount(window) >= Threshold
    BY DEF Vote
  <2>2. ASSUME warmed = "on", age <= Window - Threshold PROVE voted
    <3>1. LowCount(window) >= Window - age
      BY <2>1, <2>2, LowTail DEF PreloadLeft
    <3> QED
      BY ONLY <2>1, <2>2, <2>4, <3>1, VoteAssumption, <1>1 DEF LagInv, LagTypeOK
  <2>3. ASSUME warmed = "off", age < Threshold PROVE ~voted
    <3>1. LowCount(window) <= age
      BY <2>1, <2>3, HighTail DEF PreloadLeft
    <3> QED
      BY ONLY <2>1, <2>3, <2>4, <3>1, VoteAssumption, <1>1 DEF LagInv, LagTypeOK
  <2> QED
    BY <2>2, <2>3 DEF PreloadHolds
<1> QED
  BY <1>1, LagSpec_LagInv, PTL
=============================================================================
