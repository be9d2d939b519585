-------------------------- MODULE SenseVoteProofs --------------------------
(***************************************************************************)
(* Facts about the vote of SenseVote for every Window and Threshold.       *)
(***************************************************************************)
EXTENDS SenseVote, FiniteSetTheorems, TLAPS

\* Shifting a sample in keeps the history one of Window samples.
LEMMA ShiftInType ==
  ASSUME NEW h \in History, NEW raw \in Samples
  PROVE  ShiftIn(h, raw) \in History
<1>1. ASSUME NEW i \in Positions
      PROVE  (IF i = 0 THEN raw ELSE h[i - 1]) \in Samples
  <2>1. CASE i = 0
    BY <2>1
  <2>2. CASE i # 0
    <3>1. i - 1 \in Positions
      BY <2>2, VoteAssumption DEF Positions
    <3> QED
      BY <2>2, <3>1 DEF History
  <2> QED
    BY <2>1, <2>2
<1> QED
  BY <1>1 DEF ShiftIn, History

\* The preload is a history.
LEMMA WarmHistoryType ==
  ASSUME NEW on \in BOOLEAN
  PROVE  WarmHistory(on) \in History
BY DEF WarmHistory, History, Samples

\* The window has Window positions.
LEMMA PositionsFinite ==
  IsFiniteSet(Positions) /\ Cardinality(Positions) = Window
<1>1. /\ IsFiniteSet(0..(Window - 1))
      /\ Cardinality(0..(Window - 1)) =
           IF 0 > Window - 1 THEN 0 ELSE (Window - 1) - 0 + 1
  BY FS_Interval, VoteAssumption
<1> QED
  BY <1>1, VoteAssumption DEF Positions

\* A vote is a Boolean: the number of LOW samples is a number.
LEMMA VoteType ==
  ASSUME NEW h \in History
  PROVE  LowCount(h) \in Nat /\ Vote(h) \in BOOLEAN
<1>1. IsFiniteSet({i \in Positions : h[i] = 0})
  BY PositionsFinite, FS_Subset
<1> QED
  BY <1>1, FS_CardinalityType, VoteAssumption DEF LowCount, Vote

\* Samples that are all LOW from position n on are at least Window - n LOW
\* samples ...
LEMMA LowTail ==
  ASSUME NEW h \in History, NEW n \in 0..Window,
         \A i \in n..(Window - 1) : h[i] = 0
  PROVE  LowCount(h) >= Window - n
<1> DEFINE Low == {i \in Positions : h[i] = 0}
<1>1. IsFiniteSet(Low) /\ Cardinality(Low) \in Nat
  BY PositionsFinite, FS_Subset, FS_CardinalityType
<1>2. n..(Window - 1) \subseteq Low
  BY VoteAssumption DEF Positions
<1>3. Cardinality(n..(Window - 1)) <= Cardinality(Low)
  BY <1>1, <1>2, FS_Subset
<1>4. Cardinality(n..(Window - 1)) =
        IF n > Window - 1 THEN 0 ELSE (Window - 1) - n + 1
  BY FS_Interval, VoteAssumption
<1> QED
  BY <1>1, <1>3, <1>4, VoteAssumption DEF LowCount

\* ... and samples that are all HIGH from position n on leave at most n.
LEMMA HighTail ==
  ASSUME NEW h \in History, NEW n \in 0..Window,
         \A i \in n..(Window - 1) : h[i] = 1
  PROVE  LowCount(h) <= n
<1> DEFINE Low == {i \in Positions : h[i] = 0}
<1>1. Low \subseteq 0..(n - 1)
  BY VoteAssumption DEF Positions
<1>2. IsFiniteSet(0..(n - 1)) /\ Cardinality(0..(n - 1)) = n
  <2>1. /\ IsFiniteSet(0..(n - 1))
        /\ Cardinality(0..(n - 1)) = IF 0 > n - 1 THEN 0 ELSE (n - 1) - 0 + 1
    BY FS_Interval
  <2> QED
    BY <2>1
<1> QED
  BY <1>1, <1>2, FS_Subset DEF LowCount

\* The same for the newest n samples: all LOW, they are at least n ...
LEMMA LowHead ==
  ASSUME NEW h \in History, NEW n \in 0..Window,
         \A i \in 0..(n - 1) : h[i] = 0
  PROVE  LowCount(h) >= n
<1> DEFINE Low == {i \in Positions : h[i] = 0}
<1>1. IsFiniteSet(Low) /\ Cardinality(Low) \in Nat
  BY PositionsFinite, FS_Subset, FS_CardinalityType
<1>2. 0..(n - 1) \subseteq Low
  BY VoteAssumption DEF Positions
<1>3. Cardinality(0..(n - 1)) <= Cardinality(Low)
  BY <1>1, <1>2, FS_Subset
<1>4. Cardinality(0..(n - 1)) = IF 0 > n - 1 THEN 0 ELSE (n - 1) - 0 + 1
  BY FS_Interval
<1> QED
  BY <1>1, <1>3, <1>4 DEF LowCount

\* ... and all HIGH, they leave at most Window - n.
LEMMA HighHead ==
  ASSUME NEW h \in History, NEW n \in 0..Window,
         \A i \in 0..(n - 1) : h[i] = 1
  PROVE  LowCount(h) <= Window - n
<1> DEFINE Low == {i \in Positions : h[i] = 0}
<1>1. Low \subseteq n..(Window - 1)
  BY VoteAssumption DEF Positions
<1>2. IsFiniteSet(n..(Window - 1)) /\ Cardinality(n..(Window - 1)) = Window - n
  <2>1. /\ IsFiniteSet(n..(Window - 1))
        /\ Cardinality(n..(Window - 1)) =
             IF n > Window - 1 THEN 0 ELSE (Window - 1) - n + 1
    BY FS_Interval, VoteAssumption
  <2> QED
    BY <2>1, VoteAssumption
<1> QED
  BY <1>1, <1>2, FS_Subset DEF LowCount
=============================================================================
