------------------------- MODULE SenseHistoryProofs -------------------------
(***************************************************************************)
(* The shift register and the counting loop of the code implement the vote *)
(* over a window of samples, for every Window, Threshold and Width.        *)
(***************************************************************************)
EXTENDS MCSense, SenseLagProofs, PrefixSumsProofs

-----------------------------------------------------------------------------
(* Powers of two.                                                          *)

\* What a table of the powers of two up to 2^n satisfies.
Doubles(p, n) == p = [i \in 0..n |-> IF i = 0 THEN 1 ELSE 2 * p[i - 1]]

\* The recursion of Pow2 defines a function.
LEMMA DoublesExists ==
  ASSUME NEW n \in Nat
  PROVE  \E p : Doubles(p, n)
<1> DEFINE S == {k \in Nat : \E p : Doubles(p, k)}
<1>1. 0 \in S
  <2> DEFINE p == [i \in 0..0 |-> 1]
  <2>1. Doubles(p, 0)
    BY DEF Doubles
  <2> QED
    BY <2>1
<1>2. ASSUME NEW k \in S
      PROVE  k + 1 \in S
  <2>1. PICK p : Doubles(p, k)
    OBVIOUS
  <2> DEFINE q == [i \in 0..(k + 1) |-> IF i = k + 1 THEN 2 * p[k] ELSE p[i]]
  <2>2. \A i \in 0..k : p[i] = IF i = 0 THEN 1 ELSE 2 * p[i - 1]
    BY <2>1 DEF Doubles
  <2>3. (\A i \in 0..k : q[i] = p[i]) /\ q[k + 1] = 2 * p[k]
    OBVIOUS
  <2>4. ASSUME NEW i \in 0..(k + 1)
        PROVE  q[i] = IF i = 0 THEN 1 ELSE 2 * q[i - 1]
    BY <2>2, <2>3
  <2>5. Doubles(q, k + 1)
    BY <2>4 DEF Doubles
  <2> HIDE DEF q
  <2> QED
    BY <2>5
<1>3. S = Nat
  <2> HIDE DEF S
  <2>1. S \in SUBSET Nat
    BY DEF S
  <2> QED
    BY <1>1, <1>2, <2>1, SetInduction
<1> QED
  BY <1>3

LEMMA Pow2Step ==
  /\ Pow2[0] = 1
  /\ \A n \in 0..(Width - 1) : Pow2[n + 1] = 2 * Pow2[n]
<1>1. Width \in Nat
  BY WidthAssumption
<1>2. Doubles(Pow2, Width)
  <2>1. \E p : Doubles(p, Width)
    BY <1>1, DoublesExists
  <2>2. Pow2 = CHOOSE p : Doubles(p, Width)
    BY DEF Pow2, Doubles
  <2> QED
    BY <2>1, <2>2
<1>3. \A i \in 0..Width : Pow2[i] = IF i = 0 THEN 1 ELSE 2 * Pow2[i - 1]
  BY <1>2 DEF Doubles
<1>4. Pow2[0] = 1
  BY <1>1, <1>3
<1>5. ASSUME NEW n \in 0..(Width - 1)
      PROVE  Pow2[n + 1] = 2 * Pow2[n]
  <2>1. n + 1 \in 0..Width /\ n + 1 # 0 /\ (n + 1) - 1 = n
    BY <1>1
  <2> QED
    BY <1>3, <2>1
<1> QED
  BY <1>4, <1>5

LEMMA Pow2Type ==
  \A n \in 0..Width : Pow2[n] \in Nat \ {0}
<1> DEFINE S == {k \in Nat : k <= Width => Pow2[k] \in Nat \ {0}}
<1>0. Width \in Nat
  BY WidthAssumption
<1>1. 0 \in S
  BY Pow2Step
<1>2. ASSUME NEW k \in S
      PROVE  k + 1 \in S
  <2> SUFFICES ASSUME k + 1 <= Width
               PROVE  Pow2[k + 1] \in Nat \ {0}
    OBVIOUS
  <2>1. k \in 0..(Width - 1)
    BY <1>0
  <2>2. Pow2[k] \in Nat \ {0}
    BY <2>1, <1>0
  <2> QED
    BY <2>1, <2>2, Pow2Step
<1>3. S = Nat
  <2> HIDE DEF S
  <2>1. S \in SUBSET Nat
    BY DEF S
  <2> QED
    BY <1>1, <1>2, <2>1, SetInduction
<1> QED
  BY <1>0, <1>3

\* The size of the register is a multiple of twice the weight of each bit.
LEMMA Pow2Split ==
  ASSUME NEW i \in 0..(Width - 1)
  PROVE  \E k \in Nat \ {0} : Pow2[Width] = Pow2[i] * (2 * k)
<1> DEFINE S == {n \in Nat : i + 1 + n <= Width =>
                    \E k \in Nat \ {0} : Pow2[i + 1 + n] = Pow2[i] * (2 * k)}
<1>0. Width \in Nat /\ i \in Nat /\ Pow2[i] \in Nat
  BY WidthAssumption, Pow2Type
<1>1. 0 \in S
  <2>1. Pow2[i + 1] = Pow2[i] * (2 * 1)
    BY <1>0, Pow2Step
  <2>2. i + 1 + 0 = i + 1
    BY <1>0
  <2> QED
    BY <2>1, <2>2
<1>2. ASSUME NEW n \in S
      PROVE  n + 1 \in S
  <2> SUFFICES ASSUME i + 1 + (n + 1) <= Width
               PROVE  \E k \in Nat \ {0} : Pow2[i + 1 + (n + 1)] = Pow2[i] * (2 * k)
    OBVIOUS
  <2>1. PICK k \in Nat \ {0} : Pow2[i + 1 + n] = Pow2[i] * (2 * k)
    BY <1>0
  <2>2. i + 1 + n \in 0..(Width - 1) /\ i + 1 + (n + 1) = (i + 1 + n) + 1
    BY <1>0
  <2>3. Pow2[i + 1 + (n + 1)] = 2 * (Pow2[i] * (2 * k))
    BY <2>1, <2>2, Pow2Step
  <2>4. 2 * (Pow2[i] * (2 * k)) = Pow2[i] * (2 * (2 * k))
    BY <1>0
  <2>5. 2 * k \in Nat \ {0}
    OBVIOUS
  <2> QED
    BY <2>3, <2>4, <2>5
<1>3. S = Nat
  <2> HIDE DEF S
  <2>1. S \in SUBSET Nat
    BY DEF S
  <2> QED
    BY <1>1, <1>2, <2>1, SetInduction
<1>4. Width - (i + 1) \in Nat /\ i + 1 + (Width - (i + 1)) = Width
  BY <1>0
<1>5. Width - (i + 1) \in S
  <2> HIDE DEF S
  <2> QED
    BY <1>3, <1>4
<1> QED
  BY <1>0, <1>4, <1>5

-----------------------------------------------------------------------------
(* Bits.                                                                   *)

\* Quotient and remainder are what they are called.
LEMMA Division ==
  ASSUME NEW a \in Nat, NEW b \in Nat \ {0}
  PROVE  /\ a \div b \in Nat
         /\ a % b \in 0..(b - 1)
         /\ a = b * (a \div b) + (a % b)
OBVIOUS

LEMMA DivisionUnique ==
  ASSUME NEW a \in Nat, NEW b \in Nat \ {0},
         NEW q \in Int, NEW r \in 0..(b - 1), a = b * q + r
  PROVE  a \div b = q /\ a % b = r
OBVIOUS

LEMMA BitType ==
  ASSUME NEW h \in Nat, NEW i \in 0..Width
  PROVE  Bit(h, i) \in Samples
<1>1. Pow2[i] \in Nat \ {0}
  BY Pow2Type
<1>2. h \div Pow2[i] \in Nat
  BY <1>1, Division
<1> QED
  BY <1>2 DEF Bit, Samples

\* A shift to the left brings the new sample into bit 0 and every other bit
\* into the next place ...
LEMMA BitOfShifted ==
  ASSUME NEW h \in Nat, NEW raw \in Samples
  PROVE  /\ Bit(2 * h + raw, 0) = raw
         /\ \A i \in 0..(Width - 1) : Bit(2 * h + raw, i + 1) = Bit(h, i)
<1>1. Bit(2 * h + raw, 0) = raw
  BY Pow2Step DEF Bit, Samples
<1>2. ASSUME NEW i \in 0..(Width - 1)
      PROVE  Bit(2 * h + raw, i + 1) = Bit(h, i)
  <2> DEFINE P == Pow2[i]
             q == h \div P
             r == h % P
  <2>1. P \in Nat \ {0}
    BY WidthAssumption, Pow2Type
  <2>2. q \in Nat /\ r \in 0..(P - 1) /\ h = P * q + r
    BY <2>1, Division
  <2>3. Pow2[i + 1] = 2 * P
    BY Pow2Step
  <2> HIDE DEF P, q, r
  <2>4. 2 * h + raw = (2 * P) * q + (2 * r + raw)
    BY <2>1, <2>2 DEF Samples
  <2>5. 2 * r + raw \in 0..(2 * P - 1)
    BY <2>1, <2>2 DEF Samples
  <2>6. 2 * h + raw \in Nat /\ 2 * P \in Nat \ {0}
    BY <2>1 DEF Samples
  <2>7. (2 * h + raw) \div (2 * P) = q
    BY <2>2, <2>4, <2>5, <2>6, DivisionUnique
  <2> QED
    BY <2>3, <2>7 DEF Bit, P, q
<1> QED
  BY <1>1, <1>2

\* ... and what falls out of the register was above the bits that stay.
LEMMA BitOfTruncated ==
  ASSUME NEW x \in Nat, NEW i \in 0..(Width - 1)
  PROVE  Bit(x % Pow2[Width], i) = Bit(x, i)
<1> DEFINE P == Pow2[i]
           M == Pow2[Width]
           q == x \div M
           m == x % M
           s == m \div P
           r == m % P
<1>1. P \in Nat \ {0} /\ M \in Nat \ {0}
  BY WidthAssumption, Pow2Type
<1>2. PICK k \in Nat \ {0} : M = P * (2 * k)
  BY Pow2Split
<1>3. q \in Nat /\ m \in Nat /\ x = M * q + m
  <2> HIDE DEF M
  <2>1. q \in Nat /\ m \in 0..(M - 1) /\ x = M * q + m
    BY <1>1, Division
  <2> QED
    BY <1>1, <2>1
<1>4. s \in Nat /\ r \in 0..(P - 1) /\ m = P * s + r
  BY <1>1, <1>3, Division
<1>5. Bit(m, i) = s % 2 /\ Bit(x, i) = (x \div P) % 2
  BY DEF Bit
<1> DEFINE z == k * q
<1> HIDE DEF P, M, q, m, s, r
<1>6. M * q = P * (2 * z)
  BY <1>1, <1>2, <1>3 DEF z
<1>7. z \in Nat
  BY <1>2, <1>3 DEF z
<1> HIDE DEF z
<1>8. x = P * (2 * z + s) + r
  <2>1. P * (2 * z + s) = P * (2 * z) + P * s
    BY <1>1, <1>4, <1>7
  <2> QED
    BY <1>1, <1>3, <1>4, <1>6, <1>7, <2>1, SMTT(30)
<1>9. x \div P = 2 * z + s
  BY <1>1, <1>4, <1>7, <1>8, DivisionUnique
<1>10. (2 * z + s) % 2 = s % 2
  BY <1>4, <1>7
<1> QED
  BY <1>5, <1>9, <1>10 DEF m, M

\* The bits of an empty and of a full register.
LEMMA BitOfZero ==
  ASSUME NEW i \in 0..(Width - 1)
  PROVE  Bit(0, i) = 0
<1>1. Pow2[i] \in Nat \ {0}
  BY WidthAssumption, Pow2Type
<1>2. 0 \div Pow2[i] = 0
  BY <1>1, DivisionUnique
<1> QED
  BY <1>2 DEF Bit

LEMMA BitOfFull ==
  ASSUME NEW i \in 0..(Width - 1)
  PROVE  Bit(Pow2[Width] - 1, i) = 1
<1> DEFINE P == Pow2[i]
<1>1. P \in Nat \ {0} /\ Pow2[Width] \in Nat \ {0}
  BY WidthAssumption, Pow2Type
<1>2. PICK k \in Nat \ {0} : Pow2[Width] = P * (2 * k)
  BY Pow2Split
<1> HIDE DEF P
<1>3. Pow2[Width] - 1 = P * (2 * k - 1) + (P - 1)
  BY <1>1, <1>2
<1>4. P - 1 \in 0..(P - 1) /\ 2 * k - 1 \in Int
  BY <1>1
<1>5. (Pow2[Width] - 1) \div P = 2 * k - 1
  <2>1. Pow2[Width] - 1 \in Nat
    BY <1>1
  <2> QED
    BY <1>1, <1>3, <1>4, <2>1, DivisionUnique
<1>6. (2 * k - 1) % 2 = 1
  OBVIOUS
<1> QED
  BY <1>5, <1>6 DEF Bit, P

-----------------------------------------------------------------------------
(* The loop and the operations.                                            *)

\* The window of a register is a history, and the loop counts its LOW samples.
LEMMA WindowOfType ==
  ASSUME NEW h \in Nat
  PROVE  WindowOf(h) \in History
<1>1. ASSUME NEW i \in Positions
      PROVE  Bit(h, i) \in Samples
  <2>1. i \in 0..Width
    BY VoteAssumption, WidthAssumption DEF Positions
  <2> QED
    BY <2>1, BitType
<1> QED
  BY <1>1 DEF WindowOf, History

LEMMA CountLowCounts ==
  ASSUME NEW h \in Nat
  PROVE  CountLow(h) = LowCount(WindowOf(h))
<1> DEFINE f == [i \in 1..Window |-> IF Bit(h, i - 1) = 0 THEN 1 ELSE 0]
           Low == {i \in 1..Window : f[i] = 1}
           Zeros == {i \in Positions : WindowOf(h)[i] = 0}
           g == [i \in Low |-> i - 1]
<1>0. Window \in Nat
  BY VoteAssumption
<1>1. CountLow(h) = Cardinality(Low)
  <2>1. f \in [1..Window -> {0, 1}]
    OBVIOUS
  <2>2. CountLow(h) = PrefixSum(f, Window)
    BY DEF CountLow
  <2>3. Window \in 0..Window
    BY <1>0
  <2> HIDE DEF f
  <2> QED
    BY <1>0, <2>1, <2>2, <2>3, PrefixSumCounts
<1>2. \A i \in 1..Window : i \in Low <=> Bit(h, i - 1) = 0
  OBVIOUS
<1>3. \A j \in Positions : j \in Zeros <=> Bit(h, j) = 0
  BY DEF WindowOf
<1>4. \A i \in Low : i \in 1..Window /\ i - 1 \in Zeros
  BY <1>0, <1>2, <1>3 DEF Positions
<1>5. \A j \in Zeros : j \in Nat /\ j + 1 \in Low
  <2> TAKE j \in Zeros
  <2>1. j \in Positions /\ Bit(h, j) = 0
    BY <1>3
  <2>2. j + 1 \in 1..Window /\ (j + 1) - 1 = j /\ j \in Nat
    BY <1>0, <2>1 DEF Positions
  <2> HIDE DEF Low, Zeros
  <2> QED
    BY <1>2, <2>1, <2>2
<1>6. IsFiniteSet(Low)
  <2>1. IsFiniteSet(1..Window)
    BY <1>0, FS_Interval
  <2> QED
    BY <2>1, FS_Subset
<1> HIDE DEF Low, Zeros
<1>7. g \in Bijection(Low, Zeros)
  <2>1. g \in [Low -> Zeros]
    BY <1>4
  <2>2. \A a, b \in Low : g[a] = g[b] => a = b
    BY <1>4
  <2>3. \A j \in Zeros : \E i \in Low : g[i] = j
    <3> TAKE j \in Zeros
    <3>1. j + 1 \in Low /\ g[j + 1] = j
      BY <1>5
    <3> QED
      BY <3>1
  <2> QED
    BY <2>1, <2>2, <2>3 DEF Bijection, Injection, Surjection, IsInjective
<1>8. Cardinality(Low) = Cardinality(Zeros)
  <2>1. ExistsBijection(Low, Zeros)
    BY <1>7 DEF ExistsBijection
  <2> QED
    BY <1>6, <2>1, FS_Bijection
<1> QED
  BY <1>1, <1>8 DEF LowCount, Zeros

\* A shift of the register shifts its window ...
LEMMA WindowOfShift ==
  ASSUME NEW h \in Register, NEW raw \in Samples
  PROVE  /\ Shift(h, raw) \in Register
         /\ WindowOf(Shift(h, raw)) = ShiftIn(WindowOf(h), raw)
<1>0. Pow2[Width] \in Nat \ {0} /\ Width \in Nat /\ h \in Nat
  BY WidthAssumption, Pow2Type DEF Register
<1>1. 2 * h + raw \in Nat
  BY <1>0 DEF Samples
<1>2. Shift(h, raw) \in Register
  BY <1>0, <1>1, Division DEF Shift, Register
<1>3. ASSUME NEW i \in Positions
      PROVE  Bit(Shift(h, raw), i) = IF i = 0 THEN raw ELSE WindowOf(h)[i - 1]
  <2>1. i \in 0..(Width - 1)
    BY VoteAssumption, WidthAssumption DEF Positions
  <2>2. Bit(Shift(h, raw), i) = Bit(2 * h + raw, i)
    BY <1>1, <2>1, BitOfTruncated DEF Shift
  <2>3. CASE i = 0
    BY <1>0, <2>2, <2>3, BitOfShifted
  <2>4. CASE i # 0
    <3>1. i - 1 \in 0..(Width - 1) /\ i - 1 \in Positions /\ (i - 1) + 1 = i
      <4>1. i \in Int /\ 0 <= i - 1 /\ i - 1 <= Window - 1 /\ i - 1 <= Width - 1
        BY <1>0, <2>1, <2>4, VoteAssumption DEF Positions
      <4> QED
        BY <1>0, <4>1, VoteAssumption DEF Positions
    <3>2. Bit(2 * h + raw, i) = Bit(h, i - 1)
      BY <1>0, <3>1, BitOfShifted
    <3> QED
      BY <2>2, <2>4, <3>1, <3>2 DEF WindowOf
  <2> QED
    BY <2>3, <2>4
<1> QED
  BY <1>2, <1>3 DEF WindowOf, ShiftIn

\* ... and the two constants of the preload are the two preloaded windows.
LEMMA WindowOfPreload ==
  ASSUME NEW on \in BOOLEAN
  PROVE  LET h == IF on THEN 0 ELSE Pow2[Width] - 1
         IN  h \in Register /\ WindowOf(h) = WarmHistory(on)
<1> DEFINE h == IF on THEN 0 ELSE Pow2[Width] - 1
<1>1. h \in Register
  <2>1. Pow2[Width] \in Nat \ {0}
    BY WidthAssumption, Pow2Type
  <2> QED
    BY <2>1 DEF Register
<1>2. ASSUME NEW i \in Positions
      PROVE  Bit(h, i) = IF on THEN 0 ELSE 1
  <2>1. i \in 0..(Width - 1)
    BY VoteAssumption, WidthAssumption DEF Positions
  <2> QED
    BY <2>1, BitOfZero, BitOfFull
<1> QED
  BY <1>1, <1>2 DEF WindowOf, WarmHistory

-----------------------------------------------------------------------------
(* The two operations of the code on register and vote.                    *)

LEMMA SensingPollStep ==
  ASSUME RegisterTypeOK, NEW raw \in Samples, SensingPoll(raw)
  PROVE  /\ RegisterTypeOK'
         /\ WindowOf(mSenseHistory)' = ShiftIn(WindowOf(mSenseHistory), raw)
         /\ mVotedIsOn' = Vote(WindowOf(mSenseHistory)')
<1>1. /\ mSenseHistory' \in Register
      /\ WindowOf(mSenseHistory)' = ShiftIn(WindowOf(mSenseHistory), raw)
  BY WindowOfShift DEF SensingPoll, RegisterTypeOK, WindowOf
<1>2. mSenseHistory' \in Nat
  BY <1>1, WidthAssumption, Pow2Type DEF Register
<1>3. mVotedIsOn' = (LowCount(WindowOf(mSenseHistory)') >= Threshold)
  BY <1>2, CountLowCounts DEF SensingPoll, WindowOf
<1> QED
  BY <1>1, <1>3 DEF RegisterTypeOK, Vote

LEMMA InitiateActionStep ==
  ASSUME NEW on \in BOOLEAN, InitiateAction(on)
  PROVE  /\ RegisterTypeOK'
         /\ WindowOf(mSenseHistory)' = WarmHistory(on)
         /\ mVotedIsOn' = on
BY WindowOfPreload DEF InitiateAction, RegisterTypeOK, WindowOf

LEMMA RegisterInitState ==
  ASSUME RegisterInit
  PROVE  /\ RegisterTypeOK
         /\ WindowOf(mSenseHistory) = WarmHistory(FALSE)
         /\ mVotedIsOn = FALSE
<1>1. /\ Pow2[Width] - 1 \in Register
      /\ WindowOf(Pow2[Width] - 1) = WarmHistory(FALSE)
  BY WindowOfPreload
<1> QED
  BY <1>1 DEF RegisterInit, RegisterTypeOK

-----------------------------------------------------------------------------
(* The register implements the vote.                                       *)

\* The register keeps its width, and the vote is a Boolean.
THEOREM RegisterSpec_TypeOK == RegisterSpec => []RegisterTypeOK
<1>1. RegisterInit => RegisterTypeOK
  BY RegisterInitState
<1>2. RegisterTypeOK /\ [RegisterNext]_<<mSenseHistory, mVotedIsOn>> => RegisterTypeOK'
  BY SensingPollStep, InitiateActionStep DEF RegisterNext, RegisterTypeOK
<1> QED
  BY <1>1, <1>2, PTL DEF RegisterSpec

\* The operators that SenseWindow has from SenseVote are those of this module.
LEMMA AbstractVote ==
  /\ Abstract!Samples = Samples
  /\ \A on : Abstract!WarmHistory(on) = WarmHistory(on)
  /\ \A h, raw : Abstract!ShiftIn(h, raw) = ShiftIn(h, raw)
  /\ \A h : Abstract!Vote(h) = (LowCount(h) >= Threshold)
<1>1. \A S : Abstract!Cardinality(S) = Cardinality(S)
  BY DEF Abstract!Cardinality, Cardinality
<1> QED
  BY <1>1 DEF Abstract!Samples, Samples, Abstract!WarmHistory, WarmHistory,
              Abstract!ShiftIn, ShiftIn, Abstract!Vote, Abstract!LowCount,
              LowCount, Abstract!Positions, Positions

\* The shift register of SensingPollHandler and its counting loop implement
\* the vote over the last Window samples, whatever is in the bits above.
THEOREM RegisterSpec_WindowSpec == RegisterSpec => WindowSpec
<1>1. RegisterInit => Abstract!Init
  BY RegisterInitState, AbstractVote DEF Abstract!Init
<1>2. RegisterTypeOK /\ [RegisterNext]_<<mSenseHistory, mVotedIsOn>>
        => [Abstract!Next]_<<WindowOf(mSenseHistory), mVotedIsOn>>
  <2> SUFFICES ASSUME RegisterTypeOK,
                      [RegisterNext]_<<mSenseHistory, mVotedIsOn>>
               PROVE  [Abstract!Next]_<<WindowOf(mSenseHistory), mVotedIsOn>>
    OBVIOUS
  <2>1. ASSUME NEW raw \in Samples, SensingPoll(raw)
        PROVE  Abstract!Poll(raw)
    BY <2>1, SensingPollStep, AbstractVote DEF Abstract!Poll, Vote
  <2>2. ASSUME NEW on \in BOOLEAN, InitiateAction(on)
        PROVE  Abstract!WarmUp(on)
    BY <2>2, InitiateActionStep, AbstractVote DEF Abstract!WarmUp
  <2>3. CASE UNCHANGED <<mSenseHistory, mVotedIsOn>>
    BY <2>3 DEF WindowOf
  <2> QED
    BY <2>1, <2>2, <2>3, AbstractVote DEF RegisterNext, Abstract!Next
<1> QED
  BY <1>1, <1>2, RegisterSpec_TypeOK, PTL DEF RegisterSpec, WindowSpec, Abstract!Spec

-----------------------------------------------------------------------------
(* SenseLag, whose window and vote are those of the register.              *)

\* The window and the vote of SenseLag are those of the register.
Coupled == /\ RegisterTypeOK
           /\ window = WindowOf(mSenseHistory)
           /\ voted = mVotedIsOn

LEMMA CoupledStep ==
  ASSUME Coupled, [MCNext]_mcVars
  PROVE  Coupled' /\ [LagNext]_lagVars
<1>1. ASSUME NEW raw \in Samples, SensingPoll(raw), PollSeen(raw),
             window' = WindowOf(mSenseHistory'), voted' = mVotedIsOn'
      PROVE  Coupled' /\ LagPoll(raw)
  BY <1>1, SensingPollStep DEF Coupled, LagPoll, Poll, WindowOf
<1>2. ASSUME NEW on \in BOOLEAN, InitiateAction(on), WarmUpSeen(on),
             window' = WindowOf(mSenseHistory'), voted' = mVotedIsOn'
      PROVE  Coupled' /\ LagWarmUp(on)
  BY <1>2, InitiateActionStep DEF Coupled, LagWarmUp, WarmUp, WindowOf
<1>3. CASE UNCHANGED mcVars
  BY <1>3 DEF Coupled, mcVars, lagVars, RegisterTypeOK, WindowOf
<1> QED
  BY <1>1, <1>2, <1>3 DEF MCNext, LagNext

\* What SenseLag promises of the vote holds of the register of the code.
LEMMA MCSpec_LagSpec == MCSpec => LagSpec
<1>1. MCInit => Coupled /\ LagInit
  BY RegisterInitState DEF MCInit, Coupled, LagInit, Init
<1>2. Coupled /\ [MCNext]_mcVars => Coupled' /\ [LagNext]_lagVars
  BY CoupledStep
<1> QED
  BY <1>1, <1>2, PTL DEF MCSpec, LagSpec

\* The register and the loop of the code follow a steady pin within Threshold
\* LOW or Window - Threshold + 1 HIGH samples, whatever the register held.
THEOREM MCSpec_SteadyPinWins == MCSpec => []SteadyPinWins
BY MCSpec_LagSpec, LagSpec_SteadyPinWins, PTL

\* The preload that InitiateAction writes into the register holds its vote
\* for as many polls as the threshold allows.
THEOREM MCSpec_PreloadHolds == MCSpec => []PreloadHolds
BY MCSpec_LagSpec, LagSpec_PreloadHolds, PTL
=============================================================================
