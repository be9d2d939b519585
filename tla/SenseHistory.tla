---------------------------- MODULE SenseHistory ----------------------------
(***************************************************************************)
(* The sensing of AppTask on the integers of the code: mSenseHistory is a  *)
(* uint16_t that is shifted left for every sample, and a loop counts the   *)
(* LOW samples among its low bits (app_task.cpp, SensingPollHandler).      *)
(***************************************************************************)
EXTENDS SenseVote, PrefixSums

CONSTANT Width  \* bits of mSenseHistory (16 in the code)

ASSUME WidthAssumption == Width \in Nat /\ Width >= Window

VARIABLES mSenseHistory, mVotedIsOn

\* The weight of bit n, 2^n.
Pow2[n \in 0..Width] == IF n = 0 THEN 1 ELSE 2 * Pow2[n - 1]

Register == 0..(Pow2[Width] - 1)

\* (h >> i) & 1
Bit(h, i) == (h \div Pow2[i]) % 2

\* Fault: the counting loop looks at one bit too many.
CountOneMore(h) ==
  PrefixSum([i \in 1..(Window + 1) |-> IF Bit(h, i - 1) = 0 THEN 1 ELSE 0],
            Window + 1)

\* lowCount after the loop over the low Window bits.
CountLow(h) ==
  PrefixSum([i \in 1..Window |-> IF Bit(h, i - 1) = 0 THEN 1 ELSE 0], Window)

\* (h << 1) | raw in 16 bits: the oldest bit falls out of the register.
Shift(h, raw) == (2 * h + raw) % Pow2[Width]

RegisterInit == /\ mSenseHistory = Pow2[Width] - 1
                /\ mVotedIsOn = FALSE

SensingPoll(raw) ==
  /\ mSenseHistory' = Shift(mSenseHistory, raw)
  /\ mVotedIsOn' = (CountLow(mSenseHistory') >= Threshold)

\* Fault: the levels of the preload are swapped.
PreloadSwapped(on) ==
  /\ mSenseHistory' = IF on THEN Pow2[Width] - 1 ELSE 0
  /\ mVotedIsOn' = on

\* Fault: the vote is left as it was.
PreloadHistory(on) ==
  /\ mSenseHistory' = IF on THEN 0 ELSE Pow2[Width] - 1
  /\ UNCHANGED mVotedIsOn

InitiateAction(on) ==
  /\ mSenseHistory' = IF on THEN 0 ELSE Pow2[Width] - 1
  /\ mVotedIsOn' = on

RegisterNext == \/ \E raw \in Samples : SensingPoll(raw)
                \/ \E on \in BOOLEAN : InitiateAction(on)

RegisterSpec == RegisterInit /\ [][RegisterNext]_<<mSenseHistory, mVotedIsOn>>

RegisterTypeOK == mSenseHistory \in Register /\ mVotedIsOn \in BOOLEAN

\* The window is the low bits of the register, newest sample in bit 0.
WindowOf(h) == [i \in Positions |-> Bit(h, i)]

Abstract == INSTANCE SenseWindow
              WITH window <- WindowOf(mSenseHistory), voted <- mVotedIsOn

\* The register and the loop implement the vote over the last Window samples:
\* samples older than that, which stay in the upper bits, never count.
WindowSpec == Abstract!Spec
=============================================================================
