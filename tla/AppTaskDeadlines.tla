-------------------------- MODULE AppTaskDeadlines --------------------------
(***************************************************************************)
(* AppTask with history variables that measure what its safety invariants  *)
(* leave open: not only does every pulse, every mute and every poll have   *)
(* an end, it ends in time, and the vote of the running controller follows *)
(* the pin within the time its window takes.  No action is added, removed  *)
(* or restricted.                                                          *)
(***************************************************************************)
EXTENDS AppTask

VARIABLES age,     \* ticks since InitiateAction last scheduled the release
                   \* of the control pin, up to ActionTime + 1
          polled,  \* ticks since the last poll, up to PollPeriod + 1
          still,   \* ticks since the pin last moved, an action last stored
                   \* the history or the vote, or power came, up to Settling
          seen,    \* polls since then, up to Window
          alone    \* the last action began with no work of older ones left

measures == <<age, polled, still, seen, alone>>
deadlineVars == <<vars, measures>>

\* The whole of an OFF action: both pulses and the delay between them.
ActionTime == PulseWidth + StandbyDelay + StandbyWidth

\* The longest time a steady pin may need to win the vote, and a tick more.
Settling == Window * PollPeriod + 1

Count(n, bound) == IF n < bound THEN n + 1 ELSE n

ActionWork == {"pulse", "standby", "release"}

DeadlineInit == /\ Init
                /\ age = 0
                /\ polled = 0
                /\ still = 0
                /\ seen = 0
                /\ alone = TRUE

\* The steps that enter InitiateAction, or may.
Begin == /\ ToggleByButton \/ PostAttributeChange
         /\ alone' = IF pc' = "act" THEN \A w \in ActionWork : ~Pending(w)
                                    ELSE alone
         /\ UNCHANGED <<age, polled, still, seen>>

Store(f) == /\ StoreField(f)
            /\ IF f \in {"mSenseHistory", "mVotedIsOn"}
               THEN still' = 0 /\ seen' = 0
               ELSE UNCHANGED <<still, seen>>
            /\ UNCHANGED <<age, polled, alone>>

Arm == /\ ArmRelease
       /\ age' = 0
       /\ UNCHANGED <<polled, still, seen, alone>>

Sample == /\ SensingPollHandler
          /\ polled' = 0
          /\ seen' = Count(seen, Window)
          /\ UNCHANGED <<age, still, alone>>

Move == /\ SenseChange
        /\ still' = 0
        /\ seen' = 0
        /\ UNCHANGED <<age, polled, alone>>

Pass == /\ Tick
        /\ age' = Count(age, ActionTime + 1)
        /\ polled' = Count(polled, PollPeriod + 1)
        /\ still' = Count(still, Settling)
        /\ UNCHANGED <<seen, alone>>

Reboot == /\ Restart
          /\ age' = 0
          /\ polled' = 0
          /\ still' = 0
          /\ seen' = 0
          /\ alone' = TRUE

Unmeasured == /\ \/ StartServer
                 \/ SyncAttribute
                 \/ DriveControlPin
                 \/ ControlPulseHandler
                 \/ StandbyPulseHandler
                 \/ StandbyReleaseHandler
                 \/ UserStep
              /\ UNCHANGED measures

DeadlineNext == \/ Begin
                \/ \E f \in Stores : Store(f)
                \/ Arm
                \/ Sample
                \/ Move
                \/ Pass
                \/ Reboot
                \/ Unmeasured

DeadlineSpec == DeadlineInit /\ [][DeadlineNext]_deadlineVars

-----------------------------------------------------------------------------
(* Properties.                                                             *)

\* The control pin is LOW for PulseWidth ticks (300 ms) at most after the
\* last InitiateAction has scheduled its release, whatever releases of older
\* actions were still under way when it did.
ControlPulseBounded == ctrlPin = "low" /\ pc # "arm" => age <= PulseWidth

\* The sensing poll is muted, and an OFF action claimed, for the time of one
\* whole action (1.6 s) at most: overlapping actions do not add up, although
\* handlers of one reschedule the work and clear the flags of another.
MutedBriefly ==
  mIsPulsing \/ mPendingOff => pc \in {"act", "arm"} \/ age <= ActionTime

\* The sense pin is polled every PollPeriod ticks, muted or not: no path
\* through SensingPollHandler forgets the next poll.
PollsInTime == senseReady => polled <= PollPeriod

\* mVotedIsOn follows a pin that rests: LOW for Threshold polls (800 ms) is ON,
\* HIGH for Window - Threshold + 1 polls (300 ms) is OFF, from any history, and
\* while any action is under way that has stored its preload.
VoteFollowsPin ==
  senseReady =>
    /\ HeaterOn(senseLine) /\ still > Threshold * PollPeriod => mVotedIsOn
    /\ ~HeaterOn(senseLine) /\ still > (Window - Threshold + 1) * PollPeriod
         => ~mVotedIsOn

\* The end of the control pulse schedules a standby pulse for an OFF action
\* and none for an ON action (app_task.cpp:102), if the action began after the
\* work of the older ones had ended.  Without that it need not: OffGetsStandby.
LoneActionComplete ==
  [][ControlPulseHandler /\ alone
       => timer'["standby"] = IF actionOn THEN NotArmed ELSE StandbyDelay]_deadlineVars
=============================================================================
