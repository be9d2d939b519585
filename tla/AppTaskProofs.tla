--------------------------- MODULE AppTaskProofs ---------------------------
(***************************************************************************)
(* Theorems about AppTask for every window, threshold, time constant and   *)
(* queue capacity: its types, the release of both pins, the end of its     *)
(* flags, that its standby pin implements PulseLine, the deadlines of      *)
(* AppTaskDeadlines, and that the heater of HeaterLoop is pressed once for *)
(* a command.                                                              *)
(***************************************************************************)
EXTENDS AppTaskDeadlines, HeaterLoop, SenseVoteProofs

\* The work items of the standby pin.  Its release is never further away than
\* a pulse is long, is armed once, and only for a pin that is driven; a pulse
\* armed while an older one waits for its handler has its whole delay left.
StandbyTimers ==
  /\ timer["release"] <= StandbyWidth
  /\ "release" \in submitted => timer["release"] = NotArmed
  /\ standbyPin = "hiz" => ~Pending("release")
  /\ "standby" \in submitted /\ timer["standby"] # NotArmed
       => timer["standby"] = StandbyDelay

PinInv == /\ TypeOK
          /\ ControlPinReleased
          /\ StandbyTimers
          /\ StandbyPulseWhole
          /\ FlagsHaveEnd

-----------------------------------------------------------------------------
(* Type correctness.                                                       *)

\* Rescheduling a work item by one of the delays of the code keeps the timers
\* timers.
LEMMA RescheduleType ==
  ASSUME NEW t \in Timers
  PROVE  /\ Reschedule(t, "sense", PollPeriod) \in Timers
         /\ Reschedule(t, "pulse", PulseWidth) \in Timers
         /\ Reschedule(t, "standby", StandbyDelay) \in Timers
         /\ Reschedule(t, "release", StandbyWidth) \in Timers
BY TimingAssumption DEF Reschedule, Timers, Work

\* The lambda of the sensing poll carries a vote.
LEMMA SyncEventType ==
  ASSUME NEW e \in Events, e.kind = "sync"
  PROVE  e.votedIsOn \in BOOLEAN
<1>1. CASE e = ButtonEvent
  BY <1>1 DEF ButtonEvent
<1>2. CASE e = SyncEvent(TRUE)
  BY <1>2 DEF SyncEvent
<1>3. CASE e = SyncEvent(FALSE)
  BY <1>3 DEF SyncEvent
<1> QED
  BY <1>1, <1>2, <1>3 DEF Events

\* Posting an event keeps the queue a queue within its capacity.
LEMMA PostType ==
  ASSUME NEW q \in Seq(Events), Len(q) <= MaxEvents, NEW e \in Events
  PROVE  Post(q, e) \in Seq(Events) /\ Len(Post(q, e)) <= MaxEvents
BY QueueAssumption DEF Post

\* So does serving the first event.
LEMMA TailType ==
  ASSUME NEW q \in Seq(Events), Len(q) <= MaxEvents, q # <<>>
  PROVE  Tail(q) \in Seq(Events) /\ Len(Tail(q)) <= MaxEvents
BY QueueAssumption


LEMMA Init_TypeOK == Init => TypeOK
<1> SUFFICES ASSUME Init PROVE TypeOK
  OBVIOUS
<1>1. mSenseHistory \in History
  BY WarmHistoryType DEF Init
<1>2. events \in Seq(Events) /\ Len(events) <= MaxEvents
  BY QueueAssumption DEF Init
<1> QED
  BY <1>1, <1>2 DEF Init, TypeOK, Timers, Work, Stores

LEMMA Matter_TypeOK == TypeOK /\ MatterStep => TypeOK'
<1> SUFFICES ASSUME TypeOK, MatterStep PROVE TypeOK'
  OBVIOUS
<1> USE DEF TypeOK, fields, pins, works, matter, sensors
<1>1. CASE StartServer
  BY <1>1 DEF StartServer
<1>2. CASE SyncAttribute
  <2>1. events' \in Seq(Events) /\ Len(events') <= MaxEvents
    BY <1>2, TailType DEF SyncAttribute
  <2>2. Head(events) \in Events /\ Head(events).kind = "sync"
    BY <1>2 DEF SyncAttribute
  <2>3. onOff' \in BOOLEAN
    BY <1>2, <2>2, SyncEventType DEF SyncAttribute
  <2> QED
    BY <1>2, <2>1, <2>3 DEF SyncAttribute, Return
<1>3. CASE ToggleByButton
  <2>1. events' \in Seq(Events) /\ Len(events') <= MaxEvents
    BY <1>3, TailType DEF ToggleByButton
  <2> QED
    BY <1>3, <2>1 DEF ToggleByButton, Call
<1>4. CASE PostAttributeChange
  BY <1>4 DEF PostAttributeChange, Call, Return
<1>5. ASSUME NEW f \in Stores, StoreField(f)
      PROVE  TypeOK'
  <2>1. mSenseHistory' \in History
    BY <1>5, WarmHistoryType DEF StoreField
  <2> QED
    BY <1>5, <2>1 DEF StoreField
<1>6. CASE DriveControlPin
  BY <1>6 DEF DriveControlPin
<1>7. CASE ArmRelease
  <2>1. timer' \in Timers
    BY <1>7, RescheduleType DEF ArmRelease
  <2> QED
    BY <1>7, <2>1 DEF ArmRelease, Return
<1> QED
  BY <1>1, <1>2, <1>3, <1>4, <1>5, <1>6, <1>7 DEF MatterStep

LEMMA Work_TypeOK == TypeOK /\ WorkStep => TypeOK'
<1> SUFFICES ASSUME TypeOK, WorkStep PROVE TypeOK'
  OBVIOUS
<1> USE DEF TypeOK, fields, pins, works, matter, sensors
<1>1. CASE SensingPollHandler
  <2>1. CASE senseReady
    <3>1. mSenseHistory' \in History
      BY <1>1, <2>1, ShiftInType DEF SensingPollHandler
    <3>2. mVotedIsOn' \in BOOLEAN
      BY <1>1, <2>1, <3>1, VoteType DEF SensingPollHandler
    <3>3. SyncEvent(mVotedIsOn') \in Events
      BY <3>2 DEF Events
    <3>4. events' \in Seq(Events) /\ Len(events') <= MaxEvents
      BY <1>1, <2>1, <3>3, PostType DEF SensingPollHandler
    <3>5. timer' \in Timers
      BY <1>1, <2>1, RescheduleType DEF SensingPollHandler
    <3> QED
      BY <1>1, <2>1, <3>1, <3>2, <3>4, <3>5 DEF SensingPollHandler
  <2>2. CASE ~senseReady
    BY <1>1, <2>2 DEF SensingPollHandler
  <2> QED
    BY <2>1, <2>2
<1>2. CASE ControlPulseHandler
  <2>1. timer' \in Timers
    BY <1>2, RescheduleType DEF ControlPulseHandler
  <2> QED
    BY <1>2, <2>1 DEF ControlPulseHandler
<1>3. CASE StandbyPulseHandler
  <2>1. timer' \in Timers
    BY <1>3, RescheduleType DEF StandbyPulseHandler
  <2> QED
    BY <1>3, <2>1 DEF StandbyPulseHandler
<1>4. CASE StandbyReleaseHandler
  BY <1>4 DEF StandbyReleaseHandler
<1> QED
  BY <1>1, <1>2, <1>3, <1>4 DEF WorkStep

LEMMA Env_TypeOK == TypeOK /\ EnvStep => TypeOK'
<1> SUFFICES ASSUME TypeOK, EnvStep PROVE TypeOK'
  OBVIOUS
<1> USE DEF TypeOK, fields, pins, works, matter, sensors
<1>1. CASE ButtonPress
  <2>1. events' \in Seq(Events) /\ Len(events') <= MaxEvents
    BY <1>1, PostType DEF ButtonPress, Events
  <2> QED
    BY <1>1, <2>1 DEF ButtonPress
<1>2. ASSUME NEW on \in BOOLEAN, RemoteCommand(on)
      PROVE  TypeOK'
  BY <1>2 DEF RemoteCommand
<1>3. CASE SenseChange
  BY <1>3 DEF SenseChange, Samples
<1>4. CASE Restart
  <2>1. mSenseHistory' \in History
    BY <1>4, WarmHistoryType DEF Restart
  <2>2. events' \in Seq(Events) /\ Len(events') <= MaxEvents
    BY <1>4, QueueAssumption DEF Restart
  <2> QED
    BY <1>4, <2>1, <2>2 DEF Restart, Timers, Work, Stores
<1> QED
  BY <1>1, <1>2, <1>3, <1>4 DEF EnvStep, UserStep

LEMMA Tick_TypeOK == TypeOK /\ Tick => TypeOK'
<1> SUFFICES ASSUME TypeOK, Tick PROVE TypeOK'
  OBVIOUS
<1>1. timer' \in Timers
  BY DEF TypeOK, Tick, NotArmed, Timers
<1> QED
  BY <1>1 DEF TypeOK, Tick, fields, pins, matter, sensors

\* The types of the fields, the timers, the queue and its capacity.
THEOREM Spec_TypeOK == Spec => []TypeOK
<1>1. TypeOK /\ UNCHANGED vars => TypeOK'
  BY DEF TypeOK, vars, fields, pins, works, matter, sensors
<1>2. TypeOK /\ [Next]_vars => TypeOK'
  BY <1>1, Matter_TypeOK, Work_TypeOK, Env_TypeOK, Tick_TypeOK DEF Next
<1> QED
  BY <1>2, Init_TypeOK, PTL DEF Spec

-----------------------------------------------------------------------------
(* The safety invariants.                                                  *)

LEMMA Init_PinInv == Init => PinInv
<1> SUFFICES ASSUME Init PROVE PinInv
  OBVIOUS
<1>1. TypeOK
  BY Init_TypeOK
<1>2. StandbyTimers
  BY TimingAssumption DEF Init, StandbyTimers, Pending, Work, NotArmed
<1>3. ControlPinReleased /\ StandbyPulseWhole /\ FlagsHaveEnd
  BY DEF Init, ControlPinReleased, StandbyPulseWhole, FlagsHaveEnd
<1> QED
  BY <1>1, <1>2, <1>3 DEF PinInv

\* What rescheduling one work item does to a timer.
LEMMA RescheduleAt ==
  ASSUME NEW t \in Timers, NEW w \in Work, NEW n
  PROVE  /\ Reschedule(t, w, n)[w] = n
         /\ \A v \in Work \ {w} : Reschedule(t, w, n)[v] = t[v]
BY DEF Reschedule, Timers

\* A step that touches neither the pins, the timers, the submitted items nor
\* the flags, and does not leave InitiateAction, keeps the invariant.
LEMMA Frame_PinInv ==
  ASSUME PinInv, TypeOK', UNCHANGED <<pins, works, mIsPulsing, mPendingOff>>,
         pc \in {"act", "arm"} => pc' = pc
  PROVE  PinInv'
BY DEF PinInv, pins, works, ControlPinReleased, StandbyTimers, StandbyPulseWhole,
       FlagsHaveEnd, Pending

LEMMA Matter_PinInv == PinInv /\ MatterStep => PinInv'
<1> SUFFICES ASSUME PinInv, MatterStep PROVE PinInv'
  OBVIOUS
<1>t. TypeOK'
  BY Matter_TypeOK DEF PinInv
<1>1. CASE StartServer
  BY <1>t, <1>1, Frame_PinInv DEF StartServer, fields
<1>2. CASE SyncAttribute
  BY <1>t, <1>2, Frame_PinInv DEF SyncAttribute, fields
<1>3. CASE ToggleByButton
  BY <1>t, <1>3, Frame_PinInv DEF ToggleByButton, fields
<1>4. CASE PostAttributeChange
  BY <1>t, <1>4, Frame_PinInv DEF PostAttributeChange, fields
<1>5. ASSUME NEW f \in Stores, StoreField(f)
      PROVE  PinInv'
  BY <1>t, <1>5 DEF StoreField, pins, works, PinInv, ControlPinReleased,
       StandbyTimers, StandbyPulseWhole, FlagsHaveEnd, Pending
<1>6. CASE DriveControlPin
  BY <1>t, <1>6 DEF DriveControlPin, fields, works, PinInv, ControlPinReleased,
       StandbyTimers, StandbyPulseWhole, FlagsHaveEnd, Pending
<1>7. CASE ArmRelease
  <2>1. /\ timer'["pulse"] = PulseWidth
        /\ timer'["release"] = timer["release"]
        /\ timer'["standby"] = timer["standby"]
    BY <1>7, RescheduleAt DEF ArmRelease, PinInv, TypeOK, Work
  <2>2. Pending("pulse")'
    BY <2>1, TimingAssumption DEF Pending, NotArmed
  <2>3. ControlPinReleased' /\ FlagsHaveEnd'
    BY <2>2 DEF ControlPinReleased, FlagsHaveEnd
  <2>4. StandbyTimers' /\ StandbyPulseWhole'
    BY <1>7, <2>1 DEF ArmRelease, pins, PinInv, StandbyTimers,
         StandbyPulseWhole, Pending
  <2> QED
    BY <1>t, <2>3, <2>4 DEF PinInv
<1> QED
  BY <1>1, <1>2, <1>3, <1>4, <1>5, <1>6, <1>7 DEF MatterStep

LEMMA Work_PinInv == PinInv /\ WorkStep => PinInv'
<1> SUFFICES ASSUME PinInv, WorkStep PROVE PinInv'
  OBVIOUS
<1>t. TypeOK'
  BY Work_TypeOK DEF PinInv
<1>u. timer \in Timers /\ submitted \subseteq Work
  BY DEF PinInv, TypeOK
<1>1. CASE SensingPollHandler
  <2>1. /\ timer'["pulse"] = timer["pulse"]
        /\ timer'["release"] = timer["release"]
        /\ timer'["standby"] = timer["standby"]
    BY <1>u, <1>1, RescheduleAt DEF SensingPollHandler, Work
  <2>2. \A w \in {"pulse", "standby", "release"} :
          w \in submitted' <=> w \in submitted
    BY <1>1 DEF SensingPollHandler
  <2>3. UNCHANGED <<ctrlPin, standbyPin, mIsPulsing, mPendingOff, pc>>
    BY <1>1 DEF SensingPollHandler, fields, pins
  <2> QED
    BY <1>t, <2>1, <2>2, <2>3 DEF PinInv, ControlPinReleased, StandbyTimers,
         StandbyPulseWhole, FlagsHaveEnd, Pending
<1>2. CASE ControlPulseHandler
  <2>1. ControlPinReleased'
    BY <1>2 DEF ControlPulseHandler, ControlPinReleased
  <2>2. \/ timer'["standby"] = StandbyDelay
        \/ ~mPendingOff /\ timer'["standby"] = timer["standby"]
    BY <1>u, <1>2, RescheduleAt DEF ControlPulseHandler, Work
  <2>3. timer'["release"] = timer["release"]
    BY <1>u, <1>2, RescheduleAt DEF ControlPulseHandler, Work
  <2>4. \A w \in {"standby", "release"} : w \in submitted' <=> w \in submitted
    BY <1>2 DEF ControlPulseHandler
  <2>5. StandbyTimers'
    BY <1>2, <2>2, <2>3, <2>4 DEF ControlPulseHandler, PinInv, StandbyTimers, Pending
  <2>6. StandbyPulseWhole'
    <3>1. timer["release"] < StandbyDelay
      BY TimingAssumption DEF PinInv, StandbyTimers, TypeOK, Timers, Work, NotArmed
    <3>2. standbyPin' = standbyPin
      BY <1>2 DEF ControlPulseHandler
    <3> QED
      BY <2>2, <2>3, <2>4, <3>1, <3>2 DEF PinInv, StandbyPulseWhole, Pending
  <2>7. FlagsHaveEnd'
    <3>1. CASE mPendingOff
      <4>1. timer'["standby"] # NotArmed
        BY <2>2, <3>1, TimingAssumption DEF NotArmed
      <4> QED
        BY <4>1 DEF FlagsHaveEnd, Pending
    <3>2. CASE ~mPendingOff
      BY <1>2, <3>2 DEF ControlPulseHandler, FlagsHaveEnd
    <3> QED
      BY <3>1, <3>2
  <2> QED
    BY <1>t, <2>1, <2>5, <2>6, <2>7 DEF PinInv
<1>3. CASE StandbyPulseHandler
  <2>1. timer'["release"] = StandbyWidth
    BY <1>u, <1>3, RescheduleAt DEF StandbyPulseHandler, Work
  <2>2. /\ timer'["pulse"] = timer["pulse"]
        /\ timer'["standby"] = timer["standby"]
    BY <1>u, <1>3, RescheduleAt DEF StandbyPulseHandler, Work
  <2>3. /\ "standby" \in submitted
        /\ "standby" \notin submitted'
        /\ "pulse" \in submitted' <=> "pulse" \in submitted
    BY <1>3 DEF StandbyPulseHandler
  <2>4. ControlPinReleased'
    BY <1>3, <2>2, <2>3 DEF StandbyPulseHandler, matter, PinInv,
         ControlPinReleased, Pending
  <2>5. Pending("release")'
    BY <2>1, TimingAssumption DEF Pending, NotArmed
  <2>6. /\ "release" \notin submitted'
        /\ standbyPin' = "low"
    BY <1>3 DEF StandbyPulseHandler, PinInv, TypeOK, StandbyTimers,
         StandbyPulseWhole, Pending
  <2>7. StandbyTimers' /\ StandbyPulseWhole'
    BY <2>1, <2>2, <2>3, <2>5, <2>6, TimingAssumption DEF PinInv, StandbyTimers,
         StandbyPulseWhole
  <2>8. FlagsHaveEnd'
    BY <2>5 DEF FlagsHaveEnd
  <2> QED
    BY <1>t, <2>4, <2>7, <2>8 DEF PinInv
<1>4. CASE StandbyReleaseHandler
  <2>1. ControlPinReleased' /\ StandbyTimers'
    BY <1>4 DEF StandbyReleaseHandler, matter, PinInv, ControlPinReleased,
         StandbyTimers, Pending
  <2>2. StandbyPulseWhole' /\ FlagsHaveEnd'
    BY <1>4 DEF StandbyReleaseHandler, StandbyPulseWhole, FlagsHaveEnd
  <2> QED
    BY <1>t, <2>1, <2>2 DEF PinInv
<1> QED
  BY <1>1, <1>2, <1>3, <1>4 DEF WorkStep

LEMMA Env_PinInv == PinInv /\ EnvStep => PinInv'
<1> SUFFICES ASSUME PinInv, EnvStep PROVE PinInv'
  OBVIOUS
<1>t. TypeOK'
  BY Env_TypeOK DEF PinInv
<1>1. CASE ButtonPress
  BY <1>t, <1>1, Frame_PinInv DEF ButtonPress, fields
<1>2. ASSUME NEW on \in BOOLEAN, RemoteCommand(on)
      PROVE  PinInv'
  BY <1>t, <1>2, Frame_PinInv DEF RemoteCommand, fields
<1>3. CASE SenseChange
  BY <1>t, <1>3, Frame_PinInv DEF SenseChange, fields, matter
<1>4. CASE Restart
  <2>1. StandbyTimers'
    BY <1>4, TimingAssumption DEF Restart, StandbyTimers, Pending, Work, NotArmed
  <2>2. ControlPinReleased' /\ StandbyPulseWhole' /\ FlagsHaveEnd'
    BY <1>4 DEF Restart, ControlPinReleased, StandbyPulseWhole, FlagsHaveEnd
  <2> QED
    BY <1>t, <2>1, <2>2 DEF PinInv
<1> QED
  BY <1>1, <1>2, <1>3, <1>4 DEF EnvStep, UserStep

\* A tick only brings pending work closer: what was pending stays pending.
LEMMA Tick_Pending ==
  ASSUME TypeOK, Tick, NEW w \in Work
  PROVE  Pending(w)' <=> Pending(w)
BY DEF TypeOK, Timers, Tick, Pending, NotArmed

LEMMA Tick_PinInv == PinInv /\ Tick => PinInv'
<1> SUFFICES ASSUME PinInv, Tick PROVE PinInv'
  OBVIOUS
<1>t. TypeOK'
  BY Tick_TypeOK DEF PinInv
<1>1. /\ Pending("pulse")' <=> Pending("pulse")
      /\ Pending("standby")' <=> Pending("standby")
      /\ Pending("release")' <=> Pending("release")
  BY Tick_Pending DEF PinInv, Work
<1>2. UNCHANGED <<ctrlPin, standbyPin, mIsPulsing, mPendingOff, pc>>
  BY DEF Tick, fields, pins, matter
<1>3. ControlPinReleased' /\ FlagsHaveEnd'
  BY <1>1, <1>2 DEF PinInv, ControlPinReleased, FlagsHaveEnd
<1>4. \A w \in Work :
        /\ timer[w] \in (Nat \ {0}) \cup {NotArmed}
        /\ timer'[w] = IF timer[w] > 1 THEN timer[w] - 1 ELSE NotArmed
        /\ w \in submitted' <=> timer[w] = 1
  BY DEF Tick, PinInv, TypeOK, Timers
<1>5. StandbyTimers'
  BY <1>1, <1>2, <1>4, TimingAssumption DEF PinInv, StandbyTimers, Work, NotArmed
<1>6. StandbyPulseWhole'
  <2>1. standbyPin = "low" => timer["release"] # NotArmed
    BY DEF Tick, PinInv, StandbyPulseWhole, Pending
  <2> QED
    BY <1>1, <1>2, <1>4, <2>1 DEF PinInv, StandbyPulseWhole, Work, NotArmed
<1> QED
  BY <1>t, <1>3, <1>5, <1>6 DEF PinInv

LEMMA Spec_PinInv == Spec => []PinInv
<1>1. PinInv /\ UNCHANGED vars => PinInv'
  BY DEF PinInv, TypeOK, ControlPinReleased, StandbyTimers, StandbyPulseWhole,
         FlagsHaveEnd, Pending, vars, fields, pins, works, matter, sensors
<1>2. PinInv /\ [Next]_vars => PinInv'
  BY <1>1, Matter_PinInv, Work_PinInv, Env_PinInv, Tick_PinInv DEF Next
<1> QED
  BY <1>2, Init_PinInv, PTL DEF Spec

\* The control pin is never left driven.
THEOREM Spec_ControlPinReleased == Spec => []ControlPinReleased
BY Spec_PinInv, PTL DEF PinInv

\* Standby pulses are neither cut short nor merged.
THEOREM Spec_StandbyPulseWhole == Spec => []StandbyPulseWhole
BY Spec_PinInv, PTL DEF PinInv

\* mIsPulsing and mPendingOff never outlive the handlers that clear them.
THEOREM Spec_FlagsHaveEnd == Spec => []FlagsHaveEnd
BY Spec_PinInv, PTL DEF PinInv

-----------------------------------------------------------------------------
(* The standby pin implements PulseLine.                                   *)

LEMMA Init_Line == Init => StandbyLine!Init
BY DEF Init, StandbyLine!Init, StandbyLeft, Work

\* A step that leaves the standby pin and its release alone is a stutter.
LEMMA Frame_Line ==
  ASSUME timer'["release"] = timer["release"], standbyPin' = standbyPin
  PROVE  [StandbyLine!Next]_<<standbyPin, StandbyLeft>>
BY DEF StandbyLeft

LEMMA Next_Line ==
  ASSUME PinInv, Next
  PROVE  [StandbyLine!Next]_<<standbyPin, StandbyLeft>>
<1>u. timer \in Timers
  BY DEF PinInv, TypeOK
<1>1. CASE MatterStep
  <2>1. standbyPin' = standbyPin
    BY <1>1 DEF MatterStep, StartServer, SyncAttribute, ToggleByButton,
         PostAttributeChange, StoreField, DriveControlPin, ArmRelease, pins
  <2>2. timer' = timer \/ timer' = Reschedule(timer, "pulse", PulseWidth)
    BY <1>1 DEF MatterStep, StartServer, SyncAttribute, ToggleByButton,
         PostAttributeChange, StoreField, DriveControlPin, ArmRelease, works
  <2>3. timer'["release"] = timer["release"]
    BY <1>u, <2>2, RescheduleAt DEF Work
  <2> QED
    BY <2>1, <2>3, Frame_Line
<1>2. CASE SensingPollHandler
  <2>1. timer'["release"] = timer["release"]
    BY <1>u, <1>2, RescheduleAt DEF SensingPollHandler, Work
  <2> QED
    BY <1>2, <2>1, Frame_Line DEF SensingPollHandler, pins
<1>3. CASE ControlPulseHandler
  <2>1. timer'["release"] = timer["release"]
    BY <1>u, <1>3, RescheduleAt DEF ControlPulseHandler, Work
  <2> QED
    BY <1>3, <2>1, Frame_Line DEF ControlPulseHandler
<1>4. CASE StandbyPulseHandler
  <2>1. timer'["release"] = StandbyWidth /\ StandbyWidth # NotArmed
    BY <1>u, <1>4, RescheduleAt, TimingAssumption DEF StandbyPulseHandler, Work, NotArmed
  <2>2. standbyPin = "hiz" /\ standbyPin' = "low"
    BY <1>4 DEF StandbyPulseHandler, PinInv, TypeOK, StandbyPulseWhole
  <2> QED
    BY <2>1, <2>2 DEF StandbyLine!Next, StandbyLine!Start, StandbyLeft
<1>5. CASE StandbyReleaseHandler
  <2>1. standbyPin = "low" /\ timer["release"] = NotArmed
    BY <1>5 DEF StandbyReleaseHandler, PinInv, TypeOK, StandbyTimers, Pending
  <2>2. standbyPin' = "hiz" /\ timer' = timer
    BY <1>5 DEF StandbyReleaseHandler
  <2> QED
    BY <2>1, <2>2 DEF StandbyLine!Next, StandbyLine!Finish, StandbyLeft
<1>6. CASE Tick
  <2>1. /\ timer["release"] \in (Nat \ {0}) \cup {NotArmed}
        /\ timer'["release"] = IF timer["release"] > 1
                               THEN timer["release"] - 1 ELSE NotArmed
        /\ standbyPin' = standbyPin
    BY <1>6 DEF Tick, PinInv, TypeOK, Timers, Work, pins
  <2>2. CASE standbyPin = "low"
    <3>1. timer["release"] # NotArmed
      BY <1>6, <2>2 DEF Tick, PinInv, StandbyPulseWhole, Pending
    <3> QED
      BY <2>1, <2>2, <3>1 DEF StandbyLine!Next, StandbyLine!Elapse, StandbyLeft, NotArmed
  <2>3. CASE standbyPin # "low"
    <3>1. timer["release"] = NotArmed
      BY <2>3 DEF PinInv, TypeOK, StandbyTimers, Pending
    <3> QED
      BY <2>1, <3>1, Frame_Line DEF NotArmed
  <2> QED
    BY <2>2, <2>3
<1>7. CASE UserStep \/ SenseChange
  <2>1. standbyPin' = standbyPin /\ timer' = timer
    BY <1>7 DEF UserStep, ButtonPress, RemoteCommand, SenseChange, pins, works
  <2> QED
    BY <2>1, Frame_Line
<1>8. CASE Restart
  BY <1>8 DEF Restart, StandbyLine!Next, StandbyLine!PowerCut, StandbyLeft, Work
<1> QED
  BY <1>1, <1>2, <1>3, <1>4, <1>5, <1>6, <1>7, <1>8 DEF Next, WorkStep, EnvStep

\* Whatever the button, the controllers, the sensing and the power supply do,
\* each pulse on the standby pin lasts StandbyWidth ticks, no more, no less.
THEOREM Spec_StandbyLine == Spec => StandbyLineSpec
<1>1. UNCHANGED vars => [StandbyLine!Next]_<<standbyPin, StandbyLeft>>
  BY Frame_Line DEF vars, pins, works
<1>2. PinInv /\ [Next]_vars => [StandbyLine!Next]_<<standbyPin, StandbyLeft>>
  BY <1>1, Next_Line
<1> QED
  BY <1>2, Init_Line, Spec_PinInv, PTL DEF Spec, StandbyLineSpec, StandbyLine!Spec

-----------------------------------------------------------------------------
(* The deadlines: AppTask with its history variables.                      *)

\* When the work of an action is over, counted from the scheduling of the
\* release of its control pin.
Due == [pulse   |-> PulseWidth,
        standby |-> PulseWidth + StandbyDelay,
        release |-> ActionTime]

\* No work of the last action, or of an older one, is later than that.
WorkInTime ==
  \A w \in ActionWork :
    /\ timer[w] # NotArmed => age + timer[w] <= Due[w]
    /\ w \in submitted => age <= Due[w]

\* The next poll is on its way.
PollOnItsWay ==
  senseReady =>
    /\ Pending("sense")
    /\ timer["sense"] # NotArmed => polled + timer["sense"] <= PollPeriod
    /\ "sense" \in submitted => polled <= PollPeriod

\* The polls since the last disturbance have filled the newest positions of
\* the window, have been voted on, and were not further apart than PollPeriod.
SamplesSeen ==
  senseReady =>
    /\ \A i \in Positions : i < seen => mSenseHistory[i] = senseLine
    /\ seen > 0 => mVotedIsOn = Vote(mSenseHistory)
    /\ seen < Window => still <= seen * PollPeriod + polled

\* An action that began alone is followed by its own work only, one item after
\* the other, and its control pulse ends with mPendingOff as it was stored.
AloneInv ==
  alone =>
    /\ pc \in {"act", "arm"} => \A w \in ActionWork : ~Pending(w)
    /\ Pending("pulse") => ~Pending("standby") /\ ~Pending("release")
    /\ "pulse" \in submitted => timer["pulse"] = NotArmed
    /\ \/ pc = "act" /\ "mPendingOff" \notin todo
       \/ pc = "arm"
       \/ Pending("pulse")
       => mPendingOff = ~actionOn

DeadlineInv ==
  /\ age \in Nat /\ polled \in Nat /\ still \in Nat
  /\ seen \in 0..Window /\ alone \in BOOLEAN
  /\ WorkInTime
  /\ PollOnItsWay
  /\ SamplesSeen
  /\ AloneInv

\* The history variables only watch: every step with them is one of AppTask.
LEMMA Deadline_Next == DeadlineNext => Next
BY DEF DeadlineNext, Begin, Store, Arm, Sample, Move, Pass, Reboot, Unmeasured,
       Next, MatterStep, WorkStep, EnvStep

THEOREM DeadlineSpec_Spec == DeadlineSpec => Spec
<1>1. DeadlineInit => Init
  BY DEF DeadlineInit
<1>2. [DeadlineNext]_deadlineVars => [Next]_vars
  BY Deadline_Next DEF deadlineVars
<1> QED
  BY <1>1, <1>2, PTL DEF DeadlineSpec, Spec

LEMMA DueType ==
  /\ Due["pulse"] = PulseWidth
  /\ Due["standby"] = PulseWidth + StandbyDelay
  /\ Due["release"] = PulseWidth + StandbyDelay + StandbyWidth
  /\ \A w \in ActionWork : Due[w] \in Nat
BY TimingAssumption DEF Due, ActionTime, ActionWork

LEMMA Init_DeadlineInv == DeadlineInit => DeadlineInv
<1> SUFFICES ASSUME DeadlineInit PROVE DeadlineInv
  OBVIOUS
<1>1. age \in Nat /\ polled \in Nat /\ still \in Nat /\ seen \in 0..Window /\ alone \in BOOLEAN
  BY VoteAssumption DEF DeadlineInit
<1>2. WorkInTime
  BY DEF DeadlineInit, Init, WorkInTime, ActionWork, Work
<1>3. PollOnItsWay
  BY TimingAssumption DEF DeadlineInit, Init, PollOnItsWay, Pending, Work
<1>4. SamplesSeen
  <2>1. seen = 0 /\ polled = 0 /\ still = 0
    BY DEF DeadlineInit
  <2>2. seen * PollPeriod = 0
    BY <2>1, TimingAssumption
  <2>3. \A i \in Positions : ~(i < seen)
    BY <2>1, VoteAssumption DEF Positions
  <2> QED
    BY <2>1, <2>2, <2>3 DEF SamplesSeen
<1>5. AloneInv
  BY DEF DeadlineInit, Init, AloneInv, Pending, Work, ActionWork, NotArmed
<1> QED
  BY <1>1, <1>2, <1>3, <1>4, <1>5 DEF DeadlineInv

LEMMA Types_Deadline ==
  ASSUME DeadlineInv, DeadlineNext
  PROVE  /\ age' \in Nat /\ polled' \in Nat /\ still' \in Nat
         /\ seen' \in 0..Window /\ alone' \in BOOLEAN
<1> USE DEF DeadlineInv
<1>1. CASE Begin
  BY <1>1 DEF Begin
<1>2. ASSUME NEW f \in Stores, Store(f)
      PROVE  /\ age' \in Nat /\ polled' \in Nat /\ still' \in Nat
             /\ seen' \in 0..Window /\ alone' \in BOOLEAN
  BY <1>2, VoteAssumption DEF Store
<1>3. CASE Arm
  BY <1>3 DEF Arm
<1>7. CASE Move
  BY <1>7, VoteAssumption DEF Move
<1>8. CASE Reboot
  BY <1>8, VoteAssumption DEF Reboot
<1>6. CASE Sample
  BY <1>6, VoteAssumption DEF Sample, Count
<1>4. CASE Pass
  BY <1>4 DEF Pass, Count
<1>5. CASE Unmeasured
  BY <1>5 DEF Unmeasured, measures
<1> QED
  BY <1>1, <1>2, <1>3, <1>4, <1>5, <1>6, <1>7, <1>8 DEF DeadlineNext

\* A step that leaves the timers and the submitted items of an action alone.
LEMMA Frame_Work ==
  ASSUME WorkInTime, age' = age,
         \A w \in ActionWork : /\ timer'[w] = timer[w]
                               /\ w \in submitted' => w \in submitted
  PROVE  WorkInTime'
BY DEF WorkInTime, Due, ActionTime

LEMMA Next_WorkInTime ==
  ASSUME TypeOK, DeadlineInv, DeadlineNext
  PROVE  WorkInTime'
<1>u. /\ timer \in Timers
      /\ WorkInTime
      /\ age \in Nat
      /\ ActionWork \subseteq Work
  BY DEF TypeOK, DeadlineInv, ActionWork, Work
<1>d. Due' = Due
  BY DEF Due, ActionTime
<1>1. CASE Begin
  BY <1>u, <1>1, Frame_Work DEF Begin, ToggleByButton, PostAttributeChange, works
<1>2. ASSUME NEW f \in Stores, Store(f)
      PROVE  WorkInTime'
  BY <1>u, <1>2, Frame_Work DEF Store, StoreField, works
<1>3. CASE Arm
  <2>1. /\ timer'["pulse"] = PulseWidth
        /\ \A w \in ActionWork \ {"pulse"} : timer'[w] = timer[w]
        /\ submitted' = submitted
        /\ age' = 0
    BY <1>u, <1>3, RescheduleAt DEF Arm, ArmRelease, Work
  <2>2. ASSUME NEW w \in ActionWork
        PROVE  /\ timer'[w] # NotArmed => age' + timer'[w] <= Due[w]
               /\ w \in submitted' => age' <= Due[w]
    BY <1>u, <2>1, DueType, TimingAssumption DEF WorkInTime, Timers
  <2> QED
    BY <1>d, <2>2 DEF WorkInTime
<1>4. CASE Sample
  <2>1. \A w \in ActionWork : timer'[w] = timer[w]
    BY <1>u, <1>4, RescheduleAt DEF Sample, SensingPollHandler, ActionWork, Work
  <2> QED
    BY <1>u, <1>4, <2>1, Frame_Work DEF Sample, SensingPollHandler
<1>5. CASE Move
  BY <1>u, <1>5, Frame_Work DEF Move, SenseChange, works
<1>6. CASE Pass
  <2>1. ASSUME NEW w \in ActionWork
        PROVE  /\ timer'[w] # NotArmed => age' + timer'[w] <= Due[w]
               /\ w \in submitted' => age' <= Due[w]
    <3>1. /\ timer[w] \in (Nat \ {0}) \cup {NotArmed}
          /\ timer'[w] = IF timer[w] > 1 THEN timer[w] - 1 ELSE NotArmed
          /\ w \in submitted' => timer[w] = 1
      BY <1>u, <1>6 DEF Pass, Tick, Timers
    <3>2. age' \in Nat /\ age' <= age + 1
      BY <1>u, <1>6 DEF Pass, Count
    <3>3. timer[w] # NotArmed => age + timer[w] <= Due[w]
      BY <1>u DEF WorkInTime
    <3> QED
      BY <1>u, <3>1, <3>2, <3>3, DueType DEF NotArmed
  <2> QED
    BY <1>d, <2>1 DEF WorkInTime
<1>7. CASE Reboot
  BY <1>7 DEF Reboot, Restart, WorkInTime, ActionWork, Work
<1>8. CASE Unmeasured
  <2>a. UNCHANGED age
    BY <1>8 DEF Unmeasured, measures
  <2>1. CASE StartServer \/ SyncAttribute \/ DriveControlPin \/ UserStep
    <3>1. UNCHANGED <<timer, submitted>>
      BY <2>1 DEF StartServer, SyncAttribute, DriveControlPin, UserStep,
           ButtonPress, RemoteCommand, works
    <3> QED
      BY <1>u, <2>a, <3>1, Frame_Work
  <2>2. CASE ControlPulseHandler
    <3>1. age <= PulseWidth
      BY <1>u, <2>2, DueType DEF ControlPulseHandler, WorkInTime, ActionWork
    <3>2. /\ timer'["standby"] = timer["standby"] \/ timer'["standby"] = StandbyDelay
          /\ \A w \in ActionWork \ {"standby"} : timer'[w] = timer[w]
          /\ submitted' \subseteq submitted
      BY <1>u, <2>2, RescheduleAt DEF ControlPulseHandler, Work
    <3>3. ASSUME NEW w \in ActionWork
          PROVE  /\ timer'[w] # NotArmed => age' + timer'[w] <= Due[w]
                 /\ w \in submitted' => age' <= Due[w]
      BY <1>u, <2>a, <3>1, <3>2, DueType, TimingAssumption DEF WorkInTime
    <3> QED
      BY <1>d, <3>3 DEF WorkInTime
  <2>3. CASE StandbyPulseHandler
    <3>1. age <= PulseWidth + StandbyDelay
      BY <1>u, <2>3, DueType DEF StandbyPulseHandler, WorkInTime, ActionWork
    <3>2. /\ timer'["release"] = StandbyWidth
          /\ \A w \in ActionWork \ {"release"} : timer'[w] = timer[w]
          /\ submitted' \subseteq submitted
      BY <1>u, <2>3, RescheduleAt DEF StandbyPulseHandler, Work
    <3>3. ASSUME NEW w \in ActionWork
          PROVE  /\ timer'[w] # NotArmed => age' + timer'[w] <= Due[w]
                 /\ w \in submitted' => age' <= Due[w]
      BY <1>u, <2>a, <3>1, <3>2, DueType, TimingAssumption DEF WorkInTime
    <3> QED
      BY <1>d, <3>3 DEF WorkInTime
  <2>4. CASE StandbyReleaseHandler
    BY <1>u, <2>a, <2>4, Frame_Work DEF StandbyReleaseHandler
  <2> QED
    BY <1>8, <2>1, <2>2, <2>3, <2>4 DEF Unmeasured
<1> QED
  BY <1>1, <1>2, <1>3, <1>4, <1>5, <1>6, <1>7, <1>8 DEF DeadlineNext

\* A step that leaves the poll alone.
LEMMA Frame_Poll ==
  ASSUME PollOnItsWay, UNCHANGED <<senseReady, polled>>,
         timer'["sense"] = timer["sense"],
         "sense" \in submitted' <=> "sense" \in submitted
  PROVE  PollOnItsWay'
BY DEF PollOnItsWay, Pending

LEMMA Next_PollOnItsWay ==
  ASSUME TypeOK, DeadlineInv, DeadlineNext
  PROVE  PollOnItsWay'
<1>u. /\ timer \in Timers
      /\ PollOnItsWay
      /\ polled \in Nat
      /\ "sense" \in Work
  BY DEF TypeOK, DeadlineInv, Work
<1>1. CASE Begin
  BY <1>u, <1>1, Frame_Poll DEF Begin, ToggleByButton, PostAttributeChange, works, sensors
<1>2. ASSUME NEW f \in Stores, Store(f)
      PROVE  PollOnItsWay'
  BY <1>u, <1>2, Frame_Poll DEF Store, StoreField, works, sensors
<1>3. CASE Arm
  <2>1. timer'["sense"] = timer["sense"]
    BY <1>u, <1>3, RescheduleAt DEF Arm, ArmRelease, Work
  <2> QED
    BY <1>u, <1>3, <2>1, Frame_Poll DEF Arm, ArmRelease, sensors
<1>4. CASE Sample
  <2> SUFFICES ASSUME senseReady'
               PROVE  PollOnItsWay'
    BY DEF PollOnItsWay
  <2>1. senseReady
    BY <1>4 DEF Sample, SensingPollHandler, sensors
  <2>2. timer'["sense"] = PollPeriod /\ "sense" \notin submitted' /\ polled' = 0
    BY <1>u, <1>4, <2>1, RescheduleAt DEF Sample, SensingPollHandler
  <2> QED
    BY <2>2, TimingAssumption DEF PollOnItsWay, Pending, NotArmed
<1>5. CASE Move
  BY <1>u, <1>5, Frame_Poll DEF Move, SenseChange, works
<1>6. CASE Pass
  <2>1. /\ timer["sense"] \in (Nat \ {0}) \cup {NotArmed}
        /\ timer'["sense"] = IF timer["sense"] > 1 THEN timer["sense"] - 1 ELSE NotArmed
        /\ "sense" \in submitted' <=> timer["sense"] = 1
        /\ submitted = {}
        /\ senseReady' = senseReady
    BY <1>u, <1>6 DEF Pass, Tick, Timers, sensors
  <2>2. polled' \in Nat /\ polled' <= polled + 1
    BY <1>u, <1>6 DEF Pass, Count
  <2> QED
    BY <1>u, <2>1, <2>2, TimingAssumption DEF PollOnItsWay, Pending, NotArmed
<1>7. CASE Reboot
  BY <1>7, TimingAssumption DEF Reboot, Restart, PollOnItsWay, Pending, Work
<1>8. CASE Unmeasured
  <2>1. /\ timer'["sense"] = timer["sense"]
        /\ "sense" \in submitted' <=> "sense" \in submitted
        /\ senseReady' = senseReady
    <3>1. CASE StartServer \/ SyncAttribute \/ DriveControlPin \/ UserStep
      BY <3>1 DEF StartServer, SyncAttribute, DriveControlPin, UserStep,
           ButtonPress, RemoteCommand, works, sensors
    <3>2. CASE ControlPulseHandler
      BY <1>u, <3>2, RescheduleAt DEF ControlPulseHandler, Work, sensors
    <3>3. CASE StandbyPulseHandler
      BY <1>u, <3>3, RescheduleAt DEF StandbyPulseHandler, Work, sensors
    <3>4. CASE StandbyReleaseHandler
      BY <3>4 DEF StandbyReleaseHandler, sensors
    <3> QED
      BY <1>8, <3>1, <3>2, <3>3, <3>4 DEF Unmeasured
  <2> QED
    BY <1>u, <1>8, <2>1, Frame_Poll DEF Unmeasured, measures
<1> QED
  BY <1>1, <1>2, <1>3, <1>4, <1>5, <1>6, <1>7, <1>8 DEF DeadlineNext

\* A step that leaves the pin, the window and their times alone.
LEMMA Frame_Samples ==
  ASSUME SamplesSeen, UNCHANGED <<senseReady, senseLine, mSenseHistory, mVotedIsOn,
                                  still, seen, polled>>
  PROVE  SamplesSeen'
BY DEF SamplesSeen, Vote, LowCount

LEMMA Next_SamplesSeen ==
  ASSUME TypeOK, DeadlineInv, DeadlineNext
  PROVE  SamplesSeen'
<1>u. /\ SamplesSeen /\ PollOnItsWay
      /\ polled \in Nat /\ still \in Nat /\ seen \in 0..Window
      /\ PollPeriod \in Nat \ {0}
      /\ Window \in Nat
      /\ mSenseHistory \in History
  BY VoteAssumption, TimingAssumption DEF DeadlineInv, TypeOK
<1>r. ASSUME still' = 0, seen' = 0, polled' \in Nat
      PROVE  SamplesSeen'
  <2>1. seen' * PollPeriod = 0
    BY <1>r, <1>u
  <2>2. \A i \in Positions : ~(i < seen')
    BY <1>r, <1>u DEF Positions
  <2> QED
    BY <1>r, <2>1, <2>2 DEF SamplesSeen
<1>1. CASE Begin
  BY <1>u, <1>1, Frame_Samples DEF Begin, ToggleByButton, PostAttributeChange, fields, sensors
<1>2. ASSUME NEW f \in Stores, Store(f)
      PROVE  SamplesSeen'
  <2>1. CASE f \in {"mSenseHistory", "mVotedIsOn"}
    BY <1>r, <1>u, <1>2, <2>1 DEF Store
  <2>2. CASE f \notin {"mSenseHistory", "mVotedIsOn"}
    BY <1>u, <1>2, <2>2, Frame_Samples DEF Store, StoreField, sensors
  <2> QED
    BY <2>1, <2>2
<1>3. CASE Arm
  BY <1>u, <1>3, Frame_Samples DEF Arm, ArmRelease, fields, sensors
<1>4. CASE Sample
  <2> SUFFICES ASSUME senseReady'
               PROVE  /\ \A i \in Positions : i < seen' => mSenseHistory'[i] = senseLine'
                      /\ seen' > 0 => mVotedIsOn' = Vote(mSenseHistory')
                      /\ seen' < Window => still' <= seen' * PollPeriod + polled'
    BY DEF SamplesSeen, Vote, LowCount
  <2>1. senseReady /\ senseLine' = senseLine
    BY <1>4 DEF Sample, SensingPollHandler, sensors
  <2>2. /\ mSenseHistory' = ShiftIn(mSenseHistory, senseLine)
        /\ mVotedIsOn' = Vote(mSenseHistory')
        /\ polled' = 0
        /\ still' = still
        /\ seen' = Count(seen, Window)
        /\ "sense" \in submitted
    BY <1>4, <2>1 DEF Sample, SensingPollHandler
  <2>3. ASSUME NEW i \in Positions, i < seen'
        PROVE  mSenseHistory'[i] = senseLine'
    <3>1. CASE i = 0
      BY <2>1, <2>2, <3>1 DEF ShiftIn
    <3>2. CASE i # 0
      <4>1. i - 1 \in Positions /\ i - 1 < seen
        BY <1>u, <2>2, <2>3, <3>2 DEF Positions, Count
      <4>2. mSenseHistory[i - 1] = senseLine
        BY <1>u, <2>1, <4>1 DEF SamplesSeen
      <4> QED
        BY <2>1, <2>2, <3>2, <4>2 DEF ShiftIn
    <3> QED
      BY <3>1, <3>2
  <2>4. ASSUME seen' < Window
        PROVE  still' <= seen' * PollPeriod + polled'
    <3>1. seen < Window /\ seen' = seen + 1
      BY <1>u, <2>2, <2>4 DEF Count
    <3>2. still <= seen * PollPeriod + polled /\ polled <= PollPeriod
      BY <1>u, <2>1, <2>2, <3>1 DEF SamplesSeen, PollOnItsWay
    <3>3. (seen + 1) * PollPeriod = seen * PollPeriod + PollPeriod
      BY <1>u
    <3> DEFINE p == seen * PollPeriod
    <3>4. p \in Nat
      BY <1>u
    <3> HIDE DEF p
    <3>5. still <= p + polled /\ (seen + 1) * PollPeriod = p + PollPeriod
      BY <3>2, <3>3 DEF p
    <3>6. still <= p + PollPeriod
      BY <1>u, <3>2, <3>4, <3>5
    <3> QED
      BY <1>u, <2>2, <3>1, <3>4, <3>5, <3>6
  <2> QED
    BY <2>2, <2>3, <2>4
<1>5. CASE Move
  BY <1>r, <1>u, <1>5 DEF Move
<1>6. CASE Pass
  <2>1. UNCHANGED <<senseReady, senseLine, mSenseHistory, mVotedIsOn, seen>>
    BY <1>6 DEF Pass, Tick, fields, sensors
  <2>2. senseReady /\ seen < Window => still' <= seen * PollPeriod + polled'
    <3> SUFFICES ASSUME senseReady, seen < Window
                 PROVE  still' <= seen * PollPeriod + polled'
      OBVIOUS
    <3>1. still <= seen * PollPeriod + polled
      BY <1>u DEF SamplesSeen
    <3>2. still' \in Nat /\ still' <= still + 1
      BY <1>u, <1>6 DEF Pass, Count
    <3>3. polled' = polled + 1
      <4>1. timer["sense"] # NotArmed /\ polled + timer["sense"] <= PollPeriod
        BY <1>u, <1>6 DEF Pass, Tick, PollOnItsWay, Pending
      <4>2. timer["sense"] \in Nat
        BY <4>1 DEF TypeOK, Timers, Work
      <4> QED
        BY <1>u, <1>6, <4>1, <4>2 DEF Pass, Count
    <3> DEFINE p == seen * PollPeriod
    <3>4. p \in Nat
      BY <1>u
    <3> HIDE DEF p
    <3>5. still <= p + polled
      BY <3>1 DEF p
    <3>6. still' <= p + polled'
      BY <1>u, <3>2, <3>3, <3>4, <3>5
    <3> QED
      BY <3>6 DEF p
  <2> QED
    BY <1>u, <2>1, <2>2 DEF SamplesSeen, Vote, LowCount
<1>7. CASE Reboot
  BY <1>r, <1>7 DEF Reboot
<1>8. CASE Unmeasured
  <2>1. UNCHANGED <<senseReady, senseLine, mSenseHistory, mVotedIsOn>>
    BY <1>8 DEF Unmeasured, StartServer, SyncAttribute, DriveControlPin,
         ControlPulseHandler, StandbyPulseHandler, StandbyReleaseHandler,
         UserStep, ButtonPress, RemoteCommand, fields, sensors
  <2> QED
    BY <1>u, <1>8, <2>1, Frame_Samples DEF Unmeasured, measures
<1> QED
  BY <1>1, <1>2, <1>3, <1>4, <1>5, <1>6, <1>7, <1>8 DEF DeadlineNext

\* A step that leaves the work of an action, its stores and its kind alone.
LEMMA Frame_Alone ==
  ASSUME AloneInv, UNCHANGED <<alone, mPendingOff, actionOn, todo>>,
         \A w \in ActionWork : Pending(w)' <=> Pending(w),
         "pulse" \in submitted' => timer'["pulse"] = NotArmed \/ ~alone,
         pc' = pc \/ pc' \in {"idle", "changed"}
  PROVE  AloneInv'
BY DEF AloneInv, ActionWork

LEMMA Next_AloneInv ==
  ASSUME TypeOK, DeadlineInv, DeadlineNext
  PROVE  AloneInv'
<1>u. /\ AloneInv
      /\ timer \in Timers
      /\ submitted \subseteq Work
      /\ ActionWork \subseteq Work
      /\ Stores = {"mIsPulsing", "mPendingOff", "mSenseHistory", "mVotedIsOn"}
  BY DEF DeadlineInv, TypeOK, ActionWork, Work, Stores
<1>w. ASSUME UNCHANGED works
      PROVE  /\ \A w \in ActionWork : Pending(w)' <=> Pending(w)
             /\ alone => ("pulse" \in submitted' => timer'["pulse"] = NotArmed)
  BY <1>u, <1>w DEF works, Pending, AloneInv
<1>1. CASE Begin
  <2>1. /\ UNCHANGED works
        /\ mPendingOff' = mPendingOff
    BY <1>1 DEF Begin, ToggleByButton, PostAttributeChange, fields
  <2>2. CASE pc' = "act"
    <3>1. todo' = Stores
      BY <1>1, <2>2 DEF Begin, ToggleByButton, PostAttributeChange, Call, Return
    <3>2. alone' => \A w \in ActionWork : ~Pending(w)'
      BY <1>1, <1>w, <2>1, <2>2 DEF Begin
    <3>3. alone' => "pulse" \notin submitted'
      BY <3>2 DEF Pending, ActionWork
    <3> QED
      BY <1>u, <2>2, <3>1, <3>2, <3>3 DEF AloneInv, ActionWork
  <2>3. CASE pc' # "act"
    <3>1. pc' = "idle" /\ UNCHANGED <<todo, actionOn, alone>>
      BY <1>1, <2>3 DEF Begin, ToggleByButton, PostAttributeChange, Call, Return
    <3> QED
      BY <1>u, <1>w, <2>1, <3>1, Frame_Alone
  <2> QED
    BY <2>2, <2>3
<1>2. ASSUME NEW f \in Stores, Store(f)
      PROVE  AloneInv'
  <2>1. /\ pc = "act" /\ pc' = "act"
        /\ UNCHANGED <<works, alone, actionOn>>
        /\ todo' = todo \ {f}
        /\ mPendingOff' = IF f = "mPendingOff" THEN ~actionOn ELSE mPendingOff
    BY <1>2 DEF Store, StoreField
  <2>2. alone => \A w \in ActionWork : ~Pending(w)'
    BY <1>u, <1>w, <2>1 DEF AloneInv
  <2>3. alone => "pulse" \notin submitted'
    BY <2>2 DEF Pending, ActionWork
  <2>4. alone /\ "mPendingOff" \notin todo' => mPendingOff' = ~actionOn'
    BY <1>u, <2>1 DEF AloneInv
  <2> QED
    BY <2>1, <2>2, <2>3, <2>4 DEF AloneInv, ActionWork
<1>3. CASE Arm
  <2>1. /\ pc = "arm" /\ pc' = "idle"
        /\ UNCHANGED <<alone, actionOn, mPendingOff, submitted>>
        /\ \A w \in ActionWork \ {"pulse"} : timer'[w] = timer[w]
    BY <1>u, <1>3, RescheduleAt DEF Arm, ArmRelease, Return, fields, Work
  <2>2. alone => /\ \A w \in ActionWork : ~Pending(w)
                 /\ mPendingOff = ~actionOn
    BY <1>u, <2>1 DEF AloneInv
  <2>3. alone => /\ ~Pending("standby")' /\ ~Pending("release")'
                 /\ "pulse" \notin submitted'
    BY <2>1, <2>2 DEF Pending, ActionWork
  <2> QED
    BY <2>1, <2>2, <2>3 DEF AloneInv
<1>4. CASE Sample
  <2>1. \A w \in ActionWork : /\ timer'[w] = timer[w]
                              /\ w \in submitted' <=> w \in submitted
    BY <1>u, <1>4, RescheduleAt DEF Sample, SensingPollHandler, ActionWork, Work
  <2>2. UNCHANGED <<alone, mPendingOff, actionOn, todo, pc>>
    BY <1>4 DEF Sample, SensingPollHandler, fields
  <2>3. \A w \in ActionWork : Pending(w)' <=> Pending(w)
    BY <2>1 DEF Pending
  <2>4. "pulse" \in submitted' => timer'["pulse"] = NotArmed \/ ~alone
    BY <1>u, <2>1 DEF AloneInv, ActionWork
  <2> QED
    BY <1>u, <2>2, <2>3, <2>4, Frame_Alone
<1>5. CASE Move
  BY <1>u, <1>w, <1>5, Frame_Alone DEF Move, SenseChange, fields, matter
<1>6. CASE Pass
  <2>1. \A w \in ActionWork : Pending(w)' <=> Pending(w)
    BY <1>u, <1>6, Tick_Pending DEF Pass
  <2>2. "pulse" \in submitted' => timer'["pulse"] = NotArmed
    BY <1>6 DEF Pass, Tick, Work
  <2> QED
    BY <1>u, <1>6, <2>1, <2>2, Frame_Alone DEF Pass, Tick, fields, matter
<1>7. CASE Reboot
  BY <1>7 DEF Reboot, Restart, AloneInv, Pending, ActionWork, Work
<1>8. CASE Unmeasured
  <2>a. alone' = alone
    BY <1>8 DEF Unmeasured, measures
  <2>1. CASE StartServer \/ SyncAttribute \/ UserStep
    BY <1>u, <1>w, <2>1, <2>a, Frame_Alone DEF StartServer, SyncAttribute, Return,
         UserStep, ButtonPress, RemoteCommand, fields
  <2>2. CASE DriveControlPin
    <3>1. /\ pc = "act" /\ pc' = "arm" /\ todo = {}
          /\ UNCHANGED <<works, mPendingOff, actionOn>>
      BY <2>2 DEF DriveControlPin, fields
    <3>2. alone => /\ \A w \in ActionWork : ~Pending(w)'
                   /\ mPendingOff' = ~actionOn'
      BY <1>u, <1>w, <3>1 DEF AloneInv
    <3>3. alone => "pulse" \notin submitted'
      BY <3>2 DEF Pending, ActionWork
    <3> QED
      BY <2>a, <3>1, <3>2, <3>3 DEF AloneInv, ActionWork
  <2>3. CASE ControlPulseHandler
    <3>1. /\ "pulse" \in submitted /\ "pulse" \notin submitted'
          /\ timer'["pulse"] = timer["pulse"]
          /\ pc' = pc
      BY <1>u, <2>3, RescheduleAt DEF ControlPulseHandler, matter, Work
    <3>2. alone => ~Pending("pulse")' /\ pc \notin {"act", "arm"}
      BY <1>u, <3>1 DEF AloneInv, Pending, ActionWork
    <3> QED
      BY <2>a, <3>1, <3>2 DEF AloneInv
  <2>4. CASE StandbyPulseHandler \/ StandbyReleaseHandler
    <3>1. /\ "standby" \in submitted \/ "release" \in submitted
          /\ timer'["pulse"] = timer["pulse"]
          /\ "pulse" \in submitted' <=> "pulse" \in submitted
          /\ pc' = pc
      BY <1>u, <2>4, RescheduleAt DEF StandbyPulseHandler, StandbyReleaseHandler, matter, Work
    <3>2. alone => ~Pending("pulse") /\ pc \notin {"act", "arm"}
      BY <1>u, <3>1 DEF AloneInv, Pending, ActionWork
    <3>3. alone => ~Pending("pulse")'
      BY <3>1, <3>2 DEF Pending
    <3> QED
      BY <2>a, <3>1, <3>2, <3>3 DEF AloneInv, Pending
  <2> QED
    BY <1>8, <2>1, <2>2, <2>3, <2>4 DEF Unmeasured
<1> QED
  BY <1>1, <1>2, <1>3, <1>4, <1>5, <1>6, <1>7, <1>8 DEF DeadlineNext

LEMMA Spec_DeadlineInv == DeadlineSpec => [](PinInv /\ DeadlineInv)
<1>1. DeadlineInv /\ UNCHANGED deadlineVars => DeadlineInv'
  BY Frame_Work, Frame_Poll, Frame_Samples, Frame_Alone
     DEF DeadlineInv, deadlineVars, measures, vars, fields, pins, works, matter, sensors, Pending, AloneInv
<1>2. TypeOK /\ DeadlineInv /\ DeadlineNext => DeadlineInv'
  BY Types_Deadline, Next_WorkInTime, Next_PollOnItsWay, Next_SamplesSeen, Next_AloneInv
     DEF DeadlineInv
<1>3. TypeOK /\ DeadlineInv /\ [DeadlineNext]_deadlineVars => DeadlineInv'
  BY <1>1, <1>2
<1>4. PinInv => TypeOK
  BY DEF PinInv
<1> QED
  BY <1>3, <1>4, Init_DeadlineInv, DeadlineSpec_Spec, Spec_PinInv, PTL DEF DeadlineSpec

\* A control pulse ends in time.
THEOREM DeadlineSpec_ControlPulseBounded == DeadlineSpec => []ControlPulseBounded
<1>1. PinInv /\ DeadlineInv => ControlPulseBounded
  <2> SUFFICES ASSUME PinInv, DeadlineInv, ctrlPin = "low", pc # "arm"
               PROVE  age <= PulseWidth
    BY DEF ControlPulseBounded
  <2>1. timer["pulse"] # NotArmed \/ "pulse" \in submitted
    BY DEF PinInv, ControlPinReleased, Pending
  <2>2. timer["pulse"] # NotArmed => timer["pulse"] \in Nat
    BY DEF PinInv, TypeOK, Timers, Work
  <2>3. /\ timer["pulse"] # NotArmed => age + timer["pulse"] <= PulseWidth
        /\ "pulse" \in submitted => age <= PulseWidth
    BY DueType DEF DeadlineInv, WorkInTime, ActionWork
  <2> QED
    BY <2>1, <2>2, <2>3, TimingAssumption DEF DeadlineInv
<1> QED
  BY <1>1, Spec_DeadlineInv, PTL

\* Actions that overlap do not mute the sensing for longer than one of them.
THEOREM DeadlineSpec_MutedBriefly == DeadlineSpec => []MutedBriefly
<1>1. PinInv /\ DeadlineInv => MutedBriefly
  <2> SUFFICES ASSUME PinInv, DeadlineInv, mIsPulsing \/ mPendingOff,
                      pc \notin {"act", "arm"}
               PROVE  age <= ActionTime
    BY DEF MutedBriefly
  <2>1. PICK w \in ActionWork : Pending(w)
    BY DEF PinInv, FlagsHaveEnd, ActionWork
  <2>2. Due[w] <= ActionTime /\ Due[w] \in Nat /\ ActionTime \in Nat
    BY DueType, TimingAssumption DEF ActionTime, ActionWork
  <2>3. timer[w] # NotArmed => timer[w] \in Nat
    BY DEF PinInv, TypeOK, Timers, ActionWork, Work
  <2>4. /\ timer[w] # NotArmed => age + timer[w] <= Due[w]
        /\ w \in submitted => age <= Due[w]
    BY DEF DeadlineInv, WorkInTime
  <2>5. age \in Nat
    BY DEF DeadlineInv
  <2> QED
    BY <2>1, <2>2, <2>3, <2>4, <2>5 DEF Pending
<1> QED
  BY <1>1, Spec_DeadlineInv, PTL

\* The pin is polled for ever, and at its period.
THEOREM DeadlineSpec_PollsInTime == DeadlineSpec => []PollsInTime
<1>1. PinInv /\ DeadlineInv => PollsInTime
  <2> SUFFICES ASSUME PinInv, DeadlineInv, senseReady
               PROVE  polled <= PollPeriod
    BY DEF PollsInTime
  <2>1. timer["sense"] # NotArmed => timer["sense"] \in Nat
    BY DEF PinInv, TypeOK, Timers, Work
  <2> QED
    BY <2>1, TimingAssumption DEF DeadlineInv, PollOnItsWay, Pending
<1> QED
  BY <1>1, Spec_DeadlineInv, PTL

\* n polls are seen in any time longer than n periods.
LEMMA PollsSeen ==
  ASSUME PinInv, DeadlineInv, senseReady, NEW n \in 1..Window, still > n * PollPeriod
  PROVE  seen >= n
<1> SUFFICES ASSUME seen < n PROVE FALSE
  BY VoteAssumption DEF DeadlineInv
<1>1. /\ seen \in Nat /\ polled \in Nat /\ still \in Nat
      /\ PollPeriod \in Nat \ {0} /\ n \in Nat /\ n <= Window /\ seen < Window
  BY VoteAssumption, TimingAssumption DEF DeadlineInv
<1>2. still <= seen * PollPeriod + polled
  BY <1>1 DEF DeadlineInv, SamplesSeen
<1>3. polled <= PollPeriod
  <2>1. timer["sense"] # NotArmed => timer["sense"] \in Nat
    BY DEF PinInv, TypeOK, Timers, Work
  <2> QED
    BY <1>1, <2>1 DEF DeadlineInv, PollOnItsWay, Pending
<1>4. PICK k \in Nat : n = seen + 1 + k
  <2>1. n - (seen + 1) \in Nat /\ n = seen + 1 + (n - (seen + 1))
    BY <1>1
  <2> QED
    BY <2>1
<1>5. n * PollPeriod = seen * PollPeriod + PollPeriod + k * PollPeriod
  BY <1>1, <1>4
<1> DEFINE p == seen * PollPeriod
           q == k * PollPeriod
           r == n * PollPeriod
<1>6. p \in Nat /\ q \in Nat
  BY <1>1, <1>4
<1>7. r = p + PollPeriod + q /\ still <= p + polled /\ still > r
  BY <1>2, <1>5
<1> HIDE DEF p, q, r
<1> QED
  BY <1>1, <1>3, <1>6, <1>7

\* The vote follows a pin that rests, in the time its window takes.
THEOREM DeadlineSpec_VoteFollowsPin == DeadlineSpec => []VoteFollowsPin
<1>1. PinInv /\ DeadlineInv => VoteFollowsPin
  <2> SUFFICES ASSUME PinInv, DeadlineInv, senseReady
               PROVE  /\ HeaterOn(senseLine) /\ still > Threshold * PollPeriod => mVotedIsOn
                      /\ ~HeaterOn(senseLine) /\ still > (Window - Threshold + 1) * PollPeriod
                           => ~mVotedIsOn
    BY DEF VoteFollowsPin
  <2>u. /\ seen \in 0..Window /\ Window \in Nat /\ Threshold \in 1..Window
        /\ mSenseHistory \in History /\ senseLine \in Samples
    BY VoteAssumption DEF PinInv, TypeOK, DeadlineInv
  <2>s. /\ \A i \in 0..(seen - 1) : mSenseHistory[i] = senseLine
        /\ seen > 0 => mVotedIsOn = Vote(mSenseHistory)
    BY <2>u DEF DeadlineInv, SamplesSeen, Positions
  <2>l. LowCount(mSenseHistory) \in Nat
    BY <2>u, VoteType
  <2>1. ASSUME HeaterOn(senseLine), still > Threshold * PollPeriod
        PROVE  mVotedIsOn
    <3>1. seen >= Threshold
      BY <2>u, <2>1, PollsSeen
    <3>2. LowCount(mSenseHistory) >= seen
      BY <2>u, <2>s, <2>1, LowHead DEF HeaterOn
    <3>3. Vote(mSenseHistory)
      BY <2>u, <2>l, <3>1, <3>2 DEF Vote
    <3>4. seen > 0
      BY <2>u, <3>1
    <3> QED
      BY <2>s, <3>3, <3>4
  <2>2. ASSUME ~HeaterOn(senseLine), still > (Window - Threshold + 1) * PollPeriod
        PROVE  ~mVotedIsOn
    <3> DEFINE n == Window - Threshold + 1
    <3>a. n \in 1..Window
      BY <2>u
    <3>1. seen >= n
      BY <2>2, <3>a, PollsSeen
    <3>2. LowCount(mSenseHistory) <= Window - seen
      BY <2>u, <2>s, <2>2, HighHead DEF HeaterOn, Samples
    <3>3. ~Vote(mSenseHistory)
      BY <2>u, <2>l, <3>1, <3>2 DEF Vote
    <3>4. seen > 0
      BY <2>u, <3>a, <3>1
    <3> QED
      BY <2>s, <3>3, <3>4
  <2> QED
    BY <2>1, <2>2
<1> QED
  BY <1>1, Spec_DeadlineInv, PTL

\* An action that began alone is complete: a standby pulse follows the control
\* pulse of an OFF action and none that of an ON action.
THEOREM DeadlineSpec_LoneActionComplete == DeadlineSpec => LoneActionComplete
<1>1. PinInv /\ DeadlineInv
        => [ControlPulseHandler /\ alone
             => timer'["standby"] = IF actionOn THEN NotArmed ELSE StandbyDelay]_deadlineVars
  <2> SUFFICES ASSUME PinInv, DeadlineInv, ControlPulseHandler, alone
               PROVE  timer'["standby"] = IF actionOn THEN NotArmed ELSE StandbyDelay
    OBVIOUS
  <2>1. Pending("pulse")
    BY DEF ControlPulseHandler, Pending
  <2>2. timer["standby"] = NotArmed /\ mPendingOff = ~actionOn
    BY <2>1 DEF DeadlineInv, AloneInv, Pending
  <2>3. IF mPendingOff THEN timer' = Reschedule(timer, "standby", StandbyDelay)
                       ELSE timer' = timer
    BY DEF ControlPulseHandler
  <2>4. timer \in Timers /\ actionOn \in BOOLEAN
    BY DEF PinInv, TypeOK
  <2>5. CASE actionOn
    BY <2>2, <2>3, <2>5
  <2>6. CASE ~actionOn
    <3>1. timer' = Reschedule(timer, "standby", StandbyDelay)
      BY <2>2, <2>3, <2>6
    <3> QED
      BY <2>4, <2>6, <3>1, RescheduleAt DEF Work
  <2> QED
    BY <2>5, <2>6
<1> QED
  BY <1>1, Spec_DeadlineInv, PTL DEF LoneActionComplete

-----------------------------------------------------------------------------
(* The loop with the heater.                                               *)

\* Once a command has been given to a settled system, with a Matter thread that
\* is done before the next tick: votes wait on their own and are what is sensed,
\* the work queue is empty while the thread is busy, and between command and
\* pulse nothing but the command is under way.
Commanded ==
  /\ pc # "boot"
  /\ pc # "idle" => submitted = {}
  /\ "sense" \in submitted => events = <<>>
  /\ \A i \in DOMAIN events : events[i] = SyncEvent(mVotedIsOn)
  /\ pc = "act" \/ pc = "arm" => events = <<>>
  /\ PressDue => /\ events = <<>>
                 /\ ctrlPin = "hiz"
                 /\ onOff = (command = "on")
                 /\ pc = "act" => actionOn = onOff
  /\ heater = (command = "on") <=> ~PressDue

LoopInv ==
  /\ heater \in BOOLEAN
  /\ lag \in Nat \cup {NotArmed}
  /\ command \in {"none", "on", "off"}
  /\ lag = NotArmed => heater = HeaterOn(senseLine)
  /\ command # "none" => Commanded

\* The loop only restricts the environment: its steps are steps of AppTask.
LEMMA Loop_Next == [LoopNext]_loopVars => [Next]_vars
BY DEF LoopNext, Controller, LoopTick, Respond, Command, loopVars, Next, UserStep, EnvStep

\* What is proved of AppTask holds in the loop.
THEOREM LoopSpec_Spec == LoopSpec => Spec
<1>1. LoopInit => Init
  BY DEF LoopInit
<1> QED
  BY <1>1, Loop_Next, PTL DEF LoopSpec, Spec

LEMMA Init_LoopInv == LoopInit => LoopInv
BY DEF LoopInit, Init, LoopInv, HeaterOn, NotArmed

\* The sense pin follows the heater once the lag is over.
LEMMA Next_Heater ==
  ASSUME TypeOK, LoopInv, LoopNext
  PROVE  /\ heater' \in BOOLEAN
         /\ lag' \in Nat \cup {NotArmed}
         /\ command' \in {"none", "on", "off"}
         /\ lag' = NotArmed => heater' = HeaterOn(senseLine')
<1>u. /\ heater \in BOOLEAN
      /\ lag \in Nat \cup {NotArmed}
      /\ command \in {"none", "on", "off"}
      /\ lag = NotArmed => heater = HeaterOn(senseLine)
      /\ senseLine \in Samples
      /\ Latency \in Nat \ {0}
  BY LatencyAssumption DEF LoopInv, TypeOK
<1>1. CASE Controller
  <2>1. senseLine' = senseLine
    BY <1>1 DEF Controller, WorkStep, SensingPollHandler, ControlPulseHandler,
         StandbyPulseHandler, StandbyReleaseHandler, MatterStep, StartServer, SyncAttribute,
         ToggleByButton, PostAttributeChange, StoreField, DriveControlPin, ArmRelease, sensors
  <2>2. \/ heater' = ~heater /\ lag' \in 1..Latency
        \/ UNCHANGED <<heater, lag>>
    BY <1>1 DEF Controller, Press
  <2>3. command' = command
    BY <1>1 DEF Controller
  <2>4. CASE heater' = ~heater /\ lag' \in 1..Latency
    <3>1. lag' \in Nat /\ lag' # NotArmed
      BY <1>u, <2>4 DEF NotArmed
    <3>2. heater' \in BOOLEAN
      BY <1>u, <2>4
    <3> QED
      BY <1>u, <2>3, <3>1, <3>2
  <2>5. CASE UNCHANGED <<heater, lag>>
    BY <1>u, <2>1, <2>3, <2>5
  <2> QED
    BY <2>2, <2>4, <2>5
<1>2. CASE LoopTick
  <2>1. /\ UNCHANGED <<heater, command, senseLine>>
        /\ lag # 0
        /\ lag' = IF lag = NotArmed THEN NotArmed ELSE lag - 1
    BY <1>2 DEF LoopTick, Tick, sensors
  <2> QED
    BY <1>u, <2>1 DEF NotArmed
<1>3. CASE Respond
  <2>1. /\ UNCHANGED <<heater, command>>
        /\ lag' = NotArmed
    BY <1>3 DEF Respond
  <2>2. CASE HeaterOn(senseLine) # heater
    <3>1. senseLine' = 1 - senseLine
      BY <1>3, <2>2 DEF Respond, SenseChange
    <3>2. HeaterOn(senseLine') = ~HeaterOn(senseLine)
      BY <1>u, <3>1 DEF HeaterOn, Samples
    <3> QED
      BY <1>u, <2>1, <2>2, <3>2 DEF HeaterOn
  <2>3. CASE HeaterOn(senseLine) = heater
    <3>1. senseLine' = senseLine
      BY <1>3, <2>3 DEF Respond, vars, sensors
    <3> QED
      BY <1>u, <2>1, <2>3, <3>1
  <2> QED
    BY <2>2, <2>3
<1>4. ASSUME NEW on \in BOOLEAN, Command(on)
      PROVE  /\ heater' \in BOOLEAN
             /\ lag' \in Nat \cup {NotArmed}
             /\ command' \in {"none", "on", "off"}
             /\ lag' = NotArmed => heater' = HeaterOn(senseLine')
  BY <1>u, <1>4 DEF Command, RemoteCommand, sensors
<1> QED
  BY <1>1, <1>2, <1>3, <1>4 DEF LoopNext

\* A step that leaves all that Commanded speaks of alone, or shortens the work.
LEMMA Frame_Commanded ==
  ASSUME Commanded,
         UNCHANGED <<pc, events, mVotedIsOn, ctrlPin, onOff, actionOn, heater, command>>,
         submitted' \subseteq submitted
  PROVE  Commanded'
BY DEF Commanded, PressDue

LEMMA Work_Commanded ==
  ASSUME TypeOK, Commanded, WorkStep, Press, UNCHANGED command
  PROVE  Commanded'
<1>1. ctrlPin' # "low" \/ ctrlPin' = ctrlPin
  BY DEF WorkStep, SensingPollHandler, ControlPulseHandler, StandbyPulseHandler,
       StandbyReleaseHandler, pins
<1>2. heater' = heater
  BY <1>1 DEF Press
<1>3. pc = "idle" /\ ~PressDue
  BY DEF WorkStep, SensingPollHandler, ControlPulseHandler, StandbyPulseHandler,
       StandbyReleaseHandler, Commanded, PressDue
<1>4. CASE SensingPollHandler
  <2>1. /\ events = <<>>
        /\ "sense" \notin submitted'
        /\ UNCHANGED <<pc, onOff>>
    BY <1>4 DEF SensingPollHandler, Commanded
  <2>2. events' = <<>> \/ events' = <<SyncEvent(mVotedIsOn')>>
    BY <1>4, <2>1 DEF SensingPollHandler, Post
  <2>3. \A i \in DOMAIN events' : events'[i] = SyncEvent(mVotedIsOn')
    <3>1. CASE events' = <<>>
      BY <3>1
    <3>2. CASE events' = <<SyncEvent(mVotedIsOn')>>
      BY <3>2
    <3> QED
      BY <2>2, <3>1, <3>2
  <2>4. ~PressDue'
    BY <1>3, <2>1 DEF PressDue
  <2> QED
    BY <1>2, <1>3, <2>1, <2>3, <2>4 DEF Commanded, SyncEvent
<1>5. CASE ControlPulseHandler \/ StandbyPulseHandler \/ StandbyReleaseHandler
  <2>1. /\ UNCHANGED <<pc, events, mVotedIsOn, onOff, actionOn>>
        /\ submitted' \subseteq submitted
    BY <1>5 DEF ControlPulseHandler, StandbyPulseHandler, StandbyReleaseHandler, fields, matter
  <2>2. ~PressDue'
    BY <1>3, <2>1 DEF PressDue
  <2> QED
    BY <1>2, <1>3, <2>1, <2>2 DEF Commanded, SyncEvent
<1> QED
  BY <1>4, <1>5 DEF WorkStep

LEMMA Matter_Commanded ==
  ASSUME TypeOK, heater \in BOOLEAN, Commanded, submitted = {}, MatterStep, Press,
         UNCHANGED command
  PROVE  Commanded'
<1>1. CASE SyncAttribute
  <2>1. /\ pc = "idle" /\ events # <<>>
        /\ events' = Tail(events)
        /\ onOff' = Head(events).votedIsOn
        /\ pc' \in {"changed", "idle"}
        /\ UNCHANGED <<mVotedIsOn, ctrlPin, submitted>>
    BY <1>1 DEF SyncAttribute, Return, fields, pins, works
  <2>2. events \in Seq(Events)
    BY DEF TypeOK
  <2>3. onOff' = mVotedIsOn'
    <3>1. Head(events) = SyncEvent(mVotedIsOn)
      BY <2>1, <2>2 DEF Commanded
    <3> QED
      BY <2>1, <3>1 DEF SyncEvent
  <2>4. \A i \in DOMAIN events' : events'[i] = SyncEvent(mVotedIsOn')
    <3>1. ASSUME NEW i \in DOMAIN Tail(events)
          PROVE  Tail(events)[i] = events[i + 1] /\ i + 1 \in DOMAIN events
      BY <2>1, <2>2
    <3> QED
      BY <2>1, <3>1 DEF Commanded, SyncEvent
  <2>5. ~PressDue /\ ~PressDue'
    BY <2>1, <2>3 DEF PressDue
  <2>6. heater' = heater
    BY <2>1 DEF Press
  <2> QED
    BY <2>1, <2>4, <2>5, <2>6 DEF Commanded
<1>2. CASE ToggleByButton
  <2>1. events # <<>> /\ events \in Seq(Events) /\ Head(events).kind = "button"
    BY <1>2 DEF ToggleByButton, TypeOK
  <2>2. Head(events) = SyncEvent(mVotedIsOn)
    BY <2>1 DEF Commanded
  <2> QED
    BY <2>1, <2>2 DEF SyncEvent
<1>3. CASE PostAttributeChange
  <2>1. /\ pc = "changed"
        /\ UNCHANGED <<mVotedIsOn, ctrlPin, submitted, onOff, events>>
    BY <1>3 DEF PostAttributeChange, fields, pins, works
  <2>2. heater' = heater
    BY <2>1 DEF Press
  <2>3. CASE onOff # mVotedIsOn
    <3>1. pc' = "act" /\ actionOn' = onOff
      BY <1>3, <2>3 DEF PostAttributeChange, Call
    <3>2. PressDue /\ PressDue'
      BY <2>1, <2>3, <3>1 DEF PressDue
    <3> QED
      BY <2>1, <2>2, <3>1, <3>2 DEF Commanded, SyncEvent
  <2>4. CASE onOff = mVotedIsOn
    <3>1. pc' = "idle"
      BY <1>3, <2>4 DEF PostAttributeChange, Return
    <3>2. ~PressDue /\ ~PressDue'
      BY <2>1, <2>4, <3>1 DEF PressDue
    <3> QED
      BY <2>1, <2>2, <3>1, <3>2 DEF Commanded, SyncEvent
  <2> QED
    BY <2>3, <2>4
<1>4. ASSUME NEW f \in Stores, StoreField(f)
      PROVE  Commanded'
  <2>1. /\ pc = "act" /\ pc' = "act"
        /\ UNCHANGED <<ctrlPin, submitted, onOff, events, actionOn>>
    BY <1>4 DEF StoreField, pins, works
  <2>2. heater' = heater
    BY <2>1 DEF Press
  <2>3. PressDue /\ PressDue'
    BY <2>1 DEF PressDue
  <2>4. \A i \in DOMAIN events' : events'[i] = SyncEvent(mVotedIsOn')
    BY <2>1 DEF Commanded
  <2> QED
    BY <2>1, <2>2, <2>3, <2>4 DEF Commanded
<1>5. CASE DriveControlPin
  <2>1. /\ pc = "act" /\ pc' = "arm" /\ ctrlPin' = "low"
        /\ UNCHANGED <<mVotedIsOn, submitted, onOff, events>>
    BY <1>5 DEF DriveControlPin, fields, works
  <2>2. PressDue /\ ~PressDue'
    BY <2>1 DEF PressDue
  <2>3. ctrlPin = "hiz" /\ events = <<>> /\ heater # (command = "on")
    BY <2>2 DEF Commanded
  <2>4. heater' = ~heater
    BY <2>1, <2>3 DEF Press
  <2>5. heater' = (command' = "on")
    BY <2>3, <2>4
  <2> QED
    BY <2>1, <2>2, <2>3, <2>5 DEF Commanded, SyncEvent
<1>6. CASE ArmRelease \/ StartServer
  <2>1. /\ pc = "arm" /\ pc' = "idle"
        /\ UNCHANGED <<mVotedIsOn, ctrlPin, submitted, onOff, events>>
    BY <1>6 DEF ArmRelease, StartServer, Return, fields, pins, Commanded
  <2>2. heater' = heater
    BY <2>1 DEF Press
  <2>3. ~PressDue /\ ~PressDue'
    BY <2>1 DEF PressDue
  <2> QED
    BY <2>1, <2>2, <2>3 DEF Commanded, SyncEvent
<1> QED
  BY <1>1, <1>2, <1>3, <1>4, <1>5, <1>6 DEF MatterStep

LEMMA Next_Commanded ==
  ASSUME Prompt, TypeOK, LoopInv, LoopNext
  PROVE  command' # "none" => Commanded'
<1> SUFFICES ASSUME command' # "none" PROVE Commanded'
  OBVIOUS
<1>u. /\ heater \in BOOLEAN
      /\ command # "none" => Commanded
  BY DEF LoopInv
<1>1. CASE Controller
  BY <1>u, <1>1, Work_Commanded, Matter_Commanded DEF Controller
<1>2. CASE LoopTick
  <2>1. /\ pc = "idle" /\ events = <<>>
        /\ UNCHANGED <<pc, events, mVotedIsOn, ctrlPin, onOff, actionOn, heater, command>>
    BY <1>u, <1>2 DEF LoopTick, Tick, MatterDone, Commanded, fields, pins, matter
  <2>2. ~PressDue /\ ~PressDue'
    BY <2>1 DEF PressDue
  <2> QED
    BY <1>u, <2>1, <2>2 DEF Commanded
<1>3. CASE Respond
  <2>1. UNCHANGED <<pc, events, mVotedIsOn, ctrlPin, onOff, actionOn, submitted, heater, command>>
    BY <1>3 DEF Respond, SenseChange, vars, fields, pins, works, matter
  <2> QED
    BY <1>u, <2>1, Frame_Commanded
<1>4. ASSUME NEW on \in BOOLEAN, Command(on)
      PROVE  Commanded'
  <2>1. /\ submitted = {} /\ ctrlPin = "hiz" /\ lag = NotArmed /\ events = <<>>
        /\ onOff = mVotedIsOn
        /\ senseLine = (IF onOff THEN 0 ELSE 1)
    BY <1>4 DEF Command, Settled
  <2>2. /\ onOff # on /\ onOff' = on /\ pc' = "changed"
        /\ UNCHANGED <<mVotedIsOn, ctrlPin, submitted, events, heater>>
        /\ command' = IF on THEN "on" ELSE "off"
    BY <1>4 DEF Command, RemoteCommand, fields, pins, works
  <2>3. onOff \in BOOLEAN
    BY DEF TypeOK
  <2>4. heater = onOff
    BY <1>u, <2>1, <2>3 DEF LoopInv, HeaterOn
  <2>5. on = (command' = "on")
    BY <2>2
  <2>6. PressDue'
    BY <2>1, <2>2 DEF PressDue
  <2> QED
    BY <2>1, <2>2, <2>4, <2>5, <2>6 DEF Commanded
<1> QED
  BY <1>1, <1>2, <1>3, <1>4 DEF LoopNext

\* Between two commands the heater's button is pressed once, if the Matter
\* thread keeps up with the clock: whatever the pin says meanwhile, the votes
\* that are written do not feed back.
THEOREM LoopSpec_PressedOnce ==
  ASSUME Prompt
  PROVE  LoopSpec => []PressedOnce
<1>1. TypeOK /\ LoopInv /\ LoopNext => LoopInv'
  BY Next_Heater, Next_Commanded DEF LoopInv
<1>2. LoopInv /\ UNCHANGED loopVars => LoopInv'
  BY DEF LoopInv, Commanded, PressDue, HeaterOn, SyncEvent, loopVars, vars, fields, pins, works, matter, sensors
<1>3. TypeOK /\ LoopInv /\ [LoopNext]_loopVars => LoopInv'
  BY <1>1, <1>2
<1>4. LoopInv => PressedOnce
  BY DEF LoopInv, Commanded, PressedOnce
<1> QED
  BY <1>3, <1>4, Init_LoopInv, LoopSpec_Spec, Spec_TypeOK, PTL DEF LoopSpec
=============================================================================
