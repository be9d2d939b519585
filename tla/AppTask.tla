------------------------------ MODULE AppTask ------------------------------
(***************************************************************************)
(* The heater controller of src/src/app_task.cpp together with the OnOff   *)
(* attribute callback of src/src/zcl_callbacks.cpp.                        *)
(*                                                                         *)
(* Two threads share the fields of the AppTask singleton with no lock:     *)
(*                                                                         *)
(*  - the Matter thread runs the OnOff cluster, the lambdas posted with    *)
(*    ScheduleLambda, MatterPostAttributeChangeCallback and, from these,   *)
(*    InitiateAction.  It can be preempted between any two accesses to     *)
(*    shared state, so each of them is a step here.  The four plain stores *)
(*    of InitiateAction are unordered: nothing between them stops the      *)
(*    compiler from swapping them.                                         *)
(*  - the system work queue runs the four delayable work items.  It is a   *)
(*    cooperative thread and no handler blocks, so a handler is one step.  *)
(*                                                                         *)
(* Time passes in ticks of 100 ms, the period of the sensing poll.         *)
(***************************************************************************)
EXTENDS SenseVote, Sequences

CONSTANTS PollPeriod,    \* ticks between two polls of the sense pin       (1)
          PulseWidth,    \* ticks of a pulse on the control pin            (3)
          StandbyDelay,  \* ticks from the control pulse of an OFF action
                         \* to its pulse on the standby pin               (10)
          StandbyWidth,  \* ticks of a pulse on the standby pin            (3)
          MaxEvents,     \* capacity of the Matter event queue (external)
          Prompt         \* TRUE: the Matter thread has emptied its queue
                         \* before the next tick; FALSE: it may lag behind

ASSUME TimingAssumption ==
          /\ PollPeriod \in Nat \ {0}
          /\ PulseWidth \in Nat \ {0}
          /\ StandbyDelay \in Nat \ {0}
          /\ StandbyWidth \in Nat \ {0}
          /\ StandbyWidth < StandbyDelay
ASSUME QueueAssumption == MaxEvents \in Nat
ASSUME PromptAssumption == Prompt \in BOOLEAN

VARIABLES
  \* fields of the AppTask singleton
  mSenseHistory, mVotedIsOn, mIsPulsing, mPendingOff,
  \* the control and the standby pin: "hiz" (input) or "low" (driven)
  ctrlPin, standbyPin,
  \* ticks until the delay of a work item ends, NotArmed if none runs
  timer,
  \* work items whose delay has ended and whose handler has not run yet
  submitted,
  \* the OnOff attribute of endpoint 1; it is persisted
  onOff,
  \* the Matter event queue: the lambdas posted with ScheduleLambda
  events,
  \* where the Matter thread is, the stores InitiateAction still has to do,
  \* and the argument of the last InitiateAction
  pc, todo, actionOn,
  \* environment: level of the sense pin, and whether its port is ready
  senseLine, senseReady

fields  == <<mSenseHistory, mVotedIsOn, mIsPulsing, mPendingOff>>
pins    == <<ctrlPin, standbyPin>>
works   == <<timer, submitted>>
matter  == <<events, pc, todo, actionOn>>
sensors == <<senseLine, senseReady>>
vars    == <<fields, pins, works, onOff, matter, sensors>>

-----------------------------------------------------------------------------
(* Work items, events and small helpers.                                   *)

Work == {"pulse", "standby", "release", "sense"}

NotArmed == -1

Timers == [Work -> (Nat \ {0}) \cup {NotArmed}]

\* k_work_reschedule: starts or moves the delay of a work item.  An item
\* whose delay has already ended stays submitted and runs as well.
Reschedule(t, w, ticks) == [t EXCEPT ![w] = ticks]

Pending(w) == timer[w] # NotArmed \/ w \in submitted

Stores == {"mIsPulsing", "mPendingOff", "mSenseHistory", "mVotedIsOn"}

ButtonEvent  == [kind |-> "button"]
SyncEvent(v) == [kind |-> "sync", votedIsOn |-> v]
Events       == {ButtonEvent, SyncEvent(TRUE), SyncEvent(FALSE)}

\* Fault: a queue that takes everything.
PostUnbounded(q, e) == Append(q, e)

\* ScheduleLambda: its result is ignored, so an event that does not fit is
\* lost without a trace.
Post(q, e) == IF Len(q) < MaxEvents THEN Append(q, e) ELSE q

-----------------------------------------------------------------------------
(* AppTask::Init.  Polling starts before the Matter server does.           *)

Init ==
  /\ mSenseHistory = WarmHistory(FALSE)
  /\ mVotedIsOn = FALSE
  /\ mIsPulsing = FALSE
  /\ mPendingOff = FALSE
  /\ ctrlPin = "hiz"
  /\ standbyPin = "hiz"
  /\ timer = [w \in Work |-> NotArmed]
  /\ submitted = {"sense"}
  /\ onOff \in BOOLEAN
  /\ events = <<>>
  /\ pc = "boot"
  /\ todo = {}
  /\ actionOn = FALSE
  /\ senseLine \in Samples
  /\ senseReady \in BOOLEAN

\* StartServer has brought the Matter thread up: it serves its queue now.
StartServer ==
  /\ pc = "boot"
  /\ pc' = "idle"
  /\ UNCHANGED <<fields, pins, works, onOff, events, todo, actionOn, sensors>>

-----------------------------------------------------------------------------
(* Matter thread.                                                          *)

\* Leaves the current callback chain; the thread is ready for its next event.
Return == /\ pc' = "idle"
          /\ UNCHANGED <<todo, actionOn>>

\* Enters InitiateAction(on).
Call(on) == /\ pc' = "act"
            /\ todo' = Stores
            /\ actionOn' = on

\* The OnOff cluster server executes a command of a controller.  It writes
\* the attribute only if the command changes it.
RemoteCommand(on) ==
  /\ pc = "idle"
  /\ onOff # on
  /\ onOff' = on
  /\ pc' = "changed"
  /\ UNCHANGED <<fields, pins, works, events, todo, actionOn, sensors>>

\* The lambda of SensingPollHandler: writes the vote it was posted with.
SyncAttribute ==
  /\ pc = "idle"
  /\ events # <<>>
  /\ Head(events).kind = "sync"
  /\ events' = Tail(events)
  /\ onOff' = Head(events).votedIsOn
  /\ IF onOff # Head(events).votedIsOn
     THEN /\ pc' = "changed"
          /\ UNCHANGED <<todo, actionOn>>
     ELSE Return
  /\ UNCHANGED <<fields, pins, works, sensors>>

\* The lambda of ButtonEventHandler: an action against the attribute.
ToggleByButton ==
  /\ pc = "idle"
  /\ events # <<>>
  /\ Head(events).kind = "button"
  /\ events' = Tail(events)
  /\ Call(~onOff)
  /\ UNCHANGED <<fields, pins, works, onOff, sensors>>

\* Fault: the callback pulses on every change of the attribute.
PulseOnEveryChange ==
  /\ pc = "changed"
  /\ Call(onOff)
  /\ UNCHANGED <<fields, pins, works, onOff, events, sensors>>

\* Fault: the callback compares with the last action instead of the vote.
PulseAgainstLastAction ==
  /\ pc = "changed"
  /\ IF onOff # actionOn
     THEN Call(onOff)
     ELSE Return
  /\ UNCHANGED <<fields, pins, works, onOff, events, sensors>>

\* MatterPostAttributeChangeCallback, called inside every attribute write:
\* a pulse only if the new value differs from the sensed one.
PostAttributeChange ==
  /\ pc = "changed"
  /\ IF onOff # mVotedIsOn
     THEN Call(onOff)
     ELSE Return
  /\ UNCHANGED <<fields, pins, works, onOff, events, sensors>>

\* One of the four stores of InitiateAction.
StoreField(f) ==
  /\ pc = "act"
  /\ f \in todo
  /\ todo' = todo \ {f}
  /\ mIsPulsing'    = IF f = "mIsPulsing" THEN TRUE ELSE mIsPulsing
  /\ mPendingOff'   = IF f = "mPendingOff" THEN ~actionOn ELSE mPendingOff
  /\ mSenseHistory' = IF f = "mSenseHistory" THEN WarmHistory(actionOn)
                                             ELSE mSenseHistory
  /\ mVotedIsOn'    = IF f = "mVotedIsOn" THEN actionOn ELSE mVotedIsOn
  /\ UNCHANGED <<pins, works, onOff, events, pc, actionOn, sensors>>

\* InitiateAction drives the control pin LOW ...
DriveControlPin ==
  /\ pc = "act"
  /\ todo = {}
  /\ ctrlPin' = "low"
  /\ pc' = "arm"
  /\ UNCHANGED <<fields, standbyPin, works, onOff, events, todo, actionOn, sensors>>

\* ... and schedules its release.
ArmRelease ==
  /\ pc = "arm"
  /\ timer' = Reschedule(timer, "pulse", PulseWidth)
  /\ Return
  /\ UNCHANGED <<fields, pins, submitted, onOff, events, sensors>>

-----------------------------------------------------------------------------
(* System work queue.                                                      *)

\* Fault: a lambda is only posted when the vote has changed.
SensingPollOnChange ==
  /\ "sense" \in submitted
  /\ submitted' = submitted \ {"sense"}
  /\ senseReady
  /\ mSenseHistory' = ShiftIn(mSenseHistory, senseLine)
  /\ mVotedIsOn' = Vote(mSenseHistory')
  /\ events' = IF mIsPulsing \/ mVotedIsOn' = mVotedIsOn
               THEN events ELSE Post(events, SyncEvent(mVotedIsOn'))
  /\ timer' = Reschedule(timer, "sense", PollPeriod)
  /\ UNCHANGED <<mIsPulsing, mPendingOff, pins, onOff, pc, todo, actionOn, sensors>>

\* Fault: an early return while an action is under way.
SensingPollMuted ==
  /\ "sense" \in submitted
  /\ submitted' = submitted \ {"sense"}
  /\ \/ /\ ~senseReady \/ mIsPulsing
        /\ UNCHANGED <<fields, timer, events>>
     \/ /\ senseReady /\ ~mIsPulsing
        /\ mSenseHistory' = ShiftIn(mSenseHistory, senseLine)
        /\ mVotedIsOn' = Vote(mSenseHistory')
        /\ events' = Post(events, SyncEvent(mVotedIsOn'))
        /\ timer' = Reschedule(timer, "sense", PollPeriod)
        /\ UNCHANGED <<mIsPulsing, mPendingOff>>
  /\ UNCHANGED <<pins, onOff, pc, todo, actionOn, sensors>>

\* Fault: the vote is taken before the new sample is shifted in.
SensingPollVotesFirst ==
  /\ "sense" \in submitted
  /\ submitted' = submitted \ {"sense"}
  /\ senseReady
  /\ mSenseHistory' = ShiftIn(mSenseHistory, senseLine)
  /\ mVotedIsOn' = Vote(mSenseHistory)
  /\ events' = IF mIsPulsing THEN events ELSE Post(events, SyncEvent(mVotedIsOn'))
  /\ timer' = Reschedule(timer, "sense", PollPeriod)
  /\ UNCHANGED <<mIsPulsing, mPendingOff, pins, onOff, pc, todo, actionOn, sensors>>

\* Samples the pin, votes, posts the vote unless an action is under way.
SensingPollHandler ==
  /\ "sense" \in submitted
  /\ submitted' = submitted \ {"sense"}
  /\ \/ /\ ~senseReady
        /\ UNCHANGED <<fields, timer, events>>
     \/ /\ senseReady
        /\ mSenseHistory' = ShiftIn(mSenseHistory, senseLine)
        /\ mVotedIsOn' = Vote(mSenseHistory')
        /\ events' = IF mIsPulsing THEN events ELSE Post(events, SyncEvent(mVotedIsOn'))
        /\ timer' = Reschedule(timer, "sense", PollPeriod)
        /\ UNCHANGED <<mIsPulsing, mPendingOff>>
  /\ UNCHANGED <<pins, onOff, pc, todo, actionOn, sensors>>

\* Fault: the pin is only released while mIsPulsing is still set.
ReleaseIfPulsing ==
  /\ "pulse" \in submitted
  /\ submitted' = submitted \ {"pulse"}
  /\ ctrlPin' = IF mIsPulsing THEN "hiz" ELSE ctrlPin
  /\ mIsPulsing' = (mIsPulsing /\ mPendingOff)
  /\ timer' = IF mPendingOff THEN Reschedule(timer, "standby", StandbyDelay) ELSE timer
  /\ UNCHANGED <<mSenseHistory, mVotedIsOn, mPendingOff, standbyPin, onOff, matter, sensors>>

\* Fault: the handler asks the vote whether the action was OFF.
StandbyByVote ==
  /\ "pulse" \in submitted
  /\ submitted' = submitted \ {"pulse"}
  /\ ctrlPin' = "hiz"
  /\ mIsPulsing' = (mIsPulsing /\ ~mVotedIsOn)
  /\ timer' = IF mVotedIsOn THEN timer ELSE Reschedule(timer, "standby", StandbyDelay)
  /\ UNCHANGED <<mSenseHistory, mVotedIsOn, mPendingOff, standbyPin, onOff, matter, sensors>>

\* Releases the control pin; an OFF action goes on with the standby pulse.
ControlPulseHandler ==
  /\ "pulse" \in submitted
  /\ submitted' = submitted \ {"pulse"}
  /\ ctrlPin' = "hiz"
  /\ \/ /\ mPendingOff
        /\ timer' = Reschedule(timer, "standby", StandbyDelay)
        /\ UNCHANGED mIsPulsing
     \/ /\ ~mPendingOff
        /\ mIsPulsing' = FALSE
        /\ UNCHANGED timer
  /\ UNCHANGED <<mSenseHistory, mVotedIsOn, mPendingOff, standbyPin, onOff, matter, sensors>>

\* Fault: the release waits for the delay of the standby pulse.
StandbyPulseTooLong ==
  /\ "standby" \in submitted
  /\ submitted' = submitted \ {"standby"}
  /\ standbyPin' = "low"
  /\ timer' = Reschedule(timer, "release", StandbyDelay)
  /\ UNCHANGED <<fields, ctrlPin, onOff, matter, sensors>>

\* Drives the standby pin LOW and schedules its release.
StandbyPulseHandler ==
  /\ "standby" \in submitted
  /\ submitted' = submitted \ {"standby"}
  /\ standbyPin' = "low"
  /\ timer' = Reschedule(timer, "release", StandbyWidth)
  /\ UNCHANGED <<fields, ctrlPin, onOff, matter, sensors>>

\* Fault: mPendingOff is not reset.
ReleaseKeepsPendingOff ==
  /\ "release" \in submitted
  /\ submitted' = submitted \ {"release"}
  /\ standbyPin' = "hiz"
  /\ mIsPulsing' = FALSE
  /\ UNCHANGED <<mPendingOff, mSenseHistory, mVotedIsOn, ctrlPin, timer, onOff, matter, sensors>>

\* Fault: the sensing poll stays muted.
ReleaseStaysMuted ==
  /\ "release" \in submitted
  /\ submitted' = submitted \ {"release"}
  /\ standbyPin' = "hiz"
  /\ mPendingOff' = FALSE
  /\ UNCHANGED <<mIsPulsing, mSenseHistory, mVotedIsOn, ctrlPin, timer, onOff, matter, sensors>>

\* Releases the standby pin and ends the action: unmutes the poll.
StandbyReleaseHandler ==
  /\ "release" \in submitted
  /\ submitted' = submitted \ {"release"}
  /\ standbyPin' = "hiz"
  /\ mIsPulsing' = FALSE
  /\ mPendingOff' = FALSE
  /\ UNCHANGED <<mSenseHistory, mVotedIsOn, ctrlPin, timer, onOff, matter, sensors>>

-----------------------------------------------------------------------------
(* Environment: the button, the heater, time, and power.                   *)

\* ButtonEventHandler on a press of button 2; it only posts a lambda.
ButtonPress ==
  /\ events' = Post(events, ButtonEvent)
  /\ UNCHANGED <<fields, pins, works, onOff, pc, todo, actionOn, sensors>>

\* The heater changes the level of the sense pin.
SenseChange ==
  /\ senseLine' = 1 - senseLine
  /\ UNCHANGED <<fields, pins, works, onOff, matter, senseReady>>

MatterDone == pc = "boot" \/ (pc = "idle" /\ events = <<>>)

\* 100 ms pass.  The work queue never lags behind by a whole tick.
Tick ==
  /\ submitted = {}
  /\ Prompt => MatterDone
  /\ submitted' = {w \in Work : timer[w] = 1}
  /\ timer' = [w \in Work |-> IF timer[w] > 1 THEN timer[w] - 1 ELSE NotArmed]
  /\ UNCHANGED <<fields, pins, onOff, matter, sensors>>

\* Power is lost and comes back: only the attribute survives.
Restart ==
  /\ mSenseHistory' = WarmHistory(FALSE)
  /\ mVotedIsOn' = FALSE
  /\ mIsPulsing' = FALSE
  /\ mPendingOff' = FALSE
  /\ ctrlPin' = "hiz"
  /\ standbyPin' = "hiz"
  /\ timer' = [w \in Work |-> NotArmed]
  /\ submitted' = {"sense"}
  /\ events' = <<>>
  /\ pc' = "boot"
  /\ todo' = {}
  /\ actionOn' = FALSE
  /\ UNCHANGED <<onOff, sensors>>

-----------------------------------------------------------------------------
MatterStep == \/ StartServer
              \/ SyncAttribute
              \/ ToggleByButton
              \/ PostAttributeChange
              \/ \E f \in Stores : StoreField(f)
              \/ DriveControlPin
              \/ ArmRelease

WorkStep == \/ SensingPollHandler
            \/ ControlPulseHandler
            \/ StandbyPulseHandler
            \/ StandbyReleaseHandler

UserStep == ButtonPress \/ \E on \in BOOLEAN : RemoteCommand(on)

EnvStep == UserStep \/ SenseChange \/ Restart

Next == MatterStep \/ WorkStep \/ Tick \/ EnvStep

Spec == Init /\ [][Next]_vars

\* The kernel keeps time, the work queue runs what is submitted and the
\* Matter event loop serves its queue; nobody has to press anything.
Fairness == /\ WF_vars(MatterStep)
            /\ WF_vars(WorkStep)
            /\ WF_vars(Tick)

FairSpec == Spec /\ Fairness

-----------------------------------------------------------------------------
(* Safety.                                                                 *)

\* Every variable keeps the type its declaration in app_task.h gives it, and
\* the event queue never exceeds its capacity (ScheduleLambda drops instead).
TypeOK ==
  /\ mSenseHistory \in History
  /\ mVotedIsOn \in BOOLEAN
  /\ mIsPulsing \in BOOLEAN
  /\ mPendingOff \in BOOLEAN
  /\ ctrlPin \in {"hiz", "low"}
  /\ standbyPin \in {"hiz", "low"}
  /\ timer \in Timers
  /\ submitted \in SUBSET Work
  /\ onOff \in BOOLEAN
  /\ events \in Seq(Events)
  /\ Len(events) <= MaxEvents
  /\ pc \in {"boot", "idle", "changed", "act", "arm"}
  /\ todo \in SUBSET Stores
  /\ actionOn \in BOOLEAN
  /\ senseLine \in Samples
  /\ senseReady \in BOOLEAN

\* The control pin is never left LOW: as long as InitiateAction drives it,
\* ControlPulseHandler is on its way or InitiateAction is just about to
\* schedule it, whatever handler of an older action runs in between.
ControlPinReleased ==
  ctrlPin = "low" => Pending("pulse") \/ pc = "arm"

\* A standby pulse is never cut short, prolonged or merged with the next one:
\* while StandbyPulseHandler holds the pin LOW its release is on its way, and
\* the pulse of a newer OFF action comes after that release.
StandbyPulseWhole ==
  standbyPin = "low" =>
    /\ Pending("release")
    /\ "standby" \notin submitted
    /\ timer["standby"] # NotArmed => timer["standby"] > timer["release"]

\* The flags of an action never outlive it: while mIsPulsing mutes the sensing
\* poll, or mPendingOff claims an OFF action, one of the handlers that clear
\* the flags is on its way or InitiateAction has still to schedule it.
FlagsHaveEnd ==
  mIsPulsing \/ mPendingOff =>
    \/ Pending("pulse")
    \/ Pending("standby")
    \/ Pending("release")
    \/ pc \in {"act", "arm"}

-----------------------------------------------------------------------------
(* Refinement.                                                             *)

\* Ticks the pulse on the standby pin still has to last.
StandbyLeft == IF timer["release"] = NotArmed THEN 0 ELSE timer["release"]

\* StandbyPulseHandler and StandbyReleaseHandler seen as one pulsed line.
StandbyLine == INSTANCE PulseLine
                 WITH Width <- StandbyWidth, pin <- standbyPin, left <- StandbyLeft

\* The two standby handlers, with the rescheduling of the OFF actions that
\* overlap them, implement a line whose pulses last exactly StandbyWidth.
StandbyLineSpec == StandbyLine!Spec

-----------------------------------------------------------------------------
(* Liveness.                                                               *)

\* Once nobody presses, commands, switches the heater or cuts the power, the
\* pulse chain of the last action runs to its end: both pins released and the
\* sensing poll no longer muted, for good.
Quiesces ==
  \/ []<><<EnvStep>>_vars
  \/ <>[](ctrlPin = "hiz" /\ standbyPin = "hiz" /\ ~mIsPulsing)

\* From then on the OnOff attribute settles on what the sense pin says, even
\* if events were dropped by a full queue or polls were muted by a pulse.
Converges ==
  \/ []<><<EnvStep>>_vars
  \/ senseReady => <>[](onOff = HeaterOn(senseLine))

-----------------------------------------------------------------------------
(* What a comment of the code says, and the code does not do.              *)

\* app_task.cpp:102 says the end of the control pulse of an OFF action
\* schedules the standby pulse.  StandbyReleaseHandler of an older OFF action
\* may have cleared the mPendingOff that the newer one needs for that.
OffGetsStandby ==
  [][ControlPulseHandler /\ pc = "idle" /\ ctrlPin = "low" /\ ~actionOn
       => timer'["standby"] # NotArmed]_vars
=============================================================================
