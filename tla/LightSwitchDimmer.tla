------------------------- MODULE LightSwitchDimmer -------------------------
(***************************************************************************)
(* The button of the light switch of src/src_old: a short press toggles    *)
(* the bound lights, a long one dims them (app_task.cpp, light_switch.cpp).*)
(*                                                                         *)
(* The button and the two kernel timers only post tasks; the main thread   *)
(* executes them in order and works the timers.  Between the expiry of a   *)
(* timer and its task, or the release of the button and its task, anything *)
(* else may happen, any number of times: nothing bounds how late the main  *)
(* thread is.  Time passes in ticks of 100 ms.                             *)
(*                                                                         *)
(* What becomes of the commands is the matter of LightSwitchBinding, whose *)
(* Matter thread and shell go on at the same time.                         *)
(*                                                                         *)
(* External: the task executor and the kernel timers.                      *)
(***************************************************************************)
EXTENDS Integers, LightSwitchBinding

CONSTANTS TriggerTimeout,  \* kDimmerTriggeredTimeout                  (5)
          Interval,        \* kDimmerInterval                          (3)
          Step,            \* kOnePercentBrightnessApproximation       (3)
          MaxBrightness    \* kMaximumBrightness                     (254)

ASSUME DimmerAssumption == /\ TriggerTimeout \in Nat \ {0}
                           /\ Interval \in Nat \ {0}
                           /\ Step \in Nat \ {0}
                           /\ MaxBrightness \in Nat

VARIABLES pressed,              \* the button is down
          held,                 \* history: ticks the last press has lasted,
                                \* up to TriggerTimeout + 1
          pressTimer,           \* sDimmerPressKeyTimer: ticks left, or Stopped
          dimmerTimer,          \* sDimmerTimer, periodic: ticks left, or Stopped
          sWasDimmerTriggered,
          sBrightness,
          tasks,                \* posted with Nrf::PostTask
          overrun               \* history: a timer has expired, or the button was
                                \* pressed, while the task of a release waited,
                                \* and no release has left things tidy since

timers == <<pressTimer, dimmerTimer>>
button == <<pressed, held>>
dimmer == <<button, timers, sWasDimmerTriggered, sBrightness, tasks, overrun>>
vars   == <<dimmer, binding>>

Stopped == -1

\* DimmerTriggerEventHandler; TimerEventHandler for the one and the other timer.
Tasks == {"release", "trigger", "dim"}

Waiting(task) == \E i \in DOMAIN tasks : tasks[i] = task

Init ==
  /\ pressed = FALSE
  /\ held = 0
  /\ pressTimer = Stopped
  /\ dimmerTimer = Stopped
  /\ sWasDimmerTriggered = FALSE
  /\ sBrightness = 0
  /\ tasks = <<>>
  /\ overrun = FALSE
  /\ BindingInit

-----------------------------------------------------------------------------
(* ButtonEventHandler.                                                     *)

Press ==
  /\ ~pressed
  /\ pressed' = TRUE
  /\ held' = 0
  /\ pressTimer' = TriggerTimeout
  /\ overrun' = (overrun \/ Waiting("release"))
  /\ UNCHANGED <<dimmerTimer, sWasDimmerTriggered, sBrightness, tasks, binding>>

Release ==
  /\ pressed
  /\ pressed' = FALSE
  /\ tasks' = Append(tasks, "release")
  /\ UNCHANGED <<held, timers, sWasDimmerTriggered, sBrightness, overrun, binding>>

-----------------------------------------------------------------------------
(* The main thread.                                                        *)

Execute(task) == tasks # <<>> /\ Head(tasks) = task /\ tasks' = Tail(tasks)

\* A release that leaves no task behind it and finds the button up.
Tidied == overrun' = (overrun /\ (pressed \/ tasks' # <<>>))

\* Fault: the periodic timer goes on.
ReleaseKeepsDimming ==
  /\ Execute("release")
  /\ IF sWasDimmerTriggered THEN UNCHANGED binding ELSE Send("toggle")
  /\ pressTimer' = Stopped
  /\ sWasDimmerTriggered' = FALSE
  /\ Tidied
  /\ UNCHANGED <<button, dimmerTimer, sBrightness>>

\* A press that has not come to dimming toggles; both timers are cancelled.
DimmerTriggerEventHandler ==
  /\ Execute("release")
  /\ IF sWasDimmerTriggered THEN UNCHANGED binding ELSE Send("toggle")
  /\ pressTimer' = Stopped
  /\ dimmerTimer' = Stopped
  /\ sWasDimmerTriggered' = FALSE
  /\ Tidied
  /\ UNCHANGED <<button, sBrightness>>

\* Fault: the flag is not set.
StartsUnnoticed ==
  /\ Execute("trigger")
  /\ Send("on")
  /\ dimmerTimer' = Interval
  /\ pressTimer' = Stopped
  /\ UNCHANGED <<button, sWasDimmerTriggered, sBrightness, overrun>>

\* Timer::DimmerTrigger: switches the lights on and starts to dim them.
DimmingStarts ==
  /\ Execute("trigger")
  /\ sWasDimmerTriggered' = TRUE
  /\ Send("on")
  /\ dimmerTimer' = Interval
  /\ pressTimer' = Stopped
  /\ UNCHANGED <<button, sBrightness, overrun>>

\* Fault: compared before the step is added.
BrighterTooLate(b) == IF b > MaxBrightness THEN 0 ELSE b + Step

\* The next brightness: one step up, or back to 0 behind the maximum.
Brighter(b) == IF b + Step > MaxBrightness THEN 0 ELSE b + Step

\* Timer::Dimmer: DimmerChangeBrightness; without memory, no step is taken.
DimmerChangeBrightness ==
  /\ Execute("dim")
  /\ \/ sBrightness' = Brighter(sBrightness) /\ Schedule("level", "button")
     \/ UNCHANGED <<sBrightness, binding>>
  /\ UNCHANGED <<button, timers, sWasDimmerTriggered, overrun>>

-----------------------------------------------------------------------------
(* Time: UserTimerTimeoutCallback posts the task of a timer that expires.  *)

Expired(timer, task) == IF timer = 1 THEN <<task>> ELSE <<>>

Down(timer) == IF timer > 1 THEN timer - 1 ELSE Stopped

Tick ==
  /\ held' = IF pressed /\ held <= TriggerTimeout THEN held + 1 ELSE held
  /\ pressTimer' = Down(pressTimer)
  /\ dimmerTimer' = IF dimmerTimer = 1 THEN Interval ELSE Down(dimmerTimer)
  /\ \/ tasks' = tasks \o Expired(pressTimer, "trigger") \o Expired(dimmerTimer, "dim")
     \/ tasks' = tasks \o Expired(dimmerTimer, "dim") \o Expired(pressTimer, "trigger")
  /\ overrun' = (overrun \/ (Waiting("release") /\ 1 \in {pressTimer, dimmerTimer}))
  /\ UNCHANGED <<pressed, sWasDimmerTriggered, sBrightness, binding>>

MainStep == DimmerTriggerEventHandler \/ DimmingStarts \/ DimmerChangeBrightness

Other == (Shell \/ MatterStep) /\ UNCHANGED dimmer

Next == Press \/ Release \/ MainStep \/ Tick \/ Other

Spec == Init /\ [][Next]_vars

-----------------------------------------------------------------------------
\* Every variable keeps its type; the brightness fits the uint8_t it is sent
\* as, and the periodic timer counts intervals only.
TypeOK ==
  /\ pressed \in BOOLEAN
  /\ held \in 0..(TriggerTimeout + 1)
  /\ pressTimer \in 1..TriggerTimeout \cup {Stopped}
  /\ dimmerTimer \in 1..Interval \cup {Stopped}
  /\ sWasDimmerTriggered \in BOOLEAN
  /\ sBrightness \in 0..MaxBrightness
  /\ tasks \in Seq(Tasks)
  /\ overrun \in BOOLEAN
  /\ BindingTypeOK

\* README.rst:176-177 says that a press of more than half a second changes the
\* brightness, as long as the button is pressed: the dimming timer runs in a
\* press only, until the release is handled, and in a long press it does run,
\* or is about to.  An overrun breaks either half.
DimsAsDocumented ==
  /\ dimmerTimer # Stopped => pressed \/ Waiting("release")
  /\ pressed /\ held > TriggerTimeout => sWasDimmerTriggered \/ Waiting("trigger")

\* Without one, however many tasks have waited and for how long: once the
\* button is up and its release has been handled, no timer runs, no task of a
\* timer is left and the next press starts from scratch.
NothingLeftBehind ==
  ~overrun /\ ~pressed /\ ~Waiting("release") =>
    /\ pressTimer = Stopped
    /\ dimmerTimer = Stopped
    /\ ~sWasDimmerTriggered
    /\ ~Waiting("trigger")
    /\ ~Waiting("dim")

\* README.rst:175-176 tells short presses, which toggle, from long ones, which
\* do not: without an overrun, when a release is handled, a press shorter than
\* TriggerTimeout is taken for short and a longer one for long, however the
\* tasks of the timers, of the release and of the dimming follow each other.
PressSorted ==
  [][DimmerTriggerEventHandler /\ ~overrun =>
       /\ held > TriggerTimeout => sWasDimmerTriggered
       /\ held < TriggerTimeout => ~sWasDimmerTriggered]_vars

\* README.rst:176-177 says the brightness changes in a long press and only as
\* long as the button is down: without an overrun, each step finds the press
\* long enough, and its release not handled, however late the step itself is.
DimsWhilePressed ==
  [][sBrightness' # sBrightness /\ ~overrun =>
       /\ sWasDimmerTriggered
       /\ held >= TriggerTimeout
       /\ pressed \/ Waiting("release")]_vars
=============================================================================
