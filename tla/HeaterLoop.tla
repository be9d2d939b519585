----------------------------- MODULE HeaterLoop -----------------------------
(***************************************************************************)
(* AppTask in a loop with the bath heater it drives.  The heater is not    *)
(* part of the repository; it is modelled from how app_task.cpp uses it:   *)
(* one control pin for ON and OFF, so each pulse on it is a press of the   *)
(* heater's own button, and a sense pin that is LOW while the heater is on *)
(* and follows within Latency ticks of the press.                          *)
(*                                                                         *)
(* This is the loop on a good day: the work queue preempts the Matter      *)
(* thread, and the user sends a command to a settled system only.          *)
(***************************************************************************)
EXTENDS AppTask

CONSTANT Latency  \* ticks the sense pin takes to follow a press, at most

ASSUME LatencyAssumption == Latency \in Nat \ {0}

VARIABLES heater,   \* TRUE while the heater is on
          lag,      \* ticks until the sense pin follows, NotArmed if it has
          command   \* what the user last asked for; "none" before

loopVars == <<vars, heater, lag, command>>

Settled == /\ pc = "idle"
           /\ submitted = {}
           /\ ctrlPin = "hiz"
           /\ lag = NotArmed
           /\ events = <<>>
           /\ onOff = mVotedIsOn
           /\ mSenseHistory = WarmHistory(onOff)
           /\ senseLine = (IF onOff THEN 0 ELSE 1)

LoopInit == /\ Init
            /\ senseReady
            /\ heater = HeaterOn(senseLine)
            /\ lag = NotArmed
            /\ command = "none"

\* The falling edge of the control pin presses the heater's button.
Press == IF ctrlPin = "hiz" /\ ctrlPin' = "low"
         THEN heater' = ~heater /\ lag' \in 1..Latency
         ELSE UNCHANGED <<heater, lag>>

Controller == /\ WorkStep \/ (submitted = {} /\ MatterStep)
              /\ Press
              /\ UNCHANGED command

LoopTick == /\ lag # 0
            /\ Tick
            /\ lag' = IF lag = NotArmed THEN NotArmed ELSE lag - 1
            /\ UNCHANGED <<heater, command>>

Respond == /\ lag = 0
           /\ lag' = NotArmed
           /\ IF HeaterOn(senseLine) # heater
              THEN SenseChange ELSE UNCHANGED vars
           /\ UNCHANGED <<heater, command>>

Command(on) == /\ Settled
               /\ RemoteCommand(on)
               /\ command' = IF on THEN "on" ELSE "off"
               /\ UNCHANGED <<heater, lag>>

LoopNext == \/ Controller
            \/ LoopTick
            \/ Respond
            \/ \E on \in BOOLEAN : Command(on)

LoopFairness == /\ WF_loopVars(Controller)
                /\ WF_loopVars(LoopTick)
                /\ WF_loopVars(Respond)

LoopSpec == LoopInit /\ [][LoopNext]_loopVars /\ LoopFairness

\* The last command given to a settled system is obeyed in the end: the
\* heater, and the attribute the controllers see, stay at what was asked for,
\* however often the sensing rewrote the attribute while the heater was slow.
CommandObeyed ==
  \A c \in {"on", "off"} :
    <>[](command = c) => <>[](heater = (c = "on") /\ onOff = heater)

\* The button of the heater is still to be pressed for the last command.
PressDue == pc = "act" \/ (pc = "changed" /\ onOff # mVotedIsOn)

\* A command to a settled system presses the button of the heater exactly once,
\* and nothing but a command ever does: with the pulse the heater is in the
\* state asked for, and no vote that is written to the attribute, reverts it or
\* restores it, feeds back into the heater before the next command.
PressedOnce == command # "none" => (heater = (command = "on") <=> ~PressDue)

\* app_task.cpp:135 says the preload of the history avoids the "1-second
\* lag-revert" of the attribute while the sense pin still lags behind.
NoLagRevert ==
  [][SyncAttribute /\ command = "on" /\ lag # NotArmed => UNCHANGED onOff]_loopVars
=============================================================================
