----------------------------- MODULE MCAppTask -----------------------------
(***************************************************************************)
(* AppTask with an environment that acts MaxEnv times at most, so that TLC *)
(* can explore the time constants of the source, and with a work queue     *)
(* that preempts the Matter thread: no step of that thread while a handler *)
(* waits to run.  What goes wrong here needs no race between the two.      *)
(***************************************************************************)
EXTENDS AppTask

CONSTANT MaxEnv  \* bound: presses, commands, sense changes and restarts

VARIABLE used    \* how many of them have happened

mcVars == <<vars, used>>

MCInit == Init /\ used = 0

System(A) == A /\ UNCHANGED used

Environment(A) == A /\ submitted = {} /\ used < MaxEnv /\ used' = used + 1

Urgent == System(WorkStep \/ (submitted = {} /\ (MatterStep \/ Tick)))

UrgentSpec == MCInit /\ [][Urgent \/ Environment(EnvStep)]_mcVars

\* The same with nobody at the button or the controller and no power cut.
UnattendedSpec == MCInit /\ [][Urgent \/ Environment(SenseChange)]_mcVars

\* zcl_callbacks.cpp:32-33 says a pulse is only triggered if the target state
\* differs from what is sensed, to keep the sensing from feeding back into
\* the heater.  With nobody there, a vote that waited for the Matter server to
\* come up still switches the heater after a reboot.
NoPulseUnattended == ctrlPin = "hiz"
=============================================================================
