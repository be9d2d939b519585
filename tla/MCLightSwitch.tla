---------------------------- MODULE MCLightSwitch ----------------------------
(***************************************************************************)
(* The light switch with a small heap, one light and one group bound, and  *)
(* a main thread that falls behind by MaxTasks tasks at most.              *)
(***************************************************************************)
EXTENDS LightSwitchDimmer

CONSTANT MaxTasks  \* bound: tasks that wait at a time

MCSpec == Init /\ [][Next /\ Len(tasks') <= MaxTasks]_vars

\* Blocks of the heap are alike.
BlockSymmetry == Permutations(Blocks)
=============================================================================
