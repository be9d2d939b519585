------------------------ MODULE MCAwsIotIntegration ------------------------
(***************************************************************************)
(* AwsIotIntegration with an environment that acts MaxEnv times at most.   *)
(***************************************************************************)
EXTENDS AwsIotIntegration

CONSTANT MaxEnv  \* bound: local changes, desires, network and session events

VARIABLE used    \* how many of them have happened

mcVars == <<vars, used>>

MCInit == Init /\ used = 0

System(A) == A /\ UNCHANGED used

\* The module is idle: the only state in which it may wait for ever.
Rest == AtRest /\ connect_work = "none" /\ ~connecting /\ UNCHANGED mcVars

MCNext == \/ System(SetStep \/ LibStep \/ WorkStep)
          \/ used < MaxEnv /\ EnvStep /\ used' = used + 1
          \/ Rest

MCSpec == MCInit /\ [][MCNext]_mcVars

\* Every thread runs, and an attempt to connect that is repeated for ever
\* succeeds some time.
MCFairSpec == MCSpec /\ Fairness
=============================================================================
