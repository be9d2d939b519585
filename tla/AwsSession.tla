----------------------------- MODULE AwsSession -----------------------------
(***************************************************************************)
(* What the AWS layer promises of its session with the cloud: whoever ends *)
(* it and whatever the network does, the next session is being tried for   *)
(* as long as there is a network.  Trying ends with a session, with the    *)
(* loss of the network, or with an error, if there are any; what it left   *)
(* is taken up again when the network comes.                               *)
(***************************************************************************)
CONSTANT MayFail  \* TRUE: an attempt may end with an error for good

VARIABLES network,  \* TRUE while there is one
          phase     \* "up": a session; "trying": none, but something will try;
                    \* "idle": nothing will; "failed": nothing will, for an error

Init == /\ network = FALSE
        /\ phase = "idle"

NetworkComes == /\ ~network
                /\ phase # "up"
                /\ network' = TRUE
                /\ phase' = "trying"

NetworkGoes == /\ network
               /\ network' = FALSE
               /\ phase' = IF phase = "up" THEN "trying" ELSE phase

SessionStarts == /\ network
                 /\ phase = "trying"
                 /\ phase' = "up"
                 /\ UNCHANGED network

SessionEnds == /\ phase = "up"
               /\ phase' = "trying"
               /\ UNCHANGED network

PassedOver == /\ ~network
              /\ phase = "trying"
              /\ phase' = "idle"
              /\ UNCHANGED network

Fails == /\ MayFail
         /\ phase = "trying"
         /\ phase' = "failed"
         /\ UNCHANGED network

Next == \/ NetworkComes \/ NetworkGoes
        \/ SessionStarts \/ SessionEnds
        \/ PassedOver \/ Fails

Spec == Init /\ [][Next]_<<network, phase>>
=============================================================================
