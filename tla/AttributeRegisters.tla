------------------------- MODULE AttributeRegisters -------------------------
(***************************************************************************)
(* What the attribute storage promises: one register per attribute, and a  *)
(* write that changes the register it names and no other.                  *)
(***************************************************************************)
CONSTANTS Attributes, Values,
          Default  \* content of every register after boot

VARIABLE registers

Init == registers = [a \in Attributes |-> Default]

Write(a, v) == registers' = [registers EXCEPT ![a] = v]

Boot == registers' = [a \in Attributes |-> Default]

Next == Boot \/ \E a \in Attributes, v \in Values : Write(a, v)

Spec == Init /\ [][Next]_registers
=============================================================================
