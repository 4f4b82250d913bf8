--------------------------- MODULE AuthoredRegister ---------------------------
(***************************************************************************)
(* What the shortcut store of the device promises: its value is always one *)
(* that somebody authored as a whole, and it is only ever replaced by one  *)
(* with a higher version.                                                  *)
(***************************************************************************)
EXTENDS Naturals

CONSTANT Value          \* records with a field ver

VARIABLES
    authored,   \* the values authored so far
    value       \* the one in force

Init == value \in Value /\ authored \subseteq Value

Author == /\ authored' \subseteq Value /\ authored \subseteq authored'
          /\ UNCHANGED value

Adopt == /\ value' \in authored /\ value'.ver > value.ver
         /\ UNCHANGED authored

Next == Author \/ Adopt

Spec == Init /\ [][Next]_<<authored, value>>
=============================================================================
