----------------------------- MODULE LossyStream -----------------------------
(***************************************************************************)
(* What the shared audio buffer promises to the two processes that map it: *)
(* a stream of samples whose writer only appends, and whose reader only    *)
(* moves forward through what was appended.  It may skip; it never goes    *)
(* back and never runs ahead of the writer.                                *)
(***************************************************************************)
EXTENDS Naturals

VARIABLES
    appended,   \* how many samples the writer has appended
    position    \* how many of them the reader has passed

Init == appended = 0 /\ position = 0

Append == appended' > appended /\ UNCHANGED position

Advance == /\ position < position' /\ position' <= appended
           /\ UNCHANGED appended

Next == Append \/ Advance

Spec == Init /\ [][Next]_<<appended, position>>
=============================================================================
