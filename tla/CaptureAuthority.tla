-------------------------- MODULE CaptureAuthority --------------------------
(***************************************************************************)
(* What the device promises about its microphone, without the tasks, the   *)
(* events and the order in which they are handled: capture is switched on  *)
(* only by a decision that sees every authorising fact hold, and may be    *)
(* switched off at any moment.                                             *)
(***************************************************************************)
CONSTANT Fact           \* the facts that together authorise capture

VARIABLES
    holds,              \* the facts the device believes to hold
    on                  \* is the microphone being captured?

Init == holds \in SUBSET Fact /\ on = FALSE

\* The device learns of a change; it may switch capture off on the way.
Observe == /\ holds' \in SUBSET Fact
           /\ on' \in {on, FALSE}

\* The one place where capture may be switched on.
Decide == /\ on' = (holds = Fact)
          /\ UNCHANGED holds

Next == Observe \/ Decide

Spec == Init /\ [][Next]_<<holds, on>>
=============================================================================
