--------------------------- MODULE UpdateContract ---------------------------
(***************************************************************************)
(* What a firmware update promises: the device runs either the image it    *)
(* trusts or a newer one on trial, an image is trusted only after it has    *)
(* shown to be healthy, and a trial that ends otherwise goes back.          *)
(***************************************************************************)
EXTENDS Naturals

CONSTANTS
    Factory,        \* the version flashed over USB
    Healthy         \* the versions that keep the device working

VARIABLES
    running,        \* the version the device runs
    trusted         \* the version it comes back to

vars == <<running, trusted>>

Init == running = Factory /\ trusted = Factory

\* A restart into an image that was installed while a trusted one ran.
Trial ==
    /\ running = trusted
    /\ running' \in Nat /\ running' > running /\ UNCHANGED trusted

Trust == running \in Healthy /\ trusted' = running /\ UNCHANGED running

GoBack == running' = trusted /\ UNCHANGED trusted

Next == Trial \/ Trust \/ GoBack

Spec == Init /\ [][Next]_vars
=============================================================================
