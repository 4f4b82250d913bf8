----------------------------- MODULE MCInputLoop -----------------------------
(***************************************************************************)
(* Two keys, and tables in which G0 alone, G0 with a key and a key alone   *)
(* are mapped or not; one table has the same trigger twice.                *)
(***************************************************************************)
EXTENDS InputLoop

CONSTANTS q, x, macro

Map(g0, usage, on) ==
    [trigger |-> [g0 |-> g0, usage |-> usage], output |-> macro, on |-> on]

MCCandidates ==
    { <<Map(TRUE, NoKey, TRUE), Map(TRUE, q, TRUE)>>,
      <<Map(FALSE, q, TRUE), Map(TRUE, q, FALSE)>>,
      <<Map(TRUE, x, TRUE), Map(TRUE, x, FALSE)>> }
=============================================================================
