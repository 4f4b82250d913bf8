-------------------------- MODULE MCFirmwareUpdate --------------------------
(***************************************************************************)
(* Four versions: healthy, crashing, without a keyboard, and healthy again. *)
(***************************************************************************)
EXTENDS FirmwareUpdate

MCGood     == {1, 4} \cap Version
MCCrashing == {2} \cap Version
=============================================================================
