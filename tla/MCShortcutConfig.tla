--------------------------- MODULE MCShortcutConfig ---------------------------
(***************************************************************************)
(* A small instance of ShortcutConfig.                                     *)
(***************************************************************************)
EXTENDS ShortcutConfig

\* The factory mappings and the Mac's defaults differ in their identifiers.
MCContent == {"factory", "defaults"}
=============================================================================
