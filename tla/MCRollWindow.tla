----------------------------- MODULE MCRollWindow -----------------------------
(***************************************************************************)
(* Two channels, windows of two to four samples.                           *)
(***************************************************************************)
EXTENDS RollWindow
==============================================================================
