------------------------------- MODULE MCReplay -------------------------------
(***************************************************************************)
(* Three frames, so the first, a middle and the last one; two devices.     *)
(***************************************************************************)
EXTENDS Replay
==============================================================================
