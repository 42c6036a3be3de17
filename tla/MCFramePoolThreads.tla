------------------------- MODULE MCFramePoolThreads -------------------------
(***************************************************************************)
(* Three frames in rings of four slots.  The configurations differ in who  *)
(* captures and whether two threads meet at one end of a ring.             *)
(***************************************************************************)
EXTENDS FramePoolThreads

CONSTANTS acq, main
==============================================================================
