---------------------------- MODULE MCFrameQueue ----------------------------
(***************************************************************************)
(* A ring of four slots shared by one acquisition thread and the main      *)
(* thread, with every stale load the C++ memory model allows.              *)
(***************************************************************************)
EXTENDS FrameQueue

CONSTANTS acq, main, f1, f2, f3
==============================================================================
