----------------------------- MODULE MCRecording -----------------------------
(***************************************************************************)
(* Frames of two, no and one block of samples over a pool that holds two;  *)
(* a second recording may follow the first on a disk that fails.           *)
(***************************************************************************)
EXTENDS Recording

MCFrames == {[id |-> i, size |-> (i + 1) % 3, time |-> i] : i \in 1 .. MaxFrames}
==============================================================================
