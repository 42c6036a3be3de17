---------------------------- MODULE MCFramePool ----------------------------
(***************************************************************************)
(* Pools of two to four frames, every request and every budget clamp.      *)
(***************************************************************************)
EXTENDS FramePool

\* JScopeFrameQueue::reset(): n = 1; while (n < capacity) n <<= 1.
RoundUp[capacity \in 0 .. MaxDepth + 1] ==
  LET grow[n \in 1 .. 4 * (MaxDepth + 1)] ==
        IF n < capacity THEN grow[2 * n] ELSE n
  IN  grow[1]

Slots == [c \in 1 .. MaxDepth + 1 |-> RoundUp[c]]
==============================================================================
