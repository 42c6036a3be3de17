----------------------------- MODULE BoundedFifo -----------------------------
(***************************************************************************)
(* What a frame ring promises its two users: a bounded first-in first-out  *)
(* queue, whatever instructions it is made of.  JScopeFrameQueue implements*)
(* it (module FrameQueue) and the pool relies on nothing else.             *)
(***************************************************************************)
EXTENDS Naturals, Sequences

CONSTANTS Items,      \* what may be queued: the frame pointers
          Room        \* how many items fit

VARIABLES queue,      \* the queued items, oldest first
          taken       \* the item the last successful pop returned, or none

fifoVars == <<queue, taken>>

FifoInit == /\ queue = <<>>
            /\ taken \notin Items

\* push() that returned true.
Put(x) == /\ Len(queue) < Room
          /\ queue' = Append(queue, x)
          /\ UNCHANGED taken

\* pop() that returned an item.
Take == /\ queue # <<>>
        /\ taken' = Head(queue)
        /\ queue' = Tail(queue)

FifoNext == Take \/ \E x \in Items : Put(x)

FifoSpec == FifoInit /\ [][FifoNext]_fifoVars
==============================================================================
