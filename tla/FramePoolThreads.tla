--------------------------- MODULE FramePoolThreads ---------------------------
(***************************************************************************)
(* The pool under its real threads: every acquire(), publish(), release()  *)
(* and tryPopReady() is a pop or a push on one of two JScopeFrameQueue     *)
(* rings, taken apart into the ring's instructions.                        *)
(*                                                                         *)
(* A thread in Acquirers captures: it takes a frame from the free ring, or *)
(* reclaims the oldest ready one, fills it, and publishes it or gives it   *)
(* back (JHantek1008Driver::_acquireBurst, JSyntheticDriver::_generate*,   *)
(* JReplayDriver::_emitFrame).  A thread in Drainers runs                  *)
(* JScopeSession::drain().  While a driver runs these are two threads; a   *)
(* paused replay captures and drains on the main thread alone.             *)
(*                                                                         *)
(* Loads are current (StaleLoads <- FALSE): a frame reaches a thread       *)
(* through the other ring's release store, so the thread that pushes it    *)
(* back has seen the pop that took it.  push() returning false is left out *)
(* of the steps because it never happens: PushesFit.                       *)
(***************************************************************************)
EXTENDS Naturals, Sequences, FiniteSets

CONSTANTS Threads,      \* all of them
          Acquirers,    \* those that capture
          Drainers,     \* those that drain
          Depth,        \* provisioned frames
          Slots,        \* slots of each ring
          Contended     \* may two threads be at the same end of one ring?

\* Acquirers \cup Drainers = Threads; Slots > Depth, as provision() makes them.

VARIABLES fhead, ftail, fslots, fppc, fpitem, fptail, fpseen,
          fcpc, fchead, fcitem, fcseen, ftaken,        \* the free ring
          rhead, rtail, rslots, rppc, rpitem, rptail, rpseen,
          rcpc, rchead, rcitem, rcseen, rtaken,        \* the ready ring
          doing,        \* what each thread is doing
          hand          \* the frame it writes or copies, or NoFrame

freeVars  == <<fhead, ftail, fslots, fppc, fpitem, fptail, fpseen,
               fcpc, fchead, fcitem, fcseen, ftaken>>
readyVars == <<rhead, rtail, rslots, rppc, rpitem, rptail, rpseen,
               rcpc, rchead, rcitem, rcseen, rtaken>>
vars      == <<freeVars, readyVars, doing, hand>>

Frames  == 1 .. Depth
NoFrame == 0

Free == INSTANCE FrameQueue WITH
  head <- fhead, tail <- ftail, slots <- fslots, ppc <- fppc, pitem <- fpitem,
  ptail <- fptail, pseen <- fpseen, cpc <- fcpc, chead <- fchead, citem <- fcitem,
  cseen <- fcseen, taken <- ftaken, Items <- Frames, NoItem <- NoFrame,
  Pushers <- Threads, Poppers <- Acquirers, StaleLoads <- FALSE

Ready == INSTANCE FrameQueue WITH
  head <- rhead, tail <- rtail, slots <- rslots, ppc <- rppc, pitem <- rpitem,
  ptail <- rptail, pseen <- rpseen, cpc <- rcpc, chead <- rchead, citem <- rcitem,
  cseen <- rcseen, taken <- rtaken, Items <- Frames, NoItem <- NoFrame,
  Pushers <- Acquirers, Poppers <- Threads, StaleLoads <- FALSE

\* provision() resets both rings and pushes every frame on the free one.
Init == /\ fhead = 0 /\ ftail = Depth
        /\ fslots = [i \in 0 .. Slots - 1 |-> IF i < Depth THEN i + 1 ELSE NoFrame]
        /\ fppc   = [t \in Threads |-> "idle"]   /\ fpitem = [t \in Threads |-> NoFrame]
        /\ fptail = [t \in Threads |-> 0]        /\ fpseen = [t \in Threads |-> 0]
        /\ fcpc   = [t \in Acquirers |-> "idle"] /\ fchead = [t \in Acquirers |-> 0]
        /\ fcitem = [t \in Acquirers |-> NoFrame]
        /\ fcseen = [t \in Acquirers |-> 0]      /\ ftaken = NoFrame
        /\ Ready!QueueInit
        /\ doing = [t \in Threads |-> "rest"]
        /\ hand  = [t \in Threads |-> NoFrame]

\* Whether t may start a pop of the ready ring, or a push on the free one: the
\* code never checks, so only an uncontended schedule keeps the others out.
MayPopReady(t) == Contended \/ \A u \in Threads \ {t} : rcpc[u] = "idle"
MayPushFree(t) == Contended \/ \A u \in Threads \ {t} : fppc[u] = "idle"

Becomes(t, now) == doing' = [doing EXCEPT ![t] = now]
Holds(t, frame) == hand' = [hand EXCEPT ![t] = frame]

-----------------------------------------------------------------------------
\* acquire() begins with a pop of the free ring.
BeginAcquire(t) ==
  /\ doing[t] = "rest"
  /\ Free!PopCall(t)
  /\ Becomes(t, "acquire") /\ UNCHANGED <<readyVars, hand>>

\* The pop's instructions ...
StepAcquire(t) ==
  /\ doing[t] = "acquire"
  /\ Free!PopSome(t) \/ Free!PopRead(t) \/ Free!PopClear(t)
  /\ UNCHANGED <<readyVars, doing, hand>>

\* ... which return a frame to fill ...
Acquired(t) ==
  /\ doing[t] = "acquire"
  /\ Free!PopAdvance(t)
  /\ Becomes(t, "fill") /\ Holds(t, fcitem[t]) /\ UNCHANGED readyVars

\* ... or nullptr, and acquire() pops the READY ring, from this thread too.
AcquireDry(t) ==
  /\ doing[t] = "acquire"
  /\ Free!PopEmpty(t)
  /\ Becomes(t, "reclaim") /\ UNCHANGED <<readyVars, hand>>

BeginReclaim(t) ==
  /\ doing[t] = "reclaim" /\ rcpc[t] = "idle" /\ MayPopReady(t)
  /\ Ready!PopCall(t)
  /\ UNCHANGED <<freeVars, doing, hand>>

StepReclaim(t) ==
  /\ doing[t] = "reclaim"
  /\ Ready!PopSome(t) \/ Ready!PopRead(t) \/ Ready!PopClear(t)
  /\ UNCHANGED <<freeVars, doing, hand>>

Reclaimed(t) ==
  /\ doing[t] = "reclaim"
  /\ Ready!PopAdvance(t)
  /\ Becomes(t, IF rcitem[t] = NoFrame THEN "rest" ELSE "fill")
  /\ Holds(t, rcitem[t]) /\ UNCHANGED freeVars

\* acquire() returned nullptr; the driver tries again later.
ReclaimDry(t) ==
  /\ doing[t] = "reclaim"
  /\ Ready!PopEmpty(t)
  /\ Becomes(t, "rest") /\ UNCHANGED <<freeVars, hand>>

-----------------------------------------------------------------------------
\* publish(): a push on the ready ring.
BeginPublish(t) ==
  /\ doing[t] = "fill"
  /\ Ready!PushCall(t, hand[t])
  /\ Becomes(t, "publish") /\ Holds(t, NoFrame) /\ UNCHANGED freeVars

StepPublish(t) ==
  /\ doing[t] = "publish"
  /\ Ready!PushRoom(t) \/ Ready!PushWrite(t)
  /\ UNCHANGED <<freeVars, doing, hand>>

Published(t) ==
  /\ doing[t] = "publish"
  /\ Ready!PushPublish(t)
  /\ Becomes(t, "rest") /\ UNCHANGED <<freeVars, hand>>

\* Mutant of BeginDiscard: a retry path that forgets release().
DiscardLeaks(t) ==
  /\ doing[t] = "fill"
  /\ Becomes(t, "rest") /\ Holds(t, NoFrame) /\ UNCHANGED <<freeVars, readyVars>>

\* release() of a frame nothing was captured into, from this thread.
BeginDiscard(t) ==
  /\ doing[t] = "fill" /\ MayPushFree(t)
  /\ Free!PushCall(t, hand[t])
  /\ Becomes(t, "discard") /\ Holds(t, NoFrame) /\ UNCHANGED readyVars

-----------------------------------------------------------------------------
\* drain(): while (f = pool.tryPopReady()) { copy; pool.release(f); }
BeginDrain(t) ==
  /\ doing[t] = "rest" /\ MayPopReady(t)
  /\ Ready!PopCall(t)
  /\ Becomes(t, "drain") /\ UNCHANGED <<freeVars, hand>>

StepDrain(t) ==
  /\ doing[t] = "drain"
  /\ Ready!PopSome(t) \/ Ready!PopRead(t) \/ Ready!PopClear(t)
  /\ UNCHANGED <<freeVars, doing, hand>>

\* A nullptr read from an emptied slot ends the loop like an empty ring does.
Drained(t) ==
  /\ doing[t] = "drain"
  /\ Ready!PopAdvance(t)
  /\ Becomes(t, IF rcitem[t] = NoFrame THEN "rest" ELSE "copy")
  /\ Holds(t, rcitem[t]) /\ UNCHANGED freeVars

DrainEnds(t) ==
  /\ doing[t] = "drain"
  /\ Ready!PopEmpty(t)
  /\ Becomes(t, "rest") /\ UNCHANGED <<freeVars, hand>>

\* Mutant of BeginRelease: the frame is given back before it has been copied.
ReleaseEarly(t) ==
  /\ doing[t] = "copy" /\ MayPushFree(t)
  /\ Free!PushCall(t, hand[t])
  /\ Becomes(t, "release") /\ UNCHANGED <<readyVars, hand>>

BeginRelease(t) ==
  /\ doing[t] = "copy" /\ MayPushFree(t)
  /\ Free!PushCall(t, hand[t])
  /\ Becomes(t, "release") /\ Holds(t, NoFrame) /\ UNCHANGED readyVars

\* The instructions of release()'s push, on whichever thread.
StepRelease(t) ==
  /\ doing[t] \in {"release", "discard"}
  /\ Free!PushRoom(t) \/ Free!PushWrite(t)
  /\ UNCHANGED <<readyVars, doing, hand>>

\* The drain goes round its loop; the capture is over.
Released(t) ==
  /\ doing[t] \in {"release", "discard"}
  /\ Free!PushPublish(t)
  /\ Becomes(t, IF doing[t] = "release" THEN "again" ELSE "rest")
  /\ UNCHANGED <<readyVars, hand>>

DrainAgain(t) ==
  /\ doing[t] = "again" /\ MayPopReady(t)
  /\ Ready!PopCall(t)
  /\ Becomes(t, "drain") /\ UNCHANGED <<freeVars, hand>>

Capture(t) == \/ BeginAcquire(t) \/ StepAcquire(t) \/ Acquired(t) \/ AcquireDry(t)
              \/ BeginReclaim(t) \/ StepReclaim(t) \/ Reclaimed(t) \/ ReclaimDry(t)
              \/ BeginPublish(t) \/ StepPublish(t) \/ Published(t) \/ BeginDiscard(t)
Drain(t)   == \/ BeginDrain(t) \/ StepDrain(t) \/ Drained(t) \/ DrainEnds(t)
              \/ BeginRelease(t) \/ DrainAgain(t)

Next == \/ \E t \in Acquirers : Capture(t)
        \/ \E t \in Drainers  : Drain(t)
        \/ \E t \in Threads   : StepRelease(t) \/ Released(t)

Spec == Init /\ [][Next]_vars

-----------------------------------------------------------------------------
\* The type invariant.
TypeOK == /\ Free!QueueTypeOK /\ Ready!QueueTypeOK
          /\ doing \in [Threads -> {"rest", "acquire", "reclaim", "fill", "publish",
                                    "discard", "drain", "copy", "release", "again"}]
          /\ hand \in [Threads -> Frames \cup {NoFrame}]

\* Nobody copies a frame out while another thread captures into it, or holds
\* the same frame twice: "exactly one thread ever calls push(), and exactly one
\* other thread ever calls pop()".
ExclusiveOwnership ==
  \A s, t \in Threads : s # t /\ hand[s] # NoFrame => hand[s] # hand[t]

\* No push() is ever refused: release() ignores its result, so a refused frame
\* would be gone, and publish() calls it the branch that cannot happen.
PushesFit ==
  /\ \A t \in Threads   : fppc[t] = "check" => Free!Succ(fptail[t]) # fhead
  /\ \A t \in Acquirers : rppc[t] = "check" => Ready!Succ(rptail[t]) # rhead

\* acquire() returns "nullptr only if unprovisioned": not so while the drain
\* empties the ready ring between its two pops (README).
AcquireAnswers ==
  [][\A t \in Acquirers : doing[t] = "reclaim" => doing'[t] # "rest"]_vars

\* When no call is in progress every frame is in one of the rings, once: the
\* pool neither leaks a frame nor hands it out twice later.
NothingLost ==
  (\A t \in Threads : doing[t] = "rest") =>
    LET all == Free!Contents \o Ready!Contents
    IN  /\ Len(all) = Depth
        /\ {all[i] : i \in DOMAIN all} = Frames
==============================================================================
