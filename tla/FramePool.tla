------------------------------ MODULE FramePool ------------------------------
(***************************************************************************)
(* JScopeFramePool (src/src/scope/JScopeFramePool.h), one step per call:   *)
(* what the pool promises the acquisition side and the drain when its two  *)
(* rings behave as the FIFOs they are meant to be.  FramePoolThreads takes *)
(* the calls apart into the ring instructions the threads really execute.  *)
(*                                                                         *)
(* The frames of a provisioned pool are 1 .. depth.  A frame carries the   *)
(* part of its header that matters here: the start() it was captured under *)
(* and its sequence number in it (m_sequence of the drivers).              *)
(***************************************************************************)
EXTENDS Naturals, Sequences, FiniteSets

CONSTANTS MaxDepth,     \* no request is larger (JScopeLimits::kDefaultPoolDepth)
          RingSlots,    \* capacity -> slots of a ring after reset(capacity)
          MaxSequence,  \* bound on the frames of one start()
          MaxRuns       \* bound on start()

ASSUME PoolAssumption ==
  /\ MaxDepth \in Nat /\ MaxDepth >= 2
  /\ MaxSequence \in Nat /\ MaxRuns \in Nat
  /\ RingSlots \in [1 .. MaxDepth + 1 -> Nat]
  /\ \A c \in 1 .. MaxDepth + 1 : RingSlots[c] >= c

VARIABLES depth,        \* m_frames.size(); 0 before provision()
          free,         \* the free ring
          ready,        \* the ready ring
          filling,      \* the frame the producer is writing, or NoFrame
          showing,      \* the frame the consumer is copying, or NoFrame
          dropped,      \* m_dropped
          header,       \* frame -> [run, sequence] of what it holds
          run,          \* which start() since provision() the driver is in
          sequence,     \* m_sequence: the next sequence number
          expected      \* the sequence number the consumer would see next

vars == <<depth, free, ready, filling, showing, dropped, header, run, sequence, expected>>

NoFrame == 0
Frames  == 1 .. depth

\* Mutant of ReadyRoom: the ready ring is reset to the depth instead of one more.
TightRoom == RingSlots[depth] - 1

\* A ring of n slots holds n - 1 items; provision() asks for one more.
ReadyRoom == RingSlots[depth + 1] - 1

Init == /\ depth = 0 /\ free = <<>> /\ ready = <<>>
        /\ filling = NoFrame /\ showing = NoFrame
        /\ dropped = 0 /\ header = <<>>
        /\ run = 0 /\ sequence = 0 /\ expected = 0

\* Mutant of Clamped: one frame is enough.
ClampedToOne(requested, affordable) ==
  LET fits == IF requested > affordable THEN affordable ELSE requested
  IN  IF fits < 1 THEN 1 ELSE fits

\* The depth a request gets when the budget affords so many frames.
Clamped(requested, affordable) ==
  LET fits == IF requested > affordable THEN affordable ELSE requested
  IN  IF fits < 2 THEN 2 ELSE fits

\* How many of d frames the pushes of provision() get into the free ring.
Fitting(d) == LET room == RingSlots[d + 1] - 1 IN IF d <= room THEN d ELSE room

\* Mutant of Provision: m_frames.clear() is forgotten.
ProvisionMore(requested, affordable) ==
  /\ filling = NoFrame /\ showing = NoFrame
  /\ depth'  = depth + Clamped(requested, affordable)
  /\ free'   = [i \in 1 .. depth' - depth |-> depth + i]
  /\ ready'  = <<>>
  /\ header' = [f \in 1 .. depth' |-> [run |-> 0, sequence |-> 0]]
  /\ dropped' = 0
  /\ run' = 0 /\ sequence' = 0 /\ expected' = 0
  /\ UNCHANGED <<filling, showing>>

\* provision(): only while the driver is stopped.  It discards every frame, and
\* nothing is acquired again before the next start().
Provision(requested, affordable) ==
  /\ filling = NoFrame /\ showing = NoFrame
  /\ depth'  = Clamped(requested, affordable)
  /\ free'   = [i \in 1 .. Fitting(depth') |-> i]
  /\ ready'  = <<>>
  /\ header' = [f \in 1 .. depth' |-> [run |-> 0, sequence |-> 0]]
  /\ dropped' = 0
  /\ run' = 0 /\ sequence' = 0 /\ expected' = 0
  /\ UNCHANGED <<filling, showing>>

\* The driver's start(): a new numbering, and resetDropped().
StartRun ==
  /\ depth > 0 /\ filling = NoFrame /\ run < MaxRuns
  /\ run' = run + 1
  /\ sequence' = 0 /\ expected' = 0 /\ dropped' = 0
  /\ UNCHANGED <<depth, free, ready, filling, showing, header>>

-----------------------------------------------------------------------------
\* acquire(): a free frame ...
AcquireFree ==
  /\ run > 0 /\ filling = NoFrame
  /\ free # <<>>
  /\ filling' = Head(free)
  /\ free' = Tail(free)
  /\ UNCHANGED <<depth, ready, showing, dropped, header, run, sequence, expected>>

\* Mutant of AcquireOldest: the drop is not counted.
AcquireUncounted ==
  /\ run > 0 /\ filling = NoFrame
  /\ free = <<>> /\ ready # <<>>
  /\ filling' = Head(ready)
  /\ ready' = Tail(ready)
  /\ UNCHANGED <<depth, free, showing, dropped, header, run, sequence, expected>>

\* ... or, when there is none, the oldest published one, which is dropped.
AcquireOldest ==
  /\ run > 0 /\ filling = NoFrame
  /\ free = <<>> /\ ready # <<>>
  /\ filling' = Head(ready)
  /\ ready' = Tail(ready)
  /\ dropped' = dropped + 1
  /\ UNCHANGED <<depth, free, showing, header, run, sequence, expected>>

\* The driver stamps the frame and publishes it.  The else branch is the
\* "cannot happen" of publish().
Publish ==
  /\ filling # NoFrame /\ sequence < MaxSequence
  /\ header' = [header EXCEPT ![filling] = [run |-> run, sequence |-> sequence]]
  /\ sequence' = sequence + 1
  /\ IF Len(ready) < ReadyRoom
       THEN ready' = Append(ready, filling) /\ UNCHANGED <<free, dropped>>
       ELSE /\ free' = Append(free, filling)
            /\ dropped' = dropped + 1
            /\ UNCHANGED ready
  /\ filling' = NoFrame
  /\ UNCHANGED <<depth, showing, run, expected>>

\* Mutant of Discard: a retry path that forgets release().
DiscardLeaks ==
  /\ filling # NoFrame
  /\ filling' = NoFrame
  /\ UNCHANGED <<depth, free, ready, showing, dropped, header, run, sequence, expected>>

\* The driver gives up on a frame it acquired: no trigger in Normal mode, no
\* channel on, a shape the frame cannot take.
Discard ==
  /\ filling # NoFrame
  /\ free' = Append(free, filling)
  /\ filling' = NoFrame
  /\ UNCHANGED <<depth, ready, showing, dropped, header, run, sequence, expected>>

-----------------------------------------------------------------------------
\* tryPopReady()
TryPopReady ==
  /\ showing = NoFrame /\ ready # <<>>
  /\ showing' = Head(ready)
  /\ ready' = Tail(ready)
  /\ expected' = IF header[Head(ready)].run = run THEN header[Head(ready)].sequence + 1
                                                  ELSE expected
  /\ UNCHANGED <<depth, free, filling, dropped, header, run, sequence>>

\* release(), once the session has copied the frame.
Release ==
  /\ showing # NoFrame
  /\ free' = Append(free, showing)
  /\ showing' = NoFrame
  /\ UNCHANGED <<depth, ready, filling, dropped, header, run, sequence, expected>>

Acquire  == AcquireFree \/ AcquireOldest
Producer == Acquire \/ Publish \/ Discard \/ StartRun
Consumer == TryPopReady \/ Release

Next == \/ \E requested \in 0 .. MaxDepth, affordable \in 0 .. MaxDepth :
             Provision(requested, affordable)
        \/ Producer
        \/ Consumer

Spec == Init /\ [][Next]_vars

-----------------------------------------------------------------------------
\* The type invariant.
TypeOK == /\ depth \in 0 .. MaxDepth
          /\ free \in Seq(Frames) /\ ready \in Seq(Frames)
          /\ filling \in Frames \cup {NoFrame}
          /\ showing \in Frames \cup {NoFrame}
          /\ dropped \in Nat
          /\ header \in [Frames -> [run : Nat, sequence : Nat]]
          /\ run \in Nat /\ sequence \in Nat /\ expected \in Nat

Held(f) == IF f = NoFrame THEN 0 ELSE 1

\* No frame is ever lost or made: free, ready and the two hands hold exactly
\* as many as were provisioned.
Conserved == Len(free) + Len(ready) + Held(filling) + Held(showing) = depth

\* acquire() never comes back empty-handed from a provisioned pool, whatever
\* the consumer holds: "It never blocks - a stalled UI must not be able to
\* stall USB."
AcquireSucceeds == depth > 0 /\ filling = NoFrame => free # <<>> \/ ready # <<>>

\* publish() always finds room: the branch its comment says cannot happen.
PublishFits == filling # NoFrame => Len(ready) < ReadyRoom

\* Every frame is in exactly one place, so nobody reads a frame while somebody
\* else writes it.
InHand(f) == IF f = NoFrame THEN <<>> ELSE <<f>>
OwnedOnce ==
  LET all == free \o ready \o InHand(filling) \o InHand(showing)
  IN  /\ Len(all) = depth
      /\ {all[i] : i \in DOMAIN all} = Frames

\* A gap in the sequence numbers the consumer sees is covered by the drop
\* count on the status bar: no frame of this run vanishes without being
\* counted.
GapsAreCounted ==
  \A i \in DOMAIN ready :
    header[ready[i]].run = run =>
      header[ready[i]].sequence - expected <= dropped + (i - 1)
==============================================================================
