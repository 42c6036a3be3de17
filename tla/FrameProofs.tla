------------------------------ MODULE FrameProofs ------------------------------
(***************************************************************************)
(* Proofs about the frames between the acquisition and the screen.         *)
(*                                                                         *)
(* The pool (src/src/scope/JScopeFramePool.h), for every depth, every      *)
(* rounding of the ring size that leaves room for what was asked, and runs *)
(* of any length: no frame is lost or in two places, acquire() always      *)
(* finds one, publish() always finds room, and what the consumer misses    *)
(* is counted.                                                             *)
(*                                                                         *)
(* The ring (src/src/scope/JScopeFrameQueue.h), for every number of slots, *)
(* every set of frames and every stale load: with one thread that pushes   *)
(* and one that pops, as the contract of JScopeFrameQueue asks, the two    *)
(* never touch one slot at a time, pop() never returns a slot nobody has   *)
(* filled, and the ring is a bounded FIFO queue.                           *)
(***************************************************************************)
EXTENDS FramePool, FrameQueue, SequenceTheorems, FiniteSetTheorems, TLAPS

-----------------------------------------------------------------------------
\* The pool.

\* The depth provision() settles on is two at the least, whatever was asked for
\* and whatever the budget affords.
LEMMA ClampedIs ==
  ASSUME NEW requested \in 0 .. MaxDepth, NEW affordable \in 0 .. MaxDepth
  PROVE  Clamped(requested, affordable) \in 2 .. MaxDepth
  BY PoolAssumption DEF Clamped

\* A ring sized for one more than the depth has room for every frame.
LEMMA RoomForAll ==
  ASSUME NEW d \in 0 .. MaxDepth
  PROVE  RingSlots[d + 1] \in Nat /\ RingSlots[d + 1] - 1 >= d
  BY PoolAssumption

\* Appending a frame and taking the oldest, with their lengths.
LEMMA AppendFrame ==
  ASSUME NEW S, NEW s \in Seq(S), NEW f \in S
  PROVE  Append(s, f) \in Seq(S) /\ Len(Append(s, f)) = Len(s) + 1 /\ Len(s) \in Nat
  BY AppendProperties, LenProperties

\* Taking the oldest leaves one fewer, all of them frames of the same pool.
LEMMA TakeFrame ==
  ASSUME NEW S, NEW s \in Seq(S), s # <<>>
  PROVE  /\ Head(s) \in S /\ Tail(s) \in Seq(S)
         /\ Len(Tail(s)) = Len(s) - 1 /\ Len(s) \in Nat \ {0}
  BY HeadTailProperties, EmptySeq

\* The frames in the order provision() pushes them.
LEMMA CountedFrames ==
  ASSUME NEW d \in Nat
  PROVE  [i \in 1 .. d |-> i] \in Seq(1 .. d) /\ Len([i \in 1 .. d |-> i]) = d
  OBVIOUS

-----------------------------------------------------------------------------
\* The inductive invariant.  Conservation needs a depth of two or more to leave
\* acquire() a frame while the consumer holds one; 0 is the unprovisioned pool.
PoolInv == TypeOK /\ Conserved /\ depth # 1

\* A pool nobody has provisioned conserves its no frames.
LEMMA PoolInvInit == Init => PoolInv
  BY PoolAssumption DEF Init, PoolInv, TypeOK, Conserved, Held, NoFrame, Frames

\* Every call of the pool moves a frame from one place to one other.
LEMMA PoolInvNext == PoolInv /\ [Next]_vars => PoolInv'
<1> SUFFICES ASSUME PoolInv, [Next]_vars PROVE PoolInv'
  OBVIOUS
<1>a. TypeOK /\ Conserved /\ depth # 1 /\ depth \in Nat /\ Len(free) \in Nat /\ Len(ready) \in Nat
  BY LenProperties DEF PoolInv, TypeOK
<1>1. ASSUME NEW requested \in 0 .. MaxDepth, NEW affordable \in 0 .. MaxDepth,
             Provision(requested, affordable)
      PROVE  PoolInv'
  <2> DEFINE d == Clamped(requested, affordable)
  <2>0. d \in 2 .. MaxDepth
    BY ClampedIs
  <2> HIDE DEF d
  <2>1. d \in 2 .. MaxDepth /\ d \in Nat /\ MaxDepth \in Nat
    BY <2>0, PoolAssumption
  <2>2. Fitting(d) = d
    BY <2>1, RoomForAll DEF Fitting
  <2>3. /\ depth' = d
        /\ free' = [i \in 1 .. d |-> i]
        /\ ready' = <<>> /\ filling' = 0 /\ showing' = 0 /\ dropped' = 0
        /\ run' = 0 /\ sequence' = 0 /\ expected' = 0
        /\ header' = [f \in 1 .. d |-> [run |-> 0, sequence |-> 0]]
    BY <1>1, <2>2 DEF Provision, d, NoFrame
  <2>4. free' \in Seq(1 .. d) /\ Len(free') = d
    BY <2>1, <2>3, CountedFrames
  <2>5. ready' \in Seq(1 .. d) /\ Len(ready') = 0
    BY <2>3, EmptySeq
  <2>6. TypeOK'
    BY <2>1, <2>3, <2>4, <2>5 DEF TypeOK, Frames, NoFrame
  <2>7. Conserved'
    BY <2>1, <2>3, <2>4, <2>5 DEF Conserved, Held, NoFrame
  <2>8. QED
    BY <2>1, <2>3, <2>6, <2>7 DEF PoolInv
<1>2. CASE StartRun
  BY <1>2, <1>a DEF StartRun, PoolInv, TypeOK, Conserved, Held, Frames, NoFrame
<1>3. CASE AcquireFree
  <2>1. /\ Head(free) \in 1 .. depth /\ Tail(free) \in Seq(1 .. depth)
        /\ Len(Tail(free)) = Len(free) - 1
    BY <1>3, <1>a, TakeFrame DEF AcquireFree, TypeOK, Frames
  <2>2. TypeOK'
    BY <1>3, <1>a, <2>1 DEF AcquireFree, TypeOK, Frames, NoFrame
  <2>3. /\ Held(filling) = 0 /\ Held(filling') = 1 /\ Held(showing) \in Nat /\ Held(showing') = Held(showing)
        /\ Len(free') = Len(free) - 1 /\ Len(ready') = Len(ready) /\ depth' = depth
    BY <1>3, <1>a, <2>1 DEF AcquireFree, Held, NoFrame
  <2>4. Conserved'
    BY <1>a, <2>3 DEF Conserved
  <2>5. QED
    BY <1>a, <2>2, <2>3, <2>4 DEF PoolInv
<1>4. CASE AcquireOldest
  <2>1. /\ Head(ready) \in 1 .. depth /\ Tail(ready) \in Seq(1 .. depth)
        /\ Len(Tail(ready)) = Len(ready) - 1
    BY <1>4, <1>a, TakeFrame DEF AcquireOldest, TypeOK, Frames
  <2>2. TypeOK'
    BY <1>4, <1>a, <2>1 DEF AcquireOldest, TypeOK, Frames, NoFrame
  <2>3. /\ Held(filling) = 0 /\ Held(filling') = 1 /\ Held(showing) \in Nat /\ Held(showing') = Held(showing)
        /\ Len(free') = Len(free) /\ Len(ready') = Len(ready) - 1 /\ depth' = depth
    BY <1>4, <1>a, <2>1 DEF AcquireOldest, Held, NoFrame
  <2>4. Conserved'
    BY <1>a, <2>3 DEF Conserved
  <2>5. QED
    BY <1>a, <2>2, <2>3, <2>4 DEF PoolInv
<1>5. CASE Publish
  <2>1. /\ filling \in 1 .. depth
        /\ Append(ready, filling) \in Seq(1 .. depth) /\ Len(Append(ready, filling)) = Len(ready) + 1
        /\ Append(free, filling) \in Seq(1 .. depth) /\ Len(Append(free, filling)) = Len(free) + 1
    BY <1>5, <1>a, AppendFrame DEF Publish, TypeOK, Frames, NoFrame
  <2>2. header' \in [1 .. depth -> [run : Nat, sequence : Nat]]
    BY <1>5, <1>a DEF Publish, TypeOK, Frames
  <2>3. /\ filling' = 0 /\ depth' = depth /\ showing' = showing /\ run' = run /\ expected' = expected
        /\ sequence' = sequence + 1
        /\ Held(filling) = 1 /\ Held(filling') = 0 /\ Held(showing) \in Nat /\ Held(showing') = Held(showing)
    BY <1>5, <1>a DEF Publish, Held, NoFrame
  <2>4. CASE ready' = Append(ready, filling) /\ free' = free /\ dropped' = dropped
    <3>a. free' \in Seq(1 .. depth) /\ ready' \in Seq(1 .. depth) /\ dropped' \in Nat
      BY <1>a, <2>1, <2>4 DEF TypeOK, Frames
    <3>b. sequence' \in Nat
      BY <1>a, <2>3 DEF TypeOK
    <3>1. TypeOK'
      BY <1>a, <2>2, <2>3, <3>a, <3>b DEF TypeOK, Frames, NoFrame
    <3>2. Conserved'
      BY <1>a, <2>1, <2>3, <2>4 DEF Conserved
    <3>3. QED
      BY <1>a, <2>3, <3>1, <3>2 DEF PoolInv
  <2>5. CASE free' = Append(free, filling) /\ ready' = ready /\ dropped' = dropped + 1
    <3>a. free' \in Seq(1 .. depth) /\ ready' \in Seq(1 .. depth) /\ dropped' \in Nat
      BY <1>a, <2>1, <2>5 DEF TypeOK, Frames
    <3>b. sequence' \in Nat
      BY <1>a, <2>3 DEF TypeOK
    <3>1. TypeOK'
      BY <1>a, <2>2, <2>3, <3>a, <3>b DEF TypeOK, Frames, NoFrame
    <3>2. Conserved'
      BY <1>a, <2>1, <2>3, <2>5 DEF Conserved
    <3>3. QED
      BY <1>a, <2>3, <3>1, <3>2 DEF PoolInv
  <2>6. QED
    BY <1>5, <2>4, <2>5 DEF Publish
<1>6. CASE Discard
  <2>1. /\ Append(free, filling) \in Seq(1 .. depth)
        /\ Len(Append(free, filling)) = Len(free) + 1
    BY <1>6, <1>a, AppendFrame DEF Discard, TypeOK, Frames, NoFrame
  <2>2. TypeOK'
    BY <1>6, <1>a, <2>1 DEF Discard, TypeOK, Frames, NoFrame
  <2>3. /\ Held(filling) = 1 /\ Held(filling') = 0 /\ Held(showing) \in Nat /\ Held(showing') = Held(showing)
        /\ Len(free') = Len(free) + 1 /\ Len(ready') = Len(ready) /\ depth' = depth
    BY <1>6, <1>a, <2>1 DEF Discard, Held, NoFrame
  <2>4. Conserved'
    BY <1>a, <2>3 DEF Conserved
  <2>5. QED
    BY <1>a, <2>2, <2>3, <2>4 DEF PoolInv
<1>7. CASE TryPopReady
  <2>1. /\ Head(ready) \in 1 .. depth /\ Tail(ready) \in Seq(1 .. depth)
        /\ Len(Tail(ready)) = Len(ready) - 1
    BY <1>7, <1>a, TakeFrame DEF TryPopReady, TypeOK, Frames
  <2>2. expected' \in Nat
    <3>1. header[Head(ready)] \in [run : Nat, sequence : Nat] /\ expected \in Nat
      BY <1>a, <2>1 DEF TypeOK, Frames
    <3>2. header[Head(ready)].sequence + 1 \in Nat
      BY <3>1
    <3>3. QED
      BY <1>7, <3>1, <3>2 DEF TryPopReady
  <2>3. TypeOK'
    BY <1>7, <1>a, <2>1, <2>2 DEF TryPopReady, TypeOK, Frames, NoFrame
  <2>4. /\ Held(showing) = 0 /\ Held(showing') = 1 /\ Held(filling) \in Nat /\ Held(filling') = Held(filling)
        /\ Len(free') = Len(free) /\ Len(ready') = Len(ready) - 1 /\ depth' = depth
    BY <1>7, <1>a, <2>1 DEF TryPopReady, Held, NoFrame
  <2>5. Conserved'
    BY <1>a, <2>4 DEF Conserved
  <2>6. QED
    BY <1>a, <2>3, <2>4, <2>5 DEF PoolInv
<1>8. CASE Release
  <2>1. /\ Append(free, showing) \in Seq(1 .. depth)
        /\ Len(Append(free, showing)) = Len(free) + 1
    BY <1>8, <1>a, AppendFrame DEF Release, TypeOK, Frames, NoFrame
  <2>2. TypeOK'
    BY <1>8, <1>a, <2>1 DEF Release, TypeOK, Frames, NoFrame
  <2>3. /\ Held(showing) = 1 /\ Held(showing') = 0 /\ Held(filling) \in Nat /\ Held(filling') = Held(filling)
        /\ Len(free') = Len(free) + 1 /\ Len(ready') = Len(ready) /\ depth' = depth
    BY <1>8, <1>a, <2>1 DEF Release, Held, NoFrame
  <2>4. Conserved'
    BY <1>a, <2>3 DEF Conserved
  <2>5. QED
    BY <1>a, <2>2, <2>3, <2>4 DEF PoolInv
<1>9. CASE UNCHANGED vars
  BY <1>9, <1>a DEF vars, PoolInv, TypeOK, Conserved, Held, Frames, NoFrame
<1>10. QED
  BY <1>1, <1>2, <1>3, <1>4, <1>5, <1>6, <1>7, <1>8, <1>9
     DEF Next, Producer, Consumer, Acquire

\* The pool keeps its frames and its two-frame floor in every run.
LEMMA PoolInvariant == Spec => []PoolInv
<1>1. QED
  BY PoolInvInit, PoolInvNext, PTL DEF Spec

\* Every frame index the pool hands around is one of the frames provisioned.
THEOREM PoolTyped == Spec => []TypeOK
<1>1. PoolInv => TypeOK
  BY DEF PoolInv
<1>2. QED
  BY <1>1, PoolInvariant, PTL

\* The pool never loses a frame and never makes one.
THEOREM PoolConserved == Spec => []Conserved
<1>1. PoolInv => Conserved
  BY DEF PoolInv
<1>2. QED
  BY <1>1, PoolInvariant, PTL

\* acquire() on a provisioned pool never comes back empty-handed, because there
\* are two frames at the least and the consumer holds one at the most.
THEOREM PoolAcquireSucceeds == Spec => []AcquireSucceeds
<1>1. PoolInv => AcquireSucceeds
  <2> SUFFICES ASSUME PoolInv, depth > 0, filling = NoFrame, free = <<>>, ready = <<>>
               PROVE  FALSE
    BY DEF AcquireSucceeds
  <2>1. Len(free) = 0 /\ Len(ready) = 0
    BY EmptySeq
  <2>2. QED
    BY <2>1 DEF PoolInv, TypeOK, Conserved, Held, NoFrame
<1>2. QED
  BY <1>1, PoolInvariant, PTL

\* publish() never reaches the branch that "cannot happen": the ready ring has
\* room for the frame the producer holds.
THEOREM PoolPublishFits == Spec => []PublishFits
<1>1. PoolInv => PublishFits
  <2> SUFFICES ASSUME PoolInv, filling # NoFrame PROVE Len(ready) < ReadyRoom
    BY DEF PublishFits
  <2>1. Len(free) \in Nat /\ Len(ready) \in Nat /\ Len(ready) < depth
    BY LenProperties DEF PoolInv, TypeOK, Conserved, Held, NoFrame
  <2>2. ReadyRoom >= depth /\ ReadyRoom \in Int
    BY RoomForAll DEF PoolInv, TypeOK, ReadyRoom
  <2>3. QED
    BY <2>1, <2>2 DEF PoolInv, TypeOK
<1>2. QED
  BY <1>1, PoolInvariant, PTL

-----------------------------------------------------------------------------
\* What a sequence holds, after each of the moves.
LEMMA RangeAppend ==
  ASSUME NEW S, NEW s \in Seq(S), NEW f \in S
  PROVE  Range(Append(s, f)) = Range(s) \cup {f}
<1>0. Append(s, f) \in Seq(S) /\ Len(Append(s, f)) = Len(s) + 1
  BY AppendProperties
<1>a. Range(Append(s, f)) = {Append(s, f)[i] : i \in 1 .. Len(Append(s, f))}
  BY <1>0, RangeEquality
<1>1. Range(Append(s, f)) = {Append(s, f)[i] : i \in 1 .. Len(s) + 1}
  BY <1>0, <1>a
<1>2. Range(s) = {s[i] : i \in 1 .. Len(s)} /\ Len(s) \in Nat
  BY RangeEquality, LenProperties
<1>3. /\ \A i \in 1 .. Len(s) : Append(s, f)[i] = s[i]
      /\ Append(s, f)[Len(s) + 1] = f
  BY AppendProperties
<1>4. 1 .. Len(s) + 1 = (1 .. Len(s)) \cup {Len(s) + 1}
  BY <1>2
<1>5. QED
  BY <1>1, <1>2, <1>3, <1>4

\* The elements of a sequence are its head and those of its tail.
LEMMA RangeTake ==
  ASSUME NEW S, NEW s \in Seq(S), s # <<>>
  PROVE  Range(s) = {Head(s)} \cup Range(Tail(s))
<1>1. /\ Tail(s) \in Seq(S) /\ Len(Tail(s)) = Len(s) - 1 /\ Len(s) \in Nat \ {0}
      /\ \A i \in 1 .. Len(Tail(s)) : Tail(s)[i] = s[i + 1]
  BY HeadTailProperties, EmptySeq
<1>a. Range(Tail(s)) = {Tail(s)[i] : i \in 1 .. Len(Tail(s))}
  BY <1>1, RangeEquality
<1>2. Range(Tail(s)) = {s[i + 1] : i \in 1 .. Len(s) - 1}
  BY <1>1, <1>a
<1>3. Range(s) = {s[i] : i \in 1 .. Len(s)} /\ Head(s) = s[1]
  BY <1>1, RangeEquality
<1>4. \A i \in 1 .. Len(s) : i = 1 \/ (i - 1 \in 1 .. Len(s) - 1 /\ (i - 1) + 1 = i)
  BY <1>1
<1>5. \A i \in 1 .. Len(s) - 1 : i + 1 \in 1 .. Len(s)
  BY <1>1
<1>6. 1 \in 1 .. Len(s)
  BY <1>1
<1>7. Range(s) \subseteq {Head(s)} \cup Range(Tail(s))
  BY <1>2, <1>3, <1>4
<1>8. {Head(s)} \cup Range(Tail(s)) \subseteq Range(s)
  BY <1>2, <1>3, <1>5, <1>6
<1>9. QED
  BY <1>7, <1>8

\* The frames the two hands hold.
Hands == {filling, showing} \ {NoFrame}

\* Every frame is somewhere.  With the count this leaves none in two places.
Covered == Range(free) \cup Range(ready) \cup Hands = Frames

\* The empty sequence has no elements.
LEMMA RangeEmpty == Range(<<>>) = {}
  BY DEF Range

\* At first the free list holds every frame.
LEMMA CoveredInit == Init => Covered
  BY RangeEmpty DEF Init, Covered, Hands, Frames, NoFrame

\* Every call puts the frame it takes from one place into another.
LEMMA CoveredNext == PoolInv /\ Covered /\ [Next]_vars => Covered'
<1> SUFFICES ASSUME PoolInv, Covered, [Next]_vars PROVE Covered'
  OBVIOUS
<1>a. /\ depth \in Nat /\ free \in Seq(1 .. depth) /\ ready \in Seq(1 .. depth)
      /\ filling \in (1 .. depth) \cup {0} /\ showing \in (1 .. depth) \cup {0}
      /\ Range(free) \cup Range(ready) \cup ({filling, showing} \ {0}) = 1 .. depth
  BY DEF PoolInv, TypeOK, Covered, Hands, Frames, NoFrame
<1>1. ASSUME NEW requested \in 0 .. MaxDepth, NEW affordable \in 0 .. MaxDepth,
             Provision(requested, affordable)
      PROVE  Covered'
  <2> DEFINE d == Clamped(requested, affordable)
  <2>0. d \in 2 .. MaxDepth
    BY ClampedIs
  <2> HIDE DEF d
  <2>1. d \in Nat /\ d \in 0 .. MaxDepth
    BY <2>0, PoolAssumption
  <2>2. Fitting(d) = d
    BY <2>1, RoomForAll DEF Fitting
  <2>3. /\ depth' = d /\ free' = [i \in 1 .. d |-> i]
        /\ ready' = <<>> /\ filling' = 0 /\ showing' = 0
    BY <1>1, <2>2 DEF Provision, NoFrame, d
  <2>4. Range(free') = 1 .. d
    BY <2>1, <2>3 DEF Range
  <2>5. Range(ready') = {}
    BY <2>3, RangeEmpty
  <2>6. QED
    BY <2>3, <2>4, <2>5 DEF Covered, Hands, Frames, NoFrame
<1>2. CASE StartRun
  BY <1>2, <1>a DEF StartRun, Covered, Hands, Frames, NoFrame
<1>3. CASE AcquireFree
  <2>1. Range(free) = {Head(free)} \cup Range(free') /\ Head(free) \in 1 .. depth
    BY <1>3, <1>a, RangeTake, TakeFrame DEF AcquireFree
  <2>2. QED
    BY <1>3, <1>a, <2>1 DEF AcquireFree, Covered, Hands, Frames, NoFrame
<1>4. CASE AcquireOldest
  <2>1. Range(ready) = {Head(ready)} \cup Range(ready') /\ Head(ready) \in 1 .. depth
    BY <1>4, <1>a, RangeTake, TakeFrame DEF AcquireOldest
  <2>2. QED
    BY <1>4, <1>a, <2>1 DEF AcquireOldest, Covered, Hands, Frames, NoFrame
<1>5. CASE Publish
  <2>0. filling \in 1 .. depth
    BY <1>5, <1>a DEF Publish, NoFrame
  <2>1. /\ Range(Append(ready, filling)) = Range(ready) \cup {filling}
        /\ Range(Append(free, filling)) = Range(free) \cup {filling}
    BY <2>0, <1>a, RangeAppend
  <2>2. /\ filling' = 0 /\ showing' = showing /\ depth' = depth
        /\ \/ ready' = Append(ready, filling) /\ free' = free
           \/ free' = Append(free, filling) /\ ready' = ready
    BY <1>5 DEF Publish, NoFrame
  <2>3. QED
    BY <1>a, <2>0, <2>1, <2>2 DEF Covered, Hands, Frames, NoFrame
<1>6. CASE Discard
  <2>1. filling \in 1 .. depth /\ Range(free') = Range(free) \cup {filling}
    BY <1>6, <1>a, RangeAppend DEF Discard, NoFrame
  <2>2. QED
    BY <1>6, <1>a, <2>1 DEF Discard, Covered, Hands, Frames, NoFrame
<1>7. CASE TryPopReady
  <2>1. Range(ready) = {Head(ready)} \cup Range(ready') /\ Head(ready) \in 1 .. depth
    BY <1>7, <1>a, RangeTake, TakeFrame DEF TryPopReady
  <2>2. QED
    BY <1>7, <1>a, <2>1 DEF TryPopReady, Covered, Hands, Frames, NoFrame
<1>8. CASE Release
  <2>1. showing \in 1 .. depth /\ Range(free') = Range(free) \cup {showing}
    BY <1>8, <1>a, RangeAppend DEF Release, NoFrame
  <2>2. QED
    BY <1>8, <1>a, <2>1 DEF Release, Covered, Hands, Frames, NoFrame
<1>9. CASE UNCHANGED vars
  BY <1>9 DEF vars, Covered, Hands, Frames
<1>10. QED
  BY <1>1, <1>2, <1>3, <1>4, <1>5, <1>6, <1>7, <1>8, <1>9
     DEF Next, Producer, Consumer, Acquire

\* The count and the cover together: the four places, one after the other, name
\* every frame, and are no longer than there are frames.
LEMMA Inventory ==
  ASSUME PoolInv, Covered
  PROVE  LET all == free \o ready \o InHand(filling) \o InHand(showing)
         IN  all \in Seq(Frames) /\ Len(all) = depth /\ Range(all) = Frames
<1> DEFINE F == InHand(filling)
           S == InHand(showing)
<1>a. /\ free \in Seq(Frames) /\ ready \in Seq(Frames)
      /\ filling \in Frames \cup {0} /\ showing \in Frames \cup {0} /\ 0 \notin Frames
      /\ Len(free) \in Nat /\ Len(ready) \in Nat
  BY LenProperties DEF PoolInv, TypeOK, NoFrame, Frames
<1>1. /\ F \in Seq(Frames) /\ Len(F) = Held(filling) /\ Range(F) = {filling} \ {0}
  <2>1. CASE filling = 0
    BY <2>1, EmptySeq, RangeEmpty DEF InHand, Held, NoFrame
  <2>2. CASE filling # 0
    BY <1>a, <2>2 DEF InHand, Held, NoFrame, Range
  <2>3. QED
    BY <2>1, <2>2
<1>2. /\ S \in Seq(Frames) /\ Len(S) = Held(showing) /\ Range(S) = {showing} \ {0}
  <2>1. CASE showing = 0
    BY <2>1, EmptySeq, RangeEmpty DEF InHand, Held, NoFrame
  <2>2. CASE showing # 0
    BY <1>a, <2>2 DEF InHand, Held, NoFrame, Range
  <2>3. QED
    BY <2>1, <2>2
<1> HIDE DEF F, S
<1>3. /\ free \o ready \in Seq(Frames) /\ Len(free \o ready) = Len(free) + Len(ready)
      /\ Range(free \o ready) = Range(free) \cup Range(ready)
  BY <1>a, ConcatProperties, RangeConcatenation
<1> DEFINE A == free \o ready
           B == A \o F
           C == B \o S
<1>b. A \in Seq(Frames)
  BY <1>3
<1>4. B \in Seq(Frames) /\ Len(B) = Len(A) + Len(F) /\ Range(B) = Range(A) \cup Range(F)
  <2>1. A \in Seq(Frames) /\ F \in Seq(Frames)
    BY <1>1, <1>b
  <2> HIDE DEF A
  <2>2. QED
    BY <2>1, ConcatProperties, RangeConcatenation
<1>5. C \in Seq(Frames) /\ Len(C) = Len(B) + Len(S) /\ Range(C) = Range(B) \cup Range(S)
  <2>1. B \in Seq(Frames) /\ S \in Seq(Frames)
    BY <1>2, <1>4
  <2> HIDE DEF A, B
  <2>2. QED
    BY <2>1, ConcatProperties, RangeConcatenation
<1>6. Len(C) = depth
  <2>1. Len(C) = Len(free) + Len(ready) + Held(filling) + Held(showing)
    <3> HIDE DEF A, B, C
    <3>1. QED
      BY <1>1, <1>2, <1>4, <1>5, <1>3 DEF A
  <2>2. QED
    BY <2>1 DEF PoolInv, Conserved
<1>7. Range(C) = Frames
  <2>1. Range(C) = Range(free) \cup Range(ready) \cup ({filling} \ {0}) \cup ({showing} \ {0})
    <3> HIDE DEF A, B, C
    <3>1. QED
      BY <1>1, <1>2, <1>4, <1>5, <1>3 DEF A
  <2>2. QED
    BY <2>1 DEF Covered, Hands, NoFrame
<1>8. QED
  BY <1>5, <1>6, <1>7 DEF A, B, C, F, S

\* As many places as frames and every frame in one: none is in two, so the one
\* being written is not waiting to be read.
LEMMA WrittenNotReady ==
  ASSUME PoolInv, Covered, filling # NoFrame
  PROVE  \A i \in 1 .. Len(ready) : ready[i] # filling
<1> DEFINE F   == InHand(filling)
           S   == InHand(showing)
           all == free \o ready \o F \o S
           w   == Len(free) + Len(ready) + 1
<1>b. /\ free \in Seq(Frames) /\ ready \in Seq(Frames) /\ filling \in Frames /\ depth \in Nat
      /\ showing \in Frames \cup {NoFrame}
  BY DEF PoolInv, TypeOK
<1>c. F = <<filling>> /\ F \in Seq(Frames) /\ Len(F) = 1
  BY <1>b DEF InHand
<1>d. S \in Seq(Frames)
  BY <1>b DEF InHand
<1>e. Len(free) \in Nat /\ Len(ready) \in Nat /\ Len(S) \in Nat
  <2> HIDE DEF S
  <2>1. QED
    BY <1>b, <1>d, LenProperties
<1>a. /\ free \in Seq(Frames) /\ ready \in Seq(Frames) /\ filling \in Frames
      /\ F \in Seq(Frames) /\ S \in Seq(Frames) /\ F = <<filling>> /\ Len(F) = 1
      /\ Len(free) \in Nat /\ Len(ready) \in Nat /\ depth \in Nat /\ Len(S) \in Nat
  BY <1>b, <1>c, <1>d, <1>e
<1>1. all \in Seq(Frames) /\ Len(all) = depth /\ Range(all) = Frames
  BY Inventory
<1>2. all \in [1 .. depth -> Frames] /\ DOMAIN all = 1 .. depth
  BY <1>1, LenProperties
<1>3. /\ free \o ready \in Seq(Frames) /\ Len(free \o ready) = Len(free) + Len(ready)
      /\ \A i \in 1 .. Len(free) + Len(ready) :
           (free \o ready)[i] = IF i <= Len(free) THEN free[i] ELSE ready[i - Len(free)]
  BY <1>a, ConcatProperties
<1>4. /\ free \o ready \o F \in Seq(Frames) /\ Len(free \o ready \o F) = w
      /\ \A i \in 1 .. w : (free \o ready \o F)[i]
           = IF i <= Len(free) + Len(ready) THEN (free \o ready)[i]
                                            ELSE F[i - (Len(free) + Len(ready))]
  BY <1>a, <1>3, ConcatProperties
<1>5. /\ Len(all) = w + Len(S)
      /\ \A i \in 1 .. w : all[i] = (free \o ready \o F)[i]
  <2>1. /\ Len(all) = w + Len(S)
        /\ \A i \in 1 .. w + Len(S) : all[i]
             = IF i <= w THEN (free \o ready \o F)[i] ELSE S[i - w]
    BY <1>a, <1>4, ConcatProperties
  <2>2. QED
    BY <2>1, <1>a
<1>6. w \in 1 .. depth /\ all[w] = filling
  <2>1. w \in 1 .. w /\ ~(w <= Len(free) + Len(ready)) /\ w - (Len(free) + Len(ready)) = 1
    BY <1>a
  <2>2. F[1] = filling
    BY <1>a
  <2>3. QED
    BY <1>1, <1>a, <1>4, <1>5, <2>1, <2>2
<1>7. \A i \in 1 .. Len(ready) : /\ Len(free) + i \in 1 .. depth /\ Len(free) + i # w
                                 /\ all[Len(free) + i] = ready[i]
  <2>1. SUFFICES ASSUME NEW i \in 1 .. Len(ready)
                 PROVE  /\ Len(free) + i \in 1 .. depth /\ Len(free) + i # w
                        /\ all[Len(free) + i] = ready[i]
    OBVIOUS
  <2>2. /\ Len(free) + i \in 1 .. w /\ Len(free) + i \in 1 .. Len(free) + Len(ready)
        /\ ~(Len(free) + i <= Len(free)) /\ (Len(free) + i) - Len(free) = i
        /\ Len(free) + i <= Len(free) + Len(ready) /\ Len(free) + i # w
    BY <1>a
  <2>3. QED
    BY <1>1, <1>a, <1>3, <1>4, <1>5, <2>2
<1> HIDE DEF all, w, F, S
<1>8. all \in Surjection(1 .. depth, Frames)
  BY <1>1, <1>2 DEF Surjection, Range
<1>9. all \in Injection(1 .. depth, Frames)
  BY <1>8, <1>a, FS_Interval, FS_SurjSameCardinalityImpliesInj DEF Frames
<1>10. \A i, j \in 1 .. depth : all[i] = all[j] => i = j
  BY <1>9 DEF Injection, IsInjective
<1>11. QED
  BY <1>6, <1>7, <1>10

\* Every frame is in exactly one place: nobody copies a frame somebody captures
\* into, for every depth.
THEOREM PoolOwnedOnce == Spec => []OwnedOnce
<1>1. PoolInv /\ Covered => OwnedOnce
  BY Inventory DEF OwnedOnce, Range
<1>2. Spec => []Covered
  BY PoolInvariant, CoveredInit, CoveredNext, PTL DEF Spec
<1>3. QED
  BY <1>1, <1>2, PoolInvariant, PTL

-----------------------------------------------------------------------------
\* The frames waiting are k of an earlier start() and then the latest of this one,
\* without a gap among them: so only the distance of the first to what the consumer
\* expects has to be covered by the drop count.
Numbered(k) ==
  /\ k \in 0 .. Len(ready)
  /\ \A i \in 1 .. Len(ready) : header[ready[i]].run = run <=> i > k
  /\ \A i \in 1 .. Len(ready) :
       i > k => header[ready[i]].sequence = sequence - Len(ready) + i - 1
  /\ sequence <= expected + dropped + (Len(ready) - k)
GapInv == /\ \A f \in Frames : header[f].run <= run
          /\ \E k \in 0 .. Len(ready) : Numbered(k)

\* At first no frame is on its way and none was dropped.
LEMMA GapInvInit == Init => GapInv
  BY EmptySeq DEF Init, GapInv, Numbered, Frames

\* Taking the oldest waiting frame, counting it as dropped or as shown.
LEMMA GapTake ==
  ASSUME PoolInv, GapInv, ready # <<>>, ready' = Tail(ready),
         UNCHANGED <<depth, header, run, sequence>>,
         \/ dropped' = dropped + 1 /\ expected' = expected
         \/ /\ dropped' = dropped
            /\ expected' = IF header[Head(ready)].run = run
                             THEN header[Head(ready)].sequence + 1 ELSE expected
  PROVE  GapInv'
<1>a. /\ ready \in Seq(1 .. depth) /\ depth \in Nat
      /\ run \in Nat /\ sequence \in Nat /\ expected \in Nat /\ dropped \in Nat
  BY DEF PoolInv, TypeOK, Frames
<1> DEFINE n == Len(ready)
<1>1. /\ n \in Nat \ {0} /\ Len(ready') = n - 1 /\ Head(ready) = ready[1]
      /\ \A i \in 1 .. n - 1 : ready'[i] = ready[i + 1]
  BY <1>a, HeadTailProperties, EmptySeq
<1>2. PICK k \in 0 .. n : Numbered(k)
  BY DEF GapInv
<1> DEFINE m == IF k = 0 THEN 0 ELSE k - 1
<1> HIDE DEF n
<1>b. n = Len(ready) /\ k \in Nat /\ k <= n
  BY <1>1, <1>2 DEF n
<1>3. /\ \A i \in 1 .. n : header[ready[i]].run = run <=> i > k
      /\ \A i \in 1 .. n : i > k => header[ready[i]].sequence = sequence - n + i - 1
      /\ sequence <= expected + dropped + (n - k)
  BY <1>2, <1>b DEF Numbered
<1>4. m \in 0 .. Len(ready')
  BY <1>1, <1>2, <1>b
<1>5. \A i \in 1 .. n - 1 : header'[ready'[i]].run = run' <=> i > m
  <2>1. SUFFICES ASSUME NEW i \in 1 .. n - 1
                 PROVE  header[ready[i + 1]].run = run <=> i > m
    BY <1>1
  <2>2. i + 1 \in 1 .. n /\ (i + 1 > k <=> i > m)
    BY <1>1, <1>b
  <2>3. QED
    BY <1>3, <2>2
<1>6. \A i \in 1 .. n - 1 :
        i > m => header'[ready'[i]].sequence = sequence' - (n - 1) + i - 1
  <2>1. SUFFICES ASSUME NEW i \in 1 .. n - 1, i > m
                 PROVE  header[ready[i + 1]].sequence = sequence - (n - 1) + i - 1
    BY <1>1
  <2>2. i + 1 \in 1 .. n /\ i + 1 > k
    BY <1>1, <1>b, <2>1
  <2>3. header[ready[i + 1]].sequence = sequence - n + (i + 1) - 1
    BY <1>3, <2>2
  <2>4. QED
    BY <1>1, <1>a, <2>3
<1>7. sequence' <= expected' + dropped' + ((n - 1) - m)
  <2>1. CASE dropped' = dropped + 1 /\ expected' = expected
    BY <1>1, <1>3, <1>a, <1>b, <2>1
  <2>2. CASE dropped' = dropped /\ header[ready[1]].run # run /\ expected' = expected
    <3>1. k # 0
      BY <1>1, <1>3, <1>b, <2>2
    <3>2. QED
      BY <1>1, <1>3, <1>a, <1>b, <2>2, <3>1
  <2>3. CASE /\ dropped' = dropped /\ header[ready[1]].run = run
             /\ expected' = header[ready[1]].sequence + 1
    <3>1. 1 \in 1 .. n
      BY <1>1
    <3>2. k = 0 /\ header[ready[1]].sequence = sequence - n + 1 - 1
      BY <1>3, <1>b, <2>3, <3>1
    <3>3. QED
      BY <1>1, <1>a, <1>b, <2>3, <3>2
  <2>4. QED
    BY <1>1, <2>1, <2>2, <2>3
<1>8. Numbered(m)'
  BY <1>1, <1>4, <1>5, <1>6, <1>7 DEF Numbered
<1>9. \A f \in Frames' : header'[f].run <= run'
  BY DEF GapInv, Frames
<1>10. QED
  BY <1>4, <1>8, <1>9 DEF GapInv

\* Publishing the next one of this start().  It goes where no waiting frame is, so
\* stamping it leaves the numbers of those alone.
LEMMA GapPublish ==
  ASSUME PoolInv, Covered, GapInv, Publish
  PROVE  GapInv'
<1>a. /\ ready \in Seq(1 .. depth) /\ depth \in Nat /\ filling \in 1 .. depth
      /\ header \in [1 .. depth -> [run : Nat, sequence : Nat]]
      /\ run \in Nat /\ sequence \in Nat /\ expected \in Nat /\ dropped \in Nat
  BY DEF PoolInv, TypeOK, Frames, Publish, NoFrame
<1> DEFINE n == Len(ready)
<1>1. PICK k \in 0 .. n : Numbered(k)
  BY DEF GapInv
<1>2. n < ReadyRoom
  <2>1. Len(free) \in Nat /\ Len(ready) \in Nat /\ Len(ready) < depth
    BY LenProperties DEF PoolInv, TypeOK, Conserved, Held, NoFrame, Publish
  <2>2. ReadyRoom >= depth /\ ReadyRoom \in Int
    BY RoomForAll DEF PoolInv, TypeOK, ReadyRoom
  <2>3. QED
    BY <2>1, <2>2, <1>a
<1>3. /\ ready' = Append(ready, filling) /\ dropped' = dropped
      /\ header' = [header EXCEPT ![filling] = [run |-> run, sequence |-> sequence]]
      /\ sequence' = sequence + 1 /\ depth' = depth /\ run' = run /\ expected' = expected
  BY <1>2 DEF Publish
<1>4. /\ Len(ready') = n + 1 /\ ready'[n + 1] = filling /\ n \in Nat
      /\ \A i \in 1 .. n : ready'[i] = ready[i] /\ ready[i] \in 1 .. depth
  <2>1. Len(ready') = n + 1 /\ ready'[n + 1] = filling /\ \A i \in 1 .. n : ready'[i] = ready[i]
    BY <1>a, <1>3, AppendProperties
  <2>2. n \in Nat /\ \A i \in 1 .. n : ready[i] \in 1 .. depth
    BY <1>a, LenProperties
  <2>3. QED
    BY <2>1, <2>2
<1>5. \A i \in 1 .. n : header'[ready'[i]] = header[ready[i]]
  <2>1. \A i \in 1 .. n : ready[i] # filling
    BY WrittenNotReady DEF Publish
  <2>2. QED
    BY <1>a, <1>3, <1>4, <2>1
<1>6. header'[ready'[n + 1]] = [run |-> run, sequence |-> sequence]
  BY <1>a, <1>3, <1>4
<1> HIDE DEF n
<1>b. n = Len(ready) /\ n \in Nat /\ k \in Nat /\ k <= n
  BY <1>1, <1>4 DEF n
<1>7. /\ \A i \in 1 .. n : header[ready[i]].run = run <=> i > k
      /\ \A i \in 1 .. n : i > k => header[ready[i]].sequence = sequence - n + i - 1
      /\ sequence <= expected + dropped + (n - k)
  BY <1>1, <1>b DEF Numbered
<1>8. \A i \in 1 .. n + 1 : header'[ready'[i]].run = run' <=> i > k
  <2>1. ASSUME NEW i \in 1 .. n PROVE header'[ready'[i]].run = run' <=> i > k
    BY <1>3, <1>5, <1>7
  <2>2. header'[ready'[n + 1]].run = run' /\ n + 1 > k
    BY <1>3, <1>6, <1>b
  <2>3. QED
    BY <2>1, <2>2, <1>b
<1>9. \A i \in 1 .. n + 1 :
        i > k => header'[ready'[i]].sequence = sequence' - (n + 1) + i - 1
  <2>1. ASSUME NEW i \in 1 .. n, i > k
        PROVE  header'[ready'[i]].sequence = sequence' - (n + 1) + i - 1
    <3>1. header[ready[i]].sequence = sequence - n + i - 1
      BY <1>7, <2>1
    <3>2. header'[ready'[i]].sequence = header[ready[i]].sequence
      BY <1>5
    <3>3. sequence - n + i - 1 = (sequence + 1) - (n + 1) + i - 1
      BY <1>a, <1>b
    <3>4. QED
      BY <3>1, <3>2, <3>3, <1>3
  <2>2. header'[ready'[n + 1]].sequence = sequence' - (n + 1) + (n + 1) - 1
    BY <1>3, <1>6, <1>a, <1>b
  <2>3. QED
    BY <2>1, <2>2, <1>b
<1>10. sequence' <= expected' + dropped' + ((n + 1) - k)
  BY <1>3, <1>7, <1>a, <1>b
<1>11. Numbered(k)'
  BY <1>4, <1>8, <1>9, <1>10, <1>b DEF Numbered
<1>12. \A f \in Frames' : header'[f].run <= run'
  BY <1>3, <1>a DEF GapInv, Frames
<1>13. k \in 0 .. Len(ready')
  BY <1>4, <1>b
<1>14. QED
  BY <1>11, <1>12, <1>13 DEF GapInv

\* Every step keeps the numbers of the frames on their way and the count of the
\* dropped ones in balance.
LEMMA GapInvNext == PoolInv /\ Covered /\ GapInv /\ [Next]_vars => GapInv'
<1> SUFFICES ASSUME PoolInv, Covered, GapInv, [Next]_vars PROVE GapInv'
  OBVIOUS
<1>a. /\ ready \in Seq(1 .. depth) /\ depth \in Nat /\ Len(ready) \in Nat
      /\ header \in [1 .. depth -> [run : Nat, sequence : Nat]]
      /\ run \in Nat /\ sequence \in Nat /\ expected \in Nat /\ dropped \in Nat
  BY LenProperties DEF PoolInv, TypeOK, Frames
<1>1. ASSUME NEW requested \in 0 .. MaxDepth, NEW affordable \in 0 .. MaxDepth,
             Provision(requested, affordable)
      PROVE  GapInv'
  <2>1. /\ header' = [f \in 1 .. depth' |-> [run |-> 0, sequence |-> 0]] /\ run' = 0
        /\ ready' = <<>> /\ sequence' = 0 /\ expected' = 0 /\ dropped' = 0
    BY <1>1 DEF Provision
  <2>2. Len(ready') = 0
    BY <2>1
  <2>3. Numbered(0)'
    BY <2>1, <2>2 DEF Numbered
  <2>4. QED
    BY <2>1, <2>2, <2>3 DEF GapInv, Frames
<1>2. CASE StartRun
  <2>1. /\ run' = run + 1 /\ sequence' = 0 /\ expected' = 0 /\ dropped' = 0
        /\ header' = header /\ ready' = ready /\ depth' = depth
    BY <1>2 DEF StartRun
  <2>2. \A f \in 1 .. depth : header[f].run \in Nat /\ header[f].run <= run
    BY <1>a DEF GapInv, Frames
  <2>3. \A i \in 1 .. Len(ready) : ready[i] \in 1 .. depth
    BY <1>a, LenProperties
  <2>4. \A i \in 1 .. Len(ready) : header[ready[i]].run # run + 1 /\ ~(i > Len(ready))
    <3> SUFFICES ASSUME NEW i \in 1 .. Len(ready)
                 PROVE  header[ready[i]].run # run + 1 /\ ~(i > Len(ready))
      OBVIOUS
    <3>1. header[ready[i]].run \in Nat /\ header[ready[i]].run <= run
      BY <2>2, <2>3
    <3>2. run \in Nat /\ Len(ready) \in Nat
      BY <1>a
    <3> QED
      BY <3>1, <3>2
  <2>5. Numbered(Len(ready))'
    BY <1>a, <2>1, <2>4 DEF Numbered
  <2>6. QED
    BY <1>a, <2>1, <2>2, <2>5 DEF GapInv, Frames
<1>3. CASE AcquireFree
  BY <1>3 DEF AcquireFree, GapInv, Numbered, Frames
<1>4. CASE AcquireOldest
  BY <1>4, GapTake DEF AcquireOldest
<1>5. CASE Publish
  BY <1>5, GapPublish
<1>6. CASE Discard
  BY <1>6 DEF Discard, GapInv, Numbered, Frames
<1>7. CASE TryPopReady
  BY <1>7, GapTake DEF TryPopReady
<1>8. CASE Release
  BY <1>8 DEF Release, GapInv, Numbered, Frames
<1>9. CASE UNCHANGED vars
  BY <1>9 DEF vars, GapInv, Numbered, Frames
<1>10. QED
  BY <1>1, <1>2, <1>3, <1>4, <1>5, <1>6, <1>7, <1>8, <1>9
     DEF Next, Producer, Consumer, Acquire

\* What the consumer will miss when it takes a waiting frame is in the drop count
\* or waiting before it, for every depth and runs of any length.
THEOREM PoolGapsAreCounted == Spec => []GapsAreCounted
<1>1. PoolInv /\ GapInv => GapsAreCounted
  <2> SUFFICES ASSUME PoolInv, GapInv, NEW i \in DOMAIN ready, header[ready[i]].run = run
               PROVE  header[ready[i]].sequence - expected <= dropped + (i - 1)
    BY DEF GapsAreCounted
  <2>1. /\ i \in 1 .. Len(ready) /\ Len(ready) \in Nat
        /\ sequence \in Nat /\ expected \in Nat /\ dropped \in Nat
    BY LenProperties DEF PoolInv, TypeOK
  <2>2. PICK k \in 0 .. Len(ready) : Numbered(k)
    BY DEF GapInv
  <2>3. /\ i > k /\ header[ready[i]].sequence = sequence - Len(ready) + i - 1
        /\ sequence <= expected + dropped + (Len(ready) - k)
    BY <2>1, <2>2 DEF Numbered
  <2>4. QED
    BY <2>1, <2>2, <2>3
<1>2. Spec => [](Covered /\ GapInv)
  <2>1. Init => Covered /\ GapInv
    BY CoveredInit, GapInvInit
  <2>2. PoolInv /\ (Covered /\ GapInv) /\ [Next]_vars => (Covered /\ GapInv)'
    BY CoveredNext, GapInvNext
  <2>3. QED
    BY PoolInvariant, <2>1, <2>2, PTL DEF Spec
<1>3. QED
  BY <1>1, <1>2, PoolInvariant, PTL

-----------------------------------------------------------------------------
\* The ring.

USE DEF Index

\* The mask of the ring: the slot after the last one is the first.
LEMMA SuccIs ==
  ASSUME NEW i \in Index
  PROVE  Succ(i) = IF i + 1 = Slots THEN 0 ELSE i + 1
  BY QueueAssumption, SMT DEF Succ

\* The distance from one index of the ring to another.
LEMMA DistIsNat ==
  ASSUME NEW i \in Index, NEW j \in Index
  PROVE  Dist(i, j) \in Nat
  BY QueueAssumption DEF Dist

\* An index loaded between an old one and h lags h behind it.
LEMMA LoadLags ==
  ASSUME NEW old \in Index, NEW u \in Index, NEW h \in Index, NEW t \in Index,
         Dist(old, u) <= Dist(old, h), Dist(h, t) <= Dist(old, t)
  PROVE  Dist(h, t) <= Dist(u, t)
  BY QueueAssumption DEF Dist

\* Room seen from an index that lags is room.
LEMMA RoomLags ==
  ASSUME NEW u \in Index, NEW h \in Index, NEW t \in Index,
         Dist(h, t) <= Dist(u, t), Succ(t) # u
  PROVE  Succ(t) # h
  BY QueueAssumption, SuccIs DEF Dist

\* Publishing a slot adds it to the window, ...
LEMMA WindowGrows ==
  ASSUME NEW h \in Index, NEW t \in Index, Succ(t) # h
  PROVE  /\ Dist(h, Succ(t)) = Dist(h, t) + 1
         /\ \A i \in Index : Dist(h, i) < Dist(h, Succ(t)) => i = t \/ Dist(h, i) < Dist(h, t)
  BY QueueAssumption, SuccIs DEF Dist

\* ... and taking one removes the oldest.
LEMMA WindowShrinks ==
  ASSUME NEW h \in Index, NEW t \in Index, h # t
  PROVE  /\ Dist(Succ(h), t) = Dist(h, t) - 1
         /\ \A i \in Index : Dist(Succ(h), i) < Dist(Succ(h), t) =>
                               i # h /\ Dist(h, i) < Dist(h, t)
  BY QueueAssumption, SuccIs DEF Dist

-----------------------------------------------------------------------------
\* The locals of push() and pop() still hold the index their own side stores.
OwnIndex(p, c) == /\ ppc[p] # "idle" => ptail[p] = tail /\ pitem[p] \in Items
                  /\ cpc[c] # "idle" => chead[c] = head

\* What the other side's index was when last loaded is behind it and not lapped.
Behind(p, c) == StaleLoads => /\ Dist(head, tail) <= Dist(pseen[p], tail)
                              /\ Dist(head, cseen[c]) <= Dist(head, tail)

\* The checks stay true after they are made: there is room for the item being
\* pushed, and an item for the pop.
Checked(p, c) ==
  /\ ppc[p] \in {"write", "publish"} =>
       Succ(tail) # head /\ (StaleLoads => Succ(tail) # pseen[p])
  /\ cpc[c] \in {"read", "clear", "advance"} =>
       head # tail /\ (StaleLoads => cseen[c] # head)

\* Every slot in the window from head to tail holds an item, except the one
\* that is being taken; so does the slot about to be published.
Filled(p, c) == /\ \A i \in Index : Dist(head, i) < Dist(head, tail) =>
                      slots[i] \in Items \/ (cpc[c] = "advance" /\ i = head)
                /\ ppc[p] = "publish" => slots[tail] \in Items
                /\ cpc[c] \in {"clear", "advance"} => citem[c] \in Items
                /\ cpc[c] = "clear" => citem[c] = slots[head]

\* The inductive invariant of a ring with pusher p and popper c.
QueueInv(p, c) == QueueTypeOK /\ OwnIndex(p, c) /\ Behind(p, c) /\ Checked(p, c) /\ Filled(p, c)

\* An empty ring, just reset, satisfies it.
LEMMA QueueInvInit ==
  ASSUME NEW p, NEW c, Pushers = {p}, Poppers = {c}
  PROVE  QueueInit => QueueInv(p, c)
  BY QueueAssumption DEF QueueInit, QueueInv, QueueTypeOK, OwnIndex, Behind, Checked, Filled, Dist

\* Every instruction of push() and pop() keeps it, whatever its load returned.
LEMMA QueueInvNext ==
  ASSUME NEW p, NEW c, Pushers = {p}, Poppers = {c},
         QueueInv(p, c), [QueueNext]_queueVars
  PROVE  QueueInv(p, c)'
<1> USE QueueAssumption DEF QueueInv, QueueTypeOK, OwnIndex, Behind, Checked, Filled, Dist, Loads, Seen
<1>a. ASSUME NEW h \in Loads(pseen[p], head)
      PROVE  h \in Index /\ IF StaleLoads THEN Dist(head, tail) <= Dist(h, tail) ELSE h = head
  <2>1. CASE StaleLoads
    <3>1. h \in Index /\ Dist(pseen[p], h) <= Dist(pseen[p], head)
      BY <2>1
    <3>2. Dist(head, tail) <= Dist(pseen[p], tail)
      BY <2>1
    <3>3. Dist(head, tail) <= Dist(h, tail)
      BY <3>1, <3>2, LoadLags
    <3>4. QED
      BY <2>1, <3>1, <3>3
  <2>2. QED
    BY <2>1
<1>b. ASSUME NEW u \in Loads(cseen[c], tail)
      PROVE  u \in Index /\ IF StaleLoads THEN Dist(head, u) <= Dist(head, tail) ELSE u = tail
  BY SMTT(30)
<1>1. ASSUME NEW x \in Items, PushCall(p, x) PROVE QueueInv(p, c)'
  <2>1. QueueTypeOK'
    BY <1>1 DEF PushCall, popVars
  <2>2. OwnIndex(p, c)'
    BY <1>1 DEF PushCall, popVars
  <2>3. Behind(p, c)'
    BY <1>1 DEF PushCall, popVars
  <2>4. Checked(p, c)'
    BY <1>1 DEF PushCall, popVars
  <2>5. Filled(p, c)'
    BY <1>1 DEF PushCall, popVars
  <2>6. QED
    BY <2>1, <2>2, <2>3, <2>4, <2>5
<1>2. CASE PushFull(p)
  <2>1. PICK h \in Loads(pseen[p], head) : pseen' = [pseen EXCEPT ![p] = Seen(@, h)]
    BY <1>2 DEF PushFull
  <2>2. QueueTypeOK'
    BY <1>2, <1>a, <2>1 DEF PushFull, PushReturns, popVars
  <2>3. OwnIndex(p, c)'
    BY <1>2, <1>a, <2>1 DEF PushFull, PushReturns, popVars
  <2>4. Behind(p, c)'
    BY <1>2, <1>a, <2>1 DEF PushFull, PushReturns, popVars
  <2>5. Checked(p, c)'
    BY <1>2, <1>a, <2>1 DEF PushFull, PushReturns, popVars
  <2>6. Filled(p, c)'
    BY <1>2, <1>a, <2>1 DEF PushFull, PushReturns, popVars
  <2>7. QED
    BY <2>2, <2>3, <2>4, <2>5, <2>6
<1>3. CASE PushRoom(p)
  <2>1. PICK h \in Loads(pseen[p], head) :
          Succ(ptail[p]) # h /\ pseen' = [pseen EXCEPT ![p] = Seen(@, h)]
    BY <1>3 DEF PushRoom
  <2>2. /\ h \in Index /\ ptail[p] = tail
        /\ IF StaleLoads THEN Dist(head, tail) <= Dist(h, tail) ELSE h = head
    BY <1>3, <1>a DEF PushRoom
  <2>3. QueueTypeOK'
    BY <1>3, <2>1, <2>2 DEF PushRoom, popVars
  <2>4. OwnIndex(p, c)'
    BY <1>3 DEF PushRoom, popVars
  <2>5. Behind(p, c)'
    BY <1>3, <2>1, <2>2 DEF PushRoom, popVars
  <2>6. Checked(p, c)'
    <3>1. Succ(tail) # head
      BY <2>1, <2>2, RoomLags
    <3>2. QED
      BY <1>3, <2>1, <2>2, <3>1 DEF PushRoom, popVars
  <2>7. Filled(p, c)'
    BY <1>3 DEF PushRoom, popVars
  <2>8. QED
    BY <2>3, <2>4, <2>5, <2>6, <2>7
<1>4. CASE PushWrite(p)
  <2>1. QueueTypeOK'
    BY <1>4 DEF PushWrite, popVars
  <2>2. OwnIndex(p, c)'
    BY <1>4 DEF PushWrite, popVars
  <2>3. Behind(p, c)'
    BY <1>4 DEF PushWrite, popVars
  <2>4. Checked(p, c)'
    BY <1>4 DEF PushWrite, popVars
  <2>5. Filled(p, c)'
    BY <1>4 DEF PushWrite, popVars
  <2>6. QED
    BY <2>1, <2>2, <2>3, <2>4, <2>5
<1>5. CASE PushPublish(p)
  <2>1. /\ tail' = Succ(tail) /\ Succ(tail) \in Index /\ Succ(tail) # head
        /\ StaleLoads => Succ(tail) # pseen[p]
    BY <1>5, SuccIs DEF PushPublish
  <2>2. QueueTypeOK'
    BY <1>5, <2>1 DEF PushPublish, PushReturns, popVars
  <2>3. OwnIndex(p, c)'
    BY <1>5 DEF PushPublish, PushReturns, popVars
  <2>4. Behind(p, c)'
    <3>1. Dist(head, tail') = Dist(head, tail) + 1
      BY <2>1, WindowGrows
    <3>2. StaleLoads => Dist(pseen[p], tail') = Dist(pseen[p], tail) + 1
      BY <2>1, WindowGrows
    <3>3. /\ Dist(head, tail) \in Nat /\ Dist(head, tail') \in Nat
          /\ Dist(head, cseen[c]) \in Nat
          /\ StaleLoads => Dist(pseen[p], tail) \in Nat
      <4>1. head \in Index /\ tail \in Index /\ cseen[c] \in Index /\ pseen[p] \in Index
        OBVIOUS
      <4>2. tail' \in Index
        BY <2>1
      <4> HIDE DEF Dist
      <4>3. QED
        BY <4>1, <4>2, DistIsNat
    <3>4. UNCHANGED <<head, pseen, cseen>>
      BY <1>5 DEF PushPublish, popVars
    <3> HIDE DEF Dist
    <3>5. QED
      BY <3>1, <3>2, <3>3, <3>4
  <2>5. Checked(p, c)'
    BY <1>5, <2>1 DEF PushPublish, PushReturns, popVars
  <2>6. Filled(p, c)'
    <3>1. \A i \in Index : Dist(head, i) < Dist(head, tail') =>
                            i = tail \/ Dist(head, i) < Dist(head, tail)
      BY <2>1, WindowGrows
    <3>2. slots[tail] \in Items
      BY <1>5 DEF PushPublish
    <3>3. UNCHANGED <<head, slots, cpc, citem>> /\ ppc'[p] = "idle"
      BY <1>5 DEF PushPublish, PushReturns, popVars
    <3>4. \A i \in Index : Dist(head', i) < Dist(head', tail') =>
            slots'[i] \in Items \/ (cpc'[c] = "advance" /\ i = head')
      BY <3>1, <3>2, <3>3
    <3>5. QED
      BY <3>3, <3>4
  <2>7. QED
    BY <2>2, <2>3, <2>4, <2>5, <2>6
<1>6. CASE PopCall(c)
  <2>1. QueueTypeOK'
    BY <1>6 DEF PopCall, pushVars
  <2>2. OwnIndex(p, c)'
    BY <1>6 DEF PopCall, pushVars
  <2>3. Behind(p, c)'
    BY <1>6 DEF PopCall, pushVars
  <2>4. Checked(p, c)'
    BY <1>6 DEF PopCall, pushVars
  <2>5. Filled(p, c)'
    BY <1>6 DEF PopCall, pushVars
  <2>6. QED
    BY <2>1, <2>2, <2>3, <2>4, <2>5
<1>7. CASE PopEmpty(c)
  <2>1. PICK u \in Loads(cseen[c], tail) : cseen' = [cseen EXCEPT ![c] = Seen(@, u)]
    BY <1>7 DEF PopEmpty
  <2>2. QueueTypeOK'
    BY <1>7, <1>b, <2>1 DEF PopEmpty, PopReturns, pushVars
  <2>3. OwnIndex(p, c)'
    BY <1>7, <1>b, <2>1 DEF PopEmpty, PopReturns, pushVars
  <2>4. Behind(p, c)'
    BY <1>7, <1>b, <2>1 DEF PopEmpty, PopReturns, pushVars
  <2>5. Checked(p, c)'
    BY <1>7, <1>b, <2>1 DEF PopEmpty, PopReturns, pushVars
  <2>6. Filled(p, c)'
    BY <1>7, <1>b, <2>1 DEF PopEmpty, PopReturns, pushVars
  <2>7. QED
    BY <2>2, <2>3, <2>4, <2>5, <2>6
<1>8. CASE PopSome(c)
  <2>1. PICK u \in Loads(cseen[c], tail) :
          chead[c] # u /\ cseen' = [cseen EXCEPT ![c] = Seen(@, u)]
    BY <1>8 DEF PopSome
  <2>2. QueueTypeOK'
    BY <1>8, <1>b, <2>1 DEF PopSome, pushVars
  <2>3. OwnIndex(p, c)'
    BY <1>8, <1>b, <2>1 DEF PopSome, pushVars
  <2>4. Behind(p, c)'
    BY <1>8, <1>b, <2>1 DEF PopSome, pushVars
  <2>5. Checked(p, c)'
    BY <1>8, <1>b, <2>1 DEF PopSome, pushVars
  <2>6. Filled(p, c)'
    BY <1>8, <1>b, <2>1 DEF PopSome, pushVars
  <2>7. QED
    BY <2>2, <2>3, <2>4, <2>5, <2>6
<1>9. CASE PopRead(c)
  <2>1. QueueTypeOK'
    BY <1>9 DEF PopRead, pushVars
  <2>2. OwnIndex(p, c)'
    BY <1>9 DEF PopRead, pushVars
  <2>3. Behind(p, c)'
    BY <1>9 DEF PopRead, pushVars
  <2>4. Checked(p, c)'
    BY <1>9 DEF PopRead, pushVars
  <2>5. Filled(p, c)'
    BY <1>9 DEF PopRead, pushVars
  <2>6. QED
    BY <2>1, <2>2, <2>3, <2>4, <2>5
<1>10. CASE PopClear(c)
  <2>1. QueueTypeOK'
    BY <1>10 DEF PopClear, pushVars
  <2>2. OwnIndex(p, c)'
    BY <1>10 DEF PopClear, pushVars
  <2>3. Behind(p, c)'
    BY <1>10 DEF PopClear, pushVars
  <2>4. Checked(p, c)'
    BY <1>10 DEF PopClear, pushVars
  <2>5. Filled(p, c)'
    BY <1>10 DEF PopClear, pushVars
  <2>6. QED
    BY <2>1, <2>2, <2>3, <2>4, <2>5
<1>11. CASE PopAdvance(c)
  <2>1. /\ head' = Succ(head) /\ Succ(head) \in Index /\ head # tail
        /\ StaleLoads => cseen[c] # head
    BY <1>11, SuccIs DEF PopAdvance
  <2>2. QueueTypeOK'
    BY <1>11, <2>1 DEF PopAdvance, PopReturns, pushVars
  <2>3. OwnIndex(p, c)'
    BY <1>11 DEF PopAdvance, PopReturns, pushVars
  <2>4. Behind(p, c)'
    <3>1. Dist(head', tail) = Dist(head, tail) - 1
      BY <2>1, WindowShrinks
    <3>2. StaleLoads => Dist(head', cseen[c]) = Dist(head, cseen[c]) - 1
      BY <2>1, WindowShrinks
    <3>3. QED
      BY <1>11, <3>1, <3>2 DEF PopAdvance, PopReturns, pushVars
  <2>5. Checked(p, c)'
    BY <1>11, <2>1, SuccIs DEF PopAdvance, PopReturns, pushVars
  <2>6. Filled(p, c)'
    <3>1. \A i \in Index : Dist(head', i) < Dist(head', tail) =>
                            i # head /\ Dist(head, i) < Dist(head, tail)
      BY <2>1, WindowShrinks
    <3>2. UNCHANGED <<tail, slots, ppc>> /\ cpc'[c] = "idle"
      BY <1>11 DEF PopAdvance, PopReturns, pushVars
    <3>3. \A i \in Index : Dist(head', i) < Dist(head', tail') => slots'[i] \in Items
      BY <3>1, <3>2
    <3>4. QED
      BY <3>2, <3>3
  <2>7. QED
    BY <2>2, <2>3, <2>4, <2>5, <2>6
<1>12. CASE UNCHANGED queueVars
  <2>1. QueueTypeOK'
    BY <1>12 DEF queueVars, pushVars, popVars
  <2>2. OwnIndex(p, c)'
    BY <1>12 DEF queueVars, pushVars, popVars
  <2>3. Behind(p, c)'
    BY <1>12 DEF queueVars, pushVars, popVars
  <2>4. Checked(p, c)'
    BY <1>12 DEF queueVars, pushVars, popVars
  <2>5. Filled(p, c)'
    BY <1>12 DEF queueVars, pushVars, popVars
  <2>6. QED
    BY <2>1, <2>2, <2>3, <2>4, <2>5
<1>13. QED
  BY <1>1, <1>2, <1>3, <1>4, <1>5, <1>6, <1>7, <1>8, <1>9, <1>10, <1>11, <1>12
     DEF QueueNext, PushStep, PopStep
-----------------------------------------------------------------------------
\* What the queue promises when its contract is kept.
LEMMA QueueInvariant ==
  ASSUME NEW p, NEW c, Pushers = {p}, Poppers = {c}
  PROVE  QueueSpec => []QueueInv(p, c)
<1>1. QueueInit => QueueInv(p, c)
  BY QueueInvInit
<1>2. QueueInv(p, c) /\ [QueueNext]_queueVars => QueueInv(p, c)'
  BY QueueInvNext
<1>3. QED
  BY <1>1, <1>2, PTL DEF QueueSpec

\* push() and pop() stay inside the ring and never lose a local.
THEOREM QueueTyped ==
  ASSUME NEW p, NEW c, Pushers = {p}, Poppers = {c}
  PROVE  QueueSpec => []QueueTypeOK
<1>1. QueueInv(p, c) => QueueTypeOK
  BY DEF QueueInv
<1>2. QED
  BY <1>1, QueueInvariant, PTL

\* push() never writes a slot that pop() is reading or clearing: the plain
\* memory of m_slots is free of data races.
THEOREM QueueSlotExclusive ==
  ASSUME NEW p, NEW c, Pushers = {p}, Poppers = {c}
  PROVE  QueueSpec => []SlotExclusive
<1>1. QueueInv(p, c) => SlotExclusive
  BY DEF QueueInv, OwnIndex, Checked, SlotExclusive
<1>2. QED
  BY <1>1, QueueInvariant, PTL

\* pop() never returns the nullptr of a slot nobody has filled, however old the
\* m_tail it loaded was.
THEOREM QueueNoNullItem ==
  ASSUME NEW p, NEW c, Pushers = {p}, Poppers = {c}
  PROVE  QueueSpec => []NoNullItem
<1>1. QueueInv(p, c) => NoNullItem
  BY QueueAssumption DEF QueueInv, Filled, NoNullItem
<1>2. QED
  BY <1>1, QueueInvariant, PTL
-----------------------------------------------------------------------------
\* What slot i holds as far as the queue is concerned.
Slot(c, i) == IF cpc[c] = "advance" /\ i = head THEN citem[c] ELSE slots[i]

\* The k-th slot of the window is in the ring, and k slots from head.
LEMMA AheadIs ==
  ASSUME NEW h \in Index, NEW t \in Index, NEW k \in 1 .. Dist(h, t)
  PROVE  /\ Ahead(h, k - 1) \in Index
         /\ Ahead(h, k - 1) # t
         /\ Ahead(h, k - 1) = h <=> k = 1
         /\ Ahead(Succ(h), k - 1) = IF Ahead(h, k - 1) + 1 = Slots THEN 0 ELSE Ahead(h, k - 1) + 1
         /\ Ahead(h, k) = Ahead(Succ(h), k - 1)
  BY QueueAssumption, SuccIs DEF Ahead, Dist

\* The queue the ring stands for, with the popper named.
HeldBy(c) == [k \in 1 .. Dist(head, tail) |-> Slot(c, Ahead(head, k - 1))]

\* With one popper, the choice in Contents is that popper.
LEMMA ContentsIs ==
  ASSUME NEW p, NEW c, Poppers = {c}
  PROVE  QueueInv(p, c) => Contents = HeldBy(c)
<1> SUFFICES ASSUME QueueInv(p, c) PROVE Contents = HeldBy(c)
  OBVIOUS
<1> DEFINE T(i) == {t \in Poppers : cpc[t] = "advance" /\ chead[t] = i}
<1>1. ASSUME NEW i
      PROVE  (IF T(i) = {} THEN slots[i] ELSE citem[CHOOSE t \in T(i) : TRUE]) = Slot(c, i)
  <2>1. cpc[c] = "advance" => chead[c] = head
    BY DEF QueueInv, OwnIndex
  <2>2. CASE cpc[c] = "advance" /\ i = head
    <3>1. T(i) = {c}
      BY <2>1, <2>2
    <3>2. QED
      BY <2>2, <3>1 DEF Slot
  <2>3. CASE ~(cpc[c] = "advance" /\ i = head)
    <3>1. T(i) = {}
      BY <2>1, <2>3
    <3>2. QED
      BY <2>3, <3>1 DEF Slot
  <2>4. QED
    BY <2>2, <2>3
<1>2. QED
  BY <1>1 DEF Contents, HeldBy

\* A step that moves neither index leaves the queue alone.
LEMMA HeldStutters ==
  ASSUME NEW p, NEW c, Pushers = {p}, Poppers = {c}, QueueInv(p, c), QueueInv(p, c)',
         UNCHANGED <<head, tail>>,
         \A i \in Index : i # tail => Slot(c, i)' = Slot(c, i)
  PROVE  HeldBy(c)' = HeldBy(c)
<1>1. \A k \in 1 .. Dist(head, tail) : Ahead(head, k - 1) \in Index /\ Ahead(head, k - 1) # tail
  BY AheadIs DEF QueueInv, QueueTypeOK
<1>2. \A i \in Index : i # tail => (Slot(c, i))' = Slot(c, i)
  OBVIOUS
<1>3. \A k \in 1 .. Dist(head, tail) :
        (Slot(c, Ahead(head, k - 1)))' = Slot(c, Ahead(head, k - 1))
  BY <1>1, <1>2 DEF Slot, Ahead
<1>4. QED
  BY <1>3 DEF HeldBy, Dist, Slot, Ahead

\* A function on 1 .. n is a sequence of length n.
LEMMA FunctionIsSeq ==
  ASSUME NEW S, NEW n \in Nat, NEW r \in [1 .. n -> S]
  PROVE  r \in Seq(S)
  OBVIOUS

\* The queue is a sequence of items, one for each slot of the window.
LEMMA HeldIsSeq ==
  ASSUME NEW p, NEW c, Pushers = {p}, Poppers = {c}
  PROVE  QueueInv(p, c) => /\ HeldBy(c) \in Seq(Items \cup {NoItem})
                           /\ Len(HeldBy(c)) = Dist(head, tail)
                           /\ Dist(head, tail) \in Nat
<1> SUFFICES ASSUME QueueInv(p, c)
             PROVE  /\ HeldBy(c) \in Seq(Items \cup {NoItem})
                    /\ Len(HeldBy(c)) = Dist(head, tail)
                    /\ Dist(head, tail) \in Nat
  OBVIOUS
<1>1. head \in Index /\ tail \in Index /\ Dist(head, tail) \in Nat
  BY QueueAssumption DEF QueueInv, QueueTypeOK, Dist
<1>2. \A k \in 1 .. Dist(head, tail) : Slot(c, Ahead(head, k - 1)) \in Items \cup {NoItem}
  BY <1>1, AheadIs DEF QueueInv, QueueTypeOK, Slot
<1>3. QED
  BY <1>1, <1>2 DEF HeldBy

\* push() appends the item it publishes, ...
LEMMA PublishAppends ==
  ASSUME NEW p, NEW c, Pushers = {p}, Poppers = {c}, QueueInv(p, c), PushPublish(p)
  PROVE  /\ HeldBy(c)' = Append(HeldBy(c), slots[tail])
         /\ slots[tail] \in Items
         /\ Len(HeldBy(c)) < Slots - 1
         /\ taken' = taken
<1> USE QueueAssumption DEF QueueInv, QueueTypeOK
<1>1. /\ tail' = Succ(tail) /\ UNCHANGED <<head, slots, cpc, citem, taken>>
      /\ Succ(tail) # head /\ slots[tail] \in Items /\ head \in Index /\ tail \in Index
      /\ cpc[c] = "advance" => head # tail
  BY DEF PushPublish, OwnIndex, Checked, Filled, popVars
<1>2. Dist(head, tail') = Dist(head, tail) + 1
  BY <1>1, WindowGrows
<1>3. Dist(head, tail) \in Nat /\ Ahead(head, Dist(head, tail)) = tail /\ Dist(head, tail) < Slots - 1
  BY <1>1, SuccIs DEF Dist, Ahead
<1>4. HeldBy(c)' = [k \in 1 .. Dist(head, tail) + 1 |-> Slot(c, Ahead(head, k - 1))]
  BY <1>1, <1>2 DEF HeldBy, Slot, Dist, Ahead
<1>5. Slot(c, tail) = slots[tail]
  BY <1>1 DEF Slot
<1>6. Len(HeldBy(c)) = Dist(head, tail)
  BY <1>3 DEF HeldBy
<1>7. HeldBy(c)' = Append(HeldBy(c), slots[tail])
  <2> DEFINE S == Items \cup {NoItem}
             s == HeldBy(c)'
             t == Append(HeldBy(c), slots[tail])
  <2>1. HeldBy(c) \in Seq(S) /\ slots[tail] \in S
    BY <1>1, HeldIsSeq
  <2>2. /\ t \in Seq(S) /\ Len(t) = Dist(head, tail) + 1
        /\ \A k \in 1 .. Dist(head, tail) : t[k] = HeldBy(c)[k]
        /\ t[Dist(head, tail) + 1] = slots[tail]
    BY <1>3, <1>6, <2>1, AppendProperties
  <2> DEFINE r == [k \in 1 .. Dist(head, tail) + 1 |-> Slot(c, Ahead(head, k - 1))]
  <2>3. /\ Len(r) = Dist(head, tail) + 1
        /\ \A k \in 1 .. Dist(head, tail) : r[k] = HeldBy(c)[k]
        /\ r[Dist(head, tail) + 1] = slots[tail]
    <3>1. \A k \in 1 .. Dist(head, tail) : HeldBy(c)[k] = Slot(c, Ahead(head, k - 1))
      BY <1>3 DEF HeldBy
    <3>2. (Dist(head, tail) + 1) - 1 = Dist(head, tail)
      BY <1>3
    <3>3. QED
      BY <1>3, <1>5, <3>1, <3>2
  <2>4. s = r /\ r \in Seq(S)
    <3>1. \A k \in 1 .. Dist(head, tail) : HeldBy(c)[k] \in S
      BY <1>6, <2>1, ElementOfSeq
    <3>2. \A k \in 1 .. Dist(head, tail) + 1 : k \in 1 .. Dist(head, tail) \/ k = Dist(head, tail) + 1
      BY <1>3
    <3> HIDE DEF r
    <3>3. \A k \in 1 .. Dist(head, tail) + 1 : r[k] \in S
      BY <2>1, <2>3, <3>1, <3>2
    <3>4. r = [k \in 1 .. Dist(head, tail) + 1 |-> r[k]]
      BY DEF r
    <3>5. r \in [1 .. Dist(head, tail) + 1 -> S] /\ Dist(head, tail) + 1 \in Nat
      BY <1>3, <3>3, <3>4
    <3>6. s = r
      BY <1>4 DEF r
    <3>7. QED
      BY <3>5, <3>6, FunctionIsSeq
  <2>5. \A k \in 1 .. Len(s) : s[k] = t[k]
    <3> HIDE DEF r, s, t
    <3>1. \A k \in 1 .. Dist(head, tail) + 1 : k \in 1 .. Dist(head, tail) \/ k = Dist(head, tail) + 1
      BY <1>3
    <3>2. QED
      BY <2>2, <2>3, <2>4, <3>1
  <2>6. QED
    BY <2>2, <2>3, <2>4, <2>5, SeqEqual
<1>8. QED
  BY <1>1, <1>3, <1>6, <1>7

\* ... and pop() takes the oldest.
LEMMA AdvanceTakes ==
  ASSUME NEW p, NEW c, Pushers = {p}, Poppers = {c}, QueueInv(p, c), PopAdvance(c)
  PROVE  /\ HeldBy(c) # <<>>
         /\ taken' = Head(HeldBy(c))
         /\ HeldBy(c)' = Tail(HeldBy(c))
<1> USE QueueAssumption DEF QueueInv, QueueTypeOK
<1>1. /\ head' = Succ(head) /\ UNCHANGED <<tail, slots>> /\ taken' = citem[c]
      /\ head # tail /\ head \in Index /\ tail \in Index /\ Succ(head) \in Index
      /\ cpc[c] = "advance" /\ cpc'[c] = "idle"
  BY SuccIs DEF PopAdvance, PopReturns, OwnIndex, Checked, pushVars
<1>2. Dist(head', tail') = Dist(head, tail) - 1 /\ Dist(head, tail) \in Nat /\ Dist(head, tail) >= 1
  BY <1>1, WindowShrinks DEF Dist
<1>3. Len(HeldBy(c)) = Dist(head, tail) /\ HeldBy(c)[1] = Slot(c, Ahead(head, 0))
  BY <1>2 DEF HeldBy
<1>4. Slot(c, Ahead(head, 0)) = citem[c]
  BY <1>1 DEF Slot, Ahead
<1>5. HeldBy(c)' = [k \in 1 .. Dist(head, tail) - 1 |-> slots[Ahead(Succ(head), k - 1)]]
  BY <1>1, <1>2 DEF HeldBy, Slot, Dist, Ahead
<1>6. \A k \in 1 .. Dist(head, tail) - 1 :
        slots[Ahead(Succ(head), k - 1)] = Slot(c, Ahead(head, (k + 1) - 1))
  <2>1. TAKE k \in 1 .. Dist(head, tail) - 1
  <2>2. k + 1 \in 1 .. Dist(head, tail) /\ (k + 1) - 1 = k /\ k + 1 # 1
    BY <1>2
  <2>3. Ahead(head, k) # head /\ Ahead(head, k) = Ahead(Succ(head), k - 1)
    BY <1>1, <1>2, <2>2, AheadIs
  <2>4. QED
    BY <2>2, <2>3 DEF Slot
<1>7. HeldBy(c)' = Tail(HeldBy(c))
  <2> DEFINE S == Items \cup {NoItem}
             s == HeldBy(c)'
             t == Tail(HeldBy(c))
  <2>1. HeldBy(c) \in Seq(S) /\ HeldBy(c) # <<>>
    BY <1>2, <1>3, HeldIsSeq
  <2>2. /\ t \in Seq(S) /\ Len(t) = Dist(head, tail) - 1
        /\ \A k \in 1 .. Dist(head, tail) - 1 : t[k] = HeldBy(c)[k + 1]
    BY <1>2, <1>3, <2>1, HeadTailProperties
  <2> DEFINE r == [k \in 1 .. Dist(head, tail) - 1 |-> slots[Ahead(Succ(head), k - 1)]]
  <2>3. /\ Len(r) = Dist(head, tail) - 1
        /\ \A k \in 1 .. Dist(head, tail) - 1 : r[k] = HeldBy(c)[k + 1]
    <3>1. \A k \in 1 .. Dist(head, tail) - 1 :
            k + 1 \in 1 .. Dist(head, tail)
      BY <1>2
    <3>2. \A k \in 1 .. Dist(head, tail) : HeldBy(c)[k] = Slot(c, Ahead(head, k - 1))
      BY <1>2 DEF HeldBy
    <3>3. \A k \in 1 .. Dist(head, tail) - 1 : r[k] = slots[Ahead(Succ(head), k - 1)]
      OBVIOUS
    <3>4. Len(r) = Dist(head, tail) - 1
      BY <1>2
    <3>5. QED
      BY <1>6, <3>1, <3>2, <3>3, <3>4
  <2>4. s = r /\ r \in Seq(S)
    <3>1. \A k \in 1 .. Dist(head, tail) : HeldBy(c)[k] \in S
      BY <1>3, <2>1, ElementOfSeq
    <3>2. \A k \in 1 .. Dist(head, tail) - 1 : k + 1 \in 1 .. Dist(head, tail)
      BY <1>2
    <3> HIDE DEF r
    <3>3. \A k \in 1 .. Dist(head, tail) - 1 : r[k] \in S
      BY <2>3, <3>1, <3>2
    <3>4. r = [k \in 1 .. Dist(head, tail) - 1 |-> r[k]]
      BY DEF r
    <3>5. r \in [1 .. Dist(head, tail) - 1 -> S] /\ Dist(head, tail) - 1 \in Nat
      BY <1>2, <3>3, <3>4
    <3>6. s = r
      BY <1>5 DEF r
    <3>7. QED
      BY <3>5, <3>6, FunctionIsSeq
  <2>5. QED
    BY <1>2, <2>2, <2>3, <2>4, SeqEqual
<1>8. QED
  BY <1>1, <1>2, <1>3, <1>4, <1>7

-----------------------------------------------------------------------------
\* The rest of pop() and push() moves nothing in the queue.
LEMMA OtherStepsStutter ==
  ASSUME NEW p, NEW c, Pushers = {p}, Poppers = {c}, QueueInv(p, c), QueueInv(p, c)',
         [QueueNext]_queueVars, ~PushPublish(p), ~PopAdvance(c)
  PROVE  HeldBy(c)' = HeldBy(c) /\ taken' = taken
<1> USE DEF QueueInv, QueueTypeOK
<1>1. ASSUME NEW x \in Items, PushCall(p, x)
      PROVE  UNCHANGED <<head, tail, slots, cpc, citem, taken>>
  BY <1>1 DEF PushCall, popVars
<1>2. ASSUME PushFull(p) \/ PushRoom(p)
      PROVE  UNCHANGED <<head, tail, slots, cpc, citem, taken>>
  BY <1>2 DEF PushFull, PushRoom, popVars
<1>3. ASSUME PushWrite(p)
      PROVE  /\ UNCHANGED <<head, tail, cpc, citem, taken>>
             /\ \A i \in Index : i # tail => slots'[i] = slots[i]
  BY <1>3 DEF PushWrite, popVars, OwnIndex
<1>4. ASSUME PopCall(c) \/ PopEmpty(c) \/ PopSome(c) \/ PopRead(c)
      PROVE  /\ UNCHANGED <<head, tail, slots, taken>>
             /\ cpc[c] # "advance" /\ cpc'[c] # "advance"
  BY <1>4 DEF PopCall, PopEmpty, PopSome, PopRead, PopReturns, pushVars
<1>5. ASSUME PopClear(c)
      PROVE  /\ UNCHANGED <<head, tail, citem, taken>>
             /\ cpc[c] = "clear" /\ cpc'[c] = "advance"
             /\ citem[c] = slots[head]
             /\ \A i \in Index : i # head => slots'[i] = slots[i]
  BY <1>5 DEF PopClear, pushVars, OwnIndex, Filled
<1>6. /\ UNCHANGED <<head, tail, taken>>
      /\ \A i \in Index : i # tail => Slot(c, i)' = Slot(c, i)
  BY <1>1, <1>2, <1>3, <1>4, <1>5 DEF QueueNext, PushStep, PopStep, queueVars, popVars, Slot
<1>7. QED
  BY <1>6, HeldStutters

\* The ring implements the bounded queue, step for step.
LEMMA StepsImplement ==
  ASSUME NEW p, NEW c, Pushers = {p}, Poppers = {c}
  PROVE  QueueInv(p, c) /\ QueueInv(p, c)' /\ [QueueNext]_queueVars => [Fifo!FifoNext]_Fifo!fifoVars
<1> SUFFICES ASSUME QueueInv(p, c), QueueInv(p, c)', [QueueNext]_queueVars
             PROVE  [Fifo!FifoNext]_Fifo!fifoVars
  OBVIOUS
<1>1. Contents = HeldBy(c) /\ Contents' = HeldBy(c)'
  <2>1. QueueInv(p, c) => Contents = HeldBy(c)
    BY ContentsIs
  <2>2. (QueueInv(p, c) => Contents = HeldBy(c))'
    BY ContentsIs, PTL
  <2>3. QED
    BY <2>1, <2>2
<1>2. CASE PushPublish(p)
  BY <1>1, <1>2, PublishAppends DEF Fifo!FifoNext, Fifo!Put
<1>3. CASE PopAdvance(c)
  BY <1>1, <1>3, AdvanceTakes DEF Fifo!FifoNext, Fifo!Take
<1>4. CASE ~PushPublish(p) /\ ~PopAdvance(c)
  BY <1>1, <1>4, OtherStepsStutter DEF Fifo!fifoVars
<1>5. QED
  BY <1>2, <1>3, <1>4

\* The ring of a two-thread queue is a bounded first-in first-out queue: what
\* pop() returns went in, once, in order, and push() refuses only what is too much.
THEOREM QueueImplementsFifo ==
  ASSUME NEW p, NEW c, Pushers = {p}, Poppers = {c}
  PROVE  QueueSpec => ImplementsFifo
<1>1. QueueInit => Fifo!FifoInit
  <2>1. QueueInit => head = 0 /\ tail = 0 /\ Contents = <<>>
    BY QueueAssumption DEF QueueInit, Contents, Dist
  <2>2. QED
    BY <2>1, QueueAssumption DEF QueueInit, Fifo!FifoInit
<1>2. QueueInv(p, c) /\ QueueInv(p, c)' /\ [QueueNext]_queueVars => [Fifo!FifoNext]_Fifo!fifoVars
  BY StepsImplement
<1>3. QED
  BY <1>1, <1>2, QueueInvariant, PTL DEF QueueSpec, ImplementsFifo, Fifo!FifoSpec
==============================================================================
