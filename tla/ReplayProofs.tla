------------------------------ MODULE ReplayProofs ------------------------------
(***************************************************************************)
(* What playback shows, proved for captures of any length, any number of   *)
(* devices opened and any length of the dispatcher's queue.                *)
(*                                                                         *)
(* The argument: while a thread plays, the position it stored last is the  *)
(* successor of what it emitted, unless a seek came in between; while none *)
(* does, what was sought is somewhere on its way to the display and to the *)
(* bar - being read, in the ring, shown; posted, or on the slider.         *)
(***************************************************************************)
EXTENDS Replay, SequenceTheorems, TLAPS

Post == [driver : Nat, index : Indices]

Typed == /\ position \in Indices /\ at \in Indices /\ wanted \in Indices
         /\ driver \in Nat /\ created \in Nat
         /\ posts \in Seq(Post)
         /\ loop \in {"none", "top", "emit", "advance", "sleep", "retire", "done"}
         /\ main \in {"idle", "starting", "started", "stopping", "closing", "emit", "single"}
         /\ lastPlayed \in Indices \cup {None} /\ sought \in Indices \cup {None}
         /\ joinable \in BOOLEAN /\ moved \in BOOLEAN

\* A thread plays for a driver, and can be joined while it does.
Threads == /\ ~LoopGone => joinable
           /\ ~LoopGone \/ main \in {"starting", "started", "stopping", "emit", "single"} =>
                driver # 0
           /\ connect # None => main = "closing" \/ created # 0
           /\ driver = 0 => ~joinable

\* While it plays, the position follows what it emitted.
Follows == /\ loop \in {"advance", "sleep"} => lastPlayed = at
           /\ loop \in {"top", "sleep"} /\ lastPlayed # None /\ ~moved =>
                position = (lastPlayed + 1) % Count

PlayInv == Typed /\ Threads /\ Follows

\* The next index of a pass is an index, and after the last one comes the first.
LEMMA NextIndex ==
  ASSUME NEW i \in Indices
  PROVE  /\ i + 1 < Count => (i + 1) % Count = i + 1 /\ i + 1 \in Indices
         /\ ~(i + 1 < Count) => (i + 1) % Count = 0
         /\ 0 \in Indices
<1>1. i \in 0 .. Count - 1 /\ Count \in Nat \ {0}
  BY ReplayAssumption DEF Indices
<1>2. CASE i + 1 < Count
  BY <1>1, <1>2, SMT DEF Indices
<1>3. CASE ~(i + 1 < Count)
  <2>1. i + 1 = Count
    BY <1>1, <1>3
  <2> QED
    BY <1>1, <1>3, <2>1, SMT DEF Indices
<1> QED
  BY <1>2, <1>3

\* An index that is asked for is brought into the range of the recording.
LEMMA Clamped == \A i \in Int : Clamp(i) \in Indices
  BY ReplayAssumption DEF Clamp, Indices

\* What a quotient is.
LEMMA Quotient ==
  ASSUME NEW a \in Nat, NEW b \in Nat \ {0}
  PROVE  /\ a \div b \in Nat
         /\ b * (a \div b) <= a /\ a < b * (a \div b) + b
  OBVIOUS

\* A quotient is the number of times the divisor goes into the dividend.
LEMMA QuotientIs ==
  ASSUME NEW a \in Nat, NEW b \in Nat \ {0}, NEW q \in Nat,
         b * q <= a, a < b * q + b
  PROVE  a \div b = q
  OBVIOUS

\* The slider has a place for every frame, and the place of a frame stands for
\* that frame: the slider is at least twice as fine as the recording is long.
LEMMA SliderIs ==
  ASSUME NEW i \in Indices, Count > 1
  PROVE  SliderAt(i) \in 0 .. Travel /\ FrameAt(SliderAt(i)) = i
<1> DEFINE n == Count - 1
           s == (i * Travel) \div n
<1>1. /\ n \in Nat \ {0} /\ Travel \in Nat \ {0} /\ i \in Nat /\ i <= n
      /\ Travel >= 2 * n
  BY ReplayAssumption DEF Indices
<1>2. SliderAt(i) = s
  BY DEF SliderAt
<1> HIDE DEF n
<1>3. i * Travel \in Nat
  BY <1>1
<1>4. s \in Nat /\ n * s <= i * Travel /\ i * Travel < n * s + n
  BY <1>1, <1>3, Quotient
<1> HIDE DEF s
<1>5. s <= Travel
  <2>1. i * Travel <= n * Travel
    BY <1>1
  <2>2. CASE s > Travel
    <3>1. n * s >= n * (Travel + 1)
      BY <1>1, <1>4, <2>2
    <3>2. n * (Travel + 1) = n * Travel + n
      BY <1>1
    <3>3. n * s \in Nat /\ n * Travel \in Nat
      BY <1>1, <1>4
    <3> QED
      BY <1>1, <1>3, <1>4, <2>1, <3>1, <3>2, <3>3
  <2> QED
    BY <1>1, <1>4, <2>2
<1>6. (2 * (s * n) + Travel) \div (2 * Travel) = i
  <2> DEFINE a == 2 * (s * n) + Travel
  <2>1. s * n = n * s /\ s * n \in Nat /\ (2 * Travel) * i = 2 * (i * Travel)
    BY <1>1, <1>4
  <2>2. a \in Nat /\ 2 * Travel \in Nat \ {0} /\ (2 * Travel) * i \in Nat
    BY <1>1, <1>3, <2>1
  <2>3. (2 * Travel) * i <= a /\ a < (2 * Travel) * i + 2 * Travel
    BY <1>1, <1>3, <1>4, <2>1
  <2> HIDE DEF a
  <2> QED
    BY <1>1, <2>2, <2>3, QuotientIs DEF a
<1> QED
  BY <1>1, <1>2, <1>4, <1>5, <1>6 DEF FrameAt, n

\* Where the slider is set.
LEMMA SliderRange ==
  ASSUME NEW i \in Indices
  PROVE  SliderAt(i) \in 0 .. Travel \/ (Count = 1 /\ SliderAt(i) = None)
<1>1. CASE Count = 1
  BY <1>1 DEF SliderAt
<1>2. CASE Count # 1
  BY <1>2, SliderIs, ReplayAssumption
<1> QED
  BY <1>1, <1>2

\* The bar asks for a frame by a number, which is brought into the range.
LEMMA Asked ==
  ASSUME Scrub \/ Step, position \in Indices
  PROVE  \E i \in Int : SeekTo(i) /\ Clamp(i) \in Indices
<1>1. CASE Scrub
  <2>1. PICK v \in 0 .. Travel : SeekTo(FrameAt(v))
    BY <1>1 DEF Scrub
  <2>2. /\ v * (Count - 1) \in Nat /\ Travel \in Nat \ {0}
    BY ReplayAssumption
  <2>3. FrameAt(v) \in Int
    BY <2>2, Quotient DEF FrameAt
  <2> QED
    BY <2>1, <2>3, Clamped
<1>2. CASE Step
  <2>1. PICK delta \in {-1, 1} : SeekTo(position + delta)
    BY <1>2 DEF Step
  <2>2. position + delta \in Int
    BY ReplayAssumption DEF Indices
  <2> QED
    BY <2>1, <2>2, Clamped
<1> QED
  BY <1>1, <1>2

\* A thread that plays can be joined, and has a driver.
LEMMA ThreadsStep ==
  ASSUME Typed, Threads, [Next]_vars PROVE Threads'
<1> USE DEF Threads, LoopGone, deviceVars, loopVars, frameVars, barVars, pastVars
<1>1. CASE Loop
  BY <1>1 DEF Loop, LoopTop, LoopEmit, LoopAdvance, LoopRetire, LoopWakes
<1>2. CASE Controls
  BY <1>2 DEF Controls, Start, Stop, Scrub, Step, Single, SetLooping, BarCall, SeekTo,
               ClearRunning
<1>3. CASE Devices
  <2>1. ASSUME NEW kind \in {"replay", "live"}, OpenDevice(kind) PROVE Threads'
    BY <2>1 DEF OpenDevice
  <2>2. CASE ConnectFails
    BY <2>2 DEF ConnectFails
  <2>3. CASE Adopt
    BY <2>3 DEF Adopt
  <2> QED
    BY <1>3, <2>1, <2>2, <2>3 DEF Devices
<1>4. CASE Within
  <2>1. CASE CloseOld
    BY <2>1 DEF CloseOld, Joined, Typed
  <2>2. CASE Spawn \/ Announce \/ EndStop \/ EmitSought \/ EndSingle
    BY <2>2 DEF Spawn, Announce, EndStop, EmitSought, EndSingle
  <2> QED
    BY <1>4, <2>1, <2>2 DEF Within
<1>5. CASE Deliver
  BY <1>5 DEF Deliver, Drain, RunPost
<1>6. CASE UNCHANGED vars
  BY <1>6 DEF vars
<1> QED
  BY <1>1, <1>2, <1>3, <1>4, <1>5, <1>6 DEF Next

\* The position is that of the frame played last, or the next one.
LEMMA FollowsStep ==
  ASSUME Typed, Threads, Follows, [Next]_vars PROVE Follows'
<1> USE DEF Follows, deviceVars, loopVars, frameVars, barVars, pastVars
<1>1. CASE Loop
  <2>1. CASE LoopAdvance
    BY <2>1, NextIndex DEF LoopAdvance, Typed
  <2>2. CASE LoopTop \/ LoopEmit \/ LoopRetire \/ LoopWakes
    BY <2>2 DEF LoopTop, LoopEmit, LoopRetire, LoopWakes
  <2> QED
    BY <1>1, <2>1, <2>2 DEF Loop
<1>2. CASE Controls
  BY <1>2 DEF Controls, Start, Stop, Scrub, Step, Single, SetLooping, SeekTo
<1>3. CASE Devices
  <2>1. ASSUME NEW kind \in {"replay", "live"}, OpenDevice(kind) PROVE Follows'
    BY <2>1 DEF OpenDevice
  <2>2. CASE ConnectFails
    BY <2>2 DEF ConnectFails
  <2>3. CASE Adopt
    BY <2>3 DEF Adopt, Threads, LoopGone
  <2> QED
    BY <1>3, <2>1, <2>2, <2>3 DEF Devices
<1>4. CASE Within
  BY <1>4 DEF Within, Spawn, Announce, EndStop, EmitSought, EndSingle, CloseOld
<1>5. CASE Deliver
  BY <1>5 DEF Deliver, Drain, RunPost
<1>6. CASE UNCHANGED vars
  BY <1>6 DEF vars
<1> QED
  BY <1>1, <1>2, <1>3, <1>4, <1>5, <1>6 DEF Next

\* A post is appended, and taken from the head.
LEMMA PostsTyped ==
  ASSUME Typed, NEW i \in Indices
  PROVE  /\ Append(posts, [driver |-> driver, index |-> i]) \in Seq(Post)
         /\ posts # <<>> => Tail(posts) \in Seq(Post)
<1>1. [driver |-> driver, index |-> i] \in Post /\ posts \in Seq(Post)
  BY ReplayAssumption DEF Typed, Post, Indices
<1> QED
  BY <1>1, HeadTailProperties

\* Every step keeps the types.
LEMMA TypedStep ==
  ASSUME Typed, Threads, [Next]_vars PROVE Typed'
<1> USE DEF Typed, deviceVars, loopVars, frameVars, barVars, pastVars
<1>1. CASE Loop
  <2>1. CASE LoopAdvance
    <3>1. position' \in Indices
      BY <2>1, NextIndex DEF LoopAdvance
    <3> QED
      BY <2>1, <3>1 DEF LoopAdvance
  <2>2. CASE LoopEmit
    <3>1. posts' \in Seq(Post)
      BY <2>2, PostsTyped DEF LoopEmit, EndEmit
    <3> QED
      BY <2>2, <3>1 DEF LoopEmit
  <2>3. CASE LoopTop \/ LoopRetire \/ LoopWakes
    BY <2>3 DEF LoopTop, LoopRetire, LoopWakes
  <2> QED
    BY <1>1, <2>1, <2>2, <2>3 DEF Loop
<1>2. CASE Controls
  <2>1. CASE Scrub \/ Step
    <3>1. PICK i \in Int : SeekTo(i) /\ Clamp(i) \in Indices
      BY <2>1, Asked
    <3> QED
      BY <2>1, <3>1 DEF Scrub, Step, SeekTo
  <2>2. CASE Start \/ Stop \/ SetLooping \/ Single
    BY <2>2 DEF Start, Stop, SetLooping, Single
  <2> QED
    BY <1>2, <2>1, <2>2 DEF Controls
<1>3. CASE Devices
  <2>1. ASSUME NEW kind \in {"replay", "live"}, OpenDevice(kind) PROVE Typed'
    BY <2>1 DEF OpenDevice
  <2>2. CASE ConnectFails
    BY <2>2 DEF ConnectFails
  <2>3. CASE Adopt
    BY <2>3, NextIndex DEF Adopt
  <2> QED
    BY <1>3, <2>1, <2>2, <2>3 DEF Devices
<1>4. CASE Within
  <2>1. CASE EmitSought \/ EndSingle
    <3>1. posts' \in Seq(Post)
      BY <2>1, PostsTyped DEF EmitSought, EndSingle, EndEmit
    <3> QED
      BY <2>1, <3>1 DEF EmitSought, EndSingle
  <2>2. CASE Spawn
    BY <2>2 DEF Spawn
  <2>3. CASE Announce
    BY <2>3 DEF Announce
  <2>4. CASE EndStop
    BY <2>4 DEF EndStop
  <2>5. CASE CloseOld
    <3>1. driver' \in Nat /\ created' \in Nat
      BY <2>5 DEF CloseOld
    <3> QED
      BY <2>5, <3>1 DEF CloseOld
  <2> QED
    BY <1>4, <2>1, <2>2, <2>3, <2>4, <2>5 DEF Within
<1>5. CASE Deliver
  <2>1. CASE RunPost
    <3>1. posts' \in Seq(Post)
      BY <2>1, PostsTyped DEF RunPost
    <3> QED
      BY <2>1, <3>1 DEF RunPost
  <2>2. CASE Drain
    BY <2>2 DEF Drain
  <2> QED
    BY <1>5, <2>1, <2>2 DEF Deliver
<1>6. CASE UNCHANGED vars
  BY <1>6 DEF vars
<1> QED
  BY <1>1, <1>2, <1>3, <1>4, <1>5, <1>6 DEF Next

\* The invariant of playing holds in every state.
LEMMA PlayInvariant == Spec => []PlayInv
<1>1. Init => PlayInv
  <2>1. 0 \in Indices /\ 0 \in Nat /\ <<>> \in Seq(Post)
    BY ReplayAssumption DEF Indices
  <2> QED
    BY <2>1 DEF Init, PlayInv, Typed, Threads, Follows, LoopGone
<1>2. PlayInv /\ [Next]_vars => PlayInv'
  BY TypedStep, ThreadsStep, FollowsStep DEF PlayInv
<1>3. QED
  BY <1>1, <1>2, PTL DEF Spec

\* _runLoop(): playback left alone emits every frame in turn and starts over at the
\* end, in a capture of any length.
THEOREM ReplayPlaysEveryFrame == Spec => PlaysEveryFrame
<1> DEFINE InTurn == LoopTop /\ running /\ lastPlayed # None /\ ~moved =>
                       at' = (lastPlayed + 1) % Count
<1>1. PlayInv /\ [Next]_vars => [InTurn]_vars
  BY DEF PlayInv, Follows, LoopTop
<1>2. QED
  BY <1>1, PlayInvariant, PTL DEF Spec, PlaysEveryFrame

\* start(), stop() and close(): a thread that retired by itself is joined before the
\* next is spawned or the driver goes, so no std::thread is assigned over, or
\* destroyed, while it can be joined, and none is spawned while one plays.
THEOREM ReplayOneLoopThread == Spec => OneLoopThread
<1> DEFINE OneThread ==
      /\ loop = "none" \/ loop = "done" \/ loop' = loop \/ loop' # "top" \/ loop = "sleep"
      /\ joinable /\ ~joinable' => loop = "done"
<1>1. ASSUME PlayInv, [Next]_vars PROVE OneThread \/ UNCHANGED vars
  <2> USE DEF deviceVars, loopVars, frameVars, barVars, pastVars
  <2>1. CASE Loop
    BY <2>1 DEF Loop, LoopTop, LoopEmit, LoopAdvance, LoopRetire, LoopWakes
  <2>2. CASE Spawn \/ CloseOld
    BY <1>1, <2>2 DEF Spawn, CloseOld, Joined, PlayInv, Threads, LoopGone
  <2>3. CASE Announce \/ EndStop \/ EmitSought \/ EndSingle
    BY <2>3 DEF Announce, EndStop, EmitSought, EndSingle
  <2>4. CASE Controls \/ Devices \/ Deliver
    BY <2>4 DEF Controls, Start, Stop, Scrub, Step, Single, SeekTo, SetLooping, Devices,
       OpenDevice, ConnectFails, Adopt, Deliver, Drain, RunPost
  <2> QED
    BY <1>1, <2>1, <2>2, <2>3, <2>4 DEF Next, Within
<1>2. PlayInv /\ [Next]_vars => [OneThread]_vars
  BY <1>1
<1>3. QED
  BY <1>2, PlayInvariant, PTL DEF Spec, OneLoopThread

\* What the ring, the display, the bar and the queue hold was asked of the reader; a
\* driver is one of those created, which are not too many for one more while the
\* last is being closed.
Held == /\ scratch \in Frames /\ ready \in Frames /\ shown \in Frames
        /\ scrub \in 0 .. Travel \/ (Count = 1 /\ scrub = None)
        /\ created <= MaxDrivers /\ (main = "closing" => created < MaxDrivers)
        /\ driver <= MaxDrivers /\ bar \in 0 .. MaxDrivers
        /\ reading \subseteq {"main", "loop"}

\* Whatever seeks and the loop store over each other, a frame that is read exists.
LEMMA HeldStep ==
  ASSUME PlayInv, Held, [Next]_vars PROVE Held'
<1> USE DEF PlayInv, Held, Frames, deviceVars, loopVars, frameVars, barVars, pastVars
<1>1. CASE Loop
  <2>1. CASE LoopTop
    BY <2>1 DEF LoopTop, BeginEmit, Typed
  <2>2. CASE LoopEmit
    BY <2>2 DEF LoopEmit, EndEmit
  <2>3. CASE LoopAdvance \/ LoopRetire \/ LoopWakes
    BY <2>3 DEF LoopAdvance, LoopRetire, LoopWakes
  <2> QED
    BY <1>1, <2>1, <2>2, <2>3 DEF Loop
<1>2. CASE Controls
  <2>1. CASE Scrub \/ Step
    <3>1. PICK i \in Int : SeekTo(i) /\ Clamp(i) \in Indices
      BY <2>1, Asked DEF Typed
    <3>2. scrub' \in 0 .. Travel \/ (Count = 1 /\ scrub' = None)
      BY <2>1 DEF Scrub, Step
    <3> QED
      BY <2>1, <3>1, <3>2 DEF Scrub, Step, SeekTo, BeginEmit
  <2>2. CASE Single
    BY <2>2 DEF Single, BeginEmit, Typed
  <2>3. CASE Start \/ Stop \/ SetLooping
    BY <2>3 DEF Start, Stop, SetLooping
  <2> QED
    BY <1>2, <2>1, <2>2, <2>3 DEF Controls
<1>3. CASE Devices
  <2>1. ASSUME NEW kind \in {"replay", "live"}, OpenDevice(kind) PROVE Held'
    BY <2>1 DEF OpenDevice
  <2>2. CASE ConnectFails
    BY <2>2 DEF ConnectFails
  <2>3. CASE Adopt
    <3>1. 0 \in 0 .. Travel
      BY ReplayAssumption
    <3>2. driver' <= MaxDrivers /\ bar' \in 0 .. MaxDrivers
      BY <2>3, ReplayAssumption DEF Adopt, Typed
    <3> QED
      BY <2>3, <3>1, <3>2 DEF Adopt
  <2> QED
    BY <1>3, <2>1, <2>2, <2>3 DEF Devices
<1>4. CASE Within
  <2>1. CASE CloseOld
    BY <2>1, ReplayAssumption DEF CloseOld, Typed
  <2>2. CASE EmitSought \/ EndSingle
    BY <2>2 DEF EmitSought, EndSingle, EndEmit
  <2>3. CASE Spawn \/ Announce \/ EndStop
    BY <2>3 DEF Spawn, Announce, EndStop
  <2> QED
    BY <1>4, <2>1, <2>2, <2>3 DEF Within
<1>5. CASE Deliver
  <2>1. CASE RunPost
    <3>1. posts[1] \in Post
      BY <2>1 DEF RunPost, Typed
    <3>2. posts[1].index \in Indices
      BY <3>1 DEF Post
    <3>3. scrub' \in 0 .. Travel \/ (Count = 1 /\ scrub' = None)
      BY <2>1, <3>2, SliderRange DEF RunPost
    <3> QED
      BY <2>1, <3>3 DEF RunPost
  <2>2. CASE Drain
    BY <2>2 DEF Drain
  <2> QED
    BY <1>5, <2>1, <2>2 DEF Deliver
<1>6. CASE UNCHANGED vars
  BY <1>6 DEF vars
<1> QED
  BY <1>1, <1>2, <1>3, <1>4, <1>5, <1>6 DEF Next

\* seek() and _runLoop() store m_position over each other, one of them from an older
\* value: every frame that is asked of the reader exists all the same.
THEOREM ReplayPositionInRange == Spec => []PositionInRange
<1>1. Init => Held
  BY ReplayAssumption DEF Init, Held, Frames, Indices
<1>2. PlayInv /\ Held /\ [Next]_vars => Held'
  BY HeldStep
<1>3. PlayInv /\ Held => PositionInRange
  BY ReplayAssumption DEF PlayInv, Typed, Held, PositionInRange
<1>4. QED
  BY <1>1, <1>2, <1>3, PlayInvariant, PTL DEF Spec

-----------------------------------------------------------------------------
\* Who reads is inside readFrame().
Reads == /\ "loop" \in reading <=> loop = "emit"
         /\ "main" \in reading <=> main \in {"emit", "single"}
         /\ reading \subseteq {"main", "loop"}

\* What was sought is being read, or is the newest frame or the one shown ...
OnDisplay == IF main \in {"emit", "single"}
             THEN LoopGone /\ wanted = sought /\ scratch = sought
             ELSE ready = sought \/ (ready = None /\ shown = sought)

\* ... and it is the last position posted, or the slider's.
OnBar == main \notin {"emit", "single"} =>
           IF posts = <<>> THEN bar = driver /\ bar # 0 => scrub = SliderAt(sought)
                           ELSE posts[Len(posts)] = [driver |-> driver, index |-> sought]

Sought == sought # None => /\ position = sought /\ driver # 0
                           /\ loop \in {"none", "done", "top", "emit"}
                           /\ OnDisplay /\ OnBar

SeekInv == PlayInv /\ Reads /\ Sought

\* Who reads is inside readFrame(), and nobody else is.
LEMMA ReadsStep ==
  ASSUME PlayInv, Reads, [Next]_vars PROVE Reads'
<1> USE DEF PlayInv, Reads, deviceVars, loopVars, frameVars, barVars, pastVars
<1>1. CASE Loop
  <2>1. CASE LoopTop
    BY <2>1 DEF LoopTop, BeginEmit
  <2>2. CASE LoopEmit
    BY <2>2 DEF LoopEmit, EndEmit
  <2>3. CASE LoopAdvance \/ LoopRetire \/ LoopWakes
    BY <2>3 DEF LoopAdvance, LoopRetire, LoopWakes
  <2> QED
    BY <1>1, <2>1, <2>2, <2>3 DEF Loop
<1>2. CASE Controls
  <2>1. CASE Scrub \/ Step \/ Single
    BY <2>1 DEF Scrub, Step, Single, SeekTo, BeginEmit, BarCall
  <2>2. CASE Start \/ Stop \/ SetLooping
    BY <2>2 DEF Start, Stop, SetLooping, BarCall
  <2> QED
    BY <1>2, <2>1, <2>2 DEF Controls
<1>3. CASE Devices
  BY <1>3 DEF Devices, OpenDevice, ConnectFails, Adopt
<1>4. CASE Within
  <2>1. CASE CloseOld
    BY <2>1 DEF CloseOld, Joined, Threads, LoopGone
  <2>2. CASE Spawn
    BY <2>2 DEF Spawn, Joined, Threads, LoopGone
  <2>3. CASE EmitSought \/ EndSingle
    BY <2>3 DEF EmitSought, EndSingle, EndEmit
  <2>4. CASE Announce \/ EndStop
    BY <2>4 DEF Announce, EndStop
  <2> QED
    BY <1>4, <2>1, <2>2, <2>3, <2>4 DEF Within
<1>5. CASE Deliver
  BY <1>5 DEF Deliver, Drain, RunPost
<1>6. CASE UNCHANGED vars
  BY <1>6 DEF vars
<1> QED
  BY <1>1, <1>2, <1>3, <1>4, <1>5, <1>6 DEF Next

\* The last post stays the last one until it is the only one.
LEMMA LastPost ==
  ASSUME Typed
  PROVE  /\ \A p \in Post : LET s == Append(posts, p) IN s # <<>> /\ s[Len(s)] = p
         /\ posts # <<>> => LET s == Tail(posts) IN
              /\ s # <<>> => s[Len(s)] = posts[Len(posts)]
              /\ s = <<>> => posts[1] = posts[Len(posts)]
<1>1. posts \in Seq(Post) /\ Len(posts) \in Nat
  BY DEF Typed
<1>2. ASSUME NEW p \in Post PROVE LET s == Append(posts, p) IN s # <<>> /\ s[Len(s)] = p
  BY <1>1, AppendProperties
<1>3. ASSUME posts # <<>> PROVE LET s == Tail(posts) IN
              /\ s # <<>> => s[Len(s)] = posts[Len(posts)]
              /\ s = <<>> => posts[1] = posts[Len(posts)]
  <2>1. Len(posts) >= 1
    BY <1>1, <1>3, EmptySeq
  <2>2. Tail(posts) \in Seq(Post) /\ Len(Tail(posts)) = Len(posts) - 1
    BY <1>1, <1>3, HeadTailProperties
  <2>3. CASE Len(posts) = 1
    <3>1. Len(Tail(posts)) = 0
      BY <2>2, <2>3
    <3>2. Tail(posts) = <<>>
      BY <2>2, <3>1, EmptySeq
    <3> QED
      BY <2>3, <3>2
  <2>4. CASE Len(posts) # 1
    <3>1. Len(Tail(posts)) \in 1 .. Len(posts) - 1
      BY <1>1, <2>1, <2>2, <2>4
    <3>2. Tail(posts)[Len(Tail(posts))] = posts[Len(Tail(posts)) + 1]
      BY <1>1, <1>3, <3>1, HeadTailProperties, <2>2
    <3>3. Len(Tail(posts)) + 1 = Len(posts)
      BY <1>1, <2>2
    <3>4. Tail(posts)[Len(Tail(posts))] = posts[Len(posts)]
      BY <3>2, <3>3, Zenon
    <3>5. Len(<<>>) = 0 /\ 0 \notin 1 .. Len(posts) - 1
      BY EmptySeq
    <3>6. Tail(posts) # <<>>
      BY <3>1, <3>5, Zenon
    <3> QED
      BY <3>4, <3>6
  <2> QED
    BY <2>3, <2>4
<1> QED
  BY <1>2, <1>3

\* What was sought stays on the display, and its position is the last one
\* posted, until the next frame is played or another is sought.
LEMMA SoughtStep ==
  ASSUME SeekInv, [Next]_vars PROVE Sought'
<1> USE DEF SeekInv, Sought, OnDisplay, OnBar, LoopGone,
            deviceVars, loopVars, frameVars, barVars, pastVars
<1>1. CASE Loop
  <2>1. CASE LoopTop
    BY <2>1 DEF LoopTop, BeginEmit
  <2>2. CASE LoopEmit \/ LoopAdvance
    BY <2>2 DEF LoopEmit, LoopAdvance
  <2>3. CASE LoopRetire \/ LoopWakes
    BY <2>3 DEF LoopRetire, LoopWakes
  <2> QED
    BY <1>1, <2>1, <2>2, <2>3 DEF Loop
<1>2. CASE Controls
  <2>1. CASE Scrub \/ Step \/ Single
    <3>1. LoopGone => reading = {}
      BY <2>1 DEF Scrub, Step, Single, BarCall, Reads
    <3>2. CASE Single
      BY <2>1, <3>1, <3>2 DEF Single, BeginEmit, BarCall
    <3>3. CASE Scrub \/ Step
      BY <3>1, <3>3 DEF Scrub, Step, SeekTo, BeginEmit, BarCall
    <3> QED
      BY <2>1, <3>2, <3>3
  <2>2. CASE Start \/ Stop \/ SetLooping
    BY <2>2 DEF Start, Stop, SetLooping, BarCall
  <2> QED
    BY <1>2, <2>1, <2>2 DEF Controls
<1>3. CASE Devices
  <2>1. ASSUME NEW kind \in {"replay", "live"}, OpenDevice(kind) PROVE Sought'
    BY <2>1 DEF OpenDevice
  <2>2. CASE ConnectFails \/ Adopt
    BY <2>2 DEF ConnectFails, Adopt
  <2> QED
    BY <1>3, <2>1, <2>2 DEF Devices
<1>4. CASE Within
  <2>1. CASE CloseOld
    BY <2>1 DEF CloseOld
  <2>2. CASE Spawn \/ Announce \/ EndStop
    BY <2>2 DEF Spawn, Announce, EndStop
  <2>3. CASE EmitSought \/ EndSingle
    <3>1. [driver |-> driver, index |-> wanted] \in Post
      BY ReplayAssumption DEF PlayInv, Typed, Post, Indices
    <3>2. posts' # <<>> /\ posts'[Len(posts')] = [driver |-> driver, index |-> wanted]
      BY <2>3, <3>1, LastPost DEF EmitSought, EndSingle, EndEmit, PlayInv
    <3> QED
      BY <2>3, <3>2 DEF EmitSought, EndSingle, EndEmit
  <2> QED
    BY <1>4, <2>1, <2>2, <2>3 DEF Within
<1>5. CASE Deliver
  <2>1. CASE RunPost
    <3>1. /\ posts' # <<>> => posts'[Len(posts')] = posts[Len(posts)]
          /\ posts' = <<>> => posts[1] = posts[Len(posts)]
      BY <2>1, LastPost DEF RunPost, PlayInv
    <3> QED
      BY <2>1, <3>1 DEF RunPost
  <2>2. CASE Drain
    BY <2>2 DEF Drain
  <2> QED
    BY <1>5, <2>1, <2>2 DEF Deliver
<1>6. CASE UNCHANGED vars
  BY <1>6 DEF vars
<1> QED
  BY <1>1, <1>2, <1>3, <1>4, <1>5, <1>6 DEF Next

\* seek(), step() and single(): what is sought while nothing plays is what the
\* display and the bar come to show, with any number of positions in the queue.
THEOREM ReplaySeekIsShown == Spec => []SeekIsShown
<1>1. Init => Reads /\ Sought
  BY DEF Init, Reads, Sought
<1>2. SeekInv /\ [Next]_vars => Reads' /\ Sought'
  BY ReadsStep, SoughtStep DEF SeekInv
<1>3. SeekInv => SeekIsShown
  <2>1. ASSUME SeekInv, sought # None, Count > 1 PROVE FrameAt(SliderAt(sought)) = sought
    BY <2>1, SliderIs DEF SeekInv, PlayInv, Typed
  <2> QED
    BY <2>1 DEF SeekInv, Sought, OnDisplay, OnBar, SeekIsShown
<1>4. QED
  BY <1>1, <1>2, <1>3, PlayInvariant, PTL DEF Spec, SeekInv
=================================================================================
