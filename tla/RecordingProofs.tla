---------------------------- MODULE RecordingProofs ----------------------------
(***************************************************************************)
(* What a recording holds, proved for any number of frames of any size,    *)
(* any depth of the pool, any number of recordings, and a disk that may    *)
(* fail at every write.                                                    *)
(*                                                                         *)
(* Three invariants.  The display's: what waits in the ring is newer than  *)
(* what is shown, and in order.  The file's: what is on the disk and what  *)
(* is still buffered make one sequence, which no write tears apart; every  *)
(* entry of the index points at its frame in it.  The third says where the *)
(* records of that sequence lie, so that what any part of it makes of the  *)
(* scan, and how many frames are whole in it, can be told: what a process  *)
(* killed at that moment leaves behind.                                    *)
(*                                                                         *)
(* Two more are about how a frame gets to the display at all: that one     *)
(* wake at most is under way, and that a drain ends at the newest frame.   *)
(***************************************************************************)
EXTENDS Recording, SequenceTheorems, FiniteSetTheorems, WellFoundedInduction, TLAPS

\* The display: what waits in the ring is newer than what is displayed, and in order.
DisplayTyped == /\ published \in Nat /\ latest \in Nat /\ shown \in Nat
                /\ ready \in Seq(Nat) /\ Depth \in Nat \ {0}
InOrder == /\ \A i, j \in 1 .. Len(ready) : i < j => ready[i] < ready[j]
           /\ \A i \in 1 .. Len(ready) : latest < ready[i] /\ ready[i] <= published
           /\ latest <= published /\ shown <= latest
DisplayInv == DisplayTyped /\ InOrder

\* Frames are published with growing numbers and shown in the order of the ring.
LEMMA DisplayStep == DisplayInv /\ [Next]_vars => DisplayInv'
<1> SUFFICES ASSUME DisplayInv, [Next]_vars PROVE DisplayInv'
  OBVIOUS
<1> USE DEF DisplayInv, DisplayTyped, InOrder
<1>1. CASE Delivery!PublishFrame
  <2> DEFINE kept == IF Len(ready) = Depth THEN Tail(ready) ELSE ready
  <2>1. published' = published + 1 /\ ready' = Append(kept, published + 1)
        /\ UNCHANGED <<latest, shown>>
    BY <1>1 DEF Delivery!PublishFrame
  <2>2. /\ kept \in Seq(Nat)
        /\ \A i, j \in 1 .. Len(kept) : i < j => kept[i] < kept[j]
        /\ \A i \in 1 .. Len(kept) : latest < kept[i] /\ kept[i] <= published
    <3>1. CASE Len(ready) = Depth
      <4>1. ready # <<>>
        BY <3>1
      <4>2. /\ Tail(ready) \in Seq(Nat) /\ Len(Tail(ready)) = Len(ready) - 1
            /\ \A i \in 1 .. Len(Tail(ready)) : Tail(ready)[i] = ready[i + 1]
        BY <4>1, HeadTailProperties
      <4>3. Len(ready) \in Nat
        OBVIOUS
      <4>4. \A i \in 1 .. Len(Tail(ready)) : i + 1 \in 1 .. Len(ready)
        BY <4>2, <4>3
      <4> QED
        BY <3>1, <4>2, <4>4
    <3>2. CASE Len(ready) # Depth
      BY <3>2
    <3> QED
      BY <3>1, <3>2
  <2> HIDE DEF kept
  <2>3. /\ ready' \in Seq(Nat) /\ Len(ready') = Len(kept) + 1
        /\ \A i \in 1 .. Len(kept) : ready'[i] = kept[i]
        /\ ready'[Len(kept) + 1] = published + 1
    BY <2>1, <2>2
  <2>4. Len(kept) \in Nat
    BY <2>2
  <2>5. \A i \in 1 .. Len(ready') : i \in 1 .. Len(kept) \/ i = Len(kept) + 1
    BY <2>3, <2>4
  <2> QED
    BY <2>1, <2>2, <2>3, <2>4, <2>5
<1>2. CASE Delivery!TakeFrame
  <2>1. ready # <<>> /\ latest' = Head(ready) /\ ready' = Tail(ready)
        /\ UNCHANGED <<published, shown>>
    BY <1>2 DEF Delivery!TakeFrame
  <2>2. /\ ready' \in Seq(Nat) /\ Len(ready') = Len(ready) - 1
        /\ \A i \in 1 .. Len(ready') : ready'[i] = ready[i + 1]
        /\ Head(ready) = ready[1]
    BY <2>1, HeadTailProperties
  <2>3. Len(ready) \in Nat \ {0} /\ 1 \in 1 .. Len(ready)
    BY <2>1
  <2>4. \A i \in 1 .. Len(ready') : i + 1 \in 1 .. Len(ready) /\ 1 < i + 1
    BY <2>2, <2>3
  <2> QED
    BY <2>1, <2>2, <2>3, <2>4
<1>3. CASE Delivery!EndDrain
  BY <1>3 DEF Delivery!EndDrain
<1>4. CASE UNCHANGED <<published, ready, latest, shown>>
  BY <1>4
<1>5. Delivery!PublishFrame \/ Delivery!TakeFrame \/ Delivery!EndDrain
      \/ UNCHANGED <<published, ready, latest, shown>>
  BY DEF Next, StartRecording, StartRefused, StopRecording, ShowAndRecord, Disk, Publish, Announce,
     Flush, BeginShow, Tick, Beside, Delivery!PostWake, Delivery!PostCallback, Delivery!Flush,
     Delivery!RunWake, Delivery!Tick, deliveryVars, vars
<1> QED
  BY <1>1, <1>2, <1>3, <1>4, <1>5

\* Before the first frame the ring is empty.
LEMMA DisplayInit == Init => DisplayInv
  BY RecordingAssumption DEF Init, Delivery!Init, DisplayInv, DisplayTyped, InOrder,
     Delivery!DeliveryAssumption

-----------------------------------------------------------------------------
\* What is recorded is what was displayed.
RecordsInv == DisplayInv /\ accepted \in Seq(Frames) /\ RecordsWhatIsShown

\* What appending an element to a sequence leaves as it was, and what it adds.
LEMMA AppendLaw ==
  ASSUME NEW S, NEW s \in Seq(S), NEW x \in S
  PROVE  /\ Append(s, x) \in Seq(S) /\ Len(Append(s, x)) = Len(s) + 1 /\ Len(s) \in Nat
         /\ DOMAIN Append(s, x) = 1 .. Len(s) + 1
         /\ \A i \in 1 .. Len(s) : Append(s, x)[i] = s[i]
         /\ Append(s, x)[Len(s) + 1] = x
  OBVIOUS

\* Every frame that is recorded is newer than the last one: only what is shown
\* for the first time is offered, and the ring hands frames out in order.
LEMMA RecordsStep == RecordsInv /\ [Next]_vars => RecordsInv'
<1> SUFFICES ASSUME RecordsInv, [Next]_vars PROVE RecordsInv'
  OBVIOUS
<1> USE DEF RecordsInv
<1>1. DisplayInv'
  BY DisplayStep
<1>2. /\ shown \in Nat /\ shown' \in Nat /\ latest \in Nat /\ shown <= latest
      /\ accepted \in Seq(Frames) /\ DOMAIN accepted = 1 .. Len(accepted) /\ Len(accepted) \in Nat
  BY <1>1 DEF DisplayInv, DisplayTyped, InOrder
<1>3. \A i \in 1 .. Len(accepted) : accepted[i] \in Frames /\ accepted[i].id \in Nat
  BY <1>2, FrameAssumption
<1>4. CASE ShowAndRecord /\ open /\ latest # shown
  <2>1. PICK f \in Frames : f.id = latest /\ Writer!Write(f)
    BY <1>4 DEF ShowAndRecord
  <2>2. accepted' = Append(accepted, f) /\ UNCHANGED open /\ shown' = latest
    BY <1>4, <2>1 DEF Writer!Write, ShowAndRecord, Delivery!EndDrain
  <2>3. /\ accepted' \in Seq(Frames) /\ Len(accepted') = Len(accepted) + 1
        /\ DOMAIN accepted' = 1 .. Len(accepted) + 1
        /\ \A i \in 1 .. Len(accepted) : accepted'[i] = accepted[i]
        /\ accepted'[Len(accepted) + 1] = f
    BY <1>2, <2>2, AppendLaw
  <2>4. \A i \in 1 .. Len(accepted) : accepted[i].id < latest
    BY <1>2, <1>3, <1>4 DEF RecordsWhatIsShown
  <2>5. ASSUME NEW i \in DOMAIN accepted', NEW j \in DOMAIN accepted', i < j
        PROVE  accepted'[i].id < accepted'[j].id
    <3>1. i \in 1 .. Len(accepted) /\ accepted'[i] = accepted[i]
      BY <1>2, <2>3, <2>5
    <3>2. CASE j = Len(accepted) + 1
      BY <3>1, <3>2, <2>3, <2>4, <2>1
    <3>3. CASE j # Len(accepted) + 1
      <4>1. j \in 1 .. Len(accepted) /\ accepted'[j] = accepted[j]
        BY <1>2, <2>3, <3>3
      <4> QED
        BY <1>2, <2>5, <3>1, <4>1 DEF RecordsWhatIsShown
    <3> QED
      BY <3>2, <3>3
  <2>6. ASSUME NEW i \in DOMAIN accepted' PROVE accepted'[i].id <= shown'
    <3>1. CASE i = Len(accepted) + 1
      BY <3>1, <2>1, <2>2, <2>3, <1>2
    <3>2. CASE i # Len(accepted) + 1
      <4>1. i \in 1 .. Len(accepted)
        BY <3>2, <2>3, <1>2
      <4> QED
        BY <4>1, <2>2, <2>3, <2>4, <1>2, <1>3
    <3> QED
      BY <3>1, <3>2
  <2>7. accepted'[Len(accepted')].id = shown'
    BY <2>1, <2>2, <2>3
  <2> QED
    BY <1>1, <2>3, <2>5, <2>6, <2>7 DEF RecordsWhatIsShown
<1>5. CASE ShowAndRecord /\ ~(open /\ latest # shown)
  <2>1. UNCHANGED <<accepted, open>> /\ shown' = latest
    BY <1>5 DEF ShowAndRecord, Delivery!EndDrain, writerVars
  <2> QED
    BY <1>1, <1>2, <1>3, <1>5, <2>1 DEF RecordsWhatIsShown
<1>6. CASE accepted' = <<>>
  BY <1>1, <1>6 DEF RecordsWhatIsShown
<1>7. CASE UNCHANGED <<accepted, shown>> /\ (open' => open)
  BY <1>1, <1>7 DEF RecordsWhatIsShown
<1>8. ShowAndRecord \/ accepted' = <<>> \/ (UNCHANGED <<accepted, shown>> /\ (open' => open))
  BY DEF Next, StartRecording, StartRefused, StopRecording, Disk, Publish, Announce, Flush, BeginShow, Tick,
     Beside, Delivery!PublishFrame, Delivery!PostWake, Delivery!PostCallback, Delivery!Flush,
     Delivery!RunWake, Delivery!TakeFrame, Delivery!Tick, deliveryVars, writerVars, vars,
     Writer!OpenFile, Writer!BeginClose, Writer!Worker, Writer!AppendFrame, Writer!AppendFails,
     Writer!SkipFrame, Writer!FinishClose, Writer!Seal, Writer!SealFails, Writer!CloseFailed,
     Writer!EndClose, Writer!OpenRefused, Writer!HeaderFails
<1> QED
  BY <1>4, <1>5, <1>6, <1>7, <1>8

\* _onFrame() and startRecording(): a recording is never out of order, and holds
\* no acquisition twice, however the drain and the acquisition race.
THEOREM RecordingRecordsWhatIsShown == Spec => []RecordsWhatIsShown
<1>1. Init => RecordsInv
  BY DisplayInit DEF Init, Writer!Init, RecordsInv, RecordsWhatIsShown
<1>2. RecordsInv => RecordsWhatIsShown
  BY DEF RecordsInv
<1>3. QED
  BY <1>1, <1>2, RecordsStep, PTL DEF Spec

-----------------------------------------------------------------------------
\* The wake.  One that is posted, or about to be, keeps m_wakePending up, and the
\* store that lowers it is made by the callback alone, so no second one is posted
\* before the first has run and the store has become visible.
WakeInv == /\ wakes \in {0, 1} /\ publisher \in {"capture", "wake", "post"}
           /\ wakePending \in BOOLEAN /\ clearing \in BOOLEAN
           /\ publisher = "post" => wakes = 0
           /\ publisher = "post" \/ wakes = 1 => wakePending /\ ~clearing
           /\ clearing => wakePending

\* The drain.  The ring ends with the newest frame, so when it is empty the newest
\* frame has been taken, and that is no older than the newest when the drain began.
CatchUpInv == /\ published <= MaxFrames /\ MaxFrames \in Nat /\ Len(ready) <= Depth
              /\ draining \in BOOLEAN /\ target \in Nat /\ target <= published
              /\ IF ready = <<>> THEN latest = published ELSE ready[Len(ready)] = published

\* The steps that concern the two.
LEMMA DeliverySteps ==
  ASSUME [Next]_vars
  PROVE  \/ Delivery!PublishFrame \/ Delivery!PostWake \/ Delivery!PostCallback
         \/ Delivery!Flush \/ Delivery!RunWake \/ Delivery!TakeFrame \/ Delivery!Tick
         \/ Delivery!EndDrain \/ UNCHANGED deliveryVars
  BY DEF Next, StartRecording, StartRefused, StopRecording, ShowAndRecord, Disk, Publish, Announce,
     Flush, BeginShow, Tick, Beside, deliveryVars, vars

\* One wake at a time.
LEMMA WakeStep == WakeInv /\ [Next]_vars => WakeInv'
<1> SUFFICES ASSUME WakeInv, [Next]_vars PROVE WakeInv'
  OBVIOUS
<1> USE DEF WakeInv
<1>1. CASE Delivery!PublishFrame
  BY <1>1 DEF Delivery!PublishFrame
<1>2. CASE Delivery!PostWake
  BY <1>2 DEF Delivery!PostWake
<1>3. CASE Delivery!PostCallback
  BY <1>3 DEF Delivery!PostCallback
<1>4. CASE Delivery!Flush
  BY <1>4 DEF Delivery!Flush
<1>5. CASE Delivery!RunWake
  BY <1>5 DEF Delivery!RunWake
<1>6. CASE Delivery!TakeFrame
  BY <1>6 DEF Delivery!TakeFrame
<1>7. CASE Delivery!Tick
  BY <1>7 DEF Delivery!Tick
<1>8. CASE Delivery!EndDrain
  BY <1>8 DEF Delivery!EndDrain
<1>9. CASE UNCHANGED deliveryVars
  BY <1>9 DEF deliveryVars
<1>10. QED
  BY <1>1, <1>2, <1>3, <1>4, <1>5, <1>6, <1>7, <1>8, <1>9, DeliverySteps

\* The newest frame is at the end of the ring, or shown next.
LEMMA CatchUpStep == DisplayInv /\ CatchUpInv /\ [Next]_vars => CatchUpInv'
<1> SUFFICES ASSUME DisplayInv, CatchUpInv, [Next]_vars PROVE CatchUpInv'
  OBVIOUS
<1>0. /\ published \in Nat /\ latest \in Nat /\ ready \in Seq(Nat) /\ Depth \in Nat \ {0}
      /\ Len(ready) \in Nat
  BY DEF DisplayInv, DisplayTyped
<1> USE DEF CatchUpInv
<1>1. CASE Delivery!PublishFrame
  <2> DEFINE kept == IF Len(ready) = Depth THEN Tail(ready) ELSE ready
  <2>1. published' = published + 1 /\ ready' = Append(kept, published + 1) /\ published < MaxFrames
        /\ UNCHANGED <<latest, draining, target>>
    BY <1>1 DEF Delivery!PublishFrame
  <2>2. kept \in Seq(Nat) /\ Len(kept) < Depth
    <3>1. CASE Len(ready) = Depth
      <4>1. ready # <<>>
        BY <1>0, <3>1
      <4>2. Tail(ready) \in Seq(Nat) /\ Len(Tail(ready)) = Len(ready) - 1
        BY <1>0, <4>1, HeadTailProperties
      <4>3. QED
        BY <1>0, <3>1, <4>2
    <3>2. CASE Len(ready) # Depth
      BY <1>0, <3>2
    <3>3. QED
      BY <3>1, <3>2
  <2> HIDE DEF kept
  <2>3. /\ Len(ready') = Len(kept) + 1 /\ Len(kept) \in Nat /\ ready' # <<>>
        /\ ready'[Len(kept) + 1] = published + 1
    BY <1>0, <2>1, <2>2, AppendLaw
  <2>4. QED
    BY <1>0, <2>1, <2>2, <2>3
<1>2. CASE Delivery!TakeFrame
  <2>1. ready # <<>> /\ latest' = Head(ready) /\ ready' = Tail(ready)
        /\ UNCHANGED <<published, draining, target>>
    BY <1>2 DEF Delivery!TakeFrame
  <2>2. /\ ready' \in Seq(Nat) /\ Len(ready') = Len(ready) - 1 /\ Len(ready) \in Nat \ {0}
        /\ \A i \in 1 .. Len(ready') : ready'[i] = ready[i + 1]
        /\ Head(ready) = ready[1]
    BY <1>0, <2>1, HeadTailProperties
  <2>3. CASE ready' = <<>>
    <3>1. Len(ready) = 1
      BY <2>2, <2>3
    <3>2. latest' = published' /\ Len(ready') = 0
      BY <2>1, <2>2, <3>1
    <3>3. QED
      BY <1>0, <2>1, <2>3, <3>2
  <2>4. CASE ready' # <<>>
    <3>1. Len(ready') \in 1 .. Len(ready') /\ Len(ready') + 1 = Len(ready)
      BY <2>2, <2>4
    <3>2. QED
      BY <1>0, <2>1, <2>2, <2>4, <3>1
  <2>5. QED
    BY <2>3, <2>4
<1>3. CASE Delivery!EndDrain
  BY <1>3 DEF Delivery!EndDrain
<1>4. CASE Delivery!RunWake \/ Delivery!Tick
  <2>1. target' = published /\ draining' = TRUE /\ UNCHANGED <<published, ready, latest>>
    BY <1>4 DEF Delivery!RunWake, Delivery!Tick
  <2>2. QED
    BY <1>0, <2>1
<1>5. CASE Delivery!PostWake \/ Delivery!PostCallback \/ Delivery!Flush \/ UNCHANGED deliveryVars
  BY <1>5 DEF Delivery!PostWake, Delivery!PostCallback, Delivery!Flush, deliveryVars
<1>6. QED
  BY <1>1, <1>2, <1>3, <1>4, <1>5, DeliverySteps

\* Nothing is posted and nothing is in the ring to begin with.
LEMMA DeliveryInit == Init => WakeInv /\ CatchUpInv
<1> SUFFICES ASSUME Init PROVE WakeInv /\ CatchUpInv
  OBVIOUS
<1>1. MaxFrames \in Nat /\ Depth \in Nat \ {0}
  BY RecordingAssumption DEF Delivery!DeliveryAssumption
<1>2. /\ published = 0 /\ ready = <<>> /\ publisher = "capture" /\ wakePending = FALSE
      /\ clearing = FALSE /\ wakes = 0 /\ draining = FALSE /\ latest = 0 /\ target = 0
  BY DEF Init, Delivery!Init
<1>3. WakeInv
  <2>1. wakes \in {0, 1} /\ publisher # "post" /\ wakes # 1 /\ publisher \in {"capture", "wake", "post"}
    BY <1>2
  <2>2. wakePending \in BOOLEAN /\ clearing \in BOOLEAN /\ ~clearing
    BY <1>2
  <2>3. QED
    BY <2>1, <2>2 DEF WakeInv
<1>4. Len(ready) = 0 /\ published \in Nat /\ published <= MaxFrames /\ Len(ready) <= Depth
      /\ target \in Nat /\ target <= published
  BY <1>1, <1>2
<1>5. CatchUpInv
  BY <1>1, <1>2, <1>4 DEF CatchUpInv
<1>6. QED
  BY <1>3, <1>5

\* Both hold throughout, beside a writer and without one.
LEMMA DeliveryInvariant == Spec => [](DisplayInv /\ WakeInv /\ CatchUpInv)
<1>1. Init => DisplayInv /\ WakeInv /\ CatchUpInv
  BY DisplayInit, DeliveryInit
<1>2. DisplayInv /\ WakeInv /\ CatchUpInv /\ [Next]_vars => (DisplayInv /\ WakeInv /\ CatchUpInv)'
  BY DisplayStep, WakeStep, CatchUpStep
<1>3. QED
  BY <1>1, <1>2, PTL DEF Spec

\* At most one wake is outstanding, whatever order the callback's store and the
\* loads behind it become visible in; and the ring holds no more than the pool.
THEOREM RecordingOneWakeOutstanding == Spec => []OneWakeOutstanding
<1>1. DisplayInv /\ WakeInv /\ CatchUpInv => OneWakeOutstanding
  <2> SUFFICES ASSUME DisplayInv, WakeInv, CatchUpInv PROVE OneWakeOutstanding
    OBVIOUS
  <2>1. /\ published \in Nat /\ latest \in Nat /\ shown \in Nat /\ ready \in Seq(Nat)
        /\ published <= MaxFrames /\ MaxFrames \in Nat /\ Len(ready) <= Depth
        /\ latest <= published /\ shown <= latest
        /\ \A i \in 1 .. Len(ready) : latest < ready[i] /\ ready[i] <= published
    BY DEF DisplayInv, DisplayTyped, InOrder, CatchUpInv
  <2>2. ready \in Seq(1 .. MaxFrames)
    <3>1. \A i \in 1 .. Len(ready) : ready[i] \in 1 .. MaxFrames
      <4>1. \A i \in 1 .. Len(ready) : ready[i] \in Nat
        BY <2>1
      <4>2. QED
        BY <2>1, <4>1
    <3>2. ready \in [1 .. Len(ready) -> 1 .. MaxFrames] /\ Len(ready) \in Nat
      BY <2>1, <3>1, LenProperties
    <3>3. ASSUME NEW n \in Nat, NEW S, NEW r \in [1 .. n -> S] PROVE r \in Seq(S)
      OBVIOUS
    <3>4. QED
      BY <3>2, <3>3
  <2>3. Delivery!TypeOK
    BY <2>1, <2>2 DEF Delivery!TypeOK, WakeInv, CatchUpInv
  <2>4. Delivery!OneWakeOutstanding
    BY DEF Delivery!OneWakeOutstanding, WakeInv
  <2>5. QED
    BY <2>3, <2>4 DEF OneWakeOutstanding
<1>2. QED
  BY <1>1, DeliveryInvariant, PTL

\* A drain that ends has shown everything that was published before it began, or
\* something newer, although frames go on being published while it runs.
THEOREM RecordingDrainCatchesUp == Spec => DrainCatchesUp
<1>1. DisplayInv /\ CatchUpInv /\ [Next]_vars
        => [draining /\ ~draining' => shown' >= target]_(Delivery!vars)
  <2> SUFFICES ASSUME DisplayInv, CatchUpInv, [Next]_vars, draining, ~draining'
               PROVE  shown' >= target
    OBVIOUS
  <2>1. CASE Delivery!EndDrain
    BY <2>1 DEF Delivery!EndDrain, CatchUpInv, DisplayInv, DisplayTyped
  <2>2. CASE UNCHANGED deliveryVars
    BY <2>2 DEF deliveryVars
  <2>3. QED
    BY <2>1, <2>2, DeliverySteps DEF Delivery!PublishFrame, Delivery!PostWake,
       Delivery!PostCallback, Delivery!Flush, Delivery!RunWake, Delivery!TakeFrame, Delivery!Tick
<1>2. QED
  BY <1>1, DeliveryInvariant, PTL DEF Spec, DrainCatchesUp, Delivery!DrainCatchesUp

-----------------------------------------------------------------------------
\* The writer.  Between calls the stream is closed, or has failed; what is open is
\* on a stream, and what has failed was reported.
Entries == [at : Nat, time : {f.time : f \in Frames}]
Units   == {Writer!FileHeader, Writer!Json}
           \cup {Writer!Rec(f) : f \in Frames} \cup {Writer!FrameHeader(f) : f \in Frames}
           \cup {[kind |-> "samples", frame |-> f, block |-> b] : f \in Frames, b \in Nat}
           \cup {Writer!Index(n) : n \in Nat} \cup {Writer!Footer(n) : n \in Nat}
           \cup {Writer!Entry(e) : e \in Entries}
OnDisk  == disk \in Seq(Units) /\ buffer \in Seq(Units)
Streams == /\ open => stream # "closed"
           /\ closing => open
           /\ ~open => queue = <<>>
           /\ stream = "good" => open
           /\ stream = "bad" => errors > 0

\* What was taken is indexed or waits, in the order it was taken.
Kept == /\ Len(index) + Len(queue) = Len(accepted)
        /\ \A j \in 1 .. Len(queue) : queue[j] = accepted[Len(index) + j]
WriterTyped == Writer!TypeOK /\ pending = Len(queue)
WriterInv == /\ WriterTyped /\ OnDisk /\ Streams
             /\ stream = "good" \/ errors = 0 => Kept

\* The steps of the writer in the application.
Writes == \/ Writer!OpenFile \/ Writer!OpenRefused \/ Writer!HeaderFails \/ Writer!BeginClose
          \/ (\E f \in Frames : Writer!Write(f)) \/ Writer!AppendFrame \/ Writer!AppendFails
          \/ Writer!SkipFrame \/ Writer!Seal \/ Writer!SealFails \/ Writer!CloseFailed

\* A step of the program is a step of the writer, or leaves the writer alone.
LEMMA WriterSteps == [Next]_vars => Writes \/ UNCHANGED writerVars
  BY DEF Next, StartRecording, StartRefused, StopRecording, ShowAndRecord, Disk, Publish, Announce,
     Flush, BeginShow, Tick, Beside, writerVars, vars, Writes, Writer!Worker, Writer!FinishClose

\* The types the proofs about the file use most.
LEMMA Sequences ==
  ASSUME WriterTyped
  PROVE  /\ queue \in Seq(Frames) /\ accepted \in Seq(Frames) /\ index \in Seq(Entries)
         /\ Len(queue) \in Nat /\ Len(accepted) \in Nat /\ Len(index) \in Nat
         /\ pending \in Nat /\ errors \in Nat
  BY DEF WriterTyped, Writer!TypeOK, Entries

\* A frame is on file its record header, its frame header and its blocks of
\* samples.
LEMMA FrameUnitsTyped ==
  ASSUME NEW f \in Frames
  PROVE  /\ Writer!FrameUnits(f) \in Seq(Units)
         /\ Len(Writer!FrameUnits(f)) = 2 + f.size
         /\ Writer!FrameUnits(f)[1] = Writer!Rec(f)
         /\ Writer!FrameUnits(f)[2] = Writer!FrameHeader(f)
<1>1. f.size \in Nat
  BY FrameAssumption
<1>2. Writer!Samples(f) \in Seq(Units) /\ Len(Writer!Samples(f)) = f.size
  <2>1. \A b \in 1 .. f.size : [kind |-> "samples", frame |-> f, block |-> b] \in Units
    BY <1>1 DEF Units
  <2>2. Writer!Samples(f) \in [1 .. f.size -> Units]
    BY <2>1 DEF Writer!Samples
  <2> QED
    BY <1>1, <2>2
<1>3. Writer!Rec(f) \in Units /\ Writer!FrameHeader(f) \in Units
  BY DEF Units
<1>4. /\ <<Writer!Rec(f), Writer!FrameHeader(f)>> \in Seq(Units)
      /\ Len(<<Writer!Rec(f), Writer!FrameHeader(f)>>) = 2
  BY <1>3
<1> QED
  BY <1>1, <1>2, <1>4, ConcatProperties DEF Writer!FrameUnits

\* A stream loses nothing while it is good, and keeps a part when it fails.
LEMMA PutLaw ==
  ASSUME OnDisk, NEW units \in Seq(Units), NEW n \in Int, Writer!Put(units, n)
  PROVE  OnDisk' /\ disk' \o buffer' = (disk \o buffer) \o units /\ UNCHANGED stream
<1> DEFINE all == buffer \o units
<1>1. all \in Seq(Units) /\ Len(all) \in Nat
  BY ConcatProperties DEF OnDisk
<1> HIDE DEF all
<1>2. /\ n \in 0 .. Len(all)
      /\ disk' = disk \o SubSeq(all, 1, n) /\ buffer' = SubSeq(all, n + 1, Len(all))
      /\ UNCHANGED stream
  BY DEF Writer!Put, all
<1>3. SubSeq(all, 1, n) \in Seq(Units) /\ SubSeq(all, n + 1, Len(all)) \in Seq(Units)
  <2>1. \A i \in 1 .. Len(all) : all[i] \in Units
    BY <1>1
  <2> QED
    BY <1>1, <1>2, <2>1, SubSeqProperties
<1>4. OnDisk'
  BY <1>2, <1>3, ConcatProperties DEF OnDisk
<1>5. SubSeq(all, 1, n) \o SubSeq(all, n + 1, Len(all)) = all
  <2>1. SubSeq(all, 1, n) \o SubSeq(all, n + 1, Len(all)) = SubSeq(all, 1, Len(all))
    <3>1. 1 \in 1 .. Len(all) + 1 /\ n \in 1 - 1 .. Len(all) /\ Len(all) \in n .. Len(all)
      BY <1>1, <1>2
    <3> QED
      BY <1>1, <3>1, ConcatAdjacentSubSeq
  <2> QED
    BY <1>1, <2>1, SubSeqFull
<1>6. disk' \o buffer' = disk \o all
  <2> DEFINE there == SubSeq(all, 1, n)
             rest  == SubSeq(all, n + 1, Len(all))
  <2>1. disk \in Seq(Units) /\ there \in Seq(Units) /\ rest \in Seq(Units)
    BY <1>3 DEF OnDisk
  <2>2. disk' = disk \o there /\ buffer' = rest /\ there \o rest = all
    BY <1>2, <1>5
  <2> HIDE DEF there, rest
  <2>3. (disk \o there) \o rest = disk \o (there \o rest)
    BY <2>1, ConcatAssociative
  <2> QED
    BY <2>2, <2>3
<1>7. disk \o all = (disk \o buffer) \o units
  BY ConcatAssociative DEF OnDisk, all
<1> QED
  BY <1>2, <1>4, <1>6, <1>7

\* A write that fails leaves what is on the disk and in the buffer one sequence.
LEMMA PutFailsLaw ==
  ASSUME OnDisk, NEW units \in Seq(Units), NEW n \in Int, Writer!PutFails(units, n)
  PROVE  OnDisk' /\ stream' = "bad"
<1> DEFINE all == buffer \o units
<1>1. all \in Seq(Units) /\ Len(all) \in Nat
  BY ConcatProperties DEF OnDisk
<1> HIDE DEF all
<1>2. /\ n \in 0 .. Len(all) - 1
      /\ disk' = disk \o SubSeq(all, 1, n) /\ buffer' = <<>> /\ stream' = "bad"
  BY DEF Writer!PutFails, all
<1>3. SubSeq(all, 1, n) \in Seq(Units)
  <2>1. \A i \in 1 .. Len(all) : all[i] \in Units
    BY <1>1
  <2> QED
    BY <1>1, <1>2, <2>1, SubSeqProperties
<1> QED
  BY <1>2, <1>3, ConcatProperties DEF OnDisk

\* What is on a good stream: the header, and a frame where each entry says.
Headed(file)  == Len(file) >= 2 /\ file[1] = Writer!FileHeader /\ file[2] = Writer!Json
Pointed(file) == \A i \in 1 .. Len(index) :
                   /\ index[i].at + 2 <= Len(file)
                   /\ file[index[i].at + 2] = Writer!FrameHeader(accepted[i])
Placed == stream = "good" => Headed(disk \o buffer) /\ Pointed(disk \o buffer)

\* A file that ends in its index and its footer.
Ended(at) == /\ Len(disk) = at + 2 + Len(index)
             /\ disk[at + 1] = Writer!Index(Len(index))
             /\ \A i \in 1 .. Len(index) : disk[at + 1 + i] = Writer!Entry(index[i])
             /\ disk[Len(disk)] = Writer!Footer(at)
Whole == sealed => /\ stream = "closed" /\ ~open /\ Len(index) = Len(accepted)
                   /\ Headed(disk) /\ Pointed(disk)
                   /\ \E at \in Nat : Ended(at)
FileInv == WriterInv /\ Placed /\ Whole

\* A trailer is the index record, its entries in order, and the footer.
LEMMA TrailerLaw ==
  ASSUME NEW entries \in Seq(Entries), NEW at \in Nat
  PROVE  /\ Writer!Trailer(entries, at) \in Seq(Units)
         /\ Len(Writer!Trailer(entries, at)) = 2 + Len(entries)
         /\ Writer!Trailer(entries, at)[1] = Writer!Index(Len(entries))
         /\ \A i \in 1 .. Len(entries) : Writer!Trailer(entries, at)[1 + i] = Writer!Entry(entries[i])
         /\ Writer!Trailer(entries, at)[2 + Len(entries)] = Writer!Footer(at)
<1> DEFINE head   == <<Writer!Index(Len(entries))>>
           middle == [i \in DOMAIN entries |-> Writer!Entry(entries[i])]
           last   == <<Writer!Footer(at)>>
<1>1. Len(entries) \in Nat /\ DOMAIN entries = 1 .. Len(entries)
      /\ \A i \in 1 .. Len(entries) : entries[i] \in Entries
  OBVIOUS
<1>2. head \in Seq(Units) /\ Len(head) = 1 /\ head[1] = Writer!Index(Len(entries))
  <2>1. Writer!Index(Len(entries)) \in Units
    BY <1>1 DEF Units
  <2> QED
    BY <2>1
<1>3. last \in Seq(Units) /\ Len(last) = 1 /\ last[1] = Writer!Footer(at)
  <2>1. Writer!Footer(at) \in Units
    BY DEF Units
  <2> QED
    BY <2>1
<1>4. middle \in Seq(Units) /\ Len(middle) = Len(entries)
      /\ \A i \in 1 .. Len(entries) : middle[i] = Writer!Entry(entries[i])
  <2>1. \A i \in 1 .. Len(entries) : Writer!Entry(entries[i]) \in Units
    BY <1>1 DEF Units
  <2>2. middle \in [1 .. Len(entries) -> Units]
    BY <1>1, <2>1
  <2> QED
    BY <1>1, <2>2
<1>5. Writer!Trailer(entries, at) = (head \o middle) \o last
  BY DEF Writer!Trailer
<1> HIDE DEF head, middle, last
<1>6. /\ head \o middle \in Seq(Units)
      /\ Len(head \o middle) = Len(head) + Len(middle)
      /\ \A i \in 1 .. Len(head) + Len(middle) :
           (head \o middle)[i] = IF i <= Len(head) THEN head[i] ELSE middle[i - Len(head)]
  <2>1. head \in Seq(Units) /\ middle \in Seq(Units)
    BY <1>2, <1>4
  <2> QED
    BY <2>1, ConcatProperties
<1> DEFINE front == head \o middle
<1>7. front \in Seq(Units) /\ Len(front) = 1 + Len(entries)
      /\ front[1] = Writer!Index(Len(entries))
      /\ \A i \in 1 .. Len(entries) : front[1 + i] = Writer!Entry(entries[i])
  BY <1>1, <1>2, <1>4, <1>6
<1> HIDE DEF front
<1>8. /\ front \o last \in Seq(Units)
      /\ Len(front \o last) = Len(front) + Len(last)
      /\ \A i \in 1 .. Len(front) + Len(last) :
           (front \o last)[i] = IF i <= Len(front) THEN front[i] ELSE last[i - Len(front)]
  BY <1>3, <1>7, ConcatProperties
<1>9. Writer!Trailer(entries, at) = front \o last
  BY <1>5 DEF front
<1> QED
  BY <1>1, <1>3, <1>7, <1>8, <1>9


\* tellp() is the length of what is on the disk and in the buffer together.
LEMMA FileTyped ==
  ASSUME OnDisk
  PROVE  /\ disk \in Seq(Units) /\ Len(disk) \in Nat /\ Len(buffer) \in Nat
         /\ disk \o buffer \in Seq(Units) /\ Len(disk \o buffer) = Writer!Tellp
         /\ Writer!Tellp \in Nat
  BY ConcatProperties DEF OnDisk, Writer!Tellp

\* A file that grows keeps what its entries point at.
LEMMA GrownLaw ==
  ASSUME NEW file \in Seq(Units), NEW more \in Seq(Units)
  PROVE  /\ file \o more \in Seq(Units) /\ Len(file \o more) = Len(file) + Len(more)
         /\ Len(file) \in Nat /\ Len(more) \in Nat
         /\ \A i \in 1 .. Len(file) : (file \o more)[i] = file[i]
         /\ \A i \in 1 .. Len(more) : (file \o more)[Len(file) + i] = more[i]
  BY ConcatProperties

-----------------------------------------------------------------------------
\* Every step of the writer keeps the file in order.
LEMMA OpenSteps ==
  FileInv /\ (Writer!OpenFile \/ Writer!OpenRefused \/ Writer!HeaderFails) => FileInv'
<1> SUFFICES ASSUME FileInv PROVE (Writer!OpenFile \/ Writer!OpenRefused \/ Writer!HeaderFails) => FileInv'
  OBVIOUS
<1>1. /\ WriterTyped /\ OnDisk /\ Streams /\ Placed /\ Whole
      /\ stream = "good" \/ errors = 0 => Kept
  BY DEF FileInv, WriterInv
<1>2. /\ queue \in Seq(Frames) /\ accepted \in Seq(Frames) /\ index \in Seq(Entries)
      /\ errors \in Nat /\ opens \in 0 .. MaxOpens /\ MaxOpens \in Nat
  BY <1>1, Sequences, RecordingAssumption DEF WriterTyped, Writer!TypeOK, Writer!WriterAssumption
<1>3. Writer!FileHeader \in Units /\ Writer!Json \in Units
  BY DEF Units
<1>4. <<>> \in Seq(Frames) /\ <<>> \in Seq(Entries) /\ Len(<<>>) = 0
  OBVIOUS
<1>5. ASSUME Writer!OpenFile PROVE FileInv'
  <2>1. /\ ~open /\ opens < MaxOpens /\ opens' = opens + 1
        /\ disk' = <<Writer!FileHeader, Writer!Json>> /\ buffer' = <<>> /\ stream' = "good"
        /\ open' = TRUE /\ index' = <<>> /\ pending' = 0 /\ backlogReported' = FALSE
        /\ accepted' = <<>> /\ errors' = 0 /\ sealed' = FALSE
        /\ UNCHANGED <<queue, closing>>
    BY <1>5 DEF Writer!OpenFile
  <2>2. queue = <<>>
    BY <1>1, <2>1 DEF Streams
  <2>3. WriterTyped'
    <3>1. opens' \in 0 .. MaxOpens
      BY <1>2, <2>1
    <3> QED
      BY <1>1, <1>2, <1>4, <2>1, <2>2, <3>1 DEF WriterTyped, Writer!TypeOK, Entries
  <2>4. OnDisk'
    BY <1>3, <2>1 DEF OnDisk
  <2>5. Streams' /\ Kept' /\ Whole'
    BY <1>1, <2>1, <2>2 DEF Streams, Kept, Whole
  <2>6. disk' \o buffer' = <<Writer!FileHeader, Writer!Json>>
    <3>1. <<Writer!FileHeader, Writer!Json>> \in Seq(Units)
      BY <1>3
    <3> QED
      BY <2>1, <3>1, ConcatEmptySeq
  <2>7. Placed'
    BY <2>1, <2>6 DEF Placed, Headed, Pointed
  <2> QED
    BY <2>3, <2>4, <2>5, <2>7 DEF FileInv, WriterInv
<1>6. ASSUME Writer!OpenRefused PROVE FileInv'
  <2>1. /\ opens < MaxOpens /\ opens' = opens + 1 /\ errors' = errors + 1
        /\ UNCHANGED <<disk, buffer, stream, open, queue, index, pending, backlogReported,
                       closing, accepted, sealed>>
    BY <1>6 DEF Writer!OpenRefused, Writer!fileVars
  <2>2. WriterTyped'
    BY <1>1, <1>2, <2>1 DEF WriterTyped, Writer!TypeOK
  <2>3. OnDisk' /\ Streams'
    BY <1>1, <1>2, <2>1 DEF OnDisk, Streams
  <2>4. (stream = "good" \/ errors = 0 => Kept)'
    BY <1>1, <1>2, <2>1 DEF Kept
  <2>5. Placed' /\ Whole'
    BY <1>1, <2>1 DEF Placed, Whole, Headed, Pointed, Ended
  <2> QED
    BY <2>2, <2>3, <2>4, <2>5 DEF FileInv, WriterInv
<1>7. ASSUME Writer!HeaderFails PROVE FileInv'
  <2>1. /\ stream = "closed" /\ opens < MaxOpens /\ opens' = opens + 1 /\ errors' = errors + 1
        /\ accepted' = <<>> /\ sealed' = FALSE
        /\ UNCHANGED <<buffer, stream, open, queue, index, pending, backlogReported, closing>>
    BY <1>7 DEF Writer!HeaderFails
  <2>2. disk' = <<>> \/ disk' = <<Writer!FileHeader>>
    BY <1>7 DEF Writer!HeaderFails
  <2>3. WriterTyped'
    <3>1. opens' \in 0 .. MaxOpens /\ errors' \in Nat
      BY <1>2, <2>1
    <3>2. accepted' \in Seq(Frames) /\ sealed' \in BOOLEAN
      BY <1>4, <2>1
    <3>3. UNCHANGED <<stream, open, queue, index, pending, backlogReported, closing>>
      BY <2>1
    <3> QED
      BY <1>1, <3>1, <3>2, <3>3 DEF WriterTyped, Writer!TypeOK
  <2>4. OnDisk'
    <3>1. <<>> \in Seq(Units) /\ <<Writer!FileHeader>> \in Seq(Units)
      BY <1>3
    <3> QED
      BY <1>1, <2>1, <2>2, <3>1 DEF OnDisk
  <2>5. Streams' /\ Placed' /\ Whole' /\ (stream = "good" \/ errors = 0 => Kept)'
    BY <1>1, <1>2, <2>1 DEF Streams, Placed, Whole
  <2> QED
    BY <2>3, <2>4, <2>5 DEF FileInv, WriterInv
<1> QED
  BY <1>5, <1>6, <1>7

\* write() accepts a frame or drops it at a full backlog.
LEMMA WriteStep == ASSUME FileInv, NEW f \in Frames, Writer!Write(f) PROVE FileInv'
<1>1. /\ WriterTyped /\ OnDisk /\ Streams /\ Placed /\ Whole
      /\ stream = "good" \/ errors = 0 => Kept
  BY DEF FileInv, WriterInv
<1>2. /\ queue \in Seq(Frames) /\ accepted \in Seq(Frames) /\ index \in Seq(Entries)
      /\ Len(queue) \in Nat /\ Len(accepted) \in Nat /\ Len(index) \in Nat
      /\ errors \in Nat /\ pending \in Nat
  BY <1>1, Sequences
<1>3. /\ open /\ accepted' = Append(accepted, f) /\ queue' = Append(queue, f)
      /\ pending' = pending + 1 /\ errors' \in {errors, errors + 1}
      /\ backlogReported' \in BOOLEAN
      /\ UNCHANGED <<disk, buffer, stream, open, index, closing, opens, sealed>>
  BY <1>1, <1>2 DEF Writer!Write, Writer!fileVars, WriterTyped, Writer!TypeOK
<1>4. /\ queue' \in Seq(Frames) /\ Len(queue') = Len(queue) + 1
      /\ \A j \in 1 .. Len(queue) : queue'[j] = queue[j]
      /\ queue'[Len(queue) + 1] = f
  BY <1>2, <1>3, AppendLaw
<1>5. /\ accepted' \in Seq(Frames) /\ Len(accepted') = Len(accepted) + 1
      /\ \A j \in 1 .. Len(accepted) : accepted'[j] = accepted[j]
      /\ accepted'[Len(accepted) + 1] = f
  BY <1>2, <1>3, AppendLaw
<1>6. WriterTyped'
  BY <1>1, <1>2, <1>3, <1>4, <1>5 DEF WriterTyped, Writer!TypeOK
<1>7. OnDisk' /\ Streams'
  BY <1>1, <1>2, <1>3 DEF OnDisk, Streams
<1>8. ASSUME Kept PROVE Kept'
  <2>1. ASSUME NEW j \in 1 .. Len(queue') PROVE queue'[j] = accepted'[Len(index) + j]
    <3>1. CASE j = Len(queue) + 1
      BY <1>2, <1>4, <1>5, <1>8, <3>1 DEF Kept
    <3>2. CASE j # Len(queue) + 1
      <4>1. j \in 1 .. Len(queue) /\ Len(index) + j \in 1 .. Len(accepted)
        BY <1>2, <1>4, <1>8, <3>2 DEF Kept
      <4> QED
        BY <1>4, <1>5, <1>8, <4>1 DEF Kept
    <3> QED
      BY <3>1, <3>2
  <2>2. Len(index') + Len(queue') = Len(accepted')
    <3>1. Len(index) + Len(queue) = Len(accepted)
      BY <1>8 DEF Kept
    <3>2. index' = index /\ Len(queue') = Len(queue) + 1 /\ Len(accepted') = Len(accepted) + 1
      BY <1>3, <1>4, <1>5
    <3>3. \A l, m, n \in Nat : l + m = n => l + (m + 1) = n + 1
      OBVIOUS
    <3>4. Len(index) + (Len(queue) + 1) = Len(accepted) + 1
      BY <1>2, <3>1, <3>3
    <3> QED
      BY <3>2, <3>4
  <2> QED
    BY <1>3, <2>1, <2>2 DEF Kept
<1>9. (stream = "good" \/ errors = 0 => Kept)'
  BY <1>1, <1>2, <1>3, <1>8
<1>10. Placed'
  <2> SUFFICES ASSUME stream = "good" PROVE Placed'
    BY <1>3 DEF Placed
  <2>1. Len(index) <= Len(accepted)
    BY <1>1, <1>2 DEF Kept
  <2>2. \A i \in 1 .. Len(index) : accepted'[i] = accepted[i]
    BY <1>2, <1>5, <2>1
  <2> QED
    BY <1>1, <1>3, <2>2 DEF Placed, Headed, Pointed
<1>11. Whole'
  BY <1>1, <1>3 DEF Whole
<1> QED
  BY <1>6, <1>7, <1>9, <1>10, <1>11 DEF FileInv, WriterInv

\* The worker appends the frame at the head of the queue and its entry in the
\* index.
LEMMA AppendStep == ASSUME FileInv, Writer!AppendFrame PROVE FileInv'
<1>1. /\ WriterTyped /\ OnDisk /\ Streams /\ Placed /\ Whole
      /\ stream = "good" \/ errors = 0 => Kept
  BY DEF FileInv, WriterInv
<1>2. /\ queue \in Seq(Frames) /\ accepted \in Seq(Frames) /\ index \in Seq(Entries)
      /\ Len(queue) \in Nat /\ Len(accepted) \in Nat /\ Len(index) \in Nat
      /\ errors \in Nat /\ pending \in Nat
  BY <1>1, Sequences
<1> DEFINE f     == queue[1]
           entry == Writer!EntryFor(f, Writer!Tellp)
           file  == disk \o buffer
<1>3. /\ queue # <<>> /\ stream = "good"
      /\ index' = Append(index, entry) /\ queue' = Tail(queue) /\ pending' = pending - 1
      /\ UNCHANGED <<open, backlogReported, closing, opens, accepted, errors, sealed>>
  BY DEF Writer!AppendFrame
<1>4. PICK n \in 0 .. Len(buffer) + Len(Writer!FrameUnits(f)) : Writer!Put(Writer!FrameUnits(f), n)
  BY DEF Writer!AppendFrame
<1>5. f \in Frames /\ f = accepted[Len(index) + 1] /\ Len(queue) \in Nat \ {0}
      /\ Len(index) + Len(queue) = Len(accepted)
  BY <1>1, <1>2, <1>3 DEF Kept
<1>6. /\ Writer!FrameUnits(f) \in Seq(Units) /\ Len(Writer!FrameUnits(f)) = 2 + f.size
      /\ Writer!FrameUnits(f)[2] = Writer!FrameHeader(f) /\ f.size \in Nat
  BY <1>5, FrameUnitsTyped, FrameAssumption
<1>7. file \in Seq(Units) /\ Len(file) = Writer!Tellp /\ Writer!Tellp \in Nat
  BY <1>1, FileTyped
<1>8. OnDisk' /\ disk' \o buffer' = file \o Writer!FrameUnits(f) /\ stream' = "good"
  <2>1. n \in Int
    BY <1>1, <1>4, <1>6, FileTyped
  <2> QED
    BY <1>1, <1>3, <1>4, <1>6, <2>1, PutLaw
<1>9. /\ entry \in Entries /\ entry.at = Writer!Tellp
  BY <1>5, <1>7 DEF Entries, Writer!EntryFor
<1> HIDE DEF f, entry, file
<1>10. /\ index' \in Seq(Entries) /\ Len(index') = Len(index) + 1
       /\ \A i \in 1 .. Len(index) : index'[i] = index[i]
       /\ index'[Len(index) + 1] = entry
  BY <1>2, <1>3, <1>9, AppendLaw
<1>11. /\ queue' \in Seq(Frames) /\ Len(queue') = Len(queue) - 1
       /\ \A j \in 1 .. Len(queue') : queue'[j] = queue[j + 1]
  BY <1>2, <1>3, HeadTailProperties
<1>12. WriterTyped'
  <2>1. pending' \in Nat /\ pending' = Len(queue')
    BY <1>1, <1>3, <1>5, <1>11 DEF WriterTyped
  <2> QED
    BY <1>1, <1>3, <1>8, <1>10, <1>11, <2>1 DEF WriterTyped, Writer!TypeOK, Entries
<1>13. Streams'
  BY <1>1, <1>3, <1>8 DEF Streams
<1>14. Kept'
  <2>1. Len(index') + Len(queue') = Len(accepted')
    BY <1>2, <1>3, <1>5, <1>10, <1>11
  <2>2. ASSUME NEW j \in 1 .. Len(queue') PROVE queue'[j] = accepted'[Len(index') + j]
    <3>1. j + 1 \in 1 .. Len(queue) /\ Len(index) + (j + 1) = Len(index') + j
      BY <1>2, <1>5, <1>10, <1>11
    <3>2. queue[j + 1] = accepted[Len(index) + (j + 1)]
      BY <1>1, <1>3, <3>1 DEF Kept
    <3> QED
      BY <1>3, <1>11, <3>1, <3>2
  <2> QED
    BY <2>1, <2>2 DEF Kept
<1>15. Placed'
  <2> DEFINE units == Writer!FrameUnits(f)
             grown == file \o units
  <2>1. units \in Seq(Units) /\ Len(units) = 2 + f.size /\ f.size \in Nat
        /\ units[2] = Writer!FrameHeader(f) /\ disk' \o buffer' = grown
    BY <1>6, <1>8
  <2> HIDE DEF units
  <2>2. /\ Len(grown) = Len(file) + Len(units)
        /\ \A i \in 1 .. Len(file) : grown[i] = file[i]
        /\ \A i \in 1 .. Len(units) : grown[Len(file) + i] = units[i]
    BY <1>7, <2>1, GrownLaw
  <2> HIDE DEF grown
  <2>3. /\ Len(file) \in Nat /\ Len(grown) \in Nat /\ Len(file) + 2 <= Len(grown)
        /\ grown[Len(file) + 2] = Writer!FrameHeader(f)
    <3>1. 2 \in 1 .. Len(units)
      BY <2>1
    <3> QED
      BY <1>7, <2>1, <2>2, <3>1
  <2>4. Headed(file) /\ Pointed(file)
    BY <1>1, <1>3 DEF Placed, file
  <2>5. Headed(grown)
    <3>1. 1 \in 1 .. Len(file) /\ 2 \in 1 .. Len(file)
      BY <2>3, <2>4 DEF Headed
    <3> QED
      BY <2>2, <2>3, <2>4, <3>1 DEF Headed
  <2>6. ASSUME NEW i \in 1 .. Len(index')
        PROVE  /\ index'[i].at + 2 <= Len(grown)
               /\ grown[index'[i].at + 2] = Writer!FrameHeader(accepted'[i])
    <3>1. CASE i = Len(index) + 1
      <4>1. index'[i] = entry /\ accepted'[i] = f
        BY <1>3, <1>5, <1>10, <3>1
      <4>2. index'[i].at = Len(file)
        BY <1>7, <1>9, <4>1
      <4> QED
        BY <2>3, <4>1, <4>2
    <3>2. CASE i # Len(index) + 1
      <4>1. i \in 1 .. Len(index)
        BY <1>2, <1>10, <3>2
      <4>2. index'[i] = index[i] /\ index[i] \in Entries
        BY <1>2, <1>10, <4>1
      <4> DEFINE there == index[i].at
      <4>3. there \in Nat /\ index'[i].at = there
        BY <4>2 DEF Entries
      <4>4. there + 2 <= Len(file) /\ file[there + 2] = Writer!FrameHeader(accepted[i])
        BY <2>4, <4>1 DEF Pointed
      <4> HIDE DEF there
      <4>5. there + 2 \in 1 .. Len(file)
        BY <2>3, <4>3, <4>4
      <4>6. grown[there + 2] = file[there + 2] /\ there + 2 <= Len(grown)
        BY <2>2, <2>3, <4>3, <4>4, <4>5
      <4> QED
        BY <1>3, <4>3, <4>4, <4>6
    <3> QED
      BY <3>1, <3>2
  <2> QED
    BY <2>1, <2>5, <2>6 DEF Placed, Headed, Pointed
<1>16. Whole'
  BY <1>1, <1>3 DEF Whole
<1> QED
  BY <1>8, <1>12, <1>13, <1>14, <1>15, <1>16 DEF FileInv, WriterInv

\* A failed append loses the frame it took; the entries stay those of whole
\* records.
LEMMA LostSteps == FileInv /\ (Writer!AppendFails \/ Writer!SkipFrame \/ Writer!BeginClose) => FileInv'
<1> SUFFICES ASSUME FileInv
             PROVE  (Writer!AppendFails \/ Writer!SkipFrame \/ Writer!BeginClose) => FileInv'
  OBVIOUS
<1>1. /\ WriterTyped /\ OnDisk /\ Streams /\ Placed /\ Whole
      /\ stream = "good" \/ errors = 0 => Kept
  BY DEF FileInv, WriterInv
<1>2. /\ queue \in Seq(Frames) /\ Len(queue) \in Nat /\ errors \in Nat /\ pending = Len(queue)
  BY <1>1, Sequences DEF WriterTyped
<1>3. ASSUME queue # <<>>, queue' = Tail(queue), pending' = pending - 1
      PROVE  queue' \in Seq(Frames) /\ pending' \in Nat /\ pending' = Len(queue')
  <2>1. Tail(queue) \in Seq(Frames) /\ Len(Tail(queue)) = Len(queue) - 1
    BY <1>2, <1>3, HeadTailProperties
  <2>2. Len(queue) \in Nat \ {0}
    BY <1>2, <1>3
  <2> QED
    BY <1>2, <1>3, <2>1, <2>2
<1>4. ASSUME Writer!AppendFails PROVE FileInv'
  <2>1. /\ queue # <<>> /\ stream = "good" /\ errors' = errors + 1
        /\ queue' = Tail(queue) /\ pending' = pending - 1
        /\ UNCHANGED <<open, index, backlogReported, closing, opens, accepted, sealed>>
    BY <1>4 DEF Writer!AppendFails
  <2>2. queue[1] \in Frames
    BY <1>2, <2>1
  <2>3. OnDisk' /\ stream' = "bad"
    <3>1. PICK n \in 0 .. Len(buffer) + Len(Writer!FrameUnits(queue[1])) :
            Writer!PutFails(Writer!FrameUnits(queue[1]), n)
      BY <1>4 DEF Writer!AppendFails
    <3>2. Writer!FrameUnits(queue[1]) \in Seq(Units)
      BY <2>2, FrameUnitsTyped
    <3>3. n \in Int
      BY <1>1, <3>1, <3>2, FileTyped
    <3> QED
      BY <1>1, <3>1, <3>2, <3>3, PutFailsLaw
  <2>4. WriterTyped'
    BY <1>1, <1>2, <1>3, <2>1, <2>3 DEF WriterTyped, Writer!TypeOK
  <2>5. Streams' /\ Placed' /\ Whole' /\ (stream = "good" \/ errors = 0 => Kept)'
    BY <1>1, <1>2, <2>1, <2>3 DEF Streams, Placed, Whole
  <2> QED
    BY <2>3, <2>4, <2>5 DEF FileInv, WriterInv
<1>5. ASSUME Writer!SkipFrame PROVE FileInv'
  <2>1. /\ queue # <<>> /\ stream = "bad" /\ queue' = Tail(queue) /\ pending' = pending - 1
        /\ UNCHANGED <<disk, buffer, stream, open, index, backlogReported, closing, opens,
                       accepted, errors, sealed>>
    BY <1>5 DEF Writer!SkipFrame, Writer!fileVars
  <2>2. WriterTyped'
    BY <1>1, <1>2, <1>3, <2>1 DEF WriterTyped, Writer!TypeOK
  <2>3. OnDisk' /\ Streams' /\ Placed' /\ Whole' /\ (stream = "good" \/ errors = 0 => Kept)'
    BY <1>1, <1>2, <2>1 DEF OnDisk, Streams, Placed, Whole
  <2> QED
    BY <2>2, <2>3 DEF FileInv, WriterInv
<1>6. ASSUME Writer!BeginClose PROVE FileInv'
  <2>1. /\ open /\ closing' = TRUE
        /\ UNCHANGED <<disk, buffer, stream, open, queue, index, pending, backlogReported, opens,
                       accepted, errors, sealed>>
    BY <1>6 DEF Writer!BeginClose, Writer!fileVars
  <2>2. WriterTyped' /\ OnDisk' /\ Streams'
    BY <1>1, <2>1 DEF WriterTyped, Writer!TypeOK, OnDisk, Streams
  <2>3. Placed' /\ Whole' /\ (stream = "good" \/ errors = 0 => Kept)'
    BY <1>1, <2>1 DEF Placed, Whole, Kept, Headed, Pointed, Ended
  <2> QED
    BY <2>2, <2>3 DEF FileInv, WriterInv
<1> QED
  BY <1>4, <1>5, <1>6

\* close() writes the index and the footer behind the last record.
LEMMA SealStep == ASSUME FileInv, Writer!Seal PROVE FileInv'
<1>1. /\ WriterTyped /\ OnDisk /\ Streams /\ Placed /\ Whole
      /\ stream = "good" \/ errors = 0 => Kept
  BY DEF FileInv, WriterInv
<1>2. PICK at \in Nat : at = Writer!Tellp
  BY <1>1, FileTyped
<1> DEFINE file == disk \o buffer
           tail == Writer!Trailer(index, at)
<1>3. /\ queue = <<>> /\ stream = "good" /\ closing' = FALSE /\ open' = FALSE
      /\ disk' = file \o tail /\ buffer' = <<>> /\ stream' = "closed" /\ sealed' = TRUE
      /\ UNCHANGED <<queue, index, pending, backlogReported, opens, accepted, errors>>
  <2>1. disk' = disk \o buffer \o Writer!Trailer(index, Writer!Tellp)
    BY DEF Writer!Seal
  <2> QED
    BY <1>2, <2>1 DEF Writer!Seal, Writer!EndClose, Writer!WorkerIdle
<1>4. index \in Seq(Entries) /\ Len(index) \in Nat
  BY <1>1, Sequences
<1>5. file \in Seq(Units) /\ Len(file) = at /\ at \in Nat
  BY <1>1, <1>2, FileTyped
<1>6. /\ tail \in Seq(Units) /\ Len(tail) = 2 + Len(index)
      /\ tail[1] = Writer!Index(Len(index))
      /\ \A i \in 1 .. Len(index) : tail[1 + i] = Writer!Entry(index[i])
      /\ tail[2 + Len(index)] = Writer!Footer(at)
  BY <1>4, <1>5, TrailerLaw
<1>7. Headed(file) /\ Pointed(file) /\ Kept
  BY <1>1, <1>3 DEF Placed
<1> HIDE DEF file, tail
<1>8. /\ disk' \in Seq(Units) /\ Len(disk') = Len(file) + Len(tail)
      /\ \A i \in 1 .. Len(file) : disk'[i] = file[i]
      /\ \A i \in 1 .. Len(tail) : disk'[Len(file) + i] = tail[i]
  BY <1>3, <1>5, <1>6, GrownLaw
<1>9. WriterTyped' /\ OnDisk' /\ Streams' /\ Kept'
  <2>1. WriterTyped'
    BY <1>1, <1>3 DEF WriterTyped, Writer!TypeOK
  <2>2. buffer' \in Seq(Units)
    BY <1>3
  <2> QED
    BY <1>3, <1>7, <1>8, <2>1, <2>2 DEF OnDisk, Streams, Kept
<1>10. Headed(disk')
  <2>1. 1 \in 1 .. Len(file) /\ 2 \in 1 .. Len(file)
    BY <1>5, <1>7 DEF Headed
  <2> QED
    BY <1>4, <1>5, <1>6, <1>7, <1>8, <2>1 DEF Headed
<1>11. ASSUME NEW i \in 1 .. Len(index)
       PROVE  /\ index[i].at + 2 <= Len(disk')
              /\ disk'[index[i].at + 2] = Writer!FrameHeader(accepted[i])
  <2> DEFINE there == index[i].at
  <2>1. there \in Nat
    <3>1. index[i] \in Entries
      BY <1>4
    <3> QED
      BY <3>1 DEF Entries
  <2>2. there + 2 <= Len(file) /\ file[there + 2] = Writer!FrameHeader(accepted[i])
    BY <1>7 DEF Pointed
  <2> HIDE DEF there
  <2>3. there + 2 \in 1 .. Len(file) /\ there + 2 <= Len(disk')
    BY <1>4, <1>5, <1>6, <1>8, <2>1, <2>2
  <2>4. disk'[there + 2] = Writer!FrameHeader(accepted[i]) /\ there + 2 <= Len(disk')
    BY <1>8, <2>2, <2>3
  <2> QED
    BY <2>4 DEF there
<1>12. /\ Len(disk') = at + 2 + Len(index)
       /\ disk'[at + 1] = Writer!Index(Len(index))
       /\ disk'[Len(disk')] = Writer!Footer(at)
  <2>1. 1 \in 1 .. Len(tail) /\ 2 + Len(index) \in 1 .. Len(tail)
    BY <1>4, <1>6
  <2> QED
    BY <1>4, <1>5, <1>6, <1>8, <2>1
<1>13. ASSUME NEW i \in 1 .. Len(index) PROVE disk'[at + 1 + i] = Writer!Entry(index[i])
  <2>1. 1 + i \in 1 .. Len(tail) /\ at + 1 + i = Len(file) + (1 + i)
    BY <1>4, <1>5, <1>6
  <2> QED
    BY <1>6, <1>8, <2>1
<1>14. Whole'
  <2>1. Len(index') = Len(accepted')
    BY <1>1, <1>3, <1>4, <1>7, Sequences DEF Kept
  <2>2. Ended(at)'
    BY <1>3, <1>12, <1>13 DEF Ended
  <2>3. (Headed(disk) /\ Pointed(disk))'
    BY <1>3, <1>10, <1>11 DEF Headed, Pointed
  <2> QED
    BY <1>3, <1>5, <2>1, <2>2, <2>3 DEF Whole
<1> QED
  BY <1>3, <1>9, <1>14 DEF FileInv, WriterInv, Placed

\* A close whose index cannot be written leaves the file without a footer.
LEMMA CloseSteps == FileInv /\ (Writer!SealFails \/ Writer!CloseFailed) => FileInv'
<1> SUFFICES ASSUME FileInv PROVE (Writer!SealFails \/ Writer!CloseFailed) => FileInv'
  OBVIOUS
<1>1. /\ WriterTyped /\ OnDisk /\ Streams /\ Placed /\ Whole
      /\ stream = "good" \/ errors = 0 => Kept
  BY DEF FileInv, WriterInv
<1>2. ASSUME Writer!EndClose
      PROVE  /\ open /\ queue = <<>> /\ closing' = FALSE /\ open' = FALSE
             /\ UNCHANGED <<queue, index, pending, backlogReported, opens, accepted, errors>>
  BY <1>1, <1>2 DEF Writer!EndClose, Writer!WorkerIdle, Streams
<1>3. ASSUME Writer!SealFails PROVE FileInv'
  <2> DEFINE waiting == buffer \o Writer!Trailer(index, Writer!Tellp)
  <2>1. /\ Writer!EndClose /\ stream = "good" /\ buffer' = <<>> /\ stream' = "closed"
        /\ UNCHANGED sealed
    BY <1>3 DEF Writer!SealFails
  <2>2. PICK n \in 0 .. Len(buffer) + Len(index) + 1 : disk' = disk \o SubSeq(waiting, 1, n)
    BY <1>3 DEF Writer!SealFails
  <2>3. OnDisk'
    <3>1. index \in Seq(Entries) /\ Len(index) \in Nat
      BY <1>1, Sequences
    <3>2. /\ Writer!Trailer(index, Writer!Tellp) \in Seq(Units)
          /\ Len(Writer!Trailer(index, Writer!Tellp)) = 2 + Len(index)
      BY <1>1, <3>1, FileTyped, TrailerLaw
    <3>3. waiting \in Seq(Units) /\ Len(waiting) = Len(buffer) + (2 + Len(index))
      <4> DEFINE trailer == Writer!Trailer(index, Writer!Tellp)
      <4>1. buffer \in Seq(Units) /\ trailer \in Seq(Units) /\ Len(trailer) = 2 + Len(index)
        BY <1>1, <3>2 DEF OnDisk
      <4> HIDE DEF trailer
      <4>2. buffer \o trailer \in Seq(Units) /\ Len(buffer \o trailer) = Len(buffer) + Len(trailer)
        BY <4>1, ConcatProperties
      <4> QED
        BY <4>1, <4>2 DEF trailer
    <3> HIDE DEF waiting
    <3>4. n \in Int /\ \A i \in 1 .. n : waiting[i] \in Units
      BY <1>1, <2>2, <3>1, <3>3, FileTyped
    <3>5. SubSeq(waiting, 1, n) \in Seq(Units)
      BY <3>4, SubSeqProperties
    <3>6. disk' \in Seq(Units)
      BY <1>1, <2>2, <3>5, ConcatProperties DEF OnDisk
    <3>7. buffer' \in Seq(Units)
      BY <2>1
    <3> QED
      BY <3>6, <3>7 DEF OnDisk
  <2> HIDE DEF waiting
  <2>4. WriterTyped'
    BY <1>1, <1>2, <2>1 DEF WriterTyped, Writer!TypeOK
  <2>5. Kept'
    BY <1>1, <1>2, <2>1 DEF Kept
  <2>6. Streams' /\ Placed' /\ Whole'
    BY <1>1, <1>2, <2>1 DEF Streams, Placed, Whole
  <2> QED
    BY <2>3, <2>4, <2>5, <2>6 DEF FileInv, WriterInv
<1>4. ASSUME Writer!CloseFailed PROVE FileInv'
  <2>1. Writer!EndClose /\ stream = "bad" /\ UNCHANGED <<disk, buffer, stream, sealed>>
    BY <1>4 DEF Writer!CloseFailed, Writer!fileVars
  <2>2. WriterTyped' /\ OnDisk'
    BY <1>1, <1>2, <2>1 DEF WriterTyped, Writer!TypeOK, OnDisk
  <2>3. errors' > 0
    BY <1>1, <1>2, <2>1 DEF Streams
  <2>4. Streams' /\ Placed' /\ Whole'
    BY <1>1, <1>2, <2>1, <2>3 DEF Streams, Placed, Whole
  <2>5. errors \in Nat
    BY <1>1, Sequences
  <2> QED
    BY <1>2, <2>1, <2>2, <2>3, <2>4, <2>5 DEF FileInv, WriterInv
<1> QED
  BY <1>3, <1>4

\* Every step keeps the file one sequence of records that the index points into.
LEMMA FileStep == FileInv /\ [Next]_vars => FileInv'
<1> SUFFICES ASSUME FileInv, [Next]_vars PROVE FileInv'
  OBVIOUS
<1>1. Writes \/ UNCHANGED writerVars
  BY WriterSteps
<1>2. CASE UNCHANGED writerVars
  <2>1. UNCHANGED <<disk, buffer, stream, open, queue, index, pending, backlogReported, closing,
                    opens, accepted, errors, sealed>>
    BY <1>2 DEF writerVars
  <2>2. WriterTyped' /\ OnDisk' /\ Streams' /\ (stream = "good" \/ errors = 0 => Kept)'
    BY <2>1 DEF FileInv, WriterInv, WriterTyped, Writer!TypeOK, OnDisk, Streams, Kept
  <2>3. Placed' /\ Whole'
    BY <2>1 DEF FileInv, Placed, Whole, Headed, Pointed, Ended
  <2> QED
    BY <2>2, <2>3 DEF FileInv, WriterInv
<1>3. CASE Writes
  BY <1>3, OpenSteps, WriteStep, AppendStep, LostSteps, SealStep, CloseSteps DEF Writes
<1> QED
  BY <1>1, <1>2, <1>3

\* Before a recording the file is empty.
LEMMA FileInit == Init => FileInv
<1> SUFFICES ASSUME Init PROVE FileInv
  OBVIOUS
<1>1. /\ disk = <<>> /\ buffer = <<>> /\ stream = "closed" /\ open = FALSE /\ queue = <<>>
      /\ index = <<>> /\ pending = 0 /\ backlogReported = FALSE /\ closing = FALSE /\ opens = 0
      /\ accepted = <<>> /\ errors = 0 /\ sealed = FALSE
  BY DEF Init, Writer!Init
<1>2. WriterTyped
  <2>1. <<>> \in Seq(Frames) /\ <<>> \in Seq(Entries) /\ Len(<<>>) = 0
    OBVIOUS
  <2>2. 0 \in 0 .. MaxOpens
    BY RecordingAssumption DEF Writer!WriterAssumption
  <2> QED
    BY <1>1, <2>1, <2>2 DEF WriterTyped, Writer!TypeOK, Entries
<1>3. OnDisk /\ Streams /\ Kept /\ Placed /\ Whole
  BY <1>1 DEF OnDisk, Streams, Kept, Placed, Whole
<1> QED
  BY <1>2, <1>3 DEF FileInv, WriterInv

\* The second invariant holds in every state.
LEMMA FileInvariant == Spec => []FileInv
  BY FileInit, FileStep, PTL DEF Spec

\* As long as nothing failed, what was accepted is in the file or in the queue.
LEMMA KeptIsNoSilentLoss == FileInv => NoSilentLoss
<1> SUFFICES ASSUME FileInv, errors = 0
             PROVE  /\ Len(index) + Len(queue) = Len(accepted)
                    /\ queue = SubSeq(accepted, Len(index) + 1, Len(accepted))
  BY DEF NoSilentLoss, Writer!NoSilentLoss, FileInv, WriterInv, WriterTyped
<1>1. Kept /\ WriterTyped
  BY DEF FileInv, WriterInv
<1>2. /\ queue \in Seq(Frames) /\ accepted \in Seq(Frames)
      /\ Len(queue) \in Nat /\ Len(accepted) \in Nat /\ Len(index) \in Nat
  BY <1>1, Sequences
<1>3. Len(index) + Len(queue) = Len(accepted)
  BY <1>1 DEF Kept
<1> DEFINE rest == SubSeq(accepted, Len(index) + 1, Len(accepted))
<1>4. /\ rest \in Seq(Frames)
      /\ Len(rest) = IF Len(index) + 1 <= Len(accepted)
                     THEN Len(accepted) - (Len(index) + 1) + 1 ELSE 0
      /\ \A j \in 1 .. Len(accepted) - (Len(index) + 1) + 1 :
           rest[j] = accepted[(Len(index) + 1) + j - 1]
  <2>1. \A i \in Len(index) + 1 .. Len(accepted) : accepted[i] \in Frames
    BY <1>2
  <2>2. Len(index) + 1 \in Int /\ Len(accepted) \in Int
    BY <1>2
  <2> QED
    BY <2>1, <2>2, SubSeqProperties
<1> HIDE DEF rest
<1>5. Len(rest) = Len(queue)
  BY <1>2, <1>3, <1>4
<1>6. \A j \in 1 .. Len(queue) : queue[j] = rest[j]
  <2> TAKE j \in 1 .. Len(queue)
  <2>1. queue[j] = accepted[Len(index) + j]
    BY <1>1 DEF Kept
  <2>2. j \in 1 .. Len(accepted) - (Len(index) + 1) + 1
        /\ (Len(index) + 1) + j - 1 = Len(index) + j
    BY <1>2, <1>3
  <2> QED
    BY <1>4, <2>1, <2>2
<1>7. queue = rest
  BY <1>2, <1>4, <1>5, <1>6, SeqEqual
<1> QED
  BY <1>3, <1>7 DEF rest

\* write(), the worker and close(): for any number of frames of any size, and a
\* disk that may fail at every write, each frame write() took is in the index or
\* still queued, in order, or a problem has been reported.
THEOREM RecordingNoSilentLoss == Spec => []NoSilentLoss
  BY FileInvariant, KeptIsNoSilentLoss, PTL

\* A sealed file leads the reader to the index that was written.
LEMMA SealedIndex ==
  ASSUME FileInv, sealed
  PROVE  /\ Writer!Opens(disk) /\ ~Writer!Recovered(disk)
         /\ Writer!ReaderIndex(disk) = index
<1>1. /\ Len(index) = Len(accepted) /\ Headed(disk) /\ Pointed(disk)
      /\ disk \in Seq(Units) /\ index \in Seq(Entries) /\ accepted \in Seq(Frames)
      /\ Len(index) \in Nat /\ Len(disk) \in Nat
  BY Sequences DEF FileInv, WriterInv, Whole, OnDisk
<1>2. PICK at \in Nat : Ended(at)
  BY DEF FileInv, Whole
<1>3. Writer!Opens(disk)
  <2>1. disk[0 + 1].kind = "head" /\ disk[1 + 1].kind = "json"
    BY <1>1 DEF Headed, Writer!FileHeader, Writer!Json
  <2> QED
    BY <1>1, <2>1 DEF Writer!Opens, Writer!Holds, Headed
<1>4. /\ Writer!Last(disk).kind = "footer" /\ Writer!Last(disk).index = at
      /\ disk # <<>>
  <2>1. Writer!Last(disk) = disk[Len(disk)]
    BY DEF Writer!Last
  <2> QED
    BY <1>1, <1>2, <2>1 DEF Ended, Writer!Footer, Headed
<1>5. disk[at + 1].kind = "index" /\ disk[at + 1].count = Len(index)
      /\ at < Len(disk) /\ at + 1 + Len(index) <= Len(disk)
  BY <1>1, <1>2 DEF Ended, Writer!Index
<1>6. ~Writer!Recovered(disk)
  BY <1>4, <1>5 DEF Writer!Recovered, Writer!IndexUsable, Writer!Holds
<1>7. Writer!ReaderIndex(disk) = index
  <2>1. Writer!ReaderIndex(disk) = [i \in 1 .. Len(index) |-> disk[at + 1 + i].entry]
    BY <1>4, <1>5, <1>6 DEF Writer!ReaderIndex, Writer!FooterIndex
  <2>2. \A i \in 1 .. Len(index) : disk[at + 1 + i].entry = index[i]
    <3> TAKE i \in 1 .. Len(index)
    <3>1. disk[at + 1 + i] = Writer!Entry(index[i])
      BY <1>2 DEF Ended
    <3>2. Writer!Entry(index[i]).entry = index[i]
      BY DEF Writer!Entry
    <3> QED
      BY <3>1, <3>2
  <2>3. index = [i \in 1 .. Len(index) |-> index[i]]
    BY <1>1
  <2> QED
    BY <2>1, <2>2, <2>3
<1>8. QED
  BY <1>3, <1>6, <1>7

\* A complete footer leads to the index, and each entry to its frame.
LEMMA WholeIsReadBack == FileInv => SealedReadsBack
<1> SUFFICES ASSUME FileInv, sealed
             PROVE  /\ Writer!Opens(disk) /\ ~Writer!Recovered(disk)
                    /\ Writer!FramesOf(disk, Writer!ReaderIndex(disk)) = accepted
  BY DEF SealedReadsBack, Writer!SealedReadsBack
<1>1. /\ Len(index) = Len(accepted) /\ Pointed(disk)
      /\ index \in Seq(Entries) /\ accepted \in Seq(Frames) /\ Len(index) \in Nat
  BY Sequences DEF FileInv, WriterInv, Whole
<1>2. \A i \in 1 .. Len(index) : Writer!ReadFrame(disk, index[i]) = accepted[i]
  <2> TAKE i \in 1 .. Len(index)
  <2>1. disk[index[i].at + 2] = Writer!FrameHeader(accepted[i])
    BY <1>1 DEF Pointed
  <2>2. Writer!FrameHeader(accepted[i]).frame = accepted[i]
    BY DEF Writer!FrameHeader
  <2> QED
    BY <2>1, <2>2 DEF Writer!ReadFrame
<1>3. Writer!FramesOf(disk, index) = [i \in 1 .. Len(index) |-> accepted[i]]
  BY <1>1, <1>2 DEF Writer!FramesOf
<1>4. accepted = [i \in 1 .. Len(accepted) |-> accepted[i]]
  BY <1>1
<1> QED
  BY <1>1, <1>3, <1>4, SealedIndex

\* close() and the reader's open(): a recording that was closed without a failure
\* reads back whole, through the index at its end, however long it is.
THEOREM RecordingSealedReadsBack == Spec => []SealedReadsBack
  BY FileInvariant, WholeIsReadBack, PTL

-----------------------------------------------------------------------------
\* Where the records lie.  `at` gives the offset of each record of the frames fs,
\* and of the end of the last one: every place between is in one of them.
Starts(fs, at, m) ==
  /\ m \in 0 .. Len(fs) /\ at \in [1 .. m + 1 -> Nat] /\ at[1] = 2
  /\ \A i \in 1 .. m : at[i + 1] = at[i] + 2 + fs[i].size
  /\ \A i, j \in 1 .. m + 1 : i < j => at[i] < at[j]
  /\ \A p \in 3 .. at[m + 1] : \E i \in 1 .. m : at[i] < p /\ p <= at[i + 1]

\* A file has those records, as far as it goes.
Laid(file, fs, at, m) ==
  /\ Headed(file)
  /\ \A i \in 1 .. m : \A u \in 1 .. 2 + fs[i].size :
       at[i] + u <= Len(file) => file[at[i] + u] = Writer!FrameUnits(fs[i])[u]

\* After the records a file has nothing but its index and its footer.
Trailing(file, end) == \A p \in end + 1 .. Len(file) : file[p].kind \in {"index", "entry", "footer"}
Indexed(at) == \A i \in 1 .. Len(index) : index[i].at = at[i]

\* What a stream in order has taken, and what one that failed or was closed left.
Growing == /\ Len(disk) >= 2
           /\ \E at : /\ Starts(accepted, at, Len(index)) /\ Indexed(at)
                      /\ Laid(disk \o buffer, accepted, at, Len(index))
                      /\ Len(disk \o buffer) = at[Len(index) + 1]
LeftBy(at, m) == /\ Starts(accepted, at, m) /\ Laid(disk, accepted, at, m) /\ Trailing(disk, at[m + 1])
                 /\ disk[Len(disk)].kind = "footer" => sealed
                 /\ sealed => m = Len(accepted) /\ at[m + 1] <= Len(disk) /\ Indexed(at)
Left == \E m, at : LeftBy(at, m)

CrashInv == /\ stream = "good" => Growing
            /\ stream # "good" /\ Len(disk) >= 2 => Left

\* The units of a record, one by one.
LEMMA UnitsAre ==
  ASSUME NEW f \in Frames
  PROVE  /\ f.size \in Nat
         /\ Writer!FrameUnits(f) \in Seq(Units) /\ Len(Writer!FrameUnits(f)) = 2 + f.size
         /\ Writer!FrameUnits(f)[1] = [kind |-> "rec", payload |-> f.size]
         /\ Writer!FrameUnits(f)[2] = [kind |-> "header", frame |-> f]
         /\ \A b \in 1 .. f.size :
              Writer!FrameUnits(f)[2 + b] = [kind |-> "samples", frame |-> f, block |-> b]
<1>1. f.size \in Nat
  BY FrameAssumption
<1> DEFINE front == <<Writer!Rec(f), Writer!FrameHeader(f)>>
           back  == Writer!Samples(f)
<1>2. front \in Seq(Units) /\ Len(front) = 2
  <2>1. Writer!Rec(f) \in Units /\ Writer!FrameHeader(f) \in Units
    BY DEF Units
  <2>2. QED
    BY <2>1
<1>3. back \in Seq(Units) /\ Len(back) = f.size
      /\ \A b \in 1 .. f.size : back[b] = [kind |-> "samples", frame |-> f, block |-> b]
  <2>1. \A b \in 1 .. f.size : [kind |-> "samples", frame |-> f, block |-> b] \in Units
    BY <1>1 DEF Units
  <2>2. back \in [1 .. f.size -> Units]
    BY <2>1 DEF Writer!Samples
  <2>3. QED
    BY <1>1, <2>2 DEF Writer!Samples
<1>4. Writer!FrameUnits(f) = front \o back
  BY DEF Writer!FrameUnits
<1> HIDE DEF front, back
<1>5. \A b \in 1 .. f.size : (front \o back)[2 + b] = back[b]
  <2>1. \A b \in 1 .. Len(back) : (front \o back)[Len(front) + b] = back[b]
    BY <1>2, <1>3, GrownLaw
  <2>2. QED
    BY <1>2, <1>3, <2>1
<1>6. QED
  BY <1>1, <1>3, <1>4, <1>5, FrameUnitsTyped DEF Writer!Rec, Writer!FrameHeader

\* The next record begins where the last one ends.
LEMMA StartsGrow ==
  ASSUME NEW fs \in Seq(Frames), NEW m, NEW at, Starts(fs, at, m), m < Len(fs)
  PROVE  \E at2 : /\ Starts(fs, at2, m + 1)
                  /\ \A i \in 1 .. m + 1 : at2[i] = at[i]
                  /\ at2[m + 2] = at[m + 1] + 2 + fs[m + 1].size
<1>1. /\ m \in Nat /\ Len(fs) \in Nat /\ at \in [1 .. m + 1 -> Nat] /\ at[1] = 2
      /\ \A i \in 1 .. m : at[i + 1] = at[i] + 2 + fs[i].size
      /\ \A i, j \in 1 .. m + 1 : i < j => at[i] < at[j]
      /\ \A p \in 3 .. at[m + 1] : \E i \in 1 .. m : at[i] < p /\ p <= at[i + 1]
  BY DEF Starts
<1>2. m + 1 \in 1 .. Len(fs) /\ fs[m + 1] \in Frames /\ fs[m + 1].size \in Nat /\ at[m + 1] \in Nat
  <2>1. m + 1 \in 1 .. Len(fs)
    BY <1>1
  <2>2. QED
    BY <1>1, <2>1, FrameAssumption
<1> DEFINE new == at[m + 1] + 2 + fs[m + 1].size
           at2 == [i \in 1 .. m + 2 |-> IF i = m + 2 THEN new ELSE at[i]]
<1>3. new \in Nat /\ at[m + 1] < new
  BY <1>2
<1> HIDE DEF new
<1>4. /\ at2 \in [1 .. m + 2 -> Nat] /\ at2[m + 2] = new
      /\ \A i \in 1 .. m + 1 : at2[i] = at[i]
  <2>1. \A i \in 1 .. m + 2 : i = m + 2 \/ i \in 1 .. m + 1
    BY <1>1
  <2>2. \A i \in 1 .. m + 1 : i # m + 2 /\ i \in 1 .. m + 2 /\ at[i] \in Nat
    BY <1>1
  <2>3. m + 2 \in 1 .. m + 2
    BY <1>1
  <2>4. QED
    BY <1>3, <2>1, <2>2, <2>3
<1> HIDE DEF at2
<1>5. \A i \in 1 .. m + 1 : at2[i + 1] = at2[i] + 2 + fs[i].size
  <2> TAKE i \in 1 .. m + 1
  <2>1. CASE i = m + 1
    <3>1. i + 1 = m + 2
      BY <1>1, <2>1
    <3>2. QED
      BY <1>4, <2>1, <3>1 DEF new
  <2>2. CASE i # m + 1
    <3>1. i \in 1 .. m /\ i + 1 \in 1 .. m + 1
      BY <1>1, <2>2
    <3>2. QED
      BY <1>1, <1>4, <3>1
  <2>3. QED
    BY <2>1, <2>2
<1>6. \A i, j \in 1 .. m + 2 : i < j => at2[i] < at2[j]
  <2> SUFFICES ASSUME NEW i \in 1 .. m + 2, NEW j \in 1 .. m + 2, i < j PROVE at2[i] < at2[j]
    OBVIOUS
  <2>1. i \in 1 .. m + 1 /\ at2[i] = at[i] /\ at[i] \in Nat
    <3>1. i \in 1 .. m + 1
      BY <1>1
    <3>2. QED
      BY <1>1, <1>4, <3>1
  <2>2. at[i] <= at[m + 1]
    <3>1. CASE i = m + 1
      BY <2>1, <3>1
    <3>2. CASE i # m + 1
      <4>1. i < m + 1 /\ m + 1 \in 1 .. m + 1
        BY <1>1, <2>1, <3>2
      <4>2. at[i] < at[m + 1]
        BY <1>1, <2>1, <4>1
      <4>3. QED
        BY <1>2, <2>1, <4>2
    <3>3. QED
      BY <3>1, <3>2
  <2>3. CASE j = m + 2
    BY <1>2, <1>3, <1>4, <2>1, <2>2, <2>3
  <2>4. CASE j # m + 2
    <3>1. j \in 1 .. m + 1
      BY <1>1, <2>4
    <3>2. QED
      BY <1>1, <1>4, <2>1, <3>1
  <2>5. QED
    BY <2>3, <2>4
<1>7. \A p \in 3 .. at2[m + 2] : \E i \in 1 .. m + 1 : at2[i] < p /\ p <= at2[i + 1]
  <2> TAKE p \in 3 .. at2[m + 2]
  <2>1. CASE p <= at[m + 1]
    <3>1. PICK i \in 1 .. m : at[i] < p /\ p <= at[i + 1]
      BY <1>1, <1>2, <1>3, <1>4, <2>1
    <3>2. i \in 1 .. m + 1 /\ i + 1 \in 1 .. m + 1
      BY <1>1
    <3>3. at2[i] < p /\ p <= at2[i + 1]
      BY <1>4, <3>1, <3>2
    <3>4. QED
      BY <3>2, <3>3
  <2>2. CASE p > at[m + 1]
    <3>1. m + 1 \in 1 .. m + 1 /\ (m + 1) + 1 = m + 2
      BY <1>1
    <3>2. at2[m + 1] < p /\ p <= at2[(m + 1) + 1]
      BY <1>2, <1>3, <1>4, <2>2, <3>1
    <3>3. QED
      BY <3>1, <3>2
  <2>3. QED
    BY <1>2, <1>3, <1>4, <2>1, <2>2
<1>8. at2[1] = 2
  BY <1>1, <1>4
<1>9. /\ m + 1 \in 0 .. Len(fs) /\ (m + 1) + 1 = m + 2
  BY <1>1, <1>2
<1>10. Starts(fs, at2, m + 1)
  BY <1>4, <1>5, <1>6, <1>7, <1>8, <1>9 DEF Starts
<1>11. QED
  BY <1>4, <1>10 DEF new

\* What Starts says of a record, and of where it lies in a file.
LEMMA RecordPlaced ==
  ASSUME NEW fs \in Seq(Frames), NEW m, NEW at, Starts(fs, at, m), NEW i \in 1 .. m
  PROVE  /\ m \in Nat /\ fs[i] \in Frames /\ fs[i].size \in Nat
         /\ at[i] \in Nat /\ at[i + 1] \in Nat /\ at[m + 1] \in Nat
         /\ 2 <= at[i] /\ at[i + 1] = at[i] + 2 + fs[i].size /\ at[i + 1] <= at[m + 1]
<1>1. /\ m \in 0 .. Len(fs) /\ at \in [1 .. m + 1 -> Nat] /\ at[1] = 2
      /\ \A k \in 1 .. m : at[k + 1] = at[k] + 2 + fs[k].size
      /\ \A k, j \in 1 .. m + 1 : k < j => at[k] < at[j]
  BY DEF Starts
<1>2. Len(fs) \in Nat
  OBVIOUS
<1>3. m \in Nat /\ i \in 1 .. Len(fs) /\ i \in 1 .. m + 1 /\ i + 1 \in 1 .. m + 1
      /\ m + 1 \in 1 .. m + 1 /\ 1 \in 1 .. m + 1
  BY <1>1, <1>2
<1>4. fs[i] \in Frames /\ fs[i].size \in Nat
  BY <1>3, FrameAssumption
<1>5. at[i] \in Nat /\ at[i + 1] \in Nat /\ at[m + 1] \in Nat
  BY <1>1, <1>3
<1>6. 2 <= at[i]
  <2>1. i = 1 \/ 1 < i
    BY <1>3
  <2>2. 1 < i => at[1] < at[i]
    BY <1>1, <1>3
  <2>3. QED
    BY <1>1, <1>5, <2>1, <2>2
<1>7. at[i + 1] <= at[m + 1]
  <2>1. i + 1 = m + 1 \/ i + 1 < m + 1
    BY <1>3
  <2>2. i + 1 < m + 1 => at[i + 1] < at[m + 1]
    BY <1>1, <1>3
  <2>3. QED
    BY <1>5, <2>1, <2>2
<1>8. QED
  BY <1>1, <1>3, <1>4, <1>5, <1>6, <1>7

\* The places of a record that begins after a units and has s blocks.
LEMMA Places ==
  ASSUME NEW a \in Nat, NEW s \in Nat
  PROVE  /\ \A u \in 1 .. 2 + s : a + u \in Nat /\ 1 <= a + u /\ a + u <= a + 2 + s
         /\ \A p \in Nat : a < p /\ p <= a + 2 + s => \E u \in 1 .. 2 + s : p = a + u
         /\ \A u \in 1 .. 2 + s : u = 1 \/ u = 2 \/ \E b \in 1 .. s : u = 2 + b
<1>1. \A p \in Nat : a < p /\ p <= a + 2 + s => p - a \in 1 .. 2 + s /\ p = a + (p - a)
  OBVIOUS
<1>2. \A u \in 1 .. 2 + s : u = 1 \/ u = 2 \/ (u - 2 \in 1 .. s /\ u = 2 + (u - 2))
  OBVIOUS
<1>3. QED
  BY <1>1, <1>2

\* A part of a file from its beginning has the same records.
LEMMA LaidPrefix ==
  ASSUME NEW fs \in Seq(Frames), NEW m, NEW at, Starts(fs, at, m),
         NEW file, NEW part, Len(file) \in Nat, Len(part) \in Nat, 2 <= Len(part),
         Len(part) <= Len(file), \A p \in 1 .. Len(part) : part[p] = file[p], Laid(file, fs, at, m)
  PROVE  Laid(part, fs, at, m)
<1>1. Headed(part)
  <2>1. 1 \in 1 .. Len(part) /\ 2 \in 1 .. Len(part)
    OBVIOUS
  <2>2. QED
    BY <2>1 DEF Laid, Headed
<1>2. ASSUME NEW i \in 1 .. m, NEW u \in 1 .. 2 + fs[i].size, at[i] + u <= Len(part)
      PROVE  part[at[i] + u] = Writer!FrameUnits(fs[i])[u]
  <2>1. at[i] \in Nat /\ fs[i].size \in Nat
    BY RecordPlaced
  <2>2. at[i] + u \in 1 .. Len(part) /\ at[i] + u <= Len(file)
    BY <1>2, <2>1
  <2>3. file[at[i] + u] = Writer!FrameUnits(fs[i])[u]
    BY <2>2 DEF Laid
  <2>4. QED
    BY <2>2, <2>3
<1>3. QED
  BY <1>1, <1>2 DEF Laid

\* What comes after the last record leaves the records alone.
LEMMA LaidBefore ==
  ASSUME NEW fs \in Seq(Frames), NEW m, NEW at, Starts(fs, at, m),
         NEW file, NEW longer, Len(file) \in Nat, Len(longer) \in Nat, Len(file) <= Len(longer),
         at[m + 1] <= Len(file), \A p \in 1 .. Len(file) : longer[p] = file[p], Laid(file, fs, at, m)
  PROVE  Laid(longer, fs, at, m)
<1>1. Headed(longer)
  <2>1. 1 \in 1 .. Len(file) /\ 2 \in 1 .. Len(file)
    BY DEF Laid, Headed
  <2>2. QED
    BY <2>1 DEF Laid, Headed
<1>2. ASSUME NEW i \in 1 .. m, NEW u \in 1 .. 2 + fs[i].size
      PROVE  longer[at[i] + u] = Writer!FrameUnits(fs[i])[u]
  <2>1. /\ at[i] \in Nat /\ fs[i].size \in Nat /\ at[i + 1] \in Nat /\ at[m + 1] \in Nat
        /\ at[i + 1] = at[i] + 2 + fs[i].size /\ at[i + 1] <= at[m + 1]
    BY RecordPlaced
  <2>2. at[i] + u \in 1 .. Len(file)
    <3>1. at[i] + u <= at[i + 1] /\ at[i] + u \in Nat /\ 1 <= at[i] + u
      <4>1. \A k \in 1 .. 2 + fs[i].size :
              at[i] + k \in Nat /\ 1 <= at[i] + k /\ at[i] + k <= at[i] + 2 + fs[i].size
        BY <2>1, Places
      <4>2. QED
        BY <2>1, <4>1
    <3>2. QED
      BY <2>1, <3>1
  <2>3. file[at[i] + u] = Writer!FrameUnits(fs[i])[u]
    BY <2>2 DEF Laid
  <2>4. QED
    BY <2>2, <2>3
<1>3. QED
  BY <1>1, <1>2 DEF Laid

\* A record is appended.
LEMMA LaidMore ==
  ASSUME NEW fs \in Seq(Frames), NEW m, NEW at, Starts(fs, at, m), m < Len(fs),
         NEW file \in Seq(Units), Len(file) = at[m + 1], Laid(file, fs, at, m)
  PROVE  \E at2 : /\ Starts(fs, at2, m + 1)
                  /\ \A i \in 1 .. m + 1 : at2[i] = at[i]
                  /\ Laid(file \o Writer!FrameUnits(fs[m + 1]), fs, at2, m + 1)
                  /\ Len(file \o Writer!FrameUnits(fs[m + 1])) = at2[m + 2]
<1>1. PICK at2 : /\ Starts(fs, at2, m + 1)
                 /\ \A i \in 1 .. m + 1 : at2[i] = at[i]
                 /\ at2[m + 2] = at[m + 1] + 2 + fs[m + 1].size
  BY StartsGrow
<1>2. m \in Nat /\ m + 1 \in 1 .. Len(fs) /\ m + 1 \in 1 .. m + 1
  <2>1. m \in 0 .. Len(fs) /\ Len(fs) \in Nat
    BY DEF Starts
  <2>2. QED
    BY <2>1
<1>3. fs[m + 1] \in Frames
  BY <1>2
<1> DEFINE units == Writer!FrameUnits(fs[m + 1])
           grown == file \o units
<1>4. units \in Seq(Units) /\ Len(units) = 2 + fs[m + 1].size /\ fs[m + 1].size \in Nat
  BY <1>3, UnitsAre
<1>5. /\ Len(grown) = Len(file) + Len(units) /\ Len(file) \in Nat /\ Len(grown) \in Nat
      /\ \A p \in 1 .. Len(file) : grown[p] = file[p]
      /\ \A u \in 1 .. Len(units) : grown[Len(file) + u] = units[u]
  <2> HIDE DEF units
  <2>1. QED
    BY <1>4, GrownLaw
<1> HIDE DEF grown
<1>6. Laid(grown, fs, at, m)
  <2>1. Len(file) <= Len(grown) /\ at[m + 1] <= Len(file)
    BY <1>4, <1>5
  <2>2. QED
    BY <1>5, <2>1, LaidBefore
<1>7. ASSUME NEW i \in 1 .. m + 1, NEW u \in 1 .. 2 + fs[i].size, at2[i] + u <= Len(grown)
      PROVE  grown[at2[i] + u] = Writer!FrameUnits(fs[i])[u]
  <2>1. CASE i = m + 1
    BY <1>1, <1>4, <1>5, <2>1
  <2>2. CASE i # m + 1
    <3>1. i \in 1 .. m /\ at2[i] = at[i]
      BY <1>1, <1>2, <2>2
    <3>2. QED
      BY <1>6, <1>7, <3>1 DEF Laid
  <2>3. QED
    BY <2>1, <2>2
<1>8. Laid(grown, fs, at2, m + 1)
  BY <1>6, <1>7 DEF Laid
<1>9. Len(grown) = at2[m + 2]
  BY <1>1, <1>4, <1>5
<1>10. QED
  BY <1>1, <1>8, <1>9 DEF grown, units

\* Frames that come later change nothing of the records there are.
LEMMA LaidLater ==
  ASSUME NEW fs \in Seq(Frames), NEW f \in Frames, NEW m, NEW at, Starts(fs, at, m), NEW file
  PROVE  /\ Starts(Append(fs, f), at, m)
         /\ Laid(file, fs, at, m) => Laid(file, Append(fs, f), at, m)
<1>1. Len(fs) \in Nat /\ m \in 0 .. Len(fs)
  BY DEF Starts
<1>2. Len(Append(fs, f)) = Len(fs) + 1 /\ \A i \in 1 .. m : Append(fs, f)[i] = fs[i]
  <2>1. \A i \in 1 .. m : i \in 1 .. Len(fs)
    BY <1>1
  <2>2. QED
    BY <2>1, AppendLaw
<1>3. m \in 0 .. Len(Append(fs, f))
  BY <1>1, <1>2
<1> DEFINE more == Append(fs, f)
<1> HIDE DEF more
<1>4. m \in 0 .. Len(more) /\ \A i \in 1 .. m : more[i] = fs[i]
  BY <1>2, <1>3 DEF more
<1>5. Starts(more, at, m)
  BY <1>4 DEF Starts
<1>6. Laid(file, fs, at, m) => Laid(file, more, at, m)
  BY <1>4 DEF Laid
<1>7. QED
  BY <1>5, <1>6 DEF more

\* The units of the records, and of the header before them, are not of the trailer.
Kinds == {"head", "json", "rec", "header", "samples"}
\* Up to the end of its records a file holds headers and samples only.
LEMMA KindInside ==
  ASSUME NEW fs \in Seq(Frames), NEW m, NEW at, Starts(fs, at, m),
         NEW file, Len(file) \in Nat, Laid(file, fs, at, m),
         NEW p \in 1 .. Len(file), p <= at[m + 1]
  PROVE  file[p].kind \in Kinds
<1>1. CASE p = 1 \/ p = 2
  BY <1>1 DEF Laid, Headed, Kinds, Writer!FileHeader, Writer!Json
<1>2. CASE p >= 3
  <2>1. PICK i \in 1 .. m : at[i] < p /\ p <= at[i + 1]
    <3>1. p \in 3 .. at[m + 1]
      <4>1. m \in Nat /\ at[m + 1] \in Nat
        BY DEF Starts
      <4>2. QED
        BY <1>2, <4>1
    <3>2. QED
      BY <3>1 DEF Starts
  <2>2. /\ at[i] \in Nat /\ fs[i] \in Frames /\ fs[i].size \in Nat
        /\ at[i + 1] = at[i] + 2 + fs[i].size
    BY RecordPlaced
  <2>3. PICK u \in 1 .. 2 + fs[i].size : p = at[i] + u
    <3>1. \A k \in Nat : at[i] < k /\ k <= at[i] + 2 + fs[i].size =>
            \E u \in 1 .. 2 + fs[i].size : k = at[i] + u
      BY <2>2, Places
    <3>2. p \in Nat /\ at[i] < p /\ p <= at[i] + 2 + fs[i].size
      BY <2>1, <2>2
    <3>3. QED
      BY <3>1, <3>2
  <2>4. file[p] = Writer!FrameUnits(fs[i])[u]
    BY <2>3 DEF Laid
  <2>5. CASE u = 1
    <3>1. file[p] = [kind |-> "rec", payload |-> fs[i].size]
      BY <2>2, <2>4, <2>5, UnitsAre
    <3>2. QED
      BY <3>1 DEF Kinds
  <2>6. CASE u = 2
    <3>1. file[p] = [kind |-> "header", frame |-> fs[i]]
      BY <2>2, <2>4, <2>6, UnitsAre
    <3>2. QED
      BY <3>1 DEF Kinds
  <2>7. CASE \E b \in 1 .. fs[i].size : u = 2 + b
    <3>1. PICK b \in 1 .. fs[i].size : u = 2 + b
      BY <2>7
    <3>2. file[p] = [kind |-> "samples", frame |-> fs[i], block |-> b]
      BY <2>2, <2>4, <3>1, UnitsAre
    <3>3. QED
      BY <3>2 DEF Kinds
  <2>8. QED
    BY <2>2, <2>5, <2>6, <2>7, Places
<1>3. QED
  BY <1>1, <1>2

-----------------------------------------------------------------------------
\* Two writes, and what reaches the disk of them when n units do: a part of both,
\* from their beginning.
Both(a, b, t)    == (a \o b) \o t
Part(a, b, t, n) == a \o SubSeq(b \o t, 1, n)
\* Writing three sequences one after the other, and stopping anywhere, leaves
\* the first places of all three.
LEMMA PartLaw ==
  ASSUME NEW a \in Seq(Units), NEW b \in Seq(Units), NEW t \in Seq(Units),
         NEW n \in 0 .. Len(b) + Len(t)
  PROVE  /\ Part(a, b, t, n) \in Seq(Units) /\ Len(Part(a, b, t, n)) \in Nat
         /\ Len(Part(a, b, t, n)) = Len(a) + n
         /\ Both(a, b, t) \in Seq(Units) /\ Len(Both(a, b, t)) \in Nat
         /\ Len(Both(a, b, t)) = Len(a) + Len(b) + Len(t)
         /\ \A p \in 1 .. Len(Part(a, b, t, n)) : Part(a, b, t, n)[p] = Both(a, b, t)[p]
<1> DEFINE c == b \o t
           d == Part(a, b, t, n)
           full == Both(a, b, t)
<1>1. c \in Seq(Units) /\ Len(c) = Len(b) + Len(t) /\ Len(b) \in Nat /\ Len(t) \in Nat
      /\ Len(c) \in Nat
  BY GrownLaw
<1>2. full = a \o c
  BY ConcatAssociative DEF Both
<1> DEFINE e == SubSeq(c, 1, n)
<1>3. d = a \o e
  BY DEF Part
<1> HIDE DEF c, d, full
<1>4. e \in Seq(Units) /\ Len(e) = n /\ \A u \in 1 .. n : e[u] = c[u]
  <2>1. \A i \in 1 .. Len(c) : c[i] \in Units
    BY <1>1
  <2>2. n \in 0 .. Len(c) /\ n \in Int
    BY <1>1
  <2>3. \A i \in 1 .. n : c[i] \in Units
    BY <1>1, <2>1, <2>2
  <2>4. QED
    BY <2>2, <2>3, SubSeqProperties
<1> HIDE DEF e
<1>5. /\ d \in Seq(Units) /\ Len(d) = Len(a) + Len(e) /\ Len(a) \in Nat
      /\ \A p \in 1 .. Len(a) : d[p] = a[p]
      /\ \A u \in 1 .. Len(e) : d[Len(a) + u] = e[u]
  <2>1. /\ a \o e \in Seq(Units) /\ Len(a \o e) = Len(a) + Len(e) /\ Len(a) \in Nat
        /\ \A p \in 1 .. Len(a) : (a \o e)[p] = a[p]
        /\ \A u \in 1 .. Len(e) : (a \o e)[Len(a) + u] = e[u]
    BY <1>4, GrownLaw
  <2>2. QED
    BY <1>3, <2>1
<1>6. /\ full \in Seq(Units) /\ Len(full) = Len(a) + Len(c)
      /\ \A p \in 1 .. Len(a) : full[p] = a[p]
      /\ \A u \in 1 .. Len(c) : full[Len(a) + u] = c[u]
  <2>1. /\ a \o c \in Seq(Units) /\ Len(a \o c) = Len(a) + Len(c)
        /\ \A p \in 1 .. Len(a) : (a \o c)[p] = a[p]
        /\ \A u \in 1 .. Len(c) : (a \o c)[Len(a) + u] = c[u]
    BY <1>1, GrownLaw
  <2>2. QED
    BY <1>2, <2>1
<1>7. ASSUME NEW p \in 1 .. Len(d) PROVE d[p] = full[p]
  <2>1. CASE p \in 1 .. Len(a)
    BY <1>5, <1>6, <2>1
  <2>2. CASE p \notin 1 .. Len(a)
    <3>1. PICK u \in 1 .. n : p = Len(a) + u
      <4>1. p - Len(a) \in 1 .. n /\ p = Len(a) + (p - Len(a))
        BY <1>4, <1>5, <2>2
      <4>2. QED
        BY <4>1
    <3>2. u \in 1 .. Len(c) /\ u \in 1 .. Len(e)
      BY <1>1, <1>4
    <3>3. d[p] = e[u] /\ full[p] = c[u] /\ e[u] = c[u]
      BY <1>4, <1>5, <1>6, <3>1, <3>2
    <3>4. QED
      BY <3>3
  <2>3. QED
    BY <2>1, <2>2
<1>8. /\ Len(d) = Len(a) + n /\ Len(full) = Len(a) + Len(b) + Len(t)
      /\ Len(d) \in Nat /\ Len(full) \in Nat
  BY <1>1, <1>4, <1>5, <1>6
<1>9. QED
  BY <1>5, <1>6, <1>7, <1>8 DEF d, full

\* The steps that leave the file, the frames and the index alone.
LEMMA CrashUnchanged ==
  ASSUME CrashInv, UNCHANGED <<disk, buffer, stream, index, accepted, sealed>> PROVE CrashInv'
  BY DEF CrashInv, Growing, Left, LeftBy, Indexed

\* A file that was just begun has its header or less, and no record.
LEMMA CrashOpens == ASSUME Writer!OpenFile \/ Writer!HeaderFails PROVE CrashInv'
<1>1. CASE Writer!OpenFile
  <2> DEFINE at == [i \in 1 .. 1 |-> 2]
             start == <<Writer!FileHeader, Writer!Json>>
  <2>1. disk' = start /\ buffer' = <<>> /\ stream' = "good" /\ index' = <<>> /\ accepted' = <<>>
    BY <1>1 DEF Writer!OpenFile
  <2>2. start \in Seq(Units) /\ Len(start) = 2 /\ Headed(start)
    BY DEF Units, Headed
  <2> HIDE DEF start
  <2>3. disk' \o buffer' = start
    BY <2>1, <2>2, ConcatEmptySeq
  <2>4. /\ at \in [1 .. 1 -> Nat] /\ at[1] = 2 /\ 0 \in 0 .. 0
        /\ \A i, j \in 1 .. 1 : ~ (i < j)
    OBVIOUS
  <2> HIDE DEF at
  <2>5. Starts(<<>>, at, 0)
    <3>1. Len(<<>>) = 0 /\ 0 + 1 = 1
      OBVIOUS
    <3>2. \A i \in 1 .. 0 : FALSE
      OBVIOUS
    <3>3. \A p \in 3 .. 2 : FALSE
      OBVIOUS
    <3>4. QED
      BY <2>4, <3>1, <3>2, <3>3 DEF Starts
  <2>6. Laid(start, <<>>, at, 0)
    BY <2>2 DEF Laid
  <2>7. Growing'
    <3>1. Len(index') = 0 /\ 0 + 1 = 1
      BY <2>1
    <3>2. Indexed(at)'
      BY <3>1 DEF Indexed
    <3>3. Starts(accepted', at, Len(index')) /\ Laid(disk' \o buffer', accepted', at, Len(index'))
      BY <2>1, <2>3, <2>5, <2>6, <3>1
    <3>4. Len(disk' \o buffer') = at[Len(index') + 1] /\ Len(disk') >= 2
      BY <2>1, <2>2, <2>3, <2>4, <3>1
    <3>5. QED
      BY <3>2, <3>3, <3>4 DEF Growing
  <2>8. stream' = "good"
    BY <2>1
  <2>9. QED
    BY <2>7, <2>8 DEF CrashInv
<1>2. CASE Writer!HeaderFails
  <2>1. stream' = "closed" /\ (disk' = <<>> \/ disk' = <<Writer!FileHeader>>)
    BY <1>2 DEF Writer!HeaderFails
  <2>2. Len(<<>>) = 0 /\ Len(<<Writer!FileHeader>>) = 1
    OBVIOUS
  <2>3. ~ (Len(disk') >= 2)
    BY <2>1, <2>2
  <2>4. QED
    BY <2>1, <2>3 DEF CrashInv
<1>3. QED
  BY <1>1, <1>2

\* write() does not touch the file.
LEMMA CrashWrite == ASSUME FileInv, CrashInv, NEW f \in Frames, Writer!Write(f) PROVE CrashInv'
<1>1. /\ open /\ accepted' = Append(accepted, f)
      /\ UNCHANGED <<disk, buffer, stream, index, sealed>>
  BY DEF Writer!Write, Writer!fileVars
<1>2. ~sealed /\ accepted \in Seq(Frames)
  BY <1>1, Sequences DEF FileInv, WriterInv, Whole
<1>3. ASSUME stream = "good" PROVE Growing'
  <2>1. PICK at : /\ Starts(accepted, at, Len(index)) /\ Indexed(at)
                  /\ Laid(disk \o buffer, accepted, at, Len(index))
                  /\ Len(disk \o buffer) = at[Len(index) + 1]
    BY <1>3 DEF CrashInv, Growing
  <2>2. Starts(accepted', at, Len(index)) /\ Laid(disk \o buffer, accepted', at, Len(index))
    BY <1>1, <1>2, <2>1, LaidLater
  <2>3. Indexed(at)'
    BY <1>1, <2>1 DEF Indexed
  <2>4. Len(disk) >= 2
    BY <1>3 DEF CrashInv, Growing
  <2>5. QED
    BY <1>1, <2>1, <2>2, <2>3, <2>4 DEF Growing
<1>4. ASSUME stream # "good", Len(disk) >= 2 PROVE Left'
  <2>1. PICK m, at : LeftBy(at, m)
    BY <1>4 DEF CrashInv, Left
  <2>2. Starts(accepted', at, m) /\ Laid(disk, accepted', at, m)
    BY <1>1, <1>2, <2>1, LaidLater DEF LeftBy
  <2>3. LeftBy(at, m)'
    BY <1>1, <1>2, <2>1, <2>2 DEF LeftBy
  <2>4. QED
    BY <2>3 DEF Left
<1>5. QED
  BY <1>1, <1>3, <1>4 DEF CrashInv

\* The record that is next in line, and where the stream in order would take it.
LEMMA NextRecord ==
  ASSUME FileInv, CrashInv, stream = "good", queue # <<>>
  PROVE  /\ Len(index) \in Nat /\ Len(index) < Len(accepted) /\ accepted \in Seq(Frames)
         /\ queue[1] \in Frames /\ queue[1] = accepted[Len(index) + 1]
         /\ Writer!FrameUnits(queue[1]) \in Seq(Units) /\ ~sealed
         /\ disk \in Seq(Units) /\ buffer \in Seq(Units) /\ Len(disk) \in Nat /\ Len(disk) >= 2
         /\ \E at, at2 :
              /\ Indexed(at) /\ Len(disk \o buffer) = at[Len(index) + 1]
              /\ Starts(accepted, at2, Len(index) + 1)
              /\ \A i \in 1 .. Len(index) + 1 : at2[i] = at[i]
              /\ Laid((disk \o buffer) \o Writer!FrameUnits(queue[1]), accepted, at2, Len(index) + 1)
              /\ Len((disk \o buffer) \o Writer!FrameUnits(queue[1])) = at2[Len(index) + 2]
<1>1. /\ WriterTyped /\ OnDisk /\ Kept /\ ~sealed
  BY DEF FileInv, WriterInv, Whole
<1>2. /\ queue \in Seq(Frames) /\ accepted \in Seq(Frames) /\ Len(queue) \in Nat
      /\ Len(accepted) \in Nat /\ Len(index) \in Nat
  BY <1>1, Sequences
<1>3. Len(queue) \in Nat \ {0} /\ 1 \in 1 .. Len(queue)
  BY <1>2
<1>4. /\ Len(index) + Len(queue) = Len(accepted) /\ queue[1] = accepted[Len(index) + 1]
      /\ Len(index) < Len(accepted) /\ queue[1] \in Frames
  BY <1>1, <1>2, <1>3 DEF Kept
<1>5. Writer!FrameUnits(queue[1]) \in Seq(Units)
  BY <1>4, UnitsAre
<1>6. /\ disk \in Seq(Units) /\ buffer \in Seq(Units) /\ Len(disk) \in Nat
      /\ disk \o buffer \in Seq(Units)
  BY <1>1, FileTyped DEF OnDisk
<1>7. Growing
  BY DEF CrashInv
<1>8. PICK at : /\ Starts(accepted, at, Len(index)) /\ Indexed(at)
                /\ Laid(disk \o buffer, accepted, at, Len(index))
                /\ Len(disk \o buffer) = at[Len(index) + 1]
  BY <1>7 DEF Growing
<1> DEFINE file == disk \o buffer
           m    == Len(index)
<1>9. /\ file \in Seq(Units) /\ Starts(accepted, at, m) /\ Laid(file, accepted, at, m)
      /\ Len(file) = at[m + 1] /\ m < Len(accepted) /\ accepted \in Seq(Frames)
  BY <1>2, <1>4, <1>6, <1>8
<1> HIDE DEF file, m
<1>10. PICK at2 : /\ Starts(accepted, at2, m + 1)
                  /\ \A i \in 1 .. m + 1 : at2[i] = at[i]
                  /\ Laid(file \o Writer!FrameUnits(accepted[m + 1]), accepted, at2, m + 1)
                  /\ Len(file \o Writer!FrameUnits(accepted[m + 1])) = at2[m + 2]
  BY <1>9, LaidMore
<1>11. Len(disk) >= 2
  BY <1>7 DEF Growing
<1>12. QED
  BY <1>1, <1>2, <1>4, <1>5, <1>6, <1>8, <1>10, <1>11 DEF file, m

\* The worker's write puts a further record behind those that are there, and any
\* part of it on the disk.
LEMMA CrashAppend == ASSUME FileInv, CrashInv, Writer!AppendFrame PROVE CrashInv'
<1> DEFINE f == queue[1]
           units == Writer!FrameUnits(f)
           entry == Writer!EntryFor(f, Writer!Tellp)
<1>1. /\ queue # <<>> /\ stream = "good" /\ index' = Append(index, entry)
      /\ UNCHANGED <<accepted, sealed>>
  BY DEF Writer!AppendFrame
<1>2. PICK n \in 0 .. Len(buffer) + Len(units) : Writer!Put(units, n)
  BY DEF Writer!AppendFrame
<1>3. /\ units \in Seq(Units) /\ Len(index) \in Nat /\ Len(index) < Len(accepted)
      /\ disk \in Seq(Units) /\ buffer \in Seq(Units) /\ Len(disk) \in Nat /\ Len(disk) >= 2
      /\ f \in Frames
  BY <1>1, NextRecord
<1>4. PICK at, at2 :
         /\ Indexed(at) /\ Len(disk \o buffer) = at[Len(index) + 1]
         /\ Starts(accepted, at2, Len(index) + 1)
         /\ \A i \in 1 .. Len(index) + 1 : at2[i] = at[i]
         /\ Laid((disk \o buffer) \o units, accepted, at2, Len(index) + 1)
         /\ Len((disk \o buffer) \o units) = at2[Len(index) + 2]
  BY <1>1, NextRecord
<1>5. OnDisk /\ WriterTyped
  BY DEF FileInv, WriterInv
<1>6. Len(buffer) \in Nat /\ Len(units) \in Nat /\ n \in Int
  BY <1>2, <1>3
<1>7. disk' \o buffer' = (disk \o buffer) \o units /\ stream' = stream
  BY <1>2, <1>3, <1>5, <1>6, PutLaw
<1>8. Len(disk') >= 2
  <2>1. disk' = Part(disk, buffer, units, n) /\ n \in 0 .. Len(buffer) + Len(units)
    BY <1>2 DEF Writer!Put, Part
  <2> HIDE DEF units
  <2>2. /\ disk' \in Seq(Units) /\ Len(disk') \in Nat /\ Len(disk') = Len(disk) + n
        /\ \A p \in 1 .. Len(disk') : disk'[p] = Both(disk, buffer, units)[p]
    <3>1. disk \in Seq(Units) /\ buffer \in Seq(Units) /\ units \in Seq(Units)
      BY <1>3
    <3>2. /\ Part(disk, buffer, units, n) \in Seq(Units) /\ Len(Part(disk, buffer, units, n)) \in Nat
          /\ Len(Part(disk, buffer, units, n)) = Len(disk) + n
          /\ \A p \in 1 .. Len(Part(disk, buffer, units, n)) :
               Part(disk, buffer, units, n)[p] = Both(disk, buffer, units)[p]
      BY <3>1, PartLaw
    <3>3. QED
      BY <2>1, <3>2
  <2>3. QED
    BY <1>3, <1>6, <2>1, <2>2
<1>9. Writer!Tellp = Len(disk \o buffer) /\ Writer!Tellp \in Nat
  BY <1>5, FileTyped
<1>10. entry.at = at[Len(index) + 1] /\ entry \in Entries
  BY <1>3, <1>4, <1>9 DEF Writer!EntryFor, Entries
<1> HIDE DEF f, units, entry
<1>11. /\ Len(index') = Len(index) + 1 /\ \A i \in 1 .. Len(index) : index'[i] = index[i]
       /\ index'[Len(index) + 1] = entry
  <2>1. index \in Seq(Entries)
    BY <1>5, Sequences
  <2>2. QED
    BY <1>1, <1>10, <2>1, AppendLaw
<1>12. Indexed(at2)'
  <2>1. ASSUME NEW i \in 1 .. Len(index) + 1 PROVE index'[i].at = at2[i]
    <3>1. CASE i = Len(index) + 1
      BY <1>3, <1>4, <1>10, <1>11, <3>1
    <3>2. CASE i # Len(index) + 1
      <4>1. i \in 1 .. Len(index)
        BY <1>3, <3>2
      <4>2. QED
        BY <1>4, <1>11, <4>1 DEF Indexed
    <3>3. QED
      BY <3>1, <3>2
  <2>2. QED
    BY <1>11, <2>1 DEF Indexed
<1>13. Growing'
  <2> DEFINE k == Len(index) + 1
             file == disk' \o buffer'
  <2>1. /\ Len(index') = k /\ accepted' = accepted /\ Starts(accepted, at2, k)
        /\ Laid(file, accepted, at2, k)
    BY <1>1, <1>4, <1>7, <1>11
  <2>2. Len(file) = at2[k + 1]
    <3>1. k + 1 = Len(index) + 2
      BY <1>3
    <3>2. QED
      BY <1>4, <1>7, <3>1
  <2> HIDE DEF k
  <2>3. QED
    BY <1>8, <1>12, <2>1, <2>2 DEF Growing
<1>14. QED
  BY <1>1, <1>7, <1>13 DEF CrashInv

\* The record that failed is the last, and the file ends inside it.
LEMMA CrashAppendFails == ASSUME FileInv, CrashInv, Writer!AppendFails PROVE CrashInv'
<1> DEFINE f == queue[1]
           units == Writer!FrameUnits(f)
           full == Both(disk, buffer, units)
<1>1. /\ queue # <<>> /\ stream = "good" /\ UNCHANGED <<index, accepted, sealed>>
  BY DEF Writer!AppendFails
<1>2. PICK n \in 0 .. Len(buffer) + Len(units) : Writer!PutFails(units, n)
  BY DEF Writer!AppendFails
<1>3. /\ units \in Seq(Units) /\ Len(index) \in Nat /\ accepted \in Seq(Frames) /\ ~sealed
      /\ disk \in Seq(Units) /\ buffer \in Seq(Units) /\ Len(disk) \in Nat /\ Len(disk) >= 2
  BY <1>1, NextRecord
<1> DEFINE next == Len(index) + 1
<1> PICK m \in Nat : m = next
  BY <1>3
<1> HIDE DEF next
<1>4. PICK at2 : /\ Starts(accepted, at2, Len(index) + 1)
                 /\ Laid(full, accepted, at2, Len(index) + 1)
                 /\ Len(full) = at2[Len(index) + 2]
  BY <1>1, NextRecord DEF Both
<1>5. /\ Len(buffer) \in Nat /\ Len(units) \in Nat /\ Len(buffer \o units) = Len(buffer) + Len(units)
  BY <1>3, GrownLaw
<1>6. /\ disk' = Part(disk, buffer, units, n) /\ stream' = "bad"
      /\ n \in 0 .. Len(buffer) + Len(units) - 1
  BY <1>2, <1>5 DEF Writer!PutFails, Part
<1>7. /\ disk' \in Seq(Units) /\ Len(disk') \in Nat /\ Len(disk') = Len(disk) + n
      /\ Len(full) = Len(disk) + Len(buffer) + Len(units)
      /\ \A p \in 1 .. Len(disk') : disk'[p] = full[p]
  <2> HIDE DEF units
  <2>1. n \in 0 .. Len(buffer) + Len(units)
    BY <1>2
  <2>2. QED
    BY <1>3, <1>6, <2>1, PartLaw
<1>8. Starts(accepted, at2, m) /\ Laid(full, accepted, at2, m) /\ Len(full) = at2[m + 1]
  <2>1. m + 1 = Len(index) + 2
    BY <1>3 DEF next
  <2>2. m = Len(index) + 1
    BY DEF next
  <2>3. QED
    BY <1>4, <2>1, <2>2
<1> HIDE DEF units, full
<1>9. Len(disk') < Len(full) /\ Len(disk') >= 2 /\ Len(full) \in Nat
  <2>1. n \in 0 .. Len(buffer) + Len(units) - 1 /\ Len(disk') = Len(disk) + n
        /\ Len(full) = Len(disk) + Len(buffer) + Len(units)
    BY <1>6, <1>7
  <2>2. QED
    BY <1>3, <1>5, <2>1
<1>10. Laid(disk', accepted, at2, m)
  <2>1. /\ Len(disk') \in Nat /\ 2 <= Len(disk') /\ Len(disk') <= Len(full) /\ Len(full) \in Nat
        /\ \A p \in 1 .. Len(disk') : disk'[p] = full[p]
    BY <1>7, <1>9
  <2>2. accepted \in Seq(Frames)
    BY <1>3
  <2>3. QED
    BY <1>8, <2>1, <2>2, LaidPrefix
<1>11. Trailing(disk', at2[m + 1])
  <2>1. \A p \in Len(full) + 1 .. Len(disk') : FALSE
    BY <1>7, <1>9
  <2>2. QED
    BY <1>8, <2>1 DEF Trailing
<1>12. disk'[Len(disk')].kind # "footer"
  <2>1. Len(disk') \in 1 .. Len(disk') /\ Len(disk') <= at2[m + 1]
    BY <1>7, <1>8, <1>9
  <2>2. \A p \in 1 .. Len(disk') : p <= at2[m + 1] => disk'[p].kind \in Kinds
    BY <1>3, <1>7, <1>8, <1>10, KindInside
  <2>3. disk'[Len(disk')].kind \in Kinds
    BY <2>1, <2>2
  <2>4. QED
    BY <2>3 DEF Kinds
<1>13. LeftBy(at2, m)'
  <2>1. ~sealed' /\ accepted' = accepted
    BY <1>1, <1>3
  <2>2. QED
    BY <1>8, <1>10, <1>11, <1>12, <2>1 DEF LeftBy
<1>14. Left'
  BY <1>13 DEF Left
<1>15. QED
  BY <1>6, <1>14 DEF CrashInv

\* What close() has to write, and the file it makes of it.
Closing == Writer!Trailer(index, Writer!Tellp)
\* The index and the footer are written behind the last record; only the last
\* unit of them is a footer.
LEMMA Sealing ==
  ASSUME FileInv, CrashInv, stream = "good", queue = <<>>
  PROVE  /\ Len(index) \in Nat /\ Len(index) = Len(accepted) /\ accepted \in Seq(Frames) /\ ~sealed
         /\ disk \in Seq(Units) /\ buffer \in Seq(Units) /\ Len(disk) >= 2
         /\ Closing \in Seq(Units) /\ Len(Closing) = 2 + Len(index)
         /\ \E at : \E end \in Nat :
              /\ Indexed(at) /\ Starts(accepted, at, Len(index))
              /\ end = Len(disk) + Len(buffer) /\ end = at[Len(index) + 1]
              /\ Laid(Both(disk, buffer, Closing), accepted, at, Len(index))
              /\ \A p \in end + 1 .. end + 1 + Len(index) :
                   Both(disk, buffer, Closing)[p].kind \in {"index", "entry"}
              /\ Both(disk, buffer, Closing)[end + 2 + Len(index)].kind = "footer"
<1>1. /\ WriterTyped /\ OnDisk /\ Kept /\ ~sealed
  BY DEF FileInv, WriterInv, Whole
<1>2. /\ index \in Seq(Entries) /\ accepted \in Seq(Frames) /\ Len(index) \in Nat
      /\ Len(accepted) \in Nat /\ Len(index) = Len(accepted)
  <2>1. Len(index) + Len(queue) = Len(accepted) /\ Len(queue) = 0
    BY <1>1 DEF Kept
  <2>2. QED
    BY <1>1, <2>1, Sequences
<1>3. /\ disk \in Seq(Units) /\ buffer \in Seq(Units) /\ Len(disk) \in Nat /\ Len(buffer) \in Nat
      /\ disk \o buffer \in Seq(Units) /\ Writer!Tellp \in Nat
      /\ Len(disk \o buffer) = Len(disk) + Len(buffer)
  BY <1>1, FileTyped, GrownLaw DEF OnDisk
<1>4. /\ Closing \in Seq(Units) /\ Len(Closing) = 2 + Len(index)
      /\ Closing[1].kind = "index"
      /\ \A i \in 1 .. Len(index) : Closing[1 + i].kind = "entry"
      /\ Closing[2 + Len(index)].kind = "footer"
  <2>1. \A n, e : /\ Writer!Index(n).kind = "index" /\ Writer!Entry(e).kind = "entry"
                  /\ Writer!Footer(n).kind = "footer"
    BY DEF Writer!Index, Writer!Entry, Writer!Footer
  <2>2. /\ Closing \in Seq(Units) /\ Len(Closing) = 2 + Len(index)
        /\ Closing[1] = Writer!Index(Len(index))
        /\ \A i \in 1 .. Len(index) : Closing[1 + i] = Writer!Entry(index[i])
        /\ Closing[2 + Len(index)] = Writer!Footer(Writer!Tellp)
    BY <1>2, <1>3, TrailerLaw DEF Closing
  <2>3. QED
    BY <2>1, <2>2
<1>5. Len(disk) >= 2
  BY DEF CrashInv, Growing
<1>6. PICK at : /\ Starts(accepted, at, Len(index)) /\ Indexed(at)
                /\ Laid(disk \o buffer, accepted, at, Len(index))
                /\ Len(disk \o buffer) = at[Len(index) + 1]
  BY DEF CrashInv, Growing
<1> DEFINE file == disk \o buffer
           full == Both(disk, buffer, Closing)
<1>7. /\ full \in Seq(Units) /\ Len(full) = Len(file) + Len(Closing)
      /\ Len(file) \in Nat /\ Len(full) \in Nat /\ Len(file) <= Len(full)
      /\ \A p \in 1 .. Len(file) : full[p] = file[p]
      /\ \A u \in 1 .. Len(Closing) : full[Len(file) + u] = Closing[u]
  <2>1. file \in Seq(Units) /\ full = file \o Closing
    BY <1>3 DEF Both
  <2> HIDE DEF file, full
  <2>2. /\ file \o Closing \in Seq(Units) /\ Len(file \o Closing) = Len(file) + Len(Closing)
        /\ Len(file) \in Nat /\ Len(Closing) \in Nat
        /\ \A p \in 1 .. Len(file) : (file \o Closing)[p] = file[p]
        /\ \A u \in 1 .. Len(Closing) : (file \o Closing)[Len(file) + u] = Closing[u]
    BY <1>4, <2>1, GrownLaw
  <2>3. QED
    BY <2>1, <2>2
<1> HIDE DEF full
<1>8. Laid(full, accepted, at, Len(index))
  <2> HIDE DEF file
  <2>1. Laid(file, accepted, at, Len(index)) /\ at[Len(index) + 1] <= Len(file)
    BY <1>6, <1>7 DEF file
  <2>2. QED
    BY <1>2, <1>6, <1>7, <2>1, LaidBefore
<1>9. ASSUME NEW p \in Len(file) + 1 .. Len(file) + 1 + Len(index)
      PROVE  full[p].kind \in {"index", "entry"}
  <2> HIDE DEF file
  <2>1. PICK u \in 1 .. 1 + Len(index) : p = Len(file) + u
    <3>1. p - Len(file) \in 1 .. 1 + Len(index) /\ p = Len(file) + (p - Len(file))
      BY <1>2, <1>7
    <3>2. QED
      BY <3>1
  <2>2. u \in 1 .. Len(Closing)
    BY <1>2, <1>4
  <2>3. u = 1 \/ \E i \in 1 .. Len(index) : u = 1 + i
    <3>1. u = 1 \/ (u - 1 \in 1 .. Len(index) /\ u = 1 + (u - 1))
      BY <1>2
    <3>2. QED
      BY <3>1
  <2>4. Closing[u].kind \in {"index", "entry"}
    BY <1>4, <2>3
  <2>5. QED
    BY <1>7, <2>1, <2>2, <2>4
<1>10. full[Len(file) + 2 + Len(index)].kind = "footer"
  <2> HIDE DEF file
  <2>1. 2 + Len(index) \in 1 .. Len(Closing) /\ Len(file) + 2 + Len(index) = Len(file) + (2 + Len(index))
    BY <1>2, <1>4, <1>7
  <2>2. QED
    BY <1>4, <1>7, <2>1
<1>11. Len(file) \in Nat /\ Len(file) = Len(disk) + Len(buffer) /\ Len(file) = at[Len(index) + 1]
  BY <1>3, <1>6, <1>7
<1> HIDE DEF file
<1>12. \E at2 : \E end \in Nat :
         /\ Indexed(at2) /\ Starts(accepted, at2, Len(index))
         /\ end = Len(disk) + Len(buffer) /\ end = at2[Len(index) + 1]
         /\ Laid(full, accepted, at2, Len(index))
         /\ \A p \in end + 1 .. end + 1 + Len(index) : full[p].kind \in {"index", "entry"}
         /\ full[end + 2 + Len(index)].kind = "footer"
  BY <1>6, <1>8, <1>9, <1>10, <1>11
<1>13. QED
  BY <1>1, <1>2, <1>3, <1>4, <1>5, <1>12 DEF full

\* Whatever part of the index is on the disk, it follows the last record.
LEMMA CrashSeal == ASSUME FileInv, CrashInv, Writer!Seal PROVE CrashInv'
<1>1. /\ queue = <<>> /\ stream = "good" /\ stream' = "closed" /\ sealed' = TRUE
      /\ disk' = Both(disk, buffer, Closing) /\ UNCHANGED <<index, accepted>>
  BY DEF Writer!Seal, Writer!EndClose, Writer!WorkerIdle, Both, Closing
<1>2. /\ Len(index) \in Nat /\ Len(index) = Len(accepted) /\ accepted \in Seq(Frames)
      /\ disk \in Seq(Units) /\ buffer \in Seq(Units) /\ Closing \in Seq(Units)
      /\ Len(Closing) = 2 + Len(index)
  BY <1>1, Sealing
<1> DEFINE full == Both(disk, buffer, Closing)
           count == Len(index)
<1> PICK m \in Nat : m = count
  BY <1>2
<1>3. PICK at : \E end \in Nat :
         /\ Indexed(at) /\ Starts(accepted, at, m)
         /\ end = Len(disk) + Len(buffer) /\ end = at[m + 1]
         /\ Laid(full, accepted, at, m)
         /\ \A p \in end + 1 .. end + 1 + m : full[p].kind \in {"index", "entry"}
         /\ full[end + 2 + m].kind = "footer"
  BY <1>1, Sealing
<1>4. PICK end \in Nat :
         /\ end = Len(disk) + Len(buffer) /\ end = at[m + 1]
         /\ \A p \in end + 1 .. end + 1 + m : full[p].kind \in {"index", "entry"}
         /\ full[end + 2 + m].kind = "footer"
  BY <1>3
<1>5. Len(full) = end + 2 + m /\ Len(full) \in Nat
  <2>1. Len(disk) \in Nat /\ Len(buffer) \in Nat /\ 0 \in 0 .. Len(buffer) + Len(Closing)
    BY <1>2
  <2>2. Len(full) = Len(disk) + Len(buffer) + Len(Closing)
    BY <1>2, <2>1, PartLaw
  <2> HIDE DEF full
  <2>3. QED
    BY <1>2, <1>4, <2>1, <2>2
<1> HIDE DEF full, count
<1>6. Trailing(full, at[m + 1])
  <2>1. ASSUME NEW p \in end + 1 .. Len(full) PROVE full[p].kind \in {"index", "entry", "footer"}
    <3>1. p \in end + 1 .. end + 1 + m \/ p = end + 2 + m
      BY <1>5
    <3>2. QED
      BY <1>4, <3>1
  <2>2. QED
    BY <1>4, <2>1 DEF Trailing
<1>7. disk' = full /\ accepted' = accepted /\ Indexed(at)' /\ m = Len(accepted)
  BY <1>1, <1>2, <1>3 DEF full, count, Indexed
<1>8. at[m + 1] <= Len(full)
  BY <1>4, <1>5
<1>9. LeftBy(at, m)'
  BY <1>1, <1>3, <1>6, <1>7, <1>8 DEF LeftBy
<1>10. QED
  BY <1>1, <1>9 DEF CrashInv, Left

\* A close() that fails leaves no footer.
LEMMA CrashSealFails == ASSUME FileInv, CrashInv, Writer!SealFails PROVE CrashInv'
<1>1. /\ queue = <<>> /\ stream = "good" /\ stream' = "closed"
      /\ UNCHANGED <<index, accepted, sealed>>
  BY DEF Writer!SealFails, Writer!EndClose, Writer!WorkerIdle
<1>2. PICK n \in 0 .. Len(buffer) + Len(index) + 1 : disk' = Part(disk, buffer, Closing, n)
  BY DEF Writer!SealFails, Part, Closing
<1>3. /\ Len(index) \in Nat /\ accepted \in Seq(Frames) /\ ~sealed
      /\ disk \in Seq(Units) /\ buffer \in Seq(Units) /\ Closing \in Seq(Units)
      /\ Len(Closing) = 2 + Len(index) /\ Len(disk) \in Nat /\ Len(disk) >= 2 /\ Len(buffer) \in Nat
  BY <1>1, Sealing
<1> DEFINE full == Both(disk, buffer, Closing)
           part == Part(disk, buffer, Closing, n)
           count == Len(index)
<1> PICK m \in Nat : m = count
  BY <1>3
<1>4. PICK at : \E end \in Nat :
         /\ Starts(accepted, at, m)
         /\ end = Len(disk) + Len(buffer) /\ end = at[m + 1]
         /\ Laid(full, accepted, at, m)
         /\ \A p \in end + 1 .. end + 1 + m : full[p].kind \in {"index", "entry"}
  BY <1>1, Sealing
<1>5. PICK end \in Nat :
         /\ end = Len(disk) + Len(buffer) /\ end = at[m + 1]
         /\ \A p \in end + 1 .. end + 1 + m : full[p].kind \in {"index", "entry"}
  BY <1>4
<1>6. /\ Len(part) \in Nat /\ Len(part) = Len(disk) + n
      /\ Len(full) = Len(disk) + Len(buffer) + Len(Closing) /\ Len(full) \in Nat
      /\ \A p \in 1 .. Len(part) : part[p] = full[p]
  <2>1. n \in 0 .. Len(buffer) + Len(Closing)
    BY <1>3
  <2>2. disk \in Seq(Units) /\ buffer \in Seq(Units) /\ Closing \in Seq(Units)
    BY <1>3
  <2>3. QED
    BY <2>1, <2>2, PartLaw
<1> HIDE DEF full, part, count
<1>7. Len(part) >= 2 /\ Len(part) <= Len(full) /\ Len(part) <= end + 1 + m
  BY <1>3, <1>5, <1>6 DEF count
<1>8. Laid(part, accepted, at, m)
  BY <1>3, <1>4, <1>6, <1>7, LaidPrefix
<1>9. \A p \in end + 1 .. Len(part) : part[p].kind \in {"index", "entry"}
  <2>1. \A p \in end + 1 .. Len(part) : p \in 1 .. Len(part) /\ p \in end + 1 .. end + 1 + m
    BY <1>6, <1>7
  <2>2. QED
    BY <1>5, <1>6, <2>1
<1>10. Trailing(part, at[m + 1])
  BY <1>5, <1>9 DEF Trailing
<1>11. part[Len(part)].kind # "footer"
  <2>1. Len(part) \in 1 .. Len(part) /\ (Len(part) <= end \/ Len(part) \in end + 1 .. Len(part))
    BY <1>6, <1>7
  <2>2. Len(part) <= end => part[Len(part)].kind \in Kinds
    <3>1. \A p \in 1 .. Len(part) : p <= at[m + 1] => part[p].kind \in Kinds
      BY <1>3, <1>4, <1>6, <1>8, KindInside
    <3>2. QED
      BY <1>5, <2>1, <3>1
  <2>3. QED
    BY <1>9, <2>1, <2>2 DEF Kinds
<1>12. disk' = part /\ accepted' = accepted /\ ~sealed'
  BY <1>1, <1>2, <1>3 DEF part
<1>13. LeftBy(at, m)'
  BY <1>4, <1>8, <1>10, <1>11, <1>12 DEF LeftBy
<1>14. QED
  BY <1>1, <1>13 DEF CrashInv, Left

\* Every step keeps the records of a file at their places.
LEMMA CrashStep == FileInv /\ CrashInv /\ [Next]_vars => CrashInv'
<1> SUFFICES ASSUME FileInv, CrashInv, [Next]_vars PROVE CrashInv'
  OBVIOUS
<1>1. Writes \/ UNCHANGED writerVars
  BY WriterSteps
<1>2. CASE \/ UNCHANGED writerVars \/ Writer!OpenRefused \/ Writer!SkipFrame
           \/ Writer!BeginClose \/ Writer!CloseFailed
  <2>1. UNCHANGED <<disk, buffer, stream, index, accepted, sealed>>
    BY <1>2 DEF writerVars, Writer!OpenRefused, Writer!SkipFrame, Writer!BeginClose,
       Writer!CloseFailed, Writer!EndClose, Writer!fileVars
  <2>2. QED
    BY <2>1, CrashUnchanged
<1>3. CASE Writer!OpenFile \/ Writer!HeaderFails
  BY <1>3, CrashOpens
<1>4. CASE \E f \in Frames : Writer!Write(f)
  BY <1>4, CrashWrite
<1>5. CASE Writer!AppendFrame \/ Writer!AppendFails \/ Writer!Seal \/ Writer!SealFails
  BY <1>5, CrashAppend, CrashAppendFails, CrashSeal, CrashSealFails
<1>6. QED
  BY <1>1, <1>2, <1>3, <1>4, <1>5 DEF Writes

\* Before a recording no file has records.
LEMMA CrashInit == Init => CrashInv
<1> SUFFICES ASSUME Init PROVE CrashInv
  OBVIOUS
<1>1. disk = <<>> /\ stream = "closed"
  BY DEF Init, Writer!Init
<1>2. ~ (Len(disk) >= 2)
  BY <1>1
<1>3. QED
  BY <1>1, <1>2 DEF CrashInv

\* The second and the third invariant hold together in every state.
LEMMA CrashInvariant == Spec => [](FileInv /\ CrashInv)
  BY FileInit, FileStep, CrashInit, CrashStep, PTL DEF Spec

-----------------------------------------------------------------------------
\* The reader.  w records of the file are whole: those that end in it.
Cut(file, at, m, w) == w \in 0 .. m /\ \A i \in 1 .. m : at[i + 1] <= Len(file) <=> i <= w

\* Induction over the naturals, for a set of them.
LEMMA AllNaturals ==
  ASSUME NEW T, 0 \in T, \A n \in Nat : n \in T => n + 1 \in T
  PROVE  \A n \in Nat : n \in T
<1> DEFINE R == OpToRel(<, Nat)
           Rest == {n \in Nat : n \notin T}
<1> SUFFICES ASSUME Rest # {} PROVE FALSE
  OBVIOUS
<1>1. R = {ss \in Nat \X Nat : ss[1] < ss[2]}
  BY DEF OpToRel
<1>2. IsWellFoundedOn(R, Nat)
  BY NatLessThanWellFounded
<1> HIDE DEF R
<1>3. Rest \subseteq Nat
  OBVIOUS
<1> HIDE DEF Rest
<1>4. PICK n \in Rest : \A y \in Rest : ~ (<<y, n>> \in R)
  BY <1>2, <1>3, WFMin
<1>5. n \in Nat /\ n \notin T /\ n # 0
  BY <1>4 DEF Rest
<1>6. n - 1 \in Nat /\ n - 1 \notin T
  BY <1>5
<1>7. n - 1 \in Rest
  BY <1>6 DEF Rest
<1>8. <<n - 1, n>> \in R
  BY <1>1, <1>5, <1>6
<1>9. QED
  BY <1>4, <1>7, <1>8

\* A file is cut somewhere.
LEMMA CutExists ==
  ASSUME NEW fs \in Seq(Frames), NEW m, NEW at, Starts(fs, at, m), NEW file, Len(file) \in Nat
  PROVE  \E w : Cut(file, at, m, w)
<1>1. /\ m \in Nat /\ at \in [1 .. m + 1 -> Nat]
      /\ \A i, j \in 1 .. m + 1 : i < j => at[i] < at[j]
  BY DEF Starts
<1> DEFINE CutOff(k, w) == w \in 0 .. k /\ \A i \in 1 .. k : at[i + 1] <= Len(file) <=> i <= w
           T == {k \in Nat : k <= m => \E w : CutOff(k, w)}
<1>2. 0 \in T
  <2>1. CutOff(0, 0)
    OBVIOUS
  <2>2. QED
    BY <2>1
<1>3. ASSUME NEW k \in Nat, k \in T PROVE k + 1 \in T
  <2> SUFFICES ASSUME k + 1 <= m PROVE \E w : CutOff(k + 1, w)
    OBVIOUS
  <2>1. PICK w : CutOff(k, w)
    <3>1. k <= m
      BY <1>1
    <3>2. QED
      BY <1>3, <3>1
  <2>2. \A i \in 1 .. k + 1 : i \in 1 .. k \/ i = k + 1
    OBVIOUS
  <2>3. /\ k + 2 \in 1 .. m + 1 /\ at[k + 2] \in Nat
        /\ \A i \in 1 .. k : i + 1 \in 1 .. m + 1 /\ at[i + 1] \in Nat /\ at[i + 1] < at[k + 2]
    BY <1>1
  <2>4. CASE at[k + 2] <= Len(file)
    <3>1. \A i \in 1 .. k : at[i + 1] <= Len(file)
      BY <2>3, <2>4
    <3>2. (k + 1) + 1 = k + 2
      OBVIOUS
    <3>3. \A i \in 1 .. k + 1 : at[i + 1] <= Len(file) /\ i <= k + 1
      BY <2>2, <2>4, <3>1, <3>2
    <3>4. CutOff(k + 1, k + 1)
      BY <3>3
    <3>5. QED
      BY <3>4
  <2>5. CASE ~ (at[k + 2] <= Len(file))
    <3>1. (k + 1) + 1 = k + 2 /\ w \in 0 .. k + 1 /\ ~ (k + 1 <= w)
      BY <2>1
    <3>2. CutOff(k + 1, w)
      BY <2>1, <2>2, <2>5, <3>1
    <3>3. QED
      BY <3>2
  <2>6. QED
    BY <2>4, <2>5
<1>4. m \in T
  <2> HIDE DEF T
  <2>1. \A k \in Nat : k \in T => k + 1 \in T
    BY <1>3
  <2>2. \A k \in Nat : k \in T
    BY <1>2, <2>1, AllNaturals
  <2>3. QED
    BY <1>1, <2>2
<1>5. PICK w : CutOff(m, w)
  BY <1>1, <1>4
<1>6. QED
  BY <1>5 DEF Cut

\* Where the reader sees a whole record, there is one, and it sees them all.
LEMMA RecordsSeen ==
  ASSUME NEW fs \in Seq(Frames), NEW m, NEW at, Starts(fs, at, m),
         NEW file, Len(file) \in Nat, Laid(file, fs, at, m), Trailing(file, at[m + 1]),
         NEW w, Cut(file, at, m, w)
  PROVE  /\ \A i \in 1 .. w : /\ i \in 1 .. m /\ at[i + 1] <= Len(file)
                              /\ Writer!RecordAt(file, at[i])
                              /\ file[at[i] + 2].frame = fs[i]
                              /\ file[at[i] + 1].payload = fs[i].size
         /\ \A p \in Nat : Writer!RecordAt(file, p) => \E i \in 1 .. w : p = at[i]
         /\ w \in Nat /\ w + 1 \in 1 .. m + 1 /\ at[w + 1] \in Nat /\ at[w + 1] <= Len(file)
<1>1. /\ m \in Nat /\ w \in Nat /\ w <= m /\ at \in [1 .. m + 1 -> Nat] /\ at[1] = 2
      /\ \A i \in 1 .. m : at[i + 1] <= Len(file) <=> i <= w
      /\ \A p \in 3 .. at[m + 1] : \E i \in 1 .. m : at[i] < p /\ p <= at[i + 1]
  BY DEF Starts, Cut
<1>2. ASSUME NEW i \in 1 .. m
      PROVE  /\ at[i] \in Nat /\ fs[i] \in Frames /\ fs[i].size \in Nat
             /\ at[i + 1] = at[i] + 2 + fs[i].size
             /\ at[i] + 1 <= Len(file) => /\ file[at[i] + 1].kind = "rec"
                                          /\ file[at[i] + 1].payload = fs[i].size
             /\ at[i] + 2 <= Len(file) => /\ file[at[i] + 2].kind = "header"
                                          /\ file[at[i] + 2].frame = fs[i]
  <2>1. /\ at[i] \in Nat /\ fs[i] \in Frames /\ fs[i].size \in Nat
        /\ at[i + 1] = at[i] + 2 + fs[i].size
    BY RecordPlaced
  <2>2. 1 \in 1 .. 2 + fs[i].size /\ 2 \in 1 .. 2 + fs[i].size
    BY <2>1
  <2>3. /\ at[i] + 1 <= Len(file) => file[at[i] + 1] = [kind |-> "rec", payload |-> fs[i].size]
        /\ at[i] + 2 <= Len(file) => file[at[i] + 2] = [kind |-> "header", frame |-> fs[i]]
    BY <2>1, <2>2, UnitsAre DEF Laid
  <2>4. QED
    BY <2>1, <2>3
<1>3. ASSUME NEW i \in 1 .. w
      PROVE  /\ i \in 1 .. m /\ at[i + 1] <= Len(file) /\ Writer!RecordAt(file, at[i])
             /\ file[at[i] + 2].frame = fs[i] /\ file[at[i] + 1].payload = fs[i].size
  <2>1. i \in 1 .. m /\ at[i + 1] <= Len(file)
    BY <1>1
  <2>2. at[i] + 1 <= Len(file) /\ at[i] + 2 <= Len(file) /\ at[i] < Len(file) /\ at[i] + 1 < Len(file)
    <3>1. /\ at[i] \in Nat /\ fs[i].size \in Nat /\ at[i + 1] = at[i] + 2 + fs[i].size
      BY <1>2, <2>1
    <3>2. QED
      BY <2>1, <3>1
  <2>3. Writer!RecordAt(file, at[i])
    <3>1. at[i] + 1 + 1 = at[i] + 2
      BY <1>2, <2>1
    <3>2. QED
      BY <1>2, <2>1, <2>2, <3>1 DEF Writer!RecordAt, Writer!Holds
  <2>4. QED
    BY <1>2, <2>1, <2>2, <2>3
<1>4. ASSUME NEW p \in Nat, Writer!RecordAt(file, p) PROVE \E i \in 1 .. w : p = at[i]
  <2>1. /\ p < Len(file) /\ file[p + 1].kind = "rec"
        /\ p + 2 + file[p + 1].payload <= Len(file)
    BY <1>4 DEF Writer!RecordAt, Writer!Holds
  <2>2. p + 1 \in 1 .. Len(file)
    BY <2>1
  <2>3. p + 1 <= at[m + 1]
    <3>1. p + 1 \notin at[m + 1] + 1 .. Len(file)
      BY <2>1 DEF Trailing
    <3>2. at[m + 1] \in Nat
      BY <1>1
    <3>3. QED
      BY <2>2, <3>1, <3>2
  <2>4. p + 1 # 1 /\ p + 1 # 2
    BY <2>1 DEF Laid, Headed, Writer!FileHeader, Writer!Json
  <2>5. p + 1 \in 3 .. at[m + 1]
    <3>1. at[m + 1] \in Nat
      BY <1>1
    <3>2. QED
      BY <2>2, <2>3, <2>4, <3>1
  <2>6. PICK i \in 1 .. m : at[i] < p + 1 /\ p + 1 <= at[i + 1]
    BY <1>1, <2>5
  <2> /\ at[i] \in Nat /\ fs[i] \in Frames /\ fs[i].size \in Nat
      /\ at[i + 1] = at[i] + 2 + fs[i].size
    BY <1>2
  <2>7. PICK u \in 1 .. 2 + fs[i].size : p + 1 = at[i] + u
    <3>1. \A k \in Nat : at[i] < k /\ k <= at[i] + 2 + fs[i].size =>
            \E u \in 1 .. 2 + fs[i].size : k = at[i] + u
      BY Places
    <3>2. p + 1 \in Nat /\ at[i] < p + 1 /\ p + 1 <= at[i] + 2 + fs[i].size
      BY <2>6
    <3>3. QED
      BY <3>1, <3>2
  <2>8. file[p + 1] = Writer!FrameUnits(fs[i])[u]
    BY <2>2, <2>7 DEF Laid
  <2>9. u # 2
    <3>1. Writer!FrameUnits(fs[i])[2] = [kind |-> "header", frame |-> fs[i]]
      BY UnitsAre
    <3>2. Writer!FrameUnits(fs[i])[2].kind # "rec"
      BY <3>1
    <3>3. QED
      BY <2>1, <2>8, <3>2
  <2>10. \A b \in 1 .. fs[i].size : u # 2 + b
    <3> SUFFICES ASSUME NEW b \in 1 .. fs[i].size, u = 2 + b PROVE FALSE
      OBVIOUS
    <3>1. file[p + 1] = Writer!FrameUnits(fs[i])[2 + b]
      BY <2>8
    <3>2. Writer!FrameUnits(fs[i])[2 + b] = [kind |-> "samples", frame |-> fs[i], block |-> b]
      BY UnitsAre
    <3>3. file[p + 1].kind = "samples"
      BY <3>1, <3>2
    <3>4. QED
      BY <2>1, <3>3
  <2>11. u = 1
    BY <1>2, <2>9, <2>10, Places
  <2>12. p = at[i]
    BY <1>2, <2>7, <2>11
  <2>13. at[i + 1] <= Len(file)
    <3>1. file[at[i] + 1].payload = fs[i].size
      BY <1>2, <2>1, <2>2, <2>12
    <3>2. QED
      BY <1>2, <2>1, <2>12, <3>1
  <2>14. i \in 1 .. w
    BY <1>1, <2>13
  <2>15. QED
    BY <2>12, <2>14
<1>5. w + 1 \in 1 .. m + 1 /\ at[w + 1] \in Nat /\ at[w + 1] <= Len(file)
  <2>1. w + 1 \in 1 .. m + 1 /\ at[w + 1] \in Nat
    BY <1>1
  <2>2. CASE w = 0
    BY <1>1, <2>2 DEF Laid, Headed
  <2>3. CASE w # 0
    BY <1>1, <2>1, <2>3
  <2>4. QED
    BY <2>1, <2>2, <2>3
<1>6. QED
  BY <1>1, <1>3, <1>4, <1>5

\* The entries from the i-th on, one after another.
From(e, w, i) == [j \in 1 .. w + 1 - i |-> e[i + j - 1]]
\* The entries from the i-th on are the i-th and those from the next one on.
LEMMA FromLaw ==
  ASSUME NEW w \in Nat, NEW e \in [1 .. w -> Entries]
  PROVE  /\ From(e, w, w + 1) = <<>> /\ From(e, w, 1) = e
         /\ \A i \in 1 .. w : From(e, w, i) = <<e[i]>> \o From(e, w, i + 1)
<1>1. From(e, w, w + 1) = <<>>
  <2>1. w + 1 - (w + 1) = 0
    OBVIOUS
  <2>2. From(e, w, w + 1) \in [1 .. 0 -> Entries]
    BY <2>1 DEF From
  <2>3. \A x \in [1 .. 0 -> Entries] : x \in Seq(Entries) /\ Len(x) = 0
    OBVIOUS
  <2>4. QED
    BY <2>2, <2>3, EmptySeq
<1>2. From(e, w, 1) = e
  <2>1. From(e, w, 1) = [j \in 1 .. w |-> e[1 + j - 1]]
    BY DEF From
  <2>2. \A j \in 1 .. w : e[1 + j - 1] = e[j]
    OBVIOUS
  <2>3. QED
    BY <2>1, <2>2
<1>3. ASSUME NEW i \in 1 .. w + 1
      PROVE  /\ From(e, w, i) \in Seq(Entries) /\ Len(From(e, w, i)) = w + 1 - i
             /\ \A j \in 1 .. w + 1 - i : From(e, w, i)[j] = e[i + j - 1]
  <2>1. \A j \in 1 .. w + 1 - i : i + j - 1 \in 1 .. w
    OBVIOUS
  <2>2. From(e, w, i) \in [1 .. w + 1 - i -> Entries]
    BY <2>1 DEF From
  <2>3. w + 1 - i \in Nat
    OBVIOUS
  <2>4. QED
    BY <2>2, <2>3 DEF From
<1>4. ASSUME NEW i \in 1 .. w PROVE From(e, w, i) = <<e[i]>> \o From(e, w, i + 1)
  <2> DEFINE r == From(e, w, i)
             t == From(e, w, i + 1)
             h == <<e[i]>>
  <2>1. r \in Seq(Entries) /\ Len(r) = w + 1 - i /\ \A j \in 1 .. w + 1 - i : r[j] = e[i + j - 1]
    <3>1. i \in 1 .. w + 1
      OBVIOUS
    <3>2. QED
      BY <1>3, <3>1
  <2>2. t \in Seq(Entries) /\ Len(t) = w - i /\ \A j \in 1 .. w - i : t[j] = e[i + j]
    <3>1. i + 1 \in 1 .. w + 1
      OBVIOUS
    <3>2. t \in Seq(Entries) /\ Len(t) = w + 1 - (i + 1)
          /\ \A j \in 1 .. w + 1 - (i + 1) : t[j] = e[(i + 1) + j - 1]
      BY <1>3, <3>1
    <3>3. w + 1 - (i + 1) = w - i /\ \A j \in 1 .. w - i : (i + 1) + j - 1 = i + j
      OBVIOUS
    <3> HIDE DEF t
    <3>4. QED
      BY <3>2, <3>3
  <2>3. h \in Seq(Entries) /\ Len(h) = 1 /\ h[1] = e[i]
    OBVIOUS
  <2> HIDE DEF r, t, h
  <2>4. /\ h \o t \in Seq(Entries) /\ Len(h \o t) = Len(h) + Len(t)
        /\ \A j \in 1 .. Len(h) + Len(t) : (h \o t)[j] = IF j <= Len(h) THEN h[j] ELSE t[j - Len(h)]
    BY <2>2, <2>3, ConcatProperties
  <2>5. Len(h \o t) = Len(r)
    BY <2>1, <2>2, <2>3, <2>4
  <2>6. ASSUME NEW j \in 1 .. Len(r) PROVE r[j] = (h \o t)[j]
    <3>1. j \in 1 .. w + 1 - i /\ r[j] = e[i + j - 1]
      BY <2>1
    <3>2. CASE j = 1
      <4>1. (h \o t)[1] = h[1] /\ i + 1 - 1 = i
        BY <2>2, <2>3, <2>4
      <4>2. QED
        BY <2>3, <3>1, <3>2, <4>1
    <3>3. CASE j # 1
      <4>1. PICK k \in 1 .. w - i : j = k + 1
        <5>1. j - 1 \in 1 .. w - i /\ j = (j - 1) + 1
          BY <3>1, <3>3
        <5>2. QED
          BY <5>1
      <4>2. (h \o t)[j] = t[j - 1] /\ j - 1 = k /\ i + j - 1 = i + k
        BY <2>2, <2>3, <2>4, <4>1
      <4>3. QED
        BY <2>2, <3>1, <4>2
    <3>4. QED
      BY <3>2, <3>3
  <2>7. r = h \o t
    BY <2>1, <2>4, <2>5, <2>6, SeqEqual
  <2>8. QED
    BY <2>7 DEF r, h, t
<1>5. QED
  BY <1>1, <1>2, <1>4

\* What a scan sees in a file whose records end at the places at: entry e[i] for each.
Seen(file, w, at, e) ==
  /\ at[w + 1] <= Len(file)
  /\ \A i, j \in 1 .. w + 1 : i < j => at[i] < at[j]
  /\ \A i \in 1 .. w : /\ Writer!RecordAt(file, at[i])
                       /\ Writer!EntryFor(file[at[i] + 2].frame, at[i]) = e[i]
                       /\ at[i] + 2 + file[at[i] + 1].payload = at[i + 1]
  /\ \A p \in Nat : Writer!RecordAt(file, p) => \E i \in 1 .. w : p = at[i]

\* The equation scan() solves: f[p] is what it returns from the place p on.
Scans(file, f) ==
  f = [p \in 0 .. Len(file) |->
         IF Writer!RecordAt(file, p)
         THEN <<Writer!EntryFor(file[p + 2].frame, p)>> \o f[p + 2 + file[p + 1].payload]
         ELSE <<>>]

\* What scan() is, when the records that can be read follow one another from the
\* place it begins at: their entries.
LEMMA ScanIs ==
  ASSUME NEW file, Len(file) \in Nat, NEW w \in Nat, NEW at \in [1 .. w + 1 -> Nat],
         NEW e \in [1 .. w -> Entries], Seen(file, w, at, e)
  PROVE  Writer!ScanForFrames(file, at[1]) = e
<1>0. /\ at[w + 1] <= Len(file)
      /\ \A i, j \in 1 .. w + 1 : i < j => at[i] < at[j]
      /\ \A i \in 1 .. w : /\ Writer!RecordAt(file, at[i])
                           /\ Writer!EntryFor(file[at[i] + 2].frame, at[i]) = e[i]
                           /\ at[i] + 2 + file[at[i] + 1].payload = at[i + 1]
      /\ \A p \in Nat : Writer!RecordAt(file, p) => \E i \in 1 .. w : p = at[i]
  BY DEF Seen
<1> USE <1>0
<1>1. \A i \in 1 .. w + 1 : at[i] \in 0 .. Len(file)
  <2> TAKE i \in 1 .. w + 1
  <2>1. w + 1 \in 1 .. w + 1 /\ (i = w + 1 \/ i < w + 1)
    OBVIOUS
  <2>2. at[i] \in Nat /\ at[w + 1] \in Nat /\ (i < w + 1 => at[i] < at[w + 1])
    BY <2>1
  <2>3. QED
    BY <2>1, <2>2
<1>2. ~ Writer!RecordAt(file, at[w + 1])
  <2> SUFFICES ASSUME Writer!RecordAt(file, at[w + 1]) PROVE FALSE
    OBVIOUS
  <2>1. w + 1 \in 1 .. w + 1 /\ at[w + 1] \in Nat
    OBVIOUS
  <2>2. PICK i \in 1 .. w : at[w + 1] = at[i]
    BY <2>1
  <2>3. i \in 1 .. w + 1 /\ i < w + 1 /\ at[i] \in Nat
    OBVIOUS
  <2>4. at[i] < at[w + 1]
    BY <2>1, <2>3
  <2>5. QED
    BY <2>1, <2>2, <2>3, <2>4
<1>3. \A i, j \in 1 .. w + 1 : at[i] = at[j] => i = j
  <2> SUFFICES ASSUME NEW i \in 1 .. w + 1, NEW j \in 1 .. w + 1, at[i] = at[j] PROVE i = j
    OBVIOUS
  <2>1. at[i] \in Nat /\ at[j] \in Nat /\ (i < j \/ j < i \/ i = j)
    OBVIOUS
  <2>2. (i < j => at[i] < at[j]) /\ (j < i => at[j] < at[i])
    OBVIOUS
  <2>3. QED
    BY <2>1, <2>2
<1>4. \E f : Scans(file, f)
  <2> DEFINE which(p) == CHOOSE k \in 1 .. w : p = at[k]
             g == [p \in 0 .. Len(file) |->
                     IF \E i \in 1 .. w : p = at[i] THEN From(e, w, which(p)) ELSE <<>>]
  <2>1. \A i \in 1 .. w : which(at[i]) = i
    <3> TAKE i \in 1 .. w
    <3>1. i \in 1 .. w + 1 /\ \A k \in 1 .. w : k \in 1 .. w + 1
      OBVIOUS
    <3>2. \A k \in 1 .. w : at[i] = at[k] => i = k
      BY <1>3, <3>1
    <3> DEFINE c == CHOOSE k \in 1 .. w : at[i] = at[k]
    <3>3. c \in 1 .. w /\ at[i] = at[c]
      OBVIOUS
    <3> HIDE DEF c
    <3>4. c = i
      BY <3>2, <3>3
    <3>5. QED
      BY <3>4 DEF c
  <2> HIDE DEF which
  <2>2. \A i \in 1 .. w : g[at[i]] = From(e, w, i)
    <3> TAKE i \in 1 .. w
    <3>1. i \in 1 .. w + 1
      OBVIOUS
    <3>2. at[i] \in 0 .. Len(file) /\ which(at[i]) = i
      BY <1>1, <2>1, <3>1
    <3>3. \E k \in 1 .. w : at[i] = at[k]
      OBVIOUS
    <3>4. QED
      BY <3>2, <3>3
  <2>3. g[at[w + 1]] = <<>>
    <3>1. \A i \in 1 .. w : at[w + 1] # at[i]
      BY <1>2
    <3>2. at[w + 1] \in 0 .. Len(file)
      BY <1>1
    <3>3. QED
      BY <3>1, <3>2
  <2>4. \A p \in 0 .. Len(file) : (~ \E i \in 1 .. w : p = at[i]) => g[p] = <<>>
    OBVIOUS
  <2>5. DOMAIN g = 0 .. Len(file) /\ g = [p \in DOMAIN g |-> g[p]]
    OBVIOUS
  <2> HIDE DEF g
  <2>6. \A i \in 1 .. w + 1 : g[at[i]] = From(e, w, i)
    <3>1. \A i \in 1 .. w + 1 : i \in 1 .. w \/ i = w + 1
      OBVIOUS
    <3>2. g[at[w + 1]] = From(e, w, w + 1)
      BY <2>3, FromLaw
    <3>3. QED
      BY <2>2, <3>1, <3>2
  <2>7. ASSUME NEW p \in 0 .. Len(file)
        PROVE  g[p] = IF Writer!RecordAt(file, p)
                      THEN <<Writer!EntryFor(file[p + 2].frame, p)>> \o g[p + 2 + file[p + 1].payload]
                      ELSE <<>>
    <3>1. CASE Writer!RecordAt(file, p)
      <4>1. p \in Nat
        OBVIOUS
      <4>2. PICK i \in 1 .. w : p = at[i]
        BY <3>1, <4>1
      <4>3. /\ Writer!EntryFor(file[p + 2].frame, p) = e[i]
            /\ p + 2 + file[p + 1].payload = at[i + 1]
        BY <4>2
      <4>4. g[p] = From(e, w, i) /\ g[at[i + 1]] = From(e, w, i + 1)
        <5>1. i \in 1 .. w + 1 /\ i + 1 \in 1 .. w + 1
          OBVIOUS
        <5>2. QED
          BY <2>6, <4>2, <5>1
      <4>5. From(e, w, i) = <<e[i]>> \o From(e, w, i + 1)
        BY FromLaw
      <4>6. QED
        BY <3>1, <4>3, <4>4, <4>5
    <3>2. CASE ~ Writer!RecordAt(file, p)
      <4>1. ~ \E i \in 1 .. w : p = at[i]
        BY <3>2
      <4>2. QED
        BY <2>4, <3>2, <4>1
    <3>3. QED
      BY <3>1, <3>2
  <2>8. Scans(file, g)
    BY <2>5, <2>7 DEF Scans
  <2>9. QED
    BY <2>8
<1> DEFINE scan == CHOOSE f : Scans(file, f)
<1>5. Scans(file, scan)
  BY <1>4
<1>6. Writer!ScanForFrames(file, at[1]) = scan[at[1]]
  <2>1. at[1] <= Len(file)
    <3>1. 1 \in 1 .. w + 1
      OBVIOUS
    <3>2. QED
      BY <1>1, <3>1
  <2>2. QED
    BY <2>1 DEF Writer!ScanForFrames, Scans
<1> HIDE DEF scan
<1>7. \A p \in 0 .. Len(file) :
        scan[p] = IF Writer!RecordAt(file, p)
                  THEN <<Writer!EntryFor(file[p + 2].frame, p)>> \o scan[p + 2 + file[p + 1].payload]
                  ELSE <<>>
  BY <1>5 DEF Scans
<1> DEFINE Reads(n) == scan[at[w + 1 - n]] = From(e, w, w + 1 - n)
           T == {n \in Nat : n <= w => Reads(n)}
<1>8. 0 \in T
  <2>1. w + 1 - 0 = w + 1 /\ at[w + 1] \in 0 .. Len(file)
    BY <1>1
  <2>2. scan[at[w + 1]] = <<>>
    BY <1>2, <1>7, <2>1
  <2>3. scan[at[w + 1]] = From(e, w, w + 1)
    BY <2>2, FromLaw
  <2>4. scan[at[w + 1 - 0]] = From(e, w, w + 1 - 0)
    BY <2>1, <2>3
  <2>5. QED
    BY <2>4
<1>9. ASSUME NEW n \in Nat, n \in T PROVE n + 1 \in T
  <2> SUFFICES ASSUME n + 1 <= w PROVE Reads(n + 1)
    <3> HIDE DEF Reads
    <3>1. QED
      OBVIOUS
  <2>1. PICK i \in 1 .. w : i = w + 1 - (n + 1) /\ i + 1 = w + 1 - n
    <3>1. w - n \in 1 .. w /\ w - n = w + 1 - (n + 1) /\ (w - n) + 1 = w + 1 - n
      OBVIOUS
    <3>2. QED
      BY <3>1
  <2>2. scan[at[i + 1]] = From(e, w, i + 1)
    <3>1. n <= w
      OBVIOUS
    <3>2. QED
      BY <1>9, <2>1, <3>1
  <2>3. at[i] \in 0 .. Len(file)
    <3>1. i \in 1 .. w + 1
      OBVIOUS
    <3>2. QED
      BY <1>1, <3>1
  <2>4. /\ Writer!RecordAt(file, at[i]) /\ Writer!EntryFor(file[at[i] + 2].frame, at[i]) = e[i]
        /\ at[i] + 2 + file[at[i] + 1].payload = at[i + 1]
    OBVIOUS
  <2>5. scan[at[i]] = <<e[i]>> \o scan[at[i + 1]]
    BY <1>7, <2>3, <2>4
  <2>6. scan[at[i]] = From(e, w, i)
    <3>1. From(e, w, i) = <<e[i]>> \o From(e, w, i + 1)
      BY FromLaw
    <3>2. QED
      BY <2>2, <2>5, <3>1
  <2>7. QED
    BY <2>1, <2>6
<1>10. scan[at[1]] = From(e, w, 1)
  <2> HIDE DEF T
  <2>1. \A n \in Nat : n \in T => n + 1 \in T
    BY <1>9
  <2>2. w \in T
    BY <1>8, <2>1, AllNaturals
  <2>3. w + 1 - w = 1 /\ w <= w
    OBVIOUS
  <2>4. QED
    BY <2>2, <2>3 DEF T
<1>11. QED
  BY <1>6, <1>10, FromLaw

-----------------------------------------------------------------------------
\* The last unit of a record: no other unit of any record is like it.
LastUnit(f) == IF f.size = 0 THEN Writer!FrameHeader(f) ELSE Writer!Last(Writer!Samples(f))
\* The last unit of a frame is found nowhere but at the end of its record.
LEMMA LastUnitIs ==
  ASSUME NEW f \in Frames
  PROVE  /\ f.size \in Nat /\ Writer!FrameUnits(f)[2 + f.size] = LastUnit(f)
         /\ LastUnit(f) \in {[kind |-> "header", frame |-> f],
                             [kind |-> "samples", frame |-> f, block |-> f.size]}
         /\ \A g \in Frames : \A u \in 1 .. 2 + g.size :
              Writer!FrameUnits(g)[u] = LastUnit(f) => g = f /\ u = 2 + f.size
<1>1. f.size \in Nat
  BY UnitsAre
<1> DEFINE header(g) == [kind |-> "header", frame |-> g]
           block(g, b) == [kind |-> "samples", frame |-> g, block |-> b]
           rec(g) == [kind |-> "rec", payload |-> g.size]
<1>2. f.size = 0 => LastUnit(f) = header(f)
  BY DEF LastUnit, Writer!FrameHeader
<1>3. f.size # 0 => LastUnit(f) = block(f, f.size)
  <2> SUFFICES ASSUME f.size # 0 PROVE LastUnit(f) = block(f, f.size)
    OBVIOUS
  <2> DEFINE s == [b \in 1 .. f.size |-> block(f, b)]
  <2>1. Writer!Samples(f) = s
    BY DEF Writer!Samples
  <2>2. Len(s) = f.size /\ f.size \in 1 .. f.size
    BY <1>1
  <2>3. s[f.size] = block(f, f.size)
    BY <2>2
  <2>4. Writer!Last(s) = s[Len(s)]
    BY DEF Writer!Last
  <2> HIDE DEF s
  <2>5. QED
    BY <2>1, <2>2, <2>3, <2>4 DEF LastUnit
<1>4. \A g, k, b : /\ rec(g) # header(k) /\ rec(g) # block(k, b)
                   /\ \A c : header(g) # block(k, c)
                   /\ (header(g) = header(k) => g = k)
                   /\ \A c : block(g, b) = block(k, c) => g = k /\ b = c
  <2> TAKE g, k, b
  <2>1. rec(g).kind = "rec" /\ header(k).kind = "header" /\ block(k, b).kind = "samples"
        /\ header(g).kind = "header" /\ \A c : block(k, c).kind = "samples"
    OBVIOUS
  <2>2. header(g).frame = g /\ header(k).frame = k /\ block(g, b).frame = g /\ block(g, b).block = b
        /\ \A c : block(k, c).frame = k /\ block(k, c).block = c
    OBVIOUS
  <2> HIDE DEF rec, header, block
  <2>3. QED
    BY <2>1, <2>2
<1>5. ASSUME NEW g \in Frames, NEW u \in 1 .. 2 + g.size
      PROVE  \/ u = 1 /\ Writer!FrameUnits(g)[u] = rec(g)
             \/ u = 2 /\ Writer!FrameUnits(g)[u] = header(g)
             \/ \E b \in 1 .. g.size : u = 2 + b /\ Writer!FrameUnits(g)[u] = block(g, b)
  <2>1. /\ g.size \in Nat
        /\ Writer!FrameUnits(g)[1] = rec(g) /\ Writer!FrameUnits(g)[2] = header(g)
        /\ \A b \in 1 .. g.size : Writer!FrameUnits(g)[2 + b] = block(g, b)
    BY UnitsAre
  <2> HIDE DEF rec, header, block
  <2>2. u = 1 \/ u = 2 \/ \E b \in 1 .. g.size : u = 2 + b
    BY <2>1, Places
  <2>3. QED
    BY <2>1, <2>2
<1> HIDE DEF rec, header, block
<1>6. ASSUME NEW g \in Frames, NEW u \in 1 .. 2 + g.size, Writer!FrameUnits(g)[u] = LastUnit(f)
      PROVE  g = f /\ u = 2 + f.size
  <2>1. CASE f.size = 0
    <3>1. Writer!FrameUnits(g)[u] = header(f)
      BY <1>2, <1>6, <2>1
    <3>2. u = 2 /\ g = f
      BY <1>4, <1>5, <3>1
    <3>3. QED
      BY <2>1, <3>2
  <2>2. CASE f.size # 0
    <3>1. Writer!FrameUnits(g)[u] = block(f, f.size)
      BY <1>3, <1>6, <2>2
    <3>2. PICK b \in 1 .. g.size : u = 2 + b /\ Writer!FrameUnits(g)[u] = block(g, b)
      BY <1>4, <1>5, <3>1
    <3>3. g = f /\ b = f.size
      BY <1>4, <3>1, <3>2
    <3>4. QED
      BY <3>2, <3>3
  <2>3. QED
    BY <2>1, <2>2
<1>7. Writer!FrameUnits(f)[2 + f.size] = LastUnit(f)
  <2>1. CASE f.size = 0
    <3>1. Writer!FrameUnits(f)[2] = header(f)
      BY UnitsAre DEF header
    <3>2. QED
      BY <1>2, <2>1, <3>1
  <2>2. CASE f.size # 0
    <3>1. f.size \in 1 .. f.size
      BY <1>1, <2>2
    <3>2. Writer!FrameUnits(f)[2 + f.size] = block(f, f.size)
      BY <3>1, UnitsAre DEF block
    <3>3. QED
      BY <1>3, <2>2, <3>2
  <2>3. QED
    BY <2>1, <2>2
<1>8. LastUnit(f) \in {header(f), block(f, f.size)}
  BY <1>2, <1>3
<1>9. QED
  BY <1>1, <1>6, <1>7, <1>8 DEF header, block

\* A record is whole exactly when its last unit is in the file.
LEMMA WholeAre ==
  ASSUME NEW fs \in Seq(Frames), NEW m, NEW at, Starts(fs, at, m),
         NEW file, Len(file) \in Nat, Laid(file, fs, at, m), Trailing(file, at[m + 1]),
         NEW w, Cut(file, at, m, w), \A i, j \in 1 .. Len(fs) : fs[i] = fs[j] => i = j
  PROVE  {i \in 1 .. Len(fs) : Writer!Contains(file, LastUnit(fs[i]))} = 1 .. w
<1>1. /\ m \in Nat /\ m <= Len(fs) /\ w \in Nat /\ w <= m /\ Len(fs) \in Nat
      /\ \A i \in 1 .. m : at[i + 1] <= Len(file) <=> i <= w
      /\ \A p \in 3 .. at[m + 1] : \E i \in 1 .. m : at[i] < p /\ p <= at[i + 1]
      /\ at[m + 1] \in Nat
  BY DEF Starts, Cut
<1>2. ASSUME NEW i \in 1 .. w PROVE i \in 1 .. Len(fs) /\ Writer!Contains(file, LastUnit(fs[i]))
  <2>1. i \in 1 .. m /\ i \in 1 .. Len(fs) /\ at[i + 1] <= Len(file)
    BY <1>1
  <2>2. /\ fs[i] \in Frames /\ fs[i].size \in Nat /\ at[i] \in Nat
        /\ at[i + 1] = at[i] + 2 + fs[i].size
    BY <2>1, RecordPlaced
  <2> DEFINE u == 2 + fs[i].size
             p == at[i] + u
  <2>3. u \in 1 .. 2 + fs[i].size /\ p \in 1 .. Len(file)
    <3>1. \A a, s \in Nat : /\ 2 + s \in 1 .. 2 + s
                            /\ a + 2 + s <= Len(file) => a + (2 + s) \in 1 .. Len(file)
      OBVIOUS
    <3>2. at[i] + 2 + fs[i].size <= Len(file)
      BY <2>1, <2>2
    <3>3. QED
      BY <2>2, <3>1, <3>2
  <2>4. file[p] = Writer!FrameUnits(fs[i])[u]
    <3>1. \A k \in 1 .. 2 + fs[i].size :
            at[i] + k <= Len(file) => file[at[i] + k] = Writer!FrameUnits(fs[i])[k]
      BY <2>1 DEF Laid
    <3>2. QED
      BY <2>3, <3>1
  <2>5. file[p] = LastUnit(fs[i])
    BY <2>2, <2>4, LastUnitIs
  <2> HIDE DEF p
  <2>6. QED
    BY <2>1, <2>3, <2>5 DEF Writer!Contains
<1>3. ASSUME NEW i \in 1 .. Len(fs), Writer!Contains(file, LastUnit(fs[i])) PROVE i \in 1 .. w
  <2>1. PICK p \in 1 .. Len(file) : file[p] = LastUnit(fs[i])
    BY <1>3 DEF Writer!Contains
  <2>2. fs[i] \in Frames
    OBVIOUS
  <2>3. file[p].kind \in {"header", "samples"}
    <3>1. /\ [kind |-> "header", frame |-> fs[i]].kind = "header"
          /\ [kind |-> "samples", frame |-> fs[i], block |-> fs[i].size].kind = "samples"
      OBVIOUS
    <3>2. file[p] \in {[kind |-> "header", frame |-> fs[i]],
                       [kind |-> "samples", frame |-> fs[i], block |-> fs[i].size]}
      BY <2>1, <2>2, LastUnitIs
    <3>3. QED
      BY <3>1, <3>2
  <2>4. p \in 3 .. at[m + 1]
    <3>1. p \notin at[m + 1] + 1 .. Len(file)
      BY <2>3 DEF Trailing
    <3>2. p # 1 /\ p # 2
      BY <2>3 DEF Laid, Headed, Writer!FileHeader, Writer!Json
    <3>3. QED
      BY <1>1, <3>1, <3>2
  <2>5. PICK j \in 1 .. m : at[j] < p /\ p <= at[j + 1]
    BY <1>1, <2>4
  <2>6. /\ fs[j] \in Frames /\ fs[j].size \in Nat /\ at[j] \in Nat
        /\ at[j + 1] = at[j] + 2 + fs[j].size
    BY RecordPlaced
  <2>7. PICK u \in 1 .. 2 + fs[j].size : p = at[j] + u
    <3>1. \A k \in Nat : at[j] < k /\ k <= at[j] + 2 + fs[j].size =>
            \E u \in 1 .. 2 + fs[j].size : k = at[j] + u
      BY <2>6, Places
    <3>2. p \in Nat /\ at[j] < p /\ p <= at[j] + 2 + fs[j].size
      BY <2>5, <2>6
    <3>3. QED
      BY <3>1, <3>2
  <2>8. Writer!FrameUnits(fs[j])[u] = LastUnit(fs[i])
    BY <2>1, <2>7 DEF Laid
  <2>9. fs[j] = fs[i] /\ u = 2 + fs[i].size
    BY <2>2, <2>6, <2>8, LastUnitIs
  <2>10. j = i
    <3>1. j \in 1 .. Len(fs)
      BY <1>1
    <3>2. QED
      BY <2>9, <3>1
  <2>11. p = at[j + 1]
    <3>1. \A a, s \in Nat : a + (2 + s) = a + 2 + s
      OBVIOUS
    <3>2. fs[j].size = fs[i].size
      BY <2>9
    <3>3. p = at[j] + (2 + fs[j].size)
      BY <2>7, <2>9, <3>2
    <3>4. QED
      BY <2>6, <3>1, <3>3
  <2>12. at[j + 1] <= Len(file)
    BY <2>11
  <2>13. QED
    BY <1>1, <2>10, <2>12
<1>4. QED
  BY <1>2, <1>3

\* The reader reads each record that is whole.
LEMMA WholeIsReadable ==
  ASSUME NEW fs \in Seq(Frames), NEW m, NEW at, Starts(fs, at, m),
         NEW file \in Seq(Units), Laid(file, fs, at, m), Trailing(file, at[m + 1]),
         NEW w, Cut(file, at, m, w), NEW i \in 1 .. w, NEW e, e.at = at[i]
  PROVE  Writer!Readable(file, e) /\ Writer!ReadFrame(file, e) = fs[i]
<1>1. /\ i \in 1 .. m /\ at[i + 1] <= Len(file) /\ Writer!RecordAt(file, at[i])
      /\ file[at[i] + 2].frame = fs[i]
  <2>1. Len(file) \in Nat
    OBVIOUS
  <2>2. QED
    BY <2>1, RecordsSeen
<1>2. /\ at[i] \in Nat /\ fs[i] \in Frames /\ fs[i].size \in Nat
      /\ at[i + 1] = at[i] + 2 + fs[i].size
  BY <1>1, RecordPlaced
<1> DEFINE a == at[i]
           f == fs[i]
           n == f.size
<1>3. a \in Nat /\ n \in Nat /\ a + 2 + n <= Len(file) /\ Len(file) \in Nat /\ e.at = a
  BY <1>1, <1>2
<1>4. Writer!Holds(file, a, "rec") /\ Writer!Holds(file, a + 1, "header") /\ file[a + 2].frame = f
  BY <1>1 DEF Writer!RecordAt
<1>5. \A b \in 1 .. n : file[a + 2 + b] = [kind |-> "samples", frame |-> f, block |-> b]
  <2> TAKE b \in 1 .. n
  <2>1. 2 + b \in 1 .. 2 + n /\ a + (2 + b) = a + 2 + b /\ a + (2 + b) <= Len(file)
    <3> HIDE DEF a, n
    <3>1. QED
      BY <1>3
  <2>2. \A u \in 1 .. 2 + n : a + u <= Len(file) => file[a + u] = Writer!FrameUnits(f)[u]
    BY <1>1 DEF Laid
  <2>3. file[a + (2 + b)] = Writer!FrameUnits(f)[2 + b]
    BY <2>1, <2>2
  <2>4. Writer!FrameUnits(f)[2 + b] = [kind |-> "samples", frame |-> f, block |-> b]
    BY <1>2, UnitsAre
  <2>5. QED
    BY <2>1, <2>3, <2>4
<1> DEFINE s == Writer!Samples(f)
           r == SubSeq(file, a + 3, a + 2 + n)
<1>6. s \in Seq(Units) /\ Len(s) = n
      /\ \A b \in 1 .. n : s[b] = [kind |-> "samples", frame |-> f, block |-> b]
  <2>1. \A b \in 1 .. n : [kind |-> "samples", frame |-> f, block |-> b] \in Units
    BY <1>2, <1>3 DEF Units
  <2>2. s \in [1 .. n -> Units]
    BY <2>1 DEF Writer!Samples
  <2>3. \A b \in 1 .. n : s[b] = [kind |-> "samples", frame |-> f, block |-> b]
    BY DEF Writer!Samples
  <2> HIDE DEF s, n
  <2>4. QED
    BY <1>3, <2>2, <2>3
<1> HIDE DEF a, n, f, s
<1>7. r \in Seq(Units) /\ Len(r) = n /\ \A b \in 1 .. n : r[b] = file[a + 2 + b]
  <2>1. \A k \in a + 3 .. a + 2 + n : file[k] \in Units
    <3>1. \A k \in a + 3 .. a + 2 + n : k \in 1 .. Len(file)
      BY <1>3
    <3>2. QED
      BY <3>1
  <2> DEFINE first == a + 3
             last == a + 2 + n
  <2>2. first \in Int /\ last \in Int /\ r = SubSeq(file, first, last)
    BY <1>3
  <2>3. last - first + 1 = n /\ (first <= last <=> n # 0)
        /\ \A b \in 1 .. n : first + b - 1 = a + 2 + b
    BY <1>3
  <2> HIDE DEF r, first, last
  <2>4. /\ SubSeq(file, first, last) \in Seq(Units)
        /\ Len(SubSeq(file, first, last)) = IF first <= last THEN last - first + 1 ELSE 0
        /\ \A b \in 1 .. last - first + 1 : SubSeq(file, first, last)[b] = file[first + b - 1]
    <3>1. \A k \in first .. last : file[k] \in Units
      BY <2>1 DEF first, last
    <3>2. QED
      BY <2>2, <3>1, SubSeqProperties
  <2>5. QED
    BY <1>3, <2>2, <2>3, <2>4
<1> HIDE DEF r
<1>8. r = s
  <2>1. Len(r) = Len(s) /\ \A b \in 1 .. Len(r) : r[b] = s[b]
    BY <1>5, <1>6, <1>7
  <2>2. QED
    BY <1>6, <1>7, <2>1, SeqEqual
<1>9. Writer!Readable(file, e)
  <2>1. SubSeq(file, e.at + 3, e.at + 2 + n) = s
    BY <1>3, <1>8 DEF r
  <2>2. n = f.size /\ s = Writer!Samples(f)
    BY DEF n, s
  <2>3. QED
    BY <1>3, <1>4, <2>1, <2>2 DEF Writer!Readable
<1>10. Writer!ReadFrame(file, e) = f
  BY <1>3, <1>4 DEF Writer!ReadFrame
<1>11. QED
  BY <1>9, <1>10 DEF f

-----------------------------------------------------------------------------
\* What is on the disk, whatever state the stream is in, when the reader opens it.
LEMMA AlwaysLeft == ASSUME FileInv, CrashInv, Len(disk) >= 2 PROVE Left
<1>1. CASE stream # "good"
  BY <1>1 DEF CrashInv
<1>2. CASE stream = "good"
  <2>1. ~sealed /\ OnDisk /\ WriterTyped
    BY <1>2 DEF FileInv, WriterInv, Whole
  <2>2. accepted \in Seq(Frames)
    BY <2>1, Sequences
  <2> DEFINE m == Len(index)
             file == disk \o buffer
  <2>3. PICK at : /\ Starts(accepted, at, m) /\ Laid(file, accepted, at, m)
                  /\ Len(file) = at[m + 1]
    BY <1>2 DEF CrashInv, Growing
  <2>4. /\ Len(disk) \in Nat /\ Len(file) \in Nat /\ Len(disk) <= Len(file)
        /\ \A p \in 1 .. Len(disk) : disk[p] = file[p]
    <3>1. disk \in Seq(Units) /\ buffer \in Seq(Units)
      BY <2>1 DEF OnDisk
    <3>2. /\ Len(disk \o buffer) = Len(disk) + Len(buffer)
          /\ Len(disk) \in Nat /\ Len(buffer) \in Nat
          /\ \A p \in 1 .. Len(disk) : (disk \o buffer)[p] = disk[p]
      BY <3>1, GrownLaw
    <3>3. QED
      BY <3>2
  <2> HIDE DEF file, m
  <2>5. Laid(disk, accepted, at, m)
    BY <2>2, <2>3, <2>4, LaidPrefix
  <2>6. Trailing(disk, at[m + 1])
    <3>1. \A p \in Len(file) + 1 .. Len(disk) : FALSE
      BY <2>4
    <3>2. QED
      BY <2>3, <3>1 DEF Trailing
  <2>7. disk[Len(disk)].kind # "footer"
    <3>1. Len(disk) \in 1 .. Len(disk) /\ Len(disk) <= at[m + 1]
      BY <2>3, <2>4
    <3>2. \A p \in 1 .. Len(disk) : p <= at[m + 1] => disk[p].kind \in Kinds
      BY <2>2, <2>3, <2>4, <2>5, KindInside
    <3>3. disk[Len(disk)].kind \in Kinds
      BY <3>1, <3>2
    <3>4. QED
      BY <3>3 DEF Kinds
  <2>8. LeftBy(at, m)
    BY <2>1, <2>3, <2>5, <2>6, <2>7 DEF LeftBy
  <2>9. QED
    BY <2>8 DEF Left
<1>3. QED
  BY <1>1, <1>2

\* No two frames of a recording are the same.
LEMMA Distinct ==
  ASSUME RecordsInv
  PROVE  \A i, j \in 1 .. Len(accepted) : accepted[i] = accepted[j] => i = j
<1>1. /\ accepted \in Seq(Frames) /\ DOMAIN accepted = 1 .. Len(accepted)
      /\ \A i, j \in 1 .. Len(accepted) : i < j => accepted[i].id < accepted[j].id
  BY DEF RecordsInv, RecordsWhatIsShown
<1> SUFFICES ASSUME NEW i \in 1 .. Len(accepted), NEW j \in 1 .. Len(accepted),
                    accepted[i] = accepted[j]
             PROVE  i = j
  OBVIOUS
<1>2. accepted[i].id \in Nat /\ accepted[j].id = accepted[i].id
  BY <1>1, FrameAssumption
<1>3. ~ (i < j) /\ ~ (j < i)
  BY <1>1, <1>2
<1>4. QED
  BY <1>3

\* The three invariants give what a reader makes of the file: through the footer
\* when there is one, and by a scan when not.
LEMMA CrashReadsBack == FileInv /\ CrashInv /\ RecordsInv => CrashKeepsWholeFrames
<1> SUFFICES ASSUME FileInv, CrashInv, RecordsInv, Writer!Opens(disk)
             PROVE  LET found == Writer!ReaderIndex(disk)
                    IN  /\ \A i \in DOMAIN found : Writer!Readable(disk, found[i])
                        /\ Writer!FramesOf(disk, found) = SubSeq(accepted, 1, Writer!WholeFrames)
  BY DEF CrashKeepsWholeFrames, Writer!CrashKeepsWholeFrames
<1>1. /\ disk \in Seq(Units) /\ Len(disk) \in Nat /\ Len(disk) >= 2
      /\ accepted \in Seq(Frames) /\ Len(accepted) \in Nat /\ DOMAIN accepted = 1 .. Len(accepted)
  <2>1. OnDisk /\ WriterTyped
    BY DEF FileInv, WriterInv
  <2>2. 1 < Len(disk)
    BY DEF Writer!Opens, Writer!Holds
  <2>3. QED
    BY <2>1, <2>2, Sequences DEF OnDisk
<1>2. PICK m, at : LeftBy(at, m)
  BY <1>1, AlwaysLeft DEF Left
<1>3. /\ Starts(accepted, at, m) /\ Laid(disk, accepted, at, m) /\ Trailing(disk, at[m + 1])
      /\ disk[Len(disk)].kind = "footer" => sealed
      /\ sealed => m = Len(accepted) /\ at[m + 1] <= Len(disk) /\ Indexed(at)
  BY <1>2 DEF LeftBy
<1>4. PICK w : Cut(disk, at, m, w)
  BY <1>1, <1>3, CutExists
<1>5. w \in Nat /\ w <= m /\ m \in Nat /\ m <= Len(accepted) /\ at \in [1 .. m + 1 -> Nat] /\ at[1] = 2
      /\ \A i, j \in 1 .. m + 1 : i < j => at[i] < at[j]
  <2>1. w \in 0 .. m
    BY <1>4 DEF Cut
  <2>2. /\ m \in 0 .. Len(accepted) /\ at \in [1 .. m + 1 -> Nat] /\ at[1] = 2
        /\ \A i, j \in 1 .. m + 1 : i < j => at[i] < at[j]
    BY <1>3 DEF Starts
  <2>3. QED
    BY <1>1, <2>1, <2>2
<1>6. Writer!WholeFrames = w
  <2> DEFINE whole == {i \in 1 .. Len(accepted) : Writer!Contains(disk, LastUnit(accepted[i]))}
  <2>1. Writer!WholeFrames = Cardinality(whole)
    <3>1. Writer!WholeFrames
            = Cardinality({i \in DOMAIN accepted : Writer!Contains(disk, LastUnit(accepted[i]))})
      BY DEF Writer!WholeFrames, LastUnit, Writer!Cardinality, Cardinality
    <3>2. QED
      BY <1>1, <3>1
  <2>2. whole = 1 .. w
    BY <1>1, <1>3, <1>4, Distinct, WholeAre
  <2>3. Cardinality(1 .. w) = w
    BY <1>5, FS_Interval
  <2>4. QED
    BY <2>1, <2>2, <2>3
<1> DEFINE found == Writer!ReaderIndex(disk)
<1>7. DOMAIN found = 1 .. w /\ \A i \in 1 .. w : found[i].at = at[i]
  <2>1. CASE sealed
    <3>1. found = index
      BY <2>1, SealedIndex
    <3>2. Len(index) = Len(accepted) /\ index \in Seq(Entries)
      BY <2>1, Sequences DEF FileInv, WriterInv, Whole
    <3>3. w = m /\ m = Len(accepted)
      <4>1. m = 0 \/ m \in 1 .. m
        BY <1>5
      <4>2. m \in 1 .. m => m <= w
        BY <1>3, <1>4, <2>1 DEF Cut
      <4>3. QED
        BY <1>3, <1>5, <2>1, <4>1, <4>2
    <3>4. DOMAIN index = 1 .. w /\ \A i \in 1 .. w : index[i].at = at[i]
      BY <1>3, <2>1, <3>2, <3>3 DEF Indexed
    <3> HIDE DEF found
    <3>5. QED
      BY <3>1, <3>4
  <2>2. CASE ~sealed
    <3>1. Writer!Recovered(disk)
      <4>1. Writer!Last(disk) = disk[Len(disk)]
        BY DEF Writer!Last
      <4>2. QED
        BY <1>3, <2>2, <4>1 DEF Writer!Recovered, Writer!IndexUsable
    <3>2. found = Writer!ScanForFrames(disk, 2)
      BY <3>1 DEF Writer!ReaderIndex, Writer!FramesBegin
    <3> DEFINE e   == [i \in 1 .. w |-> Writer!EntryFor(accepted[i], at[i])]
               cut == [i \in 1 .. w + 1 |-> at[i]]
    <3>3. \A i \in 1 .. w + 1 : i \in 1 .. m + 1 /\ at[i] \in Nat
      BY <1>5
    <3>4. cut \in [1 .. w + 1 -> Nat] /\ \A i \in 1 .. w + 1 : cut[i] = at[i]
      BY <3>3
    <3>5. e \in [1 .. w -> Entries]
      <4>1. ASSUME NEW i \in 1 .. w PROVE Writer!EntryFor(accepted[i], at[i]) \in Entries
        <5>1. i \in 1 .. Len(accepted) /\ i \in 1 .. w + 1
          BY <1>1, <1>5
        <5>2. accepted[i] \in Frames /\ at[i] \in Nat
          BY <1>1, <3>3, <5>1
        <5>3. QED
          BY <5>2 DEF Writer!EntryFor, Entries
      <4>2. QED
        BY <4>1
    <3>6. \A i \in 1 .. w : e[i] = Writer!EntryFor(accepted[i], at[i])
      OBVIOUS
    <3> HIDE DEF e, cut
    <3>7. \A i, j \in 1 .. w + 1 : i < j => cut[i] < cut[j]
      BY <1>5, <3>3, <3>4
    <3>8. /\ \A i \in 1 .. w : /\ i \in 1 .. m /\ Writer!RecordAt(disk, at[i])
                               /\ disk[at[i] + 2].frame = accepted[i]
                               /\ disk[at[i] + 1].payload = accepted[i].size
          /\ \A p \in Nat : Writer!RecordAt(disk, p) => \E i \in 1 .. w : p = at[i]
          /\ at[w + 1] <= Len(disk)
      BY <1>1, <1>3, <1>4, RecordsSeen
    <3>9. ASSUME NEW i \in 1 .. w
          PROVE  /\ Writer!RecordAt(disk, cut[i])
                 /\ Writer!EntryFor(disk[cut[i] + 2].frame, cut[i]) = e[i]
                 /\ cut[i] + 2 + disk[cut[i] + 1].payload = cut[i + 1]
      <4>1. i \in 1 .. w + 1 /\ i + 1 \in 1 .. w + 1
        BY <1>5
      <4>2. cut[i] = at[i] /\ cut[i + 1] = at[i + 1]
        BY <3>4, <4>1
      <4>3. at[i + 1] = at[i] + 2 + accepted[i].size
        <5>1. i \in 1 .. m
          BY <3>8
        <5>2. accepted \in Seq(Frames) /\ Starts(accepted, at, m)
          BY <1>1, <1>3
        <5>3. QED
          BY <5>1, <5>2, RecordPlaced
      <4>4. /\ Writer!RecordAt(disk, at[i]) /\ disk[at[i] + 2].frame = accepted[i]
            /\ disk[at[i] + 1].payload = accepted[i].size
        BY <3>8
      <4>5. e[i] = Writer!EntryFor(accepted[i], at[i])
        BY <3>6
      <4>6. QED
        BY <4>2, <4>3, <4>4, <4>5
    <3>10. \A p \in Nat : Writer!RecordAt(disk, p) => \E i \in 1 .. w : p = cut[i]
      <4>1. \A i \in 1 .. w : cut[i] = at[i]
        BY <1>5, <3>4
      <4>2. QED
        BY <3>8, <4>1
    <3>11. cut[w + 1] <= Len(disk) /\ cut[1] = 2
      <4>1. w + 1 \in 1 .. w + 1 /\ 1 \in 1 .. w + 1
        BY <1>5
      <4>2. QED
        BY <1>5, <3>4, <3>8, <4>1
    <3>12. Writer!ScanForFrames(disk, cut[1]) = e
      <4>1. /\ Len(disk) \in Nat /\ w \in Nat
            /\ cut \in [1 .. w + 1 -> Nat] /\ e \in [1 .. w -> Entries]
        BY <1>1, <1>5, <3>4, <3>5
      <4>2. \A i \in 1 .. w : /\ Writer!RecordAt(disk, cut[i])
                              /\ Writer!EntryFor(disk[cut[i] + 2].frame, cut[i]) = e[i]
                              /\ cut[i] + 2 + disk[cut[i] + 1].payload = cut[i + 1]
        BY <3>9
      <4>3. Seen(disk, w, cut, e)
        BY <3>7, <3>10, <3>11, <4>2 DEF Seen
      <4>4. QED
        BY <4>1, <4>3, ScanIs
    <3>13. found = e
      BY <3>2, <3>11, <3>12
    <3> HIDE DEF found
    <3>14. DOMAIN e = 1 .. w /\ \A i \in 1 .. w : e[i].at = at[i]
      BY <3>5, <3>6 DEF Writer!EntryFor
    <3>15. QED
      BY <3>13, <3>14
  <2>3. QED
    BY <2>1, <2>2
<1> HIDE DEF found
<1>8. ASSUME NEW i \in 1 .. w
      PROVE  Writer!Readable(disk, found[i]) /\ Writer!ReadFrame(disk, found[i]) = accepted[i]
  BY <1>1, <1>3, <1>4, <1>7, WholeIsReadable
<1>9. Writer!FramesOf(disk, found) = SubSeq(accepted, 1, w)
  <2>1. Writer!FramesOf(disk, found) = [i \in 1 .. w |-> accepted[i]]
    BY <1>7, <1>8 DEF Writer!FramesOf
  <2>2. SubSeq(accepted, 1, w) = [i \in 1 .. w |-> accepted[i]]
    <3> DEFINE r == SubSeq(accepted, 1, w)
    <3>1. \A i \in 1 .. w : i \in 1 .. Len(accepted) /\ accepted[i] \in Frames
      BY <1>1, <1>5
    <3>2. /\ r \in Seq(Frames) /\ Len(r) = (IF 1 <= w THEN w - 1 + 1 ELSE 0)
          /\ \A i \in 1 .. w - 1 + 1 : r[i] = accepted[1 + i - 1]
      BY <1>5, <3>1, SubSeqProperties
    <3> HIDE DEF r
    <3>3. Len(r) = w /\ \A i \in 1 .. w : r[i] = accepted[i]
      BY <1>5, <3>2
    <3>4. r = [i \in 1 .. Len(r) |-> r[i]]
      BY <3>2
    <3>5. r = [i \in 1 .. w |-> accepted[i]]
      BY <3>3, <3>4
    <3>6. QED
      BY <3>5 DEF r
  <2>3. QED
    BY <2>1, <2>2
<1>10. QED
  BY <1>6, <1>7, <1>8, <1>9 DEF found

\* The writer and the reader: whatever moment the process dies at, with whatever
\* part of its last write on the disk, the reader finds exactly the frames that
\* are there to their last unit, in the order they were recorded, and can read
\* each.  For any number of frames of any size.
THEOREM RecordingCrashKeepsWholeFrames == Spec => []CrashKeepsWholeFrames
<1>1. Init => RecordsInv
  BY DisplayInit DEF Init, Writer!Init, RecordsInv, RecordsWhatIsShown
<1>2. Spec => []RecordsInv
  BY <1>1, RecordsStep, PTL DEF Spec
<1>3. QED
  BY <1>2, CrashInvariant, CrashReadsBack, PTL
================================================================================
