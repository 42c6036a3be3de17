------------------------------- MODULE Recording -------------------------------
(***************************************************************************)
(* Recording a running instrument (src/src/app/JScopeApp.cpp): the drain   *)
(* of FrameDelivery hands what it displays to the writer of CaptureWriter. *)
(* Both belong to the main thread, which runs one handler at a time and is *)
(* blocked while the writer closes.                                        *)
(***************************************************************************)
EXTENDS Naturals, Sequences

CONSTANTS MaxFrames, Depth, Frames, MaxOpens, Backlog, DiskFails

VARIABLES published, ready, publisher, wakePending, clearing, wakes, draining,
          latest, shown, target,
          disk, buffer, stream, open, queue, index, pending, backlogReported,
          closing, opens, accepted, errors, sealed,
          began      \* history: the newest published frame when recording began

Delivery == INSTANCE FrameDelivery
Writer   == INSTANCE CaptureWriter

ASSUME RecordingAssumption == Delivery!DeliveryAssumption /\ Writer!WriterAssumption
ASSUME FrameAssumption == \A f \in Frames : f.id \in Nat /\ f.size \in Nat

deliveryVars == <<published, ready, publisher, wakePending, clearing, wakes, draining,
                  latest, shown, target>>
writerVars   == <<disk, buffer, stream, open, queue, index, pending, backlogReported,
                  closing, opens, accepted, errors, sealed>>
vars == <<deliveryVars, writerVars, began>>

Init == Delivery!Init /\ Writer!Init /\ began = 0

MainFree == ~draining /\ ~closing

\* startRecording(): JCaptureWriter::open(), between two handlers.
StartRecording ==
  /\ MainFree /\ Writer!OpenFile
  /\ began' = published
  /\ UNCHANGED deliveryVars

\* The file cannot be created, or not begun: nothing is recorded.
StartRefused ==
  /\ MainFree
  /\ Writer!OpenRefused \/ Writer!HeaderFails
  /\ UNCHANGED <<deliveryVars, began>>

\* stopRecording()
StopRecording == MainFree /\ Writer!BeginClose /\ UNCHANGED <<deliveryVars, began>>

\* The drain found a new frame: onFrame shows it and, while a file is open,
\* records it.  The mutant records what is shown whether or not it is new.
ShowAndRecordAgain ==
  /\ Delivery!EndDrain
  /\ IF open /\ latest # 0
     THEN \E f \in Frames : f.id = latest /\ Writer!Write(f)
     ELSE UNCHANGED writerVars
  /\ UNCHANGED began

ShowAndRecord ==
  /\ Delivery!EndDrain
  /\ IF open /\ latest # shown
     THEN \E f \in Frames : f.id = latest /\ Writer!Write(f)
     ELSE UNCHANGED writerVars
  /\ UNCHANGED began

\* The rest of the delivery goes on beside the writer; nothing of the main thread
\* does while it waits in close().
Beside(step) == step /\ UNCHANGED <<writerVars, began>>
Publish   == Beside(Delivery!PublishFrame)
Announce  == Beside(Delivery!PostWake \/ Delivery!PostCallback)
Flush     == Beside(Delivery!Flush)
BeginShow == ~closing /\ Beside(Delivery!RunWake \/ Delivery!TakeFrame)
Tick      == ~closing /\ Beside(Delivery!Tick)

\* The worker appends, and close() ends.
Disk == (Writer!Worker \/ Writer!FinishClose) /\ UNCHANGED <<deliveryVars, began>>

Next == \/ StartRecording \/ StartRefused \/ StopRecording \/ ShowAndRecord \/ Disk
        \/ Publish \/ Announce \/ Flush \/ BeginShow \/ Tick

\* The fairness of the two parts: the dispatcher runs what is posted, the render
\* loop ticks, a thread inside _publish() finishes, a store becomes visible, the
\* worker runs its queue and close() returns.  Nobody has to publish or record.
Fairness == /\ WF_vars(BeginShow \/ ShowAndRecord) /\ WF_vars(Tick)
            /\ WF_vars(Announce) /\ WF_vars(Flush) /\ WF_vars(Disk)
Spec == Init /\ [][Next]_vars /\ Fairness

-----------------------------------------------------------------------------
\* What the two parts promise alone still holds of the two together; see
\* FrameDelivery and CaptureWriter for what each says.
OneWakeOutstanding    == Delivery!TypeOK /\ Delivery!OneWakeOutstanding
DrainCatchesUp        == Delivery!DrainCatchesUp
NoSilentLoss          == Writer!NoSilentLoss
CrashKeepsWholeFrames == Writer!CrashKeepsWholeFrames
SealedReadsBack       == Writer!SealedReadsBack

\* Every published frame or a newer one is eventually shown, although the main
\* thread stands still in close() until the disk has taken the whole backlog.
FrameReachesDisplay == Delivery!FrameReachesDisplay

\* What is recorded is what was displayed: no acquisition is in the file twice or
\* out of order, and none from before the recording began to be shown.
RecordsWhatIsShown ==
  /\ \A i, j \in DOMAIN accepted : i < j => accepted[i].id < accepted[j].id
  /\ \A i \in DOMAIN accepted : accepted[i].id <= shown
  /\ open /\ accepted # <<>> => accepted[Len(accepted)].id = shown

\* "RECORDED FRAMES ARE NEVER DROPPED. The display ring drops oldest because a
\* scope shows the newest acquisition, but dropping from a recording is data
\* loss": every frame displayed or passed over since recording began was offered
\* to the writer.  It does not hold: what is recorded is what is displayed.
NeverDropped ==
  open => \A n \in began + 1 .. shown : \E i \in DOMAIN accepted : accepted[i].id = n
==============================================================================
