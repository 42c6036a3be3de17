----------------------------- MODULE CaptureWriter -----------------------------
(***************************************************************************)
(* JCaptureWriter (src/src/capture/JCaptureWriter.cpp): the main thread    *)
(* offers frames, a worker appends them to the file, close() waits for the *)
(* worker and seals the file with an index.                                *)
(*                                                                         *)
(* std::ofstream buffers: a write moves any part of what is buffered to    *)
(* the disk, and a write that fails leaves a part of it there and the      *)
(* stream bad for good.  A crash needs no action: `disk` is, in every      *)
(* state, what a process killed there leaves behind.                       *)
(***************************************************************************)
EXTENDS CaptureFile, FiniteSets

CONSTANTS MaxFrames,   \* bound on the frames offered to one recording
          MaxOpens,    \* bound on the recordings
          Backlog,     \* kBacklogWarning
          DiskFails    \* may a write to the disk fail?

WriterAssumption == /\ MaxFrames \in Nat /\ MaxOpens \in Nat
                    /\ Backlog \in Nat /\ DiskFails \in BOOLEAN

VARIABLES
  disk,       \* the file as the disk has it
  buffer,     \* written to the stream and not yet on the disk
  stream,     \* "closed", "good", or "bad": a stream that failed while open
  open,       \* m_impl->open
  queue,      \* frames posted to the worker
  index,      \* m_impl->index
  pending,    \* m_impl->pending
  backlogReported,
  closing,    \* main is inside close(), waiting for the worker
  opens,      \* recordings begun
  accepted,   \* history: the frames write() took in this recording
  errors,     \* history: problems posted to onError in this recording
  sealed      \* history: this file was closed and every write of it succeeded

fileVars == <<disk, buffer, stream>>
vars == <<fileVars, open, queue, index, pending, backlogReported, closing, opens,
          accepted, errors, sealed>>

Init == /\ disk = <<>> /\ buffer = <<>> /\ stream = "closed"
        /\ open = FALSE /\ queue = <<>> /\ index = <<>> /\ pending = 0
        /\ backlogReported = FALSE /\ closing = FALSE /\ opens = 0
        /\ accepted = <<>> /\ errors = 0 /\ sealed = FALSE

Tellp == Len(disk) + Len(buffer)

\* stream << units, with n of the units now waiting moved to the disk.
Put(units, n) == LET all == buffer \o units
                 IN  /\ n \in 0 .. Len(all)
                     /\ disk' = disk \o SubSeq(all, 1, n)
                     /\ buffer' = SubSeq(all, n + 1, Len(all))
                     /\ UNCHANGED stream

\* The same, failing after n units: the rest never gets there.
PutFails(units, n) == LET all == buffer \o units
                      IN  /\ DiskFails /\ n \in 0 .. Len(all) - 1
                          /\ disk' = disk \o SubSeq(all, 1, n)
                          /\ buffer' = <<>>
                          /\ stream' = "bad"

-----------------------------------------------------------------------------
\* open(path): the header and the metadata, flushed at once.
OpenFile ==
  /\ ~open /\ ~closing /\ opens < MaxOpens /\ stream = "closed"
  /\ opens' = opens + 1
  /\ disk' = <<FileHeader, Json>> /\ buffer' = <<>> /\ stream' = "good"
  /\ open' = TRUE /\ index' = <<>> /\ pending' = 0 /\ backlogReported' = FALSE
  /\ accepted' = <<>> /\ errors' = 0 /\ sealed' = FALSE
  /\ UNCHANGED <<queue, closing>>

\* The file cannot be created, or a failed recording has left the stream open.
OpenRefused ==
  /\ ~open /\ ~closing /\ opens < MaxOpens
  /\ stream = "bad" \/ DiskFails
  /\ opens' = opens + 1 /\ errors' = errors + 1
  /\ UNCHANGED <<fileVars, open, queue, index, pending, backlogReported, closing,
                 accepted, sealed>>

\* The header could not be written: the file is closed again.
HeaderFails ==
  /\ ~open /\ ~closing /\ opens < MaxOpens /\ stream = "closed" /\ DiskFails
  /\ opens' = opens + 1 /\ errors' = errors + 1
  /\ disk' \in {<<>>, <<FileHeader>>}
  /\ accepted' = <<>> /\ sealed' = FALSE
  /\ UNCHANGED <<buffer, stream, open, queue, index, pending, backlogReported, closing>>

\* write(frame): copied, counted and posted; a deep queue is reported once.
Write(f) ==
  /\ open /\ ~closing /\ Len(accepted) < MaxFrames
  /\ accepted' = Append(accepted, f)
  /\ queue' = Append(queue, f)
  /\ pending' = pending + 1
  /\ LET late == pending' > Backlog /\ ~backlogReported
     IN  /\ backlogReported' = (backlogReported \/ pending' > Backlog)
         /\ errors' = errors + (IF late THEN 1 ELSE 0)
  /\ UNCHANGED <<fileVars, open, index, closing, opens, sealed>>

\* The worker's job on a stream in order: the record is appended and indexed.
AppendFrame ==
  /\ queue # <<>> /\ stream = "good"
  /\ \E n \in 0 .. Len(buffer) + Len(FrameUnits(queue[1])) : Put(FrameUnits(queue[1]), n)
  /\ index' = Append(index, EntryFor(queue[1], Tellp))
  /\ queue' = Tail(queue) /\ pending' = pending - 1
  /\ UNCHANGED <<open, backlogReported, closing, opens, accepted, errors, sealed>>

\* Mutant of AppendFails: the failure is not reported.
AppendFailsSilently ==
  /\ queue # <<>> /\ stream = "good"
  /\ \E n \in 0 .. Len(buffer) + Len(FrameUnits(queue[1])) : PutFails(FrameUnits(queue[1]), n)
  /\ queue' = Tail(queue) /\ pending' = pending - 1
  /\ UNCHANGED <<open, index, backlogReported, closing, opens, accepted, errors, sealed>>

\* The write failed: reported, and not in the index.
AppendFails ==
  /\ queue # <<>> /\ stream = "good"
  /\ \E n \in 0 .. Len(buffer) + Len(FrameUnits(queue[1])) : PutFails(FrameUnits(queue[1]), n)
  /\ errors' = errors + 1
  /\ queue' = Tail(queue) /\ pending' = pending - 1
  /\ UNCHANGED <<open, index, backlogReported, closing, opens, accepted, sealed>>

\* if (!m_impl->file) { pending.fetch_sub(1); return; }
SkipFrame ==
  /\ queue # <<>> /\ stream = "bad"
  /\ queue' = Tail(queue) /\ pending' = pending - 1
  /\ UNCHANGED <<fileVars, open, index, backlogReported, closing, opens, accepted, errors, sealed>>

\* close() up to waitForIdle().
BeginClose ==
  /\ open /\ ~closing
  /\ closing' = TRUE
  /\ UNCHANGED <<fileVars, open, queue, index, pending, backlogReported, opens,
                 accepted, errors, sealed>>

\* Mutant of WorkerIdle: the footer does not wait for the queue.
WorkerIgnored == TRUE

WorkerIdle == queue = <<>>

EndClose == /\ closing /\ WorkerIdle
            /\ closing' = FALSE /\ open' = FALSE
            /\ UNCHANGED <<queue, index, pending, backlogReported, opens, accepted, errors>>

\* The index and the footer, and file.close(), which flushes.
Seal ==
  /\ EndClose /\ stream = "good"
  /\ disk' = disk \o buffer \o Trailer(index, Tellp)
  /\ buffer' = <<>> /\ stream' = "closed" /\ sealed' = TRUE

\* A write of the trailer or the last flush fails: nobody asks, the file is
\* closed all the same.
SealFails ==
  /\ EndClose /\ stream = "good" /\ DiskFails
  /\ \E n \in 0 .. Len(buffer) + Len(index) + 1 :
       disk' = disk \o SubSeq(buffer \o Trailer(index, Tellp), 1, n)
  /\ buffer' = <<>> /\ stream' = "closed"
  /\ UNCHANGED sealed

\* A stream that failed is left as it is: no trailer, and the file not closed.
CloseFailed ==
  /\ EndClose /\ stream = "bad"
  /\ UNCHANGED <<fileVars, sealed>>

Worker == AppendFrame \/ AppendFails \/ SkipFrame
Main   == \/ OpenFile \/ OpenRefused \/ HeaderFails \/ \E f \in Frames : f.id = Len(accepted) + 1 /\ Write(f)
          \/ BeginClose
FinishClose == Seal \/ SealFails \/ CloseFailed

Next == Main \/ Worker \/ FinishClose

\* The worker runs what is posted and waitForIdle() returns; nobody has to record.
Fairness == WF_vars(Worker) /\ WF_vars(FinishClose)
Spec == Init /\ [][Next]_vars /\ Fairness

-----------------------------------------------------------------------------
TypeOK == /\ stream \in {"closed", "good", "bad"} /\ open \in BOOLEAN
          /\ queue \in Seq(Frames) /\ accepted \in Seq(Frames)
          /\ pending \in Nat /\ errors \in Nat /\ opens \in 0 .. MaxOpens
          /\ backlogReported \in BOOLEAN /\ closing \in BOOLEAN /\ sealed \in BOOLEAN
          /\ index \in Seq([at : Nat, time : {f.time : f \in Frames}])

FramesOf(file, found) == [i \in DOMAIN found |-> ReadFrame(file, found[i])]

\* How many frames have reached the disk to their last unit.
WholeFrames == Cardinality({i \in DOMAIN accepted :
                 LET last == IF accepted[i].size = 0 THEN FrameHeader(accepted[i])
                             ELSE Last(Samples(accepted[i]))
                 IN  Contains(disk, last)})

\* "An interrupted recording is a normal case": whatever moment the process dies
\* at, the reader finds exactly the frames that reached the disk whole, in the
\* order they were recorded, and every entry it offers can be read.
CrashKeepsWholeFrames ==
  Opens(disk) =>
    LET found == ReaderIndex(disk)
    IN  /\ \A i \in DOMAIN found : Readable(disk, found[i])
        /\ FramesOf(disk, found) = SubSeq(accepted, 1, WholeFrames)

\* A recording that closed without a failure reads back whole, through its footer.
SealedReadsBack ==
  sealed => /\ Opens(disk) /\ ~Recovered(disk)
            /\ FramesOf(disk, ReaderIndex(disk)) = accepted

\* "RECORDED FRAMES ARE NEVER DROPPED" by the writer: each frame write() took is
\* indexed or still queued, in order, or a problem has been reported.
NoSilentLoss ==
  /\ TypeOK /\ pending = Len(queue)
  /\ errors = 0 => /\ Len(index) + Len(queue) = Len(accepted)
                   /\ queue = SubSeq(accepted, Len(index) + 1, Len(accepted))

\* close() comes back: the queue it waits for empties, on a bad stream too.
CloseReturns == closing ~> ~closing

\* Checked by no run: a recording that failed does not stand in the way of the
\* next.  close() leaves a failed stream open, and no later open() succeeds.
Reopens == ~open => stream = "closed"
==============================================================================
