------------------------------ MODULE CaptureFile ------------------------------
(***************************************************************************)
(* The .jscope container (src/src/capture/JCaptureFormat.h) and what       *)
(* JCaptureReader makes of any file: through the footer, or by a scan.     *)
(*                                                                         *)
(* A file is a sequence of units, one for each struct that is written and  *)
(* one for each block of samples.  An offset is the number of units before *)
(* the place.  A file cut off inside a struct is a file without that unit: *)
(* read() of it fails the same way.                                        *)
(***************************************************************************)
EXTENDS Naturals, Sequences, SequencesExt

\* A frame is [id, size, time]: size counts its blocks of samples, time is
\* header.timestampSeconds.
CONSTANT Frames

FileHeader     == [kind |-> "head"]        \* JFileHeader: magic, version, flags
Json           == [kind |-> "json"]           \* the metadata of JCaptureMeta
Rec(f)         == [kind |-> "rec", payload |-> f.size]
FrameHeader(f) == [kind |-> "header", frame |-> f]
Samples(f)     == [b \in 1 .. f.size |-> [kind |-> "samples", frame |-> f, block |-> b]]
Index(n)       == [kind |-> "index", count |-> n]
Entry(e)       == [kind |-> "entry", entry |-> e]
Footer(at)     == [kind |-> "footer", index |-> at]

\* One record of the file: JFrameRecord, the frame's header, its planes.
FrameUnits(f) == <<Rec(f), FrameHeader(f)>> \o Samples(f)
\* JIndexEntry
EntryFor(f, offset) == [at |-> offset, time |-> f.time]
\* What close() appends at `offset`.
Trailer(entries, offset) ==
  <<Index(Len(entries))>> \o [i \in DOMAIN entries |-> Entry(entries[i])] \o <<Footer(offset)>>

\* What read() finds after `at` units: nothing past the end.
Holds(file, at, kind) == at < Len(file) /\ file[at + 1].kind = kind

-----------------------------------------------------------------------------
\* Mutants of RecordAt: the payload is not compared with the file's real length;
\* a frame that ends with the file is taken for one that was cut off.
RecordAtUnchecked(file, at) == Holds(file, at, "rec") /\ Holds(file, at + 1, "header")
RecordAtStrict(file, at) ==
  /\ Holds(file, at, "rec") /\ Holds(file, at + 1, "header")
  /\ at + 2 + file[at + 1].payload < Len(file)

\* Is there a whole frame record at this offset?
RecordAt(file, at) ==
  /\ Holds(file, at, "rec") /\ Holds(file, at + 1, "header")
  /\ at + 2 + file[at + 1].payload <= Len(file)

\* scanForFrames(from): the entries of the records that follow one another from
\* there, up to the first place that does not hold a whole one.
ScanForFrames(file, from) ==
  LET scan[at \in 0 .. Len(file)] ==
        IF RecordAt(file, at)
        THEN <<EntryFor(file[at + 2].frame, at)>> \o scan[at + 2 + file[at + 1].payload]
        ELSE <<>>
  IN  IF from <= Len(file) THEN scan[from] ELSE <<>>

FramesBegin == 2

\* Does the file end in a footer that leads to a whole index?
IndexUsable(file) ==
  /\ file # <<>> /\ Last(file).kind = "footer"
  /\ LET at == Last(file).index IN
       /\ Holds(file, at, "index")
       /\ at + 1 + file[at + 1].count <= Len(file)

FooterIndex(file) ==
  LET at == Last(file).index
  IN  [i \in 1 .. file[at + 1].count |-> file[at + 1 + i].entry]

\* open(): a file without its header is refused; one without a usable footer is
\* scanned.
Opens(file)     == Holds(file, 0, "head") /\ Holds(file, 1, "json")
Recovered(file) == ~ IndexUsable(file)
ReaderIndex(file) ==
  IF Recovered(file) THEN ScanForFrames(file, FramesBegin) ELSE FooterIndex(file)

\* readFrame(): can the frame at this entry be read, and which one is it?
Readable(file, e) ==
  /\ Holds(file, e.at, "rec") /\ Holds(file, e.at + 1, "header")
  /\ LET f == file[e.at + 2].frame
     IN  /\ e.at + 2 + f.size <= Len(file)
         /\ SubSeq(file, e.at + 3, e.at + 2 + f.size) = Samples(f)
ReadFrame(file, e) == file[e.at + 2].frame

\* frameAtTime(): the last entry at or before t, the first when there is none.
\* std::upper_bound answers this only for an index that is sorted by time.
FrameAtTime(index, t) ==
  LET before == {i \in DOMAIN index : index[i].time <= t}
  IN  IF before = {} THEN 0 ELSE (CHOOSE i \in before : \A j \in before : j <= i) - 1
==============================================================================
