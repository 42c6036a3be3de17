------------------------------ MODULE RollWindow ------------------------------
(***************************************************************************)
(* JHantek1008Driver::_acquireRoll(): the chunks of samples that roll mode *)
(* hands back are gathered lane by lane until there is a record worth      *)
(* publishing.  A sample is [channel, at]: the device channel it was taken *)
(* from, and how many that channel had given since start().                *)
(***************************************************************************)
EXTENDS Naturals, Sequences, FiniteSets

CONSTANTS Channels,     \* device channels, numbered from 1
          MaxChunk,     \* bound on the samples per channel one poll returns
          MinSamples,   \* kRollWindowMinSamples
          FrameSamples, \* kMaxRollSamplesPerChannel, and what a frame can hold
          MaxTaken,     \* bound on the samples of one start()
          MaxEvents,    \* bound on setting changes and restarts
          Midway,       \* may those happen while a window is open?
          PoolDry       \* may acquire() return nullptr?

VARIABLES enabled,      \* the enabled channels
          taken,        \* samples each channel has given since start()
          windowOpen,   \* m_rollWindowOpen
          lanes,        \* m_rollAccumulator
          streamIndex,  \* m_streamIndex
          frame,        \* the last frame published, or NoFrame
          events

vars == <<enabled, taken, windowOpen, lanes, streamIndex, frame, events>>

Lanes   == 1 .. Cardinality(Channels)
NoFrame == [start |-> 0, channelIds |-> <<>>, planes |-> <<>>]

\* What a copy past the end of a lane reads.
Garbage == [channel |-> 0, at |-> 0]

\* _activeChannels(): the enabled ones in order, and the first when none is.
Active == IF enabled = {} THEN <<CHOOSE c \in Channels : \A d \in Channels : c <= d>>
          ELSE [i \in 1 .. Cardinality(enabled) |->
                  CHOOSE c \in enabled : Cardinality({d \in enabled : d <= c}) = i]

Init == /\ enabled \in SUBSET Channels
        /\ taken = 0 /\ windowOpen = FALSE
        /\ lanes = [i \in Lanes |-> <<>>]
        /\ streamIndex = 0 /\ frame = NoFrame /\ events = 0

\* Between two acquisitions the settings are applied: other channels ...
Reconfigure == /\ events < MaxEvents /\ (Midway \/ ~windowOpen)
               /\ enabled' \in SUBSET Channels
               /\ events' = events + 1
               /\ UNCHANGED <<taken, windowOpen, lanes, streamIndex, frame>>

\* Mutant of Restart: m_streamIndex goes on.
RestartOn == /\ events < MaxEvents /\ (Midway \/ ~windowOpen)
             /\ taken' = 0
             /\ events' = events + 1
             /\ UNCHANGED <<enabled, windowOpen, lanes, streamIndex, frame>>

\* ... or stop() and start(), which count from zero again.
Restart == /\ events < MaxEvents /\ (Midway \/ ~windowOpen)
           /\ taken' = 0 /\ streamIndex' = 0
           /\ events' = events + 1
           /\ UNCHANGED <<enabled, windowOpen, lanes, frame>>

\* Mutant of Chunk: the second lane is taken from the next tick.
Staggered(i, n) == IF i > Len(Active) THEN <<>>
                   ELSE [k \in 1 .. n |-> [channel |-> Active[i], at |-> taken + k + i]]

\* Mutant of Gathered: a new window does not clear the lanes.
GatheredOn(n) == [i \in Lanes |-> lanes[i] \o
                    (IF i > Len(Active) THEN <<>>
                     ELSE [k \in 1 .. n |-> [channel |-> Active[i], at |-> taken + k]])]

\* What a poll of n samples appends to lane i, in a window opened anew or not.
Chunk(i, n) == IF i > Len(Active) THEN <<>>
               ELSE [k \in 1 .. n |-> [channel |-> Active[i], at |-> taken + k]]
Gathered(n) == [i \in Lanes |-> (IF windowOpen THEN lanes[i] ELSE <<>>) \o Chunk(i, n)]

\* Mutant of Gather: the window waits for its time alone.
GatherOn(n) == /\ lanes' = Gathered(n)
               /\ windowOpen' = TRUE
               /\ UNCHANGED <<streamIndex, frame>>

\* A poll that leaves the window open: neither the time nor the room is used up.
Gather(n) == /\ lanes' = Gathered(n)
             /\ Len(lanes'[1]) < FrameSamples \/ Len(lanes'[1]) < MinSamples
             /\ windowOpen' = TRUE
             /\ UNCHANGED <<streamIndex, frame>>

\* A poll that completes it.
Publish(n) ==
  /\ lanes' = Gathered(n)
  /\ Len(lanes'[1]) >= MinSamples
  /\ windowOpen' = FALSE
  /\ \/ LET have  == Len(lanes'[1])
            count == IF have < FrameSamples THEN have ELSE FrameSamples
        IN  /\ frame' = [start |-> streamIndex, channelIds |-> Active,
                         planes |-> [i \in DOMAIN Active |->
                                       [k \in 1 .. count |-> IF k <= Len(lanes'[i])
                                                               THEN lanes'[i][k] ELSE Garbage]]]
            /\ streamIndex' = streamIndex + count
     \/ PoolDry /\ UNCHANGED <<streamIndex, frame>>

Poll == \E n \in 1 .. MaxChunk : /\ taken + n <= MaxTaken
                                 /\ taken' = taken + n
                                 /\ Gather(n) \/ Publish(n)
                                 /\ UNCHANGED <<enabled, events>>

Next == Poll \/ Reconfigure \/ Restart

Spec == Init /\ [][Next]_vars

-----------------------------------------------------------------------------
\* The type invariant: a lane never outgrows its bound by more than a chunk.
TypeOK == /\ enabled \subseteq Channels /\ taken \in 0 .. MaxTaken
          /\ windowOpen \in BOOLEAN /\ events \in 0 .. MaxEvents
          /\ streamIndex \in Nat
          /\ \A i \in Lanes : Len(lanes[i]) < FrameSamples + MinSamples + MaxChunk

\* "plane i -> device channel id" (JScopeFrameHeader.h): every sample of a plane
\* was taken from the channel the header names.
PlaneIsOneChannel ==
  \A i \in DOMAIN frame.planes : \A k \in DOMAIN frame.planes[i] :
    frame.planes[i][k].channel = frame.channelIds[i]

\* The planes of a frame are aligned in time: sample k of each was taken together.
PlanesAligned ==
  \A i, j \in DOMAIN frame.planes : \A k \in DOMAIN frame.planes[i] :
    frame.planes[i][k].at = frame.planes[j][k].at

\* startSampleIndex never claims samples that were not taken before the frame,
\* whatever was started, stopped or dropped before it.
IndexNotAhead == frame # NoFrame => frame.start + 1 <= frame.planes[1][1].at

\* "samples since start" (JScopeFrameHeader.h): startSampleIndex says how many
\* samples of this start() came before the frame.  Violated once a window is
\* dropped because acquire() returned nullptr (PoolDry).
StartIndexTrue == frame # NoFrame => frame.start + 1 = frame.planes[1][1].at
==============================================================================
