# A verification development of jscope

jscope is an oscilloscope front end (C++20). A driver acquires frames of samples on a
thread of its own; a session on the main thread drains, displays and records them;
long operations on the instrument run on a worker. This directory holds TLA+ models of
the parts where these threads, the instrument, the disk and the user meet, the TLC
configurations that check them on small instances, and TLAPS proofs of what holds of
most of them for every size.

Every module is translated from the source named at its head; `PROJECT.json` maps each
definition to its lines. Paths below are relative to the repository.

1. The system  2. The modules  3. The runs  4. The proofs  5. Not modelled
6. Where the code and its comments disagree  7. What could come next

## 1. The system

### Threads

| thread | created by | what it runs |
| --- | --- | --- |
| main (UI) | the application | handlers, the 8 ms drain tick, everything posted to `JMainThreadDispatcher` |
| device worker | `JScopeSession` (`m_deviceWorker`) | `driver->open()`, autoset |
| acquisition | each driver's `start()` | `_runLoop()`: configure, capture, publish; or play a capture back |
| keep-alive | `JHantek1008Driver::open()` | a ping every 10 ms while nothing is acquired |
| writer | `JCaptureWriter` | appends recorded frames to the file |

### Components

| component | state | operations | talks to | what makes it correct | module |
| --- | --- | --- | --- | --- | --- |
| Frame ring `JScopeFrameQueue` | `m_head`, `m_tail`, `m_slots` | `reset`, `push`, `pop` | two rings in the pool | a bounded FIFO; no race on the plain slots | `FrameQueue`, `BoundedFifo` |
| Frame pool `JScopeFramePool` | frames, free ring, ready ring, `m_dropped` | `provision`, `acquire`, `publish`, `tryPopReady`, `release` | acquisition thread and drain | frames conserved, owned by one side; acquire never fails; drops counted | `FramePool`, `FramePoolThreads` |
| Driver base `JScopeDriver` | `m_wakePending`, life token | `_publish`, `_postFrameWake`, `_postGuarded` | dispatcher | no frame waits for ever; no callback into a destroyed driver | `FrameDelivery`, `ScopeSession` |
| Session `JScopeSession` | `m_driver`, `m_connecting`, `m_deviceBusy`, `m_epoch`, `m_latest` | `open`, `openAsync`, `runOnDevice`, `close`, `drain` | driver, worker, dispatcher | the driver outlives all that uses it; every request answered once | `ScopeSession` |
| 1008C driver | run flag, thread, settings, dirty flags, two mutexes | `open`, `close`, `start`, `stop`, `single`, `apply*`, `autoset`, loops | protocol, pool, generator | nobody disturbs a capture; settings reach the device; threads are joined | `HantekDriver` |
| Hantek protocol | last error; what is owed on the pipe | bring-up, burst, roll, generator commands | device | a record is made of this capture's bytes; every wait ends | `HantekProtocol` |
| Roll window (`_acquireRoll`) | lanes, open flag, stream index | one poll | pool | one channel per plane, aligned, true start index | `RollWindow` |
| Synthetic driver | settings, phase, last trigger | as a driver | pool | the trace of one trigger settles; single shots end | `ScopeActions` |
| Actions `JScopeActions` | none | the verbs of the window and the bus | session, driver | a verb leaves the acquisition as it found it | `ScopeActions` |
| Capture writer and reader | file, queue, index; recovered index | `open`, `write`, `close`; `open`, `readFrame` | worker, disk | nothing lost in silence; what a crash leaves can be read | `CaptureFile`, `CaptureWriter` |
| Recording (`JScopeApp`) | the latest frame | start, stop, one record for each frame shown | drain, writer | the file is what was shown | `Recording` |
| Replay driver and bar | position, loop flag, scratch frame | `start`, `stop`, `seek`, `step` | reader, session | what is sought is shown; nothing is skipped | `Replay` |
| Application and settings | chosen device, question, notice, settings file | selection, menu, adopt, quit, restart | session | the right instrument, its own setup, no dead end | `ScopeApp` |
| Pattern generator, its panel and grid | pattern, speed, output; controls; drawing; what the device was sent | `setPattern`, `setRpm`, `flush`; the panel's controls; load, save, download | 1008C loop, bus, menu | the controls, the drawing and the device agree | `Generator` |
| Measurement | none | levels, crossings, timing, decimation | latest frame | edges are excursions; glitches are drawn | `EdgeDetector`, `Measurement`, `TraceDecimator` |

Codec and tables, CSV, the AI bus, the other panels, USB and the registry are in section 5.

### What is hard here

* Lock-free rings used by more threads than they are written for
  (`JScopeFramePool.h:92`, `JHantek1008Driver.cpp:771`).
* A wake coalesced by a flag whose clearing races with the publisher.
* Bare driver pointers on a worker while the main thread may destroy the driver, and
  continuations delivered after the world they belong to is gone.
* Three threads and two mutexes around one USB pipe, with `start()` joining; settings
  changed in mid-capture and in mid-window.
* A device that may answer after the read that wanted the answer has given up.
* A recording cut off anywhere, a disk that fails at any write, a close with frames queued.
* A position shared by a playback loop and a scrubbed bar.
* A start-up whose steps wait for questions while the user does something else.

`PROJECT.json` lists these one by one, each at its line, under `hazards`, with the
properties that would catch it going wrong.

## 2. The modules

```
BoundedFifo <-- implemented by -- FrameQueue <-- two instances -- FramePoolThreads
                                                                       |  the same calls,
                                                                  FramePool   one step each
CaptureFile <- CaptureWriter -+
FrameDelivery ----------------+-- both INSTANCEd by --> Recording
ScopeSession     HantekDriver     HantekProtocol     RollWindow
Replay           ScopeApp         ScopeActions     Generator
EdgeDetector <- Measurement -> TraceDecimator
MC*        values for the constants       *Proofs   theorems, each beside its module
```

**BoundedFifo** is the abstract queue: `Put` while there is room, `Take` the oldest.

**FrameQueue** is `JScopeFrameQueue`, one step per shared access: the call with its
relaxed load of the own index, the acquire load of the other index with the decision
on it, the slot access, the clear (in `pop`), the release store. An acquire load may
return any index between the last one its thread saw and the current one
(`StaleLoads`), which is what C++ coherence allows; release and acquire make the slots
visible with the index. `Contents` is the refinement mapping to `BoundedFifo`.

**FramePool** is `JScopeFramePool` with one step per call, `provision()` with its clamp
of the depth and its ring sizes, and the header of each frame as (start, sequence
number). It states what the pool promises to callers whose calls do not overlap: that
`acquire()` looks at two rings at two moments is `FramePoolThreads`' subject.

**FramePoolThreads** takes the same calls apart into the instructions of two
`FrameQueue` instances, for threads that capture and threads that drain. With
`Contended = FALSE` no two threads are at the same end of one ring at once; with `TRUE`
the code's own schedules are allowed, in which `acquire()` pops the ready ring against
the drain. (A step of `FramePool` is not always a step here: acquire's two pops may see
two different moments. So the two are checked separately and no refinement between
them is claimed.)

**FrameDelivery** is `_publish`, `_postFrameWake`, the dispatched callback, the tick and
`drain()`. The callback's release store of `m_wakePending` may become visible after the
loads that follow it (`clearing`, `Flush`).

**ScopeSession** is `JScopeSession` with its worker and the dispatcher's queue. Drivers
are numbered in order of creation. `close()` is two steps, before and after
`waitForIdle()`; `open()` and `openAsync()` begin with it. Jobs carry the driver and the
epoch they captured; posts the life token (as the driver's number). `touched` is a
history of the drivers a step dereferences.

**HantekDriver** is the 1008C driver. A call is a list of steps (`Plan`) that the calling
thread works through; the acquisition and the keep-alive thread have program counters.
A call on the device is two steps, so overlaps are visible. Settings are versions:
`devCfg` is the version the device has, `Mixed` when a transfer failed half way. Every call
is there, the generator's direct download too.

**HantekProtocol** is the conversation on the pipe. A job (bring-up, configuration, burst,
roll poll, generator, ping) is a `script` of commands, grouped in parts; a failure that
the code looks at ends its part, and one of the operation's own part ends the job. The
device answers in order, at once or late; a late answer is what the next read finds.
Bring-up measures its zero offsets on three ranges, each a burst of its own. The bytes of
an answer are abstracted to the command and the capture they belong to.

**RollWindow** is `_acquireRoll()`. A sample is labelled with the channel and the instant
it was taken, so a property can say what a plane is made of. Whether the window's time
is up is a choice. `Midway` allows changes while a window is open.

**CaptureFile** is the container as a sequence of units (one for each struct and each
block of samples), with what the reader makes of any file: through the footer, or by
the scan. **CaptureWriter** is `JCaptureWriter` on a buffered stream: a write moves any
part of the buffer to the disk, and a failing one leaves a part there and the stream bad
for good. A crash needs no action: `disk` is, in every state, what a killed process
leaves. **Recording** composes it with `FrameDelivery` as `JScopeApp` does: `Begin` of a
drain, then one record for each frame that was displayed, on a main thread that
`close()` blocks.

**Replay** is `JReplayDriver` with the bar and the part of the application that attaches
it. The loop and the main thread read through one reader into one scratch frame; reads
that overlap give `Mixed`. Posts are what the dispatcher still holds. The bar's slider has a
value of its own: a share of `Travel` that is made of a frame and made a frame again as the
code does it, which for a capture of one frame divides by zero (`None`). The toolbar's Run,
Stop and Single reach the driver in any state; the bar's button asks it first.

**ScopeApp** is the application's main thread: the first frame's device selection, the
question about the USB rule (which holds up the selection and lets it go on later), the
menu, connects that end either way, settings per driver, recording, quit, kill and
restart. The session is what `ScopeSession` shows of it. A device is what an enumeration
says of it plus the unit it really is, whether it can acquire, and whether its configuration
is its own (`deviceOwnsConfiguration`): then nothing is put back. `left` is a history of the
setup the user left each driver with.

**ScopeActions** is `JScopeActions` over the synthetic driver: the main thread works
through a handler's `script` (look, stop, copy, apply, run again), the loop captures,
the worker runs autoset. A step under `m_cfgMutex` is one step. One channel, the
trigger's source, stands for all; its signal is a function on a few points of a period
and times are kept modulo the period. `lock` is a history of the triggered sweeps that
have followed one another: by which trigger, where, how many.

**Generator** is the pattern generator from its panel to the device. A handler of the main
thread is one step, with all it sets off through `onConfigChanged`; the acquisition thread
sends what is owed between captures, in two steps, for the flag is taken before the state
is read and sent (`TakeFlag`, `SendTaken`), and `stop()` waits for it. A pattern is a
sequence of sets of outputs, and speeds are converted to ticks and back as the tables do.
What the device was sent is kept apart from what the generator holds, and a transfer that
fails may have been obeyed.

**EdgeDetector** reads a record sample by sample as `findCrossings()` does, so every
record over `Volts` is a state; `findLevels()` is an operator on records. **Measurement**
has the timing half of `measureAll()` and **TraceDecimator** has `decimate()`, both
operators on `EdgeDetector`'s records. Times are integers, in a unit that leaves the
interpolations without remainder.

Operators commented "Mutant of ..." are deliberate errors beside the definition they
distort. `PROJECT.json` pairs each with a property; replacing the definition by it must
make that property fail, which shows that the property can.

## 3. The runs

| run | instance | states | shows |
| --- | --- | --- | --- |
| `frame_queue` | 3 items, 4 slots, stale loads | 45 k | the ring is a FIFO and race free |
| `frame_pool` | budgets up to 4 frames, 4 frames a start, 2 starts | 664 k | conservation, `acquire` answers, drops counted |
| `session` | 3 requests, 3 drivers, 3 closes, 1 autoset, 2 posts | 66 k | lifetime, answers, flags, `close()` returns |
| `hantek` | all calls, both modes, 2 settings | 381 k | joins, pipe, settings, roll, no deadlock |
| `protocol` | 2 answers late, 2 owed, 2 polls, 1 chunk a half | 288 k | no record of another's bytes; every job ends |
| `recording` | 3 frames of 2, 0 and 1 blocks, depth 2, 2 recordings, failing disk | 150 k | the file is what was shown, and survives |
| `replay` | a capture of 3 frames, a slider of 5 places, 2 drivers, 2 posts | 789 k | what is sought is shown, nothing is skipped |
| `app` | 6 devices and a capture, 5 buses, 2 runs, 2 picks | 1.14 M | the right device, its setup kept, no dead end |
| `scope_actions` | 1 signal of 6 points, 3 levels, all slopes, 2 changes | 622 k | the mode, the trigger and single shots survive the verbs |
| `measure` | 4 voltages, up to 7 samples, 4 thresholds, 3 columns | 87 k | crossings, levels, periods and the trace |
| `generator` | 2 outputs, patterns of 1 and 2 steps, speeds to 6, 6 acts, 1 failure | 526 k | the speed shown and the device follow the generator; edits stay |
| `pool_reclaim` | 3 frames, 4 slots, two threads, contended | | violated, see 6 |

`MCFramePoolTurns.cfg` is `pool_reclaim` with `Contended = FALSE`: `ExclusiveOwnership`
and `NothingLost` hold (230 k states), so it is the overlap of two threads at one end of
a ring, and nothing else, that breaks the pool in this instance.

`MCRollWindow.cfg` is a check of `RollWindow` (2 channels, chunks of 2, windows of 2 to 4
samples, a pool that may be dry; 40 k states): every plane is of the channel its header
names, as long as channels change and acquisitions restart only between windows. It is not
among the runs because the code does not keep to that: with `Midway = TRUE` the same
property fails, see 6.

**Why these bounds are enough.**
The ring: four slots hold three items, so it fills, empties and wraps several times, and
an index can be stale by a whole lap. The pool: depths 2 to 4 contain the clamp's
boundary; four frames of one start exceed every depth, so frames are reclaimed, and two
starts bring in frames of an older numbering. (The proofs need neither bound.) The
session: three of each is enough for a connect that is overtaken by a close and a connect
that follows, each while a stale continuation is queued; an autoset adds the second kind
of job. `MaxPosts` keeps Run and Stop from filling the queue for ever. The driver: two
versions of settings give one change at any moment of the loop; `sequence` counts to one,
since the code asks only whether it is positive. Calls repeat without bound. The protocol:
two late answers let a command meet the answer to the one before its predecessor; two
polls are "again" and "no more". The roll window: eight samples make at least two windows
of four, and two events make a change and a restart in either order. Recording: three
frames over a depth of two drop one, are recorded in part, and leave frames queued at a
close; the sizes make a frame without samples and one whose samples can be cut; two
recordings make one on a stream the first has left bad. Replay: three frames have a first,
a middle and a last; two drivers are one whose posts outlive it. The application: the
devices are two units that can be told apart, one of them at two ports and the other at
one of these, a third without a serial number, a source of another driver, a bench
instrument with its own setup and no waveform, and a capture file; two runs are needed to
remember, and two picks to interrupt a selection. Actions: two changes are an autoset and
a setter, or a change of mode and of trigger, in either order; a ramp with a flyback
crosses its middle, which autoset chooses, twice half a period apart, a lower level at two
times that are not, and never reaches the third: the three cases of `SweepsSettle`. A
window lasts a whole period, so that a free-running sweep resumes where it began; sweeps
of other lengths are the proof's, which holds for any. Replay's slider has twice as many
steps as the capture, so that it stands between frames, too. Generator: two lengths differ
in the speed they can do, the speeds include some that only the shorter can do; six acts
are a connect, an edit, a change of length, a load and two changes of speed or output
around them; one failure leaves the device torn once. Measurement: seven samples hold two
cycles, noise inside the band and a dropout; the detector's constants (percentages, bins)
are chosen so that short records fall on either side of each test: with 13 bins and 5
between two levels, two neighbouring voltages are 12, 6 or 4 bins apart, as the record
spans 20, 40 or 60, so a dropout does squeeze two levels into one.

`CHECK_DEADLOCK FALSE` stands where the model stops when a bound is used up (session, roll
window, recording, replay, application, actions, generator, measurement). The others may
not deadlock and do not.

**Fairness.**
`Recording`: the main thread ends a display it has begun, the tick fires (the render loop
drives it), a wake that was decided on is posted, a store becomes visible, and the
writer's worker runs. Nothing obliges a driver to publish, or a disk to succeed.
`FrameReachesDisplay` needs the tick: the mutant without it fails, because the publisher
may still read the flag as set after the drain found the ring empty. `ScopeSession`: main,
worker and tick run; `driver->open()` and autoset return because every USB wait has a
timeout. `HantekDriver`: each thread takes steps it can take. The loop's are strongly
fair, for what it waits for is a mutex that its holders let go in every turn: the
keep-alive sleeps 10 ms between pings, and the user lets time pass between two downloads;
so the mutex is free again and again for a thread that waits. `HantekProtocol`: a transfer
ends (with data or a timeout), an answer arrives, a job is left when its script is done.
`Replay`: the loop runs, the main thread ends a handler it is in, and posts are delivered.
`ScopeApp`: the window draws, and a connect ends one way or the other. `ScopeActions`: the
loop, the worker, its continuation and the handler under way go on. No fairness anywhere
for what users or devices do.

**What the properties are about.**

* *Ring and pool.* `SlotExclusive`, `ImplementsFifo`: nobody reads a slot that is being
  written, and what goes in comes out, in order. `AcquireSucceeds`, `OwnedOnce`: the
  producer is never stopped and no frame is captured into while it is copied.
  `GapsAreCounted`: what the consumer misses is in the drop count.
* *Session.* `OnlyLiveDrivers`: nothing runs on a destroyed driver. `BusyIsTrue`: a busy
  flag is up exactly while its job or its valid continuation exists. `AdoptedIsOpen`: no
  answer is taken for another driver's. `AnsweredOnce`: `done` is called exactly once.
  `CloseReturns`: the main thread never waits for itself.
* *1008C.* `JoinedFirst`: no joinable `std::thread` is assigned over. `LoopUndisturbed`:
  no other thread is on the pipe during a capture, but for the one transfer of a
  `download()` that the user asks for at once (see 6). `DeviceInSync`,
  `ChangesReachDevice`: settings get there, but for a device that a failed autoset has
  left half set. `RollStarts`: no roll poll on a device reconfigured since. `CallsReturn`:
  no join and no mutex is circular. `TakenIsOurs`: a record that is published is made of
  answers of its own capture, half A before half B. `JobsEnd`: every operation ends,
  however late the device is.
* *Recording.* `RecordsWhatIsShown`: the file holds a run of what was displayed, in order,
  none twice. `NoSilentLoss`: each frame `write()` took is indexed or queued, or a problem
  was reported. `CrashKeepsWholeFrames`: the reader finds exactly the frames that reached
  the disk whole. `SealedReadsBack`: a file that closed without a failure reads back whole
  through its footer. `FrameReachesDisplay`: a published frame, or a newer one, is shown.
* *Replay.* `SeekIsShown`: what was sought while nothing plays is on the display and on
  the bar, whose slider stands where no other frame has its place; a seek while the loop
  plays is shown only if the loop does not publish over it, so nothing is claimed of that.
  `PlaysEveryFrame`: playback that no seek disturbs emits every frame in turn.
  `StopReturns`: the join of a loop that sleeps, or has retired, ends.
* *Application.* `OneIsTried`: a start tries one device, whatever is picked meanwhile.
  `OnlyRemembered`: it is the unit used last, wherever it is plugged in. `SetupsKept`: a
  stored setup is only ever replaced by what the user left that driver with, never by the
  defaults or another instrument's, through connects that fail, changes of instrument,
  kills and restarts. It excepts an instrument whose setup is its own, and a window that
  is closed during a connect (see 6). `SelectionEnds`: the selection ends in an
  instrument, a question or a notice.
* *Actions.* `ModeHonoured`: the loop, which gets the mode only when it is started, runs
  in the mode the timebase names, though the setter decides by a state the loop writes
  too. `SweepsSettle`: a sweep that is not forced finds the crossing there is, and sweeps
  of one trigger show the signal in one phase, whatever came between them; with either
  slope the trace may jump once, and for ever only if the crossings are half a period
  apart. `SingleEnds`: a single shot ends by itself unless there is nothing to capture.
* *Generator.* `RealSpeedShown`: the real speed, which depends on both the request and the
  pattern's length, is that of the pattern that is held, whichever of panel, grid, menu
  and bus changed it. `EditsSurvive`: nothing but a new pattern undoes an edit.
  `DeviceFollows`: the output and the speed asked for reach the device, whether the loop
  sends them or the caller, and if they change between the loop's taking the flag and its
  sending. A change made just before Stop stays owed until the next Run (`GeneratorSent`
  in 6).
* *Measurement.* `CrossingsAreExcursions`: the crossings are the excursions across the
  hysteresis band, all of them and no others. `LevelsIgnoreDropout`: one bad sample does
  not move base or top while the bins tell the two levels apart; when they do not, base
  and top are the extremes, the bad sample with them, and nothing else is reported (see
  6). `PeriodicIsMeasured`: a record that repeats has its period, and, where each crossing
  lies between the two samples it was seen at, its duty cycle. `DrawnIsSampled`: every
  sample is inside what is drawn of its column.

Each module also has a type invariant `TypeOK`; for the modules of section 4 it is proved
as part of the invariant.

## 4. The proofs

Checked by TLAPS for every value of the constants. Each invariant below is the inductive
strengthening of the property it is there for; most were first checked by TLC.

**FrameProofs**, the ring (`QueueTyped`, `QueueSlotExclusive`, `QueueNoNullItem`,
`QueueImplementsFifo`). Assumed: `QueueAssumption` (at least one slot, `nullptr` is no
frame) and one pusher and one popper, the class's contract. `SlotExclusive` is not
inductive: nothing in it relates the indices a thread remembers to the real ones.
`QueueInv` adds: a side's local is the index only it stores (`OwnIndex`); the last index
loaded from the other side is behind the real one and not lapped (`Behind`), so room or
an item seen in a stale index is really there; the decision stays true until it is acted
on (`Checked`); every slot from `head` to `tail` is filled, save the one being taken
(`Filled`). The arithmetic modulo the ring is in lemmas on `Dist` and `Succ`. For the
refinement, `Contents` is shown to be a sequence that a publishing store appends to, an
advancing store takes the head from, and every other step leaves alone.

**FrameProofs**, the pool (`PoolTyped`, `PoolConserved`, `PoolAcquireSucceeds`,
`PoolPublishFits`, `PoolOwnedOnce`, `PoolGapsAreCounted`). Assumed: `PoolAssumption` (a
ring has at least the slots asked for). `depth # 1`, which `provision()`'s clamp gives, is
part of the invariant: otherwise `acquire()` could find the only frame in the consumer's
hand. `OwnedOnce` follows from counting (`Conserved`: as many frames in the four places
as were provisioned) and covering (every frame is in one of them) by the pigeonhole
principle. For `GapsAreCounted` the invariant says how the numbers in the ready ring run
(`Numbered`) and that each gap in them is in the counter.

**HantekDriverProofs** (`DriverJoinedFirst`, `DriverLoopUndisturbed`,
`DriverDeviceInSync`, `DriverRollStarts`). Assumed: the constants' typing, and nothing of
the calls. A call's stack is one of a finite table of tails of `Plan`, with what must hold
at each (`CallInv`); the other part says who holds which mutex at which program counter
(`BusInv`), when the thread is live (`ThreadInv`), when roll mode is as started
(`RollInv`), and what the dirty flag hides (`SyncInv`). One lemma per step of a call.

**HantekProtocolProofs**, the record (`ProtocolTakenIsOurs`). Assumed: the constants' typing and
`MaxBehind <= 5`. Nothing in the code empties the pipe, so what keeps another command's
answer out of a record is that a capture begins with commands of its own. The invariant
says what is still owed: the last answer owed is that of the command under way, and of the
older ones, which are few, the most recent k belong to commands of a known kind (`Recent`).
It then follows a job through its script: the five commands before the start of a burst
have short or no answers, and the echo of the start shows that nothing older is left
(`Arming`); after the five commands of `startRollMode()` nothing that is owed is as long as
a length (`StreamInv`), so no length is read from it; samples are taken only while nothing
is owed (`Taking`). Five is therefore not a bound of convenience: it is the number of these
commands, and for a device that is six answers behind TLC finds a record made of
another's bytes (see 6). The code does not bound what the device owes, so this is an
assumption about the device: that a read which timed out is answered soon after.

**HantekProtocolProofs**, the trigger (`ProtocolArmedWithTrigger`). The same assumptions;
it rests on the invariant above. 0xa3, which sets the rate, clears the device's trigger
selection, so a capture that is armed to wait without a choice made since would wait in
vain. `ChosenInv` follows the order in which things are said. A script that applies the
settings, as far as it is still to be said, leaves a burst's rate and a choice behind every
0xa3 (`WillSelect`), unless its own part has failed; then the settings stay marked as
changed. autoset marks them before it touches the rate (`StoreInv`). What is not marked is
in the device (`KeptInv`), a burst begins only where nothing is marked and says no 0xa3,
and it is started before it is armed (`ArmInv`).

**ApplicationProofs**, the session (`SessionBusyIsTrue`, `SessionAdoptedIsOpen`,
`SessionWorkerPointerValid`, `SessionOnlyLiveDrivers`, `SessionFrameOfThisDriver`). The
invariant has one part for the worker's jobs, one for the posts, one for the flags. Why it
is inductive: `close()` moves the epoch before it waits, so every answer of the old driver
is stale by the time the flags are lowered; and it waits before it destroys, so no job is
left with the pointer.

**ApplicationProofs**, the selection (`AppOneIsTried`, `AppOnlyRemembered`,
`AppSetupsKept`, `AppRememberedIsOpen`). Assumed: `SerialAssumption`, that a serial
number belongs to one unit of a driver. `SelectInv` says what a start has done so far:
nothing before the first frame, nothing while the question holds it up, and at most one
device after. For `SetupsKept` the invariant says what is in use: the setup that is stored,
as long as the user has not edited since, and else what the user left.

**RecordingProofs** (`RecordingRecordsWhatIsShown`, `RecordingNoSilentLoss`,
`RecordingSealedReadsBack`, `RecordingCrashKeepsWholeFrames`). Assumed: `FrameAssumption`.
Four parts for the first three: the display and the record that is owed for it
(`DisplayInv`); the records against what was shown since the start (`RecordsInv`); disk and
buffer as one sequence of which no successful write tears a unit (`WriterInv`); every index
entry points at its frame, whole, until the footer (`FileInv`). The last needs to know where
the records lie (`CrashInv`): there are places, one behind the other (`Starts`), at which
the file has the records of the accepted frames as far as it goes (`Laid`), with nothing
behind them but an index and a footer (`Trailing`). That is said of disk and buffer while
the file grows and of what is left on the disk when a write fails, and it holds of any
beginning of the file, which is why it survives a crash. The scan is a recursive function:
its value is shown to be the entries of the records that end inside the file by giving a
solution of its equation, and that the equation has one solution by induction on a set of
offsets. Counting the whole frames needs that no two frames are the same, which is where
`RecordsInv` comes in.

**RecordingProofs**, the delivery (`RecordingOneWakeOutstanding`,
`RecordingDrainCatchesUp`): the two safety properties of `FrameDelivery`, in the system that
uses it. `WakeInv` counts: a wake that is posted or about to be is the one the flag, as its
writers know it, stands for; a store of `false` that is not visible yet is of a wake that is
gone. `CatchUpInv` relates what a drain has shown to what was in the ring when it
began.

**ReplayProofs** (`ReplayPlaysEveryFrame`, `ReplaySeekIsShown`, `ReplayPositionInRange`,
`ReplayOneLoopThread`). `PlayInv` (which thread is
where, and that the loop follows the position it last stored) for the first; for the
second, that what is sought is being read, on its way, or shown, on the display and on the
bar.

**ScopeActionsProofs** (`ActionsModeHonoured`, `ActionsSweepsSettle`). Assumed:
`ActionsAssumption`, and for the second `ShapesAssumption`. For the mode, what is left of a
handler's script is one of four kinds (`ModeInv`): before a start, where the mode has been
set and the state not yet announced; between a setter's copy and its apply, where what it
sets is not the mode; after a stop, where nothing runs; and the rest, where a loop that runs
has a state a setter can see. For the sweeps: a crossing found
is the first of this period or the next, so within one period of a search's start it is the
one crossing there is, or one of two (`TwoCrossings`); and half a period of hold-off leads
the search from either of two to the same one, unless they are half a period apart
(`BackAndForth`). `ShapesAssumption` says that a signal rises through a level at most once a
period, and falls through it once. That is a fact about the driver, not a wish: the search
looks at the clean signal (`_signalVolts`), whose six shapes are a sine, a square, a
triangle, a ramp and two constants.

**PanelProofs**, the crossings (`DetectorAlternates`, `DetectorFindsExcursions`).
`DetectorInv`: the flag is the side of the last sample outside the band (`SideIsTrue`), the
last crossing led there (`LastLedHere`), crossings alternate and were all read. Records of
any length, any voltages, any threshold.

**PanelProofs**, the period (`TimingPeriodicIsMeasured`, `TimingBracketed`). The crossings of
a record that repeats repeat with it: a shift by one cycle maps the crossings of one cycle
onto those of the next, so all gaps between rising crossings are the cycle and their median
is too. For the duty cycle the times themselves must be in order, a rise before the fall
that follows it. A crossing is placed by interpolation between the two samples it was seen
at, which is only between them when the level is (`Bracketed`); a record that dwells in the
band may break that, and then the property does fail (section 6). `TimingBracketed` gives a
condition that is enough: no sample stops inside the band but at its middle.

**PanelProofs**, the levels (`DetectorLevelsIgnoreDropout`). Assumed: `ModeShare <= 75`, which
is 5 in the code; the bins may divide the span of a record with a remainder and may put two
voltages into one. The samples of a level are
those of its bin; a bin of neither level holds at most the dropout, by counting; so the
fullest bin is one level's and the fullest of those far enough away the other's, if that is
far enough away. If it is not, the fullest of the bins that are has one sample at most,
which is no level, and base and top are the extremes.

**PanelProofs**, the trace (`ScreenDrawsSamples`, `ScreenNoBacktracking`). A sample belongs
to the column whose span holds it, by the quotients the spans are computed from; a column
is drawn between the least and the greatest sample of its span, in an order that depends on
where the last column ended. That order is a recursive function of the column, and what is
needed of it, that it is one of the two, is shown by induction on the set of columns for
which it holds. For the second theorem the order matters: the columns of a signal that only
rises lie above each other, so the extreme nearer to where the path is is the lower one,
and the path goes on.

**PanelProofs**, the generator (`GeneratorRealSpeedShown`, `GeneratorDrawingIsHeld`,
`GeneratorDeviceFollows`, `GeneratorEditsSurvive`, `AcceptedIsReachable`). Assumed:
`GeneratorAssumption`. The invariant relates the generator, the panel and the device: the
real speed shown is that of the pattern and speed held, the drawing is the pattern, and
what the device lacks is among what is owed or is being sent. The last is a fact about the
conversions: a speed that `setRpm()` accepts gives every step its least number of ticks.

Every safety property a passing run checks is proved. Only model-checked, and out of the
prover's reach: every liveness property (`AnsweredOnce`, `CloseReturns`,
`ChangesReachDevice`, `CallsReturn`, `JobsEnd`, `FrameReachesDisplay`, `StopReturns`,
`SelectionEnds`, `SingleEnds`), `ENABLED`, and recursive operators. Induction is used only
over sets of numbers, where it can be had from well-foundedness without an operator as a
parameter. What fails (section 6) is shown by TLC alone.

## 5. Not modelled, and why

* Codec, tables and calibration: pure arithmetic and constant ladders, which the
  repository's codec tests compare with the device's recordings.
* `JMeasurementEngine`'s minimum, maximum, mean and RMS (one pass of floating point), the
  cursors, and the map from volts to pixels.
* CSV export, the bytes of a `.squ` file, and reference waveforms: formatting, parsing,
  interpolation.
* AI bus and bus commands: a translation of verbs to the actions, on the main thread.
* Of the synthetic driver, its `open()` and `close()`, `setSignal()` and the shapes'
  formulas.
* Of the session, `drain()`'s statistics, `onError` and `onDisconnect`; of the
  application, the layout file, the reference traces and the updater.
* The driver registry (filled by static initialisers, then read), the USB wrappers (a
  transfer succeeds, fails or times out, which is how they appear here), the panels
  but the generator's, painting, the logo's picture, packaging, vendored code, probes: no state the properties
  could tell apart. These are most of the repository's lines.
* The framework (dispatcher, worker, timer, signals) is outside the repository and is
  modelled as it is used: a queue in order, a worker with a queue and `waitForIdle()`, a
  timer that fires again.
* Sample values outside `Measurement`, floating point, and weak memory beyond the acquire
  loads of the ring and the wake's flag.

## 6. Where the code and its comments disagree

`pool_reclaim` is a finding in `PROJECT.json`: with the consumer's drain and the
producer's reclaim on one ring, a frame is captured into while it is copied.

More were met. Each is a property of its module that no run checks, and each can be seen
by putting it in place of the properties of the configuration named, with the changes
named:

| property | module | configuration | what TLC shows |
| --- | --- | --- | --- |
| `WorkerAlone` | ScopeSession | `MCSessionWorkerAlone.cfg` | Run and Stop reach a driver that is being brought up |
| `BusyEnds` | ScopeSession | the same, as PROPERTY | `close()` during autoset: never announced as over |
| `OneBusOwner` | HantekDriver | `MCHantekBus.cfg` | `open()`'s generator flush overlaps a keep-alive ping |
| `StateIsTrue` | HantekDriver | (a) | a loop ends before `start()` announces it: Armed for good |
| `OneFrameAndStop` | HantekDriver | (a), as PROPERTY | `single()` asks for one frame after the loop may have published two |
| `GeneratorSent` | HantekDriver | (a) | the generator marked dirty for a loop that has looked for the last time |
| `LabelledAsCaptured` | HantekDriver | (a), as PROPERTY | the header takes settings stored during the capture |
| `NoLockAcrossTransfer` | HantekDriver | (a) | `_applyConfigToDevice()` and `flush()` hold `m_cfgMutex` across transfers |
| `FlushWhileStopped` | HantekDriver | `MCHantekDriver.cfg` | `flush()` is for "any thread while acquisition is stopped" (`JHantek1008PatternGenerator.h:70`): `download()` calls it during a capture |
| `TakenIsOurs` | HantekProtocol | the same with `MaxBehind = 6`, `MaxLate = 1`, `MaxPolls = 1` | six late answers outlast the five commands that begin a capture |
| `NothingForeign` | HantekProtocol | `MCHantekProtocol.cfg` | the sweep that Auto forces looks at no result, and may read another command's answer as samples |
| `PlaneIsOneChannel` | RollWindow | `MCRollWindow.cfg` with `Midway = TRUE` | a roll window survives a change of channels |
| `StartIndexTrue` | RollWindow | `MCRollWindow.cfg` | a window dropped on a dry pool shifts every later index |
| `AcquireAnswers` | FramePoolThreads | `MCFramePoolTurns.cfg`, as PROPERTY | `nullptr` from a provisioned pool |
| `NothingLost` | FramePoolThreads | `MCFramePoolReclaim.cfg` | two pushers on the free ring lose a frame |
| `NeverDropped` | Recording | `MCRecordingLossy.cfg` | "recorded frames are never dropped": those the pool drops, or the display passes over, never reach the writer |
| `Reopens` | CaptureWriter | `MCRecording.cfg`, with `Reopens == Writer!Reopens` in Recording | a stream that failed is left open; no later recording starts |
| `PostsAreGuarded` | Replay | `MCReplayPosts.cfg` | a position callback runs on a replay that is gone |
| `TransportOnlyForCapture`, `OneProducer` | Replay | `MCReplay.cfg` | the bar stays attached when the capture has been replaced; `seek()` emits on the main thread while the loop does |
| `StoppedIsStill` | Replay | `MCReplay.cfg` | Single during playback says Stopped and the loop goes on; the bar's Play then does nothing, for `start()` finds it running |
| `ClosingKeepsSetups` | ScopeApp | `MCScopeApp.cfg`, as PROPERTY | quitting during a connect writes defaults over a setup |
| `NoStaleNotice` | ScopeApp | `MCScopeApp.cfg` | "Cannot connect" over a connect in progress |
| `OneInstrumentPerFile` | ScopeApp | `MCScopeApp.cfg` | a recording goes on with the frames of the next device |
| `NoStaleCopy` | ScopeActions | `MCScopeActions.cfg`, as PROPERTY | a setter's copy overwrites what autoset chose meanwhile |
| `LabelIsScale` | ScopeActions | the same, as PROPERTY | the synthetic frame's header from a copy, its counts from the live range |
| `StateIsTrue` | ScopeActions | the same | a record that does not fit ends the loop, and the window says Armed |
| `SingleStaysSingle` | ScopeActions | the same, as PROPERTY | a new record length turns a single shot into a run |
| `StandsStillAlways` | ScopeActions | the same, as PROPERTY | "the displayed waveform stands still" (`JSyntheticDriver.cpp:427-428`, `533-535`): with Either, which the panel offers, it jumps once, or each sweep starts half a period on |
| `ImmuneToDropout` | EdgeDetector | `MCMeasurement.cfg` | the levels are "immune" to an outlier (`JEdgeDetector.cpp:58`): one that is seven times as far away as they are from each other brings them into bins too close to be two, and is itself the base or the top |
| `SpeedIsReachable` | Generator | `MCGenerator.cfg` | a pattern made longer keeps a speed the device can no longer reach: the panel lowers its box and does not tell the generator, so the next flush sends fewer ticks a step than the device can do |
| `CeilingShown` | Generator | the same | Load Pattern changes the length, and "Max Speed" stays |
| `OnlyDownloadSends` | Generator | the same, as PROPERTY | an edited pattern goes out with the next change of speed or output |
| `Bracketed`, `RiseIsOneEdge` | Measurement | `MCMeasurement.cfg` | a crossing placed outside its two samples; a rise measured to the next one's end |
| `PeriodicIsMeasured` without its `Bracketed =>` | Measurement | the same with `MCVolts == {0, 32, 33, 60}`, `MCThresholds == {[level \|-> 30, half \|-> 3]}`, `Bins = 61`, `MaxSamples = 14` | the record repeats 60, 0, 32, 33: a rise is timed before the fall it follows, and the duty cycle is not that of the record |
| `MedianHolds` | Measurement | the same with `MCVolts == {0, 20}`, `MCThresholds == {[level \|-> 10, half \|-> 1]}`, `MaxSamples = 14` | the median of an even number of gaps is not the gap most of them have |

(a) is `MCHantekDriver.cfg` with
`Calls = {"open", "start", "single", "stop", "apply", "generator"}`.

Three more were read and are in no property. `JEdgeDetector.h:47` documents a "hysteresis
volts either side" of the level, and the code takes half of it (lines 112 to 115);
`EdgeDetector` follows the code, its threshold being given with the half. `JReplayBar`
divides by the number of frames less one, which is 0 / 0 for a capture of one frame; the
slider's value is then `None`. And the settings are saved when the window closes, and only
then (`JScopeApp.cpp:202`, `386`): what was edited on an instrument is lost when the user
goes on to another, whose setup is then the one that is saved. `SetupsKept` does not deny
that: it says what a stored setup may be replaced by, not that every edit is stored.

A failed autoset of the 1008C leaves the device on its widest range with nothing marked to
be sent (`Mixed` in `DeviceInSync`). It also sets the volts per division at the connector
where the setters set them at the probe's tip (`JHantek1008Driver.cpp`, about line 355);
ratios are not modelled.

Some properties hold and are checked by no run, because a stronger or deeper one is. Proved
(section 4) are `OneWakeOutstanding`, `DrainCatchesUp` (Recording), `FrameOfThisDriver`
(ScopeSession), `ArmedWithTrigger` (HantekProtocol), `PositionInRange`, `OneLoopThread`
(Replay), `RememberedIsOpen` (ScopeApp), `PublishFits` (FramePool), `EdgesAlternate`
(EdgeDetector), `NoBacktracking` (Measurement) and `DrawingIsHeld` (Generator). Only
model-checked are `PlanesAligned` and `IndexNotAhead` (`MCRollWindow.cfg`), `PushesFit`
(`MCFramePoolTurns.cfg`), and the liveness property `FramesDrain` (ScopeSession).

## 7. What could come next

1. Bus commands: the verbs that answer later (open, autoset, waits) over `ScopeSession`.
2. The trace view's dragging against a display that goes on being replaced.
3. `ScopeActions` with the open and close of a driver, and two channels.
4. Proofs: the trigger without the bound on what the device owes, which it needs only because
   it rests on the invariant of the record; and the pool at the level of instructions from
   the ring's refinement, where it is now proved from the instructions themselves.
