----------------------------- MODULE HantekDriver -----------------------------
(***************************************************************************)
(* JHantek1008Driver and its pattern generator: three threads that share   *)
(* one USB pipe (src/apps/scope1008/drivers).                              *)
(*                                                                         *)
(*   ui     the thread that calls the driver, one call at a time;          *)
(*   acq    the acquisition thread, _runLoop();                            *)
(*   alive  the keep-alive thread, which pings while nothing is acquired.  *)
(*                                                                         *)
(* m_busMutex is to keep them apart on the pipe; m_cfgMutex guards the     *)
(* settings and is also the mutex the generator borrows.  A call on the    *)
(* device takes two steps, so that two of them can be seen to overlap; a   *)
(* critical section that does not reach the device is one step.            *)
(*                                                                         *)
(* `ui` is the stack of steps the current call still has to take.          *)
(***************************************************************************)
EXTENDS Naturals, Sequences

CONSTANTS Calls,        \* the calls made in this instance, a subset of AllCalls
          Modes,        \* acquisition modes requested, of {"Windowed", "Streaming"}
          MaxVersions   \* bound on the settings: versions 1 .. MaxVersions

AllCalls == {"open", "close", "start", "single", "stop", "apply", "generator",
             "download", "autoset"}

ASSUME DriverAssumption == /\ Calls \subseteq AllCalls
                           /\ Modes \subseteq {"Windowed", "Streaming"}
                           /\ MaxVersions \in Nat \ {0}

VARIABLES
  opened,       \* m_open
  running,      \* m_running
  mode,         \* m_mode
  singleShot,   \* m_singleShot
  sequence,     \* m_sequence, counted up to 1
  thread,       \* m_thread: "none" (not joinable), "live" or "done"
  state,        \* m_state
  cfg,          \* the settings, by version
  sweep,        \* m_trigger.mode
  cfgDirty,     \* m_configDirty
  devCfg,       \* the version the device has, or Mixed
  rolling,      \* is the device in roll mode?
  genDirty,     \* m_generatorDirty
  aliveOn,      \* m_keepAliveRunning
  busLock, cfgLock,
  ui, acq, alive,
  modeStarted,  \* _runLoop's local
  frame,        \* what is being captured: the device's version, the sweep mode copied
  oneShot       \* history: the sweep under way was started by single()

core     == <<opened, running, thread, state>>
settings == <<cfg, sweep, cfgDirty>>
device   == <<devCfg, rolling>>
shot     == <<mode, singleShot, sequence, oneShot>>
locks    == <<busLock, cfgLock>>
loop     == <<acq, modeStarted, frame>>
pinging  == <<alive, aliveOn>>
vars     == <<core, settings, device, genDirty, shot, locks, loop, pinging, ui>>

Free     == "free"
Mixed    == 0
NoFrame  == [captured |-> Mixed, sweep |-> "Auto"]
Versions == 1 .. MaxVersions
Sweeps   == {"Auto", "Normal", "Single"}

\* The steps in which a thread is in the middle of a call on the device.
OnBus == {"bringUp", "flushing", "applying", "measure", "startRoll", "capture", "ping"}

Init == /\ opened = FALSE /\ running = FALSE /\ mode = "Streaming"
        /\ singleShot = FALSE /\ sequence = 0 /\ oneShot = FALSE
        /\ thread = "none" /\ state = "Closed"
        /\ cfg = 1 /\ sweep = "Auto" /\ cfgDirty = TRUE
        /\ devCfg = Mixed /\ rolling = FALSE
        /\ genDirty = FALSE
        /\ aliveOn = FALSE /\ alive = "off"
        /\ busLock = Free /\ cfgLock = Free
        /\ ui = <<>> /\ acq = "off" /\ modeStarted = FALSE
        /\ frame = NoFrame

-----------------------------------------------------------------------------
\* Mutant of StartPlan: a loop that retired itself is not joined.
StartUnjoined == IF running THEN <<>> ELSE <<"spawn", "announce">>

\* Mutant of AutosetPlan: the loop is not stopped first.
AutosetBarges == <<"measure">>

\* What a call on the driver does, step by step.
StartPlan    == IF running THEN <<>> ELSE <<"join", "spawn", "announce">>
SinglePlan   == StartPlan \o <<"askSingle">>
ClosePlan    == <<"clear", "quieten", "joinAlive", "detach">>
FlushPlan    == <<"flush", "flushing">>
AutosetPlan  == IF running THEN <<"clear", "measure", "restart">> ELSE <<"measure">>
OpenPlan     == <<"bringUp">> \o FlushPlan \o <<"ready">>

Plan == [open |-> OpenPlan, close |-> ClosePlan, start |-> StartPlan, single |-> SinglePlan,
         stop |-> <<"clear">>, apply |-> <<"store">>, generator |-> <<"changed">>,
         download |-> FlushPlan, autoset |-> AutosetPlan]

\* Calls that return at once, and calls past the bounds, are not begun.
Allowed == [open |-> ~opened, close |-> opened, start |-> opened /\ ~running,
            single |-> opened, stop |-> TRUE, apply |-> cfg < MaxVersions,
            generator |-> opened, download |-> opened, autoset |-> opened /\ cfg < MaxVersions]

BeginCall == /\ ui = <<>>
             /\ \E call \in Calls : Allowed[call] /\ ui' = Plan[call]
             /\ UNCHANGED <<core, settings, device, genDirty, shot, locks, loop, pinging>>

\* The caller is at `step`; it goes on with `steps`, or the call returns false.
At(step)    == ui # <<>> /\ Head(ui) = step
Then(steps) == ui' = steps \o Tail(ui)
Fails       == ui' = <<>>

\* open(): bring-up and _applyConfigToDevice(); then the keep-alive starts.
BringUp ==
  /\ At("bringUp") /\ cfgLock = Free
  /\ \/ /\ opened' = TRUE /\ aliveOn' = TRUE /\ alive' = "look"
        /\ devCfg' = cfg /\ cfgDirty' = FALSE /\ Then(<<>>)
     \/ devCfg' = Mixed /\ Fails /\ UNCHANGED <<opened, alive, aliveOn, cfgDirty>>
  /\ rolling' = FALSE
  /\ UNCHANGED <<running, thread, state, cfg, sweep, genDirty, shot, locks, loop>>

Ready ==
  /\ At("ready")
  /\ state' = "Idle" /\ Then(<<>>)
  /\ UNCHANGED <<opened, running, thread, settings, device, genDirty, shot, locks, loop, pinging>>

\* The generator's flush(): it holds the mutex it borrows for the whole transfer.
Flush ==
  /\ At("flush") /\ cfgLock = Free
  /\ cfgLock' = "ui" /\ Then(<<>>)
  /\ UNCHANGED <<core, settings, device, genDirty, shot, busLock, loop, pinging>>

Flushed ==
  /\ At("flushing")
  /\ cfgLock' = Free /\ Then(<<>>)
  /\ UNCHANGED <<core, settings, device, genDirty, shot, busLock, loop, pinging>>

\* A setter of the generator has recorded its value: _generatorChanged() decides
\* who sends it.
GeneratorChanged ==
  /\ At("changed")
  /\ IF opened /\ running THEN genDirty' = TRUE ELSE UNCHANGED genDirty
  /\ Then(IF opened /\ ~running THEN <<"lockBus">> \o FlushPlan \o <<"unlockBus">> ELSE <<>>)
  /\ UNCHANGED <<core, settings, device, shot, locks, loop, pinging>>

LockBus ==
  /\ At("lockBus") /\ busLock = Free
  /\ busLock' = "ui" /\ Then(<<>>)
  /\ UNCHANGED <<core, settings, device, genDirty, shot, cfgLock, loop, pinging>>

UnlockBus ==
  /\ At("unlockBus")
  /\ busLock' = Free /\ Then(<<>>)
  /\ UNCHANGED <<core, settings, device, genDirty, shot, cfgLock, loop, pinging>>

\* Mutant of Store: m_configDirty is forgotten.
StoreQuietly ==
  /\ At("store") /\ cfgLock = Free
  /\ cfg' = cfg + 1
  /\ sweep' \in Sweeps
  /\ Then(<<>>)
  /\ UNCHANGED <<core, cfgDirty, device, genDirty, shot, locks, loop, pinging>>

\* applyChannel(), applyTimebase(), applyTrigger().
Store ==
  /\ At("store") /\ cfgLock = Free
  /\ cfg' = cfg + 1 /\ cfgDirty' = TRUE
  /\ sweep' \in Sweeps
  /\ Then(<<>>)
  /\ UNCHANGED <<core, device, genDirty, shot, locks, loop, pinging>>

-----------------------------------------------------------------------------
\* start(): reap a loop that retired itself, ...
Join ==
  /\ At("join") /\ thread # "live"
  /\ thread' = "none" /\ Then(<<>>)
  /\ UNCHANGED <<opened, running, state, settings, device, genDirty, shot, locks, loop, pinging>>

\* ... start the next, ...
Spawn ==
  /\ At("spawn")
  /\ mode' \in Modes
  /\ singleShot' = FALSE /\ sequence' = 0
  /\ oneShot' = (Len(ui) = 3 /\ ui[3] = "askSingle")
  /\ running' = TRUE /\ thread' = "live" /\ acq' = "loop" /\ modeStarted' = FALSE
  /\ Then(<<>>)
  /\ UNCHANGED <<opened, state, settings, device, genDirty, locks, frame, pinging>>

\* ... and say so.
Announce ==
  /\ At("announce")
  /\ state' = (IF mode = "Streaming" THEN "Running" ELSE "Armed") /\ Then(<<>>)
  /\ UNCHANGED <<opened, running, thread, settings, device, genDirty, shot, locks, loop, pinging>>

AskSingle ==
  /\ At("askSingle")
  /\ singleShot' = TRUE /\ Then(<<>>)
  /\ UNCHANGED <<core, settings, device, genDirty, mode, sequence, oneShot, locks, loop, pinging>>

\* Mutant of Clear: m_running is left for the loop to clear.
ClearNot ==
  /\ At("clear")
  /\ Then(IF thread = "none" THEN <<>> ELSE <<"joinLoop">>)
  /\ UNCHANGED <<core, settings, device, genDirty, shot, locks, loop, pinging>>

\* stop(): tell the loop to end, and wait for it when there is one.
Clear ==
  /\ At("clear")
  /\ running' = FALSE
  /\ Then(IF thread = "none" THEN <<>> ELSE <<"joinLoop">>)
  /\ UNCHANGED <<opened, thread, state, settings, device, genDirty, shot, locks, loop, pinging>>

JoinLoop ==
  /\ At("joinLoop") /\ thread = "done"
  /\ thread' = "none"
  /\ state' = (IF opened THEN "Stopped" ELSE "Closed") /\ Then(<<>>)
  /\ UNCHANGED <<opened, running, settings, device, genDirty, shot, locks, loop, pinging>>

\* Mutant of Quieten: the keep-alive is joined without being told to end.
QuietenNot ==
  /\ At("quieten")
  /\ Then(<<>>)
  /\ UNCHANGED <<core, settings, device, genDirty, shot, locks, loop, pinging>>

\* close(), after stop(): the keep-alive ends before the protocol does.
Quieten ==
  /\ At("quieten")
  /\ aliveOn' = FALSE /\ Then(<<>>)
  /\ UNCHANGED <<core, settings, device, genDirty, shot, locks, loop, alive>>

JoinAlive ==
  /\ At("joinAlive") /\ alive = "off"
  /\ Then(<<>>)
  /\ UNCHANGED <<core, settings, device, genDirty, shot, locks, loop, pinging>>

Detach ==
  /\ At("detach")
  /\ opened' = FALSE /\ state' = "Closed" /\ Then(<<>>)
  /\ UNCHANGED <<running, thread, settings, device, genDirty, shot, locks, loop, pinging>>

\* autoset(): one capture on the widest range.  Without a record to measure it
\* restarts what ran; when the transport fails it does not.
Measure ==
  /\ At("measure")
  /\ devCfg' = Mixed /\ rolling' = FALSE
  /\ Fails \/ Then(<<>>) \/ Then(<<"rescale", "apply", "applying">>)
  /\ UNCHANGED <<core, settings, genDirty, shot, locks, loop, pinging>>

Rescale ==
  /\ At("rescale") /\ cfgLock = Free
  /\ cfg' = cfg + 1 /\ cfgDirty' = TRUE /\ Then(<<>>)
  /\ UNCHANGED <<core, sweep, device, genDirty, shot, locks, loop, pinging>>

Apply ==
  /\ At("apply") /\ cfgLock = Free
  /\ cfgLock' = "ui" /\ Then(<<>>)
  /\ UNCHANGED <<core, settings, device, genDirty, shot, busLock, loop, pinging>>

Applied ==
  /\ At("applying")
  /\ \/ devCfg' = cfg /\ cfgDirty' = FALSE /\ Then(<<>>)
     \/ devCfg' = Mixed /\ Fails /\ UNCHANGED cfgDirty
  /\ rolling' = FALSE /\ cfgLock' = Free
  /\ UNCHANGED <<core, cfg, sweep, genDirty, shot, busLock, loop, pinging>>

Restart ==
  /\ At("restart")
  /\ Then(StartPlan)
  /\ UNCHANGED <<core, settings, device, genDirty, shot, locks, loop, pinging>>

-----------------------------------------------------------------------------
\* The acquisition thread goes on with `step`; Breaks leaves the loop, and with
\* it the scope of the bus lock.
Goes(step) == acq' = step
Breaks     == acq' = "retire" /\ busLock' = Free

\* while (m_running), and the bus for the whole iteration.
LoopTop ==
  /\ acq = "loop"
  /\ Goes(IF running THEN "takeBus" ELSE "retire")
  /\ UNCHANGED <<core, settings, device, genDirty, shot, locks, modeStarted, frame, pinging, ui>>

TakeBus ==
  /\ acq = "takeBus" /\ busLock = Free
  /\ busLock' = "acq"
  /\ genDirty' = FALSE
  /\ Goes(IF genDirty THEN "flush" ELSE "look")
  /\ UNCHANGED <<core, settings, device, shot, cfgLock, modeStarted, frame, pinging, ui>>

LoopFlush ==
  /\ acq = "flush" /\ cfgLock = Free
  /\ cfgLock' = "acq" /\ Goes("flushing")
  /\ UNCHANGED <<core, settings, device, genDirty, shot, busLock, modeStarted, frame, pinging, ui>>

LoopFlushed ==
  /\ acq = "flushing"
  /\ cfgLock' = Free /\ Goes("look")
  /\ UNCHANGED <<core, settings, device, genDirty, shot, busLock, modeStarted, frame, pinging, ui>>

\* Mutant of LoopLook: the settings are applied at start-up only.
LoopNoLook ==
  /\ acq = "look"
  /\ Goes("roll")
  /\ UNCHANGED <<core, settings, device, genDirty, shot, locks, modeStarted, frame, pinging, ui>>

\* Has the configuration changed?
LoopLook ==
  /\ acq = "look" /\ cfgLock = Free
  /\ Goes(IF cfgDirty THEN "apply" ELSE "roll")
  /\ UNCHANGED <<core, settings, device, genDirty, shot, locks, modeStarted, frame, pinging, ui>>

LoopApply ==
  /\ acq = "apply" /\ cfgLock = Free
  /\ cfgLock' = "acq" /\ Goes("applying")
  /\ UNCHANGED <<core, settings, device, genDirty, shot, busLock, modeStarted, frame, pinging, ui>>

\* Mutant of LoopApplied: roll mode is taken to survive a reconfiguration.
LoopAppliedOnce ==
  /\ acq = "applying"
  /\ \/ /\ devCfg' = cfg /\ cfgDirty' = FALSE
        /\ Goes("roll") /\ UNCHANGED busLock
     \/ devCfg' = Mixed /\ Breaks /\ UNCHANGED cfgDirty
  /\ rolling' = FALSE /\ cfgLock' = Free
  /\ UNCHANGED <<core, cfg, sweep, genDirty, shot, modeStarted, frame, pinging, ui>>

LoopApplied ==
  /\ acq = "applying"
  /\ \/ /\ devCfg' = cfg /\ cfgDirty' = FALSE /\ modeStarted' = FALSE
        /\ Goes("roll") /\ UNCHANGED busLock
     \/ devCfg' = Mixed /\ Breaks /\ UNCHANGED <<cfgDirty, modeStarted>>
  /\ rolling' = FALSE /\ cfgLock' = Free
  /\ UNCHANGED <<core, cfg, sweep, genDirty, shot, frame, pinging, ui>>

\* Roll mode is started again after every reconfiguration.
LoopRoll ==
  /\ acq = "roll" /\ cfgLock = Free
  /\ IF mode = "Streaming" /\ ~modeStarted
       THEN Goes("startRoll") /\ UNCHANGED modeStarted
       ELSE Goes("snapshot") /\ modeStarted' = TRUE
  /\ UNCHANGED <<core, settings, device, genDirty, shot, locks, frame, pinging, ui>>

RollStarted ==
  /\ acq = "startRoll"
  /\ \/ /\ rolling' = TRUE /\ modeStarted' = TRUE /\ Goes("snapshot") /\ UNCHANGED busLock
     \/ Breaks /\ UNCHANGED <<rolling, modeStarted>>
  /\ UNCHANGED <<core, settings, devCfg, genDirty, shot, cfgLock, frame, pinging, ui>>

\* _acquireBurst(), _acquireRoll(): copy the settings, then talk to the device.
Snapshot ==
  /\ acq = "snapshot" /\ cfgLock = Free
  /\ frame' = [captured |-> devCfg, sweep |-> sweep]
  /\ Goes("capture")
  /\ UNCHANGED <<core, settings, device, genDirty, shot, locks, modeStarted, pinging, ui>>

\* The transport failed, ...
CaptureFailed ==
  /\ acq = "capture"
  /\ state' = "Error" /\ Breaks /\ frame' = NoFrame
  /\ UNCHANGED <<opened, running, thread, settings, device, genDirty, shot, cfgLock,
                 modeStarted, pinging, ui>>

\* ... no trigger came in Normal or Single, or the pool or the device had nothing, ...
CaptureNothing ==
  /\ acq = "capture"
  /\ state' \in {state} \cup (IF mode = "Windowed" /\ frame.sweep # "Auto"
                                THEN {"Armed"} ELSE {})
  /\ Goes("check")
  /\ UNCHANGED <<opened, running, thread, settings, device, genDirty, shot, locks,
                 modeStarted, frame, pinging, ui>>

\* ... or a record came back.
CaptureRecord ==
  /\ acq = "capture"
  /\ Goes("header")
  /\ UNCHANGED <<core, settings, device, genDirty, shot, locks, modeStarted, frame, pinging, ui>>

\* Mutant of PublishFrame: the count runs on past its bound.
PublishUncapped ==
  /\ acq = "header" /\ cfgLock = Free
  /\ sequence' = sequence + 1
  /\ Goes("check")
  /\ UNCHANGED <<core, settings, device, genDirty, mode, singleShot,
                 oneShot, locks, modeStarted, frame, pinging, ui>>

\* _fillFrameHeader(), _publish() and the state it leaves.
PublishFrame ==
  /\ acq = "header" /\ cfgLock = Free
  /\ sequence' = 1
  /\ state' \in (IF mode = "Streaming" THEN {state}
                 ELSE {"Triggered"} \cup (IF frame.sweep = "Auto" THEN {"Running"} ELSE {}))
  /\ Goes("check")
  /\ UNCHANGED <<opened, running, thread, settings, device, genDirty, mode, singleShot,
                 oneShot, locks, modeStarted, frame, pinging, ui>>

\* One frame and stop?
LoopCheck ==
  /\ acq = "check" /\ cfgLock = Free
  /\ Goes(IF (singleShot \/ sweep = "Single") /\ sequence > 0 THEN "retire" ELSE "loop")
  /\ busLock' = Free /\ frame' = NoFrame
  /\ UNCHANGED <<core, settings, device, genDirty, shot, cfgLock, modeStarted, pinging, ui>>

\* The loop retires ...
Retire ==
  /\ acq = "retire"
  /\ running' = FALSE /\ Goes("last")
  /\ UNCHANGED <<opened, thread, state, settings, device, genDirty, shot, locks,
                 modeStarted, frame, pinging, ui>>

\* ... and says so, unless it was an error.
Last ==
  /\ acq = "last"
  /\ state' = (IF opened /\ state # "Error" THEN "Stopped" ELSE state)
  /\ thread' = "done" /\ modeStarted' = FALSE /\ Goes("off")
  /\ UNCHANGED <<opened, running, settings, device, genDirty, shot, locks, frame, pinging, ui>>

-----------------------------------------------------------------------------
\* _keepAliveLoop(): ping while nothing is acquired, re-checked under the lock.
AliveLook ==
  /\ alive = "look"
  /\ ~aliveOn \/ ~running
  /\ alive' = (IF aliveOn THEN "takeBus" ELSE "off")
  /\ UNCHANGED <<core, settings, device, genDirty, shot, locks, loop, aliveOn, ui>>

AliveTakeBus ==
  /\ alive = "takeBus" /\ busLock = Free
  /\ IF running THEN alive' = "look" /\ UNCHANGED busLock
                ELSE alive' = "ping" /\ busLock' = "alive"
  /\ UNCHANGED <<core, settings, device, genDirty, shot, cfgLock, loop, aliveOn, ui>>

Pinged ==
  /\ alive = "ping"
  /\ alive' = "look" /\ busLock' = Free
  /\ UNCHANGED <<core, settings, device, genDirty, shot, cfgLock, loop, aliveOn, ui>>

-----------------------------------------------------------------------------
Opening   == BringUp \/ Ready
Sending   == Flush \/ Flushed \/ GeneratorChanged \/ LockBus \/ UnlockBus \/ Store
Starting  == Join \/ Spawn \/ Announce \/ AskSingle
Stopping  == Clear \/ JoinLoop \/ Quieten \/ JoinAlive \/ Detach
Autoset   == Measure \/ Rescale \/ Apply \/ Applied \/ Restart
UiStep    == Opening \/ Sending \/ Starting \/ Stopping \/ Autoset
Capture   == Snapshot \/ CaptureFailed \/ CaptureNothing \/ CaptureRecord \/ PublishFrame
LoopStep  == LoopTop \/ TakeBus \/ LoopFlush \/ LoopFlushed \/ LoopLook \/ LoopApply
             \/ LoopApplied \/ LoopRoll \/ RollStarted \/ Capture \/ LoopCheck \/ Retire \/ Last
AliveStep == AliveLook \/ AliveTakeBus \/ Pinged

Next == BeginCall \/ UiStep \/ LoopStep \/ AliveStep

\* A thread that can run does, and every wait on the device has a timeout.  The
\* keep-alive sleeps ten milliseconds after each turn, and the user lets time pass
\* between two downloads, so a thread that waits for a mutex which is let go again
\* and again gets it in the end: that is the strong fairness.
Fairness == /\ WF_vars(UiStep) /\ SF_vars(LockBus)
            /\ SF_vars(LoopStep)
            /\ WF_vars(AliveStep)

Spec == Init /\ [][Next]_vars /\ Fairness

-----------------------------------------------------------------------------
\* The type invariant.
Steps == {"bringUp", "ready", "flush", "flushing", "changed", "lockBus",
          "unlockBus", "store", "join", "spawn", "announce", "askSingle", "clear", "joinLoop",
          "quieten", "joinAlive", "detach", "measure", "rescale", "apply", "applying", "restart"}
TypeOK ==
  /\ {opened, running, singleShot, oneShot, cfgDirty, rolling, genDirty, aliveOn,
      modeStarted} \subseteq BOOLEAN
  /\ mode \in {"Windowed", "Streaming"} /\ sequence \in 0 .. 1
  /\ thread \in {"none", "live", "done"}
  /\ state \in {"Closed", "Idle", "Armed", "Running", "Triggered", "Stopped", "Error"}
  /\ cfg \in Versions /\ sweep \in Sweeps /\ devCfg \in Versions \cup {Mixed}
  /\ busLock \in {Free, "ui", "acq", "alive"} /\ cfgLock \in {Free, "ui", "acq"}
  /\ ui \in Seq(Steps)
  /\ acq \in {"off", "loop", "takeBus", "flush", "flushing", "look", "apply", "applying", "roll",
              "startRoll", "snapshot", "capture", "header", "check", "retire", "last"}
  /\ alive \in {"off", "look", "takeBus", "ping"}
  /\ frame \in [captured : Versions \cup {Mixed}, sweep : Sweeps]

\* The caller's current step, for the properties.
Calling == IF ui = <<>> THEN "idle" ELSE Head(ui)

\* A capture is a sequence - arm, poll, read both halves - and nothing is sent
\* to the device by another thread while the loop is inside one; save for the pattern
\* of a direct download(), which nothing keeps from the pipe (FlushWhileStopped).
LoopUndisturbed ==
  acq \in OnBus => alive \notin OnBus /\ (Calling \in OnBus => ui = <<"flushing">>)

\* "ASSIGNING OVER A JOINABLE THREAD CALLS std::terminate": whichever way a loop
\* ended, it is joined before the next one takes its place.
JoinedFirst == Calling = "spawn" => thread = "none"

\* The device runs with what the settings say unless a change is marked to go
\* out, or a reconfiguration failed half way: an autoset that fails leaves the
\* widest range on the device (Mixed) and nothing marked.
DeviceInSync == opened /\ ~cfgDirty => devCfg \in {cfg, Mixed}

\* "The device then stalls on the next roll command": a roll is never polled on a
\* device that has been reconfigured since roll mode was started.
RollStarts == acq = "capture" /\ mode = "Streaming" => rolling

\* A change made while an acquisition runs reaches the device, or the
\* acquisition ends.
ChangesReachDevice == (running /\ cfgDirty) ~> (~cfgDirty \/ ~running)

\* Every call returns: no join, no mutex and no wait is circular.
CallsReturn == (ui # <<>>) ~> (ui = <<>>)

-----------------------------------------------------------------------------
\* What the comments of the code promise and the code does not keep.
\* MCHantekBus.cfg shows the first; README says how to see the others.

\* "ONE OWNER OF THE BUS AT A TIME" (JHantek1008Driver.h).
OneBusOwner == ~(Calling \in OnBus /\ alive \in OnBus)

\* "The acquisition thread between captures, or any thread while acquisition is
\* stopped" (the generator's flush(), JHantek1008PatternGenerator.h).
FlushWhileStopped == Calling = "flushing" => acq \notin OnBus

\* "After a single the instrument still read as Armed: waiting for a trigger it
\* was no longer waiting for" (_runLoop): a loop that is gone is not announced.
StateIsTrue == ui = <<>> /\ acq = "off" => state \notin {"Armed", "Running", "Triggered"}

\* "ONE FRAME AND STOP" (_runLoop).
OneFrameAndStop == [][oneShot /\ acq = "header" /\ acq' = "check" => sequence = 0]_vars

\* "Waiting would mean a control that does nothing until the user presses Run"
\* (_generatorChanged): no change to the generator is left unsent on an idle device.
GeneratorSent == opened /\ ui = <<>> /\ acq = "off" => ~genDirty

\* "What makes a capture still interpretable after the knobs have moved on"
\* (JScopeFrameHeader.h): a frame is labelled with the settings it was captured with.
LabelledAsCaptured == [][acq = "header" /\ acq' = "check" => cfg = frame.captured]_vars

\* "No mutex is held across a transfer" (_runLoop).
NoLockAcrossTransfer == cfgLock = "acq" => acq \notin OnBus
==============================================================================
