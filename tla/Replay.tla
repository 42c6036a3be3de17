--------------------------------- MODULE Replay ---------------------------------
(***************************************************************************)
(* Playing a capture back: JReplayDriver (src/src/sources), the transport  *)
(* bar that steers it (src/src/ui/JReplayBar.cpp), and the part of         *)
(* JScopeApp that opens the one and attaches the other.                    *)
(*                                                                         *)
(*   main   runs one handler at a time: the controls of the bar, and Run,  *)
(*          Stop and Single of the toolbar, the drain, what drivers        *)
(*          posted, device selection;                                      *)
(*   loop   _runLoop() of the open capture.                                *)
(* seek(), step() and single() emit a frame on main while the loop emits   *)
(* its own.  Both read through one reader into one m_scratch: reads that   *)
(* overlap leave a frame that is neither (Mixed).                          *)
(***************************************************************************)
EXTENDS Integers, Sequences, FiniteSets

CONSTANTS Count,       \* frameCount() of every capture
          MaxDrivers,  \* bound on the devices opened
          MaxPosts,    \* bound on the dispatcher's queue
          Travel,      \* the slider's value is a share of this: 0 .. Travel for 0 .. 1
          None, Mixed

ASSUME ReplayAssumption == /\ Count \in Nat \ {0} /\ MaxDrivers \in Nat /\ MaxPosts \in Nat
                           /\ Travel \in Nat \ {0} /\ Travel >= 2 * (Count - 1)
                           /\ None \notin Int /\ Mixed \notin Int /\ None # Mixed

Indices == 0 .. Count - 1

VARIABLES
  driver,     \* the session's driver, 0 when it has none; numbered as created
  replaying,  \* is it a JReplayDriver? (JScopeSession::replay())
  created,
  connect,    \* the device being opened: None, "replay" or "live"
  position,   \* m_position
  looping,    \* m_looping
  running,    \* m_running
  state,      \* JScopeDriver::m_state
  joinable,   \* m_thread.joinable()
  loop,       \* where the playback thread is
  at,         \* its `pos`
  reading,    \* who is inside readFrame() or has not published from m_scratch yet
  scratch,    \* the frame in m_scratch
  ready,      \* the newest frame in the ready ring, or None
  shown,      \* the frame on display
  posts,      \* the position callbacks in the dispatcher's queue
  bar,        \* the driver the bar is attached to; visible when # 0
  scrub,      \* the value of the bar's slider
  main,       \* where the main thread is
  wanted,     \* the frame it is emitting
  lastPlayed, \* history: the frame the loop published last
  moved,      \* history: a seek came since the loop read the position
  sought      \* history: the frame last asked for while no loop was running

deviceVars == <<driver, replaying, created, connect>>
loopVars   == <<running, joinable, loop, at>>
frameVars  == <<reading, scratch, ready, shown>>
barVars    == <<bar, scrub>>
pastVars   == <<lastPlayed, moved, sought>>
vars == <<deviceVars, position, looping, state, loopVars, frameVars, posts, barVars,
          main, wanted, pastVars>>

Init == /\ driver = 0 /\ replaying = FALSE /\ created = 0 /\ connect = None
        /\ position = 0 /\ looping = TRUE /\ running = FALSE /\ state = "Closed"
        /\ joinable = FALSE /\ loop = "none" /\ at = 0
        /\ reading = {} /\ scratch = None /\ ready = None /\ shown = None
        /\ posts = <<>> /\ bar = 0 /\ scrub = 0
        /\ main = "idle" /\ wanted = 0
        /\ lastPlayed = None /\ moved = FALSE /\ sought = None

LoopGone == loop \in {"none", "done"}
Clamp(i) == IF i < 0 THEN 0 ELSE IF i > Count - 1 THEN Count - 1 ELSE i

\* "The slider is normalised 0..1; the capture is a frame count": where the slider
\* is set for a frame, frame / (count - 1), which for a capture of one frame is no
\* number (None); and the frame the slider is dragged to, v * (count - 1) + 0.5.
SliderAt(i) == IF Count = 1 THEN None ELSE (i * Travel) \div (Count - 1)
FrameAt(v)  == (2 * (v * (Count - 1)) + Travel) \div (2 * Travel)

-----------------------------------------------------------------------------
\* _emitFrame(i): m_reader.readFrame(i, m_scratch) ...
BeginEmit(t, i) ==
  /\ Len(posts) + Cardinality(reading) < MaxPosts
  /\ reading' = reading \cup {t}
  /\ scratch' = IF reading = {} THEN i ELSE Mixed
  /\ UNCHANGED <<ready, shown>>

\* ... then the pool, the wake and the position callback, which names `this`.
EndEmit(t, i) ==
  /\ reading' = reading \ {t}
  /\ ready' = scratch
  /\ posts' = Append(posts, [driver |-> driver, index |-> i])
  /\ UNCHANGED <<scratch, shown>>

\* while (m_running) { pos = m_position; _emitFrame(pos);
LoopTop ==
  /\ loop = "top"
  /\ IF running
     THEN /\ loop' = "emit" /\ at' = position
          /\ BeginEmit("loop", position)
          /\ moved' = FALSE
     ELSE loop' = "done" /\ UNCHANGED <<at, frameVars, moved>>
  /\ UNCHANGED <<deviceVars, position, looping, state, running, joinable, posts, barVars,
                 main, wanted, lastPlayed, sought>>

LoopEmit ==
  /\ loop = "emit"
  /\ EndEmit("loop", at)
  /\ loop' = "advance"
  /\ lastPlayed' = at /\ sought' = None
  /\ UNCHANGED <<deviceVars, position, looping, state, running, joinable, at, barVars,
                 main, wanted, moved>>

\* Mutant of LoopAdvance: at the end it starts over, looping or not, at frame 1.
LoopAdvanceSkips ==
  /\ loop = "advance"
  /\ position' = IF at + 1 >= Count THEN Clamp(1) ELSE at + 1
  /\ loop' = "sleep" /\ sought' = None
  /\ UNCHANGED <<deviceVars, looping, state, running, joinable, at, frameVars, posts,
                 barVars, main, wanted, lastPlayed, moved>>

\* Mutant of LoopAdvance: the end of the capture is one frame further.
LoopAdvancePast ==
  /\ loop = "advance"
  /\ position' = IF at + 1 > Count THEN 0 ELSE at + 1
  /\ loop' = "sleep" /\ sought' = None
  /\ UNCHANGED <<deviceVars, looping, state, running, joinable, at, frameVars, posts,
                 barVars, main, wanted, lastPlayed, moved>>

\* The next position, from the one it emitted; at the end of a capture that
\* does not loop the thread retires.
LoopAdvance ==
  /\ loop = "advance"
  /\ IF at + 1 < Count
     THEN position' = at + 1 /\ loop' = "sleep" /\ UNCHANGED running
     ELSE IF looping
     THEN position' = 0 /\ loop' = "sleep" /\ UNCHANGED running
     ELSE running' = FALSE /\ loop' = "retire" /\ UNCHANGED position
  /\ sought' = None
  /\ UNCHANGED <<deviceVars, looping, state, joinable, at, frameVars, posts, barVars,
                 main, wanted, lastPlayed, moved>>

\* _setState(Stopped)
LoopRetire ==
  /\ loop = "retire"
  /\ loop' = "done" /\ state' = "Stopped"
  /\ UNCHANGED <<deviceVars, position, looping, running, joinable, at, frameVars, posts,
                 barVars, main, wanted, pastVars>>

LoopWakes ==
  /\ loop = "sleep"
  /\ loop' = "top"
  /\ UNCHANGED <<deviceVars, position, looping, state, running, joinable, at, frameVars,
                 posts, barVars, main, wanted, pastVars>>

Loop == LoopTop \/ LoopEmit \/ LoopAdvance \/ LoopRetire \/ LoopWakes

-----------------------------------------------------------------------------
\* The bar's controls call the driver it is attached to.  What follows when that
\* one has been destroyed is undefined, and not modelled (TransportOnlyForCapture).
\* The toolbar's call the session's driver, which is then the same.
BarCall == main = "idle" /\ bar # 0 /\ bar = driver

\* start(), to the join: a thread that retired by itself is still joinable.
\* Run calls it in any state, the bar's button unless it is Running.
Start ==
  /\ BarCall /\ ~running
  /\ main' = "starting"
  /\ UNCHANGED <<deviceVars, position, looping, state, loopVars, frameVars, posts, barVars,
                 wanted, pastVars>>

\* Mutant of Joined: the self-retired thread is not reaped.
NotJoined == TRUE

Joined == joinable => loop = "done"

\* The thread is spawned, and may run before start() goes on.
Spawn ==
  /\ main = "starting" /\ Joined
  /\ running' = TRUE /\ joinable' = TRUE /\ loop' = "top" /\ main' = "started"
  /\ lastPlayed' = None
  /\ UNCHANGED <<deviceVars, position, looping, state, at, frameVars, posts, barVars,
                 wanted, moved, sought>>

\* _setState(Running)
Announce ==
  /\ main = "started"
  /\ state' = "Running" /\ main' = "idle"
  /\ UNCHANGED <<deviceVars, position, looping, loopVars, frameVars, posts, barVars,
                 wanted, pastVars>>

\* Mutant of ClearRunning: stop() forgets the flag.
KeepRunning == UNCHANGED running

ClearRunning == running' = FALSE

\* stop(): the flag, then the join.  Stop calls it in any state, the bar's button
\* when it is Running.
Stop ==
  /\ BarCall
  /\ ClearRunning
  /\ main' = IF joinable THEN "stopping" ELSE "idle"
  /\ UNCHANGED <<deviceVars, position, looping, state, joinable, loop, at, frameVars, posts,
                 barVars, wanted, pastVars>>

EndStop ==
  /\ main = "stopping" /\ loop = "done"
  /\ joinable' = FALSE /\ loop' = "none" /\ state' = "Stopped" /\ main' = "idle"
  /\ UNCHANGED <<deviceVars, position, looping, running, at, frameVars, posts, barVars,
                 wanted, pastVars>>

\* Mutant of SeekTo: the position moves, nothing is shown.
SeekOnly(i) ==
  /\ position' = Clamp(i) /\ wanted' = Clamp(i) /\ main' = "idle"
  /\ moved' = TRUE /\ sought' = IF LoopGone THEN Clamp(i) ELSE None
  /\ UNCHANGED frameVars

\* seek(i): the position, then the frame.
SeekTo(i) ==
  /\ position' = Clamp(i) /\ wanted' = Clamp(i) /\ main' = "emit"
  /\ BeginEmit("main", Clamp(i))
  /\ moved' = TRUE /\ sought' = IF LoopGone THEN Clamp(i) ELSE None

\* The slider is dragged; the step buttons: seek(i), step(-1), step(1).
Scrub ==
  /\ BarCall
  /\ \E v \in 0 .. Travel : SeekTo(FrameAt(v)) /\ scrub' = v
  /\ UNCHANGED <<deviceVars, looping, state, loopVars, posts, bar, lastPlayed>>

Step ==
  /\ BarCall
  /\ \E delta \in {-1, 1} : SeekTo(position + delta)
  /\ UNCHANGED <<deviceVars, looping, state, loopVars, posts, barVars, lastPlayed>>

\* single(): the frame at the position, "without starting the loop"; and, whether or
\* not one runs, _setState(Stopped).
Single ==
  /\ BarCall
  /\ wanted' = position /\ main' = "single"
  /\ BeginEmit("main", position)
  /\ sought' = IF LoopGone THEN position ELSE None
  /\ UNCHANGED <<deviceVars, position, looping, state, loopVars, posts, barVars, lastPlayed,
                 moved>>

EndSingle ==
  /\ main = "single"
  /\ EndEmit("main", wanted)
  /\ state' = "Stopped" /\ main' = "idle"
  /\ UNCHANGED <<deviceVars, position, looping, loopVars, barVars, wanted, pastVars>>

EmitSought ==
  /\ main = "emit"
  /\ EndEmit("main", wanted)
  /\ main' = "idle"
  /\ UNCHANGED <<deviceVars, position, looping, state, loopVars, barVars, wanted, pastVars>>

SetLooping ==
  /\ BarCall
  /\ looping' = ~looping
  /\ UNCHANGED <<deviceVars, position, state, loopVars, frameVars, posts, barVars, main,
                 wanted, pastVars>>

\* JScopeSession::drain() shows the newest frame.
Drain ==
  /\ main = "idle" /\ driver # 0 /\ ready # None
  /\ shown' = ready /\ ready' = None
  /\ UNCHANGED <<deviceVars, position, looping, state, loopVars, reading, scratch, posts,
                 barVars, main, wanted, pastVars>>

\* The dispatcher runs a position callback: onPositionChanged.emit(index), which
\* JScopeApp has connected to the bar.
RunPost ==
  /\ main = "idle" /\ posts # <<>>
  /\ posts' = Tail(posts)
  /\ scrub' = IF posts[1].driver = driver /\ bar # 0 THEN SliderAt(posts[1].index) ELSE scrub
  /\ UNCHANGED <<deviceVars, position, looping, state, loopVars, frameVars, bar, main,
                 wanted, pastVars>>

-----------------------------------------------------------------------------
\* openDevice(), openCapture(): the session closes what is open first.  close()
\* of a capture is stop() and the end of the reader and the driver.
OpenDevice(kind) ==
  /\ main = "idle" /\ connect = None /\ created < MaxDrivers
  /\ connect' = kind
  /\ running' = FALSE /\ main' = "closing"
  /\ UNCHANGED <<driver, replaying, created, position, looping, state, joinable, loop, at,
                 frameVars, posts, barVars, wanted, pastVars>>

\* The old driver is destroyed; the worker sets about the new one.
CloseOld ==
  /\ main = "closing" /\ Joined
  /\ driver' = 0 /\ replaying' = FALSE /\ created' = created + 1
  /\ joinable' = FALSE /\ loop' = "none" /\ state' = "Closed"
  /\ ready' = None /\ shown' = None /\ sought' = None
  /\ main' = "idle"
  /\ UNCHANGED <<connect, position, looping, running, at, reading, scratch, posts, barVars,
                 wanted, lastPlayed, moved>>

\* The connect failed: a notice, and the bar is left as it was.
ConnectFails ==
  /\ main = "idle" /\ connect # None /\ driver = 0
  /\ connect' = None
  /\ UNCHANGED <<driver, replaying, created, position, looping, state, loopVars, frameVars,
                 posts, barVars, main, wanted, pastVars>>

\* _adoptOpenSession(): the bar follows the device, and a capture is started.
Adopt ==
  /\ main = "idle" /\ connect # None /\ driver = 0
  /\ driver' = created /\ replaying' = (connect = "replay") /\ connect' = None
  /\ bar' = IF replaying' THEN driver' ELSE 0
  /\ scrub' = 0 /\ position' = 0 /\ looping' = TRUE
  /\ state' = "Idle" /\ scratch' = None
  /\ main' = IF replaying' THEN "starting" ELSE "idle"
  /\ moved' = FALSE
  /\ UNCHANGED <<created, loopVars, reading, ready, shown, posts, wanted, lastPlayed, sought>>

Controls == Start \/ Stop \/ Scrub \/ Step \/ Single \/ SetLooping
Devices  == \/ \E kind \in {"replay", "live"} : OpenDevice(kind)
            \/ ConnectFails \/ Adopt
Within   == Spawn \/ Announce \/ EndStop \/ EmitSought \/ EndSingle \/ CloseOld
Deliver  == Drain \/ RunPost

Next == Loop \/ Controls \/ Devices \/ Within \/ Deliver

\* A thread goes on with what it has begun, and the dispatcher runs its queue.
Fairness == WF_vars(Loop) /\ WF_vars(Within) /\ WF_vars(Deliver)
Spec == Init /\ [][Next]_vars /\ Fairness

-----------------------------------------------------------------------------
Frames == Indices \cup {None, Mixed}

\* Every frame that is asked of the reader exists: the position stays inside the
\* capture whatever seeks and the loop store over each other.
PositionInRange ==
  /\ position \in Indices /\ at \in Indices /\ wanted \in Indices
  /\ scrub \in 0 .. Travel \/ (Count = 1 /\ scrub = None)
  /\ scratch \in Frames /\ ready \in Frames /\ shown \in Frames
  /\ driver \in 0 .. MaxDrivers /\ bar \in 0 .. MaxDrivers
  /\ reading \in SUBSET {"main", "loop"}

\* No std::thread is assigned over, or destroyed, while it can be joined: the
\* loop retires by itself and leaves it joinable.
OneLoopThread ==
  [][(loop = "none" \/ loop = "done" \/ loop' = loop \/ loop' # "top" \/ loop = "sleep")
     /\ (joinable /\ ~joinable' => loop = "done")]_vars

\* Playback left alone emits every frame in turn, starting over at the end: only
\* a seek makes the loop take anything but the successor of what it emitted last.
PlaysEveryFrame ==
  [][LoopTop /\ running /\ lastPlayed # None /\ ~moved =>
       at' = (lastPlayed + 1) % Count]_vars

\* A seek or a single shot while nothing plays is what the window shows, on the
\* display and on the bar, once the main thread has run what was posted to it: the
\* slider is where this frame has its place, and stands for no other frame.
SeekIsShown ==
  (sought # None /\ main = "idle" /\ ready = None /\ posts = <<>> /\ bar = driver /\ bar # 0) =>
    /\ shown = sought /\ position = sought /\ scrub = SliderAt(sought)
    /\ Count > 1 => FrameAt(scrub) = sought

\* stop() and close() come back: the loop they join sees the flag and ends.
StopReturns == main \in {"stopping", "closing", "starting"} ~> main = "idle"

\* "EVERY main-thread post from a driver goes through here": a callback that a
\* driver posted runs only while that driver exists.
PostsAreGuarded == [][RunPost => posts[1].driver = driver]_vars

\* "The transport exists only for a capture; on a live instrument it would be a
\* control with nothing to control": the bar is shown for the capture that is
\* open, and is attached to nothing else.
TransportOnlyForCapture == (main = "idle" /\ bar # 0) => replaying /\ bar = driver

\* "Single shot: capture one frame and stop" (src/src/app/JScopeShortcuts.cpp:18): a
\* replay that says Stopped plays no longer.  It does, when single() was called while
\* it played.
StoppedIsStill == (main = "idle" /\ state = "Stopped") => ~running

\* "producer-side helpers: ACQUISITION THREAD ONLY": one thread at a time emits.
OneProducer == Cardinality(reading) <= 1
==============================================================================
