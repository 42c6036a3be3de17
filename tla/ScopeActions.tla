------------------------------ MODULE ScopeActions ------------------------------
(***************************************************************************)
(* The verbs of the window and of the bus (src/src/app/JScopeActions.cpp)  *)
(* over the synthetic instrument (src/src/sources/JSyntheticDriver.cpp).   *)
(*                                                                         *)
(*   main    one handler at a time; `script` is what is left of it;        *)
(*   loop    the driver's acquisition thread, _runLoop();                  *)
(*   worker  the session's, which runs autoset.                            *)
(* A step under m_cfgMutex is one step.                                    *)
(*                                                                         *)
(* One channel stands for all: the trigger's source.  Its signal is given  *)
(* at the Points of a period where the search looks, Step time units       *)
(* apart; times are kept modulo the period, for nothing else of them       *)
(* decides.                                                                *)
(***************************************************************************)
EXTENDS Integers, Sequences, FiniteSetsExt

CONSTANTS Points, Step,  \* the search's steps in a period, and their length
          Signals,       \* the signals, each a function on 0 .. Points - 1
          Window,        \* how long a sweep lasts
          Slopes, Levels, TriggerModes,
          Fitted,        \* the level autoset chooses
          MaxChanges     \* bound on the settings that are changed

ASSUME ActionsAssumption ==
  /\ {Points, Step} \subseteq Nat \ {0} /\ {Window, MaxChanges} \subseteq Nat
  /\ Signals \subseteq [0 .. Points - 1 -> Int]
  /\ Levels \subseteq Int /\ Fitted \in Int
  /\ "Rising" \in Slopes /\ Slopes \subseteq {"Rising", "Falling", "Either"}
  /\ "Auto" \in TriggerModes

Period == Points * Step

\* A sine, a square, a triangle and a ramp rise through a level once in a period and
\* fall through it once (_signalVolts).
ASSUME ShapesAssumption ==
  \A s \in Signals, v \in Levels \cup {Fitted} :
    LET Before(i) == s[(i - 1) % Points]
        Up(i)     == Before(i) < v /\ s[i % Points] >= v
        Down(i)   == Before(i) >= v /\ s[i % Points] < v
    IN  \A i, j \in 1 .. Points : (Up(i) /\ Up(j)) \/ (Down(i) /\ Down(j)) => i = j

VARIABLES
  signal,     \* m_signals of the source
  timebase,   \* m_timebase: mode; do the samples fit in a frame?
  trigger,    \* m_trigger: mode, slope, level
  channel,    \* m_channels: enabled; voltsPerDiv, "wide" or "narrow"
  state,      \* JScopeDriver::m_state
  running,    \* m_running
  joinable,   \* m_thread.joinable()
  mode,       \* m_mode
  single,     \* m_singleShot
  forced,     \* m_forceTrigger
  published,  \* m_sequence > 0
  free,       \* m_phaseTime
  after,      \* m_lastTriggerTime, from where the next search starts
  loop,       \* where the acquisition thread is
  held,       \* the settings _produceWindowed() copied
  sweep,      \* the sweep it is making
  script,     \* what the main thread's handler still does
  edit,       \* the field a setter edits, the value, and its copy
  resume,     \* wasRunning
  busy,       \* autoset: "no", "queued" for the worker, "answered"
  lock,       \* history: the triggered sweep published last, and how many of its
              \*   trigger were published one after the other (1, or 2 for more)
  asked,      \* history: a single shot was asked for, and nothing since
  changes

settingVars == <<timebase, trigger, channel>>
threadVars  == <<running, joinable, loop>>
shotVars    == <<mode, single, forced, published>>
timeVars    == <<free, after>>
sweepVars   == <<held, sweep>>
mainVars    == <<script, edit, resume>>
pastVars    == <<lock, asked>>
vars == <<signal, settingVars, state, threadVars, shotVars, timeVars, sweepVars, mainVars,
          busy, pastVars, changes>>

None    == [of |-> "none"]
NoSweep == [triggered |-> FALSE]
NoLock  == [triggered |-> FALSE, length |-> 0]

Init == /\ signal \in Signals
        /\ timebase = [mode |-> "Windowed", fits |-> TRUE]
        /\ trigger = [mode |-> "Auto", slope |-> "Rising", level |-> Fitted]
        /\ channel = [on |-> TRUE, scale |-> "wide"]
        /\ state = "Idle" /\ running = FALSE /\ joinable = FALSE /\ loop = "none"
        /\ mode = "Windowed" /\ single = FALSE /\ forced = FALSE /\ published = FALSE
        /\ free = 0 /\ after = 0
        /\ held = None /\ sweep = NoSweep
        /\ script = <<>> /\ edit = None /\ resume = FALSE /\ busy = "no"
        /\ lock = NoLock /\ asked = FALSE /\ changes = 0

-----------------------------------------------------------------------------
\* The acquisition thread.

\* The line and the direction that are looked for.
Line == [slope |-> trigger.slope, level |-> trigger.level]

At(i) == signal[i % Points]
Rises(i) == At(i - 1) < trigger.level /\ At(i) >= trigger.level
Falls(i) == At(i - 1) >= trigger.level /\ At(i) < trigger.level

\* The signal crosses the level in the direction asked for on its way to point i.
Crosses(i) == \/ trigger.slope \in {"Rising", "Either"} /\ Rises(i)
              \/ trigger.slope \in {"Falling", "Either"} /\ Falls(i)

\* _findTriggerTime(after): this period and the next are searched.
Crossings == {i \in 1 .. 2 * Points : i * Step >= after /\ Crosses(i)}
TimeOf(i) ==
  LET rise == At(i) - At(i - 1)
      sign == IF rise > 0 THEN 1 ELSE -1
  IN  (i - 1) * Step + (sign * (trigger.level - At(i - 1)) * Step) \div (sign * rise)
TriggerTime == TimeOf(Min(Crossings))

\* Where the next search starts: half a period on.  Mutant of ResumeAt: a quarter.
ResumeSoon == (TriggerTime + Period \div 4) % Period
ResumeAt == (TriggerTime + Period \div 2) % Period

\* while (m_running) _produceWindowed() or _produceStreaming(): a frame from the
\* pool and a copy of the settings.
LoopTop ==
  /\ loop = "top"
  /\ held' = IF running THEN [scale |-> channel.scale, trigMode |-> trigger.mode] ELSE None
  /\ loop' = IF ~running THEN "done"
             ELSE IF ~channel.on THEN "check"
             ELSE IF mode = "Streaming" THEN "publish"
             ELSE IF timebase.fits THEN "trigger" ELSE "broken"
  /\ UNCHANGED <<signal, settingVars, state, running, joinable, shotVars, timeVars, sweep,
                 mainVars, busy, pastVars, changes>>

\* The record does not fit: an error, and the loop's end.
LoopBreaks ==
  /\ loop = "broken"
  /\ running' = FALSE /\ loop' = "check"
  /\ UNCHANGED <<signal, settingVars, state, joinable, shotVars, timeVars, sweepVars,
                 mainVars, busy, pastVars, changes>>

\* Where the sweep starts: forced, at a crossing, free-running in Auto mode; or
\* there is none.
LoopTrigger ==
  /\ loop = "trigger"
  /\ forced' = FALSE
  /\ \/ /\ forced
        /\ sweep' = [at |-> free, triggered |-> FALSE, forced |-> TRUE, by |-> Line]
        /\ after' = free /\ loop' = "publish" /\ UNCHANGED state
     \/ /\ ~forced /\ Crossings # {}
        /\ sweep' = [at |-> TriggerTime % Period, triggered |-> TRUE, forced |-> FALSE,
                     by |-> Line]
        /\ after' = ResumeAt
        /\ loop' = "publish" /\ UNCHANGED state
     \/ /\ ~forced /\ Crossings = {} /\ held.trigMode = "Auto"
        /\ sweep' = [at |-> free, triggered |-> FALSE, forced |-> FALSE, by |-> Line]
        /\ after' = free /\ loop' = "publish" /\ UNCHANGED state
     \/ /\ ~forced /\ Crossings = {} /\ held.trigMode # "Auto"
        /\ state' = "Armed" /\ loop' = "check" /\ UNCHANGED <<sweep, after>>
  /\ UNCHANGED <<signal, settingVars, running, joinable, mode, single, published, free, held,
                 mainVars, busy, pastVars, changes>>

\* The samples, in counts of the range the channel has now, labelled with the
\* range that was copied; then the frame is published.
LoopPublish ==
  /\ loop = "publish"
  /\ lock' = IF mode = "Streaming" THEN lock
             ELSE IF ~sweep.triggered THEN [lock EXCEPT !.length = 0]
             ELSE [triggered |-> TRUE, at |-> sweep.at, by |-> sweep.by,
                   length |-> IF lock.length > 0 /\ lock.by = sweep.by THEN 2 ELSE 1]
  /\ published' = TRUE /\ loop' = "published"
  /\ UNCHANGED <<signal, settingVars, state, running, joinable, mode, single, forced, timeVars,
                 sweepVars, mainVars, busy, asked, changes>>

\* A sweep says that it triggered; either way the free-running time goes on.
LoopAdvance ==
  /\ loop = "published"
  /\ state' = IF mode = "Windowed" THEN "Triggered" ELSE state
  /\ free' = (free + Window) % Period
  /\ loop' = "check"
  /\ UNCHANGED <<signal, settingVars, running, joinable, shotVars, after, sweepVars, mainVars,
                 busy, pastVars, changes>>

\* A single shot is over once a frame was published.
LoopCheck ==
  /\ loop = "check"
  /\ IF single /\ published
     THEN loop' = "retire" /\ running' = FALSE
     ELSE loop' = "top" /\ UNCHANGED running
  /\ held' = None /\ sweep' = NoSweep
  /\ UNCHANGED <<signal, settingVars, state, joinable, shotVars, timeVars, mainVars, busy,
                 pastVars, changes>>

LoopRetire ==
  /\ loop = "retire"
  /\ state' = "Stopped" /\ loop' = "done"
  /\ UNCHANGED <<signal, settingVars, running, joinable, shotVars, timeVars, sweepVars, mainVars,
                 busy, pastVars, changes>>

Loop == \/ LoopTop \/ LoopBreaks \/ LoopTrigger \/ LoopPublish \/ LoopAdvance
        \/ LoopCheck \/ LoopRetire

-----------------------------------------------------------------------------
\* The handlers of the main thread.

Handler(steps) == script = <<>> /\ script' = steps
OnlyScript == UNCHANGED <<signal, settingVars, state, threadVars, shotVars, timeVars, sweepVars,
                          edit, resume, busy, pastVars, changes>>

\* Mutant of SingleSteps: the flag is raised before start(), which lowers it.
SingleFirst == <<"ask", "run">>

SingleSteps == <<"run", "ask">>

RunIdle == state \in {"Stopped", "Idle", "Error"}

Verb(steps, shot) ==
  /\ Handler(steps) /\ asked' = shot
  /\ UNCHANGED <<signal, settingVars, state, threadVars, shotVars, timeVars, sweepVars,
                 edit, resume, busy, lock, changes>>

Run    == Verb(<<"run">>, FALSE)
Stop   == Verb(<<"clear">>, FALSE)
Single == Verb(SingleSteps, TRUE)
ToggleRunStop == Verb(IF RunIdle THEN <<"run">> ELSE <<"clear">>, FALSE)

ForceTrigger ==
  /\ script = <<>> /\ running
  /\ forced' = TRUE
  /\ UNCHANGED <<signal, settingVars, state, threadVars, mode, single, published, timeVars,
                 sweepVars, mainVars, busy, pastVars, changes>>

\* runOnDevice(): refused while an operation is under way.
Autoset ==
  /\ script = <<>> /\ busy = "no" /\ changes < MaxChanges
  /\ busy' = "queued" /\ changes' = changes + 1
  /\ UNCHANGED <<signal, settingVars, state, threadVars, shotVars, timeVars, sweepVars,
                 mainVars, pastVars>>

\* The continuation: not busy any more.
AutosetDone ==
  /\ script = <<>> /\ busy = "answered"
  /\ busy' = "no"
  /\ UNCHANGED <<signal, settingVars, state, threadVars, shotVars, timeVars, sweepVars,
                 mainVars, pastVars, changes>>

\* What the controls ask for.  A mode and a record length take the acquisition
\* down and up again.
Edits == [of : {"mode"}, to : {"Windowed", "Streaming"}] \cup [of : {"fits"}, to : BOOLEAN]
           \cup [of : {"on"}, to : BOOLEAN] \cup [of : {"scale"}, to : {"wide"}]
           \cup [of : {"trigMode"}, to : TriggerModes] \cup [of : {"slope"}, to : Slopes]
           \cup [of : {"level"}, to : Levels]

Set(e) ==
  /\ Handler(IF e.of \in {"mode", "fits"} THEN <<"look", "copy", "apply", "resume">>
                                          ELSE <<"copy", "apply">>)
  /\ edit' = e /\ changes < MaxChanges /\ changes' = changes + 1
  /\ asked' = (asked /\ e.of \notin {"mode", "fits"})
  /\ UNCHANGED <<signal, settingVars, state, threadVars, shotVars, timeVars, sweepVars, resume,
                 busy, lock>>

Handlers == \/ Run \/ Stop \/ Single \/ ToggleRunStop \/ ForceTrigger \/ Autoset \/ AutosetDone
            \/ \E e \in Edits : Set(e)

-----------------------------------------------------------------------------
\* The steps of a handler.

Doing(step) == script # <<>> /\ Head(script) = step

\* Mutant of WasRunning: a sweep that waits or has triggered does not count.
WasStreaming == state = "Running"

WasRunning == state \notin {"Stopped", "Idle"}

\* setAcquisitionMode(), setRecordLength(): stop first.
Look ==
  /\ Doing("look")
  /\ resume' = WasRunning
  /\ script' = IF WasRunning THEN <<"clear">> \o Tail(script) ELSE Tail(script)
  /\ UNCHANGED <<signal, settingVars, state, threadVars, shotVars, timeVars, sweepVars, edit,
                 busy, pastVars, changes>>

Resume ==
  /\ Doing("resume")
  /\ script' = (IF resume THEN <<"run">> ELSE <<>>) /\ resume' = FALSE
  /\ UNCHANGED <<signal, settingVars, state, threadVars, shotVars, timeVars, sweepVars, edit,
                 busy, pastVars, changes>>

\* The current settings with one field edited ...
Edited == CASE edit.of = "mode" -> [timebase EXCEPT !.mode = edit.to]
            [] edit.of = "fits" -> [timebase EXCEPT !.fits = edit.to]
            [] edit.of = "on" -> [channel EXCEPT !.on = edit.to]
            [] edit.of = "scale" -> [channel EXCEPT !.scale = edit.to]
            [] edit.of = "trigMode" -> [trigger EXCEPT !.mode = edit.to]
            [] edit.of = "slope" -> [trigger EXCEPT !.slope = edit.to]
            [] edit.of = "level" -> [trigger EXCEPT !.level = edit.to]

Copy ==
  /\ Doing("copy")
  /\ edit' = [of |-> edit.of, copy |-> Edited]
  /\ script' = Tail(script)
  /\ UNCHANGED <<signal, settingVars, state, threadVars, shotVars, timeVars, sweepVars, resume,
                 busy, pastVars, changes>>

\* ... are what is applied.
Apply ==
  /\ Doing("apply")
  /\ timebase' = IF edit.of \in {"mode", "fits"} THEN edit.copy ELSE timebase
  /\ channel' = IF edit.of \in {"on", "scale"} THEN edit.copy ELSE channel
  /\ trigger' = IF edit.of \in {"trigMode", "slope", "level"} THEN edit.copy ELSE trigger
  /\ edit' = None /\ script' = Tail(script)
  /\ UNCHANGED <<signal, state, threadVars, shotVars, timeVars, sweepVars, resume, busy,
                 pastVars, changes>>

\* start(): already running, or a new thread once the old one is reaped.
Begin ==
  /\ Doing("run")
  /\ script' = IF running THEN Tail(script) ELSE <<"spawn", "announce">> \o Tail(script)
  /\ OnlyScript

Spawn ==
  /\ Doing("spawn") /\ (joinable => loop = "done")
  /\ mode' = timebase.mode /\ single' = FALSE /\ published' = FALSE /\ free' = 0
  /\ running' = TRUE /\ joinable' = TRUE /\ loop' = "top"
  /\ script' = Tail(script)
  /\ UNCHANGED <<signal, settingVars, state, forced, after, sweepVars, edit, resume, busy,
                 pastVars, changes>>

Announce ==
  /\ Doing("announce")
  /\ state' = IF mode = "Streaming" THEN "Running" ELSE "Armed"
  /\ script' = Tail(script)
  /\ UNCHANGED <<signal, settingVars, threadVars, shotVars, timeVars, sweepVars, edit, resume,
                 busy, pastVars, changes>>

\* single(): the flag goes up after start() came back.
Ask ==
  /\ Doing("ask")
  /\ single' = TRUE /\ script' = Tail(script)
  /\ UNCHANGED <<signal, settingVars, state, threadVars, mode, forced, published, timeVars,
                 sweepVars, edit, resume, busy, pastVars, changes>>

\* stop(): the flag, and the join if there is a thread.
Clear ==
  /\ Doing("clear")
  /\ running' = FALSE
  /\ script' = IF joinable THEN <<"join">> \o Tail(script) ELSE Tail(script)
  /\ UNCHANGED <<signal, settingVars, state, joinable, loop, shotVars, timeVars, sweepVars, edit,
                 resume, busy, pastVars, changes>>

Join ==
  /\ Doing("join") /\ loop = "done"
  /\ joinable' = FALSE /\ loop' = "none" /\ state' = "Stopped"
  /\ script' = Tail(script)
  /\ UNCHANGED <<signal, settingVars, running, shotVars, timeVars, sweepVars, edit, resume, busy,
                 pastVars, changes>>

Steps == Look \/ Resume \/ Copy \/ Apply \/ Begin \/ Spawn \/ Announce \/ Ask \/ Clear \/ Join

\* autoset() on the worker: the range of a channel that is on, and the level.
Worker ==
  /\ busy = "queued"
  /\ channel' = IF channel.on THEN [channel EXCEPT !.scale = "narrow"] ELSE channel
  /\ trigger' = [trigger EXCEPT !.level = Fitted]
  /\ busy' = "answered"
  /\ UNCHANGED <<signal, timebase, state, threadVars, shotVars, timeVars, sweepVars, mainVars,
                 pastVars, changes>>

Next == Loop \/ Handlers \/ Steps \/ Worker

\* A thread goes on with what it has begun.
Fairness == WF_vars(Loop) /\ WF_vars(Steps) /\ WF_vars(Worker) /\ WF_vars(AutosetDone)
Spec == Init /\ [][Next]_vars /\ Fairness

-----------------------------------------------------------------------------
TypeOK == /\ timebase \in [mode : {"Windowed", "Streaming"}, fits : BOOLEAN]
          /\ trigger \in [mode : TriggerModes, slope : Slopes, level : Levels \cup {Fitted}]
          /\ channel \in [on : BOOLEAN, scale : {"wide", "narrow"}]
          /\ state \in {"Idle", "Armed", "Running", "Triggered", "Stopped"}
          /\ running \in BOOLEAN /\ joinable \in BOOLEAN /\ single \in BOOLEAN
          /\ free \in 0 .. Period - 1 /\ after \in 0 .. Period - 1

\* setAcquisitionMode(): what is acquired between the handlers is what the timebase
\* says, though the loop is given the mode only when it is started.
ModeHonoured == script = <<>> /\ running => mode = timebase.mode

\* _produceWindowed(), _findTriggerTime(): a sweep that is not forced finds a
\* crossing in the direction asked for whenever the signal has one, wherever the last
\* sweep, forced, free-running or of another trigger, left the search.
SweepsTrigger == ~sweep.forced /\ sweep.by = Line /\ (\E i \in 1 .. Points : Crosses(i))
                   => sweep.triggered /\ \E i \in 1 .. Points : Crosses(i) /\ sweep.at = TimeOf(i) % Period

\* Two times are within a step of half a period apart.
HalfApart(t, u) == \E d \in {t - u, u - t} : 2 * d \in Period - 2 * Step - 1 .. Period + 2 * Step + 1

\* The trace of one trigger stands still, whatever came between its sweeps, but for
\* "either slope".  There it jumps once at most while sweeps follow one another
\* without a forced or a free-running one between them: half a period of hold-off
\* brings the search back to the crossing it came from, unless the two crossings are
\* half a period apart (StandsStillAlways).
TraceSettles == sweep.triggered /\ lock.triggered /\ lock.by = sweep.by /\ sweep.at # lock.at
                  => sweep.by.slope = "Either" /\ (lock.length < 2 \/ HalfApart(sweep.at, lock.at))

SweepsSettle == [][LoopPublish /\ mode # "Streaming" => SweepsTrigger /\ TraceSettles]_vars

\* CONTRADICTED.  JSyntheticDriver.cpp:427-428, 533-535: "successive frames advance by
\* whole periods and the displayed waveform stands still".
StandsStillAlways ==
  [][LoopPublish /\ mode # "Streaming" =>
       (sweep.triggered /\ lock.length > 0 /\ lock.by = sweep.by => sweep.at = lock.at)]_vars

\* single(): the acquisition ends by itself, unless there is nothing to capture.
Sweeps == channel.on /\ (mode = "Streaming" \/ trigger.mode = "Auto" \/ Crossings # {})
SingleEnds == (asked /\ running) ~> ~(asked /\ running /\ Sweeps)

\* "Each reads the CURRENT config from the driver, edits one field, and writes it
\* back, so a control never overwrites a neighbouring setting with a stale copy of it".
NoStaleCopy == [][Apply => /\ edit.of = "level" => trigger' = [trigger EXCEPT !.level = trigger'.level]
                           /\ edit.of = "slope" => trigger' = [trigger EXCEPT !.slope = trigger'.slope]
                           /\ edit.of = "on" => channel' = [channel EXCEPT !.on = channel'.on]]_vars

\* A frame is in counts of the range its header names.
LabelIsScale == [][LoopPublish => held.scale = channel.scale]_vars

\* What the window says of the instrument is so.
StateIsTrue == script = <<>> /\ state \in {"Armed", "Running", "Triggered"} => loop # "done"

\* A mode or a length leaves a single shot a single shot.
SingleStaysSingle == [][Resume /\ resume => ~single]_vars
==============================================================================
