-------------------------------- MODULE Generator --------------------------------
(***************************************************************************)
(* The pattern generator from the panel to the device: the panel's         *)
(* controls (JGeneratorPanel.cpp), the pulse editor (JPulseGridEditor.cpp),*)
(* the menu's and the bus's actions (JScopeActions.cpp), the .squ files    *)
(* (JSquFile.cpp), what the generator remembers                            *)
(* (JHantek1008PatternGenerator.cpp) and what was sent.                    *)
(*                                                                         *)
(* A handler of the main thread is one step; the acquisition thread takes  *)
(* the flag and then sends, between two captures, and handlers come in     *)
(* between.  Who holds the pipe while it is sent is HantekDriver's matter. *)
(* A pattern is a sequence of steps, a step the set of the outputs that    *)
(* are high.                                                               *)
(***************************************************************************)
EXTENDS Integers, Sequences

CONSTANTS Outputs,         \* the digital outputs
          MaxLength,       \* kMaxPatternLength
          ClockTicks,      \* 60 * kGeneratorClockHz: ticks in a minute
          MinPulse,        \* kMinPulseLengthTicks
          MaxEncodable,    \* kMaxEncodableRpm
          DefaultPattern,  \* kDefaultPattern
          DefaultRpm,      \* kDefaultRpm
          DefaultPulses,   \* kDefaultPulses
          FirstOutput,     \* the line that starts on
          OemFiles,        \* patterns in files the other application wrote
          MaxActs,         \* bound on what the user does
          MaxFailures      \* bound on the flushes that fail somewhere

\* A pattern is never empty.
Patterns == UNION {[1 .. n -> SUBSET Outputs] : n \in 1 .. MaxLength}

ASSUME GeneratorAssumption ==
  /\ {MaxLength, ClockTicks, MinPulse, MaxEncodable} \subseteq Nat \ {0}
  /\ {MaxActs, MaxFailures} \subseteq Nat
  /\ DefaultPattern \in Patterns /\ OemFiles \subseteq Patterns
  /\ DefaultRpm \in 1 .. MaxEncodable /\ DefaultPulses \in 1 .. MaxLength
  /\ FirstOutput \in Outputs

\* The tables: the longest pattern at the highest speed still has a tick per step.
ASSUME TickPerStep == ClockTicks >= MaxLength * MaxEncodable

VARIABLES
  instrument,  \* the open device: "none", "plain" (no generator) or "hantek"
  running,     \* m_running of the driver
  owed,        \* m_generatorDirty: the loop is to send
  sending,     \* the loop has taken the flag, and has not sent yet
  held,        \* the generator's m_pattern, m_requestedRpm, m_actualRpm, m_outputEnabled
  device,      \* what the device was sent
  panel,       \* the controls and readouts
  editor,      \* the grid's m_pattern and m_enabled
  file,        \* the pattern saved last
  acts, failures

generatorVars == <<instrument, running, owed, sending, held, device, panel, editor, file, acts, failures>>

NoPanel  == [speed |-> -1]
Torn     == <<>>     \* a pattern write that broke off: the device's buffer is anybody's guess
Dash     == -1

-----------------------------------------------------------------------------
\* The tables: a step lasts a whole number of ticks, and not fewer than MinPulse.

MaxRpmFor(steps) ==
  LET byStepRate == ClockTicks \div (steps * MinPulse)
  IN  IF byStepRate < MaxEncodable THEN byStepRate ELSE MaxEncodable

PulseLengthFor(rpm, steps) == IF rpm = 0 THEN 0 ELSE ClockTicks \div (steps * rpm)

RpmForPulseLength(pulse, steps) ==
  IF pulse = 0 THEN 0 ELSE (2 * ClockTicks + steps * pulse) \div (2 * steps * pulse)

\* achievableRpm(): what the device makes of a request, 0 when nothing.
Achievable(rpm, pattern) ==
  IF rpm < 1 \/ rpm > MaxRpmFor(Len(pattern)) THEN 0
  ELSE RpmForPulseLength(PulseLengthFor(rpm, Len(pattern)), Len(pattern))

-----------------------------------------------------------------------------
\* The generator.

HasGenerator == instrument = "hantek"

Fresh == [pattern |-> DefaultPattern, requested |-> DefaultRpm,
          actual |-> Achievable(DefaultRpm, DefaultPattern), output |-> FALSE]

\* Mutant of WithPattern: the speed is left as it was.
WithPatternOnly(g, p) == [g EXCEPT !.pattern = p]

\* setPattern(): the same request means another speed once the steps are others.
WithPattern(g, p) == [g EXCEPT !.pattern = p, !.actual = Achievable(g.requested, p)]

\* flush(): pattern, speed and output, each sent whatever became of the others.
\* A part that fails may have been obeyed or not; a pattern is left half written.
Parts == {"pattern", "speed", "output"}
Flush(g, ok) ==
  /\ ok = Parts \/ failures < MaxFailures
  /\ failures' = IF ok = Parts THEN failures ELSE failures + 1
  /\ device' \in [pattern : {IF "pattern" \in ok THEN g.pattern ELSE Torn},
                  pulse   : {PulseLengthFor(g.requested, Len(g.pattern))}
                            \union IF "speed" \in ok THEN {} ELSE {device.pulse},
                  output  : {g.output} \union IF "output" \in ok THEN {} ELSE {device.output}]

\* _generatorChanged(): the running loop sends, or this thread at once.
Changed(g) == IF running THEN owed' = TRUE /\ UNCHANGED <<device, failures>>
                         ELSE (\E ok \in SUBSET Parts : Flush(g, ok)) /\ UNCHANGED owed

-----------------------------------------------------------------------------
\* The panel and the editor.

\* JSpinBox::setValue() keeps to the box's range.
InRange(v, top) == IF v > top THEN top ELSE v

\* JGeneratorPanel::syncFrom()
Synced(p, g) == [p EXCEPT !.output = g.output, !.speed = InRange(g.requested, p.top),
                          !.real = g.actual]

\* _showSpeeds()
WithSpeeds(p, g) == IF HasGenerator THEN [p EXCEPT !.real = g.actual, !.ceiling = MaxRpmFor(Len(g.pattern))]
                                    ELSE [p EXCEPT !.real = Dash]

\* _refreshGeneratorTrace(): the drawing is made from what the generator holds.
Drawn(g, p) == [pattern |-> g.pattern, lanes |-> p.lines]

\* Mutant of ConfigChanged: the panel follows, the drawing does not.
ConfigUndrawn(p, g) == panel' = Synced(p, g) /\ UNCHANGED editor

\* onConfigChanged: panel and drawing follow.
ConfigChanged(p, g) == panel' = Synced(p, g) /\ editor' = Drawn(g, p)

Act == acts < MaxActs /\ acts' = acts + 1

\* "Running"
SetOutput(on) ==
  /\ Act /\ panel # NoPanel /\ on # panel.output
  /\ LET p == [panel EXCEPT !.output = on]
     IN  IF HasGenerator
         THEN /\ held' = [held EXCEPT !.output = on]
              /\ Changed(held') /\ ConfigChanged(p, held')
         ELSE panel' = p /\ UNCHANGED <<held, owed, device, failures, editor>>
  /\ UNCHANGED <<instrument, running, sending, file>>

\* setRpm(): refused above the ceiling of the pattern held; what was held stays.
Accepted(rpm) == HasGenerator /\ rpm \in 1 .. MaxRpmFor(Len(held.pattern))
WithRpm(rpm)  == [held EXCEPT !.requested = rpm, !.actual = Achievable(rpm, held.pattern)]

\* "Set Speed": a refusal leaves the box showing what was refused.
SetSpeed(rpm) ==
  /\ Act /\ panel # NoPanel /\ rpm \in 1 .. panel.top /\ rpm # panel.speed
  /\ LET p == [panel EXCEPT !.speed = rpm]
     IN  IF Accepted(rpm)
         THEN /\ held' = WithRpm(rpm) /\ Changed(held')
              /\ panel' = WithSpeeds(Synced(p, held'), held')
              /\ editor' = Drawn(held', p)
         ELSE panel' = WithSpeeds(p, held) /\ UNCHANGED <<held, owed, device, failures, editor>>
  /\ UNCHANGED <<instrument, running, sending, file>>

\* `generator rpm=N` of the bus: any speed, and a refusal changes nothing.
BusSpeed(rpm) ==
  /\ Act /\ Accepted(rpm)
  /\ held' = WithRpm(rpm) /\ Changed(held') /\ ConfigChanged(panel, held')
  /\ UNCHANGED <<instrument, running, sending, file>>

\* A fresh alternating pattern on the lines that are on.
Alternating(n, lines) == [i \in 1 .. n |-> IF i % 2 = 1 THEN lines ELSE {}]

\* _pushPattern() after the generator has taken the pattern: the ceiling moved,
\* and the box with it, under m_syncing.
Pushed(p, g) ==
  LET ceiling == MaxRpmFor(Len(g.pattern))
  IN  [Synced(p, g) EXCEPT !.top = ceiling, !.ceiling = ceiling,
                           !.speed = InRange(InRange(g.requested, p.top), ceiling)]

\* "Pulses": the one control that draws the pattern anew.
SetPulses(n) ==
  /\ Act /\ panel # NoPanel /\ n # panel.pulses
  /\ LET p == [panel EXCEPT !.pulses = n]
     IN  IF HasGenerator
         THEN /\ held' = WithPattern(held, Alternating(n, p.lines))
              /\ panel' = Pushed(p, held') /\ editor' = Drawn(held', p)
         ELSE panel' = WithSpeeds(p, held) /\ UNCHANGED <<held, editor>>
  /\ UNCHANGED <<instrument, running, sending, owed, device, failures, file>>

Toggled(set, x) == IF x \in set THEN set \ {x} ELSE set \union {x}

\* Mutant of SwitchLine: a line that is switched has the pattern drawn anew.
SwitchRebuilds(o) ==
  /\ Act /\ panel # NoPanel
  /\ LET p == [panel EXCEPT !.lines = Toggled(panel.lines, o)]
     IN  IF HasGenerator
         THEN /\ held' = WithPattern(held, Alternating(panel.pulses, p.lines))
              /\ panel' = Pushed(p, held') /\ editor' = Drawn(held', p)
         ELSE panel' = p /\ UNCHANGED <<held, editor>>
  /\ UNCHANGED <<instrument, running, sending, owed, device, failures, file>>

\* "Outputs": only which lanes are seen and can be edited.
SwitchLine(o) ==
  /\ Act /\ panel # NoPanel
  /\ panel' = [panel EXCEPT !.lines = Toggled(panel.lines, o)]
  /\ editor' = [editor EXCEPT !.lanes = panel'.lines]
  /\ UNCHANGED <<instrument, running, sending, owed, held, device, failures, file>>

\* A press in the grid flips one level of a line that is shown.
PressCell(i, o) ==
  /\ Act /\ i \in DOMAIN editor.pattern /\ o \in editor.lanes
  /\ LET p == [editor.pattern EXCEPT ![i] = Toggled(@, o)]
     IN  IF HasGenerator THEN held' = WithPattern(held, p) /\ ConfigChanged(panel, held')
                         ELSE editor' = [editor EXCEPT !.pattern = p] /\ UNCHANGED <<held, panel>>
  /\ UNCHANGED <<instrument, running, sending, owed, device, failures, file>>

\* Load Pattern: of the panel only what syncFrom() sets follows.
Load(p) ==
  /\ Act /\ HasGenerator
  /\ held' = WithPattern(held, p) /\ ConfigChanged(panel, held')
  /\ UNCHANGED <<instrument, running, sending, owed, device, failures, file>>

Save ==
  /\ Act /\ HasGenerator
  /\ file' = held.pattern
  /\ UNCHANGED <<instrument, running, sending, owed, held, device, panel, editor, failures>>

\* Download to Device: this thread sends, whether or not the loop runs.
Download ==
  /\ Act /\ HasGenerator
  /\ \E ok \in SUBSET Parts : /\ Flush(held, ok)
                              /\ IF ok = Parts THEN ConfigChanged(panel, held)
                                               ELSE UNCHANGED <<panel, editor>>
  /\ UNCHANGED <<instrument, running, sending, owed, held, file>>

-----------------------------------------------------------------------------
\* The driver.

\* open() sends what a new generator holds; _adoptOpenSession() then builds the
\* panel, which gives the generator the pattern it shows.
Connect ==
  /\ instrument = "none" /\ Act
  /\ instrument' = "hantek"
  /\ \E ok \in SUBSET Parts : Flush(Fresh, ok)
  /\ held' = WithPattern(Fresh, Alternating(DefaultPulses, {FirstOutput}))
  /\ panel' = Pushed([output |-> FALSE, speed |-> 1, top |-> MaxEncodable, pulses |-> DefaultPulses,
                      lines |-> {FirstOutput}, real |-> Dash, ceiling |-> Dash], held')
  /\ editor' = Drawn(held', panel')
  /\ UNCHANGED <<running, sending, owed, file>>

\* A device without a generator: no controls, and an empty grid.
ConnectPlain ==
  /\ instrument = "none" /\ Act
  /\ instrument' = "plain" /\ panel' = NoPanel /\ editor' = [editor EXCEPT !.pattern = <<>>]
  /\ UNCHANGED <<running, sending, owed, held, device, failures, file>>

\* The session closes: panel and grid stay as they were.
Disconnect ==
  /\ instrument # "none" /\ Act /\ ~sending
  /\ instrument' = "none" /\ running' = FALSE /\ owed' = FALSE
  /\ UNCHANGED <<sending, held, device, panel, editor, file, failures>>

RestOfDriver == <<instrument, held, panel, editor, file, acts>>

Run  == /\ HasGenerator /\ ~running /\ running' = TRUE
        /\ UNCHANGED <<owed, sending, device, failures, RestOfDriver>>
\* stop() joins the loop: what it has taken it sends first.
Stop == /\ running /\ ~sending /\ running' = FALSE
        /\ UNCHANGED <<owed, sending, device, failures, RestOfDriver>>

\* Mutant of LoopSends: the flag is cleared when the flush is done.
FlushThenClear ==
  \/ /\ running /\ owed /\ ~sending
     /\ sending' = TRUE /\ \E ok \in SUBSET Parts : Flush(held, ok)
     /\ UNCHANGED <<running, owed, RestOfDriver>>
  \/ /\ sending
     /\ sending' = FALSE /\ owed' = FALSE
     /\ UNCHANGED <<running, device, failures, RestOfDriver>>

\* The loop, between two captures: m_generatorDirty.exchange(false), then flush(),
\* which sends what is held by then.
TakeFlag  == /\ running /\ owed /\ ~sending
             /\ owed' = FALSE /\ sending' = TRUE
             /\ UNCHANGED <<running, device, failures, RestOfDriver>>
SendTaken == /\ sending
             /\ sending' = FALSE /\ \E ok \in SUBSET Parts : Flush(held, ok)
             /\ UNCHANGED <<running, owed, RestOfDriver>>
LoopSends == TakeFlag \/ SendTaken

-----------------------------------------------------------------------------
GeneratorInit == /\ instrument = "none" /\ running = FALSE /\ owed = FALSE /\ sending = FALSE
                 /\ held = Fresh
                 /\ device = [pattern |-> Torn, pulse |-> 0, output |-> FALSE]
                 /\ panel = NoPanel /\ editor = [pattern |-> <<>>, lanes |-> Outputs]
                 /\ file = DefaultPattern /\ acts = 0 /\ failures = 0

Panel  == \/ \E on \in BOOLEAN : SetOutput(on)
          \/ \E rpm \in 1 .. MaxEncodable : SetSpeed(rpm) \/ BusSpeed(rpm)
          \/ \E n \in 1 .. MaxLength : SetPulses(n)
          \/ \E o \in Outputs : SwitchLine(o)
Edits  == \/ \E i \in 1 .. MaxLength, o \in Outputs : PressCell(i, o)
          \/ \E p \in OemFiles \union {file} : Load(p)
          \/ Save \/ Download
Driver == Connect \/ ConnectPlain \/ Disconnect \/ Run \/ Stop \/ LoopSends

GeneratorNext == Panel \/ Edits \/ Driver
GeneratorSpec == GeneratorInit /\ [][GeneratorNext]_generatorVars

-----------------------------------------------------------------------------
\* Every variable has its type (the generator).
GeneratorTypeOK ==
  /\ instrument \in {"none", "plain", "hantek"}
  /\ running \in BOOLEAN /\ owed \in BOOLEAN /\ sending \in BOOLEAN
  /\ held \in [pattern : Patterns, requested : 1 .. MaxEncodable, actual : 0 .. MaxEncodable,
              output : BOOLEAN]
  /\ device.pattern \in Patterns \union {Torn} /\ device.pulse \in 0 .. ClockTicks
  /\ editor.pattern \in Patterns \union {<<>>} /\ editor.lanes \subseteq Outputs
  /\ file \in Patterns /\ acts \in 0 .. MaxActs /\ failures \in 0 .. MaxFailures

\* The grid shows the pattern the generator holds, and the lines that are on:
\* after an edit, a load, a new pulse count, another device
\* (JScopeApp::_refreshGeneratorTrace).
DrawingIsHeld == HasGenerator => editor = Drawn(held, panel)

\* An edit survives whatever is not a new pattern: a cell changes when it is
\* pressed, on a line that is shown; switching a line, a speed or the output
\* costs nothing that was drawn (JGeneratorPanel's _pushPattern).
OneCell(p, q) == \E i \in DOMAIN p, o \in editor.lanes : q = [p EXCEPT ![i] = Toggled(@, o)]
EditsSurvive ==
  [][HasGenerator /\ HasGenerator' /\ held'.pattern # held.pattern =>
       \/ panel'.pulses # panel.pulses
       \/ held'.pattern \in OemFiles \union {file}
       \/ OneCell(held.pattern, held'.pattern)]_generatorVars

\* "Real Speed" is what the device makes of the request with the pattern that
\* is held now, whoever changed either (JGeneratorPanel's syncFrom, _showSpeeds).
RealSpeedShown == HasGenerator => panel.real = Achievable(held.requested, held.pattern)

\* With nothing owed or on its way, and no write failed, the device has the output
\* that was asked for, and turns the wheel it was given at the speed that was asked
\* for: a change made while the loop takes the flag or sends is not lost
\* (JHantek1008Driver::_generatorChanged and _runLoop, the generator's flush()).
DeviceFollows ==
  HasGenerator /\ ~owed /\ ~sending /\ failures = 0 =>
    /\ device.output = held.output
    /\ device.pulse = PulseLengthFor(held.requested, Len(device.pattern))

\* CONTRADICTED.  test_generator.cpp:103: "A pattern the user lengthens must not silently keep a
\* speed the device can no longer reach."  The device is never given fewer ticks
\* per step than it can do.
SpeedIsReachable == device.pulse = 0 \/ device.pulse >= MinPulse

\* CONTRADICTED.  JPatternGenerator.h:52: the ceiling is that of the pattern currently loaded and
\* changes whenever the pattern does.  "Max Speed" shows it.
CeilingShown == HasGenerator => panel.ceiling = MaxRpmFor(Len(held.pattern))

\* CONTRADICTED.  JHantek1008PatternGenerator.cpp:81: "A pattern reaches the device on
\* download() and not before".
OnlyDownloadSends ==
  [][device'.pattern # device.pattern => Download \/ Connect]_generatorVars
==============================================================================
