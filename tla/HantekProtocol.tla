----------------------------- MODULE HantekProtocol -----------------------------
(***************************************************************************)
(* The conversation with the Hantek 1008C: JHantek1008Protocol.cpp, and    *)
(* what JHantek1008Driver.cpp and the pattern generator say through it.    *)
(*                                                                         *)
(* send() writes one command and reads one transfer.  The device answers   *)
(* commands in order, but may answer after the read has timed out: the     *)
(* late answer is then what the next read finds.  Nothing drains the pipe. *)
(*                                                                         *)
(* `script` is what is left to say in the job under way.  An item of it    *)
(* belongs to a part; a failure that is looked at ends the part, and one   *)
(* of the operation itself ends the job.                                   *)
(***************************************************************************)
EXTENDS Integers, Sequences, FiniteSetsExt

CONSTANTS MaxLate,   \* bound on the answers that come too late
          MaxBehind, \* how many answers the device may owe
          MaxPolls,  \* how often waitReady() asks
          MaxChunks  \* packets in one half of a record

ASSUME ProtocolAssumption ==
  MaxLate \in Nat /\ MaxBehind \in Nat \ {0} /\ MaxPolls \in Nat \ {0} /\ MaxChunks \in Nat \ {0}

VARIABLES
  link,      \* "closed", "idle", or "run" while the acquisition loop goes round
  mode,      \* m_mode: "burst" or "roll"
  sweep,     \* m_trigger.mode, as far as it matters: "Auto" or "Normal"
  dirty,     \* m_configDirty
  started,   \* _runLoop's modeStarted
  job, script,
  failed,    \* the parts of this job that failed
  awaiting,  \* the command is written and its answer is waited for
  pipe,      \* answers in the bulk IN pipe
  slow,      \* answers the device has not given yet
  late,      \* how many came late
  record,    \* what has been read as samples in this job
  triggered, \* did waitReady() see a record?
  device     \* what the device holds: rate, trigger chosen, mode, number of the capture

hostVars == <<link, mode, sweep, dirty, started>>
busVars  == <<pipe, slow, late>>
vars == <<hostVars, job, script, failed, awaiting, busVars, record, triggered, device>>

-----------------------------------------------------------------------------
\* A command: what it asks for besides its echo, and whether its failure counts.
Command(op, arg, raw, echo, must) ==
  [step |-> "send", part |-> "op", op |-> op, arg |-> arg, raw |-> raw, echo |-> echo, must |-> must]
Must(op)        == Command(op, "", 0, TRUE, TRUE)
Set(op, arg)    == Command(op, arg, 0, TRUE, TRUE)
Try(op)         == Command(op, "", 0, TRUE, FALSE)
Echoed(op, n)   == Command(op, "", n, TRUE, FALSE)
Blob(op, n)     == Command(op, "", n, FALSE, FALSE)
Ask(op, arg, n) == Command(op, arg, n, FALSE, TRUE)
\* kStartWatch and kPing are one opcode, 0xf3; the watch answers a byte more.
Ping  == Must("Ping")
Watch == Echoed("Ping", 1)

\* What is not a command: something made of what was read, and a wait for a record.
Step(name, arg) == [step |-> name, part |-> "op", arg |-> arg]
Await(name, n)  == [step |-> name, part |-> "op", left |-> n]
InPart(part, items) == [i \in DOMAIN items |-> [items[i] EXCEPT !.part = part]]

\* initialisePhase1()
Phase1 ==
  <<Must("ResetB0"), Must("ResetB0"), Ping, Must("GeneratorSpeed"), Must("GeneratorEnable"),
    Must("GeneratorSwitch"), Blob("StatusB5", 64), Blob("StatusB6", 64), Blob("StatusE5", 2),
    Blob("StatusF7", 64), Blob("StatusF8", 64), Blob("StatusFa", 56), Must("StatusF5"),
    Must("ActiveCount"), Must("ActiveMap"), Set("SetTimeDiv", "burst"), Must("SetTrigger"),
    Echoed("StatusA7", 1), Must("ConfigAc")>>

Settings == <<Ping, Must("ActiveCount"), Must("ActiveMap"), Must("SetVerticalScale"),
              Must("SetRecordLength")>>

\* Mutant of RateAndTrigger: the rate is sent last and clears the selection.
TriggerFirst == <<Must("SetTrigger"), Must("SetTriggerLevel"), Set("SetTimeDiv", "burst")>>

RateAndTrigger == <<Set("SetTimeDiv", "burst"), Must("SetTrigger"), Must("SetTriggerLevel")>>

\* initialisePhase3()
Phase3 ==
  <<Must("StatusF6"), Blob("StatusE5", 2), Blob("StatusF7", 64), Blob("StatusF8", 64),
    Blob("StatusFa", 56), Set("SetTimeDiv", "burst"), Must("ConfigAc"), Must("StatusE4"),
    Blob("StatusE6", 10)>>
  \o Settings \o RateAndTrigger
  \o <<Echoed("StatusA7", 1), Must("ConfigAc"), Must("SetTriggerLevel"),
       Blob("StatusE9", 2)>>

\* startBurstCapture()
StartBurst(force) ==
  <<Try("StatusE4"), Blob("StatusE6", 10), Watch, Try("StatusE4"), Blob("StatusE6", 10),
    Set("StartAcquisition", "burst"), Set("AcquisitionArm", force)>>
  \o (IF force = "forced" THEN <<Must("AcquisitionGo")>> ELSE <<>>)

ReadHalves == <<Ask("BurstLength", "A", 2), Ask("BurstLength", "B", 2)>>

\* _measureZeroOffsets(): the same for each of three ranges, and the first failure
\* is the last, which is only a warning.
MeasureRange ==
  <<Ping, Must("SetVerticalScale"), Set("StartAcquisition", "burst"),
    Set("AcquisitionArm", "forced"), Must("AcquisitionGo"), Await("zero", MaxPolls)>>
  \o ReadHalves
ZeroOffsets == InPart("zero", MeasureRange \o MeasureRange \o MeasureRange)

\* The generator's flush(): three parts, each sent whatever became of the others.
FlushGenerator ==
  InPart("pattern", <<Must("GeneratorEnable"), Must("GeneratorLength"),
                      Must("GeneratorWaveform"), Must("GeneratorWaveform")>>)
  \o InPart("speed", <<Must("GeneratorSpeed")>>)
  \o InPart("output", <<Must("GeneratorEnable"), Must("GeneratorSwitch")>>)

\* startRollMode(), and the poll of _acquireRoll().
StartRoll == <<Set("SetTimeDiv", "roll"), Ping, Set("StartAcquisition", "roll"),
               Set("AcquisitionArm", "forced"), Must("AcquisitionGo")>>
PollRoll  == <<Ask("RollReadyLength", "", 2), Step("publish", "roll")>>

\* _acquireBurst(), up to the answer of waitReady(); autoset().
Burst   == StartBurst("unforced") \o <<Await("wait", MaxPolls)>>
Autoset == <<Must("SetVerticalScale")>> \o StartBurst("forced")
           \o <<Await("measure", MaxPolls)>> \o ReadHalves \o <<Step("store", "")>> \o Phase3

-----------------------------------------------------------------------------
\* The device.  0xa3 clears the trigger selection; 0xc0 begins a new capture.
AfterCommand(d, c) ==
  CASE c.op = "SetTimeDiv"       -> [d EXCEPT !.rate = c.arg, !.trigger = FALSE]
    [] c.op = "SetTrigger"       -> [d EXCEPT !.trigger = TRUE]
    [] c.op = "StartAcquisition" -> [d EXCEPT !.mode = c.arg]
    [] c.op = "AcquisitionArm"   -> [d EXCEPT !.capture = 1 - @]
    [] OTHER                     -> d

\* Its answer: how long, to which command, and of which capture.
Answer(c) == [op |-> c.op, arg |-> c.arg, capture |-> device'.capture,
              size |-> IF c.op = "Ping" THEN 1 ELSE c.raw + (IF c.echo THEN 1 ELSE 0)]

Init == /\ link = "closed" /\ mode = "burst" /\ sweep = "Auto" /\ dirty = TRUE /\ started = FALSE
        /\ job = "none" /\ script = <<>> /\ failed = {} /\ awaiting = FALSE
        /\ pipe = <<>> /\ slow = <<>> /\ late = 0 /\ record = <<>> /\ triggered = FALSE
        /\ device = [rate |-> "none", trigger |-> FALSE, mode |-> "none", capture |-> 0]

At(step) == job # "none" /\ script # <<>> /\ ~awaiting /\ Head(script).step = step

\* What is said after a failure of the part under way: the next part, if it is not
\* the operation itself that failed.
NextPart == {i \in DOMAIN script : script[i].part # Head(script).part}
AfterPart == IF Head(script).part = "op" \/ NextPart = {} THEN <<>>
             ELSE SubSeq(script, Min(NextPart), Len(script))
FailsPart == /\ failed' = failed \cup {Head(script).part}
             /\ script' = AfterPart

\* bulkOut(): the device takes the command; its answer comes in time, or late.
Write ==
  /\ At("send")
  /\ Len(slow) < MaxBehind
  /\ LET c == Head(script)
     IN  /\ device' = AfterCommand(device, c)
         /\ awaiting' = TRUE
         /\ \/ slow = <<>> /\ pipe' = Append(pipe, Answer(c)) /\ UNCHANGED <<slow, late>>
            \/ slow # <<>> /\ slow' = Append(slow, Answer(c)) /\ UNCHANGED <<pipe, late>>
            \/ /\ slow = <<>> /\ late < MaxLate
               /\ slow' = <<Answer(c)>> /\ late' = late + 1 /\ UNCHANGED pipe
  /\ UNCHANGED <<hostVars, job, script, failed, record, triggered>>

\* An answer that was late is in the pipe before the host's next command.
Arrive ==
  /\ slow # <<>> /\ ~awaiting
  /\ pipe' = pipe \o slow /\ slow' = <<>>
  /\ UNCHANGED <<hostVars, job, script, failed, awaiting, late, record, triggered, device>>

\* Mutants of Accepts: the echo is not compared.
AcceptsAny(c, p) == p.size <= c.raw + (IF c.echo THEN 1 ELSE 0)

\* bulkIn() into a buffer of this size, the comparison of the echo, and the check
\* of a length that came back too short.
Accepts(c, p) ==
  /\ p.size <= c.raw + (IF c.echo THEN 1 ELSE 0)
  /\ c.echo => p.op = c.op
  /\ c.op \in {"BurstLength", "RollReadyLength"} => p.size >= 2

\* What follows an accepted answer: a length is followed by its packets, a packet
\* is kept, a status of 0xa5 ends the wait or goes on with it.
ChunksOf(c) == [c EXCEPT !.op = IF c.op = "BurstLength" THEN "ReadBurstChunk" ELSE "ReadRollChunk",
                         !.raw = 64]
Length(c, p) == IF p.op = "BurstLength" THEN {MaxChunks} ELSE 0 .. MaxChunks

\* The result of the command at the head of the script.
Succeeds(c, p) ==
  /\ UNCHANGED failed
  /\ record' = IF c.op \in {"ReadBurstChunk", "ReadRollChunk"} THEN Append(record, p) ELSE record
  /\ IF c.op \in {"BurstLength", "RollReadyLength"}
     THEN \E n \in Length(c, p) :
            script' = (IF n = 0 /\ c.op = "RollReadyLength"
                       THEN <<Try("Ping")>>
                       ELSE [i \in 1 .. n |-> ChunksOf(c)] \o Tail(script))
     ELSE script' = Tail(script)

Fails(c) == /\ UNCHANGED record
            /\ IF c.must THEN FailsPart ELSE script' = Tail(script) /\ UNCHANGED failed

Read ==
  /\ awaiting /\ pipe # <<>> /\ Head(script).op # "ReadyPoll"
  /\ pipe' = Tail(pipe) /\ awaiting' = FALSE
  /\ IF Accepts(Head(script), Head(pipe)) THEN Succeeds(Head(script), Head(pipe))
                                          ELSE Fails(Head(script))
  /\ UNCHANGED <<hostVars, job, slow, late, triggered, device>>

\* libusb gives up.
TimeOut ==
  /\ awaiting /\ pipe = <<>> /\ Head(script).op # "ReadyPoll"
  /\ awaiting' = FALSE /\ Fails(Head(script))
  /\ UNCHANGED <<hostVars, job, busVars, triggered, device>>

-----------------------------------------------------------------------------
\* waitReady(n): ask 0xa5, and between two askings send a watch whose answer is
\* not looked at.  What the caller makes of a wait that fails:
\*   wait      the burst capture: Normal goes round again, Auto forces a sweep
\*   again     the forced sweep: the result is not looked at
\*   zero      a failure of the calibration
\*   measure   autoset has nothing to measure, and ends
Waits == {"wait", "again", "zero", "measure"}
Poll(item) == [Ask("ReadyPoll", item.step, 2) EXCEPT !.part = item.part]

GaveUp(step) ==
  CASE step = "wait"    -> IF sweep = "Normal" THEN <<>>
                           ELSE <<Try("AcquisitionGo"), Await("again", 1)>>
    [] step = "again"   -> ReadHalves \o <<Step("publish", "burst")>>
    [] step = "zero"    -> AfterPart
    [] step = "measure" -> <<>>
Went(step) == IF step \in {"wait", "again"} THEN ReadHalves \o <<Step("publish", "burst")>>
              ELSE Tail(script)

\* Mutant of Remaining: the polls are not counted.
RemainingAll(n) == n

Remaining(n) == n - 1

Wait ==
  /\ \E step \in Waits : At(step)
  /\ LET item == Head(script)
     IN  IF item.left = 0
         THEN /\ script' = GaveUp(item.step)
              /\ failed' = (IF item.step \in {"zero", "measure"} THEN failed \cup {item.step}
                           ELSE failed)
         ELSE /\ script' = <<Poll(item), [item EXCEPT !.left = Remaining(@)]>> \o Tail(script)
              /\ UNCHANGED failed
  /\ UNCHANGED <<hostVars, job, awaiting, busVars, record, triggered, device>>

\* The answer to 0xa5: a record is ready, or not yet.
ReadPoll ==
  /\ awaiting /\ pipe # <<>> /\ Head(script).op = "ReadyPoll"
  /\ pipe' = Tail(pipe) /\ awaiting' = FALSE
  /\ LET wait == script[2]
         rest == SubSeq(script, 3, Len(script))
     IN  IF Head(pipe).op = "ReadyPoll"
         THEN \/ /\ script' = (IF wait.step \in {"wait", "again"}
                               THEN ReadHalves \o <<Step("publish", "burst")>> ELSE rest)
                 /\ triggered' = (triggered \/ wait.step = "wait")
              \/ script' = <<Watch, wait>> \o rest /\ UNCHANGED triggered
         ELSE script' = <<[wait EXCEPT !.left = 0]>> \o rest /\ UNCHANGED triggered
  /\ UNCHANGED <<hostVars, job, failed, slow, late, record, device>>

PollTimesOut ==
  /\ awaiting /\ pipe = <<>> /\ Head(script).op = "ReadyPoll"
  /\ awaiting' = FALSE
  /\ script' = <<[script[2] EXCEPT !.left = 0]>> \o SubSeq(script, 3, Len(script))
  /\ UNCHANGED <<hostVars, job, failed, busVars, record, triggered, device>>

\* autoset() has chosen the ranges: they are to be applied.
Store == /\ At("store")
         /\ dirty' = TRUE /\ script' = Tail(script)
         /\ UNCHANGED <<link, mode, sweep, started, job, failed, awaiting, busVars, record,
                        triggered, device>>

\* The record becomes a frame.
Publish == /\ At("publish")
           /\ script' = Tail(script)
           /\ UNCHANGED <<hostVars, job, failed, awaiting, busVars, record, triggered, device>>

-----------------------------------------------------------------------------
Begin(name, items) ==
  /\ job = "none"
  /\ job' = name /\ script' = items /\ failed' = {} /\ record' = <<>> /\ triggered' = FALSE
  /\ UNCHANGED <<awaiting, busVars, device>>

\* open(), after the interface is claimed.
Open == link = "closed" /\ Begin("open", Phase1 \o ZeroOffsets \o Phase3 \o FlushGenerator)
        /\ UNCHANGED hostVars

\* The loop's next iteration: the configuration, roll mode, or a capture.
Iterate ==
  /\ link = "run"
  /\ \/ dirty /\ Begin("config", Phase3)
     \/ ~dirty /\ mode = "roll" /\ ~started /\ Begin("roll", StartRoll)
     \/ ~dirty /\ mode = "roll" /\ started /\ Begin("poll", PollRoll)
     \/ ~dirty /\ mode = "burst" /\ Begin("burst", Burst)
  /\ UNCHANGED hostVars

SendGenerator == link # "closed" /\ Begin("generator", FlushGenerator) /\ UNCHANGED hostVars
KeepAlive     == link = "idle" /\ Begin("ping", <<Try("Ping")>>) /\ UNCHANGED hostVars

\* autoset(): a loop that runs is stopped for it and started again after it.
BeginAutoset  == link # "closed" /\ Begin("autoset", Autoset) /\ UNCHANGED hostVars

\* A change of the settings; a change of mode goes the same way.
Apply == /\ job = "none" /\ ~dirty
         /\ dirty' = TRUE /\ mode' \in {"burst", "roll"} /\ sweep' \in {"Auto", "Normal"}
         /\ (link = "run" => mode' = mode)
         /\ UNCHANGED <<link, started, job, script, failed, awaiting, busVars, record,
                        triggered, device>>

Run  == /\ job = "none" /\ link = "idle"
        /\ link' = "run" /\ started' = FALSE
        /\ UNCHANGED <<mode, sweep, dirty, job, script, failed, awaiting, busVars, record,
                       triggered, device>>
Stop == /\ job = "none" /\ link = "run"
        /\ link' = "idle"
        /\ UNCHANGED <<mode, sweep, dirty, started, job, script, failed, awaiting, busVars,
                       record, triggered, device>>

\* The job is over: a failure that counts ends the loop, or the attempt to open.
EndJob ==
  /\ job # "none" /\ script = <<>>
  /\ job' = "none" /\ record' = <<>> /\ triggered' = FALSE /\ failed' = {}
  /\ LET ok == "op" \notin failed
     IN  /\ link' = (IF job = "open" THEN IF ok THEN "idle" ELSE "closed"
                     ELSE IF ok \/ link = "closed" THEN link ELSE "idle")
         /\ dirty' = (dirty /\ ~(ok /\ (job \in {"open", "config"} \/ (job = "autoset" /\ failed = {}))))
         /\ started' = (IF job \in {"config", "autoset"} THEN FALSE
                        ELSE IF job = "roll" /\ ok THEN TRUE ELSE started)
  /\ UNCHANGED <<mode, sweep, script, awaiting, busVars, device>>

Calls    == Open \/ SendGenerator \/ KeepAlive \/ BeginAutoset \/ Apply \/ Run \/ Stop
Transfer == Write \/ Read \/ TimeOut \/ Wait \/ ReadPoll \/ PollTimesOut \/ Store \/ Publish
Next     == Calls \/ Iterate \/ Transfer \/ Arrive \/ EndJob

\* Every wait on the pipe has a timeout, the loop goes on, and what the device owes comes.
Fairness == WF_vars(Transfer) /\ WF_vars(Arrive) /\ WF_vars(EndJob)
Spec == Init /\ [][Next]_vars /\ Fairness

-----------------------------------------------------------------------------
\* Every variable has its type: what is left to say are commands and marks, and what
\* the pipe holds are answers.
Opcodes ==
  {"ResetB0", "Ping", "SetVerticalScale", "SetRecordLength", "SetTimeDiv", "SetTrigger",
   "SetTriggerLevel", "ActiveCount", "ActiveMap", "ConfigAc", "StartAcquisition",
   "AcquisitionArm", "AcquisitionGo", "ReadyPoll", "BurstLength", "ReadBurstChunk",
   "RollReadyLength", "ReadRollChunk", "GeneratorSpeed", "GeneratorEnable", "GeneratorSwitch",
   "GeneratorLength", "GeneratorWaveform", "StatusA7", "StatusB5", "StatusB6", "StatusE4",
   "StatusE5", "StatusE6", "StatusE9", "StatusF5", "StatusF6", "StatusF7", "StatusF8", "StatusFa"}
Args    == {"", "none", "A", "B", "burst", "roll", "forced", "unforced"} \cup Waits
Parts   == {"op", "zero", "pattern", "speed", "output"}
Sends   == [step : {"send"}, part : Parts, op : Opcodes, arg : Args, raw : Nat,
            echo : BOOLEAN, must : BOOLEAN]
Marks   == [step : Waits, part : Parts, left : 0 .. MaxPolls]
           \cup [step : {"publish", "store"}, part : {"op"}, arg : Args]
Answers == [op : Opcodes, arg : Args, capture : {0, 1}, size : Nat]
Devices == [rate : Args, trigger : BOOLEAN, mode : Args, capture : {0, 1}]
Jobs    == {"none", "open", "config", "roll", "poll", "burst", "generator", "ping", "autoset"}

TypeOK == /\ link \in {"closed", "idle", "run"} /\ mode \in {"burst", "roll"}
          /\ sweep \in {"Auto", "Normal"} /\ dirty \in BOOLEAN /\ started \in BOOLEAN
          /\ job \in Jobs /\ script \in Seq(Sends \cup Marks)
          /\ failed \subseteq Parts \cup {"measure"} /\ awaiting \in BOOLEAN
          /\ pipe \in Seq(Answers) /\ slow \in Seq(Answers) /\ late \in 0 .. MaxLate
          /\ record \in Seq(Answers) /\ triggered \in BOOLEAN
          /\ device \in Devices

\* The answers a record is made of are packets of the capture under way, all of
\* half A and then all of half B.
Ours == /\ \A i \in DOMAIN record : /\ record[i].capture = device.capture
                                    /\ record[i].op \in {"ReadBurstChunk", "ReadRollChunk"}
        /\ \A i, j \in DOMAIN record : i <= j => ~(record[i].arg = "B" /\ record[j].arg = "A")

\* A frame that is published as triggered, or in roll mode, is made of nothing but
\* the record that was announced for it: an answer that came late is found out
\* before its successors are taken for samples.
TakenIsOurs == (At("publish") /\ (triggered \/ Head(script).arg = "roll")) => Ours

\* "The device's trigger selection" is made again after every 0xa3: no capture is
\* armed to wait for a trigger that is not chosen, or with a roll rate in 0xa3.
ArmedWithTrigger ==
  (At("send") /\ Head(script).op = "AcquisitionArm" /\ Head(script).arg = "unforced") =>
    device.trigger /\ device.rate = "burst" /\ device.mode = "burst"

\* Every job ends, whatever the device does not answer.
JobsEnd == (job # "none") ~> (job = "none")

-----------------------------------------------------------------------------
\* "An echo mismatch means the device is out of step, and continuing would send
\* the next command into a conversation that has already gone wrong"
\* (tests/test_hantek1008_protocol.cpp): no frame is made of other answers.  The
\* sweep that Auto forces looks at no result before it reads the halves.
NothingForeign == At("publish") => Ours
==============================================================================
