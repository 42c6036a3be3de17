------------------------- MODULE HantekProtocolProofs -------------------------
(***************************************************************************)
(* A frame is made of the record that was announced for it, proved for any *)
(* number of late answers, of polls and of packets: as long as the device  *)
(* is never more answers behind than startRollMode() has commands.         *)
(*                                                                         *)
(* Nothing drains the pipe.  What makes a record safe is that a capture    *)
(* begins with commands of its own: whoever comes to read samples has just *)
(* sent enough of them, and seen them echoed, to know that every older     *)
(* answer is gone (a burst) or that none of those left is as long as a     *)
(* length (roll mode).                                                     *)
(*                                                                         *)
(* And of the trigger: 0xa3 clears it, so a capture that waits for one is  *)
(* armed only in a device in which it has been chosen since.               *)
(***************************************************************************)
EXTENDS HantekProtocol, SequenceTheorems, WellFoundedInduction, TLAPS

\* What the device has been asked and the host has not read, and how much of it is
\* owed to commands before the one under way.
Owed    == pipe \o slow
Foreign == Len(Owed) - (IF awaiting THEN 1 ELSE 0)

\* The answer to a command, once the device has obeyed it.
Own(c) == [op |-> c.op, arg |-> c.arg, capture |-> device.capture,
           size |-> IF c.op = "Ping" THEN 1 ELSE c.raw + (IF c.echo THEN 1 ELSE 0)]

\* The last answer owed is that of the command under way; the others are few.
AnswerInv ==
  /\ Foreign \in 0 .. MaxBehind /\ Len(slow) <= MaxBehind
  /\ awaiting => /\ job # "none" /\ script # <<>> /\ Head(script).step = "send"
                 /\ Owed[Len(Owed)] = Own(Head(script))

\* The last k of the answers owed to earlier commands are in S.
Recent(k, S) == \A i \in 1 .. Foreign : i > Foreign - k => Owed[i] \in S

Quiet == {a \in Answers : a.op \in {"StatusE4", "StatusE6", "Ping"}}
Small == {a \in Answers : a.size = 1}
Pings == {a \in Answers : a.op = "Ping"}

\* Which job runs when.
LinkInv ==
  /\ job = "none" => failed = {}
  /\ job = "open" => link = "closed"
  /\ job = "ping" => link = "idle"
  /\ job \in {"config", "roll", "poll", "burst"} => link = "run"
  /\ job = "burst" => mode = "burst"
  /\ job \in {"roll", "poll"} => mode = "roll" /\ (job = "poll" <=> started)
  /\ link = "run" /\ started => mode = "roll"

\* While roll mode goes on, no answer that is owed is as long as a length.
StreamInv ==
  link = "run" /\ started /\ job \notin {"config", "autoset"} /\ "op" \notin failed =>
    Recent(MaxBehind, Small)

\* A poll is only ever said right before the wait it belongs to.
PollsInv ==
  \A i \in DOMAIN script :
    script[i].step = "send" /\ script[i].op = "ReadyPoll" =>
      i = 1 /\ Len(script) > 1 /\ script[2].step \in Waits

\* Nothing is published by these.
Asides == {"open", "config", "generator", "ping", "autoset"}
AsideInv ==
  /\ job \in Asides =>
       \A i \in DOMAIN script : script[i].step \in {"send", "zero", "measure", "store"}
  /\ job = "generator" =>
       \A i \in DOMAIN script :
         /\ script[i].step = "send" /\ script[i].part # "op"
         /\ script[i].raw = 0 /\ script[i].echo
         /\ script[i].op \notin {"ReadyPoll", "BurstLength", "RollReadyLength"}

\* The rest of a sequence of commands of which k are done.
Rest(commands, k) == /\ Len(script) = Len(commands) - k
                     /\ \A i \in DOMAIN script : script[i] = commands[k + i]

\* A burst on its way to waitReady() ...
Arming ==
  \/ \E k \in 0 .. 6 : /\ Rest(Burst, k)
                       /\ k < 6 => Recent(k, Quiet)
                       /\ k = 6 => Foreign = 0
  \/ /\ Len(script) \in {1, 2}
     /\ script[Len(script)].step = "wait" /\ script[Len(script)].part = "op"
     /\ Len(script) = 2 => /\ script[1].step = "send" /\ script[1].part = "op"
                           /\ \/ script[1].op = "ReadyPoll"
                              \/ script[1].op = "Ping" /\ ~script[1].must
     /\ Len(script) = 2 \/ script[1].left > 0 => Recent(MaxBehind, Pings)

\* ... the sweep that Auto forces ...
Forced == \A i \in DOMAIN script :
            /\ script[i].part = "op"
            /\ \/ script[i].step \in {"send", "again"}
               \/ script[i].step = "publish" /\ script[i].arg = "burst"

\* ... and a record that is being read: every answer is its own command's, and
\* none of half A comes after one of half B.
Reads(x, ops) == x.step = "send" /\ x.part = "op" /\ x.must /\ ~x.echo /\ x.op \in ops
Taking(ops, args, as) ==
  /\ Foreign = 0 /\ Ours
  /\ \A i \in DOMAIN script :
       \/ Reads(script[i], ops) /\ script[i].arg \in args
       \/ script[i].step = "publish" /\ script[i].part = "op" /\ script[i].arg = as
  /\ \A i, j \in DOMAIN script : i < j => ~(script[i].arg = "B" /\ script[j].arg = "A")
  /\ \A r \in DOMAIN record, i \in DOMAIN script :
       ~(record[r].arg = "B" /\ script[i].arg = "A")

BurstInv ==
  job = "burst" =>
    \/ script = <<>>
    \/ ~triggered /\ (Forced \/ (record = <<>> /\ Arming))
    \/ Taking({"BurstLength", "ReadBurstChunk"}, {"A", "B"}, "burst")

RollInv ==
  job = "roll" =>
    \/ script = <<>> /\ "op" \in failed
    \/ \E k \in 0 .. 5 : Rest(StartRoll, k) /\ Recent(k, Small)

PollInv ==
  job = "poll" =>
    \/ script = <<>>
    \/ script = PollRoll /\ record = <<>> /\ "op" \notin failed
    \/ script = <<Try("Ping")>>
    \/ Taking({"ReadRollChunk"}, {""}, "roll")

ProtocolInv == /\ TypeOK /\ AnswerInv /\ LinkInv /\ StreamInv /\ PollsInv /\ AsideInv
               /\ BurstInv /\ RollInv /\ PollInv

-----------------------------------------------------------------------------
\* What is owed.

\* The answers owed are those in the pipe and those the device has yet to send.
LEMMA OwedTyped ==
  ASSUME TypeOK
  PROVE  Owed \in Seq(Answers) /\ Len(Owed) = Len(pipe) + Len(slow)
  BY ConcatProperties DEF TypeOK, Owed

\* A read takes the first answer owed.
LEMMA OwedRead ==
  ASSUME TypeOK, pipe # <<>>, pipe' = Tail(pipe), slow' = slow
  PROVE  Owed' = Tail(Owed) /\ Owed # <<>> /\ Head(pipe) = Owed[1]
<1> USE DEF TypeOK, Owed
<1>1. pipe \in Seq(Answers) /\ slow \in Seq(Answers) /\ Len(pipe) > 0
  BY EmptySeq
<1>2. Tail(pipe \o slow) = Tail(pipe) \o slow
  BY <1>1, HeadTailProperties, ConcatProperties
<1>3. QED
  BY <1>1, <1>2, ConcatProperties

\* A write adds the answer to its command.
LEMMA OwedWrite ==
  ASSUME TypeOK, Write, Answer(Head(script)) \in Answers
  PROVE  Owed' = Append(Owed, Answer(Head(script))) /\ Len(slow') <= MaxBehind
<1> DEFINE a == Answer(Head(script))
<1>1. pipe \in Seq(Answers) /\ slow \in Seq(Answers) /\ Len(slow) < MaxBehind
  BY DEF TypeOK, Write
<1>2. CASE slow = <<>> /\ pipe' = Append(pipe, a) /\ UNCHANGED <<slow, late>>
  <2>1. Append(pipe, a) \o <<>> = Append(pipe, a) /\ pipe \o <<>> = pipe
    BY <1>1, AppendProperties, ConcatEmptySeq
  <2>2. QED
    BY <1>1, <1>2, <2>1, ProtocolAssumption DEF Owed
<1>3. CASE slow # <<>> /\ slow' = Append(slow, a) /\ UNCHANGED <<pipe, late>>
  <2>1. pipe \o Append(slow, a) = Append(pipe \o slow, a)
    BY <1>1, AppendProperties, ConcatProperties
  <2>2. QED
    BY <1>1, <1>3, <2>1, AppendProperties, ProtocolAssumption DEF Owed
<1>4. CASE slow = <<>> /\ slow' = <<a>> /\ UNCHANGED pipe
  <2>1. pipe \o <<a>> = Append(pipe, a) /\ pipe \o <<>> = pipe
    BY <1>1, AppendProperties, ConcatProperties, ConcatEmptySeq
  <2>2. QED
    BY <1>1, <1>4, <2>1, ProtocolAssumption DEF Owed
<1>5. QED
  BY <1>2, <1>3, <1>4 DEF Write

Items == Sends \cup Marks

\* A command under way has its answer read, or its time is up: then it is owed too.
Done == /\ awaiting /\ awaiting' = FALSE /\ slow' = slow
        /\ \/ pipe # <<>> /\ pipe' = Tail(pipe)
           \/ pipe = <<>> /\ pipe' = pipe

\* What the device answers is an answer.
LEMMA OwnTyped ==
  ASSUME TypeOK, NEW c \in Sends PROVE Own(c) \in Answers
  BY DEF Own, Sends, Answers, TypeOK, Devices

\* The item of the script that is next.
LEMMA HeadTyped ==
  ASSUME TypeOK, script # <<>>
  PROVE  /\ Head(script) = script[1] /\ script[1] \in Items /\ Len(script) \in Nat \ {0}
         /\ DOMAIN script = 1 .. Len(script)
         /\ script[1].step = "send" => script[1] \in Sends
         /\ script[1].step \in Waits => script[1] \in Marks /\ script[1].left \in 0 .. MaxPolls
<1>1. script \in Seq(Items)
  BY DEF TypeOK, Items
<1>2. Head(script) = script[1] /\ script[1] \in Items
  BY <1>1, HeadTailProperties, EmptySeq
<1>3. Len(script) \in Nat \ {0} /\ DOMAIN script = 1 .. Len(script)
  BY <1>1, EmptySeq, LenProperties
<1>4. script[1].step = "send" => script[1] \in Sends
  BY <1>2 DEF Items, Marks, Waits
<1>5. script[1].step \in Waits => script[1] \in Marks /\ script[1].left \in 0 .. MaxPolls
  BY <1>2 DEF Items, Marks, Sends, Waits
<1>6. QED
  BY <1>2, <1>3, <1>4, <1>5

\* A command leaves the device in a state of its own.
LEMMA AfterCommandTyped ==
  ASSUME TypeOK, NEW c \in Sends
  PROVE  AfterCommand(device, c) \in Devices
<1>1. /\ device.capture \in {0, 1} /\ 1 - device.capture \in {0, 1}
      /\ device \in Devices
      /\ c.arg \in Args
  BY DEF TypeOK, Sends, Devices
<1>2. CASE c.op = "SetTimeDiv"
  BY <1>1, <1>2 DEF AfterCommand, Devices
<1>3. CASE c.op = "SetTrigger"
  BY <1>1, <1>3 DEF AfterCommand, Devices
<1>4. CASE c.op = "StartAcquisition"
  BY <1>1, <1>4 DEF AfterCommand, Devices
<1>5. CASE c.op = "AcquisitionArm"
  BY <1>1, <1>5 DEF AfterCommand, Devices
<1>6. CASE c.op \notin {"SetTimeDiv", "SetTrigger", "StartAcquisition", "AcquisitionArm"}
  BY <1>1, <1>6 DEF AfterCommand, Devices
<1>7. QED
  BY <1>2, <1>3, <1>4, <1>5, <1>6

\* The command that is written is answered last; what was owed before stays.
LEMMA WriteAnswers ==
  ASSUME TypeOK, AnswerInv, Write, Answer(Head(script)) \in Answers
  PROVE  /\ AnswerInv' /\ Foreign' = Foreign
         /\ \A i \in 1 .. Foreign : Owed'[i] = Owed[i]
<1>1. ~awaiting /\ awaiting' /\ UNCHANGED <<job, script>> /\ job # "none" /\ script # <<>>
      /\ Head(script).step = "send"
  BY DEF Write, At, hostVars
<1>2. Owed' = Append(Owed, Answer(Head(script))) /\ Len(slow') <= MaxBehind
  BY OwedWrite
<1>3. Owed \in Seq(Answers) /\ Len(Owed) \in Nat
  BY OwedTyped, LenProperties
<1>4. /\ Len(Owed') = Len(Owed) + 1
      /\ \A i \in 1 .. Len(Owed) : Owed'[i] = Owed[i]
      /\ Owed'[Len(Owed) + 1] = Answer(Head(script))
  BY <1>2, <1>3, AppendProperties
<1>5. Foreign' = Foreign /\ Foreign = Len(Owed)
  BY <1>1, <1>3, <1>4 DEF Foreign
<1>6. Answer(Head(script)) = Own(Head(script))'
  BY <1>1 DEF Answer, Own
<1>7. QED
  BY <1>1, <1>2, <1>3, <1>4, <1>5, <1>6 DEF AnswerInv

\* A read that finds an answer takes the oldest; one whose time is up leaves its
\* own answer owed.
LEMMA DoneAnswers ==
  ASSUME TypeOK, AnswerInv, Done
  PROVE  /\ AnswerInv'
         /\ pipe # <<>> => /\ Foreign' = Foreign /\ Head(pipe) = Owed[1]
                           /\ \A i \in 1 .. Foreign : Owed'[i] = Owed[i + 1]
         /\ pipe = <<>> => Foreign' = Foreign + 1 /\ Owed' = Owed
         /\ Owed[Foreign + 1] = Own(Head(script)) /\ Foreign \in Nat
<1>1. Owed \in Seq(Answers) /\ Len(Owed) \in Nat /\ Len(Owed) = Len(pipe) + Len(slow)
  BY OwedTyped, LenProperties
<1>2. awaiting /\ ~awaiting' /\ Foreign = Len(Owed) - 1 /\ Foreign \in 0 .. MaxBehind
      /\ MaxBehind \in Nat
  BY ProtocolAssumption DEF Done, Foreign, AnswerInv
<1>3. CASE pipe # <<>>
  <2>1. Owed' = Tail(Owed) /\ Owed # <<>> /\ Head(pipe) = Owed[1]
    BY <1>3, OwedRead DEF Done
  <2>2. Len(Owed') = Len(Owed) - 1 /\ \A i \in 1 .. Len(Owed) - 1 : Owed'[i] = Owed[i + 1]
    BY <1>1, <2>1, HeadTailProperties
  <2>3. Foreign' = Foreign
    BY <1>1, <1>2, <2>2 DEF Foreign
  <2>4. QED
    BY <1>1, <1>2, <1>3, <2>1, <2>2, <2>3 DEF AnswerInv, Done
<1>4. CASE pipe = <<>>
  <2>1. Owed' = Owed /\ Len(pipe) = 0
    BY <1>4, EmptySeq DEF Done, Owed
  <2>2. Foreign' = Len(Owed) /\ Len(Owed) = Len(slow)
    BY <1>1, <1>2, <2>1 DEF Foreign, TypeOK
  <2>3. QED
    BY <1>1, <1>2, <1>4, <2>1, <2>2 DEF AnswerInv, Done
<1>5. QED
  BY <1>3, <1>4

\* A command whose answer is in S leaves one more of its kind behind.
LEMMA DoneRecent ==
  ASSUME TypeOK, AnswerInv, Done, NEW CONSTANT S, NEW CONSTANT k \in Nat,
         Recent(k, S), Own(Head(script)) \in S
  PROVE  Recent(k + 1, S)' /\ Recent(k, S)'
<1>1. SUFFICES ASSUME NEW i \in 1 .. Foreign', i > Foreign' - (k + 1) PROVE Owed'[i] \in S
  <2>1. Foreign' \in Nat
    BY DoneAnswers, ProtocolAssumption DEF AnswerInv
  <2>2. \A i \in 1 .. Foreign' : i > Foreign' - (k + 1) => Owed'[i] \in S
    BY <1>1
  <2>3. ASSUME NEW i \in 1 .. Foreign', i > Foreign' - k PROVE Owed'[i] \in S
    <3>1. \A f \in Nat : \A j \in 1 .. f : j > f - k => j > f - (k + 1)
      OBVIOUS
    <3>2. i > Foreign' - (k + 1)
      BY <2>1, <2>3, <3>1
    <3>3. QED
      BY <2>2, <3>2
  <2>4. QED
    BY <2>2, <2>3 DEF Recent
<1>2. CASE pipe # <<>>
  <2>1. Foreign' = Foreign /\ Owed'[i] = Owed[i + 1] /\ Owed[Foreign + 1] \in S /\ Foreign \in Nat
    BY <1>2, DoneAnswers
  <2>2. CASE i = Foreign
    BY <2>1, <2>2
  <2>3. CASE i # Foreign
    <3>1. i + 1 \in 1 .. Foreign /\ i + 1 > Foreign - k
      BY <1>1, <2>1, <2>3
    <3>2. QED
      BY <2>1, <3>1 DEF Recent
  <2>4. QED
    BY <2>2, <2>3
<1>3. CASE pipe = <<>>
  <2>1. Foreign' = Foreign + 1 /\ Owed' = Owed /\ Owed[Foreign + 1] \in S /\ Foreign \in Nat
    BY <1>3, DoneAnswers
  <2>2. CASE i = Foreign + 1
    BY <2>1, <2>2
  <2>3. CASE i # Foreign + 1
    <3>1. i \in 1 .. Foreign /\ i > Foreign - k
      BY <1>1, <2>1, <2>3
    <3>2. QED
      BY <2>1, <3>1 DEF Recent
  <2>4. QED
    BY <2>2, <2>3
<1>4. QED
  BY <1>2, <1>3

\* What is read first is owed to an earlier command, if anything is.
LEMMA ReadFirst ==
  ASSUME TypeOK, AnswerInv, Done, pipe # <<>>
  PROVE  /\ Foreign' = Foreign /\ Foreign \in Nat
         /\ Foreign = 0 => Head(pipe) = Own(Head(script))
         /\ \A S : \A k \in Nat : Recent(k, S) /\ Foreign # 0 /\ Foreign <= k => Head(pipe) \in S
  BY DoneAnswers DEF Recent

-----------------------------------------------------------------------------
\* What is said in each job.

PlainSends == {x \in Sends : x.op # "ReadyPoll"}
PlainItems == PlainSends \cup {x \in Marks : x.step \in {"zero", "measure", "store"}}
FlushSends == {x \in PlainSends : /\ x.part # "op" /\ x.raw = 0 /\ x.echo
                                  /\ x.op \notin {"BurstLength", "RollReadyLength"}}

\* Every command but a poll is a plain one.
LEMMA CommandPlain ==
  ASSUME NEW op \in Opcodes \ {"ReadyPoll"}
  PROVE  /\ Must(op) \in PlainSends /\ Try(op) \in PlainSends
         /\ \A raw \in Nat : Blob(op, raw) \in PlainSends /\ Echoed(op, raw) \in PlainSends
         /\ \A arg \in Args : Set(op, arg) \in PlainSends
         /\ \A arg \in Args, raw \in Nat : Ask(op, arg, raw) \in PlainSends
<1> USE DEF Command, PlainSends, Sends, Parts
<1>1. "" \in Args
  BY DEF Args
<1>2. Must(op) \in PlainSends /\ Try(op) \in PlainSends
  BY <1>1 DEF Must, Try
<1>3. \A raw \in Nat : Blob(op, raw) \in PlainSends /\ Echoed(op, raw) \in PlainSends
  BY <1>1 DEF Blob, Echoed
<1>4. \A arg \in Args : Set(op, arg) \in PlainSends
  BY DEF Set
<1>5. \A arg \in Args, raw \in Nat : Ask(op, arg, raw) \in PlainSends
  BY DEF Ask
<1>6. QED
  BY <1>2, <1>3, <1>4, <1>5

\* The arguments the sequences use.
LEMMA SomeArgs == /\ "A" \in Args /\ "B" \in Args /\ "burst" \in Args /\ "roll" \in Args
                  /\ "forced" \in Args /\ "unforced" \in Args
  BY DEF Args

\* The same, for what may be any item.
LEMMA CommandItems ==
  ASSUME NEW S, PlainSends \subseteq S
  PROVE  \A op \in Opcodes \ {"ReadyPoll"} :
           /\ Must(op) \in S /\ Try(op) \in S
           /\ \A raw \in Nat : Blob(op, raw) \in S /\ Echoed(op, raw) \in S
           /\ \A arg \in Args : Set(op, arg) \in S
           /\ \A arg \in Args, raw \in Nat : Ask(op, arg, raw) \in S
  BY CommandPlain

\* The same as items of a script.
LEMMA PlainCommands ==
  \A op \in Opcodes \ {"ReadyPoll"} :
    /\ Must(op) \in PlainItems /\ Try(op) \in PlainItems
    /\ \A raw \in Nat : Blob(op, raw) \in PlainItems /\ Echoed(op, raw) \in PlainItems
    /\ \A arg \in Args : Set(op, arg) \in PlainItems
    /\ \A arg \in Args, raw \in Nat : Ask(op, arg, raw) \in PlainItems
<1>1. PlainSends \subseteq PlainItems
  BY DEF PlainItems
<1>2. QED
  BY <1>1, CommandItems

\* The first phase of open(), the settings and the reads are plain commands.
LEMMA PhasesPlain ==
  /\ Phase1 \in Seq(PlainItems) /\ Settings \in Seq(PlainItems)
  /\ RateAndTrigger \in Seq(PlainItems) /\ ReadHalves \in Seq(PlainItems)
<1> USE PlainCommands, SomeArgs DEF Ping, Opcodes
<1>1. Phase1 \in Seq(PlainItems)
  BY DEF Phase1
<1>2. Settings \in Seq(PlainItems) /\ RateAndTrigger \in Seq(PlainItems)
      /\ ReadHalves \in Seq(PlainItems)
  BY DEF Settings, RateAndTrigger, ReadHalves
<1>3. QED
  BY <1>1, <1>2

\* So is the third phase of open().
LEMMA Phase3Plain == Phase3 \in Seq(PlainItems)
<1> USE PlainCommands, SomeArgs DEF Ping, Opcodes
<1> DEFINE begin == <<Must("StatusF6"), Blob("StatusE5", 2), Blob("StatusF7", 64), Blob("StatusF8", 64),
                      Blob("StatusFa", 56), Set("SetTimeDiv", "burst"), Must("ConfigAc"), Must("StatusE4"),
                      Blob("StatusE6", 10)>>
           end == <<Echoed("StatusA7", 1), Must("ConfigAc"), Must("SetTriggerLevel"),
                    Blob("StatusE9", 2)>>
<1>1. begin \in Seq(PlainItems) /\ end \in Seq(PlainItems)
  OBVIOUS
<1>2. Phase3 = begin \o Settings \o RateAndTrigger \o end
  BY DEF Phase3
<1> HIDE DEF begin, end
<1>3. QED
  BY <1>1, <1>2, PhasesPlain, ConcatProperties

\* So is the beginning of a burst.
LEMMA StartBurstPlain ==
  ASSUME NEW force \in {"forced", "unforced"}
  PROVE  StartBurst(force) \in Seq(PlainItems)
<1> USE PlainCommands, SomeArgs DEF Ping, Watch, Opcodes
<1> DEFINE begin == <<Try("StatusE4"), Blob("StatusE6", 10), Watch, Try("StatusE4"), Blob("StatusE6", 10),
                      Set("StartAcquisition", "burst"), Set("AcquisitionArm", force)>>
           end == IF force = "forced" THEN <<Must("AcquisitionGo")>> ELSE <<>>
<1>1. begin \in Seq(PlainItems)
  OBVIOUS
<1>2. end \in Seq(PlainItems)
  BY EmptySeq
<1>3. StartBurst(force) = begin \o end
  BY DEF StartBurst
<1> HIDE DEF begin, end
<1>4. QED
  BY <1>1, <1>2, <1>3, ConcatProperties

\* A part keeps what its items are, but for the part.
LEMMA InPartItems ==
  ASSUME NEW S, NEW T, NEW items \in Seq(S), NEW part,
         \A x \in S : [x EXCEPT !.part = part] \in T
  PROVE  InPart(part, items) \in Seq(T)
<1>1. DOMAIN items = 1 .. Len(items) /\ Len(items) \in Nat
      /\ \A i \in 1 .. Len(items) : items[i] \in S
  BY LenProperties, ElementOfSeq
<1>2. InPart(part, items) \in [1 .. Len(items) -> T]
  BY <1>1 DEF InPart
<1>3. QED
  BY <1>1, <1>2, SeqDef

\* So is the measurement of the zero offsets.
LEMMA ZeroOffsetsPlain == ZeroOffsets \in Seq(PlainItems)
<1> USE DEF Ping
<1> DEFINE begin == <<Ping, Must("SetVerticalScale"), Set("StartAcquisition", "burst"),
                      Set("AcquisitionArm", "forced"), Must("AcquisitionGo"), Await("zero", MaxPolls)>>
           S == PlainSends \cup {x \in Marks : x.step = "zero"}
<1>1. PlainSends \subseteq S
  OBVIOUS
<1>2. Await("zero", MaxPolls) \in S
  BY ProtocolAssumption DEF Await, Marks, Waits, Parts
<1> HIDE DEF S
<1>3. \A op \in Opcodes \ {"ReadyPoll"} :
        /\ Must(op) \in S
        /\ \A arg \in Args : Set(op, arg) \in S
        /\ \A arg \in Args, raw \in Nat : Ask(op, arg, raw) \in S
  BY <1>1, CommandItems
<1>4. begin \in Seq(S)
  BY <1>2, <1>3, SomeArgs DEF Opcodes
<1>5. ReadHalves \in Seq(S)
  BY <1>3, SomeArgs DEF ReadHalves, Opcodes
<1> HIDE DEF begin
<1>6. begin \o ReadHalves \in Seq(S)
  BY <1>4, <1>5, ConcatProperties
<1>11. MeasureRange = begin \o ReadHalves
  BY DEF MeasureRange, begin
<1>12. MeasureRange \o MeasureRange \o MeasureRange \in Seq(S)
  BY <1>6, <1>11, ConcatProperties
<1>7. \A x \in PlainSends : [x EXCEPT !.part = "zero"] \in PlainItems
  BY DEF PlainItems, PlainSends, Sends, Parts
<1>9. \A x \in Marks : x.step = "zero" => [x EXCEPT !.part = "zero"] \in PlainItems
  BY DEF PlainItems, Marks, Parts, Waits
<1>10. \A x \in S : [x EXCEPT !.part = "zero"] \in PlainItems
  BY <1>7, <1>9 DEF S
<1>8. QED
  BY <1>10, <1>12, InPartItems DEF ZeroOffsets

\* The generator is flushed with commands of a part of their own.
LEMMA FlushPlain == FlushGenerator \in Seq(FlushSends)
<1> DEFINE S == {x \in PlainSends : /\ x.raw = 0 /\ x.echo
                                    /\ x.op \notin {"BurstLength", "RollReadyLength"}}
           pattern == <<Must("GeneratorEnable"), Must("GeneratorLength"),
                        Must("GeneratorWaveform"), Must("GeneratorWaveform")>>
           speed == <<Must("GeneratorSpeed")>>
           output == <<Must("GeneratorEnable"), Must("GeneratorSwitch")>>
<1>1. \A op \in Opcodes \ {"ReadyPoll", "BurstLength", "RollReadyLength"} : Must(op) \in S
  BY CommandPlain DEF Must, Command
<1>2. pattern \in Seq(S) /\ speed \in Seq(S) /\ output \in Seq(S)
  BY <1>1 DEF Opcodes
<1>3. \A part \in Parts \ {"op"} : \A x \in S : [x EXCEPT !.part = part] \in FlushSends
  BY DEF FlushSends, PlainSends, Sends
<1>4. FlushGenerator = InPart("pattern", pattern) \o InPart("speed", speed) \o InPart("output", output)
  BY DEF FlushGenerator
<1> HIDE DEF S, pattern, speed, output
<1>5. /\ InPart("pattern", pattern) \in Seq(FlushSends) /\ InPart("speed", speed) \in Seq(FlushSends)
      /\ InPart("output", output) \in Seq(FlushSends)
  BY <1>2, <1>3, InPartItems DEF Parts
<1>6. QED
  BY <1>4, <1>5, ConcatProperties

-----------------------------------------------------------------------------
\* How a step changes what is left to say.

\* A set of numbers has a least one.
LEMMA SmallestIn ==
  ASSUME NEW T, T \subseteq Nat, T # {}
  PROVE  \E x \in T : \A y \in T : x <= y
<1> DEFINE R == OpToRel(<, Nat)
<1>1. R = {ss \in Nat \X Nat : ss[1] < ss[2]}
  BY DEF OpToRel
<1>2. IsWellFoundedOn(R, Nat)
  BY NatLessThanWellFounded
<1> HIDE DEF R
<1>3. PICK x \in T : \A y \in T : ~ (<<y, x>> \in R)
  BY <1>2, WFMin
<1>4. ASSUME NEW y \in T PROVE x <= y
  <2>1. x \in Nat /\ y \in Nat /\ ~ (<<y, x>> \in R)
    BY <1>3
  <2>2. y < x => <<y, x>> \in R
    BY <1>1, <2>1
  <2>3. QED
    BY <2>1, <2>2
<1>5. QED
  BY <1>4

\* What is left is what was left, without its first m items.
Drops(m) == /\ Len(script') = Len(script) - m
            /\ \A i \in 1 .. Len(script') : script'[i] = script[i + m]

\* Going on takes the first item away.
LEMMA TailDrops ==
  ASSUME TypeOK, script # <<>>, script' = Tail(script)
  PROVE  script' \in Seq(Items) /\ Drops(1)
  BY HeadTailProperties DEF TypeOK, Items, Drops

\* A part that fails is left behind, or the operation with it.
LEMMA AfterPartDrops ==
  ASSUME TypeOK, script # <<>>, script' = AfterPart
  PROVE  /\ script' \in Seq(Items)
         /\ \/ script' = <<>>
            \/ script[1].part # "op" /\ \E m \in 1 .. Len(script) : Drops(m)
<1>1. script \in Seq(Items) /\ Head(script) = script[1] /\ DOMAIN script = 1 .. Len(script)
      /\ Len(script) \in Nat
  BY HeadTyped DEF TypeOK, Items
<1>2. CASE script[1].part = "op" \/ NextPart = {}
  BY <1>1, <1>2, EmptySeq DEF AfterPart
<1>3. CASE script[1].part # "op" /\ NextPart # {}
  <2>1. NextPart \subseteq 2 .. Len(script)
    BY <1>1 DEF NextPart
  <2>2. \E x \in NextPart : \A y \in NextPart : x <= y
    <3>1. NextPart \subseteq Nat
      BY <1>1, <2>1
    <3>2. QED
      BY <1>3, <3>1, SmallestIn
  <2>3. Min(NextPart) \in NextPart
    BY <2>2 DEF Min
  <2> DEFINE m == Min(NextPart)
  <2>4. m \in 2 .. Len(script) /\ script' = SubSeq(script, m, Len(script))
    BY <1>1, <1>3, <2>1, <2>3 DEF AfterPart
  <2> HIDE DEF m
  <2>5. \A i \in m .. Len(script) : script[i] \in Items
    BY <1>1, <2>4, ElementOfSeq
  <2>6. /\ script' \in Seq(Items) /\ Len(script') = Len(script) - m + 1
        /\ \A i \in 1 .. Len(script) - m + 1 : script'[i] = script[m + i - 1]
    BY <1>1, <2>4, <2>5, SubSeqProperties
  <2>7. Drops(m - 1)
    BY <1>1, <2>4, <2>6 DEF Drops
  <2>8. m - 1 \in 1 .. Len(script)
    BY <1>1, <2>4
  <2>9. QED
    BY <1>3, <2>6, <2>7, <2>8
<1>4. QED
  BY <1>2, <1>3

\* An accepted length is followed by n packets of its own.
Spreads(n) == /\ Len(script') = Len(script) - 1 + n
              /\ \A i \in 1 .. n : script'[i] = ChunksOf(script[1])
              /\ \A i \in n + 1 .. Len(script') : script'[i] = script[i + 1 - n]

\* An accepted length is followed by the packets it announces.
LEMMA ChunksSpread ==
  ASSUME TypeOK, script # <<>>, script[1].step = "send", NEW n \in Nat,
         script' = [i \in 1 .. n |-> ChunksOf(script[1])] \o Tail(script)
  PROVE  script' \in Seq(Items) /\ Spreads(n)
<1> DEFINE chunks == [i \in 1 .. n |-> ChunksOf(script[1])]
<1>1. script \in Seq(Items) /\ script[1] \in Sends /\ Len(script) \in Nat \ {0}
  BY HeadTyped DEF TypeOK, Items
<1>2. ChunksOf(script[1]) \in Items
  <2>1. "ReadBurstChunk" \in Opcodes /\ "ReadRollChunk" \in Opcodes
    BY DEF Opcodes
  <2>2. QED
    BY <1>1, <2>1 DEF ChunksOf, Items, Sends
<1>3. chunks \in Seq(Items) /\ Len(chunks) = n /\ \A i \in 1 .. n : chunks[i] = ChunksOf(script[1])
  <2>1. chunks \in [1 .. n -> Items]
    BY <1>2
  <2>2. chunks \in Seq(Items)
    BY <2>1, SeqDef
  <2>3. QED
    BY <2>2, LenProperties
<1>4. /\ Tail(script) \in Seq(Items) /\ Len(Tail(script)) = Len(script) - 1
      /\ \A i \in 1 .. Len(script) - 1 : Tail(script)[i] = script[i + 1]
  BY <1>1, HeadTailProperties
<1>5. script' = chunks \o Tail(script)
  OBVIOUS
<1> HIDE DEF chunks
<1>6. /\ script' \in Seq(Items) /\ Len(script') = n + (Len(script) - 1)
      /\ \A i \in 1 .. n + (Len(script) - 1) :
           script'[i] = IF i <= n THEN chunks[i] ELSE Tail(script)[i - n]
  BY <1>3, <1>4, <1>5, ConcatProperties
<1>7. \A i \in 1 .. n : script'[i] = ChunksOf(script[1])
  BY <1>1, <1>3, <1>6
<1>8. ASSUME NEW i \in n + 1 .. Len(script') PROVE script'[i] = script[i + 1 - n]
  <2>1. i - n \in 1 .. Len(script) - 1 /\ i \in 1 .. n + (Len(script) - 1) /\ ~(i <= n)
    BY <1>1, <1>6, <1>8
  <2>2. script'[i] = script[(i - n) + 1]
    BY <1>4, <1>6, <2>1
  <2>3. (i - n) + 1 = i + 1 - n
    BY <2>1
  <2>4. QED
    BY <2>2, <2>3
<1>9. QED
  BY <1>1, <1>6, <1>7, <1>8 DEF Spreads

\* A command is done with: its answer is taken, or it fails and this matters or not.
Lengths == {"BurstLength", "RollReadyLength"}
Packets == {"ReadBurstChunk", "ReadRollChunk"}
Taken ==
  /\ pipe # <<>> /\ Accepts(script[1], Head(pipe)) /\ failed' = failed
  /\ \/ /\ script[1].op \notin Lengths /\ Drops(1)
        /\ record' = IF script[1].op \in Packets THEN Append(record, Head(pipe)) ELSE record
     \/ script[1].op \in Lengths /\ record' = record /\ \E n \in 0 .. MaxChunks : Spreads(n)
     \/ script[1].op = "RollReadyLength" /\ record' = record /\ script' = <<Try("Ping")>>
GivenUp ==
  /\ script[1].must /\ failed' = failed \cup {script[1].part} /\ record' = record
  /\ script' = <<>> \/ (script[1].part # "op" /\ \E m \in 1 .. Len(script) : Drops(m))
Ignored == ~script[1].must /\ failed' = failed /\ record' = record /\ Drops(1)

\* A command under way is the first item of a script of some job.
LEMMA CommandHead ==
  ASSUME TypeOK, AnswerInv, awaiting
  PROVE  /\ job # "none" /\ script # <<>> /\ Head(script) = script[1] /\ script[1] \in Sends
         /\ script[1].step = "send" /\ script[1].must \in BOOLEAN /\ Len(script) \in Nat \ {0}
<1>1. job # "none" /\ script # <<>> /\ Head(script).step = "send"
  BY DEF AnswerInv
<1>2. Head(script) = script[1] /\ script[1] \in Sends /\ Len(script) \in Nat \ {0}
  BY <1>1, HeadTyped
<1>3. QED
  BY <1>1, <1>2 DEF Sends

\* A command that fails ends its part, or does not matter.
LEMMA FailsOutcome ==
  ASSUME TypeOK, AnswerInv, awaiting, Fails(Head(script))
  PROVE  script' \in Seq(Items) /\ (GivenUp \/ Ignored)
<1>1. script # <<>> /\ Head(script) = script[1] /\ script[1].must \in BOOLEAN
  BY CommandHead
<1>2. CASE script[1].must
  <2>1. FailsPart /\ record' = record
    BY <1>1, <1>2 DEF Fails
  <2>2. QED
    BY <1>1, <1>2, <2>1, AfterPartDrops DEF FailsPart, GivenUp
<1>3. CASE ~script[1].must
  <2>1. script' = Tail(script) /\ failed' = failed /\ record' = record
    BY <1>1, <1>3 DEF Fails
  <2>2. QED
    BY <1>1, <1>3, <2>1, TailDrops DEF Ignored
<1>4. QED
  BY <1>1, <1>2, <1>3

\* A command that succeeds goes on, is sent again, or announces packets.
LEMMA SucceedsOutcome ==
  ASSUME TypeOK, AnswerInv, awaiting, pipe # <<>>, Accepts(Head(script), Head(pipe)),
         Succeeds(Head(script), Head(pipe))
  PROVE  script' \in Seq(Items) /\ Taken
<1>1. /\ script # <<>> /\ Head(script) = script[1] /\ script[1].step = "send"
      /\ Accepts(script[1], Head(pipe)) /\ Succeeds(script[1], Head(pipe))
  BY CommandHead
<1>2. failed' = failed
  BY <1>1 DEF Succeeds
<1>3. CASE script[1].op \notin Lengths
  <2>1. script' = Tail(script)
        /\ record' = IF script[1].op \in Packets THEN Append(record, Head(pipe)) ELSE record
    BY <1>1, <1>3 DEF Succeeds, Lengths, Packets
  <2>2. QED
    BY <1>1, <1>2, <1>3, <2>1, TailDrops DEF Taken
<1>4. CASE script[1].op \in Lengths
  <2>1. record' = record
    BY <1>1, <1>4 DEF Succeeds, Lengths
  <2>2. PICK n \in Length(script[1], Head(pipe)) :
          script' = (IF n = 0 /\ script[1].op = "RollReadyLength" THEN <<Try("Ping")>>
                     ELSE [i \in 1 .. n |-> ChunksOf(script[1])] \o Tail(script))
    BY <1>1, <1>4 DEF Succeeds, Lengths
  <2>3. n \in 0 .. MaxChunks /\ n \in Nat
    BY ProtocolAssumption DEF Length
  <2>4. CASE n = 0 /\ script[1].op = "RollReadyLength"
    <3>1. script' = <<Try("Ping")>>
      BY <2>2, <2>4
    <3>2. Try("Ping") \in Items
      BY CommandPlain DEF Opcodes, PlainSends, Items
    <3>3. QED
      BY <1>1, <1>2, <2>1, <2>4, <3>1, <3>2 DEF Taken
  <2>5. CASE ~(n = 0 /\ script[1].op = "RollReadyLength")
    <3>1. script' = [i \in 1 .. n |-> ChunksOf(script[1])] \o Tail(script)
      BY <2>2, <2>5
    <3>2. script' \in Seq(Items) /\ Spreads(n)
      BY <1>1, <2>3, <3>1, ChunksSpread
    <3>3. QED
      BY <1>1, <1>2, <1>4, <2>1, <2>3, <3>2 DEF Taken
  <2>6. QED
    BY <2>4, <2>5
<1>5. QED
  BY <1>3, <1>4

\* Nothing else happens when an answer is read or its time is up.
LEMMA Outcome ==
  ASSUME TypeOK, AnswerInv, Read \/ TimeOut
  PROVE  /\ Done /\ UNCHANGED <<link, mode, sweep, dirty, started, job, late, triggered, device>>
         /\ script[1].op # "ReadyPoll" /\ script' \in Seq(Items)
         /\ Taken \/ GivenUp \/ Ignored
<1>1. CASE Read
  <2>1. /\ Done /\ UNCHANGED <<link, mode, sweep, dirty, started, job, late, triggered, device>>
        /\ awaiting /\ Head(script).op # "ReadyPoll" /\ pipe # <<>>
    BY <1>1 DEF Read, Done, hostVars
  <2>2. script[1].op # "ReadyPoll"
    BY <2>1, CommandHead
  <2>3. CASE Accepts(Head(script), Head(pipe))
    <3>1. Succeeds(Head(script), Head(pipe))
      BY <1>1, <2>3 DEF Read
    <3>2. QED
      BY <2>1, <2>2, <2>3, <3>1, SucceedsOutcome
  <2>4. CASE ~Accepts(Head(script), Head(pipe))
    <3>1. Fails(Head(script))
      BY <1>1, <2>4 DEF Read
    <3>2. QED
      BY <2>1, <2>2, <3>1, FailsOutcome
  <2>5. QED
    BY <2>3, <2>4
<1>2. CASE TimeOut
  <2>1. /\ Done /\ UNCHANGED <<link, mode, sweep, dirty, started, job, late, triggered, device>>
        /\ awaiting /\ Head(script).op # "ReadyPoll" /\ Fails(Head(script))
    BY <1>2 DEF TimeOut, Done, hostVars, busVars
  <2>2. script[1].op # "ReadyPoll"
    BY <2>1, CommandHead
  <2>3. QED
    BY <2>1, <2>2, FailsOutcome
<1>3. QED
  BY <1>1, <1>2

\* The halves of a burst are read, and published.
Halves == ReadHalves \o <<Step("publish", "burst")>>

\* Both halves of a burst, and its publication.
LEMMA HalvesAre ==
  /\ Halves \in Seq(Items) /\ Len(Halves) = 3
  /\ Halves[1] = Ask("BurstLength", "A", 2) /\ Halves[2] = Ask("BurstLength", "B", 2)
  /\ Halves[3] = Step("publish", "burst")
<1>1. Ask("BurstLength", "A", 2) \in Items /\ Ask("BurstLength", "B", 2) \in Items
  <2>1. "BurstLength" \in Opcodes \ {"ReadyPoll"}
    BY DEF Opcodes
  <2>2. Ask("BurstLength", "A", 2) \in PlainSends /\ Ask("BurstLength", "B", 2) \in PlainSends
    BY <2>1, CommandPlain, SomeArgs
  <2>3. QED
    BY <2>2 DEF PlainSends, Items
<1>2. Step("publish", "burst") \in Items
  BY SomeArgs DEF Step, Items, Marks
<1>3. Halves = <<Ask("BurstLength", "A", 2), Ask("BurstLength", "B", 2)>> \o <<Step("publish", "burst")>>
  BY DEF Halves, ReadHalves
<1>4. <<Ask("BurstLength", "A", 2), Ask("BurstLength", "B", 2)>> \in Seq(Items)
      /\ <<Step("publish", "burst")>> \in Seq(Items)
  BY <1>1, <1>2
<1>5. QED
  BY <1>3, <1>4, ConcatProperties

\* A wait asks, watches, or finds that it has asked for nothing.
Asked     == /\ Len(script') = Len(script) + 1 /\ script'[1] = Poll(script[1])
             /\ script'[2] = [script[1] EXCEPT !.left = @ - 1]
             /\ \A i \in 3 .. Len(script') : script'[i] = script[i - 1]
Watched   == /\ Len(script') = Len(script) /\ script'[1] = Watch
             /\ \A i \in 2 .. Len(script') : script'[i] = script[i]
NotReady  == /\ Len(script') = Len(script) - 1 /\ script'[1] = [script[2] EXCEPT !.left = 0]
             /\ \A i \in 2 .. Len(script') : script'[i] = script[i + 1]

\* An item before a script.
LEMMA PutBefore ==
  ASSUME NEW S, NEW s \in Seq(S), NEW x \in S
  PROVE  /\ <<x>> \o s \in Seq(S) /\ Len(<<x>> \o s) = Len(s) + 1
         /\ (<<x>> \o s)[1] = x /\ \A i \in 2 .. Len(s) + 1 : (<<x>> \o s)[i] = s[i - 1]
<1>1. <<x>> \in Seq(S) /\ Len(<<x>>) = 1 /\ <<x>>[1] = x /\ Len(s) \in Nat
  BY LenProperties
<1>2. QED
  BY <1>1, ConcatProperties

\* Two items before a script.
LEMMA PutTwoBefore ==
  ASSUME NEW S, NEW s \in Seq(S), NEW x \in S, NEW y \in S
  PROVE  /\ <<x, y>> \o s \in Seq(S) /\ Len(<<x, y>> \o s) = Len(s) + 2
         /\ (<<x, y>> \o s)[1] = x /\ (<<x, y>> \o s)[2] = y
         /\ \A i \in 3 .. Len(s) + 2 : (<<x, y>> \o s)[i] = s[i - 2]
<1>1. <<x, y>> \in Seq(S) /\ Len(<<x, y>>) = 2 /\ <<x, y>>[1] = x /\ <<x, y>>[2] = y /\ Len(s) \in Nat
  BY LenProperties
<1>2. QED
  BY <1>1, ConcatProperties

\* A wait, and the poll it sends.
LEMMA MarkTyped ==
  ASSUME NEW x \in Items, x.step \in Waits
  PROVE  /\ x \in Marks /\ x.left \in 0 .. MaxPolls /\ x.part \in Parts /\ [x EXCEPT !.left = 0] \in Items
         /\ x.left # 0 => [x EXCEPT !.left = @ - 1] \in Items
         /\ Poll(x) \in Items /\ Poll(x).step = "send" /\ Poll(x).op = "ReadyPoll"
         /\ Poll(x).part = x.part /\ [x EXCEPT !.left = 0].step = x.step
<1>1. x \in [step : Waits, part : Parts, left : 0 .. MaxPolls]
  BY DEF Items, Sends, Marks, Waits
<1>2. x.left \in 0 .. MaxPolls /\ x.part \in Parts /\ x.step \in Waits /\ MaxPolls \in Nat
  BY <1>1, ProtocolAssumption
<1>3. [x EXCEPT !.left = 0] \in Items /\ [x EXCEPT !.left = 0].step = x.step
  BY <1>1, <1>2 DEF Items, Marks
<1>4. x.left # 0 => [x EXCEPT !.left = @ - 1] \in Items
  <2>1. x.left # 0 => x.left - 1 \in 0 .. MaxPolls
    BY <1>2
  <2>2. QED
    BY <1>1, <2>1 DEF Items, Marks
<1>5. /\ Poll(x) \in Items /\ Poll(x).step = "send" /\ Poll(x).op = "ReadyPoll"
      /\ Poll(x).part = x.part
  <2>1. x.step \in Args /\ "ReadyPoll" \in Opcodes
    BY <1>2 DEF Args, Opcodes
  <2>2. QED
    BY <1>2, <2>1 DEF Poll, Ask, Command, Items, Sends
<1>6. QED
  BY <1>1, <1>2, <1>3, <1>4, <1>5 DEF Marks

\* What becomes of a wait.
LEMMA WaitOutcome ==
  ASSUME TypeOK, Wait
  PROVE  /\ ~awaiting /\ awaiting' = awaiting /\ script # <<>> /\ script[1].step \in Waits
         /\ job # "none"
         /\ UNCHANGED <<link, mode, sweep, dirty, started, job, pipe, slow, late, record,
                        triggered, device>>
         /\ script' \in Seq(Items) /\ Len(script) \in Nat \ {0}
         /\ \/ script[1].left # 0 /\ Asked /\ failed' = failed
            \/ /\ script[1].left = 0 /\ script[1].step = "wait" /\ failed' = failed
               /\ script' = <<>> \/ script' = <<Try("AcquisitionGo"), Await("again", 1)>>
            \/ script[1].left = 0 /\ script[1].step = "again" /\ failed' = failed /\ script' = Halves
            \/ /\ script[1].left = 0 /\ script[1].step \in {"zero", "measure"}
               /\ failed' = failed \cup {script[1].step}
               /\ script' = <<>> \/ \E m \in 1 .. Len(script) : Drops(m)
<1>1. /\ ~awaiting /\ awaiting' = awaiting /\ script # <<>> /\ Head(script).step \in Waits
      /\ job # "none"
      /\ UNCHANGED <<link, mode, sweep, dirty, started, job, pipe, slow, late, record,
                     triggered, device>>
  BY DEF Wait, At, hostVars, busVars
<1>2. /\ Head(script) = script[1] /\ script[1] \in Items /\ Len(script) \in Nat \ {0}
      /\ script \in Seq(Items) /\ script[1].step \in Waits
  BY <1>1, HeadTyped DEF TypeOK, Items
<1>3. CASE script[1].left # 0
  <2> DEFINE w == [script[1] EXCEPT !.left = @ - 1]
  <2>1. failed' = failed /\ script' = <<Poll(script[1]), w>> \o Tail(script)
    BY <1>2, <1>3 DEF Wait, Remaining
  <2>2. Poll(script[1]) \in Items /\ w \in Items
    BY <1>2, <1>3, MarkTyped
  <2>3. /\ Tail(script) \in Seq(Items) /\ Len(Tail(script)) = Len(script) - 1
        /\ \A i \in 1 .. Len(script) - 1 : Tail(script)[i] = script[i + 1]
    BY <1>1, <1>2, HeadTailProperties
  <2> HIDE DEF w
  <2>4. /\ script' \in Seq(Items) /\ Len(script') = Len(Tail(script)) + 2
        /\ script'[1] = Poll(script[1]) /\ script'[2] = w
        /\ \A i \in 3 .. Len(Tail(script)) + 2 : script'[i] = Tail(script)[i - 2]
    BY <2>1, <2>2, <2>3, PutTwoBefore
  <2>5. ASSUME NEW i \in 3 .. Len(script') PROVE script'[i] = script[i - 1]
    <3>1. i - 2 \in 1 .. Len(script) - 1 /\ i \in 3 .. Len(Tail(script)) + 2 /\ (i - 2) + 1 = i - 1
      BY <1>2, <2>3, <2>4, <2>5
    <3>2. QED
      BY <2>3, <2>4, <3>1
  <2>6. Asked
    BY <1>2, <2>3, <2>4, <2>5 DEF Asked, w
  <2>7. QED
    BY <1>1, <1>2, <1>3, <2>1, <2>4, <2>6
<1>4. CASE script[1].left = 0
  <2>1. /\ script' = GaveUp(script[1].step)
        /\ failed' = IF script[1].step \in {"zero", "measure"} THEN failed \cup {script[1].step}
                     ELSE failed
    BY <1>2, <1>4 DEF Wait
  <2>2. CASE script[1].step = "wait"
    <3>1. script' = <<>> \/ script' = <<Try("AcquisitionGo"), Await("again", 1)>>
      BY <2>1, <2>2 DEF GaveUp
    <3>2. Try("AcquisitionGo") \in Items
      BY CommandPlain DEF PlainSends, Items, Opcodes
    <3>3. Await("again", 1) \in Items
      BY ProtocolAssumption DEF Await, Items, Marks, Waits, Parts
    <3>4. <<>> \in Seq(Items) /\ <<Try("AcquisitionGo"), Await("again", 1)>> \in Seq(Items)
      BY <3>2, <3>3
    <3>5. QED
      BY <1>1, <1>2, <1>4, <2>1, <2>2, <3>1, <3>4
  <2>3. CASE script[1].step = "again"
    <3>1. script' = Halves
      BY <2>1, <2>3 DEF GaveUp, Halves
    <3>2. QED
      BY <1>1, <1>2, <1>4, <2>1, <2>3, <3>1, HalvesAre
  <2>4. CASE script[1].step = "zero"
    <3>1. script' = AfterPart
      BY <2>1, <2>4 DEF GaveUp
    <3>2. QED
      BY <1>1, <1>2, <1>4, <2>1, <2>4, <3>1, AfterPartDrops
  <2>5. CASE script[1].step = "measure"
    <3>1. script' = <<>>
      BY <2>1, <2>5 DEF GaveUp
    <3>2. QED
      BY <1>1, <1>2, <1>4, <2>1, <2>5, <3>1, EmptySeq
  <2>6. QED
    BY <1>2, <2>2, <2>3, <2>4, <2>5 DEF Waits
<1>5. QED
  BY <1>3, <1>4

\* What becomes of a poll.
LEMMA PollOutcome ==
  ASSUME TypeOK, AnswerInv, PollsInv, ReadPoll \/ PollTimesOut
  PROVE  /\ Done /\ UNCHANGED <<link, mode, sweep, dirty, started, job, failed, late, record, device>>
         /\ script[1].op = "ReadyPoll" /\ script' \in Seq(Items)
         /\ Len(script) \in Nat /\ Len(script) > 1 /\ script[2].step \in Waits
         /\ \/ /\ pipe # <<>> /\ Head(pipe).op = "ReadyPoll"
               /\ script[2].step \in {"wait", "again"} /\ script' = Halves
               /\ triggered' = (triggered \/ script[2].step = "wait")
            \/ script[2].step \in {"zero", "measure"} /\ Drops(2) /\ triggered' = triggered
            \/ pipe # <<>> /\ Head(pipe).op = "ReadyPoll" /\ Watched /\ triggered' = triggered
            \/ NotReady /\ triggered' = triggered
<1> DEFINE wait == script[2]
           rest == SubSeq(script, 3, Len(script))
<1>1. /\ Done /\ UNCHANGED <<link, mode, sweep, dirty, started, job, failed, late, record, device>>
      /\ awaiting /\ Head(script).op = "ReadyPoll"
  BY DEF ReadPoll, PollTimesOut, Done, hostVars, busVars
<1>2. /\ script[1] \in Sends /\ script[1].step = "send" /\ script[1].op = "ReadyPoll"
      /\ script \in Seq(Items) /\ Len(script) \in Nat \ {0}
  BY <1>1, CommandHead DEF TypeOK, Items
<1>3. Len(script) > 1 /\ wait.step \in Waits
  BY <1>2, LenProperties DEF PollsInv
<1>4. wait \in Items
  BY <1>2, <1>3, ElementOfSeq
<1>5. /\ rest \in Seq(Items) /\ Len(rest) = Len(script) - 2
      /\ \A i \in 1 .. Len(script) - 2 : rest[i] = script[i + 2]
  <2>1. \A i \in 3 .. Len(script) : script[i] \in Items
    BY <1>2, ElementOfSeq
  <2>2. /\ rest \in Seq(Items) /\ Len(rest) = IF 3 <= Len(script) THEN Len(script) - 3 + 1 ELSE 0
        /\ \A i \in 1 .. Len(script) - 3 + 1 : rest[i] = script[3 + i - 1]
    BY <1>2, <2>1, SubSeqProperties
  <2>3. Len(script) - 3 + 1 = Len(script) - 2
        /\ \A i \in 1 .. Len(script) - 2 : 3 + i - 1 = i + 2
    BY <1>2
  <2>4. QED
    BY <1>2, <1>3, <2>2, <2>3
<1>6. /\ Watch \in Items /\ [wait EXCEPT !.left = 0] \in Items
  <2>1. Watch \in Items
    BY CommandPlain DEF Watch, PlainSends, Items, Opcodes
  <2>2. QED
    BY <1>3, <1>4, <2>1, MarkTyped
<1>7. \/ script' = rest /\ wait.step \in {"zero", "measure"} /\ triggered' = triggered
      \/ /\ pipe # <<>> /\ Head(pipe).op = "ReadyPoll" /\ wait.step \in {"wait", "again"}
         /\ script' = Halves /\ triggered' = (triggered \/ wait.step = "wait")
      \/ /\ pipe # <<>> /\ Head(pipe).op = "ReadyPoll" /\ script' = <<Watch, wait>> \o rest
         /\ triggered' = triggered
      \/ script' = <<[wait EXCEPT !.left = 0]>> \o rest /\ triggered' = triggered
  <2>1. CASE PollTimesOut
    BY <2>1 DEF PollTimesOut
  <2>2. CASE ReadPoll /\ Head(pipe).op # "ReadyPoll"
    BY <2>2 DEF ReadPoll
  <2>3. CASE ReadPoll /\ Head(pipe).op = "ReadyPoll"
    <3>1. \/ /\ script' = IF wait.step \in {"wait", "again"} THEN Halves ELSE rest
             /\ triggered' = (triggered \/ wait.step = "wait")
          \/ script' = <<Watch, wait>> \o rest /\ triggered' = triggered
      BY <2>3 DEF ReadPoll, Halves
    <3>2. pipe # <<>>
      BY <2>3 DEF ReadPoll
    <3>3. triggered \in BOOLEAN
      BY DEF TypeOK
    <3>4. CASE wait.step \in {"wait", "again"}
      BY <2>3, <3>1, <3>2, <3>4
    <3>5. CASE wait.step \in {"zero", "measure"}
      <4>1. \/ script' = rest /\ triggered' = (triggered \/ wait.step = "wait")
            \/ script' = <<Watch, wait>> \o rest /\ triggered' = triggered
        BY <3>1, <3>5
      <4>2. (triggered \/ wait.step = "wait") = triggered
        BY <3>3, <3>5
      <4>3. QED
        BY <2>3, <3>2, <3>5, <4>1, <4>2
    <3>6. QED
      BY <1>3, <3>4, <3>5 DEF Waits
  <2>4. QED
    BY <2>1, <2>2, <2>3
<1> HIDE DEF rest
<1>8. CASE script' = rest /\ wait.step \in {"zero", "measure"} /\ triggered' = triggered
  <2>1. Drops(2)
    BY <1>2, <1>3, <1>5, <1>8 DEF Drops
  <2>2. QED
    BY <1>1, <1>2, <1>3, <1>5, <1>8, <2>1
<1>9. CASE /\ pipe # <<>> /\ Head(pipe).op = "ReadyPoll" /\ wait.step \in {"wait", "again"}
           /\ script' = Halves /\ triggered' = (triggered \/ wait.step = "wait")
  BY <1>1, <1>2, <1>3, <1>9, HalvesAre
<1>10. CASE /\ pipe # <<>> /\ Head(pipe).op = "ReadyPoll" /\ script' = <<Watch, wait>> \o rest
            /\ triggered' = triggered
  <2>1. /\ script' \in Seq(Items) /\ Len(script') = Len(rest) + 2
        /\ script'[1] = Watch /\ script'[2] = wait
        /\ \A i \in 3 .. Len(rest) + 2 : script'[i] = rest[i - 2]
    BY <1>4, <1>5, <1>6, <1>10, PutTwoBefore
  <2>2. ASSUME NEW i \in 2 .. Len(script') PROVE script'[i] = script[i]
    <3>1. CASE i = 2
      BY <2>1, <3>1
    <3>2. CASE i # 2
      <4>1. i \in 3 .. Len(rest) + 2 /\ i - 2 \in 1 .. Len(script) - 2 /\ (i - 2) + 2 = i
        BY <1>2, <1>5, <2>1, <2>2, <3>2
      <4>2. QED
        BY <1>5, <2>1, <4>1
    <3>3. QED
      BY <3>1, <3>2
  <2>3. Watched
    BY <1>2, <1>5, <2>1, <2>2 DEF Watched
  <2>4. QED
    BY <1>1, <1>2, <1>3, <1>10, <2>1, <2>3
<1>11. CASE script' = <<[wait EXCEPT !.left = 0]>> \o rest /\ triggered' = triggered
  <2>1. /\ script' \in Seq(Items) /\ Len(script') = Len(rest) + 1
        /\ script'[1] = [wait EXCEPT !.left = 0]
        /\ \A i \in 2 .. Len(rest) + 1 : script'[i] = rest[i - 1]
    BY <1>5, <1>6, <1>11, PutBefore
  <2>2. ASSUME NEW i \in 2 .. Len(script') PROVE script'[i] = script[i + 1]
    <3>1. i \in 2 .. Len(rest) + 1 /\ i - 1 \in 1 .. Len(script) - 2 /\ (i - 1) + 2 = i + 1
      BY <1>2, <1>5, <2>1, <2>2
    <3>2. QED
      BY <1>5, <2>1, <3>1
  <2>3. NotReady
    BY <1>2, <1>5, <2>1, <2>2 DEF NotReady
  <2>4. QED
    BY <1>1, <1>2, <1>3, <1>11, <2>1, <2>3
<1>12. QED
  BY <1>7, <1>8, <1>9, <1>10, <1>11

-----------------------------------------------------------------------------
\* The beginning of a job.

\* Plain commands are items.
LEMMA PlainTyped == PlainItems \subseteq Items /\ FlushSends \subseteq PlainItems
  BY DEF PlainItems, PlainSends, FlushSends, Items

\* A sequence over a set is one over any larger set.
LEMMA SeqWiden ==
  ASSUME NEW S, NEW T, S \subseteq T, NEW s \in Seq(S)
  PROVE  s \in Seq(T)
<1>1. s \in [1 .. Len(s) -> S] /\ Len(s) \in Nat
  BY LenProperties
<1>2. s \in [1 .. Len(s) -> T]
  BY <1>1
<1>3. QED
  BY <1>1, <1>2, SeqDef

\* A sequence of one.
LEMMA Singles ==
  ASSUME NEW S, NEW x \in S
  PROVE  <<x>> \in Seq(S) /\ Len(<<x>>) = 1 /\ <<x>>[1] = x
  OBVIOUS

\* A sequence of two.
LEMMA Pairs ==
  ASSUME NEW S, NEW x \in S, NEW y \in S
  PROVE  <<x, y>> \in Seq(S) /\ Len(<<x, y>>) = 2 /\ <<x, y>>[1] = x /\ <<x, y>>[2] = y
  OBVIOUS

\* open() consists of plain commands.
LEMMA OpenPlain == Phase1 \o ZeroOffsets \o Phase3 \o FlushGenerator \in Seq(PlainItems)
<1>1. FlushGenerator \in Seq(PlainItems)
  BY FlushPlain, PlainTyped, SeqWiden
<1>2. QED
  BY <1>1, PhasesPlain, ZeroOffsetsPlain, Phase3Plain, ConcatProperties

\* So does autoset.
LEMMA AutosetPlain == Autoset \in Seq(PlainItems)
<1>1. <<Must("SetVerticalScale")>> \in Seq(PlainItems)
  <2>1. Must("SetVerticalScale") \in PlainItems
    BY PlainCommands DEF Opcodes
  <2>2. QED
    BY <2>1
<1>2. <<Await("measure", MaxPolls)>> \in Seq(PlainItems)
  <2>1. Await("measure", MaxPolls) \in PlainItems
    BY ProtocolAssumption DEF Await, PlainItems, Marks, Waits, Parts
  <2>2. QED
    BY <2>1
<1>3. <<Step("store", "")>> \in Seq(PlainItems)
  <2>1. Step("store", "") \in PlainItems
    BY DEF Step, PlainItems, Marks, Args
  <2>2. QED
    BY <2>1, Singles
<1>4. QED
  BY <1>1, <1>2, <1>3, StartBurstPlain, PhasesPlain, Phase3Plain, ConcatProperties DEF Autoset

\* The commands of a burst before 0xc0 ask for nothing that a capture answers.
LEMMA BurstIs ==
  /\ Burst \in Seq(Items) /\ Len(Burst) = 8 /\ Burst[8] = Await("wait", MaxPolls)
  /\ Burst[6] = Set("StartAcquisition", "burst") /\ Burst[7] = Set("AcquisitionArm", "unforced")
  /\ \A k \in 1 .. 5 : Burst[k] \in {Try("StatusE4"), Blob("StatusE6", 10), Watch}
<1> DEFINE begin == <<Try("StatusE4"), Blob("StatusE6", 10), Watch, Try("StatusE4"), Blob("StatusE6", 10),
                      Set("StartAcquisition", "burst"), Set("AcquisitionArm", "unforced")>>
<1>1. begin \in Seq(Items)
  <2>1. \A x \in PlainSends : x \in Items
    BY DEF PlainSends, Items
  <2>2. /\ Try("StatusE4") \in PlainSends /\ Blob("StatusE6", 10) \in PlainSends /\ Watch \in PlainSends
        /\ Set("StartAcquisition", "burst") \in PlainSends
        /\ Set("AcquisitionArm", "unforced") \in PlainSends
    BY CommandPlain, SomeArgs DEF Watch, Opcodes
  <2>3. QED
    BY <2>1, <2>2
<1>2. /\ Len(begin) = 7 /\ begin[6] = Set("StartAcquisition", "burst")
      /\ begin[7] = Set("AcquisitionArm", "unforced")
      /\ \A k \in 1 .. 5 : begin[k] \in {Try("StatusE4"), Blob("StatusE6", 10), Watch}
  OBVIOUS
<1>3. Await("wait", MaxPolls) \in Items
  BY ProtocolAssumption DEF Await, Items, Marks, Waits, Parts
<1>4. Burst = (begin \o <<>>) \o <<Await("wait", MaxPolls)>>
  BY DEF Burst, StartBurst
<1> HIDE DEF begin
<1>5. begin \o <<>> = begin
  BY <1>1, ConcatEmptySeq
<1> DEFINE end == <<Await("wait", MaxPolls)>>
<1>6. end \in Seq(Items) /\ Len(end) = 1 /\ end[1] = Await("wait", MaxPolls)
  BY <1>3, Singles
<1>7. Burst = begin \o end
  BY <1>4, <1>5
<1> HIDE DEF end
<1>8. /\ Burst \in Seq(Items) /\ Len(Burst) = 7 + 1
      /\ \A i \in 1 .. 7 + 1 : Burst[i] = IF i <= 7 THEN begin[i] ELSE end[i - 7]
  <2>1. /\ begin \o end \in Seq(Items) /\ Len(begin \o end) = Len(begin) + Len(end)
        /\ \A i \in 1 .. Len(begin) + Len(end) :
             (begin \o end)[i] = IF i <= Len(begin) THEN begin[i] ELSE end[i - Len(begin)]
    BY <1>1, <1>6, ConcatProperties
  <2>2. Len(begin) = 7 /\ Len(end) = 1
    BY <1>2, <1>6
  <2>3. QED
    BY <1>7, <2>1, <2>2
<1>9. Burst[8] = end[1]
  BY <1>8
<1>10. \A i \in 1 .. 7 : Burst[i] = begin[i]
  BY <1>8
<1>11. QED
  BY <1>2, <1>6, <1>8, <1>9, <1>10

\* Starting roll mode takes five commands, each of which must be echoed.
LEMMA StartRollIs ==
  /\ StartRoll \in Seq(Items) /\ Len(StartRoll) = 5
  /\ \A k \in 1 .. 5 : /\ StartRoll[k].step = "send" /\ StartRoll[k].part = "op" /\ StartRoll[k].must
                       /\ StartRoll[k].op \notin Lengths \cup Packets \cup {"ReadyPoll"}
                       /\ StartRoll[k].raw = 0 /\ StartRoll[k].echo
<1>1. /\ Set("SetTimeDiv", "roll") \in PlainSends /\ Ping \in PlainSends
      /\ Set("StartAcquisition", "roll") \in PlainSends /\ Must("AcquisitionGo") \in PlainSends
      /\ Set("AcquisitionArm", "forced") \in PlainSends
  BY CommandPlain, SomeArgs DEF Ping, Opcodes
<1>2. StartRoll \in Seq(Items)
  <2>1. \A x \in PlainSends : x \in Items
    BY DEF PlainSends, Items
  <2>2. QED
    BY <1>1, <2>1 DEF StartRoll
<1>3. /\ Len(StartRoll) = 5 /\ StartRoll[1] = Set("SetTimeDiv", "roll") /\ StartRoll[2] = Ping
      /\ StartRoll[3] = Set("StartAcquisition", "roll")
      /\ StartRoll[4] = Set("AcquisitionArm", "forced") /\ StartRoll[5] = Must("AcquisitionGo")
  BY DEF StartRoll
<1> DEFINE P(x) == /\ x.step = "send" /\ x.part = "op" /\ x.must
                   /\ x.op \notin Lengths \cup Packets \cup {"ReadyPoll"}
                   /\ x.raw = 0 /\ x.echo
<1>4. P(Set("SetTimeDiv", "roll")) /\ P(Set("StartAcquisition", "roll"))
      /\ P(Set("AcquisitionArm", "forced"))
  BY DEF Set, Command, Lengths, Packets
<1>5. P(Ping) /\ P(Must("AcquisitionGo"))
  BY DEF Ping, Must, Command, Lengths, Packets
<1>6. \A k \in 1 .. 5 : P(StartRoll[k])
  <2>1. P(StartRoll[1]) /\ P(StartRoll[2]) /\ P(StartRoll[3]) /\ P(StartRoll[4]) /\ P(StartRoll[5])
    BY <1>3, <1>4, <1>5
  <2> HIDE DEF P
  <2>2. QED
    BY <2>1
<1>7. QED
  BY <1>2, <1>3, <1>6

\* A poll of roll mode asks for the length that is ready, and publishes.
LEMMA PollRollIs ==
  /\ PollRoll \in Seq(Items) /\ Len(PollRoll) = 2
  /\ PollRoll[1] = Ask("RollReadyLength", "", 2) /\ PollRoll[2] = Step("publish", "roll")
<1>1. Ask("RollReadyLength", "", 2) \in Items
  <2>1. "" \in Args
    BY DEF Args
  <2>2. Ask("RollReadyLength", "", 2) \in PlainSends
    BY <2>1, CommandPlain DEF Opcodes
  <2>3. QED
    BY <2>2 DEF PlainSends, Items
<1>2. Step("publish", "roll") \in Items
  BY SomeArgs DEF Step, Items, Marks
<1>3. QED
  BY <1>1, <1>2, Pairs DEF PollRoll

\* What a job begins with, and when.
LEMMA Beginning ==
  ASSUME Open \/ Iterate \/ SendGenerator \/ KeepAlive \/ BeginAutoset
  PROVE  /\ job = "none" /\ failed' = {} /\ record' = <<>> /\ triggered' = FALSE
         /\ UNCHANGED <<link, mode, sweep, dirty, started, awaiting, pipe, slow, late, device>>
         /\ \/ job' = "open" /\ link = "closed" /\ script' \in Seq(PlainItems)
            \/ job' = "config" /\ link = "run" /\ script' \in Seq(PlainItems)
            \/ job' = "ping" /\ link = "idle" /\ script' \in Seq(PlainItems)
            \/ job' = "autoset" /\ script' \in Seq(PlainItems)
            \/ job' = "generator" /\ script' \in Seq(FlushSends)
            \/ job' = "roll" /\ link = "run" /\ mode = "roll" /\ ~started /\ script' = StartRoll
            \/ job' = "poll" /\ link = "run" /\ mode = "roll" /\ started /\ script' = PollRoll
            \/ job' = "burst" /\ link = "run" /\ mode = "burst" /\ script' = Burst
<1> USE DEF Begin, hostVars, busVars
<1>1. CASE Open
  BY <1>1, OpenPlain DEF Open
<1>2. CASE SendGenerator
  BY <1>2, FlushPlain DEF SendGenerator
<1>3. CASE KeepAlive
  <2>1. Try("Ping") \in PlainItems
    BY PlainCommands DEF Opcodes
  <2>2. <<Try("Ping")>> \in Seq(PlainItems)
    BY <2>1
  <2>3. QED
    BY <1>3, <2>2 DEF KeepAlive
<1>4. CASE BeginAutoset
  BY <1>4, AutosetPlain DEF BeginAutoset
<1>5. CASE Iterate
  BY <1>5, Phase3Plain DEF Iterate
<1>6. QED
  BY <1>1, <1>2, <1>3, <1>4, <1>5

\* A job begins with a script of items.
LEMMA BeginningTyped ==
  ASSUME Open \/ Iterate \/ SendGenerator \/ KeepAlive \/ BeginAutoset
  PROVE  script' \in Seq(Items) /\ job' \in Jobs
<1>1. \A s \in Seq(PlainItems) : s \in Seq(Items)
  BY PlainTyped, SeqWiden
<1>2. \A s \in Seq(FlushSends) : s \in Seq(Items)
  BY <1>1, PlainTyped, SeqWiden
<1>3. QED
  BY <1>1, <1>2, Beginning, BurstIs, StartRollIs, PollRollIs DEF Jobs

\* A plain script sends and stores, and never polls.
LEMMA PlainSteps ==
  ASSUME NEW s \in Seq(PlainItems), NEW i \in DOMAIN s
  PROVE  /\ s[i].step \in {"send", "zero", "measure", "store"}
         /\ s[i].step = "send" => s[i].op # "ReadyPoll"
<1>1. s[i] \in PlainItems
  BY LenProperties, ElementOfSeq
<1>2. CASE s[i] \in PlainSends
  BY <1>2 DEF PlainSends, Sends
<1>3. CASE s[i] \in Marks /\ s[i].step \in {"zero", "measure", "store"}
  BY <1>3
<1>4. QED
  BY <1>1, <1>2, <1>3 DEF PlainItems

\* The flush of the generator asks for no length.
LEMMA FlushSteps ==
  ASSUME NEW s \in Seq(FlushSends), NEW i \in DOMAIN s
  PROVE  /\ s[i].step = "send" /\ s[i].part # "op" /\ s[i].raw = 0 /\ s[i].echo
         /\ s[i].op \notin {"ReadyPoll", "BurstLength", "RollReadyLength"}
<1>1. s[i] \in FlushSends
  BY LenProperties, ElementOfSeq
<1>2. QED
  BY <1>1 DEF FlushSends, PlainSends, Sends

-----------------------------------------------------------------------------
\* The bus is left alone.

\* What is owed changes only with the bus.
LEMMA BusSame ==
  ASSUME UNCHANGED <<awaiting, pipe, slow>>
  PROVE  /\ Foreign' = Foreign /\ Owed' = Owed
         /\ \A k, S : Recent(k, S)' <=> Recent(k, S)
  BY DEF Foreign, Owed, Recent

\* So does the account of the answers owed.
LEMMA AnswerSame ==
  ASSUME AnswerInv, ~awaiting, UNCHANGED <<awaiting, pipe, slow>>
  PROVE  AnswerInv'
  BY BusSame DEF AnswerInv

\* Nothing is asked of the last none; and when nothing is owed, nothing of any.
LEMMA RecentNone ==
  ASSUME AnswerInv', NEW CONSTANT S
  PROVE  Recent(0, S)' /\ (Foreign' = 0 => \A k : Recent(k, S)')
<1>1. Foreign' \in Nat
  BY ProtocolAssumption DEF AnswerInv
<1> DEFINE f == Foreign'
<1>2. f \in Nat => \A i \in 1 .. f : ~(i > f - 0)
  <2> HIDE DEF f
  <2>1. QED
    OBVIOUS
<1>3. Recent(0, S)'
  BY <1>1, <1>2 DEF Recent
<1>4. ASSUME Foreign' = 0, NEW k PROVE Recent(k, S)'
  <2>1. 1 .. Foreign' = {}
    BY <1>4
  <2>2. QED
    BY <2>1 DEF Recent
<1>5. QED
  BY <1>3, <1>4

\* A job that begins keeps the invariant.
LEMMA BeginningKeeps ==
  ASSUME ProtocolInv, Open \/ Iterate \/ SendGenerator \/ KeepAlive \/ BeginAutoset
  PROVE  ProtocolInv'
<1>1. /\ job = "none" /\ failed' = {} /\ record' = <<>> /\ triggered' = FALSE
      /\ UNCHANGED <<link, mode, sweep, dirty, started, awaiting, pipe, slow, late, device>>
  BY Beginning
<1>2. script' \in Seq(Items) /\ job' \in Jobs
  BY BeginningTyped
<1>3. ~awaiting
  BY <1>1 DEF ProtocolInv, AnswerInv
<1>4. TypeOK'
  BY <1>1, <1>2, EmptySeq DEF ProtocolInv, TypeOK, Items
<1>5. AnswerInv'
  BY <1>1, <1>3, AnswerSame DEF ProtocolInv
<1>6. LinkInv'
  BY <1>1, Beginning DEF ProtocolInv, LinkInv
<1>7. StreamInv'
  BY <1>1, BusSame DEF ProtocolInv, StreamInv, LinkInv
<1>8. DOMAIN script' = 1 .. Len(script') /\ Len(script') \in Nat
  BY <1>2, LenProperties
<1>9. CASE script' \in Seq(PlainItems) /\ job' \in Asides \ {"generator"}
  <2>1. PollsInv'
    BY <1>9, PlainSteps DEF PollsInv
  <2>2. AsideInv'
    BY <1>9, PlainSteps DEF AsideInv
  <2>3. QED
    BY <1>4, <1>5, <1>6, <1>7, <1>9, <2>1, <2>2
       DEF ProtocolInv, BurstInv, RollInv, PollInv, Asides
<1>10. CASE script' \in Seq(FlushSends) /\ job' = "generator"
  <2>1. PollsInv'
    BY <1>10, FlushSteps DEF PollsInv
  <2>2. AsideInv'
    BY <1>10, FlushSteps DEF AsideInv
  <2>3. QED
    BY <1>4, <1>5, <1>6, <1>7, <1>10, <2>1, <2>2 DEF ProtocolInv, BurstInv, RollInv, PollInv
<1>11. CASE job' = "roll" /\ script' = StartRoll
  <2>1. \A i \in DOMAIN script' : script'[i].step = "send" /\ script'[i].op # "ReadyPoll"
    BY <1>8, <1>11, StartRollIs
  <2>2. PollsInv'
    BY <2>1 DEF PollsInv
  <2>3. AsideInv'
    BY <1>11 DEF AsideInv, Asides
  <2>4. RollInv'
    <3>1. Rest(StartRoll, 0)'
      BY <1>8, <1>11, StartRollIs DEF Rest
    <3>2. Recent(0, Small)'
      BY <1>5, RecentNone
    <3>3. QED
      BY <3>1, <3>2 DEF RollInv
  <2>5. QED
    BY <1>4, <1>5, <1>6, <1>7, <1>11, <2>2, <2>3, <2>4 DEF ProtocolInv, BurstInv, PollInv
<1>12. CASE job' = "poll" /\ script' = PollRoll
  <2>1. \A i \in DOMAIN script' : script'[i].step = "send" => script'[i].op # "ReadyPoll"
    <3>0. Ask("RollReadyLength", "", 2).op # "ReadyPoll" /\ Step("publish", "roll").step # "send"
      BY DEF Ask, Step, Command
    <3>1. PollRoll[1].op # "ReadyPoll" /\ PollRoll[2].step # "send"
      BY <3>0, PollRollIs
    <3>2. DOMAIN script' = 1 .. 2
      BY <1>8, <1>12, PollRollIs
    <3>3. script'[1].op # "ReadyPoll" /\ script'[2].step # "send"
      BY <1>12, <3>1
    <3>4. \A i \in 1 .. 2 : i = 1 \/ i = 2
      OBVIOUS
    <3>5. QED
      BY <3>2, <3>3, <3>4
  <2>2. PollsInv'
    BY <2>1 DEF PollsInv
  <2>3. AsideInv'
    BY <1>12 DEF AsideInv, Asides
  <2>4. PollInv'
    BY <1>1, <1>12 DEF PollInv
  <2>5. QED
    BY <1>4, <1>5, <1>6, <1>7, <1>12, <2>2, <2>3, <2>4 DEF ProtocolInv, BurstInv, RollInv
<1>13. CASE job' = "burst" /\ script' = Burst
  <2>1. \A i \in DOMAIN script' : script'[i].step = "send" => script'[i].op # "ReadyPoll"
    <3>1. ASSUME NEW i \in 1 .. 5 PROVE Burst[i].op # "ReadyPoll"
      <4>1. Burst[i] \in {Try("StatusE4"), Blob("StatusE6", 10), Watch}
        BY BurstIs
      <4>2. /\ Try("StatusE4").op # "ReadyPoll" /\ Blob("StatusE6", 10).op # "ReadyPoll"
            /\ Watch.op # "ReadyPoll"
        BY DEF Try, Blob, Watch, Echoed, Command
      <4>3. QED
        BY <4>1, <4>2
    <3>2. Burst[6].op # "ReadyPoll" /\ Burst[7].op # "ReadyPoll" /\ Burst[8].step # "send"
      BY BurstIs DEF Set, Command, Await
    <3>3. QED
      BY <1>8, <1>13, <3>1, <3>2, BurstIs
  <2>2. PollsInv'
    BY <2>1 DEF PollsInv
  <2>3. AsideInv'
    BY <1>13 DEF AsideInv, Asides
  <2>4. BurstInv'
    <3>1. Rest(Burst, 0)'
      BY <1>8, <1>13, BurstIs DEF Rest
    <3>2. Recent(0, Quiet)'
      BY <1>5, RecentNone
    <3>3. QED
      BY <1>1, <3>1, <3>2 DEF BurstInv, Arming
  <2>5. QED
    BY <1>4, <1>5, <1>6, <1>7, <1>13, <2>2, <2>3, <2>4 DEF ProtocolInv, RollInv, PollInv
<1>14. QED
  BY <1>9, <1>10, <1>11, <1>12, <1>13, Beginning DEF Asides

\* What is owed to earlier commands, and the job, are what they were.
LEMMA SameKeeps ==
  ASSUME ProtocolInv, TypeOK', AnswerInv',
         UNCHANGED <<link, mode, started, job, script, failed, record, triggered>>,
         Foreign' = Foreign, \A i \in 1 .. Foreign : Owed'[i] = Owed[i],
         \/ device'.capture = device.capture
         \/ script # <<>> /\ script[1].step = "send" /\ script[1].op = "AcquisitionArm"
  PROVE  ProtocolInv'
<1>1. ASSUME NEW CONSTANT k, NEW CONSTANT S, Recent(k, S)
      PROVE  Recent(k, S)'
  BY <1>1 DEF Recent
<1>2. LinkInv' /\ PollsInv' /\ AsideInv'
  BY DEF ProtocolInv, LinkInv, PollsInv, AsideInv
<1>3. StreamInv'
  BY <1>1 DEF ProtocolInv, StreamInv
<1>4. ASSUME NEW CONSTANT ops, NEW CONSTANT args, NEW CONSTANT as, Taking(ops, args, as),
             "AcquisitionArm" \notin ops
      PROVE  Taking(ops, args, as)'
  <2>1. device'.capture = device.capture
    <3>1. ASSUME script # <<>>, script[1].step = "send" PROVE script[1].op # "AcquisitionArm"
      <4>1. 1 \in DOMAIN script
        BY <3>1, HeadTyped DEF ProtocolInv
      <4>2. QED
        BY <1>4, <3>1, <4>1 DEF Taking, Reads
    <3>2. QED
      BY <3>1
  <2>2. Ours'
    BY <1>4, <2>1 DEF Taking, Ours
  <2>3. QED
    BY <1>4, <2>2 DEF Taking, Reads
<1>5. Arming => Arming'
  BY <1>1 DEF Arming, Rest
<1>6. BurstInv'
  BY <1>4, <1>5 DEF ProtocolInv, BurstInv, Forced
<1>7. RollInv'
  BY <1>1 DEF ProtocolInv, RollInv, Rest
<1>8. PollInv'
  BY <1>4 DEF ProtocolInv, PollInv
<1>9. QED
  BY <1>2, <1>3, <1>6, <1>7, <1>8 DEF ProtocolInv

\* An answer that arrives stays where it is among those owed.
LEMMA ArriveKeeps ==
  ASSUME ProtocolInv, Arrive
  PROVE  ProtocolInv'
<1>1. /\ UNCHANGED <<link, mode, sweep, dirty, started, job, script, failed, awaiting, late,
                     record, triggered, device>>
      /\ ~awaiting /\ pipe' = pipe \o slow /\ slow' = <<>>
  BY DEF Arrive, hostVars
<1>2. pipe \in Seq(Answers) /\ slow \in Seq(Answers)
  BY DEF ProtocolInv, TypeOK
<1>3. pipe \o slow \in Seq(Answers) /\ (pipe \o slow) \o <<>> = pipe \o slow
  BY <1>2, ConcatProperties, ConcatEmptySeq
<1>4. Owed' = Owed /\ Foreign' = Foreign
  BY <1>1, <1>3 DEF Owed, Foreign
<1>5. TypeOK'
  BY <1>1, <1>3, EmptySeq DEF ProtocolInv, TypeOK
<1>6. AnswerInv'
  BY <1>1, <1>4, EmptySeq, ProtocolAssumption DEF ProtocolInv, AnswerInv
<1>7. QED
  BY <1>1, <1>4, <1>5, <1>6, SameKeeps

\* A command that is written keeps the invariant.
LEMMA WriteKeeps ==
  ASSUME ProtocolInv, Write
  PROVE  ProtocolInv'
<1> DEFINE c == Head(script)
<1>1. /\ UNCHANGED <<link, mode, sweep, dirty, started, job, script, failed, record, triggered>>
      /\ script # <<>> /\ Head(script).step = "send"
      /\ awaiting' = TRUE /\ device' = AfterCommand(device, c)
  BY DEF Write, At, hostVars
<1>2. c = script[1] /\ c \in Sends /\ TypeOK /\ AnswerInv
  BY <1>1, HeadTyped DEF ProtocolInv
<1>3. device' \in Devices
  BY <1>1, <1>2, AfterCommandTyped
<1>4. Answer(c) \in Answers
  <2>1. /\ device'.capture \in {0, 1} /\ c.raw \in Nat /\ c.echo \in BOOLEAN
        /\ c.op \in Opcodes /\ c.arg \in Args
    BY <1>2, <1>3 DEF Devices, Sends
  <2>2. QED
    BY <2>1 DEF Answer, Answers
<1>5. /\ AnswerInv' /\ Foreign' = Foreign
      /\ \A i \in 1 .. Foreign : Owed'[i] = Owed[i]
  BY <1>2, <1>4, WriteAnswers
<1>6. TypeOK'
  <2>1. pipe' \in Seq(Answers) /\ slow' \in Seq(Answers) /\ late' \in 0 .. MaxLate
    <3>1. pipe \in Seq(Answers) /\ slow \in Seq(Answers) /\ late \in 0 .. MaxLate /\ MaxLate \in Nat
      BY <1>2, ProtocolAssumption DEF TypeOK
    <3>2. Append(pipe, Answer(c)) \in Seq(Answers) /\ Append(slow, Answer(c)) \in Seq(Answers)
          /\ <<Answer(c)>> \in Seq(Answers)
      BY <1>4, <3>1, AppendProperties
    <3>3. CASE pipe' = Append(pipe, Answer(c)) /\ UNCHANGED <<slow, late>>
      BY <3>1, <3>2, <3>3
    <3>4. CASE slow' = Append(slow, Answer(c)) /\ UNCHANGED <<pipe, late>>
      BY <3>1, <3>2, <3>4
    <3>5. CASE late < MaxLate /\ slow' = <<Answer(c)>> /\ late' = late + 1 /\ UNCHANGED pipe
      BY <3>1, <3>2, <3>5
    <3>6. QED
      BY <3>3, <3>4, <3>5 DEF Write
  <2>2. QED
    BY <1>1, <1>2, <1>3, <2>1 DEF TypeOK
<1>7. device'.capture = device.capture \/ c.op = "AcquisitionArm"
  <2>1. device \in Devices
    BY <1>2 DEF TypeOK
  <2>2. CASE c.op = "SetTimeDiv"
    BY <1>1, <2>1, <2>2 DEF AfterCommand, Devices
  <2>3. CASE c.op = "SetTrigger"
    BY <1>1, <2>1, <2>3 DEF AfterCommand, Devices
  <2>4. CASE c.op = "StartAcquisition"
    BY <1>1, <2>1, <2>4 DEF AfterCommand, Devices
  <2>5. CASE c.op \notin {"SetTimeDiv", "SetTrigger", "StartAcquisition", "AcquisitionArm"}
    BY <1>1, <2>5 DEF AfterCommand
  <2>6. QED
    BY <2>2, <2>3, <2>4, <2>5
<1>8. QED
  BY <1>1, <1>2, <1>5, <1>6, <1>7, SameKeeps

\* The user's other calls come between two jobs.
LEMMA CallsKeep ==
  ASSUME ProtocolInv, Apply \/ Run \/ Stop
  PROVE  ProtocolInv'
<1>1. /\ job = "none" /\ ~awaiting /\ UNCHANGED <<job, script, failed, awaiting, pipe, slow, late,
                                                  record, triggered, device>>
  BY DEF Apply, Run, Stop, busVars, ProtocolInv, AnswerInv
<1> DEFINE moved == /\ link' \in {"closed", "idle", "run"} /\ mode' \in {"burst", "roll"}
                    /\ sweep' \in {"Auto", "Normal"} /\ dirty' \in BOOLEAN /\ started' \in BOOLEAN
                    /\ link' = "run" /\ started' => link = "run" /\ started /\ mode' = mode
<1>2. moved
  <2>1. /\ link \in {"closed", "idle", "run"} /\ mode \in {"burst", "roll"}
        /\ sweep \in {"Auto", "Normal"} /\ dirty \in BOOLEAN /\ started \in BOOLEAN
    BY DEF ProtocolInv, TypeOK
  <2>2. CASE Apply
    BY <2>1, <2>2 DEF Apply
  <2>3. CASE Run
    BY <2>1, <2>3 DEF Run
  <2>4. CASE Stop
    BY <2>1, <2>4 DEF Stop
  <2>5. QED
    BY <2>2, <2>3, <2>4
<1>3. TypeOK'
  BY <1>1, <1>2 DEF ProtocolInv, TypeOK
<1>4. AnswerInv'
  BY <1>1, AnswerSame DEF ProtocolInv
<1>5. LinkInv'
  BY <1>1, <1>2 DEF ProtocolInv, LinkInv
<1>6. StreamInv'
  BY <1>1, <1>2, BusSame DEF ProtocolInv, StreamInv
<1>7. PollsInv' /\ AsideInv'
  BY <1>1 DEF ProtocolInv, PollsInv, AsideInv
<1>8. BurstInv' /\ RollInv' /\ PollInv'
  BY <1>1 DEF BurstInv, RollInv, PollInv
<1>9. QED
  BY <1>3, <1>4, <1>5, <1>6, <1>7, <1>8 DEF ProtocolInv

-----------------------------------------------------------------------------
\* Less is left to say.

\* What is left of a script keeps its order.
LEMMA DropForm ==
  ASSUME TypeOK, script' \in Seq(Items), NEW m \in Nat, Drops(m)
  PROVE  \A i \in DOMAIN script' :
           /\ i \in Nat \ {0} /\ i + m \in DOMAIN script /\ script'[i] = script[i + m]
<1>1. /\ DOMAIN script' = 1 .. Len(script') /\ Len(script') \in Nat
      /\ DOMAIN script = 1 .. Len(script) /\ Len(script) \in Nat
  BY LenProperties DEF TypeOK
<1>2. QED
  BY <1>1 DEF Drops

\* A script that goes on polls no more than before, and publishes nothing else.
LEMMA DropKeeps ==
  ASSUME ProtocolInv, script' \in Seq(Items), NEW m \in Nat \ {0}, Drops(m), job' = job
  PROVE  PollsInv' /\ AsideInv' /\ (Forced => Forced')
<1>1. \A i \in DOMAIN script' :
        /\ i \in Nat \ {0} /\ i + m \in DOMAIN script /\ script'[i] = script[i + m]
  BY DropForm DEF ProtocolInv
<1>2. PollsInv'
  <2>1. ASSUME NEW i \in DOMAIN script', script'[i].step = "send", script'[i].op = "ReadyPoll"
        PROVE FALSE
    <3>1. i + m = 1
      BY <1>1, <2>1 DEF ProtocolInv, PollsInv
    <3>2. QED
      BY <1>1, <2>1, <3>1
  <2>2. QED
    BY <2>1 DEF PollsInv
<1>3. AsideInv'
  BY <1>1 DEF ProtocolInv, AsideInv
<1>4. Forced => Forced'
  BY <1>1 DEF Forced
<1>5. QED
  BY <1>2, <1>3, <1>4

\* Packets that are taken one by one are still those of the job.
LEMMA DropTaking ==
  ASSUME ProtocolInv, script' \in Seq(Items), NEW CONSTANT m \in Nat \ {0}, Drops(m),
         NEW CONSTANT ops, NEW CONSTANT args, NEW CONSTANT as, Taking(ops, args, as),
         Foreign' = 0, Ours',
         \A r \in DOMAIN record' :
           (r \in DOMAIN record /\ record'[r] = record[r]) \/ record'[r].arg = script[1].arg
  PROVE  Taking(ops, args, as)'
<1>1. \A i \in DOMAIN script' :
        /\ i \in Nat \ {0} /\ i + m \in DOMAIN script /\ script'[i] = script[i + m]
  BY DropForm DEF ProtocolInv
<1>2. \A i \in DOMAIN script' :
        \/ Reads(script'[i], ops) /\ script'[i].arg \in args
        \/ script'[i].step = "publish" /\ script'[i].part = "op" /\ script'[i].arg = as
  <2>1. \A j \in DOMAIN script :
          \/ Reads(script[j], ops) /\ script[j].arg \in args
          \/ script[j].step = "publish" /\ script[j].part = "op" /\ script[j].arg = as
    BY DEF Taking
  <2>2. ASSUME NEW i \in DOMAIN script'
        PROVE  \/ Reads(script'[i], ops) /\ script'[i].arg \in args
               \/ script'[i].step = "publish" /\ script'[i].part = "op" /\ script'[i].arg = as
    <3>1. PICK j \in DOMAIN script : script'[i] = script[j]
      BY <1>1
    <3>2. QED
      BY <2>1, <3>1
  <2>3. QED
    BY <2>2
<1>3. ASSUME NEW i \in DOMAIN script', NEW j \in DOMAIN script', i < j
      PROVE  ~(script'[i].arg = "B" /\ script'[j].arg = "A")
  <2>1. i + m < j + m
    BY <1>1, <1>3
  <2>2. QED
    BY <1>1, <1>3, <2>1 DEF Taking
<1>4. ASSUME NEW r \in DOMAIN record', NEW i \in DOMAIN script'
      PROVE  ~(record'[r].arg = "B" /\ script'[i].arg = "A")
  <2>1. CASE r \in DOMAIN record /\ record'[r] = record[r]
    BY <1>1, <2>1, <1>4 DEF Taking
  <2>2. CASE record'[r].arg = script[1].arg
    <3>1. 1 \in DOMAIN script
      <4>1. DOMAIN script = 1 .. Len(script) /\ Len(script) \in Nat /\ i + m \in DOMAIN script
        BY <1>1, LenProperties DEF ProtocolInv, TypeOK
      <4>2. QED
        BY <4>1
    <3>2. 1 < i + m
      BY <1>1, <1>4
    <3>3. QED
      BY <1>1, <2>2, <3>1, <3>2, <1>4 DEF Taking
  <2>3. QED
    BY <1>4, <2>1, <2>2
<1>5. QED
  BY <1>2, <1>3, <1>4 DEF Taking, Reads

\* When no more than k answers are owed, the last k are all of them.
LEMMA RecentAll ==
  ASSUME AnswerInv, NEW k \in Nat, MaxBehind <= k, NEW S, Recent(k, S)
  PROVE  \A i \in 1 .. Foreign : Owed[i] \in S
<1>1. Foreign \in Nat /\ Foreign <= MaxBehind /\ MaxBehind \in Nat
  BY ProtocolAssumption DEF AnswerInv
<1>2. ASSUME NEW i \in 1 .. Foreign PROVE i > Foreign - k
  BY <1>1, <1>2
<1>3. QED
  BY <1>2 DEF Recent

\* The head of a script that is going on is what its job says.
LEMMA RestHead ==
  ASSUME TypeOK, script # <<>>, NEW commands, Len(commands) \in Nat, NEW k \in 0 .. Len(commands),
         Rest(commands, k)
  PROVE  k < Len(commands) /\ script[1] = commands[k + 1]
<1>1. Len(script) \in Nat \ {0} /\ DOMAIN script = 1 .. Len(script)
  BY HeadTyped
<1>2. QED
  BY <1>1 DEF Rest

\* The seven commands a burst begins with.
LEMMA BurstSends ==
  ASSUME NEW k \in 1 .. 7
  PROVE  /\ Burst[k].step = "send" /\ Burst[k].part = "op"
         /\ Burst[k].op \notin Lengths \cup Packets \cup {"ReadyPoll"}
         /\ k <= 5 => ~Burst[k].must /\ Burst[k].op \in {"StatusE4", "StatusE6", "Ping"}
         /\ k = 6 => Burst[k].must /\ Burst[k].echo /\ Burst[k].op = "StartAcquisition"
         /\ k = 7 => Burst[k].must
<1>1. CASE k <= 5
  <2>1. Burst[k] \in {Try("StatusE4"), Blob("StatusE6", 10), Watch}
    BY <1>1, BurstIs
  <2> DEFINE P(x) == x.step = "send" /\ x.part = "op" /\ ~x.must
                     /\ x.op \in {"StatusE4", "StatusE6", "Ping"}
  <2>2. P(Try("StatusE4")) /\ P(Blob("StatusE6", 10)) /\ P(Watch)
    BY DEF Try, Blob, Watch, Echoed, Command
  <2>3. P(Burst[k])
    <3> HIDE DEF P
    <3>1. QED
      BY <2>1, <2>2
  <2>4. QED
    BY <1>1, <2>3 DEF Lengths, Packets
<1>2. CASE k = 6
  BY <1>2, BurstIs DEF Set, Command, Lengths, Packets
<1>3. CASE k = 7
  BY <1>3, BurstIs DEF Set, Command, Lengths, Packets
<1>4. QED
  BY <1>1, <1>2, <1>3

\* A mark is passed: the ranges are stored, or a frame is published.
LEMMA MarksKeep ==
  ASSUME ProtocolInv, Store \/ Publish
  PROVE  ProtocolInv'
<1>1. /\ ~awaiting /\ job # "none" /\ script # <<>> /\ Head(script).step \in {"publish", "store"}
      /\ UNCHANGED <<link, mode, sweep, started, job, failed, awaiting, pipe, slow, late, record,
                     triggered, device>>
      /\ script' = Tail(script) /\ dirty' \in {dirty, TRUE}
  BY DEF Store, Publish, At, hostVars, busVars
<1>2. script[1].step \in {"publish", "store"} /\ script' \in Seq(Items) /\ Drops(1)
  BY <1>1, HeadTyped, TailDrops DEF ProtocolInv
<1>3. TypeOK'
  BY <1>1, <1>2 DEF ProtocolInv, TypeOK, Items
<1>4. AnswerInv'
  BY <1>1, AnswerSame DEF ProtocolInv
<1>5. LinkInv' /\ StreamInv'
  BY <1>1, BusSame DEF ProtocolInv, LinkInv, StreamInv
<1>6. PollsInv' /\ AsideInv' /\ (Forced => Forced')
  BY <1>1, <1>2, DropKeeps
<1>7. ASSUME NEW CONSTANT ops, NEW CONSTANT args, NEW CONSTANT as, Taking(ops, args, as)
      PROVE  Taking(ops, args, as)'
  <2>1. Foreign' = 0 /\ Ours'
    BY <1>1, <1>7, BusSame DEF Taking, Ours
  <2>2. \A r \in DOMAIN record' :
          (r \in DOMAIN record /\ record'[r] = record[r]) \/ record'[r].arg = script[1].arg
    BY <1>1
  <2>3. 1 \in Nat \ {0} /\ script' \in Seq(Items) /\ Drops(1)
    BY <1>2
  <2>4. QED
    BY <1>7, <2>1, <2>2, <2>3, DropTaking
<1>8. BurstInv'
  <2>1. SUFFICES ASSUME job = "burst" PROVE BurstInv'
    BY <1>1 DEF BurstInv
  <2>2. ~Arming
    <3>1. ASSUME NEW k \in 0 .. 6, Rest(Burst, k) PROVE FALSE
      <4>1. k + 1 \in 1 .. 7 /\ script[1] = Burst[k + 1]
        BY <1>1, <3>1, RestHead, BurstIs DEF ProtocolInv
      <4>2. QED
        BY <1>2, <4>1, BurstSends
    <3>2. ASSUME Len(script) \in {1, 2}, script[Len(script)].step = "wait",
                 Len(script) = 2 => script[1].step = "send"
          PROVE FALSE
      BY <1>2, <3>2
    <3>3. QED
      BY <3>1, <3>2 DEF Arming
  <2>3. QED
    BY <1>1, <1>6, <1>7, <2>1, <2>2 DEF ProtocolInv, BurstInv
<1>9. RollInv'
  <2>1. ASSUME NEW k \in 0 .. 5, Rest(StartRoll, k) PROVE FALSE
    <3>1. Len(StartRoll) = 5 /\ Len(StartRoll) \in Nat /\ k \in 0 .. Len(StartRoll) /\ TypeOK
      BY StartRollIs DEF ProtocolInv
    <3>2. k < Len(StartRoll) /\ script[1] = StartRoll[k + 1]
      BY <1>1, <2>1, <3>1, RestHead
    <3>3. k + 1 \in 1 .. 5
      BY <3>1, <3>2
    <3>4. QED
      BY <1>2, <3>2, <3>3, StartRollIs
  <2>2. QED
    BY <1>1, <2>1 DEF ProtocolInv, RollInv
<1>10. PollInv'
  <2>1. script # PollRoll /\ script # <<Try("Ping")>>
    <3>1. Ask("RollReadyLength", "", 2).step = "send" /\ Try("Ping").step = "send"
      BY DEF Ask, Command, Try
    <3>2. ASSUME script = PollRoll PROVE FALSE
      BY <1>2, <3>1, <3>2, PollRollIs
    <3>3. ASSUME script = <<Try("Ping")>> PROVE FALSE
      <4>1. script[1] = Try("Ping")
        BY <3>3
      <4>2. QED
        BY <1>2, <3>1, <4>1
    <3>4. QED
      BY <3>2, <3>3
  <2>2. QED
    BY <1>1, <1>7, <2>1 DEF ProtocolInv, PollInv
<1>11. QED
  BY <1>3, <1>4, <1>5, <1>6, <1>8, <1>9, <1>10 DEF ProtocolInv

\* A job ends: roll mode is started when as many commands have been obeyed as the
\* device can be answers behind.
LEMMA EndKeeps ==
  ASSUME ProtocolInv, EndJob, MaxBehind <= 5
  PROVE  ProtocolInv'
<1> DEFINE ok == "op" \notin failed
<1>1. /\ job # "none" /\ script = <<>> /\ job' = "none" /\ record' = <<>> /\ triggered' = FALSE
      /\ failed' = {} /\ UNCHANGED <<mode, sweep, script, awaiting, pipe, slow, late, device>>
  BY DEF EndJob, busVars
<1>2. ~awaiting /\ link \in {"closed", "idle", "run"} /\ dirty \in BOOLEAN /\ started \in BOOLEAN
  BY <1>1 DEF ProtocolInv, AnswerInv, TypeOK
<1>3. /\ link' = (IF job = "open" THEN IF ok THEN "idle" ELSE "closed"
                  ELSE IF ok \/ link = "closed" THEN link ELSE "idle")
      /\ dirty' \in BOOLEAN
      /\ started' = (IF job \in {"config", "autoset"} THEN FALSE
                     ELSE IF job = "roll" /\ ok THEN TRUE ELSE started)
  BY <1>2 DEF EndJob
<1>4. TypeOK'
  <2>1. link' \in {"closed", "idle", "run"} /\ started' \in BOOLEAN /\ job' \in Jobs
    BY <1>1, <1>2, <1>3 DEF Jobs
  <2>2. QED
    BY <1>1, <1>3, <2>1, EmptySeq DEF ProtocolInv, TypeOK
<1>5. AnswerInv'
  BY <1>1, <1>2, AnswerSame DEF ProtocolInv
<1>6. link' = "run" => link = "run" /\ ok /\ job # "open"
  BY <1>2, <1>3
<1>7. LinkInv'
  BY <1>1, <1>3, <1>6 DEF ProtocolInv, LinkInv
<1>8. StreamInv'
  <2>1. SUFFICES ASSUME link' = "run", started' PROVE \A i \in 1 .. Foreign : Owed[i] \in Small
    BY <1>1, BusSame DEF StreamInv, Recent
  <2>2. ok /\ link = "run" /\ job \notin {"config", "autoset"} /\ (job = "roll" \/ started)
    BY <1>2, <1>3, <1>6, <2>1
  <2>3. CASE job = "roll"
    <3>1. PICK k \in 0 .. 5 : Rest(StartRoll, k) /\ Recent(k, Small)
      BY <2>2, <2>3 DEF ProtocolInv, RollInv
    <3>2. k = 5
      <4>1. Len(script) = 0
        BY <1>1, EmptySeq
      <4>2. QED
        BY <3>1, <4>1, StartRollIs DEF Rest
    <3>3. QED
      BY <3>1, <3>2, RecentAll DEF ProtocolInv
  <2>4. CASE started
    <3>1. Recent(MaxBehind, Small)
      BY <2>2, <2>4 DEF ProtocolInv, StreamInv
    <3>2. MaxBehind \in Nat /\ MaxBehind <= MaxBehind
      BY ProtocolAssumption
    <3>3. QED
      BY <3>1, <3>2, RecentAll DEF ProtocolInv
  <2>5. QED
    BY <2>2, <2>3, <2>4
<1>9. PollsInv' /\ AsideInv'
  BY <1>1 DEF ProtocolInv, PollsInv, AsideInv, Asides
<1>10. BurstInv' /\ RollInv' /\ PollInv'
  BY <1>1 DEF BurstInv, RollInv, PollInv
<1>11. QED
  BY <1>4, <1>5, <1>7, <1>8, <1>9, <1>10 DEF ProtocolInv

-----------------------------------------------------------------------------
\* The host waits for a record.

\* A command of a started sequence is no wait, and no poll.
LEMMA SequencesSend ==
  ASSUME TypeOK, script # <<>>
  PROVE  /\ \A k \in 0 .. 6 : Rest(Burst, k) => script[1].step = "send" /\ script[1] = Burst[k + 1]
                                                /\ script[1].op # "ReadyPoll"
         /\ \A k \in 0 .. 5 : Rest(StartRoll, k) => /\ script[1].step = "send" /\ k < 5
                                                    /\ script[1] = StartRoll[k + 1]
                                                    /\ script[1].op # "ReadyPoll"
         /\ script = PollRoll => script[1].step = "send" /\ script[1].op # "ReadyPoll"
         /\ script = <<Try("Ping")>> => script[1].step = "send" /\ script[1].op # "ReadyPoll"
<1>1. ASSUME NEW k \in 0 .. 6, Rest(Burst, k)
      PROVE  script[1].step = "send" /\ script[1] = Burst[k + 1] /\ script[1].op # "ReadyPoll"
  <2>1. Len(Burst) = 8 /\ Len(Burst) \in Nat /\ k \in 0 .. Len(Burst)
    BY BurstIs
  <2>2. script[1] = Burst[k + 1]
    BY <1>1, <2>1, RestHead
  <2>3. k + 1 \in 1 .. 7
    OBVIOUS
  <2>4. QED
    BY <2>2, <2>3, BurstSends
<1>2. ASSUME NEW k \in 0 .. 5, Rest(StartRoll, k)
      PROVE  /\ script[1].step = "send" /\ k < 5 /\ script[1] = StartRoll[k + 1]
             /\ script[1].op # "ReadyPoll"
  <2>1. Len(StartRoll) = 5 /\ Len(StartRoll) \in Nat /\ k \in 0 .. Len(StartRoll)
    BY StartRollIs
  <2>2. script[1] = StartRoll[k + 1] /\ k < 5
    BY <1>2, <2>1, RestHead
  <2>3. k + 1 \in 1 .. 5
    BY <2>2
  <2>4. QED
    BY <2>2, <2>3, StartRollIs
<1>3. ASSUME script = PollRoll PROVE script[1].step = "send" /\ script[1].op # "ReadyPoll"
  <2>1. Ask("RollReadyLength", "", 2).step = "send" /\ Ask("RollReadyLength", "", 2).op # "ReadyPoll"
    BY DEF Ask, Command
  <2>2. script[1] = Ask("RollReadyLength", "", 2)
    BY <1>3, PollRollIs
  <2>3. QED
    BY <2>1, <2>2
<1>4. ASSUME script = <<Try("Ping")>> PROVE script[1].step = "send" /\ script[1].op # "ReadyPoll"
  <2>1. script[1] = Try("Ping")
    BY <1>4
  <2>2. Try("Ping").step = "send" /\ Try("Ping").op # "ReadyPoll"
    BY DEF Try, Command
  <2>3. QED
    BY <2>1, <2>2
<1>5. QED
  BY <1>1, <1>2, <1>3, <1>4

\* Who waits: a burst, the calibration, autoset.
LEMMA WaitJob ==
  ASSUME ProtocolInv, job # "none", script # <<>>, script[1].step \in Waits
  PROVE  /\ job \in (Asides \ {"generator"}) \cup {"burst"}
         /\ job # "burst" => script[1].step \in {"zero", "measure"}
         /\ job = "burst" =>
              /\ ~triggered
              /\ \/ Forced /\ script[1].step = "again"
                 \/ /\ record = <<>> /\ Len(script) = 1
                    /\ script[1].step = "wait" /\ script[1].part = "op"
                    /\ script[1].left > 0 => Recent(MaxBehind, Pings)
<1>1. 1 \in DOMAIN script /\ TypeOK /\ script[1].step \notin {"send", "publish"}
      /\ job \in Asides \cup {"burst", "roll", "poll"}
  BY HeadTyped DEF ProtocolInv, TypeOK, Waits, Jobs, Asides
<1>2. ASSUME NEW ops, NEW args, NEW as, Taking(ops, args, as) PROVE FALSE
  BY <1>1, <1>2 DEF Taking, Reads
<1>3. job # "roll"
  BY <1>1, SequencesSend DEF ProtocolInv, RollInv
<1>4. job # "poll"
  BY <1>1, <1>2, SequencesSend DEF ProtocolInv, PollInv
<1>5. job # "generator"
  BY <1>1 DEF ProtocolInv, AsideInv
<1>6. ASSUME job \in Asides PROVE script[1].step \in {"zero", "measure"}
  BY <1>1, <1>6 DEF ProtocolInv, AsideInv, Waits
<1>7. ASSUME job = "burst"
      PROVE  /\ ~triggered
             /\ \/ Forced /\ script[1].step = "again"
                \/ /\ record = <<>> /\ Len(script) = 1
                   /\ script[1].step = "wait" /\ script[1].part = "op"
                   /\ script[1].left > 0 => Recent(MaxBehind, Pings)
  <2>1. ~triggered /\ (Forced \/ (record = <<>> /\ Arming))
    BY <1>2, <1>7 DEF ProtocolInv, BurstInv
  <2>2. Forced => script[1].step = "again"
    BY <1>1 DEF Forced
  <2>3. Arming => /\ Len(script) = 1 /\ script[1].step = "wait" /\ script[1].part = "op"
                  /\ script[1].left > 0 => Recent(MaxBehind, Pings)
    BY <1>1, SequencesSend DEF Arming
  <2>4. QED
    BY <2>1, <2>2, <2>3
<1>8. QED
  BY <1>1, <1>3, <1>4, <1>5, <1>6, <1>7

\* The halves of a burst are read, A before B, and then published.
LEMMA HalvesTaking ==
  /\ \A i \in 1 .. 3 : \/ /\ Reads(Halves[i], {"BurstLength", "ReadBurstChunk"})
                          /\ Halves[i].arg \in {"A", "B"}
                       \/ /\ Halves[i].step = "publish" /\ Halves[i].part = "op"
                          /\ Halves[i].arg = "burst"
  /\ \A i, j \in 1 .. 3 : i < j => ~(Halves[i].arg = "B" /\ Halves[j].arg = "A")
  /\ \A i \in 1 .. 3 : /\ Halves[i].part = "op" /\ Halves[i].step \in {"send", "publish"}
                       /\ Halves[i].step = "publish" => Halves[i].arg = "burst"
                       /\ Halves[i].step = "send" => Halves[i].op # "ReadyPoll"
<1>1. /\ Reads(Ask("BurstLength", "A", 2), {"BurstLength", "ReadBurstChunk"})
      /\ Ask("BurstLength", "A", 2).arg = "A" /\ Ask("BurstLength", "A", 2).op = "BurstLength"
  BY DEF Reads, Ask, Command
<1>2. /\ Reads(Ask("BurstLength", "B", 2), {"BurstLength", "ReadBurstChunk"})
      /\ Ask("BurstLength", "B", 2).arg = "B" /\ Ask("BurstLength", "B", 2).op = "BurstLength"
  BY DEF Reads, Ask, Command
<1>3. /\ Step("publish", "burst").step = "publish" /\ Step("publish", "burst").part = "op"
      /\ Step("publish", "burst").arg = "burst"
  BY DEF Step
<1>4. \A i \in 1 .. 3 : i = 1 \/ i = 2 \/ i = 3
  OBVIOUS
<1>5. QED
  BY <1>1, <1>2, <1>3, <1>4, HalvesAre DEF Reads

\* The places of a script.
LEMMA ScriptDomain ==
  ASSUME NEW s \in Seq(Items) PROVE DOMAIN s = 1 .. Len(s) /\ Len(s) \in Nat
  BY LenProperties

\* The halves come next: no polls are left, and an aside never gets here.
LEMMA HalvesForm ==
  ASSUME script' = Halves, job' = "burst"
  PROVE  PollsInv' /\ AsideInv' /\ Forced' /\ DOMAIN script' = 1 .. 3
<1>1. DOMAIN Halves = 1 .. 3
  BY HalvesAre, ScriptDomain
<1>2. PollsInv'
  BY <1>1, HalvesTaking DEF PollsInv
<1>3. AsideInv'
  BY DEF AsideInv, Asides
<1>4. Forced'
  BY <1>1, HalvesTaking DEF Forced
<1>5. QED
  BY <1>1, <1>2, <1>3, <1>4

\* A script that has ended promises nothing.
LEMMA EmptyForm ==
  ASSUME script' = <<>>
  PROVE  PollsInv' /\ AsideInv' /\ BurstInv' /\ PollInv'
  BY DEF PollsInv, AsideInv, BurstInv, PollInv

\* A wait polls again, goes on, or gives up: each keeps the invariant.
LEMMA WaitKeeps ==
  ASSUME ProtocolInv, Wait
  PROVE  ProtocolInv'
<1>1. /\ ~awaiting /\ awaiting' = awaiting /\ script # <<>> /\ script[1].step \in Waits
      /\ job # "none" /\ script' \in Seq(Items) /\ Len(script) \in Nat \ {0}
      /\ UNCHANGED <<link, mode, sweep, dirty, started, job, pipe, slow, late, record,
                     triggered, device>>
  BY WaitOutcome DEF ProtocolInv
<1>2. /\ script[1] \in Items /\ script[1].left \in 0 .. MaxPolls /\ script[1].part \in Parts
      /\ DOMAIN script = 1 .. Len(script) /\ failed \subseteq Parts \cup {"measure"}
  BY <1>1, HeadTyped, MarkTyped DEF ProtocolInv, TypeOK
<1>3. DOMAIN script' = 1 .. Len(script') /\ Len(script') \in Nat
  BY <1>1, ScriptDomain
<1>4. failed' \subseteq Parts \cup {"measure"} /\ failed \subseteq failed'
  BY <1>2, WaitOutcome DEF ProtocolInv, Parts
<1>5. TypeOK'
  BY <1>1, <1>4 DEF ProtocolInv, TypeOK, Items
<1>6. AnswerInv'
  BY <1>1, AnswerSame DEF ProtocolInv
<1>7. LinkInv'
  BY <1>1 DEF ProtocolInv, LinkInv
<1>8. StreamInv'
  BY <1>1, <1>4, BusSame DEF ProtocolInv, StreamInv
<1>9. job \in (Asides \ {"generator"}) \cup {"burst"} /\ RollInv' /\ (job # "burst" => BurstInv') /\ PollInv'
  BY <1>1, WaitJob DEF RollInv, PollInv, BurstInv, Asides
<1>10. SUFFICES PollsInv' /\ AsideInv' /\ (job = "burst" => BurstInv')
  BY <1>5, <1>6, <1>7, <1>8, <1>9 DEF ProtocolInv
<1>11. CASE script[1].left # 0 /\ Asked
  <2>1. /\ Poll(script[1]).step = "send" /\ Poll(script[1]).op = "ReadyPoll"
        /\ Poll(script[1]).part = script[1].part
    BY <1>1, <1>2, MarkTyped
  <2> DEFINE w == [script[1] EXCEPT !.left = @ - 1]
  <2>2. w.step = script[1].step /\ w.part = script[1].part
    <3>1. script[1] \in [step : Waits, part : Parts, left : 0 .. MaxPolls]
      BY <1>1, <1>2 DEF Items, Sends, Marks, Waits
    <3>2. QED
      BY <3>1
  <2> HIDE DEF w
  <2>3. /\ Len(script') = Len(script) + 1 /\ script'[1] = Poll(script[1]) /\ script'[2] = w
        /\ \A i \in 3 .. Len(script') : script'[i] = script[i - 1]
    BY <1>11 DEF Asked, w
  <2>4. ASSUME NEW i \in DOMAIN script', i # 1, i # 2
        PROVE  i - 1 \in DOMAIN script /\ script'[i] = script[i - 1] /\ i - 1 # 1
    BY <1>1, <1>2, <1>3, <2>3, <2>4
  <2>5. PollsInv'
    <3>1. ASSUME NEW i \in DOMAIN script', script'[i].step = "send", script'[i].op = "ReadyPoll"
          PROVE  i = 1
      <4>1. i # 2
        BY <1>1, <2>2, <2>3, <3>1 DEF Waits
      <4>2. QED
        BY <2>4, <3>1, <4>1 DEF ProtocolInv, PollsInv
    <3>2. Len(script') > 1 /\ script'[2].step \in Waits
      BY <1>1, <2>2, <2>3
    <3>3. QED
      BY <3>1, <3>2 DEF PollsInv
  <2>6. AsideInv'
    <3>1. ASSUME job \in Asides, NEW i \in DOMAIN script'
          PROVE  script'[i].step \in {"send", "zero", "measure", "store"}
      <4>1. script[1].step \in {"zero", "measure"}
        BY <1>1, <3>1, WaitJob DEF Asides
      <4>2. CASE i = 1
        BY <2>1, <2>3, <4>2
      <4>3. CASE i = 2
        BY <2>2, <2>3, <4>1, <4>3
      <4>4. CASE i # 1 /\ i # 2
        BY <2>4, <3>1, <4>4 DEF ProtocolInv, AsideInv
      <4>5. QED
        BY <4>2, <4>3, <4>4
    <3>2. QED
      BY <1>1, <1>9, <3>1 DEF AsideInv, Asides
  <2>7. ASSUME job = "burst" PROVE BurstInv'
    <3>1. ~triggered'
      BY <1>1, <2>7, WaitJob
    <3>2. CASE Forced /\ script[1].step = "again"
      <4>1. script[1].part = "op"
        BY <1>1, <1>2, <3>2 DEF Forced
      <4>2. ASSUME NEW i \in DOMAIN script'
            PROVE  /\ script'[i].part = "op"
                   /\ \/ script'[i].step \in {"send", "again"}
                      \/ script'[i].step = "publish" /\ script'[i].arg = "burst"
        <5>1. CASE i = 1
          BY <2>1, <2>3, <4>1, <5>1
        <5>2. CASE i = 2
          BY <2>2, <2>3, <3>2, <4>1, <5>2
        <5>3. CASE i # 1 /\ i # 2
          BY <2>4, <3>2, <5>3 DEF Forced
        <5>4. QED
          BY <5>1, <5>2, <5>3
      <4>3. Forced'
        BY <4>2 DEF Forced
      <4>4. QED
        BY <3>1, <4>3 DEF BurstInv
    <3>3. CASE /\ record = <<>> /\ Len(script) = 1
               /\ script[1].step = "wait" /\ script[1].part = "op"
               /\ script[1].left > 0 => Recent(MaxBehind, Pings)
      <4>1. Recent(MaxBehind, Pings)'
        <5>1. script[1].left > 0
          BY <1>2, <1>11, ProtocolAssumption
        <5>2. QED
          BY <1>1, <3>3, <5>1, BusSame
      <4>2. /\ Len(script') = 2 /\ script'[2].step = "wait" /\ script'[2].part = "op"
            /\ script'[1].step = "send" /\ script'[1].part = "op" /\ script'[1].op = "ReadyPoll"
        BY <2>1, <2>2, <2>3, <3>3
      <4>3. Arming'
        BY <4>1, <4>2 DEF Arming
      <4>4. QED
        BY <1>1, <3>1, <3>3, <4>3 DEF BurstInv
    <3>4. QED
      BY <1>1, <2>7, <3>2, <3>3, WaitJob
  <2>8. QED
    BY <2>5, <2>6, <2>7
<1>12. CASE script' = <<>>
  BY <1>12, EmptyForm
<1>13. CASE script[1].step = "wait" /\ script' = <<Try("AcquisitionGo"), Await("again", 1)>>
  <2>1. job = "burst" /\ ~triggered'
    BY <1>1, <1>13, WaitJob DEF Asides
  <2>2. /\ Try("AcquisitionGo").step = "send" /\ Try("AcquisitionGo").op # "ReadyPoll"
        /\ Try("AcquisitionGo").part = "op"
        /\ Await("again", 1).step = "again" /\ Await("again", 1).part = "op"
    BY DEF Try, Command, Await
  <2>3. script'[1] = Try("AcquisitionGo") /\ script'[2] = Await("again", 1) /\ Len(script') = 2
    BY <1>13
  <2>4. \A i \in DOMAIN script' : i = 1 \/ i = 2
    BY <1>3, <2>3
  <2>5. PollsInv' /\ Forced'
    BY <2>2, <2>3, <2>4 DEF PollsInv, Forced
  <2>6. QED
    BY <1>1, <2>1, <2>5 DEF AsideInv, BurstInv, Asides
<1>14. CASE script[1].step = "again" /\ script' = Halves
  <2>1. job = "burst" /\ ~triggered'
    BY <1>1, <1>14, WaitJob
  <2>2. QED
    BY <1>1, <1>14, <2>1, HalvesForm DEF BurstInv
<1>15. CASE script[1].step \in {"zero", "measure"} /\ \E m \in 1 .. Len(script) : Drops(m)
  <2>1. PICK m \in 1 .. Len(script) : Drops(m)
    BY <1>15
  <2>2. m \in Nat \ {0}
    BY <1>1, <2>1
  <2>3. PollsInv' /\ AsideInv'
    BY <1>1, <2>1, <2>2, DropKeeps
  <2>4. job # "burst"
    BY <1>1, <1>15, WaitJob
  <2>5. QED
    BY <2>3, <2>4
<1>16. QED
  BY <1>11, <1>12, <1>13, <1>14, <1>15, WaitOutcome DEF ProtocolInv

\* Who polls.
LEMMA PollJob ==
  ASSUME ProtocolInv, job # "none", script # <<>>, script[1].step = "send", script[1].op = "ReadyPoll"
  PROVE  /\ job \in (Asides \ {"generator"}) \cup {"burst"}
         /\ job # "burst" => script[2].step \in {"zero", "measure"}
         /\ job = "burst" =>
              /\ ~triggered
              /\ \/ Forced /\ script[2].step = "again"
                 \/ /\ record = <<>> /\ Len(script) = 2 /\ Recent(MaxBehind, Pings)
                    /\ script[2].step = "wait" /\ script[2].part = "op"
<1>1. /\ 1 \in DOMAIN script /\ TypeOK /\ Len(script) > 1 /\ 2 \in DOMAIN script
      /\ script[2].step \in Waits /\ job \in Asides \cup {"burst", "roll", "poll"}
  <2>1. 1 \in DOMAIN script /\ TypeOK /\ DOMAIN script = 1 .. Len(script) /\ Len(script) \in Nat
    BY HeadTyped DEF ProtocolInv
  <2>2. Len(script) > 1 /\ script[2].step \in Waits
    BY <2>1 DEF ProtocolInv, PollsInv
  <2>3. job \in Asides \cup {"burst", "roll", "poll"}
    BY DEF ProtocolInv, TypeOK, Jobs, Asides
  <2>4. QED
    BY <2>1, <2>2, <2>3
<1>2. ASSUME NEW ops, NEW args, NEW as, Taking(ops, args, as), "ReadyPoll" \notin ops PROVE FALSE
  BY <1>1, <1>2 DEF Taking, Reads
<1>3. job # "roll"
  BY <1>1, SequencesSend DEF ProtocolInv, RollInv
<1>4. job # "poll"
  BY <1>1, <1>2, SequencesSend DEF ProtocolInv, PollInv
<1>5. job # "generator"
  BY <1>1 DEF ProtocolInv, AsideInv
<1>6. ASSUME job \in Asides PROVE script[2].step \in {"zero", "measure"}
  BY <1>1, <1>6 DEF ProtocolInv, AsideInv, Waits
<1>7. ASSUME job = "burst"
      PROVE  /\ ~triggered
             /\ \/ Forced /\ script[2].step = "again"
                \/ /\ record = <<>> /\ Len(script) = 2 /\ Recent(MaxBehind, Pings)
                   /\ script[2].step = "wait" /\ script[2].part = "op"
  <2>1. ~triggered /\ (Forced \/ (record = <<>> /\ Arming))
    BY <1>2, <1>7 DEF ProtocolInv, BurstInv
  <2>2. Forced => script[2].step = "again"
    BY <1>1 DEF Forced, Waits
  <2>3. Arming => /\ Len(script) = 2 /\ Recent(MaxBehind, Pings)
                  /\ script[2].step = "wait" /\ script[2].part = "op"
    BY <1>1, SequencesSend DEF Arming
  <2>4. QED
    BY <2>1, <2>2, <2>3
<1>8. QED
  BY <1>1, <1>3, <1>4, <1>5, <1>6, <1>7

\* Only these jobs are done while roll mode goes on.
LEMMA StreamJobs ==
  ASSUME ProtocolInv, job \in {"open", "config", "ping", "autoset", "burst", "roll"},
         link' = link, started' = started, job' = job
  PROVE  StreamInv'
  BY DEF ProtocolInv, StreamInv, LinkInv

\* What an answer that is read leaves on the bus.
LEMMA DoneTyped ==
  ASSUME TypeOK, Done
  PROVE  /\ pipe' \in Seq(Answers) /\ slow' \in Seq(Answers) /\ awaiting' = FALSE
         /\ pipe # <<>> => Head(pipe) \in Answers
<1>1. pipe \in Seq(Answers) /\ slow \in Seq(Answers)
  BY DEF TypeOK
<1>2. QED
  BY <1>1, HeadTailProperties DEF TypeOK, Done

\* The answer to a poll keeps the invariant.
LEMMA PollKeeps ==
  ASSUME ProtocolInv, ReadPoll \/ PollTimesOut
  PROVE  ProtocolInv'
<1>1. /\ Done /\ script[1].op = "ReadyPoll" /\ script' \in Seq(Items)
      /\ Len(script) \in Nat /\ Len(script) > 1 /\ script[2].step \in Waits
      /\ UNCHANGED <<link, mode, sweep, dirty, started, job, failed, late, record, device>>
  BY PollOutcome DEF ProtocolInv
<1>2. /\ job # "none" /\ script # <<>> /\ script[1].step = "send" /\ TypeOK /\ AnswerInv
      /\ DOMAIN script = 1 .. Len(script)
  BY <1>1, CommandHead, HeadTyped DEF ProtocolInv, Done
<1>3. DOMAIN script' = 1 .. Len(script') /\ Len(script') \in Nat
  BY <1>1, ScriptDomain
<1>4. /\ \/ /\ pipe # <<>> /\ Head(pipe).op = "ReadyPoll"
            /\ script[2].step \in {"wait", "again"} /\ script' = Halves
            /\ triggered' = (triggered \/ script[2].step = "wait")
         \/ script[2].step \in {"zero", "measure"} /\ Drops(2) /\ triggered' = triggered
         \/ pipe # <<>> /\ Head(pipe).op = "ReadyPoll" /\ Watched /\ triggered' = triggered
         \/ NotReady /\ triggered' = triggered
  BY PollOutcome DEF ProtocolInv
<1>5. TypeOK'
  <2>1. triggered' \in BOOLEAN
    <3>1. triggered \in BOOLEAN /\ (triggered \/ script[2].step = "wait") \in BOOLEAN
      BY <1>2 DEF TypeOK
    <3>2. triggered' = triggered \/ triggered' = (triggered \/ script[2].step = "wait")
      BY <1>4
    <3>3. QED
      BY ONLY <3>1, <3>2, Zenon
  <2>2. pipe' \in Seq(Answers) /\ slow' \in Seq(Answers) /\ awaiting' = FALSE
    BY <1>1, <1>2, DoneTyped
  <2>3. QED
    BY <1>1, <1>2, <2>1, <2>2 DEF TypeOK, Items
<1>6. AnswerInv'
  BY <1>1, <1>2, DoneAnswers
<1>7. LinkInv'
  BY <1>1 DEF ProtocolInv, LinkInv
<1>8. job \in (Asides \ {"generator"}) \cup {"burst"}
  BY <1>1, <1>2, PollJob
<1>9. StreamInv' /\ RollInv' /\ PollInv' /\ (job # "burst" => BurstInv')
  BY <1>1, <1>8, StreamJobs DEF Asides, RollInv, PollInv, BurstInv
<1>10. SUFFICES PollsInv' /\ AsideInv' /\ (job = "burst" => BurstInv')
  BY <1>5, <1>6, <1>7, <1>9 DEF ProtocolInv
<1>11. ASSUME NEW i \in DOMAIN script, i # 1
       PROVE  ~(script[i].step = "send" /\ script[i].op = "ReadyPoll")
  BY <1>11 DEF ProtocolInv, PollsInv
<1>12. ASSUME job = "burst", ~Forced, pipe # <<>>, Head(pipe).op = "ReadyPoll"
       PROVE  Foreign' = 0
  <2>1. Recent(MaxBehind, Pings)
    BY <1>1, <1>2, <1>12, PollJob
  <2>2. /\ Foreign' = Foreign /\ Foreign \in Nat
        /\ \A S : \A k \in Nat : Recent(k, S) /\ Foreign # 0 /\ Foreign <= k => Head(pipe) \in S
    BY <1>1, <1>2, <1>12, ReadFirst
  <2>3. Head(pipe) \notin Pings
    BY <1>12 DEF Pings
  <2>4. MaxBehind \in Nat /\ Foreign <= MaxBehind
    BY <1>2, ProtocolAssumption DEF AnswerInv
  <2>5. QED
    BY <2>1, <2>2, <2>3, <2>4
<1>13. CASE /\ pipe # <<>> /\ Head(pipe).op = "ReadyPoll"
            /\ script[2].step \in {"wait", "again"} /\ script' = Halves
            /\ triggered' = (triggered \/ script[2].step = "wait")
  <2>1. job = "burst" /\ job' = "burst"
    BY <1>1, <1>2, <1>13, PollJob DEF Asides
  <2>2. PollsInv' /\ AsideInv' /\ Forced' /\ DOMAIN script' = 1 .. 3
    BY <1>13, <2>1, HalvesForm
  <2>3. CASE Forced /\ script[2].step = "again"
    <3>1. ~triggered'
      BY <1>1, <1>2, <1>13, <2>1, <2>3, PollJob
    <3>2. QED
      BY <2>2, <3>1 DEF BurstInv
  <2>4. CASE ~Forced /\ record = <<>>
    <3>1. Foreign' = 0
      BY <1>12, <1>13, <2>1, <2>4
    <3>2. DOMAIN record' = {} /\ Ours'
      BY <1>1, <2>4 DEF Ours
    <3>3. Taking({"BurstLength", "ReadBurstChunk"}, {"A", "B"}, "burst")'
      <4>1. \A i \in DOMAIN script' :
              \/ /\ Reads(script'[i], {"BurstLength", "ReadBurstChunk"})
                 /\ script'[i].arg \in {"A", "B"}
              \/ script'[i].step = "publish" /\ script'[i].part = "op" /\ script'[i].arg = "burst"
        BY <1>13, <2>2, HalvesTaking
      <4>2. \A i, j \in DOMAIN script' : i < j => ~(script'[i].arg = "B" /\ script'[j].arg = "A")
        BY <1>13, <2>2, HalvesTaking
      <4>3. QED
        BY <3>1, <3>2, <4>1, <4>2 DEF Taking
    <3>4. QED
      BY <2>2, <3>3 DEF BurstInv
  <2>5. CASE Forced /\ script[2].step # "again"
    BY <1>1, <1>2, <2>1, <2>5 DEF Forced, Waits
  <2>6. QED
    BY <1>1, <1>2, <2>1, <2>2, <2>3, <2>4, <2>5, PollJob
<1>14. CASE script[2].step \in {"zero", "measure"} /\ Drops(2) /\ triggered' = triggered
  <2>1. PollsInv' /\ AsideInv'
    BY <1>1, <1>14, DropKeeps
  <2>2. job # "burst"
    BY <1>1, <1>2, <1>14, PollJob
  <2>3. QED
    BY <2>1, <2>2
<1>15. CASE pipe # <<>> /\ Head(pipe).op = "ReadyPoll" /\ Watched /\ triggered' = triggered
  <2>1. /\ Len(script') = Len(script) /\ script'[1] = Watch
        /\ \A i \in 2 .. Len(script') : script'[i] = script[i]
    BY <1>15 DEF Watched
  <2>2. Watch.step = "send" /\ Watch.op = "Ping" /\ Watch.part = "op" /\ ~Watch.must
    BY DEF Watch, Echoed, Command
  <2>3. ASSUME NEW i \in DOMAIN script', i # 1 PROVE i \in DOMAIN script /\ script'[i] = script[i]
    BY <1>2, <1>3, <2>1, <2>3
  <2>4. PollsInv'
    BY <1>11, <2>1, <2>2, <2>3 DEF PollsInv
  <2>5. AsideInv'
    BY <1>1, <1>8, <2>1, <2>2, <2>3 DEF ProtocolInv, AsideInv, Asides
  <2>6. ASSUME job = "burst" PROVE BurstInv'
    <3>1. ~triggered'
      BY <1>1, <1>2, <1>15, <2>6, PollJob
    <3>2. CASE Forced
      <4>1. Forced'
        BY <2>1, <2>2, <2>3, <3>2 DEF Forced
      <4>2. QED
        BY <3>1, <4>1 DEF BurstInv
    <3>3. CASE ~Forced
      <4>1. /\ record = <<>> /\ Len(script) = 2 /\ script[2].step = "wait" /\ script[2].part = "op"
        BY <1>1, <1>2, <2>6, <3>3, PollJob
      <4>2. Recent(MaxBehind, Pings)'
        BY <1>6, <1>12, <1>15, <2>6, <3>3, RecentNone
      <4>3. Arming'
        BY <2>1, <2>2, <4>1, <4>2 DEF Arming
      <4>4. QED
        BY <1>1, <3>1, <4>1, <4>3 DEF BurstInv
    <3>4. QED
      BY <3>2, <3>3
  <2>7. QED
    BY <2>4, <2>5, <2>6
<1>16. CASE NotReady /\ triggered' = triggered
  <2>1. /\ Len(script') = Len(script) - 1 /\ script'[1] = [script[2] EXCEPT !.left = 0]
        /\ \A i \in 2 .. Len(script') : script'[i] = script[i + 1]
    BY <1>16 DEF NotReady
  <2>2. /\ script'[1].step = script[2].step /\ script'[1].part = script[2].part
        /\ script'[1].left = 0
    <3>1. script[2] \in Items
      BY <1>1, <1>2, ElementOfSeq DEF TypeOK, Items
    <3>2. script[2] \in [step : Waits, part : Parts, left : 0 .. MaxPolls]
      BY <1>1, <3>1 DEF Items, Sends, Marks, Waits
    <3>3. QED
      BY <2>1, <3>2
  <2>3. ASSUME NEW i \in DOMAIN script', i # 1
        PROVE  i + 1 \in DOMAIN script /\ i + 1 # 1 /\ script'[i] = script[i + 1]
    BY <1>1, <1>2, <1>3, <2>1, <2>3
  <2>4. PollsInv'
    <3>1. ASSUME NEW i \in DOMAIN script', script'[i].step = "send", script'[i].op = "ReadyPoll"
          PROVE  FALSE
      <4>1. i # 1
        BY <1>1, <2>2, <3>1 DEF Waits
      <4>2. QED
        BY <1>11, <2>3, <3>1, <4>1
    <3>2. QED
      BY <3>1 DEF PollsInv
  <2>5. AsideInv'
    <3>1. ASSUME job \in Asides, NEW i \in DOMAIN script'
          PROVE  script'[i].step \in {"send", "zero", "measure", "store"}
      <4>1. 2 \in DOMAIN script
        BY <1>1, <1>2
      <4>2. CASE i = 1
        BY <2>2, <3>1, <4>1, <4>2 DEF ProtocolInv, AsideInv
      <4>3. CASE i # 1
        BY <2>3, <3>1, <4>3 DEF ProtocolInv, AsideInv
      <4>4. QED
        BY <4>2, <4>3
    <3>2. QED
      BY <1>1, <1>8, <3>1 DEF AsideInv, Asides
  <2>6. ASSUME job = "burst" PROVE BurstInv'
    <3>1. ~triggered'
      BY <1>1, <1>2, <1>16, <2>6, PollJob
    <3>2. CASE Forced
      <4>1. 2 \in DOMAIN script
        BY <1>1, <1>2
      <4>2. ASSUME NEW i \in DOMAIN script'
            PROVE  /\ script'[i].part = "op"
                   /\ \/ script'[i].step \in {"send", "again"}
                      \/ script'[i].step = "publish" /\ script'[i].arg = "burst"
        <5>1. CASE i = 1
          BY <1>1, <2>2, <3>2, <4>1, <5>1 DEF Forced, Waits
        <5>2. CASE i # 1
          BY <2>3, <3>2, <5>2 DEF Forced
        <5>3. QED
          BY <5>1, <5>2
      <4>3. QED
        BY <3>1, <4>2 DEF BurstInv, Forced
    <3>3. CASE ~Forced
      <4>1. /\ record = <<>> /\ Len(script) = 2 /\ script[2].step = "wait" /\ script[2].part = "op"
        BY <1>1, <1>2, <2>6, <3>3, PollJob
      <4>2. Len(script') = 1
        BY <2>1, <4>1
      <4>3. Arming'
        BY <2>2, <4>1, <4>2 DEF Arming
      <4>4. QED
        BY <1>1, <3>1, <4>1, <4>3 DEF BurstInv
    <3>4. QED
      BY <3>2, <3>3
  <2>7. QED
    BY <2>4, <2>5, <2>6
<1>17. QED
  BY <1>4, <1>13, <1>14, <1>15, <1>16

-----------------------------------------------------------------------------
\* A command is done with.

\* The packets of a length belong to its half, and the rest of the script
\* follows them.
LEMMA SpreadForm ==
  ASSUME TypeOK, script # <<>>, script[1] \in Sends, script' \in Seq(Items), NEW n \in Nat,
         Spreads(n), NEW i \in DOMAIN script'
  PROVE  \/ /\ i <= n /\ script'[i].step = "send" /\ script'[i].part = script[1].part
            /\ script'[i].arg = script[1].arg /\ script'[i].must = script[1].must
            /\ script'[i].echo = script[1].echo
            /\ script'[i].op = IF script[1].op = "BurstLength" THEN "ReadBurstChunk"
                               ELSE "ReadRollChunk"
         \/ /\ i > n /\ i + 1 - n \in DOMAIN script /\ i + 1 - n > 1
            /\ script'[i] = script[i + 1 - n]
<1>1. /\ DOMAIN script' = 1 .. Len(script') /\ Len(script') \in Nat
      /\ DOMAIN script = 1 .. Len(script) /\ Len(script) \in Nat \ {0}
  BY ScriptDomain, HeadTyped
<1>2. CASE i <= n
  <2>1. script'[i] = ChunksOf(script[1])
    BY <1>1, <1>2 DEF Spreads
  <2>2. script[1].step = "send"
    BY DEF Sends
  <2>3. QED
    BY <1>2, <2>1, <2>2 DEF ChunksOf, Sends
<1>3. CASE ~(i <= n)
  <2>1. i \in n + 1 .. Len(script') /\ i + 1 - n \in 1 .. Len(script) /\ i + 1 - n > 1 /\ i > n
    BY <1>1, <1>3 DEF Spreads
  <2>2. script'[i] = script[i + 1 - n]
    BY <2>1 DEF Spreads
  <2>3. QED
    BY <1>1, <2>1, <2>2
<1>4. QED
  BY <1>2, <1>3

\* What is left of a poll that found nothing ready.
LEMMA PingForm ==
  ASSUME script' = <<Try("Ping")>>
  PROVE  /\ DOMAIN script' = {1} /\ script'[1].step = "send" /\ script'[1].part = "op"
         /\ script'[1].op = "Ping"
<1>1. Try("Ping").step = "send" /\ Try("Ping").part = "op" /\ Try("Ping").op = "Ping"
  BY DEF Try, Command
<1>2. QED
  BY <1>1

\* What a command that is done with leaves alone.
LEMMA OutcomeForm ==
  ASSUME ProtocolInv, Read \/ TimeOut
  PROVE  /\ TypeOK /\ AnswerInv /\ Done /\ job # "none" /\ job' = job /\ device' = device
         /\ UNCHANGED <<link, mode, sweep, dirty, started, late, triggered>>
         /\ script # <<>> /\ Head(script) = script[1] /\ script[1] \in Sends
         /\ script[1].step = "send" /\ script[1].op # "ReadyPoll"
         /\ script[1].must \in BOOLEAN /\ script[1].part \in Parts /\ 1 \in DOMAIN script
         /\ script' \in Seq(Items) /\ DOMAIN script' = 1 .. Len(script') /\ Len(script') \in Nat
         /\ Taken \/ GivenUp \/ Ignored
         /\ Foreign \in Nat /\ MaxBehind \in Nat /\ Foreign <= MaxBehind
         /\ failed' = failed \/ (GivenUp /\ failed' = failed \cup {script[1].part})
<1>1. TypeOK /\ AnswerInv
  BY DEF ProtocolInv
<1>2. /\ Done /\ UNCHANGED <<link, mode, sweep, dirty, started, job, late, triggered, device>>
      /\ script[1].op # "ReadyPoll" /\ script' \in Seq(Items) /\ (Taken \/ GivenUp \/ Ignored)
  BY <1>1, Outcome
<1>3. awaiting
  BY <1>2 DEF Done
<1>4. /\ job # "none" /\ script # <<>> /\ Head(script) = script[1] /\ script[1] \in Sends
      /\ script[1].step = "send" /\ script[1].must \in BOOLEAN
  BY <1>1, <1>3, CommandHead
<1>5. 1 \in DOMAIN script /\ script[1].part \in Parts
  BY <1>1, <1>4, HeadTyped DEF Sends
<1>6. Foreign \in Nat /\ MaxBehind \in Nat /\ Foreign <= MaxBehind
  BY <1>1, ProtocolAssumption DEF AnswerInv
<1>7. failed' = failed \/ (GivenUp /\ failed' = failed \cup {script[1].part})
  BY <1>2 DEF Taken, GivenUp, Ignored
<1>8. QED
  BY <1>1, <1>2, <1>4, <1>5, <1>6, <1>7, ScriptDomain

\* It keeps the types, the account of the answers and the job.
LEMMA OutcomeTyped ==
  ASSUME ProtocolInv, Read \/ TimeOut
  PROVE  TypeOK' /\ AnswerInv' /\ LinkInv'
<1>1. AnswerInv'
  BY OutcomeForm, DoneAnswers
<1>2. LinkInv'
  BY OutcomeForm DEF ProtocolInv, LinkInv
<1>3. pipe' \in Seq(Answers) /\ slow' \in Seq(Answers) /\ awaiting' \in BOOLEAN
  BY OutcomeForm, DoneTyped
<1>4. record' \in Seq(Answers)
  <2>1. record \in Seq(Answers)
    BY OutcomeForm DEF TypeOK
  <2>2. record' = record \/ (pipe # <<>> /\ record' = Append(record, Head(pipe)))
    BY OutcomeForm DEF Taken, GivenUp, Ignored
  <2>3. pipe # <<>> => Head(pipe) \in Answers
    BY OutcomeForm, DoneTyped
  <2>4. QED
    BY <2>1, <2>2, <2>3, AppendProperties
<1>5. failed' \subseteq Parts \cup {"measure"}
  BY OutcomeForm DEF TypeOK
<1>6. QED
  BY <1>1, <1>2, <1>3, <1>4, <1>5, OutcomeForm DEF TypeOK, Items

\* It keeps polls with their waits.
LEMMA OutcomePolls ==
  ASSUME ProtocolInv, Read \/ TimeOut
  PROVE  PollsInv' /\ AsideInv'
<1>1. CASE script' = <<>>
  BY <1>1, EmptyForm
<1>2. CASE \E m \in Nat \ {0} : Drops(m)
  BY <1>2, OutcomeForm, DropKeeps
<1>3. CASE script' = <<Try("Ping")>> /\ script[1].op = "RollReadyLength"
  <2>1. job # "generator" /\ job' = job
    BY <1>3, OutcomeForm DEF ProtocolInv, AsideInv
  <2>2. QED
    BY <1>3, <2>1, PingForm DEF PollsInv, AsideInv
<1>4. CASE script[1].op \in Lengths /\ \E n \in Nat : Spreads(n)
  <2>1. PICK n \in Nat : Spreads(n)
    BY <1>4
  <2>2. job # "generator" /\ job' = job
    BY <1>4, OutcomeForm DEF ProtocolInv, AsideInv, Lengths
  <2>3. ASSUME NEW i \in DOMAIN script'
        PROVE  \/ script'[i].step = "send" /\ script'[i].op # "ReadyPoll"
               \/ \E j \in DOMAIN script : j # 1 /\ script'[i] = script[j]
    BY <2>1, OutcomeForm, SpreadForm
  <2>4. PollsInv'
    BY <2>3 DEF ProtocolInv, PollsInv
  <2>5. AsideInv'
    BY <2>2, <2>3 DEF ProtocolInv, AsideInv
  <2>6. QED
    BY <2>4, <2>5
<1>5. QED
  <2>1. DOMAIN script = 1 .. Len(script) /\ Len(script) \in Nat
    BY OutcomeForm, HeadTyped
  <2>2. \A m \in 1 .. Len(script) : m \in Nat \ {0}
    BY <2>1
  <2>3. \A n \in 0 .. MaxChunks : n \in Nat
    BY ProtocolAssumption
  <2>4. CASE Taken
    BY <1>2, <1>3, <1>4, <2>3, <2>4 DEF Taken
  <2>5. CASE GivenUp
    BY <1>1, <1>2, <2>2, <2>5 DEF GivenUp
  <2>6. CASE Ignored
    BY <1>2, <2>6 DEF Ignored
  <2>7. QED
    BY <2>4, <2>5, <2>6, OutcomeForm

\* A length is only accepted if it is long enough: none of the short answers is.
LEMMA LengthIsOwn ==
  ASSUME ProtocolInv, Read \/ TimeOut, Taken, script[1].op \in Lengths, Recent(MaxBehind, Small)
  PROVE  Foreign = 0 /\ Foreign' = 0
<1>1. pipe # <<>> /\ Head(pipe).size >= 2
  BY DEF Taken, Accepts, Lengths
<1>2. /\ Foreign' = Foreign
      /\ Recent(MaxBehind, Small) /\ Foreign # 0 /\ Foreign <= MaxBehind => Head(pipe) \in Small
  BY <1>1, OutcomeForm, ReadFirst
<1>3. Head(pipe) \notin Small
  BY <1>1 DEF Small
<1>4. QED
  BY <1>2, <1>3, OutcomeForm

\* How far the poll of roll mode can be when a command is sent.
LEMMA PollHead ==
  ASSUME TypeOK, script # <<>>, 1 \in DOMAIN script, script[1].step = "send", PollInv, job = "poll"
  PROVE  \/ /\ script = PollRoll /\ record = <<>> /\ "op" \notin failed
            /\ script[1] = Ask("RollReadyLength", "", 2) /\ script[1].op = "RollReadyLength"
            /\ script[1].must /\ script[1].part = "op" /\ script[1].arg = ""
         \/ /\ script = <<Try("Ping")>> /\ script[1] = Try("Ping") /\ script[1].op = "Ping"
            /\ script[1].part = "op" /\ ~script[1].must
         \/ /\ Taking({"ReadRollChunk"}, {""}, "roll") /\ script[1].op = "ReadRollChunk"
            /\ script[1].must /\ script[1].part = "op" /\ script[1].arg = ""
<1>1. CASE script = PollRoll /\ record = <<>> /\ "op" \notin failed
  <2>1. script[1] = Ask("RollReadyLength", "", 2)
    BY <1>1, PollRollIs
  <2>2. /\ Ask("RollReadyLength", "", 2).op = "RollReadyLength" /\ Ask("RollReadyLength", "", 2).must
        /\ Ask("RollReadyLength", "", 2).part = "op" /\ Ask("RollReadyLength", "", 2).arg = ""
    BY DEF Ask, Command
  <2>3. QED
    BY <1>1, <2>1, <2>2
<1>2. CASE script = <<Try("Ping")>>
  <2>1. script[1] = Try("Ping")
    BY <1>2
  <2>2. Try("Ping").op = "Ping" /\ Try("Ping").part = "op" /\ ~Try("Ping").must
    BY DEF Try, Command
  <2>3. QED
    BY <1>2, <2>1, <2>2
<1>3. CASE Taking({"ReadRollChunk"}, {""}, "roll")
  BY <1>3 DEF Taking, Reads
<1>4. QED
  BY <1>1, <1>2, <1>3 DEF PollInv

\* No answer as long as a length is owed to roll mode.
LEMMA OutcomeStream ==
  ASSUME ProtocolInv, Read \/ TimeOut
  PROVE  StreamInv'
<1>1. CASE job \in {"open", "config", "ping", "autoset", "burst", "roll"}
  BY <1>1, OutcomeForm, StreamJobs
<1>2. job \in {"generator", "poll"} \/ job \in {"open", "config", "ping", "autoset", "burst", "roll"}
  BY OutcomeForm DEF TypeOK, Jobs
<1>3. SUFFICES ASSUME job \in {"generator", "poll"}, link = "run", started, "op" \notin failed'
               PROVE  Recent(MaxBehind, Small)'
  BY <1>1, <1>2, OutcomeForm DEF StreamInv
<1>4. "op" \notin failed
  BY <1>3, OutcomeForm
<1>5. Recent(MaxBehind, Small)
  BY <1>3, <1>4 DEF ProtocolInv, StreamInv
<1>6. AnswerInv'
  BY OutcomeTyped
<1>7. ASSUME Own(script[1]) \in Small PROVE Recent(MaxBehind, Small)'
  BY <1>5, <1>7, OutcomeForm, DoneRecent
<1>8. ASSUME Foreign' = 0 PROVE Recent(MaxBehind, Small)'
  BY <1>6, <1>8, RecentNone
<1>9. Own(script[1]) \in Answers
  BY OutcomeForm, OwnTyped
<1>10. CASE job = "generator"
  <2>1. script[1].raw = 0 /\ script[1].echo
    BY <1>10, OutcomeForm DEF ProtocolInv, AsideInv
  <2>2. Own(script[1]).size = 1
    BY <2>1 DEF Own
  <2>3. QED
    BY <1>7, <1>9, <2>2 DEF Small
<1>11. CASE job = "poll"
  <2>1. PollInv
    BY DEF ProtocolInv
  <2>2. CASE script[1].op = "RollReadyLength" /\ script[1].must /\ script[1].part = "op"
    <3>1. Taken
      BY <1>3, <2>2, OutcomeForm DEF GivenUp, Ignored
    <3>2. QED
      BY <1>5, <1>8, <2>2, <3>1, LengthIsOwn DEF Lengths
  <2>3. CASE script[1].op = "Ping"
    <3>1. Own(script[1]).size = 1
      BY <2>3 DEF Own
    <3>2. QED
      BY <1>7, <1>9, <3>1 DEF Small
  <2>4. CASE /\ Taking({"ReadRollChunk"}, {""}, "roll") /\ script[1].must /\ script[1].part = "op"
    <3>1. Taken
      BY <1>3, <2>4, OutcomeForm DEF GivenUp, Ignored
    <3>2. Foreign = 0 /\ pipe # <<>>
      BY <2>4, <3>1 DEF Taking, Taken
    <3>3. Foreign' = 0
      BY <3>2, OutcomeForm, ReadFirst
    <3>4. QED
      BY <1>8, <3>3
  <2>5. QED
    BY <1>11, <2>1, <2>2, <2>3, <2>4, OutcomeForm, PollHead
<1>12. QED
  BY <1>3, <1>10, <1>11

\* One command of a sequence is done.
LEMMA RestNext ==
  ASSUME TypeOK, script' \in Seq(Items), NEW commands, Len(commands) \in Nat, NEW k \in Nat,
         Rest(commands, k), Drops(1)
  PROVE  Rest(commands, k + 1)'
<1>1. \A i \in DOMAIN script' :
        /\ i \in Nat \ {0} /\ i + 1 \in DOMAIN script /\ script'[i] = script[i + 1]
  BY DropForm
<1>2. Len(script') = Len(script) - 1 /\ Len(script) \in Nat
  BY LenProperties DEF Drops, TypeOK
<1>3. \A i \in DOMAIN script' : script'[i] = commands[(k + 1) + i]
  <2>1. ASSUME NEW i \in DOMAIN script' PROVE script'[i] = commands[(k + 1) + i]
    <3>1. script'[i] = commands[k + (i + 1)] /\ i \in Nat
      BY <1>1 DEF Rest
    <3>2. k + (i + 1) = (k + 1) + i
      BY <3>1
    <3>3. QED
      BY <3>1, <3>2
  <2>2. QED
    BY <2>1
<1>4. QED
  BY <1>2, <1>3 DEF Rest

\* The start of roll mode takes its commands one by one, or ends.
LEMMA OutcomeRoll ==
  ASSUME ProtocolInv, Read \/ TimeOut
  PROVE  RollInv'
<1>1. SUFFICES ASSUME job = "roll"
               PROVE  \/ script' = <<>> /\ "op" \in failed'
                      \/ \E k \in 0 .. 5 : Rest(StartRoll, k)' /\ Recent(k, Small)'
  BY OutcomeForm DEF RollInv
<1>2. PICK k \in 0 .. 5 : Rest(StartRoll, k) /\ Recent(k, Small)
  BY <1>1, OutcomeForm DEF ProtocolInv, RollInv
<1>3. k < 5 /\ script[1] = StartRoll[k + 1] /\ k + 1 \in 1 .. 5 /\ k \in Nat
  <2>1. k < 5 /\ script[1] = StartRoll[k + 1]
    BY <1>2, OutcomeForm, SequencesSend
  <2>2. QED
    BY <2>1
<1>4. /\ script[1].must /\ script[1].part = "op" /\ script[1].op \notin Lengths \cup Packets
      /\ script[1].raw = 0 /\ script[1].echo
  BY <1>3, StartRollIs
<1>5. CASE GivenUp
  BY <1>4, <1>5 DEF GivenUp
<1>6. CASE Taken
  <2>1. Drops(1)
    BY <1>4, <1>6 DEF Taken, Lengths
  <2>2. Rest(StartRoll, k + 1)'
    BY <1>2, <1>3, <2>1, OutcomeForm, RestNext, StartRollIs
  <2>3. Own(script[1]) \in Small
    <3>1. Own(script[1]) \in Answers /\ Own(script[1]).size = 1
      BY <1>4, OutcomeForm, OwnTyped DEF Own
    <3>2. QED
      BY <3>1 DEF Small
  <2>4. Recent(k + 1, Small)'
    BY <1>2, <1>3, <2>3, OutcomeForm, DoneRecent
  <2>5. k + 1 \in 0 .. 5
    BY <1>3
  <2>6. QED
    BY <2>2, <2>4, <2>5
<1>7. QED
  BY <1>4, <1>5, <1>6, OutcomeForm DEF Ignored

\* The length of a record is followed by its packets.
LEMMA SpreadTaking ==
  ASSUME TypeOK, script # <<>>, script[1] \in Sends, script' \in Seq(Items), 1 \in DOMAIN script,
         NEW CONSTANT n \in Nat, Spreads(n),
         NEW CONSTANT ops, NEW CONSTANT args, NEW CONSTANT as,
         script[1].part = "op", script[1].must, ~script[1].echo, script[1].arg \in args,
         (IF script[1].op = "BurstLength" THEN "ReadBurstChunk" ELSE "ReadRollChunk") \in ops,
         \A i \in DOMAIN script :
           i > 1 => \/ Reads(script[i], ops) /\ script[i].arg \in args
                    \/ script[i].step = "publish" /\ script[i].part = "op" /\ script[i].arg = as,
         \A i, j \in DOMAIN script : i < j => ~(script[i].arg = "B" /\ script[j].arg = "A"),
         \A r \in DOMAIN record, i \in DOMAIN script :
           ~(record[r].arg = "B" /\ script[i].arg = "A"),
         Foreign' = 0, Ours', record' = record
  PROVE  Taking(ops, args, as)'
<1>1. ASSUME NEW i \in DOMAIN script'
      PROVE  \/ /\ i <= n /\ Reads(script'[i], ops) /\ script'[i].arg = script[1].arg
             \/ /\ i > n /\ i + 1 - n \in DOMAIN script /\ i + 1 - n > 1
                /\ script'[i] = script[i + 1 - n]
  BY SpreadForm DEF Reads
<1>2. DOMAIN script' \subseteq Nat
  BY ScriptDomain
<1>3. ASSUME NEW i \in DOMAIN script'
      PROVE  \/ Reads(script'[i], ops) /\ script'[i].arg \in args
             \/ script'[i].step = "publish" /\ script'[i].part = "op" /\ script'[i].arg = as
  <2>1. CASE i <= n /\ Reads(script'[i], ops) /\ script'[i].arg = script[1].arg
    BY <2>1
  <2>2. CASE i + 1 - n \in DOMAIN script /\ i + 1 - n > 1 /\ script'[i] = script[i + 1 - n]
    <3>1. PICK j \in DOMAIN script : j > 1 /\ script'[i] = script[j]
      BY <2>2
    <3>2. \/ Reads(script[j], ops) /\ script[j].arg \in args
          \/ script[j].step = "publish" /\ script[j].part = "op" /\ script[j].arg = as
      BY <3>1
    <3>3. QED
      BY <3>1, <3>2
  <2>3. QED
    BY <1>1, <2>1, <2>2
<1>4. ASSUME NEW i \in DOMAIN script', NEW j \in DOMAIN script', i < j
      PROVE  ~(script'[i].arg = "B" /\ script'[j].arg = "A")
  <2>1. CASE j <= n
    <3>1. i <= n
      BY <1>2, <1>4, <2>1
    <3>2. script'[i].arg = script[1].arg /\ script'[j].arg = script[1].arg
      BY <1>1, <1>2, <1>4, <2>1, <3>1
    <3>3. QED
      BY <3>2
  <2>2. CASE i <= n /\ ~(j <= n)
    <3>1. /\ script'[i].arg = script[1].arg /\ script'[j] = script[j + 1 - n]
          /\ j + 1 - n \in DOMAIN script /\ 1 < j + 1 - n
      BY <1>1, <1>2, <1>4, <2>2
    <3>2. QED
      BY <3>1
  <2>3. CASE ~(i <= n) /\ ~(j <= n)
    <3>1. /\ script'[i] = script[i + 1 - n] /\ script'[j] = script[j + 1 - n]
          /\ i + 1 - n \in DOMAIN script /\ j + 1 - n \in DOMAIN script
      BY <1>1, <1>2, <1>4, <2>3
    <3>2. i + 1 - n < j + 1 - n
      BY <1>2, <1>4
    <3>3. QED
      BY <3>1, <3>2
  <2>4. QED
    BY <2>1, <2>2, <2>3
<1>5. ASSUME NEW r \in DOMAIN record', NEW i \in DOMAIN script'
      PROVE  ~(record'[r].arg = "B" /\ script'[i].arg = "A")
  <2>1. \E j \in DOMAIN script : script'[i].arg = script[j].arg
    BY <1>1, <1>5
  <2>2. QED
    BY <1>5, <2>1
<1>6. QED
  BY <1>3, <1>4, <1>5 DEF Taking, Reads

\* A packet is its own command's.
LEMMA TakePacket ==
  ASSUME ProtocolInv, Read \/ TimeOut, Taken, script[1].op \in Packets,
         NEW CONSTANT ops, NEW CONSTANT args, NEW CONSTANT as, Taking(ops, args, as)
  PROVE  Taking(ops, args, as)'
<1>1. /\ pipe # <<>> /\ Drops(1) /\ record' = Append(record, Head(pipe))
  BY DEF Taken, Packets, Lengths
<1>2. Foreign = 0 /\ Foreign' = 0 /\ Head(pipe) = Own(script[1])
  BY <1>1, OutcomeForm, ReadFirst DEF Taking
<1>3. Head(pipe).op = script[1].op /\ Head(pipe).arg = script[1].arg
      /\ Head(pipe).capture = device.capture
  BY <1>2 DEF Own
<1>4. record \in Seq(Answers) /\ Head(pipe) \in Answers
  BY <1>1, OutcomeForm, DoneTyped DEF TypeOK
<1>5. /\ Len(record) \in Nat /\ DOMAIN record = 1 .. Len(record)
      /\ DOMAIN record' = 1 .. Len(record) + 1 /\ record'[Len(record) + 1] = Head(pipe)
      /\ \A r \in 1 .. Len(record) : record'[r] = record[r]
  BY <1>1, <1>4, AppendProperties, LenProperties
<1>6. ASSUME NEW r \in DOMAIN record'
      PROVE  \/ r \in DOMAIN record /\ record'[r] = record[r]
             \/ r = Len(record) + 1 /\ record'[r] = Head(pipe)
  BY <1>5, <1>6
<1>7. Ours'
  <2>1. ASSUME NEW r \in DOMAIN record'
        PROVE  record'[r].capture = device'.capture /\ record'[r].op \in Packets
    BY <1>3, <1>6, OutcomeForm, <2>1 DEF Taking, Ours, Packets
  <2>2. ASSUME NEW q \in DOMAIN record', NEW r \in DOMAIN record', q <= r
        PROVE  ~(record'[q].arg = "B" /\ record'[r].arg = "A")
    <3>1. CASE r \in DOMAIN record
      <4>1. q \in DOMAIN record /\ record'[q] = record[q] /\ record'[r] = record[r]
        BY <1>5, <2>2, <3>1
      <4>2. QED
        BY <2>2, <3>1, <4>1 DEF Taking, Ours
    <3>2. CASE r = Len(record) + 1 /\ q \in DOMAIN record
      <4>1. record'[q] = record[q] /\ record'[r].arg = script[1].arg
        BY <1>3, <1>5, <3>2
      <4>2. QED
        BY <3>2, <4>1, OutcomeForm DEF Taking
    <3>3. CASE r = Len(record) + 1 /\ q = Len(record) + 1
      <4>1. record'[q] = record'[r]
        BY <3>3
      <4>2. QED
        BY <4>1
    <3>4. QED
      BY <1>6, <2>2, <3>1, <3>2, <3>3
  <2>3. QED
    BY <2>1, <2>2 DEF Ours, Packets
<1>8. \A r \in DOMAIN record' :
        (r \in DOMAIN record /\ record'[r] = record[r]) \/ record'[r].arg = script[1].arg
  BY <1>3, <1>6
<1>9. 1 \in Nat \ {0} /\ Drops(1) /\ script' \in Seq(Items)
  BY <1>1, OutcomeForm
<1>10. QED
  BY <1>2, <1>7, <1>8, <1>9, DropTaking

\* Of a record that is being read, a command that fails leaves nothing to say.
LEMMA OutcomeOfTaking ==
  ASSUME ProtocolInv, Read \/ TimeOut,
         NEW CONSTANT ops, NEW CONSTANT args, NEW CONSTANT as, Taking(ops, args, as)
  PROVE  /\ script[1].must /\ script[1].part = "op" /\ ~script[1].echo /\ script[1].op \in ops
         /\ script[1].arg \in args
         /\ script' = <<>> \/ (Taken /\ Foreign' = 0)
<1>1. /\ script[1].must /\ script[1].part = "op" /\ ~script[1].echo /\ script[1].op \in ops
      /\ script[1].arg \in args
  BY OutcomeForm DEF Taking, Reads
<1>2. ASSUME Taken PROVE Foreign' = 0
  <2>1. pipe # <<>> /\ Foreign = 0
    BY <1>2 DEF Taken, Taking
  <2>2. QED
    BY <2>1, OutcomeForm, ReadFirst
<1>3. QED
  BY <1>1, <1>2, OutcomeForm DEF GivenUp, Ignored

\* A poll of roll mode publishes what was taken for it alone.
LEMMA OutcomePoll ==
  ASSUME ProtocolInv, Read \/ TimeOut
  PROVE  PollInv'
<1>1. CASE script' = <<>>
  BY <1>1, EmptyForm
<1>2. SUFFICES ASSUME job = "poll", script' # <<>> PROVE PollInv'
  BY <1>1, OutcomeForm DEF PollInv
<1>3. CASE /\ script = PollRoll /\ record = <<>> /\ "op" \notin failed
           /\ script[1].op = "RollReadyLength"
           /\ script[1].must /\ script[1].part = "op" /\ script[1].arg = ""
  <2>1. Taken
    BY <1>2, <1>3, OutcomeForm DEF GivenUp, Ignored
  <2>2. CASE script' = <<Try("Ping")>>
    BY <2>2 DEF PollInv
  <2>3. CASE record' = record /\ \E n \in 0 .. MaxChunks : Spreads(n)
    <3>1. PICK n \in 0 .. MaxChunks : Spreads(n)
      BY <2>3
    <3>2. n \in Nat
      BY <3>1, ProtocolAssumption
    <3>3. Foreign' = 0
      <4>1. link = "run" /\ started /\ job \notin {"config", "autoset"}
        BY <1>2 DEF ProtocolInv, LinkInv
      <4>2. Recent(MaxBehind, Small)
        BY <1>3, <4>1 DEF ProtocolInv, StreamInv
      <4>3. QED
        BY <1>3, <2>1, <4>2, LengthIsOwn DEF Lengths
    <3>4. DOMAIN record = {} /\ Ours'
      <4>1. record = <<>> /\ record' = <<>>
        BY <1>3, <2>3
      <4>2. QED
        BY <4>1 DEF Ours
    <3>5. /\ \A i \in DOMAIN script : i = 1 \/ i = 2
          /\ script[1] = Ask("RollReadyLength", "", 2) /\ script[2] = Step("publish", "roll")
      <4>1. script = PollRoll
        BY <1>3
      <4>2. DOMAIN PollRoll = 1 .. 2
        BY PollRollIs, ScriptDomain
      <4>3. \A i \in 1 .. 2 : i = 1 \/ i = 2
        OBVIOUS
      <4>4. QED
        BY <4>1, <4>2, <4>3, PollRollIs
    <3>6. ~script[1].echo
      <4>1. Reads(Ask("RollReadyLength", "", 2), {"RollReadyLength"})
        BY DEF Reads, Ask, Command
      <4>2. QED
        BY <3>5, <4>1 DEF Reads
    <3>7. script[2].step = "publish" /\ script[2].part = "op" /\ script[2].arg = "roll"
      <4>1. Step("publish", "roll").step = "publish" /\ Step("publish", "roll").part = "op"
            /\ Step("publish", "roll").arg = "roll"
        BY DEF Step
      <4>2. QED
        BY <3>5, <4>1
    <3>8. \A i \in DOMAIN script : i > 1 =>
            script[i].step = "publish" /\ script[i].part = "op" /\ script[i].arg = "roll"
      <4>1. ASSUME NEW i \in DOMAIN script, i > 1 PROVE i = 2
        <5>1. i = 1 \/ i = 2
          BY <3>5
        <5>2. ~(1 > 1)
          OBVIOUS
        <5>3. QED
          BY <4>1, <5>1, <5>2
      <4>2. QED
        BY <3>7, <4>1
    <3>9. \A i, j \in DOMAIN script : i < j => ~(script[i].arg = "B" /\ script[j].arg = "A")
      <4>1. script[1].arg # "A" /\ script[2].arg # "A"
        BY <1>3, <3>7
      <4>2. QED
        BY <3>5, <4>1
    <3>10. Taking({"ReadRollChunk"}, {""}, "roll")'
      BY <1>3, <2>3, <3>1, <3>2, <3>3, <3>4, <3>6, <3>8, <3>9, OutcomeForm, SpreadTaking
    <3>11. QED
      BY <3>10 DEF PollInv
  <2>4. QED
    BY <1>3, <2>1, <2>2, <2>3 DEF Taken, Lengths
<1>4. CASE script = <<Try("Ping")>> /\ ~script[1].must /\ script[1].op = "Ping"
  <2>1. Drops(1)
    BY <1>4, OutcomeForm DEF Taken, GivenUp, Ignored, Lengths
  <2>2. Len(script) = 1
    BY <1>4
  <2>3. Len(script') = 0
    BY <2>1, <2>2 DEF Drops
  <2>4. QED
    BY <1>2, <2>3, OutcomeForm, EmptySeq
<1>5. CASE Taking({"ReadRollChunk"}, {""}, "roll")
  <2>1. Taken /\ script[1].op \in Packets
    BY <1>2, <1>5, OutcomeOfTaking DEF Packets
  <2>2. QED
    BY <1>5, <2>1, TakePacket DEF PollInv
<1>6. QED
  <2>1. PollInv
    BY DEF ProtocolInv
  <2>2. QED
    BY <1>2, <1>3, <1>4, <1>5, <2>1, OutcomeForm, PollHead

\* The sweep that Auto forces stays one.
LEMMA OutcomeForced ==
  ASSUME ProtocolInv, Read \/ TimeOut, Forced
  PROVE  script' = <<>> \/ Forced'
<1>1. script[1].part = "op"
  BY OutcomeForm DEF Forced
<1>2. CASE Drops(1)
  <2>1. 1 \in Nat \ {0}
    OBVIOUS
  <2>2. QED
    BY <1>2, <2>1, OutcomeForm, DropKeeps
<1>3. CASE script' = <<Try("Ping")>>
  BY <1>3, PingForm DEF Forced
<1>4. CASE \E n \in 0 .. MaxChunks : Spreads(n)
  <2>1. PICK n \in 0 .. MaxChunks : Spreads(n)
    BY <1>4
  <2>2. n \in Nat
    BY ProtocolAssumption
  <2>3. ASSUME NEW i \in DOMAIN script'
        PROVE  \/ script'[i].step = "send" /\ script'[i].part = "op"
               \/ \E j \in DOMAIN script : script'[i] = script[j]
    BY <1>1, <2>1, <2>2, OutcomeForm, SpreadForm
  <2>4. QED
    BY <2>3 DEF Forced
<1>5. QED
  BY <1>1, <1>2, <1>3, <1>4, OutcomeForm DEF Taken, GivenUp, Ignored

\* A command of a burst on its way to its wait.
LEMMA OutcomeArming ==
  ASSUME ProtocolInv, Read \/ TimeOut, MaxBehind <= 5, Arming, record = <<>>, script' # <<>>
  PROVE  record' = <<>> /\ Arming'
<1>1. AnswerInv'
  BY OutcomeTyped
<1>2. ASSUME script[1].op \notin Lengths \cup Packets
      PROVE  /\ script[1].part = "op" => Drops(1) /\ record' = <<>> /\ (Taken \/ Ignored)
             /\ script[1].part = "op" /\ script[1].must => Taken
  <2>1. script[1].op # "RollReadyLength" /\ script[1].op \notin Lengths /\ script[1].op \notin Packets
    BY <1>2 DEF Lengths
  <2>2. Taken => Drops(1) /\ record' = record
    BY <2>1 DEF Taken
  <2>3. Ignored => Drops(1) /\ record' = record /\ ~script[1].must
    BY DEF Ignored
  <2>4. GivenUp => script[1].part # "op"
    BY DEF GivenUp
  <2>5. QED
    BY <2>2, <2>3, <2>4, OutcomeForm
<1>3. CASE \E k \in 0 .. 6 : Rest(Burst, k) /\ (k < 6 => Recent(k, Quiet)) /\ (k = 6 => Foreign = 0)
  <2>1. PICK k \in 0 .. 6 : Rest(Burst, k) /\ (k < 6 => Recent(k, Quiet)) /\ (k = 6 => Foreign = 0)
    BY <1>3
  <2>2. script[1] = Burst[k + 1] /\ k + 1 \in 1 .. 7 /\ k \in Nat
    <3>1. script[1] = Burst[k + 1]
      BY <2>1, OutcomeForm, SequencesSend
    <3>2. QED
      BY <3>1
  <2>3. /\ script[1].part = "op" /\ script[1].op \notin Lengths \cup Packets
        /\ k <= 4 => ~script[1].must /\ script[1].op \in {"StatusE4", "StatusE6", "Ping"}
        /\ k = 5 => script[1].must /\ script[1].echo /\ script[1].op = "StartAcquisition"
        /\ k = 6 => script[1].must
    <3>1. /\ k <= 4 => k + 1 <= 5
          /\ k = 5 => k + 1 = 6
          /\ k = 6 => k + 1 = 7
      BY <2>2
    <3>2. QED
      BY <2>2, <3>1, BurstSends
  <2>4. Drops(1) /\ record' = <<>> /\ (script[1].must => Taken)
    BY <1>2, <2>3
  <2>5. Rest(Burst, k + 1)'
    BY <2>1, <2>2, <2>4, OutcomeForm, RestNext, BurstIs
  <2>6. ASSUME Taken PROVE pipe # <<>> /\ Foreign' = Foreign
    <3>1. pipe # <<>>
      BY <2>6 DEF Taken
    <3>2. QED
      BY <3>1, OutcomeForm, ReadFirst
  <2>7. CASE k <= 4
    <3>1. Own(script[1]) \in Quiet
      <4>1. Own(script[1]) \in Answers /\ Own(script[1]).op \in {"StatusE4", "StatusE6", "Ping"}
        BY <2>3, <2>7, OutcomeForm, OwnTyped DEF Own
      <4>2. QED
        BY <4>1 DEF Quiet
    <3>2. Recent(k + 1, Quiet)'
      <4>1. Recent(k, Quiet)
        BY <2>1, <2>7
      <4>2. QED
        BY <2>2, <3>1, <4>1, OutcomeForm, DoneRecent
    <3>3. k + 1 \in 0 .. 6 /\ k + 1 < 6
      BY <2>2, <2>7
    <3>4. Arming'
      BY <2>5, <3>2, <3>3 DEF Arming
    <3>5. QED
      BY <2>4, <3>4
  <2>8. CASE k = 5
    <3>1. Taken /\ Head(pipe).op = "StartAcquisition"
      <4>1. Taken
        BY <2>3, <2>4, <2>8
      <4>2. QED
        BY <2>3, <2>8, <4>1 DEF Taken, Accepts
    <3>2. Head(pipe) \notin Quiet
      BY <3>1 DEF Quiet
    <3>3. Foreign = 0
      <4>1. Recent(5, Quiet) /\ Foreign <= 5
        BY <2>1, <2>8, OutcomeForm
      <4>2. pipe # <<>>
        BY <2>6, <3>1
      <4>3. Recent(5, Quiet) /\ Foreign # 0 /\ Foreign <= 5 => Head(pipe) \in Quiet
        BY <4>2, OutcomeForm, ReadFirst
      <4>4. QED
        BY <3>2, <4>1, <4>3
    <3>4. Foreign' = 0
      BY <2>6, <3>1, <3>3
    <3>5. Rest(Burst, 6)'
      BY <2>5, <2>8
    <3>6. Arming'
      BY <3>4, <3>5 DEF Arming
    <3>7. QED
      BY <2>4, <3>6
  <2>9. CASE k = 6
    <3>1. Foreign' = 0
      BY <2>1, <2>3, <2>4, <2>6, <2>9
    <3>2. Recent(MaxBehind, Pings)'
      BY <1>1, <3>1, RecentNone
    <3>3. Len(script') = 1 /\ script'[1] = Await("wait", MaxPolls)
      <4>1. Rest(Burst, 7)'
        BY <2>5, <2>9
      <4>2. Len(script') = 1
        BY <4>1, BurstIs DEF Rest
      <4>3. 1 \in DOMAIN script'
        BY <4>2, OutcomeForm
      <4>4. script'[1] = Burst[7 + 1]
        BY <4>1, <4>3 DEF Rest
      <4>5. QED
        BY <4>2, <4>4, BurstIs
    <3>4. Await("wait", MaxPolls).step = "wait" /\ Await("wait", MaxPolls).part = "op"
      BY DEF Await
    <3>5. Arming'
      BY <3>2, <3>3, <3>4 DEF Arming
    <3>6. QED
      BY <2>4, <3>5
  <2>10. QED
    BY <2>2, <2>7, <2>8, <2>9
<1>4. CASE /\ Len(script) \in {1, 2}
           /\ script[Len(script)].step = "wait" /\ script[Len(script)].part = "op"
           /\ Len(script) = 2 => /\ script[1].step = "send" /\ script[1].part = "op"
                                 /\ \/ script[1].op = "ReadyPoll"
                                    \/ script[1].op = "Ping" /\ ~script[1].must
           /\ Len(script) = 2 \/ script[1].left > 0 => Recent(MaxBehind, Pings)
  <2>1. /\ Len(script) = 2 /\ script[2].step = "wait" /\ script[2].part = "op"
        /\ script[1].op = "Ping" /\ script[1].part = "op" /\ Recent(MaxBehind, Pings)
    BY <1>4, OutcomeForm
  <2>2. script[1].op \notin Lengths \cup Packets
    BY <2>1 DEF Lengths, Packets
  <2>3. Drops(1) /\ record' = <<>>
    BY <1>2, <2>1, <2>2
  <2>4. Len(script') = 1 /\ script'[1] = script[2]
    <3>1. Len(script') = 1
      BY <2>1, <2>3 DEF Drops
    <3>2. 1 \in 1 .. Len(script') /\ 1 + 1 = 2
      BY <3>1
    <3>3. script'[1] = script[1 + 1]
      BY <2>3, <3>2 DEF Drops
    <3>4. QED
      BY <3>1, <3>2, <3>3
  <2>5. Recent(MaxBehind, Pings)'
    <3>1. Own(script[1]) \in Answers /\ Own(script[1]).op = "Ping"
      BY <2>1, OutcomeForm, OwnTyped DEF Own
    <3>2. Own(script[1]) \in Pings
      BY <3>1 DEF Pings
    <3>3. QED
      BY <2>1, <3>2, OutcomeForm, DoneRecent
  <2>6. Arming'
    BY <2>1, <2>4, <2>5 DEF Arming
  <2>7. QED
    BY <2>3, <2>6
<1>5. QED
  BY <1>3, <1>4 DEF Arming

\* A burst publishes its own halves: no more answers are owed than a burst or
\* the start of roll mode has commands to push them out with.
LEMMA OutcomeBurst ==
  ASSUME ProtocolInv, Read \/ TimeOut, MaxBehind <= 5
  PROVE  BurstInv'
<1>1. CASE script' = <<>>
  BY <1>1, EmptyForm
<1>2. SUFFICES ASSUME job = "burst", script' # <<>> PROVE BurstInv'
  BY <1>1, OutcomeForm DEF BurstInv
<1>3. CASE ~triggered /\ Forced
  <2>1. Forced' /\ ~triggered'
    BY <1>2, <1>3, OutcomeForm, OutcomeForced
  <2>2. QED
    BY <2>1 DEF BurstInv
<1>4. CASE ~triggered /\ record = <<>> /\ Arming
  <2>1. record' = <<>> /\ Arming' /\ ~triggered'
    BY <1>2, <1>4, OutcomeForm, OutcomeArming
  <2>2. QED
    BY <2>1 DEF BurstInv
<1>5. CASE Taking({"BurstLength", "ReadBurstChunk"}, {"A", "B"}, "burst")
  <2>1. /\ script[1].must /\ script[1].part = "op" /\ ~script[1].echo
        /\ script[1].op \in {"BurstLength", "ReadBurstChunk"} /\ script[1].arg \in {"A", "B"}
        /\ Taken /\ Foreign' = 0
    BY <1>2, <1>5, OutcomeOfTaking
  <2>2. CASE script[1].op = "ReadBurstChunk"
    <3>1. script[1].op \in Packets
      BY <2>2 DEF Packets
    <3>2. QED
      BY <1>5, <2>1, <3>1, TakePacket DEF BurstInv
  <2>3. CASE script[1].op = "BurstLength"
    <3>1. record' = record /\ \E n \in 0 .. MaxChunks : Spreads(n)
      BY <2>1, <2>3 DEF Taken, Lengths
    <3>2. PICK n \in 0 .. MaxChunks : Spreads(n)
      BY <3>1
    <3>3. n \in Nat
      BY ProtocolAssumption
    <3>4. Ours'
      BY <1>5, <3>1, OutcomeForm DEF Taking, Ours
    <3>5. /\ \A i \in DOMAIN script :
               i > 1 => \/ /\ Reads(script[i], {"BurstLength", "ReadBurstChunk"})
                           /\ script[i].arg \in {"A", "B"}
                        \/ script[i].step = "publish" /\ script[i].part = "op" /\ script[i].arg = "burst"
          /\ \A i, j \in DOMAIN script : i < j => ~(script[i].arg = "B" /\ script[j].arg = "A")
          /\ \A r \in DOMAIN record, i \in DOMAIN script :
               ~(record[r].arg = "B" /\ script[i].arg = "A")
      BY <1>5 DEF Taking
    <3>6. (IF script[1].op = "BurstLength" THEN "ReadBurstChunk" ELSE "ReadRollChunk")
            \in {"BurstLength", "ReadBurstChunk"}
      BY <2>3
    <3>7. Taking({"BurstLength", "ReadBurstChunk"}, {"A", "B"}, "burst")'
      BY <2>1, <3>1, <3>2, <3>3, <3>4, <3>5, <3>6, OutcomeForm, SpreadTaking
    <3>8. QED
      BY <3>7 DEF BurstInv
  <2>4. QED
    BY <2>1, <2>2, <2>3
<1>6. QED
  BY <1>2, <1>3, <1>4, <1>5, OutcomeForm DEF ProtocolInv, BurstInv

\* A command that is done with keeps the invariant.
LEMMA OutcomeKeeps ==
  ASSUME ProtocolInv, Read \/ TimeOut, MaxBehind <= 5
  PROVE  ProtocolInv'
  BY OutcomeTyped, OutcomePolls, OutcomeStream, OutcomeRoll, OutcomePoll, OutcomeBurst
     DEF ProtocolInv

-----------------------------------------------------------------------------
\* Before open() nothing is owed.
LEMMA ProtocolInit ==
  ASSUME Init PROVE ProtocolInv
<1>1. /\ link = "closed" /\ mode = "burst" /\ sweep = "Auto" /\ dirty = TRUE /\ started = FALSE
      /\ job = "none" /\ script = <<>> /\ failed = {} /\ awaiting = FALSE
      /\ pipe = <<>> /\ slow = <<>> /\ late = 0 /\ record = <<>> /\ triggered = FALSE
      /\ device = [rate |-> "none", trigger |-> FALSE, mode |-> "none", capture |-> 0]
  BY DEF Init
<1>2. device \in Devices
  <2>1. "none" \in Args
    BY DEF Args
  <2>2. QED
    BY <1>1, <2>1 DEF Devices
<1>3. TypeOK
  <2>1. late \in 0 .. MaxLate
    BY <1>1, ProtocolAssumption
  <2>2. script \in Seq(Sends \cup Marks) /\ pipe \in Seq(Answers) /\ slow \in Seq(Answers)
        /\ record \in Seq(Answers)
    BY <1>1, EmptySeq
  <2>3. job \in Jobs
    BY <1>1 DEF Jobs
  <2>4. dirty \in BOOLEAN /\ started \in BOOLEAN /\ awaiting \in BOOLEAN /\ triggered \in BOOLEAN
    BY <1>1
  <2>5. link \in {"closed", "idle", "run"} /\ mode \in {"burst", "roll"} /\ sweep \in {"Auto", "Normal"}
        /\ failed \subseteq Parts \cup {"measure"}
    BY <1>1
  <2>6. QED
    BY <1>2, <2>1, <2>2, <2>3, <2>4, <2>5 DEF TypeOK
<1>4. AnswerInv
  <2>1. Owed = <<>> /\ Len(Owed) = 0 /\ Len(slow) = 0
    BY <1>1 DEF Owed
  <2>2. Foreign = 0
    BY <1>1, <2>1 DEF Foreign
  <2>3. QED
    BY <1>1, <2>1, <2>2, ProtocolAssumption DEF AnswerInv
<1>5. DOMAIN script = {}
  BY <1>1
<1>6. QED
  BY <1>1, <1>3, <1>4, <1>5
     DEF ProtocolInv, LinkInv, StreamInv, PollsInv, AsideInv, Asides, BurstInv, RollInv, PollInv

\* Every step keeps the invariant.
LEMMA ProtocolStep ==
  ASSUME ProtocolInv, [Next]_vars, MaxBehind <= 5
  PROVE  ProtocolInv'
<1>1. CASE Open \/ SendGenerator \/ KeepAlive \/ BeginAutoset \/ Iterate
  BY <1>1, BeginningKeeps
<1>2. CASE Apply \/ Run \/ Stop
  BY <1>2, CallsKeep
<1>3. CASE Write
  BY <1>3, WriteKeeps
<1>4. CASE Read \/ TimeOut
  BY <1>4, OutcomeKeeps
<1>5. CASE Wait
  BY <1>5, WaitKeeps
<1>6. CASE ReadPoll \/ PollTimesOut
  BY <1>6, PollKeeps
<1>7. CASE Store \/ Publish
  BY <1>7, MarksKeep
<1>8. CASE Arrive
  BY <1>8, ArriveKeeps
<1>9. CASE EndJob
  BY <1>9, EndKeeps
<1>10. CASE UNCHANGED vars
  <2>1. UNCHANGED <<link, mode, sweep, dirty, started, job, script, failed, awaiting, pipe, slow,
                    late, record, triggered, device>>
    BY <1>10 DEF vars, hostVars, busVars
  <2>2. TypeOK'
    BY <2>1 DEF ProtocolInv, TypeOK
  <2>3. Foreign' = Foreign /\ Owed' = Owed
    BY <2>1, BusSame
  <2>4. AnswerInv'
    BY <2>1, <2>3 DEF ProtocolInv, AnswerInv, Own
  <2>5. QED
    BY <2>1, <2>2, <2>3, <2>4, SameKeeps
<1>11. QED
  BY <1>1, <1>2, <1>3, <1>4, <1>5, <1>6, <1>7, <1>8, <1>9, <1>10 DEF Next, Calls, Transfer

\* What is published was taken from answers to the job's own commands.
LEMMA ProtocolSafe ==
  ASSUME ProtocolInv PROVE TakenIsOurs
<1>1. SUFFICES ASSUME job # "none", script # <<>>, script[1].step = "publish",
                      triggered \/ script[1].arg = "roll"
               PROVE  Ours
  <2>1. At("publish") => job # "none" /\ script # <<>> /\ Head(script) = script[1]
                         /\ script[1].step = "publish"
    BY HeadTyped DEF At, ProtocolInv
  <2>2. QED
    BY <1>1, <2>1 DEF TakenIsOurs
<1>2. 1 \in DOMAIN script /\ TypeOK
  BY <1>1, HeadTyped DEF ProtocolInv
<1>3. job \in Asides \cup {"burst", "roll", "poll"}
  BY <1>1, <1>2 DEF TypeOK, Jobs, Asides
<1>4. job \notin Asides
  BY <1>1, <1>2 DEF ProtocolInv, AsideInv
<1>5. job # "roll"
  BY <1>1, <1>2, SequencesSend DEF ProtocolInv, RollInv
<1>6. CASE job = "poll"
  <2>1. Taking({"ReadRollChunk"}, {""}, "roll")
    BY <1>1, <1>2, <1>6, SequencesSend DEF ProtocolInv, PollInv
  <2>2. QED
    BY <2>1 DEF Taking
<1>7. CASE job = "burst"
  <2>1. ~Arming
    BY <1>1, <1>2, SequencesSend DEF Arming
  <2>2. Forced => script[1].arg = "burst"
    BY <1>1, <1>2 DEF Forced
  <2>3. Taking({"BurstLength", "ReadBurstChunk"}, {"A", "B"}, "burst")
    BY <1>1, <1>7, <2>1, <2>2 DEF ProtocolInv, BurstInv
  <2>4. QED
    BY <2>3 DEF Taking
<1>8. QED
  BY <1>3, <1>4, <1>5, <1>6, <1>7

\* The invariant holds in every state.
LEMMA ProtocolInductive ==
  ASSUME MaxBehind <= 5 PROVE Spec => []ProtocolInv
<1>1. Init => ProtocolInv
  BY ProtocolInit
<1>2. ProtocolInv /\ [Next]_vars => ProtocolInv'
  BY ProtocolStep
<1>3. QED
  BY <1>1, <1>2, PTL DEF Spec

\* A frame published as triggered, or in roll mode, is made of nothing but the record
\* that was announced for it: every packet is of the capture under way, and half A
\* comes before half B.  The device must never owe more answers than startRollMode()
\* sends commands: with six, five echoes and a length can all be found in what is left
\* of earlier attempts, and the frame after them is made of anything.
THEOREM ProtocolTakenIsOurs ==
  ASSUME MaxBehind <= 5 PROVE Spec => []TakenIsOurs
<1>1. ProtocolInv => TakenIsOurs
  BY ProtocolSafe
<1>2. QED
  BY <1>1, ProtocolInductive, PTL
-----------------------------------------------------------------------------
\* The trigger a burst is armed to wait for.

Sent(x, op) == x.step = "send" /\ x.op = op
Rate(x)     == Sent(x, "SetTimeDiv")
Chosen(x)   == Sent(x, "SetTrigger")
Starts(x)   == Sent(x, "StartAcquisition")
Unforced(x) == Sent(x, "AcquisitionArm") /\ x.arg = "unforced"

\* What is neither a mark nor a command that changes the device: it may be said in any job.
Bare(x) == /\ x.step = "send" => x.op \notin {"SetTimeDiv", "SetTrigger", "StartAcquisition",
                                             "AcquisitionArm", "RollReadyLength"}
           /\ x.step \notin {"zero", "measure", "store"}

\* What may be said in a job: the rate and the choice of the trigger belong to the
\* operation itself, and only a burst arms without force.
Steady(x) == /\ Rate(x) => x.part = "op" /\ x.arg = "burst"
             /\ Chosen(x) => x.part = "op"
             /\ ~Unforced(x) /\ ~Sent(x, "RollReadyLength")
             /\ x.step = "zero" => x.part # "op"
             /\ x.step \notin {"measure", "store"}
Bursting(x) == /\ ~Rate(x) /\ ~Sent(x, "RollReadyLength") /\ x.step # "store"
               /\ Starts(x) => x.part = "op" /\ x.arg = "burst"
               /\ Unforced(x) => x.part = "op"
Setups  == {"open", "config", "autoset"}
Says(j, x) == /\ j = "burst" => Bursting(x)
              /\ j = "autoset" => Steady(x) \/ x.step \in {"measure", "store"}
              /\ j \in {"open", "config"} => Steady(x)
              /\ j \in {"generator", "ping"} => Steady(x) /\ ~Rate(x)
              /\ j \in {"roll", "poll"} => x.step # "store" /\ ~Unforced(x)
SayInv == \A i \in DOMAIN script : Says(job, script[i])

\* A command that is under way has been obeyed.
Obeyed == /\ Rate(script[1]) => device.rate = script[1].arg
          /\ Chosen(script[1]) => device.trigger
          /\ Starts(script[1]) => device.mode = script[1].arg

\* Which jobs find the configuration in the device.
DirtyInv == /\ link = "closed" => dirty /\ job \in {"none", "open"}
            /\ job = "burst" => ~dirty
            /\ job \in {"open", "config"} => dirty /\ "measure" \notin failed

\* With what is left to say, the device ends up with a burst rate and a choice made after it.
WillSelect == /\ device.rate = "burst" \/ \E i \in DOMAIN script : Rate(script[i])
              /\ device.trigger \/ \E i \in DOMAIN script : Chosen(script[i])
              /\ \A i \in DOMAIN script :
                   Rate(script[i]) => \E j \in DOMAIN script : j > i /\ Chosen(script[j])
SetupInv == job \in Setups /\ failed \cap {"op", "measure"} = {} => WillSelect

\* autoset() has marked the configuration before it touches the rate.
StoreInv ==
  job = "autoset" /\ ~dirty =>
    \A i \in DOMAIN script : Rate(script[i]) =>
      \E k \in DOMAIN script : k < i /\ script[k].step = "store"

\* A burst is started before it is armed.
ArmInv ==
  job = "burst" =>
    \A i \in DOMAIN script : Unforced(script[i]) =>
      device.mode = "burst" \/ \E k \in DOMAIN script : k < i /\ Starts(script[k])

\* What is not marked as changed is in the device.
KeptInv == ~dirty /\ mode = "burst" => device.rate = "burst" /\ device.trigger

ChosenInv == /\ SayInv /\ (awaiting => Obeyed) /\ DirtyInv
             /\ SetupInv /\ StoreInv /\ ArmInv /\ KeptInv

\* A script that selects the rate, and then the trigger.
Settles(s) == /\ \E i \in DOMAIN s : Rate(s[i])
              /\ \A i \in DOMAIN s : Rate(s[i]) => \E j \in DOMAIN s : j > i /\ Chosen(s[j])

\* What two scripts say one after the other.
LEMMA Joined ==
  ASSUME NEW S, NEW s \in Seq(S), NEW t \in Seq(S)
  PROVE  /\ s \o t \in Seq(S) /\ DOMAIN s = 1 .. Len(s) /\ DOMAIN t = 1 .. Len(t)
         /\ Len(s) \in Nat /\ Len(t) \in Nat /\ DOMAIN (s \o t) = 1 .. Len(s) + Len(t)
         /\ \A i \in DOMAIN s : (s \o t)[i] = s[i]
         /\ \A i \in DOMAIN t : i + Len(s) \in DOMAIN (s \o t) /\ (s \o t)[i + Len(s)] = t[i]
         /\ \A i \in DOMAIN (s \o t) :
              \/ i \in DOMAIN s
              \/ i - Len(s) \in DOMAIN t /\ (s \o t)[i] = t[i - Len(s)] /\ i > Len(s)
<1>1. /\ s \o t \in Seq(S) /\ Len(s \o t) = Len(s) + Len(t)
      /\ \A i \in 1 .. Len(s) + Len(t) : (s \o t)[i] = IF i <= Len(s) THEN s[i] ELSE t[i - Len(s)]
  BY ConcatProperties
<1>2. /\ DOMAIN s = 1 .. Len(s) /\ DOMAIN t = 1 .. Len(t) /\ Len(s) \in Nat /\ Len(t) \in Nat
      /\ DOMAIN (s \o t) = 1 .. Len(s) + Len(t)
  BY <1>1, LenProperties
<1> DEFINE u == s \o t
<1> HIDE DEF u
<1>3. \A i \in 1 .. Len(s) + Len(t) : u[i] = IF i <= Len(s) THEN s[i] ELSE t[i - Len(s)]
  BY <1>1 DEF u
<1>4. \A i \in 1 .. Len(s) : u[i] = s[i]
  BY <1>2, <1>3
<1>5. \A i \in 1 .. Len(t) : i + Len(s) \in 1 .. Len(s) + Len(t) /\ u[i + Len(s)] = t[i]
  BY <1>2, <1>3
<1>6. \A i \in 1 .. Len(s) + Len(t) :
        \/ i \in 1 .. Len(s)
        \/ i - Len(s) \in 1 .. Len(t) /\ u[i] = t[i - Len(s)] /\ i > Len(s)
  BY <1>2, <1>3
<1>7. QED
  BY <1>1, <1>2, <1>4, <1>5, <1>6 DEF u

\* Saying more before it, or what sets no rate after it, changes nothing.
LEMMA SettlesAfter ==
  ASSUME NEW S, NEW s \in Seq(S), NEW t \in Seq(S), Settles(t)
  PROVE  Settles(s \o t)
<1> DEFINE u == s \o t
           n == Len(s)
<1>1. /\ n \in Nat /\ DOMAIN s = 1 .. n /\ DOMAIN t = 1 .. Len(t) /\ Len(t) \in Nat
      /\ \A i \in DOMAIN t : i + n \in DOMAIN u /\ u[i + n] = t[i]
      /\ \A i \in DOMAIN u : i \in DOMAIN s \/ (i - n \in DOMAIN t /\ u[i] = t[i - n] /\ i > n)
      /\ DOMAIN u = 1 .. n + Len(t)
  BY Joined
<1> HIDE DEF u, n
<1>2. PICK r \in DOMAIN t : Rate(t[r])
  BY DEF Settles
<1>3. PICK c \in DOMAIN t : c > r /\ Chosen(t[c])
  BY <1>2 DEF Settles
<1>4. r + n \in DOMAIN u /\ Rate(u[r + n])
  BY <1>1, <1>2
<1>5. ASSUME NEW i \in DOMAIN u, Rate(u[i])
      PROVE  \E j \in DOMAIN u : j > i /\ Chosen(u[j])
  <2>1. CASE i \in DOMAIN s
    <3>1. c + n \in DOMAIN u /\ Chosen(u[c + n]) /\ c + n > i
      BY <1>1, <1>3, <2>1
    <3>2. QED
      BY <3>1
  <2>2. CASE i - n \in DOMAIN t /\ u[i] = t[i - n]
    <3>1. PICK j \in DOMAIN t : j > i - n /\ Chosen(t[j])
      BY <1>5, <2>2 DEF Settles
    <3>2. j + n \in DOMAIN u /\ Chosen(u[j + n]) /\ j + n > i
      BY <1>1, <3>1
    <3>3. QED
      BY <3>2
  <2>3. QED
    BY <1>1, <2>1, <2>2
<1>6. Settles(u)
  BY <1>4, <1>5 DEF Settles
<1>7. QED
  BY <1>6 DEF u

\* A part that sets no rate may be appended to a script that settles.
LEMMA SettlesBefore ==
  ASSUME NEW S, NEW s \in Seq(S), NEW t \in Seq(S), Settles(s), \A i \in DOMAIN t : ~Rate(t[i])
  PROVE  Settles(s \o t)
<1> DEFINE u == s \o t
           n == Len(s)
<1>1. /\ n \in Nat /\ DOMAIN s = 1 .. n /\ Len(t) \in Nat
      /\ \A i \in DOMAIN s : u[i] = s[i]
      /\ \A i \in DOMAIN u : i \in DOMAIN s \/ (i - n \in DOMAIN t /\ u[i] = t[i - n])
      /\ DOMAIN u = 1 .. n + Len(t)
  BY Joined
<1> HIDE DEF u, n
<1>2. DOMAIN s \subseteq DOMAIN u
  BY <1>1
<1>3. \E i \in DOMAIN u : Rate(u[i])
  BY <1>1, <1>2 DEF Settles
<1>4. ASSUME NEW i \in DOMAIN u, Rate(u[i])
      PROVE  \E j \in DOMAIN u : j > i /\ Chosen(u[j])
  <2>1. i \in DOMAIN s /\ Rate(s[i])
    BY <1>1, <1>4
  <2>2. PICK j \in DOMAIN s : j > i /\ Chosen(s[j])
    BY <2>1 DEF Settles
  <2>3. QED
    BY <1>1, <1>2, <2>2
<1>5. Settles(u)
  BY <1>3, <1>4 DEF Settles
<1>6. QED
  BY <1>5 DEF u


-----------------------------------------------------------------------------
\* What the jobs say, and that their scripts settle the trigger.

Plain == Opcodes \ {"ReadyPoll", "RollReadyLength"}
SteadyItems == {x \in Items : Steady(x)}
Rateless == {x \in Items : Steady(x) /\ ~Rate(x)}

\* The commands that are steady whatever their part is, and those of the operation itself.
LEMMA SteadyCommands ==
  /\ \A op \in Plain \ {"SetTimeDiv", "SetTrigger", "AcquisitionArm"} :
       /\ Must(op) \in Rateless /\ Try(op) \in Rateless
       /\ \A raw \in Nat : Blob(op, raw) \in Rateless /\ Echoed(op, raw) \in Rateless
       /\ \A arg \in Args : Set(op, arg) \in Rateless
       /\ \A arg \in Args, raw \in Nat : Ask(op, arg, raw) \in Rateless
  /\ Set("AcquisitionArm", "forced") \in Rateless /\ Must("SetTrigger") \in Rateless
  /\ Set("SetTimeDiv", "burst") \in SteadyItems
<1> USE DEF Rateless, SteadyItems, Steady, Rate, Chosen, Unforced, Sent
<1>1. ASSUME NEW op \in Plain \ {"SetTimeDiv", "SetTrigger", "AcquisitionArm"}
      PROVE  /\ Must(op) \in Rateless /\ Try(op) \in Rateless
             /\ \A raw \in Nat : Blob(op, raw) \in Rateless /\ Echoed(op, raw) \in Rateless
             /\ \A arg \in Args : Set(op, arg) \in Rateless
             /\ \A arg \in Args, raw \in Nat : Ask(op, arg, raw) \in Rateless
  <2>1. ASSUME NEW x \in PlainSends, x.op = op PROVE x \in Rateless
    <3>1. x \in Items /\ x.step = "send"
      BY DEF PlainSends, Items, Sends
    <3>2. QED
      BY <2>1, <3>1 DEF Plain
  <2>2. /\ Must(op).op = op /\ Try(op).op = op
        /\ \A raw \in Nat : Blob(op, raw).op = op /\ Echoed(op, raw).op = op
        /\ \A arg \in Args : Set(op, arg).op = op
        /\ \A arg \in Args, raw \in Nat : Ask(op, arg, raw).op = op
    BY DEF Must, Try, Blob, Echoed, Set, Ask, Command
  <2>3. op \in Opcodes \ {"ReadyPoll"}
    BY DEF Plain
  <2> HIDE DEF Rateless
  <2>4. QED
    BY <2>1, <2>2, <2>3, CommandPlain
<1>2. PlainSends \subseteq Items
  BY DEF PlainSends, Items
<1>3. /\ Set("AcquisitionArm", "forced") \in Items /\ Must("SetTrigger") \in Items
      /\ Set("SetTimeDiv", "burst") \in Items
  BY <1>2, CommandPlain, SomeArgs DEF Opcodes
<1>4. /\ Set("AcquisitionArm", "forced") \in Rateless /\ Must("SetTrigger") \in Rateless
      /\ Set("SetTimeDiv", "burst") \in SteadyItems
  BY <1>3 DEF Set, Must, Command
<1>5. QED
  BY <1>1, <1>4

\* The same, as items that may set the rate.
LEMMA SteadyTyped == Rateless \subseteq SteadyItems /\ SteadyItems \subseteq Items
  BY DEF Rateless, SteadyItems

\* The parts of the scripts that set no rate.
LEMMA PartsRateless ==
  /\ Settings \in Seq(Rateless) /\ ReadHalves \in Seq(Rateless)
  /\ <<Must("SetVerticalScale")>> \in Seq(Rateless)
  /\ <<Try("Ping")>> \in Seq(Rateless)
<1> USE SteadyCommands, SomeArgs DEF Ping, Plain, Opcodes
<1>1. Settings \in Seq(Rateless)
  BY DEF Settings
<1>2. ReadHalves \in Seq(Rateless)
  BY DEF ReadHalves
<1>3. Must("SetVerticalScale") \in Rateless /\ Try("Ping") \in Rateless
  OBVIOUS
<1>4. QED
  BY <1>1, <1>2, <1>3

\* A forced burst sets no rate.
LEMMA ForcedRateless == StartBurst("forced") \in Seq(Rateless)
<1> USE SteadyCommands, SomeArgs DEF Ping, Plain, Opcodes
<1> DEFINE begin == <<Try("StatusE4"), Blob("StatusE6", 10), Watch, Try("StatusE4"), Blob("StatusE6", 10),
                      Set("StartAcquisition", "burst"), Set("AcquisitionArm", "forced")>>
           end == <<Must("AcquisitionGo")>>
<1>1. Watch \in Rateless
  BY DEF Watch
<1>2. begin \in Seq(Rateless) /\ end \in Seq(Rateless)
  BY <1>1
<1>3. StartBurst("forced") = begin \o end
  BY DEF StartBurst
<1> HIDE DEF begin, end
<1>4. QED
  BY <1>2, <1>3, ConcatProperties

\* The first phase of open() is steady.
LEMMA Phase1Steady == Phase1 \in Seq(SteadyItems)
<1>1. /\ \A op \in Plain \ {"SetTimeDiv", "SetTrigger", "AcquisitionArm"} :
           /\ Must(op) \in SteadyItems
           /\ \A raw \in Nat : Blob(op, raw) \in SteadyItems /\ Echoed(op, raw) \in SteadyItems
      /\ Must("SetTrigger") \in SteadyItems /\ Set("SetTimeDiv", "burst") \in SteadyItems
  BY SteadyCommands, SteadyTyped
<1>2. QED
  BY <1>1 DEF Phase1, Ping, Plain, Opcodes

\* The rate, and then the trigger.
LEMMA RateThenTrigger == RateAndTrigger \in Seq(SteadyItems) /\ Settles(RateAndTrigger)
<1>1. /\ Must("SetTrigger") \in SteadyItems /\ Must("SetTriggerLevel") \in SteadyItems
      /\ Set("SetTimeDiv", "burst") \in SteadyItems
  BY SteadyCommands, SteadyTyped DEF Plain, Opcodes
<1>2. RateAndTrigger \in Seq(SteadyItems) /\ DOMAIN RateAndTrigger = 1 .. 3
      /\ RateAndTrigger[1] = Set("SetTimeDiv", "burst") /\ RateAndTrigger[2] = Must("SetTrigger")
      /\ RateAndTrigger[3] = Must("SetTriggerLevel")
  BY <1>1 DEF RateAndTrigger
<1>3. /\ Rate(Set("SetTimeDiv", "burst")) /\ Chosen(Must("SetTrigger"))
      /\ ~Rate(Must("SetTrigger")) /\ ~Rate(Must("SetTriggerLevel"))
  BY DEF Rate, Chosen, Sent, Set, Must, Command
<1>4. \A i \in 1 .. 3 : i = 1 \/ i = 2 \/ i = 3
  OBVIOUS
<1>5. \A i \in DOMAIN RateAndTrigger : Rate(RateAndTrigger[i]) => i = 1
  BY <1>2, <1>3, <1>4
<1>6. 1 \in DOMAIN RateAndTrigger /\ 2 \in DOMAIN RateAndTrigger /\ 2 > 1
      /\ Rate(RateAndTrigger[1]) /\ Chosen(RateAndTrigger[2])
  BY <1>2, <1>3
<1>7. QED
  BY <1>2, <1>5, <1>6 DEF Settles

\* Every configuration ends with the choice of the trigger.
LEMMA Phase3Settles == Phase3 \in Seq(SteadyItems) /\ Settles(Phase3)
<1> DEFINE begin == <<Must("StatusF6"), Blob("StatusE5", 2), Blob("StatusF7", 64), Blob("StatusF8", 64),
                      Blob("StatusFa", 56), Set("SetTimeDiv", "burst"), Must("ConfigAc"), Must("StatusE4"),
                      Blob("StatusE6", 10)>>
           end == <<Echoed("StatusA7", 1), Must("ConfigAc"), Must("SetTriggerLevel"),
                    Blob("StatusE9", 2)>>
<1>1. /\ \A op \in Plain \ {"SetTimeDiv", "SetTrigger", "AcquisitionArm"} :
           /\ Must(op) \in SteadyItems
           /\ \A raw \in Nat : Blob(op, raw) \in SteadyItems /\ Echoed(op, raw) \in SteadyItems
      /\ Set("SetTimeDiv", "burst") \in SteadyItems
  BY SteadyCommands, SteadyTyped
<1>2. begin \in Seq(SteadyItems)
  BY <1>1 DEF Plain, Opcodes
<1>3. end \in Seq(Rateless)
  BY SteadyCommands DEF Plain, Opcodes
<1>4. Phase3 = ((begin \o Settings) \o RateAndTrigger) \o end
  BY DEF Phase3
<1> HIDE DEF begin, end
<1>5. end \in Seq(SteadyItems) /\ \A i \in DOMAIN end : ~Rate(end[i])
  BY <1>3, SteadyTyped, SeqWiden, LenProperties, ElementOfSeq DEF Rateless
<1>6. begin \o Settings \in Seq(SteadyItems)
  BY <1>2, PartsRateless, SteadyTyped, SeqWiden, ConcatProperties
<1>7. /\ Settles((begin \o Settings) \o RateAndTrigger)
      /\ (begin \o Settings) \o RateAndTrigger \in Seq(SteadyItems)
  BY <1>6, RateThenTrigger, SettlesAfter, ConcatProperties
<1>8. QED
  BY <1>4, <1>5, <1>7, SettlesBefore, ConcatProperties


\* What is in a part of its own: commands that do not set up the device, and a wait.
Parted == {x \in Items : \/ x.step = "zero"
                         \/ /\ x.step = "send" /\ ~Unforced(x)
                            /\ x.op \notin {"SetTimeDiv", "SetTrigger", "RollReadyLength"}}

\* It sets no rate, whatever the part is.
LEMMA PartRateless ==
  ASSUME NEW items \in Seq(Parted), NEW part \in Parts \ {"op"}
  PROVE  InPart(part, items) \in Seq(Rateless)
<1>1. \A x \in Parted : [x EXCEPT !.part = part] \in Rateless
  <2>1. SUFFICES ASSUME NEW x \in Parted PROVE [x EXCEPT !.part = part] \in Rateless
    OBVIOUS
  <2>2. CASE x.step = "send"
    <3>1. x \in Sends
      BY <2>2 DEF Parted, Items, Marks, Waits
    <3>2. [x EXCEPT !.part = part] \in Items
      BY <3>1 DEF Sends, Items
    <3>3. QED
      BY <2>2, <3>1, <3>2 DEF Parted, Rateless, Steady, Rate, Chosen, Unforced, Sent, Sends
  <2>3. CASE x.step = "zero"
    <3>1. x \in [step : Waits, part : Parts, left : 0 .. MaxPolls]
      BY <2>3 DEF Parted, Items, Marks, Sends
    <3>2. [x EXCEPT !.part = part] \in Items /\ [x EXCEPT !.part = part].step = "zero"
          /\ [x EXCEPT !.part = part].part = part
      BY <2>3, <3>1 DEF Marks, Items, Waits
    <3>3. QED
      BY <3>2 DEF Rateless, Steady, Rate, Chosen, Unforced, Sent
  <2>4. QED
    BY <2>2, <2>3 DEF Parted
<1>2. QED
  BY <1>1, InPartItems

\* Such commands.
LEMMA PartedCommands ==
  /\ \A op \in Plain \ {"SetTimeDiv", "SetTrigger", "AcquisitionArm"} :
       /\ Must(op) \in Parted /\ \A arg \in Args : Set(op, arg) \in Parted
       /\ \A arg \in Args, raw \in Nat : Ask(op, arg, raw) \in Parted
  /\ Set("AcquisitionArm", "forced") \in Parted /\ Await("zero", MaxPolls) \in Parted
<1>1. ASSUME NEW op \in Plain \ {"SetTimeDiv", "SetTrigger", "AcquisitionArm"}
      PROVE  /\ Must(op) \in Parted /\ \A arg \in Args : Set(op, arg) \in Parted
             /\ \A arg \in Args, raw \in Nat : Ask(op, arg, raw) \in Parted
  <2>1. ASSUME NEW x \in Rateless, x.step = "send", x.op = op PROVE x \in Parted
    BY <2>1 DEF Rateless, Parted, Steady, Plain
  <2>2. /\ Must(op).op = op /\ Must(op).step = "send"
        /\ \A arg \in Args : Set(op, arg).op = op /\ Set(op, arg).step = "send"
        /\ \A arg \in Args, raw \in Nat : Ask(op, arg, raw).op = op /\ Ask(op, arg, raw).step = "send"
    BY DEF Must, Set, Ask, Command
  <2>3. QED
    BY <2>1, <2>2, SteadyCommands
<1>2. Set("AcquisitionArm", "forced") \in Parted
  <2>1. Set("AcquisitionArm", "forced") \in Items
    BY SteadyCommands DEF Rateless
  <2>2. QED
    BY <2>1 DEF Parted, Set, Command, Unforced, Sent
<1>3. Await("zero", MaxPolls) \in Parted
  <2>1. Await("zero", MaxPolls) \in Items
    BY ProtocolAssumption DEF Await, Items, Marks, Waits, Parts
  <2>2. QED
    BY <2>1 DEF Parted, Await
<1>4. QED
  BY <1>1, <1>2, <1>3

\* The zero offsets and the generator are parts of their own.
LEMMA PartsOfTheirOwn == ZeroOffsets \in Seq(Rateless) /\ FlushGenerator \in Seq(Rateless)
<1> DEFINE begin == <<Ping, Must("SetVerticalScale"), Set("StartAcquisition", "burst"),
                      Set("AcquisitionArm", "forced"), Must("AcquisitionGo"), Await("zero", MaxPolls)>>
           pattern == <<Must("GeneratorEnable"), Must("GeneratorLength"),
                        Must("GeneratorWaveform"), Must("GeneratorWaveform")>>
           speed == <<Must("GeneratorSpeed")>>
           output == <<Must("GeneratorEnable"), Must("GeneratorSwitch")>>
<1>1. begin \in Seq(Parted)
  BY PartedCommands, SomeArgs DEF Ping, Plain, Opcodes
<1>2. ReadHalves \in Seq(Parted)
  BY PartedCommands, SomeArgs DEF ReadHalves, Plain, Opcodes
<1>3. pattern \in Seq(Parted) /\ speed \in Seq(Parted) /\ output \in Seq(Parted)
  BY PartedCommands DEF Plain, Opcodes
<1>4. /\ ZeroOffsets = InPart("zero", MeasureRange \o MeasureRange \o MeasureRange)
      /\ MeasureRange = begin \o ReadHalves
      /\ FlushGenerator = (InPart("pattern", pattern) \o InPart("speed", speed))
                          \o InPart("output", output)
  BY DEF ZeroOffsets, MeasureRange, FlushGenerator
<1> HIDE DEF begin, pattern, speed, output
<1>5. MeasureRange \o MeasureRange \o MeasureRange \in Seq(Parted)
  BY <1>1, <1>2, <1>4, ConcatProperties
<1>6. "zero" \in Parts \ {"op"} /\ "pattern" \in Parts \ {"op"} /\ "speed" \in Parts \ {"op"}
      /\ "output" \in Parts \ {"op"}
  BY DEF Parts
<1>7. ZeroOffsets \in Seq(Rateless)
  BY <1>4, <1>5, <1>6, PartRateless
<1>8. /\ InPart("pattern", pattern) \in Seq(Rateless) /\ InPart("speed", speed) \in Seq(Rateless)
      /\ InPart("output", output) \in Seq(Rateless)
  BY <1>3, <1>6, PartRateless
<1>9. FlushGenerator \in Seq(Rateless)
  BY <1>4, <1>8, ConcatProperties
<1>10. QED
  BY <1>7, <1>9

\* Opening ends with the choice of the trigger.
LEMMA OpenSettles ==
  /\ Phase1 \o ZeroOffsets \o Phase3 \o FlushGenerator \in Seq(SteadyItems)
  /\ Settles(Phase1 \o ZeroOffsets \o Phase3 \o FlushGenerator)
<1>1. ZeroOffsets \in Seq(SteadyItems) /\ FlushGenerator \in Seq(SteadyItems)
  BY PartsOfTheirOwn, SteadyTyped, SeqWiden
<1>2. \A i \in DOMAIN FlushGenerator : ~Rate(FlushGenerator[i])
  BY PartsOfTheirOwn, LenProperties, ElementOfSeq DEF Rateless
<1>3. Phase1 \o ZeroOffsets \in Seq(SteadyItems)
  BY <1>1, Phase1Steady, ConcatProperties
<1>4. /\ (Phase1 \o ZeroOffsets) \o Phase3 \in Seq(SteadyItems)
      /\ Settles((Phase1 \o ZeroOffsets) \o Phase3)
  BY <1>3, Phase3Settles, SettlesAfter, ConcatProperties
<1>5. QED
  BY <1>1, <1>2, <1>4, SettlesBefore, ConcatProperties

\* What autoset may say.
AutosetItems == {x \in Items : Steady(x) \/ x.step \in {"measure", "store"}}

\* Autoset settles too, and sets no rate before it has marked the configuration.
LEMMA AutosetSettles ==
  /\ Autoset \in Seq(AutosetItems) /\ Settles(Autoset)
  /\ \A i \in DOMAIN Autoset : Rate(Autoset[i]) =>
       \E k \in DOMAIN Autoset : k < i /\ Autoset[k].step = "store"
<1> DEFINE S == {x \in AutosetItems : ~Rate(x)}
           store == <<Step("store", "")>>
           before == <<Must("SetVerticalScale")>> \o StartBurst("forced")
                     \o <<Await("measure", MaxPolls)>> \o ReadHalves
           first == before \o store
<1>1. Rateless \subseteq S /\ SteadyItems \subseteq AutosetItems /\ S \subseteq AutosetItems
  BY DEF Rateless, SteadyItems, AutosetItems
<1>2. <<Await("measure", MaxPolls)>> \in Seq(S)
  <2>1. Await("measure", MaxPolls) \in Items
    BY ProtocolAssumption DEF Await, Items, Marks, Waits, Parts
  <2>2. Await("measure", MaxPolls) \in S
    BY <2>1 DEF AutosetItems, Await, Rate, Sent
  <2> HIDE DEF S
  <2>3. QED
    BY <2>2, Singles
<1>3. store \in Seq(S) /\ Len(store) = 1 /\ store[1].step = "store"
  <2>1. Step("store", "") \in Items
    BY DEF Step, Items, Marks, Args
  <2>2. Step("store", "") \in S /\ Step("store", "").step = "store"
    BY <2>1 DEF AutosetItems, Step, Rate, Sent
  <2> HIDE DEF S
  <2>3. QED
    BY <2>2, Singles
<1>4. Autoset = first \o Phase3
  BY DEF Autoset
<1> HIDE DEF S, store
<1>5. before \in Seq(S)
  <2>1. /\ <<Must("SetVerticalScale")>> \in Seq(S) /\ StartBurst("forced") \in Seq(S)
        /\ ReadHalves \in Seq(S)
    BY <1>1, PartsRateless, ForcedRateless, SeqWiden
  <2>2. QED
    BY <1>2, <2>1, ConcatProperties
<1> HIDE DEF before
<1> DEFINE n == Len(before)
<1>6. /\ first \in Seq(S) /\ Len(first) = n + 1 /\ first[n + 1].step = "store"
      /\ DOMAIN first = 1 .. n + 1 /\ n \in Nat /\ \A i \in 1 .. n + 1 : ~Rate(first[i])
  <2>1. first \in Seq(S) /\ n \in Nat /\ DOMAIN first = 1 .. n + Len(store)
        /\ \A i \in DOMAIN store : i + n \in DOMAIN first /\ first[i + n] = store[i]
    BY <1>3, <1>5, Joined
  <2>2. DOMAIN store = 1 .. 1
    BY <1>3, LenProperties
  <2>3. 1 \in 1 .. 1 /\ n + 1 = 1 + n
    BY <2>1
  <2>4. first[n + 1] = store[1]
    BY <2>1, <2>2, <2>3
  <2>5. Len(first) = n + 1
    BY <1>3, <2>1, LenProperties
  <2>6. \A i \in DOMAIN first : first[i] \in S
    BY <2>1, LenProperties, ElementOfSeq
  <2> HIDE DEF first, n
  <2>7. QED
    BY <1>3, <2>1, <2>4, <2>5, <2>6 DEF S
<1> HIDE DEF first, n
<1>7. first \in Seq(AutosetItems) /\ Phase3 \in Seq(AutosetItems)
  BY <1>1, <1>6, Phase3Settles, SeqWiden
<1>8. Autoset \in Seq(AutosetItems) /\ Settles(Autoset)
  BY <1>4, <1>7, Phase3Settles, SettlesAfter, ConcatProperties
<1>9. ASSUME NEW i \in DOMAIN Autoset, Rate(Autoset[i])
      PROVE  \E k \in DOMAIN Autoset : k < i /\ Autoset[k].step = "store"
  <2>1. /\ \A k \in DOMAIN first : Autoset[k] = first[k]
        /\ i \in DOMAIN first \/ i > Len(first)
        /\ DOMAIN Autoset = 1 .. Len(first) + Len(Phase3) /\ Len(Phase3) \in Nat
    BY <1>4, <1>7, Joined
  <2>2. i > n + 1 /\ n + 1 \in DOMAIN first /\ n + 1 \in DOMAIN Autoset
    BY <1>6, <1>9, <2>1
  <2>3. QED
    BY <1>6, <2>1, <2>2
<1>10. QED
  BY <1>8, <1>9


-----------------------------------------------------------------------------
\* The steps.

\* A script that settles the trigger selects it.
LEMMA SettlesSelects ==
  ASSUME Settles(script') PROVE WillSelect'
<1>1. PICK i \in DOMAIN script' : Rate(script'[i])
  BY DEF Settles
<1>2. \E j \in DOMAIN script' : Chosen(script'[j])
  BY <1>1 DEF Settles
<1>3. QED
  BY <1>1, <1>2 DEF Settles, WillSelect

\* The items of a script.
LEMMA ItemsOf ==
  ASSUME NEW S, NEW s \in Seq(S) PROVE \A i \in DOMAIN s : s[i] \in S
  BY LenProperties, ElementOfSeq

\* A burst is started before it is armed, and does not touch the rate.
LEMMA BurstSays ==
  /\ \A i \in DOMAIN Burst : Bursting(Burst[i])
  /\ \A i \in DOMAIN Burst : Unforced(Burst[i]) =>
       \E k \in DOMAIN Burst : k < i /\ Starts(Burst[k])
<1> DEFINE P(x) == Bursting(x) /\ ~Unforced(x)
<1>1. P(Try("StatusE4")) /\ P(Blob("StatusE6", 10)) /\ P(Watch)
      /\ P(Set("StartAcquisition", "burst")) /\ P(Await("wait", MaxPolls))
  BY DEF Try, Blob, Watch, Echoed, Set, Command, Await, Bursting, Rate, Starts, Unforced, Sent
<1>2. Bursting(Set("AcquisitionArm", "unforced")) /\ Starts(Set("StartAcquisition", "burst"))
  BY DEF Set, Command, Bursting, Rate, Starts, Unforced, Sent
<1> HIDE DEF P
<1>3. DOMAIN Burst = 1 .. 8
  BY BurstIs, LenProperties
<1>4. \A i \in 1 .. 8 : i \in 1 .. 5 \/ i = 6 \/ i = 7 \/ i = 8
  OBVIOUS
<1>5. \A i \in 1 .. 8 : i # 7 => P(Burst[i])
  BY <1>1, <1>4, BurstIs
<1>6. \A i \in 1 .. 8 : Bursting(Burst[i]) /\ (Unforced(Burst[i]) => i = 7)
  BY <1>2, <1>4, <1>5, BurstIs DEF P
<1>7. 6 \in 1 .. 8 /\ 6 < 7 /\ Starts(Burst[6])
  BY <1>2, BurstIs
<1>8. QED
  BY <1>3, <1>6, <1>7

\* Roll mode arms with force.
LEMMA RollSays ==
  \A s \in {StartRoll, PollRoll} : \A i \in DOMAIN s : s[i].step # "store" /\ ~Unforced(s[i])
<1> DEFINE P(x) == x.step # "store" /\ ~Unforced(x)
<1>1. /\ P(Set("SetTimeDiv", "roll")) /\ P(Ping) /\ P(Set("StartAcquisition", "roll"))
      /\ P(Set("AcquisitionArm", "forced")) /\ P(Must("AcquisitionGo"))
      /\ P(Ask("RollReadyLength", "", 2)) /\ P(Step("publish", "roll"))
  BY DEF Set, Ping, Must, Ask, Command, Step, Unforced, Sent
<1>2. /\ DOMAIN StartRoll = 1 .. 5 /\ StartRoll[1] = Set("SetTimeDiv", "roll") /\ StartRoll[2] = Ping
      /\ StartRoll[3] = Set("StartAcquisition", "roll")
      /\ StartRoll[4] = Set("AcquisitionArm", "forced") /\ StartRoll[5] = Must("AcquisitionGo")
  BY DEF StartRoll
<1>3. DOMAIN PollRoll = 1 .. 2 /\ PollRoll[1] = Ask("RollReadyLength", "", 2)
      /\ PollRoll[2] = Step("publish", "roll")
  BY DEF PollRoll
<1>4. /\ \A i \in 1 .. 5 : i = 1 \/ i = 2 \/ i = 3 \/ i = 4 \/ i = 5
      /\ \A i \in 1 .. 2 : i = 1 \/ i = 2
  OBVIOUS
<1> HIDE DEF P
<1>5. (\A i \in DOMAIN StartRoll : P(StartRoll[i])) /\ \A i \in DOMAIN PollRoll : P(PollRoll[i])
  BY <1>1, <1>2, <1>3, <1>4
<1>6. QED
  BY <1>5 DEF P

\* A job begins with what it may say.
LEMMA ChosenBegins ==
  ASSUME ProtocolInv, ChosenInv, Open \/ Iterate \/ SendGenerator \/ KeepAlive \/ BeginAutoset
  PROVE  ChosenInv'
<1>1. /\ job = "none" /\ failed' = {} /\ ~awaiting'
      /\ UNCHANGED <<link, mode, dirty, device>>
  <2>1. /\ job = "none" /\ failed' = {} /\ awaiting' = awaiting
        /\ UNCHANGED <<link, mode, dirty, device>>
    BY Beginning
  <2>2. ~awaiting
    BY <2>1 DEF ProtocolInv, AnswerInv
  <2>3. QED
    BY <2>1, <2>2
<1>2. KeptInv'
  BY <1>1 DEF ChosenInv, KeptInv
<1>3. ASSUME \A x : Steady(x) => Says(job', x), NEW s \in Seq(SteadyItems), script' = s PROVE SayInv'
  BY <1>3, ItemsOf DEF SayInv, SteadyItems
<1>4. /\ \A j \in {"open", "config"} : \A x : Steady(x) => Says(j, x)
      /\ \A j \in {"generator", "ping"} : \A x : Steady(x) /\ ~Rate(x) => Says(j, x)
  BY DEF Says
<1> USE DEF Begin, Setups
<1>5. CASE Open
  <2>1. job' = "open" /\ link = "closed"
        /\ script' = Phase1 \o ZeroOffsets \o Phase3 \o FlushGenerator
    BY <1>5 DEF Open
  <2>2. SayInv' /\ WillSelect'
    BY <1>3, <1>4, <2>1, OpenSettles, SettlesSelects
  <2>3. DirtyInv'
    BY <1>1, <2>1 DEF ChosenInv, DirtyInv
  <2>4. QED
    BY <1>1, <1>2, <2>1, <2>2, <2>3 DEF ChosenInv, SetupInv, StoreInv, ArmInv
<1>6. CASE SendGenerator
  <2>1. job' = "generator" /\ link # "closed" /\ script' = FlushGenerator
    BY <1>6 DEF SendGenerator
  <2>2. SayInv'
    BY <1>4, <2>1, PartsOfTheirOwn, ItemsOf DEF SayInv, Rateless
  <2>3. QED
    BY <1>1, <1>2, <2>1, <2>2 DEF ChosenInv, DirtyInv, SetupInv, StoreInv, ArmInv
<1>7. CASE KeepAlive
  <2>1. job' = "ping" /\ link = "idle" /\ script' = <<Try("Ping")>>
    BY <1>7 DEF KeepAlive
  <2>2. SayInv'
    BY <1>4, <2>1, PartsRateless, ItemsOf DEF SayInv, Rateless
  <2>3. QED
    BY <1>1, <1>2, <2>1, <2>2 DEF ChosenInv, DirtyInv, SetupInv, StoreInv, ArmInv
<1>8. CASE BeginAutoset
  <2>1. job' = "autoset" /\ link # "closed" /\ script' = Autoset
    BY <1>8 DEF BeginAutoset
  <2>2. SayInv'
    BY <2>1, AutosetSettles, ItemsOf DEF SayInv, Says, AutosetItems
  <2>3. WillSelect' /\ StoreInv'
    BY <2>1, AutosetSettles, SettlesSelects DEF StoreInv
  <2>4. QED
    BY <1>1, <1>2, <2>1, <2>2, <2>3 DEF ChosenInv, DirtyInv, SetupInv, ArmInv
<1>9. CASE Iterate
  <2>1. link = "run"
    BY <1>9 DEF Iterate
  <2>2. CASE dirty /\ job' = "config" /\ script' = Phase3
    <3>1. SayInv' /\ WillSelect'
      BY <1>3, <1>4, <2>2, Phase3Settles, SettlesSelects
    <3>2. QED
      BY <1>1, <1>2, <2>1, <2>2, <3>1 DEF ChosenInv, DirtyInv, SetupInv, StoreInv, ArmInv
  <2>3. CASE job' \in {"roll", "poll"} /\ script' \in {StartRoll, PollRoll}
    <3>1. SayInv'
      BY <2>3, RollSays DEF SayInv, Says
    <3>2. QED
      BY <1>1, <1>2, <2>1, <2>3, <3>1 DEF ChosenInv, DirtyInv, SetupInv, StoreInv, ArmInv
  <2>4. CASE ~dirty /\ job' = "burst" /\ script' = Burst
    <3>1. SayInv' /\ ArmInv'
      BY <2>4, BurstSays DEF SayInv, Says, ArmInv
    <3>2. QED
      BY <1>1, <1>2, <2>1, <2>4, <3>1 DEF ChosenInv, DirtyInv, SetupInv, StoreInv
  <2>5. QED
    BY <1>9, <2>2, <2>3, <2>4 DEF Iterate
<1>10. QED
  BY <1>5, <1>6, <1>7, <1>8, <1>9

\* The end of a job, and what is called between jobs.
LEMMA ChosenBetween ==
  ASSUME ProtocolInv, ChosenInv, EndJob \/ Apply \/ Run \/ Stop
  PROVE  ChosenInv'
<1>1. CASE EndJob
  <2>1. /\ job' = "none" /\ script = <<>> /\ failed' = {} /\ DOMAIN script = {}
        /\ UNCHANGED <<mode, script, awaiting, device>>
        /\ dirty' = (dirty /\ ~("op" \notin failed
                                /\ (job \in {"open", "config"} \/ (job = "autoset" /\ failed = {}))))
        /\ link' = "closed" => link = "closed" \/ (job = "open" /\ "op" \in failed)
    BY <1>1 DEF EndJob, busVars
  <2>2. ~awaiting
    BY <2>1 DEF ProtocolInv, AnswerInv
  <2>3. link' = "closed" => dirty'
    <3>1. CASE link = "closed" /\ job = "open" /\ "op" \notin failed
      BY <1>1, <3>1 DEF EndJob
    <3>2. CASE "op" \in failed
      BY <2>1, <3>2 DEF ChosenInv, DirtyInv
    <3>3. CASE link = "closed" /\ job # "open"
      BY <2>1, <3>3 DEF ChosenInv, DirtyInv
    <3>4. QED
      BY <2>1, <3>1, <3>2, <3>3
  <2>4. KeptInv'
    <3>1. CASE ~dirty
      BY <2>1, <3>1 DEF ChosenInv, KeptInv
    <3>2. CASE dirty /\ ~dirty'
      <4>1. job \in Setups /\ failed \cap {"op", "measure"} = {}
        BY <2>1, <3>2 DEF ChosenInv, DirtyInv, Setups
      <4>2. device.rate = "burst" /\ device.trigger
        BY <2>1, <4>1 DEF ChosenInv, SetupInv, WillSelect
      <4>3. QED
        BY <2>1, <4>2 DEF KeptInv
    <3>3. CASE dirty'
      BY <3>3 DEF KeptInv
    <3>4. QED
      BY <3>1, <3>2, <3>3
  <2>5. SayInv' /\ SetupInv' /\ StoreInv' /\ ArmInv'
    BY <2>1 DEF SayInv, SetupInv, Setups, StoreInv, ArmInv
  <2>6. QED
    BY <2>1, <2>2, <2>3, <2>4, <2>5 DEF ChosenInv, DirtyInv
<1>2. CASE Apply \/ Run \/ Stop
  <2>1. /\ job = "none" /\ UNCHANGED <<job, script, awaiting, device, failed>>
        /\ link' = link \/ (link # "closed" /\ link' # "closed")
        /\ (dirty' = dirty /\ mode' = mode) \/ dirty'
    BY <1>2 DEF Apply, Run, Stop, busVars
  <2>2. ~awaiting
    BY <2>1 DEF ProtocolInv, AnswerInv
  <2>3. KeptInv' /\ DirtyInv'
    BY <2>1 DEF ChosenInv, KeptInv, DirtyInv
  <2>4. SayInv' /\ SetupInv' /\ StoreInv' /\ ArmInv'
    BY <2>1 DEF ChosenInv, SayInv, Says, SetupInv, Setups, StoreInv, ArmInv
  <2>5. QED
    BY <2>1, <2>2, <2>3, <2>4 DEF ChosenInv
<1>3. QED
  BY <1>1, <1>2


\* The device obeys a command.
LEMMA ChosenWrite ==
  ASSUME ProtocolInv, ChosenInv, Write
  PROVE  ChosenInv'
<1> DEFINE c == script[1]
<1>1. /\ ~awaiting /\ awaiting' /\ script # <<>> /\ job # "none"
      /\ UNCHANGED <<link, mode, dirty, job, script, failed>>
      /\ Head(script).step = "send" /\ device' = AfterCommand(device, Head(script))
  BY DEF Write, At, hostVars
<1>2. TypeOK /\ Head(script) = c /\ c \in Sends /\ 1 \in DOMAIN script /\ c.step = "send"
      /\ device \in Devices /\ device' = AfterCommand(device, c)
      /\ \A i \in DOMAIN script : i \in Nat \ {0}
  BY <1>1, HeadTyped DEF ProtocolInv, TypeOK
<1>3. Says(job, c) /\ SayInv'
  BY <1>1, <1>2 DEF ChosenInv, SayInv
<1> HIDE DEF c
<1>4. /\ Rate(c) => device'.rate = c.arg /\ device'.trigger = FALSE /\ device'.mode = device.mode
      /\ Chosen(c) => device'.rate = device.rate /\ device'.trigger /\ device'.mode = device.mode
      /\ Starts(c) => /\ device'.rate = device.rate /\ device'.trigger = device.trigger
                      /\ device'.mode = c.arg
      /\ ~Rate(c) /\ ~Chosen(c) /\ ~Starts(c) =>
           device'.rate = device.rate /\ device'.trigger = device.trigger /\ device'.mode = device.mode
  BY <1>2 DEF AfterCommand, Devices, Rate, Chosen, Starts, Sent
<1>5. ~ (Rate(c) /\ Chosen(c)) /\ ~ (Rate(c) /\ Starts(c)) /\ ~ (Chosen(c) /\ Starts(c))
  BY DEF Rate, Chosen, Starts, Sent
<1>6. (awaiting => Obeyed)'
  BY <1>1, <1>4 DEF Obeyed, c
<1>7. DirtyInv'
  BY <1>1 DEF ChosenInv, DirtyInv
<1>8. SetupInv'
  <2>1. SUFFICES ASSUME job \in Setups, failed \cap {"op", "measure"} = {} PROVE WillSelect'
    BY <1>1 DEF SetupInv
  <2>2. WillSelect /\ (Rate(c) => c.arg = "burst")
    <3>1. Rate(c) => c.step \notin {"measure", "store"}
      BY <1>2 DEF Rate, Sent
    <3>2. Rate(c) => Steady(c)
      BY <1>3, <2>1, <3>1 DEF Says, Setups
    <3>3. QED
      BY <2>1, <3>2 DEF ChosenInv, SetupInv, Steady
  <2>3. CASE Rate(c)
    <3>1. \E j \in DOMAIN script : Chosen(script[j])
      BY <1>2, <2>2, <2>3 DEF WillSelect, c
    <3>2. QED
      BY <1>1, <1>4, <2>2, <2>3, <3>1 DEF WillSelect
  <2>4. CASE ~Rate(c)
    BY <1>1, <1>4, <2>2, <2>4 DEF WillSelect
  <2>5. QED
    BY <2>3, <2>4
<1>9. StoreInv'
  BY <1>1 DEF ChosenInv, StoreInv
<1>10. ArmInv'
  <2>1. job = "burst" /\ Starts(c) => device'.mode = "burst"
    BY <1>3, <1>4 DEF Says, Bursting
  <2>2. Starts(c) \/ device'.mode = device.mode
    BY <1>4
  <2>3. QED
    BY <1>1, <2>1, <2>2 DEF ChosenInv, ArmInv
<1>11. KeptInv'
  <2>1. CASE Rate(c)
    <3>1. Rate(c) => c.step \notin {"measure", "store"} /\ ~ Bursting(c)
      BY <1>2 DEF Rate, Sent, Bursting
    <3>2. CASE job \in {"roll", "poll"}
      BY <1>1, <3>2 DEF ProtocolInv, LinkInv, KeptInv
    <3>3. CASE job \in {"open", "config"}
      BY <1>1, <3>3 DEF ChosenInv, DirtyInv, KeptInv
    <3>4. CASE job = "autoset"
      <4>1. ~ \E k \in DOMAIN script : k < 1
        BY <1>2
      <4>2. dirty
        BY <1>2, <2>1, <3>4, <4>1 DEF ChosenInv, StoreInv, c
      <4>3. QED
        BY <1>1, <4>2 DEF KeptInv
    <3>5. CASE job \in {"generator", "ping"}
      <4>1. ~Rate(c)
        BY <1>3, <3>5 DEF Says
      <4>2. QED
        BY <2>1, <4>1
    <3>6. job # "burst"
      BY <1>3, <2>1, <3>1 DEF Says
    <3>7. QED
      BY <1>1, <1>2, <3>2, <3>3, <3>4, <3>5, <3>6 DEF TypeOK, Jobs
  <2>2. CASE ~Rate(c)
    BY <1>1, <1>4, <2>2 DEF ChosenInv, KeptInv
  <2>3. QED
    BY <2>1, <2>2
<1>12. QED
  BY <1>3, <1>6, <1>7, <1>8, <1>9, <1>10, <1>11 DEF ChosenInv

\* The commands and marks that matter.  They stay where they are in the script, but for
\* the first, which may be done with.
Key(x) == /\ x.part = "op"
          /\ x.step = "store" \/ Rate(x) \/ Chosen(x) \/ Starts(x) \/ Unforced(x)
DoneWith == Obeyed /\ (script[1].step = "store" => dirty')
Moves(d) ==
  /\ \A i \in DOMAIN script : Key(script[i]) =>
       (i = 1 /\ DoneWith) \/ (i + d \in DOMAIN script' /\ script'[i + d] = script[i])
  /\ \A i \in DOMAIN script' : Key(script'[i]) =>
       i - d \in DOMAIN script /\ script'[i] = script[i - d]
Gone == /\ \A i \in DOMAIN script' : ~Key(script'[i])
        /\ job = "burst" \/ failed' \cap {"op", "measure"} # {}


\* What matters in a job is a key of it.
LEMMA KeysSay ==
  ASSUME NEW j, NEW x \in Items, Says(j, x)
  PROVE  /\ j \in Setups /\ (Rate(x) \/ Chosen(x)) => Key(x)
         /\ j \in Setups /\ Rate(x) => x.arg = "burst"
         /\ j = "burst" /\ (Starts(x) \/ Unforced(x)) => Key(x)
         /\ j = "burst" /\ Starts(x) => x.arg = "burst"
         /\ x.step = "store" => Key(x) /\ ~Starts(x)
         /\ Rate(x) => ~Chosen(x) /\ x.step # "store"
<1>1. x.step = "store" => x.part = "op"
  BY DEF Items, Sends, Marks, Waits
<1>2. Rate(x) \/ Chosen(x) \/ Starts(x) \/ Unforced(x) => x.step = "send"
  BY DEF Rate, Chosen, Starts, Unforced, Sent
<1>3. Rate(x) => ~Chosen(x)
  BY DEF Rate, Chosen, Sent
<1>4. QED
  BY <1>1, <1>2, <1>3 DEF Says, Setups, Steady, Bursting, Key

\* With the keys where they were, the device ends up as before.
LEMMA MovesSelect ==
  ASSUME TypeOK, script' \in Seq(Items), SayInv, SayInv', UNCHANGED <<job, device>>, job \in Setups,
         NEW d \in Int, Moves(d), WillSelect
  PROVE  WillSelect'
<1>1. /\ \A i \in DOMAIN script : script[i] \in Items /\ i \in Nat \ {0}
      /\ \A i \in DOMAIN script' : script'[i] \in Items /\ i \in Nat \ {0}
  BY ItemsOf, LenProperties DEF TypeOK, Items
<1>2. /\ \A i \in DOMAIN script : Rate(script[i]) \/ Chosen(script[i]) => Key(script[i])
      /\ \A i \in DOMAIN script : Rate(script[i]) => script[i].arg = "burst"
      /\ \A i \in DOMAIN script' : Rate(script'[i]) => Key(script'[i])
  BY <1>1, KeysSay DEF SayInv
<1>3. device.rate = "burst" \/ \E i \in DOMAIN script' : Rate(script'[i])
  <2>1. SUFFICES ASSUME NEW i \in DOMAIN script, Rate(script[i])
                 PROVE  device.rate = "burst" \/ \E k \in DOMAIN script' : Rate(script'[k])
    BY DEF WillSelect
  <2>2. CASE i = 1 /\ DoneWith
    BY <1>2, <2>1, <2>2 DEF DoneWith, Obeyed
  <2>3. CASE i + d \in DOMAIN script' /\ script'[i + d] = script[i]
    BY <2>1, <2>3
  <2>4. QED
    BY <1>2, <2>1, <2>2, <2>3 DEF Moves
<1>4. device.trigger \/ \E i \in DOMAIN script' : Chosen(script'[i])
  <2>1. SUFFICES ASSUME NEW i \in DOMAIN script, Chosen(script[i])
                 PROVE  device.trigger \/ \E k \in DOMAIN script' : Chosen(script'[k])
    BY DEF WillSelect
  <2>2. CASE i = 1 /\ DoneWith
    BY <2>1, <2>2 DEF DoneWith, Obeyed
  <2>3. CASE i + d \in DOMAIN script' /\ script'[i + d] = script[i]
    BY <2>1, <2>3
  <2>4. QED
    BY <1>2, <2>1, <2>2, <2>3 DEF Moves
<1>5. ASSUME NEW i \in DOMAIN script', Rate(script'[i])
      PROVE  \E k \in DOMAIN script' : k > i /\ Chosen(script'[k])
  <2>1. i - d \in DOMAIN script /\ Rate(script[i - d])
    BY <1>2, <1>5 DEF Moves
  <2>2. PICK k \in DOMAIN script : k > i - d /\ Chosen(script[k])
    BY <2>1 DEF WillSelect
  <2>3. k # 1 /\ k + d > i
    BY <1>1, <2>1, <2>2
  <2>4. k + d \in DOMAIN script' /\ script'[k + d] = script[k]
    BY <1>2, <2>2, <2>3 DEF Moves
  <2>5. QED
    BY <2>2, <2>3, <2>4
<1>6. QED
  BY <1>3, <1>4, <1>5 DEF WillSelect

\* What comes before a key comes before it still, unless it is done with.
LEMMA MovesBefore ==
  ASSUME TypeOK, script' \in Seq(Items), NEW d \in Int, Moves(d),
         NEW i \in DOMAIN script', Key(script'[i]),
         NEW k \in DOMAIN script, k < i - d, Key(script[k])
  PROVE  \/ k = 1 /\ DoneWith
         \/ k + d \in DOMAIN script' /\ k + d < i /\ script'[k + d] = script[k]
<1>1. k \in Nat /\ i \in Nat
  BY LenProperties DEF TypeOK
<1>2. (k = 1 /\ DoneWith) \/ (k + d \in DOMAIN script' /\ script'[k + d] = script[k])
  BY DEF Moves
<1>3. k + d < i
  BY <1>1
<1>4. QED
  BY <1>2, <1>3

\* A step that moves the keys, or ends what they matter for.
LEMMA MovesKeep ==
  ASSUME TypeOK, ChosenInv, UNCHANGED <<link, mode, job, device>>, ~awaiting',
         failed \subseteq failed', job \in {"open", "config"} => "measure" \notin failed',
         dirty' = dirty \/ (dirty' /\ job = "autoset"),
         script' \in Seq(Items), SayInv',
         job \in Setups \cup {"burst"} => Gone \/ \E d \in Int : Moves(d)
  PROVE  ChosenInv'
<1>1. /\ \A i \in DOMAIN script : script[i] \in Items
      /\ \A i \in DOMAIN script' : script'[i] \in Items
  BY ItemsOf DEF TypeOK, Items
<1>2. SayInv
  BY DEF ChosenInv
<1>3. DirtyInv' /\ KeptInv'
  <2>1. dirty => dirty'
    BY DEF TypeOK
  <2>2. job = "autoset" => link # "closed"
    BY DEF ChosenInv, DirtyInv
  <2>3. QED
    BY <2>1, <2>2 DEF ChosenInv, DirtyInv, KeptInv
<1>4. CASE Gone \/ job \notin Setups \cup {"burst"}
  <2>1. job = "burst" => \A i \in DOMAIN script' : ~Unforced(script'[i])
    BY <1>1, <1>4, KeysSay DEF Gone, SayInv, Setups
  <2>2. job = "autoset" => \A i \in DOMAIN script' : ~Rate(script'[i])
    BY <1>1, <1>4, KeysSay DEF Gone, SayInv, Setups
  <2>3. job \in Setups => failed' \cap {"op", "measure"} # {}
    BY <1>4 DEF Gone, Setups
  <2>4. SetupInv' /\ StoreInv' /\ ArmInv'
    BY <2>1, <2>2, <2>3 DEF SetupInv, StoreInv, ArmInv
  <2>5. QED
    BY <1>3, <2>4 DEF ChosenInv
<1>5. CASE job \in Setups \cup {"burst"} /\ ~Gone
  <2>1. PICK d \in Int : Moves(d)
    BY <1>5
  <2>2. SetupInv'
    <3>1. SUFFICES ASSUME job \in Setups, failed' \cap {"op", "measure"} = {} PROVE WillSelect'
      BY DEF SetupInv
    <3>2. WillSelect
      BY <3>1 DEF ChosenInv, SetupInv
    <3>3. QED
      BY <1>2, <2>1, <3>1, <3>2, MovesSelect
  <2>3. StoreInv'
    <3>1. SUFFICES ASSUME job = "autoset", ~dirty', NEW i \in DOMAIN script', Rate(script'[i])
                   PROVE  \E k \in DOMAIN script' : k < i /\ script'[k].step = "store"
      BY DEF StoreInv
    <3>2. Key(script'[i])
      BY <1>1, <3>1, KeysSay DEF SayInv, Setups
    <3>3. i - d \in DOMAIN script /\ script'[i] = script[i - d]
      BY <2>1, <3>2 DEF Moves
    <3>4. PICK k \in DOMAIN script : k < i - d /\ script[k].step = "store"
      BY <3>1, <3>3 DEF ChosenInv, StoreInv
    <3>5. Key(script[k])
      BY <1>1, <1>2, <3>4, KeysSay DEF SayInv
    <3>6. ~ (k = 1 /\ DoneWith)
      BY <3>1, <3>4 DEF DoneWith
    <3>7. k + d \in DOMAIN script' /\ k + d < i /\ script'[k + d] = script[k]
      BY <2>1, <3>2, <3>4, <3>5, <3>6, MovesBefore
    <3>8. QED
      BY <3>4, <3>7
  <2>4. ArmInv'
    <3>1. SUFFICES ASSUME job = "burst", NEW i \in DOMAIN script', Unforced(script'[i]),
                          device.mode # "burst"
                   PROVE  \E k \in DOMAIN script' : k < i /\ Starts(script'[k])
      BY DEF ArmInv
    <3>2. Key(script'[i])
      BY <1>1, <3>1, KeysSay DEF SayInv
    <3>3. i - d \in DOMAIN script /\ script'[i] = script[i - d]
      BY <2>1, <3>2 DEF Moves
    <3>4. PICK k \in DOMAIN script : k < i - d /\ Starts(script[k])
      BY <3>1, <3>3 DEF ChosenInv, ArmInv
    <3>5. Key(script[k]) /\ script[k].arg = "burst"
      BY <1>1, <1>2, <3>1, <3>4, KeysSay DEF SayInv
    <3>6. ~ (k = 1 /\ DoneWith)
      BY <3>1, <3>4, <3>5 DEF DoneWith, Obeyed
    <3>7. k + d \in DOMAIN script' /\ k + d < i /\ script'[k + d] = script[k]
      BY <2>1, <3>2, <3>4, <3>5, <3>6, MovesBefore
    <3>8. QED
      BY <3>4, <3>7
  <2>5. QED
    BY <1>3, <2>2, <2>3, <2>4 DEF ChosenInv
<1>6. QED
  BY <1>4, <1>5


\* What is bare may be said in any job, and is no key.
LEMMA BareSays ==
  ASSUME NEW x, Bare(x) PROVE (\A j : Says(j, x)) /\ ~Key(x)
<1>1. /\ ~Rate(x) /\ ~Chosen(x) /\ ~Starts(x) /\ ~Unforced(x) /\ ~Sent(x, "RollReadyLength")
      /\ x.step \notin {"zero", "measure", "store"}
  BY DEF Bare, Rate, Chosen, Starts, Unforced, Sent
<1>2. QED
  BY <1>1 DEF Says, Steady, Bursting, Key

\* What is put into a script under way is bare.
LEMMA BareItems ==
  /\ Bare(Try("Ping")) /\ Bare(Try("AcquisitionGo")) /\ Bare(Await("again", 1)) /\ Bare(Watch)
  /\ \A x : Bare(Poll(x)) /\ \A i \in 1 .. 3 : Bare(Halves[i])
<1> USE DEF Bare
<1>1. /\ Bare(Try("Ping")) /\ Bare(Try("AcquisitionGo")) /\ Bare(Await("again", 1))
      /\ Bare(Watch)
  BY DEF Try, Command, Await, Watch, Echoed
<1>2. \A x : Bare(Poll(x))
  BY DEF Poll, Ask, Command
<1>3. \A i \in 1 .. 3 : Bare(Halves[i])
  <2>1. Bare(Halves[1]) /\ Bare(Halves[2]) /\ Bare(Halves[3])
    BY HalvesAre DEF Ask, Command, Step
  <2>2. \A i \in 1 .. 3 : i = 1 \/ i = 2 \/ i = 3
    OBVIOUS
  <2> HIDE DEF Bare
  <2>3. QED
    BY <2>1, <2>2
<1>4. QED
  BY <1>1, <1>2, <1>3

\* A script that keeps its items, or puts bare ones in, says what the job may say.
LEMMA SayNext ==
  ASSUME SayInv, job' = job,
         \A i \in DOMAIN script' :
           \/ Bare(script'[i])
           \/ \E j \in DOMAIN script : script'[i] = script[j]
           \/ \E j \in DOMAIN script : /\ script[j].step \in Waits /\ script'[i].step = script[j].step
                                       /\ script'[i].part = script[j].part
  PROVE  SayInv'
<1>1. SUFFICES ASSUME NEW i \in DOMAIN script' PROVE Says(job, script'[i])
  BY DEF SayInv
<1>2. CASE Bare(script'[i])
  BY <1>2, BareSays
<1>3. CASE \E j \in DOMAIN script : script'[i] = script[j]
  BY <1>3 DEF SayInv
<1>4. ASSUME NEW j \in DOMAIN script, script[j].step \in Waits, script'[i].step = script[j].step,
             script'[i].part = script[j].part
      PROVE  Says(job, script'[i])
  <2>1. Says(job, script[j])
    BY DEF SayInv
  <2>2. \A x : x.step \in Waits => /\ ~Rate(x) /\ ~Chosen(x) /\ ~Starts(x) /\ ~Unforced(x)
                                   /\ ~Sent(x, "RollReadyLength") /\ x.step # "store"
    BY DEF Waits, Rate, Chosen, Starts, Unforced, Sent
  <2>3. QED
    BY <1>4, <2>1, <2>2 DEF Says, Steady, Bursting
<1>5. QED
  BY <1>2, <1>3, <1>4

\* Items that are done with, or are no keys, may go.
LEMMA DropsMove ==
  ASSUME TypeOK, script' \in Seq(Items), NEW m \in Nat, Drops(m),
         \A i \in DOMAIN script : i <= m => ~Key(script[i]) \/ (i = 1 /\ DoneWith)
  PROVE  (\E d \in Int : Moves(d)) /\ \A i \in DOMAIN script' : \E j \in DOMAIN script : script'[i] = script[j]
<1>1. /\ \A i \in DOMAIN script' : i + m \in DOMAIN script /\ script'[i] = script[i + m]
      /\ \A i \in DOMAIN script' : i \in Nat
  BY DropForm
<1>2. /\ DOMAIN script = 1 .. Len(script) /\ DOMAIN script' = 1 .. Len(script')
      /\ Len(script) \in Nat /\ Len(script') = Len(script) - m
  BY LenProperties DEF TypeOK, Drops
<1>3. ASSUME NEW i \in DOMAIN script, Key(script[i])
      PROVE  (i = 1 /\ DoneWith) \/ (i + (-m) \in DOMAIN script' /\ script'[i + (-m)] = script[i])
  <2>1. CASE i <= m
    BY <1>3, <2>1
  <2>2. CASE i > m
    <3>1. i + (-m) \in DOMAIN script' /\ (i + (-m)) + m = i
      BY <1>2, <2>2
    <3>2. QED
      BY <1>1, <3>1
  <2>3. QED
    BY <1>2, <2>1, <2>2
<1>4. \A i \in DOMAIN script' : i - (-m) = i + m
  BY <1>1
<1>5. Moves(-m)
  BY <1>1, <1>3, <1>4 DEF Moves
<1>6. -m \in Int
  OBVIOUS
<1>7. QED
  BY <1>1, <1>5, <1>6

\* A part of its own holds no key: leaving it behind moves the keys.
LEMMA PartMoves ==
  ASSUME TypeOK, script # <<>>, script' = AfterPart, script[1].part # "op"
  PROVE  \E d \in Int : Moves(d)
<1>1. script \in Seq(Items) /\ Head(script) = script[1] /\ DOMAIN script = 1 .. Len(script)
      /\ Len(script) \in Nat
  BY HeadTyped DEF TypeOK, Items
<1>2. CASE NextPart = {}
  <2>1. \A i \in DOMAIN script : ~Key(script[i])
    BY <1>1, <1>2 DEF NextPart, Key
  <2>2. DOMAIN script' = {}
    BY <1>2 DEF AfterPart
  <2>3. Moves(0)
    BY <2>1, <2>2 DEF Moves
  <2>4. QED
    BY <2>3
<1>3. CASE NextPart # {}
  <2>1. NextPart \subseteq 1 .. Len(script) /\ NextPart \subseteq Nat
    BY <1>1 DEF NextPart
  <2>2. \E x \in NextPart : \A y \in NextPart : x <= y
    BY <1>3, <2>1, SmallestIn
  <2> DEFINE m == Min(NextPart)
  <2>3. m \in NextPart /\ \A y \in NextPart : m <= y
    BY <2>2 DEF Min
  <2>4. m \in 1 .. Len(script) /\ script' = SubSeq(script, m, Len(script))
    BY <1>1, <1>3, <2>1, <2>3 DEF AfterPart
  <2> HIDE DEF m
  <2>5. \A i \in m .. Len(script) : script[i] \in Items
    BY <1>1, <2>4, ElementOfSeq
  <2>6. /\ script' \in Seq(Items) /\ Len(script') = Len(script) - m + 1
        /\ \A i \in 1 .. Len(script) - m + 1 : script'[i] = script[m + i - 1]
    BY <1>1, <2>4, <2>5, SubSeqProperties
  <2>7. Drops(m - 1) /\ m - 1 \in Nat
    BY <1>1, <2>4, <2>6 DEF Drops
  <2>8. ASSUME NEW i \in DOMAIN script, i <= m - 1 PROVE ~Key(script[i])
    <3>1. i \notin NextPart
      BY <1>1, <2>3, <2>4, <2>8
    <3>2. QED
      BY <1>1, <3>1 DEF NextPart, Key
  <2>9. QED
    BY <2>6, <2>7, <2>8, DropsMove
<1>4. QED
  BY <1>2, <1>3


\* What follows a command that fails is no more than the next part.
LEMMA OutcomeParts ==
  ASSUME TypeOK, AnswerInv, Read \/ TimeOut
  PROVE  Taken \/ Ignored \/ (script' = AfterPart /\ failed' = failed \cup {script[1].part})
<1>1. awaiting /\ (TimeOut => pipe = <<>>)
  BY DEF Read, TimeOut
<1>2. script # <<>> /\ Head(script) = script[1] /\ script[1].must \in BOOLEAN
  BY <1>1, CommandHead
<1>3. ASSUME Fails(Head(script))
      PROVE  Ignored \/ (script' = AfterPart /\ failed' = failed \cup {script[1].part})
  <2>1. CASE script[1].must
    BY <1>2, <1>3, <2>1 DEF Fails, FailsPart
  <2>2. CASE ~script[1].must
    BY <1>1, <1>2, <1>3, <2>2, FailsOutcome DEF GivenUp
  <2>3. QED
    BY <1>2, <2>1, <2>2
<1>4. CASE Read /\ Accepts(Head(script), Head(pipe))
  BY <1>1, <1>4, SucceedsOutcome DEF Read
<1>5. CASE Read /\ ~Accepts(Head(script), Head(pipe))
  BY <1>3, <1>5 DEF Read
<1>6. CASE TimeOut
  BY <1>3, <1>6 DEF TimeOut
<1>7. QED
  BY <1>4, <1>5, <1>6

\* A command that is done with keeps the invariant.
LEMMA ChosenOutcome ==
  ASSUME ProtocolInv, ChosenInv, Read \/ TimeOut
  PROVE  ChosenInv'
<1>1. /\ TypeOK /\ AnswerInv /\ script # <<>> /\ script[1] \in Sends /\ script[1].step = "send"
      /\ UNCHANGED <<link, mode, dirty, job, device>> /\ script' \in Seq(Items)
      /\ 1 \in DOMAIN script /\ script[1].part \in Parts
  BY OutcomeForm DEF ProtocolInv
<1>2. awaiting /\ ~awaiting' /\ DoneWith
  <2>1. awaiting /\ awaiting' = FALSE
    BY OutcomeForm DEF Done
  <2>2. QED
    BY <1>1, <2>1 DEF ChosenInv, DoneWith
<1>3. Says(job, script[1]) /\ SayInv
  BY <1>1 DEF ChosenInv, SayInv
<1>4. failed \subseteq failed' /\ (job \in {"open", "config"} => "measure" \notin failed')
  <2>1. failed' = failed \/ failed' = failed \cup {script[1].part}
    BY OutcomeForm
  <2>2. "measure" \notin Parts
    BY DEF Parts
  <2>3. QED
    BY <1>1, <2>1, <2>2 DEF ChosenInv, DirtyInv
<1>5. SUFFICES SayInv' /\ (job \in Setups \cup {"burst"} => Gone \/ \E d \in Int : Moves(d))
  BY <1>1, <1>2, <1>4, <1>5, MovesKeep
<1>6. CASE Drops(1)
  <2>1. \A i \in DOMAIN script : i <= 1 => ~Key(script[i]) \/ (i = 1 /\ DoneWith)
    BY <1>1, <1>2, LenProperties DEF TypeOK
  <2>2. (\E d \in Int : Moves(d)) /\ \A i \in DOMAIN script' : \E j \in DOMAIN script : script'[i] = script[j]
    BY <1>1, <1>6, <2>1, DropsMove
  <2>3. QED
    BY <1>1, <1>3, <2>2, SayNext
<1>7. CASE script[1].op \in Lengths /\ \E n \in 0 .. MaxChunks : Spreads(n)
  <2>1. PICK n \in 0 .. MaxChunks : Spreads(n)
    BY <1>7
  <2>2. n \in Nat
    BY ProtocolAssumption
  <2>3. ~Key(script[1]) /\ Bare(ChunksOf(script[1]))
    <3>1. ~Key(script[1])
      BY <1>1, <1>7 DEF Lengths, Key, Rate, Chosen, Starts, Unforced, Sent
    <3>2. /\ ChunksOf(script[1]).step = "send"
          /\ ChunksOf(script[1]).op \in {"ReadBurstChunk", "ReadRollChunk"}
      BY <1>1 DEF ChunksOf, Sends
    <3>3. QED
      BY <3>1, <3>2 DEF Bare
  <2>4. /\ DOMAIN script = 1 .. Len(script) /\ DOMAIN script' = 1 .. Len(script')
        /\ Len(script) \in Nat /\ Len(script') = Len(script) - 1 + n
    BY <1>1, <2>1, LenProperties DEF TypeOK, Spreads
  <2>5. ASSUME NEW i \in DOMAIN script'
        PROVE  \/ i <= n /\ script'[i] = ChunksOf(script[1])
               \/ i - (n - 1) \in DOMAIN script /\ script'[i] = script[i - (n - 1)]
    <3>1. CASE i <= n
      BY <2>1, <2>2, <2>4, <3>1 DEF Spreads
    <3>2. CASE i > n
      <4>1. i \in n + 1 .. Len(script') /\ i - (n - 1) = i + 1 - n /\ i + 1 - n \in DOMAIN script
        BY <2>2, <2>4, <3>2
      <4>2. QED
        BY <2>1, <4>1 DEF Spreads
    <3>3. QED
      BY <2>2, <2>4, <3>1, <3>2
  <2>6. SayInv'
    BY <1>1, <1>3, <2>3, <2>5, SayNext
  <2>7. ASSUME NEW i \in DOMAIN script, Key(script[i])
        PROVE  i + (n - 1) \in DOMAIN script' /\ script'[i + (n - 1)] = script[i]
    <3>1. i # 1
      BY <2>3, <2>7
    <3>2. i + (n - 1) \in n + 1 .. Len(script') /\ i + (n - 1) \in DOMAIN script'
          /\ (i + (n - 1)) + 1 - n = i
      BY <2>2, <2>4, <3>1
    <3>3. QED
      BY <2>1, <3>2 DEF Spreads
  <2>8. \A i \in DOMAIN script' : Key(script'[i]) =>
          i - (n - 1) \in DOMAIN script /\ script'[i] = script[i - (n - 1)]
    BY <2>3, <2>5, BareSays
  <2>9. n - 1 \in Int /\ Moves(n - 1)
    BY <2>2, <2>7, <2>8 DEF Moves
  <2>10. QED
    BY <2>6, <2>9
<1>8. CASE script[1].op = "RollReadyLength" /\ script' = <<Try("Ping")>>
  <2>1. SayInv'
    BY <1>1, <1>3, <1>8, BareItems, PingForm, SayNext
  <2>2. job \notin Setups \cup {"burst"}
    BY <1>1, <1>3, <1>8 DEF Says, Setups, Steady, Bursting, Sent
  <2>3. QED
    BY <2>1, <2>2
<1>9. CASE script' = AfterPart /\ failed' = failed \cup {script[1].part}
  <2>1. SayInv'
    <3>1. script' = <<>> \/ \E m \in 1 .. Len(script) : Drops(m)
      BY <1>1, <1>9, AfterPartDrops
    <3>2. CASE script' = <<>>
      BY <3>2 DEF SayInv
    <3>3. CASE \E m \in 1 .. Len(script) : Drops(m)
      <4>1. PICK m \in 1 .. Len(script) : Drops(m)
        BY <3>3
      <4>2. m \in Nat
        OBVIOUS
      <4>3. \A i \in DOMAIN script' : \E j \in DOMAIN script : script'[i] = script[j]
        BY <1>1, <4>1, <4>2, DropForm
      <4>4. QED
        BY <1>1, <1>3, <4>3, SayNext
    <3>4. QED
      BY <3>1, <3>2, <3>3
  <2>2. CASE script[1].part = "op"
    <3>1. Head(script) = script[1]
      BY <1>1, HeadTyped
    <3>2. script' = <<>> /\ DOMAIN script' = {} /\ "op" \in failed'
      BY <1>9, <2>2, <3>1 DEF AfterPart
    <3>3. Gone
      BY <3>2 DEF Gone
    <3>4. QED
      BY <2>1, <3>3
  <2>3. CASE script[1].part # "op"
    BY <1>1, <1>9, <2>1, <2>3, PartMoves
  <2>4. QED
    BY <2>2, <2>3
<1>10. QED
  BY <1>1, <1>6, <1>7, <1>8, <1>9, OutcomeParts DEF Taken, Ignored

\* What is put in the place of the sequence of a burst: nothing is left to move.
LEMMA BurstGone ==
  ASSUME SayInv, job = "burst", job' = job, \A i \in DOMAIN script' : Bare(script'[i])
  PROVE  SayInv' /\ Gone
  BY BareSays, SayNext DEF Gone


\* A wait goes on, or ends the sequence it belongs to.
LEMMA ChosenWait ==
  ASSUME ProtocolInv, ChosenInv, Wait
  PROVE  ChosenInv'
<1>1. /\ TypeOK /\ SayInv /\ ~awaiting' /\ script # <<>> /\ script[1].step \in Waits /\ job # "none"
      /\ UNCHANGED <<link, mode, dirty, job, device>> /\ script' \in Seq(Items)
      /\ 1 \in DOMAIN script /\ DOMAIN script = 1 .. Len(script) /\ Len(script) \in Nat \ {0}
      /\ DOMAIN script' = 1 .. Len(script') /\ Head(script) = script[1] /\ script[1] \in Items
  BY WaitOutcome, HeadTyped, LenProperties DEF ProtocolInv, ChosenInv
<1>2. Says(job, script[1]) /\ ~Key(script[1])
  <2>1. script[1].step \notin {"send", "store"}
    BY <1>1 DEF Waits
  <2>2. QED
    BY <1>1, <2>1 DEF SayInv, Key, Rate, Chosen, Starts, Unforced, Sent
<1>3. failed' = failed \/ (script[1].left = 0 /\ script[1].step \in {"zero", "measure"}
                           /\ failed' = failed \cup {script[1].step})
  BY WaitOutcome DEF ProtocolInv
<1>4. failed \subseteq failed' /\ (job \in {"open", "config"} => "measure" \notin failed')
  <2>1. job \in {"open", "config"} => script[1].step # "measure"
    BY <1>2 DEF Says, Steady
  <2>2. QED
    BY <1>3, <2>1 DEF ChosenInv, DirtyInv
<1>5. SUFFICES SayInv' /\ (job \in Setups \cup {"burst"} => Gone \/ \E d \in Int : Moves(d))
  BY <1>1, <1>4, <1>5, MovesKeep
<1>6. CASE Asked
  <2>1. /\ Len(script') = Len(script) + 1 /\ script'[1] = Poll(script[1])
        /\ script'[2] = [script[1] EXCEPT !.left = @ - 1]
        /\ \A i \in 3 .. Len(script') : script'[i] = script[i - 1]
    BY <1>6 DEF Asked
  <2>2. script'[2].step = script[1].step /\ script'[2].part = script[1].part
    <3>1. script[1] \in [step : Waits, part : Parts, left : 0 .. MaxPolls]
      BY <1>1 DEF Items, Sends, Marks, Waits
    <3>2. QED
      BY <2>1, <3>1
  <2>3. Bare(script'[1]) /\ ~Key(script'[1]) /\ ~Key(script'[2])
    <3>1. Bare(script'[1]) /\ ~Key(script'[1])
      BY <2>1, BareItems, BareSays
    <3>2. QED
      BY <1>1, <2>2, <3>1 DEF Waits, Key, Rate, Chosen, Starts, Unforced, Sent
  <2>4. ASSUME NEW i \in DOMAIN script', i # 1, i # 2
        PROVE  i - 1 \in DOMAIN script /\ script'[i] = script[i - 1]
    BY <1>1, <2>1, <2>4
  <2>5. SayInv'
    BY <1>1, <2>2, <2>3, <2>4, SayNext
  <2>6. ASSUME NEW i \in DOMAIN script, Key(script[i])
        PROVE  i + 1 \in DOMAIN script' /\ script'[i + 1] = script[i]
    <3>1. i # 1
      BY <1>2, <2>6
    <3>2. i + 1 \in 3 .. Len(script') /\ i + 1 \in DOMAIN script' /\ (i + 1) - 1 = i
      BY <1>1, <2>1, <3>1
    <3>3. QED
      BY <2>1, <3>2
  <2>7. Moves(1)
    BY <2>3, <2>4, <2>6 DEF Moves
  <2>8. QED
    BY <2>5, <2>7
<1>7. CASE script[1].left = 0
  <2>1. script' = GaveUp(script[1].step)
        /\ failed' = IF script[1].step \in {"zero", "measure"} THEN failed \cup {script[1].step} ELSE failed
    BY <1>1, <1>7 DEF Wait
  <2>2. CASE script[1].step \in {"wait", "again"}
    <3>1. job = "burst"
      BY <1>1, <2>2, WaitJob
    <3>2. \A i \in DOMAIN script' : Bare(script'[i])
      <4>1. CASE script' = <<>>
        BY <4>1
      <4>2. CASE script' = <<Try("AcquisitionGo"), Await("again", 1)>>
        <5>1. DOMAIN script' = 1 .. 2 /\ script'[1] = Try("AcquisitionGo")
              /\ script'[2] = Await("again", 1)
          BY <4>2
        <5>2. \A i \in 1 .. 2 : i = 1 \/ i = 2
          OBVIOUS
        <5>3. QED
          BY <5>1, <5>2, BareItems
      <4>3. CASE script' = Halves
        BY <1>1, <4>3, HalvesAre, BareItems
      <4>4. QED
        BY <2>1, <2>2, <4>1, <4>2, <4>3 DEF GaveUp, Halves
    <3>3. QED
      BY <1>1, <3>1, <3>2, BurstGone
  <2>3. CASE script[1].step = "zero"
    <3>1. script' = AfterPart
      BY <2>1, <2>3 DEF GaveUp
    <3>2. job \in Setups => script[1].part # "op"
      BY <1>2, <2>3 DEF Says, Setups, Steady
    <3>3. job # "burst"
      BY <1>1, <2>3, WaitJob
    <3>4. SayInv'
      <4>1. script' = <<>> \/ \E m \in 1 .. Len(script) : Drops(m)
        BY <1>1, <3>1, AfterPartDrops
      <4>2. CASE script' = <<>>
        BY <4>2 DEF SayInv
      <4>3. CASE \E m \in 1 .. Len(script) : Drops(m)
        <5>1. PICK m \in 1 .. Len(script) : Drops(m)
          BY <4>3
        <5>2. m \in Nat
          OBVIOUS
        <5>3. \A i \in DOMAIN script' : \E j \in DOMAIN script : script'[i] = script[j]
          BY <1>1, <5>1, <5>2, DropForm
        <5>4. QED
          BY <1>1, <5>3, SayNext
      <4>4. QED
        BY <4>1, <4>2, <4>3
    <3>5. job \in Setups => \E d \in Int : Moves(d)
      BY <1>1, <3>1, <3>2, PartMoves
    <3>6. QED
      BY <3>3, <3>4, <3>5
  <2>4. CASE script[1].step = "measure"
    <3>1. script' = <<>> /\ DOMAIN script' = {} /\ "measure" \in failed'
      BY <2>1, <2>4 DEF GaveUp
    <3>2. SayInv' /\ Gone
      BY <3>1 DEF SayInv, Gone
    <3>3. QED
      BY <3>2
  <2>5. QED
    BY <1>1, <2>2, <2>3, <2>4 DEF Waits
<1>8. QED
  BY <1>6, <1>7, WaitOutcome DEF ProtocolInv

\* So does a poll.
LEMMA ChosenPoll ==
  ASSUME ProtocolInv, ChosenInv, ReadPoll \/ PollTimesOut
  PROVE  ChosenInv'
<1>1. /\ TypeOK /\ AnswerInv /\ PollsInv /\ SayInv
      /\ Done /\ UNCHANGED <<link, mode, dirty, job, failed, device>> /\ script' \in Seq(Items)
      /\ script[1].op = "ReadyPoll" /\ Len(script) \in Nat /\ Len(script) > 1 /\ script[2].step \in Waits
  BY PollOutcome DEF ProtocolInv, ChosenInv
<1>2. /\ awaiting /\ ~awaiting' /\ job # "none" /\ script # <<>> /\ script[1].step = "send"
      /\ DOMAIN script = 1 .. Len(script) /\ DOMAIN script' = 1 .. Len(script') /\ Len(script') \in Nat
      /\ 1 \in DOMAIN script /\ 2 \in DOMAIN script /\ script[2] \in Items
  BY <1>1, CommandHead, LenProperties, ElementOfSeq DEF Done, TypeOK, Items
<1>3. ~Key(script[1]) /\ ~Key(script[2])
  BY <1>1, <1>2 DEF Waits, Key, Rate, Chosen, Starts, Unforced, Sent
<1>4. SUFFICES SayInv' /\ (job \in Setups \cup {"burst"} => Gone \/ \E d \in Int : Moves(d))
  BY <1>1, <1>2, <1>4, MovesKeep DEF ChosenInv, DirtyInv
<1>5. CASE script[2].step \in {"wait", "again"} /\ script' = Halves
  <2>1. job = "burst"
    BY <1>1, <1>2, <1>5, PollJob
  <2>2. \A i \in DOMAIN script' : Bare(script'[i])
    BY <1>2, <1>5, HalvesAre, BareItems
  <2>3. QED
    BY <1>1, <2>1, <2>2, BurstGone
<1>6. CASE Drops(2)
  <2>1. \A i \in DOMAIN script : i <= 2 => i = 1 \/ i = 2
    BY <1>2
  <2>2. (\E d \in Int : Moves(d)) /\ \A i \in DOMAIN script' : \E j \in DOMAIN script : script'[i] = script[j]
    BY <1>1, <1>3, <1>6, <2>1, DropsMove
  <2>3. QED
    BY <1>1, <2>2, SayNext
<1>7. CASE Watched
  <2>1. /\ Len(script') = Len(script) /\ Bare(script'[1]) /\ ~Key(script'[1])
        /\ \A i \in 2 .. Len(script') : script'[i] = script[i]
    BY <1>7, BareItems, BareSays DEF Watched
  <2>2. \A i \in DOMAIN script' : i # 1 => i \in DOMAIN script /\ script'[i] = script[i]
    BY <1>2, <2>1
  <2>3. SayInv'
    BY <1>1, <2>1, <2>2, SayNext
  <2>4. \A i \in DOMAIN script' : i + 0 = i /\ i - 0 = i
    BY <1>2
  <2>5. Moves(0)
    BY <1>2, <1>3, <2>1, <2>2, <2>4 DEF Moves
  <2>6. QED
    BY <2>3, <2>5
<1>8. CASE NotReady
  <2>1. /\ Len(script') = Len(script) - 1 /\ script'[1] = [script[2] EXCEPT !.left = 0]
        /\ \A i \in 2 .. Len(script') : script'[i] = script[i + 1]
    BY <1>8 DEF NotReady
  <2>2. script'[1].step = script[2].step /\ script'[1].part = script[2].part /\ ~Key(script'[1])
    <3>1. script[2] \in [step : Waits, part : Parts, left : 0 .. MaxPolls]
      BY <1>1, <1>2 DEF Items, Sends, Marks, Waits
    <3>2. script'[1].step = script[2].step /\ script'[1].part = script[2].part
      BY <2>1, <3>1
    <3>3. QED
      BY <1>1, <3>2 DEF Waits, Key, Rate, Chosen, Starts, Unforced, Sent
  <2>3. \A i \in DOMAIN script' : i # 1 => i + 1 \in DOMAIN script /\ script'[i] = script[i + 1]
    BY <1>1, <1>2, <2>1
  <2>4. SayInv'
    BY <1>1, <1>2, <2>2, <2>3, SayNext
  <2>5. ASSUME NEW i \in DOMAIN script, Key(script[i])
        PROVE  i + (-1) \in DOMAIN script' /\ script'[i + (-1)] = script[i]
    <3>1. i # 1 /\ i # 2
      BY <1>3, <2>5
    <3>2. i + (-1) \in 2 .. Len(script') /\ i + (-1) \in DOMAIN script' /\ (i + (-1)) + 1 = i
      BY <1>1, <1>2, <2>1, <3>1
    <3>3. QED
      BY <2>1, <3>2
  <2>6. \A i \in DOMAIN script' : i - (-1) = i + 1
    BY <1>2
  <2>7. Moves(-1)
    BY <2>2, <2>3, <2>5, <2>6 DEF Moves
  <2>8. QED
    BY <2>4, <2>7
<1>9. QED
  BY <1>5, <1>6, <1>7, <1>8, PollOutcome DEF ProtocolInv

\* A mark is passed: what autoset chose is to be applied, or a frame is published.
LEMMA ChosenMarks ==
  ASSUME ProtocolInv, ChosenInv, Store \/ Publish
  PROVE  ChosenInv'
<1>1. /\ TypeOK /\ SayInv /\ ~awaiting' /\ script # <<>> /\ script' = Tail(script)
      /\ UNCHANGED <<link, mode, job, failed, device>> /\ script[1].step \in {"store", "publish"}
      /\ (Store => dirty' = TRUE /\ script[1].step = "store")
      /\ (Publish => dirty' = dirty /\ script[1].step = "publish")
      /\ 1 \in DOMAIN script /\ DOMAIN script = 1 .. Len(script)
  <2>1. /\ job # "none" /\ script # <<>> /\ ~awaiting /\ script' = Tail(script) /\ awaiting' = awaiting
        /\ UNCHANGED <<link, mode, job, failed, device>>
        /\ (Store => dirty' = TRUE /\ Head(script).step = "store")
        /\ (Publish => dirty' = dirty /\ Head(script).step = "publish")
    BY DEF Store, Publish, At, hostVars
  <2>2. TypeOK /\ SayInv
    BY DEF ProtocolInv, ChosenInv
  <2>3. Head(script) = script[1] /\ 1 \in DOMAIN script /\ DOMAIN script = 1 .. Len(script)
    BY <2>1, <2>2, HeadTyped
  <2>4. QED
    BY <2>1, <2>2, <2>3
<1>2. script' \in Seq(Items) /\ Drops(1)
  BY <1>1, TailDrops
<1>3. ~Key(script[1]) \/ DoneWith
  <2>1. ~Rate(script[1]) /\ ~Chosen(script[1]) /\ ~Starts(script[1]) /\ ~Unforced(script[1])
    BY <1>1 DEF Rate, Chosen, Starts, Unforced, Sent
  <2>2. QED
    BY <1>1, <2>1 DEF Key, DoneWith, Obeyed
<1>4. \A i \in DOMAIN script : i <= 1 => i = 1
  BY <1>1
<1>5. (\E d \in Int : Moves(d)) /\ \A i \in DOMAIN script' : \E j \in DOMAIN script : script'[i] = script[j]
  BY <1>1, <1>2, <1>3, <1>4, DropsMove
<1>6. SayInv'
  BY <1>1, <1>5, SayNext
<1>7. dirty' = dirty \/ (dirty' /\ job = "autoset")
  <2>1. Says(job, script[1]) /\ script[1] \in Items
    BY <1>1, HeadTyped DEF SayInv
  <2>2. CASE Publish
    BY <1>1, <2>2
  <2>3. CASE Store
    <3>1. job \notin {"burst", "open", "config", "generator", "ping", "roll", "poll"}
      BY <1>1, <2>1, <2>3 DEF Says, Bursting, Steady
    <3>2. job # "none"
      BY <2>3 DEF Store, At
    <3>3. QED
      BY <1>1, <2>3, <3>1, <3>2 DEF TypeOK, Jobs
  <2>4. QED
    BY <2>2, <2>3
<1>8. job \in {"open", "config"} => "measure" \notin failed'
  BY <1>1 DEF ChosenInv, DirtyInv
<1>9. QED
  BY <1>1, <1>2, <1>5, <1>6, <1>7, <1>8, MovesKeep

\* The invariant holds in every state.
LEMMA ChosenInductive ==
  ASSUME MaxBehind <= 5 PROVE Spec => []ChosenInv
<1>1. ASSUME Init PROVE ChosenInv
  <2>1. link = "closed" /\ dirty = TRUE /\ job = "none" /\ script = <<>> /\ failed = {}
        /\ awaiting = FALSE
    BY <1>1 DEF Init
  <2>2. QED
    BY <2>1 DEF ChosenInv, SayInv, DirtyInv, SetupInv, Setups, StoreInv, ArmInv, KeptInv
<1>2. ASSUME ProtocolInv, ChosenInv, [Next]_vars PROVE ChosenInv'
  <2>1. CASE Open \/ Iterate \/ SendGenerator \/ KeepAlive \/ BeginAutoset
    BY <1>2, <2>1, ChosenBegins
  <2>2. CASE EndJob \/ Apply \/ Run \/ Stop
    BY <1>2, <2>2, ChosenBetween
  <2>3. CASE Write
    BY <1>2, <2>3, ChosenWrite
  <2>4. CASE Read \/ TimeOut
    BY <1>2, <2>4, ChosenOutcome
  <2>5. CASE Wait
    BY <1>2, <2>5, ChosenWait
  <2>6. CASE ReadPoll \/ PollTimesOut
    BY <1>2, <2>6, ChosenPoll
  <2>7. CASE Store \/ Publish
    BY <1>2, <2>7, ChosenMarks
  <2>8. CASE Arrive \/ UNCHANGED vars
    <3>1. UNCHANGED <<link, mode, dirty, job, script, failed, awaiting, device>>
      BY <2>8 DEF Arrive, vars, hostVars
    <3>2. QED
      BY <1>2, <3>1 DEF ChosenInv, SayInv, Obeyed, DirtyInv, SetupInv, WillSelect, StoreInv, ArmInv, KeptInv
  <2>9. QED
    BY <1>2, <2>1, <2>2, <2>3, <2>4, <2>5, <2>6, <2>7, <2>8 DEF Next, Calls, Transfer
<1>3. QED
  BY <1>1, <1>2, ProtocolInductive, PTL DEF Spec

\* No capture is armed to wait for a trigger that is not chosen, at a rate of roll mode, or
\* in roll mode: 0xa3 clears the trigger, so every configuration, autoset's too, says 0xa3
\* before it chooses; what is not marked as changed stays in the device; and a burst starts
\* in burst mode, after which nothing touches the rate.
THEOREM ProtocolArmedWithTrigger ==
  ASSUME MaxBehind <= 5 PROVE Spec => []ArmedWithTrigger
<1>1. ASSUME ProtocolInv, ChosenInv PROVE ArmedWithTrigger
  <2>1. SUFFICES ASSUME At("send"), Head(script).op = "AcquisitionArm", Head(script).arg = "unforced"
                 PROVE  device.trigger /\ device.rate = "burst" /\ device.mode = "burst"
    BY DEF ArmedWithTrigger
  <2>2. /\ script # <<>> /\ job # "none" /\ Head(script) = script[1] /\ script[1].step = "send"
        /\ 1 \in DOMAIN script /\ TypeOK /\ \A i \in DOMAIN script : i \in Nat \ {0}
        /\ Unforced(script[1])
    BY <1>1, <2>1, HeadTyped DEF At, ProtocolInv, Unforced, Sent
  <2>3. Says(job, script[1])
    BY <1>1, <2>2 DEF ChosenInv, SayInv
  <2>4. job \notin {"open", "config", "generator", "ping", "autoset", "roll", "poll"}
    BY <2>2, <2>3 DEF Says, Steady
  <2>6. job = "burst"
    BY <2>2, <2>4 DEF TypeOK, Jobs
  <2>7. device.mode = "burst"
    BY <1>1, <2>2, <2>6 DEF ChosenInv, ArmInv
  <2>8. device.rate = "burst" /\ device.trigger
    BY <1>1, <2>6 DEF ChosenInv, DirtyInv, KeptInv, ProtocolInv, LinkInv
  <2>9. QED
    BY <2>7, <2>8
<1>2. QED
  BY <1>1, ProtocolInductive, ChosenInductive, PTL
==============================================================================
